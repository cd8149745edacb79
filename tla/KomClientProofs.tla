-------------------------- MODULE KomClientProofs --------------------------
(***************************************************************************)
(* What holds of KomClient for every set of calls, any number of request   *)
(* numbers and concurrent callers, with and without a look-ahead that is   *)
(* given back, for all callbacks and answers, and under disconnects at any *)
(* byte, notices and shutdown.                                             *)
(***************************************************************************)
EXTENDS KomClient, RepliesProofs

-----------------------------------------------------------------------------
(* Types. *)

\* A fresh connection is well typed.
LEMMA InitType == Init => TypeOK
<1> SUFFICES ASSUME Init PROVE TypeOK
  OBVIOUS
<1>1. 0 \in Ids
  BY KomClientAssumption DEF Ids
<1>2. "generic" \in Kinds
  BY DEF Kinds
<1>3. outgoing \in Seq(Calls \cup {LF}) /\ incoming \in Seq(Token)
  BY DEF Init
<1>4. chan \in [Calls -> Channel]
  BY DEF Init, Channel, NoChannel
<1>5. /\ asyncMap \in [Ids -> Calls \cup {NoCall}]
      /\ nextRequest \in Ids
      /\ reqID \in [Calls -> Ids]
      /\ kind \in [Calls -> Kinds]
      /\ stage \in [Calls -> Stages]
  BY <1>1, <1>2 DEF Init, Stages
<1>6. /\ accepted \in SUBSET Request
      /\ verdict \in [Calls -> AnswerSigns \cup {"none"}]
      /\ ran \in [Calls -> AnswerSigns \cup {"no"}]
      /\ got \in [Calls -> Responses \cup {"none"}]
  BY DEF Init
<1>7. /\ connected \in BOOLEAN /\ notices \in Nat /\ shutdown \in BOOLEAN
      /\ loop \in {"top", "reading", "dispatch", "stopped", "panicked"}
      /\ head \in Header \cup {NoHeader} /\ loop # "dispatch"
  BY DEF Init
<1> QED
  BY <1>3, <1>4, <1>5, <1>6, <1>7 DEF TypeOK

\* registerCallback keeps the request counter inside the numbers there are.
LEMMA RegisterType ==
  ASSUME TypeOK, NEW c \in Calls, Register(c)
  PROVE  TypeOK'
<1>1. (nextRequest + 1) % IdSpace \in Ids
  BY KomClientAssumption DEF TypeOK, Ids
<1>2. asyncMap' \in [Ids -> Calls \cup {NoCall}] /\ reqID' \in [Calls -> Ids]
  BY DEF TypeOK, Register, RegisterCallback
<1>3. stage' \in [Calls -> Stages]
  BY DEF TypeOK, Register, Stages
<1>4. kind' \in [Calls -> Kinds]
  BY KomClientAssumption DEF TypeOK, Register
<1> QED
  BY <1>1, <1>2, <1>3, <1>4
     DEF TypeOK, Register, RegisterCallback, netVars, loopVars, chanVars

\* The two writes of send append a body or a line feed to what the server is to read.
LEMMA SendType ==
  ASSUME TypeOK, NEW c \in Calls, SendBody(c) \/ SendLF(c)
  PROVE  TypeOK'
<1>1. stage' \in [Calls -> Stages]
  BY DEF TypeOK, SendBody, SendLF, Stages
<1>2. outgoing' \in Seq(Calls \cup {LF})
  <2>1. PICK w \in Calls \cup {LF}, ok \in BOOLEAN :
          outgoing' = IF ok THEN Append(outgoing, w) ELSE outgoing
    BY DEF SendBody, SendLF, Write
  <2>2. outgoing \in Seq(Calls \cup {LF})
    BY DEF TypeOK
  <2> QED
    BY <2>1, <2>2, AppendProperties
<1> QED
  BY <1>1, <1>2 DEF TypeOK, SendBody, SendLF, mapVars, loopVars, chanVars

\* A response that is taken, and a close, leave no negative count of goroutines.
LEMMA ChannelType ==
  ASSUME TypeOK, NEW c \in Calls, Receive(c) \/ CloseChannel(c)
  PROVE  TypeOK'
<1>1. chan \in [Calls -> Channel]
  BY DEF TypeOK
<1>2. chan' \in [Calls -> Channel]
  <2>1. CASE Receive(c)
    <3>1. chan[c].senders - 1 \in Nat
      BY <1>1, <2>1 DEF Receive, Channel
    <3>2. chan[c].closers + 1 \in Nat
      BY <1>1 DEF Channel
    <3> QED
      BY <1>1, <2>1, <3>1, <3>2, ZenonT(30) DEF Receive, Channel
  <2>2. CASE CloseChannel(c)
    <3>1. chan[c].closers - 1 \in Nat
      BY <1>1, <2>2 DEF CloseChannel, Channel
    <3> QED
      BY <1>1, <2>2, <3>1 DEF CloseChannel, Channel
  <2> QED
    BY <2>1, <2>2
<1>3. got' \in [Calls -> Responses \cup {"none"}]
  <2>1. chan[c].gives \subseteq Responses
    BY <1>1 DEF Channel
  <2> QED
    BY <2>1 DEF TypeOK, Receive, CloseChannel
<1>4. /\ loop' \in {"top", "reading", "dispatch", "stopped", "panicked"}
      /\ loop' = "dispatch" => head' \in Header
  BY DEF TypeOK, Receive, CloseChannel, loopVars
<1>5. UNCHANGED <<mapVars, callVars, netVars, incoming, shutdown, head, ran>>
  BY DEF Receive, CloseChannel, loopVars
<1> QED
  BY <1>2, <1>3, <1>4, <1>5 DEF TypeOK, mapVars, callVars, netVars

\* The select of receiveLoop, and a panic, move nothing but the loop.
LEMMA LoopOnlyType ==
  ASSUME TypeOK, Poll \/ CallOKPanics
  PROVE  TypeOK'
  BY DEF TypeOK, Poll, CallOKPanics, mapVars, callVars, netVars, chanVars

\* The stream after a reader that ends at a position.
LEMMA RestType ==
  ASSUME TypeOK, NEW p \in Positions, incoming' = Rest(incoming, p)
  PROVE  incoming' \in Seq(Token)
<1>1. incoming \in Seq(Token)
  BY DEF TypeOK
<1> QED
  BY <1>1, RestOfStream

\* The header ends at a position of the stream or past it.
LEMMA ReadHeaderPosition ==
  ASSUME TypeOK
  PROVE  AfterUInts(incoming, 2, 1) \in Positions
<1>1. incoming \in Seq(Token) /\ 2 \in Positions
  BY DEF TypeOK, Positions
<1> QED
  BY <1>1, PrimitivePositions

\* What getCallback returns to receiveLoop, if anything, is a registered callback.
LEMMA ReadHeaderType ==
  ASSUME TypeOK, ReadHeader
  PROVE  TypeOK'
<1> DEFINE id == ReadUInt(incoming, 2)
<1>1. asyncMap' \in [Ids -> Calls \cup {NoCall}]
  BY DEF TypeOK, ReadHeader, GetCallback
<1>2. incoming' \in Seq(Token)
  BY ReadHeaderPosition, RestType DEF ReadHeader
<1>3. /\ head' \in Header \cup {NoHeader}
      /\ loop' = "dispatch" => head' \in Header
      /\ loop' \in {"top", "reading", "dispatch", "stopped", "panicked"}
  <2>1. Lookup(id) \in Calls \cup {NoCall}
    BY DEF TypeOK, Lookup
  <2>2. CASE ~(incoming # <<>> /\ incoming[1].t \in AnswerSigns /\ Lookup(id) # NoCall)
    BY <2>2 DEF TypeOK, ReadHeader
  <2>3. CASE incoming # <<>> /\ incoming[1].t \in AnswerSigns /\ Lookup(id) # NoCall
    <3>1. incoming[1] \in Token
      BY <2>3 DEF TypeOK
    <3>2. incoming[1].v \in Calls
      BY <2>3, <3>1 DEF Token
    <3>3. loop' = "dispatch" /\
          head' = [sign |-> incoming[1].t, answers |-> incoming[1].v, call |-> Lookup(id)]
      BY <2>3 DEF ReadHeader
    <3> QED
      BY <2>1, <2>3, <3>2, <3>3 DEF Header
  <2> QED
    BY <2>2, <2>3
<1> QED
  BY <1>1, <1>2, <1>3 DEF TypeOK, ReadHeader, callVars, netVars, chanVars

\* So do both methods of the dispatched callback.
LEMMA CallbackPosition ==
  ASSUME TypeOK, loop = "dispatch"
  PROVE  /\ OKEnd(kind[head.call], incoming) \in Positions
         /\ ErrorEnd(kind[head.call], incoming) \in Positions
<1>1. incoming \in Seq(Token) /\ kind[head.call] \in Kinds
  BY DEF TypeOK, Header
<1> QED
  BY <1>1, OKPosition, ErrorPosition

\* A callback leaves a stream and starts some more goroutines.
LEMMA CallbackType ==
  ASSUME TypeOK, CallOK \/ CallError
  PROVE  TypeOK'
<1>1. head \in Header /\ loop = "dispatch"
  BY DEF TypeOK, CallOK, CallError
<1>2. PICK end \in Positions : CallbackRan(head.call, end)
  BY <1>1, CallbackPosition DEF CallOK, CallError
<1>3. incoming' \in Seq(Token)
  BY <1>2, RestType DEF CallbackRan
<1>4. ran' \in [Calls -> AnswerSigns \cup {"no"}]
  BY <1>1, <1>2 DEF TypeOK, CallbackRan, Header
<1>5. chan' \in [Calls -> Channel]
  <2> DEFINE c == head.call
             more == Senders(kind[c], head.sign, incoming)
             sent == Results(kind[c], head.sign, incoming)
  <2>1. more \in Nat /\ sent \subseteq Responses
    BY <1>1, ResultsAreResponses DEF Header
  <2>2. chan \in [Calls -> Channel] /\ c \in Calls
    BY <1>1 DEF TypeOK, Header
  <2>3. chan' = [chan EXCEPT ![c].senders = @ + more, ![c].gives = @ \cup sent]
    BY <1>2 DEF CallbackRan
  <2> HIDE DEF c, more, sent
  <2>4. chan[c].senders + more \in Nat /\ chan[c].gives \cup sent \subseteq Responses
    BY <2>1, <2>2 DEF Channel
  <2> QED
    BY <2>2, <2>3, <2>4 DEF Channel
<1>6. loop' = "top"
  BY <1>2 DEF CallbackRan
<1> QED
  BY <1>2, <1>3, <1>4, <1>5, <1>6 DEF TypeOK, CallbackRan, mapVars, callVars, netVars


\* The line feed ServerRead stops at is the first: what precedes it are bodies.
LEMMA FirstLine ==
  ASSUME TypeOK, NEW i \in LineFeeds, \A j \in LineFeeds : i <= j, i # 1
  PROVE  1 \in DOMAIN outgoing /\ outgoing[1] \in Calls
<1>1. outgoing \in Seq(Calls \cup {LF})
  BY DEF TypeOK
<1>2. i \in 1..Len(outgoing)
  BY <1>1 DEF LineFeeds
<1>3. 1 \in DOMAIN outgoing /\ ~(i <= 1)
  BY <1>1, <1>2
<1>4. outgoing[1] # LF
  BY <1>3 DEF LineFeeds
<1> QED
  BY <1>1, <1>3, <1>4

\* The server takes a line whose first write is a body as the request of a call.
LEMMA ServerReadType ==
  ASSUME TypeOK, ServerRead
  PROVE  TypeOK'
<1>1. PICK i \in LineFeeds :
        /\ \A j \in LineFeeds : i <= j
        /\ outgoing' = Rest(outgoing, i + 1)
        /\ accepted' = IF i = 1 THEN accepted
                       ELSE accepted \cup {[call |-> outgoing[1], whole |-> i = 2]}
  BY DEF ServerRead
<1>2. outgoing \in Seq(Calls \cup {LF}) /\ i + 1 \in Positions
  BY DEF TypeOK, LineFeeds, Positions
<1>3. outgoing' \in Seq(Calls \cup {LF})
  BY <1>1, <1>2, RestOfStream
<1>4. accepted' \in SUBSET Request
  <2>1. CASE i = 1
    BY <1>1, <2>1 DEF TypeOK
  <2>2. CASE i # 1
    <3>1. [call |-> outgoing[1], whole |-> i = 2] \in Request
      BY <1>1, <2>2, FirstLine DEF Request
    <3> QED
      BY <1>1, <2>2, <3>1 DEF TypeOK
  <2> QED
    BY <2>1, <2>2
<1> QED
  BY <1>3, <1>4 DEF TypeOK, ServerRead, mapVars, callVars, loopVars, chanVars

\* What ServerReply appends, and to what.
LEMMA ReplyAppended ==
  ASSUME TypeOK, NEW a \in Request, ServerReply(a)
  PROVE  \E s \in AnswerSigns, reply \in Seq(Token) :
           /\ verdict' = [verdict EXCEPT ![a.call] = s]
           /\ incoming' = incoming \o reply
           /\ Len(reply) >= 3
           /\ reply[1].t = s /\ reply[1].v = a.call
           /\ reply[2] = Num(reqID[a.call])
           /\ \A i \in 2..Len(reply) : reply[i].t \notin AnswerSigns
<1>1. a.call \in Calls
  BY DEF Request
<1>2. reqID[a.call] \in Nat /\ kind[a.call] \in Kinds
  BY <1>1 DEF TypeOK, Ids
<1>3. PICK s \in AnswerSigns :
        /\ incoming' = incoming \o Reply(s, a.call, reqID[a.call], kind[a.call])
        /\ verdict' = [verdict EXCEPT ![a.call] = s]
  BY KomClientAssumption DEF ServerReply, AnswerSigns
<1> DEFINE reply == Reply(s, a.call, reqID[a.call], kind[a.call])
<1>4. /\ reply \in Seq(Token)
      /\ Len(reply) >= 3
      /\ reply[1].t = s /\ reply[1].v = a.call
      /\ reply[2] = Num(reqID[a.call])
      /\ \A i \in 2..Len(reply) : reply[i].t \notin AnswerSigns
  BY <1>1, <1>2, ReplyShape
<1> HIDE DEF reply
<1> QED
  BY <1>3, <1>4 DEF reply

\* An answer keeps the stream one of tokens.
LEMMA ServerReplyType ==
  ASSUME TypeOK, NEW a \in Request, ServerReply(a)
  PROVE  TypeOK'
<1>1. PICK s \in AnswerSigns, reply \in Seq(Token) :
        /\ verdict' = [verdict EXCEPT ![a.call] = s]
        /\ incoming' = incoming \o reply
  BY ReplyAppended
<1>2. incoming' \in Seq(Token)
  BY <1>1, ConcatProperties DEF TypeOK
<1>3. verdict' \in [Calls -> AnswerSigns \cup {"none"}]
  BY <1>1 DEF TypeOK
<1>4. accepted' \in SUBSET Request
  BY DEF TypeOK, ServerReply
<1> QED
  BY <1>2, <1>3, <1>4 DEF TypeOK, ServerReply, mapVars, callVars, loopVars, chanVars

\* What ServerNotice appends.
LEMMA NoticeAppended ==
  ASSUME TypeOK, ServerNotice
  PROVE  \E notice \in Seq(Token) :
           /\ incoming' = incoming \o notice
           /\ \A i \in 1..Len(notice) : notice[i].t \notin AnswerSigns
<1>1. PICK n \in Ids : incoming' = incoming \o Notice(n)
  BY DEF ServerNotice
<1>2. n \in Nat
  BY DEF Ids
<1> QED
  BY <1>1, <1>2, NoticeShape

\* An asynchronous message does too.
LEMMA ServerNoticeType ==
  ASSUME TypeOK, ServerNotice
  PROVE  TypeOK'
<1>1. incoming' \in Seq(Token)
  <2>1. PICK notice \in Seq(Token) : incoming' = incoming \o notice
    BY NoticeAppended
  <2>2. incoming \in Seq(Token)
    BY DEF TypeOK
  <2> QED
    BY <2>1, <2>2, ConcatProperties
<1>2. notices' \in Nat
  BY DEF TypeOK, ServerNotice
<1> QED
  BY <1>1, <1>2 DEF TypeOK, ServerNotice, mapVars, callVars, loopVars, chanVars

\* What a broken connection leaves of the stream is a prefix of it.
LEMMA StreamCut ==
  ASSUME TypeOK, Disconnect
  PROVE  \E n \in 0..Len(incoming) :
           /\ incoming' \in Seq(Token)
           /\ Len(incoming') = n
           /\ \A i \in 1..n : i \in DOMAIN incoming /\ incoming'[i] = incoming[i]
<1>1. PICK n \in 0..Len(incoming) : incoming' = SubSeq(incoming, 1, n)
  BY DEF Disconnect
<1>2. incoming \in Seq(Token)
  BY DEF TypeOK
<1> QED
  BY <1>1, <1>2

\* A broken connection cuts the stream, and a shutdown touches one flag.
LEMMA OutsideType ==
  ASSUME TypeOK, Disconnect \/ ShutDown
  PROVE  TypeOK'
<1>1. CASE Disconnect
  BY <1>1, StreamCut DEF TypeOK, Disconnect, mapVars, callVars, loopVars, chanVars
<1>2. CASE ShutDown
  BY <1>2 DEF TypeOK, ShutDown, mapVars, callVars, netVars, chanVars
<1> QED
  BY <1>1, <1>2

\* Every step keeps the types.
LEMMA NextType == TypeOK /\ [Next]_vars => TypeOK'
<1> SUFFICES ASSUME TypeOK, [Next]_vars PROVE TypeOK'
  OBVIOUS
<1>1. ASSUME NEW c \in Calls, CallerStep(c) PROVE TypeOK'
  BY <1>1, RegisterType, SendType, ChannelType DEF CallerStep
<1>2. ASSUME LoopStep PROVE TypeOK'
  BY <1>2, LoopOnlyType, ReadHeaderType, CallbackType DEF LoopStep
<1>3. ASSUME ServerStep PROVE TypeOK'
  BY <1>3, ServerReadType, ServerReplyType, ServerNoticeType DEF ServerStep
<1>4. ASSUME UNCHANGED vars PROVE TypeOK'
  BY <1>4 DEF TypeOK, vars, mapVars, callVars, netVars, loopVars, chanVars
<1> QED
  BY <1>1, <1>2, <1>3, <1>4, OutsideType DEF Next

\* Every state of the client is of the declared types: the map has one entry a number,
\* request numbers stay within their width, and the stream is a sequence of tokens
\* whatever a callback read of it.
THEOREM TypeCorrect == Spec => []TypeOK
<1> QED
  BY InitType, NextType, PTL DEF Spec

-----------------------------------------------------------------------------
(***************************************************************************)
(* A reply reaches the callback of its own call.  The invariant follows a  *)
(* request's number from the call to the map, to the server, into the      *)
(* stream and back: neither OwnReply nor PendingCallbacks is inductive     *)
(* without knowing that the numbers of waiting calls differ, that a call   *)
(* is answered once, and what follows the sign of an answer in the stream. *)
(***************************************************************************)

\* Only registered calls are sent, answered and run, and while the connection lives only
\* answered ones are run.
Known ==
  /\ \A i \in DOMAIN outgoing : outgoing[i] \in Calls => stage[outgoing[i]] # "new"
  /\ \A a \in accepted : stage[a.call] # "new"
  /\ \A c \in Calls : verdict[c] # "none" => stage[c] # "new"
  /\ \A c \in Calls : ran[c] # "no" => stage[c] # "new" /\ (connected => verdict[c] # "none")

\* Calls that wait have different numbers.
OpenIds == \A c, d \in Calls : Open(c) /\ Open(d) /\ reqID[c] = reqID[d] => c = d

IsAnswer(i) == i \in DOMAIN incoming /\ incoming[i].t \in AnswerSigns

\* The sign of an answer is followed by the number of the call it answers, unless it is
\* the last byte a broken connection let through.
HasNumber(i) ==
  \/ i + 1 \in DOMAIN incoming /\ incoming[i + 1] = Num(reqID[incoming[i].v])
  \/ ~connected /\ i = Len(incoming)

\* The call an answer in the stream is for still waits for it and is not the one whose
\* answer is being dispatched.
Answers ==
  \A i \in DOMAIN incoming : IsAnswer(i) =>
    /\ HasNumber(i)
    /\ verdict[incoming[i].v] # "none"
    /\ Open(incoming[i].v)
    /\ loop = "dispatch" => head.answers # incoming[i].v

\* No call has two answers in the stream.
AnsweredOnce ==
  \A i, j \in DOMAIN incoming :
    IsAnswer(i) /\ IsAnswer(j) /\ incoming[i].v = incoming[j].v => i = j

\* The callback that is being dispatched is the one of the answered call, or that of
\* request 0 when the answer's number was cut off and nothing follows.
CutHeader == ~connected /\ reqID[head.call] = 0 /\ incoming = <<>>

Dispatched ==
  loop = "dispatch" =>
    /\ Open(head.call)
    /\ (head.call = head.answers /\ verdict[head.call] # "none") \/ CutHeader

Correlation ==
  Known /\ OpenIds /\ PendingCallbacks /\ Answers /\ AnsweredOnce /\ Dispatched

IInv == TypeOK /\ Correlation

\* Nothing is pending on a fresh connection.
LEMMA InitCorrelation == Init => Correlation
<1> SUFFICES ASSUME Init PROVE Correlation
  OBVIOUS
<1>1. DOMAIN outgoing = {} /\ DOMAIN incoming = {}
  BY DEF Init
<1> QED
  BY <1>1
     DEF Init, Correlation, Known, OpenIds, PendingCallbacks, Answers, AnsweredOnce,
         Dispatched, Open

\* A number that is free when it is given out belongs to no other open call, and the
\* entry registerCallback overwrites was no callback that still waits.
LEMMA RegisterCorrelation ==
  ASSUME IInv, NEW c \in Calls, Register(c), IdIsFree
  PROVE  Correlation'
<1>1. TypeOK /\ Correlation /\ TypeOK'
  BY RegisterType DEF IInv
<1>2. /\ stage[c] = "new" /\ stage' = [stage EXCEPT ![c] = "registered"]
      /\ reqID' = [reqID EXCEPT ![c] = nextRequest]
      /\ asyncMap' = [asyncMap EXCEPT ![nextRequest] = c]
      /\ UNCHANGED <<outgoing, accepted, verdict, incoming, connected, loop, head, ran>>
  BY DEF Register, RegisterCallback, netVars, loopVars, chanVars
<1>3. verdict[c] = "none" /\ ran[c] = "no" /\ ~Open(c)
  BY <1>1, <1>2 DEF Correlation, Known, Open
<1>4. /\ \A d \in Calls : d # c => reqID'[d] = reqID[d] /\ (Open(d))' = Open(d)
      /\ (Open(c))' /\ reqID'[c] = nextRequest
  BY <1>1, <1>2, <1>3 DEF TypeOK, Open
<1>5. Known'
  BY <1>1, <1>2 DEF Correlation, Known, TypeOK
<1>6. OpenIds'
  BY <1>1, <1>4 DEF Correlation, OpenIds, IdIsFree
<1>7. PendingCallbacks'
  <2>1. asyncMap'[nextRequest] = c /\ \A i \in Ids : i # nextRequest => asyncMap'[i] = asyncMap[i]
    BY <1>1, <1>2 DEF TypeOK
  <2>2. \A i \in Ids : asyncMap[i] # NoCall => asyncMap[i] \in Calls \ {c}
    BY <1>1, <1>3 DEF TypeOK, Correlation, PendingCallbacks
  <2>3. loop = "dispatch" => head.call # c
    BY <1>1, <1>3 DEF Correlation, Dispatched
  <2> QED
    BY <1>1, <1>2, <1>4, <2>1, <2>2, <2>3 DEF Correlation, PendingCallbacks
<1>8. Answers'
  <2> SUFFICES ASSUME NEW i \in DOMAIN incoming, incoming[i].t \in AnswerSigns
               PROVE  /\ (HasNumber(i))'
                      /\ verdict[incoming[i].v] # "none"
                      /\ (Open(incoming[i].v))'
                      /\ loop = "dispatch" => head.answers # incoming[i].v
    BY <1>2 DEF Answers, IsAnswer
  <2>1. incoming[i] \in Token
    BY <1>1 DEF TypeOK
  <2>2. incoming[i].v \in Calls
    BY <2>1 DEF Token
  <2>3. incoming[i].v # c
    BY <1>1, <1>3 DEF Correlation, Answers, IsAnswer
  <2> QED
    BY <1>1, <1>2, <1>4, <2>2, <2>3 DEF Correlation, Answers, IsAnswer, HasNumber
<1>9. AnsweredOnce'
  BY <1>1, <1>2 DEF Correlation, AnsweredOnce, IsAnswer
<1>10. Dispatched'
  <2>1. loop = "dispatch" => head.call \in Calls /\ head.call # c
    BY <1>1, <1>3 DEF Correlation, Dispatched, TypeOK, Header
  <2> QED
    BY <1>1, <1>2, <1>4, <2>1 DEF Correlation, Dispatched, CutHeader
<1> QED
  BY <1>5, <1>6, <1>7, <1>8, <1>9, <1>10 DEF Correlation

\* The writes of send concern a call that was registered.
LEMMA SendCorrelation ==
  ASSUME IInv, NEW c \in Calls, SendBody(c) \/ SendLF(c)
  PROVE  Correlation'
<1>1. TypeOK /\ Correlation
  BY DEF IInv
<1>2. /\ UNCHANGED <<asyncMap, reqID, accepted, verdict, incoming, connected, loop, head, ran>>
      /\ stage[c] # "new"
      /\ \A d \in Calls : stage'[d] # "new" <=> stage[d] # "new"
  BY <1>1 DEF SendBody, SendLF, mapVars, loopVars, chanVars, TypeOK
<1>3. \A d \in Calls : (Open(d))' = Open(d)
  BY <1>2 DEF Open
<1>4. PICK w \in {c, LF}, ok \in BOOLEAN :
        outgoing' = IF ok THEN Append(outgoing, w) ELSE outgoing
  BY DEF SendBody, SendLF, Write
<1>5. \A i \in DOMAIN outgoing' : outgoing'[i] = w \/ (i \in DOMAIN outgoing /\ outgoing'[i] = outgoing[i])
  <2>1. outgoing \in Seq(Calls \cup {LF})
    BY <1>1 DEF TypeOK
  <2> QED
    BY <1>4, <2>1
<1>6. Known'
  <2>1. \A i \in DOMAIN outgoing' : outgoing'[i] \in Calls => stage'[outgoing'[i]] # "new"
    BY <1>1, <1>2, <1>4, <1>5, KomClientAssumption DEF Correlation, Known
  <2>2. \A a \in accepted : a.call \in Calls
    BY <1>1 DEF TypeOK, Request
  <2> QED
    BY <1>1, <1>2, <2>1, <2>2 DEF Correlation, Known
<1>7. OpenIds'
  BY <1>1, <1>2, <1>3 DEF Correlation, OpenIds
<1>8. PendingCallbacks'
  BY <1>1, <1>2, <1>3 DEF Correlation, PendingCallbacks, TypeOK
<1>9. Answers'
  <2>1. \A i \in DOMAIN incoming : IsAnswer(i) => incoming[i].v \in Calls
    BY <1>1 DEF TypeOK, IsAnswer, Token
  <2> QED
    BY <1>1, <1>2, <1>3, <2>1 DEF Correlation, Answers, IsAnswer, HasNumber
<1>10. AnsweredOnce'
  BY <1>1, <1>2 DEF Correlation, AnsweredOnce, IsAnswer
<1>11. Dispatched'
  BY <1>1, <1>2, <1>3 DEF Correlation, Dispatched, CutHeader, TypeOK, Header
<1> QED
  BY <1>6, <1>7, <1>8, <1>9, <1>10, <1>11 DEF Correlation

\* A step that leaves the calls, the map, the network and the stream as they are, and
\* does not start a dispatch.
LEMMA QuietCorrelation ==
  ASSUME IInv,
         UNCHANGED <<asyncMap, stage, reqID, outgoing, accepted, verdict, incoming, connected,
                     head, ran>>,
         loop' = "dispatch" => loop = "dispatch"
  PROVE  Correlation'
<1>1. \A d : (Open(d))' = Open(d)
  BY DEF Open
<1> QED
  BY <1>1
     DEF IInv, Correlation, Known, OpenIds, PendingCallbacks, Answers, AnsweredOnce,
         Dispatched, CutHeader, IsAnswer, HasNumber

\* Receive, CloseChannel, Poll, a panic and ShutDown leave the map, the stream and the
\* answers alone.
LEMMA QuietSteps ==
  ASSUME IInv,
         \/ \E c \in Calls : Receive(c) \/ CloseChannel(c)
         \/ Poll \/ CallOKPanics \/ ShutDown \/ UNCHANGED vars
  PROVE  Correlation'
<1>1. /\ UNCHANGED <<asyncMap, stage, reqID, outgoing, accepted, verdict, incoming, connected,
                     head, ran>>
      /\ loop' = "dispatch" => loop = "dispatch"
  BY DEF Receive, CloseChannel, Poll, CallOKPanics, ShutDown, vars, mapVars, callVars,
         netVars, loopVars, chanVars
<1> QED
  BY <1>1, QuietCorrelation

\* Reading the stream up to a position keeps what Answers and AnsweredOnce say of it,
\* when the answer that was dispatched meanwhile is no more in it.
LEMMA RestOfAnswers ==
  ASSUME IInv, NEW p \in Positions, incoming' = Rest(incoming, p),
         UNCHANGED <<reqID, connected>>
  PROVE  /\ AnsweredOnce'
         /\ \A i \in DOMAIN incoming' : (IsAnswer(i))' =>
              /\ i \in Positions
              /\ i + p - 1 \in DOMAIN incoming
              /\ IsAnswer(i + p - 1)
              /\ incoming'[i] = incoming[i + p - 1]
              /\ (HasNumber(i))'
<1>1. incoming \in Seq(Token) /\ Answers /\ AnsweredOnce
  BY DEF IInv, TypeOK, Correlation
<1>2. p \in Nat /\ p >= 1
  BY DEF Positions
<1>3. /\ incoming' \in Seq(Token)
      /\ Len(incoming') = IF p <= Len(incoming) THEN Len(incoming) - p + 1 ELSE 0
      /\ \A i \in 1..Len(incoming') :
           /\ i + p - 1 \in 1..Len(incoming)
           /\ incoming'[i] = incoming[i + p - 1]
  BY <1>1, RestOfStream
<1>4. ASSUME NEW i \in DOMAIN incoming', (IsAnswer(i))'
      PROVE  /\ i \in Positions
             /\ i + p - 1 \in DOMAIN incoming
             /\ IsAnswer(i + p - 1)
             /\ incoming'[i] = incoming[i + p - 1]
             /\ (HasNumber(i))'
  <2>1. i \in 1..Len(incoming') /\ i \in Positions
    BY <1>3 DEF Positions
  <2>2. /\ i + p - 1 \in DOMAIN incoming /\ incoming'[i] = incoming[i + p - 1]
        /\ IsAnswer(i + p - 1)
    BY <1>1, <1>3, <1>4, <2>1 DEF IsAnswer
  <2>3. HasNumber(i + p - 1)
    BY <1>1, <2>2 DEF Answers
  <2>4. (i + p - 1) + 1 = i + p /\ (i + 1) + p - 1 = i + p
    BY <1>2, <2>1 DEF Positions
  <2>5. CASE ~connected /\ i + p - 1 = Len(incoming)
    <3>1. i = Len(incoming')
      BY <1>1, <1>2, <1>3, <2>1, <2>5 DEF Positions
    <3> QED
      BY <2>1, <2>2, <2>5, <3>1 DEF HasNumber
  <2>6. CASE i + p \in DOMAIN incoming /\ incoming[i + p] = Num(reqID[incoming[i + p - 1].v])
    <3>1. i + 1 \in 1..Len(incoming')
      BY <1>1, <1>2, <1>3, <2>1, <2>6 DEF Positions
    <3>2. incoming'[i + 1] = incoming[(i + 1) + p - 1]
      BY <1>3, <3>1
    <3>3. (HasNumber(i))'
      BY <1>3, <2>2, <2>4, <2>6, <3>1, <3>2 DEF HasNumber
    <3> QED
      BY <2>1, <2>2, <3>3
  <2> QED
    BY <2>3, <2>4, <2>5, <2>6 DEF HasNumber
<1>5. AnsweredOnce'
  <2> SUFFICES ASSUME NEW i \in DOMAIN incoming', NEW j \in DOMAIN incoming',
                      (IsAnswer(i))', (IsAnswer(j))', incoming'[i].v = incoming'[j].v
               PROVE  i = j
    BY DEF AnsweredOnce, IsAnswer
  <2>1. i + p - 1 = j + p - 1
    BY <1>1, <1>4 DEF AnsweredOnce
  <2> QED
    BY <1>2, <1>3, <2>1
<1> QED
  BY <1>4, <1>5

\* The number after the sign of an answer leads to the callback of the answered call; a
\* number that was cut off leads to that of request 0.
LEMMA HeaderOfAnswer ==
  ASSUME IInv, incoming # <<>>, incoming[1].t \in AnswerSigns,
         Lookup(ReadUInt(incoming, 2)) # NoCall
  PROVE  LET call == Lookup(ReadUInt(incoming, 2))
         IN  /\ call \in Calls /\ Open(call)
             /\ \/ call = incoming[1].v /\ verdict[call] # "none"
                \/ ~connected /\ reqID[call] = 0 /\ Len(incoming) = 1
<1> DEFINE c == incoming[1].v
           id == ReadUInt(incoming, 2)
<1>1. TypeOK /\ OpenIds /\ PendingCallbacks /\ Answers
  BY DEF IInv, Correlation
<1>2. 1 \in DOMAIN incoming /\ incoming[1] \in Token
  BY <1>1 DEF TypeOK
<1>3. c \in Calls
  BY <1>2 DEF Token
<1>4. HasNumber(1) /\ Open(c) /\ verdict[c] # "none"
  BY <1>1, <1>2 DEF Answers, IsAnswer
<1>5. /\ Lookup(id) = asyncMap[id] /\ asyncMap[id] \in Calls
      /\ Open(asyncMap[id]) /\ reqID[asyncMap[id]] = id
  BY <1>1 DEF Lookup, PendingCallbacks, TypeOK
<1>6. CASE 2 \in DOMAIN incoming /\ incoming[2] = Num(reqID[c])
  <2>1. id = reqID[c]
    BY <1>6 DEF ReadUInt, Num
  <2>2. asyncMap[id] = c
    BY <1>1, <1>3, <1>4, <1>5, <2>1 DEF OpenIds
  <2> QED
    BY <1>4, <1>5, <2>2
<1>7. CASE ~connected /\ 1 = Len(incoming)
  <2>1. 2 \notin DOMAIN incoming
    BY <1>1, <1>7 DEF TypeOK
  <2>2. id = 0
    BY <2>1 DEF ReadUInt
  <2> QED
    BY <1>5, <1>7, <2>2
<1> QED
  BY <1>4, <1>6, <1>7 DEF HasNumber

\* The callback getCallback finds under the number of a reply is that of the answered
\* call, and it is in the map no longer.
LEMMA ReadHeaderCorrelation ==
  ASSUME IInv, ReadHeader
  PROVE  Correlation'
<1> DEFINE id == ReadUInt(incoming, 2)
           p == AfterUInts(incoming, 2, 1)
           isReply == incoming # <<>> /\ incoming[1].t \in AnswerSigns
<1>1. TypeOK /\ Correlation
  BY DEF IInv
<1>2. /\ UNCHANGED <<stage, reqID, outgoing, accepted, verdict, connected, ran>>
      /\ loop = "reading"
      /\ asyncMap' = [i \in Ids |-> IF i = id THEN NoCall ELSE asyncMap[i]]
      /\ incoming' = Rest(incoming, p)
  BY DEF ReadHeader, GetCallback, callVars, netVars, chanVars
<1>3. loop' = "dispatch" => /\ isReply /\ Lookup(id) # NoCall
                            /\ head'.answers = incoming[1].v /\ head'.call = Lookup(id)
  BY <1>2 DEF ReadHeader
<1>4. loop' = "dispatch" =>
        /\ head'.answers = incoming[1].v /\ isReply
        /\ head'.call \in Calls /\ Open(head'.call)
        /\ \/ head'.call = incoming[1].v /\ verdict[head'.call] # "none"
           \/ ~connected /\ reqID[head'.call] = 0 /\ Len(incoming) = 1
  BY <1>3, HeaderOfAnswer
<1>5. \A d : (Open(d))' <=> Open(d)
  BY <1>2 DEF Open
<1>6. Known' /\ OpenIds'
  BY <1>1, <1>2, <1>5 DEF Correlation, Known, OpenIds
<1>7. PendingCallbacks'
  <2> SUFFICES ASSUME NEW i \in Ids, asyncMap'[i] # NoCall
               PROVE  /\ Open(asyncMap[i]) /\ reqID[asyncMap[i]] = i
                      /\ asyncMap'[i] = asyncMap[i]
                      /\ loop' = "dispatch" => head'.call # asyncMap[i]
    BY <1>2, <1>5 DEF PendingCallbacks, Open
  <2>1. i # id /\ asyncMap'[i] = asyncMap[i]
    BY <1>2
  <2>2. Open(asyncMap[i]) /\ reqID[asyncMap[i]] = i
    BY <1>1, <2>1 DEF Correlation, PendingCallbacks
  <2>3. ASSUME loop' = "dispatch" PROVE head'.call # asyncMap[i]
    <3>1. Lookup(id) = asyncMap[id] /\ id \in Ids /\ asyncMap[id] # NoCall
      BY <1>3, <2>3 DEF Lookup
    <3>2. reqID[asyncMap[id]] = id
      BY <1>1, <3>1 DEF Correlation, PendingCallbacks
    <3> QED
      BY <1>3, <2>1, <2>2, <2>3, <3>1, <3>2
  <2> QED
    BY <2>1, <2>2, <2>3
<1>8. p \in Positions /\ (incoming # <<>> => p >= 2)
  <2>1. p \in Positions
    BY <1>1, ReadHeaderPosition
  <2>2. incoming # <<>> => p >= 2
    BY <1>1, PastAdvances DEF AfterUInts, TypeOK
  <2> QED
    BY <2>1, <2>2
<1>9. AnsweredOnce'
  BY <1>2, <1>8, RestOfAnswers
<1>10. Answers'
  <2> SUFFICES ASSUME NEW i \in DOMAIN incoming', (IsAnswer(i))'
               PROVE  /\ (HasNumber(i))'
                      /\ verdict[incoming'[i].v] # "none"
                      /\ Open(incoming'[i].v)
                      /\ loop' = "dispatch" => head'.answers # incoming'[i].v
    BY <1>2, <1>5 DEF Answers, Open
  <2>1. /\ i \in Positions
        /\ i + p - 1 \in DOMAIN incoming
        /\ IsAnswer(i + p - 1)
        /\ incoming'[i] = incoming[i + p - 1]
        /\ (HasNumber(i))'
    BY <1>2, <1>8, RestOfAnswers
  <2>2. i + p - 1 # 1
    <3>1. p \in Nat /\ i \in Nat /\ i >= 1 /\ p >= 2
      <4>1. incoming # <<>>
        BY <1>1, <2>1 DEF TypeOK
      <4> QED
        BY <1>8, <2>1, <4>1 DEF Positions
    <3> HIDE DEF p
    <3> QED
      BY <3>1
  <2>3. /\ verdict[incoming[i + p - 1].v] # "none"
        /\ Open(incoming[i + p - 1].v)
    BY <1>1, <2>1 DEF Correlation, Answers
  <2>4. ASSUME loop' = "dispatch" PROVE head'.answers # incoming[i + p - 1].v
    <3>1. isReply /\ head'.answers = incoming[1].v
      BY <1>4, <2>4
    <3>2. 1 \in DOMAIN incoming /\ IsAnswer(1)
      BY <1>1, <3>1 DEF IsAnswer, TypeOK
    <3> QED
      BY <1>1, <2>1, <2>2, <3>1, <3>2 DEF Correlation, AnsweredOnce
  <2> QED
    BY <2>1, <2>2, <2>3, <2>4
<1>11. Dispatched'
  <2>1. ASSUME Len(incoming) = 1 PROVE incoming' = <<>>
    <3>1. incoming \in Seq(Token) /\ incoming # <<>>
      <4>1. incoming \in Seq(Token)
        BY <1>1 DEF TypeOK
      <4>2. Len(<<>>) = 0
        OBVIOUS
      <4> QED
        BY <2>1, <4>1, <4>2
    <3>2. p \in Nat /\ p >= 2
      BY <1>8, <3>1 DEF Positions
    <3>3. incoming' = Rest(incoming, p)
      BY <1>2
    <3> HIDE DEF p
    <3> QED
      BY <2>1, <3>1, <3>2, <3>3 DEF Rest
  <2> QED
    BY <1>2, <1>4, <1>5, <2>1 DEF Dispatched, CutHeader, Open
<1> QED
  BY <1>6, <1>7, <1>9, <1>10, <1>11 DEF Correlation

\* A callback that has run is not open, and was not in the map any more.
LEMMA CallbackCorrelation ==
  ASSUME IInv, CallOK \/ CallError
  PROVE  Correlation'
<1>1. TypeOK /\ Correlation /\ loop = "dispatch" /\ head \in Header
  BY DEF IInv, CallOK, CallError, TypeOK
<1> DEFINE c == head.call
<1>2. PICK p \in Positions : CallbackRan(c, p)
  BY <1>1, CallbackPosition DEF CallOK, CallError
<1>3. /\ UNCHANGED <<asyncMap, stage, reqID, outgoing, accepted, verdict, connected, head>>
      /\ loop' = "top"
      /\ incoming' = Rest(incoming, p)
      /\ ran' = [ran EXCEPT ![c] = head.sign]
  BY <1>2 DEF CallbackRan, mapVars, callVars, netVars
<1>4. /\ c \in Calls /\ Open(c) /\ (connected => verdict[c] # "none")
      /\ c = head.answers \/ incoming = <<>>
  BY <1>1 DEF Correlation, Dispatched, CutHeader, Header
<1>5. \A d \in Calls : d # c => ran'[d] = ran[d]
  BY <1>1, <1>3 DEF TypeOK
<1>6. /\ \A d \in Calls : d # c => ((Open(d))' <=> Open(d))
      /\ \A d \in Calls : (Open(d))' => Open(d)
  <2>1. head.sign # "no"
    BY <1>1 DEF Header, AnswerSigns
  <2>2. ran'[c] = head.sign
    BY <1>1, <1>3, <1>4 DEF TypeOK
  <2> QED
    BY <1>3, <1>5, <2>1, <2>2 DEF Open
<1>7. Known'
  BY <1>1, <1>3, <1>4, <1>5 DEF Correlation, Known, Open
<1>8. OpenIds'
  BY <1>1, <1>3, <1>6 DEF Correlation, OpenIds
<1>9. PendingCallbacks'
  BY <1>1, <1>3, <1>6 DEF Correlation, PendingCallbacks, TypeOK
<1>10. AnsweredOnce'
  BY <1>3, RestOfAnswers
<1>11. Answers'
  <2> SUFFICES ASSUME NEW i \in DOMAIN incoming', (IsAnswer(i))'
               PROVE  /\ (HasNumber(i))'
                      /\ verdict[incoming'[i].v] # "none"
                      /\ stage[incoming'[i].v] # "new" /\ ran'[incoming'[i].v] = "no"
    BY <1>3 DEF Answers, Open
  <2>1. /\ i \in Positions
        /\ i + p - 1 \in DOMAIN incoming
        /\ IsAnswer(i + p - 1)
        /\ incoming'[i] = incoming[i + p - 1]
        /\ (HasNumber(i))'
    BY <1>3, RestOfAnswers
  <2> DEFINE d == incoming[i + p - 1].v
  <2>2. c = head.answers
    BY <1>4, <2>1
  <2>3. verdict[d] # "none" /\ Open(d) /\ d # c
    BY <1>1, <2>1, <2>2 DEF Correlation, Answers
  <2>4. d \in Calls
    <3>1. incoming[i + p - 1] \in Token /\ incoming[i + p - 1].t \in AnswerSigns
      BY <1>1, <2>1 DEF TypeOK, IsAnswer
    <3> QED
      BY <3>1 DEF Token
  <2>5. stage[d] # "new" /\ ran'[d] = "no"
    BY <1>5, <2>3, <2>4 DEF Open
  <2> QED
    BY <2>1, <2>3, <2>5
<1>12. Dispatched'
  BY <1>3 DEF Dispatched
<1> QED
  BY <1>7, <1>8, <1>9, <1>10, <1>11, <1>12 DEF Correlation

\* A request the server works on is that of a call that was registered.
LEMMA ServerReadCorrelation ==
  ASSUME IInv, ServerRead
  PROVE  Correlation'
<1>1. TypeOK /\ Correlation
  BY DEF IInv
<1>2. UNCHANGED <<asyncMap, stage, reqID, verdict, incoming, connected, loop, head, ran>>
  BY DEF ServerRead, mapVars, callVars, loopVars, chanVars
<1>3. PICK i \in LineFeeds :
        /\ \A j \in LineFeeds : i <= j
        /\ outgoing' = Rest(outgoing, i + 1)
        /\ accepted' = IF i = 1 THEN accepted
                       ELSE accepted \cup {[call |-> outgoing[1], whole |-> i = 2]}
  BY DEF ServerRead
<1>4. \A j \in DOMAIN outgoing' : \E l \in DOMAIN outgoing : outgoing'[j] = outgoing[l]
  <2>1. outgoing \in Seq(Calls \cup {LF}) /\ i + 1 \in Positions
    BY <1>1 DEF TypeOK, LineFeeds, Positions
  <2>2. /\ outgoing' \in Seq(Calls \cup {LF})
        /\ \A j \in 1..Len(outgoing') :
             /\ j + (i + 1) - 1 \in 1..Len(outgoing)
             /\ outgoing'[j] = outgoing[j + (i + 1) - 1]
    <3> DEFINE S == Calls \cup {LF}
               rest == Rest(outgoing, i + 1)
    <3>1. /\ rest \in Seq(S)
          /\ \A j \in 1..Len(rest) :
               j + (i + 1) - 1 \in 1..Len(outgoing) /\ rest[j] = outgoing[j + (i + 1) - 1]
      <4> HIDE DEF S
      <4>1. outgoing \in Seq(S)
        BY <2>1 DEF S
      <4> QED
        BY <2>1, <4>1, RestOfStream
    <3>2. outgoing' = rest
      BY <1>3
    <3> HIDE DEF rest
    <3> QED
      BY <3>1, <3>2
  <2> SUFFICES ASSUME NEW j \in DOMAIN outgoing'
               PROVE  \E l \in DOMAIN outgoing : outgoing'[j] = outgoing[l]
    OBVIOUS
  <2>3. j + (i + 1) - 1 \in DOMAIN outgoing
    BY <2>1, <2>2
  <2> QED
    BY <2>2, <2>3
<1>5. \A a \in accepted' : stage[a.call] # "new"
  <2>1. CASE i = 1
    BY <1>1, <1>3, <2>1 DEF Correlation, Known
  <2>2. CASE i # 1
    <3>1. stage[outgoing[1]] # "new"
      BY <1>1, <1>3, <2>2, FirstLine DEF Correlation, Known
    <3> QED
      BY <1>1, <1>3, <2>2, <3>1 DEF Correlation, Known
  <2> QED
    BY <2>1, <2>2
<1>6. Known'
  BY <1>1, <1>2, <1>4, <1>5 DEF Correlation, Known
<1>7. \A d : (Open(d))' <=> Open(d)
  BY <1>2 DEF Open
<1> QED
  BY <1>1, <1>2, <1>6, <1>7
     DEF Correlation, OpenIds, PendingCallbacks, Answers, AnsweredOnce, Dispatched,
         CutHeader, IsAnswer, HasNumber

\* The one answer the server gives a call carries the number the call was given.
LEMMA ServerReplyCorrelation ==
  ASSUME IInv, NEW a \in Request, ServerReply(a)
  PROVE  Correlation'
<1> DEFINE c == a.call
           n == Len(incoming)
<1>1. TypeOK /\ Correlation /\ incoming \in Seq(Token) /\ n \in Nat /\ c \in Calls
  BY DEF IInv, TypeOK, Request
<1>2. PICK s \in AnswerSigns, reply \in Seq(Token) :
        /\ verdict' = [verdict EXCEPT ![c] = s]
        /\ incoming' = incoming \o reply
        /\ Len(reply) >= 3
        /\ reply[1].t = s /\ reply[1].v = c
        /\ reply[2] = Num(reqID[c])
        /\ \A i \in 2..Len(reply) : reply[i].t \notin AnswerSigns
  BY <1>1, ReplyAppended
<1>3. /\ UNCHANGED <<asyncMap, stage, reqID, outgoing, connected, loop, head, ran>>
      /\ connected
      /\ a \in accepted /\ accepted' = accepted \ {a} /\ verdict[c] = "none"
  BY DEF ServerReply, mapVars, callVars, loopVars, chanVars
<1>4. /\ incoming' \in Seq(Token) /\ Len(incoming') = n + Len(reply)
      /\ \A i \in 1..n : incoming'[i] = incoming[i]
      /\ \A i \in 1..Len(reply) : incoming'[n + i] = reply[i]
  <2>1. /\ incoming \o reply \in Seq(Token)
        /\ Len(incoming \o reply) = Len(incoming) + Len(reply)
        /\ \A i \in 1..Len(incoming) + Len(reply) : (incoming \o reply)[i] =
             IF i <= Len(incoming) THEN incoming[i] ELSE reply[i - Len(incoming)]
    BY <1>1, ConcatProperties
  <2> QED
    BY <1>1, <1>2, <2>1
<1>5. \A i \in DOMAIN incoming' : (IsAnswer(i))' => IsAnswer(i) \/ i = n + 1
  <2> SUFFICES ASSUME NEW i \in DOMAIN incoming', (IsAnswer(i))', ~IsAnswer(i)
               PROVE  i = n + 1
    OBVIOUS
  <2>0. i \notin DOMAIN incoming
    <3>1. i \in DOMAIN incoming => incoming'[i] = incoming[i]
      BY <1>1, <1>4
    <3> QED
      BY <3>1 DEF IsAnswer
  <2>1. i \in 1..(n + Len(reply)) /\ ~(i <= n)
    BY <1>1, <1>4, <2>0
  <2>2. i - n \in 1..Len(reply) /\ incoming'[n + (i - n)] = reply[i - n]
    BY <1>1, <1>4, <2>1
  <2>3. incoming'[i] = reply[i - n]
    BY <1>1, <2>1, <2>2
  <2>4. i - n \notin 2..Len(reply)
    BY <1>2, <2>3 DEF IsAnswer
  <2> QED
    BY <1>1, <2>1, <2>2, <2>4
<1>6. /\ n + 1 \in DOMAIN incoming' /\ incoming'[n + 1].v = c
      /\ n + 2 \in DOMAIN incoming' /\ incoming'[n + 2] = Num(reqID[c])
  <2>1. 1 \in 1..Len(reply) /\ 2 \in 1..Len(reply)
    BY <1>2
  <2> QED
    BY <1>1, <1>2, <1>4, <2>1
<1>7. \A d : (Open(d))' <=> Open(d)
  BY <1>3 DEF Open
<1>8. /\ \A d \in Calls : verdict[d] # "none" => verdict'[d] # "none" /\ d # c
      /\ verdict'[c] # "none" /\ stage[c] # "new" /\ Open(c)
  BY <1>1, <1>2, <1>3 DEF TypeOK, Correlation, Known, AnswerSigns, Open
<1>9. Known'
  <2>1. \A d \in Calls : verdict'[d] # "none" => verdict[d] # "none" \/ d = c
    BY <1>1, <1>2 DEF TypeOK
  <2> QED
    BY <1>1, <1>3, <1>8, <2>1 DEF Correlation, Known
<1>10. OpenIds' /\ PendingCallbacks'
  BY <1>1, <1>3, <1>7 DEF Correlation, OpenIds, PendingCallbacks
<1>11. \A i \in DOMAIN incoming : IsAnswer(i) =>
         /\ incoming'[i] = incoming[i] /\ incoming[i].v \in Calls /\ incoming[i].v # c
         /\ (HasNumber(i))'
         /\ verdict'[incoming[i].v] # "none" /\ Open(incoming[i].v)
         /\ loop = "dispatch" => head.answers # incoming[i].v
  <2> SUFFICES ASSUME NEW i \in DOMAIN incoming, IsAnswer(i)
               PROVE  /\ incoming'[i] = incoming[i] /\ incoming[i].v \in Calls
                      /\ incoming[i].v # c
                      /\ (HasNumber(i))'
                      /\ verdict'[incoming[i].v] # "none" /\ Open(incoming[i].v)
                      /\ loop = "dispatch" => head.answers # incoming[i].v
    OBVIOUS
  <2>1. incoming[i].v \in Calls
    BY <1>1 DEF IsAnswer, Token
  <2>2. /\ i + 1 \in DOMAIN incoming
        /\ incoming[i + 1] = Num(reqID[incoming[i].v])
        /\ verdict[incoming[i].v] # "none"
        /\ Open(incoming[i].v)
        /\ loop = "dispatch" => head.answers # incoming[i].v
    BY <1>1, <1>3 DEF Correlation, Answers, HasNumber
  <2>3. /\ incoming'[i] = incoming[i] /\ incoming'[i + 1] = incoming[i + 1]
        /\ i + 1 \in DOMAIN incoming'
    BY <1>1, <1>4, <2>2
  <2> QED
    BY <1>3, <1>8, <2>1, <2>2, <2>3 DEF HasNumber
<1>12. Answers'
  <2> SUFFICES ASSUME NEW i \in DOMAIN incoming', (IsAnswer(i))'
               PROVE  /\ (HasNumber(i))'
                      /\ verdict'[incoming'[i].v] # "none"
                      /\ Open(incoming'[i].v)
                      /\ loop = "dispatch" => head.answers # incoming'[i].v
    BY <1>3, <1>7 DEF Answers, Open
  <2>1. CASE IsAnswer(i)
    BY <1>11, <2>1 DEF IsAnswer
  <2>2. CASE i = n + 1
    <3>1. (n + 1) + 1 = n + 2
      BY <1>1
    <3>2. loop = "dispatch" => head.answers # c
      BY <1>1, <1>3 DEF Correlation, Dispatched, CutHeader
    <3> QED
      BY <1>3, <1>6, <1>8, <2>2, <3>1, <3>2 DEF HasNumber
  <2> QED
    BY <1>5, <2>1, <2>2
<1>13. AnsweredOnce'
  <2> SUFFICES ASSUME NEW i \in DOMAIN incoming', NEW j \in DOMAIN incoming',
                      (IsAnswer(i))', (IsAnswer(j))', incoming'[i].v = incoming'[j].v
               PROVE  i = j
    BY DEF AnsweredOnce
  <2>1. IsAnswer(i) => i \in DOMAIN incoming /\ incoming'[i].v = incoming[i].v /\ incoming'[i].v # c
    BY <1>11 DEF IsAnswer
  <2>2. IsAnswer(j) => j \in DOMAIN incoming /\ incoming'[j].v = incoming[j].v /\ incoming'[j].v # c
    BY <1>11 DEF IsAnswer
  <2>3. CASE IsAnswer(i) /\ IsAnswer(j)
    BY <1>1, <2>1, <2>2, <2>3 DEF Correlation, AnsweredOnce
  <2>4. CASE ~IsAnswer(i)
    BY <1>5, <1>6, <2>2, <2>4
  <2>5. CASE ~IsAnswer(j)
    BY <1>5, <1>6, <2>1, <2>5
  <2> QED
    BY <2>3, <2>4, <2>5
<1>14. Dispatched'
  BY <1>1, <1>3, <1>7, <1>8 DEF Correlation, Dispatched, CutHeader, TypeOK, Header
<1> QED
  BY <1>9, <1>10, <1>12, <1>13, <1>14 DEF Correlation

\* An asynchronous message answers nobody.
LEMMA ServerNoticeCorrelation ==
  ASSUME IInv, ServerNotice
  PROVE  Correlation'
<1>1. TypeOK /\ Correlation /\ incoming \in Seq(Token)
  BY DEF IInv, TypeOK
<1>2. /\ UNCHANGED <<asyncMap, stage, reqID, outgoing, accepted, verdict, connected,
                     loop, head, ran>>
      /\ connected
  BY DEF ServerNotice, mapVars, callVars, loopVars, chanVars
<1>3. PICK notice \in Seq(Token) :
        /\ incoming' = incoming \o notice
        /\ \A i \in 1..Len(notice) : notice[i].t \notin AnswerSigns
  BY <1>1, NoticeAppended
<1>4. /\ incoming' \in Seq(Token)
      /\ \A i \in DOMAIN incoming : i \in DOMAIN incoming' /\ incoming'[i] = incoming[i]
      /\ \A i \in DOMAIN incoming' : i \notin DOMAIN incoming => incoming'[i].t \notin AnswerSigns
  <2>1. /\ incoming \o notice \in Seq(Token)
        /\ Len(incoming \o notice) = Len(incoming) + Len(notice)
        /\ \A i \in 1..Len(incoming) + Len(notice) : (incoming \o notice)[i] =
             IF i <= Len(incoming) THEN incoming[i] ELSE notice[i - Len(incoming)]
    BY <1>1, ConcatProperties
  <2> QED
    BY <1>1, <1>3, <2>1
<1>5. \A i \in DOMAIN incoming' : (IsAnswer(i))' => i \in DOMAIN incoming /\ IsAnswer(i)
  BY <1>4 DEF IsAnswer
<1>6. \A d : (Open(d))' <=> Open(d)
  BY <1>2 DEF Open
<1>7. Known' /\ OpenIds' /\ PendingCallbacks' /\ Dispatched'
  BY <1>1, <1>2, <1>6
     DEF Correlation, Known, OpenIds, PendingCallbacks, Dispatched, CutHeader
<1>8. AnsweredOnce'
  BY <1>1, <1>4, <1>5 DEF Correlation, AnsweredOnce
<1>9. Answers'
  <2> SUFFICES ASSUME NEW i \in DOMAIN incoming', (IsAnswer(i))'
               PROVE  /\ (HasNumber(i))'
                      /\ verdict[incoming'[i].v] # "none"
                      /\ Open(incoming'[i].v)
                      /\ loop = "dispatch" => head.answers # incoming'[i].v
    BY <1>2, <1>6 DEF Answers, Open
  <2>1. i \in DOMAIN incoming /\ IsAnswer(i) /\ incoming'[i] = incoming[i]
    BY <1>4, <1>5
  <2> QED
    BY <1>1, <1>2, <1>4, <2>1 DEF Correlation, Answers, HasNumber
<1> QED
  BY <1>7, <1>8, <1>9 DEF Correlation

\* A break keeps a prefix of the stream: every sign that is left is one that was there,
\* with its number unless it is the last byte.
LEMMA DisconnectCorrelation ==
  ASSUME IInv, Disconnect
  PROVE  Correlation'
<1>1. TypeOK /\ Correlation /\ incoming \in Seq(Token)
  BY DEF IInv, TypeOK
<1>2. UNCHANGED <<asyncMap, stage, reqID, outgoing, accepted, verdict, loop, head, ran>>
  BY DEF Disconnect, mapVars, callVars, loopVars, chanVars
<1>3. connected /\ ~connected'
  BY DEF Disconnect
<1>4. PICK n \in 0..Len(incoming) :
        /\ incoming' \in Seq(Token)
        /\ Len(incoming') = n
        /\ \A i \in 1..n : i \in DOMAIN incoming /\ incoming'[i] = incoming[i]
  BY <1>1, StreamCut
<1>5. \A d : (Open(d))' <=> Open(d)
  BY <1>2 DEF Open
<1>6. \A i \in DOMAIN incoming' : (IsAnswer(i))' =>
        i \in DOMAIN incoming /\ IsAnswer(i) /\ incoming'[i] = incoming[i]
  BY <1>4 DEF IsAnswer
<1>7. Known' /\ OpenIds' /\ PendingCallbacks' /\ Dispatched'
  BY <1>1, <1>2, <1>3, <1>5
     DEF Correlation, Known, OpenIds, PendingCallbacks, Dispatched, CutHeader
<1>8. AnsweredOnce'
  BY <1>1, <1>6 DEF Correlation, AnsweredOnce
<1>9. Answers'
  <2> SUFFICES ASSUME NEW i \in DOMAIN incoming', (IsAnswer(i))'
               PROVE  /\ (HasNumber(i))'
                      /\ verdict[incoming'[i].v] # "none"
                      /\ Open(incoming'[i].v)
                      /\ loop = "dispatch" => head.answers # incoming'[i].v
    BY <1>2, <1>5 DEF Answers, Open
  <2>1. i \in DOMAIN incoming /\ IsAnswer(i) /\ incoming'[i] = incoming[i]
    BY <1>6
  <2>2. /\ i + 1 \in DOMAIN incoming /\ incoming[i + 1] = Num(reqID[incoming[i].v])
        /\ verdict[incoming[i].v] # "none"
        /\ Open(incoming[i].v)
        /\ loop = "dispatch" => head.answers # incoming[i].v
    BY <1>1, <1>3, <2>1 DEF Correlation, Answers, HasNumber
  <2>3. i = n \/ i + 1 \in 1..n
    BY <1>4
  <2>4. (HasNumber(i))'
    BY <1>2, <1>3, <1>4, <2>1, <2>2, <2>3 DEF HasNumber
  <2> QED
    BY <2>1, <2>2, <2>4
<1> QED
  BY <1>7, <1>8, <1>9 DEF Correlation

\* Every step keeps the correlation of numbers, callbacks and answers.
LEMMA NextCorrelation == IInv /\ [Next]_vars => Correlation'
<1> SUFFICES ASSUME IInv, [Next]_vars PROVE Correlation'
  OBVIOUS
<1>1. ASSUME NEW c \in Calls, CallerStep(c) PROVE Correlation'
  BY <1>1, RegisterCorrelation, SendCorrelation, QuietSteps DEF CallerStep
<1>2. ASSUME LoopStep PROVE Correlation'
  BY <1>2, QuietSteps, ReadHeaderCorrelation, CallbackCorrelation DEF LoopStep
<1>3. ASSUME ServerStep PROVE Correlation'
  BY <1>3, ServerReadCorrelation, ServerReplyCorrelation, ServerNoticeCorrelation DEF ServerStep
<1> QED
  BY <1>1, <1>2, <1>3, QuietSteps, DisconnectCorrelation DEF Next

\* The strengthened invariant holds in every state that can be reached.
LEMMA Inductive == Spec => []IInv
<1>1. Init => IInv
  BY InitType, InitCorrelation DEF IInv
<1>2. IInv /\ [Next]_vars => IInv'
  BY NextType, NextCorrelation DEF IInv
<1> QED
  BY <1>1, <1>2, PTL DEF Spec

\* receiveLoop hands a reply only to the callback of the call it answers, and to each
\* callback at most once: for any number of concurrent callers, in any order of the
\* answers, and also after a callback has left the stream out of step.
THEOREM OwnReplyHolds == Spec => []OwnReply
<1>1. IInv => OwnReply
  BY DEF IInv, Correlation, Dispatched, CutHeader, OwnReply, Open
<1> QED
  BY <1>1, Inductive, PTL

\* A callback that has run is not kept in asyncMap, and one that is there is found
\* under the number its request was sent with.
THEOREM PendingCallbacksHolds == Spec => []PendingCallbacks
<1>1. IInv => PendingCallbacks
  BY DEF IInv, Correlation
<1> QED
  BY <1>1, Inductive, PTL
=============================================================================
