---------------------------- MODULE StreamProofs ----------------------------
(***************************************************************************)
(* What the callers of KomClient get.  While the connection lives, each    *)
(* answer in the stream is a whole reply, wherever a callback has left the *)
(* bytes between them, and so a callback reads its own reply to its end:   *)
(* its response tells what the server said.  What a broken connection cut  *)
(* off is noticed by the callbacks that check what they read.              *)
(***************************************************************************)
EXTENDS KomClientProofs

ReplyOf(c) == Reply(verdict[c], c, reqID[c], kind[c])

\* The sign of an answer is the one the server chose for the call it answers.
Signs ==
  /\ \A i \in DOMAIN incoming : IsAnswer(i) => incoming[i].t = verdict[incoming[i].v]
  /\ loop = "dispatch" => head.sign = verdict[head.answers]

\* Each answer in the stream of a living connection is whole, and what follows the header
\* that is being dispatched is the remainder of its reply.
WholeReplies ==
  connected =>
    /\ \A i \in DOMAIN incoming :
         IsAnswer(i) => Begins(incoming, i, ReplyOf(incoming[i].v))
    /\ loop = "dispatch" => Begins(incoming, 1, Remainder(kind[head.call], head.sign))

Stream == Signs /\ WholeReplies

\* Nobody hears of a call whose callback has not run.
Silent == \A c \in Calls : ran[c] = "no" => chan[c] = NoChannel /\ got[c] = "none"

\* The OK method does not fail because of the socket.
Truthful(k) == Rewinds \/ k # "async"

\* What a response says of the server's answer.
Sound(c, r) ==
  /\ kind[c] \in Checking =>
       /\ r # "bad"
       /\ r = "ok" => verdict[c] = Success
       /\ r = "err" => verdict[c] = Failure \/ ~connected
  /\ connected /\ Truthful(kind[c]) =>
       /\ r = "err" <=> verdict[c] = Failure
       /\ verdict[c] # "none"
       /\ kind[c] # "person" => r # "bad"

SoundResponses ==
  \A c \in Calls : /\ \A r \in chan[c].gives : Sound(c, r)
                   /\ got[c] # "none" => Sound(c, got[c])

Outcomes == Silent /\ SoundResponses

SInv == IInv /\ Stream /\ Outcomes

-----------------------------------------------------------------------------
(* The stream. *)

\* The call an answer in the stream is for, and its whole reply.
LEMMA AnswerCall ==
  ASSUME IInv, NEW i \in DOMAIN incoming, IsAnswer(i)
  PROVE  /\ i \in Positions
         /\ incoming[i].v \in Calls /\ incoming[i].t \in AnswerSigns
         /\ verdict[incoming[i].v] \in AnswerSigns /\ Open(incoming[i].v)
         /\ reqID[incoming[i].v] \in Nat /\ kind[incoming[i].v] \in Kinds
         /\ ReplyOf(incoming[i].v) \in Seq(Token)
<1> DEFINE c == incoming[i].v
<1>1. TypeOK /\ Answers
  BY DEF IInv, Correlation
<1>2. incoming[i] \in Token /\ incoming[i].t \in AnswerSigns /\ i \in Positions
  BY <1>1 DEF TypeOK, IsAnswer, Positions
<1>3. c \in Calls
  BY <1>2 DEF Token
<1>4. verdict[c] # "none" /\ Open(c)
  BY <1>1 DEF Answers
<1>5. verdict[c] \in AnswerSigns /\ reqID[c] \in Nat /\ kind[c] \in Kinds
  BY <1>1, <1>3, <1>4 DEF TypeOK, Ids
<1> HIDE DEF c
<1>6. ReplyOf(c) \in Seq(Token)
  BY <1>3, <1>5, ReplyShape DEF ReplyOf
<1> QED
  BY <1>2, <1>3, <1>4, <1>5, <1>6 DEF c

\* The call whose answer is being dispatched.
LEMMA DispatchedCall ==
  ASSUME IInv, loop = "dispatch"
  PROVE  /\ head.sign \in AnswerSigns /\ head.answers \in Calls /\ head.call \in Calls
         /\ kind[head.call] \in Kinds /\ Open(head.call)
         /\ (head.call = head.answers /\ verdict[head.call] # "none") \/ CutHeader
         /\ Remainder(kind[head.call], head.sign) \in Seq(Token)
<1>1. TypeOK /\ Dispatched /\ head \in Header
  BY DEF IInv, Correlation, TypeOK
<1>2. /\ head.sign \in AnswerSigns /\ head.answers \in Calls /\ head.call \in Calls
      /\ kind[head.call] \in Kinds
  BY <1>1 DEF Header, TypeOK
<1>3. Remainder(kind[head.call], head.sign) \in Seq(Plain)
  <2> DEFINE k == kind[head.call]
             sign == head.sign
  <2>1. PICK c \in Calls : c = head.call
    BY <1>2
  <2>2. k \in Kinds /\ sign \in AnswerSigns /\ 0 \in Nat
    BY <1>2
  <2> HIDE DEF k, sign
  <2>3. Remainder(k, sign) \in Seq(Plain)
    BY <2>1, <2>2, ReplyParts
  <2> QED
    BY <2>3 DEF k, sign
<1>4. Plain \subseteq Token
  BY DEF Plain, Token
<1> QED
  BY <1>1, <1>2, <1>3, <1>4, SeqMonotonic DEF Dispatched

\* A fresh connection has an empty stream and silent channels.
LEMMA InitStream == Init => Stream /\ Outcomes
<1> SUFFICES ASSUME Init PROVE Stream /\ Outcomes
  OBVIOUS
<1>1. DOMAIN incoming = {} /\ loop # "dispatch"
  BY DEF Init
<1>2. \A c \in Calls : chan[c] = NoChannel /\ chan[c].gives = {} /\ got[c] = "none"
  BY DEF Init, NoChannel
<1> QED
  BY <1>1, <1>2
     DEF Stream, Signs, WholeReplies, Outcomes, Silent, SoundResponses

\* A step that leaves the stream, the calls and the answers as they are, and does not
\* start a dispatch.
LEMMA QuietStream ==
  ASSUME Stream, UNCHANGED <<incoming, verdict, reqID, kind, connected, head>>,
         loop' = "dispatch" => loop = "dispatch"
  PROVE  Stream'
  BY DEF Stream, Signs, WholeReplies, IsAnswer, ReplyOf

\* The writes of a request, the server's reading of it, a response that is taken, a close,
\* a poll, a panic and a shutdown are such steps.
LEMMA QuietStreamSteps ==
  ASSUME Stream,
         \/ \E c \in Calls : SendBody(c) \/ SendLF(c) \/ Receive(c) \/ CloseChannel(c)
         \/ Poll \/ CallOKPanics \/ ServerRead \/ ShutDown \/ UNCHANGED vars
  PROVE  Stream'
<1>1. /\ UNCHANGED <<incoming, verdict, reqID, kind, connected, head>>
      /\ loop' = "dispatch" => loop = "dispatch"
  BY DEF SendBody, SendLF, Receive, CloseChannel, Poll, CallOKPanics, ServerRead, ShutDown,
         vars, mapVars, callVars, netVars, loopVars, chanVars
<1> QED
  BY <1>1, QuietStream

\* A call that is registered has no answer in the stream yet.
LEMMA RegisterStream ==
  ASSUME IInv, Stream, NEW c \in Calls, Register(c)
  PROVE  Stream'
<1>1. /\ stage[c] = "new" /\ UNCHANGED <<incoming, verdict, connected, loop, head>>
      /\ \A d \in Calls : d # c => reqID'[d] = reqID[d] /\ kind'[d] = kind[d]
  BY DEF IInv, TypeOK, Register, RegisterCallback, netVars, loopVars, chanVars
<1>2. ~Open(c)
  BY <1>1 DEF Open
<1>3. \A i \in DOMAIN incoming : IsAnswer(i) =>
        incoming[i].v # c /\ (ReplyOf(incoming[i].v))' = ReplyOf(incoming[i].v)
  BY <1>1, <1>2, AnswerCall DEF ReplyOf
<1>4. loop = "dispatch" => kind'[head.call] = kind[head.call]
  BY <1>1, <1>2, DispatchedCall
<1> QED
  BY <1>1, <1>3, <1>4 DEF Stream, Signs, WholeReplies, IsAnswer

\* Reading the stream up to a position keeps the answers behind it whole.
LEMMA RestStream ==
  ASSUME IInv, Stream, NEW p \in Positions, incoming' = Rest(incoming, p),
         UNCHANGED <<verdict, reqID, kind, connected>>
  PROVE  \A i \in DOMAIN incoming' : (IsAnswer(i))' =>
           /\ incoming'[i].t = verdict'[incoming'[i].v]
           /\ connected' => Begins(incoming', i, (ReplyOf(incoming[i].v))')
<1> SUFFICES ASSUME NEW i \in DOMAIN incoming', (IsAnswer(i))'
             PROVE  /\ incoming'[i].t = verdict[incoming'[i].v]
                    /\ connected => Begins(incoming', i, ReplyOf(incoming'[i].v))
  BY DEF ReplyOf
<1>1. /\ i \in Positions
      /\ i + p - 1 \in DOMAIN incoming
      /\ IsAnswer(i + p - 1)
      /\ incoming'[i] = incoming[i + p - 1]
  BY RestOfAnswers
<1> DEFINE j == i + p - 1
           c == incoming[j].v
<1>2. incoming'[i].t = verdict[incoming'[i].v]
  BY <1>1 DEF Stream, Signs
<1>3. ReplyOf(c) \in Seq(Token)
  BY <1>1, AnswerCall
<1>4. ASSUME connected PROVE Begins(incoming', i, ReplyOf(c))
  <2>1. Begins(incoming, j, ReplyOf(c))
    BY <1>1, <1>4 DEF Stream, WholeReplies
  <2>2. incoming \in Seq(Token)
    BY DEF IInv, TypeOK
  <2>3. Begins(Rest(incoming, p), i, ReplyOf(c))
    BY <1>1, <1>3, <2>1, <2>2, BeginsInRest
  <2> QED
    BY <2>3
<1> QED
  BY <1>1, <1>2, <1>4

\* On a living connection the header of an answer is three bytes, with the number of its
\* call, and what follows it is the remainder of the reply.
LEMMA WholeHeader ==
  ASSUME IInv, Stream, connected, IsAnswer(1), NEW c, c = incoming[1].v
  PROVE  /\ c \in Calls /\ kind[c] \in Kinds /\ verdict[c] \in AnswerSigns
         /\ AfterUInts(incoming, 2, 1) = 4 /\ 4 <= Len(incoming) + 1
         /\ ReadUInt(incoming, 2) = reqID[c]
         /\ incoming[2].t \notin AnswerSigns /\ incoming[3].t \notin AnswerSigns
         /\ Remainder(kind[c], verdict[c]) \in Seq(Plain)
         /\ Len(ReplyOf(c)) = Len(Remainder(kind[c], verdict[c])) + 3
         /\ Begins(Rest(incoming, 4), 1, Remainder(kind[c], verdict[c]))
<1> DEFINE reply == ReplyOf(c)
           rest == Remainder(kind[c], verdict[c])
<1>1. incoming \in Seq(Token) /\ 1 \in DOMAIN incoming
  BY DEF IInv, TypeOK, IsAnswer
<1>2. /\ c \in Calls /\ verdict[c] \in AnswerSigns /\ reqID[c] \in Nat /\ kind[c] \in Kinds
      /\ reply \in Seq(Token)
  BY <1>1, AnswerCall
<1>3. Begins(incoming, 1, reply)
  BY <1>1 DEF Stream, WholeReplies
<1>4. /\ Len(reply) >= 3 /\ reply[2] = Num(reqID[c])
      /\ \A i \in 2..Len(reply) : reply[i].t \notin AnswerSigns
      /\ rest \in Seq(Plain) /\ Len(reply) = Len(rest) + 3 /\ reply[3].t \in NonDigits
      /\ \A i \in 1..Len(rest) : reply[i + 3] = rest[i]
  <2>1. /\ Len(reply) >= 3 /\ reply[2] = Num(reqID[c])
        /\ \A i \in 2..Len(reply) : reply[i].t \notin AnswerSigns
    <3>1. PICK s \in AnswerSigns, d \in Calls, id \in Nat, k \in Kinds :
            s = verdict[c] /\ d = c /\ id = reqID[c] /\ k = kind[c]
      BY <1>2
    <3>2. reply = Reply(s, d, id, k)
      BY <3>1 DEF ReplyOf
    <3> HIDE DEF reply
    <3>3. /\ Reply(s, d, id, k) \in Seq(Token)
          /\ Len(Reply(s, d, id, k)) >= 3
          /\ Reply(s, d, id, k)[1].t = s /\ Reply(s, d, id, k)[1].v = d
          /\ Reply(s, d, id, k)[2] = Num(id)
          /\ \A i \in 2..Len(Reply(s, d, id, k)) : Reply(s, d, id, k)[i].t \notin AnswerSigns
      BY ReplyShape
    <3>4. /\ Len(reply) >= 3 /\ reply[2] = Num(id)
          /\ \A i \in 2..Len(reply) : reply[i].t \notin AnswerSigns
      BY <3>2, <3>3, Zenon
    <3> QED
      BY <3>1, <3>4
  <2>2. /\ rest \in Seq(Plain) /\ Len(reply) = Len(rest) + 3 /\ reply[3].t \in NonDigits
        /\ \A i \in 1..Len(rest) : reply[i + 3] = rest[i]
    BY <1>2, ReplyParts DEF ReplyOf
  <2> QED
    BY <2>1, <2>2
<1> HIDE DEF reply, rest
<1>5. /\ 2 \in 1..Len(incoming) /\ incoming[2] = reply[2]
      /\ 3 \in 1..Len(incoming) /\ incoming[3] = reply[3]
  <2>1. 2 \in 1..Len(reply) /\ 3 \in 1..Len(reply) /\ 1 + 2 - 1 = 2 /\ 1 + 3 - 1 = 3
    BY <1>2, <1>4
  <2> QED
    BY <1>3, <2>1 DEF Begins
<1>6. /\ incoming[2].t = "num" /\ ReadUInt(incoming, 2) = reqID[c]
      /\ incoming[2].t \notin AnswerSigns /\ incoming[3].t \notin AnswerSigns
  <2>1. 2 \in 2..Len(reply) /\ 3 \in 2..Len(reply)
    BY <1>2, <1>4
  <2>2. reply[2].t = "num" /\ reply[2].v = reqID[c]
    BY <1>4 DEF Num
  <2>3. 2 \in DOMAIN incoming
    BY <1>1, <1>5
  <2> QED
    BY <1>4, <1>5, <2>1, <2>2, <2>3 DEF ReadUInt
<1>7. AfterUInts(incoming, 2, 1) = 4
  <2>1. \A r \in 2..(3 - 1) : incoming[r].t \notin NonDigits
    BY <1>6 DEF NonDigits
  <2>2. 3 \in 2..Len(incoming) /\ incoming[3].t \in NonDigits
    BY <1>4, <1>5
  <2>3. Past(incoming, 2, NonDigits, 1) = 3 + 1
    BY <1>1, <2>1, <2>2, PastFirst DEF Positions
  <2> QED
    BY <2>3 DEF AfterUInts
<1>8. Begins(incoming, 4, rest)
  <2> SUFFICES ASSUME NEW i \in 1..Len(rest)
               PROVE  4 + i - 1 \in 1..Len(incoming) /\ incoming[4 + i - 1] = rest[i]
    BY DEF Begins
  <2>1. i + 3 \in 1..Len(reply) /\ 1 + (i + 3) - 1 = 4 + i - 1
    BY <1>4
  <2>2. 1 + (i + 3) - 1 \in 1..Len(incoming) /\ incoming[1 + (i + 3) - 1] = reply[i + 3]
    BY <1>3, <2>1 DEF Begins
  <2> QED
    BY <1>4, <2>1, <2>2
<1>9. Begins(Rest(incoming, 4), 1, rest)
  <2>1. rest \in Seq(Token)
    BY <1>4, SeqMonotonic DEF Plain, Token
  <2>2. 1 + 4 - 1 = 4 /\ 1 \in Positions /\ 4 \in Positions
    BY DEF Positions
  <2> QED
    BY <1>1, <1>8, <2>1, <2>2, BeginsInRest
<1>10. 4 <= Len(incoming) + 1
  BY <1>1, <1>5
<1> QED
  BY <1>2, <1>4, <1>6, <1>7, <1>9, <1>10 DEF reply, rest

\* The callback that is looked up on a living connection finds the remainder of its own
\* reply.
LEMMA ReadHeaderStream ==
  ASSUME IInv, Stream, ReadHeader
  PROVE  Stream'
<1> DEFINE id == ReadUInt(incoming, 2)
           p == AfterUInts(incoming, 2, 1)
           c == incoming[1].v
<1>1. TypeOK /\ incoming \in Seq(Token) /\ p \in Positions
  BY ReadHeaderPosition DEF IInv, TypeOK
<1>2. /\ UNCHANGED <<verdict, reqID, kind, connected>>
      /\ incoming' = Rest(incoming, p) /\ loop = "reading"
  BY DEF ReadHeader, callVars, netVars, chanVars
<1>3. \A i \in DOMAIN incoming' : (IsAnswer(i))' =>
        /\ incoming'[i].t = verdict'[incoming'[i].v]
        /\ connected' => Begins(incoming', i, (ReplyOf(incoming[i].v))')
  BY <1>1, <1>2, RestStream
<1>4. ASSUME loop' = "dispatch"
      PROVE  /\ incoming # <<>> /\ incoming[1].t \in AnswerSigns /\ Lookup(id) # NoCall
             /\ head'.sign = incoming[1].t /\ head'.answers = c /\ head'.call = Lookup(id)
  BY <1>2, <1>4 DEF ReadHeader
<1>5. ASSUME loop' = "dispatch" PROVE 1 \in DOMAIN incoming /\ IsAnswer(1)
  BY <1>1, <1>4, <1>5 DEF IsAnswer
<1>6. loop' = "dispatch" => head'.sign = verdict'[head'.answers]
  BY <1>2, <1>4, <1>5 DEF Stream, Signs
<1>7. ASSUME loop' = "dispatch", connected
      PROVE  Begins(incoming', 1, Remainder(kind[head'.call], head'.sign))
  <2>1. head'.call = c
    BY <1>4, <1>7, HeaderOfAnswer
  <2>2. head'.sign = verdict[c]
    BY <1>4, <1>5, <1>7 DEF Stream, Signs
  <2> HIDE DEF c
  <2>3. p = 4 /\ Begins(Rest(incoming, 4), 1, Remainder(kind[c], verdict[c]))
    BY <1>5, <1>7, WholeHeader DEF c
  <2> QED
    BY <1>2, <2>1, <2>2, <2>3
<1> HIDE DEF p, id, c
<1> QED
  BY <1>2, <1>3, <1>6, <1>7 DEF Stream, Signs, WholeReplies

\* A callback leaves the stream at some byte, and the answers behind it whole.
LEMMA CallbackStream ==
  ASSUME IInv, Stream, CallOK \/ CallError
  PROVE  Stream'
<1>1. loop = "dispatch"
  BY DEF CallOK, CallError
<1>2. PICK p \in Positions : CallbackRan(head.call, p)
  BY <1>1, CallbackPosition DEF CallOK, CallError, IInv
<1>3. /\ UNCHANGED <<verdict, reqID, kind, connected>>
      /\ incoming' = Rest(incoming, p) /\ loop' = "top"
  BY <1>2 DEF CallbackRan, callVars, netVars
<1>4. \A i \in DOMAIN incoming' : (IsAnswer(i))' =>
        /\ incoming'[i].t = verdict'[incoming'[i].v]
        /\ connected' => Begins(incoming', i, (ReplyOf(incoming[i].v))')
  BY <1>3, RestStream
<1> QED
  BY <1>3, <1>4 DEF Stream, Signs, WholeReplies

\* What is appended to the stream leaves the answers in it, and the remainder of the one
\* that is being dispatched, where they are.
LEMMA AppendedStream ==
  ASSUME IInv, Stream, NEW new \in Seq(Token), incoming' = incoming \o new,
         UNCHANGED <<reqID, kind, connected>>
  PROVE  /\ \A i \in DOMAIN incoming : IsAnswer(i) =>
              /\ i \in DOMAIN incoming' /\ incoming'[i] = incoming[i]
              /\ incoming[i].t = verdict[incoming[i].v]
              /\ connected' => Begins(incoming', i, ReplyOf(incoming[i].v))
         /\ loop = "dispatch" /\ connected' =>
              Begins(incoming', 1, Remainder(kind[head.call], head.sign))
<1>1. incoming \in Seq(Token)
  BY DEF IInv, TypeOK
<1>2. \A i \in DOMAIN incoming : i \in DOMAIN incoming' /\ incoming'[i] = incoming[i]
  <2>1. /\ Len(incoming \o new) = Len(incoming) + Len(new)
        /\ \A i \in 1..Len(incoming) + Len(new) : (incoming \o new)[i] =
             IF i <= Len(incoming) THEN incoming[i] ELSE new[i - Len(incoming)]
    BY <1>1, ConcatProperties
  <2> QED
    BY <1>1, <2>1
<1>3. ASSUME NEW i \in DOMAIN incoming, IsAnswer(i), connected
      PROVE  Begins(incoming', i, ReplyOf(incoming[i].v))
  <2>1. Begins(incoming, i, ReplyOf(incoming[i].v))
    BY <1>3 DEF Stream, WholeReplies
  <2>2. i \in Positions /\ ReplyOf(incoming[i].v) \in Seq(Token)
    BY <1>3, AnswerCall
  <2>3. Begins(incoming \o new, i, ReplyOf(incoming[i].v))
    BY <1>1, <2>1, <2>2, BeginsInConcat
  <2> QED
    BY <2>3
<1>4. ASSUME loop = "dispatch", connected
      PROVE  Begins(incoming', 1, Remainder(kind[head.call], head.sign))
  <2>1. Begins(incoming, 1, Remainder(kind[head.call], head.sign))
    BY <1>4 DEF Stream, WholeReplies
  <2>2. Remainder(kind[head.call], head.sign) \in Seq(Token) /\ 1 \in Positions
    BY <1>4, DispatchedCall DEF Positions
  <2>3. Begins(incoming \o new, 1, Remainder(kind[head.call], head.sign))
    BY <1>1, <2>1, <2>2, BeginsInConcat
  <2> QED
    BY <2>3
<1> QED
  BY <1>2, <1>3, <1>4 DEF Stream, Signs

\* An asynchronous message is no answer.
LEMMA ServerNoticeStream ==
  ASSUME IInv, Stream, ServerNotice
  PROVE  Stream'
<1>1. /\ UNCHANGED <<verdict, reqID, kind, connected, loop, head>>
      /\ incoming \in Seq(Token)
  BY DEF ServerNotice, callVars, loopVars, chanVars, IInv, TypeOK
<1>2. PICK notice \in Seq(Token) :
        /\ incoming' = incoming \o notice
        /\ \A i \in 1..Len(notice) : notice[i].t \notin AnswerSigns
  BY NoticeAppended DEF IInv
<1>3. \A i \in DOMAIN incoming' : (IsAnswer(i))' => i \in DOMAIN incoming /\ IsAnswer(i)
  <2>1. /\ Len(incoming \o notice) = Len(incoming) + Len(notice)
        /\ \A i \in 1..Len(incoming) + Len(notice) : (incoming \o notice)[i] =
             IF i <= Len(incoming) THEN incoming[i] ELSE notice[i - Len(incoming)]
    BY <1>1, ConcatProperties
  <2> SUFFICES ASSUME NEW i \in DOMAIN incoming', (IsAnswer(i))', i \notin DOMAIN incoming
               PROVE  FALSE
    <3>1. \A i \in DOMAIN incoming : incoming'[i] = incoming[i]
      BY <1>1, <1>2, <2>1
    <3> QED
      BY <3>1 DEF IsAnswer
  <2>2. i \in 1..Len(incoming) + Len(notice) /\ ~(i <= Len(incoming))
    BY <1>1, <1>2, <2>1
  <2>3. i - Len(incoming) \in 1..Len(notice) /\ incoming'[i] = notice[i - Len(incoming)]
    BY <1>1, <1>2, <2>1, <2>2
  <2> QED
    BY <1>2, <2>3 DEF IsAnswer
<1>4. /\ \A i \in DOMAIN incoming : IsAnswer(i) =>
           /\ i \in DOMAIN incoming' /\ incoming'[i] = incoming[i]
           /\ incoming[i].t = verdict[incoming[i].v]
           /\ connected' => Begins(incoming', i, ReplyOf(incoming[i].v))
      /\ loop = "dispatch" /\ connected' =>
           Begins(incoming', 1, Remainder(kind[head.call], head.sign))
  BY <1>1, <1>2, AppendedStream
<1>5. \A c : (ReplyOf(c))' = ReplyOf(c)
  BY <1>1 DEF ReplyOf
<1>6. \A i \in DOMAIN incoming' : (IsAnswer(i))' =>
        /\ incoming'[i].t = verdict'[incoming'[i].v]
        /\ connected' => Begins(incoming', i, (ReplyOf(incoming[i].v))')
  <2> SUFFICES ASSUME NEW i \in DOMAIN incoming', (IsAnswer(i))'
               PROVE  /\ incoming'[i].t = verdict[incoming'[i].v]
                      /\ connected' => Begins(incoming', i, ReplyOf(incoming'[i].v))
    BY <1>1 DEF ReplyOf
  <2> QED
    BY <1>3, <1>4
<1> QED
  BY <1>1, <1>4, <1>6 DEF Stream, Signs, WholeReplies

\* The server writes a whole reply, with the sign it chose.
LEMMA ServerReplyStream ==
  ASSUME IInv, Stream, NEW a \in Request, ServerReply(a)
  PROVE  Stream'
<1> DEFINE c == a.call
           n == Len(incoming)
<1>1. /\ UNCHANGED <<reqID, kind, connected, loop, head>> /\ connected
      /\ verdict[c] = "none" /\ incoming \in Seq(Token) /\ n \in Nat
      /\ c \in Calls /\ reqID[c] \in Nat /\ kind[c] \in Kinds
      /\ verdict \in [Calls -> AnswerSigns \cup {"none"}]
  BY DEF ServerReply, callVars, loopVars, chanVars, IInv, TypeOK, Request, Ids
<1>2. PICK s \in AnswerSigns :
        /\ incoming' = incoming \o Reply(s, c, reqID[c], kind[c])
        /\ verdict' = [verdict EXCEPT ![c] = s]
  BY KomClientAssumption DEF ServerReply, AnswerSigns
<1>3. verdict'[c] = s /\ \A d \in Calls : d # c => verdict'[d] = verdict[d]
  BY <1>1, <1>2
<1> DEFINE reply == Reply(s, c, reqID[c], kind[c])
<1> HIDE DEF c
<1>4. /\ reply \in Seq(Token) /\ Len(reply) >= 3 /\ reply[1].t = s /\ reply[1].v = c
      /\ \A i \in 2..Len(reply) : reply[i].t \notin AnswerSigns
  <2>1. c \in Calls /\ reqID[c] \in Nat /\ kind[c] \in Kinds
    BY <1>1 DEF c
  <2>2. /\ reply \in Seq(Token)
        /\ Len(reply) >= 3
        /\ reply[1].t = s /\ reply[1].v = c
        /\ reply[2] = Num(reqID[c])
        /\ \A i \in 2..Len(reply) : reply[i].t \notin AnswerSigns
    BY <2>1, ReplyShape
  <2> QED
    BY <2>2, Zenon
<1>5. (ReplyOf(c))' = reply /\ \A d \in Calls : d # c => (ReplyOf(d))' = ReplyOf(d)
  BY <1>1, <1>3 DEF ReplyOf
<1> HIDE DEF reply
<1>6. incoming' = incoming \o reply
  BY <1>2 DEF reply, c
<1>7. /\ \A i \in DOMAIN incoming : IsAnswer(i) =>
           /\ i \in DOMAIN incoming' /\ incoming'[i] = incoming[i]
           /\ incoming[i].t = verdict[incoming[i].v]
           /\ connected' => Begins(incoming', i, ReplyOf(incoming[i].v))
      /\ loop = "dispatch" /\ connected' =>
           Begins(incoming', 1, Remainder(kind[head.call], head.sign))
  BY <1>1, <1>4, <1>6, AppendedStream
<1>8. /\ Len(incoming') = n + Len(reply)
      /\ \A i \in 1..n : incoming'[i] = incoming[i]
      /\ \A i \in 1..Len(reply) : n + i \in 1..Len(incoming') /\ incoming'[n + i] = reply[i]
  <2>1. /\ Len(incoming \o reply) = n + Len(reply)
        /\ \A i \in 1..n + Len(reply) : (incoming \o reply)[i] =
             IF i <= n THEN incoming[i] ELSE reply[i - n]
    BY <1>1, <1>4, ConcatProperties
  <2> QED
    BY <1>1, <1>4, <1>6, <2>1
<1>9. ASSUME NEW i \in DOMAIN incoming', (IsAnswer(i))'
      PROVE  /\ incoming'[i].t = verdict'[incoming'[i].v]
             /\ connected' => Begins(incoming', i, (ReplyOf(incoming[i].v))')
  <2>1. CASE i \in DOMAIN incoming
    <3>1. IsAnswer(i) /\ incoming'[i] = incoming[i]
      BY <1>1, <1>8, <1>9, <2>1 DEF IsAnswer
    <3>2. incoming[i].v \in Calls /\ verdict[incoming[i].v] \in AnswerSigns
      BY <2>1, <3>1, AnswerCall
    <3>3. incoming[i].v # c
      BY <1>1, <3>2, AnswerSignsAre DEF c
    <3>4. verdict'[incoming'[i].v] = verdict[incoming[i].v]
      BY <1>3, <3>1, <3>2, <3>3
    <3>5. (ReplyOf(incoming[i].v))' = ReplyOf(incoming[i].v)
      <4>1. verdict'[incoming'[i].v] = verdict[incoming[i].v]
            /\ reqID'[incoming'[i].v] = reqID[incoming[i].v]
            /\ kind'[incoming'[i].v] = kind[incoming[i].v]
            /\ incoming'[i].v = incoming[i].v
        BY <1>1, <3>1, <3>4
      <4> QED
        BY <4>1 DEF ReplyOf
    <3> QED
      BY <1>7, <2>1, <3>1, <3>4, <3>5
  <2>2. CASE i \notin DOMAIN incoming
    <3>1. i - n \in 1..Len(reply) /\ n + (i - n) = i
      BY <1>1, <1>4, <1>8, <1>9, <2>2
    <3>2. incoming'[i] = reply[i - n]
      BY <1>8, <3>1
    <3>3. i - n = 1
      <4>1. i - n \notin 2..Len(reply)
        BY <1>4, <1>9, <3>2 DEF IsAnswer
      <4> QED
        BY <1>1, <1>4, <3>1, <4>1
    <3>4. incoming'[i].t = s /\ incoming'[i].v = c
      BY <1>4, <3>2, <3>3
    <3>5. Begins(incoming', i, reply)
      <4> SUFFICES ASSUME NEW j \in 1..Len(reply)
                   PROVE  i + j - 1 \in 1..Len(incoming') /\ incoming'[i + j - 1] = reply[j]
        BY DEF Begins
      <4>1. i + j - 1 = n + j
        BY <1>1, <1>4, <3>1, <3>3
      <4> QED
        BY <1>8, <4>1
    <3>6. (ReplyOf(incoming[i].v))' = reply
      <4>1. (ReplyOf(incoming[i].v))' = Reply(verdict'[c], c, reqID'[c], kind'[c])
        BY <3>4 DEF ReplyOf
      <4> QED
        BY <1>1, <1>3, <4>1 DEF reply, c
    <3> QED
      BY <1>3, <3>4, <3>5, <3>6 DEF c
  <2> QED
    BY <2>1, <2>2
<1>10. loop = "dispatch" => head.sign = verdict'[head.answers]
  <2>1. ASSUME loop = "dispatch" PROVE head.answers \in Calls /\ head.answers # c
    BY <1>1, <2>1, DispatchedCall DEF CutHeader, c
  <2> QED
    BY <1>3, <2>1 DEF Stream, Signs, c
<1> QED
  BY <1>1, <1>7, <1>9, <1>10 DEF Stream, Signs, WholeReplies

\* A break leaves the answers that arrive with the sign they had.
LEMMA DisconnectStream ==
  ASSUME IInv, Stream, Disconnect
  PROVE  Stream'
<1>1. /\ UNCHANGED <<verdict, reqID, kind, loop, head>> /\ ~connected'
  BY DEF Disconnect, callVars, loopVars, chanVars
<1>2. PICK n \in 0..Len(incoming) :
        /\ incoming' \in Seq(Token)
        /\ Len(incoming') = n
        /\ \A i \in 1..n : i \in DOMAIN incoming /\ incoming'[i] = incoming[i]
  BY StreamCut DEF IInv
<1>3. \A i \in DOMAIN incoming' : (IsAnswer(i))' =>
        i \in DOMAIN incoming /\ IsAnswer(i) /\ incoming'[i] = incoming[i]
  BY <1>2 DEF IsAnswer
<1> QED
  BY <1>1, <1>3 DEF Stream, Signs, WholeReplies

-----------------------------------------------------------------------------
(* The responses. *)

\* A step that leaves the channels, the calls' callbacks and the answers as they are.
LEMMA QuietOutcomes ==
  ASSUME Outcomes, UNCHANGED <<ran, chan, got, kind, verdict, connected>>
  PROVE  Outcomes'
  BY DEF Outcomes, Silent, SoundResponses, Sound

\* The writes of a request, the header of a reply, a poll, a panic, the server's reading,
\* its notices and a shutdown are such steps.
LEMMA QuietOutcomesSteps ==
  ASSUME Outcomes,
         \/ \E c \in Calls : SendBody(c) \/ SendLF(c)
         \/ Poll \/ ReadHeader \/ CallOKPanics \/ ServerRead \/ ServerNotice \/ ShutDown
         \/ UNCHANGED vars
  PROVE  Outcomes'
<1>1. UNCHANGED <<ran, chan, got, kind, verdict, connected>>
  BY DEF SendBody, SendLF, Poll, ReadHeader, CallOKPanics, ServerRead, ServerNotice,
         ShutDown, vars, mapVars, callVars, netVars, loopVars, chanVars
<1> QED
  BY <1>1, QuietOutcomes

\* A call that has not been registered has no response.
LEMMA RegisterOutcomes ==
  ASSUME IInv, Outcomes, NEW c \in Calls, Register(c)
  PROVE  Outcomes'
<1>1. /\ stage[c] = "new" /\ UNCHANGED <<ran, chan, got, verdict, connected>>
      /\ \A d \in Calls : d # c => kind'[d] = kind[d]
  BY DEF IInv, TypeOK, Register, netVars, chanVars
<1>2. chan[c].gives = {} /\ got[c] = "none"
  <2>1. ran[c] = "no"
    BY <1>1 DEF IInv, Correlation, Known
  <2> QED
    BY <2>1 DEF Outcomes, Silent, NoChannel
<1>3. \A d \in Calls : \A r : d # c => (Sound(d, r) <=> (Sound(d, r))')
  BY <1>1 DEF Sound
<1> QED
  BY <1>1, <1>2, <1>3 DEF Outcomes, Silent, SoundResponses

\* The caller gets one of the responses that are sent to it.
LEMMA ChannelOutcomes ==
  ASSUME IInv, Outcomes, NEW c \in Calls, Receive(c) \/ CloseChannel(c)
  PROVE  Outcomes'
<1>1. /\ UNCHANGED <<ran, kind, verdict, connected>>
      /\ chan \in [Calls -> Channel] /\ got \in [Calls -> Responses \cup {"none"}]
  BY DEF IInv, TypeOK, Receive, CloseChannel, callVars, netVars
<1>2. chan[c] # NoChannel
  BY DEF Receive, CloseChannel, NoChannel
<1>3. ran[c] # "no"
  BY <1>2 DEF Outcomes, Silent
<1>4. /\ \A d \in Calls : d # c => chan'[d] = chan[d] /\ got'[d] = got[d]
      /\ \A d \in Calls : chan'[d].gives = chan[d].gives
  BY <1>1 DEF Receive, CloseChannel, Channel
<1>5. got'[c] = got[c] \/ got'[c] \in chan[c].gives
  BY <1>1 DEF Receive, CloseChannel
<1>6. Silent'
  BY <1>1, <1>3, <1>4 DEF Outcomes, Silent
<1>7. \A d, r : Sound(d, r) <=> (Sound(d, r))'
  BY <1>1 DEF Sound
<1>8. SoundResponses'
  <2> SUFFICES ASSUME NEW d \in Calls
               PROVE  /\ \A r \in chan[d].gives : Sound(d, r)
                      /\ got'[d] # "none" => Sound(d, got'[d])
    BY <1>4, <1>7 DEF SoundResponses, Sound
  <2>1. /\ \A r \in chan[d].gives : Sound(d, r)
        /\ got[d] # "none" => Sound(d, got[d])
    BY DEF Outcomes, SoundResponses
  <2> QED
    BY <1>4, <1>5, <2>1
<1> QED
  BY <1>6, <1>8 DEF Outcomes

\* What a callback puts on its channel tells what the server said: the callback has read
\* its own reply, and a reply that was cut off is an error to the callbacks that check.
LEMMA NewResponseSound ==
  ASSUME IInv, Stream, loop = "dispatch",
         NEW r \in Results(kind[head.call], head.sign, incoming)
  PROVE  Sound(head.call, r)
<1> DEFINE c == head.call
           k == kind[c]
<1>1. /\ head.sign \in AnswerSigns /\ c \in Calls /\ k \in Kinds
      /\ (c = head.answers /\ verdict[c] # "none") \/ CutHeader
      /\ incoming \in Seq(Token)
  BY DispatchedCall DEF IInv, TypeOK
<1>2. head.sign = verdict[head.answers]
  BY DEF Stream, Signs
<1>3. connected => /\ c = head.answers /\ verdict[c] = head.sign /\ verdict[c] # "none"
                   /\ Begins(incoming, 1, Remainder(k, head.sign))
  BY <1>1, <1>2 DEF CutHeader, Stream, WholeReplies
<1>4. /\ head.sign = Failure => r = "err"
      /\ head.sign = Success => \/ r = Value(k, incoming) /\ (FailsToRead(k, incoming) => k = "async")
                                \/ r = "err" /\ FailsToRead(k, incoming)
  <2>1. r \in Results(k, head.sign, incoming)
    OBVIOUS
  <2> HIDE DEF c, k
  <2> QED
    BY <1>1, <2>1, ResultsAre
<1> HIDE DEF c
<1>5. CASE head.sign = Failure
  <2>1. r = "err"
    BY <1>4, <1>5
  <2>2. connected => verdict[c] = Failure /\ verdict[c] # "none"
    BY <1>3, <1>5
  <2>3. Sound(c, r)
    BY <2>1, <2>2 DEF Sound
  <2> QED
    BY <2>3 DEF c
<1>6. CASE head.sign = Success
  <2>1. ASSUME connected, Truthful(k)
        PROVE  /\ ~FailsToRead(k, incoming) /\ r # "err"
               /\ k # "person" => r = "ok"
    <3>1. Begins(incoming, 1, Remainder(k, "="))
      BY <1>3, <1>6, <2>1 DEF Success
    <3>2. ~FailsToRead(k, incoming)
      BY <1>1, <2>1, <3>1, OwnReplyNoError DEF Truthful
    <3>3. r = Value(k, incoming)
      BY <1>4, <1>6, <3>2
    <3>4. k # "person" => ~IsCut(k, incoming)
      BY <1>1, <2>1, <3>1, OwnReplyRead DEF Truthful
    <3> QED
      BY <3>2, <3>3, <3>4 DEF Value, IsWrong
  <2>2. ASSUME k \in Checking
        PROVE  /\ k # "async" /\ k # "person" /\ Truthful(k)
               /\ FailsToRead(k, incoming) <=> IsCut(k, incoming)
    BY <2>2 DEF Checking, Truthful, FailsToRead
  <2>3. ASSUME k \in Checking PROVE r # "bad"
    <3>1. (r = Value(k, incoming) /\ ~IsCut(k, incoming)) \/ r = "err"
      BY <1>4, <1>6, <2>2, <2>3
    <3> QED
      BY <2>2, <2>3, <3>1 DEF Value, IsWrong
  <2>4. ASSUME k \in Checking, r = "ok" PROVE verdict[c] = Success
    <3>1. ~IsCut(k, incoming)
      BY <1>4, <1>6, <2>2, <2>4
    <3>2. ~CutHeader
      BY <2>4, <3>1, NothingIsCut DEF CutHeader, Checking
    <3> QED
      BY <1>1, <1>2, <1>6, <3>2
  <2>5. ASSUME k \in Checking, r = "err" PROVE ~connected
    BY <2>1, <2>2, <2>5
  <2>6. connected => verdict[c] = Success /\ verdict[c] # Failure /\ verdict[c] # "none"
    BY <1>3, <1>6, AnswerSignsAre
  <2>7. Sound(c, r)
    BY <2>1, <2>3, <2>4, <2>5, <2>6 DEF Sound
  <2> QED
    BY <2>7 DEF c
<1> QED
  BY <1>1, <1>5, <1>6, AnswerSignsAre

\* A callback that has run has put sound responses on its own channel.
LEMMA CallbackOutcomes ==
  ASSUME IInv, Stream, Outcomes, CallOK \/ CallError
  PROVE  Outcomes'
<1> DEFINE c == head.call
           more == Senders(kind[c], head.sign, incoming)
           sent == Results(kind[c], head.sign, incoming)
<1>1. loop = "dispatch"
  BY DEF CallOK, CallError
<1>2. /\ UNCHANGED <<kind, verdict, connected, got>>
      /\ ran' = [ran EXCEPT ![c] = head.sign]
      /\ chan' = [chan EXCEPT ![c].senders = @ + more, ![c].gives = @ \cup sent]
  <2>1. PICK p : CallbackRan(c, p)
    BY DEF CallOK, CallError
  <2> QED
    BY <2>1 DEF CallbackRan, callVars, netVars
<1>3. /\ c \in Calls /\ head.sign # "no"
      /\ ran \in [Calls -> AnswerSigns \cup {"no"}] /\ chan \in [Calls -> Channel]
  <2>1. "no" \notin AnswerSigns
    BY Zenon DEF AnswerSigns
  <2> QED
    BY <1>1, <2>1, DispatchedCall DEF IInv, TypeOK
<1>4. \A r \in sent : Sound(c, r)
  BY <1>1, NewResponseSound
<1> HIDE DEF c, more, sent
<1>5. /\ ran'[c] = head.sign /\ \A d \in Calls : d # c => ran'[d] = ran[d]
      /\ \A d \in Calls : d # c => chan'[d] = chan[d]
      /\ chan'[c].gives = chan[c].gives \cup sent
  BY <1>2, <1>3 DEF Channel
<1>6. \A d, r : Sound(d, r) <=> (Sound(d, r))'
  BY <1>2 DEF Sound
<1>7. Silent'
  BY <1>2, <1>3, <1>5 DEF Outcomes, Silent
<1>8. SoundResponses'
  <2> SUFFICES ASSUME NEW d \in Calls
               PROVE  /\ \A r \in chan'[d].gives : Sound(d, r)
                      /\ got[d] # "none" => Sound(d, got[d])
    BY <1>2, <1>6 DEF SoundResponses, Sound
  <2>1. /\ \A r \in chan[d].gives : Sound(d, r)
        /\ got[d] # "none" => Sound(d, got[d])
    BY DEF Outcomes, SoundResponses
  <2> QED
    BY <1>4, <1>5, <2>1
<1> QED
  BY <1>7, <1>8 DEF Outcomes

\* The call that is answered has no response yet.
LEMMA ServerReplyOutcomes ==
  ASSUME IInv, Outcomes, NEW a \in Request, ServerReply(a)
  PROVE  Outcomes'
<1> DEFINE c == a.call
<1>1. /\ UNCHANGED <<ran, chan, got, kind, connected>> /\ connected
      /\ verdict[c] = "none" /\ c \in Calls
      /\ \A d \in Calls : d # c => verdict'[d] = verdict[d]
  BY DEF IInv, TypeOK, ServerReply, callVars, chanVars, Request
<1>2. chan[c].gives = {} /\ got[c] = "none"
  <2>1. ran[c] = "no"
    BY <1>1 DEF IInv, Correlation, Known
  <2> QED
    BY <1>1, <2>1 DEF Outcomes, Silent, NoChannel
<1> HIDE DEF c
<1>3. \A d \in Calls : \A r : d # c => (Sound(d, r) <=> (Sound(d, r))')
  BY <1>1 DEF Sound
<1> QED
  BY <1>1, <1>2, <1>3 DEF Outcomes, Silent, SoundResponses

\* A break asks less of the responses.
LEMMA DisconnectOutcomes ==
  ASSUME Outcomes, Disconnect
  PROVE  Outcomes'
<1>1. UNCHANGED <<ran, chan, got, kind, verdict>> /\ ~connected'
  BY DEF Disconnect, callVars, chanVars
<1>2. \A d, r : Sound(d, r) => (Sound(d, r))'
  BY <1>1 DEF Sound
<1> QED
  BY <1>1, <1>2 DEF Outcomes, Silent, SoundResponses

-----------------------------------------------------------------------------
(* The invariant, and what it says of the caller's result. *)

\* Every step keeps the stream of a living connection made of whole replies.
LEMMA NextStream == SInv /\ [Next]_vars => Stream'
<1> SUFFICES ASSUME IInv, Stream, [Next]_vars PROVE Stream'
  BY DEF SInv
<1>1. ASSUME NEW c \in Calls, CallerStep(c) PROVE Stream'
  BY <1>1, RegisterStream, QuietStreamSteps DEF CallerStep
<1>2. ASSUME LoopStep PROVE Stream'
  BY <1>2, QuietStreamSteps, ReadHeaderStream, CallbackStream DEF LoopStep
<1>3. ASSUME ServerStep PROVE Stream'
  BY <1>3, QuietStreamSteps, ServerReplyStream, ServerNoticeStream DEF ServerStep
<1> QED
  BY <1>1, <1>2, <1>3, QuietStreamSteps, DisconnectStream DEF Next

\* Every step keeps the responses sound.
LEMMA NextOutcomes == SInv /\ [Next]_vars => Outcomes'
<1> SUFFICES ASSUME IInv, Stream, Outcomes, [Next]_vars PROVE Outcomes'
  BY DEF SInv
<1>1. ASSUME NEW c \in Calls, CallerStep(c) PROVE Outcomes'
  BY <1>1, RegisterOutcomes, ChannelOutcomes, QuietOutcomesSteps DEF CallerStep
<1>2. ASSUME LoopStep PROVE Outcomes'
  BY <1>2, QuietOutcomesSteps, CallbackOutcomes DEF LoopStep
<1>3. ASSUME ServerStep PROVE Outcomes'
  BY <1>3, QuietOutcomesSteps, ServerReplyOutcomes DEF ServerStep
<1> QED
  BY <1>1, <1>2, <1>3, QuietOutcomesSteps, DisconnectOutcomes DEF Next

\* The strengthened invariant holds in every state that can be reached.
LEMMA SoundInductive == Spec => []SInv
<1>1. Init => SInv
  BY InitType, InitCorrelation, InitStream DEF IInv, SInv
<1>2. SInv /\ [Next]_vars => SInv'
  BY NextType, NextCorrelation, NextStream, NextOutcomes DEF IInv, SInv
<1> QED
  BY <1>1, <1>2, PTL DEF Spec

\* A call that has its response is not new.
LEMMA ReturnedIsKnown ==
  ASSUME SInv, NEW c \in Calls, got[c] # "none"
  PROVE  /\ Sound(c, got[c]) /\ ran[c] # "no" /\ stage[c] # "new"
         /\ connected => verdict[c] # "none"
<1>1. ran[c] # "no"
  BY DEF SInv, Outcomes, Silent
<1> QED
  BY <1>1 DEF SInv, IInv, Correlation, Known, Outcomes, SoundResponses

\* Wherever in a reply the connection breaks, a callback that checks the error of its reads
\* never gives its caller a wrong value, a success the server did not send, or an error
\* that neither the server nor the break accounts for: for any number of calls, and
\* whatever the other callbacks have done to the stream.
THEOREM NoSilentCutHolds == Spec => []NoSilentCut
<1>1. ASSUME SInv PROVE NoSilentCut
  <2> SUFFICES ASSUME NEW c \in Calls, kind[c] \in Checking
               PROVE  /\ got[c] # "bad"
                      /\ got[c] = "ok" => verdict[c] = Success
                      /\ got[c] = "err" => verdict[c] = Failure \/ ~connected
    BY Zenon DEF NoSilentCut, Success, Failure
  <2>1. CASE got[c] = "none"
    BY <2>1
  <2>2. CASE got[c] # "none"
    BY <1>1, <2>2, ReturnedIsKnown DEF Sound
  <2> QED
    BY <2>1, <2>2
<1> QED
  BY <1>1, SoundInductive, PTL

-----------------------------------------------------------------------------
(* What the callers that no break can reach get. *)

\* The calls use the callbacks they may use, and nothing breaks the connection.
Steady ==
  /\ \A c \in Calls : stage[c] # "new" => kind[c] \in KindsUsed
  /\ ~MayDisconnect => connected

\* Every step keeps the connection and the callbacks within what the constants allow.
LEMMA NextSteady == TypeOK /\ Steady /\ [Next]_vars => Steady'
<1> SUFFICES ASSUME TypeOK, Steady, [Next]_vars PROVE Steady'
  OBVIOUS
<1>1. ASSUME NEW c \in Calls, CallerStep(c) PROVE Steady'
  <2>1. CASE Register(c)
    BY <2>1 DEF TypeOK, Steady, Register, netVars
  <2>2. CASE SendBody(c) \/ SendLF(c)
    BY <2>2 DEF TypeOK, Steady, SendBody, SendLF
  <2>3. CASE Receive(c) \/ CloseChannel(c)
    BY <2>3 DEF Steady, Receive, CloseChannel, callVars, netVars
  <2> QED
    BY <1>1, <2>1, <2>2, <2>3 DEF CallerStep
<1>2. ASSUME LoopStep PROVE Steady'
  BY <1>2 DEF LoopStep, Poll, ReadHeader, CallOK, CallOKPanics, CallError, CallbackRan,
              Steady, callVars, netVars
<1>3. ASSUME ServerStep PROVE Steady'
  BY <1>3 DEF ServerStep, ServerRead, ServerReply, ServerNotice, Steady, callVars
<1>4. ASSUME Disconnect \/ ShutDown \/ UNCHANGED vars PROVE Steady'
  BY <1>4 DEF Disconnect, ShutDown, Steady, vars, callVars, netVars
<1> QED
  BY <1>1, <1>2, <1>3, <1>4 DEF Next

\* The connection and the callbacks are within what the constants allow.
LEMMA SteadyHolds == Spec => []Steady
<1>1. Init => Steady
  BY DEF Init, Steady
<1> QED
  BY <1>1, NextSteady, TypeCorrect, PTL DEF Spec

\* While the connection lives the caller gets what the server said, a value for a success
\* and an error for a failure: from every callback but the one of get-person-stat, which
\* reads numbers a blank too late, and, with the socket's reader in place of a buffered
\* one, but the one of query-async.
THEOREM TrueResultHolds ==
  ASSUME ~MayDisconnect, \A k \in KindsUsed : Truthful(k) /\ k # "person"
  PROVE  Spec => []TrueResult
<1>1. ASSUME SInv, Steady PROVE TrueResult
  <2> SUFFICES ASSUME NEW c \in Calls, got[c] # "none"
               PROVE  got[c] = "ok" <=> verdict[c] = Success
    BY Zenon DEF TrueResult, Success
  <2>1. /\ Sound(c, got[c]) /\ stage[c] # "new" /\ verdict[c] # "none"
        /\ connected /\ Truthful(kind[c]) /\ kind[c] # "person"
    BY <1>1, ReturnedIsKnown DEF Steady
  <2>2. got[c] \in Responses /\ verdict[c] \in AnswerSigns
    BY <1>1, <2>1 DEF SInv, IInv, TypeOK
  <2>3. (got[c] = "err" <=> verdict[c] = Failure) /\ got[c] # "bad"
    BY <2>1 DEF Sound
  <2> QED
    BY <2>2, <2>3, AnswerSignsAre DEF Responses
<1> QED
  BY <1>1, SoundInductive, SteadyHolds, PTL
=============================================================================
