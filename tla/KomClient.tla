----------------------------- MODULE KomClient -----------------------------
(***************************************************************************)
(* KomClient: one connection to a LysKOM server, shared by the goroutines  *)
(* that call its async* methods and by the one that runs receiveLoop.      *)
(*                                                                         *)
(* A call registers a callback under a fresh number, writes its request in *)
(* two writes (the body and the line feed) and hands its caller a channel. *)
(* receiveLoop reads the sign and the number of a reply, takes the         *)
(* callback out of the map and lets it read the rest; the callback starts  *)
(* a goroutine that sends the response and closes the channel.             *)
(*                                                                         *)
(* The server and the connection are the environment: the server answers   *)
(* the complete lines it gets, in any order, each of them once.            *)
(***************************************************************************)
EXTENDS Replies

CONSTANTS
  IdSpace,      \* how many request numbers there are: 2^32 in the code
  Goroutines,   \* bound: the calls that are inside an async* method at a time
  KindsUsed,    \* the callbacks the calls may use
  ReplySigns,   \* how the server may answer a request it understands
  MaxNotices,   \* bound: the asynchronous messages the server sends
  MayDisconnect,  \* may the connection break?
  MayShutDown,  \* may the shutdown channel be closed?  (NewKomClient makes none)
  NoCall,       \* no callback
  LF            \* the line feed that ends a request

ASSUME KomClientAssumption ==
  /\ IdSpace \in Nat \ {0}
  /\ Goroutines \in Nat
  /\ KindsUsed \subseteq Kinds
  /\ ReplySigns \subseteq AnswerSigns
  /\ MaxNotices \in Nat
  /\ MayDisconnect \in BOOLEAN
  /\ MayShutDown \in BOOLEAN
  /\ NoCall \notin Calls
  /\ LF \notin Calls

VARIABLES
  asyncMap,     \* the callback registered under each number, or NoCall
  nextRequest,  \* the number of the next request
  stage,        \* how far each call is inside its async* method
  reqID,        \* the number each call was given
  kind,         \* the callback it registered
  outgoing,     \* the writes the server has not read: a call's body, or LF
  accepted,     \* the requests the server is working on
  verdict,      \* how the server answered each call, or "none"
  incoming,     \* the tokens the client has not read
  connected,    \* FALSE once the connection is broken
  notices,      \* how many asynchronous messages were sent
  shutdown,     \* is the shutdown channel closed?
  loop,         \* where receiveLoop is; "panicked" when the program is gone
  head,         \* the header it read last: sign, call answered, callback found
  ran,          \* the method of each call's callback that ran, or "no"
  chan,         \* each call's channel: the goroutines that use it and what they send
  got           \* what the caller received from it, or "none"

mapVars  == <<asyncMap, nextRequest>>
callVars == <<stage, reqID, kind>>
netVars  == <<outgoing, accepted, verdict, connected, notices>>
loopVars == <<shutdown, loop, head>>
chanVars == <<ran, chan, got>>
vars == <<mapVars, callVars, netVars, incoming, loopVars, chanVars>>

Ids == 0..(IdSpace - 1)
Stages == {"new", "registered", "written", "sent", "failed"}
Request == [call : Calls, whole : BOOLEAN]
Channel == [senders : Nat, closers : Nat, closed : BOOLEAN, gives : SUBSET Responses]
Header == [sign : AnswerSigns, answers : Calls, call : Calls]
NoHeader == [sign |-> "none"]
NoChannel == [senders |-> 0, closers |-> 0, closed |-> FALSE, gives |-> {}]

\* The type invariant.
TypeOK ==
  /\ asyncMap \in [Ids -> Calls \cup {NoCall}]
  /\ nextRequest \in Ids
  /\ stage \in [Calls -> Stages]
  /\ reqID \in [Calls -> Ids]
  /\ kind \in [Calls -> Kinds]
  /\ outgoing \in Seq(Calls \cup {LF})
  /\ accepted \in SUBSET Request
  /\ verdict \in [Calls -> AnswerSigns \cup {"none"}]
  /\ incoming \in Seq(Token)
  /\ connected \in BOOLEAN
  /\ notices \in Nat
  /\ shutdown \in BOOLEAN
  /\ loop \in {"top", "reading", "dispatch", "stopped", "panicked"}
  /\ head \in Header \cup {NoHeader}
  /\ loop = "dispatch" => head \in Header
  /\ ran \in [Calls -> AnswerSigns \cup {"no"}]
  /\ chan \in [Calls -> Channel]
  /\ got \in [Calls -> Responses \cup {"none"}]

Init ==
  /\ asyncMap = [i \in Ids |-> NoCall]
  /\ nextRequest = 0
  /\ stage = [c \in Calls |-> "new"]
  /\ reqID = [c \in Calls |-> 0]
  /\ kind = [c \in Calls |-> "generic"]
  /\ outgoing = <<>>
  /\ accepted = {}
  /\ verdict = [c \in Calls |-> "none"]
  /\ incoming = <<>>
  /\ connected = TRUE
  /\ notices = 0
  /\ shutdown = FALSE
  /\ loop = "top"
  /\ head = NoHeader
  /\ ran = [c \in Calls |-> "no"]
  /\ chan = [c \in Calls |-> NoChannel]
  /\ got = [c \in Calls |-> "none"]

\* A panic ends the program, and there is nothing left to observe of its connection.
Alive == loop # "panicked"

-----------------------------------------------------------------------------
(***************************************************************************)
(* The callers.                                                            *)
(***************************************************************************)
Sending == {c \in Calls : stage[c] \in {"registered", "written"}}

\* The calls whose callback is still to run.
Open(c) == stage[c] # "new" /\ ran[c] = "no"

\* Bound: 2^32 requests are not issued while one of them waits, so that the number
\* a call is given is not the number of a call that still waits.
IdIsFree == \A c \in Calls : Open(c) => reqID[c] # nextRequest

\* Mutant: the entry is made under the counter, after the counter moved.
RegisterCallbackLate(c) ==
  /\ nextRequest' = (nextRequest + 1) % IdSpace
  /\ asyncMap' = [asyncMap EXCEPT ![nextRequest'] = c]
  /\ reqID' = [reqID EXCEPT ![c] = nextRequest]

\* Mutant: a counter that is wider than the number on the wire.
RegisterCallbackWide(c) ==
  /\ nextRequest' = nextRequest + 1
  /\ asyncMap' = [asyncMap EXCEPT ![nextRequest] = c]
  /\ reqID' = [reqID EXCEPT ![c] = nextRequest]

\* registerCallback: one critical section of mapLock.
RegisterCallback(c) ==
  /\ nextRequest' = (nextRequest + 1) % IdSpace
  /\ asyncMap' = [asyncMap EXCEPT ![nextRequest] = c]
  /\ reqID' = [reqID EXCEPT ![c] = nextRequest]

\* An async* method up to its call of send.
Register(c) ==
  /\ Alive
  /\ stage[c] = "new"
  /\ Cardinality(Sending) < Goroutines
  /\ RegisterCallback(c)
  /\ stage' = [stage EXCEPT ![c] = "registered"]
  /\ \E k \in KindsUsed : kind' = [kind EXCEPT ![c] = k]
  /\ UNCHANGED <<netVars, incoming, loopVars, chanVars>>

\* A Write of w on the socket: it may fail, or vanish, once the connection is broken.
Write(w, ok) ==
  /\ ok \/ ~connected
  /\ outgoing' = IF ok THEN Append(outgoing, w) ELSE outgoing

\* send writes the body; an error ends it and the callback stays registered.
SendBody(c) ==
  /\ Alive
  /\ stage[c] = "registered"
  /\ \E ok \in BOOLEAN :
       /\ Write(c, ok)
       /\ stage' = [stage EXCEPT ![c] = IF ok THEN "written" ELSE "failed"]
  /\ UNCHANGED <<mapVars, reqID, kind, accepted, verdict, connected, notices,
                 incoming, loopVars, chanVars>>

\* Mutant: only the last of the callers that are sending ends the line.
SendLFShared(c) ==
  /\ Alive
  /\ stage[c] = "written"
  /\ IF Sending = {c} THEN \E ok \in BOOLEAN : Write(LF, ok) ELSE outgoing' = outgoing
  /\ stage' = [stage EXCEPT ![c] = "sent"]
  /\ UNCHANGED <<mapVars, reqID, kind, accepted, verdict, connected, notices,
                 incoming, loopVars, chanVars>>

\* send writes the line feed, drops the error and returns nil.
SendLF(c) ==
  /\ Alive
  /\ stage[c] = "written"
  /\ \E ok \in BOOLEAN : Write(LF, ok)
  /\ stage' = [stage EXCEPT ![c] = "sent"]
  /\ UNCHANGED <<mapVars, reqID, kind, accepted, verdict, connected, notices,
                 incoming, loopVars, chanVars>>

\* The caller takes one response from the channel its async* method returned with a
\* nil error; the goroutine that sent it goes on to its close, if it has one.
Receive(c) ==
  /\ Alive
  /\ stage[c] = "sent"
  /\ got[c] = "none"
  /\ chan[c].senders > 0
  /\ \E r \in chan[c].gives : got' = [got EXCEPT ![c] = r]
  /\ chan' = [chan EXCEPT ![c].senders = @ - 1,
                          ![c].closers = IF Closes(kind[c], ran[c]) THEN @ + 1 ELSE @]
  /\ UNCHANGED <<mapVars, callVars, netVars, incoming, loopVars, ran>>

\* close(c) panics on a closed channel, and a goroutine that is still to send on a
\* channel panics when it is closed.
CloseChannel(c) ==
  /\ Alive
  /\ chan[c].closers > 0
  /\ chan' = [chan EXCEPT ![c].closers = @ - 1, ![c].closed = TRUE]
  /\ loop' = IF chan[c].closed \/ chan[c].senders > 0 THEN "panicked" ELSE loop
  /\ UNCHANGED <<mapVars, callVars, netVars, incoming, shutdown, head, ran, got>>

-----------------------------------------------------------------------------
(***************************************************************************)
(* receiveLoop.                                                            *)
(***************************************************************************)

\* Mutant: a break in the select's case, which leaves the select and not the loop.
PollBreak ==
  /\ loop = "top"
  /\ loop' = "reading"
  /\ UNCHANGED <<mapVars, callVars, netVars, incoming, shutdown, head, chanVars>>

\* The select on the shutdown channel; past it the loop reads, whatever comes.
Poll ==
  /\ loop = "top"
  /\ loop' = IF shutdown THEN "stopped" ELSE "reading"
  /\ UNCHANGED <<mapVars, callVars, netVars, incoming, shutdown, head, chanVars>>

\* The status byte and the number up to the byte that ends it are there.
HeaderReady == Stops(incoming, 2, NonDigits) # {}

\* Mutant: the entry is looked up and kept.
GetCallbackKeep(id) == asyncMap' = asyncMap

\* getCallback: look the number up and delete it.
GetCallback(id) == asyncMap' = [i \in Ids |-> IF i = id THEN NoCall ELSE asyncMap[i]]
Lookup(id) == IF id \in Ids THEN asyncMap[id] ELSE NoCall

\* Read a header and look its number up, whatever the status byte is.  A broken
\* connection reads as status 0 and number 0.  A method call on the nil Callback of
\* an unknown number panics.
ReadHeader ==
  /\ loop = "reading"
  /\ HeaderReady \/ ~connected
  /\ LET id       == ReadUInt(incoming, 2)
         callback == Lookup(id)
         isReply  == incoming # <<>> /\ incoming[1].t \in AnswerSigns
     IN  /\ GetCallback(id)
         /\ \/ ~isReply /\ loop' = "top" /\ UNCHANGED head
            \/ isReply /\ callback = NoCall /\ loop' = "panicked" /\ UNCHANGED head
            \/ /\ isReply /\ callback # NoCall
               /\ loop' = "dispatch"
               /\ head' = [sign |-> incoming[1].t, answers |-> incoming[1].v, call |-> callback]
  /\ incoming' = Rest(incoming, AfterUInts(incoming, 2, 1))
  /\ UNCHANGED <<nextRequest, callVars, netVars, shutdown, chanVars>>

\* The callback c of the header has read the stream up to its end.
CallbackRan(c, end) ==
  /\ incoming' = Rest(incoming, end)
  /\ loop' = "top"
  /\ ran' = [ran EXCEPT ![c] = head.sign]
  /\ chan' = [chan EXCEPT ![c].senders = @ + Senders(kind[c], head.sign, incoming),
                          ![c].gives = @ \cup Results(kind[c], head.sign, incoming)]
  /\ UNCHANGED <<mapVars, callVars, netVars, shutdown, head, got>>

CallOK ==
  /\ loop = "dispatch" /\ head.sign = "="
  /\ ~OKPanics(kind[head.call], incoming)
  /\ CallbackRan(head.call, OKEnd(kind[head.call], incoming))

CallOKPanics ==
  /\ loop = "dispatch" /\ head.sign = "="
  /\ OKPanics(kind[head.call], incoming)
  /\ loop' = "panicked"
  /\ UNCHANGED <<mapVars, callVars, netVars, incoming, shutdown, head, chanVars>>

CallError ==
  /\ loop = "dispatch" /\ head.sign = "%"
  /\ ErrorReady(kind[head.call], incoming) \/ ~connected
  /\ CallbackRan(head.call, ErrorEnd(kind[head.call], incoming))

-----------------------------------------------------------------------------
(***************************************************************************)
(* The environment.                                                        *)
(***************************************************************************)
LineFeeds == {i \in DOMAIN outgoing : outgoing[i] = LF}

\* The server reads a line.  The bodies of several requests on one line are one
\* request with the first one's number that the server cannot understand.
ServerRead ==
  /\ Alive /\ connected
  /\ \E i \in LineFeeds :
       /\ \A j \in LineFeeds : i <= j
       /\ outgoing' = Rest(outgoing, i + 1)
       /\ accepted' = IF i = 1 THEN accepted
                      ELSE accepted \cup {[call |-> outgoing[1], whole |-> i = 2]}
  /\ UNCHANGED <<mapVars, callVars, verdict, connected, notices, incoming, loopVars, chanVars>>

\* The server answers one of its requests, with an error if it is not whole.
ServerReply(a) ==
  /\ Alive /\ connected
  /\ a \in accepted
  /\ verdict[a.call] = "none"
  /\ \E s \in IF a.whole THEN ReplySigns ELSE {"%"} :
       /\ incoming' = incoming \o Reply(s, a.call, reqID[a.call], kind[a.call])
       /\ verdict' = [verdict EXCEPT ![a.call] = s]
  /\ accepted' = accepted \ {a}
  /\ UNCHANGED <<mapVars, callVars, outgoing, connected, notices, loopVars, chanVars>>

\* An asynchronous message, whose first number counts its parameters.
ServerNotice ==
  /\ Alive /\ connected
  /\ notices < MaxNotices
  /\ \E n \in Ids : incoming' = incoming \o Notice(n)
  /\ notices' = notices + 1
  /\ UNCHANGED <<mapVars, callVars, outgoing, accepted, verdict, connected, loopVars, chanVars>>

\* The connection breaks: what was under way to the client arrives up to some byte.
Disconnect ==
  /\ Alive /\ MayDisconnect /\ connected
  /\ connected' = FALSE
  /\ \E n \in 0..Len(incoming) : incoming' = SubSeq(incoming, 1, n)
  /\ UNCHANGED <<mapVars, callVars, outgoing, accepted, verdict, notices, loopVars, chanVars>>

\* The owner of the client closes the shutdown channel.
ShutDown ==
  /\ Alive /\ MayShutDown /\ ~shutdown
  /\ shutdown' = TRUE
  /\ UNCHANGED <<mapVars, callVars, netVars, incoming, loop, head, chanVars>>

-----------------------------------------------------------------------------
CallerStep(c) ==
  \/ IdIsFree /\ Register(c)
  \/ SendBody(c)
  \/ SendLF(c)
  \/ Receive(c)
  \/ CloseChannel(c)

LoopStep == Poll \/ ReadHeader \/ CallOK \/ CallOKPanics \/ CallError

ServerStep == ServerRead \/ (\E a \in Request : ServerReply(a)) \/ ServerNotice

Next ==
  \/ \E c \in Calls : CallerStep(c)
  \/ LoopStep
  \/ ServerStep
  \/ Disconnect
  \/ ShutDown

Spec == Init /\ [][Next]_vars

(***************************************************************************)
(* Fairness: the Go scheduler runs every goroutine that can run, and the   *)
(* server reads and answers what it is sent.  Nobody has to make a call,   *)
(* break the connection, shut down or send a notice.                       *)
(***************************************************************************)
Fairness ==
  /\ WF_vars(LoopStep)
  /\ WF_vars(ServerRead)
  /\ \A a \in Request : WF_vars(ServerReply(a))
  /\ \A c \in Calls :
       /\ WF_vars(SendBody(c))
       /\ WF_vars(SendLF(c))
       /\ WF_vars(Receive(c))
       /\ WF_vars(CloseChannel(c))

FairSpec == Spec /\ Fairness

-----------------------------------------------------------------------------
(***************************************************************************)
(* Properties.                                                             *)
(***************************************************************************)

\* The callback receiveLoop dispatches a reply to has not run before, and is the one the
\* answered call registered; only a reply that a broken connection cut off before its
\* number can go elsewhere, to request 0 (getCallback, receiveLoop).
OwnReply ==
  loop = "dispatch" =>
    /\ ran[head.call] = "no"
    /\ head.call = head.answers \/ (~connected /\ reqID[head.call] = 0)

\* asyncMap holds only callbacks that are still to run, each under the number its
\* request was sent with, and never the one that is being dispatched.
PendingCallbacks ==
  \A i \in Ids : asyncMap[i] # NoCall =>
    /\ Open(asyncMap[i])
    /\ reqID[asyncMap[i]] = i
    /\ loop = "dispatch" => head.call # asyncMap[i]

\* Between two replies the next byte of the stream, if there is one, starts a line:
\* every callback has read its own reply to the end and nothing of the next one
\* (the contract in the comment of type Callback).
InStep ==
  loop \in {"top", "reading", "stopped"} /\ incoming # <<>> =>
    incoming[1].t \in AnswerSigns \cup {":"}

Answered(c) == verdict[c] # "none"

\* While the connection lives, the answer the server gave a call stays in the stream, and
\* the call's callback in the map, until receiveLoop brings the two together.
NoLostReply ==
  \A c \in Calls : connected /\ Answered(c) /\ ran[c] = "no" =>
    \/ /\ \E i \in DOMAIN incoming : incoming[i].t \in AnswerSigns /\ incoming[i].v = c
       /\ asyncMap[reqID[c]] = c
    \/ loop = "dispatch" /\ head.call = c

\* What the caller gets tells what the server said: a value for a success, an error
\* for a failure.
TrueResult ==
  \A c \in Calls : got[c] # "none" => (got[c] = "ok" <=> verdict[c] = "=")

\* The callbacks whose OK method puts the error of its reads into the response.
Checking == {"marks", "unread", "text", "zconf", "version"}

\* A connection that breaks in the middle of a reply never passes for a success with such
\* a callback: its caller gets the server's value, or an error that the server sent or
\* that the break caused.
NoSilentCut ==
  \A c \in Calls : kind[c] \in Checking =>
    /\ got[c] # "bad"
    /\ got[c] = "ok" => verdict[c] = "="
    /\ got[c] = "err" => verdict[c] = "%" \/ ~connected

\* No reply makes the program panic: no nil callback, no send on and no close of a
\* closed channel.
NoPanic == Alive

\* A request on a line that has no line feed yet is one whose send has not returned.  send
\* takes no lock between its two writes, so the line feed of one caller may end another's
\* line; but however the writes mix, a request is glued to requests that are sent at the
\* same time, and never to one that a caller has already sent (send).
OpenLines ==
  connected => \A i \in DOMAIN outgoing :
    (\A j \in i..Len(outgoing) : outgoing[j] # LF) => stage[outgoing[i]] = "written"

\* send returns nil for a request only if the socket took its line feed too.
SendReportsErrors ==
  [][\A c \in Calls : stage[c] # "sent" /\ stage'[c] = "sent"
       => Len(outgoing') > Len(outgoing)]_vars

\* A request that was sent is answered and the caller gets the response, if neither the
\* connection breaks nor the client is shut down.
EveryCallReturns ==
  \A c \in Calls : stage[c] = "sent" ~> got[c] # "none" \/ ~connected \/ shutdown

\* The channel a caller got its response from is closed in the end, and no goroutine is
\* left behind at it, whatever happens to the connection.
EveryChannelCloses ==
  \A c \in Calls : got[c] # "none" ~>
    (chan[c].closed /\ chan[c].senders = 0 /\ chan[c].closers = 0) \/ ~Alive

\* A client that is to shut down stops once its connection is broken, wherever in a reply
\* that happened: no read blocks receiveLoop any more.
StopsWhenBroken == shutdown /\ ~connected ~> loop \in {"stopped", "panicked"}

\* The client implements RequestReply: under this mapping each of its steps is a step
\* of one call there, the end of the service, or none, and every call that is asked
\* comes to its end while the service is up.
Phase(c) ==
  CASE got[c] # "none"      -> "returned"
    [] got[c] = "none" /\ Answered(c) -> "answered"
    [] got[c] = "none" /\ ~Answered(c) /\ stage[c] = "new" -> "idle"
    [] got[c] = "none" /\ ~Answered(c) /\ stage[c] = "failed" -> "failed"
    [] OTHER -> "asked"

\* A caller takes a wrong value with a nil error for a success: RequestReply tells success
\* from failure, and no values.
Seen(c) == IF got[c] = "bad" THEN "ok" ELSE got[c]

Abstract == INSTANCE RequestReply
  WITH phase <- [c \in Calls |-> Phase(c)], answer <- verdict,
       result <- [c \in Calls |-> Seen(c)], up <- connected /\ ~shutdown

ImplementsRequestReply == Abstract!Spec

\* Its part that needs no fairness: what the calls do, and not that they come to their end.
ImplementsSafely == Abstract!SafeSpec
=============================================================================
