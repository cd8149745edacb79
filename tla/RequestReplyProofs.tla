------------------------- MODULE RequestReplyProofs -------------------------
(***************************************************************************)
(* KomClient implements RequestReply: each step of the client is, under    *)
(* the mapping of KomClient, a step of one call there, the end of the      *)
(* service, or none.  That every call comes to its end needs fairness and  *)
(* is left to the model checker.                                           *)
(***************************************************************************)
EXTENDS StreamProofs

\* While the connection lives no write has failed.
NoneFailed == connected => \A c \in Calls : stage[c] # "failed"

\* Every step keeps the calls of a living connection from failing.
LEMMA NextNoneFailed == TypeOK /\ NoneFailed /\ [Next]_vars => NoneFailed'
<1> SUFFICES ASSUME TypeOK, NoneFailed, [Next]_vars PROVE NoneFailed'
  OBVIOUS
<1>1. ASSUME NEW c \in Calls, CallerStep(c) PROVE NoneFailed'
  <2>1. CASE Register(c)
    BY <2>1 DEF TypeOK, NoneFailed, Register, netVars
  <2>2. CASE SendBody(c) \/ SendLF(c)
    BY <2>2 DEF TypeOK, NoneFailed, SendBody, SendLF, Write
  <2>3. CASE Receive(c) \/ CloseChannel(c)
    BY <2>3 DEF NoneFailed, Receive, CloseChannel, callVars, netVars
  <2> QED
    BY <1>1, <2>1, <2>2, <2>3 DEF CallerStep
<1>2. ASSUME LoopStep PROVE NoneFailed'
  BY <1>2 DEF LoopStep, Poll, ReadHeader, CallOK, CallOKPanics, CallError, CallbackRan,
              NoneFailed, callVars, netVars
<1>3. ASSUME ServerStep PROVE NoneFailed'
  BY <1>3 DEF ServerStep, ServerRead, ServerReply, ServerNotice, NoneFailed, callVars
<1>4. ASSUME Disconnect \/ ShutDown \/ UNCHANGED vars PROVE NoneFailed'
  BY <1>4 DEF Disconnect, ShutDown, NoneFailed, vars, callVars, netVars
<1> QED
  BY <1>1, <1>2, <1>3, <1>4 DEF Next

\* While the connection lives no call fails.
LEMMA NoneFailedHolds == Spec => []NoneFailed
<1>1. Init => NoneFailed
  BY DEF Init, NoneFailed
<1> QED
  BY <1>1, NextNoneFailed, TypeCorrect, PTL DEF Spec

\* The phases of a call, one by one.
LEMMA Phases ==
  ASSUME NEW c \in Calls
  PROVE  /\ got[c] # "none" => Phase(c) = "returned"
         /\ got[c] = "none" /\ verdict[c] # "none" => Phase(c) = "answered"
         /\ got[c] = "none" /\ verdict[c] = "none" =>
              /\ stage[c] = "new" => Phase(c) = "idle"
              /\ stage[c] = "failed" => Phase(c) = "failed"
              /\ stage[c] \notin {"new", "failed"} => Phase(c) = "asked"
  BY DEF Phase, Answered

\* A call of which nothing changes that its phase depends on stays in its phase.
LEMMA SamePhase ==
  ASSUME NEW c \in Calls, got'[c] = got[c], verdict'[c] = verdict[c],
         \/ stage'[c] = stage[c]
         \/ stage[c] \notin {"new", "failed"} /\ stage'[c] \notin {"new", "failed"}
  PROVE  (Phase(c))' = Phase(c) /\ (Seen(c))' = Seen(c)
  BY DEF Phase, Seen, Answered

\* A step of one call: what the abstract move asks of it.
LEMMA OneCall ==
  ASSUME NEW c \in Calls, NEW from, NEW to, Phase(c) = from, (Phase(c))' = to,
         \A d \in Calls : d # c => (Phase(d))' = Phase(d)
  PROVE  Abstract!Move(c, from, to)
  BY DEF Abstract!Move

\* A fresh client has asked nothing.
LEMMA InitAbstract == Init => Abstract!Init
<1> SUFFICES ASSUME Init PROVE Abstract!Init
  OBVIOUS
<1>1. \A c \in Calls : Phase(c) = "idle" /\ Seen(c) = "none"
  BY DEF Init, Phase, Seen, Answered
<1>2. verdict = [c \in Calls |-> "none"] /\ connected /\ ~shutdown
  BY DEF Init
<1> QED
  BY <1>1, <1>2 DEF Abstract!Init

\* A step that no call can see changes nothing there.
LEMMA QuietAbstract ==
  ASSUME \A c \in Calls : (Phase(c))' = Phase(c) /\ (Seen(c))' = Seen(c),
         verdict' = verdict, connected' = connected, shutdown' = shutdown
  PROVE  UNCHANGED Abstract!vars
  BY DEF Abstract!vars

\* The line feed of a request, the close of a channel, what receiveLoop does, the server's
\* reading and its notices are such steps.
LEMMA QuietAbstractSteps ==
  ASSUME TypeOK,
         \/ \E c \in Calls : SendLF(c) \/ CloseChannel(c)
         \/ LoopStep \/ ServerRead \/ ServerNotice \/ UNCHANGED vars
  PROVE  UNCHANGED Abstract!vars
<1>1. /\ UNCHANGED <<got, verdict, connected, shutdown>>
      /\ \A c \in Calls : \/ stage'[c] = stage[c]
                          \/ stage[c] \notin {"new", "failed"} /\ stage'[c] \notin {"new", "failed"}
  <2>1. ASSUME NEW c \in Calls, SendLF(c)
        PROVE  /\ UNCHANGED <<got, verdict, connected, shutdown>>
               /\ stage[c] = "written" /\ stage' = [stage EXCEPT ![c] = "sent"]
               /\ stage \in [Calls -> Stages]
    BY <2>1 DEF TypeOK, SendLF, loopVars, chanVars
  <2>2. ASSUME NEW c \in Calls, CloseChannel(c)
        PROVE  UNCHANGED <<got, verdict, connected, shutdown, stage>>
    BY <2>2 DEF CloseChannel, callVars, netVars
  <2>3. ASSUME LoopStep
        PROVE  UNCHANGED <<got, verdict, connected, shutdown, stage>>
    BY <2>3 DEF LoopStep, Poll, ReadHeader, CallOK, CallOKPanics, CallError, CallbackRan,
                callVars, netVars, chanVars
  <2>4. ASSUME ServerRead \/ ServerNotice \/ UNCHANGED vars
        PROVE  UNCHANGED <<got, verdict, connected, shutdown, stage>>
    BY <2>4 DEF ServerRead, ServerNotice, vars, callVars, netVars, loopVars, chanVars
  <2> QED
    BY <2>1, <2>2, <2>3, <2>4
<1> QED
  BY <1>1, SamePhase, QuietAbstract

\* A call is asked when its callback is registered.
LEMMA RegisterAbstract ==
  ASSUME SInv, NEW c \in Calls, Register(c)
  PROVE  Abstract!Ask(c)
<1>1. /\ UNCHANGED <<got, verdict, connected, shutdown>>
      /\ stage \in [Calls -> Stages] /\ stage[c] = "new"
      /\ stage' = [stage EXCEPT ![c] = "registered"]
  BY DEF SInv, IInv, TypeOK, Register, netVars, loopVars, chanVars
<1>2. got[c] = "none" /\ verdict[c] = "none"
  BY <1>1, ReturnedIsKnown DEF SInv, IInv, Correlation, Known
<1>3. Phase(c) = "idle" /\ (Phase(c))' = "asked"
  BY <1>1, <1>2, Phases DEF Phase, Answered
<1>4. \A d \in Calls : d # c => (Phase(d))' = Phase(d)
  BY <1>1, SamePhase
<1>5. \A d \in Calls : (Seen(d))' = Seen(d)
  BY <1>1 DEF Seen
<1>6. Abstract!Move(c, "idle", "asked")
  BY <1>3, <1>4, OneCall
<1> QED
  BY <1>1, <1>5, <1>6 DEF Abstract!Ask

\* A body that cannot be written fails the call, unless it has been answered already.
LEMMA SendBodyAbstract ==
  ASSUME SInv, NEW c \in Calls, SendBody(c)
  PROVE  Abstract!Fail(c) \/ UNCHANGED Abstract!vars
<1>1. /\ UNCHANGED <<got, verdict, connected, shutdown>>
      /\ stage \in [Calls -> Stages] /\ stage[c] = "registered"
      /\ \/ stage' = [stage EXCEPT ![c] = "written"]
         \/ stage' = [stage EXCEPT ![c] = "failed"] /\ ~connected
  BY DEF SInv, IInv, TypeOK, SendBody, Write, loopVars, chanVars
<1>2. \A d \in Calls : d # c => (Phase(d))' = Phase(d)
  BY <1>1, SamePhase
<1>3. \A d \in Calls : (Seen(d))' = Seen(d)
  BY <1>1 DEF Seen
<1>4. CASE stage'[c] = "failed" /\ ~connected /\ got[c] = "none" /\ verdict[c] = "none"
  <2>1. Phase(c) = "asked" /\ (Phase(c))' = "failed"
    BY <1>1, <1>4, Phases DEF Phase, Answered
  <2>2. Abstract!Move(c, "asked", "failed")
    BY <1>2, <2>1, OneCall
  <2> QED
    BY <1>1, <1>3, <1>4, <2>2 DEF Abstract!Fail
<1>5. CASE stage'[c] = "written" \/ got[c] # "none" \/ verdict[c] # "none"
  <2>1. (Phase(c))' = Phase(c)
    BY <1>1, <1>5 DEF Phase, Answered
  <2> QED
    BY <1>1, <1>2, <1>3, <2>1, QuietAbstract
<1> QED
  BY <1>1, <1>4, <1>5

\* The server answers a call that was asked and has neither failed nor returned.
LEMMA ServerReplyAbstract ==
  ASSUME SInv, NoneFailed, NEW a \in Request, ServerReply(a)
  PROVE  a.call \in Calls /\ Abstract!Answer(a.call)
<1> DEFINE c == a.call
<1>1. /\ c \in Calls /\ connected /\ verdict[c] = "none"
      /\ UNCHANGED <<got, stage, connected, shutdown>>
      /\ stage \in [Calls -> Stages]
  BY DEF SInv, IInv, TypeOK, ServerReply, Request, callVars, loopVars, chanVars
<1>2. stage[c] # "new" /\ stage[c] # "failed" /\ got[c] = "none"
  BY <1>1, ReturnedIsKnown DEF ServerReply, SInv, IInv, Correlation, Known, NoneFailed
<1>3. PICK s \in AnswerSigns : verdict' = [verdict EXCEPT ![c] = s]
  <2>1. (IF a.whole THEN ReplySigns ELSE {"%"}) \subseteq AnswerSigns
    BY KomClientAssumption, Zenon DEF AnswerSigns
  <2>2. PICK s \in (IF a.whole THEN ReplySigns ELSE {"%"}) :
          verdict' = [verdict EXCEPT ![c] = s]
    BY Zenon DEF ServerReply
  <2> QED
    BY <2>1, <2>2, Zenon
<1>4. s # "none"
  BY AnswerSignsAre
<1>5. verdict \in [Calls -> AnswerSigns \cup {"none"}]
  BY DEF SInv, IInv, TypeOK
<1> HIDE DEF c
<1>6. verdict'[c] = s /\ \A d \in Calls : d # c => verdict'[d] = verdict[d]
  BY <1>1, <1>3, <1>5
<1>7. Phase(c) = "asked" /\ (Phase(c))' = "answered"
  BY <1>1, <1>2, <1>4, <1>6, Phases DEF Phase, Answered
<1>8. \A d \in Calls : d # c => (Phase(d))' = Phase(d)
  BY <1>1, <1>6, SamePhase
<1>9. \A d \in Calls : (Seen(d))' = Seen(d)
  BY <1>1 DEF Seen
<1>10. Abstract!Move(c, "asked", "answered")
  BY <1>1, <1>7, <1>8, OneCall
<1>11. UNCHANGED <<[d \in Calls |-> Seen(d)], connected /\ ~shutdown>>
  BY <1>1, <1>9
<1>12. s \in {"=", "%"}
  BY Zenon DEF AnswerSigns
<1>13. Abstract!Answer(c)
  BY <1>3, <1>10, <1>11, <1>12, Zenon DEF Abstract!Answer
<1> QED
  BY <1>1, <1>13 DEF c

\* A caller takes what its call was answered; on a broken connection, what is left of it.
LEMMA ReceiveAbstract ==
  ASSUME SInv, Steady, \A k \in KindsUsed : Truthful(k), NEW c \in Calls, Receive(c)
  PROVE  Abstract!Return(c) \/ Abstract!ReturnLate(c)
<1>1. PICK r \in chan[c].gives : got' = [got EXCEPT ![c] = r]
  BY DEF Receive
<1>2. /\ UNCHANGED <<stage, verdict, connected, shutdown>>
      /\ got \in [Calls -> Responses \cup {"none"}] /\ got[c] = "none"
      /\ stage[c] = "sent" /\ chan[c] \in Channel /\ verdict[c] \in AnswerSigns \cup {"none"}
  BY DEF SInv, IInv, TypeOK, Receive, callVars, netVars, loopVars
<1>3. r \in {"ok", "err", "bad"} /\ Sound(c, r)
  <2>1. r \in Responses
    BY <1>1, <1>2 DEF Channel
  <2> QED
    BY <2>1 DEF Responses, SInv, Outcomes, SoundResponses
<1>4. got'[c] = r /\ \A d \in Calls : d # c => got'[d] = got[d]
  BY <1>1, <1>2
<1> DEFINE seen == IF r = "bad" THEN "ok" ELSE r
<1>5. [d \in Calls |-> Seen(d)]' = [[d \in Calls |-> Seen(d)] EXCEPT ![c] = seen]
  BY <1>4 DEF Seen
<1>6. (Phase(c))' = "returned" /\ \A d \in Calls : d # c => (Phase(d))' = Phase(d)
  <2>1. r # "none"
    BY <1>3
  <2> QED
    BY <1>2, <1>4, <2>1, Phases, SamePhase DEF Phase
<1>7. UNCHANGED <<verdict, connected /\ ~shutdown>>
  BY <1>2
<1>8. CASE connected
  <2>1. Truthful(kind[c])
    BY <1>2 DEF Steady
  <2>2. (r = "err" <=> verdict[c] = Failure) /\ verdict[c] # "none"
    BY <1>3, <1>8, <2>1 DEF Sound
  <2>3. verdict[c] = Success <=> r # "err"
    BY <1>2, <2>2, AnswerSignsAre
  <2>4. seen = IF verdict[c] = Success THEN "ok" ELSE "err"
    BY <1>3, <2>3
  <2>5. Abstract!Move(c, "answered", "returned")
    BY <1>2, <1>6, <2>2, Phases, OneCall
  <2> QED
    BY <1>5, <1>7, <2>4, <2>5, Zenon DEF Abstract!Return, Success
<1>9. CASE ~connected
  <2>1. Abstract!Move(c, "asked", "returned") \/ Abstract!Move(c, "answered", "returned")
    <3>1. Phase(c) = "asked" \/ Phase(c) = "answered"
      BY <1>2, Phases
    <3> QED
      BY <1>6, <3>1, OneCall
  <2>2. seen \in {"ok", "err"}
    BY <1>3
  <2>3. ~(connected /\ ~shutdown)
    BY <1>9
  <2> HIDE DEF seen
  <2> QED
    BY <1>5, <1>7, <2>1, <2>2, <2>3, Zenon DEF Abstract!ReturnLate
<1> QED
  BY <1>8, <1>9

\* A break or a shutdown ends the service, unless it has ended.
LEMMA OutsideAbstract ==
  ASSUME Disconnect \/ ShutDown
  PROVE  Abstract!GoDown \/ UNCHANGED Abstract!vars
<1>1. /\ UNCHANGED <<got, verdict, stage>>
      /\ ~(connected' /\ ~shutdown')
  BY DEF Disconnect, ShutDown, callVars, netVars, chanVars
<1>2. \A c \in Calls : (Phase(c))' = Phase(c) /\ (Seen(c))' = Seen(c)
  BY <1>1, SamePhase
<1> QED
  BY <1>1, <1>2 DEF Abstract!GoDown, Abstract!vars

\* Every step of the client is a step of the abstract specification or none.
LEMMA NextAbstract ==
  ASSUME SInv, Steady, NoneFailed, \A k \in KindsUsed : Truthful(k), [Next]_vars
  PROVE  [Abstract!Next]_(Abstract!vars)
<1>1. TypeOK
  BY DEF SInv, IInv
<1>2. ASSUME NEW c \in Calls, CallerStep(c) PROVE [Abstract!Next]_(Abstract!vars)
  <2>1. CASE Register(c)
    BY <2>1, RegisterAbstract DEF Abstract!Next
  <2>2. CASE SendBody(c)
    BY <2>2, SendBodyAbstract DEF Abstract!Next
  <2>3. CASE SendLF(c) \/ CloseChannel(c)
    BY <1>1, <2>3, QuietAbstractSteps
  <2>4. CASE Receive(c)
    BY <2>4, ReceiveAbstract DEF Abstract!Next
  <2> QED
    BY <1>2, <2>1, <2>2, <2>3, <2>4 DEF CallerStep
<1>3. ASSUME NEW a \in Request, ServerReply(a) PROVE [Abstract!Next]_(Abstract!vars)
  BY <1>3, ServerReplyAbstract DEF Abstract!Next
<1>4. CASE LoopStep \/ ServerRead \/ ServerNotice \/ UNCHANGED vars
  BY <1>1, <1>4, QuietAbstractSteps
<1>5. CASE Disconnect \/ ShutDown
  BY <1>5, OutsideAbstract DEF Abstract!Next
<1> QED
  BY <1>2, <1>3, <1>4, <1>5 DEF Next, ServerStep

\* For any number of calls, request numbers and concurrent callers, in any order of the
\* answers, and wherever the connection breaks or the client is shut down, the calls are
\* those of RequestReply: each is asked once, answered at most once and returns what it was
\* answered, and none has a part in what another one gets.  Only the callback of
\* query-async, on a socket that cannot take a rune back, is no such call.
THEOREM ClientImplementsRequestReply ==
  ASSUME \A k \in KindsUsed : Truthful(k)
  PROVE  Spec => ImplementsSafely
<1>1. Init => Abstract!Init
  BY InitAbstract
<1>2. SInv /\ Steady /\ NoneFailed /\ [Next]_vars => [Abstract!Next]_(Abstract!vars)
  BY NextAbstract
<1> QED
  BY <1>1, <1>2, SoundInductive, SteadyHolds, NoneFailedHolds, PTL
     DEF Spec, ImplementsSafely, Abstract!SafeSpec
=============================================================================
