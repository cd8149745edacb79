---------------------------- MODULE RequestReply ----------------------------
(***************************************************************************)
(* What a client of a LysKOM server promises its callers: each call is     *)
(* asked once, answered at most once, and returns the answer it was given. *)
(* Calls are independent of each other: nothing one of them does changes   *)
(* what another one gets.                                                  *)
(*                                                                         *)
(* The service may go down for good.  A call fails only then, and of one   *)
(* that waits at that time nothing is known but that it returns at most    *)
(* once.                                                                   *)
(***************************************************************************)
CONSTANT Calls

VARIABLES
  phase,   \* how far each call is
  answer,  \* "=" or "%", or "none" while it is not answered
  result,  \* what the caller got: "ok", "err", or "none"
  up       \* is the service up?

vars == <<phase, answer, result, up>>

Init ==
  /\ phase = [c \in Calls |-> "idle"]
  /\ answer = [c \in Calls |-> "none"]
  /\ result = [c \in Calls |-> "none"]
  /\ up = TRUE

Move(c, from, to) == phase[c] = from /\ phase' = [phase EXCEPT ![c] = to]

Ask(c) == Move(c, "idle", "asked") /\ UNCHANGED <<answer, result, up>>

\* The request could not be sent, and the caller is told at once.
Fail(c) == ~up /\ Move(c, "asked", "failed") /\ UNCHANGED <<answer, result, up>>

Answer(c) ==
  /\ Move(c, "asked", "answered")
  /\ \E s \in {"=", "%"} : answer' = [answer EXCEPT ![c] = s]
  /\ UNCHANGED <<result, up>>

Return(c) ==
  /\ Move(c, "answered", "returned")
  /\ result' = [result EXCEPT ![c] = IF answer[c] = "=" THEN "ok" ELSE "err"]
  /\ UNCHANGED <<answer, up>>

\* What the end of the service leaves of an answer, or of another call's.
ReturnLate(c) ==
  /\ ~up
  /\ Move(c, "asked", "returned") \/ Move(c, "answered", "returned")
  /\ \E r \in {"ok", "err"} : result' = [result EXCEPT ![c] = r]
  /\ UNCHANGED <<answer, up>>

GoDown == up /\ up' = FALSE /\ UNCHANGED <<phase, answer, result>>

Next ==
  \/ \E c \in Calls : Ask(c) \/ Fail(c) \/ Answer(c) \/ Return(c) \/ ReturnLate(c)
  \/ GoDown

\* While the service is up, a call that was asked is answered, and one that was
\* answered returns.
Fairness ==
  \A c \in Calls : WF_vars(up /\ Answer(c)) /\ WF_vars(up /\ Return(c))

SafeSpec == Init /\ [][Next]_vars

Spec == SafeSpec /\ Fairness
=============================================================================
