---------------------------- MODULE TerminalCall ----------------------------
(***************************************************************************)
(* What the users of SmartPosClient may rely on, without tokens, refreshes *)
(* and retries: a call ends with the terminal's answer, and the terminal   *)
(* ran its request once; or with an AuthenticationError, and the terminal  *)
(* did not run it; or with another error, and nobody can tell.  The handler*)
(* of a payment decides on no more than this.  SmartPosAuth implements it. *)
(***************************************************************************)
EXTENDS Naturals

CONSTANT Users

VARIABLES
  stage,   \* of each user's call, or how the last one ended
  times    \* how often the terminal ran its request

Ends   == {"ok", "denied", "error"}
Stages == {"none", "asking"} \cup Ends

CallTypeOK ==
  /\ stage \in [Users -> Stages]
  /\ times \in [Users -> {0, 1}]

CallInit == stage = [u \in Users |-> "none"] /\ times = [u \in Users |-> 0]

Free(u) == stage[u] # "asking"
Goes(u, s) == stage' = [stage EXCEPT ![u] = s]

\* A new call; without tokens it is denied at once.  A user may also turn to
\* something else, and is then none of this module's business.
Turn(u) ==
  /\ Free(u)
  /\ \E s \in {"asking", "denied", "none"} : Goes(u, s)
  /\ times' = [times EXCEPT ![u] = 0]

\* The terminal runs the request.
Run(u) ==
  /\ stage[u] = "asking" /\ times[u] = 0
  /\ times' = [times EXCEPT ![u] = 1]
  /\ UNCHANGED stage

\* What the user is told is true.
Return(u) ==
  /\ stage[u] = "asking"
  /\ \E e \in Ends :
       /\ e = "ok" => times[u] = 1
       /\ e = "denied" => times[u] = 0
       /\ Goes(u, e)
  /\ UNCHANGED times

\* The agent is gone, and with it whoever waited or remembered.
Lost ==
  /\ stage' = [u \in Users |-> "none"]
  /\ UNCHANGED times

CallNext == (\E u \in Users : Turn(u) \/ Run(u) \/ Return(u)) \/ Lost

CallVars == <<stage, times>>
CallSpec == CallInit /\ [][CallNext]_CallVars
=============================================================================
