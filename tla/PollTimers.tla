----------------------------- MODULE PollTimers -----------------------------
(***************************************************************************)
(* The clocks of OperationManager._poll: how long the terminal may answer  *)
(* "unknown" before the operation goes to manual review, and how often     *)
(* /actualize is called meanwhile.  Both are local variables of _poll, so  *)
(* a poll resumed after a lost socket or a restart starts them again.      *)
(* Time is in whole seconds of time.monotonic(); None and 0.0 are the same *)
(* to "unknown_since or now", so 0 stands for both.                        *)
(***************************************************************************)
EXTENDS Integers

CONSTANTS
  Interval,   \* actualize_interval_seconds
  Timeout,    \* unknown_actualize_timeout_seconds
  MaxWait,    \* the longest any one await takes
  MaxTime,    \* bound on the clock, for model checking
  MaxLosses   \* bound on interrupted polls, for model checking

ASSUME TimerAssumption ==
  /\ Interval \in Nat \ {0} /\ Timeout \in Nat \ {0} /\ MaxWait \in Nat \ {0}
  /\ MaxTime \in Nat /\ MaxLosses \in Nat

VARIABLES
  now,           \* time.monotonic()
  pc,            \* where _poll is
  since,         \* when the await it is in began
  unknownSince,  \* unknown_since
  lastActualize, \* last_actualize
  losses,
  called,        \* history: when this poll last called /actualize, 0 if never
  unknownFrom    \* history: when its unbroken run of unknown answers began, 0 if none

vars == <<now, pc, since, unknownSince, lastActualize, losses, called, unknownFrom>>
timers  == <<unknownSince, lastActualize>>
history == <<called, unknownFrom>>

Awaits == {"away", "status", "emit_wait", "emit_unknown", "actualize", "sleep"}
Ends   == {"review", "ended"}

TypeOK ==
  /\ now \in Nat /\ since \in Nat /\ losses \in Nat
  /\ pc \in Awaits \cup Ends
  /\ unknownSince \in Nat /\ lastActualize \in Nat
  /\ called \in Nat /\ unknownFrom \in Nat

Init ==
  /\ now \in 1..Interval
  /\ pc = "away" /\ since = now
  /\ unknownSince = 0 /\ lastActualize = 0
  /\ losses = 0 /\ called = 0 /\ unknownFrom = 0

Goto(l) == pc' = l /\ since' = now

Tick ==
  /\ pc \in Awaits /\ now < MaxTime /\ now - since < MaxWait
  /\ now' = now + 1
  /\ UNCHANGED <<pc, since, timers, losses, history>>

\* Defect: the first call is made to look due by a time before the clock's 0.
EnterEarly ==
  /\ pc = "away"
  /\ unknownSince' = 0 /\ lastActualize' = now - Interval
  /\ Goto("status")
  /\ UNCHANGED <<now, losses, history>>

\* _poll is entered: from _start_and_poll, or from resume_incomplete.
Enter ==
  /\ pc = "away"
  /\ unknownSince' = 0 /\ lastActualize' = 0
  /\ Goto("status")
  /\ UNCHANGED <<now, losses, history>>

\* How an answer continues or breaks the run of unknown answers.
Heard(s) ==
  unknownFrom' = IF s = "wait" THEN 0 ELSE IF unknownFrom = 0 THEN now ELSE unknownFrom

StatusAnswer(s) ==
  /\ pc = "status"
  /\ Goto(IF s = "wait" THEN "emit_wait" ELSE "emit_unknown")
  /\ Heard(s)
  /\ UNCHANGED <<now, timers, losses, called>>

\* The *.status event is sent, or the send raises and the poll is left.
Interrupted ==
  /\ pc \in {"emit_wait", "emit_unknown"} /\ losses < MaxLosses
  /\ losses' = losses + 1
  /\ called' = 0 /\ unknownFrom' = 0
  /\ Goto("away")
  /\ UNCHANGED <<now, timers>>

\* Defect: a "wait" answer does not reset unknown_since.
WaitKeepsUnknown ==
  /\ pc = "emit_wait"
  /\ Goto("sleep")
  /\ UNCHANGED <<now, timers, losses, history>>

WaitEmitted ==
  /\ pc = "emit_wait"
  /\ unknownSince' = 0
  /\ Goto("sleep")
  /\ UNCHANGED <<now, lastActualize, losses, history>>

\* Defect: every unknown answer starts the timeout anew.
JustNow == now

\* unknown_since or now.
UnknownStart == IF unknownSince = 0 THEN now ELSE unknownSince

UnknownEmitted ==
  /\ pc = "emit_unknown"
  /\ unknownSince' = UnknownStart
  /\ \/ now - UnknownStart >= Timeout /\ Goto("review") /\ UNCHANGED called
     \/ /\ now - UnknownStart < Timeout /\ now - lastActualize >= Interval
        /\ Goto("actualize") /\ called' = now
     \/ /\ now - UnknownStart < Timeout /\ now - lastActualize < Interval
        /\ Goto("sleep") /\ UNCHANGED called
  /\ UNCHANGED <<now, lastActualize, losses, unknownFrom>>

\* Defect: last_actualize is not updated.
ActualizeForgotten(s) ==
  /\ pc = "actualize"
  /\ unknownSince' = IF s = "wait" THEN 0 ELSE unknownSince
  /\ Goto("sleep")
  /\ Heard(s)
  /\ UNCHANGED <<now, lastActualize, losses, called>>

\* last_actualize is the time of the call, not of its answer.
ActualizeAnswer(s) ==
  /\ pc = "actualize"
  /\ lastActualize' = since
  /\ unknownSince' = IF s = "wait" THEN 0 ELSE unknownSince
  /\ Goto("sleep")
  /\ Heard(s)
  /\ UNCHANGED <<now, losses, called>>

\* A verdict of the terminal, or an error of either request.
Final ==
  /\ pc \in {"status", "actualize"}
  /\ Goto("ended")
  /\ UNCHANGED <<now, timers, losses, history>>

Wake ==
  /\ pc = "sleep" /\ now > since
  /\ Goto("status")
  /\ UNCHANGED <<now, timers, losses, history>>

Next ==
  \/ Tick \/ Enter \/ Interrupted \/ WaitEmitted \/ UnknownEmitted \/ Final \/ Wake
  \/ \E s \in {"wait", "unknown"} : StatusAnswer(s) \/ ActualizeAnswer(s)

Spec == Init /\ [][Next]_vars

-----------------------------------------------------------------------------
\* An operation goes to manual review only when, for a whole timeout of one
\* poll, no answer of the terminal was anything but unknown.
ReviewOnlyWhenUnknown ==
  pc = "review" => unknownFrom # 0 /\ now - unknownFrom >= Timeout

\* And it does go there: in one poll an unbroken run of unknown answers lasts no
\* longer than the timeout and the awaits on the way to the next decision.  (An
\* interruption ends the poll, and the next one starts the timeout anew.)
Slack == 5 * MaxWait
ReviewInTime ==
  unknownFrom # 0 /\ pc # "ended" => now - unknownFrom <= Timeout + Slack

\* One poll calls /actualize no more often than every Interval.  (A resumed poll
\* may call it at once.)
ActualizeIsSpaced ==
  [][called' \notin {0, called} => called = 0 \/ called' - called >= Interval]_vars
=============================================================================
