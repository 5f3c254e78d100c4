----------------------------- MODULE CrmSession -----------------------------
(***************************************************************************)
(* The run loop of CrmClient (crm/client.py) as AgentRuntime drives it:    *)
(* connect, hello, resume, serve the socket's receive buffer one message   *)
(* at a time, back off, connect again, until told to stop.  An operation   *)
(* is its row: active from the record that precedes its call to the record *)
(* of its outcome (OperationManager has the steps in between).             *)
(***************************************************************************)
EXTENDS Naturals, Sequences

CONSTANTS
  Cmds, NoCmd,
  MaxBuffer,   \* bound on the commands in the receive buffer
  AttemptCap,  \* bound on the attempts counted, for model checking
  FloatLimit   \* attempts after which minimum * 2**attempt overflows a float

ASSUME SessionAssumption ==
  NoCmd \notin Cmds /\ MaxBuffer \in Nat \ {0} /\ AttemptCap \in Nat /\ FloatLimit \in Nat

VARIABLES
  loop,     \* where run() is
  cur,      \* the command being handled or resumed
  back,     \* where its handler returns to
  conn,     \* the connection: none, open, or closed under the agent
  buffer,   \* commands received and not yet iterated over
  attempt,  \* ExponentialBackoff._attempt
  stop,     \* the _stop event
  asked,    \* history: where run() was when the stop was requested
  op,       \* the operation of each command
  told,     \* history: commands whose outcome was sent
  late      \* history: commands that arrived while an operation was active

vars == <<loop, cur, back, conn, buffer, attempt, stop, asked, op, told, late>>
net  == <<conn, buffer>>
ui   == <<stop, asked>>
work == <<op, told, late>>

Bound == {"hello", "resume", "serve", "accept", "reply", "work", "verdict", "ending"}
Loops == {"boot", "top", "connecting", "pause", "done", "dead"} \cup Bound

TypeOK ==
  /\ loop \in Loops
  /\ cur \in Cmds \cup {NoCmd}
  /\ back \in {"resume", "serve"}
  /\ conn \in {"none", "open", "closed"}
  /\ buffer \in Seq(Cmds) /\ Len(buffer) <= MaxBuffer
  /\ attempt \in Nat
  /\ stop \in BOOLEAN
  /\ asked \in {"no", "early", "connecting", "heard"}
  /\ op \in [Cmds -> {"none", "active", "ended"}]
  /\ told \subseteq Cmds
  /\ late \subseteq Cmds

ActiveOps == {c \in Cmds : op[c] = "active"}

Init ==
  /\ loop = "boot" /\ cur = NoCmd /\ back = "serve"
  /\ conn = "none" /\ buffer = <<>>
  /\ attempt = 0
  /\ stop = FALSE /\ asked = "no"
  /\ op = [c \in Cmds |-> "none"] /\ told = {} /\ late = {}

\* A send: on a closed connection it raises out of the handler and the session.
Sends(next) ==
  /\ loop' = IF conn = "open" THEN next ELSE "ending"
  /\ cur' = IF conn = "open" /\ next = "work" THEN cur ELSE NoCmd

(***************************************************************************)
(* run().                                                                  *)
(***************************************************************************)
\* A fresh stop event is not set, so run() goes straight to its first connect.
Boot ==
  /\ loop = "boot" /\ loop' = "connecting"
  /\ UNCHANGED <<cur, back, net, attempt, ui, work>>

\* Defect: the stop event is not looked at before connecting again.
TopDeaf ==
  /\ loop = "top" /\ loop' = "connecting"
  /\ UNCHANGED <<cur, back, net, attempt, ui, work>>

Top ==
  /\ loop = "top" /\ loop' = IF stop THEN "done" ELSE "connecting"
  /\ UNCHANGED <<cur, back, net, attempt, ui, work>>

\* The stop event is not looked at between the connect and the session's end.
ConnectOk ==
  /\ loop = "connecting" /\ loop' = "hello"
  /\ conn' = "open" /\ attempt' = 0
  /\ UNCHANGED <<cur, back, buffer, ui, work>>

\* Defect: the error of a failed connect is not caught.
ConnectFailsForGood ==
  /\ loop = "connecting" /\ loop' = "dead"
  /\ UNCHANGED <<cur, back, net, attempt, ui, work>>

\* Refused, timed out, or no token: a ConnectionError is an OSError.
ConnectFails ==
  /\ loop = "connecting" /\ loop' = "ending"
  /\ UNCHANGED <<cur, back, net, attempt, ui, work>>

\* Defect: the session starts without the resume.
HelloOnly ==
  /\ loop = "hello" /\ Sends("serve")
  /\ UNCHANGED <<back, net, attempt, ui, work>>

Hello ==
  /\ loop = "hello" /\ Sends("resume")
  /\ UNCHANGED <<back, net, attempt, ui, work>>

Resume ==
  /\ loop = "resume"
  /\ \/ \E c \in ActiveOps : loop' = "work" /\ cur' = c /\ back' = "resume"
     \/ ActiveOps = {} /\ loop' = "serve" /\ UNCHANGED <<cur, back>>
  /\ UNCHANGED <<net, attempt, ui, work>>

\* finally: the socket is forgotten, with what was buffered in it; the delay
\* min(maximum, minimum * 2**attempt) is computed in floats.
Ending ==
  /\ loop = "ending"
  /\ conn' = "none" /\ buffer' = <<>>
  /\ \/ stop /\ loop' = "done" /\ UNCHANGED attempt
     \/ ~stop /\ attempt >= FloatLimit /\ loop' = "dead" /\ UNCHANGED attempt
     \/ /\ ~stop /\ attempt < FloatLimit /\ loop' = "pause"
        /\ attempt' = IF attempt < AttemptCap THEN attempt + 1 ELSE attempt
  /\ UNCHANGED <<cur, back, ui, work>>

PauseOver ==
  /\ loop = "pause" /\ loop' = "top"
  /\ UNCHANGED <<cur, back, net, attempt, ui, work>>

(***************************************************************************)
(* _run_session: async for raw_message in socket: await _handle_message.   *)
(***************************************************************************)
\* Defect: a session that is over is replaced at once, without the pause.
SessionOverRetries ==
  /\ loop = "serve" /\ conn = "closed" /\ buffer = <<>>
  /\ loop' = "connecting" /\ conn' = "none"
  /\ UNCHANGED <<cur, back, buffer, attempt, ui, work>>

SessionOver ==
  /\ loop = "serve" /\ conn = "closed" /\ buffer = <<>>
  /\ loop' = "ending"
  /\ UNCHANGED <<cur, back, net, attempt, ui, work>>

\* No operation is active here (ServingMeansFree), so none is rejected as busy.
Take ==
  /\ loop = "serve" /\ buffer # <<>>
  /\ cur' = Head(buffer) /\ buffer' = Tail(buffer) /\ back' = "serve"
  /\ \/ /\ op[cur'] = "none" /\ loop' = "accept"
        /\ op' = [op EXCEPT ![cur'] = "active"]
     \/ op[cur'] # "none" /\ loop' = "reply" /\ UNCHANGED op
  /\ UNCHANGED <<conn, attempt, ui, told, late>>

SendAccepted ==
  /\ loop = "accept" /\ Sends("work")
  /\ UNCHANGED <<back, net, attempt, ui, work>>

\* Defect: a commandId that was seen before is not answered.
ReplySilent ==
  /\ loop = "reply" /\ loop' = "serve" /\ cur' = NoCmd
  /\ UNCHANGED <<back, net, attempt, ui, work>>

\* The stored or current state again, to a commandId that was seen before.
Reply ==
  /\ loop = "reply" /\ Sends("serve")
  /\ told' = IF conn = "open" /\ op[cur] = "ended" THEN told \cup {cur} ELSE told
  /\ UNCHANGED <<back, net, attempt, ui, op, late>>

\* A status event that cannot be sent leaves the operation to the next resume.
Interrupted ==
  /\ loop = "work" /\ conn = "closed"
  /\ loop' = "ending" /\ cur' = NoCmd
  /\ UNCHANGED <<back, net, attempt, ui, work>>

Conclude ==
  /\ loop = "work" /\ loop' = "verdict"
  /\ op' = [op EXCEPT ![cur] = "ended"]
  /\ UNCHANGED <<cur, back, net, attempt, ui, told, late>>

SendVerdict ==
  /\ loop = "verdict" /\ Sends(back)
  /\ told' = IF conn = "open" THEN told \cup {cur} ELSE told
  /\ UNCHANGED <<back, net, attempt, ui, op, late>>

(***************************************************************************)
(* The network, the CRM and the operator.                                  *)
(***************************************************************************)
\* The connection is lost, or the operator asks for a reconnect().
Drop ==
  /\ conn = "open" /\ conn' = "closed"
  /\ UNCHANGED <<loop, cur, back, buffer, attempt, ui, work>>

\* Defect: the receive buffer has no limit.
ArriveUnbounded(c) ==
  /\ conn = "open"
  /\ buffer' = Append(buffer, c)
  /\ UNCHANGED <<loop, cur, back, conn, attempt, ui, work>>

Arrive(c) ==
  /\ conn = "open" /\ Len(buffer) < MaxBuffer
  /\ buffer' = Append(buffer, c)
  /\ late' = IF ActiveOps # {} /\ op[c] = "none" THEN late \cup {c} ELSE late
  /\ UNCHANGED <<loop, cur, back, conn, attempt, ui, op, told>>

\* AgentRuntime.stop: nothing without an Application, else CrmClient.aclose,
\* which sets the event and closes the socket if run() has stored one.
RequestStop ==
  /\ asked = "no" /\ loop \notin {"done", "dead"}
  /\ asked' = CASE loop = "boot" -> "early"
                [] loop = "connecting" -> "connecting"
                [] OTHER -> "heard"
  /\ stop' = (loop # "boot")
  /\ conn' = IF loop \in Bound /\ conn = "open" THEN "closed" ELSE conn
  /\ UNCHANGED <<loop, cur, back, buffer, attempt, work>>

Run ==
  \/ Boot \/ Top \/ ConnectOk \/ ConnectFails \/ Hello \/ Resume \/ Ending \/ PauseOver
  \/ SessionOver \/ Take \/ SendAccepted \/ Reply \/ Interrupted \/ Conclude \/ SendVerdict

Next == Run \/ Drop \/ RequestStop \/ \E c \in Cmds : Arrive(c)

Spec == Init /\ [][Next]_vars

(***************************************************************************)
(* Fairness: the event loop runs; the CRM is reachable, and stays so for a *)
(* hello, again and again; the terminal ends what it runs (or the manual   *)
(* review does).                                                           *)
(***************************************************************************)
Fairness ==
  /\ WF_vars(Run) /\ SF_vars(ConnectOk) /\ SF_vars(Conclude)
  /\ SF_vars(Hello /\ conn = "open")

FairSpec == Spec /\ Fairness

-----------------------------------------------------------------------------
\* To its owner the loop is RunLoop: a session is dropped as soon as its socket
\* is closed, and what run() does between two connections is one pause.
Place ==
  CASE loop \in {"boot", "connecting", "dead"} -> loop
    [] loop = "done"                           -> "over"
    [] loop \in {"top", "ending", "pause"}     -> "pause"
    [] OTHER -> IF conn = "open" THEN "session" ELSE "dropped"

Owner == INSTANCE RunLoop WITH at <- Place, stop <- stop

\* Whatever the buffer, the handlers and the resume do, the run loop keeps its
\* promise to AgentRuntime: it stops between two connections only, always
\* unwinds a session whose socket is closed, and always tries again.
ImplementsRunLoop == Owner!LoopSpec

\* Messages are read only when the resume has left no operation active, and
\* one handler has ended before the next starts: the one-operation rule over
\* the wire does not depend on the busy check.
ServingMeansFree == loop \in {"serve", "reply"} => ActiveOps = {}

\* A command that arrives while an operation is active is not run afterwards.
NotQueued == \A c \in late : op[c] = "none"

\* run() ends only by its stop event.
NeverDies == loop # "dead"

\* Until it is told to stop, the agent is back in a session time and again.
ReconnectsUntilStopped == asked = "no" ~> (loop = "serve" \/ asked # "no")

\* A stop that finds a socket, or the loop between two connections, ends it.
StopHeardEnds == asked = "heard" ~> loop = "done"

\* A stop that was heard is final: whatever the backoff, a handler or a command
\* in the buffer does after it, no connection is tried and none is open again.
HeardIsFinal ==
  [][asked = "heard" => loop' # "connecting" /\ conn' # "open"]_vars

\* No lost socket leaves an operation active for good.
OperationsEnd ==
  \A c \in Cmds : op[c] = "active" ~> (op[c] = "ended" \/ asked # "no")

\* A CRM that repeats each command whose outcome it was not sent, over a link
\* that is lost finitely often, is sent every outcome.
Asking ==
  /\ <>[][~Drop]_vars
  /\ \A c \in Cmds : SF_vars(Arrive(c) /\ op[c] = "ended" /\ c \notin told)
OutcomeIsTold ==
  Asking => \A c \in Cmds : op[c] = "ended" ~> (c \in told \/ asked # "no")
=============================================================================
