------------------------------ MODULE AgentUi -------------------------------
(***************************************************************************)
(* What the operator sees of an operation: AgentStateStore (desktop/       *)
(* state.py) as a projection of the events that OperationManager emits.    *)
(* _emit notifies the observer before it sends, so an event reaches the    *)
(* window as soon as its emit begins, sent or not.  The events of the      *)
(* terminal checks (hello, doctor) come at any time, from any task.        *)
(***************************************************************************)
EXTENDS OperationManager

VARIABLES
  ui,    \* terminal_status, active_operation_id, active_operation_status
  seen   \* history: the commands the window was told of since its process began

uiVars == <<vars, ui, seen>>

Terminal == {"checking", "ready", "unavailable", "unauthorized", "busy", "manual_review"}
Blank    == [term |-> "checking", op |-> NoCmd, st |-> "none"]

UiTypeOK ==
  /\ seen \subseteq Cmds
  /\ ui \in [term : Terminal, op : Cmds \cup {NoCmd},
             st : {"none"} \cup ActiveStatuses \cup EndStatuses \cup OtherStatuses]

\* _apply_operation: event e of command c, whose row now has status s.  A
\* command.rejected and a device.status leave the operation as it is shown.
Applied(c, e, s) ==
  CASE e \in {"accepted", "started", "wait", "unknown", "status"} ->
         [term |-> "busy", op |-> c, st |-> s]
    [] e = "manual_review" -> [term |-> "manual_review", op |-> c, st |-> "manual_review"]
    [] e = "completed"     -> [term |-> "ready", op |-> NoCmd, st |-> "none"]
    [] e = "failed"        -> [term |-> "unavailable", op |-> NoCmd, st |-> "none"]
    [] OTHER               -> ui

\* Defect: only the last event of a handler is observed.
EmittingLast(t) == pc'[t] = "answer" /\ pc[t] # "answer"

\* The task that begins to emit in this step, if any.
Emitting(t) == pc'[t] \in {"emit", "answer"} /\ pc[t] \notin {"emit", "answer"}

Noted ==
  seen' = seen \cup {cmd'[t] : t \in {u \in Tasks : Emitting(u)}}

\* Defect: the event's name is shown as the operation's status.
ProjectEvent ==
  /\ Noted
  /\ ui' = IF \E t \in Tasks : Emitting(t)
            THEN LET t == CHOOSE u \in Tasks : Emitting(u)
                 IN  Applied(cmd'[t], evt'[t], evt'[t])
            ELSE ui

Project ==
  /\ Noted
  /\ ui' = IF \E t \in Tasks : Emitting(t)
            THEN LET t == CHOOSE u \in Tasks : Emitting(u)
                 IN  Applied(cmd'[t], evt'[t], ops'[cmd'[t]].status)
            ELSE ui

\* A new process starts from an empty view.
UiRestart ==
  /\ (\E p \in Procs : Crash(p)) \/ (\E t \in Tasks : CreateCollides(t))
  /\ ui' = Blank
  /\ seen' = {}

\* terminal.checking, terminal.ready, terminal.unavailable, terminal.unauthorized.
TerminalEvent ==
  /\ \E s \in {"checking", "ready", "unavailable", "unauthorized"} :
       ui' = [ui EXCEPT !.term = s]
  /\ UNCHANGED <<vars, seen>>

UiInit == Init /\ ui = Blank /\ seen = {}

UiNext ==
  \/ \E t \in Tasks : (Receive(t) \/ Handle(t) \/ LinkUp(t)) /\ Project
  \/ \E p \in Procs : (LinkLost(p) \/ LinkEnd(p)) /\ UNCHANGED <<ui, seen>>
  \/ UiRestart
  \/ \E c \in Cmds : (PosReceive(c) \/ PosDecide(c)) /\ UNCHANGED <<ui, seen>>
  \/ TerminalEvent

UiSpec == UiInit /\ [][UiNext]_uiVars

FairUiSpec == UiSpec /\ Fairness

-----------------------------------------------------------------------------
\* Task t runs an operation that the window has been told of: a handler tells it
\* of "accepted" before it calls the terminal; the resume tells it nothing until
\* the first answer of /status, so that a new process starts from a blank window
\* with an operation running.
Shown(t) ==
  \/ pc[t] \in {"call", "calling", "unknown", "actualize", "emit"}
  \/ pc[t] = "poll" /\ (job[t] = "handle" \/ cmd[t] \in seen)

\* From the first event of an operation in this process on, and over lost sockets
\* and resumes, the operation that runs is the one shown, as one that has not
\* ended: then the exit dialog, which asks only when one is shown, does ask.
RunningIsShown ==
  \A t \in Tasks :
    Shown(t) => ui.op = cmd[t] /\ ui.st \notin EndStatuses \cup {"none"}
=============================================================================
