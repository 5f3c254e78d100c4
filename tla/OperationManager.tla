-------------------------- MODULE OperationManager --------------------------
(***************************************************************************)
(* The durable coordinator of payments and refunds: the handlers and the   *)
(* resume routine of operations/manager.py over the two SQLite tables of   *)
(* storage/, running as asyncio tasks of one or more processes, against a  *)
(* terminal that may lose requests and answers.  A command stands for one  *)
(* commandId; payments and refunds share their control and are not told    *)
(* apart.  Every SQL statement commits by itself (isolation_level=None),   *)
(* so a crash may fall between any two of them; two handlers of one process*)
(* interleave only where the code awaits, two processes anywhere.          *)
(***************************************************************************)
EXTENDS Naturals, FiniteSets

CONSTANTS
  Cmds,        \* commandIds of payment.start, refund.start and device.check
  Checks,      \* those of device.check
  Tasks,       \* the asyncio tasks that may run a handler or the resume
  Procs,       \* the processes that share the database file
  ProcOf,      \* the process whose event loop runs a task
  OwnerOf,     \* the process that receives a command
  CrmProcs,    \* the processes with a CRM session; the others run the CLI
  OtherStatuses, \* what the terminal may answer besides the documented statuses
  NoCmd, NoTask,
  MaxCrashes   \* bound on crashes, for model checking

ASSUME CommandAssumption ==
  /\ Checks \subseteq Cmds
  /\ OwnerOf \in [Cmds -> Procs]
  /\ NoCmd \notin Cmds
ASSUME ProcessAssumption ==
  /\ ProcOf \in [Tasks -> Procs]
  /\ CrmProcs \subseteq Procs
  /\ NoTask \notin Tasks
ASSUME CrashAssumption == MaxCrashes \in Nat

VARIABLES
  ops,      \* table operations, by command_id (UNIQUE)
  stored,   \* table processed_commands: the kind of the recorded response
  pc, cmd, evt, job, todo,   \* the tasks: where, on what, saying what
  lock,     \* _operation_lock of each process
  link,     \* the CRM socket of each process
  pos,      \* what the terminal knows of each command
  sent,     \* how often /payment or /refund was called for it
  told,     \* the verdicts the CRM was sent
  crashes

durable == <<ops, stored>>
local   == <<pc, cmd, evt, job, todo>>
history == <<told, crashes>>
vars == <<ops, stored, pc, cmd, evt, job, todo, lock, link, pos, sent, told, crashes>>

(***************************************************************************)
(* Rows, statuses and events.                                              *)
(***************************************************************************)
\* "started" is selected by the queries and written by nobody; the end statuses
\* are those of no query.
ActiveStatuses == {"accepted", "started", "wait", "unknown"}
EndStatuses    == {"success", "fail", "manual_review"}
Errors   == {"none", "terminal_busy", "smart_pos_error", "unknown_timeout"}
\* What /payment, /status and /actualize may answer before the verdict: the
\* models declare a str, and the row takes it as it comes.
Answered == {"wait", "unknown"} \cup OtherStatuses
ASSUME StatusAssumption == OtherStatuses \cap (EndStatuses \cup {"none"}) = {}

Row      == [status : {"none"} \cup ActiveStatuses \cup EndStatuses \cup OtherStatuses,
             pid : BOOLEAN, err : Errors]
NoRow    == [status |-> "none", pid |-> FALSE, err |-> "none"]
Verdicts == {"rejected", "completed", "failed", "manual_review"}
Stored   == {"none", "accepted", "busy", "device"} \cup Verdicts
Events   == Stored \cup {"started", "wait", "unknown", "status"}

\* Where a handler yields to the event loop, and where it runs on.
Awaits == {"idle", "emit", "answer", "call", "calling", "poll", "actualize", "checking"}
Sync   == {"locked", "create", "record", "unknown", "orphans", "incomplete"}
Jobs   == {"none", "handle", "orphans", "incomplete"}
\* "refused": answered with an error code, 107 or another, and not run.
PosStates == {"idle", "asked", "running", "paid", "declined", "refused"}

TypeOK ==
  /\ ops \in [Cmds -> Row]
  /\ stored \in [Cmds -> Stored]
  /\ pc \in [Tasks -> Awaits \cup Sync]
  /\ cmd \in [Tasks -> Cmds \cup {NoCmd}]
  /\ evt \in [Tasks -> Events]
  /\ job \in [Tasks -> Jobs]
  /\ todo \in [Tasks -> SUBSET Cmds]
  /\ lock \in [Procs -> Tasks \cup {NoTask}]
  /\ link \in [Procs -> {"none", "open", "closed"}]
  /\ pos \in [Cmds -> PosStates]
  /\ sent \in [Cmds -> Nat]
  /\ told \in [Cmds -> SUBSET Verdicts]
  /\ crashes \in Nat

Active(c)    == ops[c].status \in ActiveStatuses
ActiveCmds   == {c \in Cmds : Active(c)}
\* Defect: an operation whose last status was "unknown" is not resumed.
IncompleteIfWaiting == {c \in ActiveCmds : ops[c].pid /\ ops[c].status = "wait"}

\* Defect: the query for operations with a processId does not look at the status.
IncompleteEver == {c \in Cmds : ops[c].pid}

Incomplete   == {c \in ActiveCmds : ops[c].pid}
\* Defect: the query for missing processIds does not look at the status.
WithoutProcessEver == {c \in Cmds : ops[c].status # "none" /\ ~ops[c].pid}

WithoutProcess == {c \in Cmds : ops[c].status = "accepted" /\ ~ops[c].pid}

\* The reply to a command that is already in processed_commands.
KnownStateEvent(c) ==
  IF stored[c] \in {"busy", "device"} \/ ops[c].status = "success"
    THEN stored[c] ELSE "status"

TaskLock(t)  == lock[ProcOf[t]]
Fellows(t)   == {u \in Tasks \ {t} : ProcOf[u] = ProcOf[t]}
HasLoop(t)   == \A u \in Fellows(t) : pc[u] \notin Sync
Resuming(p)  == \E t \in Tasks : ProcOf[t] = p /\ job[t] \in {"orphans", "incomplete"}
Released(t)  == IF TaskLock(t) = t THEN [lock EXCEPT ![ProcOf[t]] = NoTask] ELSE lock

Init ==
  /\ ops = [c \in Cmds |-> NoRow]
  /\ stored = [c \in Cmds |-> "none"]
  /\ pc = [t \in Tasks |-> "idle"]
  /\ cmd = [t \in Tasks |-> NoCmd]
  /\ evt = [t \in Tasks |-> "none"]
  /\ job = [t \in Tasks |-> "none"]
  /\ todo = [t \in Tasks |-> {}]
  /\ lock = [p \in Procs |-> NoTask]
  /\ link = [p \in Procs |-> "none"]
  /\ pos = [c \in Cmds |-> "idle"]
  /\ sent = [c \in Cmds |-> 0]
  /\ told = [c \in Cmds |-> {}]
  /\ crashes = 0

\* Task t goes on at label l; with event e to say.
Goto(t, l)   == pc' = [pc EXCEPT ![t] = l]
Say(t, l, e) == Goto(t, l) /\ evt' = [evt EXCEPT ![t] = e]

\* The handler returns or an exception escapes it: its lock is released.
Leave(t) ==
  /\ Goto(t, "idle")
  /\ cmd' = [cmd EXCEPT ![t] = NoCmd]
  /\ evt' = [evt EXCEPT ![t] = "none"]
  /\ job' = [job EXCEPT ![t] = "none"]
  /\ todo' = [todo EXCEPT ![t] = {}]
  /\ lock' = Released(t)

(***************************************************************************)
(* handle_payment, handle_refund, handle_device_check.                     *)
(***************************************************************************)
CanReceive(t, c) ==
  /\ pc[t] = "idle" /\ HasLoop(t) /\ OwnerOf[c] = ProcOf[t]
  /\ ProcOf[t] \in CrmProcs => link[ProcOf[t]] # "none"
  /\ ~Resuming(ProcOf[t])

Begin(t, c) ==
  /\ cmd' = [cmd EXCEPT ![t] = c]
  /\ job' = [job EXCEPT ![t] = "handle"]
  /\ UNCHANGED <<durable, todo, link, pos, sent, history>>

\* A commandId seen before is answered from the tables, whatever its type.
ReceiveKnown(t, c) ==
  /\ CanReceive(t, c) /\ stored[c] # "none"
  /\ Begin(t, c)
  /\ Say(t, "answer", IF c \in Checks THEN stored[c] ELSE KnownStateEvent(c))
  /\ UNCHANGED lock

ReceiveBusy(t, c) ==
  /\ CanReceive(t, c) /\ stored[c] = "none" /\ c \notin Checks
  /\ TaskLock(t) # NoTask \/ ActiveCmds # {}
  /\ Begin(t, c)
  /\ Say(t, "record", "busy")
  /\ UNCHANGED lock

\* The lock is free and asyncio.Lock then does not suspend.
ReceiveStart(t, c) ==
  /\ CanReceive(t, c) /\ stored[c] = "none" /\ c \notin Checks
  /\ TaskLock(t) = NoTask /\ ActiveCmds = {}
  /\ Begin(t, c)
  /\ Goto(t, "locked")
  /\ lock' = [lock EXCEPT ![ProcOf[t]] = t]
  /\ UNCHANGED evt

ReceiveCheck(t, c) ==
  /\ CanReceive(t, c) /\ stored[c] = "none" /\ c \in Checks
  /\ Begin(t, c)
  /\ Goto(t, "checking")
  /\ UNCHANGED <<evt, lock>>

\* device_info answers or fails; either way a device.status is recorded.
CheckAnswer(t) ==
  \E c \in Checks :
    /\ pc[t] = "checking" /\ cmd[t] = c /\ HasLoop(t)
    /\ Say(t, "record", "device")
    /\ UNCHANGED <<durable, cmd, job, todo, lock, link, pos, sent, history>>

\* The checks repeated under the lock; only another process can have moved.
Recheck(t) ==
  /\ pc[t] = "locked" /\ HasLoop(t)
  /\ \/ stored[cmd[t]] # "none" /\ Say(t, "answer", KnownStateEvent(cmd[t]))
     \/ stored[cmd[t]] = "none" /\ ActiveCmds # {} /\ Say(t, "record", "busy")
     \/ stored[cmd[t]] = "none" /\ ActiveCmds = {} /\ Goto(t, "create") /\ UNCHANGED evt
  /\ UNCHANGED <<durable, cmd, job, todo, lock, link, pos, sent, history>>

\* Defect: the terminal is called before the command is recorded.
CreateAndCall(t) ==
  /\ pc[t] = "create" /\ HasLoop(t) /\ ops[cmd[t]].status = "none"
  /\ ops' = [ops EXCEPT ![cmd[t]].status = "accepted"]
  /\ Say(t, "call", "none")
  /\ UNCHANGED <<stored, cmd, job, todo, lock, link, pos, sent, history>>

\* INSERT INTO operations; a second row for a commandId is an IntegrityError
\* that nothing catches: it ends the process's run loop.
Create(t) ==
  /\ pc[t] = "create" /\ HasLoop(t) /\ ops[cmd[t]].status = "none"
  /\ ops' = [ops EXCEPT ![cmd[t]].status = "accepted"]
  /\ Say(t, "record", "accepted")
  /\ UNCHANGED <<stored, cmd, job, todo, lock, link, pos, sent, history>>

\* INSERT OR REPLACE INTO processed_commands.
Record(t) ==
  /\ pc[t] = "record" /\ HasLoop(t)
  /\ stored' = [stored EXCEPT ![cmd[t]] = evt[t]]
  /\ Goto(t, IF evt[t] = "accepted" THEN "emit" ELSE "answer")
  /\ UNCHANGED <<ops, cmd, evt, job, todo, lock, link, pos, sent, history>>

(***************************************************************************)
(* _emit: on a lost socket the send raises out of the handler and of the   *)
(* session; without a socket the event is dropped, otherwise the CRM gets  *)
(* it.                                                                     *)
(***************************************************************************)
SendRaises(t) ==
  /\ pc[t] \in {"emit", "answer"} /\ HasLoop(t) /\ link[ProcOf[t]] = "closed"
  /\ Leave(t)
  /\ link' = [link EXCEPT ![ProcOf[t]] = "none"]
  /\ UNCHANGED <<durable, pos, sent, history>>

Delivered(t) ==
  told' = [told EXCEPT ![cmd[t]] = IF link[ProcOf[t]] = "open"
                                   THEN @ \cup ({evt[t]} \cap Verdicts) ELSE @]

\* An event in the middle of the operation: the handler continues.
Emit(t) ==
  /\ pc[t] = "emit" /\ HasLoop(t) /\ link[ProcOf[t]] # "closed"
  /\ Say(t, CASE evt[t] = "accepted" -> "call"
              [] evt[t] = "unknown"  -> "unknown"
              [] OTHER               -> "poll", "none")
  /\ Delivered(t)
  /\ UNCHANGED <<durable, cmd, job, todo, lock, link, pos, sent, crashes>>

\* The last event of a handler, or of one operation of the resume.
Answer(t) ==
  /\ pc[t] = "answer" /\ HasLoop(t) /\ link[ProcOf[t]] # "closed"
  /\ Delivered(t)
  /\ \/ job[t] = "handle" /\ Leave(t)
     \/ /\ job[t] # "handle" /\ Say(t, job[t], "none")
        /\ cmd' = [cmd EXCEPT ![t] = NoCmd]
        /\ lock' = Released(t)
        /\ UNCHANGED <<job, todo>>
  /\ UNCHANGED <<durable, link, pos, sent, crashes>>

(***************************************************************************)
(* _start_and_poll, _poll and the verdicts.                                *)
(***************************************************************************)
\* Defect: the verdict is sent without being recorded.
ConcludeUnrecorded(t, s, e, v) ==
  /\ ops' = [ops EXCEPT ![cmd[t]].status = s, ![cmd[t]].err = e]
  /\ Say(t, "answer", v)
  /\ UNCHANGED <<stored, cmd, job, todo, lock, link, pos, sent, history>>

\* update_operation commits the row; the verdict's record comes after it.
Conclude(t, s, e, v) ==
  /\ ops' = [ops EXCEPT ![cmd[t]].status = s, ![cmd[t]].err = e]
  /\ Say(t, "record", v)
  /\ UNCHANGED <<stored, cmd, job, todo, lock, link, pos, sent, history>>

Status(t, s, l, e) ==
  /\ ops' = [ops EXCEPT ![cmd[t]].status = s]
  /\ Say(t, l, e)
  /\ UNCHANGED <<stored, cmd, job, todo, lock, link, pos, sent, history>>

CallSend(t) ==
  /\ pc[t] = "call" /\ HasLoop(t)
  /\ Goto(t, "calling")
  /\ pos' = [pos EXCEPT ![cmd[t]] = "asked"]
  /\ sent' = [sent EXCEPT ![cmd[t]] = @ + 1]
  /\ UNCHANGED <<durable, cmd, evt, job, todo, lock, link, history>>

StartOk(t) ==
  /\ pc[t] = "calling" /\ HasLoop(t) /\ pos[cmd[t]] \in {"running", "paid", "declined"}
  /\ \E s \in Answered : ops' = [ops EXCEPT ![cmd[t]].status = s, ![cmd[t]].pid = TRUE]
  /\ Say(t, "emit", "started")
  /\ UNCHANGED <<stored, cmd, job, todo, lock, link, pos, sent, history>>

\* Code 107 from any request of a start or of its poll, a refresh before or after
\* it included: the row fails with terminal_busy and the command is rejected.
\* For /payment and /refund it says that the request was not run; for the others
\* it says nothing of the operation.  The resume takes it for an error.
PosBusy(t) ==
  /\ pc[t] \in {"call", "calling", "poll", "actualize"} /\ HasLoop(t)
  /\ job[t] = "handle"
  /\ pc[t] = "calling" => pos[cmd[t]] = "refused"
  /\ Conclude(t, "fail", "terminal_busy", "rejected")

\* Defect: every error of the terminal is answered command.rejected.
PosErrorRejects(t) ==
  /\ pc[t] \in {"call", "calling", "poll", "actualize"} /\ HasLoop(t)
  /\ Conclude(t, "fail", "terminal_busy", "rejected")

\* A refusal, a transport error, a timeout, an answer that does not parse.
PosError(t) ==
  /\ pc[t] \in {"call", "calling", "poll", "actualize"} /\ HasLoop(t)
  /\ Conclude(t, "fail", "smart_pos_error", "failed")

\* The terminal's verdict, from /status or from /actualize.
PosFinal(t) ==
  /\ pc[t] \in {"poll", "actualize"} /\ HasLoop(t)
  /\ \/ pos[cmd[t]] = "paid" /\ Conclude(t, "success", ops[cmd[t]].err, "completed")
     \/ pos[cmd[t]] = "declined" /\ Conclude(t, "fail", ops[cmd[t]].err, "failed")

\* No verdict yet (or an answer older than it): poll again after the event.
PollAgain(t) ==
  /\ pc[t] = "poll" /\ HasLoop(t)
  /\ \E s \in Answered : Status(t, s, "emit", IF s = "unknown" THEN s ELSE "wait")

\* Defect: an operation of unknown result is reported as failed.
UnknownFails(t) ==
  /\ pc[t] = "unknown" /\ HasLoop(t)
  /\ Conclude(t, "fail", "unknown_timeout", "failed")

\* Defect: the review carries an error code that nobody knows.
UnknownTimeoutUncoded(t) ==
  /\ pc[t] = "unknown" /\ HasLoop(t)
  /\ Conclude(t, "manual_review", "unknown", "manual_review")

\* After an unknown status: give up, ask /actualize, or poll again.
UnknownTimeout(t) ==
  /\ pc[t] = "unknown" /\ HasLoop(t)
  /\ Conclude(t, "manual_review", "unknown_timeout", "manual_review")

UnknownNext(t) ==
  /\ pc[t] = "unknown" /\ HasLoop(t)
  /\ \E l \in {"actualize", "poll"} : Goto(t, l)
  /\ UNCHANGED <<durable, cmd, evt, job, todo, lock, link, pos, sent, history>>

\* /actualize without a verdict: the row is updated and no event is sent.
ActualizeAgain(t) ==
  /\ pc[t] = "actualize" /\ HasLoop(t)
  /\ \E s \in Answered : Status(t, s, "poll", "none")

(***************************************************************************)
(* resume_incomplete, run once on every new connection.                    *)
(***************************************************************************)
LinkUp(t) ==
  LET p == ProcOf[t] IN
  /\ p \in CrmProcs /\ link[p] = "none" /\ ~Resuming(p)
  /\ pc[t] = "idle" /\ \A u \in Fellows(t) : pc[u] = "idle"
  /\ link' = [link EXCEPT ![p] = "open"]
  /\ Goto(t, "orphans")
  /\ job' = [job EXCEPT ![t] = "orphans"]
  /\ todo' = [todo EXCEPT ![t] = WithoutProcess]
  /\ UNCHANGED <<durable, cmd, evt, lock, pos, sent, history>>

\* Defect: an operation without a processId is started again.
ResumeOrphanReplays(t) ==
  /\ pc[t] = "orphans" /\ HasLoop(t)
  /\ \E c \in todo[t] :
       /\ todo' = [todo EXCEPT ![t] = @ \ {c}]
       /\ cmd' = [cmd EXCEPT ![t] = c]
  /\ Say(t, "call", "none")
  /\ UNCHANGED <<durable, job, lock, link, pos, sent, history>>

\* Accepted without a processId: manual review, without taking the lock.
ResumeOrphan(t) ==
  /\ pc[t] = "orphans" /\ HasLoop(t)
  /\ \E c \in todo[t] :
       /\ ops' = [ops EXCEPT ![c].status = "manual_review", ![c].err = "unknown_timeout"]
       /\ todo' = [todo EXCEPT ![t] = @ \ {c}]
       /\ cmd' = [cmd EXCEPT ![t] = c]
  /\ Say(t, "record", "manual_review")
  /\ UNCHANGED <<stored, job, lock, link, pos, sent, history>>

ResumeOrphansDone(t) ==
  /\ pc[t] = "orphans" /\ HasLoop(t) /\ todo[t] = {}
  /\ Goto(t, "incomplete")
  /\ job' = [job EXCEPT ![t] = "incomplete"]
  /\ todo' = [todo EXCEPT ![t] = Incomplete]
  /\ UNCHANGED <<durable, cmd, evt, lock, link, pos, sent, history>>

\* The row is read again under the lock, for its processId only; commands are
\* received after the resume, so nobody else holds the lock.
ResumePoll(t) ==
  /\ pc[t] = "incomplete" /\ HasLoop(t) /\ TaskLock(t) = NoTask
  /\ \E c \in todo[t] :
       /\ ops[c].pid
       /\ todo' = [todo EXCEPT ![t] = @ \ {c}]
       /\ cmd' = [cmd EXCEPT ![t] = c]
  /\ Goto(t, "poll")
  /\ lock' = [lock EXCEPT ![ProcOf[t]] = t]
  /\ UNCHANGED <<durable, evt, job, link, pos, sent, history>>

ResumeDone(t) ==
  /\ pc[t] = "incomplete" /\ HasLoop(t) /\ todo[t] = {}
  /\ Leave(t)
  /\ UNCHANGED <<durable, link, pos, sent, history>>

(***************************************************************************)
(* The process, its socket and the terminal.                               *)
(***************************************************************************)
LinkLost(p) ==
  /\ link[p] = "open"
  /\ link' = [link EXCEPT ![p] = "closed"]
  /\ UNCHANGED <<durable, local, lock, pos, sent, history>>

\* The session is over once its handler is; run() then connects again.
LinkEnd(p) ==
  /\ link[p] = "closed" /\ \A t \in Tasks : ProcOf[t] = p => pc[t] = "idle"
  /\ link' = [link EXCEPT ![p] = "none"]
  /\ UNCHANGED <<durable, local, lock, pos, sent, history>>

\* The process is gone; the database file and the terminal are not.
Dies(p) ==
  LET Reset(f, v) == [t \in Tasks |-> IF ProcOf[t] = p THEN v ELSE f[t]] IN
  /\ pc' = Reset(pc, "idle")
  /\ cmd' = Reset(cmd, NoCmd)
  /\ evt' = Reset(evt, "none")
  /\ job' = Reset(job, "none")
  /\ todo' = Reset(todo, {})
  /\ lock' = [lock EXCEPT ![p] = NoTask]
  /\ link' = [link EXCEPT ![p] = "none"]
  /\ UNCHANGED <<durable, pos, sent, told>>

Crash(p) ==
  /\ crashes < MaxCrashes
  /\ \E t \in Tasks : ProcOf[t] = p /\ pc[t] # "idle"
  /\ crashes' = crashes + 1
  /\ Dies(p)

\* The IntegrityError of a second INSERT for the commandId.
CreateCollides(t) ==
  /\ pc[t] = "create" /\ HasLoop(t) /\ ops[cmd[t]].status # "none"
  /\ Dies(ProcOf[t])
  /\ UNCHANGED crashes

\* The terminal works on one thing at a time, the cashier's own included.
PosReceive(c) ==
  /\ pos[c] = "asked"
  /\ \/ pos' = [pos EXCEPT ![c] = "refused"]
     \/ /\ \A d \in Cmds : pos[d] # "running"
        /\ pos' = [pos EXCEPT ![c] = "running"]
  /\ UNCHANGED <<durable, local, lock, link, sent, history>>

PosDecide(c) ==
  /\ pos[c] = "running"
  /\ \E s \in {"paid", "declined"} : pos' = [pos EXCEPT ![c] = s]
  /\ UNCHANGED <<durable, local, lock, link, sent, history>>

Handle(t) ==
  \/ CheckAnswer(t) \/ Recheck(t) \/ Create(t) \/ Record(t)
  \/ SendRaises(t) \/ Emit(t) \/ Answer(t)
  \/ CallSend(t) \/ StartOk(t) \/ PosBusy(t) \/ PosError(t)
  \/ PosFinal(t) \/ PollAgain(t) \/ UnknownTimeout(t) \/ UnknownNext(t)
  \/ ActualizeAgain(t)
  \/ ResumeOrphan(t) \/ ResumeOrphansDone(t) \/ ResumePoll(t) \/ ResumeDone(t)

Receive(t) ==
  \/ \E c \in Cmds : ReceiveKnown(t, c) \/ ReceiveBusy(t, c) \/ ReceiveStart(t, c)
  \/ \E c \in Checks : ReceiveCheck(t, c)

Next ==
  \/ \E t \in Tasks : Receive(t) \/ Handle(t) \/ CreateCollides(t) \/ LinkUp(t)
  \/ \E p \in Procs : LinkLost(p) \/ LinkEnd(p) \/ Crash(p)
  \/ \E c \in Cmds : PosReceive(c) \/ PosDecide(c)

Spec == Init /\ [][Next]_vars

(***************************************************************************)
(* Fairness.  The event loop runs every ready task.  A socket that is lost *)
(* is noticed and connect succeeds again some day (run() retries forever). *)
(* The terminal settles what it runs and, polled again and again, says so. *)
(* The CRM is under no obligation to send anything.                        *)
(***************************************************************************)
Fairness ==
  /\ \A t \in Tasks : WF_vars(Handle(t)) /\ SF_vars(PosFinal(t))
  /\ WF_vars(\E t \in Tasks : LinkUp(t))
  /\ \A p \in Procs : WF_vars(LinkEnd(p))
  /\ \A c \in Cmds : WF_vars(PosDecide(c))

FairSpec == Spec /\ Fairness

-----------------------------------------------------------------------------
(***************************************************************************)
(* What the coordinator promises.                                          *)
(***************************************************************************)
\* A commandId reaches /payment or /refund at most once, whatever is
\* duplicated, re-sent after a reconnect or resumed after a crash: the UNIQUE
\* row, the recorded response and the resume that never replays.
AtMostOneStart == \A c \in Cmds : sent[c] <= 1

\* "This write deliberately precedes a call": no command is on its way to the
\* terminal before its row and its response are in the database.
RecordedBeforeSent ==
  \A c \in Cmds : sent[c] > 0 => ops[c].status # "none" /\ stored[c] # "none"

\* The lock, the busy check and the resume leave at most one operation active.
SingleActive == \A c, d \in Cmds : Active(c) /\ Active(d) => c = d

\* No handler, resume or late answer changes an operation that has ended.
FinalIsFinal ==
  [][\A c \in Cmds : ops[c].status \in EndStatuses => ops'[c] = ops[c]]_vars

\* A command in one of these states is not run by the terminal.
NotRun == {"idle", "refused"}

\* A result that is not a local error is the terminal's own result, and a row
\* that failed as busy without a processId is of a command that it does not run.
Truthful ==
  \A c \in Cmds :
    /\ ops[c].status = "success" => pos[c] = "paid"
    /\ ops[c].status = "fail" /\ ops[c].err \notin {"smart_pos_error", "terminal_busy"} =>
         pos[c] = "declined"
    /\ ops[c].status = "fail" /\ ops[c].err = "terminal_busy" /\ ~ops[c].pid =>
         pos[c] \in NotRun

VerdictOf(row) ==
  CASE row.status = "success"       -> "completed"
    [] row.status = "manual_review" -> "manual_review"
    [] row.status = "fail"          -> IF row.err = "terminal_busy" THEN "rejected" ELSE "failed"
    [] OTHER                        -> "none"

\* Every verdict the CRM was ever sent is the one on record and that of the
\* row: no reconnect, duplicate or restart tells it two different outcomes.
ToldIsRecorded ==
  \A c \in Cmds : \A v \in told[c] : stored[c] = v /\ VerdictOf(ops[c]) = v

\* The response on record is final, "accepted" apart: no late handler, resume or
\* duplicate replaces a rejection, a verdict or a device.status by another.
ReplyStands ==
  [][\A c \in Cmds : stored[c] \notin {"none", "accepted"} => stored'[c] = stored[c]]_vars

\* A command rejected by the agent, or by the terminal before it gave out a
\* processId, does not run, then or later: not when it is re-sent, not after a
\* restart, and not because another process writes its row meanwhile.
RejectedStartsNever ==
  \A c \in Cmds :
    stored[c] = "busy" \/ (stored[c] = "rejected" /\ ~ops[c].pid) => pos[c] \in NotRun

\* The second command is not queued "and gets terminal_busy": no command that
\* was answered command.rejected runs on the terminal.
RejectedNeverRuns ==
  \A c \in Cmds : stored[c] \in {"busy", "rejected"} => pos[c] \in NotRun

\* What the CRM is told, by whichever process and however late, is so, and so
\* is what is on record to be told again: a completed operation is paid, one
\* that failed without a local error is declined, and one that a busy terminal
\* rejected before it gave out a processId is not run.
ToldIsTrue ==
  \A c \in Cmds :
    /\ "completed" \in told[c] \cup {stored[c]} => pos[c] = "paid"
    /\ "failed" \in told[c] \cup {stored[c]} /\ ops[c].err = "none" => pos[c] = "declined"
    /\ "rejected" \in told[c] /\ ~ops[c].pid => pos[c] \in NotRun

\* In a session every active operation has a handler that polls it: neither a
\* lost socket nor a crash leaves one that no resume has picked up.
NoneAbandoned ==
  \A p \in CrmProcs, c \in Cmds :
    link[p] = "open" /\ ~Resuming(p) /\ Active(c) => \E t \in Tasks : cmd[t] = c

\* The operations whose response on record is not their outcome.
OutcomesLost ==
  {c \in Cmds : ops[c].status \in EndStatuses /\ stored[c] # VerdictOf(ops[c])}

\* Once no handler is at work, the response on record for every operation that
\* ended is its outcome, but for one operation for each crash at the worst: the
\* row and the response are two commits, and nothing mends what fell between.
OneLostPerCrash ==
  (\A t \in Tasks : pc[t] = "idle") => Cardinality(OutcomesLost) <= crashes

\* No success is lost like that, whatever happens: once no handler is at work, its
\* payment.completed is on record, to be sent again to whoever asks.
SuccessOnRecord ==
  (\A t \in Tasks : pc[t] = "idle") =>
    \A c \in Cmds : ops[c].status = "success" => stored[c] = "completed"

\* An operation reported as failed is not charged, and will not be.
FailedIsNotCharged ==
  \A c \in Cmds : "failed" \in told[c] => pos[c] \notin {"asked", "running", "paid"}

(***************************************************************************)
(* The abstract ledger this module implements while one process owns the   *)
(* database: a row is an operation, a busy rejection has none.             *)
(***************************************************************************)
PhaseOf(c) ==
  IF ops[c].status = "none" THEN IF stored[c] = "busy" THEN "rejected" ELSE "new"
  ELSE IF Active(c) THEN "working"
  ELSE IF ops[c].status \in EndStatuses THEN ops[c].status ELSE "lapsed"

Ledger == INSTANCE TerminalLedger
            WITH phase <- [c \in Cmds |-> PhaseOf(c)],
                 requested <- {c \in Cmds : sent[c] > 0}

\* One process implements the ledger: no accept while another works, no second
\* request, no success without one, no way out of a rejection or an outcome.  A
\* status that the queries do not select lets the next operation in.
ImplementsLedger == Ledger!Spec

\* Polling, reconnecting and restarting always bring an accepted operation to
\* an outcome: none stays active forever.
EveryOperationEnds ==
  \A c \in Cmds : Active(c) ~> ops[c].status \in EndStatuses
=============================================================================
