---------------------- MODULE OperationProcesses_proofs ----------------------
(* What holds of OperationManager however many processes share the database, *)
(* an agent and the CLI say: a row tells the truth about the terminal, and a *)
(* rejected command does not run.                                            *)
EXTENDS OperationManager_proofs

USE DEF ActiveStatuses, EndStatuses, Errors, Verdicts, Stored, Events,
        Awaits, Sync, Jobs, PosStates

\* A step of the event loop moves one task; the others wait outside the
\* synchronous parts of their handlers.
OnlyMoves(t) ==
  /\ HasLoop(t)
  /\ \A u \in Tasks \ {t} : /\ pc'[u] = pc[u] /\ cmd'[u] = cmd[u] /\ evt'[u] = evt[u]
                            /\ job'[u] = job[u] /\ todo'[u] = todo[u]

\* The steps of a task, and its step of receiving a command.
TaskStep(t) ==
  \/ Handle(t) \/ LinkUp(t)
  \/ \E c \in Cmds : Received(t, c)

\* What a task may do is a step of the coordinator.
LEMMA TaskNext == ASSUME NEW t \in Tasks, TaskStep(t) PROVE Next
BY DEF Next, TaskStep, Receive, Received, ReceiveCheck

\* A step is a task's, a process's or the terminal's.
LEMMA Steps ==
  ASSUME Next
  PROVE  \/ \E t \in Tasks : TaskStep(t)
         \/ \E t \in Tasks : CreateCollides(t)
         \/ \E p \in Procs : LinkLost(p) \/ LinkEnd(p) \/ Crash(p)
         \/ \E c \in Cmds : PosReceive(c) \/ PosDecide(c)
BY CommandAssumption DEF Next, TaskStep, Receive, Received

\* A task's step moves no other task.
LEMMA TaskMoves ==
  ASSUME TypeInv, NEW t \in Tasks, TaskStep(t)
  PROVE  OnlyMoves(t)
<1> USE DEF TypeInv, TypeOK, OnlyMoves, Say, Goto
<1>1. CASE CheckAnswer(t) \/ Recheck(t) \/ Create(t) \/ Record(t)
  BY <1>1 DEF CheckAnswer, Recheck, Create, Record
<1>2. CASE SendRaises(t) \/ Emit(t) \/ Answer(t) \/ ResumeDone(t)
  BY <1>2 DEF SendRaises, Emit, Answer, ResumeDone, Leave
<1>3. CASE CallSend(t) \/ StartOk(t) \/ PosBusy(t) \/ PosError(t) \/ PosFinal(t)
  BY <1>3 DEF CallSend, StartOk, PosBusy, PosError, PosFinal, Conclude
<1>4. CASE PollAgain(t) \/ UnknownTimeout(t) \/ UnknownNext(t) \/ ActualizeAgain(t)
  BY <1>4 DEF PollAgain, UnknownTimeout, UnknownNext, ActualizeAgain, Conclude, Status
<1>5. CASE ResumeOrphan(t) \/ ResumeOrphansDone(t) \/ ResumePoll(t)
  <2>1. CASE ResumeOrphan(t)
    BY <2>1 DEF ResumeOrphan
  <2>2. CASE ResumeOrphansDone(t)
    BY <2>2 DEF ResumeOrphansDone
  <2>3. CASE ResumePoll(t)
    BY <2>3 DEF ResumePoll
  <2> QED
    BY <1>5, <2>1, <2>2, <2>3
<1>6. CASE LinkUp(t)
  BY <1>6 DEF LinkUp, HasLoop, Fellows
<1>7. CASE \E c \in Cmds : Received(t, c)
  BY <1>7 DEF Received, ReceiveKnown, ReceiveBusy, ReceiveStart, ReceiveCheck, CanReceive, Begin
<1> QED
  BY <1>1, <1>2, <1>3, <1>4, <1>5, <1>6, <1>7 DEF TaskStep, Handle

\* The steps that write neither table and do not reach the terminal.
LEMMA Untouched ==
  ASSUME TypeInv, Next
  PROVE  \/ UNCHANGED <<ops, stored, pos, sent>>
         \/ \E t \in Tasks :
              \/ Create(t) \/ Record(t) \/ CallSend(t) \/ StartOk(t) \/ PosBusy(t)
              \/ PosError(t) \/ PosFinal(t) \/ PollAgain(t) \/ UnknownTimeout(t)
              \/ ActualizeAgain(t) \/ ResumeOrphan(t)
         \/ \E c \in Cmds : PosReceive(c) \/ PosDecide(c)
<1> USE DEF durable
<1>1. ASSUME NEW t \in Tasks,
             \/ CheckAnswer(t) \/ Recheck(t) \/ SendRaises(t) \/ Emit(t) \/ Answer(t)
             \/ UnknownNext(t) \/ ResumeOrphansDone(t) \/ ResumePoll(t) \/ ResumeDone(t)
             \/ CreateCollides(t) \/ LinkUp(t)
      PROVE  UNCHANGED <<ops, stored, pos, sent>>
  BY <1>1 DEF CheckAnswer, Recheck, SendRaises, Emit, Answer, UnknownNext, ResumeOrphansDone,
              ResumePoll, ResumeDone, CreateCollides, Dies, LinkUp
<1>2. ASSUME NEW t \in Tasks, NEW c \in Cmds,
             ReceiveKnown(t, c) \/ ReceiveBusy(t, c) \/ ReceiveStart(t, c) \/ ReceiveCheck(t, c)
      PROVE  UNCHANGED <<ops, stored, pos, sent>>
  BY <1>2 DEF ReceiveKnown, ReceiveBusy, ReceiveStart, ReceiveCheck, Begin
<1>3. ASSUME NEW p \in Procs, LinkLost(p) \/ LinkEnd(p) \/ Crash(p)
      PROVE  UNCHANGED <<ops, stored, pos, sent>>
  BY <1>3 DEF LinkLost, LinkEnd, Crash, Dies
<1> QED
  BY <1>1, <1>2, <1>3, NextActions

-----------------------------------------------------------------------------
(* Truth.  A command that was not sent is unknown to the terminal, and a     *)
(* verdict of the terminal's stays; both are needed because another process  *)
(* may write a row over and over after it has ended.  Code 107 says that a   *)
(* command is not run only if it has no processId yet: then it is off, which *)
(* is for good.                                                              *)

\* The terminal refused the command, or nobody is going to call it any more.
Off(c) ==
  \/ pos[c] = "refused"
  \/ /\ sent[c] = 0 /\ ops[c].status # "none"
     /\ \A u \in Tasks : cmd[u] = c => ~BeforeCall(u)

Excused(c) == ops[c].pid \/ Off(c)

TruthOf(c) ==
  /\ sent[c] = 0 => pos[c] = "idle"
  /\ ops[c].status = "success" => pos[c] = "paid"
  /\ ops[c].status = "fail" /\ ops[c].err \notin {"smart_pos_error", "terminal_busy"} =>
       pos[c] = "declined"
  /\ ops[c].err = "terminal_busy" => Excused(c)

TruthInv == \A c \in Cmds : TruthOf(c)

\* A task polls only what has a processId.
InPoll(t) ==
  \/ pc[t] \in {"poll", "unknown", "actualize"}
  \/ pc[t] = "emit" /\ evt[t] # "accepted"

PollInv == \A t \in Tasks : InPoll(t) => ops[cmd[t]].pid

\* What a step may write into a row, by what the terminal has said.
Written(c) ==
  /\ ops[c].pid => ops'[c].pid
  /\ \/ ops'[c] = ops[c]
     \/ /\ ops'[c].status \in {"accepted"} \cup Answered /\ ops'[c].err = ops[c].err
     \/ /\ ops'[c].status = "manual_review" /\ ops'[c].err = "unknown_timeout"
     \/ /\ ops'[c].status = "success" /\ ops'[c].err = ops[c].err /\ pos[c] = "paid"
     \/ /\ ops'[c].status = "fail" /\ ops'[c].err = ops[c].err /\ pos[c] = "declined"
     \/ /\ ops'[c].status = "fail" /\ ops'[c].err = "smart_pos_error"
     \/ /\ ops'[c].status = "fail" /\ ops'[c].err = "terminal_busy" /\ Excused(c)'

\* A verdict changes the status and the error of one row.
LEMMA VerdictWritten ==
  ASSUME TypeInv, NEW t \in Tasks, cmd[t] \in Cmds, NEW s, NEW e, NEW v, Conclude(t, s, e, v)
  PROVE  /\ ops'[cmd[t]].status = s /\ ops'[cmd[t]].err = e
         /\ ops'[cmd[t]].pid = ops[cmd[t]].pid
         /\ \A c \in Cmds \ {cmd[t]} : ops'[c] = ops[c]
<1>1. ops' = [ops EXCEPT ![cmd[t]].status = s, ![cmd[t]].err = e]
  BY DEF Conclude
<1>2. ops'[cmd[t]] = [ops[cmd[t]] EXCEPT !.status = s, !.err = e] /\ ops[cmd[t]] \in Row
  BY <1>1 DEF TypeInv, TypeOK
<1> QED
  BY <1>1, <1>2 DEF Row, TypeInv, TypeOK

\* Code 107 excuses the command: it has a processId, or the terminal refused it, or
\* its only caller has given up.
LEMMA BusyExcused ==
  ASSUME TypeInv, StartInv, PollInv, NEW t \in Tasks, PosBusy(t)
  PROVE  Excused(cmd[t])'
<1>1. cmd[t] \in Cmds /\ cmd'[t] = cmd[t] /\ UNCHANGED <<cmd, pos, sent>>
  BY DEF PosBusy, Conclude, TypeInv, TypeOK, Shape
<1>2. /\ ops'[cmd[t]].status = "fail" /\ ops'[cmd[t]].pid = ops[cmd[t]].pid
  BY <1>1, VerdictWritten DEF PosBusy
<1>3. CASE pc[t] \in {"poll", "actualize"}
  BY <1>1, <1>2, <1>3 DEF PollInv, InPoll, Excused
<1>4. CASE pc[t] = "calling"
  BY <1>1, <1>4 DEF PosBusy, Excused, Off
<1>5. CASE pc[t] = "call"
  <2>1. sent[cmd[t]] = 0 /\ BeforeCall(t)
    BY <1>5 DEF StartInv, BeforeCall
  <2>2. /\ pc' = [pc EXCEPT ![t] = "record"] /\ evt' = [evt EXCEPT ![t] = "rejected"]
    BY DEF PosBusy, Conclude, Say, Goto
  <2>3. \A u \in Tasks : BeforeCall(u)' => u # t /\ BeforeCall(u)
    BY <2>2 DEF BeforeCall, Announcing, TypeInv, TypeOK
  <2>4. \A u \in Tasks : cmd[u] = cmd[t] => ~BeforeCall(u)'
    BY <2>1, <2>3 DEF StartInv
  <2> QED
    BY <1>1, <1>2, <2>1, <2>4 DEF Excused, Off
<1> QED
  BY <1>3, <1>4, <1>5 DEF PosBusy

\* Every step, of any process, writes a row in one of these ways.
LEMMA RowsWritten ==
  ASSUME TypeInv, StartInv, PollInv, [Next]_vars, NEW c \in Cmds
  PROVE  Written(c)
<1> USE DEF TypeInv, TypeOK
<1>u. CASE UNCHANGED <<ops, stored, pos, sent>>
  BY <1>u DEF Written
<1>1. ASSUME NEW t \in Tasks, Create(t) PROVE Written(c)
  <2>1. ops' = [ops EXCEPT ![cmd[t]].status = "accepted"] /\ ops[c] \in Row
    BY <1>1 DEF Create
  <2> QED
    BY <2>1 DEF Written, Row
<1>2. ASSUME NEW t \in Tasks, Record(t) \/ CallSend(t) PROVE Written(c)
  BY <1>2 DEF Record, CallSend, durable, Written
<1>3. ASSUME NEW t \in Tasks, StartOk(t) PROVE Written(c)
  <2>1. PICK s \in Answered :
           ops' = [ops EXCEPT ![cmd[t]].status = s, ![cmd[t]].pid = TRUE]
    BY <1>3 DEF StartOk
  <2>2. ops[c] \in Row
    OBVIOUS
  <2> QED
    BY <2>1, <2>2 DEF Written, Row
<1>4. ASSUME NEW t \in Tasks, PosBusy(t) \/ PosError(t) \/ PosFinal(t) \/ UnknownTimeout(t)
      PROVE  Written(c)
  <2>0. cmd[t] \in Cmds
    BY <1>4 DEF Shape, PosBusy, PosError, PosFinal, UnknownTimeout
  <2>1. CASE PosBusy(t)
    <3>1. Excused(cmd[t])'
      BY <2>1, BusyExcused
    <3>2. /\ ops'[cmd[t]].status = "fail" /\ ops'[cmd[t]].err = "terminal_busy"
          /\ ops'[cmd[t]].pid = ops[cmd[t]].pid
          /\ \A d \in Cmds \ {cmd[t]} : ops'[d] = ops[d]
      BY <2>0, <2>1, VerdictWritten DEF PosBusy
    <3>3. CASE c = cmd[t]
      <4>1. cmd'[t] = c
        BY <2>1, <3>3 DEF PosBusy, Conclude
      <4> QED
        BY <3>1, <3>2, <3>3, <4>1 DEF Written
    <3>4. CASE c # cmd[t]
      BY <3>2, <3>4 DEF Written
    <3> QED
      BY <3>3, <3>4
  <2>2. CASE PosError(t)
    BY <2>0, <2>2, VerdictWritten DEF PosError, Written
  <2>3. CASE PosFinal(t)
    BY <2>0, <2>3, VerdictWritten DEF PosFinal, Written
  <2>4. CASE UnknownTimeout(t)
    BY <2>0, <2>4, VerdictWritten DEF UnknownTimeout, Written
  <2> QED
    BY <1>4, <2>1, <2>2, <2>3, <2>4
<1>5. ASSUME NEW t \in Tasks, PollAgain(t) \/ ActualizeAgain(t) PROVE Written(c)
  <2>1. PICK s \in Answered : ops' = [ops EXCEPT ![cmd[t]].status = s]
    BY <1>5 DEF PollAgain, ActualizeAgain, Status
  <2>2. ops[c] \in Row
    OBVIOUS
  <2> QED
    BY <2>1, <2>2 DEF Written, Row
<1>6. ASSUME NEW t \in Tasks, ResumeOrphan(t) PROVE Written(c)
  <2>1. PICK d \in todo[t] :
           ops' = [ops EXCEPT ![d].status = "manual_review", ![d].err = "unknown_timeout"]
    BY <1>6 DEF ResumeOrphan
  <2>2. ops[c] \in Row
    OBVIOUS
  <2> QED
    BY <2>1, <2>2 DEF Written, Row
<1>7. ASSUME NEW d \in Cmds, PosReceive(d) \/ PosDecide(d) PROVE Written(c)
  BY <1>7 DEF PosReceive, PosDecide, durable, Written
<1> QED
  BY <1>u, <1>1, <1>2, <1>3, <1>4, <1>5, <1>6, <1>7, Untouched DEF vars

\* What the terminal knows of a command begins with its call and ends with the
\* terminal's verdict.
Moved(c) ==
  /\ sent'[c] = 0 => sent[c] = 0 /\ pos'[c] = pos[c]
  /\ pos[c] \in {"paid", "declined", "refused"} => pos'[c] = pos[c]

LEMMA TerminalMoves ==
  ASSUME TypeInv, StartInv, TruthInv, [Next]_vars, NEW c \in Cmds
  PROVE  Moved(c)
<1> USE DEF TypeInv, TypeOK, Moved
<1>u. CASE UNCHANGED <<ops, stored, pos, sent>>
  BY <1>u
<1>1. ASSUME NEW t \in Tasks, CallSend(t) PROVE Moved(c)
  <2>1. cmd[t] \in Cmds /\ sent[cmd[t]] = 0
    BY <1>1 DEF CallSend, Shape, StartInv, BeforeCall
  <2>2. pos[cmd[t]] = "idle"
    BY <2>1 DEF TruthInv, TruthOf
  <2> QED
    BY <1>1, <2>1, <2>2 DEF CallSend
<1>2. ASSUME NEW t \in Tasks,
             \/ Create(t) \/ Record(t) \/ StartOk(t) \/ PosBusy(t) \/ PosError(t)
             \/ PosFinal(t) \/ PollAgain(t) \/ UnknownTimeout(t) \/ ActualizeAgain(t)
             \/ ResumeOrphan(t)
      PROVE  Moved(c)
  <2>1. UNCHANGED <<pos, sent>>
    BY <1>2 DEF Create, Record, StartOk, PosBusy, PosError, PosFinal, PollAgain,
                UnknownTimeout, ActualizeAgain, ResumeOrphan, Conclude, Status
  <2> QED
    BY <2>1
<1>3. ASSUME NEW d \in Cmds, PosReceive(d) \/ PosDecide(d) PROVE Moved(c)
  <2>1. sent[d] # 0
    BY <1>3 DEF PosReceive, PosDecide, TruthInv, TruthOf
  <2> QED
    BY <1>3, <2>1 DEF PosReceive, PosDecide
<1> QED
  BY <1>u, <1>1, <1>2, <1>3, Untouched DEF vars

\* A task comes before a call by inserting the row, and no other way.
LEMMA ComesBeforeCall ==
  ASSUME TypeInv, [Next]_vars, NEW u \in Tasks, BeforeCall(u)'
  PROVE  (BeforeCall(u) /\ cmd'[u] = cmd[u]) \/ Create(u)
<1> DEFINE Goal == (BeforeCall(u) /\ cmd'[u] = cmd[u]) \/ Create(u)
<1> USE DEF TypeInv, TypeOK, BeforeCall, Announcing
<1>u. CASE UNCHANGED vars
  BY <1>u DEF vars
<1>1. ASSUME NEW t \in Tasks, TaskStep(t), t # u PROVE Goal
  <2>1. pc'[u] = pc[u] /\ cmd'[u] = cmd[u] /\ evt'[u] = evt[u]
    BY <1>1, TaskMoves DEF OnlyMoves
  <2> QED
    BY <2>1
<1>2. CASE TaskStep(u)
  <2>1. CASE Record(u) \/ Emit(u) \/ CallSend(u)
    BY <2>1 DEF Record, Emit, CallSend, Say, Goto
  <2>2. CASE CheckAnswer(u) \/ Recheck(u)
    BY <2>2 DEF CheckAnswer, Recheck, Say, Goto
  <2>3. CASE SendRaises(u) \/ Answer(u) \/ ResumeDone(u)
    BY <2>3 DEF SendRaises, Answer, ResumeDone, Leave, Say, Goto
  <2>4. CASE StartOk(u) \/ PosBusy(u) \/ PosError(u) \/ PosFinal(u) \/ UnknownTimeout(u)
    BY <2>4 DEF StartOk, PosBusy, PosError, PosFinal, UnknownTimeout, Conclude, Say, Goto
  <2>5. CASE PollAgain(u) \/ UnknownNext(u) \/ ActualizeAgain(u)
    BY <2>5 DEF PollAgain, UnknownNext, ActualizeAgain, Status, Say, Goto
  <2>6. CASE ResumeOrphan(u) \/ ResumeOrphansDone(u) \/ ResumePoll(u) \/ LinkUp(u)
    BY <2>6 DEF ResumeOrphan, ResumeOrphansDone, ResumePoll, LinkUp, Say, Goto
  <2>7. CASE \E c \in Cmds : Received(u, c)
    BY <2>7 DEF Received, ReceiveKnown, ReceiveBusy, ReceiveStart, ReceiveCheck, Say, Goto
  <2> QED
    BY <1>2, <2>1, <2>2, <2>3, <2>4, <2>5, <2>6, <2>7 DEF TaskStep, Handle
<1>3. ASSUME NEW t \in Tasks, CreateCollides(t) PROVE Goal
  BY <1>3 DEF CreateCollides, Dies
<1>4. ASSUME NEW p \in Procs, LinkLost(p) \/ LinkEnd(p) \/ Crash(p) PROVE Goal
  BY <1>4 DEF LinkLost, LinkEnd, Crash, Dies, local
<1>5. ASSUME NEW d \in Cmds, PosReceive(d) \/ PosDecide(d) PROVE Goal
  BY <1>5 DEF PosReceive, PosDecide, local
<1> QED
  BY <1>u, <1>1, <1>2, <1>3, <1>4, <1>5, Steps

\* Once excused, a command stays excused: no row is inserted for it again, so that
\* nobody comes to call the terminal for it.
LEMMA ExcusedStays ==
  ASSUME TypeInv, StartInv, PollInv, TruthInv, [Next]_vars, NEW c \in Cmds, Excused(c)
  PROVE  Excused(c)'
<1>1. Written(c) /\ Moved(c)
  BY RowsWritten, TerminalMoves
<1>2. CASE ops[c].pid \/ pos[c] = "refused"
  BY <1>1, <1>2 DEF Written, Moved, Excused, Off
<1>3. CASE /\ sent[c] = 0 /\ ops[c].status # "none"
           /\ \A u \in Tasks : cmd[u] = c => ~BeforeCall(u)
  <2>1. ops'[c].status # "none"
    BY <1>1, <1>3, StatusAssumption DEF Written, Answered
  <2>2. ASSUME NEW u \in Tasks, cmd'[u] = c, BeforeCall(u)' PROVE FALSE
    <3>1. CASE BeforeCall(u) /\ cmd'[u] = cmd[u]
      BY <1>3, <2>2, <3>1
    <3>2. CASE Create(u)
      BY <1>3, <2>2, <3>2 DEF Create
    <3> QED
      BY <2>2, <3>1, <3>2, ComesBeforeCall
  <2>3. sent'[c] = 0
    <3>1. CASE \E t \in Tasks : CallSend(t) /\ cmd[t] = c
      BY <1>3, <3>1 DEF CallSend, BeforeCall
    <3>2. ASSUME NEW t \in Tasks, CallSend(t), cmd[t] # c PROVE sent'[c] = sent[c]
      BY <3>2 DEF CallSend, TypeInv, TypeOK
    <3>3. ASSUME NEW t \in Tasks,
                 \/ Create(t) \/ Record(t) \/ StartOk(t) \/ PosBusy(t) \/ PosError(t)
                 \/ PosFinal(t) \/ PollAgain(t) \/ UnknownTimeout(t) \/ ActualizeAgain(t)
                 \/ ResumeOrphan(t)
          PROVE  sent'[c] = sent[c]
      BY <3>3 DEF Create, Record, StartOk, PosBusy, PosError, PosFinal, PollAgain,
                  UnknownTimeout, ActualizeAgain, ResumeOrphan, Conclude, Status
    <3>4. ASSUME NEW d \in Cmds, PosReceive(d) \/ PosDecide(d) PROVE sent'[c] = sent[c]
      BY <3>4 DEF PosReceive, PosDecide
    <3> QED
      BY <1>3, <3>1, <3>2, <3>3, <3>4, Untouched DEF vars
  <2> QED
    BY <2>1, <2>2, <2>3 DEF Excused, Off
<1> QED
  BY <1>2, <1>3 DEF Excused, Off

LEMMA NextTruth ==
  ASSUME TypeInv, StartInv, PollInv, TruthInv, [Next]_vars
  PROVE  TruthInv'
<1> SUFFICES ASSUME NEW c \in Cmds PROVE TruthOf(c)'
  BY DEF TruthInv
<1>1. TruthOf(c) /\ Written(c) /\ Moved(c)
  BY RowsWritten, TerminalMoves DEF TruthInv
<1>2. Excused(c) => Excused(c)'
  BY ExcusedStays
<1> QED
  BY <1>1, <1>2, StatusAssumption DEF TruthOf, Written, Moved, Answered

\* A processId is never taken away, and a task polls what it was given one for.
LEMMA NextPoll ==
  ASSUME TypeInv, StartInv, PollInv, [Next]_vars
  PROVE  PollInv'
<1> SUFFICES ASSUME NEW u \in Tasks, InPoll(u)' PROVE ops'[cmd'[u]].pid
  BY DEF PollInv
<1>p. \A c \in Cmds : ops[c].pid => ops'[c].pid
  BY RowsWritten DEF Written
<1>k. ASSUME InPoll(u), cmd'[u] = cmd[u] PROVE ops'[cmd'[u]].pid
  BY <1>k, <1>p DEF PollInv, InPoll, TypeInv, Shape
<1> USE DEF TypeInv, TypeOK, InPoll
<1>u. CASE UNCHANGED vars
  BY <1>u, <1>k DEF vars
<1>1. ASSUME NEW t \in Tasks, TaskStep(t), t # u PROVE ops'[cmd'[u]].pid
  <2>1. pc'[u] = pc[u] /\ cmd'[u] = cmd[u] /\ evt'[u] = evt[u]
    BY <1>1, TaskMoves DEF OnlyMoves
  <2> QED
    BY <2>1, <1>k
<1>2. CASE TaskStep(u)
  <2>1. CASE Record(u) \/ Emit(u) \/ CallSend(u)
    BY <2>1, <1>k DEF Record, Emit, CallSend, Say, Goto
  <2>2. CASE CheckAnswer(u) \/ Recheck(u) \/ Create(u)
    BY <2>2 DEF CheckAnswer, Recheck, Create, Say, Goto
  <2>3. CASE SendRaises(u) \/ Answer(u) \/ ResumeDone(u)
    BY <2>3 DEF SendRaises, Answer, ResumeDone, Leave, Say, Goto
  <2>4. CASE PosBusy(u) \/ PosError(u) \/ PosFinal(u) \/ UnknownTimeout(u)
    BY <2>4 DEF PosBusy, PosError, PosFinal, UnknownTimeout, Conclude, Say, Goto
  <2>5. CASE PollAgain(u) \/ UnknownNext(u) \/ ActualizeAgain(u)
    BY <2>5, <1>k DEF PollAgain, UnknownNext, ActualizeAgain, Status, Say, Goto
  <2>6. CASE ResumeOrphan(u) \/ ResumeOrphansDone(u) \/ LinkUp(u)
    BY <2>6 DEF ResumeOrphan, ResumeOrphansDone, LinkUp, Say, Goto
  <2>7. CASE \E c \in Cmds : Received(u, c)
    BY <2>7 DEF Received, ReceiveKnown, ReceiveBusy, ReceiveStart, ReceiveCheck, Say, Goto
  <2>8. CASE StartOk(u)
    <3>1. cmd[u] \in Cmds /\ cmd'[u] = cmd[u]
      BY <2>8 DEF StartOk, Shape
    <3>2. PICK s \in Answered :
             ops' = [ops EXCEPT ![cmd[u]].status = s, ![cmd[u]].pid = TRUE]
      BY <2>8 DEF StartOk
    <3>3. ops[cmd[u]] \in Row
      BY <3>1
    <3> QED
      BY <3>1, <3>2, <3>3 DEF Row
  <2>9. CASE ResumePoll(u)
    <3>1. PICK c \in todo[u] : ops[c].pid /\ cmd' = [cmd EXCEPT ![u] = c]
      BY <2>9 DEF ResumePoll
    <3>2. c \in Cmds /\ cmd'[u] = c
      BY <3>1
    <3> QED
      BY <3>1, <3>2, <1>p
  <2> QED
    BY <1>2, <2>1, <2>2, <2>3, <2>4, <2>5, <2>6, <2>7, <2>8, <2>9 DEF TaskStep, Handle
<1>3. ASSUME NEW t \in Tasks, CreateCollides(t) PROVE ops'[cmd'[u]].pid
  BY <1>3, <1>k DEF CreateCollides, Dies
<1>4. ASSUME NEW q \in Procs, LinkLost(q) \/ LinkEnd(q) \/ Crash(q) PROVE ops'[cmd'[u]].pid
  BY <1>4, <1>k DEF LinkLost, LinkEnd, Crash, Dies, local
<1>5. ASSUME NEW d \in Cmds, PosReceive(d) \/ PosDecide(d) PROVE ops'[cmd'[u]].pid
  BY <1>5, <1>k DEF PosReceive, PosDecide, local
<1> QED
  BY <1>u, <1>1, <1>2, <1>3, <1>4, <1>5, Steps

-----------------------------------------------------------------------------
(* Rejections.  A command is received by one process only, and a process     *)
(* runs one synchronous part of a handler at a time; so nobody accepts the   *)
(* command while its rejection is being recorded, though another process may *)
(* write its row meanwhile.                                                  *)

RejectInv ==
  /\ \A t, u \in Tasks : ProcOf[t] = ProcOf[u] /\ pc[t] \in Sync /\ pc[u] \in Sync => t = u
  /\ \A t \in Tasks :
       pc[t] \in {"locked", "create"} \/ (pc[t] = "record" /\ evt[t] \in {"accepted", "busy"})
         => OwnerOf[cmd[t]] = ProcOf[t]
  /\ \A t \in Tasks : pc[t] = "create" => stored[cmd[t]] # "busy"
  /\ \A t \in Tasks : pc[t] = "record" /\ evt[t] = "busy" =>
       /\ sent[cmd[t]] = 0
       /\ \A u \in Tasks : cmd[u] = cmd[t] => ~BeforeCall(u)
  /\ \A c \in Cmds : stored[c] = "busy" =>
       /\ sent[c] = 0
       /\ \A u \in Tasks : cmd[u] = c => ~BeforeCall(u)

\* No step of any process lets a command that is being rejected, or was, go on.
LEMMA NextReject ==
  ASSUME TypeInv, StartInv, TruthInv, PollInv, RejectInv, [Next]_vars
  PROVE  RejectInv'
<1> USE CommandAssumption, ProcessAssumption
        DEF TypeInv, TypeOK, Shape, StartInv, RejectInv, BeforeCall, Announcing, Recorded,
            HasLoop, Fellows, durable, local, history
<1>m. \A c \in Cmds : pos[c] = "refused" => pos'[c] = "refused"
  BY TerminalMoves DEF Moved
<1>u. CASE UNCHANGED vars
  BY <1>u DEF vars
<1>1. ASSUME NEW t \in Tasks, CheckAnswer(t) PROVE RejectInv'
  BY <1>1, <1>m DEF CheckAnswer, Say, Goto
<1>2. ASSUME NEW t \in Tasks, Recheck(t) PROVE RejectInv'
  <2>1. /\ UNCHANGED <<cmd, stored, pos, sent>> /\ HasLoop(t) /\ pc[t] = "locked"
        /\ \A u \in Tasks \ {t} : pc'[u] = pc[u] /\ evt'[u] = evt[u]
        /\ OwnerOf[cmd[t]] = ProcOf[t]
    BY <1>2 DEF Recheck, Say, Goto
  <2>2. \/ pc'[t] = "answer"
        \/ pc'[t] \in {"record", "create"} /\ stored[cmd[t]] = "none"
    BY <1>2 DEF Recheck, Say, Goto
  <2>3. pc'[t] = "record" => evt'[t] = "busy"
    BY <1>2 DEF Recheck, Say, Goto
  <2>4. ~BeforeCall(t)'
    BY <2>1, <2>2, <2>3
  <2>5. \A u \in Tasks : BeforeCall(u)' => u # t /\ BeforeCall(u)
    BY <2>1, <2>4
  <2>6. stored[cmd[t]] = "none" =>
          sent[cmd[t]] = 0 /\ \A u \in Tasks : cmd[u] = cmd[t] => ~BeforeCall(u)
    BY <2>1
  <2>7. \A u, v \in Tasks :
          ProcOf[u] = ProcOf[v] /\ pc'[u] \in Sync /\ pc'[v] \in Sync => u = v
    BY <2>1
  <2> HIDE DEF BeforeCall
  <2> QED
    BY <2>1, <2>2, <2>3, <2>5, <2>6, <2>7
<1>3. ASSUME NEW t \in Tasks, Create(t) PROVE RejectInv'
  BY <1>3, <1>m DEF Create, Say, Goto
<1>4. ASSUME NEW t \in Tasks, Record(t) PROVE RejectInv'
  BY <1>4, <1>m DEF Record, Goto
<1>5. ASSUME NEW t \in Tasks, SendRaises(t) PROVE RejectInv'
  BY <1>5, <1>m DEF SendRaises, Leave, Goto
<1>6. ASSUME NEW t \in Tasks, Emit(t) PROVE RejectInv'
  BY <1>6, <1>m DEF Emit, Say, Goto
<1>7. ASSUME NEW t \in Tasks, Answer(t) PROVE RejectInv'
  <2>1. /\ UNCHANGED <<stored, pos, sent>> /\ HasLoop(t) /\ ~BeforeCall(t)'
        /\ pc'[t] \in {"idle", "orphans", "incomplete"}
        /\ \A u \in Tasks \ {t} : pc'[u] = pc[u] /\ evt'[u] = evt[u] /\ cmd'[u] = cmd[u]
    BY <1>7 DEF Answer, Say, Leave, Goto
  <2>2. \A u \in Tasks : BeforeCall(u)' => u # t /\ BeforeCall(u) /\ cmd'[u] = cmd[u]
    BY <2>1
  <2>3. \A u, v \in Tasks :
          ProcOf[u] = ProcOf[v] /\ pc'[u] \in Sync /\ pc'[v] \in Sync => u = v
    BY <2>1
  <2>4. \A u \in Tasks : pc'[u] \in {"locked", "create", "record"} =>
          u # t /\ pc'[u] = pc[u] /\ evt'[u] = evt[u] /\ cmd'[u] = cmd[u]
    BY <2>1
  <2> HIDE DEF BeforeCall
  <2> QED
    BY <2>1, <2>2, <2>3, <2>4
<1>8. ASSUME NEW t \in Tasks, CallSend(t) PROVE RejectInv'
  BY <1>8, <1>m DEF CallSend, Goto
<1>9. ASSUME NEW t \in Tasks, StartOk(t) PROVE RejectInv'
  BY <1>9, <1>m DEF StartOk, Say, Goto
<1>10. ASSUME NEW t \in Tasks, PosBusy(t) PROVE RejectInv'
  BY <1>10, <1>m DEF PosBusy, Conclude, Say, Goto
<1>11. ASSUME NEW t \in Tasks, PosError(t) PROVE RejectInv'
  BY <1>11, <1>m DEF PosError, Conclude, Say, Goto
<1>12. ASSUME NEW t \in Tasks, PosFinal(t) PROVE RejectInv'
  <2>1. PICK s \in {"success", "fail"}, e \in Errors, v \in {"completed", "failed"} :
           Conclude(t, s, e, v)
    <3>1. cmd[t] \in Cmds
      BY <1>12 DEF PosFinal
    <3>2. ops[cmd[t]].err \in Errors
      BY <3>1, RowUpdates
    <3> QED
      BY <1>12, <3>2 DEF PosFinal
  <2> QED
    BY <1>12, <2>1, <1>m DEF PosFinal, Conclude, Say, Goto
<1>13. ASSUME NEW t \in Tasks, PollAgain(t) PROVE RejectInv'
  BY <1>13, <1>m DEF PollAgain, Status, Say, Goto
<1>14. ASSUME NEW t \in Tasks, UnknownTimeout(t) PROVE RejectInv'
  BY <1>14, <1>m DEF UnknownTimeout, Conclude, Say, Goto
<1>15. ASSUME NEW t \in Tasks, UnknownNext(t) PROVE RejectInv'
  BY <1>15, <1>m DEF UnknownNext, Goto
<1>16. ASSUME NEW t \in Tasks, ActualizeAgain(t) PROVE RejectInv'
  BY <1>16, <1>m DEF ActualizeAgain, Status, Say, Goto
<1>17. ASSUME NEW t \in Tasks, ResumeOrphan(t) PROVE RejectInv'
  BY <1>17, <1>m DEF ResumeOrphan, Say, Goto
<1>18. ASSUME NEW t \in Tasks, ResumeOrphansDone(t) PROVE RejectInv'
  BY <1>18, <1>m DEF ResumeOrphansDone, Goto
<1>19. ASSUME NEW t \in Tasks, ResumePoll(t) PROVE RejectInv'
  BY <1>19, <1>m DEF ResumePoll, Goto
<1>20. ASSUME NEW t \in Tasks, ResumeDone(t) PROVE RejectInv'
  BY <1>20, <1>m DEF ResumeDone, Leave, Goto
<1>21. ASSUME NEW t \in Tasks, CreateCollides(t) PROVE RejectInv'
  BY <1>21, <1>m DEF CreateCollides, Dies
<1>22. ASSUME NEW t \in Tasks, LinkUp(t) PROVE RejectInv'
  BY <1>22, <1>m DEF LinkUp, Goto, Fellows
<1>23. ASSUME NEW t \in Tasks, NEW c \in Cmds, ReceiveKnown(t, c) PROVE RejectInv'
  BY <1>23, <1>m DEF ReceiveKnown, CanReceive, Begin, Say, Goto
<1>24. ASSUME NEW t \in Tasks, NEW c \in Cmds, ReceiveBusy(t, c) PROVE RejectInv'
  BY <1>24, <1>m DEF ReceiveBusy, CanReceive, Begin, Say, Goto
<1>25. ASSUME NEW t \in Tasks, NEW c \in Cmds, ReceiveStart(t, c) PROVE RejectInv'
  BY <1>25, <1>m DEF ReceiveStart, CanReceive, Begin, Goto
<1>26. ASSUME NEW t \in Tasks, NEW c \in Cmds, ReceiveCheck(t, c) PROVE RejectInv'
  BY <1>26, <1>m DEF ReceiveCheck, CanReceive, Begin, Goto
<1>27. ASSUME NEW p \in Procs, LinkLost(p) PROVE RejectInv'
  BY <1>27, <1>m DEF LinkLost
<1>28. ASSUME NEW p \in Procs, LinkEnd(p) PROVE RejectInv'
  BY <1>28, <1>m DEF LinkEnd
<1>29. ASSUME NEW p \in Procs, Crash(p) PROVE RejectInv'
  BY <1>29, <1>m DEF Crash, Dies
<1>30. ASSUME NEW c \in Cmds, PosReceive(c) PROVE RejectInv'
  BY <1>30, <1>m DEF PosReceive
<1>31. ASSUME NEW c \in Cmds, PosDecide(c) PROVE RejectInv'
  BY <1>31, <1>m DEF PosDecide
<1> QED
  BY <1>u, <1>1, <1>2, <1>3, <1>4, <1>5, <1>6, <1>7, <1>8, <1>9, <1>10, <1>11, <1>12, <1>13, <1>14, <1>15, <1>16, <1>17, <1>18, <1>19, <1>20, <1>21, <1>22, <1>23, <1>24, <1>25, <1>26, <1>27, <1>28, <1>29, <1>30, <1>31, NextActions

-----------------------------------------------------------------------------
(* Verdicts.  A verdict of the terminal's is put into words when the         *)
(* terminal has given it, and the words are recorded, read back and sent.    *)

MayComplete == {c \in Cmds : pos[c] = "paid"}
MayFail     == {c \in Cmds : ops[c].err # "none" \/ pos[c] = "declined"}
MayReject   == {c \in Cmds : Excused(c)}

Justified(e, c) ==
  /\ e = "completed" => c \in MayComplete
  /\ e = "failed" => c \in MayFail
  /\ e = "rejected" => c \in MayReject

VerdictInv ==
  /\ \A t \in Tasks : pc[t] \in {"record", "emit", "answer"} => Justified(evt[t], cmd[t])
  /\ \A c \in Cmds : Justified(stored[c], c) /\ \A v \in told[c] : Justified(v, c)

\* No step says, records or sends a verdict that the terminal has not given.
LEMMA NextVerdict ==
  ASSUME TypeInv, StartInv, PollInv, TruthInv, VerdictInv, [Next]_vars
  PROVE  VerdictInv'
<1> USE CommandAssumption DEF TypeInv, TypeOK, Shape, VerdictInv, durable, local, history
<1>m. /\ MayComplete \subseteq MayComplete' /\ MayFail \subseteq MayFail'
      /\ MayReject \subseteq MayReject'
  <2> SUFFICES ASSUME NEW c \in Cmds
               PROVE  /\ c \in MayComplete => c \in MayComplete'
                      /\ c \in MayFail => c \in MayFail'
                      /\ c \in MayReject => c \in MayReject'
    BY DEF MayComplete, MayFail, MayReject
  <2>1. Written(c) /\ Moved(c) /\ (Excused(c) => Excused(c)')
    BY RowsWritten, TerminalMoves, ExcusedStays
  <2> QED
    BY <2>1 DEF Written, Moved, MayComplete, MayFail, MayReject
<1> USE <1>m DEF Justified
<1>u. CASE UNCHANGED vars
  BY <1>u DEF vars
<1>1. ASSUME NEW t \in Tasks, CheckAnswer(t) PROVE VerdictInv'
  BY <1>1 DEF CheckAnswer, Say, Goto
<1>2. ASSUME NEW t \in Tasks, Recheck(t) PROVE VerdictInv'
  BY <1>2 DEF Recheck, Say, Goto, KnownStateEvent
<1>3. ASSUME NEW t \in Tasks, Create(t) PROVE VerdictInv'
  BY <1>3 DEF Create, Say, Goto
<1>4. ASSUME NEW t \in Tasks, Record(t) PROVE VerdictInv'
  BY <1>4 DEF Record, Goto
<1>5. ASSUME NEW t \in Tasks, SendRaises(t) PROVE VerdictInv'
  BY <1>5 DEF SendRaises, Leave, Goto
<1>6. ASSUME NEW t \in Tasks, Emit(t) PROVE VerdictInv'
  BY <1>6 DEF Emit, Delivered, Say, Goto
<1>7. ASSUME NEW t \in Tasks, Answer(t) PROVE VerdictInv'
  BY <1>7 DEF Answer, Delivered, Say, Leave, Goto
<1>8. ASSUME NEW t \in Tasks, CallSend(t) PROVE VerdictInv'
  BY <1>8 DEF CallSend, Goto
<1>9. ASSUME NEW t \in Tasks, StartOk(t) PROVE VerdictInv'
  BY <1>9 DEF StartOk, Say, Goto
<1>10. ASSUME NEW t \in Tasks, PosBusy(t) PROVE VerdictInv'
  <2>1. cmd[t] \in Cmds /\ Excused(cmd[t])' /\ UNCHANGED cmd
    BY <1>10, BusyExcused DEF PosBusy, Conclude
  <2>2. cmd[t] \in MayReject'
    BY <2>1 DEF MayReject
  <2> QED
    BY <1>10, <2>1, <2>2 DEF PosBusy, Conclude, Say, Goto
<1>11. ASSUME NEW t \in Tasks, PosError(t) PROVE VerdictInv'
  <2>1. cmd[t] \in Cmds
    BY <1>11 DEF PosError
  <2>2. ops'[cmd[t]].err = "smart_pos_error"
    BY <1>11, <2>1, VerdictWritten DEF PosError
  <2>3. cmd[t] \in MayFail'
    BY <2>1, <2>2 DEF MayFail
  <2> QED
    BY <1>11, <2>1, <2>3 DEF PosError, Conclude, Say, Goto
<1>12. ASSUME NEW t \in Tasks, PosFinal(t) PROVE VerdictInv'
  <2>1. cmd[t] \in Cmds
    BY <1>12 DEF PosFinal
  <2>2. CASE pos[cmd[t]] = "paid" /\ Conclude(t, "success", ops[cmd[t]].err, "completed")
    <3>1. cmd[t] \in MayComplete'
      BY <2>1, <2>2, <1>m DEF MayComplete
    <3> QED
      BY <2>1, <2>2, <3>1 DEF Conclude, Say, Goto
  <2>3. CASE pos[cmd[t]] = "declined" /\ Conclude(t, "fail", ops[cmd[t]].err, "failed")
    <3>1. cmd[t] \in MayFail'
      BY <2>1, <2>3, <1>m DEF MayFail
    <3> QED
      BY <2>1, <2>3, <3>1 DEF Conclude, Say, Goto
  <2> QED
    BY <1>12, <2>2, <2>3 DEF PosFinal
<1>13. ASSUME NEW t \in Tasks, PollAgain(t) PROVE VerdictInv'
  BY <1>13 DEF PollAgain, Status, Say, Goto
<1>14. ASSUME NEW t \in Tasks, UnknownTimeout(t) PROVE VerdictInv'
  BY <1>14 DEF UnknownTimeout, Conclude, Say, Goto
<1>15. ASSUME NEW t \in Tasks, UnknownNext(t) PROVE VerdictInv'
  BY <1>15 DEF UnknownNext, Goto
<1>16. ASSUME NEW t \in Tasks, ActualizeAgain(t) PROVE VerdictInv'
  BY <1>16 DEF ActualizeAgain, Status, Say, Goto
<1>17. ASSUME NEW t \in Tasks, ResumeOrphan(t) PROVE VerdictInv'
  BY <1>17 DEF ResumeOrphan, Say, Goto
<1>18. ASSUME NEW t \in Tasks, ResumeOrphansDone(t) PROVE VerdictInv'
  BY <1>18 DEF ResumeOrphansDone, Goto
<1>19. ASSUME NEW t \in Tasks, ResumePoll(t) PROVE VerdictInv'
  BY <1>19 DEF ResumePoll, Goto
<1>20. ASSUME NEW t \in Tasks, ResumeDone(t) PROVE VerdictInv'
  BY <1>20 DEF ResumeDone, Leave, Goto
<1>21. ASSUME NEW t \in Tasks, CreateCollides(t) PROVE VerdictInv'
  BY <1>21 DEF CreateCollides, Dies
<1>22. ASSUME NEW t \in Tasks, LinkUp(t) PROVE VerdictInv'
  BY <1>22 DEF LinkUp, Goto
<1>23. ASSUME NEW t \in Tasks, NEW c \in Cmds, ReceiveKnown(t, c) PROVE VerdictInv'
  BY <1>23 DEF ReceiveKnown, CanReceive, Begin, Say, Goto, KnownStateEvent
<1>24. ASSUME NEW t \in Tasks, NEW c \in Cmds, ReceiveBusy(t, c) PROVE VerdictInv'
  BY <1>24 DEF ReceiveBusy, CanReceive, Begin, Say, Goto
<1>25. ASSUME NEW t \in Tasks, NEW c \in Cmds, ReceiveStart(t, c) PROVE VerdictInv'
  BY <1>25 DEF ReceiveStart, CanReceive, Begin, Goto
<1>26. ASSUME NEW t \in Tasks, NEW c \in Cmds, ReceiveCheck(t, c) PROVE VerdictInv'
  BY <1>26 DEF ReceiveCheck, CanReceive, Begin, Goto
<1>27. ASSUME NEW p \in Procs, LinkLost(p) PROVE VerdictInv'
  BY <1>27 DEF LinkLost
<1>28. ASSUME NEW p \in Procs, LinkEnd(p) PROVE VerdictInv'
  BY <1>28 DEF LinkEnd
<1>29. ASSUME NEW p \in Procs, Crash(p) PROVE VerdictInv'
  BY <1>29 DEF Crash, Dies
<1>30. ASSUME NEW c \in Cmds, PosReceive(c) PROVE VerdictInv'
  BY <1>30 DEF PosReceive
<1>31. ASSUME NEW c \in Cmds, PosDecide(c) PROVE VerdictInv'
  BY <1>31 DEF PosDecide
<1> QED
  BY <1>u, <1>1, <1>2, <1>3, <1>4, <1>5, <1>6, <1>7, <1>8, <1>9, <1>10, <1>11, <1>12, <1>13, <1>14, <1>15, <1>16, <1>17, <1>18, <1>19, <1>20, <1>21, <1>22, <1>23, <1>24, <1>25, <1>26, <1>27, <1>28, <1>29, <1>30, <1>31, NextActions

-----------------------------------------------------------------------------
SharedInv == TypeInv /\ StartInv /\ PollInv /\ TruthInv /\ RejectInv /\ VerdictInv

LEMMA SharedInvariance == Spec => []SharedInv
<1>1. Init => SharedInv
  BY InitTypeInv, InitStartInv
  DEF Init, SharedInv, TruthInv, TruthOf, RejectInv, VerdictInv, Justified, NoRow,
      BeforeCall, Announcing, PollInv, InPoll, Excused
<1>2. SharedInv /\ [Next]_vars => SharedInv'
  BY NextTypeInv, NextStartInv, NextPoll, NextTruth, NextReject, NextVerdict DEF SharedInv
<1> QED
  BY <1>1, <1>2, PTL DEF Spec

\* However many processes write the rows, and whatever they make of each
\* other's: a success in a row is a payment on the terminal, a failure that is
\* not an error of the agent's own is one the terminal reported, and one put down
\* to a busy terminal before a processId came is of a command that is not run.
THEOREM RowsAreTruthful == Spec => []Truthful
<1>1. SharedInv => Truthful
  BY DEF SharedInv, TruthInv, TruthOf, Excused, Off, Truthful, NotRun
<1> QED
  BY SharedInvariance, <1>1, PTL

\* However many processes share the tables, a command that was answered
\* command.rejected before it had a processId does not run on the terminal, then
\* or later.
THEOREM RejectedStaysOff == Spec => []RejectedStartsNever
<1>1. SharedInv => RejectedStartsNever
  <2> SUFFICES ASSUME SharedInv, NEW c \in Cmds,
                      stored[c] = "busy" \/ (stored[c] = "rejected" /\ ~ops[c].pid)
               PROVE  pos[c] \in NotRun
    BY DEF RejectedStartsNever
  <2>1. CASE stored[c] = "busy"
    BY <2>1 DEF SharedInv, TruthInv, TruthOf, RejectInv, NotRun
  <2>2. CASE stored[c] = "rejected" /\ ~ops[c].pid
    BY <2>2 DEF SharedInv, TruthInv, TruthOf, VerdictInv, Justified, MayReject, Excused, Off, NotRun
  <2> QED
    BY <2>1, <2>2
<1> QED
  BY SharedInvariance, <1>1, PTL

\* However many processes speak for the terminal, what the CRM is told of a
\* success, of a refusal by the bank, or of a busy terminal before it gave out a
\* processId, now or from the record, is so.
THEOREM VerdictsAreTrue == Spec => []ToldIsTrue
<1>1. SharedInv => ToldIsTrue
  <2> SUFFICES ASSUME SharedInv, NEW c \in Cmds
               PROVE  /\ "completed" \in told[c] \cup {stored[c]} => pos[c] = "paid"
                      /\ "failed" \in told[c] \cup {stored[c]} /\ ops[c].err = "none" =>
                           pos[c] = "declined"
                      /\ "rejected" \in told[c] /\ ~ops[c].pid => pos[c] \in NotRun
    BY DEF ToldIsTrue
  <2>1. \A v \in told[c] \cup {stored[c]} : Justified(v, c)
    BY DEF SharedInv, VerdictInv
  <2>2. TruthOf(c)
    BY DEF SharedInv, TruthInv
  <2> QED
    BY <2>1, <2>2 DEF Justified, MayComplete, MayFail, MayReject, TruthOf, Excused, Off, NotRun
<1> QED
  BY SharedInvariance, <1>1, PTL
=============================================================================
