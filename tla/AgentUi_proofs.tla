--------------------------- MODULE AgentUi_proofs ---------------------------
(* Theorems about what the operator is shown, for any number of commands     *)
(* and crashes, and their proofs.  A session reads its commands one after    *)
(* the other, so the desktop agent has one task that handles them.           *)
EXTENDS AgentUi, OperationOutcome_proofs

OneTaskOnly == \A t, u \in Tasks : t = u
\* The process with a window is one with a CRM session.
SessionOnly == \A t \in Tasks : ProcOf[t] \in CrmProcs

USE DEF ActiveStatuses, EndStatuses, Errors, Verdicts, Stored, Events,
        Awaits, Sync, Jobs, PosStates

\* The window shows an operation, as one that has not ended.
Shows(c) == ui.op = c /\ ui.st \notin EndStatuses \cup {"none"}

\* What the labels of the one task say: it works in a session, it is about to
\* record a verdict when nothing is active any more, and its resume records
\* nothing else.
WorksAt(t) ==
  /\ pc[t] # "idle" => link[ProcOf[t]] # "none"
  /\ pc[t] = "record" /\ evt[t] \in Verdicts => \A c \in Cmds : ~Active(c)
  /\ Resumes(t) => pc[t] # "checking" /\ (pc[t] = "record" => evt[t] \in Verdicts)

\* The shown operation is the active one even while no task works on it: after a
\* lost socket the next thing that comes is the resume, which has nothing to say
\* of another.
UiInv ==
  /\ UiTypeOK /\ RunningIsShown
  /\ \A c \in seen : stored[c] # "none"
  /\ \A c \in seen : Active(c) => Shows(c)
  /\ \A t \in Tasks : WorksAt(t)

\* The invariants of the coordinator.
AgentInv == OneInv /\ PickedInv /\ StandInv

\* A step of the window's module is a step of the coordinator or none.
LEMMA UiStep == ASSUME UiNext PROVE [Next]_vars
BY DEF UiNext, Next, UiRestart, TerminalEvent

\* With one task there is at most one that begins to emit.
LEMMA Projected ==
  ASSUME OneTaskOnly, NEW t \in Tasks, Project
  PROVE  IF Emitting(t) THEN ui' = Applied(cmd'[t], evt'[t], ops'[cmd'[t]].status)
                        ELSE ui' = ui
<1>1. CASE Emitting(t)
  <2>1. (CHOOSE u \in Tasks : Emitting(u)) = t
    BY <1>1 DEF OneTaskOnly
  <2> QED
    BY <1>1, <2>1 DEF Project
<1>2. CASE ~Emitting(t)
  BY <1>2 DEF Project, OneTaskOnly
<1> QED
  BY <1>1, <1>2

\* What the window may show.
Views == [term : Terminal, op : Cmds \cup {NoCmd},
          st : {"none"} \cup ActiveStatuses \cup EndStatuses \cup OtherStatuses]

\* Whatever event is applied, the window shows a status and an operation.
LEMMA AppliedType ==
  ASSUME ui \in Views, NEW c \in Cmds, NEW e,
         NEW s \in {"none"} \cup ActiveStatuses \cup EndStatuses \cup OtherStatuses
  PROVE  Applied(c, e, s) \in Views
BY DEF Applied, Views, Terminal

\* A handler is at work.
LEMMA HandleWorks == ASSUME NEW t \in Tasks, Handle(t) PROVE pc[t] # "idle"
<1>1. CheckAnswer(t) \/ Recheck(t) \/ Create(t) \/ Record(t) \/ SendRaises(t) \/ Emit(t)
        \/ Answer(t) \/ CallSend(t) \/ StartOk(t) \/ PosBusy(t) \/ PosError(t) => pc[t] # "idle"
  BY DEF CheckAnswer, Recheck, Create, Record, SendRaises, Emit, Answer, CallSend, StartOk,
         PosBusy, PosError
<1>2. PosFinal(t) \/ PollAgain(t) \/ UnknownTimeout(t) \/ UnknownNext(t) \/ ActualizeAgain(t)
        \/ ResumeOrphan(t) \/ ResumeOrphansDone(t) \/ ResumePoll(t) \/ ResumeDone(t)
        => pc[t] # "idle"
  BY DEF PosFinal, PollAgain, UnknownTimeout, UnknownNext, ActualizeAgain,
         ResumeOrphan, ResumeOrphansDone, ResumePoll, ResumeDone
<1> QED
  BY <1>1, <1>2 DEF Handle

\* With one task, an active operation of a session is in its hands: while it does
\* something else there is none.
LEMMA NoneActive ==
  ASSUME OneTaskOnly, SessionOnly, AgentInv, UiInv, NEW t \in Tasks,
         link[ProcOf[t]] # "none", ~InOperation(t), job[t] \notin {"orphans", "incomplete"}
  PROVE  \A c \in Cmds : ~Active(c)
<1> SUFFICES ASSUME NEW c \in Cmds, Active(c) PROVE FALSE
  OBVIOUS
<1>1. PICK u \in Tasks : \/ InOperation(u) /\ cmd[u] = c
                         \/ c \in todo[u]
                         \/ job[u] = "orphans" /\ c \in Incomplete
  BY ProcessAssumption DEF AgentInv, PickedInv, Picked
<1>2. u = t
  BY DEF OneTaskOnly
<1> QED
  BY <1>1, <1>2 DEF AgentInv, OneInv, ResumeInv

\* A task begins to emit in the middle of an operation, or at the end of a handler
\* when no operation is active.
LEMMA EmitStep ==
  ASSUME OneTaskOnly, SessionOnly, AgentInv, AgentInv', UiInv,
         NEW t \in Tasks, TaskStep(t), Emitting(t)
  PROVE  /\ cmd'[t] \in Cmds /\ stored'[cmd'[t]] # "none"
         /\ pc'[t] = "emit" =>
              /\ evt'[t] \in {"accepted", "started", "wait", "unknown"}
              /\ ops'[cmd'[t]].status \in Unended
              /\ \A c \in Cmds : Active(c)' => c = cmd'[t]
         /\ pc'[t] = "answer" => \A c \in Cmds : ~Active(c)'
<1> USE DEF AgentInv, OneInv, TypeInv, TypeOK
<1>1. cmd'[t] \in Cmds
  BY DEF Emitting, Shape
<1>2. CASE pc'[t] = "emit"
  <2>1. InOperation(t)'
    BY <1>2 DEF InOperation
  <2>2. /\ ops'[cmd'[t]].status \in Unended
        /\ \A c \in Cmds : ops'[c].status \in ActiveStatuses => c = cmd'[t]
    BY <2>1 DEF WorkInv
  <2>3. evt'[t] \in {"accepted", "started", "wait", "unknown"}
    BY <1>2 DEF OutcomeInv, Label
  <2>4. Replies(cmd[t])'
    BY <1>2, <2>1 DEF StandInv, StandAt
  <2>5. stored'[cmd'[t]] # "none"
    BY <2>4 DEF Replies
  <2> QED
    BY <1>1, <1>2, <2>2, <2>3, <2>5 DEF Active
<1>3. CASE pc'[t] = "answer"
  <2> SUFFICES stored'[cmd'[t]] # "none" /\ \A c \in Cmds : ~Active(c)'
    BY <1>1, <1>3
  <2>1. CASE Record(t)
    <3>1. /\ pc[t] = "record" /\ evt[t] # "accepted" /\ UNCHANGED <<ops, cmd, evt, link>>
          /\ evt[t] # "none" /\ cmd[t] \in Cmds /\ stored'[cmd[t]] = evt[t]
      <4>1. /\ pc[t] = "record" /\ UNCHANGED <<ops, cmd, evt, link>>
            /\ pc'[t] = IF evt[t] = "accepted" THEN "emit" ELSE "answer"
        BY <2>1 DEF Record, Goto
      <4>2. /\ evt[t] # "none" /\ cmd[t] \in Cmds
            /\ stored' = [stored EXCEPT ![cmd[t]] = evt[t]]
        BY <2>1, Replied
      <4> QED
        BY <1>3, <4>1, <4>2
    <3>2. CASE evt[t] \in Verdicts
      BY <3>1, <3>2 DEF UiInv, WorksAt, Active
    <3>3. CASE evt[t] \notin Verdicts
      <4>1. ~InOperation(t) /\ link[ProcOf[t]] # "none"
        BY <3>1 DEF InOperation, UiInv, WorksAt
      <4>2. job[t] \notin {"orphans", "incomplete"}
        BY <3>1, <3>3 DEF UiInv, WorksAt, Resumes
      <4> QED
        BY <3>1, <4>1, <4>2, NoneActive DEF Active
    <3> QED
      BY <3>1, <3>2, <3>3
  <2>2. CASE Recheck(t)
    <3>1. /\ pc[t] = "locked" /\ job[t] = "handle" /\ UNCHANGED <<ops, stored, cmd>>
          /\ stored[cmd[t]] # "none"
      BY <1>3, <2>2 DEF Recheck, Say, Goto, durable, ResumeInv
    <3>2. ~InOperation(t) /\ link[ProcOf[t]] # "none"
      BY <3>1 DEF InOperation, UiInv, WorksAt
    <3> QED
      BY <3>1, <3>2, NoneActive DEF Active
  <2>3. ASSUME NEW c \in Cmds, ReceiveKnown(t, c)
        PROVE  stored'[cmd'[t]] # "none" /\ \A d \in Cmds : ~Active(d)'
    <3>1. /\ pc[t] = "idle" /\ link[ProcOf[t]] # "none" /\ stored[c] # "none"
          /\ job[t] \notin {"orphans", "incomplete"}
          /\ cmd'[t] = c /\ UNCHANGED <<ops, stored>>
      BY <2>3, ProcessAssumption DEF ReceiveKnown, CanReceive, Resuming, Begin, durable, SessionOnly
    <3>2. ~InOperation(t)
      BY <3>1 DEF InOperation
    <3> QED
      BY <3>1, <3>2, NoneActive DEF Active
  <2>4. pc[t] \notin {"emit", "answer"}
    BY DEF Emitting
  <2>5. ~(CheckAnswer(t) \/ Create(t) \/ SendRaises(t) \/ Emit(t) \/ Answer(t) \/ CallSend(t)
            \/ StartOk(t) \/ UnknownNext(t) \/ ResumeDone(t) \/ LinkUp(t))
    BY <1>3, <2>4 DEF CheckAnswer, Create, SendRaises, Emit, Answer, CallSend, StartOk,
                      UnknownNext, ResumeDone, LinkUp, Leave, Say, Goto
  <2>6. ~(PosBusy(t) \/ PosError(t) \/ PosFinal(t) \/ UnknownTimeout(t)
            \/ ResumeOrphan(t) \/ ResumeOrphansDone(t) \/ ResumePoll(t))
    BY <1>3 DEF PosBusy, PosError, PosFinal, UnknownTimeout, Conclude,
                ResumeOrphan, ResumeOrphansDone, ResumePoll, Say, Goto
  <2>7. ~(PollAgain(t) \/ ActualizeAgain(t))
    BY <1>3, PolledOn DEF Status, Say, Goto
  <2>8. ~\E c \in Cmds : ReceiveBusy(t, c) \/ ReceiveStart(t, c) \/ ReceiveCheck(t, c)
    BY <1>3, <2>4 DEF ReceiveBusy, ReceiveStart, ReceiveCheck, CanReceive, Say, Goto
  <2> QED
    BY <2>1, <2>2, <2>3, <2>5, <2>6, <2>7, <2>8 DEF TaskStep, Handle, Received
<1> QED
  BY <1>2, <1>3 DEF Emitting

\* A task comes to a label at which its operation is shown by announcing it, from
\* another such label, or by taking up an operation that was announced before.
LEMMA ShownStep ==
  ASSUME AgentInv, NEW t \in Tasks, TaskStep(t), Shown(t)', pc'[t] # "emit"
  PROVE  \/ Shown(t) /\ cmd'[t] = cmd[t]
         \/ Active(cmd'[t]) /\ cmd'[t] \in seen' /\ ~Emitting(t)
<1> DEFINE Goal == \/ Shown(t) /\ cmd'[t] = cmd[t]
                   \/ Active(cmd'[t]) /\ cmd'[t] \in seen' /\ ~Emitting(t)
<1> USE DEF AgentInv, OneInv, TypeInv, TypeOK, Shown, Say, Goto
<1>1. ~Record(t) /\ ~StartOk(t)
  BY DEF Record, StartOk
<1>2. Emit(t) \/ CallSend(t) \/ UnknownNext(t) => Goal
  BY DEF Emit, CallSend, UnknownNext
<1>3. PollAgain(t) \/ ActualizeAgain(t) => Goal
  BY DEF PollAgain, ActualizeAgain, Status
<1>4. ~(PosBusy(t) \/ PosError(t) \/ PosFinal(t) \/ UnknownTimeout(t))
  BY DEF PosBusy, PosError, PosFinal, UnknownTimeout, Conclude
<1>5. ~(CheckAnswer(t) \/ Recheck(t) \/ Create(t) \/ SendRaises(t))
  BY DEF CheckAnswer, Recheck, Create, SendRaises, Leave
<1>6. ~(Answer(t) \/ ResumeDone(t))
  <2>1. job[t] \in Jobs \ {"none"} \/ pc[t] = "idle"
    BY DEF Shape
  <2> QED
    BY <2>1 DEF Answer, ResumeDone, Leave
<1>7. ~(ResumeOrphan(t) \/ ResumeOrphansDone(t) \/ LinkUp(t))
  BY DEF ResumeOrphan, ResumeOrphansDone, LinkUp
<1>8. ResumePoll(t) => Goal
  <2> SUFFICES ASSUME ResumePoll(t) PROVE Goal
    OBVIOUS
  <2>1. pc'[t] = "poll" /\ job'[t] = "incomplete"
    BY DEF ResumePoll, ResumeInv
  <2>2. cmd'[t] \in seen' /\ ~Emitting(t)
    BY <2>1 DEF Emitting
  <2>3. cmd'[t] \in todo[t]
    BY DEF ResumePoll
  <2>4. Active(cmd'[t])
    BY <2>3 DEF ResumeInv, Active
  <2> QED
    BY <2>2, <2>4
<1>9. ~\E c \in Cmds : Received(t, c)
  <2>1. ~\E c \in Cmds : ReceiveKnown(t, c) \/ ReceiveBusy(t, c)
    BY DEF ReceiveKnown, ReceiveBusy
  <2>2. ~\E c \in Cmds : ReceiveStart(t, c) \/ ReceiveCheck(t, c)
    BY DEF ReceiveStart, ReceiveCheck
  <2> QED
    BY <2>1, <2>2 DEF Received
<1> HIDE DEF Goal
<1>10. Goal
  BY <1>1, <1>2, <1>3, <1>4, <1>5, <1>6, <1>7, <1>8, <1>9 DEF TaskStep, Handle
<1> QED
  BY <1>10 DEF Goal

\* The task that moves arrives at a label that says what is so.
LEMMA OwnWorks ==
  ASSUME OneTaskOnly, SessionOnly, AgentInv, UiInv, NEW t \in Tasks, TaskStep(t)
  PROVE  WorksAt(t)'
<1> USE DEF AgentInv, OneInv, TypeInv, TypeOK
<1>0. WorksAt(t)
  BY DEF UiInv
<1>1. pc'[t] # "idle" => link'[ProcOf[t]] # "none"
  <2>1. LinkUp(t) => link'[ProcOf[t]] # "none"
    BY ProcessAssumption DEF LinkUp
  <2>2. SendRaises(t) => pc'[t] = "idle"
    BY DEF SendRaises, Leave, Goto
  <2>3. (\E c \in Cmds : Received(t, c)) => link[ProcOf[t]] # "none"
    BY DEF Received, ReceiveKnown, ReceiveBusy, ReceiveStart, ReceiveCheck, CanReceive, SessionOnly
  <2>4. Handle(t) => pc[t] # "idle"
    BY HandleWorks
  <2> QED
    BY <1>0, <2>1, <2>2, <2>3, <2>4, Linked DEF TaskStep, WorksAt
<1>2. pc'[t] = "record" /\ evt'[t] \in Verdicts => \A c \in Cmds : ~Active(c)'
  <2> SUFFICES ASSUME pc'[t] = "record", evt'[t] \in Verdicts PROVE \A c \in Cmds : ~Active(c)'
    OBVIOUS
  <2>1. CASE PosBusy(t) \/ PosError(t) \/ PosFinal(t) \/ UnknownTimeout(t)
    <3>1. PICK s \in EndStatuses, e \in Errors, v \in Verdicts :
             InOperation(t) /\ Conclude(t, s, e, v)
      BY <2>1, Verdict
    <3>2. /\ ops'[cmd[t]].status = s
          /\ \A d \in Cmds \ {cmd[t]} : ops'[d] = ops[d]
      BY <3>1, Concluded
    <3>3. \A c \in Cmds : ops[c].status \in ActiveStatuses => c = cmd[t]
      BY <3>1 DEF WorkInv
    <3> QED
      BY <3>2, <3>3 DEF Active
  <2>2. CASE ResumeOrphan(t)
    <3>1. PICK d \in todo[t] :
             /\ d \in Cmds /\ ops[d].status \in ActiveStatuses
             /\ ops'[d].status = "manual_review"
             /\ \A b \in Cmds \ {d} : ops'[b] = ops[b]
      BY <2>2, Orphaned
    <3> QED
      BY <3>1 DEF Active, WorkInv
  <2>3. ~(CheckAnswer(t) \/ Recheck(t) \/ Create(t) \/ Record(t) \/ Emit(t) \/ CallSend(t)
            \/ UnknownNext(t) \/ Answer(t) \/ SendRaises(t) \/ StartOk(t))
    <3>1. job[t] \in Jobs
      OBVIOUS
    <3> QED
      BY <3>1 DEF CheckAnswer, Recheck, Create, Record, Emit, CallSend, UnknownNext, Answer,
                  SendRaises, StartOk, Leave, Say, Goto
  <2>4. ~(PollAgain(t) \/ ActualizeAgain(t))
    BY PolledOn DEF Status, Say, Goto
  <2>5. ~(ResumeOrphansDone(t) \/ ResumePoll(t) \/ ResumeDone(t) \/ LinkUp(t))
    BY DEF ResumeOrphansDone, ResumePoll, ResumeDone, LinkUp, Leave, Goto
  <2>6. ~\E c \in Cmds : Received(t, c)
    BY DEF Received, ReceiveKnown, ReceiveBusy, ReceiveStart, ReceiveCheck, Say, Goto
  <2> QED
    BY <2>1, <2>2, <2>3, <2>4, <2>5, <2>6 DEF TaskStep, Handle
<1>3. Resumes(t)' => pc'[t] # "checking" /\ (pc'[t] = "record" => evt'[t] \in Verdicts)
  <2> SUFFICES ASSUME Resumes(t)'
               PROVE  pc'[t] # "checking" /\ (pc'[t] = "record" => evt'[t] \in Verdicts)
    OBVIOUS
  <2>1. ~(CheckAnswer(t) \/ Recheck(t) \/ Create(t))
    BY <1>0 DEF CheckAnswer, Recheck, Create, WorksAt, Resumes, ResumeInv
  <2>2. ~\E c \in Cmds : Received(t, c)
    BY DEF Received, ReceiveKnown, ReceiveBusy, ReceiveStart, ReceiveCheck, Begin, Resumes
  <2>3. Record(t) \/ Emit(t) \/ CallSend(t) \/ UnknownNext(t) \/ Answer(t) \/ SendRaises(t)
          \/ StartOk(t) => pc'[t] \notin {"checking", "record"}
    <3>1. job[t] \in Jobs
      OBVIOUS
    <3> QED
      BY <3>1 DEF Record, Emit, CallSend, UnknownNext, Answer, SendRaises, StartOk, Leave, Say, Goto
  <2>4. PollAgain(t) \/ ActualizeAgain(t) => pc'[t] \notin {"checking", "record"}
    BY PolledOn DEF Status, Say, Goto
  <2>5. PosBusy(t) \/ PosError(t) \/ PosFinal(t) \/ UnknownTimeout(t) =>
          pc'[t] = "record" /\ evt'[t] \in Verdicts
    BY DEF PosBusy, PosError, PosFinal, UnknownTimeout, Conclude, Say, Goto
  <2>6. ResumeOrphan(t) => pc'[t] = "record" /\ evt'[t] \in Verdicts
    BY DEF ResumeOrphan, Say, Goto
  <2>7. ResumeOrphansDone(t) \/ ResumePoll(t) \/ ResumeDone(t) \/ LinkUp(t) =>
          pc'[t] \notin {"checking", "record"}
    BY DEF ResumeOrphansDone, ResumePoll, ResumeDone, LinkUp, Leave, Goto
  <2> QED
    BY <2>1, <2>2, <2>3, <2>4, <2>5, <2>6, <2>7 DEF TaskStep, Handle
<1> QED
  BY <1>1, <1>2, <1>3 DEF WorksAt, Resumes

\* A task that is at "emit" has just come to it.
LEMMA EmitOrAnswer ==
  ASSUME AgentInv, NEW t \in Tasks, TaskStep(t)
  PROVE  pc'[t] = "emit" => pc[t] \notin {"emit", "answer"}
<1> USE DEF AgentInv, OneInv, TypeInv, TypeOK, Say, Goto
<1>1. ~(Emit(t) /\ pc'[t] = "emit")
  BY DEF Emit
<1>2. ~(Answer(t) /\ pc'[t] = "emit")
  BY DEF Answer, Leave
<1>3. ~(SendRaises(t) /\ pc'[t] = "emit")
  BY DEF SendRaises, Leave
<1>4. CheckAnswer(t) \/ Recheck(t) \/ Create(t) \/ Record(t) \/ CallSend(t) \/ StartOk(t)
        \/ PosBusy(t) \/ PosError(t) => pc[t] \notin {"emit", "answer"}
  BY DEF CheckAnswer, Recheck, Create, Record, CallSend, StartOk, PosBusy, PosError
<1>5. PosFinal(t) \/ PollAgain(t) \/ UnknownTimeout(t) \/ UnknownNext(t) \/ ActualizeAgain(t)
        \/ ResumeOrphan(t) \/ ResumeOrphansDone(t) \/ ResumePoll(t) \/ ResumeDone(t)
        \/ LinkUp(t) => pc[t] \notin {"emit", "answer"}
  BY DEF PosFinal, PollAgain, UnknownTimeout, UnknownNext, ActualizeAgain,
         ResumeOrphan, ResumeOrphansDone, ResumePoll, ResumeDone, LinkUp
<1>6. (\E c \in Cmds : Received(t, c)) => pc[t] \notin {"emit", "answer"}
  BY DEF Received, ReceiveKnown, ReceiveBusy, ReceiveStart, ReceiveCheck, CanReceive
<1> QED
  BY <1>1, <1>2, <1>3, <1>4, <1>5, <1>6 DEF TaskStep, Handle

\* What a step of the coordinator does to the commands that were announced.
LEMMA SeenStays ==
  ASSUME AgentInv, [Next]_vars, UiInv, NEW c \in seen
  PROVE  c \in Cmds /\ stored'[c] # "none"
<1> USE DEF AgentInv, OneInv
<1>1. c \in Cmds /\ stored[c] # "none"
  BY DEF UiInv, UiTypeOK
<1>2. CASE UNCHANGED vars
  BY <1>1, <1>2 DEF vars
<1>3. CASE Next
  BY <1>1, <1>3, OnlyRecord, Replied DEF TypeInv, TypeOK
<1> QED
  BY <1>2, <1>3

\* A task's step, projected, keeps the window truthful.
LEMMA ProjectedStep ==
  ASSUME OneTaskOnly, SessionOnly, AgentInv, AgentInv', UiInv,
         NEW t \in Tasks, Project, TaskStep(t)
  PROVE  UiInv'
<1>1. \A u \in Tasks : u = t
  BY DEF OneTaskOnly
<1>2. ui \in Views /\ seen \subseteq Cmds
  BY DEF UiInv, UiTypeOK, Views
<1>3. \A u \in Tasks : WorksAt(u)'
  BY <1>1, OwnWorks
<1>n. Next
  BY TaskNext
<1>4. CASE Emitting(t)
  <2>1. /\ ui' = Applied(cmd'[t], evt'[t], ops'[cmd'[t]].status)
        /\ seen' = seen \cup {cmd'[t]}
    BY <1>1, <1>4, Projected DEF Project, Noted
  <2>2. cmd'[t] \in Cmds /\ stored'[cmd'[t]] # "none"
    BY <1>4, EmitStep
  <2>3. ops'[cmd'[t]].status \in {"none"} \cup ActiveStatuses \cup EndStatuses \cup OtherStatuses
    BY <2>2 DEF AgentInv, OneInv, TypeInv, TypeOK, Row
  <2>4. UiTypeOK'
    BY <1>2, <2>1, <2>2, <2>3, AppliedType DEF UiTypeOK, Views
  <2>5. \A c \in seen' : stored'[c] # "none"
    BY <1>n, <2>1, <2>2, SeenStays
  <2>6. CASE pc'[t] = "emit"
    <3>1. /\ evt'[t] \in {"accepted", "started", "wait", "unknown"}
          /\ ops'[cmd'[t]].status \in Unended
          /\ \A c \in Cmds : Active(c)' => c = cmd'[t]
      BY <1>4, <2>6, EmitStep
    <3>2. ui'.op = cmd'[t] /\ ui'.st = ops'[cmd'[t]].status
      BY <2>1, <3>1 DEF Applied
    <3>3. ui'.st \notin EndStatuses \cup {"none"}
      BY <3>1, <3>2, StatusAssumption DEF Unended
    <3>4. RunningIsShown'
      BY <1>1, <3>2, <3>3 DEF RunningIsShown
    <3>5. \A c \in seen' : Active(c)' => Shows(c)'
      BY <2>4, <3>1, <3>2, <3>3 DEF Shows, UiTypeOK
    <3> QED
      BY <1>3, <2>4, <2>5, <3>4, <3>5 DEF UiInv
  <2>7. CASE pc'[t] = "answer"
    <3>1. \A c \in Cmds : ~Active(c)'
      BY <1>4, <2>7, EmitStep
    <3>2. RunningIsShown'
      BY <1>1, <2>7 DEF RunningIsShown, Shown
    <3> QED
      BY <1>3, <2>4, <2>5, <3>1, <3>2 DEF UiInv, UiTypeOK
  <2> QED
    BY <1>4, <2>6, <2>7 DEF Emitting
<1>5. CASE ~Emitting(t)
  <2>1. ui' = ui /\ seen' = seen
    BY <1>1, <1>5, Projected DEF Project, Noted
  <2>2. UiTypeOK' /\ \A c \in seen' : stored'[c] # "none"
    BY <1>n, <1>2, <2>1, SeenStays DEF UiTypeOK, Views
  <2>3. ASSUME NEW c \in seen', Active(c)' PROVE Shows(c)'
    <3>1. c \in Cmds /\ c \in seen /\ stored[c] # "none"
      BY <1>2, <2>1 DEF UiInv
    <3>2. CASE Active(c)
      BY <2>1, <3>1, <3>2 DEF UiInv, Shows
    <3>3. ASSUME NEW u \in Tasks, Create(u), cmd[u] = c PROVE FALSE
      BY <3>1, <3>3, Created DEF AgentInv
    <3>4. ASSUME NEW u \in Tasks, StartOk(u) \/ PollAgain(u) \/ ActualizeAgain(u), cmd[u] = c
          PROVE  Shows(c)'
      <4>1. u = t
        BY <1>1
      <4>2. ~(StartOk(t) \/ PollAgain(t))
        BY <1>5 DEF StartOk, PollAgain, Emitting, Status, Say, Goto, AgentInv, OneInv, TypeInv, TypeOK
      <4>3. Shown(t)
        BY <3>4, <4>1, <4>2 DEF ActualizeAgain, Shown
      <4> QED
        BY <2>1, <3>4, <4>1, <4>3 DEF UiInv, RunningIsShown, Shows
    <3> QED
      BY <1>n, <2>3, <3>1, <3>2, <3>3, <3>4, Activated DEF Active, AgentInv
  <2>4. RunningIsShown'
    <3> SUFFICES ASSUME Shown(t)' PROVE Shows(cmd[t])'
      BY <1>1 DEF RunningIsShown, Shows
    <3>2. pc'[t] # "emit"
      BY <1>5, EmitOrAnswer DEF Emitting
    <3>3. CASE Shown(t) /\ cmd'[t] = cmd[t]
      BY <2>1, <3>3 DEF UiInv, RunningIsShown, Shows
    <3>4. CASE Active(cmd'[t]) /\ cmd'[t] \in seen'
      BY <2>1, <3>4 DEF UiInv, Shows
    <3> QED
      BY <3>2, <3>3, <3>4, ShownStep
  <2> QED
    BY <1>3, <2>2, <2>3, <2>4 DEF UiInv
<1> QED
  BY <1>4, <1>5

\* The death of the process, and what happens outside it.
LEMMA NextUiInv ==
  ASSUME OneTaskOnly, SessionOnly, AgentInv, AgentInv', UiInv, [UiNext]_uiVars
  PROVE  UiInv'
<1>1. ASSUME NEW t \in Tasks, TaskStep(t), Project PROVE UiInv'
  BY <1>1, ProjectedStep
<1>2. ASSUME UNCHANGED <<ui, seen, ops, stored, local>>,
             \A t \in Tasks : pc[t] # "idle" => link'[ProcOf[t]] = link[ProcOf[t]]
                                                \/ link'[ProcOf[t]] # "none"
      PROVE  UiInv'
  <2>1. UiTypeOK' /\ RunningIsShown'
    BY <1>2 DEF UiInv, UiTypeOK, RunningIsShown, Shown, local
  <2>2. \A t \in Tasks : WorksAt(t)'
    BY <1>2 DEF UiInv, WorksAt, Resumes, Active, local
  <2> QED
    BY <1>2, <2>1, <2>2 DEF UiInv, Shows, Active
<1>3. ASSUME NEW q \in Procs, LinkLost(q) \/ LinkEnd(q), UNCHANGED <<ui, seen>> PROVE UiInv'
  <2>1. UNCHANGED <<ui, seen, ops, stored, local>>
    BY <1>3 DEF LinkLost, LinkEnd, durable
  <2>2. ASSUME NEW t \in Tasks, pc[t] # "idle"
        PROVE  link'[ProcOf[t]] = link[ProcOf[t]] \/ link'[ProcOf[t]] # "none"
    <3>1. LinkEnd(q) => ProcOf[t] # q
      BY <2>2 DEF LinkEnd
    <3>2. DOMAIN link = Procs /\ ProcOf[t] \in Procs
      BY ProcessAssumption DEF AgentInv, OneInv, TypeInv, TypeOK
    <3>3. ProcOf[t] # q => link'[ProcOf[t]] = link[ProcOf[t]]
      BY <1>3, <3>2 DEF LinkLost, LinkEnd
    <3>4. LinkLost(q) => link'[q] = "closed"
      BY <3>2 DEF LinkLost, AgentInv, OneInv, TypeInv, TypeOK
    <3> QED
      BY <1>3, <3>1, <3>3, <3>4
  <2> QED
    BY <1>2, <2>1, <2>2
<1>4. ASSUME NEW c \in Cmds, PosReceive(c) \/ PosDecide(c), UNCHANGED <<ui, seen>> PROVE UiInv'
  BY <1>2, <1>4 DEF PosReceive, PosDecide, durable
<1>5. ASSUME UiRestart PROVE UiInv'
  <2>1. ui' = Blank /\ seen' = {}
    BY <1>5 DEF UiRestart
  <2>2. UiTypeOK'
    BY <2>1 DEF UiTypeOK, Blank, Terminal
  <2>3. ASSUME NEW q \in Procs, NEW t \in Tasks, ProcOf[t] = q, Dies(q)
        PROVE  \A u \in Tasks : pc'[u] = "idle" /\ job'[u] = "none"
    BY <2>3 DEF Dies, OneTaskOnly
  <2>4. \A u \in Tasks : pc'[u] = "idle" /\ job'[u] = "none"
    BY <1>5, <2>3, ProcessAssumption DEF UiRestart, Crash, CreateCollides
  <2> QED
    BY <2>1, <2>2, <2>4 DEF UiInv, RunningIsShown, Shown, WorksAt, Resumes
<1>6. ASSUME TerminalEvent PROVE UiInv'
  <2>1. PICK s \in {"checking", "ready", "unavailable", "unauthorized"} :
           ui' = [ui EXCEPT !.term = s]
    BY <1>6 DEF TerminalEvent
  <2>2. UiTypeOK' /\ ui'.op = ui.op /\ ui'.st = ui.st
    BY <1>6, <2>1 DEF TerminalEvent, UiInv, UiTypeOK, Terminal
  <2>3. UNCHANGED <<seen, ops, stored, link, local>>
    BY <1>6 DEF TerminalEvent, vars, local
  <2>4. RunningIsShown'
    BY <2>2, <2>3 DEF UiInv, RunningIsShown, Shown, local
  <2>5. \A t \in Tasks : WorksAt(t)'
    BY <2>3 DEF UiInv, WorksAt, Resumes, Active, local
  <2> QED
    BY <2>2, <2>3, <2>4, <2>5 DEF UiInv, Shows, Active
<1>7. ASSUME UNCHANGED uiVars PROVE UiInv'
  BY <1>2, <1>7 DEF uiVars, vars, local
<1> QED
  BY <1>1, <1>3, <1>4, <1>5, <1>6, <1>7, CommandAssumption DEF UiNext, TaskStep, Receive, Received

\* The invariant holds in every reachable state of the window.
LEMMA UiInvariant == ASSUME OneTaskOnly, SessionOnly PROVE UiSpec => []UiInv
<1>0. OneProcessOnly
  BY DEF OneTaskOnly, OneProcessOnly
<1>1. UiInit => UiInv
  BY DEF UiInit, UiInv, UiTypeOK, RunningIsShown, Shown, WorksAt, Resumes, Blank, Terminal, Init
<1>2. AgentInv /\ AgentInv' /\ UiInv /\ [UiNext]_uiVars => UiInv'
  BY OneTaskOnly, SessionOnly, NextUiInv
<1>3. UiInit => Init
  BY DEF UiInit
<1>4. [UiNext]_uiVars => [Next]_vars
  BY UiStep DEF uiVars
<1>5. Spec => []OneInv
  BY <1>0, OneProcess
<1>6. Spec => [](PickedInv /\ StandInv)
  BY <1>0, StandInvariance
<1>7. OneInv /\ PickedInv /\ StandInv => AgentInv
  BY DEF AgentInv
<1> QED
  BY <1>1, <1>2, <1>3, <1>4, <1>5, <1>6, <1>7, PTL DEF UiSpec, Spec

\* The window always shows one of its statuses and a command or none.
THEOREM UiTypes == ASSUME OneTaskOnly, SessionOnly PROVE UiSpec => []UiTypeOK
<1>1. UiInv => UiTypeOK
  BY DEF UiInv
<1> QED
  BY <1>1, UiInvariant, PTL

\* Whatever is lost or duplicated, an operation that runs is shown as running from
\* its first event in this process on, over reconnects and resumes; of one that
\* runs when the process starts this says nothing before that event.
THEOREM RunningOperationIsShown ==
  ASSUME OneTaskOnly, SessionOnly PROVE UiSpec => []RunningIsShown
<1>1. UiInv => RunningIsShown
  BY DEF UiInv
<1> QED
  BY <1>1, UiInvariant, PTL
=============================================================================
