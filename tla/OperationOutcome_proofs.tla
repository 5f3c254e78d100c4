----------------------- MODULE OperationOutcome_proofs -----------------------
(* What one process tells the CRM of an operation is what its row and the    *)
(* terminal say, for any number of commands, tasks and crashes.  The         *)
(* invariant relates each label of a handler to the row and to the response  *)
(* on record of the command it works on.                                     *)
EXTENDS OperationProcesses_proofs, FiniteSetTheorems

USE DEF ActiveStatuses, EndStatuses, Errors, Verdicts, Stored, Events,
        Awaits, Sync, Jobs, PosStates

\* What a row says of itself and of the terminal.
RowOf(c) ==
  /\ ops[c].status \notin EndStatuses => ops[c].err = "none"
  /\ c \in Checks => ops[c].status = "none" /\ stored[c] # "busy"
  /\ sent[c] = 0 => pos[c] = "idle"
  /\ ops[c].status = "success" => pos[c] = "paid"
  /\ ops[c].pid => sent[c] # 0
  /\ ops[c].status \in Unended => ops[c].pid \/ ops[c].status = "accepted"

\* What the response on record and the CRM know of it.
ReplyOf(c) ==
  /\ stored[c] \in Verdicts => stored[c] = VerdictOf(ops[c])
  /\ told[c] \subseteq {stored[c]}
  /\ stored[c] \in {"none", "busy"} => pos[c] = "idle"

\* What a task's label says of its command's row and record.
Label(t) ==
  /\ pc[t] = "locked" => cmd[t] \notin Checks
  /\ pc[t] = "create" => cmd[t] \notin Checks /\ stored[cmd[t]] = "none"
  /\ pc[t] = "checking" => cmd[t] \in Checks
  /\ pc[t] = "emit" => evt[t] \in {"accepted", "started", "wait", "unknown"}
  /\ pc[t] = "emit" /\ evt[t] # "accepted" => ops[cmd[t]].pid
  /\ pc[t] \in {"poll", "unknown", "actualize"} => ops[cmd[t]].pid
  /\ pc[t] = "call" \/ (pc[t] = "emit" /\ evt[t] = "accepted") => stored[cmd[t]] = "accepted"
  /\ pc[t] = "record" =>
       \/ evt[t] = "accepted"
       \/ evt[t] = "busy" /\ cmd[t] \notin Checks /\ stored[cmd[t]] = "none"
       \/ evt[t] = "device" /\ cmd[t] \in Checks
       \/ evt[t] \in Verdicts /\ evt[t] = VerdictOf(ops[cmd[t]])
  /\ pc[t] = "answer" /\ evt[t] \in Verdicts => stored[cmd[t]] = evt[t]

OutcomeInv ==
  /\ \A c \in Cmds : RowOf(c) /\ ReplyOf(c)
  /\ \A t \in Tasks : Label(t)

\* The invariants together, for one process.
OneInv == TypeInv /\ StartInv /\ WorkInv /\ ResumeInv /\ OutcomeInv

\* A row has a verdict when it has ended, and only then.
LEMMA VerdictFacts ==
  ASSUME NEW row \in Row
  PROVE  /\ (VerdictOf(row) \in Verdicts) <=> (row.status \in EndStatuses)
         /\ row.status = "manual_review" => VerdictOf(row) = "manual_review"
         /\ row.status = "success" => VerdictOf(row) = "completed"
         /\ row.status = "fail" /\ row.err = "terminal_busy" => VerdictOf(row) = "rejected"
         /\ row.status = "fail" /\ row.err # "terminal_busy" => VerdictOf(row) = "failed"
BY DEF VerdictOf, Row

\* At first no row, reply or label says anything.
LEMMA InitOutcome == Init => OutcomeInv
BY StatusAssumption DEF Init, OutcomeInv, RowOf, ReplyOf, Label, NoRow, Unended

\* A verdict written by the task of an operation: the row, and who knows it.
LEMMA Concluded ==
  ASSUME OneInv, NEW t \in Tasks, NEW s \in EndStatuses, NEW e \in Errors, NEW v,
         InOperation(t), Conclude(t, s, e, v)
  PROVE  /\ cmd[t] \in Cmds /\ ops[cmd[t]].status \in Unended
         /\ ops[cmd[t]].err = "none" /\ cmd[t] \notin Checks
         /\ ops'[cmd[t]] \in Row /\ ops'[cmd[t]].status = s /\ ops'[cmd[t]].err = e
         /\ ops'[cmd[t]].pid = ops[cmd[t]].pid
         /\ \A c \in Cmds \ {cmd[t]} : ops'[c] = ops[c]
         /\ UNCHANGED <<stored, cmd, pos, sent, told>>
<1> USE DEF OneInv, TypeInv, TypeOK
<1>1. cmd[t] \in Cmds
  BY DEF InOperation, Shape
<1>2. ops[cmd[t]].status \in Unended
  BY DEF WorkInv
<1>3. RowOf(cmd[t])
  BY <1>1 DEF OutcomeInv
<1>4. ops[cmd[t]].err = "none" /\ cmd[t] \notin Checks
  BY <1>2, <1>3, StatusAssumption DEF RowOf, Unended
<1>5. ops' = [ops EXCEPT ![cmd[t]].status = s, ![cmd[t]].err = e]
  BY DEF Conclude
<1>6. ops'[cmd[t]] = [ops[cmd[t]] EXCEPT !.status = s, !.err = e]
  BY <1>1, <1>5
<1>7. ops[cmd[t]] \in Row
  BY <1>1
<1>8. /\ ops'[cmd[t]] \in Row /\ ops'[cmd[t]].status = s /\ ops'[cmd[t]].err = e
      /\ ops'[cmd[t]].pid = ops[cmd[t]].pid
  BY <1>6, <1>7 DEF Row
<1> QED
  BY <1>1, <1>2, <1>4, <1>5, <1>8 DEF Conclude, history

\* The four ways an operation is concluded: what is said is what the row says, and a
\* success is the terminal's.
LEMMA Verdict ==
  ASSUME OneInv, NEW t \in Tasks,
         PosBusy(t) \/ PosError(t) \/ PosFinal(t) \/ UnknownTimeout(t)
  PROVE  \E s \in EndStatuses, e \in Errors, v \in Verdicts :
           /\ InOperation(t) /\ Conclude(t, s, e, v)
           /\ s = "success" => v = "completed" /\ pos[cmd[t]] = "paid"
           /\ s = "manual_review" => v = "manual_review"
           /\ s = "fail" => v = IF e = "terminal_busy" THEN "rejected" ELSE "failed"
<1>0. InOperation(t)
  BY DEF InOperation, PosBusy, PosError, PosFinal, UnknownTimeout
<1>1. CASE PosBusy(t)
  BY <1>0, <1>1 DEF PosBusy
<1>2. CASE PosError(t)
  BY <1>0, <1>2 DEF PosError
<1>3. CASE PosFinal(t)
  <2>1. cmd[t] \in Cmds /\ ops[cmd[t]].status \in Unended
    BY <1>0 DEF OneInv, TypeInv, Shape, InOperation, WorkInv
  <2>2. ops[cmd[t]].err = "none"
    BY <2>1, StatusAssumption DEF Unended, OneInv, OutcomeInv, RowOf
  <2> QED
    BY <1>0, <1>3, <2>2 DEF PosFinal
<1>4. CASE UnknownTimeout(t)
  BY <1>0, <1>4 DEF UnknownTimeout
<1> QED
  BY <1>1, <1>2, <1>3, <1>4

\* A task at work whose operation does not end: its row keeps its error and
\* never loses its processId.
LEMMA Continued ==
  ASSUME OneInv, NEW t \in Tasks, StartOk(t) \/ PollAgain(t) \/ ActualizeAgain(t)
  PROVE  /\ cmd[t] \in Cmds /\ cmd[t] \notin Checks
         /\ ops[cmd[t]].status \in Unended /\ ops'[cmd[t]].status \in Answered
         /\ ops'[cmd[t]].err = "none" /\ ops'[cmd[t]].pid /\ sent[cmd[t]] # 0
         /\ \A c \in Cmds \ {cmd[t]} : ops'[c] = ops[c]
         /\ UNCHANGED <<stored, cmd, pos, sent, told>>
<1> USE DEF OneInv, TypeInv, TypeOK
<1>0. InOperation(t)
  BY DEF InOperation, StartOk, PollAgain, ActualizeAgain
<1>1. cmd[t] \in Cmds /\ ops[cmd[t]].status \in Unended
  BY <1>0 DEF InOperation, Shape, WorkInv
<1>2. ops[cmd[t]].err = "none" /\ cmd[t] \notin Checks
  BY <1>1, StatusAssumption DEF OutcomeInv, RowOf, Unended
<1>3. UNCHANGED <<stored, cmd, pos, sent, told>>
  BY DEF StartOk, PollAgain, ActualizeAgain, Status, history
<1>r. ops[cmd[t]] \in Row /\ RowOf(cmd[t]) /\ Label(t)
  BY <1>1 DEF OutcomeInv
<1>4. CASE StartOk(t)
  <2>1. PICK s \in Answered :
           ops' = [ops EXCEPT ![cmd[t]].status = s, ![cmd[t]].pid = TRUE]
    BY <1>4 DEF StartOk
  <2>2. ops'[cmd[t]] = [ops[cmd[t]] EXCEPT !.status = s, !.pid = TRUE]
    BY <1>1, <2>1
  <2>3. /\ ops'[cmd[t]].status = s /\ ops'[cmd[t]].err = ops[cmd[t]].err
        /\ ops'[cmd[t]].pid
    BY <1>r, <2>2 DEF Row
  <2>4. \A c \in Cmds \ {cmd[t]} : ops'[c] = ops[c]
    BY <2>1
  <2>5. sent[cmd[t]] # 0
    BY <1>4, <1>r DEF StartOk, RowOf
  <2> QED
    BY <1>1, <1>2, <1>3, <2>3, <2>4, <2>5
<1>5. CASE PollAgain(t) \/ ActualizeAgain(t)
  <2>1. PICK s \in Answered : ops' = [ops EXCEPT ![cmd[t]].status = s]
    BY <1>5, PolledOn DEF Status
  <2>2. ops'[cmd[t]] = [ops[cmd[t]] EXCEPT !.status = s]
    BY <1>1, <2>1
  <2>3. /\ ops'[cmd[t]].status = s /\ ops'[cmd[t]].err = ops[cmd[t]].err
        /\ ops'[cmd[t]].pid = ops[cmd[t]].pid
    BY <1>r, <2>2 DEF Row
  <2>4. \A c \in Cmds \ {cmd[t]} : ops'[c] = ops[c]
    BY <2>1
  <2>5. ops[cmd[t]].pid /\ sent[cmd[t]] # 0
    BY <1>5, <1>r DEF PollAgain, ActualizeAgain, Label, RowOf
  <2> QED
    BY <1>1, <1>2, <1>3, <2>3, <2>4, <2>5
<1> QED
  BY <1>4, <1>5

\* The row of an operation put to manual review by the resume.
LEMMA Orphaned ==
  ASSUME OneInv, NEW t \in Tasks, ResumeOrphan(t)
  PROVE  \E c \in todo[t] :
           /\ c \in Cmds /\ c \notin Checks /\ ops[c].status \in ActiveStatuses
           /\ ops'[c] \in Row /\ ops'[c].status = "manual_review"
           /\ ops'[c].err = "unknown_timeout" /\ ops'[c].pid = ops[c].pid
           /\ \A d \in Cmds \ {c} : ops'[d] = ops[d]
           /\ cmd'[t] = c /\ pc'[t] = "record" /\ evt'[t] = "manual_review"
           /\ UNCHANGED <<stored, pos, sent, told>>
<1> USE DEF OneInv, TypeInv, TypeOK
<1>1. PICK c \in todo[t] :
         /\ ops' = [ops EXCEPT ![c].status = "manual_review", ![c].err = "unknown_timeout"]
         /\ cmd' = [cmd EXCEPT ![t] = c]
  BY DEF ResumeOrphan
<1>2. c \in Cmds /\ ops[c].status \in ActiveStatuses
  BY DEF ResumeInv
<1>3. c \notin Checks
  BY <1>2 DEF OutcomeInv, RowOf
<1>4. ops'[c] = [ops[c] EXCEPT !.status = "manual_review", !.err = "unknown_timeout"]
  BY <1>1, <1>2
<1>5. ops[c] \in Row
  BY <1>2
<1>6. /\ ops'[c] \in Row /\ ops'[c].status = "manual_review"
      /\ ops'[c].err = "unknown_timeout" /\ ops'[c].pid = ops[c].pid
  BY <1>4, <1>5 DEF Row
<1>7. /\ pc'[t] = "record" /\ evt'[t] = "manual_review" /\ cmd'[t] = c
      /\ UNCHANGED <<stored, pos, sent, told>>
  BY <1>1 DEF ResumeOrphan, Say, Goto, history
<1> QED
  BY <1>1, <1>2, <1>3, <1>6, <1>7

\* The row of an accepted command.
LEMMA Created ==
  ASSUME OneInv, NEW t \in Tasks, Create(t)
  PROVE  /\ cmd[t] \in Cmds /\ cmd[t] \notin Checks /\ ops[cmd[t]].status = "none"
         /\ stored[cmd[t]] = "none" /\ \A d \in Cmds : ops[d].status \notin ActiveStatuses
         /\ ops'[cmd[t]].status = "accepted" /\ ops'[cmd[t]].err = ops[cmd[t]].err
         /\ ops'[cmd[t]].pid = ops[cmd[t]].pid
         /\ \A d \in Cmds \ {cmd[t]} : ops'[d] = ops[d]
         /\ pc'[t] = "record" /\ evt'[t] = "accepted"
         /\ UNCHANGED <<cmd, stored, pos, sent, told>>
<1> USE DEF OneInv, TypeInv, TypeOK
<1>1. pc[t] = "create" /\ cmd[t] \in Cmds /\ ops[cmd[t]].status = "none"
  BY DEF Create, Shape
<1>2. cmd[t] \notin Checks /\ stored[cmd[t]] = "none"
  BY <1>1 DEF OutcomeInv, Label
<1>3. \A d \in Cmds : ops[d].status \notin ActiveStatuses
  BY <1>1 DEF WorkInv
<1>4. ops' = [ops EXCEPT ![cmd[t]].status = "accepted"]
  BY DEF Create
<1>5. ops'[cmd[t]] = [ops[cmd[t]] EXCEPT !.status = "accepted"]
  BY <1>1, <1>4
<1>6. ops[cmd[t]] \in Row
  BY <1>1
<1>7. /\ ops'[cmd[t]].status = "accepted" /\ ops'[cmd[t]].err = ops[cmd[t]].err
      /\ ops'[cmd[t]].pid = ops[cmd[t]].pid
  BY <1>5, <1>6 DEF Row
<1> QED
  BY <1>1, <1>2, <1>3, <1>4, <1>7 DEF Create, Say, Goto, history

\* A response is recorded over "accepted" or over nothing, or it is the one
\* that is already there.
LEMMA Replied ==
  ASSUME OneInv, NEW t \in Tasks, Record(t)
  PROVE  /\ cmd[t] \in Cmds /\ evt[t] \in Stored \ {"none"}
         /\ stored' = [stored EXCEPT ![cmd[t]] = evt[t]]
         /\ evt[t] = "accepted" => stored[cmd[t]] \notin Verdicts
                                   /\ ops[cmd[t]].status \in Unended
         /\ evt[t] = "busy" => cmd[t] \notin Checks /\ stored[cmd[t]] = "none"
         /\ evt[t] = "device" => cmd[t] \in Checks /\ stored[cmd[t]] \notin Verdicts
         /\ evt[t] \in Verdicts =>
              /\ evt[t] = VerdictOf(ops[cmd[t]]) /\ ops[cmd[t]].status \in EndStatuses
              /\ stored[cmd[t]] \in Verdicts => stored[cmd[t]] = evt[t]
         /\ UNCHANGED <<ops, cmd, evt, pos, sent, told>>
<1> USE DEF OneInv, TypeInv, TypeOK
<1>1. pc[t] = "record" /\ cmd[t] \in Cmds /\ evt[t] \in Stored \ {"none"}
  BY DEF Record, Shape
<1>2. Label(t) /\ RowOf(cmd[t]) /\ ReplyOf(cmd[t])
  BY <1>1 DEF OutcomeInv
<1>3. ops[cmd[t]] \in Row
  BY <1>1
<1>4. (VerdictOf(ops[cmd[t]]) \in Verdicts) <=> (ops[cmd[t]].status \in EndStatuses)
  BY <1>3, VerdictFacts
<1>5. evt[t] = "accepted" =>
        ops[cmd[t]].status \in Unended /\ ops[cmd[t]].status \notin EndStatuses
  BY <1>1, StatusAssumption DEF WorkInv, InOperation, Unended
<1>6. stored[cmd[t]] \in Verdicts => ops[cmd[t]].status \in EndStatuses
  BY <1>2, <1>4 DEF ReplyOf
<1> QED
  BY <1>1, <1>2, <1>4, <1>5, <1>6 DEF Record, Label, RowOf, ReplyOf, history

\* The request to the terminal, made once, for the operation at work.
LEMMA Asked ==
  ASSUME OneInv, NEW t \in Tasks, CallSend(t)
  PROVE  /\ cmd[t] \in Cmds /\ ops[cmd[t]].status \in ActiveStatuses
         /\ sent[cmd[t]] = 0 /\ stored[cmd[t]] = "accepted"
         /\ pos' = [pos EXCEPT ![cmd[t]] = "asked"]
         /\ sent' = [sent EXCEPT ![cmd[t]] = 1]
         /\ UNCHANGED <<ops, stored, cmd, told>>
<1> USE DEF OneInv, TypeInv, TypeOK
<1>1. pc[t] = "call" /\ cmd[t] \in Cmds
  BY DEF CallSend, Shape
<1>3. sent[cmd[t]] = 0
  BY <1>1 DEF StartInv, BeforeCall
<1>2. ops[cmd[t]].status \in ActiveStatuses
  <2>1. ops[cmd[t]].status \in Unended
    BY <1>1 DEF WorkInv, InOperation
  <2> QED
    BY <1>1, <1>3, <2>1 DEF OutcomeInv, RowOf
<1>4. stored[cmd[t]] = "accepted"
  BY <1>1 DEF OutcomeInv, Label
<1> QED
  BY <1>1, <1>2, <1>3, <1>4 DEF CallSend, durable, history

\* Every step keeps what the rows say true of the terminal.
LEMMA NextRows ==
  ASSUME OneInv, Next
  PROVE  \A c \in Cmds : RowOf(c)'
<1> USE DEF OneInv, TypeInv, TypeOK
<1> SUFFICES ASSUME NEW c \in Cmds PROVE RowOf(c)'
  OBVIOUS
<1>0. RowOf(c) /\ ops[c] \in Row
  BY DEF OutcomeInv
<1>1. CASE UNCHANGED <<ops, stored, pos, sent>>
  BY <1>0, <1>1 DEF RowOf
<1>2. ASSUME NEW t \in Tasks, Create(t) PROVE RowOf(c)'
  BY <1>0, <1>2, Created DEF RowOf
<1>3. ASSUME NEW t \in Tasks, Record(t) PROVE RowOf(c)'
  BY <1>0, <1>3, Replied DEF RowOf
<1>4. ASSUME NEW t \in Tasks, CallSend(t) PROVE RowOf(c)'
  BY <1>0, <1>4, Asked DEF RowOf
<1>5. ASSUME NEW t \in Tasks, StartOk(t) \/ PollAgain(t) \/ ActualizeAgain(t) PROVE RowOf(c)'
  <2>1. /\ cmd[t] \notin Checks /\ ops'[cmd[t]].status \in Answered
        /\ ops'[cmd[t]].err = "none" /\ ops'[cmd[t]].pid /\ sent[cmd[t]] # 0
        /\ \A d \in Cmds \ {cmd[t]} : ops'[d] = ops[d]
        /\ UNCHANGED <<stored, pos, sent>>
    BY <1>5, Continued
  <2> QED
    BY <1>0, <2>1, StatusAssumption DEF RowOf, Answered, Unended
<1>6. ASSUME NEW t \in Tasks,
             PosBusy(t) \/ PosError(t) \/ PosFinal(t) \/ UnknownTimeout(t)
      PROVE  RowOf(c)'
  <2>1. PICK s \in EndStatuses, e \in Errors, v \in Verdicts :
           /\ InOperation(t) /\ Conclude(t, s, e, v)
           /\ s = "success" => v = "completed" /\ pos[cmd[t]] = "paid"
           /\ s = "manual_review" => v = "manual_review"
           /\ s = "fail" => v = IF e = "terminal_busy" THEN "rejected" ELSE "failed"
    BY <1>6, Verdict
  <2>2. /\ cmd[t] \in Cmds /\ cmd[t] \notin Checks
        /\ ops'[cmd[t]].status = s /\ ops'[cmd[t]].err = e
        /\ ops'[cmd[t]].pid = ops[cmd[t]].pid
        /\ \A d \in Cmds \ {cmd[t]} : ops'[d] = ops[d]
        /\ UNCHANGED <<stored, cmd, pos, sent>>
    BY <2>1, Concluded
  <2>3. CASE c = cmd[t]
    BY <1>0, <2>1, <2>2, <2>3, StatusAssumption DEF RowOf, Unended
  <2>4. CASE c # cmd[t]
    BY <1>0, <2>2, <2>4 DEF RowOf
  <2> QED
    BY <2>3, <2>4
<1>7. ASSUME NEW t \in Tasks, ResumeOrphan(t) PROVE RowOf(c)'
  BY <1>0, <1>7, Orphaned, StatusAssumption DEF RowOf, Unended
<1>8. ASSUME NEW d \in Cmds, PosReceive(d) \/ PosDecide(d) PROVE RowOf(c)'
  <2>1. /\ pos[d] \in {"asked", "running"} /\ UNCHANGED <<ops, stored, sent>>
        /\ \A b \in Cmds \ {d} : pos'[b] = pos[b]
    BY <1>8 DEF PosReceive, PosDecide, durable
  <2> QED
    BY <1>0, <2>1 DEF RowOf
<1> QED
  BY <1>1, <1>2, <1>3, <1>4, <1>5, <1>6, <1>7, <1>8, Untouched

\* Only what a handler sends changes what the CRM was told.
LEMMA Untold ==
  ASSUME Next
  PROVE  UNCHANGED told \/ \E t \in Tasks : Emit(t) \/ Answer(t)
<1> USE DEF history
<1>1. ASSUME NEW t \in Tasks,
             \/ CheckAnswer(t) \/ Recheck(t) \/ Create(t) \/ Record(t) \/ SendRaises(t)
             \/ CallSend(t) \/ StartOk(t) \/ PosBusy(t) \/ PosError(t) \/ PosFinal(t)
             \/ PollAgain(t) \/ UnknownTimeout(t) \/ UnknownNext(t) \/ ActualizeAgain(t)
      PROVE  UNCHANGED told
  BY <1>1 DEF CheckAnswer, Recheck, Create, Record, SendRaises, CallSend, StartOk, PosBusy,
              PosError, PosFinal, PollAgain, UnknownTimeout, UnknownNext, ActualizeAgain,
              Conclude, Status
<1>2. ASSUME NEW t \in Tasks,
             \/ ResumeOrphan(t) \/ ResumeOrphansDone(t) \/ ResumePoll(t) \/ ResumeDone(t)
             \/ CreateCollides(t) \/ LinkUp(t)
      PROVE  UNCHANGED told
  BY <1>2 DEF ResumeOrphan, ResumeOrphansDone, ResumePoll, ResumeDone, CreateCollides, Dies, LinkUp
<1>3. ASSUME NEW t \in Tasks, NEW c \in Cmds,
             ReceiveKnown(t, c) \/ ReceiveBusy(t, c) \/ ReceiveStart(t, c) \/ ReceiveCheck(t, c)
      PROVE  UNCHANGED told
  BY <1>3 DEF ReceiveKnown, ReceiveBusy, ReceiveStart, ReceiveCheck, Begin
<1>4. ASSUME NEW p \in Procs, LinkLost(p) \/ LinkEnd(p) \/ Crash(p) PROVE UNCHANGED told
  BY <1>4 DEF LinkLost, LinkEnd, Crash, Dies
<1>5. ASSUME NEW c \in Cmds, PosReceive(c) \/ PosDecide(c) PROVE UNCHANGED told
  BY <1>5 DEF PosReceive, PosDecide
<1> QED
  BY <1>1, <1>2, <1>3, <1>4, <1>5, NextActions

\* A verdict that is sent is the one on record.
LEMMA Told ==
  ASSUME OneInv, NEW t \in Tasks, Emit(t) \/ Answer(t)
  PROVE  /\ UNCHANGED <<ops, stored, pos>>
         /\ \A c \in Cmds : told'[c] \subseteq told[c] \cup ({stored[c]} \cap Verdicts)
<1> USE DEF OneInv, TypeInv, TypeOK
<1>1. cmd[t] \in Cmds /\ Label(t) /\ pc[t] \in {"emit", "answer"} /\ evt[t] \in Events
  BY DEF Emit, Answer, Shape, OutcomeInv
<1>2. evt[t] \in Verdicts => stored[cmd[t]] = evt[t]
  BY <1>1 DEF Label
<1>3. Delivered(t) /\ UNCHANGED <<ops, stored, pos>>
  BY DEF Emit, Answer, durable
<1> QED
  BY <1>1, <1>2, <1>3 DEF Delivered

\* A verdict on record stays there, and so does "accepted" while the operation
\* is at work.
LEMMA RecordStays ==
  ASSUME OneInv, Next, NEW c \in Cmds
  PROVE  /\ stored[c] \in Verdicts => stored'[c] = stored[c]
         /\ stored[c] = "accepted" /\ ops[c].status \in Unended => stored'[c] = "accepted"
<1> USE DEF OneInv, TypeInv, TypeOK
<1>1. CASE UNCHANGED stored
  BY <1>1
<1>2. ASSUME NEW t \in Tasks, Record(t)
      PROVE  /\ stored[c] \in Verdicts => stored'[c] = stored[c]
             /\ stored[c] = "accepted" /\ ops[c].status \in Unended =>
                  stored'[c] = "accepted"
  <2>1. evt[t] = "device" => ops[cmd[t]].status = "none"
    BY <1>2, Replied DEF OutcomeInv, RowOf
  <2> QED
    BY <1>2, <2>1, Replied, StatusAssumption DEF Unended
<1>3. ASSUME NEW t \in Tasks, Create(t) PROVE UNCHANGED stored
  BY <1>3 DEF Create
<1>4. ASSUME NEW t \in Tasks,
             \/ CallSend(t) \/ StartOk(t) \/ PosBusy(t) \/ PosError(t) \/ PosFinal(t)
             \/ PollAgain(t) \/ UnknownTimeout(t) \/ ActualizeAgain(t) \/ ResumeOrphan(t)
      PROVE  UNCHANGED stored
  BY <1>4 DEF CallSend, StartOk, PosBusy, PosError, PosFinal, PollAgain, UnknownTimeout,
              ActualizeAgain, ResumeOrphan, Conclude, Status, durable
<1>5. ASSUME NEW d \in Cmds, PosReceive(d) \/ PosDecide(d) PROVE UNCHANGED stored
  BY <1>5 DEF PosReceive, PosDecide, durable
<1> QED
  BY <1>1, <1>2, <1>3, <1>4, <1>5, Untouched

\* Every step keeps what was recorded and told true of the rows.
LEMMA NextReplies ==
  ASSUME OneInv, Next
  PROVE  \A c \in Cmds : ReplyOf(c)'
<1> USE DEF OneInv, TypeInv, TypeOK
<1> SUFFICES ASSUME NEW c \in Cmds PROVE ReplyOf(c)'
  OBVIOUS
<1>0. /\ ReplyOf(c) /\ ops[c] \in Row /\ stored[c] \in Stored /\ told[c] \subseteq Verdicts
      /\ (VerdictOf(ops[c]) \in Verdicts) <=> (ops[c].status \in EndStatuses)
  <2>1. ReplyOf(c) /\ ops[c] \in Row /\ stored[c] \in Stored /\ told[c] \subseteq Verdicts
    BY DEF OutcomeInv
  <2> QED
    BY <2>1, VerdictFacts
\* The verdict on record is that of the row: the row no longer changes.
<1>1. stored'[c] \in Verdicts => stored'[c] = VerdictOf(ops'[c])
  <2>1. CASE stored[c] \in Verdicts
    <3>1. ops[c].status \in EndStatuses
      BY <1>0, <2>1 DEF ReplyOf
    <3>2. ops'[c] = ops[c]
      BY <3>1, RowChange
    <3> QED
      BY <1>0, <2>1, <3>2, RecordStays DEF ReplyOf
  <2>2. CASE UNCHANGED stored /\ stored[c] \notin Verdicts
    BY <2>2
  <2>3. ASSUME NEW t \in Tasks, Record(t)
        PROVE  stored'[c] \in Verdicts => stored'[c] = VerdictOf(ops'[c])
    BY <1>0, <2>3, Replied DEF ReplyOf
  <2>4. UNCHANGED stored \/ \E t \in Tasks : Record(t)
    <3>1. ASSUME NEW t \in Tasks,
                 \/ Create(t) \/ CallSend(t) \/ StartOk(t) \/ PosBusy(t) \/ PosError(t)
                 \/ PosFinal(t) \/ PollAgain(t) \/ UnknownTimeout(t) \/ ActualizeAgain(t)
                 \/ ResumeOrphan(t)
          PROVE  UNCHANGED stored
      BY <3>1 DEF Create, CallSend, StartOk, PosBusy, PosError, PosFinal, PollAgain,
                  UnknownTimeout, ActualizeAgain, ResumeOrphan, Conclude, Status, durable
    <3>2. ASSUME NEW d \in Cmds, PosReceive(d) \/ PosDecide(d) PROVE UNCHANGED stored
      BY <3>2 DEF PosReceive, PosDecide, durable
    <3> QED
      BY <3>1, <3>2, Untouched
  <2> QED
    BY <2>1, <2>2, <2>3, <2>4
<1>2. told'[c] \subseteq {stored'[c]}
  <2>1. CASE UNCHANGED told
    BY <1>0, <2>1, RecordStays DEF ReplyOf
  <2>2. ASSUME NEW t \in Tasks, Emit(t) \/ Answer(t) PROVE told'[c] \subseteq {stored'[c]}
    BY <1>0, <2>2, Told DEF ReplyOf
  <2> QED
    BY <2>1, <2>2, Untold
<1>3. stored'[c] \in {"none", "busy"} => pos'[c] = "idle"
  <2>1. CASE UNCHANGED <<stored, pos>>
    BY <1>0, <2>1 DEF ReplyOf
  <2>2. ASSUME NEW t \in Tasks, Record(t) PROVE stored'[c] \in {"none", "busy"} => pos'[c] = "idle"
    BY <1>0, <2>2, Replied DEF ReplyOf
  <2>3. ASSUME NEW t \in Tasks, CallSend(t)
        PROVE  stored'[c] \in {"none", "busy"} => pos'[c] = "idle"
    BY <1>0, <2>3, Asked DEF ReplyOf
  <2>4. ASSUME NEW d \in Cmds, PosReceive(d) \/ PosDecide(d)
        PROVE  stored'[c] \in {"none", "busy"} => pos'[c] = "idle"
    <3>1. /\ pos[d] \in {"asked", "running"} /\ UNCHANGED stored
          /\ \A b \in Cmds \ {d} : pos'[b] = pos[b]
      BY <2>4 DEF PosReceive, PosDecide, durable
    <3> QED
      BY <1>0, <3>1 DEF ReplyOf
  <2>5. ASSUME NEW t \in Tasks,
               \/ Create(t) \/ StartOk(t) \/ PosBusy(t) \/ PosError(t) \/ PosFinal(t)
               \/ PollAgain(t) \/ UnknownTimeout(t) \/ ActualizeAgain(t) \/ ResumeOrphan(t)
        PROVE  UNCHANGED <<stored, pos>>
    BY <2>5 DEF Create, StartOk, PosBusy, PosError, PosFinal, PollAgain, UnknownTimeout,
                ActualizeAgain, ResumeOrphan, Conclude, Status
  <2> QED
    BY <2>1, <2>2, <2>3, <2>4, <2>5, Untouched
<1> QED
  BY <1>1, <1>2, <1>3 DEF ReplyOf

\* A processId is never taken from a row again.
LEMMA PidStays ==
  ASSUME OneInv, Next, NEW c \in Cmds, ops[c].pid
  PROVE  ops'[c].pid
<1> USE DEF OneInv, TypeInv, TypeOK
<1>1. ASSUME NEW t \in Tasks, Create(t) PROVE ops'[c].pid
  BY <1>1, Created
<1>2. ASSUME NEW t \in Tasks, StartOk(t) \/ PollAgain(t) \/ ActualizeAgain(t) PROVE ops'[c].pid
  <2>1. /\ ops'[cmd[t]].pid
        /\ \A d \in Cmds \ {cmd[t]} : ops'[d] = ops[d]
    BY <1>2, Continued
  <2> QED
    BY <2>1
<1>3. ASSUME NEW t \in Tasks,
             PosBusy(t) \/ PosError(t) \/ PosFinal(t) \/ UnknownTimeout(t)
      PROVE  ops'[c].pid
  <2>1. PICK s \in EndStatuses, e \in Errors, v \in Verdicts :
           InOperation(t) /\ Conclude(t, s, e, v)
    BY <1>3, Verdict
  <2>2. /\ ops'[cmd[t]].pid = ops[cmd[t]].pid
        /\ \A d \in Cmds \ {cmd[t]} : ops'[d] = ops[d]
    BY <2>1, Concluded
  <2> QED
    BY <2>2
<1>4. ASSUME NEW t \in Tasks, ResumeOrphan(t) PROVE ops'[c].pid
  BY <1>4, Orphaned
<1>5. ASSUME NEW t \in Tasks, Record(t) \/ CallSend(t) PROVE ops'[c].pid
  BY <1>5 DEF Record, CallSend, durable
<1>6. ASSUME NEW d \in Cmds, PosReceive(d) \/ PosDecide(d) PROVE ops'[c].pid
  BY <1>6 DEF PosReceive, PosDecide, durable
<1> QED
  BY <1>1, <1>2, <1>3, <1>4, <1>5, <1>6, Untouched

\* A task that does not move keeps its label, whatever the step writes, unless
\* it is in the middle of a synchronous part and a table changes.
LEMMA Undisturbed ==
  ASSUME OneInv, Next, NEW u \in Tasks,
         pc'[u] = pc[u], cmd'[u] = cmd[u], evt'[u] = evt[u],
         pc[u] \in Sync => UNCHANGED <<ops, stored>>
  PROVE  Label(u)'
<1>0. Label(u) /\ (pc[u] \notin {"idle", "orphans", "incomplete"} => cmd[u] \in Cmds)
  BY DEF OneInv, TypeInv, Shape, OutcomeInv
<1>1. CASE pc[u] \in Sync
  BY <1>0, <1>1 DEF Label
<1>2. CASE pc[u] \in {"idle", "calling", "checking"}
  BY <1>0, <1>2 DEF Label
<1>3. CASE pc[u] \in {"emit", "call", "poll", "actualize"}
  <2>1. cmd[u] \in Cmds /\ ops[cmd[u]].status \in Unended
    BY <1>0, <1>3 DEF OneInv, WorkInv, InOperation
  <2>2. ops[cmd[u]].pid => ops'[cmd[u]].pid
    BY <2>1, PidStays
  <2>3. stored[cmd[u]] = "accepted" => stored'[cmd[u]] = "accepted"
    BY <2>1, RecordStays
  <2> QED
    BY <1>0, <1>3, <2>2, <2>3 DEF Label
<1>4. CASE pc[u] = "answer"
  <2>1. cmd[u] \in Cmds
    BY <1>0, <1>4
  <2>2. stored[cmd[u]] \in Verdicts => stored'[cmd[u]] = stored[cmd[u]]
    BY <2>1, RecordStays
  <2> QED
    BY <1>0, <1>4, <2>2 DEF Label
<1> QED
  BY <1>1, <1>2, <1>3, <1>4 DEF OneInv, TypeInv, TypeOK

\* The task that moves arrives at a label that says what is so.
LEMMA OwnLabel ==
  ASSUME OneInv, NEW t \in Tasks, TaskStep(t)
  PROVE  Label(t)'
<1> USE DEF OneInv, TypeInv, TypeOK, Say, Goto
<1>0. Label(t) /\ (pc[t] \notin {"idle", "orphans", "incomplete"} => cmd[t] \in Cmds)
  BY DEF Shape, OutcomeInv
<1>1. CASE CheckAnswer(t)
  BY <1>0, <1>1 DEF Label, CheckAnswer
<1>2. CASE Recheck(t)
  <2>1. KnownStateEvent(cmd[t]) \in Verdicts => KnownStateEvent(cmd[t]) = stored[cmd[t]]
    BY DEF KnownStateEvent
  <2> QED
    BY <1>0, <1>2, <2>1 DEF Label, Recheck, durable
<1>3. CASE Create(t)
  BY <1>0, <1>3, Created DEF Label
<1>4. CASE Record(t)
  BY <1>0, <1>4, Replied DEF Label, Record
<1>5. CASE SendRaises(t) \/ ResumeDone(t)
  BY <1>0, <1>5 DEF Label, SendRaises, ResumeDone, Leave
<1>6. CASE Emit(t)
  BY <1>0, <1>6 DEF Label, Emit, durable
<1>7. CASE Answer(t)
  <2>1. pc'[t] \in {"idle", "orphans", "incomplete"}
    BY <1>7 DEF Answer, Leave, Shape
  <2> QED
    BY <2>1 DEF Label
<1>8. CASE CallSend(t)
  BY <1>0, <1>8 DEF Label, CallSend
<1>9. CASE StartOk(t) \/ PollAgain(t) \/ ActualizeAgain(t)
  <2>1. ops'[cmd[t]].pid
    BY <1>9, Continued
  <2>3. CASE StartOk(t)
    BY <2>1, <2>3 DEF Label, StartOk
  <2>4. CASE PollAgain(t)
    BY <1>0, <2>1, <2>4 DEF Label, PollAgain, Status
  <2>5. CASE ActualizeAgain(t)
    BY <1>0, <2>1, <2>5 DEF Label, ActualizeAgain, Status
  <2> QED
    BY <1>9, <2>3, <2>4, <2>5
<1>10. CASE PosBusy(t) \/ PosError(t) \/ PosFinal(t) \/ UnknownTimeout(t)
  <2>1. PICK s \in EndStatuses, e \in Errors, v \in Verdicts :
           /\ InOperation(t) /\ Conclude(t, s, e, v)
           /\ s = "success" => v = "completed" /\ pos[cmd[t]] = "paid"
           /\ s = "manual_review" => v = "manual_review"
           /\ s = "fail" => v = IF e = "terminal_busy" THEN "rejected" ELSE "failed"
    BY <1>10, Verdict
  <2>2. /\ ops'[cmd[t]] \in Row /\ ops'[cmd[t]].status = s /\ ops'[cmd[t]].err = e
        /\ UNCHANGED cmd
    BY <2>1, Concluded
  <2>3. v = VerdictOf(ops'[cmd[t]])
    BY <2>1, <2>2, VerdictFacts
  <2>4. pc'[t] = "record" /\ evt'[t] = v
    BY <2>1 DEF Conclude
  <2> QED
    BY <2>2, <2>3, <2>4 DEF Label
<1>11. CASE UnknownNext(t)
  BY <1>0, <1>11 DEF Label, UnknownNext, durable
<1>12. CASE ResumeOrphan(t)
  <2>1. PICK c \in todo[t] :
           /\ ops'[c] \in Row /\ ops'[c].status = "manual_review"
           /\ cmd'[t] = c /\ pc'[t] = "record" /\ evt'[t] = "manual_review"
    BY <1>12, Orphaned
  <2>2. VerdictOf(ops'[c]) = "manual_review"
    BY <2>1, VerdictFacts
  <2> QED
    BY <2>1, <2>2 DEF Label
<1>13. CASE ResumeOrphansDone(t)
  BY <1>13 DEF Label, ResumeOrphansDone
<1>14. CASE ResumePoll(t)
  BY <1>14 DEF Label, ResumePoll, durable
<1>15. CASE LinkUp(t)
  BY <1>15 DEF Label, LinkUp
<1>16. ASSUME NEW c \in Cmds, ReceiveKnown(t, c) PROVE Label(t)'
  <2>1. KnownStateEvent(c) \in Verdicts => KnownStateEvent(c) = stored[c]
    BY DEF KnownStateEvent
  <2> QED
    BY <1>16, <2>1 DEF Label, ReceiveKnown, Begin, durable
<1>17. ASSUME NEW c \in Cmds, ReceiveBusy(t, c) PROVE Label(t)'
  BY <1>17 DEF Label, ReceiveBusy, Begin, durable
<1>18. ASSUME NEW c \in Cmds, ReceiveStart(t, c) PROVE Label(t)'
  BY <1>18 DEF Label, ReceiveStart, Begin, durable
<1>19. ASSUME NEW c \in Cmds, ReceiveCheck(t, c) PROVE Label(t)'
  BY <1>19 DEF Label, ReceiveCheck, Begin, durable
<1> QED
  BY <1>1, <1>2, <1>3, <1>4, <1>5, <1>6, <1>7, <1>8, <1>9, <1>10, <1>11, <1>12, <1>13, <1>14,
     <1>15, <1>16, <1>17, <1>18, <1>19 DEF TaskStep, Handle, Received

\* Every step keeps the labels true, of the task that moves and of the others.
LEMMA NextLabels ==
  ASSUME OneProcessOnly, OneInv, Next
  PROVE  \A u \in Tasks : Label(u)'
<1> USE DEF OneInv, TypeInv, TypeOK
<1> SUFFICES ASSUME NEW u \in Tasks PROVE Label(u)'
  OBVIOUS
<1>1. ASSUME NEW t \in Tasks, TaskStep(t) PROVE Label(u)'
  <2>1. OnlyMoves(t)
    BY <1>1, TaskMoves
  <2>2. CASE u = t
    BY <1>1, <2>2, OwnLabel
  <2>3. CASE u # t
    <3>1. u \in Fellows(t)
      BY <2>3, ProcessAssumption DEF Fellows, OneProcessOnly
    <3>2. pc[u] \notin Sync
      BY <2>1, <3>1 DEF OnlyMoves, HasLoop
    <3> QED
      BY <2>1, <2>3, <3>2, Undisturbed DEF OnlyMoves
  <2> QED
    BY <2>2, <2>3
<1>2. ASSUME NEW t \in Tasks, CreateCollides(t) PROVE Label(u)'
  <2>1. pc'[u] = "idle"
    BY <1>2 DEF CreateCollides, Dies, OneProcessOnly
  <2> QED
    BY <2>1 DEF Label
<1>3. ASSUME NEW p \in Procs, LinkLost(p) \/ LinkEnd(p) PROVE Label(u)'
  BY <1>3, Undisturbed DEF LinkLost, LinkEnd, durable, local
<1>4. ASSUME NEW p \in Procs, Crash(p) PROVE Label(u)'
  <2>1. CASE ProcOf[u] = p
    BY <1>4, <2>1 DEF Crash, Dies, Label
  <2>2. CASE ProcOf[u] # p
    BY <1>4, <2>2, Undisturbed DEF Crash, Dies, durable
  <2> QED
    BY <2>1, <2>2
<1>5. ASSUME NEW c \in Cmds, PosReceive(c) \/ PosDecide(c) PROVE Label(u)'
  BY <1>5, Undisturbed DEF PosReceive, PosDecide, durable, local
<1> QED
  BY <1>1, <1>2, <1>3, <1>4, <1>5, Steps

\* One process, every step: the invariants hold together.
LEMMA OneProcess == ASSUME OneProcessOnly PROVE Spec => []OneInv
<1>1. Init => OneInv
  BY InitTypeInv, InitStartInv, InitWorkInv, InitOutcome DEF OneInv
<1>2. OneInv /\ [Next]_vars => OneInv'
  <2>1. CASE UNCHANGED vars
    BY <2>1 DEF OneInv, OutcomeInv, RowOf, ReplyOf, Label, TypeInv, TypeOK, Shape, StartInv,
                BeforeCall, Announcing, Recorded, WorkInv, ResumeInv, InOperation, vars
  <2>2. CASE Next
    <3> SUFFICES ASSUME OneInv PROVE OneInv'
      OBVIOUS
    <3>1. TypeInv' /\ StartInv'
      BY <2>2, NextTypeInv, NextStartInv DEF OneInv
    <3>2. WorkInv' /\ ResumeInv'
      BY <2>2, OneProcessOnly, NextWorkInv DEF OneInv
    <3>3. OutcomeInv'
      BY <2>2, OneProcessOnly, NextRows, NextReplies, NextLabels DEF OutcomeInv
    <3> QED
      BY <3>1, <3>2, <3>3 DEF OneInv
  <2> QED
    BY <2>1, <2>2
<1> QED
  BY <1>1, <1>2, PTL DEF Spec

\* The CRM was never told two outcomes of an operation: what it was told is on
\* record and is the row's.
THEOREM ToldOneOutcome == ASSUME OneProcessOnly PROVE Spec => []ToldIsRecorded
<1>1. OneInv => ToldIsRecorded
  <2> SUFFICES ASSUME OneInv, NEW c \in Cmds, NEW v \in told[c]
               PROVE  stored[c] = v /\ VerdictOf(ops[c]) = v
    BY DEF ToldIsRecorded
  <2>1. ReplyOf(c) /\ told[c] \subseteq Verdicts
    BY DEF OneInv, OutcomeInv, TypeInv, TypeOK
  <2> QED
    BY <2>1 DEF ReplyOf
<1> QED
  BY <1>1, OneProcess, PTL

(***************************************************************************)
(* The refinement: one process implements the ledger.                      *)
(***************************************************************************)
\* A step that changes the phase of one command only.
LEMMA OnePhase ==
  ASSUME NEW c \in Cmds, NEW x, PhaseOf(c)' = x,
         \A d \in Cmds \ {c} : PhaseOf(d)' = PhaseOf(d)
  PROVE  [d \in Cmds |-> PhaseOf(d)]' = [[d \in Cmds |-> PhaseOf(d)] EXCEPT ![c] = x]
<1> DEFINE old == [d \in Cmds |-> PhaseOf(d)]
           new == [d \in Cmds |-> PhaseOf(d)']
<1>1. \A d \in Cmds : new[d] = [old EXCEPT ![c] = x][d]
  OBVIOUS
<1>2. new = [old EXCEPT ![c] = x]
  BY <1>1
<1> QED
  BY <1>2

\* The phases of the commands whose row and record stay.
LEMMA SamePhase ==
  ASSUME NEW c \in Cmds, ops'[c] = ops[c], stored'[c] = stored[c]
  PROVE  PhaseOf(c)' = PhaseOf(c)
BY DEF PhaseOf, Active

\* A step that writes a verdict concludes the ledger's operation.
LEMMA ConcludePhase ==
  ASSUME NEW c \in Cmds, NEW s \in EndStatuses,
         ops[c].status \in Unended, ops'[c].status = s,
         s = "success" => sent[c] > 0,
         \A d \in Cmds \ {c} : ops'[d] = ops[d], UNCHANGED <<stored, sent>>
  PROVE  Ledger!Conclude(c)
<1>1. PhaseOf(c) \in {"working", "lapsed"} /\ PhaseOf(c)' = s
  BY StatusAssumption DEF PhaseOf, Active, Unended
<1>2. \A d \in Cmds \ {c} : PhaseOf(d)' = PhaseOf(d)
  BY SamePhase
<1>3. [d \in Cmds |-> PhaseOf(d)]' = [[d \in Cmds |-> PhaseOf(d)] EXCEPT ![c] = s]
  BY <1>1, <1>2, OnePhase
<1>4. {d \in Cmds : sent[d] > 0}' = {d \in Cmds : sent[d] > 0}
  OBVIOUS
<1>5. [d \in Cmds |-> PhaseOf(d)][c] \in {"working", "lapsed"}
  BY <1>1
<1> QED
  BY <1>3, <1>4, <1>5 DEF Ledger!Conclude, Ledger!Outcomes

\* Every step of the coordinator is a step of the ledger or none.
LEMMA LedgerStep ==
  ASSUME OneInv, Next
  PROVE  \/ \E c \in Cmds :
              \/ Ledger!Reject(c) \/ Ledger!Accept(c) \/ Ledger!Request(c)
              \/ Ledger!Conclude(c) \/ Ledger!Lapse(c) \/ Ledger!Return(c)
         \/ /\ [c \in Cmds |-> PhaseOf(c)]' = [c \in Cmds |-> PhaseOf(c)]
            /\ {c \in Cmds : sent[c] > 0}' = {c \in Cmds : sent[c] > 0}
<1> DEFINE Goal == \/ \E c \in Cmds : \/ Ledger!Reject(c) \/ Ledger!Accept(c)
                                      \/ Ledger!Request(c) \/ Ledger!Conclude(c)
                                      \/ Ledger!Lapse(c) \/ Ledger!Return(c)
                   \/ /\ [c \in Cmds |-> PhaseOf(c)]' = [c \in Cmds |-> PhaseOf(c)]
                      /\ {c \in Cmds : sent[c] > 0}' = {c \in Cmds : sent[c] > 0}
<1>0. ASSUME \A d \in Cmds : PhaseOf(d)' = PhaseOf(d), UNCHANGED sent
      PROVE  Goal
  <2>1. [d \in Cmds |-> PhaseOf(d)]' = [d \in Cmds |-> PhaseOf(d)]
    BY <1>0
  <2> QED
    BY <1>0, <2>1
<1>1. CASE UNCHANGED <<ops, stored, sent>>
  BY <1>0, <1>1, SamePhase
<1>2. ASSUME NEW t \in Tasks, Create(t) PROVE Goal
  <2>0. PICK c \in Cmds :
        /\ ops[c].status = "none" /\ stored[c] = "none"
        /\ ops'[c].status = "accepted" /\ \A d \in Cmds \ {c} : ops'[d] = ops[d]
        /\ \A d \in Cmds : ops[d].status \notin ActiveStatuses
        /\ UNCHANGED <<stored, sent>>
    BY <1>2, Created
  <2>1. /\ PhaseOf(c) = "new" /\ PhaseOf(c)' = "working"
        /\ \A d \in Cmds : PhaseOf(d) # "working"
    BY <2>0 DEF PhaseOf, Active, OneInv, TypeInv, TypeOK, Row
  <2>2. \A d \in Cmds \ {c} : PhaseOf(d)' = PhaseOf(d)
    BY <2>0, SamePhase
  <2>3. [d \in Cmds |-> PhaseOf(d)]' = [[d \in Cmds |-> PhaseOf(d)] EXCEPT ![c] = "working"]
    BY <2>0, <2>1, <2>2, OnePhase
  <2>4. Ledger!Accept(c)
    BY <2>0, <2>1, <2>3 DEF Ledger!Accept
  <2> QED
    BY <2>0, <2>4
<1>3. ASSUME NEW t \in Tasks, Record(t) PROVE Goal
  <2>0. PICK c \in Cmds :
        /\ stored' = [stored EXCEPT ![c] = evt[t]] /\ UNCHANGED <<ops, sent>>
        /\ evt[t] \in Stored \ {"none"} /\ stored[c] \in Stored
        /\ evt[t] = "accepted" => ops[c].status # "none"
        /\ evt[t] = "busy" => stored[c] = "none"
        /\ evt[t] = "device" => c \in Checks
        /\ evt[t] \in Verdicts => ops[c].status \in EndStatuses
        /\ c \in Checks => stored[c] # "busy"
    BY <1>3, Replied, StatusAssumption DEF OneInv, OutcomeInv, RowOf, TypeInv, TypeOK, Unended
  <2>1. /\ stored'[c] = evt[t] /\ \A d \in Cmds \ {c} : stored'[d] = stored[d]
    BY <2>0 DEF OneInv, TypeInv, TypeOK
  <2>2. \A d \in Cmds \ {c} : PhaseOf(d)' = PhaseOf(d)
    BY <2>0, <2>1, SamePhase
  <2>3. CASE evt[t] = "busy" /\ ops[c].status = "none"
    <3>1. PhaseOf(c) = "new" /\ PhaseOf(c)' = "rejected"
      BY <2>0, <2>1, <2>3 DEF PhaseOf
    <3>2. [d \in Cmds |-> PhaseOf(d)]' = [[d \in Cmds |-> PhaseOf(d)] EXCEPT ![c] = "rejected"]
      BY <2>0, <2>2, <3>1, OnePhase
    <3>3. Ledger!Reject(c)
      BY <2>0, <3>1, <3>2 DEF Ledger!Reject
    <3> QED
      BY <2>0, <3>3
  <2>4. CASE ~(evt[t] = "busy" /\ ops[c].status = "none")
    <3>1. PhaseOf(c)' = PhaseOf(c)
      BY <2>0, <2>1, <2>4 DEF PhaseOf, Active
    <3> QED
      BY <1>0, <2>0, <2>2, <3>1
  <2> QED
    BY <2>3, <2>4
<1>4. ASSUME NEW t \in Tasks, CallSend(t) PROVE Goal
  <2>0. PICK c \in Cmds :
        /\ ops[c].status \in ActiveStatuses /\ sent[c] = 0
        /\ sent' = [sent EXCEPT ![c] = 1] /\ UNCHANGED <<ops, stored>>
    BY <1>4, Asked
  <2>1. sent'[c] = 1 /\ \A d \in Cmds \ {c} : sent'[d] = sent[d]
    BY <2>0 DEF OneInv, TypeInv, TypeOK
  <2>2. PhaseOf(c) = "working" /\ \A d \in Cmds : PhaseOf(d)' = PhaseOf(d)
    BY <2>0, SamePhase DEF PhaseOf, Active
  <2>3. {d \in Cmds : sent[d] > 0}' = {d \in Cmds : sent[d] > 0} \cup {c}
    BY <2>0, <2>1
  <2>4. c \notin {d \in Cmds : sent[d] > 0}
    BY <2>0
  <2>5. [d \in Cmds |-> PhaseOf(d)]' = [d \in Cmds |-> PhaseOf(d)]
    BY <2>2
  <2>6. [d \in Cmds |-> PhaseOf(d)][c] = "working"
    BY <2>0, <2>2
  <2>7. Ledger!Request(c)
    BY <2>3, <2>4, <2>5, <2>6 DEF Ledger!Request
  <2> QED
    BY <2>0, <2>7
<1>5. ASSUME NEW t \in Tasks, StartOk(t) \/ PollAgain(t) \/ ActualizeAgain(t) PROVE Goal
  <2> DEFINE c == cmd[t]
             old == [d \in Cmds |-> PhaseOf(d)]
             new == [d \in Cmds |-> PhaseOf(d)]'
  <2>1. /\ c \in Cmds /\ ops[c].status \in Unended /\ ops'[c].status \in Unended
        /\ \A d \in Cmds \ {c} : ops'[d] = ops[d]
        /\ UNCHANGED <<stored, sent>> /\ c' = c
    BY <1>5, Continued DEF Answered, Unended
  <2>2. \A d \in Cmds : ops[d].status \in ActiveStatuses => d = c
    BY <1>5 DEF OneInv, WorkInv, InOperation, StartOk, PollAgain, ActualizeAgain
  <2>3. /\ PhaseOf(c) = IF ops[c].status \in ActiveStatuses THEN "working" ELSE "lapsed"
        /\ PhaseOf(c)' = IF ops'[c].status \in ActiveStatuses THEN "working" ELSE "lapsed"
    BY <2>1, StatusAssumption DEF PhaseOf, Active, Unended
  <2>4. \A d \in Cmds \ {c} : PhaseOf(d)' = PhaseOf(d) /\ PhaseOf(d) # "working"
    BY <2>1, <2>2, SamePhase DEF PhaseOf, Active
  <2>5. {d \in Cmds : sent[d] > 0}' = {d \in Cmds : sent[d] > 0}
    BY <2>1
  <2>6. CASE PhaseOf(c)' = PhaseOf(c)
    <3>1. \A d \in Cmds : PhaseOf(d)' = PhaseOf(d)
      BY <2>1, <2>4, <2>6
    <3> QED
      BY <1>0, <2>1, <3>1
  <2>7. CASE PhaseOf(c) = "working" /\ PhaseOf(c)' = "lapsed"
    <3>1. new = [old EXCEPT ![c] = "lapsed"]
      BY <2>1, <2>4, <2>7, OnePhase
    <3>2. Ledger!Lapse(c)
      BY <2>1, <2>5, <2>7, <3>1 DEF Ledger!Lapse
    <3> QED
      BY <2>1, <3>2
  <2>8. CASE PhaseOf(c) = "lapsed" /\ PhaseOf(c)' = "working"
    <3>1. new = [old EXCEPT ![c] = "working"]
      BY <2>1, <2>4, <2>8, OnePhase
    <3>2. \A d \in Cmds : PhaseOf(d) # "working"
      BY <2>4, <2>8
    <3>3. Ledger!Return(c)
      BY <2>1, <2>5, <2>8, <3>1, <3>2 DEF Ledger!Return
    <3> QED
      BY <2>1, <3>3
  <2> QED
    BY <2>3, <2>6, <2>7, <2>8
<1>6. ASSUME NEW t \in Tasks,
             PosBusy(t) \/ PosError(t) \/ PosFinal(t) \/ UnknownTimeout(t)
      PROVE  Goal
  <2>1. PICK s \in EndStatuses, e \in Errors, v \in Verdicts :
           /\ InOperation(t) /\ Conclude(t, s, e, v)
           /\ s = "success" => v = "completed" /\ pos[cmd[t]] = "paid"
    BY <1>6, Verdict
  <2>2. /\ cmd[t] \in Cmds /\ ops[cmd[t]].status \in Unended
        /\ ops'[cmd[t]].status = s /\ \A d \in Cmds \ {cmd[t]} : ops'[d] = ops[d]
        /\ UNCHANGED <<stored, sent>>
    BY <2>1, Concluded
  <2>3. s = "success" => sent[cmd[t]] > 0
    BY <2>1, <2>2 DEF OneInv, OutcomeInv, RowOf, TypeInv, TypeOK
  <2>4. Ledger!Conclude(cmd[t])
    BY <2>2, <2>3, ConcludePhase
  <2> QED
    BY <2>2, <2>4
<1>7. ASSUME NEW t \in Tasks, ResumeOrphan(t) PROVE Goal
  <2>1. PICK c \in Cmds :
           /\ ops[c].status \in ActiveStatuses /\ ops'[c].status = "manual_review"
           /\ \A d \in Cmds \ {c} : ops'[d] = ops[d]
           /\ UNCHANGED <<stored, sent>>
    BY <1>7, Orphaned
  <2>2. Ledger!Conclude(c)
    BY <2>1, ConcludePhase DEF Unended
  <2> QED
    BY <2>2
<1>8. ASSUME NEW c \in Cmds, PosReceive(c) \/ PosDecide(c) PROVE Goal
  BY <1>1, <1>8 DEF PosReceive, PosDecide, durable
<1>9. UNCHANGED <<ops, stored, pos, sent>> => Goal
  BY <1>1
<1> HIDE DEF Goal
<1>10. Goal
  BY <1>2, <1>3, <1>4, <1>5, <1>6, <1>7, <1>8, <1>9, Untouched DEF OneInv
<1> QED
  BY <1>10 DEF Goal

\* One process implements the ledger: no crash, loss, duplicate or reconnect
\* lets a second operation start, a request repeat or an outcome change.
THEOREM LedgerImplemented == ASSUME OneProcessOnly PROVE Spec => ImplementsLedger
<1>1. Init => Ledger!Init
  <2> SUFFICES ASSUME Init PROVE Ledger!Init
    OBVIOUS
  <2>1. \A c \in Cmds : PhaseOf(c) = "new" /\ ~(sent[c] > 0)
    BY DEF Init, PhaseOf, NoRow
  <2> QED
    BY <2>1 DEF Ledger!Init
<1>2. OneInv /\ [Next]_vars =>
        [Ledger!Next]_<<[c \in Cmds |-> PhaseOf(c)], {c \in Cmds : sent[c] > 0}>>
  <2> SUFFICES ASSUME OneInv, [Next]_vars
               PROVE [Ledger!Next]_<<[c \in Cmds |-> PhaseOf(c)], {c \in Cmds : sent[c] > 0}>>
    OBVIOUS
  <2>1. CASE UNCHANGED vars
    <3>1. \A c \in Cmds : PhaseOf(c)' = PhaseOf(c)
      BY <2>1, SamePhase DEF vars
    <3>2. [c \in Cmds |-> PhaseOf(c)]' = [c \in Cmds |-> PhaseOf(c)]
      BY <3>1
    <3>3. {c \in Cmds : sent[c] > 0}' = {c \in Cmds : sent[c] > 0}
      BY <2>1 DEF vars
    <3> QED
      BY <3>2, <3>3
  <2>2. CASE Next
    BY <2>2, LedgerStep DEF Ledger!Next
  <2> QED
    BY <2>1, <2>2
<1> QED
  BY <1>1, <1>2, OneProcess, PTL DEF Spec, ImplementsLedger, Ledger!Spec

(***************************************************************************)
(* While a session lasts every active operation has a handler at work,     *)
(* or a resume that has yet to come to it.                                 *)
(***************************************************************************)
Picked(c) ==
  \E t \in Tasks : \/ InOperation(t) /\ cmd[t] = c
                   \/ c \in todo[t]
                   \/ job[t] = "orphans" /\ c \in Incomplete

PickedInv ==
  /\ \A c \in Cmds : Active(c) => ops[c].pid \/ ops[c].status = "accepted"
  /\ \A p \in Procs : link[p] # "none" => \E t \in Tasks : ProcOf[t] = p
  /\ \A p \in Procs, c \in Cmds : link[p] # "none" /\ Active(c) => Picked(c)

\* Only an INSERT, or an answer of the terminal to the task that works on it,
\* makes an operation active.
LEMMA Activated ==
  ASSUME OneInv, Next, NEW c \in Cmds, ops'[c].status \in ActiveStatuses
  PROVE  \/ \E t \in Tasks : Create(t) /\ cmd[t] = c
         \/ \E t \in Tasks : /\ StartOk(t) \/ PollAgain(t) \/ ActualizeAgain(t)
                            /\ cmd[t] = c
         \/ ops[c].status \in ActiveStatuses
<1> DEFINE Goal == \/ \E t \in Tasks : Create(t) /\ cmd[t] = c
                   \/ \E t \in Tasks : /\ StartOk(t) \/ PollAgain(t) \/ ActualizeAgain(t)
                                      /\ cmd[t] = c
                   \/ ops[c].status \in ActiveStatuses
<1>1. ASSUME NEW t \in Tasks, Create(t) PROVE Goal
  BY <1>1, Created
<1>2. ASSUME NEW t \in Tasks, StartOk(t) \/ PollAgain(t) \/ ActualizeAgain(t) PROVE Goal
  <2>1. \A d \in Cmds \ {cmd[t]} : ops'[d] = ops[d]
    BY <1>2, Continued
  <2> QED
    BY <1>2, <2>1
<1>3. ASSUME NEW t \in Tasks,
             PosBusy(t) \/ PosError(t) \/ PosFinal(t) \/ UnknownTimeout(t)
      PROVE  Goal
  <2>1. PICK s \in EndStatuses, e \in Errors, v \in Verdicts :
           InOperation(t) /\ Conclude(t, s, e, v)
    BY <1>3, Verdict
  <2>2. /\ ops'[cmd[t]].status = s
        /\ \A d \in Cmds \ {cmd[t]} : ops'[d] = ops[d]
    BY <2>1, Concluded
  <2> QED
    BY <2>2
<1>4. ASSUME NEW t \in Tasks, ResumeOrphan(t) PROVE Goal
  BY <1>4, Orphaned
<1>5. ASSUME NEW t \in Tasks, Record(t) \/ CallSend(t) PROVE Goal
  BY <1>5 DEF Record, CallSend, durable
<1>6. ASSUME NEW d \in Cmds, PosReceive(d) \/ PosDecide(d) PROVE Goal
  BY <1>6 DEF PosReceive, PosDecide, durable
<1>7. UNCHANGED <<ops, stored, pos, sent>> => Goal
  OBVIOUS
<1> HIDE DEF Goal
<1>8. Goal
  BY <1>1, <1>2, <1>3, <1>4, <1>5, <1>6, <1>7, Untouched DEF OneInv
<1> QED
  BY <1>8 DEF Goal

\* An operation that is active past its INSERT has a processId.
LEMMA NextPids ==
  ASSUME OneInv, Next, NEW c \in Cmds, Active(c)',
         Active(c) => ops[c].pid \/ ops[c].status = "accepted"
  PROVE  ops'[c].pid \/ ops'[c].status = "accepted"
<1> DEFINE Goal == ops'[c].pid \/ ops'[c].status = "accepted"
<1> USE DEF Active
<1>1. ASSUME NEW t \in Tasks, Create(t) PROVE Goal
  BY <1>1, Created
<1>2. ASSUME NEW t \in Tasks, StartOk(t) \/ PollAgain(t) \/ ActualizeAgain(t) PROVE Goal
  <2>1. /\ ops[cmd[t]].pid => ops'[cmd[t]].pid
        /\ StartOk(t) => ops'[cmd[t]].pid
        /\ \A d \in Cmds \ {cmd[t]} : ops'[d] = ops[d]
    BY <1>2, Continued
  <2>2. StartOk(t) \/ ops[cmd[t]].pid
    BY <1>2 DEF PollAgain, ActualizeAgain, OneInv, OutcomeInv, Label
  <2> QED
    BY <2>1, <2>2
<1>3. ASSUME NEW t \in Tasks,
             PosBusy(t) \/ PosError(t) \/ PosFinal(t) \/ UnknownTimeout(t)
      PROVE  Goal
  <2>1. PICK s \in EndStatuses, e \in Errors, v \in Verdicts :
           InOperation(t) /\ Conclude(t, s, e, v)
    BY <1>3, Verdict
  <2>2. /\ ops'[cmd[t]].status = s
        /\ \A d \in Cmds \ {cmd[t]} : ops'[d] = ops[d]
    BY <2>1, Concluded
  <2> QED
    BY <2>2
<1>4. ASSUME NEW t \in Tasks, ResumeOrphan(t) PROVE Goal
  BY <1>4, Orphaned
<1>5. ASSUME NEW t \in Tasks, Record(t) \/ CallSend(t) PROVE Goal
  BY <1>5 DEF Record, CallSend, durable
<1>6. ASSUME NEW d \in Cmds, PosReceive(d) \/ PosDecide(d) PROVE Goal
  BY <1>6 DEF PosReceive, PosDecide, durable
<1>7. UNCHANGED <<ops, stored, pos, sent>> => Goal
  OBVIOUS
<1> HIDE DEF Goal
<1>8. Goal
  BY <1>1, <1>2, <1>3, <1>4, <1>5, <1>6, <1>7, Untouched DEF OneInv
<1> QED
  BY <1>8 DEF Goal

\* An answer of the terminal without a verdict keeps the task in its operation.
LEMMA StaysInOperation ==
  ASSUME OneInv, NEW t \in Tasks, StartOk(t) \/ PollAgain(t) \/ ActualizeAgain(t)
  PROVE  InOperation(t)' /\ cmd'[t] = cmd[t]
<1> USE DEF OneInv, TypeInv, TypeOK, Say, Goto
<1>1. CASE StartOk(t)
  BY <1>1 DEF StartOk, InOperation
<1>2. CASE PollAgain(t) \/ ActualizeAgain(t)
  BY <1>2, PolledOn DEF Status, InOperation
<1> QED
  BY <1>1, <1>2

\* A task's step keeps an operation that stays active picked up, by the task
\* itself or by another.
LEMMA StaysPicked ==
  ASSUME OneProcessOnly, OneInv, PickedInv, NEW t \in Tasks, TaskStep(t), ~LinkUp(t),
         NEW c \in Cmds, Active(c), Active(c)', Picked(c), ~SendRaises(t)
  PROVE  Picked(c)'
<1> USE DEF OneInv, TypeInv, TypeOK, Say, Goto
<1>0. Next
  BY TaskNext
<1>1. PICK u \in Tasks : \/ InOperation(u) /\ cmd[u] = c
                         \/ c \in todo[u]
                         \/ job[u] = "orphans" /\ c \in Incomplete
  BY DEF Picked
<1>2. c \in Incomplete => c \in Incomplete'
  BY <1>0, PidStays DEF Incomplete, ActiveCmds
<1>3. CASE u # t
  <2>1. OnlyMoves(t)
    BY TaskMoves
  <2> QED
    BY <1>1, <1>2, <1>3, <2>1 DEF OnlyMoves, Picked, InOperation
<1>4. CASE u = t /\ InOperation(t) /\ cmd[t] = c
  <2>1. Emit(t) \/ CallSend(t) \/ UnknownNext(t) \/ Record(t) => InOperation(t)' /\ cmd'[t] = c
    BY <1>4 DEF InOperation, Emit, CallSend, UnknownNext, Record, OutcomeInv, Label
  <2>2. StartOk(t) \/ PollAgain(t) \/ ActualizeAgain(t) => InOperation(t)' /\ cmd'[t] = c
    BY <1>4, StaysInOperation
  <2>3. ~(PosBusy(t) \/ PosError(t) \/ PosFinal(t) \/ UnknownTimeout(t))
    <3> SUFFICES ASSUME PosBusy(t) \/ PosError(t) \/ PosFinal(t) \/ UnknownTimeout(t)
                 PROVE  FALSE
      OBVIOUS
    <3>1. PICK s \in EndStatuses, e \in Errors, v \in Verdicts :
             InOperation(t) /\ Conclude(t, s, e, v)
      BY Verdict
    <3>2. ops'[cmd[t]].status = s
      BY <3>1, Concluded
    <3> QED
      BY <1>4, <3>2 DEF Active
  <2>4. ~(CheckAnswer(t) \/ Recheck(t) \/ Create(t) \/ SendRaises(t) \/ Answer(t)
            \/ ResumeOrphan(t) \/ ResumeOrphansDone(t) \/ ResumePoll(t) \/ ResumeDone(t))
    BY <1>4 DEF InOperation, CheckAnswer, Recheck, Create, SendRaises, Answer,
                ResumeOrphan, ResumeOrphansDone, ResumePoll, ResumeDone
  <2>5. ~\E d \in Cmds : Received(t, d)
    BY <1>4 DEF InOperation, Received, ReceiveKnown, ReceiveBusy, ReceiveStart, ReceiveCheck,
                CanReceive
  <2> QED
    BY <2>1, <2>2, <2>3, <2>4, <2>5 DEF Picked, TaskStep, Handle
<1>5. CASE u = t /\ (c \in todo[t] \/ (job[t] = "orphans" /\ c \in Incomplete))
  <2>0. job[t] \in {"orphans", "incomplete"}
    BY <1>5 DEF ResumeInv
  <2>1. CASE todo'[t] = todo[t] /\ job'[t] = job[t]
    BY <1>2, <1>5, <2>1 DEF Picked
  <2>2. CASE ResumeOrphan(t)
    <3>1. PICK d \in todo[t] :
             /\ ops' = [ops EXCEPT ![d].status = "manual_review", ![d].err = "unknown_timeout"]
             /\ todo' = [todo EXCEPT ![t] = @ \ {d}]
      BY <2>2 DEF ResumeOrphan
    <3>2. c # d
      BY <3>1 DEF Active
    <3>3. job'[t] = job[t]
      BY <2>2 DEF ResumeOrphan
    <3> QED
      BY <1>2, <1>5, <3>1, <3>2, <3>3 DEF Picked
  <2>3. CASE ResumePoll(t)
    <3>1. PICK d \in todo[t] :
             /\ todo' = [todo EXCEPT ![t] = @ \ {d}]
             /\ cmd' = [cmd EXCEPT ![t] = d]
      BY <2>3 DEF ResumePoll
    <3>2. c = d => InOperation(t)' /\ cmd'[t] = c
      BY <2>3, <3>1 DEF ResumePoll, InOperation
    <3>3. job'[t] = job[t]
      BY <2>3 DEF ResumePoll
    <3> QED
      BY <1>2, <1>5, <3>1, <3>2, <3>3 DEF Picked
  <2>4. CASE ResumeOrphansDone(t)
    BY <1>5, <2>4 DEF ResumeOrphansDone, Picked
  <2>5. ~SendRaises(t) /\ ~\E d \in Cmds : Received(t, d)
    BY <2>0 DEF SendRaises, Received, ReceiveKnown, ReceiveBusy, ReceiveStart, ReceiveCheck,
                CanReceive, Resuming
  <2>6. ~ResumeDone(t)
    BY <1>5 DEF ResumeDone, ResumeInv
  <2>7. Answer(t) => todo'[t] = todo[t] /\ job'[t] = job[t]
    BY <2>0 DEF Answer
  <2>8. CheckAnswer(t) \/ Recheck(t) \/ Create(t) \/ Record(t) \/ Emit(t) \/ CallSend(t)
           \/ UnknownNext(t) => todo'[t] = todo[t] /\ job'[t] = job[t]
    BY DEF CheckAnswer, Recheck, Create, Record, Emit, CallSend, UnknownNext
  <2>9. StartOk(t) \/ PosBusy(t) \/ PosError(t) \/ PosFinal(t) \/ PollAgain(t)
           \/ UnknownTimeout(t) \/ ActualizeAgain(t) => todo'[t] = todo[t] /\ job'[t] = job[t]
    BY DEF StartOk, PosBusy, PosError, PosFinal, PollAgain, UnknownTimeout, ActualizeAgain,
           Conclude, Status
  <2> QED
    BY <2>1, <2>2, <2>3, <2>4, <2>5, <2>6, <2>7, <2>8, <2>9 DEF TaskStep, Handle
<1> QED
  BY <1>1, <1>3, <1>4, <1>5

\* A socket is opened by the task that then resumes, and by nothing else.
LEMMA Linked ==
  ASSUME OneInv, NEW t \in Tasks, TaskStep(t), ~LinkUp(t)
  PROVE  \/ UNCHANGED link
         \/ /\ SendRaises(t) /\ link' = [link EXCEPT ![ProcOf[t]] = "none"]
            /\ link[ProcOf[t]] = "closed"
<1>1. CheckAnswer(t) \/ Recheck(t) \/ Create(t) \/ Record(t) \/ Emit(t) \/ CallSend(t)
        \/ UnknownNext(t) \/ Answer(t) => UNCHANGED link
  BY DEF CheckAnswer, Recheck, Create, Record, Emit, CallSend, UnknownNext, Answer
<1>2. StartOk(t) \/ PosBusy(t) \/ PosError(t) \/ PosFinal(t) \/ PollAgain(t)
        \/ UnknownTimeout(t) \/ ActualizeAgain(t) => UNCHANGED link
  BY DEF StartOk, PosBusy, PosError, PosFinal, PollAgain, UnknownTimeout, ActualizeAgain,
         Conclude, Status
<1>3. ResumeOrphan(t) \/ ResumeOrphansDone(t) \/ ResumePoll(t) \/ ResumeDone(t) => UNCHANGED link
  BY DEF ResumeOrphan, ResumeOrphansDone, ResumePoll, ResumeDone
<1>4. (\E c \in Cmds : Received(t, c)) => UNCHANGED link
  BY DEF Received, ReceiveKnown, ReceiveBusy, ReceiveStart, ReceiveCheck, Begin
<1>5. SendRaises(t) => /\ link' = [link EXCEPT ![ProcOf[t]] = "none"]
                       /\ link[ProcOf[t]] = "closed"
  BY DEF SendRaises
<1> QED
  BY <1>1, <1>2, <1>3, <1>4, <1>5 DEF TaskStep, Handle

\* Every step leaves the active operations of an open session picked up.
LEMMA NextPicked ==
  ASSUME OneProcessOnly, OneInv, PickedInv, Next
  PROVE  PickedInv'
<1> USE ProcessAssumption DEF OneInv, TypeInv, TypeOK
<1>1. \A c \in Cmds : Active(c)' => ops'[c].pid \/ ops'[c].status = "accepted"
  BY NextPids DEF PickedInv
\* What the crash of a process leaves is no session of it.
<1>2. ASSUME NEW q \in Procs, NEW t \in Tasks, ProcOf[t] = q, Dies(q)
      PROVE  \A p \in Procs : link'[p] = "none"
  <2> SUFFICES ASSUME NEW p \in Procs, p # q PROVE link[p] = "none"
    BY <1>2 DEF Dies
  <2>1. \A u \in Tasks : ProcOf[u] # p
    BY <1>2 DEF OneProcessOnly
  <2> QED
    BY <2>1 DEF PickedInv
<1>3. ASSUME NEW t \in Tasks, TaskStep(t)
      PROVE  /\ \A p \in Procs : link'[p] # "none" => \E u \in Tasks : ProcOf[u] = p
             /\ \A p \in Procs, c \in Cmds : link'[p] # "none" /\ Active(c)' => Picked(c)'
  <2>1. CASE LinkUp(t)
    <3>1. /\ \A p \in Procs : link'[p] = link[p] \/ p = ProcOf[t]
          /\ todo'[t] = WithoutProcess /\ job'[t] = "orphans" /\ UNCHANGED ops
      BY <2>1 DEF LinkUp, durable
    <3>2. ASSUME NEW c \in Cmds, Active(c)' PROVE Picked(c)'
      <4>1. Active(c) /\ (ops[c].pid \/ ops[c].status = "accepted")
        BY <3>1, <3>2 DEF Active, PickedInv
      <4>2. c \in WithoutProcess \/ c \in Incomplete
        BY <4>1 DEF WithoutProcess, Incomplete, ActiveCmds
      <4>3. c \in Incomplete => c \in Incomplete'
        BY <3>1 DEF Incomplete, ActiveCmds, Active
      <4> QED
        BY <3>1, <4>2, <4>3 DEF Picked
    <3> QED
      BY <3>1, <3>2 DEF PickedInv
  <2>2. CASE ~LinkUp(t)
    <3>1. \A p \in Procs : link'[p] # "none" => /\ link[p] # "none"
                                                /\ p = ProcOf[t] => ~SendRaises(t)
      BY <1>3, <2>2, Linked DEF SendRaises
    <3>2. ASSUME NEW p \in Procs, NEW c \in Cmds, link'[p] # "none", Active(c)' PROVE Picked(c)'
      <4>1. ProcOf[t] = p
        BY <3>1, <3>2 DEF PickedInv, OneProcessOnly
      <4>2. CASE Active(c)
        BY <1>3, <2>2, <3>1, <3>2, <4>1, <4>2, StaysPicked DEF PickedInv
      <4>3. ASSUME NEW u \in Tasks, Create(u), cmd[u] = c PROVE Picked(c)'
        BY <4>3, Created DEF Picked, InOperation
      <4>4. ASSUME NEW u \in Tasks, StartOk(u) \/ PollAgain(u) \/ ActualizeAgain(u), cmd[u] = c
            PROVE  Picked(c)'
        BY <4>4, StaysInOperation DEF Picked
      <4>5. Next
        BY <1>3, TaskNext
      <4> QED
        BY <3>2, <4>2, <4>3, <4>4, <4>5, Activated DEF Active
    <3> QED
      BY <3>1, <3>2 DEF PickedInv
  <2> QED
    BY <2>1, <2>2
<1>4. ASSUME NEW t \in Tasks, CreateCollides(t) PROVE \A p \in Procs : link'[p] = "none"
  BY <1>2, <1>4 DEF CreateCollides
<1>5. ASSUME NEW q \in Procs, Crash(q) PROVE \A p \in Procs : link'[p] = "none"
  BY <1>2, <1>5 DEF Crash
<1>6. ASSUME UNCHANGED <<ops, local>>,
             \A p \in Procs : link'[p] # "none" => link[p] # "none"
      PROVE  PickedInv'
  <2>1. \A c \in Cmds : Picked(c) => Picked(c)'
    BY <1>6 DEF Picked, InOperation, Incomplete, ActiveCmds, Active, local
  <2> QED
    BY <1>6, <2>1 DEF PickedInv, Active
<1>7. ASSUME NEW q \in Procs, LinkLost(q) \/ LinkEnd(q) PROVE PickedInv'
  BY <1>6, <1>7 DEF LinkLost, LinkEnd, durable
<1>8. ASSUME NEW c \in Cmds, PosReceive(c) \/ PosDecide(c) PROVE PickedInv'
  BY <1>6, <1>8 DEF PosReceive, PosDecide, durable
<1>9. (\A p \in Procs : link'[p] = "none") => PickedInv'
  BY <1>1 DEF PickedInv
<1>10. (\E t \in Tasks : TaskStep(t)) => PickedInv'
  BY <1>1, <1>3 DEF PickedInv
<1> QED
  BY <1>4, <1>5, <1>7, <1>8, <1>9, <1>10, Steps

\* In a session whose resume is over, every active operation has its handler,
\* after however many losses of the socket and crashes.
THEOREM NobodyAbandoned == ASSUME OneProcessOnly PROVE Spec => []NoneAbandoned
<1>1. Init => PickedInv
  BY DEF Init, PickedInv, NoRow, Active
<1>2. OneInv /\ PickedInv /\ [Next]_vars => PickedInv'
  <2>1. PickedInv /\ UNCHANGED vars => PickedInv'
    BY DEF PickedInv, Picked, InOperation, Incomplete, ActiveCmds, Active, vars
  <2> QED
    BY <2>1, OneProcessOnly, NextPicked
<1>3. OneInv /\ PickedInv => NoneAbandoned
  <2> SUFFICES ASSUME OneInv, PickedInv, NEW p \in CrmProcs, NEW c \in Cmds,
                      link[p] = "open", ~Resuming(p), Active(c)
               PROVE  \E t \in Tasks : cmd[t] = c
    BY DEF NoneAbandoned
  <2>1. p \in Procs /\ Picked(c)
    BY ProcessAssumption DEF PickedInv
  <2>2. \A t \in Tasks : ProcOf[t] = p
    BY <2>1, OneProcessOnly DEF PickedInv, OneProcessOnly
  <2>3. \A t \in Tasks : job[t] \notin {"orphans", "incomplete"}
    BY <2>2 DEF Resuming
  <2>4. \A t \in Tasks : c \notin todo[t]
    BY <2>3 DEF OneInv, ResumeInv
  <2> QED
    BY <2>1, <2>3, <2>4 DEF Picked
<1> QED
  BY <1>1, <1>2, <1>3, OneProcess, PTL DEF Spec

(***************************************************************************)
(* The response on record follows the row: between the two writes there is *)
(* a task that does nothing else.  A crash there leaves a row without its  *)
(* response, which nobody writes again; it can leave one such row only.    *)
(***************************************************************************)
Recording(c, v) == \E t \in Tasks : pc[t] = "record" /\ cmd[t] = c /\ evt[t] = v

\* The ended operations whose outcome is not on record and not about to be.
LostCmds == {c \in OutcomesLost : ~Recording(c, VerdictOf(ops[c]))}

LostInv == IsFiniteSet(LostCmds) /\ Cardinality(LostCmds) <= crashes

\* A task that is about to record a response does that, and no other step of
\* the process comes between.
LEMMA RecordsNext ==
  ASSUME OneProcessOnly, OneInv, NEW t \in Tasks, TaskStep(t),
         NEW u \in Tasks, pc[u] = "record"
  PROVE  u = t /\ Record(t)
<1>1. u = t
  <2> SUFFICES ASSUME u # t PROVE FALSE
    OBVIOUS
  <2>1. HasLoop(t) /\ u \in Fellows(t)
    BY TaskMoves DEF OneInv, OnlyMoves, Fellows, OneProcessOnly
  <2> QED
    BY <2>1 DEF HasLoop
<1>2. pc[t] = "record"
  BY <1>1
<1>3. ~(CheckAnswer(t) \/ Recheck(t) \/ Create(t) \/ SendRaises(t) \/ Emit(t) \/ Answer(t)
          \/ CallSend(t) \/ StartOk(t) \/ PosBusy(t) \/ PosError(t) \/ PosFinal(t))
  BY <1>2 DEF CheckAnswer, Recheck, Create, SendRaises, Emit, Answer, CallSend, StartOk,
              PosBusy, PosError, PosFinal
<1>4. ~(PollAgain(t) \/ UnknownTimeout(t) \/ UnknownNext(t) \/ ActualizeAgain(t)
          \/ ResumeOrphan(t) \/ ResumeOrphansDone(t) \/ ResumePoll(t) \/ ResumeDone(t)
          \/ LinkUp(t) \/ \E c \in Cmds : Received(t, c))
  BY <1>2 DEF PollAgain, UnknownTimeout, UnknownNext, ActualizeAgain, ResumeOrphan,
              ResumeOrphansDone, ResumePoll, ResumeDone, LinkUp, Received, ReceiveKnown,
              ReceiveBusy, ReceiveStart, ReceiveCheck, CanReceive
<1> QED
  BY <1>1, <1>3, <1>4 DEF TaskStep, Handle

\* A row that ends is being recorded by the task that ended it.
LEMMA Ended ==
  ASSUME OneInv, Next, NEW c \in Cmds,
         ops[c].status \notin EndStatuses, ops'[c].status \in EndStatuses
  PROVE  Recording(c, VerdictOf(ops[c]))'
<1> DEFINE Goal == Recording(c, VerdictOf(ops[c]))'
<1> USE DEF OneInv, TypeInv, TypeOK, Say, Goto
<1>1. ASSUME NEW t \in Tasks, Create(t) PROVE FALSE
  BY <1>1, Created
<1>2. ASSUME NEW t \in Tasks, StartOk(t) \/ PollAgain(t) \/ ActualizeAgain(t) PROVE FALSE
  <2>1. /\ ops'[cmd[t]].status \in Answered
        /\ \A d \in Cmds \ {cmd[t]} : ops'[d] = ops[d]
    BY <1>2, Continued
  <2> QED
    BY <2>1, StatusAssumption DEF Answered
<1>3. ASSUME NEW t \in Tasks,
             PosBusy(t) \/ PosError(t) \/ PosFinal(t) \/ UnknownTimeout(t)
      PROVE  Goal
  <2>1. PICK s \in EndStatuses, e \in Errors, v \in Verdicts :
           InOperation(t) /\ Conclude(t, s, e, v)
    BY <1>3, Verdict
  <2>2. c = cmd[t] /\ cmd'[t] = c
    BY <2>1, Concluded
  <2>3. pc'[t] = "record" /\ evt'[t] = v
    BY <2>1 DEF Conclude
  <2>4. TaskStep(t)
    BY <1>3 DEF TaskStep, Handle
  <2>5. Label(t)'
    BY <2>4, OwnLabel
  <2>6. evt'[t] = VerdictOf(ops'[c])
    BY <2>2, <2>3, <2>5 DEF Label
  <2> QED
    BY <2>2, <2>3, <2>6 DEF Recording
<1>4. ASSUME NEW t \in Tasks, ResumeOrphan(t) PROVE Goal
  <2>1. cmd'[t] = c /\ pc'[t] = "record" /\ evt'[t] = "manual_review"
    BY <1>4, Orphaned
  <2>2. TaskStep(t)
    BY <1>4 DEF TaskStep, Handle
  <2>3. Label(t)'
    BY <2>2, OwnLabel
  <2> QED
    BY <2>1, <2>3 DEF Label, Recording
<1>5. ASSUME NEW t \in Tasks, Record(t) \/ CallSend(t) PROVE FALSE
  BY <1>5 DEF Record, CallSend, durable
<1>6. ASSUME NEW d \in Cmds, PosReceive(d) \/ PosDecide(d) PROVE FALSE
  BY <1>6 DEF PosReceive, PosDecide, durable
<1>7. ~UNCHANGED <<ops, stored, pos, sent>>
  OBVIOUS
<1> HIDE DEF Goal
<1>8. Goal
  BY <1>1, <1>2, <1>3, <1>4, <1>5, <1>6, <1>7, Untouched
<1> QED
  BY <1>8 DEF Goal

\* A step that is not a crash loses no outcome.
LEMMA NoneLost ==
  ASSUME OneProcessOnly, OneInv, [Next]_vars, \A p \in Procs : ~Crash(p)
  PROVE  LostCmds' \subseteq LostCmds
<1> USE DEF OneInv, TypeInv, TypeOK
<1> SUFFICES ASSUME Next PROVE LostCmds' \subseteq LostCmds
  BY DEF LostCmds, OutcomesLost, Recording, vars
<1> SUFFICES ASSUME NEW c \in LostCmds', c \notin LostCmds PROVE FALSE
  OBVIOUS
<1>1. /\ c \in Cmds /\ ops'[c].status \in EndStatuses
      /\ stored'[c] # VerdictOf(ops'[c]) /\ ~Recording(c, VerdictOf(ops[c]))'
  BY DEF LostCmds, OutcomesLost
<1>2. ops[c].status \in EndStatuses
  BY <1>1, Ended
<1>3. ops'[c] = ops[c] /\ ops[c] \in Row
  BY <1>1, <1>2, RowChange
<1>4. PICK v \in Verdicts : v = VerdictOf(ops[c])
  BY <1>2, <1>3, VerdictFacts
<1>5. stored'[c] # v /\ ~Recording(c, v)'
  BY <1>1, <1>3, <1>4 DEF Recording
<1>6. stored[c] # v
  BY <1>1, <1>4, <1>5, RecordStays
<1>7. PICK u \in Tasks : pc[u] = "record" /\ cmd[u] = c /\ evt[u] = v
  BY <1>1, <1>2, <1>4, <1>6 DEF LostCmds, OutcomesLost, Recording
<1>8. ASSUME NEW t \in Tasks, TaskStep(t) PROVE FALSE
  BY <1>5, <1>7, <1>8, RecordsNext, Replied
<1>9. ASSUME NEW t \in Tasks, CreateCollides(t) PROVE FALSE
  BY <1>7, <1>9 DEF CreateCollides, HasLoop, Fellows, OneProcessOnly
<1>10. ASSUME NEW p \in Procs, LinkLost(p) \/ LinkEnd(p) PROVE FALSE
  BY <1>5, <1>7, <1>10 DEF LinkLost, LinkEnd, local, Recording
<1>11. ASSUME NEW d \in Cmds, PosReceive(d) \/ PosDecide(d) PROVE FALSE
  BY <1>5, <1>7, <1>11 DEF PosReceive, PosDecide, local, Recording
<1> QED
  BY <1>8, <1>9, <1>10, <1>11, Steps

\* A crash loses the outcome that was about to be recorded, if one was: one task
\* of a process at most is between two awaits.
LEMMA OneLost ==
  ASSUME OneProcessOnly, RejectInv, NEW p \in Procs, Crash(p)
  PROVE  \E d : LostCmds' \subseteq LostCmds \cup {d}
<1>1. UNCHANGED <<ops, stored>>
  BY DEF Crash, Dies, durable
<1>2. CASE \E u \in Tasks : pc[u] = "record"
  <2>1. PICK u \in Tasks : pc[u] = "record"
    BY <1>2
  <2>2. \A w \in Tasks : pc[w] = "record" => w = u
    BY <2>1 DEF RejectInv, OneProcessOnly
  <2>3. \A c \in LostCmds' : c \in LostCmds \/ c = cmd[u]
    BY <1>1, <2>2 DEF LostCmds, OutcomesLost, Recording, VerdictOf
  <2> QED
    BY <2>3
<1>3. CASE \A u \in Tasks : pc[u] # "record"
  BY <1>1, <1>3 DEF LostCmds, OutcomesLost, Recording, VerdictOf
<1> QED
  BY <1>2, <1>3

\* Only a crash counts as one.
LEMMA CountsCrashes ==
  ASSUME [Next]_vars, \A p \in Procs : ~Crash(p)
  PROVE  crashes' = crashes
<1>1. ASSUME NEW t \in Tasks, TaskStep(t) PROVE crashes' = crashes
  <2>1. CASE CheckAnswer(t) \/ Recheck(t) \/ Create(t) \/ Record(t) \/ SendRaises(t)
    BY <2>1 DEF CheckAnswer, Recheck, Create, Record, SendRaises, history
  <2>2. CASE Emit(t) \/ Answer(t) \/ CallSend(t) \/ StartOk(t) \/ UnknownNext(t)
    BY <2>2 DEF Emit, Answer, CallSend, StartOk, UnknownNext, history
  <2>3. CASE \/ PosBusy(t) \/ PosError(t) \/ PosFinal(t) \/ UnknownTimeout(t)
             \/ PollAgain(t) \/ ActualizeAgain(t)
    BY <2>3 DEF PosBusy, PosError, PosFinal, UnknownTimeout, PollAgain, ActualizeAgain,
                Conclude, Status, history
  <2>4. CASE ResumeOrphan(t) \/ ResumeOrphansDone(t) \/ ResumePoll(t) \/ ResumeDone(t) \/ LinkUp(t)
    BY <2>4 DEF ResumeOrphan, ResumeOrphansDone, ResumePoll, ResumeDone, LinkUp, history
  <2>5. CASE \E c \in Cmds : Received(t, c)
    BY <2>5 DEF Received, ReceiveKnown, ReceiveBusy, ReceiveStart, ReceiveCheck, Begin, history
  <2> QED
    BY <1>1, <2>1, <2>2, <2>3, <2>4, <2>5 DEF TaskStep, Handle
<1>2. ASSUME NEW t \in Tasks, CreateCollides(t) PROVE crashes' = crashes
  BY <1>2 DEF CreateCollides
<1>3. ASSUME NEW p \in Procs, LinkLost(p) \/ LinkEnd(p) PROVE crashes' = crashes
  BY <1>3 DEF LinkLost, LinkEnd, history
<1>4. ASSUME NEW c \in Cmds, PosReceive(c) \/ PosDecide(c) PROVE crashes' = crashes
  BY <1>4 DEF PosReceive, PosDecide, history
<1> QED
  BY <1>1, <1>2, <1>3, <1>4, Steps DEF vars

\* Every step loses as many outcomes as processes crash in it, at the worst.
LEMMA NextLost ==
  ASSUME OneProcessOnly, OneInv, RejectInv, LostInv, [Next]_vars
  PROVE  LostInv'
<1> USE DEF LostInv
<1>0. crashes \in Nat /\ Cardinality(LostCmds) \in Nat
  BY FS_CardinalityType DEF OneInv, TypeInv, TypeOK
<1>1. ASSUME NEW p \in Procs, Crash(p) PROVE LostInv'
  <2>1. PICK d : LostCmds' \subseteq LostCmds \cup {d}
    BY <1>1, OneLost
  <2>2. /\ IsFiniteSet(LostCmds \cup {d})
        /\ Cardinality(LostCmds \cup {d}) <= Cardinality(LostCmds) + 1
    BY <1>0, FS_AddElement
  <2>3. /\ IsFiniteSet(LostCmds')
        /\ Cardinality(LostCmds') <= Cardinality(LostCmds \cup {d})
    BY <2>1, <2>2, FS_Subset
  <2>4. /\ Cardinality(LostCmds') \in Nat /\ Cardinality(LostCmds \cup {d}) \in Nat
    BY <2>2, <2>3, FS_CardinalityType
  <2>5. crashes' = crashes + 1
    BY <1>1 DEF Crash
  <2>6. Cardinality(LostCmds') <= crashes'
    BY <1>0, <2>2, <2>3, <2>4, <2>5
  <2> QED
    BY <2>3, <2>6
<1>2. CASE \A p \in Procs : ~Crash(p)
  <2>1. LostCmds' \subseteq LostCmds
    BY <1>2, NoneLost
  <2>2. IsFiniteSet(LostCmds') /\ Cardinality(LostCmds') <= Cardinality(LostCmds)
    BY <2>1, FS_Subset
  <2>3. Cardinality(LostCmds') \in Nat
    BY <2>2, FS_CardinalityType
  <2>4. crashes' = crashes
    BY <1>2, CountsCrashes
  <2>5. Cardinality(LostCmds') <= crashes'
    BY <1>0, <2>2, <2>3, <2>4
  <2> QED
    BY <2>2, <2>5
<1> QED
  BY <1>1, <1>2

\* Whenever no handler is at work, the outcome of every operation that ended is
\* on record, but for at most one operation for each crash there has been.
THEOREM OutcomesRecorded == ASSUME OneProcessOnly PROVE Spec => []OneLostPerCrash
<1>1. Init => LostInv
  <2>1. Init => LostCmds = {} /\ crashes = 0
    BY DEF Init, LostCmds, OutcomesLost, NoRow
  <2> QED
    BY <2>1, FS_EmptySet DEF LostInv
<1>2. OneInv /\ SharedInv /\ LostInv /\ [Next]_vars => LostInv'
  BY OneProcessOnly, NextLost DEF SharedInv
<1>3. LostInv => OneLostPerCrash
  <2>1. (\A t \in Tasks : pc[t] = "idle") => OutcomesLost = LostCmds
    BY DEF LostCmds, Recording
  <2> QED
    BY <2>1 DEF LostInv, OneLostPerCrash
<1> QED
  BY <1>1, <1>2, <1>3, OneProcess, SharedInvariance, PTL DEF Spec

(***************************************************************************)
(* A response on record stays as it is, but for "accepted", which becomes  *)
(* the verdict.  A resume may find a row whose response is missing; what   *)
(* keeps a duplicate from being rejected then, and the resume from writing *)
(* a verdict over the rejection, is that the resume has the row in hand    *)
(* before a command is received.                                           *)
(***************************************************************************)
Replies(c) == stored[c] \notin {"none", "busy"}
FromCrm(t)  == ProcOf[t] \in CrmProcs
Resumes(t)  == job[t] \in {"orphans", "incomplete"}
InHand(c)   == \/ \E t \in Tasks : job[t] = "orphans" /\ c \in todo[t]
               \/ Recording(c, "accepted")

\* What the row of a command says of its response.
StandOf(c) ==
  /\ ops[c].pid => Replies(c)
  /\ stored[c] = "device" => c \in Checks
  /\ \A t \in Tasks : Active(c) /\ FromCrm(t) =>
       /\ stored[c] # "busy"
       /\ stored[c] = "none" /\ link[ProcOf[t]] # "none" => InHand(c)

\* What the label of a task says of it.
StandAt(t) ==
  /\ Resumes(t) => FromCrm(t) /\ pc[t] # "idle"
  /\ (Resumes(t) \/ pc[t] = "locked") /\ FromCrm(t) => link[ProcOf[t]] # "none"
  /\ job[t] = "orphans" /\ pc[t] # "orphans" => todo[t] = {}
  /\ pc[t] = "record" /\ evt[t] = "busy" /\ Active(cmd[t]) => ~FromCrm(t)
  /\ pc[t] = "record" /\ evt[t] \in Verdicts => stored[cmd[t]] # "busy"
  /\ InOperation(t) /\ pc[t] # "record" => Replies(cmd[t])

StandInv == (\A c \in Cmds : StandOf(c)) /\ (\A t \in Tasks : StandAt(t))

\* A response is written by Record only.
LEMMA OnlyRecord ==
  ASSUME OneInv, Next
  PROVE  UNCHANGED stored \/ \E t \in Tasks : Record(t)
<1>1. ASSUME NEW t \in Tasks,
             \/ Create(t) \/ CallSend(t) \/ StartOk(t) \/ PosBusy(t) \/ PosError(t)
             \/ PosFinal(t) \/ PollAgain(t) \/ UnknownTimeout(t) \/ ActualizeAgain(t)
             \/ ResumeOrphan(t)
      PROVE  UNCHANGED stored
  BY <1>1 DEF Create, CallSend, StartOk, PosBusy, PosError, PosFinal, PollAgain,
              UnknownTimeout, ActualizeAgain, ResumeOrphan, Conclude, Status, durable
<1>2. ASSUME NEW d \in Cmds, PosReceive(d) \/ PosDecide(d) PROVE UNCHANGED stored
  BY <1>2 DEF PosReceive, PosDecide, durable
<1> QED
  BY <1>1, <1>2, Untouched DEF OneInv

\* A command that has an answer other than a rejection keeps one.
LEMMA AnsweredStays ==
  ASSUME OneInv, Next, NEW c \in Cmds, Replies(c)
  PROVE  Replies(c)'
<1>1. ASSUME NEW t \in Tasks, Record(t) PROVE Replies(c)'
  BY <1>1, Replied DEF Replies, OneInv, TypeInv, TypeOK
<1> QED
  BY <1>1, OnlyRecord DEF Replies

\* A response that is neither missing nor "accepted" stays.
LEMMA StandStep ==
  ASSUME OneInv, RejectInv, StandInv, Next,
         NEW c \in Cmds, stored[c] \notin {"none", "accepted"}
  PROVE  stored'[c] = stored[c]
<1> USE DEF OneInv, TypeInv, TypeOK
<1>1. ASSUME NEW t \in Tasks, Record(t), c = cmd[t] PROVE evt[t] = stored[c]
  <2>1. /\ pc[t] = "record" /\ RowOf(c) /\ StandOf(c) /\ StandAt(t)
        /\ stored[c] \in Stored
    BY <1>1 DEF Record, OutcomeInv, StandInv
  <2>2. CASE evt[t] = "accepted"
    <3>1. stored[c] \notin Verdicts /\ ops[c].status \in Unended
      BY <1>1, <2>2, Replied
    <3>2. stored[c] # "busy"
      BY <1>1, <2>1, <2>2 DEF RejectInv, BeforeCall, Announcing
    <3>3. stored[c] # "device"
      BY <2>1, <3>1, StatusAssumption DEF RowOf, StandOf, Unended
    <3> QED
      BY <2>1, <3>1, <3>2, <3>3
  <2>3. CASE evt[t] = "busy"
    BY <1>1, <2>3, Replied
  <2>4. CASE evt[t] = "device"
    <3>1. c \in Checks /\ stored[c] \notin Verdicts
      BY <1>1, <2>4, Replied
    <3> QED
      BY <2>1, <2>4, <3>1 DEF RowOf
  <2>5. CASE evt[t] \in Verdicts
    <3>1. /\ ops[c].status \in EndStatuses
          /\ stored[c] \in Verdicts => stored[c] = evt[t]
      BY <1>1, <2>5, Replied
    <3>2. stored[c] # "busy" /\ stored[c] # "device"
      BY <1>1, <2>1, <2>5, <3>1 DEF StandAt, StandOf, RowOf
    <3> QED
      BY <2>1, <3>1, <3>2
  <2>6. evt[t] \in Stored \ {"none"}
    BY <1>1, Replied
  <2> QED
    BY <2>2, <2>3, <2>4, <2>5, <2>6
<1>2. ASSUME NEW t \in Tasks, Record(t) PROVE stored'[c] = stored[c]
  <2>1. stored' = [stored EXCEPT ![cmd[t]] = evt[t]]
    BY <1>2, Replied
  <2> QED
    BY <1>1, <1>2, <2>1
<1> QED
  BY <1>2, OnlyRecord

\* A task that does not move keeps what is said of it.
LEMMA StandUndisturbed ==
  ASSUME OneInv, Next, NEW u \in Tasks, StandAt(u),
         pc'[u] = pc[u], cmd'[u] = cmd[u], evt'[u] = evt[u], job'[u] = job[u],
         todo'[u] = todo[u],
         (Resumes(u) \/ pc[u] = "locked") /\ link[ProcOf[u]] # "none" => link'[ProcOf[u]] # "none",
         pc[u] = "record" => UNCHANGED <<ops, stored>>
  PROVE  StandAt(u)'
<1>1. InOperation(u) => cmd[u] \in Cmds
  BY DEF InOperation, OneInv, TypeInv, Shape
<1>2. InOperation(u) /\ pc[u] # "record" /\ Replies(cmd[u]) => Replies(cmd[u])'
  BY <1>1, AnsweredStays
<1>3. (InOperation(u) <=> InOperation(u)') /\ (Resumes(u) <=> Resumes(u)')
  BY DEF InOperation, Resumes
<1>4. InOperation(u)' /\ pc'[u] # "record" => Replies(cmd[u])'
  BY <1>2, <1>3 DEF StandAt
<1> QED
  BY <1>3, <1>4 DEF StandAt, FromCrm, Active, Replies

\* A row that may be rejected has no answer and no handler: in a session none
\* is left active.
LEMMA NotRejected ==
  ASSUME OneProcessOnly, OneInv, StandInv, NEW t \in Tasks, HasLoop(t), ~Resumes(t),
         \A u \in Tasks : ~(u # t /\ Resumes(u)),
         FromCrm(t), link[ProcOf[t]] # "none", pc[t] # "record",
         NEW c \in Cmds, stored[c] = "none"
  PROVE  ~Active(c)
<1> SUFFICES ASSUME Active(c) PROVE FALSE
  OBVIOUS
<1>1. InHand(c)
  BY DEF StandInv, StandOf
<1>2. PICK u \in Tasks : pc[u] = "record"
  BY <1>1 DEF InHand, Resumes, Recording
<1>3. u \in Fellows(t)
  BY <1>2 DEF Fellows, OneProcessOnly
<1> QED
  BY <1>2, <1>3 DEF HasLoop

\* The task that moves arrives at a label that says what is so.
LEMMA OwnStand ==
  ASSUME OneProcessOnly, OneInv, StandInv, NEW t \in Tasks, TaskStep(t)
  PROVE  StandAt(t)'
<1> USE DEF OneInv, TypeInv, TypeOK, Say, Goto
<1>0. StandAt(t) /\ (pc[t] \notin {"idle", "orphans", "incomplete"} => cmd[t] \in Cmds)
  BY DEF Shape, StandInv
<1> USE DEF StandAt, Resumes, FromCrm, InOperation, Replies, Active
<1>1. CASE CheckAnswer(t)
  BY <1>0, <1>1 DEF CheckAnswer
<1>2. CASE Recheck(t)
  <2>1. job[t] = "handle" /\ pc[t] = "locked" /\ cmd[t] \in Cmds
    BY <1>0, <1>2 DEF Recheck, ResumeInv
  <2>2. \A u \in Tasks : ~(u # t /\ Resumes(u))
    BY <2>1 DEF ResumeInv
  <2>3. stored[cmd[t]] = "none" /\ FromCrm(t) => ~Active(cmd[t])
    BY <1>0, <1>2, <2>1, <2>2, NotRejected DEF Recheck
  <2> QED
    BY <1>0, <1>2, <2>1, <2>3 DEF Recheck, durable
<1>3. CASE Create(t)
  <2>1. /\ pc'[t] = "record" /\ evt'[t] = "accepted"
        /\ UNCHANGED <<cmd, job, todo, link>> /\ pc[t] = "create"
    BY <1>3, Created DEF Create
  <2> QED
    BY <1>0, <2>1
<1>4. CASE Record(t)
  <2>1. /\ pc[t] = "record" /\ UNCHANGED <<ops, cmd, evt, job, todo, link>>
        /\ pc'[t] = IF evt[t] = "accepted" THEN "emit" ELSE "answer"
        /\ stored' = [stored EXCEPT ![cmd[t]] = evt[t]]
    BY <1>4 DEF Record
  <2> QED
    BY <1>0, <2>1
<1>5. CASE SendRaises(t) \/ ResumeDone(t)
  BY <1>0, <1>5 DEF SendRaises, ResumeDone, Leave
<1>6. CASE Emit(t)
  BY <1>0, <1>6 DEF Emit, durable
<1>7. CASE Answer(t)
  BY <1>0, <1>7 DEF Answer, Leave
<1>8. CASE CallSend(t)
  BY <1>0, <1>8 DEF CallSend, durable
<1>9. CASE StartOk(t)
  BY <1>0, <1>9 DEF StartOk
<1>10. CASE PollAgain(t) \/ ActualizeAgain(t)
  BY <1>0, <1>10 DEF PollAgain, ActualizeAgain, Status
<1>11. CASE PosBusy(t) \/ PosError(t) \/ PosFinal(t) \/ UnknownTimeout(t)
  <2>1. PICK s \in EndStatuses, e \in Errors, v \in Verdicts :
           InOperation(t) /\ Conclude(t, s, e, v)
    BY <1>11, Verdict
  <2>2. /\ pc'[t] = "record" /\ evt'[t] = v /\ UNCHANGED <<stored, cmd, job, todo, link>>
    BY <2>1 DEF Conclude
  <2>3. pc[t] \notin {"record", "orphans", "idle"}
    BY <1>11 DEF PosBusy, PosError, PosFinal, UnknownTimeout
  <2> QED
    BY <1>0, <2>1, <2>2, <2>3
<1>12. CASE UnknownNext(t)
  BY <1>0, <1>12 DEF UnknownNext, durable
<1>13. CASE ResumeOrphan(t)
  <2>1. PICK c \in todo[t] :
           /\ todo' = [todo EXCEPT ![t] = @ \ {c}]
           /\ cmd' = [cmd EXCEPT ![t] = c]
    BY <1>13 DEF ResumeOrphan
  <2>2. /\ pc[t] = "orphans" /\ job[t] = "orphans" /\ pc'[t] = "record"
        /\ evt'[t] = "manual_review" /\ UNCHANGED <<stored, job, link>>
    BY <1>13 DEF ResumeOrphan, ResumeInv
  <2>3. c \in Cmds /\ Active(c)
    BY <2>1 DEF ResumeInv
  <2>4. todo'[t] = {}
    BY <2>1, <2>3 DEF ResumeInv, WorkInv
  <2>5. stored[c] # "busy"
    BY <1>0, <2>2, <2>3 DEF StandInv, StandOf
  <2> QED
    BY <1>0, <2>1, <2>2, <2>4, <2>5
<1>14. CASE ResumeOrphansDone(t)
  <2>1. /\ pc[t] = "orphans" /\ job[t] = "orphans" /\ pc'[t] = "incomplete"
        /\ job'[t] = "incomplete" /\ UNCHANGED link
    BY <1>14 DEF ResumeOrphansDone, ResumeInv
  <2> QED
    BY <1>0, <2>1
<1>15. CASE ResumePoll(t)
  <2>1. PICK c \in todo[t] : ops[c].pid /\ cmd' = [cmd EXCEPT ![t] = c]
    BY <1>15 DEF ResumePoll
  <2>2. /\ pc[t] = "incomplete" /\ job[t] = "incomplete" /\ pc'[t] = "poll"
        /\ UNCHANGED <<stored, job, link>>
    BY <1>15 DEF ResumePoll, ResumeInv, durable
  <2>3. Replies(c)
    BY <2>1 DEF StandInv, StandOf
  <2> QED
    BY <1>0, <2>1, <2>2, <2>3
<1>16. CASE LinkUp(t)
  BY <1>0, <1>16, ProcessAssumption DEF LinkUp
<1>17. ASSUME NEW c \in Cmds, Received(t, c) PROVE StandAt(t)'
  <2>1. /\ pc[t] = "idle" /\ HasLoop(t) /\ (FromCrm(t) => link[ProcOf[t]] # "none")
        /\ \A u \in Tasks : ~Resumes(u)
        /\ job'[t] = "handle" /\ cmd'[t] = c /\ UNCHANGED <<durable, todo, link>>
    BY <1>17 DEF Received, ReceiveKnown, ReceiveBusy, ReceiveStart, ReceiveCheck, Begin,
                 CanReceive, Resuming, OneProcessOnly
  <2>2. stored[c] = "none" /\ FromCrm(t) => ~Active(c)
    BY <2>1, NotRejected
  <2>3. CASE ReceiveBusy(t, c)
    BY <2>1, <2>2, <2>3 DEF ReceiveBusy, durable
  <2>4. CASE ~ReceiveBusy(t, c)
    <3>1. pc'[t] \in {"answer", "locked", "checking"}
      BY <1>17, <2>4 DEF Received, ReceiveKnown, ReceiveStart, ReceiveCheck
    <3> QED
      BY <2>1, <3>1
  <2> QED
    BY <2>3, <2>4
<1> QED
  BY <1>1, <1>2, <1>3, <1>4, <1>5, <1>6, <1>7, <1>8, <1>9, <1>10, <1>11, <1>12, <1>13, <1>14,
     <1>15, <1>16, <1>17 DEF TaskStep, Handle

\* A row gets its processId from the terminal's answer to its own call.
LEMMA PidComes ==
  ASSUME OneInv, Next, NEW c \in Cmds, ops'[c].pid, ~ops[c].pid
  PROVE  \E t \in Tasks : StartOk(t) /\ cmd[t] = c
<1> DEFINE Goal == \E t \in Tasks : StartOk(t) /\ cmd[t] = c
<1> USE DEF OneInv, TypeInv, TypeOK
<1>1. ASSUME NEW t \in Tasks, Create(t) PROVE FALSE
  BY <1>1, Created
<1>2. ASSUME NEW t \in Tasks, StartOk(t) PROVE Goal
  <2>1. \A d \in Cmds \ {cmd[t]} : ops'[d] = ops[d]
    BY <1>2, Continued
  <2> QED
    BY <1>2, <2>1
<1>3. ASSUME NEW t \in Tasks, PollAgain(t) \/ ActualizeAgain(t) PROVE FALSE
  <2>1. PICK s \in Answered : ops' = [ops EXCEPT ![cmd[t]].status = s]
    BY <1>3 DEF PollAgain, ActualizeAgain, Status
  <2>2. ops[c] \in Row
    OBVIOUS
  <2> QED
    BY <2>1, <2>2 DEF Row
<1>4. ASSUME NEW t \in Tasks,
             PosBusy(t) \/ PosError(t) \/ PosFinal(t) \/ UnknownTimeout(t)
      PROVE  FALSE
  <2>1. PICK s \in EndStatuses, e \in Errors, v \in Verdicts :
           InOperation(t) /\ Conclude(t, s, e, v)
    BY <1>4, Verdict
  <2>2. /\ ops'[cmd[t]].pid = ops[cmd[t]].pid
        /\ \A d \in Cmds \ {cmd[t]} : ops'[d] = ops[d]
    BY <2>1, Concluded
  <2> QED
    BY <2>2
<1>5. ASSUME NEW t \in Tasks, ResumeOrphan(t) PROVE FALSE
  BY <1>5, Orphaned
<1>6. ASSUME NEW t \in Tasks, Record(t) \/ CallSend(t) PROVE FALSE
  BY <1>6 DEF Record, CallSend, durable
<1>7. ASSUME NEW d \in Cmds, PosReceive(d) \/ PosDecide(d) PROVE FALSE
  BY <1>7 DEF PosReceive, PosDecide, durable
<1>8. ~UNCHANGED <<ops, stored, pos, sent>>
  OBVIOUS
<1> HIDE DEF Goal
<1>9. Goal
  BY <1>1, <1>2, <1>3, <1>4, <1>5, <1>6, <1>7, <1>8, Untouched
<1> QED
  BY <1>9 DEF Goal

\* An active operation that is in hand and gets no answer stays in hand.
LEMMA HandStays ==
  ASSUME OneProcessOnly, OneInv, StandInv, NEW t \in Tasks, TaskStep(t), ~LinkUp(t),
         NEW c \in Cmds, Active(c)', stored'[c] = "none", InHand(c)
  PROVE  InHand(c)'
<1> USE DEF OneInv, TypeInv, TypeOK, Say, Goto
<1>1. ~Recording(c, "accepted")
  <2> SUFFICES ASSUME NEW u \in Tasks, pc[u] = "record", cmd[u] = c, evt[u] = "accepted"
               PROVE  FALSE
    BY DEF Recording
  <2>1. u = t /\ Record(t)
    BY RecordsNext
  <2> QED
    BY <2>1 DEF Record
<1>2. PICK u \in Tasks : job[u] = "orphans" /\ c \in todo[u]
  BY <1>1 DEF InHand
<1>3. CASE u # t
  BY <1>2, <1>3, TaskMoves DEF OnlyMoves, InHand
<1>4. CASE u = t
  <2>1. pc[t] = "orphans"
    BY <1>2, <1>4 DEF StandInv, StandAt
  <2>2. CASE ResumeOrphan(t)
    <3>1. PICK d \in todo[t] :
             /\ ops' = [ops EXCEPT ![d].status = "manual_review", ![d].err = "unknown_timeout"]
             /\ todo' = [todo EXCEPT ![t] = @ \ {d}]
      BY <2>2 DEF ResumeOrphan
    <3>2. c # d
      BY <3>1 DEF Active
    <3>3. job'[t] = job[t]
      BY <2>2 DEF ResumeOrphan
    <3> QED
      BY <1>2, <1>4, <3>1, <3>2, <3>3 DEF InHand
  <2>3. ~ResumeOrphansDone(t)
    BY <1>2, <1>4 DEF ResumeOrphansDone
  <2>4. ~(CheckAnswer(t) \/ Recheck(t) \/ Create(t) \/ Record(t) \/ SendRaises(t) \/ Emit(t)
            \/ Answer(t) \/ CallSend(t) \/ StartOk(t) \/ PosBusy(t) \/ PosError(t) \/ PosFinal(t))
    BY <2>1 DEF CheckAnswer, Recheck, Create, Record, SendRaises, Emit, Answer, CallSend,
                StartOk, PosBusy, PosError, PosFinal
  <2>5. ~(PollAgain(t) \/ UnknownTimeout(t) \/ UnknownNext(t) \/ ActualizeAgain(t)
            \/ ResumePoll(t) \/ ResumeDone(t) \/ \E d \in Cmds : Received(t, d))
    BY <2>1 DEF PollAgain, UnknownTimeout, UnknownNext, ActualizeAgain, ResumePoll, ResumeDone,
                Received, ReceiveKnown, ReceiveBusy, ReceiveStart, ReceiveCheck, CanReceive
  <2> QED
    BY <2>2, <2>3, <2>4, <2>5 DEF TaskStep, Handle
<1> QED
  BY <1>3, <1>4

\* The command that the terminal answers for has a response on record.
LEMMA WorkReplied ==
  ASSUME OneInv, StandInv, NEW t \in Tasks, StartOk(t) \/ PollAgain(t) \/ ActualizeAgain(t)
  PROVE  stored[cmd[t]] \notin {"none", "busy"}
BY DEF StandInv, StandAt, InOperation, Replies, StartOk, PollAgain, ActualizeAgain

\* The death of the one process leaves no session.
LEMMA DeathEndsSession ==
  ASSUME OneProcessOnly, OneInv, NEW p \in Procs, NEW t \in Tasks, ProcOf[t] = p, Dies(p)
  PROVE  \A u \in Tasks : link'[ProcOf[u]] = "none" /\ StandAt(u)'
<1> SUFFICES ASSUME NEW u \in Tasks PROVE link'[ProcOf[u]] = "none" /\ StandAt(u)'
  OBVIOUS
<1>1. ProcOf[u] = p
  BY DEF OneProcessOnly
<1> QED
  BY <1>1 DEF Dies, StandAt, Resumes, InOperation, OneInv, TypeInv, TypeOK

\* Every step keeps what is said of a command's row and response.
LEMMA NextStandOf ==
  ASSUME OneProcessOnly, OneInv, PickedInv, StandInv, Next, NEW c \in Cmds
  PROVE  StandOf(c)'
<1> USE DEF OneInv, TypeInv, TypeOK
<1>0. StandOf(c)
  BY DEF StandInv
<1>1. ops'[c].pid => Replies(c)'
  <2>1. ops[c].pid => Replies(c)
    BY <1>0 DEF StandOf
  <2>2. ops'[c].pid /\ ~ops[c].pid => Replies(c)
    <3> SUFFICES ASSUME ops'[c].pid, ~ops[c].pid PROVE Replies(c)
      OBVIOUS
    <3>1. PICK t \in Tasks : StartOk(t) /\ cmd[t] = c
      BY PidComes
    <3>2. InOperation(t) /\ pc[t] # "record"
      BY <3>1 DEF StartOk, InOperation
    <3> QED
      BY <3>1, <3>2 DEF StandInv, StandAt
  <2> QED
    BY <2>1, <2>2, AnsweredStays
<1>2. stored'[c] = "device" => c \in Checks
  BY <1>0, OnlyRecord, Replied DEF StandOf
<1>3. ASSUME NEW t \in Tasks, Active(c)', FromCrm(t) PROVE stored'[c] # "busy"
  <2>1. ASSUME NEW u \in Tasks, Record(u) PROVE stored'[c] # "busy"
    <3>1. Active(c) /\ stored[c] # "busy"
      BY <1>0, <1>3, <2>1 DEF Record, Active, StandOf
    <3>2. cmd[u] = c => evt[u] # "busy"
      BY <1>3, <2>1, <3>1 DEF Record, StandInv, StandAt, FromCrm, OneProcessOnly
    <3> QED
      BY <2>1, <3>1, <3>2, Replied
  <2>2. CASE UNCHANGED stored
    <3>1. CASE Active(c)
      BY <1>0, <1>3, <2>2, <3>1 DEF StandOf
    <3>2. ASSUME NEW u \in Tasks, Create(u), cmd[u] = c PROVE stored'[c] # "busy"
      BY <2>2, <3>2, Created
    <3>3. ASSUME NEW u \in Tasks, StartOk(u) \/ PollAgain(u) \/ ActualizeAgain(u), cmd[u] = c
          PROVE  stored'[c] # "busy"
      BY <2>2, <3>3, WorkReplied
    <3> QED
      BY <1>3, <3>1, <3>2, <3>3, Activated DEF Active
  <2> QED
    BY <2>1, <2>2, OnlyRecord
<1>4. ASSUME NEW t \in Tasks, Active(c)', FromCrm(t), stored'[c] = "none",
             link'[ProcOf[t]] # "none"
      PROVE  InHand(c)'
  <2>1. stored[c] = "none"
    BY <1>4, OnlyRecord, Replied
  <2>2. ASSUME UNCHANGED <<ops, local>>, link[ProcOf[t]] # "none" PROVE InHand(c)'
    BY <1>0, <1>4, <2>1, <2>2 DEF StandOf, Active, InHand, Recording, local
  <2>3. ASSUME NEW u \in Tasks, LinkUp(u) PROVE InHand(c)'
    <3>1. /\ todo'[u] = WithoutProcess /\ job'[u] = "orphans" /\ UNCHANGED ops
      BY <2>3 DEF LinkUp, durable
    <3>2. ~ops[c].pid
      BY <1>0, <2>1 DEF StandOf, Replies
    <3>3. c \in WithoutProcess
      BY <1>4, <3>1, <3>2 DEF Active, PickedInv, WithoutProcess
    <3> QED
      BY <3>1, <3>3 DEF InHand
  <2>4. ASSUME NEW u \in Tasks, TaskStep(u), ~LinkUp(u) PROVE InHand(c)'
    <3>1. link[ProcOf[t]] # "none"
      BY <1>4, <2>4, Linked, ProcessAssumption
    <3>2. CASE Active(c)
      <4>1. InHand(c)
        BY <1>0, <1>4, <2>1, <3>1, <3>2 DEF StandOf
      <4> QED
        BY <1>4, <2>4, <4>1, HandStays
    <3>3. ASSUME NEW w \in Tasks, Create(w), cmd[w] = c PROVE InHand(c)'
      BY <3>3, Created DEF InHand, Recording
    <3>4. ASSUME NEW w \in Tasks, StartOk(w) \/ PollAgain(w) \/ ActualizeAgain(w), cmd[w] = c
          PROVE  FALSE
      BY <2>1, <3>4, WorkReplied
    <3> QED
      BY <1>4, <3>2, <3>3, <3>4, Activated DEF Active
  <2>5. ASSUME NEW u \in Tasks, CreateCollides(u) PROVE FALSE
    BY <1>4, <2>5, ProcessAssumption, DeathEndsSession DEF CreateCollides
  <2>6. ASSUME NEW p \in Procs, Crash(p) PROVE FALSE
    BY <1>4, <2>6, DeathEndsSession DEF Crash
  <2>7. ASSUME NEW p \in Procs, LinkLost(p) \/ LinkEnd(p) PROVE InHand(c)'
    BY <1>4, <2>2, <2>7, ProcessAssumption DEF LinkLost, LinkEnd, durable
  <2>8. ASSUME NEW d \in Cmds, PosReceive(d) \/ PosDecide(d) PROVE InHand(c)'
    BY <1>4, <2>2, <2>8 DEF PosReceive, PosDecide, durable
  <2> QED
    BY <2>3, <2>4, <2>5, <2>6, <2>7, <2>8, Steps
<1> QED
  BY <1>1, <1>2, <1>3, <1>4 DEF StandOf, FromCrm

\* Every step keeps what is said of the tasks.
LEMMA NextStandAt ==
  ASSUME OneProcessOnly, OneInv, StandInv, Next, NEW u \in Tasks
  PROVE  StandAt(u)'
<1> USE ProcessAssumption DEF OneInv, TypeInv, TypeOK
<1>0. StandAt(u)
  BY DEF StandInv
<1>1. ASSUME NEW t \in Tasks, TaskStep(t) PROVE StandAt(u)'
  <2>1. OnlyMoves(t)
    BY <1>1, TaskMoves
  <2>2. CASE u = t
    BY <1>1, <2>2, OwnStand
  <2>3. CASE u # t
    <3>1. pc[u] \notin Sync
      BY <2>1, <2>3 DEF OnlyMoves, HasLoop, Fellows, OneProcessOnly
    <3>2. Resumes(u) /\ link[ProcOf[u]] # "none" => link'[ProcOf[u]] # "none"
      <4>1. CASE LinkUp(t)
        BY <4>1 DEF LinkUp
      <4>2. ~(SendRaises(t) /\ Resumes(u))
        BY <2>3 DEF SendRaises, Resumes, ResumeInv
      <4> QED
        BY <1>1, <4>1, <4>2, Linked
    <3> QED
      BY <1>0, <2>1, <2>3, <3>1, <3>2, StandUndisturbed DEF OnlyMoves
  <2> QED
    BY <2>2, <2>3
<1>2. ASSUME NEW t \in Tasks, CreateCollides(t) PROVE StandAt(u)'
  BY <1>2, DeathEndsSession DEF CreateCollides
<1>3. ASSUME NEW p \in Procs, Crash(p) PROVE StandAt(u)'
  BY <1>3, DeathEndsSession DEF Crash
<1>4. ASSUME NEW p \in Procs, LinkLost(p) \/ LinkEnd(p) PROVE StandAt(u)'
  <2>1. pc[u] = "idle" => ~Resumes(u)
    BY <1>0 DEF StandAt
  <2>2. (Resumes(u) \/ pc[u] = "locked") /\ link[ProcOf[u]] # "none" => link'[ProcOf[u]] # "none"
    BY <1>4, <2>1 DEF LinkLost, LinkEnd
  <2> QED
    BY <1>0, <1>4, <2>2, StandUndisturbed DEF LinkLost, LinkEnd, durable, local
<1>5. ASSUME NEW d \in Cmds, PosReceive(d) \/ PosDecide(d) PROVE StandAt(u)'
  BY <1>0, <1>5, StandUndisturbed DEF PosReceive, PosDecide, durable, local
<1> QED
  BY <1>1, <1>2, <1>3, <1>4, <1>5, Steps

LEMMA StandInvariance == ASSUME OneProcessOnly PROVE Spec => [](PickedInv /\ StandInv)
<1>1. Init => PickedInv /\ StandInv
  BY DEF Init, PickedInv, StandInv, StandOf, StandAt, NoRow, Active, Resumes, InOperation
<1>2. OneInv /\ PickedInv /\ StandInv /\ [Next]_vars => (PickedInv /\ StandInv)'
  <2>1. PickedInv /\ StandInv /\ UNCHANGED vars => (PickedInv /\ StandInv)'
    BY DEF PickedInv, Picked, StandInv, StandOf, StandAt, InHand, Recording, Replies, FromCrm,
           Resumes, InOperation, Incomplete, ActiveCmds, Active, vars
  <2>2. OneInv /\ PickedInv /\ StandInv /\ Next => (PickedInv /\ StandInv)'
    BY OneProcessOnly, NextPicked, NextStandOf, NextStandAt DEF StandInv
  <2> QED
    BY <2>1, <2>2
<1> QED
  BY <1>1, <1>2, OneProcess, PTL DEF Spec

\* With one process a response on record, "accepted" apart, is never replaced:
\* no handler, resume or duplicate gives a commandId another final reply.
THEOREM RepliesStand == ASSUME OneProcessOnly PROVE Spec => ReplyStands
<1> DEFINE Keep == \A c \in Cmds : stored[c] \notin {"none", "accepted"} => stored'[c] = stored[c]
<1>1. OneInv /\ SharedInv /\ StandInv /\ [Next]_vars => [Keep]_vars
  BY StandStep DEF SharedInv, vars
<1> QED
  BY <1>1, OneProcess, SharedInvariance, StandInvariance, PTL DEF Spec, ReplyStands
=============================================================================
