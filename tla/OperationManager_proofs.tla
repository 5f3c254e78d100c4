----------------------- MODULE OperationManager_proofs -----------------------
(* Theorems about OperationManager for any number of commands, tasks,        *)
(* processes and crashes, and their proofs.                                  *)
EXTENDS OperationManager, TLAPS

\* What the handlers' labels say of the other local variables.
Shape ==
  \A t \in Tasks :
    /\ pc[t] \notin {"idle", "orphans", "incomplete"} => cmd[t] \in Cmds
    /\ pc[t] = "record" => evt[t] \in Stored \ {"none"}
    /\ pc[t] = "idle" \/ job[t] # "none"

TypeInv == TypeOK /\ Shape

USE DEF ActiveStatuses, EndStatuses, Errors, Verdicts, Stored, Events,
        Awaits, Sync, Jobs, PosStates

\* What a task may make of command c.
Received(t, c) ==
  ReceiveKnown(t, c) \/ ReceiveBusy(t, c) \/ ReceiveStart(t, c) \/ ReceiveCheck(t, c)

\* Next, flattened into its actions.
LEMMA NextActions ==
  ASSUME Next
  PROVE  \/ \E t \in Tasks :
              \/ CheckAnswer(t) \/ Recheck(t) \/ Create(t) \/ Record(t)
              \/ SendRaises(t) \/ Emit(t) \/ Answer(t)
              \/ CallSend(t) \/ StartOk(t) \/ PosBusy(t) \/ PosError(t)
              \/ PosFinal(t) \/ PollAgain(t) \/ UnknownTimeout(t) \/ UnknownNext(t)
              \/ ActualizeAgain(t) \/ ResumeOrphan(t) \/ ResumeOrphansDone(t)
              \/ ResumePoll(t) \/ ResumeDone(t) \/ CreateCollides(t) \/ LinkUp(t)
         \/ \E t \in Tasks, c \in Cmds :
              \/ ReceiveKnown(t, c) \/ ReceiveBusy(t, c)
              \/ ReceiveStart(t, c) \/ ReceiveCheck(t, c)
         \/ \E p \in Procs : LinkLost(p) \/ LinkEnd(p) \/ Crash(p)
         \/ \E c \in Cmds : PosReceive(c) \/ PosDecide(c)
BY CommandAssumption DEF Next, Handle, Receive

\* The initial state has the declared types.
LEMMA InitTypeInv == Init => TypeInv
BY CommandAssumption, ProcessAssumption DEF Init, TypeInv, TypeOK, Shape, NoRow, Row

\* The two ways an UPDATE writes a row, and what any reply may be.
LEMMA RowUpdates ==
  ASSUME NEW f \in [Cmds -> Row], NEW c \in Cmds,
         NEW s \in {"none"} \cup ActiveStatuses \cup EndStatuses \cup OtherStatuses,
         NEW e \in Errors, NEW b \in BOOLEAN
  PROVE  /\ [f EXCEPT ![c].status = s] \in [Cmds -> Row]
         /\ [f EXCEPT ![c].status = s, ![c].pid = b] \in [Cmds -> Row]
         /\ [f EXCEPT ![c].status = s, ![c].err = e] \in [Cmds -> Row]
         /\ f[c].err \in Errors
<1> HIDE DEF ActiveStatuses, EndStatuses, Errors
<1>1. f[c] \in Row
  OBVIOUS
<1>2. /\ [f[c] EXCEPT !.status = s] \in Row
      /\ [f[c] EXCEPT !.status = s, !.pid = b] \in Row
      /\ [f[c] EXCEPT !.status = s, !.err = e] \in Row
  BY <1>1 DEF Row
<1>3. f[c].err \in Errors
  BY <1>1 DEF Row
<1> QED
  BY <1>2, <1>3

\* What the verdict of a task's operation does to the rows.
LEMMA ConcludeRow ==
  ASSUME TypeOK, NEW t \in Tasks, cmd[t] \in Cmds, NEW s \in EndStatuses,
         NEW e \in Errors, NEW v, Conclude(t, s, e, v)
  PROVE  ops' \in [Cmds -> Row]
<1> HIDE DEF ActiveStatuses, EndStatuses, Errors
<1>1. ops' = [ops EXCEPT ![cmd[t]].status = s, ![cmd[t]].err = e]
  BY DEF Conclude
<1>2. ops \in [Cmds -> Row] /\ s \in {"none"} \cup ActiveStatuses \cup EndStatuses \cup OtherStatuses
  BY DEF TypeOK
<1> QED
  BY <1>1, <1>2, RowUpdates

\* A task that leaves its handler keeps the types.
LEMMA LeaveType ==
  ASSUME TypeInv, NEW t \in Tasks, Leave(t), told' \in [Cmds -> SUBSET Verdicts],
         link' \in [Procs -> {"none", "open", "closed"}],
         UNCHANGED <<ops, stored, pos, sent, crashes>>
  PROVE  TypeInv'
<1>1. /\ pc' = [pc EXCEPT ![t] = "idle"] /\ cmd' = [cmd EXCEPT ![t] = NoCmd]
      /\ evt' = [evt EXCEPT ![t] = "none"] /\ job' = [job EXCEPT ![t] = "none"]
      /\ todo' = [todo EXCEPT ![t] = {}] /\ lock' = Released(t)
  BY DEF Leave, Goto
<1>2. lock' \in [Procs -> Tasks \cup {NoTask}]
  BY <1>1, ProcessAssumption DEF Released, TaskLock, TypeInv, TypeOK
<1>3. TypeOK'
  BY <1>1, <1>2 DEF TypeInv, TypeOK
<1>4. Shape'
  BY <1>1 DEF TypeInv, TypeOK, Shape
<1> QED
  BY <1>3, <1>4 DEF TypeInv

\* The poll goes on with the status that was answered.
LEMMA PolledOn ==
  ASSUME NEW t \in Tasks, PollAgain(t) \/ ActualizeAgain(t)
  PROVE  \E s \in Answered, l \in {"emit", "poll"}, e \in {"wait", "unknown", "none"} :
           Status(t, s, l, e)
<1>1. CASE PollAgain(t)
  <2>1. PICK s \in Answered : Status(t, s, "emit", IF s = "unknown" THEN s ELSE "wait")
    BY <1>1 DEF PollAgain
  <2>2. CASE s = "unknown"
    BY <2>1, <2>2
  <2>3. CASE s # "unknown"
    BY <2>1, <2>3
  <2> QED
    BY <2>2, <2>3
<1>2. CASE ActualizeAgain(t)
  BY <1>2 DEF ActualizeAgain
<1> QED
  BY <1>1, <1>2

\* The reply to a known command is an event.
LEMMA ReplyType ==
  ASSUME TypeOK, NEW c \in Cmds
  PROVE  KnownStateEvent(c) \in Events
BY DEF TypeOK, KnownStateEvent

\* Every step keeps the types, and the labels fitting together.
LEMMA NextTypeInv == TypeInv /\ [Next]_vars => TypeInv'
<1> SUFFICES ASSUME TypeInv, [Next]_vars PROVE TypeInv'
  OBVIOUS
<1> USE CommandAssumption, ProcessAssumption, CrashAssumption DEF TypeInv, TypeOK, Shape
<1>u. CASE UNCHANGED vars
  BY <1>u DEF vars
<1>1. ASSUME NEW t \in Tasks, CheckAnswer(t) PROVE TypeInv'
  BY <1>1 DEF CheckAnswer, Say, Goto, durable, local, history
<1>2. ASSUME NEW t \in Tasks, Recheck(t) PROVE TypeInv'
  <2>1. KnownStateEvent(cmd[t]) \in Events
    BY <1>2, ReplyType DEF Recheck
  <2> QED
    BY <1>2, <2>1 DEF Recheck, Say, Goto, durable, local, history
<1>3. ASSUME NEW t \in Tasks, Create(t) PROVE TypeInv'
  <2>1. ops' \in [Cmds -> Row]
    BY <1>3, RowUpdates DEF Create, Say, Goto, durable, local, history
  <2> QED
    BY <1>3, <2>1 DEF Create, Say, Goto, durable, local, history
<1>4. ASSUME NEW t \in Tasks, Record(t) PROVE TypeInv'
  BY <1>4 DEF Record, Goto, durable, local, history
<1>5. ASSUME NEW t \in Tasks, SendRaises(t) PROVE TypeInv'
  <2>1. Leave(t) /\ UNCHANGED <<ops, stored, pos, sent, told, crashes>>
    BY <1>5 DEF SendRaises, durable, history
  <2>2. /\ told' \in [Cmds -> SUBSET Verdicts]
        /\ link' \in [Procs -> {"none", "open", "closed"}]
    BY <1>5, <2>1 DEF SendRaises
  <2> HIDE DEF TypeInv
  <2> QED
    BY <2>1, <2>2, LeaveType
<1>6. ASSUME NEW t \in Tasks, Emit(t) PROVE TypeInv'
  BY <1>6 DEF Emit, Say, Goto, Delivered, durable, local, history
<1>7. ASSUME NEW t \in Tasks, Answer(t) PROVE TypeInv'
  <2>1. told' \in [Cmds -> SUBSET Verdicts]
    BY <1>7 DEF Answer, Delivered
  <2>2. CASE Leave(t)
    <3>1. UNCHANGED <<ops, stored, link, pos, sent, crashes>>
      BY <1>7 DEF Answer, durable
    <3>2. link' \in [Procs -> {"none", "open", "closed"}]
      BY <3>1
    <3> HIDE DEF TypeInv
    <3> QED
      BY <2>1, <2>2, <3>1, <3>2, LeaveType
  <2>3. CASE ~Leave(t)
    <3>1. /\ job[t] \in {"orphans", "incomplete"} /\ pc' = [pc EXCEPT ![t] = job[t]]
          /\ evt' = [evt EXCEPT ![t] = "none"] /\ cmd' = [cmd EXCEPT ![t] = NoCmd]
          /\ lock' = Released(t) /\ UNCHANGED <<ops, stored, job, todo, link, pos, sent, crashes>>
      BY <1>7, <2>3 DEF Answer, Say, Goto, durable
    <3>2. lock' \in [Procs -> Tasks \cup {NoTask}]
      BY <3>1 DEF Released, TaskLock
    <3> QED
      BY <2>1, <3>1, <3>2
  <2> QED
    BY <2>2, <2>3
<1>8. ASSUME NEW t \in Tasks, CallSend(t) PROVE TypeInv'
  BY <1>8 DEF CallSend, Goto, durable, local, history
<1>9. ASSUME NEW t \in Tasks, StartOk(t) PROVE TypeInv'
  <2>1. ops' \in [Cmds -> Row]
    <3>1. PICK s \in Answered :
             ops' = [ops EXCEPT ![cmd[t]].status = s, ![cmd[t]].pid = TRUE]
      BY <1>9 DEF StartOk
    <3>2. cmd[t] \in Cmds
      BY <1>9 DEF StartOk
    <3> QED
      BY <3>1, <3>2, RowUpdates DEF Answered
  <2> QED
    BY <1>9, <2>1 DEF StartOk, Say, Goto, durable, local, history
<1>10. ASSUME NEW t \in Tasks, PosBusy(t) PROVE TypeInv'
  <2>0. cmd[t] \in Cmds
    BY <1>10 DEF PosBusy
  <2>1. ops' \in [Cmds -> Row]
    BY <1>10, <2>0, ConcludeRow DEF PosBusy
  <2> QED
    BY <1>10, <2>1 DEF PosBusy, Conclude, Say, Goto, durable, local, history
<1>11. ASSUME NEW t \in Tasks, PosError(t) PROVE TypeInv'
  <2>0. cmd[t] \in Cmds
    BY <1>11 DEF PosError
  <2>1. ops' \in [Cmds -> Row]
    BY <1>11, <2>0, ConcludeRow DEF PosError
  <2> QED
    BY <1>11, <2>1 DEF PosError, Conclude, Say, Goto, durable, local, history
<1>12. ASSUME NEW t \in Tasks, PosFinal(t) PROVE TypeInv'
  <2>1. cmd[t] \in Cmds
    BY <1>12 DEF PosFinal
  <2>2. ops[cmd[t]].err \in Errors
    BY <2>1, RowUpdates
  <2>3. \E s \in {"success", "fail"}, v \in {"completed", "failed"} :
           Conclude(t, s, ops[cmd[t]].err, v)
    BY <1>12 DEF PosFinal
  <2>4. PICK s \in {"success", "fail"}, v \in {"completed", "failed"} :
           Conclude(t, s, ops[cmd[t]].err, v)
    BY <2>3
  <2>5. ops' \in [Cmds -> Row]
    BY <2>1, <2>2, <2>4, ConcludeRow
  <2> QED
    BY <1>12, <2>4, <2>5 DEF PosFinal, Conclude, Say, Goto, durable, local, history
<1>13. ASSUME NEW t \in Tasks, PollAgain(t) PROVE TypeInv'
  <2>1. PICK s \in Answered : Status(t, s, "emit", IF s = "unknown" THEN s ELSE "wait")
    BY <1>13 DEF PollAgain
  <2>2. cmd[t] \in Cmds
    BY <1>13 DEF PollAgain
  <2>3. ops' \in [Cmds -> Row]
    BY <2>1, <2>2, RowUpdates DEF Status, Answered
  <2> QED
    BY <1>13, <2>1, <2>3 DEF PollAgain, Status, Say, Goto, durable, local, history
<1>14. ASSUME NEW t \in Tasks, UnknownTimeout(t) PROVE TypeInv'
  <2>0. cmd[t] \in Cmds
    BY <1>14 DEF UnknownTimeout
  <2>1. ops' \in [Cmds -> Row]
    BY <1>14, <2>0, ConcludeRow DEF UnknownTimeout
  <2> QED
    BY <1>14, <2>1 DEF UnknownTimeout, Conclude, Say, Goto, durable, local, history
<1>15. ASSUME NEW t \in Tasks, UnknownNext(t) PROVE TypeInv'
  BY <1>15 DEF UnknownNext, Goto, durable, local, history
<1>16. ASSUME NEW t \in Tasks, ActualizeAgain(t) PROVE TypeInv'
  <2>1. PICK s \in Answered : Status(t, s, "poll", "none")
    BY <1>16 DEF ActualizeAgain
  <2>2. cmd[t] \in Cmds
    BY <1>16 DEF ActualizeAgain
  <2>3. ops' \in [Cmds -> Row]
    BY <2>1, <2>2, RowUpdates DEF Status, Answered
  <2> QED
    BY <1>16, <2>1, <2>3 DEF ActualizeAgain, Status, Say, Goto, durable, local, history
<1>17. ASSUME NEW t \in Tasks, ResumeOrphan(t) PROVE TypeInv'
  <2>1. PICK c \in todo[t] :
           /\ ops' = [ops EXCEPT ![c].status = "manual_review", ![c].err = "unknown_timeout"]
           /\ todo' = [todo EXCEPT ![t] = @ \ {c}]
           /\ cmd' = [cmd EXCEPT ![t] = c]
    BY <1>17 DEF ResumeOrphan
  <2>2. c \in Cmds
    OBVIOUS
  <2>3. ops' \in [Cmds -> Row]
    BY <2>1, <2>2, RowUpdates
  <2> QED
    BY <1>17, <2>1, <2>2, <2>3 DEF ResumeOrphan, Say, Goto, durable, local, history
<1>18. ASSUME NEW t \in Tasks, ResumeOrphansDone(t) PROVE TypeInv'
  BY <1>18 DEF ResumeOrphansDone, Goto, Incomplete, ActiveCmds, durable, local, history
<1>19. ASSUME NEW t \in Tasks, ResumePoll(t) PROVE TypeInv'
  BY <1>19 DEF ResumePoll, Goto, durable, local, history
<1>20. ASSUME NEW t \in Tasks, ResumeDone(t) PROVE TypeInv'
  BY <1>20 DEF ResumeDone, Leave, Goto, Released, TaskLock, durable, local, history
<1>21. ASSUME NEW t \in Tasks, CreateCollides(t) PROVE TypeInv'
  BY <1>21 DEF CreateCollides, Dies, durable, local, history
<1>22. ASSUME NEW t \in Tasks, LinkUp(t) PROVE TypeInv'
  BY <1>22 DEF LinkUp, Goto, WithoutProcess, durable, local, history
<1>23. ASSUME NEW t \in Tasks, NEW c \in Cmds, ReceiveKnown(t, c) PROVE TypeInv'
  BY <1>23 DEF ReceiveKnown, CanReceive, Begin, Say, Goto, KnownStateEvent, durable, local, history
<1>24. ASSUME NEW t \in Tasks, NEW c \in Cmds, ReceiveBusy(t, c) PROVE TypeInv'
  BY <1>24 DEF ReceiveBusy, CanReceive, Begin, Say, Goto, durable, local, history
<1>25. ASSUME NEW t \in Tasks, NEW c \in Cmds, ReceiveStart(t, c) PROVE TypeInv'
  BY <1>25 DEF ReceiveStart, CanReceive, Begin, Goto, durable, local, history
<1>26. ASSUME NEW t \in Tasks, NEW c \in Cmds, ReceiveCheck(t, c) PROVE TypeInv'
  BY <1>26 DEF ReceiveCheck, CanReceive, Begin, Goto, durable, local, history
<1>27. ASSUME NEW p \in Procs, LinkLost(p) PROVE TypeInv'
  BY <1>27 DEF LinkLost, durable, local, history
<1>28. ASSUME NEW p \in Procs, LinkEnd(p) PROVE TypeInv'
  BY <1>28 DEF LinkEnd, durable, local, history
<1>29. ASSUME NEW p \in Procs, Crash(p) PROVE TypeInv'
  BY <1>29 DEF Crash, Dies, durable, local, history
<1>30. ASSUME NEW c \in Cmds, PosReceive(c) PROVE TypeInv'
  BY <1>30 DEF PosReceive, durable, local, history
<1>31. ASSUME NEW c \in Cmds, PosDecide(c) PROVE TypeInv'
  BY <1>31 DEF PosDecide, durable, local, history
<1> QED
  BY <1>u, <1>1, <1>2, <1>3, <1>4, <1>5, <1>6, <1>7, <1>8, <1>9, <1>10, <1>11, <1>12, <1>13, <1>14, <1>15, <1>16, <1>17, <1>18, <1>19, <1>20, <1>21, <1>22, <1>23, <1>24, <1>25, <1>26, <1>27, <1>28, <1>29, <1>30, <1>31, NextActions

(***************************************************************************)
(* A command is started at most once.  AtMostOneStart is not inductive: it *)
(* needs that a task which is about to call the terminal works on a row    *)
(* that no other such task works on and that has not been sent yet.  The   *)
(* row is the key: it is inserted once, and it is never deleted.           *)
(***************************************************************************)
Announcing(t) == pc[t] \in {"record", "emit"} /\ evt[t] = "accepted"
BeforeCall(t) == Announcing(t) \/ pc[t] = "call"
Recorded(c)   == ops[c].status # "none" /\ stored[c] # "none"

StartInv ==
  /\ \A t \in Tasks : BeforeCall(t) =>
       /\ ops[cmd[t]].status # "none" /\ sent[cmd[t]] = 0
       /\ pc[t] # "record" => stored[cmd[t]] # "none"
  /\ \A t, u \in Tasks : BeforeCall(t) /\ BeforeCall(u) /\ cmd[t] = cmd[u] => t = u
  /\ \A c \in Cmds : sent[c] \in {0, 1} /\ (sent[c] = 1 => Recorded(c))

\* Nothing has been recorded, announced or sent at first.
LEMMA InitStartInv == Init => StartInv
BY DEF Init, StartInv, NoRow, BeforeCall, Announcing, Recorded

\* A step of task t that sends nothing, keeps the rows and does not bring t
\* before a call.
LEMMA QuietStep ==
  ASSUME StartInv, NEW t \in Tasks, UNCHANGED <<sent, stored>>, ~BeforeCall(t)',
         \A c \in Cmds : ops[c].status # "none" => ops'[c].status # "none",
         \A u \in Tasks \ {t} : BeforeCall(u) => cmd[u] \in Cmds,
         \A u \in Tasks \ {t} :
           pc'[u] = pc[u] /\ evt'[u] = evt[u] /\ cmd'[u] = cmd[u]
  PROVE  StartInv'
BY DEF StartInv, BeforeCall, Announcing, Recorded

\* Every step keeps a command that is about to be sent recorded, unsent and
\* in the hands of one task.
LEMMA NextStartInv == TypeInv /\ StartInv /\ [Next]_vars => StartInv'
<1> SUFFICES ASSUME TypeInv, StartInv, [Next]_vars PROVE StartInv'
  OBVIOUS
<1> USE CommandAssumption DEF TypeInv, TypeOK, Shape, Row, StartInv, BeforeCall, Announcing, Recorded
<1>u. CASE UNCHANGED vars
  BY <1>u DEF vars
<1>1. ASSUME NEW t \in Tasks, CheckAnswer(t) PROVE StartInv'
  BY <1>1 DEF CheckAnswer, Say, Goto, durable, local, history
<1>2. ASSUME NEW t \in Tasks, Recheck(t) PROVE StartInv'
  <2>1. /\ UNCHANGED <<ops, stored, sent, cmd>>
        /\ \A u \in Tasks \ {t} : pc'[u] = pc[u] /\ evt'[u] = evt[u]
    BY <1>2 DEF Recheck, Say, Goto, durable
  <2>2. \/ pc'[t] \in {"answer", "create"}
        \/ pc'[t] = "record" /\ evt'[t] = "busy"
    BY <1>2 DEF Recheck, Say, Goto
  <2>3. \A u \in Tasks \ {t} : BeforeCall(u) => cmd[u] \in Cmds
    OBVIOUS
  <2>4. ~BeforeCall(t)'
    BY <2>2
  <2> QED
    BY <2>1, <2>3, <2>4, QuietStep
<1>3. ASSUME NEW t \in Tasks, Create(t) PROVE StartInv'
  <2>1. cmd[t] \in Cmds /\ ops[cmd[t]].status = "none"
    BY <1>3 DEF Create
  <2>2. /\ ops'[cmd[t]].status = "accepted"
        /\ \A c \in Cmds \ {cmd[t]} : ops'[c] = ops[c]
    BY <1>3, <2>1 DEF Create
  <2>3. sent[cmd[t]] = 0 /\ \A u \in Tasks : BeforeCall(u) => cmd[u] # cmd[t]
    BY <2>1
  <2>4. /\ pc' = [pc EXCEPT ![t] = "record"] /\ evt' = [evt EXCEPT ![t] = "accepted"]
        /\ UNCHANGED <<cmd, sent, stored>>
    BY <1>3 DEF Create, Say, Goto
  <2>5. \A u \in Tasks : BeforeCall(u)' => u = t \/ BeforeCall(u)
    BY <2>4
  <2>6. \A u \in Tasks : BeforeCall(u)' => ops'[cmd[u]].status # "none" /\ sent[cmd[u]] = 0
    <3>1. \A u \in Tasks : BeforeCall(u) =>
            /\ cmd[u] \in Cmds \ {cmd[t]}
            /\ ops[cmd[u]].status # "none" /\ sent[cmd[u]] = 0
      BY <2>3
    <3> HIDE DEF BeforeCall
    <3> QED
      BY <2>2, <2>3, <2>5, <3>1
  <2>7. \A u \in Tasks : BeforeCall(u)' /\ pc'[u] # "record" => stored[cmd[u]] # "none"
    BY <2>4, <2>5
  <2>8. \A u, w \in Tasks : BeforeCall(u)' /\ BeforeCall(w)' /\ cmd[u] = cmd[w] => u = w
    BY <2>3, <2>5
  <2>9. \A c \in Cmds : ops[c].status # "none" => ops'[c].status # "none"
    BY <2>2
  <2> HIDE DEF BeforeCall
  <2> QED
    BY <2>4, <2>6, <2>7, <2>8, <2>9
<1>4. ASSUME NEW t \in Tasks, Record(t) PROVE StartInv'
  BY <1>4 DEF Record, Goto, durable, local, history
<1>5. ASSUME NEW t \in Tasks, SendRaises(t) PROVE StartInv'
  BY <1>5 DEF SendRaises, Leave, Goto, durable, local, history
<1>6. ASSUME NEW t \in Tasks, Emit(t) PROVE StartInv'
  BY <1>6 DEF Emit, Say, Goto, durable, local, history
<1>7. ASSUME NEW t \in Tasks, Answer(t) PROVE StartInv'
  <2>1. \A c \in Cmds : ops[c].status # "none" => ops'[c].status # "none"
    BY <1>7 DEF Answer, durable
  <2>2. ~BeforeCall(t)'
    BY <1>7 DEF Answer, Say, Goto, Leave, durable
  <2>3. \A u \in Tasks \ {t} : pc'[u] = pc[u] /\ evt'[u] = evt[u] /\ cmd'[u] = cmd[u]
    BY <1>7 DEF Answer, Say, Goto, Leave, durable
  <2>4. \A u \in Tasks \ {t} : BeforeCall(u) => cmd[u] \in Cmds
    OBVIOUS
  <2> QED
    BY <1>7, <2>1, <2>2, <2>3, <2>4, QuietStep DEF Answer, durable
<1>8. ASSUME NEW t \in Tasks, CallSend(t) PROVE StartInv'
  BY <1>8 DEF CallSend, Goto, durable, local, history
<1>9. ASSUME NEW t \in Tasks, StartOk(t) PROVE StartInv'
  <2>1. \A c \in Cmds : ops[c].status # "none" => ops'[c].status # "none"
    <3>1. PICK s \in Answered :
             ops' = [ops EXCEPT ![cmd[t]].status = s, ![cmd[t]].pid = TRUE]
      BY <1>9 DEF StartOk
    <3> QED
      BY <3>1, StatusAssumption DEF Answered
  <2>2. ~BeforeCall(t)'
    BY <1>9 DEF StartOk, Say, Goto
  <2>3. \A u \in Tasks \ {t} : pc'[u] = pc[u] /\ evt'[u] = evt[u] /\ cmd'[u] = cmd[u]
    BY <1>9 DEF StartOk, Say, Goto
  <2>4. \A u \in Tasks \ {t} : BeforeCall(u) => cmd[u] \in Cmds
    OBVIOUS
  <2> QED
    BY <1>9, <2>1, <2>2, <2>3, <2>4, QuietStep DEF StartOk
<1>10. ASSUME NEW t \in Tasks, PosBusy(t) PROVE StartInv'
  <2>1. \A c \in Cmds : ops[c].status # "none" => ops'[c].status # "none"
    BY <1>10 DEF PosBusy, Conclude
  <2>2. ~BeforeCall(t)'
    BY <1>10 DEF PosBusy, Conclude, Say, Goto
  <2>3. \A u \in Tasks \ {t} : pc'[u] = pc[u] /\ evt'[u] = evt[u] /\ cmd'[u] = cmd[u]
    BY <1>10 DEF PosBusy, Conclude, Say, Goto
  <2>4. \A u \in Tasks \ {t} : BeforeCall(u) => cmd[u] \in Cmds
    OBVIOUS
  <2> QED
    BY <1>10, <2>1, <2>2, <2>3, <2>4, QuietStep DEF PosBusy, Conclude
<1>11. ASSUME NEW t \in Tasks, PosError(t) PROVE StartInv'
  <2>1. \A c \in Cmds : ops[c].status # "none" => ops'[c].status # "none"
    BY <1>11 DEF PosError, Conclude
  <2>2. ~BeforeCall(t)'
    BY <1>11 DEF PosError, Conclude, Say, Goto
  <2>3. \A u \in Tasks \ {t} : pc'[u] = pc[u] /\ evt'[u] = evt[u] /\ cmd'[u] = cmd[u]
    BY <1>11 DEF PosError, Conclude, Say, Goto
  <2>4. \A u \in Tasks \ {t} : BeforeCall(u) => cmd[u] \in Cmds
    OBVIOUS
  <2> QED
    BY <1>11, <2>1, <2>2, <2>3, <2>4, QuietStep DEF PosError, Conclude
<1>12. ASSUME NEW t \in Tasks, PosFinal(t) PROVE StartInv'
  <2>0. PICK s \in {"success", "fail"}, v \in {"completed", "failed"} :
           Conclude(t, s, ops[cmd[t]].err, v)
    BY <1>12 DEF PosFinal
  <2>1. \A c \in Cmds : ops[c].status # "none" => ops'[c].status # "none"
    BY <2>0 DEF Conclude
  <2>2. ~BeforeCall(t)'
    BY <1>12, <2>0 DEF PosFinal, Conclude, Say, Goto
  <2>3. \A u \in Tasks \ {t} : pc'[u] = pc[u] /\ evt'[u] = evt[u] /\ cmd'[u] = cmd[u]
    BY <1>12, <2>0 DEF PosFinal, Conclude, Say, Goto
  <2>4. \A u \in Tasks \ {t} : BeforeCall(u) => cmd[u] \in Cmds
    OBVIOUS
  <2> QED
    BY <1>12, <2>0, <2>1, <2>2, <2>3, <2>4, QuietStep DEF Conclude
<1>13. ASSUME NEW t \in Tasks, PollAgain(t) PROVE StartInv'
  <2>0. PICK s \in Answered, l \in {"emit", "poll"}, e \in {"wait", "unknown", "none"} :
           Status(t, s, l, e)
    BY <1>13, PolledOn
  <2>1. \A c \in Cmds : ops[c].status # "none" => ops'[c].status # "none"
    BY <2>0, StatusAssumption DEF Status, Answered
  <2>2. ~BeforeCall(t)'
    BY <1>13, <2>0 DEF PollAgain, Status, Say, Goto
  <2>3. \A u \in Tasks \ {t} : pc'[u] = pc[u] /\ evt'[u] = evt[u] /\ cmd'[u] = cmd[u]
    BY <2>0 DEF Status, Say, Goto
  <2>4. \A u \in Tasks \ {t} : BeforeCall(u) => cmd[u] \in Cmds
    OBVIOUS
  <2> QED
    BY <2>0, <2>1, <2>2, <2>3, <2>4, QuietStep DEF Status
<1>14. ASSUME NEW t \in Tasks, UnknownTimeout(t) PROVE StartInv'
  <2>1. \A c \in Cmds : ops[c].status # "none" => ops'[c].status # "none"
    BY <1>14 DEF UnknownTimeout, Conclude
  <2>2. ~BeforeCall(t)'
    BY <1>14 DEF UnknownTimeout, Conclude, Say, Goto
  <2>3. \A u \in Tasks \ {t} : pc'[u] = pc[u] /\ evt'[u] = evt[u] /\ cmd'[u] = cmd[u]
    BY <1>14 DEF UnknownTimeout, Conclude, Say, Goto
  <2>4. \A u \in Tasks \ {t} : BeforeCall(u) => cmd[u] \in Cmds
    OBVIOUS
  <2> QED
    BY <1>14, <2>1, <2>2, <2>3, <2>4, QuietStep DEF UnknownTimeout, Conclude
<1>15. ASSUME NEW t \in Tasks, UnknownNext(t) PROVE StartInv'
  BY <1>15 DEF UnknownNext, Goto, durable, local, history
<1>16. ASSUME NEW t \in Tasks, ActualizeAgain(t) PROVE StartInv'
  <2>0. PICK s \in Answered, l \in {"emit", "poll"}, e \in {"wait", "unknown", "none"} :
           Status(t, s, l, e)
    BY <1>16, PolledOn
  <2>1. \A c \in Cmds : ops[c].status # "none" => ops'[c].status # "none"
    BY <2>0, StatusAssumption DEF Status, Answered
  <2>2. ~BeforeCall(t)'
    BY <1>16, <2>0 DEF ActualizeAgain, Status, Say, Goto
  <2>3. \A u \in Tasks \ {t} : pc'[u] = pc[u] /\ evt'[u] = evt[u] /\ cmd'[u] = cmd[u]
    BY <2>0 DEF Status, Say, Goto
  <2>4. \A u \in Tasks \ {t} : BeforeCall(u) => cmd[u] \in Cmds
    OBVIOUS
  <2> QED
    BY <2>0, <2>1, <2>2, <2>3, <2>4, QuietStep DEF Status
<1>17. ASSUME NEW t \in Tasks, ResumeOrphan(t) PROVE StartInv'
  <2>0. PICK c \in todo[t] :
           /\ ops' = [ops EXCEPT ![c].status = "manual_review", ![c].err = "unknown_timeout"]
           /\ cmd' = [cmd EXCEPT ![t] = c]
    BY <1>17 DEF ResumeOrphan
  <2>1. \A d \in Cmds : ops[d].status # "none" => ops'[d].status # "none"
    BY <2>0
  <2>2. ~BeforeCall(t)'
    BY <1>17, <2>0 DEF ResumeOrphan, Say, Goto
  <2>3. \A u \in Tasks \ {t} : pc'[u] = pc[u] /\ evt'[u] = evt[u] /\ cmd'[u] = cmd[u]
    BY <1>17, <2>0 DEF ResumeOrphan, Say, Goto
  <2>4. \A u \in Tasks \ {t} : BeforeCall(u) => cmd[u] \in Cmds
    OBVIOUS
  <2> QED
    BY <1>17, <2>0, <2>1, <2>2, <2>3, <2>4, QuietStep DEF ResumeOrphan
<1>18. ASSUME NEW t \in Tasks, ResumeOrphansDone(t) PROVE StartInv'
  BY <1>18 DEF ResumeOrphansDone, Goto, durable, local, history
<1>19. ASSUME NEW t \in Tasks, ResumePoll(t) PROVE StartInv'
  BY <1>19 DEF ResumePoll, Goto, durable, local, history
<1>20. ASSUME NEW t \in Tasks, ResumeDone(t) PROVE StartInv'
  BY <1>20 DEF ResumeDone, Leave, Goto, durable, local, history
<1>21. ASSUME NEW t \in Tasks, CreateCollides(t) PROVE StartInv'
  BY <1>21 DEF CreateCollides, Dies, durable, local, history
<1>22. ASSUME NEW t \in Tasks, LinkUp(t) PROVE StartInv'
  BY <1>22 DEF LinkUp, Goto, durable, local, history
<1>23. ASSUME NEW t \in Tasks, NEW c \in Cmds, ReceiveKnown(t, c) PROVE StartInv'
  BY <1>23 DEF ReceiveKnown, CanReceive, Begin, Say, Goto, durable, local, history
<1>24. ASSUME NEW t \in Tasks, NEW c \in Cmds, ReceiveBusy(t, c) PROVE StartInv'
  BY <1>24 DEF ReceiveBusy, CanReceive, Begin, Say, Goto, durable, local, history
<1>25. ASSUME NEW t \in Tasks, NEW c \in Cmds, ReceiveStart(t, c) PROVE StartInv'
  BY <1>25 DEF ReceiveStart, CanReceive, Begin, Goto, durable, local, history
<1>26. ASSUME NEW t \in Tasks, NEW c \in Cmds, ReceiveCheck(t, c) PROVE StartInv'
  BY <1>26 DEF ReceiveCheck, CanReceive, Begin, Goto, durable, local, history
<1>27. ASSUME NEW p \in Procs, LinkLost(p) PROVE StartInv'
  BY <1>27 DEF LinkLost, durable, local, history
<1>28. ASSUME NEW p \in Procs, LinkEnd(p) PROVE StartInv'
  BY <1>28 DEF LinkEnd, durable, local, history
<1>29. ASSUME NEW p \in Procs, Crash(p) PROVE StartInv'
  BY <1>29 DEF Crash, Dies, durable, local, history
<1>30. ASSUME NEW c \in Cmds, PosReceive(c) PROVE StartInv'
  BY <1>30 DEF PosReceive, durable, local, history
<1>31. ASSUME NEW c \in Cmds, PosDecide(c) PROVE StartInv'
  BY <1>31 DEF PosDecide, durable, local, history
<1> QED
  BY <1>u, <1>1, <1>2, <1>3, <1>4, <1>5, <1>6, <1>7, <1>8, <1>9, <1>10, <1>11, <1>12, <1>13, <1>14, <1>15, <1>16, <1>17, <1>18, <1>19, <1>20, <1>21, <1>22, <1>23, <1>24, <1>25, <1>26, <1>27, <1>28, <1>29, <1>30, <1>31, NextActions

\* Every reachable state has the declared types, and the labels fit together.
THEOREM TypeCorrect == Spec => []TypeOK
<1>1. TypeInv /\ [Next]_vars => TypeInv'
  BY NextTypeInv
<1>2. TypeInv => TypeOK
  BY DEF TypeInv
<1> QED
  BY InitTypeInv, <1>1, <1>2, PTL DEF Spec

\* The two invariants together, in every reachable state.
LEMMA StartInvariant == Spec => [](TypeInv /\ StartInv)
<1>1. Init => TypeInv /\ StartInv
  BY InitTypeInv, InitStartInv
<1>2. TypeInv /\ StartInv /\ [Next]_vars => (TypeInv /\ StartInv)'
  BY NextTypeInv, NextStartInv
<1> QED
  BY <1>1, <1>2, PTL DEF Spec

\* Whatever is duplicated, re-sent, resumed or crashes, in however many
\* processes, /payment or /refund is called at most once for a commandId.
THEOREM StartedOnce == Spec => []AtMostOneStart
<1>1. TypeInv /\ StartInv => AtMostOneStart
  BY DEF StartInv, AtMostOneStart
<1> QED
  BY StartInvariant, <1>1, PTL

\* A command that reached the terminal has its row and its response stored.
THEOREM RecordedFirst == Spec => []RecordedBeforeSent
<1>1. TypeInv /\ StartInv => RecordedBeforeSent
  BY DEF StartInv, RecordedBeforeSent, Recorded
<1> QED
  BY StartInvariant, <1>1, PTL

(***************************************************************************)
(* One process: at most one operation is active, and an operation that has *)
(* ended stays as it is.  The invariant says who may touch a row: the task *)
(* that holds the lock, for the operation it works on, or a resume, which  *)
(* runs alone.                                                             *)
(***************************************************************************)
OneProcessOnly == \A t, u \in Tasks : ProcOf[t] = ProcOf[u]

InOperation(t) ==
  \/ pc[t] \in {"emit", "call", "calling", "poll", "unknown", "actualize"}
  \/ pc[t] = "record" /\ evt[t] = "accepted"

\* The statuses of an operation that has not ended.
Unended == ActiveStatuses \cup OtherStatuses

WorkInv ==
  /\ \A t \in Tasks :
       InOperation(t) \/ pc[t] \in {"locked", "create"} => lock[ProcOf[t]] = t
  /\ \A t \in Tasks : InOperation(t) =>
       /\ ops[cmd[t]].status \in Unended
       /\ \A c \in Cmds : ops[c].status \in ActiveStatuses => c = cmd[t]
  /\ \A t \in Tasks : pc[t] = "create" =>
       \A c \in Cmds : ops[c].status \notin ActiveStatuses
  /\ \A c, d \in Cmds :
       ops[c].status \in ActiveStatuses /\ ops[d].status \in ActiveStatuses => c = d

ResumeInv ==
  /\ \A t, u \in Tasks : job[t] \in {"orphans", "incomplete"} /\ u # t => pc[u] = "idle"
  /\ \A t \in Tasks : job[t] = "orphans" => ~InOperation(t) /\ pc[t] # "create"
  /\ \A t \in Tasks, c \in Cmds : c \in todo[t] =>
       /\ ops[c].status \in ActiveStatuses
       /\ job[t] \in {"orphans", "incomplete"}
       /\ InOperation(t) => c # cmd[t]
  /\ \A t \in Tasks : pc[t] \in {"orphans", "incomplete"} => job[t] = pc[t]
  /\ \A t \in Tasks : pc[t] \in {"locked", "create"} => job[t] = "handle"

\* At first no task works and no resume is under way.
LEMMA InitWorkInv == Init => WorkInv /\ ResumeInv
BY DEF Init, WorkInv, ResumeInv, NoRow, InOperation

\* A task that steps out of its operation, or was in none, disturbs nobody.
LEMMA StepsOut ==
  ASSUME WorkInv, ResumeInv, NEW t \in Tasks, UNCHANGED ops,
         pc[t] # "idle", ~InOperation(t)', pc'[t] \notin {"locked", "create"},
         pc'[t] \in {"orphans", "incomplete"} => job'[t] = pc'[t],
         job'[t] = job[t] \/ (job'[t] = "none" /\ todo'[t] = {}),
         todo'[t] \subseteq todo[t],
         \A u \in Tasks \ {t} : lock[ProcOf[u]] = u => lock'[ProcOf[u]] = u,
         \A u \in Tasks \ {t} : /\ pc'[u] = pc[u] /\ evt'[u] = evt[u] /\ cmd'[u] = cmd[u]
                                /\ job'[u] = job[u] /\ todo'[u] = todo[u]
  PROVE  WorkInv' /\ ResumeInv'
<1>1. \A u \in Tasks : InOperation(u)' => u # t /\ InOperation(u)
  BY DEF InOperation
<1>2. WorkInv'
  BY <1>1 DEF WorkInv
<1>3. ResumeInv'
  BY <1>1 DEF ResumeInv
<1> QED
  BY <1>2, <1>3

\* A new status of the operation that a task goes on with: the task holds the lock,
\* so no other is in an operation.
LEMMA GoesOn ==
  ASSUME OneProcessOnly, TypeInv, WorkInv, ResumeInv, NEW t \in Tasks,
         InOperation(t), InOperation(t)', ops'[cmd[t]].status \in Unended,
         \A d \in Cmds \ {cmd[t]} : ops'[d] = ops[d],
         UNCHANGED <<cmd, job, todo, lock>>,
         \A u \in Tasks \ {t} : pc'[u] = pc[u] /\ evt'[u] = evt[u]
  PROVE  WorkInv' /\ ResumeInv'
<1>1. cmd[t] \in Cmds /\ pc[t] # "idle"
  BY DEF InOperation, TypeInv, Shape
<1>2. \A u \in Tasks \ {t} : ~InOperation(u) /\ pc[u] \notin {"locked", "create"}
  BY DEF WorkInv, OneProcessOnly
<1>3. \A u \in Tasks : InOperation(u)' => u = t
  BY <1>2 DEF InOperation
<1>4. pc'[t] \notin {"locked", "create", "orphans", "incomplete", "idle"}
  BY DEF InOperation
<1>5. \A c \in Cmds : ops'[c].status \in ActiveStatuses => c = cmd[t]
  BY <1>1 DEF WorkInv
<1>6. WorkInv'
  BY <1>1, <1>2, <1>3, <1>4, <1>5 DEF WorkInv
<1>7. \A u \in Tasks \ {t} : job[u] \notin {"orphans", "incomplete"}
  BY <1>1 DEF ResumeInv
<1>8. ResumeInv'
  BY <1>1, <1>2, <1>3, <1>4, <1>7 DEF ResumeInv, TypeInv, TypeOK
<1> QED
  BY <1>6, <1>8

\* In one process every step keeps the lock with the task that works, and the
\* one active operation with it.
LEMMA NextWorkInv ==
  ASSUME OneProcessOnly, TypeInv, WorkInv, ResumeInv, [Next]_vars
  PROVE  WorkInv' /\ ResumeInv'
<1> USE CommandAssumption, ProcessAssumption
        DEF TypeInv, TypeOK, Shape, Row, WorkInv, ResumeInv, InOperation, OneProcessOnly
<1>u. CASE UNCHANGED vars
  BY <1>u DEF vars
<1>1. ASSUME NEW t \in Tasks, CheckAnswer(t) PROVE WorkInv' /\ ResumeInv'
  BY <1>1 DEF CheckAnswer, Say, Goto, durable, local, history
<1>2. ASSUME NEW t \in Tasks, Recheck(t) PROVE WorkInv' /\ ResumeInv'
  <2>1. CASE pc'[t] = "answer"
    <3>1. ~InOperation(t)'
      BY <2>1
    <3>2. /\ UNCHANGED <<ops, job, todo, lock, cmd>> /\ pc[t] = "locked"
          /\ \A u \in Tasks \ {t} : pc'[u] = pc[u] /\ evt'[u] = evt[u]
      BY <1>2, <2>1 DEF Recheck, Say, Goto, durable
    <3> HIDE DEF WorkInv, ResumeInv, InOperation
    <3> QED
      BY <2>1, <3>1, <3>2, StepsOut
  <2>2. CASE pc'[t] = "record"
    <3>1. evt' = [evt EXCEPT ![t] = "busy"] /\ pc' = [pc EXCEPT ![t] = "record"]
      BY <1>2, <2>2 DEF Recheck, Say, Goto
    <3> QED
      BY <1>2, <3>1 DEF Recheck, durable, local, history
  <2>3. CASE pc'[t] = "create"
    <3>1. /\ ActiveCmds = {} /\ UNCHANGED evt
          /\ pc' = [pc EXCEPT ![t] = "create"]
      BY <1>2, <2>3 DEF Recheck, Say, Goto
    <3>2. \A c \in Cmds : ops[c].status \notin ActiveStatuses
      BY <3>1 DEF ActiveCmds, Active
    <3> QED
      BY <1>2, <3>1, <3>2 DEF Recheck, durable, local, history
  <2> QED
    BY <1>2, <2>1, <2>2, <2>3 DEF Recheck, Say, Goto
<1>3. ASSUME NEW t \in Tasks, Create(t) PROVE WorkInv' /\ ResumeInv'
  <2>1. /\ cmd[t] \in Cmds /\ ops'[cmd[t]].status \in Unended
        /\ \A d \in Cmds \ {cmd[t]} : ops'[d] = ops[d]
    BY <1>3 DEF Create, Unended
  <2>2. \A c \in Cmds : ops'[c].status \in ActiveStatuses => c = cmd[t]
    BY <1>3, <2>1 DEF Create
  <2>3. /\ pc' = [pc EXCEPT ![t] = "record"] /\ evt' = [evt EXCEPT ![t] = "accepted"]
        /\ UNCHANGED <<cmd, job, todo, lock>> /\ pc[t] = "create"
    BY <1>3 DEF Create, Say, Goto
  <2>4. \A u \in Tasks \ {t} : ~InOperation(u) /\ pc[u] \notin {"locked", "create"}
    BY <2>3
  <2>5. WorkInv'
    BY <2>1, <2>2, <2>3, <2>4
  <2>6. \A u \in Tasks : todo[u] = {}
    BY <2>3
  <2>7. ResumeInv'
    BY <2>1, <2>3, <2>4, <2>6
  <2> QED
    BY <2>5, <2>7
<1>4. ASSUME NEW t \in Tasks, Record(t) PROVE WorkInv' /\ ResumeInv'
  BY <1>4 DEF Record, Goto, durable, local, history
<1>5. ASSUME NEW t \in Tasks, SendRaises(t) PROVE WorkInv' /\ ResumeInv'
  BY <1>5 DEF SendRaises, Leave, Goto, durable, local, history, Released, TaskLock
<1>6. ASSUME NEW t \in Tasks, Emit(t) PROVE WorkInv' /\ ResumeInv'
  BY <1>6 DEF Emit, Say, Goto, durable, local, history
<1>7. ASSUME NEW t \in Tasks, Answer(t) PROVE WorkInv' /\ ResumeInv'
  <2>0. pc'[t] \in {"idle", "orphans", "incomplete"}
    BY <1>7 DEF Answer, Say, Leave, Goto, Jobs
  <2>1. ~InOperation(t)'
    BY <2>0 DEF InOperation
  <2>2. /\ pc'[t] \notin {"locked", "create"}
        /\ pc'[t] \in {"orphans", "incomplete"} => job'[t] = pc'[t]
        /\ job'[t] = job[t] \/ (job'[t] = "none" /\ todo'[t] = {})
    BY <1>7 DEF Answer, Say, Leave, Goto
  <2>3. /\ todo'[t] \subseteq todo[t] /\ UNCHANGED ops
        /\ \A u \in Tasks \ {t} : lock[ProcOf[u]] = u => lock'[ProcOf[u]] = u
    BY <1>7 DEF Answer, Leave, Released, TaskLock, durable
  <2>4. \A u \in Tasks \ {t} : /\ pc'[u] = pc[u] /\ evt'[u] = evt[u] /\ cmd'[u] = cmd[u]
                               /\ job'[u] = job[u] /\ todo'[u] = todo[u]
    BY <1>7 DEF Answer, Say, Leave, Goto
  <2> QED
    BY <1>7, <2>1, <2>2, <2>3, <2>4, StepsOut DEF Answer
<1>8. ASSUME NEW t \in Tasks, CallSend(t) PROVE WorkInv' /\ ResumeInv'
  BY <1>8 DEF CallSend, Goto, durable, local, history
<1>9. ASSUME NEW t \in Tasks, StartOk(t) PROVE WorkInv' /\ ResumeInv'
  <2>1. PICK s \in Answered :
           ops' = [ops EXCEPT ![cmd[t]].status = s, ![cmd[t]].pid = TRUE]
    BY <1>9 DEF StartOk
  <2>2. InOperation(t) /\ InOperation(t)' /\ cmd[t] \in Cmds
    BY <1>9 DEF StartOk, Say, Goto
  <2>3. /\ ops'[cmd[t]].status \in Unended
        /\ \A d \in Cmds \ {cmd[t]} : ops'[d] = ops[d]
    BY <2>1, <2>2 DEF Answered, Unended
  <2>4. /\ UNCHANGED <<cmd, job, todo, lock>>
        /\ \A u \in Tasks \ {t} : pc'[u] = pc[u] /\ evt'[u] = evt[u]
    BY <1>9 DEF StartOk, Say, Goto
  <2> HIDE DEF TypeInv, WorkInv, ResumeInv, InOperation, OneProcessOnly
  <2> QED
    BY <2>2, <2>3, <2>4, GoesOn
<1>10. ASSUME NEW t \in Tasks, PosBusy(t) PROVE WorkInv' /\ ResumeInv'
  BY <1>10 DEF PosBusy, Conclude, Say, Goto, durable, local, history
<1>11. ASSUME NEW t \in Tasks, PosError(t) PROVE WorkInv' /\ ResumeInv'
  BY <1>11 DEF PosError, Conclude, Say, Goto, durable, local, history
<1>12. ASSUME NEW t \in Tasks, PosFinal(t) PROVE WorkInv' /\ ResumeInv'
  <2>1. PICK s \in {"success", "fail"}, v \in {"completed", "failed"} :
           Conclude(t, s, ops[cmd[t]].err, v)
    BY <1>12 DEF PosFinal
  <2>0. cmd[t] \in Cmds /\ InOperation(t)
    BY <1>12 DEF PosFinal
  <2>00. ops' = [ops EXCEPT ![cmd[t]].status = s, ![cmd[t]].err = ops[cmd[t]].err]
    BY <2>1 DEF Conclude
  <2>2. /\ cmd[t] \in Cmds /\ InOperation(t)
        /\ \A c \in Cmds : ops'[c].status \in ActiveStatuses =>
             c # cmd[t] /\ ops[c].status \in ActiveStatuses
        /\ \A c \in Cmds : c # cmd[t] => ops'[c] = ops[c]
    <3>1. \A c \in Cmds : c # cmd[t] => ops'[c] = ops[c]
      BY <2>0, <2>00
    <3>2. ops'[cmd[t]].status = s
      BY <2>0, <2>00
    <3> QED
      BY <2>0, <3>1, <3>2
  <2>3. pc' = [pc EXCEPT ![t] = "record"] /\ evt' = [evt EXCEPT ![t] = v]
    BY <2>1 DEF Conclude, Say, Goto
  <2> QED
    <3>1. UNCHANGED <<cmd, job, todo, lock>>
      BY <2>1 DEF Conclude
    <3>2. \A u \in Tasks : InOperation(u)' => u # t /\ InOperation(u)
      BY <2>3
    <3>3. \A u \in Tasks \ {t} : pc'[u] = pc[u] /\ (InOperation(u) => cmd[u] # cmd[t])
      BY <2>0, <2>2, <2>3
    <3>4. WorkInv'
      BY <2>0, <2>2, <2>3, <3>1, <3>2, <3>3
    <3>5. ResumeInv'
      BY <2>0, <2>2, <2>3, <3>1, <3>2, <3>3
    <3> QED
      BY <3>4, <3>5
<1>13. ASSUME NEW t \in Tasks, PollAgain(t) PROVE WorkInv' /\ ResumeInv'
  <2>1. PICK s \in Answered, l \in {"emit", "poll"}, e \in {"wait", "unknown", "none"} :
           Status(t, s, l, e)
    BY <1>13, PolledOn
  <2>a. pc[t] = "poll" /\ pc'[t] = l /\ evt'[t] = e /\ cmd' = cmd
    BY <1>13, <2>1 DEF PollAgain, Status, Say, Goto
  <2>2. InOperation(t) /\ InOperation(t)' /\ cmd[t] \in Cmds
    BY <2>a
  <2>3. /\ ops'[cmd[t]].status \in Unended
        /\ \A d \in Cmds \ {cmd[t]} : ops'[d] = ops[d]
    BY <2>1, <2>2 DEF Status, Answered, Unended
  <2>4. /\ UNCHANGED <<cmd, job, todo, lock>>
        /\ \A u \in Tasks \ {t} : pc'[u] = pc[u] /\ evt'[u] = evt[u]
    BY <2>1 DEF Status, Say, Goto
  <2> HIDE DEF TypeInv, WorkInv, ResumeInv, InOperation, OneProcessOnly
  <2> QED
    BY <2>2, <2>3, <2>4, GoesOn
<1>14. ASSUME NEW t \in Tasks, UnknownTimeout(t) PROVE WorkInv' /\ ResumeInv'
  BY <1>14 DEF UnknownTimeout, Conclude, Say, Goto, durable, local, history
<1>15. ASSUME NEW t \in Tasks, UnknownNext(t) PROVE WorkInv' /\ ResumeInv'
  BY <1>15 DEF UnknownNext, Goto, durable, local, history
<1>16. ASSUME NEW t \in Tasks, ActualizeAgain(t) PROVE WorkInv' /\ ResumeInv'
  <2>1. PICK s \in Answered, l \in {"emit", "poll"}, e \in {"wait", "unknown", "none"} :
           Status(t, s, l, e)
    BY <1>16, PolledOn
  <2>2. InOperation(t) /\ InOperation(t)' /\ cmd[t] \in Cmds
    BY <1>16, <2>1 DEF ActualizeAgain, Status, Say, Goto
  <2>3. /\ ops'[cmd[t]].status \in Unended
        /\ \A d \in Cmds \ {cmd[t]} : ops'[d] = ops[d]
    BY <2>1, <2>2 DEF Status, Answered, Unended
  <2>4. /\ UNCHANGED <<cmd, job, todo, lock>>
        /\ \A u \in Tasks \ {t} : pc'[u] = pc[u] /\ evt'[u] = evt[u]
    BY <2>1 DEF Status, Say, Goto
  <2> HIDE DEF TypeInv, WorkInv, ResumeInv, InOperation, OneProcessOnly
  <2> QED
    BY <2>2, <2>3, <2>4, GoesOn
<1>17. ASSUME NEW t \in Tasks, ResumeOrphan(t) PROVE WorkInv' /\ ResumeInv'
  BY <1>17 DEF ResumeOrphan, Say, Goto, durable, local, history
<1>18. ASSUME NEW t \in Tasks, ResumeOrphansDone(t) PROVE WorkInv' /\ ResumeInv'
  BY <1>18 DEF ResumeOrphansDone, Goto, durable, local, history, Incomplete, ActiveCmds, Active
<1>19. ASSUME NEW t \in Tasks, ResumePoll(t) PROVE WorkInv' /\ ResumeInv'
  BY <1>19 DEF ResumePoll, Goto, durable, local, history, TaskLock, Unended
<1>20. ASSUME NEW t \in Tasks, ResumeDone(t) PROVE WorkInv' /\ ResumeInv'
  BY <1>20 DEF ResumeDone, Leave, Goto, durable, local, history, Released, TaskLock
<1>21. ASSUME NEW t \in Tasks, CreateCollides(t) PROVE WorkInv' /\ ResumeInv'
  BY <1>21 DEF CreateCollides, Dies, durable, local, history
<1>22. ASSUME NEW t \in Tasks, LinkUp(t) PROVE WorkInv' /\ ResumeInv'
  BY <1>22 DEF LinkUp, Goto, durable, local, history, WithoutProcess, Resuming, Fellows
<1>23. ASSUME NEW t \in Tasks, NEW c \in Cmds, ReceiveKnown(t, c) PROVE WorkInv' /\ ResumeInv'
  BY <1>23 DEF ReceiveKnown, CanReceive, Begin, Say, Goto, durable, local, history, Resuming
<1>24. ASSUME NEW t \in Tasks, NEW c \in Cmds, ReceiveBusy(t, c) PROVE WorkInv' /\ ResumeInv'
  BY <1>24 DEF ReceiveBusy, CanReceive, Begin, Say, Goto, durable, local, history, Resuming
<1>25. ASSUME NEW t \in Tasks, NEW c \in Cmds, ReceiveStart(t, c) PROVE WorkInv' /\ ResumeInv'
  BY <1>25 DEF ReceiveStart, CanReceive, Begin, Goto, durable, local, history, ActiveCmds, Active, Resuming, TaskLock
<1>26. ASSUME NEW t \in Tasks, NEW c \in Cmds, ReceiveCheck(t, c) PROVE WorkInv' /\ ResumeInv'
  BY <1>26 DEF ReceiveCheck, CanReceive, Begin, Goto, durable, local, history, Resuming
<1>27. ASSUME NEW p \in Procs, LinkLost(p) PROVE WorkInv' /\ ResumeInv'
  BY <1>27 DEF LinkLost, durable, local, history
<1>28. ASSUME NEW p \in Procs, LinkEnd(p) PROVE WorkInv' /\ ResumeInv'
  BY <1>28 DEF LinkEnd, durable, local, history
<1>29. ASSUME NEW p \in Procs, Crash(p) PROVE WorkInv' /\ ResumeInv'
  BY <1>29 DEF Crash, Dies, durable, local, history
<1>30. ASSUME NEW c \in Cmds, PosReceive(c) PROVE WorkInv' /\ ResumeInv'
  BY <1>30 DEF PosReceive, durable, local, history
<1>31. ASSUME NEW c \in Cmds, PosDecide(c) PROVE WorkInv' /\ ResumeInv'
  BY <1>31 DEF PosDecide, durable, local, history
<1> QED
  BY <1>u, <1>1, <1>2, <1>3, <1>4, <1>5, <1>6, <1>7, <1>8, <1>9, <1>10, <1>11, <1>12, <1>13, <1>14, <1>15, <1>16, <1>17, <1>18, <1>19, <1>20, <1>21, <1>22, <1>23, <1>24, <1>25, <1>26, <1>27, <1>28, <1>29, <1>30, <1>31, NextActions

\* With one process, no interleaving of its handlers with a resume, and no
\* crash or reconnect, leaves two operations active.
THEOREM OnlyOneActive == ASSUME OneProcessOnly PROVE Spec => []SingleActive
<1>1. Init => TypeInv /\ WorkInv /\ ResumeInv
  BY InitTypeInv, InitWorkInv
<1>2. TypeInv /\ WorkInv /\ ResumeInv /\ [Next]_vars => (TypeInv /\ WorkInv /\ ResumeInv)'
  BY OneProcessOnly, NextTypeInv, NextWorkInv
<1>3. TypeInv /\ WorkInv /\ ResumeInv => SingleActive
  BY DEF WorkInv, SingleActive, Active
<1> QED
  BY <1>1, <1>2, <1>3, PTL DEF Spec

\* A step changes at most one row, and not one that has ended.
LEMMA RowChange ==
  ASSUME TypeInv, WorkInv, ResumeInv, Next
  PROVE  \/ UNCHANGED ops
         \/ \E c \in Cmds :
              /\ ops[c].status \notin EndStatuses
              /\ \A d \in Cmds \ {c} : ops'[d] = ops[d]
<1> DEFINE Goal == \/ UNCHANGED ops
                   \/ \E c \in Cmds :
                        /\ ops[c].status \notin EndStatuses
                        /\ \A d \in Cmds \ {c} : ops'[d] = ops[d]
<1> USE DEF TypeInv, TypeOK, durable
<1>1. ASSUME NEW t \in Tasks, Create(t) PROVE Goal
  <2>1. cmd[t] \in Cmds /\ ops[cmd[t]].status = "none"
    BY <1>1 DEF Create, Shape
  <2> QED
    BY <1>1, <2>1 DEF Create
<1>2. ASSUME NEW t \in Tasks, InOperation(t),
             \A d \in Cmds \ {cmd[t]} : ops'[d] = ops[d]
      PROVE  Goal
  <2>1. cmd[t] \in Cmds
    BY <1>2 DEF InOperation, Shape
  <2>2. ops[cmd[t]].status \notin EndStatuses
    BY <1>2, StatusAssumption DEF WorkInv, Unended
  <2> QED
    BY <1>2, <2>1, <2>2
<1>3. ASSUME NEW t \in Tasks,
             StartOk(t) \/ PosBusy(t) \/ PosError(t) \/ PosFinal(t)
               \/ PollAgain(t) \/ UnknownTimeout(t) \/ ActualizeAgain(t)
      PROVE  Goal
  <2>1. InOperation(t)
    BY <1>3 DEF StartOk, PosBusy, PosError, PosFinal, PollAgain, UnknownTimeout,
                ActualizeAgain, InOperation
  <2>2. \A d \in Cmds \ {cmd[t]} : ops'[d] = ops[d]
    <3>1. CASE StartOk(t)
      BY <3>1 DEF StartOk
    <3>2. CASE PosBusy(t) \/ PosError(t) \/ UnknownTimeout(t)
      BY <3>2 DEF PosBusy, PosError, UnknownTimeout, Conclude
    <3>3. CASE PosFinal(t)
      BY <3>3 DEF PosFinal, Conclude
    <3>4. CASE PollAgain(t)
      BY <3>4 DEF PollAgain, Status
    <3>5. CASE ActualizeAgain(t)
      BY <3>5 DEF ActualizeAgain, Status
    <3> QED
      BY <1>3, <3>1, <3>2, <3>3, <3>4, <3>5
  <2> QED
    BY <1>2, <2>1, <2>2
<1>4. ASSUME NEW t \in Tasks, ResumeOrphan(t) PROVE Goal
  <2>1. PICK c \in todo[t] :
           ops' = [ops EXCEPT ![c].status = "manual_review", ![c].err = "unknown_timeout"]
    BY <1>4 DEF ResumeOrphan
  <2>2. c \in Cmds
    OBVIOUS
  <2>3. ops[c].status \notin EndStatuses
    BY <2>2 DEF ResumeInv
  <2> QED
    BY <2>1, <2>2, <2>3
<1>5. ASSUME NEW t \in Tasks,
             \/ CheckAnswer(t) \/ Recheck(t) \/ Record(t) \/ SendRaises(t) \/ Emit(t)
             \/ Answer(t) \/ CallSend(t) \/ UnknownNext(t) \/ ResumeOrphansDone(t)
             \/ ResumePoll(t) \/ ResumeDone(t) \/ CreateCollides(t) \/ LinkUp(t)
      PROVE  Goal
  BY <1>5 DEF CheckAnswer, Recheck, Record, SendRaises, Emit, Answer, CallSend, UnknownNext,
              ResumeOrphansDone, ResumePoll, ResumeDone, CreateCollides, LinkUp, Dies
<1>6. ASSUME NEW t \in Tasks, NEW c \in Cmds,
             ReceiveKnown(t, c) \/ ReceiveBusy(t, c) \/ ReceiveStart(t, c) \/ ReceiveCheck(t, c)
      PROVE  Goal
  BY <1>6 DEF ReceiveKnown, ReceiveBusy, ReceiveStart, ReceiveCheck, Begin
<1>7. ASSUME NEW q \in Procs, LinkLost(q) \/ LinkEnd(q) \/ Crash(q) PROVE Goal
  BY <1>7 DEF LinkLost, LinkEnd, Crash, Dies
<1>8. ASSUME NEW c \in Cmds, PosReceive(c) \/ PosDecide(c) PROVE Goal
  BY <1>8 DEF PosReceive, PosDecide
<1> QED
  BY <1>1, <1>3, <1>4, <1>5, <1>6, <1>7, <1>8, NextActions

\* With one process an operation that has ended keeps its row for good: no
\* later answer, resume or duplicate changes the outcome.
THEOREM OutcomeStays == ASSUME OneProcessOnly PROVE Spec => FinalIsFinal
<1>1. Init => TypeInv /\ WorkInv /\ ResumeInv
  BY InitTypeInv, InitWorkInv
<1>2. TypeInv /\ WorkInv /\ ResumeInv /\ [Next]_vars => (TypeInv /\ WorkInv /\ ResumeInv)'
  BY OneProcessOnly, NextTypeInv, NextWorkInv
<1> DEFINE Keep == \A c \in Cmds : ops[c].status \in EndStatuses => ops'[c] = ops[c]
<1>3. TypeInv /\ WorkInv /\ ResumeInv /\ [Next]_vars => [Keep]_vars
  BY RowChange DEF TypeInv, TypeOK, vars
<1> QED
  BY <1>1, <1>2, <1>3, PTL DEF Spec, FinalIsFinal
=============================================================================
