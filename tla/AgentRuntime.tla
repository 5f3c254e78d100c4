---------------------------- MODULE AgentRuntime -----------------------------
(***************************************************************************)
(* AgentRuntime (desktop/runtime.py): the runtime thread that builds the   *)
(* Application, runs it on an event loop of its own and tears it down, and *)
(* the actions that the GUI thread submits to that loop without a lock.    *)
(* RunLoop is CrmClient.run, which the thread awaits.                      *)
(***************************************************************************)
EXTENDS RunLoop

CONSTANT Checks   \* the actions that only ask the terminal, the CRM or the database

Actions == Checks \cup {"reconnect_crm", "stop"}

ASSUME ChecksAssumption == "reconnect_crm" \notin Checks /\ "stop" \notin Checks

VARIABLES
  thread,   \* where _thread_main is
  db,       \* the Application's database; "none" while _application is None
  act       \* the stage of each action

runtimeVars == <<thread, db, act, at, stop>>

Threads == {"none", "spawned", "booting", "running", "closing", "finishing",
            "draining", "closed", "ended"}

\* held: the GUI thread has read _loop and _application, and goes on to use them;
\* posted, late: a callback of the loop, late if posted after the main task's end;
\* task, cancelled: a task; idle: answered, or not asked; lost: never answered.
Stages == {"idle", "held", "posted", "late", "task", "cancelled", "lost"}

RuntimeTypeOK ==
  /\ LoopTypeOK
  /\ thread \in Threads
  /\ db \in {"none", "open", "shut"}
  /\ act \in [Actions -> Stages]

Idle == [a \in Actions |-> "idle"]

RuntimeInit == LoopInit /\ thread = "none" /\ db = "none" /\ act = Idle

-----------------------------------------------------------------------------
(***************************************************************************)
(* The runtime thread.                                                     *)
(***************************************************************************)
PublishLoop ==
  /\ thread = "spawned" /\ thread' = "booting"
  /\ UNCHANGED <<db, act, loopVars>>

\* Settings, Application and the first step of run(), without an await.
BootOk ==
  /\ thread = "booting" /\ thread' = "running"
  /\ db' = "open" /\ Begin
  /\ UNCHANGED act

BootFails ==
  /\ thread = "booting" /\ thread' = "finishing"
  /\ UNCHANGED <<db, act, loopVars>>

\* While run() is awaited.
Core(step) ==
  /\ thread = "running" /\ step
  /\ UNCHANGED <<thread, db, act>>

\* run() returns or raises; Application.close begins with crm.aclose.
RunEnds ==
  /\ thread = "running" /\ at \in {"over", "dead"}
  /\ thread' = "closing" /\ stop' = TRUE
  /\ UNCHANGED <<db, act, at>>

CloseDatabase ==
  /\ thread = "closing" /\ thread' = "finishing" /\ db' = "shut"
  /\ UNCHANGED <<act, loopVars>>

\* The main task has ended.  What was posted before is a task by now: the loop
\* ends the iteration it is in; all tasks are cancelled.
Drain ==
  /\ thread = "finishing" /\ thread' = "draining"
  /\ \A a \in Actions : act[a] # "posted"
  /\ act' = [a \in Actions |-> IF act[a] = "task" THEN "cancelled" ELSE act[a]]
  /\ UNCHANGED <<db, loopVars>>

\* Defect: the cancelled tasks are not gathered.
CloseLoopAtOnce ==
  /\ thread = "draining" /\ thread' = "closed"
  /\ act' = [a \in Actions |->
               IF act[a] \in {"late", "task", "cancelled"} THEN "lost" ELSE act[a]]
  /\ UNCHANGED <<db, loopVars>>

\* The loop does not run again: what it still holds is never answered.
CloseLoop ==
  /\ thread = "draining" /\ thread' = "closed"
  /\ \A a \in Actions : act[a] # "cancelled"
  /\ act' = [a \in Actions |-> IF act[a] \in {"late", "task"} THEN "lost" ELSE act[a]]
  /\ UNCHANGED <<db, loopVars>>

\* _loop and _application are cleared; the stopped signal.
End ==
  /\ thread = "closed" /\ thread' = "ended"
  /\ UNCHANGED <<db, act, loopVars>>

ThreadStep ==
  PublishLoop \/ BootOk \/ BootFails \/ RunEnds \/ CloseDatabase \/ Drain \/ CloseLoop \/ End

-----------------------------------------------------------------------------
(***************************************************************************)
(* Actions: _submit and stop in the GUI thread, the rest in the loop.      *)
(***************************************************************************)
\* Whether _loop (and _application, which stop does not read) can be used.
Open(a) ==
  /\ thread \in {"booting", "running", "closing", "finishing", "draining"}
  /\ a # "stop" => db # "none"

\* Else the action fails at once ("not started yet"), and a stop does nothing.
Submit(a) ==
  /\ act[a] = "idle" /\ Open(a)
  /\ act' = [act EXCEPT ![a] = "held"]
  /\ UNCHANGED <<thread, db, loopVars>>

\* run_coroutine_threadsafe; on a closed loop it raises in the GUI thread.
Post(a) ==
  /\ act[a] = "held"
  /\ act' = [act EXCEPT ![a] = CASE thread \in {"booting", "running", "closing"} -> "posted"
                                 [] thread \in {"finishing", "draining"}         -> "late"
                                 [] OTHER                                        -> "lost"]
  /\ UNCHANGED <<thread, db, loopVars>>

\* The loop runs callbacks and tasks; while draining, only until the gather ends.
Turning ==
  \/ thread \in {"running", "closing", "finishing"}
  \/ thread = "draining" /\ \E a \in Actions : act[a] = "cancelled"

StartTask(a) ==
  /\ Turning /\ act[a] \in {"posted", "late"}
  /\ act' = [act EXCEPT ![a] = "task"]
  /\ UNCHANGED <<thread, db, loopVars>>

\* What the coroutine of a does to run().
Effect(a) ==
  CASE a = "stop" /\ db # "none"                 -> Stop
    [] a = "reconnect_crm" /\ at = "session"     -> Drop
    [] OTHER                                     -> UNCHANGED loopVars

\* It returns or raises, and completed() answers.
EndTask(a) ==
  /\ Turning /\ act[a] = "task"
  /\ act' = [act EXCEPT ![a] = "idle"]
  /\ Effect(a)
  /\ UNCHANGED <<thread, db>>

EndCancelled(a) ==
  /\ act[a] = "cancelled"
  /\ act' = [act EXCEPT ![a] = "idle"]
  /\ UNCHANGED <<thread, db, loopVars>>

LoopStep(a) == StartTask(a) \/ EndTask(a) \/ EndCancelled(a)

RuntimeNext ==
  \/ ThreadStep
  \/ Core(Connected \/ Refused \/ Unwind \/ Again \/ Leave)
  \/ Core(Drop) \/ Core(Raise)
  \/ \E a \in Actions : LoopStep(a)

\* The thread, the loop and run() go on; the requests of an action have timeouts.
RuntimeFairness ==
  /\ WF_runtimeVars(ThreadStep)
  /\ WF_runtimeVars(Core(Connected \/ Refused \/ Unwind \/ Again \/ Leave))
  /\ \A a \in Actions :
       /\ WF_runtimeVars(StartTask(a))
       /\ WF_runtimeVars(EndTask(a))
       /\ WF_runtimeVars(EndCancelled(a))
=============================================================================
