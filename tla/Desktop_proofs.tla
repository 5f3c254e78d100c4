---------------------------- MODULE Desktop_proofs ---------------------------
(***************************************************************************)
(* Theorems of Desktop, for any actions, agent ids and number of crashes.  *)
(* One inductive invariant, DesktopInv, follows the process (OwnerInv, the *)
(* lock's side) and the settings (SetupInv).                               *)
(***************************************************************************)
EXTENDS Desktop, TLAPS

\* The database is open only inside run_application, and a runtime thread
\* belongs to a process that has come to its tray.
OwnerInv ==
  /\ proc \in {"loading", "wizard"} => thread = "none" /\ db = "none"
  /\ proc = "none" => thread \in {"none", "ended"} /\ db # "open"
  /\ db = "open" => thread \in {"running", "closing"}
  /\ thread \in {"none", "spawned", "booting"} => db = "none"

\* What save() has written by each of its steps, and that the file is there.
SetupInv ==
  /\ proc = "loading" => dialog = "none"
  /\ proc = "none" => dialog = "none"
  /\ proc # "none" => file.id \in Ids
  /\ proc = "wizard" /\ dialog \in {"config", "autostart"} => token
  /\ proc = "wizard" /\ dialog = "autostart" => file.complete

DesktopInv == TypeOK /\ OwnerInv /\ SetupInv

RuntimeStep == RuntimeNext /\ UNCHANGED <<guiVars, diskVars, crashes>>

-----------------------------------------------------------------------------
LEMMA InitInv == Init => DesktopInv
<1> SUFFICES ASSUME Init PROVE DesktopInv
  OBVIOUS
<1>1. act \in [Actions -> Stages]
  BY DEF Init, RuntimeInit, Idle, Stages
<1>2. crashes \in 0..MaxCrashes
  BY DesktopAssumption DEF Init
<1>3. /\ at \in Places /\ stop \in BOOLEAN
      /\ thread \in Threads /\ db \in {"none", "open", "shut"}
  BY DEF Init, RuntimeInit, LoopInit, Places, Threads
<1>4. TypeOK
  BY <1>1, <1>2, <1>3 DEF Init, TypeOK, RuntimeTypeOK, LoopTypeOK
<1> QED
  BY <1>4 DEF Init, RuntimeInit, DesktopInv, OwnerInv, SetupInv

\* Only the thread's own steps move it, and each keeps the database in step.
LEMMA RuntimeKeeps == ASSUME DesktopInv, RuntimeStep PROVE DesktopInv'
<1> USE DEF DesktopInv, TypeOK, RuntimeTypeOK, LoopTypeOK, OwnerInv, SetupInv,
            RuntimeStep, guiVars, diskVars, loopVars
<1>0. UNCHANGED <<proc, exiting, dialog, file, token, crashes>>
  OBVIOUS
<1>1. CASE ThreadStep
  <2>1. CASE PublishLoop
    BY <1>0, <2>1 DEF PublishLoop, Threads
  <2>2. CASE BootOk
    BY <1>0, <2>2 DEF BootOk, Begin, Threads, Places
  <2>3. CASE BootFails
    BY <1>0, <2>3 DEF BootFails, Threads
  <2>4. CASE RunEnds
    BY <1>0, <2>4 DEF RunEnds, Threads
  <2>5. CASE CloseDatabase
    BY <1>0, <2>5 DEF CloseDatabase, Threads
  <2>6. CASE Drain
    BY <1>0, <2>6 DEF Drain, Threads, Stages
  <2>7. CASE CloseLoop
    BY <1>0, <2>7 DEF CloseLoop, Threads, Stages
  <2>8. CASE End
    BY <1>0, <2>8 DEF End, Threads
  <2> QED
    BY <1>1, <2>1, <2>2, <2>3, <2>4, <2>5, <2>6, <2>7, <2>8 DEF ThreadStep
<1>2. CASE \/ Core(Connected \/ Refused \/ Unwind \/ Again \/ Leave)
           \/ Core(Drop) \/ Core(Raise)
  <2>1. /\ at' \in Places /\ stop' = stop
        /\ UNCHANGED <<thread, db, act>>
    BY <1>2 DEF Core, Connected, Refused, Unwind, Again, Leave, Drop, Raise, Places
  <2> QED
    BY <1>0, <2>1
<1>3. ASSUME NEW a \in Actions, LoopStep(a) PROVE DesktopInv'
  <2>1. act' \in [Actions -> Stages] /\ UNCHANGED <<thread, db>>
    BY <1>3 DEF LoopStep, StartTask, EndTask, EndCancelled, Stages
  <2>2. at' \in Places /\ stop' \in BOOLEAN
    BY <1>3 DEF LoopStep, StartTask, EndTask, EndCancelled, Effect, Stop, Drop, Places
  <2> QED
    BY <1>0, <2>1, <2>2
<1> QED
  BY <1>1, <1>2, <1>3 DEF RuntimeNext

LEMMA StepKeeps == DesktopInv /\ [Next]_vars => DesktopInv'
<1> SUFFICES ASSUME DesktopInv, [Next]_vars PROVE DesktopInv'
  OBVIOUS
<1> USE DesktopAssumption
        DEF DesktopInv, TypeOK, RuntimeTypeOK, LoopTypeOK, OwnerInv, SetupInv,
            NoFile, guiVars, diskVars, loopVars, runtimeVars
<1>1. CASE Launch
  <2>1. file' \in [id : Ids, complete : BOOLEAN]
    <3>1. CASE file = NoFile
      <4>1. PICK i \in Ids : file' = [id |-> i, complete |-> FALSE]
        BY <1>1, <3>1 DEF Launch, Load
      <4> QED
        BY <4>1
    <3>2. CASE file # NoFile
      BY <1>1, <3>2 DEF Launch, Load
    <3> QED
      BY <3>1, <3>2
  <2>2. act' \in [Actions -> Stages]
    BY <1>1 DEF Launch, Idle, Stages
  <2> QED
    BY <1>1, <2>1, <2>2 DEF Launch, Places, Threads
<1>2. CASE Proceed
  BY <1>2 DEF Proceed, Start, Threads
<1>3. CASE FirstRun
  BY <1>3 DEF FirstRun
<1>4. CASE OpenSettings \/ CloseDialog
  BY <1>4 DEF OpenSettings, CloseDialog, GuiFree
<1>5. CASE SaveToken
  BY <1>5 DEF SaveToken, GuiFree
<1>6. CASE SaveConfig
  <2>1. proc # "none"
    BY <1>6 DEF SaveConfig
  <2>2. file \in [id : Ids, complete : BOOLEAN]
    BY <2>1
  <2>3. file' \in [id : Ids, complete : BOOLEAN] /\ file'.complete /\ file'.id = file.id
    BY <1>6, <2>2 DEF SaveConfig
  <2> QED
    BY <1>6, <2>1, <2>3 DEF SaveConfig
<1>7. CASE SaveFails
  BY <1>7 DEF SaveFails
<1>8. CASE SaveDone
  <2>1. CASE proc = "wizard"
    BY <1>8, <2>1 DEF SaveDone, Start, Threads
  <2>2. CASE proc # "wizard"
    BY <1>8, <2>2 DEF SaveDone
  <2> QED
    BY <2>1, <2>2
<1>9. CASE RequestExit
  <2>1. act' \in [Actions -> Stages] /\ UNCHANGED <<thread, db, at, stop>>
    BY <1>9 DEF RequestExit, Submit, Stages
  <2> QED
    BY <1>9, <2>1 DEF RequestExit
<1>10. CASE Quit
  BY <1>10 DEF Quit, GuiFree
<1>11. CASE Crash
  <2>1. act' \in [Actions -> Stages]
    BY <1>11 DEF Crash, Idle, Stages
  <2>2. crashes' \in 0..MaxCrashes
    BY <1>11 DEF Crash
  <2>3. file' = file /\ token' = token
    BY <1>11 DEF Crash
  <2>4. /\ proc' = "none" /\ exiting' = FALSE /\ dialog' = "none" /\ thread' = "none"
        /\ db' = "none" /\ at' = "boot" /\ stop' = FALSE
    BY <1>11 DEF Crash
  <2>5. at' \in Places /\ thread' \in Threads
    BY <2>4 DEF Places, Threads
  <2> QED
    BY <2>1, <2>2, <2>3, <2>4, <2>5
<1>12. CASE OtherUser
  BY <1>12 DEF OtherUser
<1>13. ASSUME NEW a \in Actions, Request(a) \/ PostHeld(a) PROVE DesktopInv'
  <2>1. act' \in [Actions -> Stages] /\ UNCHANGED <<thread, db, at, stop>>
    BY <1>13 DEF Request, PostHeld, Submit, Post, Stages
  <2>2. UNCHANGED <<proc, exiting, dialog, file, token, crashes>>
    BY <1>13 DEF Request, PostHeld
  <2> QED
    BY <2>1, <2>2
<1>14. CASE RuntimeNext /\ UNCHANGED <<guiVars, diskVars, crashes>>
  BY <1>14, RuntimeKeeps DEF RuntimeStep
<1>15. CASE UNCHANGED vars
  BY <1>15 DEF vars
<1> QED
  BY <1>1, <1>2, <1>3, <1>4, <1>5, <1>6, <1>7, <1>8, <1>9, <1>10, <1>11, <1>12, <1>13,
     <1>14, <1>15
  DEF Next, Saving

LEMMA Invariance == Spec => []DesktopInv
<1>1. Init => DesktopInv
  BY InitInv
<1>2. DesktopInv /\ [Next]_vars => DesktopInv'
  BY StepKeeps
<1> QED
  BY <1>1, <1>2, PTL DEF Spec

-----------------------------------------------------------------------------
\* The types of Desktop, for any number of crashes.
THEOREM DesktopTypes == Spec => []TypeOK
<1>1. DesktopInv => TypeOK
  BY DEF DesktopInv
<1> QED
  BY <1>1, Invariance, PTL

\* The lock that main.py releases at the end of its process covers the whole
\* life of the runtime thread and of its database, however the process ends.
THEOREM LockCoversRuntime == Spec => []NothingOutlives
<1>1. DesktopInv => NothingOutlives
  BY DEF DesktopInv, OwnerInv, NothingOutlives
<1> QED
  BY <1>1, Invariance, PTL

\* run_desktop starts the runtime only with a complete config.json and a token,
\* after whatever crashes and failures between the writes of save().
THEOREM RuntimeIsConfigured == Spec => StartsConfigured
<1>1. DesktopInv /\ [Next]_vars
        => [thread' = "spawned" /\ thread # "spawned" => file.complete /\ token]_vars
  <2> SUFFICES ASSUME DesktopInv, Next, thread' = "spawned", thread # "spawned"
               PROVE  file.complete /\ token
    OBVIOUS
  <2> USE DEF DesktopInv, TypeOK, RuntimeTypeOK, OwnerInv, SetupInv,
              guiVars, diskVars, loopVars, runtimeVars
  <2>1. CASE Proceed
    BY <2>1 DEF Proceed, Configured
  <2>2. CASE SaveDone
    <3>1. proc = "wizard"
      BY <2>2 DEF SaveDone
    <3> QED
      BY <2>2, <3>1 DEF SaveDone
  <2>3. CASE \/ Launch \/ FirstRun \/ OpenSettings \/ CloseDialog \/ SaveToken \/ SaveConfig
             \/ SaveFails \/ RequestExit \/ Quit \/ Crash \/ OtherUser
    BY <2>3 DEF Launch, FirstRun, OpenSettings, CloseDialog, SaveToken, SaveConfig, SaveFails,
                RequestExit, Submit, Quit, Crash, OtherUser
  <2>4. ASSUME NEW a \in Actions, Request(a) \/ PostHeld(a) PROVE FALSE
    BY <2>4 DEF Request, PostHeld, Submit, Post
  <2>5. CASE RuntimeNext
    <3>1. CASE ThreadStep
      BY <3>1 DEF ThreadStep, PublishLoop, BootOk, BootFails, RunEnds, CloseDatabase, Drain,
                  CloseLoop, End
    <3>2. CASE ~ThreadStep
      BY <2>5, <3>2 DEF RuntimeNext, Core, LoopStep, StartTask, EndTask, EndCancelled
    <3> QED
      BY <3>1, <3>2
  <2> QED
    BY <2>1, <2>2, <2>3, <2>4, <2>5 DEF Next, Saving
<1> QED
  BY <1>1, Invariance, PTL DEF Spec, StartsConfigured

\* The agent's identity survives every restart, wizard and settings dialog.
THEOREM IdentityStays == Spec => AgentIdStays
<1>1. DesktopInv /\ [Next]_vars => [file.id # NoId => file'.id = file.id]_vars
  <2> SUFFICES ASSUME DesktopInv, Next, file.id # NoId PROVE file'.id = file.id
    OBVIOUS
  <2>1. CASE Launch
    BY <2>1, DesktopAssumption DEF Launch, Load, NoFile
  <2>2. CASE SaveConfig
    BY <2>2 DEF SaveConfig, DesktopInv, TypeOK, NoFile
  <2>3. CASE ~Launch /\ ~SaveConfig
    BY <2>3 DEF Next, Saving, Proceed, FirstRun, OpenSettings, CloseDialog, SaveToken,
                SaveFails, SaveDone, RequestExit, Quit, Crash, OtherUser, Request, PostHeld,
                guiVars, diskVars
  <2> QED
    BY <2>1, <2>2, <2>3
<1> QED
  BY <1>1, Invariance, PTL DEF Spec, AgentIdStays
=============================================================================
