------------------------------ MODULE Desktop --------------------------------
(***************************************************************************)
(* The tray application around one AgentRuntime: run_desktop (desktop/     *)
(* main.py) with its single-instance lock, the first-run wizard and the    *)
(* settings dialog, the tray's exit, and crashes.  The lock file is held   *)
(* from Launch to the end of the process, so while proc # "none" a second  *)
(* launch only shows a warning and returns.  What outlives a process is    *)
(* config.json and the CRM token in the secret store.                      *)
(***************************************************************************)
EXTENDS Naturals, AgentRuntime

CONSTANTS
  Ids, NoId,    \* agent ids, as uuid4 makes them
  MaxCrashes    \* bound on the crashes, for model checking

ASSUME DesktopAssumption == Ids # {} /\ NoId \notin Ids /\ MaxCrashes \in Nat

VARIABLES
  proc,     \* the GUI thread: no process, loading, in the wizard, in the tray
  exiting,  \* request_exit has hidden the icon and called stop
  dialog,   \* the wizard or settings dialog: none, open, or inside save()
  file,     \* config.json
  token,    \* whether the secret store holds crm_agent_token
  crashes

guiVars  == <<proc, exiting, dialog>>
diskVars == <<file, token>>
vars     == <<guiVars, diskVars, crashes, runtimeVars>>

NoFile == [id |-> NoId, complete |-> FALSE]

TypeOK ==
  /\ RuntimeTypeOK
  /\ proc \in {"none", "loading", "wizard", "tray"}
  /\ exiting \in BOOLEAN
  /\ dialog \in {"none", "open", "config", "autostart"}
  /\ file \in {NoFile} \cup [id : Ids, complete : BOOLEAN]
  /\ token \in BOOLEAN
  /\ crashes \in 0..MaxCrashes

Init ==
  /\ RuntimeInit
  /\ proc = "none" /\ exiting = FALSE /\ dialog = "none"
  /\ file = NoFile /\ token = FALSE /\ crashes = 0

-----------------------------------------------------------------------------
(***************************************************************************)
(* run_desktop.                                                            *)
(***************************************************************************)
\* Defect: the configuration with its new id is returned but not saved.
LoadUnsaved == UNCHANGED file

\* config_store.load: without a file, defaults with a new id are saved first.
Load ==
  \/ file = NoFile /\ \E i \in Ids : file' = [id |-> i, complete |-> FALSE]
  \/ file # NoFile /\ UNCHANGED file

\* The lock is free, or was left by a process that is gone.
Launch ==
  /\ proc = "none" /\ proc' = "loading" /\ Load
  /\ exiting' = FALSE /\ dialog' = "none"
  /\ thread' = "none" /\ db' = "none" /\ act' = Idle /\ at' = "boot" /\ stop' = FALSE
  /\ UNCHANGED <<token, crashes>>

\* AgentRuntime.start, after the window and the tray are connected to it.
Start ==
  /\ proc' = "tray" /\ thread' = "spawned"
  /\ UNCHANGED <<db, act, loopVars>>

\* Defect: a complete file is taken for a finished first run.
ConfiguredOnDisk == file.complete

Configured == file.complete /\ token

Proceed ==
  /\ proc = "loading" /\ Configured /\ Start
  /\ UNCHANGED <<exiting, dialog, diskVars, crashes>>

FirstRun ==
  /\ proc = "loading" /\ ~Configured
  /\ proc' = "wizard" /\ dialog' = "open"
  /\ UNCHANGED <<exiting, diskVars, crashes, runtimeVars>>

-----------------------------------------------------------------------------
(***************************************************************************)
(* SettingsWindow: save() writes the token, then the file, then the        *)
(* autostart task; the first that fails ends it and leaves what came       *)
(* before.  The form is complete and valid, or save() writes nothing.      *)
(***************************************************************************)
\* The GUI thread is in its event loop.
GuiFree ==
  /\ proc = "tray" /\ dialog \in {"none", "open"}
  /\ \A a \in Actions : act[a] # "held"

OpenSettings ==
  /\ GuiFree /\ dialog = "none" /\ dialog' = "open"
  /\ UNCHANGED <<proc, exiting, diskVars, crashes, runtimeVars>>

CloseDialog ==
  /\ dialog = "open" /\ dialog' = "none"
  /\ proc = "wizard" \/ GuiFree
  /\ proc' = IF proc = "wizard" THEN "none" ELSE proc
  /\ UNCHANGED <<exiting, diskVars, crashes, runtimeVars>>

\* Outside the wizard the operator may leave a stored token as it is.
SaveToken ==
  /\ dialog = "open" /\ dialog' = "config"
  /\ proc = "wizard" \/ GuiFree
  /\ token' = TRUE \/ (proc = "tray" /\ UNCHANGED token)
  /\ UNCHANGED <<proc, exiting, file, crashes, runtimeVars>>

\* Defect: the file is written from the form alone, with a new id.
SaveConfigAnew ==
  /\ dialog = "config" /\ dialog' = "autostart"
  /\ \E i \in Ids : file' = [id |-> i, complete |-> TRUE]
  /\ UNCHANGED <<proc, exiting, token, crashes, runtimeVars>>

\* The form's values over those of the file, replaced atomically.
SaveConfig ==
  /\ dialog = "config" /\ dialog' = "autostart"
  /\ file' = [file EXCEPT !.complete = TRUE]
  /\ UNCHANGED <<proc, exiting, token, crashes, runtimeVars>>

\* The file or the scheduled task cannot be written: "not saved", still open.
SaveFails ==
  /\ dialog \in {"config", "autostart"} /\ dialog' = "open"
  /\ UNCHANGED <<proc, exiting, diskVars, crashes, runtimeVars>>

SaveDone ==
  /\ dialog = "autostart" /\ dialog' = "none"
  /\ IF proc = "wizard" THEN Start ELSE UNCHANGED <<proc, runtimeVars>>
  /\ UNCHANGED <<exiting, diskVars, crashes>>

-----------------------------------------------------------------------------
(***************************************************************************)
(* The tray.                                                               *)
(***************************************************************************)
Request(a) ==
  /\ GuiFree /\ a # "stop" /\ Submit(a)
  /\ UNCHANGED <<guiVars, diskVars, crashes>>

PostHeld(a) == Post(a) /\ UNCHANGED <<guiVars, diskVars, crashes>>

\* Defect: the process is ended with the click.
RequestExitAtOnce ==
  /\ GuiFree /\ ~exiting /\ exiting' = TRUE /\ proc' = "none"
  /\ UNCHANGED <<dialog, diskVars, crashes, runtimeVars>>

\* request_exit, confirmed if an operation is shown: the icon goes, then stop.
RequestExit ==
  /\ GuiFree /\ ~exiting /\ exiting' = TRUE
  /\ IF Open("stop") THEN Submit("stop") ELSE UNCHANGED runtimeVars
  /\ UNCHANGED <<proc, dialog, diskVars, crashes>>

\* The stopped signal: QApplication.quit, whatever dialog is open, and the lock.
Quit ==
  /\ GuiFree /\ thread = "ended"
  /\ proc' = "none" /\ dialog' = "none"
  /\ UNCHANGED <<exiting, diskVars, crashes, runtimeVars>>

-----------------------------------------------------------------------------
Crash ==
  /\ proc # "none" /\ crashes < MaxCrashes /\ crashes' = crashes + 1
  /\ proc' = "none" /\ exiting' = FALSE /\ dialog' = "none"
  /\ thread' = "none" /\ db' = "none" /\ act' = Idle /\ at' = "boot" /\ stop' = FALSE
  /\ UNCHANGED diskVars

\* Another Windows user logs on: the file is the machine's, the token the user's.
OtherUser ==
  /\ proc = "none" /\ token' \in BOOLEAN
  /\ UNCHANGED <<guiVars, file, crashes, runtimeVars>>

Saving == SaveConfig \/ SaveFails \/ SaveDone

Next ==
  \/ Launch \/ Proceed \/ FirstRun
  \/ OpenSettings \/ CloseDialog \/ SaveToken \/ Saving
  \/ RequestExit \/ Quit \/ Crash \/ OtherUser
  \/ \E a \in Actions : Request(a) \/ PostHeld(a)
  \/ RuntimeNext /\ UNCHANGED <<guiVars, diskVars, crashes>>

Spec == Init /\ [][Next]_vars

\* The GUI thread ends a save() it is in, and comes to each signal in its queue.
FairSpec ==
  /\ Spec /\ RuntimeFairness
  /\ SF_vars(Quit) /\ WF_vars(Saving) /\ WF_vars(\E a \in Actions : PostHeld(a))

-----------------------------------------------------------------------------
\* The lock covers the runtime: when it is free for another process, no thread
\* of the last one runs and its database is closed.
NothingOutlives == proc = "none" => thread \in {"none", "ended"} /\ db # "open"

\* However a first run was interrupted, the runtime never starts without a
\* complete configuration and a token.
StartsConfigured ==
  [][thread' = "spawned" /\ thread # "spawned" => file.complete /\ token]_vars

\* AGENT_ID is generated once: no restart, wizard or settings dialog changes it.
AgentIdStays == [][file.id # NoId => file'.id = file.id]_vars

\* An action posted before the run ends is answered, also if it is stopped.
PostedIsAnswered == \A a \in Actions : act[a] = "posted" ~> act[a] = "idle"

\* A stop that finds run() between two connections, or closes its socket, ends
\* the process.
StopEnds == stop /\ at \in {"pause", "dropped"} ~> proc = "none"

\* "Exit" ends the process.
ExitEnds == exiting ~> proc = "none"
=============================================================================
