------------------------------- MODULE RunLoop -------------------------------
(***************************************************************************)
(* What CrmClient.run (crm/client.py) promises to whoever owns it: it      *)
(* connects, serves a session, pauses and connects again, and looks at its *)
(* stop event only between two connections.  CrmSession implements it;     *)
(* AgentRuntime is built on it.                                            *)
(***************************************************************************)
VARIABLES
  at,    \* where run() is; "dropped" is a session whose socket is closed
  stop   \* the _stop event

loopVars == <<at, stop>>

Places == {"boot", "connecting", "session", "dropped", "pause", "over", "dead"}

LoopTypeOK == at \in Places /\ stop \in BOOLEAN

LoopInit == at = "boot" /\ stop = FALSE

\* run() reaches its first connect without an await.
Begin == at = "boot" /\ at' = "connecting" /\ UNCHANGED stop

Connected == at = "connecting" /\ at' = "session" /\ UNCHANGED stop
Refused   == at = "connecting" /\ at' = "pause" /\ UNCHANGED stop
Unwind    == at = "dropped" /\ at' = "pause" /\ UNCHANGED stop

\* Defect: the stop event is not looked at after the pause.
AgainDeaf == at = "pause" /\ at' = "connecting" /\ UNCHANGED stop

Again     == at = "pause" /\ ~stop /\ at' = "connecting" /\ UNCHANGED stop
Leave     == at = "pause" /\ stop /\ at' = "over" /\ UNCHANGED stop

\* The socket is closed by the CRM, the network or reconnect().
Drop == at = "session" /\ at' = "dropped" /\ UNCHANGED stop

\* An exception that run() does not catch.
Raise == at \in {"session", "dropped", "pause"} /\ at' = "dead" /\ UNCHANGED stop

\* aclose: the event is set, and the socket closed if run() has stored one.
Stop ==
  /\ at # "boot" /\ stop' = TRUE
  /\ at' = IF at = "session" THEN "dropped" ELSE at

Advance == Begin \/ Connected \/ Refused \/ Unwind \/ Again \/ Leave

LoopNext == Advance \/ Drop \/ Raise \/ Stop

LoopSpec == LoopInit /\ [][LoopNext]_loopVars /\ WF_loopVars(Advance)
=============================================================================
