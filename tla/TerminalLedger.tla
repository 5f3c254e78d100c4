--------------------------- MODULE TerminalLedger ---------------------------
(***************************************************************************)
(* What the CRM may rely on, without tasks, tables, sockets or crashes: a  *)
(* ledger in which each commandId is refused or becomes the one working    *)
(* operation of the terminal, is requested from the terminal at most once, *)
(* and ends once.  An operation whose status the agent does not know lapses:*)
(* it is not in the way of the next one, and nobody answers for its end.   *)
(* OperationManager is shown to implement it.                              *)
(***************************************************************************)
CONSTANT Cmds

VARIABLES
  phase,      \* of each commandId
  requested   \* the commandIds that /payment or /refund was called for

Outcomes == {"success", "fail", "manual_review"}
Phases   == {"new", "rejected", "working", "lapsed"} \cup Outcomes

LedgerTypeOK ==
  /\ phase \in [Cmds -> Phases]
  /\ requested \subseteq Cmds

Init == phase = [c \in Cmds |-> "new"] /\ requested = {}

Reject(c) ==
  /\ phase[c] = "new"
  /\ phase' = [phase EXCEPT ![c] = "rejected"]
  /\ UNCHANGED requested

Accept(c) ==
  /\ phase[c] = "new" /\ \A d \in Cmds : phase[d] # "working"
  /\ phase' = [phase EXCEPT ![c] = "working"]
  /\ UNCHANGED requested

Request(c) ==
  /\ phase[c] = "working" /\ c \notin requested
  /\ requested' = requested \cup {c}
  /\ UNCHANGED phase

\* The terminal answers a status that no query of the agent selects, or again one
\* that they do select.
Lapse(c) ==
  /\ phase[c] = "working"
  /\ phase' = [phase EXCEPT ![c] = "lapsed"]
  /\ UNCHANGED requested

Return(c) ==
  /\ phase[c] = "lapsed" /\ \A d \in Cmds : phase[d] # "working"
  /\ phase' = [phase EXCEPT ![c] = "working"]
  /\ UNCHANGED requested

\* A success is the outcome of a request; a failure or a review may precede it.
Conclude(c) ==
  /\ phase[c] \in {"working", "lapsed"}
  /\ \E o \in Outcomes :
       /\ o = "success" => c \in requested
       /\ phase' = [phase EXCEPT ![c] = o]
  /\ UNCHANGED requested

Next ==
  \E c \in Cmds :
    \/ Reject(c) \/ Accept(c) \/ Request(c) \/ Conclude(c)
    \/ Lapse(c) \/ Return(c)

Spec == Init /\ [][Next]_<<phase, requested>>
=============================================================================
