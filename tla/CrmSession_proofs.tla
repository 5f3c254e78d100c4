------------------------- MODULE CrmSession_proofs ---------------------------
(***************************************************************************)
(* Theorems of CrmSession for any set of commands, any buffer and any      *)
(* float limit: the one-operation rule over the wire, and the safety part  *)
(* of the refinement of RunLoop.                                           *)
(***************************************************************************)
EXTENDS CrmSession, TLAPS

\* Who may have an operation that is active: while a message is handled, its
\* own command only; while the resume runs, any.
HandlerInv ==
  /\ loop \in {"serve", "reply"} => ActiveOps = {}
  /\ loop \in {"accept", "work"} /\ back = "serve" => ActiveOps \subseteq {cur}
  /\ loop = "verdict" /\ back = "serve" => ActiveOps = {}
  /\ loop = "accept" => back = "serve"
  /\ loop \in {"accept", "reply", "work", "verdict"} => cur \in Cmds

\* run() holds a socket from the connect to the end of the session, and an
\* open one until something has gone wrong with it; no stop is heard before it.
InSession == {"hello", "resume", "serve", "accept", "reply", "work", "verdict"}
SocketInv ==
  /\ loop \in InSession => conn # "none"
  /\ conn = "open" => loop \in InSession
  /\ loop = "boot" => stop = FALSE

SessionInv == TypeOK /\ HandlerInv /\ SocketInv

USE SessionAssumption DEF Bound, Loops, InSession, net, ui, work

-----------------------------------------------------------------------------
LEMMA InitInv == Init => SessionInv
<1> SUFFICES ASSUME Init PROVE SessionInv
  OBVIOUS
<1>1. buffer \in Seq(Cmds) /\ Len(buffer) <= MaxBuffer
  BY DEF Init
<1>2. op \in [Cmds -> {"none", "active", "ended"}]
  BY DEF Init
<1> QED
  BY <1>1, <1>2 DEF Init, SessionInv, TypeOK, HandlerInv, SocketInv

\* The steps of run() and of a handler that leave the buffer and the rows alone.
QuietSteps ==
  \/ Boot \/ Top \/ ConnectOk \/ ConnectFails \/ Hello \/ Resume \/ PauseOver
  \/ SessionOver \/ SendAccepted \/ Interrupted \/ Drop \/ RequestStop

LEMMA QuietKeeps == ASSUME SessionInv, QuietSteps PROVE SessionInv'
<1> USE DEF SessionInv, TypeOK, HandlerInv, SocketInv
<1>0. buffer' = buffer /\ op' = op /\ told' = told /\ late' = late /\ ActiveOps' = ActiveOps
  BY DEF QuietSteps, Boot, Top, ConnectOk, ConnectFails, Hello, Resume, PauseOver, SessionOver,
         SendAccepted, Interrupted, Drop, RequestStop, ActiveOps
<1>1. CASE Boot \/ Top \/ ConnectOk \/ ConnectFails \/ PauseOver
  BY <1>0, <1>1 DEF Boot, Top, ConnectOk, ConnectFails, PauseOver
<1>2. CASE Hello
  BY <1>0, <1>2 DEF Hello, Sends
<1>3. CASE Resume
  <2>1. CASE ActiveOps = {}
    BY <1>0, <1>3, <2>1 DEF Resume
  <2>2. CASE ActiveOps # {}
    <3>1. cur' \in Cmds /\ loop' = "work" /\ back' = "resume"
      BY <1>3, <2>2 DEF Resume, ActiveOps
    <3> QED
      BY <1>0, <1>3, <3>1 DEF Resume
  <2> QED
    BY <2>1, <2>2
<1>4. CASE SessionOver \/ Interrupted
  BY <1>0, <1>4 DEF SessionOver, Interrupted
<1>5. CASE SendAccepted
  BY <1>0, <1>5 DEF SendAccepted, Sends
<1>6. CASE Drop
  BY <1>0, <1>6 DEF Drop
<1>7. CASE RequestStop
  BY <1>0, <1>7 DEF RequestStop
<1> QED
  BY <1>1, <1>2, <1>3, <1>4, <1>5, <1>6, <1>7 DEF QuietSteps

\* Take finds every row settled, and activates at most its own.
LEMMA TakeKeeps == ASSUME SessionInv, Take PROVE SessionInv'
<1> USE DEF SessionInv, TypeOK, HandlerInv, SocketInv
<1>1. /\ buffer' \in Seq(Cmds) /\ Len(buffer') <= MaxBuffer /\ cur' \in Cmds
  BY DEF Take
<1>2. CASE op[cur'] = "none"
  <2>1. op' = [op EXCEPT ![cur'] = "active"] /\ loop' = "accept"
    BY <1>2 DEF Take
  <2>2. op' \in [Cmds -> {"none", "active", "ended"}]
    BY <2>1, <1>1
  <2>3. ActiveOps' \subseteq {cur'}
    BY <2>1, <2>2, <1>1 DEF Take, ActiveOps
  <2> QED
    BY <1>1, <2>1, <2>2, <2>3 DEF Take
<1>3. CASE op[cur'] # "none"
  BY <1>1, <1>3 DEF Take, ActiveOps
<1> QED
  BY <1>2, <1>3

\* The verdict settles the one row that may have been active.
LEMMA ConcludeKeeps == ASSUME SessionInv, Conclude PROVE SessionInv'
<1> USE DEF SessionInv, TypeOK, HandlerInv, SocketInv
<1>1. op' = [op EXCEPT ![cur] = "ended"] /\ cur \in Cmds /\ loop' = "verdict"
  BY DEF Conclude
<1>2. op' \in [Cmds -> {"none", "active", "ended"}]
  BY <1>1
<1>3. back = "serve" => ActiveOps' = {}
  BY <1>1, <1>2 DEF Conclude, ActiveOps
<1> QED
  BY <1>1, <1>2, <1>3 DEF Conclude

LEMMA StepKeeps == SessionInv /\ [Next]_vars => SessionInv'
<1> SUFFICES ASSUME SessionInv, [Next]_vars PROVE SessionInv'
  OBVIOUS
<1> USE DEF SessionInv, TypeOK, HandlerInv, SocketInv
<1>1. CASE QuietSteps
  BY <1>1, QuietKeeps
<1>2. CASE Take
  BY <1>2, TakeKeeps
<1>3. CASE Conclude
  BY <1>3, ConcludeKeeps
<1>4. CASE Reply \/ SendVerdict
  <2>1. /\ UNCHANGED <<buffer, op, late, ActiveOps, attempt, stop, asked, conn, back>>
        /\ cur' = NoCmd /\ told' \subseteq Cmds
    BY <1>4 DEF Reply, SendVerdict, Sends, ActiveOps
  <2>2. loop' \in {"ending", "serve", "resume"}
    BY <1>4 DEF Reply, SendVerdict, Sends
  <2>3. loop' # "ending" => conn = "open"
    BY <1>4 DEF Reply, SendVerdict, Sends
  <2>4. loop' = "serve" => ActiveOps = {}
    BY <1>4 DEF Reply, SendVerdict, Sends
  <2>5. conn = "open" => loop' # "ending"
    BY <1>4 DEF Reply, SendVerdict, Sends
  <2> QED
    BY <2>1, <2>2, <2>3, <2>4, <2>5
<1>5. CASE Ending
  <2>1. attempt' \in Nat /\ buffer' \in Seq(Cmds) /\ Len(buffer') <= MaxBuffer
    BY <1>5 DEF Ending
  <2>2. loop' \in {"done", "dead", "pause"} /\ conn' = "none"
    BY <1>5 DEF Ending
  <2> QED
    BY <1>5, <2>1, <2>2 DEF Ending
<1>6. ASSUME NEW c \in Cmds, Arrive(c) PROVE SessionInv'
  <2>1. buffer' \in Seq(Cmds) /\ Len(buffer') <= MaxBuffer
    BY <1>6 DEF Arrive
  <2>2. late' \subseteq Cmds /\ ActiveOps' = ActiveOps
    BY <1>6 DEF Arrive, ActiveOps
  <2> QED
    BY <1>6, <2>1, <2>2 DEF Arrive
<1>7. CASE UNCHANGED vars
  BY <1>7 DEF vars, ActiveOps
<1> QED
  BY <1>1, <1>2, <1>3, <1>4, <1>5, <1>6, <1>7 DEF Next, Run, QuietSteps

LEMMA Invariance == Spec => []SessionInv
<1>1. Init => SessionInv
  BY InitInv
<1>2. SessionInv /\ [Next]_vars => SessionInv'
  BY StepKeeps
<1> QED
  BY <1>1, <1>2, PTL DEF Spec

-----------------------------------------------------------------------------
\* The types of CrmSession, for any number of attempts.
THEOREM SessionTypes == Spec => []TypeOK
<1>1. SessionInv => TypeOK
  BY DEF SessionInv
<1> QED
  BY <1>1, Invariance, PTL

\* Each message is read with no operation active, whatever the CRM sends and
\* however often the link is lost: _handle_message never finds one running.
THEOREM OneOverTheWire == Spec => []ServingMeansFree
<1>1. SessionInv => ServingMeansFree
  BY DEF SessionInv, HandlerInv, ServingMeansFree
<1> QED
  BY <1>1, Invariance, PTL

\* A stop is heard while run() holds its socket, and then closes it, or while it
\* is between two connections; either way the event is set before run() looks.
HeardInv ==
  asked = "heard" => stop /\ conn # "open" /\ loop \notin {"boot", "connecting"}

LEMMA StepHeard ==
  ASSUME SessionInv, HeardInv, [Next]_vars
  PROVE  HeardInv' /\ (asked = "heard" => asked' = "heard")
<1> USE DEF SessionInv, TypeOK, SocketInv, HeardInv
<1>1. CASE Boot \/ Top \/ ConnectOk \/ ConnectFails \/ PauseOver
  BY <1>1 DEF Boot, Top, ConnectOk, ConnectFails, PauseOver
<1>2. CASE Hello \/ SendAccepted \/ Reply \/ SendVerdict
  BY <1>2 DEF Hello, SendAccepted, Reply, SendVerdict, Sends
<1>3. CASE Resume \/ Take \/ Conclude \/ Interrupted \/ SessionOver
  BY <1>3 DEF Resume, Take, Conclude, Interrupted, SessionOver
<1>4. CASE Ending \/ Drop
  BY <1>4 DEF Ending, Drop
<1>5. CASE RequestStop
  BY <1>5 DEF RequestStop
<1>6. ASSUME NEW c \in Cmds, Arrive(c) PROVE HeardInv' /\ (asked = "heard" => asked' = "heard")
  BY <1>6 DEF Arrive
<1>7. CASE UNCHANGED vars
  BY <1>7 DEF vars
<1> QED
  BY <1>1, <1>2, <1>3, <1>4, <1>5, <1>6, <1>7 DEF Next, Run

\* Once a stop was heard the agent is never connected to the CRM again.
THEOREM StopIsFinal == Spec => HeardIsFinal
<1>1. Init => HeardInv
  BY DEF Init, HeardInv
<1>2. SessionInv /\ HeardInv /\ [Next]_vars => HeardInv'
  BY StepHeard
<1>3. SessionInv /\ HeardInv /\ [Next]_vars =>
        [asked = "heard" => loop' # "connecting" /\ conn' # "open"]_vars
  BY StepHeard DEF HeardInv
<1> QED
  BY <1>1, <1>2, <1>3, Invariance, PTL DEF Spec, HeardIsFinal

\* Every step of run(), of the network and of the operator is a step of the
\* loop that AgentRuntime is built on, or invisible to it (the safety part of
\* ImplementsRunLoop).
THEOREM KeepsRunLoop == Spec => Owner!LoopInit /\ [][Owner!LoopNext]_(Owner!loopVars)
<1>1. Init => Owner!LoopInit
  BY DEF Init, Place, Owner!LoopInit
<1>2. SessionInv /\ [Next]_vars => [Owner!LoopNext]_(Owner!loopVars)
  <2> SUFFICES ASSUME SessionInv, [Next]_vars
               PROVE  Owner!LoopNext \/ (Place' = Place /\ stop' = stop)
    BY DEF Owner!loopVars
  <2> USE DEF Owner!LoopNext, Owner!Advance, Place
  <2>1. CASE Boot
    BY <2>1 DEF Boot, Owner!Begin
  <2>2. CASE Top
    BY <2>2 DEF Top, Owner!Again, Owner!Leave
  <2>3. CASE ConnectOk
    BY <2>3 DEF ConnectOk, Owner!Connected
  <2>4. CASE ConnectFails
    BY <2>4 DEF ConnectFails, Owner!Refused
  <2>5. CASE Ending
    BY <2>5 DEF Ending, Owner!Leave, Owner!Raise
  <2>6. CASE PauseOver
    BY <2>6 DEF PauseOver
  <2>7. CASE Hello \/ SendAccepted \/ Reply \/ SendVerdict
    <3>1. /\ loop \in InSession /\ conn # "none" /\ conn \in {"none", "open", "closed"}
          /\ UNCHANGED <<conn, stop>>
      BY <2>7 DEF Hello, SendAccepted, Reply, SendVerdict, SessionInv, SocketInv, TypeOK
    <3>2. CASE conn = "open"
      <4>1. loop' \in InSession
        BY <2>7, <3>2 DEF Hello, SendAccepted, Reply, SendVerdict, Sends, SessionInv, TypeOK
      <4> QED
        BY <3>1, <3>2, <4>1
    <3>3. CASE conn = "closed"
      <4>1. loop' = "ending"
        BY <2>7, <3>3 DEF Hello, SendAccepted, Reply, SendVerdict, Sends
      <4> QED
        BY <3>1, <3>3, <4>1 DEF Owner!Unwind
    <3> QED
      BY <3>1, <3>2, <3>3
  <2>8. CASE SessionOver \/ Interrupted
    BY <2>8 DEF SessionOver, Interrupted, Owner!Unwind
  <2>9. CASE Resume \/ Take \/ Conclude
    <3>1. loop \in InSession /\ loop' \in InSession /\ UNCHANGED <<conn, stop>>
      BY <2>9 DEF Resume, Take, Conclude
    <3> QED
      BY <3>1
  <2>10. CASE Drop
    BY <2>10 DEF Drop, Owner!Drop, SessionInv, SocketInv
  <2>11. CASE RequestStop
    <3>1. CASE loop = "boot"
      BY <2>11, <3>1 DEF RequestStop, SessionInv, SocketInv
    <3>2. CASE conn = "open"
      BY <2>11, <3>2 DEF RequestStop, Owner!Stop, SessionInv, SocketInv
    <3>3. CASE loop # "boot" /\ conn # "open"
      <4>1. UNCHANGED <<loop, conn>> /\ stop' = TRUE
        BY <2>11, <3>3 DEF RequestStop
      <4>2. Place' = Place /\ Place # "boot" /\ Place # "session"
        BY <3>3, <4>1 DEF SessionInv, TypeOK
      <4> QED
        BY <4>1, <4>2 DEF Owner!Stop
    <3> QED
      BY <3>1, <3>2, <3>3
  <2>12. ASSUME NEW c \in Cmds, Arrive(c) PROVE Place' = Place /\ stop' = stop
    BY <2>12 DEF Arrive
  <2>13. CASE UNCHANGED vars
    BY <2>13 DEF vars
  <2> QED
    BY <2>1, <2>2, <2>3, <2>4, <2>5, <2>6, <2>7, <2>8, <2>9, <2>10, <2>11, <2>12, <2>13
    DEF Next, Run
<1> QED
  BY <1>1, <1>2, Invariance, PTL DEF Spec
=============================================================================
