------------------------- MODULE PollTimers_proofs --------------------------
(* Theorems about PollTimers for every interval, timeout and length of the   *)
(* awaits, and any number of interrupted polls, with their proofs.           *)
EXTENDS PollTimers, TLAPS

\* The recorded start of the unknown run is never before its true start, save
\* where _poll is about to forget it: on the way out of a "wait" answer, and
\* between two polls.
SinceInv ==
  /\ now > 0 /\ unknownFrom <= now
  /\ pc = "emit_unknown" => unknownFrom # 0
  /\ pc \notin {"away", "emit_wait"} /\ unknownSince # 0 =>
       unknownFrom # 0 /\ unknownFrom <= unknownSince

Inv == TypeOK /\ SinceInv /\ ReviewOnlyWhenUnknown

USE TimerAssumption DEF Inv, TypeOK, SinceInv, ReviewOnlyWhenUnknown, Awaits, Ends,
                        timers, history, Goto, Heard

\* The clock starts running before anything is unknown.
LEMMA InitInv == Init => Inv
BY DEF Init

\* No await, answer or interruption breaks the invariant.
LEMMA NextInv == Inv /\ [Next]_vars => Inv'
<1> SUFFICES ASSUME Inv, [Next]_vars PROVE Inv'
  OBVIOUS
<1>u. CASE UNCHANGED vars
  BY <1>u DEF vars
<1>1. CASE Tick
  BY <1>1 DEF Tick
<1>2. CASE Enter
  BY <1>2 DEF Enter
<1>3. ASSUME NEW s \in {"wait", "unknown"}, StatusAnswer(s) PROVE Inv'
  <2>1. CASE s = "wait"
    BY <1>3, <2>1 DEF StatusAnswer
  <2>2. CASE s = "unknown"
    BY <1>3, <2>2 DEF StatusAnswer
  <2> QED
    BY <2>1, <2>2
<1>4. CASE Interrupted
  BY <1>4 DEF Interrupted
<1>5. CASE WaitEmitted
  BY <1>5 DEF WaitEmitted
<1>6. CASE UnknownEmitted
  <2>1. unknownFrom # 0 /\ unknownFrom <= UnknownStart /\ UnknownStart \in Nat \ {0}
    BY <1>6 DEF UnknownEmitted, UnknownStart
  <2>2. unknownSince' = UnknownStart /\ UNCHANGED <<now, lastActualize, losses, unknownFrom>>
    BY <1>6 DEF UnknownEmitted
  <2>3. CASE now - UnknownStart >= Timeout /\ Goto("review") /\ UNCHANGED called
    BY <2>1, <2>2, <2>3
  <2>4. CASE Goto("actualize") /\ called' = now
    BY <2>1, <2>2, <2>4
  <2>5. CASE Goto("sleep") /\ UNCHANGED called
    BY <2>1, <2>2, <2>5
  <2> QED
    BY <1>6, <2>3, <2>4, <2>5 DEF UnknownEmitted
<1>7. ASSUME NEW s \in {"wait", "unknown"}, ActualizeAnswer(s) PROVE Inv'
  <2>1. CASE s = "wait"
    BY <1>7, <2>1 DEF ActualizeAnswer
  <2>2. CASE s = "unknown"
    BY <1>7, <2>2 DEF ActualizeAnswer
  <2> QED
    BY <2>1, <2>2
<1>8. CASE Final
  BY <1>8 DEF Final
<1>9. CASE Wake
  BY <1>9 DEF Wake
<1> QED
  BY <1>u, <1>1, <1>2, <1>3, <1>4, <1>5, <1>6, <1>7, <1>8, <1>9 DEF Next

\* For every interval and timeout an operation goes to manual review only
\* after a whole timeout of one poll without any answer but "unknown", however
\* often polls were interrupted and resumed before.
THEOREM ReviewIsJustified == Spec => []ReviewOnlyWhenUnknown
<1>1. Inv => ReviewOnlyWhenUnknown
  OBVIOUS
<1> QED
  BY InitInv, NextInv, <1>1, PTL DEF Spec

\* Every reachable state has the declared types.
THEOREM TimerTypes == Spec => []TypeOK
<1>1. Inv => TypeOK
  OBVIOUS
<1> QED
  BY InitInv, NextInv, <1>1, PTL DEF Spec

(***************************************************************************)
(* How long the run of unknown answers of one poll may be at each label:   *)
(* one await from the answer to the start that _poll records, the timeout  *)
(* until the last decision to go on, and one await for each label since.   *)
(***************************************************************************)
RunBound ==
  unknownFrom # 0 /\ pc # "ended" =>
    /\ unknownSince = 0 => pc = "emit_unknown" /\ since = unknownFrom
    /\ unknownSince # 0 => unknownSince - unknownFrom <= MaxWait
    /\ pc \notin {"away", "emit_wait"}
    /\ pc = "actualize" => since - unknownSince < Timeout
    /\ pc = "sleep" => since - unknownSince < Timeout + MaxWait
    /\ pc = "status" => since - unknownSince < Timeout + 2 * MaxWait
    /\ pc = "emit_unknown" /\ unknownSince # 0 =>
         since - unknownSince < Timeout + 3 * MaxWait
    /\ pc = "review" => since - unknownSince < Timeout + 4 * MaxWait

\* The last call of /actualize is the one that _poll remembers.
CallInv ==
  called # 0 /\ pc # "ended" =>
    /\ pc # "away"
    /\ called = IF pc = "actualize" THEN since ELSE lastActualize

AwaitInv ==
  /\ since <= now /\ now - since <= MaxWait /\ (pc \in Ends => now = since)
  /\ pc = "actualize" => unknownFrom # 0

TimeInv == AwaitInv /\ RunBound /\ CallInv

\* At first no answer has been heard and nothing called.
LEMMA InitTimeInv == Init => TimeInv
BY DEF Init, TimeInv, AwaitInv, RunBound, CallInv

\* No await, however long, and no answer breaks the bounds.
LEMMA NextTimeInv == Inv /\ TimeInv /\ [Next]_vars => TimeInv'
<1> SUFFICES ASSUME Inv, TimeInv, [Next]_vars PROVE TimeInv'
  OBVIOUS
<1> USE DEF TimeInv, AwaitInv, RunBound, CallInv
<1>u. CASE UNCHANGED vars
  BY <1>u DEF vars
<1>1. CASE Tick
  BY <1>1 DEF Tick
<1>2. CASE Enter
  BY <1>2 DEF Enter
<1>3. ASSUME NEW s \in {"wait", "unknown"}, StatusAnswer(s) PROVE TimeInv'
  <2>1. CASE s = "wait"
    BY <1>3, <2>1 DEF StatusAnswer
  <2>2. CASE s = "unknown"
    BY <1>3, <2>2 DEF StatusAnswer
  <2> QED
    BY <2>1, <2>2
<1>4. CASE Interrupted
  BY <1>4 DEF Interrupted
<1>5. CASE WaitEmitted
  BY <1>5 DEF WaitEmitted
<1>6. CASE UnknownEmitted
  <2>1. /\ UnknownStart \in Nat \ {0} /\ unknownSince' = UnknownStart
        /\ UnknownStart = IF unknownSince = 0 THEN now ELSE unknownSince
        /\ UNCHANGED <<now, lastActualize, losses, unknownFrom>> /\ pc = "emit_unknown"
    BY <1>6 DEF UnknownEmitted, UnknownStart
  <2>2. CASE Goto("review") /\ UNCHANGED called
    BY <2>1, <2>2
  <2>3. CASE now - UnknownStart < Timeout /\ Goto("actualize") /\ called' = now
    BY <2>1, <2>3
  <2>4. CASE now - UnknownStart < Timeout /\ Goto("sleep") /\ UNCHANGED called
    BY <2>1, <2>4
  <2> QED
    BY <1>6, <2>2, <2>3, <2>4 DEF UnknownEmitted
<1>7. ASSUME NEW s \in {"wait", "unknown"}, ActualizeAnswer(s) PROVE TimeInv'
  <2>1. CASE s = "wait"
    BY <1>7, <2>1 DEF ActualizeAnswer
  <2>2. CASE s = "unknown"
    BY <1>7, <2>2 DEF ActualizeAnswer
  <2> QED
    BY <2>1, <2>2
<1>8. CASE Final
  BY <1>8 DEF Final
<1>9. CASE Wake
  BY <1>9 DEF Wake
<1> QED
  BY <1>u, <1>1, <1>2, <1>3, <1>4, <1>5, <1>6, <1>7, <1>8, <1>9 DEF Next

\* The bounds hold together with the types in every reachable state.
LEMMA TimeInvariant == Spec => [](Inv /\ TimeInv)
<1>1. Inv /\ TimeInv /\ [Next]_vars => (Inv /\ TimeInv)'
  BY NextInv, NextTimeInv
<1> QED
  BY InitInv, InitTimeInv, <1>1, PTL DEF Spec

\* However often polls were interrupted before, a run of unknown answers of one
\* poll ends, in manual review at the latest, within the timeout and five awaits.
THEOREM ReviewComesInTime == Spec => []ReviewInTime
<1>1. Inv /\ TimeInv => ReviewInTime
  BY DEF TimeInv, AwaitInv, RunBound, ReviewInTime, Slack
<1> QED
  BY TimeInvariant, <1>1, PTL

\* Two calls of /actualize in one poll are at least an interval apart.
THEOREM CallsAreSpaced == Spec => ActualizeIsSpaced
<1> DEFINE Apart == called' \notin {0, called} =>
                      called = 0 \/ called' - called >= Interval
<1>1. Inv /\ TimeInv /\ [Next]_vars => [Apart]_vars
  <2> SUFFICES ASSUME Inv, TimeInv, Next, called' \notin {0, called} PROVE Apart
    OBVIOUS
  <2>1. UnknownEmitted
    BY DEF Next, Tick, Enter, Interrupted, WaitEmitted, Final, Wake, StatusAnswer,
           ActualizeAnswer
  <2>2. now - lastActualize >= Interval /\ called' = now /\ pc = "emit_unknown"
    BY <2>1 DEF UnknownEmitted
  <2> QED
    BY <2>2 DEF TimeInv, CallInv
<1> QED
  BY TimeInvariant, <1>1, PTL DEF Spec, ActualizeIsSpaced
=============================================================================
