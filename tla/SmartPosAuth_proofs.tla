------------------------- MODULE SmartPosAuth_proofs -------------------------
(* Theorems about SmartPosAuth for any callers, and any number of answers,   *)
(* operator's acts and faults, with their proofs.                            *)
EXTENDS SmartPosAuth, TLAPS

\* What was run has been answered, and the caller has not gone on from there;
\* a call under way has no result, and nothing else sends or revokes.
RunInv ==
  \A c \in Callers :
    /\ pc[c] \in {"send", "revoke"} => job[c] = "call"
    /\ ~Idle(c) => result[c] = "none"
    /\ ran[c] <= 1
    /\ ran[c] = 1 => Idle(c) \/ (pc[c] = "send" /\ answer[c] = "ok")
    /\ pc[c] = "send" /\ answer[c] = "ok" => ran[c] = 1

\* The three writes of one caller are not mixed with those of another.
OneWriter ==
  \A c, d \in Callers : pc[c] \in Keys /\ pc[d] \in Keys => c = d

\* What is written is the token of one answer, over the secrets of another; where
\* a fault has left a mixture, the writes that follow put an end to it.
StoreInv ==
  /\ \A c \in Callers :
       /\ pc[c] = "refresh" => store["access"] = tok[c]
       /\ pc[c] = "expiry"  => store["access"] = tok[c] /\ store["refresh"] = tok[c]
  /\ "torn" \notin harm =>
       /\ HasLoop => store["access"] = store["refresh"] /\ store["refresh"] = store["expiry"]
       /\ \A c \in Callers :
            /\ pc[c] = "access"  => store["access"] = store["refresh"]
            /\ pc[c] # "expiry" /\ pc[c] \in Keys => store["refresh"] = store["expiry"]

\* The token the terminal takes next is in one place: with the one caller that
\* carries it, or else in the store.  While it is carried, no request has it.
CarryInv ==
  "void" \notin harm =>
    /\ \A c \in Callers : pc[c] # "register" /\ (~Idle(c) => job[c] = "call")
    /\ \A c, d \in Callers : Carries(c) /\ Carries(d) => c = d
    /\ (\A c \in Callers : ~Carries(c)) => store["refresh"] = gen
    /\ \A c \in Callers : Carries(c) =>
         /\ tok[c] = gen
         /\ pc[c] # "expiry" => store["refresh"] # gen
         /\ \A d \in Callers : pc[d] = "revoke" /\ answer[d] = "none" => tok[d] # gen

\* A caller that is alone has the terminal's tokens in its hands or in the store.
AloneInv ==
  \A c \in alone : ~Idle(c) =>
    /\ \A d \in Callers : ~Idle(d) => d = c
    /\ pc[c] \in Keys /\ job[c] # "clear" =>
         /\ tok[c] = gen
         /\ pc[c] # "access" => store["access"] = gen
         /\ pc[c] = "expiry" => store["refresh"] = gen
    /\ pc[c] = "register" => job[c] = "register" /\ (answer[c] = "ok" => tok[c] = gen)
    /\ pc[c] \in {"send", "revoke"} => job[c] = "call" /\ tok[c] = gen
    /\ pc[c] = "send" => Sound(store)
    /\ pc[c] = "revoke" => answer[c] # "refused" /\ (answer[c] = "none" => Sound(store))
    /\ job[c] = "call" => gen # 0
    /\ attempt[c] = 2 => answer[c] # "refused"
    /\ attempt[c] = 2 /\ (pc[c] # "revoke" \/ answer[c] = "ok") => ~expired

IInv == TypeOK /\ RunInv /\ OneWriter /\ StoreInv /\ CarryInv /\ AloneInv /\ AloneIsServed

-----------------------------------------------------------------------------
(* The steps.                                                               *)

\* New tokens have a number of their own, within the bound.
LEMMA IssueTypes ==
  ASSUME TypeOK, NEW c \in Callers, PosIssues(c)
  PROVE  /\ gen' \in 0..MaxGen /\ gen' = gen + 1 /\ expired' = FALSE
         /\ tok' \in [Callers -> 0..gen']
         /\ store \in [Keys -> 0..gen'] /\ due \in 0..gen'
         /\ answer' \in [Callers -> {"none", "ok", "refused"}]
<1>1. gen \in Nat /\ gen' = gen + 1 /\ gen' \in 0..MaxGen
  BY AuthAssumption DEF Tokens, Secrets, TypeOK, PosIssues
<1>2. 0..gen \subseteq 0..gen' /\ gen + 1 \in 0..gen'
  BY <1>1
<1>3. tok' \in [Callers -> 0..gen']
  BY <1>1, <1>2 DEF Tokens, Secrets, TypeOK, PosIssues
<1>4. store \in [Keys -> 0..gen'] /\ due \in 0..gen'
  BY <1>2 DEF Tokens, Secrets, TypeOK
<1> QED
  BY <1>1, <1>3, <1>4 DEF Tokens, Secrets, TypeOK, PosIssues

\* A fault is counted, within its bound.
LEMMA FaultTypes ==
  ASSUME TypeOK, Fault \/ UNCHANGED counters
  PROVE  acts' \in 0..MaxActs /\ faults' \in 0..MaxFaults /\ harm' \subseteq Harms
<1>1. CASE Fault
  <2>1. faults \in 0..MaxFaults /\ faults < MaxFaults /\ faults' = faults + 1
    BY <1>1 DEF Fault, TypeOK
  <2>2. faults' \in 0..MaxFaults
    BY <2>1, AuthAssumption
  <2> QED
    BY <1>1, <2>2 DEF Fault, TypeOK
<1>2. CASE UNCHANGED counters
  BY <1>2 DEF counters, TypeOK
<1> QED
  BY <1>1, <1>2

\* Every step keeps the types.
LEMMA TypeStep ==
  ASSUME TypeOK, [Next]_vars
  PROVE  TypeOK'
<1> USE AuthAssumption DEF Tokens, Secrets, TypeOK, Keys, Requests, Results,
           Idle, HasTokens, caller, terminal, counters, history, Harms
<1>1. ASSUME NEW c \in Callers, Call(c) PROVE TypeOK'
  BY <1>1 DEF Call, Begin, Ask, Meets, IsDue, Active
<1>2. ASSUME NEW c \in Callers, Register(c) PROVE TypeOK'
  BY <1>2 DEF Register, Act, Begin, Ask, Meets, Active
<1>3. ASSUME NEW c \in Callers, Clear(c) PROVE TypeOK'
  BY <1>3 DEF Clear, Act, Begin, Ask, Meets, Active
<1>4. ASSUME NEW c \in Callers, NoTokens(c) PROVE TypeOK'
  BY <1>4, FaultTypes DEF NoTokens, Renews
<1>5. ASSUME NEW c \in Callers, Renew(c) PROVE TypeOK'
  BY <1>5 DEF Renew, Renews, Ask
<1>6. ASSUME NEW c \in Callers, Denied(c) PROVE TypeOK'
  BY <1>6 DEF Denied, Finish
<1>7. ASSUME NEW c \in Callers, Served(c) PROVE TypeOK'
  BY <1>7 DEF Served, Finish
<1>8. ASSUME NEW c \in Callers, Error(c) PROVE TypeOK'
  BY <1>8, FaultTypes DEF Error, Fails, Finish
<1>9. ASSUME NEW c \in Callers, Save(c) PROVE TypeOK'
  BY <1>9 DEF Save, Ask
<1>10. ASSUME NEW c \in Callers, Write(c) PROVE TypeOK'
  BY <1>10 DEF Write, NextKey, Ask, Finish
<1>11. ASSUME NEW c \in Callers, WriteFails(c) PROVE TypeOK'
  BY <1>11 DEF WriteFails, Fault, Finish
<1>12. ASSUME NEW c \in Callers, PosRuns(c) PROVE TypeOK'
  BY <1>12 DEF PosRuns, Answers
<1>13. ASSUME NEW c \in Callers, PosRevokes(c) PROVE TypeOK'
  <2>1. CASE tok[c] = gen
    BY <1>13, <2>1, IssueTypes DEF PosRevokes, Answers
  <2>2. CASE tok[c] # gen
    BY <1>13, <2>2 DEF PosRevokes, Answers
  <2> QED
    BY <2>1, <2>2
<1>14. ASSUME NEW c \in Callers, PosRegisters(c) PROVE TypeOK'
  BY <1>14, IssueTypes DEF PosRegisters, Answers
<1>15. CASE Expire
  BY <1>15 DEF Expire
<1>16. CASE Ripen
  BY <1>16 DEF Ripen
<1>17. CASE Crash
  BY <1>17 DEF Crash, Fault
<1>18. CASE UNCHANGED vars
  BY <1>18 DEF vars
<1> QED
  BY <1>1, <1>2, <1>3, <1>4, <1>5, <1>6, <1>7, <1>8, <1>9, <1>10, <1>11,
     <1>12, <1>13, <1>14, <1>15, <1>16, <1>17, <1>18 DEF Next, CallerStep

\* A request that was run is not sent again by its call.
LEMMA RunStep ==
  ASSUME TypeOK, RunInv, [Next]_vars
  PROVE  RunInv'
<1> USE AuthAssumption DEF Tokens, Secrets, TypeOK, RunInv, Keys, Requests,
           Idle, caller, terminal, counters, history
<1>1. ASSUME NEW c \in Callers, Call(c) PROVE RunInv'
  BY <1>1 DEF Call, Begin, Ask, Meets, IsDue
<1>2. ASSUME NEW c \in Callers, Register(c) PROVE RunInv'
  BY <1>2 DEF Register, Act, Begin, Ask, Meets
<1>3. ASSUME NEW c \in Callers, Clear(c) PROVE RunInv'
  BY <1>3 DEF Clear, Act, Begin, Ask, Meets
<1>4. ASSUME NEW c \in Callers, NoTokens(c) PROVE RunInv'
  BY <1>4 DEF NoTokens, Fault, Renews
<1>5. ASSUME NEW c \in Callers, Renew(c) PROVE RunInv'
  BY <1>5 DEF Renew, Renews, Ask
<1>6. ASSUME NEW c \in Callers, Denied(c) PROVE RunInv'
  BY <1>6 DEF Denied, Finish
<1>7. ASSUME NEW c \in Callers, Served(c) PROVE RunInv'
  BY <1>7 DEF Served, Finish
<1>8. ASSUME NEW c \in Callers, Error(c) PROVE RunInv'
  BY <1>8 DEF Error, Fails, Fault, Finish
<1>9. ASSUME NEW c \in Callers, Save(c) PROVE RunInv'
  BY <1>9 DEF Save, Ask
<1>10. ASSUME NEW c \in Callers, Write(c) PROVE RunInv'
  BY <1>10 DEF Write, NextKey, Ask, Finish
<1>11. ASSUME NEW c \in Callers, WriteFails(c) PROVE RunInv'
  BY <1>11 DEF WriteFails, Fault, Finish
<1>12. ASSUME NEW c \in Callers, PosRuns(c) PROVE RunInv'
  BY <1>12 DEF PosRuns, Answers
<1>13. ASSUME NEW c \in Callers, PosRevokes(c) PROVE RunInv'
  BY <1>13 DEF PosRevokes, PosIssues, Answers
<1>14. ASSUME NEW c \in Callers, PosRegisters(c) PROVE RunInv'
  BY <1>14 DEF PosRegisters, PosIssues, Answers
<1>15. CASE Expire
  BY <1>15 DEF Expire
<1>16. CASE Ripen
  BY <1>16 DEF Ripen
<1>17. CASE Crash
  BY <1>17 DEF Crash, Fault
<1>18. CASE UNCHANGED vars
  BY <1>18 DEF vars
<1> QED
  BY <1>1, <1>2, <1>3, <1>4, <1>5, <1>6, <1>7, <1>8, <1>9, <1>10, <1>11,
     <1>12, <1>13, <1>14, <1>15, <1>16, <1>17, <1>18 DEF Next, CallerStep

\* A write begins only where no other is under way.
LEMMA WriterStep ==
  ASSUME TypeOK, OneWriter, [Next]_vars
  PROVE  OneWriter'
<1> USE AuthAssumption DEF Tokens, Secrets, TypeOK, OneWriter, HasLoop, Keys,
           Requests, Idle, caller, terminal, counters, history
<1>1. ASSUME NEW c \in Callers, Call(c) PROVE OneWriter'
  BY <1>1 DEF Call, Begin, Ask, Meets, IsDue
<1>2. ASSUME NEW c \in Callers, Register(c) PROVE OneWriter'
  BY <1>2 DEF Register, Act, Begin, Ask, Meets
<1>3. ASSUME NEW c \in Callers, Clear(c) PROVE OneWriter'
  BY <1>3 DEF Clear, Act, Begin, Ask, Meets
<1>4. ASSUME NEW c \in Callers, NoTokens(c) PROVE OneWriter'
  BY <1>4 DEF NoTokens, Fault, Renews
<1>5. ASSUME NEW c \in Callers, Renew(c) PROVE OneWriter'
  BY <1>5 DEF Renew, Renews, Ask
<1>6. ASSUME NEW c \in Callers, Denied(c) PROVE OneWriter'
  BY <1>6 DEF Denied, Finish
<1>7. ASSUME NEW c \in Callers, Served(c) PROVE OneWriter'
  BY <1>7 DEF Served, Finish
<1>8. ASSUME NEW c \in Callers, Error(c) PROVE OneWriter'
  BY <1>8 DEF Error, Fails, Fault, Finish
<1>9. ASSUME NEW c \in Callers, Save(c) PROVE OneWriter'
  BY <1>9 DEF Save, Ask
<1>10. ASSUME NEW c \in Callers, Write(c) PROVE OneWriter'
  BY <1>10 DEF Write, NextKey, Ask, Finish
<1>11. ASSUME NEW c \in Callers, WriteFails(c) PROVE OneWriter'
  BY <1>11 DEF WriteFails, Fault, Finish
<1>12. ASSUME NEW c \in Callers, PosRuns(c) PROVE OneWriter'
  BY <1>12 DEF PosRuns, Answers
<1>13. ASSUME NEW c \in Callers, PosRevokes(c) PROVE OneWriter'
  BY <1>13 DEF PosRevokes, PosIssues, Answers
<1>14. ASSUME NEW c \in Callers, PosRegisters(c) PROVE OneWriter'
  BY <1>14 DEF PosRegisters, PosIssues, Answers
<1>15. CASE Expire
  BY <1>15 DEF Expire
<1>16. CASE Ripen
  BY <1>16 DEF Ripen
<1>17. CASE Crash
  BY <1>17 DEF Crash, Fault
<1>18. CASE UNCHANGED vars
  BY <1>18 DEF vars
<1> QED
  BY <1>1, <1>2, <1>3, <1>4, <1>5, <1>6, <1>7, <1>8, <1>9, <1>10, <1>11,
     <1>12, <1>13, <1>14, <1>15, <1>16, <1>17, <1>18 DEF Next, CallerStep

\* A save overwrites all three secrets before anyone reads them.
LEMMA StoreStep ==
  ASSUME TypeOK, OneWriter, StoreInv, [Next]_vars
  PROVE  StoreInv'
<1> USE AuthAssumption DEF Tokens, Secrets, TypeOK, OneWriter, StoreInv,
           HasLoop, Keys, Requests, Idle, caller, terminal, counters, history, Harms
<1>1. ASSUME NEW c \in Callers, Call(c) PROVE StoreInv'
  BY <1>1 DEF Call, Begin, Ask, Meets, IsDue
<1>2. ASSUME NEW c \in Callers, Register(c) PROVE StoreInv'
  BY <1>2 DEF Register, Act, Begin, Ask, Meets
<1>3. ASSUME NEW c \in Callers, Clear(c) PROVE StoreInv'
  BY <1>3 DEF Clear, Act, Begin, Ask, Meets
<1>4. ASSUME NEW c \in Callers, NoTokens(c) PROVE StoreInv'
  BY <1>4 DEF NoTokens, Fault, Renews
<1>5. ASSUME NEW c \in Callers, Renew(c) PROVE StoreInv'
  BY <1>5 DEF Renew, Renews, Ask
<1>6. ASSUME NEW c \in Callers, Denied(c) PROVE StoreInv'
  BY <1>6 DEF Denied, Finish
<1>7. ASSUME NEW c \in Callers, Served(c) PROVE StoreInv'
  BY <1>7 DEF Served, Finish
<1>8. ASSUME NEW c \in Callers, Error(c) PROVE StoreInv'
  BY <1>8 DEF Error, Fails, Fault, Finish
<1>9. ASSUME NEW c \in Callers, Save(c) PROVE StoreInv'
  BY <1>9 DEF Save, Ask
<1>10. ASSUME NEW c \in Callers, Write(c) PROVE StoreInv'
  BY <1>10 DEF Write, NextKey, Ask, Finish
<1>11. ASSUME NEW c \in Callers, WriteFails(c) PROVE StoreInv'
  BY <1>11 DEF WriteFails, Fault, Finish
<1>12. ASSUME NEW c \in Callers, PosRuns(c) PROVE StoreInv'
  BY <1>12 DEF PosRuns, Answers
<1>13. ASSUME NEW c \in Callers, PosRevokes(c) PROVE StoreInv'
  BY <1>13 DEF PosRevokes, PosIssues, Answers
<1>14. ASSUME NEW c \in Callers, PosRegisters(c) PROVE StoreInv'
  BY <1>14 DEF PosRegisters, PosIssues, Answers
<1>15. CASE Expire
  BY <1>15 DEF Expire
<1>16. CASE Ripen
  BY <1>16 DEF Ripen
<1>17. CASE Crash
  BY <1>17 DEF Crash, Fault
<1>18. CASE UNCHANGED vars
  BY <1>18 DEF vars
<1> QED
  BY <1>1, <1>2, <1>3, <1>4, <1>5, <1>6, <1>7, <1>8, <1>9, <1>10, <1>11,
     <1>12, <1>13, <1>14, <1>15, <1>16, <1>17, <1>18 DEF Next, CallerStep

\* The terminal gives new tokens only for the one it gave last.
LEMMA CarryStep ==
  ASSUME TypeOK, OneWriter, StoreInv, CarryInv, AloneInv, [Next]_vars
  PROVE  CarryInv'
<1> USE AuthAssumption DEF Tokens, Secrets, TypeOK, OneWriter, StoreInv,
           CarryInv, Carries, HasLoop, Keys, Requests, Idle, caller, terminal,
           counters, history, Harms
<1>1. ASSUME NEW c \in Callers, Call(c) PROVE CarryInv'
  BY <1>1 DEF Call, Begin, Ask, Meets, IsDue
<1>2. ASSUME NEW c \in Callers, Register(c) PROVE CarryInv'
  BY <1>2 DEF Register, Act, Begin, Ask, Meets
<1>3. ASSUME NEW c \in Callers, Clear(c) PROVE CarryInv'
  BY <1>3 DEF Clear, Act, Begin, Ask, Meets
<1>4. ASSUME NEW c \in Callers, NoTokens(c) PROVE CarryInv'
  BY <1>4 DEF NoTokens, Fault, Renews
<1>5. ASSUME NEW c \in Callers, Renew(c) PROVE CarryInv'
  BY <1>5 DEF Renew, Renews, Ask
<1>6. ASSUME NEW c \in Callers, Denied(c) PROVE CarryInv'
  BY <1>6 DEF Denied, Finish
<1>7. ASSUME NEW c \in Callers, Served(c) PROVE CarryInv'
  BY <1>7 DEF Served, Finish
<1>8. ASSUME NEW c \in Callers, Error(c) PROVE CarryInv'
  BY <1>8 DEF Error, Fails, Fault, Finish
<1>9. ASSUME NEW c \in Callers, Save(c) PROVE CarryInv'
  BY <1>9 DEF Save, Ask
<1>10. ASSUME NEW c \in Callers, Write(c) PROVE CarryInv'
  <2>1. CASE pc[c] = "expiry" /\ job[c] = "register" /\ c \in alone
    BY <1>10, <2>1 DEF Write, NextKey, Ask, Finish, AloneInv
  <2>2. CASE ~(pc[c] = "expiry" /\ job[c] = "register" /\ c \in alone)
    BY <1>10, <2>2 DEF Write, NextKey, Ask, Finish
  <2> QED
    BY <2>1, <2>2
<1>11. ASSUME NEW c \in Callers, WriteFails(c) PROVE CarryInv'
  BY <1>11 DEF WriteFails, Fault, Finish
<1>12. ASSUME NEW c \in Callers, PosRuns(c) PROVE CarryInv'
  BY <1>12 DEF PosRuns, Answers
<1>13. ASSUME NEW c \in Callers, PosRevokes(c) PROVE CarryInv'
  BY <1>13 DEF PosRevokes, PosIssues, Answers
<1>14. ASSUME NEW c \in Callers, PosRegisters(c) PROVE CarryInv'
  BY <1>14 DEF PosRegisters, PosIssues, Answers
<1>15. CASE Expire
  BY <1>15 DEF Expire
<1>16. CASE Ripen
  BY <1>16 DEF Ripen
<1>17. CASE Crash
  BY <1>17 DEF Crash, Fault
<1>18. CASE UNCHANGED vars
  BY <1>18 DEF vars
<1> QED
  BY <1>1, <1>2, <1>3, <1>4, <1>5, <1>6, <1>7, <1>8, <1>9, <1>10, <1>11,
     <1>12, <1>13, <1>14, <1>15, <1>16, <1>17, <1>18 DEF Next, CallerStep

\* Nobody else changes what a lone caller relies on.
LEMMA AloneStep ==
  ASSUME TypeOK, OneWriter, AloneInv, [Next]_vars
  PROVE  AloneInv'
<1> USE AuthAssumption DEF Tokens, Secrets, TypeOK, AloneInv, HasLoop,
           HasTokens, Sound, Active, Keys, Requests, Idle, caller, terminal,
           counters, history
<1>1. ASSUME NEW c \in Callers, Call(c) PROVE AloneInv'
  BY <1>1 DEF Call, Begin, Ask, Meets, IsDue
<1>2. ASSUME NEW c \in Callers, Register(c) PROVE AloneInv'
  BY <1>2 DEF Register, Act, Begin, Ask, Meets
<1>3. ASSUME NEW c \in Callers, Clear(c) PROVE AloneInv'
  BY <1>3 DEF Clear, Act, Begin, Ask, Meets
<1>4. ASSUME NEW c \in Callers, NoTokens(c) PROVE AloneInv'
  BY <1>4 DEF NoTokens, Fault, Renews
<1>5. ASSUME NEW c \in Callers, Renew(c) PROVE AloneInv'
  BY <1>5 DEF Renew, Renews, Ask
<1>6. ASSUME NEW c \in Callers, Denied(c) PROVE AloneInv'
  BY <1>6 DEF Denied, Finish
<1>7. ASSUME NEW c \in Callers, Served(c) PROVE AloneInv'
  BY <1>7 DEF Served, Finish
<1>8. ASSUME NEW c \in Callers, Error(c) PROVE AloneInv'
  BY <1>8 DEF Error, Fails, Fault, Finish
<1>9. ASSUME NEW c \in Callers, Save(c) PROVE AloneInv'
  BY <1>9 DEF Save, Ask
<1>10. ASSUME NEW c \in Callers, Write(c) PROVE AloneInv'
  BY <1>10 DEF Write, NextKey, Ask, Finish
<1>11. ASSUME NEW c \in Callers, WriteFails(c) PROVE AloneInv'
  BY <1>11 DEF WriteFails, Fault, Finish
<1>12. ASSUME NEW c \in Callers, PosRuns(c) PROVE AloneInv'
  BY <1>12 DEF PosRuns, Answers
<1>13. ASSUME NEW c \in Callers, PosRevokes(c) PROVE AloneInv'
  BY <1>13 DEF PosRevokes, PosIssues, Answers
<1>14. ASSUME NEW c \in Callers, PosRegisters(c) PROVE AloneInv'
  BY <1>14 DEF PosRegisters, PosIssues, Answers
<1>15. CASE Expire
  BY <1>15 DEF Expire
<1>16. CASE Ripen
  BY <1>16 DEF Ripen
<1>17. CASE Crash
  BY <1>17 DEF Crash, Fault
<1>18. CASE UNCHANGED vars
  BY <1>18 DEF vars
<1> QED
  BY <1>1, <1>2, <1>3, <1>4, <1>5, <1>6, <1>7, <1>8, <1>9, <1>10, <1>11,
     <1>12, <1>13, <1>14, <1>15, <1>16, <1>17, <1>18 DEF Next, CallerStep

\* A lone caller has a valid token, or one that it can renew.
LEMMA ServedStep ==
  ASSUME TypeOK, AloneInv, AloneIsServed, [Next]_vars
  PROVE  AloneIsServed'
<1> USE AuthAssumption DEF Tokens, Secrets, TypeOK, AloneInv, AloneIsServed,
           HasLoop, HasTokens, Sound, Active, Keys, Requests, Idle, caller,
           terminal, counters, history
<1>1. ASSUME NEW c \in Callers, Call(c) PROVE AloneIsServed'
  BY <1>1 DEF Call, Begin, Ask, Meets, IsDue
<1>2. ASSUME NEW c \in Callers, Register(c) PROVE AloneIsServed'
  BY <1>2 DEF Register, Act, Begin, Ask, Meets
<1>3. ASSUME NEW c \in Callers, Clear(c) PROVE AloneIsServed'
  BY <1>3 DEF Clear, Act, Begin, Ask, Meets
<1>4. ASSUME NEW c \in Callers, NoTokens(c) PROVE AloneIsServed'
  BY <1>4 DEF NoTokens, Fault, Renews
<1>5. ASSUME NEW c \in Callers, Renew(c) PROVE AloneIsServed'
  BY <1>5 DEF Renew, Renews, Ask
<1>6. ASSUME NEW c \in Callers, Denied(c) PROVE AloneIsServed'
  BY <1>6 DEF Denied, Finish
<1>7. ASSUME NEW c \in Callers, Served(c) PROVE AloneIsServed'
  BY <1>7 DEF Served, Finish
<1>8. ASSUME NEW c \in Callers, Error(c) PROVE AloneIsServed'
  BY <1>8 DEF Error, Fails, Fault, Finish
<1>9. ASSUME NEW c \in Callers, Save(c) PROVE AloneIsServed'
  BY <1>9 DEF Save, Ask
<1>10. ASSUME NEW c \in Callers, Write(c) PROVE AloneIsServed'
  BY <1>10 DEF Write, NextKey, Ask, Finish
<1>11. ASSUME NEW c \in Callers, WriteFails(c) PROVE AloneIsServed'
  BY <1>11 DEF WriteFails, Fault, Finish
<1>12. ASSUME NEW c \in Callers, PosRuns(c) PROVE AloneIsServed'
  BY <1>12 DEF PosRuns, Answers
<1>13. ASSUME NEW c \in Callers, PosRevokes(c) PROVE AloneIsServed'
  BY <1>13 DEF PosRevokes, PosIssues, Answers
<1>14. ASSUME NEW c \in Callers, PosRegisters(c) PROVE AloneIsServed'
  BY <1>14 DEF PosRegisters, PosIssues, Answers
<1>15. CASE Expire
  BY <1>15 DEF Expire
<1>16. CASE Ripen
  BY <1>16 DEF Ripen
<1>17. CASE Crash
  BY <1>17 DEF Crash, Fault
<1>18. CASE UNCHANGED vars
  BY <1>18 DEF vars
<1> QED
  BY <1>1, <1>2, <1>3, <1>4, <1>5, <1>6, <1>7, <1>8, <1>9, <1>10, <1>11,
     <1>12, <1>13, <1>14, <1>15, <1>16, <1>17, <1>18 DEF Next, CallerStep

\* A lone registration ends well by its last write, with all three written.
LEMMA RepairStep ==
  ASSUME TypeOK, RunInv, AloneInv, [Next]_vars, NEW c \in alone,
         job[c] = "register", ~Idle(c), result'[c] = "ok"
  PROVE  Sound(store)'
<1> USE AuthAssumption DEF Tokens, Secrets, TypeOK, RunInv, AloneInv, Sound,
           Keys, Requests, Idle, caller, terminal, counters, history
<1>1. ASSUME NEW d \in Callers, Call(d) PROVE Sound(store)'
  BY <1>1 DEF Call, Begin, Ask, Meets, IsDue
<1>2. ASSUME NEW d \in Callers, Register(d) PROVE Sound(store)'
  BY <1>2 DEF Register, Act, Begin, Ask, Meets
<1>3. ASSUME NEW d \in Callers, Clear(d) PROVE Sound(store)'
  BY <1>3 DEF Clear, Act, Begin, Ask, Meets
<1>4. ASSUME NEW d \in Callers, NoTokens(d) PROVE Sound(store)'
  BY <1>4 DEF NoTokens, Fault, Renews
<1>5. ASSUME NEW d \in Callers, Renew(d) PROVE Sound(store)'
  BY <1>5 DEF Renew, Renews, Ask
<1>6. ASSUME NEW d \in Callers, Denied(d) PROVE Sound(store)'
  BY <1>6 DEF Denied, Finish
<1>7. ASSUME NEW d \in Callers, Served(d) PROVE Sound(store)'
  BY <1>7 DEF Served, Finish
<1>8. ASSUME NEW d \in Callers, Error(d) PROVE Sound(store)'
  BY <1>8 DEF Error, Fails, Fault, Finish
<1>9. ASSUME NEW d \in Callers, Save(d) PROVE Sound(store)'
  BY <1>9 DEF Save, Ask
<1>10. ASSUME NEW d \in Callers, Write(d) PROVE Sound(store)'
  BY <1>10 DEF Write, NextKey, Ask, Finish
<1>11. ASSUME NEW d \in Callers, WriteFails(d) PROVE Sound(store)'
  BY <1>11 DEF WriteFails, Fault, Finish
<1>12. ASSUME NEW d \in Callers, PosRuns(d) PROVE Sound(store)'
  BY <1>12 DEF PosRuns, Answers
<1>13. ASSUME NEW d \in Callers, PosRevokes(d) PROVE Sound(store)'
  BY <1>13 DEF PosRevokes, PosIssues, Answers
<1>14. ASSUME NEW d \in Callers, PosRegisters(d) PROVE Sound(store)'
  BY <1>14 DEF PosRegisters, PosIssues, Answers
<1>15. CASE Expire
  BY <1>15 DEF Expire
<1>16. CASE Ripen
  BY <1>16 DEF Ripen
<1>17. CASE Crash
  BY <1>17 DEF Crash, Fault
<1>18. CASE UNCHANGED vars
  BY <1>18 DEF vars
<1> QED
  BY <1>1, <1>2, <1>3, <1>4, <1>5, <1>6, <1>7, <1>8, <1>9, <1>10, <1>11,
     <1>12, <1>13, <1>14, <1>15, <1>16, <1>17, <1>18 DEF Next, CallerStep

\* Each step is one that the abstract call allows, or invisible to its user.
LEMMA CallStep ==
  ASSUME TypeOK, RunInv, [Next]_vars
  PROVE  [Contract!CallNext]_(Contract!CallVars)
<1> DEFINE stage == [c \in Callers |-> StageOf(c)]
<1> SUFFICES Contract!CallNext \/ (stage' = stage /\ ran' = ran)
  BY DEF Contract!CallVars
<1> USE DEF TypeOK, RunInv, Idle, StageOf, caller, terminal, counters, history
<1>turn. ASSUME NEW c \in Callers, NEW s \in {"asking", "denied", "none"},
                stage[c] # "asking", stage' = [stage EXCEPT ![c] = s],
                ran' = [ran EXCEPT ![c] = 0]
         PROVE  Contract!CallNext
  <2>1. Contract!Goes(c, s) /\ Contract!Free(c)
    BY <1>turn DEF Contract!Goes, Contract!Free
  <2> QED
    BY ONLY c \in Callers, <1>turn, <2>1 DEF Contract!CallNext, Contract!Turn
<1>return. ASSUME NEW c \in Callers, NEW e \in {"ok", "denied", "error"},
                  stage[c] = "asking", stage' = [stage EXCEPT ![c] = e], ran' = ran,
                  e = "ok" => ran[c] = 1, e = "denied" => ran[c] = 0
           PROVE  Contract!CallNext
  <2>1. Contract!Goes(c, e) /\ e \in Contract!Ends
    BY <1>return DEF Contract!Goes, Contract!Ends
  <2>2. Contract!Return(c)
    BY ONLY <1>return, <2>1 DEF Contract!Return
  <2> QED
    BY <2>2 DEF Contract!CallNext
<1>1. ASSUME NEW c \in Callers, Call(c) \/ Register(c) \/ Clear(c)
      PROVE  Contract!CallNext
  <2>1. PICK j \in {"call", "register", "clear"}, r \in Requests \cup Keys, t \in Tokens :
          Begin(c, j, r, t)
    BY <1>1 DEF Call, Register, Clear, Requests, Keys, Secrets, Tokens
  <2>2. /\ Idle(c) /\ ran' = [ran EXCEPT ![c] = 0]
        /\ pc' = [pc EXCEPT ![c] = r] /\ job' = [job EXCEPT ![c] = j]
        /\ result' = [result EXCEPT ![c] = "none"] /\ r # "idle"
    BY <2>1 DEF Begin, Ask, Requests, Keys
  <2>3. stage[c] # "asking"
    BY <2>2 DEF Results
  <2>4. stage' = [stage EXCEPT ![c] = IF j = "call" THEN "asking" ELSE "none"]
    BY <2>2
  <2> QED
    BY <2>2, <2>3, <2>4, <1>turn
<1>2. ASSUME NEW c \in Callers, NoTokens(c) PROVE Contract!CallNext
  <2>1. stage' = [stage EXCEPT ![c] = "denied"]
    BY <1>2 DEF NoTokens
  <2>2. CASE Idle(c)
    <3>1. stage[c] # "asking" /\ ran' = [ran EXCEPT ![c] = 0]
      BY <1>2, <2>2 DEF NoTokens, Results
    <3> QED
      BY <2>1, <3>1, <1>turn
  <2>3. CASE Renews(c)
    <3>1. stage[c] = "asking" /\ ran' = ran
      BY <1>2, <2>3 DEF NoTokens, Renews
    <3>2. ran[c] = 0
      BY <2>3 DEF Renews
    <3> QED
      BY <2>1, <3>1, <3>2, <1>return
  <2> QED
    BY <1>2, <2>2, <2>3 DEF NoTokens
<1>3. ASSUME NEW c \in Callers, Denied(c) PROVE Contract!CallNext
  <2>1. stage[c] = "asking" /\ ran' = ran /\ ran[c] = 0
    BY <1>3 DEF Denied
  <2>2. stage' = [stage EXCEPT ![c] = "denied"]
    BY <1>3 DEF Denied, Finish
  <2> QED
    BY <2>1, <2>2, <1>return
<1>4. ASSUME NEW c \in Callers, Served(c) PROVE Contract!CallNext
  <2>1. stage[c] = "asking" /\ ran' = ran
    BY <1>4 DEF Served, Finish
  <2>2. stage' = [stage EXCEPT ![c] = "ok"]
    BY <1>4 DEF Served, Finish
  <2>3. ran[c] = 1
    BY <1>4 DEF Served
  <2> QED
    BY <2>1, <2>2, <2>3, <1>return
<1>5. ASSUME NEW c \in Callers, Error(c) \/ WriteFails(c), job[c] = "call"
      PROVE  Contract!CallNext
  <2>1. stage[c] = "asking" /\ ran' = ran
    BY <1>5 DEF Error, Fails, WriteFails, Requests, Keys
  <2>2. Finish(c, "error")
    BY <1>5 DEF Error, WriteFails
  <2>3. stage' = [stage EXCEPT ![c] = "error"]
    BY <1>5, <2>2 DEF Finish
  <2> QED
    BY <2>1, <2>3, <1>return
<1>6. ASSUME NEW c \in Callers, Error(c) \/ WriteFails(c), job[c] # "call"
      PROVE  stage' = stage /\ ran' = ran
  BY <1>6 DEF Error, WriteFails, Finish
<1>7. ASSUME NEW c \in Callers, Renew(c) \/ Save(c)
      PROVE  stage' = stage /\ ran' = ran
  BY <1>7 DEF Renew, Renews, Save, Ask
<1>8. ASSUME NEW c \in Callers, Write(c) PROVE stage' = stage /\ ran' = ran
  <2>1. CASE job[c] = "call" \/ pc[c] # "expiry"
    BY <1>8, <2>1 DEF Write, NextKey, Ask, Keys
  <2>2. CASE job[c] # "call" /\ pc[c] = "expiry"
    BY <1>8, <2>2 DEF Write, Finish, Keys
  <2> QED
    BY <2>1, <2>2
<1>9. ASSUME NEW c \in Callers, PosRuns(c)
      PROVE  Contract!CallNext \/ (stage' = stage /\ ran' = ran)
  <2>1. stage' = stage /\ stage[c] = "asking" /\ ran[c] = 0
    BY <1>9 DEF PosRuns, Answers
  <2>2. CASE tok[c] = gen /\ ~expired
    <3>1. ran' = [ran EXCEPT ![c] = 1]
      BY <1>9, <2>1, <2>2 DEF PosRuns
    <3> QED
      BY <2>1, <3>1 DEF Contract!CallNext, Contract!Run
  <2>3. CASE ~(tok[c] = gen /\ ~expired)
    BY <1>9, <2>1, <2>3 DEF PosRuns
  <2> QED
    BY <2>2, <2>3
<1>10. ASSUME NEW c \in Callers, PosRevokes(c) \/ PosRegisters(c)
       PROVE  stage' = stage /\ ran' = ran
  BY <1>10 DEF PosRevokes, PosRegisters
<1>11. CASE Expire \/ Ripen
  BY <1>11 DEF Expire, Ripen
<1>12. CASE Crash
  <2>1. stage' = [c \in Callers |-> "none"] /\ ran' = ran
    BY <1>12 DEF Crash
  <2> QED
    BY <2>1 DEF Contract!CallNext, Contract!Lost
<1>13. CASE UNCHANGED vars
  BY <1>13 DEF vars
<1> QED
  BY <1>1, <1>2, <1>3, <1>4, <1>5, <1>6, <1>7, <1>8, <1>9, <1>10, <1>11, <1>12, <1>13
  DEF Next, CallerStep

-----------------------------------------------------------------------------
(* The theorems.                                                            *)

\* All secrets are of one answer, and nobody has been called yet.
LEMMA InitInv == Init => IInv
<1> SUFFICES ASSUME Init PROVE IInv
  OBVIOUS
<1> USE AuthAssumption DEF Init, Keys, Idle
<1>1. TypeOK
  <2>1. gen \in 0..MaxGen /\ gen \in 0..gen /\ 0 \in 0..gen
    OBVIOUS
  <2>2. 0 \in 0..MaxActs /\ 0 \in 0..MaxFaults /\ 1 \in 1..2 /\ 0 \in Nat
    OBVIOUS
  <2>3. store \in [Keys -> 0..gen]
    BY <2>1
  <2>4. tok \in [Callers -> 0..gen] /\ attempt \in [Callers -> 1..2] /\ ran \in [Callers -> Nat]
    BY <2>1, <2>2
  <2> QED
    BY <2>1, <2>2, <2>3, <2>4 DEF Tokens, Secrets, TypeOK, Results
<1>2. RunInv /\ OneWriter /\ AloneInv /\ AloneIsServed
  BY DEF RunInv, OneWriter, AloneInv, AloneIsServed
<1>3. StoreInv
  BY DEF StoreInv
<1>4. CarryInv
  BY DEF CarryInv, Carries
<1> QED
  BY <1>1, <1>2, <1>3, <1>4 DEF IInv

\* The steps keep the whole invariant.
LEMMA NextInv == IInv /\ [Next]_vars => IInv'
BY TypeStep, RunStep, WriterStep, StoreStep, CarryStep, AloneStep, ServedStep DEF IInv

\* The inductive invariant holds in every behaviour.
THEOREM Invariance == Spec => []IInv
BY InitInv, NextInv, PTL DEF Spec

\* The variables have their types.
THEOREM TypeCorrect == Spec => []TypeOK
<1>1. IInv => TypeOK
  BY DEF IInv
<1> QED
  BY Invariance, <1>1, PTL

\* However calls, refreshes, registrations and faults interleave, the retry of
\* _authenticated_request never has a request run twice.
THEOREM NeverRunTwice == Spec => []RunOnce
<1>1. IInv => RunOnce
  BY DEF IInv, RunInv, RunOnce
<1> QED
  BY Invariance, <1>1, PTL

\* Any number of callers may refresh at once: the agent stays able to refresh.
THEOREM StaysIn == Spec => []NotLockedOut
<1>1. IInv => NotLockedOut
  BY DEF IInv, CarryInv, NotLockedOut
<1> QED
  BY Invariance, <1>1, PTL

\* Without a fault, nobody reads a mixture of two answers.
THEOREM NoMixture == Spec => []OneAnswerStored
<1>1. IInv => OneAnswerStored
  BY DEF IInv, StoreInv, OneAnswerStored
<1> QED
  BY Invariance, <1>1, PTL

\* A call that meets no other is not refused for its tokens.
THEOREM LoneCallServed == Spec => []AloneIsServed
<1>1. IInv => AloneIsServed
  BY DEF IInv
<1> QED
  BY Invariance, <1>1, PTL

\* For any callers and faults the token keeping is invisible to the users of the
\* client: an AuthenticationError means that nothing was run, a result that the
\* request was run once.
THEOREM CallImplemented == Spec => ImplementsCall
<1>1. Init => Contract!CallInit
  BY DEF Init, StageOf, Idle, Contract!CallInit
<1>2. IInv /\ [Next]_vars => [Contract!CallNext]_(Contract!CallVars)
  BY CallStep DEF IInv
<1> QED
  BY Invariance, <1>1, <1>2, PTL DEF Spec, ImplementsCall, Contract!CallSpec

\* A registration that meets no other call repairs whatever was stored.
THEOREM RegistrationRepairs == Spec => RegisterRepairs
<1>1. IInv /\ [Next]_vars =>
        [\A c \in alone :
           job[c] = "register" /\ ~Idle(c) /\ result'[c] = "ok" => Sound(store)']_vars
  BY RepairStep DEF IInv
<1> QED
  BY Invariance, <1>1, PTL DEF Spec, RegisterRepairs
=============================================================================
