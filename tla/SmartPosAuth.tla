---------------------------- MODULE SmartPosAuth ----------------------------
(***************************************************************************)
(* SmartPosClient: the access and refresh tokens in the secret store, the  *)
(* refresh before an expiry, the one refresh and retry after a 401 or 403, *)
(* and registration.  A caller is one coroutine of the agent that uses the *)
(* client: the poll of an operation, a device.check, a check or a          *)
(* registration asked for in the window.  There is no lock: callers        *)
(* interleave at each HTTP request.                                        *)
(*                                                                         *)
(* A token is the number of the answer that carried it (0: no token), and  *)
(* all three secrets of one answer have its number.  Of the terminal,      *)
(* which is not in the repository, it is assumed that /revoke and          *)
(* /register void the tokens given before.                                 *)
(***************************************************************************)
EXTENDS Naturals

CONSTANTS
  Callers,
  MaxGen,     \* bound on the answers with tokens, for model checking
  MaxActs,    \* bound on registrations and clears by the operator
  MaxFaults   \* bound on crashes, lost answers and failures of the secret store

ASSUME AuthAssumption == MaxGen \in Nat /\ MaxActs \in Nat /\ MaxFaults \in Nat

VARIABLES
  store,    \* the three secrets
  pc,       \* where a caller is: a request it awaits, or the secret it writes next
  job,      \* what it was called for
  tok,      \* the token in its request, in the answer to it, or being written
  answer,   \* the terminal's answer, not yet read by the caller
  attempt,  \* 2 once _authenticated_request is in its except branch
  result,   \* how its last call ended
  gen,      \* terminal: the answer whose tokens are valid
  expired,  \* terminal: that access token has expired
  due,      \* agent's clock: the tokens up to this one are due for a refresh
  acts, faults,
  harm,     \* history: what may be wrong with the secrets, see Harms
  ran,      \* history: how often the terminal ran the request of the call
  alone     \* history: the callers whose call met no other; a "call" also began Sound

vars == <<store, pc, job, tok, answer, attempt, result, gen, expired, due, acts,
          faults, harm, ran, alone>>
caller   == <<pc, job, tok, answer, attempt, result>>
terminal == <<gen, expired, due>>
counters == <<acts, faults, harm>>
history  == <<ran, alone>>

Keys     == {"access", "refresh", "expiry"}   \* in the order they are written
Requests == {"send", "revoke", "register"}
Results  == {"none", "ok", "denied", "error"}
Tokens   == 0..gen
Secrets  == [Keys -> Tokens]                  \* what the SecretStore holds
\* torn: a fault since all three secrets were last written; void: a fault or an
\* act of the operator since the last registration that no other call overlapped.
Harms    == {"torn", "void"}

TypeOK ==
  /\ store \in Secrets /\ gen \in 0..MaxGen /\ due \in 0..gen
  /\ pc \in [Callers -> {"idle"} \cup Requests \cup Keys]
  /\ job \in [Callers -> {"call", "register", "clear"}]
  /\ tok \in [Callers -> Tokens]
  /\ answer \in [Callers -> {"none", "ok", "refused"}]
  /\ attempt \in [Callers -> 1..2]
  /\ result \in [Callers -> Results]
  /\ expired \in BOOLEAN
  /\ acts \in 0..MaxActs /\ faults \in 0..MaxFaults /\ harm \subseteq Harms
  /\ ran \in [Callers -> Nat] /\ alone \in SUBSET Callers

Idle(c)  == pc[c] = "idle"
Active   == {c \in Callers : ~Idle(c)}
\* The writes of _save_tokens and clear_credentials have no await between them.
HasLoop  == \A c \in Callers : pc[c] \notin Keys
HasTokens == \A k \in Keys : store[k] # 0
\* The secrets are those of the last answer the terminal gave.
Sound(s) == \A k \in Keys : s[k] = gen

\* c begins, with the terminal's tokens at hand or not.
Meets(c, good) ==
  alone' = IF Active = {} /\ good THEN alone \cup {c} ELSE alone \ (Active \cup {c})

Init ==
  /\ gen \in {0, 1} /\ gen <= MaxGen /\ store = [k \in Keys |-> gen]
  /\ pc = [c \in Callers |-> "idle"] /\ job = [c \in Callers |-> "call"]
  /\ tok = [c \in Callers |-> 0] /\ answer = [c \in Callers |-> "none"]
  /\ attempt = [c \in Callers |-> 1] /\ result = [c \in Callers |-> "none"]
  /\ expired = FALSE /\ due = 0 /\ acts = 0 /\ faults = 0 /\ harm = {}
  /\ ran = [c \in Callers |-> 0] /\ alone = {}

-----------------------------------------------------------------------------
(* Steps of a caller.                                                       *)

\* Sends request r with the token t.
Ask(c, r, t) ==
  /\ pc' = [pc EXCEPT ![c] = r] /\ tok' = [tok EXCEPT ![c] = t]
  /\ answer' = [answer EXCEPT ![c] = "none"]

Finish(c, r) ==
  /\ pc' = [pc EXCEPT ![c] = "idle"] /\ result' = [result EXCEPT ![c] = r]
  /\ answer' = [answer EXCEPT ![c] = "none"]
  /\ UNCHANGED <<job, tok, attempt>>

Fault == faults < MaxFaults /\ faults' = faults + 1 /\ harm' = Harms /\ UNCHANGED acts
Act   == acts < MaxActs /\ acts' = acts + 1 /\ harm' = harm \cup {"void"} /\ UNCHANGED faults

IsDue == store["expiry"] <= due

\* A new call for j begins with request r (or the write r) and the token t.
Begin(c, j, r, t) ==
  /\ HasLoop /\ Idle(c)
  /\ Ask(c, r, t)
  /\ job' = [job EXCEPT ![c] = j] /\ attempt' = [attempt EXCEPT ![c] = 1]
  /\ result' = [result EXCEPT ![c] = "none"] /\ ran' = [ran EXCEPT ![c] = 0]
  /\ Meets(c, j = "call" => Sound(store))
  /\ UNCHANGED <<store, terminal>>

\* _authenticated_request with tokens at hand.
Call(c) ==
  /\ HasTokens
  /\ \/ IsDue  /\ Begin(c, "call", "revoke", store["refresh"])
     \/ ~IsDue /\ Begin(c, "call", "send", store["access"])
  /\ UNCHANGED counters

Register(c) == Act /\ Begin(c, "register", "register", 0)

\* clear_credentials deletes the three secrets one by one.
Clear(c) == Act /\ Begin(c, "clear", "access", 0)

\* Defect: the retry is wrapped as well.
RenewsAgain(c) == pc[c] = "send" /\ answer[c] = "refused"

\* The terminal refused the access token of the first attempt.
Renews(c) == pc[c] = "send" /\ answer[c] = "refused" /\ attempt[c] = 1

\* Defect: the retry repeats the token it had before the refresh.
RenewInPlace(c) ==
  /\ HasLoop /\ Renews(c) /\ HasTokens
  /\ Ask(c, "send", tok[c]) /\ attempt' = [attempt EXCEPT ![c] = @ + 1]
  /\ UNCHANGED <<store, job, result, terminal, counters, history>>

\* refresh_tokens reads the store again: another caller may have refreshed.
Renew(c) ==
  /\ HasLoop /\ Renews(c) /\ HasTokens
  /\ Ask(c, "revoke", store["refresh"]) /\ attempt' = [attempt EXCEPT ![c] = @ + 1]
  /\ UNCHANGED <<store, job, result, terminal, counters, history>>

\* A call's _tokens() is None: a secret is missing, or the store cannot be read.
NoTokens(c) ==
  /\ HasLoop /\ (Idle(c) \/ Renews(c))
  /\ \/ ~HasTokens /\ UNCHANGED counters
     \/ Fault
  /\ alone' = IF Renews(c) /\ ~HasTokens THEN alone ELSE alone \ {c}
  /\ pc' = [pc EXCEPT ![c] = "idle"] /\ answer' = [answer EXCEPT ![c] = "none"]
  /\ result' = [result EXCEPT ![c] = "denied"]
  /\ job' = [job EXCEPT ![c] = "call"]
  /\ ran' = IF Idle(c) THEN [ran EXCEPT ![c] = 0] ELSE ran
  /\ UNCHANGED <<store, tok, attempt, terminal>>

\* An AuthenticationError of the retry or of a /revoke reaches the caller.
Denied(c) ==
  /\ HasLoop /\ answer[c] = "refused"
  /\ \/ pc[c] = "revoke"
     \/ (pc[c] = "send" /\ attempt[c] = 2)
  /\ Finish(c, "denied")
  /\ UNCHANGED <<store, terminal, counters, history>>

Served(c) ==
  /\ HasLoop /\ pc[c] = "send" /\ answer[c] = "ok"
  /\ Finish(c, "ok")
  /\ UNCHANGED <<store, terminal, counters, history>>

\* A timeout, a broken connection, an HTTP or POS error, or a malformed answer.
\* If the answer had tokens, they are lost with it.
Fails(c) ==
  /\ HasLoop /\ pc[c] \in Requests
  /\ IF pc[c] # "send" /\ answer[c] = "ok" THEN Fault ELSE UNCHANGED counters

\* Defect: the except branch takes transport errors too.
ErrorRetried(c) ==
  /\ Fails(c) /\ UNCHANGED <<store, terminal, history>>
  /\ IF pc[c] = "send" /\ attempt[c] = 1
     THEN /\ Ask(c, "send", tok[c]) /\ attempt' = [attempt EXCEPT ![c] = 2]
          /\ UNCHANGED <<job, result>>
     ELSE Finish(c, "error")

Error(c) == Fails(c) /\ Finish(c, "error") /\ UNCHANGED <<store, terminal, history>>

\* Defect: the new tokens are used, but not saved.
SaveForgotten(c) ==
  /\ HasLoop /\ pc[c] \in {"revoke", "register"} /\ answer[c] = "ok"
  /\ IF job[c] = "call" THEN Ask(c, "send", tok[c]) /\ UNCHANGED <<job, attempt, result>>
                        ELSE Finish(c, "ok")
  /\ UNCHANGED <<store, terminal, counters, history>>

\* The answer to /revoke or /register is at hand: _save_tokens begins.
Save(c) ==
  /\ HasLoop /\ pc[c] \in {"revoke", "register"} /\ answer[c] = "ok"
  /\ Ask(c, "access", tok[c])
  /\ UNCHANGED <<store, job, attempt, result, terminal, counters, history>>

\* Defect: the refresh token is kept, as if /revoke returned no new one.
NextKeyKeeping(c) == "expiry"

NextKey(c) == IF pc[c] = "access" THEN "refresh" ELSE "expiry"

\* One set() or delete(); after the last one a call goes on to its request.
Write(c) ==
  /\ pc[c] \in Keys
  /\ store' = [store EXCEPT ![pc[c]] = tok[c]]
  /\ IF pc[c] # "expiry"
     THEN pc' = [pc EXCEPT ![c] = NextKey(c)] /\ UNCHANGED <<job, tok, answer, attempt, result>>
     ELSE IF job[c] = "call"
     THEN Ask(c, "send", tok[c]) /\ UNCHANGED <<job, attempt, result>>
     ELSE Finish(c, "ok")
  /\ harm' = IF pc[c] # "expiry" THEN harm
             ELSE IF job[c] = "register" /\ c \in alone THEN {} ELSE harm \ {"torn"}
  /\ UNCHANGED <<terminal, acts, faults, history>>

\* set() or delete() raises; what was written stays.
WriteFails(c) ==
  /\ pc[c] \in Keys /\ Fault
  /\ Finish(c, "error")
  /\ UNCHANGED <<store, terminal, history>>

-----------------------------------------------------------------------------
(* Steps of the terminal, of time, and of the process.                      *)

Answers(c, r) == pc[c] = r /\ answer[c] = "none"

\* The requested endpoint: run if the access token is valid, else 401 or 403.
PosRuns(c) ==
  /\ Answers(c, "send")
  /\ IF tok[c] = gen /\ ~expired
     THEN answer' = [answer EXCEPT ![c] = "ok"] /\ ran' = [ran EXCEPT ![c] = @ + 1]
     ELSE answer' = [answer EXCEPT ![c] = "refused"] /\ UNCHANGED ran
  /\ UNCHANGED <<store, pc, job, tok, attempt, result, terminal, counters, alone>>

PosIssues(c) ==
  /\ gen < MaxGen
  /\ gen' = gen + 1 /\ expired' = FALSE
  /\ tok' = [tok EXCEPT ![c] = gen + 1] /\ answer' = [answer EXCEPT ![c] = "ok"]

PosRevokes(c) ==
  /\ Answers(c, "revoke")
  /\ IF tok[c] = gen
     THEN PosIssues(c)
     ELSE answer' = [answer EXCEPT ![c] = "refused"] /\ UNCHANGED <<gen, expired, tok>>
  /\ UNCHANGED <<store, pc, job, attempt, result, due, counters, history>>

\* The operator allows the registration on the terminal's screen.
PosRegisters(c) ==
  /\ Answers(c, "register") /\ PosIssues(c)
  /\ UNCHANGED <<store, pc, job, attempt, result, due, counters, history>>

\* The access token expires; a token issued for a retry outlives that retry.
Expire ==
  /\ ~expired /\ gen > 0 /\ \A c \in Active : attempt[c] = 1
  /\ expired' = TRUE
  /\ UNCHANGED <<store, caller, gen, due, counters, history>>

\* The agent's clock comes within 300 s of the stored expiry; the terminal's
\* clock, which decides on Expire, may be another.
Ripen ==
  /\ due' \in (due + 1)..gen
  /\ UNCHANGED <<store, caller, gen, expired, counters, history>>

\* The secrets survive, the callers and the answers to them do not.
Crash ==
  /\ Fault
  /\ pc' = [c \in Callers |-> "idle"] /\ answer' = [c \in Callers |-> "none"]
  /\ result' = [c \in Callers |-> "none"] /\ attempt' = [c \in Callers |-> 1]
  /\ UNCHANGED <<store, job, tok, terminal, history>>

CallerStep(c) ==
  \/ Call(c) \/ Register(c) \/ Clear(c) \/ NoTokens(c) \/ Renew(c) \/ Denied(c)
  \/ Served(c) \/ Error(c) \/ Save(c) \/ Write(c) \/ WriteFails(c)

Next ==
  \/ \E c \in Callers :
       CallerStep(c) \/ PosRuns(c) \/ PosRevokes(c) \/ PosRegisters(c)
  \/ Expire \/ Ripen \/ Crash

Spec == Init /\ [][Next]_vars

-----------------------------------------------------------------------------
\* To its user a call is a TerminalCall; registering and clearing are not calls.
StageOf(c) ==
  IF job[c] # "call" THEN "none" ELSE IF Idle(c) THEN result[c] ELSE "asking"

Contract == INSTANCE TerminalCall
              WITH Users <- Callers, times <- ran,
                   stage <- [c \in Callers |-> StageOf(c)]

\* Whatever expires, is refreshed, retried, registered or lost meanwhile: a result
\* means that the terminal ran the request once, an AuthenticationError that it
\* did not, so that a payment may be reported as failed; and never is a request
\* run again.
ImplementsCall == Contract!CallSpec

\* The retry never has the terminal run a request, a payment say, a second time.
RunOnce == \A c \in Callers : ran[c] <= 1

\* A caller that holds the answer with the tokens that are to be stored.
Carries(c) == (pc[c] = "revoke" /\ answer[c] = "ok") \/ pc[c] \in Keys

\* From the first start, or from a registration that no other call overlapped, up
\* to the next fault or act of the operator, the refresh token at hand is the one
\* the terminal takes: the agent never locks itself out, however many callers
\* refresh at once and in whatever order they read the answers.
NotLockedOut ==
  "void" \notin harm /\ (\A c \in Callers : ~Carries(c)) => store["refresh"] = gen

\* Nobody reads secrets of two answers unless the process or the store failed
\* since the last save or clear that was completed.
OneAnswerStored ==
  "torn" \notin harm /\ HasLoop =>
    store["access"] = store["refresh"] /\ store["refresh"] = store["expiry"]

\* A call that has the client to itself and begins with the terminal's tokens
\* is not refused for its tokens: an expiry, seen beforehand or not, is dealt
\* with by the refresh and the one retry.
AloneIsServed == \A c \in alone : result[c] # "denied"

\* Whatever went wrong before, a registration that no other call overlaps
\* leaves the terminal's tokens in the store.
RegisterRepairs ==
  [][\A c \in alone :
       job[c] = "register" /\ ~Idle(c) /\ result'[c] = "ok" => Sound(store)']_vars
=============================================================================
