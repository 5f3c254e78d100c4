# A TLA+ model of the Smart POS agent

The agent is a Windows process between a cloud CRM and one payment terminal. The
CRM sends `payment.start`, `refund.start` and `device.check` over a WebSocket; the
agent calls the terminal's HTTPS API, polls it for the result, and sends events
back. It must never charge a buyer twice, and never lose an operation that it
started. Two SQLite tables are its memory.

This directory holds the models, their TLC runs and the TLAPS proofs.
`PROJECT.json` lists which lines of the code each definition stands for.

## 1. The system

Paths are below `src/smart_pos_agent/`.

| component | state | operations | hard part |
|---|---|---|---|
| `operations/manager.py` OperationManager | `_operation_lock`; local variables of the running handlers | `handle_payment`, `handle_refund`, `handle_device_check`, `resume_incomplete`, `_poll` and the four verdicts | crash between two writes; duplicates; lost sockets; unknown results; timeouts |
| `storage/` OperationRepository, Database | tables `operations` (UNIQUE `command_id`) and `processed_commands`, autocommitted | insert, update, record, the three queries by status | a row and its recorded response are two writes; a second process on the same file |
| `crm/client.py` CrmClient, `crm/reconnect.py` | `_socket`, `_stop`, backoff attempt | `run`, `_run_session`, `send_event`, `reconnect`, `aclose`, heartbeat | reconnect forever; resume before serving; receive buffer; stop at any moment |
| `smart_pos/` SmartPosClient, SmartPosService | tokens in the secret store, cached device | start, status, actualize, device info, register, refresh and one retry | concurrent refresh, three secrets written one by one |
| `desktop/state.py` AgentStateStore, `events.py` | `AgentUiState` | a fold over the observed events | stale or phantom operation on screen |
| `desktop/runtime.py` AgentRuntime | thread, `_loop`, `_application` | `start`, `stop`, `_submit`, `_thread_main`, `_shutdown` | the GUI thread reads without a lock what the runtime thread clears; the loop drains and closes under posted actions |
| `desktop/main.py`, tray, settings, first run, lock | the lock file, `config.json`, the CRM token | launch, wizard, `save()`, exit, the stopped signal | one save is three writes; a crash inside it; exit against everything the runtime does |
| `application.py`, `cli.py` | wiring | `run`, `close`, `doctor`, `test_payment`, `test_refund` | closing while coroutines still run; the CLI works on the same database file as the agent |
| `config.py`, `logging_config.py`, widgets | settings, layout | I/O | |

**How they interact.** `run_desktop` takes the instance lock, loads the settings, shows
the wizard if they are incomplete, and starts one `AgentRuntime`. Its thread builds the
Application and runs `CrmClient.run` on an event loop of its own; the GUI thread posts
actions to that loop and is told of their results, and of the thread's end, by queued Qt
signals. `CrmClient.run` connects, sends `agent.hello`, awaits `resume_incomplete`, and
then awaits one `_handle_message` after the other. A handler of the OperationManager writes
through the repository (synchronously; each SQL statement commits by itself), awaits the
terminal through SmartPosService, and emits each event twice: to the observer (the window)
and then to `send_event`. A send on a closed socket raises through the handler, which ends
the session; the operation stays in its row, and the resume of the next connection takes it
up.

**What makes each part correct.** The manager: at most one start per command, recorded
first; one active operation; an outcome that is the terminal's, reached in the end, never
changed, told to the CRM without contradiction. The run loop: it serves only when nothing is
left active, comes back after every loss, ends on a stop. The poll's clocks: review only
after a whole timeout of unknown answers, and then in time. The window: it shows the
operation that runs. The Smart POS client: a retry never repeats a request that was run, and
the agent never loses the one refresh token that the terminal takes. The desktop: nothing of
the agent outlives its lock, it never runs unconfigured, its id is generated once, what
the window asks is answered, and a stop that is heard ends the process.

## 2. The modules

| module | what it is |
|---|---|
| `TerminalLedger` | the abstract promise of the manager: each command is rejected, or becomes the one working operation, is requested at most once, and ends once or lapses |
| `OperationManager` | the handlers, the poll, the resume, the two tables, the socket as the handlers see it, crashes, several processes, the terminal; implements `TerminalLedger` |
| `OperationManager_proofs` | types, at most one start, recorded first; for one process one active operation, final outcomes |
| `OperationProcesses_proofs` | for any number of processes: truthful rows, true verdicts, rejected stays off |
| `OperationOutcome_proofs` | for one process: one outcome told, nobody abandoned, outcomes on record, replies that stand, the refinement of `TerminalLedger` |
| `RunLoop` | the abstract promise of `CrmClient.run` to its owner: connect, session, pause; the stop is looked at between two connections only |
| `CrmSession`, `CrmSession_proofs` | `CrmClient.run` with the receive buffer, backoff and stop; an operation is only none, active or ended; implements `RunLoop` |
| `PollTimers`, `PollTimers_proofs` | `unknown_since`, `last_actualize` and the clock of `_poll` |
| `TerminalCall` | the abstract promise of `SmartPosClient` to who calls it: what a result, an AuthenticationError and any other error say of the request |
| `SmartPosAuth`, `SmartPosAuth_proofs` | `SmartPosClient`'s tokens: refresh, one retry, registration, clearing, by several callers at once; implements `TerminalCall` |
| `AgentUi`, `AgentUi_proofs` | extends `OperationManager` with the window's projection of its events |
| `AgentRuntime` | extends `RunLoop` with the runtime thread and the actions posted to it |
| `Desktop`, `Desktop_proofs` | extends `AgentRuntime` with the process around it: lock, wizard, settings, tray, crashes |
| `MC*` | constants for TLC |

The three abstract modules are the joints: `OperationManager` is seen by the CRM as a
`TerminalLedger`; `CrmSession` by `AgentRuntime` as a `RunLoop`, so that `Desktop` need
not carry buffers and commands; and `SmartPosAuth` by the handlers as a `TerminalCall`, so that
`OperationManager` need not carry tokens: its `CallSend` is one call, and its `pos` says more than
`TerminalCall` does only where the handler has no answer (a request that runs after its timeout).

### OperationManager

A *task* is an asyncio task that runs a handler or the resume; `ProcOf` gives its
process. `pc` names where it is. The labels in `Awaits` are the code's `await`s: other
tasks of the process run only there. Those in `Sync` lie between two statements that
another process, or a crash, can separate, but a task of the same process cannot
(`HasLoop`). One SQL statement is one step.

| label | code |
|---|---|
| `locked`, `create`, `record` | inside `async with _operation_lock`, before the second check, the INSERT and the `record_command` |
| `emit`, `answer` | in `_emit`, in the middle of an operation or as its last act |
| `call`, `calling` | before and during `/payment` or `/refund` |
| `poll`, `unknown`, `actualize` | `_poll`: before the `/status` answer, after an unknown one, during `/actualize` |
| `orphans`, `incomplete` | the two loops of `resume_incomplete` |
| `checking` | `device_info` of a `device.check` |

`ops[c]` is the row with command id `c` (status, whether it has a `process_id`, its
error code), `stored[c]` the kind of the recorded response, `pos[c]` what the terminal
knows of the command, `sent[c]` how often `/payment` or `/refund` was called for it,
`told[c]` the verdicts the CRM received. Payments and refunds take the same path and
are not told apart. Amounts, methods and texts are left out.

What is assumed of the terminal (outside the repository): it runs one operation at a time; a
request may be lost, and an answer may be lost or older than the truth (`PosError`, `PollAgain`);
a verdict comes from `/status` or `/actualize`, never from `/payment`, and is never reversed. Code
107 may answer any request, as `client.py:217` raises the same exception for each; only from
`/payment` and `/refund` does it say that the request was not run (`PosBusy`). A status is a plain
string in the code (models.py), written to the row as it comes: besides the four that
docs/crm-websocket-protocol.md:43 calls the main ones, `OtherStatuses` may be answered. A row with
such a status is neither active nor ended; the ledger calls it lapsed. `CallSend` is one call of
`SmartPosService.payment`: its retry after a 401 repeats a request that the terminal refused.

A send on a closed socket leaves the handler and ends the session in one step (`SendRaises`): the
exception passes through `_run_session` and `run()` without another look at the buffer.

### CrmSession

`loop` is the position in `run()`; `hello`, `resume`, `serve`, `accept`, `reply`, `work`
and `verdict` lie within a session, `ending` is its `finally`. `conn = "closed"` is a
connection that is lost but that `run()` has not noticed: buffered messages are still
iterated over, and the next send raises. `asked` remembers where a stop found the loop.
`Place` maps the positions to those of `RunLoop`: a session is `dropped` as soon as its
socket is closed, noticed or not.

### PollTimers

Time is a counter of seconds; each await takes up to `MaxWait` of them. `unknownFrom` and
`called` are history variables, for the properties; they begin anew with each poll, as
`unknown_since` and `last_actualize`, locals of `_poll`, do.

### SmartPosAuth

A *caller* is a coroutine that uses the client: the poll, a `device.check`, a check from the
window, a registration. There is no lock, so callers interleave at each HTTP request
(`send`, `revoke`, `register`: request sent, answered by the terminal, read by the caller are three
steps). A token is the number of the answer that carried it, 0 for none; the three
secrets of `store` hold such numbers. `_save_tokens` and `clear_credentials` are one step per
secret (`pc` names the secret written next), with no other caller in between (`HasLoop`),
but a crash or a failing credential store may come between. The history variable `harm` says
what may be wrong with the secrets since: `torn` from a fault to the end of the next save or
clear, `void` from a fault or an act of the operator to the end of the next registration that no
other call overlapped.

| action | code |
|---|---|
| `Call` | `_authenticated_request` up to its first request, or to `/revoke` if the expiry is due |
| `Renew`, `Denied`, `NoTokens` | the except branch: read the tokens again and refresh; a second refusal, or no tokens, reaches the caller |
| `Register`, `Clear` | `register`, `clear_credentials` |
| `Save`, `Write`, `WriteFails` | `_save_tokens` and the secret store |
| `Error` | every other exception of `_request`: never retried |

Assumed of the terminal: `/revoke` and `/register` void the tokens given before, and a token
issued for a retry outlives that retry (`Expire`). The agent's clock (`due`) and the
terminal's (`expired`) are independent: the code takes a date without a zone for UTC.

### AgentUi

Each step of `OperationManager` that begins an emit folds the event into `ui`, because
`_emit` notifies the observer before it sends. Terminal checks may come at any time. The history
variable `seen` holds the commands that the window was told of since its process began:
`RunningIsShown` is about those, as the resume tells it of an operation only with the first answer
of `/status`.

### AgentRuntime

Two threads. `thread` is where `_thread_main` is: `spawned` until `_loop` is published,
`booting` until `run()` reaches its first await, `running`, `closing` (`Application.close`),
`finishing` (the rest of `asyncio.run`'s main task), `draining` (pending tasks cancelled and
gathered), `closed`, `ended` (both fields cleared, the stopped signal posted). `db` is the
Application's database.

`act[a]` is the stage of an action of the window. `_submit` and `stop` read `_loop` and
`_application` without the lock (`Submit`, stage `held`) and use what they read in a later step
(`Post`), so the thread may go anywhere in between. A callback posted before the main task's
end becomes a task (`posted`); one posted after it is `late`, and is run only if the gather
still waits for something; on a closed loop `call_soon_threadsafe` raises in the GUI
thread. Both end as `lost`: no result signal. `Checks` are the actions that only ask and
end; `reconnect_crm` closes the socket; `stop` is `CrmClient.aclose`.

### Desktop

`proc` is the GUI thread: `loading`, in the first-run `wizard`, or in the `tray`. While `proc` is
not `none` the instance lock is held, so there is one process at most. `dialog` walks through
`save()`: the token, the file, the scheduled task are three writes (`SaveToken`, `SaveConfig`,
`SaveDone`), any of which may be the last (`SaveFails`, `Crash`). `RequestExit` hides the icon
and calls `stop`; `Quit` is the slot of the stopped signal. The token disappears only while no
process runs (`OtherUser`: `config.json` belongs to the machine, the credential store to the
Windows user). Assumed of Qt: `QApplication.quit` ends the process whatever dialog is open.

## 3. The runs

Each property of a passing run has a mutant in `PROJECT.json`: an operator marked
`Defect` in the module, put in the place of the definition it precedes, makes TLC find
the property violated.

| run | instance | shows |
|---|---|---|
| `om_crash` | 1 process, 2 tasks, 2 payments, 2 crashes, 1 status outside the protocol; symmetry | started once, recorded first, one active, truthful rows, true verdicts, a rejection that holds, one outcome told, nobody abandoned, replies that stand, at most one lost outcome per crash, refinement of `TerminalLedger` |
| `cs_session` | 2 commands, buffer of 2; fair | reconnect, resume before serving, a stop that ends it for good, no operation left active, every outcome told to a CRM that asks again, refinement of `RunLoop` with its liveness |
| `dt_desktop` | 2 checks, reconnect, stop, 2 ids, 1 crash; fair | the lock covers the runtime, it starts configured, the id stays, posted actions are answered, a heard stop ends the process |
| `pt_poll` | interval 3, timeout 7, awaits of 1 s, 24 s, 2 interruptions | the review and `/actualize` rules, in each poll |
| `ui_running` | 1 payment, 1 `device.check`, 1 task, 2 crashes; fair | from its first event on, the running operation is the one shown; every accepted operation ends |
| `sp_auth` | 2 callers, 4 answers with tokens, 2 registrations or clears, 1 fault | the valid refresh token is not lost, no mixture is read, a lone call is served, a lone registration repairs, refinement of `TerminalCall` |
| six `violation` runs | the smallest instance with the case | section 5 |

**Bounds.** Two commands are enough for one to disturb another: the code's queries ask
only whether some operation is active, and the proofs lift the safety results to any
number. Two crashes are needed for a row without a record to be met by its own command
again (`CreateCollides`: one crash leaves the row without a record, one leaves its review
unrecorded); a third finds the tables in a state the first two could have left.
No run has two processes: an instance with a session, two commands and a CLI beside it takes
millions of states, and what two processes keep are theorems for any number of them. A
commandId belongs to one process, as the CLI makes its own (`OwnerOf`).
`om_crash` has two tasks, more than `CrmClient` runs, which handles one message at a time: only
direct callers of the manager, as in `test_rejects_second_parallel_operation`, run more than one.
Its commands and its tasks are alike and its properties are safety, so both sets are symmetric.
In one process the lock and the check for an active operation cover for each other, so that no bug
in one of them alone breaks `SingleActive`; its mutant is in the resume, which must not take up a row
that has ended. Liveness is checked without symmetry in `ui_running`, for one payment: a second one is accepted
only when the first is no longer active, and what may keep one from ending is its own row, handler
and socket. The `device.check` is in that run, and not in `om_crash`, where `Checks` is empty: it
writes one response and no row, and beside two payments and two tasks it takes a million states;
that it disturbs nothing of theirs is in the theorems, for any `Checks`. `OtherStatuses` is empty in
`ui_running`, as a row that lapses is never resumed and `EveryOperationEnds` does not hold of it. In
`CrmSession`, `AttemptCap` stops the count of attempts and `FloatLimit` stands for 1024, the
exponent at which `minimum * 2**attempt` leaves the floats; in `cs_session` the cap is below
the limit, so its liveness is that of an agent with fewer than 1024 failed connects in a row.
In `dt_desktop` two checks are needed for one to be cancelled while another is posted late;
an action of the same kind asked again while the first is under way is one more of them;
two ids show a change of id, one crash any half of a save. In `pt_poll` the ratio of
interval to timeout leaves room for two calls of `/actualize` before the review. In
`sp_auth` two callers suffice for every overlap of two saves, refreshes or registrations, and
four answers for a refresh before the expiry, one after a refusal and a registration in one
behaviour; its theorems hold for any number of each. `CHECK_DEADLOCK FALSE` stands where the
program ends (a stopped agent, a finished poll) or the clock does.

**Fairness.** `OperationManager!FairSpec`: a ready task is run (`WF` on `Handle`: the event
loop starves nobody); `run()` tries to connect for ever (`WF` on `LinkUp`) and leaves a
lost session (`WF` on `LinkEnd`: the first send of a command still in its buffer raises,
which ends the session too); the terminal settles what it runs and, asked
again and again, says so (`WF` on `PosDecide`, `SF` on `PosFinal`). Losing the socket is
never fair, and the CRM need not send anything. `AgentUi!FairUiSpec` is the same with the window. `CrmSession!FairSpec` is the same for the
run loop, with `SF` on a connect and on a hello that goes through: without those a
network that is always down would refute every progress property. `OutcomeIsTold`
states its further assumption, a CRM that repeats the command, as its antecedent.
`RunLoop` promises `WF` on what `run()` does by itself, which `cs_session` checks of
`CrmSession`. `Desktop!FairSpec`: the runtime thread and the loop's callbacks and tasks go on
(`WF`; the requests of an action have timeouts), a `save()` ends, the GUI thread that has read
the fields goes on to use them (`WF` on `PostHeld`), and it comes to the stopped signal
(`SF` on `Quit`: Qt's queue is first in, first out, but the operator may click between any two
events). No launch, click or crash is fair.

## 4. What is proved

**The manager, any number of processes** (`OperationManager_proofs`): `TypeCorrect`,
`StartedOnce` (`AtMostOneStart`), `RecordedFirst` (`RecordedBeforeSent`). The inductive
invariant is `TypeInv /\ StartInv`. `StartInv` says that a command between its INSERT and its
call (`BeforeCall`) has a row, has not been sent, and is in the hands of one task only, and
that a command that was sent is recorded. "In the hands of one task" is needed because
`AtMostOneStart` alone does not exclude that two tasks are about to call for the same
command; it is kept because the row is inserted under a UNIQUE key and never deleted, so
`Create` finds no other task with that command.

Three more in `OperationProcesses_proofs`, from `SharedInv`. With a second process a row may be
written over and over after it has ended, so none of them can lean on the lock or on final rows:

* `RowsAreTruthful` (`Truthful`). `RowsWritten` lists what any step may write into a row, given
  what the terminal has said, and `TerminalMoves` what the terminal may do: a verdict of its stays,
  and a request it did not run is not run later. A `processId` once in the row stays, and came from
  the terminal's answer; so `Off`, a row failed as busy without one, is of a command whose request was
  refused or never sent (`TruthInv`), whatever a second process writes meanwhile.
* `RejectedStaysOff` (`RejectedStartsNever`). `RejectInv`: a command is received by its own process
  only, which has one task at a time between two awaits; so while its rejection is being
  recorded, and ever after, nobody is on the way to call the terminal for it. `PollInv` has a
  handler that polls beside a row with a `processId`: the rejections that a poll records are the
  ones the theorem leaves out, and must, see `om_rejected_charged`.
* `VerdictsAreTrue` (`ToldIsTrue`). `VerdictInv` follows a verdict from the terminal's answer to
  the task's event, into the record, and from both to the CRM. A rejection on its way is one that the
  row's `processId` or a command that is `Off` excuses (`Excused`).

**The manager, one process** (`OneProcessOnly`; with two these are false, see section 5):

* `OnlyOneActive` (`SingleActive`) and `OutcomeStays` (`FinalIsFinal`). The invariant is
  `WorkInv /\ ResumeInv`: a task in an operation holds the lock, its operation has not ended
  (`Unended`: it may have lapsed) and no other is active, `create` is reached only with none active; while a task resumes, the others are idle,
  and what is on its list is still active. The last clause is what `FinalIsFinal` rests on:
  the resume updates rows it read before several awaits.
* `ToldOneOutcome` (`ToldIsRecorded`), in `OperationOutcome_proofs`. The invariant `OutcomeInv`
  adds, per command, what its row says of the terminal (`RowOf`) and what the record and the CRM
  say of the row (`ReplyOf`), and per task what its label says of both (`Label`): a verdict at
  `record` is that of the row, one at `answer` is on record, `call` has `accepted` on record. The
  proof shows once how each kind of step writes (`Created`, `Concluded`, `Continued`, `Replied`,
  `Asked`, `Orphaned`) and that the other tasks' labels survive it (`Undisturbed`): they wait
  outside `Sync`, a `processId` is never taken back (`PidStays`), a verdict on record never
  replaced (`RecordStays`).
* `LedgerImplemented` (`ImplementsLedger`): the same invariant maps `Create` to `Accept` (no row
  is active), `CallSend` to `Request` (nothing was sent), the four verdicts and the resume's
  reviews to `Conclude` (a success was requested), a busy record of a new command to `Reject`,
  and every other step to a stutter.
* `NobodyAbandoned` (`NoneAbandoned`): `PickedInv` says that in a session, its socket noticed to be
  lost or not, each active operation is at work, on a resume's list, or has a `processId` that the
  second query will find.
* `OutcomesRecorded` (`OneLostPerCrash`): between a row's end and its record there is a task at
  `record`, and nothing else of the process moves (`RecordsNext`), so no other step takes an
  outcome off its way (`NoneLost`) and a crash at most one (`OneLost`). `LostInv` counts the
  outcomes that are neither on record nor on their way; the theorem allows infinitely many
  commands, so it also says that these are finite. That one is lost is `om_lost_outcome`.
* `RepliesStand` (`ReplyStands`): `RecordStays` keeps verdicts; the threat to a rejection is a row
  whose response is missing after a crash, with a duplicate of its command that is rejected before
  the resume has written its verdict. `StandInv` excludes it: such a row is in the hand of the
  resume (`InHand`), which is through with it before a command is received (`NotRejected`).

**The poll** (`PollTimers_proofs`, any interval, timeout, length of awaits): `TimerTypes`;
`ReviewIsJustified` (`ReviewOnlyWhenUnknown`): unless `_poll` is about to forget it,
`unknown_since` is not before the true start of this poll's run of unknown answers (`SinceInv`);
`ReviewComesInTime` (`ReviewInTime`) from a bound per label on the run (`RunBound`);
`CallsAreSpaced` (`ActualizeIsSpaced`), as `last_actualize` is the last call (`CallInv`).

**The Smart POS client** (`SmartPosAuth_proofs`, any callers and faults): `TypeCorrect`,
`NeverRunTwice` (`RunOnce`), `StaysIn` (`NotLockedOut`), `NoMixture` (`OneAnswerStored`),
`LoneCallServed` (`AloneIsServed`), `RegistrationRepairs` (`RegisterRepairs`). The heart is
`CarryInv`: unless `void`, the token that the terminal takes next is in one place, with the
one caller that has just been given it or else in the store, and while it is carried no
request on its way has it; so no second caller can be given tokens that a late save would
overwrite. That a registration ends `void` needs `AloneInv`, what a caller without company can
rely on after whatever faults: nobody else has a request, and the store gets the terminal's
tokens. `StoreInv` follows the three writes of a save, over a mixture too. `CallImplemented`
(`ImplementsCall`): `PosRuns` is `Run`, the returns are `Return`, a crash is `Lost`, and refreshes,
saves and retries are stutters (`CallStep`), from `RunInv`: a caller that has been refused, or
refreshes, has not had its request run, and one that reads a result has, once.

**The run loop** (`CrmSession_proofs`, any commands, buffer and limits): `SessionTypes`,
`OneOverTheWire` (`ServingMeansFree`), from who may have an active operation at each position
(`HandlerInv`); `KeepsRunLoop`, the safety part of `ImplementsRunLoop`, from `SocketInv`: an open
socket means a session, and no stop is heard before the first connect. `StopIsFinal` (`HeardIsFinal`)
adds `HeardInv`: where a stop is heard, the event is set and the socket closed before `run()` next
looks at either.

**The desktop** (`Desktop_proofs`, any actions, ids and crashes): `DesktopTypes`,
`LockCoversRuntime` (`NothingOutlives`), `RuntimeIsConfigured` (`StartsConfigured`), `IdentityStays`
(`AgentIdStays`). `DesktopInv` follows the thread and its database with the process
(`OwnerInv`) and what `save()` has written by each of its steps (`SetupInv`).

**The window** (`AgentUi_proofs`): `UiTypes`, `RunningOperationIsShown` (`RunningIsShown`), for
`OneTaskOnly` and `SessionOnly`: the desktop agent has a session and reads its commands one after the
other. With two handlers a duplicate of an ended operation would clear the one shown. `UiInv` says
more than the property: an active operation of `seen` is the one shown (`Shows`) even while no task
works on it, between a lost session and the next resume. That nothing covers it meanwhile is
`WorksAt`: whoever is about to record a verdict does so when nothing else is active, and the resume
says nothing but verdicts and its own operation's statuses; it rests on `PickedInv`, `StandInv` and the
one-process invariant.

Assumptions: the `ASSUME`s of the modules, which only give the constants their types, and
the hypotheses named above (`OneProcessOnly`, `OneTaskOnly`, `SessionOnly`).

Only model-checked: what is liveness, which is out of the prover's reach:
`EveryOperationEnds`, the four progress properties of `CrmSession` and the fairness in
`ImplementsRunLoop`, `PostedIsAnswered` and `StopEnds`. Every other property of a passing run is
a theorem. A run checks a safety property where its mutant bites; the proofs hold in every instance.

## 5. Where the code does not do what is said of it

| run | what TLC finds |
|---|---|
| `om_lost_outcome` | a crash between `status='success'` and the record of `payment.completed`: the CRM that asks again is told `command.accepted`, for ever |
| `om_failed_charged` | a timeout is reported as failed while the terminal goes on to charge |
| `om_rejected_charged` | code 107 in answer to a `/deviceinfo`, `/status` or `/actualize` of a payment that runs: it is recorded as failed and answered `command.rejected`, nobody polls it any more, and the buyer may be charged |
| `cs_queued` | a command that arrives during an operation is not rejected as busy but run afterwards |
| `cs_overflow` | `OverflowError` in `next_delay` after 1024 failed connects ends the run loop |
| `dt_lost_stop` | "Exit" while `run()` is in `connect()`: the session that follows never looks at the stop, the icon is gone and the lock held |

Further consequences, seen while choosing the properties. Each of the first group is a
conjunct or an antecedent that a passing property or a theorem needs:

* The three properties of `PollTimers` speak of one poll: `unknown_since` and `last_actualize`
  are locals of `_poll`, so an interruption restarts the timeout and allows `/actualize` at once.
* `StopHeardEnds` says `"heard"`, `StopEnds` says `at \in {"pause", "dropped"}`: a stop before the
  loop is published, or during `connect()`, is lost.
* `OutcomeIsTold` says `Asking`: an outcome whose send failed is not sent by itself after
  the reconnect.
* `NotLockedOut` says `void`, `OneAnswerStored` `torn`: a crash between two of the three
  writes, or a lost answer to `/revoke`, leaves a refresh token that is void; the agent then
  fails until it is registered again.
* `void` begins with an act of the operator too: a `/revoke` answered before a registration and read after
  it stores tokens that are void, and one read after `clear_credentials` stores tokens again.
* `AloneIsServed` says `alone`: a refresh of one caller voids the tokens another's retry is
  about to use, and that caller is refused although the agent holds valid tokens.
* `RejectedStartsNever`, `Truthful` and `ToldIsTrue` say `~ops[c].pid`: a rejection after the terminal
  gave out a `processId` says nothing, see `om_rejected_charged`.
* `Truthful` and `ToldIsTrue` leave out the agent's own errors, see `om_failed_charged`.
* `RunningIsShown` says `seen`: after a restart the resume tells the window nothing before the first
  answer of `/status`, so that the window is blank, "Exit" asks for no confirmation (tray.py:207)
  and the terminal runs an operation, although docs/desktop-app.md:9 of the repository promises the
  confirmation while one is active. A terminal that is slow to answer makes this long.
* `RunningIsShown` is about the operation that runs. The converse fails: the reply to a
  duplicate of a failed operation is a `payment.status`, which state.py:212 shows as busy with
  that operation, although none runs; and `command.rejected` is not applied (state.py:180), so an
  operation that a busy terminal rejected stays on screen as accepted.
* The ledger says `lapsed`, and `EveryOperationEnds` is checked without `OtherStatuses`: an operation
  whose last status is none of the four is found by no query (constants.py:8). Its handler polls on,
  but after a lost socket or a crash nobody does, and the next payment is accepted beside it.
* `SingleActive` and `FinalIsFinal` are proved for one process. With the CLI beside the agent both fail: `test-payment` and the agent both pass the check for an active operation
  (README.md:71 of the repository promises one active operation), the agent's resume sends the
  CLI's fresh operation to manual review, and the CLI then writes over it.
* `PostedIsAnswered` starts from `posted`: an action posted after the main task's end is lost,
  and one that meets a closed loop raises in the GUI thread (runtime.py:171-180).

The second group has no property, because no run could tell it from what is intended, or
because it is beside the state that is modelled:

* Two crashes, one between the INSERT and its record and one between the resume's review and
  its record, leave a row that no response belongs to; the repeated command passes the check
  of `processed_commands` and its INSERT raises, out of the run loop (`CreateCollides`).
* An amount of `Infinity` in a verdict raises after the row is `success` (payment.py:17); what it
  leaves is what a crash there leaves.
* settings_window.py:151 says that the settings were not saved when the scheduled task could
  not be written, after the token and the file were.
* A token saved in the settings is used by the next reconnect, the URL saved with it only
  after a restart, although main.py:108 speaks of a restart for both.
* `Application.close` that fails halfway (application.py:54-57) leaves the database open, and a
  constructor that fails after `Database` too (application.py:35-38); the models let both succeed as a
  whole or fail before they begin.
* A coroutine posted from the window may use the database after `close`: it ends with an error.
* An operation may begin between `request_exit`'s question and the stop.
* The lifecycle shown may be overwritten by the thread that boots while it is told to stop
  (runtime.py:69, :137), and the tray's autostart check mark is not updated by the settings
  dialog (tray.py:64).

## 6. What is not modelled, and the plan

Not modelled, with the reason:

* Parsing of messages (`crm/protocol.py`, `crm/commands.py`): a bad message changes no state and
  only answers `protocol.error`.
* Amounts, refund methods, wording, redaction, logging, configuration parsing: data that no
  property here tells apart.
* The heartbeat and `check_connection`: they read and send, and change no state of the agent.
* The cached device of `SmartPosService`: it is shown and never decided on.
* Notifications, the CRM status and the lifecycle on screen, widgets, layout: display only.
* The environment's overrides of the settings, and the development file store of secrets.
* A second process that shares the secret store: a CLI command beside the agent could read
  between two writes.
* Packaging, CI, scripts.

Order of the plan; all of it is done but 8:

1. `TerminalLedger`, `OperationManager`, `om_crash`.
2. `OperationManager_proofs`: types, start once, recorded first, one active, final.
3. `CrmSession`.
4. `PollTimers` and its theorems.
5. `AgentUi` and its theorems.
6. `SmartPosAuth` and its theorems.
7. `RunLoop`, `AgentRuntime`, `Desktop` and their theorems; `CrmSession` as an implementation of
   `RunLoop`.
8. Amount normalisation and the notification cooldown as operators over bounded inputs. They
   touch no other component's state.
9. `OperationOutcome_proofs`: the refinement of `TerminalLedger` and the remaining safety
   invariants of the manager; `ServingMeansFree`; `RunningIsShown`.
10. `OperationProcesses_proofs`; `TerminalCall`; the counted form of what a crash
   loses; `StopIsFinal`; `RepliesStand`.
