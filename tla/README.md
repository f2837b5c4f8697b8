# Doya: verification project

TLA+ specifications of parts of Doya, a daemon that runs coding agents (Claude
Code, Codex, OpenCode, ACP agents, ...) on a developer's machine and serves them
to desktop, mobile and web clients.  The models are translated from the
TypeScript under `src/packages`; every modelled definition is tied to its lines
by the `map` of `PROJECT.json`.

Paths below are relative to `src/packages`; `AM` is
`server/src/server/agent/agent-manager.ts`, `FR` is
`server/src/server/agent/foreground-run-state.ts`.

## 1. Inventory

| Component | State it keeps | Operations | Hard behaviours |
|---|---|---|---|
| **Agent run lifecycle** (`AM`, `FR`, `agent-loading.ts`) | `agents` (the `ManagedAgent` objects), `pendingRuns` (the run slot), the foreground turn, stream waiters, finalized turn ids, lifecycle, attention, `sessionEventTails` | `streamAgent`, `replaceAgentRun`, `cancelAgentRun`, `rewind`, `closeAgent`, `reloadAgentSession`, `ensureAgentLoaded`/`registerSession`, `respondToPermission`, session events | every `await` is an interleaving point; timeouts race late events; objects are replaced under calls that have captured them |
| **Provider sessions** (`providers/*`) | the turn in progress, autonomous turns, permission requests | `startTurn`, `interrupt`, `respondToPermission`, `close`, events | events arrive before, between and after the manager's own steps |
| **Agent records** (`agent-storage.ts`, `agent-archive.ts`, `persistence-hooks.ts`) | a JSON record per agent, a cache, a chain of pending writes, `deleting` | `applySnapshot`, `setTitle`, `upsert`, `remove`, `flush`, archive | read-modify-write across awaits, failing writes, resurrection of deleted agents |
| **Agent timeline** (`agent-timeline-store.ts`, `agent-stream-coalescer.ts`, `timeline-projection.ts`, app `timeline/*`) | rows with sequence numbers, an epoch, coalesced deltas, client cursors | append, fetch pages, flush, client catch-up | lossy connection, reordering of pages and live events, truncation, epochs |
| **Schedules** (`schedule/service.ts`) | schedules and their runs on disk, the running set | create, pause, resume, update, delete, tick, run once, restart recovery | stale read-modify-write at the end of a run; restart while a run is in progress |
| **Command broker and poller** (`control/src/http/daemon-command-broker.ts`, `server/src/server/control-command-poller.ts`) | a queue per daemon and an index of pending commands, in memory; a timer, a busy flag and the rest of a response per poller | request, poll, execute, report, timeout, reconfiguration | a command handed to a poll that is lost; a result that races its timeout; two pollers of one daemon; restarts |
| **Waiting and finish notifications** (`wait-for-agent-tracker.ts`, `agent-prompt.ts`) | subscriptions per waiting call | `waitForAgentEvent`, `setupFinishNotification` | missed and doubled notifications |
| **Loops** (`loop-service.ts`) | loop records, iterations, logs | run, stop, iterate, recover | stop against every await of the executor; writes that fail or are cut off |
| **Terminals** (`terminal/*`) | pseudo-terminals, emulator state, streams | create, attach, input, resize, kill | the snapshot/stream hand-over |
| **Workspaces, worktrees, git** | JSON registries, watchers | create, archive, refresh | external I/O |
| **Sessions and WebSocket server** (`session.ts`, `websocket-server.ts`) | connections and subscriptions | message dispatch | - |
| **Voice and dictation** | audio buffers, turns | stream, finalize | external recognisers |
| **Relay and encrypted channel** (`relay`) | sockets per session, handshake | connect, forward | buffering until a channel is open |
| **Client library and app** (`client`, `app`) | pending requests, caches, cursors | reconnect, fetch | lost and duplicated messages |
| **Control plane** (`control`) | SQL tables | accounts, billing, sessions | transactions are the database's |
| **Desktop, CLI, website, highlighter, audio glue, schemas** | - | process supervision, formatting | - |

What makes each of the main components correct:

* *Agent runs*: at most one prompt at a time runs on a session; the foreground
  turn reaches whoever sent its prompt; the slot is never leaked; a cancellation
  always returns and really cancels; an agent at rest does not look busy, and
  one that looks idle is idle; a permission request does not outlive the
  provider's.
* *Records*: what is served is what was last written; no completed change is
  overwritten by an older snapshot, a removed agent stays removed.
* *Timeline*: a client that stays connected shows every row it has been told of,
  once and in order.
* *Schedules*: a change made by the user survives the end of a run; no schedule
  has two runs at once, and none is forgotten.
* *Loops*: a stop is the end of a loop and comes soon; success is verified; no
  agent is left behind; a restart tells nothing that was not so.
* *Broker*: a command is performed at most once and in order, its caller gets one
  answer, and is not told of a success that did not happen.

How they interact: sessions (WebSocket), schedules, loops and the broker's
poller all call the run lifecycle; it calls a provider session, receives its
events through one promise chain per agent, appends to the timeline, and emits
`agent_state` events, on which records, waiting calls, finish notifications and
clients depend.

## 2. The models

### 2.1 `AgentRuns`: the runs of one agent

`AgentRuns.tla` models one agent of the `AgentManager`.

**Granularity.**  JavaScript runs a call without interruption up to its next
`await`.  One action is one such segment: everything between two awaits is
atomic, everything else interleaves.  `pc[o]` is the `await` at which call `o`
stands.  A segment that ends in an await that can only be answered by the file
system or by a timer, and whose continuation would change nothing else, is
folded into its neighbour.

**Calls.**  Each public call is an operation `o \in Ops` and is made at most
once.  Its identity also names what it allocates: the `PendingForegroundRun`
token, the turn id that its `startTurn()` yields, its stream waiter, and, for a
reload or an open, the `ManagedAgent` object it registers.  `First` is the
object that exists initially.  Calls that throw before they change anything are
left out.

**Variables.**

| Variable | Code |
|---|---|
| `cur` | `agents.get(agentId)` |
| `objs[g]` | a `ManagedAgent`: `lifecycle`, `activeForegroundTurnId` (`active`), `pendingReplacement` (`replacing`), `lastError` (`err`), `pendingPermissions`, `inFlightPermissionResponses`, `bufferedPermissionResolutions`, `finalizedForegroundTurnIds`, `foregroundTurnWaiters`, `unsubscribeSession`, `attention` |
| `prevStatus` | `previousStatuses.get(agentId)` |
| `pending`, `settled` | `pendingRuns.get(agentId)` in `FR`, and the tokens with `settled = true` |
| `wsettled`, `ends` | stream waiters with `settled = true`; streams that have been pushed an event that ends them |
| `pc`, `op` | where each call is, and the locals it captured before an await (`const agent = ...`, the pending run and the turn in `cancelAgentRun`, the preserved state in `reloadAgentSession`) |
| `queue`, `busy`, `forced` | `sessionEventTails` (one promise chain per agent id), the event whose handling is between two awaits, and the synthetic `turn_canceled` of a forced cancel that has still to notify |
| `sturn`, `sauto`, `autos`, `sperms`, `asked` | the provider session: foreground turns, autonomous turns, permission requests |
| `dropped` | history: requests the provider has given up while the manager is not told of it, or takes no notice |

**Actions** (the `map` gives the lines of each).

| Call | Actions |
|---|---|
| `streamAgent` | `Run` (guards, slot, `startTurn`), `StartResolves`, `StartThrows` + `StartFailed`, `Drain` (the `finally` block), `Refresh` |
| `cancelAgentRun` | `Cancel`, `Interrupted`, `AfterWait` (with the forced cancel), `StaleSettled` |
| `replaceAgentRun` | `Replace`, then the actions of a cancellation, `ReplaceResumes`, `ReplaceCatch` |
| `rewind` | `Rewind`, the actions of a cancellation, `RewindResumes`, `Rewound` |
| `closeAgent` | `Close`, `Closed` |
| `reloadAgentSession` | `Reload`, a cancellation, `ReloadResumes`, `Swap`, `OldClosed`, then `registerSession` |
| `ensureAgentLoaded` | `Open`, then `registerSession` |
| `registerSession` | `Register`, `RegisterIdle`, `RegisterSubscribe` |
| `respondToPermission` | `Respond`, `Responded`, `Refreshed`, `Persisted` |
| event chain | `EventDropped`, `TurnStarted`, `TurnCompleted`, `TurnCanceled`, `TurnFailed` + `FailureAppended`, `PermissionRequested`, `PermissionResolved`, `Notify`, `NotifyForced` |
| other | `StateEmitted` (usage, mode and model events and refreshes all end in `emitState`), `ClearAttention` |
| provider | `SessionAnnounces`, `SessionEnds`, `SessionAutoStarts`, `SessionAutoEnds`, `SessionAsks`, `SessionResolves`, `SessionDrops` |

**The provider** is modelled by the contract of the adapters: a session refuses
a second foreground turn, completes an autonomous turn before it starts a
foreground one, announces and ends turns by events, and may ignore an interrupt.
Which adapter may do what about the *order* is a parameter.  With the quirk
`early_end` a turn can end before `startTurn` has returned its id
(`providers/claude/agent.ts`, whose `startTurn` awaits while an interrupt ends
the turn).  With `late_start` a `turn_started` may follow the return of
`startTurn`.  With `silent_drop` the provider may give up a permission request
without an event (`providers/claude/agent.ts:3838-3842`: the abort handler of a
request deletes it and rejects, also for one whose signal was aborted before
`permission_requested` was pushed).  Such a request is `dropped`; so is one that ends with a turn
the manager has finalized before, whose terminal event it ignores.

**Time.**  There is no clock.  A timer may fire, and I/O of the daemon may
complete, only when `MicrotasksDone`: JavaScript runs all promise continuations
first.  Without this guard the 2 s timer of `cancelAgentRun` could fire in the
middle of the continuation that settles what it waits for, which no execution
does.

**Abstractions.**  Timeline items, usage, titles, models, modes and labels are
left out, for they do not steer the lifecycle.  Finalized turn ids are kept for
good, where the code keeps the last 50.  A lifecycle of `closed` only exists in the
snapshot that `closeAgent` emits, and is modelled by `prevStatus`.  `emitState`
is modelled by its only effect on this state, `checkAndSetAttention`, at the
point where it is called (the code defers the write to a promise chained on the
same agent).

`RunSlot.tla` is the abstract specification: a slot with a holder, a foreground
turn that only the holder can have, and a set of those who have given the slot
up for good.  `AgentRuns` implements it under the mapping `holder <- pending`,
`turn <-` the registered object's foreground turn, `over <- settled`.

### 2.2 `CommandBroker`: commands to daemons

The control plane cannot reach a daemon behind a firewall, so it queues commands
for it (`DaemonCommandBroker`); the daemon polls over HTTP every second, performs up to five
commands on its own API one after another, and reports each result.

| Variable | Code |
|---|---|
| `queue`, `pending` | `pendingByNodeId`, `pendingByCommandId` |
| `ticket`, `tickets`, `node` | the order of the requests and `command.nodeId`. Queues are appended to, taken from the front and filtered, so a queue is the set of its commands and `ticket` is its order |
| `answer` | the promise of `request`; `gone` if its process has died |
| `accepted` | commands whose report was answered with `accepted: true` |
| `home`, `timers` | the daemon that created a poller; the pollers with a `pollTimer` |
| `at`, `batch`, `cmd`, `okay`, `late` | the `await` at which `pollOnce` stands (`idle` is `polling = false`), the rest of the response, the command in hand, `result.ok`; polls and reports under way that their poller has given up |
| `log` | what the daemons' API has performed |

| Code | Actions |
|---|---|
| broker and its routes | `Request`, `Timeout` and `Complete` (both with `removePending`), `TakePending`, `LatePoll`, `LateReport`, `ControlRestarts` |
| `pollOnce` | `Poll`, `Proceed`, `PollFails` (every rejected fetch or refused poll; the rest of the response is dropped) |
| `executeLocalCommand` | `Execute` (the response may be lost after the command has been performed), `ExecuteFails` |
| `bootstrap.ts` | `StartPoller` (stops the old poller's timer; its poll in progress goes on), `StopPoller`, `DaemonStops` |

A fetch is two steps, its arrival at the other side (`TakePending`, `Complete`)
and the arrival of its response (`Proceed`); `PollFails` is possible before and
after the first.  A request that is given up may still arrive, however late
(`late`, `LatePoll`, `LateReport`): the routes of the control plane await the node's
authentication before they act.  `fetch` does not retry a POST, so none
arrives twice.  The log has an entry for a command when the API begins to perform it.  Payloads, headers and status codes are left out except
`ok`.  Which node a token belongs to is external: a poller speaks for its daemon.

`RemoteCalls.tla` is the abstract specification, what a caller may rely on: a
command is performed at most once; its caller gets at most one answer; `ok` is
only said of a command that was performed successfully.  A failure or a timeout
says nothing: the command may have been performed, or be performed later.

### 2.3 `Schedules`: recurring prompts

`Schedules.tla` models `ScheduleService` over `ScheduleStore`, which keeps a file
per schedule and has no lock.  A put is a plain `writeFile` (`schedule/store.ts:54-57`): it may
be rejected and then has left the old file, the new one or part of it; a read may meet it half-written;
two puts of one file that overlap may leave a mix.  One action is the code between two awaits.  Every
operation reads a schedule, computes the next one and *later* puts the whole of
it: `work[c].copy` is what caller `c` will put, `list[t]` what tick `t` still has to
look at, as it read it.

| Variable | Code |
|---|---|
| `file` | the stored schedules: `status`, `nextRunAt`, `maxRuns`, `expiresAt`, `runs`; `Torn` if the file cannot be parsed |
| `running` | `runningScheduleIds` |
| `stuck` | the ids in it whose run was given up between the mark and the `try` block (`schedule/service.ts:440`) |
| `list`, `work` | the locals of `tick`, `runSchedule`, `finishRun`, `runOnce` and the calls of users |
| `recovering` | the schedules `recoverInterruptedRuns` has not looked at; the timer starts when it is empty |
| `now`, `faults` | the clock, in periods of the cadence; rejected puts so far |
| `word` | history: the last pause or delete that met no operation with an older copy |

`Create`, `Pause`, `Resume`, `Update`, `Delete` and `RunOnce` are the calls;
`Tick`, `TickGoes`, `StartRun`, `Saved`, `FinishRun` and `PutDone` the steps of a
tick and of a run, with the second call of `finishRun` in the catch block;
`Crash` and `Recover` a restart.  `CreateFails`, `PutFails` and `RecoverFails` are rejected puts: that of
a run that starts leaves the schedule marked, the first of `finishRun` is made again from the catch
block, any other is thrown to the caller, and with it the rest of a tick.  Ticks overlap, for the timer does not wait
for the last one.  While a file is torn, `list` throws: no tick goes on and the daemon does not
start, until the file is deleted (`Readable`).  A list that throws because it meets a put in progress leaves the tick as it was.

### 2.4 `AgentRecords`: the record of an agent

`AgentRecords.tla` models `AgentStorage` for one agent (the chain of writes is per
agent) with those who write to it: the snapshots of every state change
(`emitState` and `persistence-hooks.ts`), generated titles, archive, unarchive, delete.

| Variable | Code |
|---|---|
| `live`, `loaded`, `ver` | whether the agent is in `AgentManager.agents`, has been since the start, and which state it is in |
| `disk`, `known`, `path`, `cache`, `deleting` | the files of the record in the root (older versions) and in the directory of its project, `pathsById`, `pathById`, the cached record, the mark of `beginDelete` |
| `queue`, `head`, `broken` | `pendingWrites`: the records whose write is chained, how far the first is, whether those behind a failed one are being rejected |
| `snaps`, `call` | what waits for which writes |
| `written`, `word`, `gone` | history: the last record written, a finished archive, a finished removal |

Promises are resolved in order, and everything a settled write lets go on does so
before the next write can end (`Drained`).  A snapshot that waits for the writes before it and
then reads the cache and queues its own does both in one step, which is what makes it
read a record that an archive queued in the same turn is about to replace.

### 2.5 `TimelineSync`: the timeline and its display

`TimelineSync.tla` composes the daemon's side (`agent-timeline-store.ts`,
`timeline-projection.ts`, the handler in `session.ts`) with the app's
(`session-stream-reducers.ts`, `types/stream.ts`, `session-context.tsx`,
`use-agent-initialization.ts`, `use-load-older-agent-history.ts`) over a connection that keeps the
order of what the daemon sends and may be lost.

| Variable | Code |
|---|---|
| `epoch`, `log`, `unread`, `turn` | the timeline store; history that a reload has still to record; whether the agent is in a turn |
| `up`, `requests`, `toApp` | the connection, what has been asked for and what was sent |
| `cursor`, `tail`, `head`, `hasOlder` | `agentTimelineCursor`, `agentStreamTail`, `agentStreamHead`, `agentTimelineHasOlder` |
| `applied`, `synced`, `init` | `agentAuthoritativeHistoryApplied`, whether the agent's history is of the current sync generation, the initialization under way |
| `catching`, `older` | the keys of catch-ups in flight, the older page in flight |
| `told`, `mishaps` | history: word of the newest row was sent; rows were made or sent while the history was being read (`mixed`), a request for the tail was given up (`missed`), older rows were asked for when the view was replaced (`moved`) |

A row is its number, epoch and kind; the text of an item is the sequence of the
rows it shows, which is what lets a property see a row that is missing, doubled
or out of place.  Projection (`Projected`, `TailPage`, `RangePage`) merges chunks
and serves whole entries; the reducers (`Applied`, `EntryApplied`, `Prepended`, `Replaced`, ...)
are written as the code computes them.  Every path by which the app asks is an action:
`Open` (the bootstrap), `CatchUp` after a gap, a page that says `hasNewer` or the
end of a turn, `Resume` (on phones only), `LoadOlder`, and the fetch after its own rewind
or reload (`RedoneArrives`).  `TimesOut` gives a request up whose page may still come.

Left out: tool calls of several rows, message and turn ids, the promotion of
finished markdown blocks, optimistic messages, requests answered by an error, and the
coalescer, whose flush is synchronous and merges chunks before they become rows.  The app buffers live
events for 48 ms; that is part of their way, for a page and a reconnection make it apply them first.  The answer
to its own rewind or reload does not, and overtakes them: the tail request made there
usually carries the cursor of the old epoch.  The model delivers the answer in its order.

`TimelineReader.tla` is the abstract specification: a log that grows in epochs and
a reader who only moves on in it, to rows that exist, and starts anew only when
the log has.

### 2.6 `Loops`: agents run until their work is accepted

`Loops.tla` models `LoopService`.  One action is the code between two awaits of
`executeLoop` (the executor of a loop, `exec[l].at` is its await) or of `stopLoop`.

| Variable | Code |
|---|---|
| `loops`, `terms` | the `loops` map: `LoopRecord` with the last iteration only, and the options it was created with |
| `file` | `loops.json`; `Torn` if a write was cut off in the middle |
| `queue`, `writing` | `persistQueue`: who awaits each chained write, and the records the first of them has taken |
| `exec`, `aborted` | the locals of `executeLoop`, `runWorkerIteration`, `runVerification`; its `AbortController`; the `running` map is `Running` |
| `open`, `canceled` | the agents of a loop that are open (`unclosed` are those whose closing threw), and whether the run in progress was made to end by a cancellation |
| `stop` | the calls of `stopLoop` and their locals |
| `phase` | starting, up, or about to end because of a rejection nobody handles (`daemon-worker.ts:190`) |
| `since` | history: iterations begun since the last stop was asked |

`Run` is `runLoop`; `Iterate`, `Doze`, `Sleep`, `WakeAborted` the head and the end of the loop;
`MakeWorker` ... `WorkerClosed` an iteration of the worker; `CheckEnds`, `Checked` the shell checks;
`VerifierMade` ... `VerifierClosed` the verifier, which is asked again after an answer that
cannot be read (`VerifierRetries`, `agent-response-loop.ts`); `Failed` the end of
`handleExecuteLoopError`.  `Stop`, `Signal`, `Canceled`, `Stopped` are `stopLoop` when it found an
executor, `Mark` and `Marked` when it did not.  `WriteFails` makes the `persist` of whoever awaits
it throw, wherever that is; `Crash` is the end of the process with `initialize`.

When a write ends, the caller that awaits it goes on before the next write begins (a write
awaits `mkdir` first), so both are one action: `Written`, in `Resumes`.  A write takes the records when it
begins, not when it was queued.  `cancelAgentRun` is reduced to what `AgentRuns` shows of it: it
returns (`CancelReturns`), and a turn it found in the foreground does end, by force if need be (`CancelEffective`).  A
run that is still in `startTurn` has no foreground turn: the cancellation interrupts the session, waits two seconds and
leaves it (`AM:1945-1947`).  `Cancels` therefore may set `canceled` or not, and only what is canceled ends for sure.  The
closing of an agent may throw, which nobody is told of (`loop-service.ts:674-682`; `archiveAgent` writes records
before it closes, `AM:1105-1126`): `Closed` then leaves an agent `unclosed`.  For a loop without limit the number of the
iteration stays 1.

## 3. What is checked

### 3.1 `AgentRuns`

`MCAgentRuns.tla` adds the symmetry of calls and of requests, used in runs
without liveness properties: `runs` checks invariants, and `slot` besides them `SlotSpec`, a safety formula that
treats all calls alike, so that a permutation of the calls maps a step it allows to one it allows.  Every configuration sets `CHECK_DEADLOCK FALSE`:
each call is made at most once, and a manager with nothing to do rests.  The run
`runs` identifies states that differ in attention and the previously emitted
status only (`VIEW Unmarked`): these two steer nothing but themselves, and no
property of that run mentions them.

| Run (`AgentRuns_*.cfg`) | Calls | Properties |
|---|---|---|
| `runs` | 3 of run, replace, cancel, respond, rewind; 1 autonomous turn; 2 permission requests; quirk `silent_drop` | `TurnForwarded`, `CancelEffective`, `SlotHeld`, `RestIsIdle` |
| `slot` | 3 of run, replace, close, reload, open; quirks `early_end` and `late_start` | `TypeOK`, `RunOwnsSlot`, `SlotSpec` |
| `live` | 3 of run, cancel | `IdleMeansFree`, `CancelReturns`, `FinishedIsTrue`, `RunsEnd` |

To stay small `runs` does not mix everything (constraint `Apart`): one request for permission meets
runs, responses and cancellations, and replacements or the autonomous turn besides, but not both; two requests
meet runs and responses; a rewind meets runs and cancellations, and no autonomous turn under way.  Replacements,
cancellations and autonomous turns meet each other.

* `TurnForwarded`: the foreground turn has a stream that is alive, registered on
  the same object and not torn down.  It does not say that the agent shows as running; that is `IdleMeansFree`.
* `CancelEffective`: when `cancelAgentRun` has returned, the turn it found is no
  longer the foreground turn.
* `RestIsIdle`: when every call has returned, every event has been dispatched
  and the provider has no open turn, there is no foreground turn, no held slot,
  no pending replacement, the lifecycle is not `running`, and every request for permission on display
  is one the provider still waits on, or one it gave up without the manager noticing (`dropped`; section 3.7): an
  answered request, or one that ended with its turn, is off the display whatever order
  the answer, the refresh and the events had.
* `RunOwnsSlot`, `SlotSpec`: runs exclude each other on the registered session,
  across closing, reopening and reloading, and the manager implements `RunSlot`.
* `SlotHeld`: the slot is held by a call that will release it.
* `CancelReturns`: a cancellation returns although the provider may neither
  answer the interrupt nor end the turn.
* `IdleMeansFree`: an agent that does not show as running has no foreground turn,
  also when the end of a force-canceled turn arrives during the next one.
* `FinishedIsTrue`: the "finished" mark is only raised when no turn is active and
  no prompt is being started.
* `RunsEnd`: every stream ends when the provider ends every turn.

**Bounds.**  Three calls are enough for each hazard that involves
two calls racing with a third one's leftovers: a cancellation that returns by
its timeout, the next prompt, and the late event of the first; or two
replacements of one run.  Each call happens at most once, so `Ops` bounds runs,
turns, waiters and registered objects; `MaxAuto` bounds autonomous turns, `Perms`
permission requests.  `live` has neither `open` nor `reload`, with which `IdleMeansFree` fails (section 3.7): what
a prompt can do during `registerSession` is covered by `RunOwnsSlot` in `slot`.  The event chain is not bounded by a constant: each turn
contributes at most a start and an end, each request two events.

**Fairness.**  `FairSpec` assumes that the daemon takes the steps it can take
(promise continuations run, the event chain advances, timers fire) and that the
provider's calls return; the last is justified by the timeouts around
`interrupt` and `close` and, for `startTurn` and `rewind`, is an assumption on the
adapters.  It never assumes that a provider ends a turn; `RunsEnd` states that as
its own premise.  No fairness is assumed of callers.

### 3.2 `CommandBroker`

| Run | Instance | Properties |
|---|---|---|
| `broker_calls` (`CommandBroker_calls.cfg`) | 2 commands, 1 daemon, 2 pollers, 2 commands per poll, 1 late request | `TypeOK`, `AtMostOnce`, `QueueAwaited`, `AcceptedAnswers`, `InOrder`, `WaitingIsPending`, `CallsSpec`, `PollerReturns` |

* `AtMostOnce`: no command is performed twice, whatever is lost and whoever
  restarts.
* `QueueAwaited`: what waits in a queue has a caller that still waits for it, and
  is for that daemon: nothing is handed out after its timeout.
* `AcceptedAnswers`: a daemon that is told "accepted" has answered the caller; a result
  that loses the race against the timeout is refused.
* `InOrder`: one poller performs commands in the order of their requests, although
  polls and reports fail in between.  Two pollers of one daemon do not
  keep this order between them.
* `CallsSpec`: the broker, the pollers and the network implement `RemoteCalls`.
* `WaitingIsPending`: whoever waits is in the index, where a report and the timer
  find it; with the timer's fairness every caller is answered.
* `PollerReturns`: no failure leaves `polling` set.

**Bounds.**  Two commands and two per poll make a poll that takes both, so that one
fails behind another, and polls that take one each.  Two pollers of one
daemon are an old and a new one; the code asks for five commands, which is the constant `MaxCommands`.
`MaxLate` bounds the late requests under way at a time.  For any number of daemons,
commands, pollers and late requests all its safety properties are proved.
`CHECK_DEADLOCK FALSE`, for a broker without requests rests.

**Fairness.**  The timer of a request fires (`Timeout`), and the step that a
poller awaits is taken: every fetch resolves or rejects, which Node's `fetch`
guarantees by its header and body timeouts, and promise continuations run.  No fairness is assumed
of daemons: they may never poll, and may stop at any time.

### 3.3 `Schedules`

Run `schedules` (`Schedules_all.cfg`): one schedule, two ticks, one user with all five
kinds of call, a limit of two runs, one restart, two rejected puts, two instants.

* `OneRunAtATime`: a schedule has one run at a time, whoever starts it and however old the list of a tick is, and no
  run is recorded as ended before it has.  It is in `runningScheduleIds` exactly while it has a run, but for those that are
  `stuck`: when the put at `schedule/service.ts:440` was rejected the mark stays, without a run, until the daemon is restarted.
* `ScheduledIfActive`: no schedule is active without a next time, none is paused with one.
* `UserWordHolds`: a pause or delete holds unless an operation that had read the
  schedule before was still in flight (a run in progress is not such an operation: it reads again
  when it ends).
* `CatchesUp`: again and again nothing is due and no run is marked, after deletes under a run, rejected and half-written
  puts and restarts; unless a file stays torn, and but for the schedules that are stuck, which no tick looks at any more.

**Bounds.**  Two ticks and a user give every pair of operations on one
schedule, and a third in the background: what a second user would add is one more stale copy, which the second
tick has.  Schedules only meet in the list of a tick, whose order does not
matter to any property.  Two instants are one period: a schedule that is due at
once and one that becomes due.  Two rejected puts are that of an end of a run and of its second attempt, or a start of a run that is lost and
a put that then tears the file.  **Fairness**: puts settle, one way or the other, runs end (an
assumption on the agents: `runAgent` sets no limit), the timer ticks, and a tick's list
sooner or later meets no put in progress.  None of users, nor of the deletion of a torn file.

### 3.4 `AgentRecords`

Run `records` (`AgentRecords_records.cfg`): two calls of all kinds, two states of the agent besides its
closing, one failing write, one restart.

* `ServesLastWritten`: the cached record is the last one written, across failures and restarts,
  also in the middle of the move of a file.
* `WordLasts`: after a removal there is no file and no cached record, and a finished archive is
  undone only by an unarchive or a delete.
* `LiveIsCurrent`: at rest the record of a loaded agent is its present state.
* `CallsEnd`: every call comes to an end, also when its write fails or is rejected.

**Bounds.**  The hazards are races of one call with another or with snapshots.  An agent
is loaded once between two starts; `MaxVer`, `MaxFaults` and `MaxCrashes` bound state changes, failing
writes and restarts.  **Fairness**: writes are carried out or rejected, continuations run.

### 3.5 `TimelineSync`

| Run (`TimelineSync_*.cfg`) | Instance | Properties |
|---|---|---|
| `timeline_pages` | messages and assistant text, pages of 2, 3 rows, 1 epoch, 1 message under way, 2 upsets | `TypeOK`, `NoMessageMissing`, `MessagesOnce` |
| `timeline_epochs` | messages, pages of 1, 2 rows, 2 epochs, 1 message under way, 1 upset | `ReaderSpec`, `DisplaysWhatIsTold` |

* `NoMessageMissing`: every message from the cursor's start to its end is displayed, unless the view was replaced while
  older rows were asked for (section 3.7).  It does not hold of text (run `timeline_repeats`).
* `MessagesOnce`: messages are displayed in order, once, and of one epoch, unless rows were made or sent while a history
  was being read or a request for the tail was given up (section 3.7).  The run has one epoch: that rows of two do not
  mix is what the theorem `MessagesAreOnce` shows (section 4.6).
* `DisplaysWhatIsTold`: when the agent rests, the app stays connected and word of the newest row
  was sent, the app's cursor gets there.  (Rows of which it has heard nothing are not meant.)
* `ReaderSpec`: the daemon and the app implement `TimelineReader`.

**Bounds.**  Three rows and pages of two make a page that is full, one that is not, an entry
that begins before its page, and a gap; an upset is a lost connection, a request given up or a return to
the app.  Rows of two epochs with pages of the first under way need `MaxEpochs` 2, and pages of one row
make every catch-up longer than a page.  **Fairness**: while the daemon can answer, the connection deliver
or come back, or the panel be opened, something of it happens (one condition for all, weaker than
one each).  That the panel is opened again is the user's doing: the code tries when it gets
the focus or the sync generation changes, not by itself.

### 3.6 `Loops`

Run `loops` (`Loops_loops.cfg`): one loop, either of two iterations with a deadline, a check and a verifier
or of any number with two checks and a sleep; two stops, one failing write, one stop of the daemon.

* `StopHolds`: when a stop that found the loop running has returned, nothing of the loop
  runs any more, and no later write or restart tells another outcome.
* `StopsSoon`: after a stop was asked an iteration may begin only while the request is being written, and only one; once
  the loop is signalled none does.  (A stop whose write failed has thrown, and the loop goes on.)
* `EndsInOrder`: however a loop ends, it succeeds only with a completed worker and the consent of the last
  check or verifier (`SuccessIsVerified`), shows as running only while it is run, unless its creation could not be
  written (`RunningIsRun`), and leaves no agent open whose closing was not tried, unless a write has failed (`AgentsClosed`).  An agent whose
  closing threw stays open: nothing in the service closes it later.
* `RestartIsHonest`: a restart finds every loop that `runLoop` has returned, and none of them
  running or with an outcome it had not, unless the file was cut off or a write had failed, and for the outcome
  unless a stop had taken the loop for one that is not run.
* `StopReturns`: a stop that found the worker's turn in the foreground returns, whatever other runs do; if runs and
  commands end by themselves, every stop does, also of a loop without limit.

**Bounds.**  Loops share only the file and its queue of writes; what another loop adds to them is a
write that comes first, which the logs of a run (`StreamLog`) and the stops do as well.  Two
stops are one that finds the loop and one that comes earlier or later.  **Fairness**: writes end or
fail, agents are created, closing one returns or throws, and a run whose foreground turn a cancellation found
ends (`AgentRuns`).  That other runs, one canceled during `startTurn` among them, and
the commands of checks end is a premise of the second part of `StopReturns` only: the code sets them no limit.

### 3.7 Disagreements between the code and what is said of it

Three runs find a behaviour of the code that a comment, a test or a document
of the repository excludes.  Each checks one property and fails.

| Run | What happens |
|---|---|
| `records_archive` | A snapshot that waits for the archive's own first write goes on right after the archive has queued its record, reads the cache, which is not archived yet, and queues behind.  (`agent-storage.ts:229`: "Preserve soft-delete/archive status across snapshot flushes.") |
| `timeline_repeats` | A catch-up page holds the whole of a text of which the beginning is displayed already; without a live head the app appends all of it.  (`docs/architecture.md:208`: "sequence-based deduplication") |
| `timeline_older` | The catch-up after the first page is answered by an empty page that says there is nothing older; the app believes it, and older history cannot be loaded.  (`docs/timeline-sync.md:31`: "Older history remains user-driven by scrolling upward.") |

Others were met while the models were checked and have no run:

* A prompt accepted while a reload creates the new session loses its waiter to `clearAgent` (`FR:123`), which
  settles it without waking the stream (`AM:1938-1939`: "The waiter settling wakes up the streamForwarder
  generator").
* A stop of a loop whose worker is being created, or whose new id is being written, or whose run is still in `startTurn`,
  makes no run end, and then waits for the whole run, if that ever ends (against `loop-service.test.ts:529`, "stops a running loop and cancels the active worker");
  a verifier whose run was canceled is asked again, up to twice, and the loop may end as failed or
  succeeded.
* `handleExecuteLoopError` looks for the active iteration after `finishLoop` has reset it: an
  iteration cut off in its verification stays `running` for good, where its code says `stopped`.
* A loop stopped between the first write of `runLoop` and the registration of its executor is marked as
  stopped, runs nevertheless, and cannot be stopped any more.
* When closing the agent of a loop throws, because its record cannot be written, the agent stays open and the error is
  swallowed (`loop-service.ts:681`, "Ignore cleanup errors for internal loop workers").
* Success and the limits of a loop are not written when they are reached: after a restart such a loop may
  be "interrupted by daemon restart".
* A write of `loops.json` that fails during a run ends the daemon (`void this.persist()`), and one that is cut off loses
  every loop at the next start.
* `rewind` takes the slot whoever holds it, so the provider may rewind under a run still in `startTurn`
  (against `rewind/rewind.test.ts:93`, "aborts an in-flight turn before rewinding").
* With `Kinds` of run and open, `IdleMeansFree` fails: `registerSession` makes the agent reachable,
  awaits twice and then sets it to idle, under a prompt accepted meanwhile.
* Of two replacements of one run the loser's `catch` block sets the agent to idle while the winner is
  in `startTurn` (against `agent-manager.test.ts:2944`).
* With the quirk `early_end`, a cancellation makes the session end a turn whose stream is not yet
  registered; the dead turn then becomes the foreground turn and its stream never ends.  A stop of a loop that comes then never returns.
* With an autonomous turn, its late `turn_completed` can make an agent with a new foreground turn idle;
  with `late_start`, a `turn_started` after a forced cancel leaves the agent `running`.
* A turn that was force-canceled may still ask for permission before the provider ends it: the request is displayed
  (`AM:3209` does not look at the turn), the terminal event of the turn is dropped (`AM:2807`), and the request
  stays on display although the provider has dropped it.  So does one that Claude's abort handler removes
  (`providers/claude/agent.ts:3838-3842`), of which the manager is not told, if neither the end of the turn nor a cancellation clears it.
* A put that is rejected at `schedule/service.ts:440`, before the `try` block, leaves its schedule in `runningScheduleIds`: no
  tick runs it, and a manual run is refused, until the daemon is restarted.
* One schedule file that cannot be parsed, left by a put that was cut short, makes `list` throw: no schedule
  runs any more, and the daemon does not start its schedules, until that file is deleted.
* A tick with an old list, or a manual run, can exceed `maxRuns` by one, and undo a pause or a delete
  made after the list was read.
* Rows made while a reload reads the history are numbered before the rest of it, and the app may
  show them twice (`mixed`).  A page of the tail that comes when no initialization waits for it is taken as a whole, behind
  the view, with what is displayed already (`missed`); an older page that was asked for before the view was replaced is put in
  front of it, with a hole in between (`moved`).

## 4. What is proved

### 4.1 `AgentRuns`

`AgentRunsProofs.tla`, checked by TLAPS, for every finite or infinite set of
calls and requests, every number of autonomous turns and every set of quirks;
the only assumptions are those named in `AgentRuns` (distinct names, `Kinds` and
`Quirks` within their sets, `MaxAuto` a natural number).

* `TypeCorrect`: `Spec => []TypeOK`.  The types alone are not inductive: that a
  call which is under way has captured a registered object (`Captured`), and that an
  event dispatched as the foreground turn's is tagged with a turn
  (`ForegroundTyped`), are added (`TypeInv`).
* For callers that do not use `rewind`: `RunsExclude` (`RunOwnsSlot`),
  `TurnsForwarded` (`TurnForwarded`), `SlotNeverLeaks` (`SlotHeld`) and
  `ImplementsRunSlot` (`Spec => SlotSpec`), all from the inductive invariant
  `SlotInv` (`SlotInvariant`).

**The argument.**  That the holder of the slot is the only run is not inductive:
`streamAgent` may claim the slot only when there is no foreground turn, and the
`finally` block of a run frees it, so one has to know that a run never leaves its
stream while its turn is still in the foreground.  Streams end for three reasons: their
event was handled, they were force-canceled, or their object was unregistered.
`EndedNotActive` says that whatever has been told to end has lost its turn, and
`NotifiedNotActive` says the same for the waiters chosen before the handling of a terminal
event, which is where `turn_failed` awaits a timeline append before
it finalizes the turn.  `HolderRuns`, `SettledRan`, `ObjectsRegistered`,
`WaitersOfObject` and `Streamed` carry what these need: tokens are settled once,
objects are registered by the call they are named after, and a call is a waiter
only where it runs.  Most steps are *quiet* (lemma `QuietStep`): they touch neither
slot nor turn nor waiters, preserve the invariant and stutter in `RunSlot`.

**Why `rewind` is excluded.**  It overwrites the slot of a run that is still in
`startTurn`; the run rewind displaces goes on without the slot, so `RunOwnsSlot`
and `SlotSpec` are false with it.
`SlotHeld` still holds with `rewind` on the instance of run `runs`.

**Cancellations.**  `AgentCancelProofs.tla` proves `CancelsTakeEffect` (`CancelEffective`) for all callers, `rewind`
included, and all quirks.  A cancellation waits for the slot it found or for the stream of the turn it found,
and forces the turn when the timer is first.  It must not come back afterwards, on the registered object or on one
that has been replaced.  A turn only becomes the foreground turn when its `startTurn` returns, so it suffices that the
foreground turn of every object, and every turn a call has captured, has left `startTurn` (`TurnsStream`,
`CapturedTurnsStream`); `CanceledGone` says that it is gone once the cancellation has passed its wait.
With where a cancellation can stand (`CancelsOnly`) and the types this is inductive (`CancelInv`, `CancelInvariant`),
and it needs nothing of the slot.

**Idle and finished.**  `AgentIdleProofs.tla` proves `IdlesAreFree` (`IdleMeansFree`) for any number of runs, replacements,
cancellations, closes and answers, and for every quirk.  What has to be known is the order in which things happen
to a turn.  `IdleInv` (`IdleInvariant`) says that the end of a turn that is still to come is awaited by a call in `startTurn` or
in its stream, or the turn has been force-canceled (`EndsAwaited`); that a stream is that of the foreground turn or of one that
has been finalized (`Forwarded`); that a stream is told of an end only after its turn was finalized (`EndedFinal`,
`NotifyFinal`, the latter also across the append of a failure).  A background end then belongs to a turn in
`startTurn`, whose run holds the slot, so there is no foreground turn that it could show as idle.

`FinishesAreTrue` (`FinishedIsTrue`) follows for callers that do not replace and providers that end no turn before `startTurn`
returns.  It adds that the status last emitted is never ahead of the agent (`StatusTrue`) and that a rejected `startTurn`
keeps its error until it is reported (`FailureShows`): a mark can then only be raised where the foreground turn is
finalized, and the run that streams it still holds the slot.  With replacements, `FinishedUnlessCaught` says that every
step but the `catch` block of `replaceAgentRun` obeys the property.

The hypotheses are needed.  With `open` and with autonomous turns `IdleMeansFree` fails, as section 3.7 describes;
`reload` ends in the same `registerSession`, and `rewind` is excluded as above.  With `replace` (the `catch` block)
or with `early_end` (the end handled under a prompt in `startTurn`) TLC finds `FinishedIsTrue` violated.

**At rest.**  `RestsIdle` (`RestIsIdle`) holds for callers that neither open, reload nor rewind, without autonomous turns and
without the quirk `late_start`; prompts, replacements, cancellations, closes, requests for permission and their answers may
all come together, and requests may be dropped silently.  The property speaks of quiet states only, so what has to be
known is why an agent is *not* at rest.  `RunningExplained` says that an agent shows as running only for a foreground turn, a
replacement that is being made, or a turn the provider has announced and whose `startTurn` has not returned;
`ReplacementRuns` that a replacement is pending only while a call is about to make it.  Both depend on the order of the event
chain: the end of a turn is the last that is said of it (`EndsLast`, `AppendLast`), and a start that is still to be
dispatched is that of a turn which has not been finalized (`StartedOpen`); with `late_start` it is not, and the agent stays
`running`.

For requests (`AskInv`, `AskInvariant`): a request on display that the provider neither waits on nor has `dropped` will be taken off by an
event in the chain (`DisplayedCleared`), and one still to be displayed is followed in the chain by what clears it
(`RequestedCleared`).  What clears is a resolution, or the failure or cancellation of a turn that has not been finalized; a
cancellation that returns empties the display itself.  The end of a turn that was force-canceled does not clear anything; the requests
that end with it are `dropped`, so the theorem says exactly which requests may stay on display, not that there are none.

**Only model-checked**: the liveness properties.  Liveness under fairness is beyond the prover.

### 4.2 `CommandBroker`

`CommandBrokerProofs.tla` proves every safety property of run `broker_calls` for
every set of commands, daemons and pollers, every positive `MaxCommands` and every
`MaxLate`; the assumptions are that `None` is no command and no daemon, and that limit.
`BrokerTypes`, `PerformedOnce`, `QueuesAwaited`, `AcceptedIsAnswered` and
`ImplementsRemoteCalls` follow from the inductive invariant `Inv`
(`BrokerInvariant`), and `PollersKeepOrder` from `OrderInv` on top of it.

**The argument.**  At most one performance is not inductive: a command that has been
performed must not be anywhere from where it could be performed again.  `QueuesApart`,
`BatchesApart` and `CommandsApart` say that a command is in one place only: a
queue, the response to one poll, the hands of one poller, or the log.  It
moves in that order, and every loss removes it.  `ReportsTrue` and `LateTrue` (a success that is being
reported, by a poller or by a report it has given up, was performed) give the answer `ok` its meaning; `PendingAwaited` gives
each promise one answer.  For the order, whatever a poller has ever taken is
older than what waits in its queue (`QueueLast`), and within its response and its hands the
same order is kept (`BatchLast`, `CommandLast`).

`WaitersAreKept` (`WaitingIsPending`) needs no more than the types.  `PollerReturns` is only
model-checked.

### 4.3 `Schedules`

`SchedulesProofs.tla` proves the safety properties of run `schedules` for every number of schedules,
ticks and callers, every limit, expiry and cadence the code accepts, and every bound on time, runs and
restarts, rejected puts included.  The assumptions are those of `Schedules`: terms and bounds are numbers, ticks are not users,
`None` and `Torn` are no schedules and no ids.  `ScheduleTypes`, `RunsAreSingle`, `ActiveIsScheduled` and `WordIsKept`
follow from the inductive invariant `Inv` (`SchedulesInvariant`).

**The argument.**  The store has no lock, so any operation may put a copy it read long ago; none of the
properties is inductive unless it is asked of the copies too.  `Copies` therefore says of *every* copy of a
schedule - in the store, in the list of a tick, in the hands of a caller - what the properties say of the
stored one: `Good` (an active one has a next time and a paused one has none, a run that has not begun is not in it, a run
that is in progress has not ended in it, and once a pause was given for good it is not active).  A put then preserves the
invariant however stale it is.  `Marked` ties `runningScheduleIds` to the callers that have a run and to the
`stuck` schedules, which have none,
and that run to the last one of the schedule; `Recovering` says that nothing else is under way while
`start` repairs what a restart left, which is why the repair may end runs;
`Forgotten` says that nobody holds a copy of what was deleted for good.

`CatchesUp` is only model-checked: it is liveness under fairness.

### 4.4 `AgentRecords`

`AgentRecordsProofs.tla` proves the safety properties of run `records` for every
set of calls and every `MaxVer`, `MaxFaults` and `MaxCrashes`, assuming that `None` is neither a record nor a number.
`RecordTypes`, `LastWrittenServed` and `WordsLast` follow from the inductive invariant `Inv`
(`RecordsInvariant`), which was first checked by TLC.

**The argument.**  The cache is not always what was written last: a write renames the file, removes the
one in the former place, and only then caches.  `Served` says where it may be behind, `Chained` that a write in
progress is that of the first record of the chain, and `Loadable` that the order
in which `scanDisk` reads the two places finds the last one written at every one of these steps.
That a removed agent stays gone needs the order of a delete: it marks the agent first (`DeletesMark`), waits for what is
chained before the mark, and nothing that is chained later is written; hence no write is in
progress while files are removed, and none can begin afterwards unless the daemon has restarted, when there is
nothing left to write (`GoneForGood`).  That an archive lasts needs the records that are still to be
written: `AllArchived` says that all of them are archived, since each was made of a
cached record that was.  `SnapsOwned` keeps a call on the one snapshot it waits for.

An archive that is said to be done while a delete of the same agent is in progress is not counted as
one (`ArchiveSaid`): the delete is what the user gets.

`RecordIsCurrent` (`LiveIsCurrent`) needs more on top of `Inv`.  A title and a mark chain the record they have
read, which may be of an older state than the record that is written before it; what repairs this is that each of them
emits the state of the agent afterwards.  `Current` says so: the last snapshot that waits, or
else the last record of the chain, or else the cached one, is of the present state, unless a call is between its write and the
snapshot it causes.  `NoneFailed` excludes the case in which that call is rejected and emits nothing.

`CallsEnd` is only model-checked.

### 4.5 `Loops`

`LoopsProofs.tla` proves `LoopTypes` and `LoopsEndInOrder` (`EndsInOrder`) for every set of loops and of calls that
stop them, whatever the loops are asked for, and every number of failing writes and of restarts.  It assumes what `Loops`
names: the options are those the code accepts, with a prompt or a check to verify with, loops, stops and the
writes of nobody have distinct names, and `None` is no record.

`EndsInOrder` says of agents that nothing but those whose closing threw is open when a loop has ended, and only if no write has failed;
`RestartIsHonest` likewise assumes that none has and, for the outcome, that no stop took the loop for one that is not run.

**The argument.**  That success is verified says nothing of the way there.  `Agree` therefore relates each place of
`executeLoop` to the record: from the first check on the worker has completed, a check that has
ended is one of those left, nothing is open at a place but the agent it is about (`Held`), and no record shows success before
the executor is over.  An executor that awaits a write must be the one that goes on
when the write ends or fails: `Queued` says that only executors at such a place are in the queue, each once.  A restart
reads the file or the write it has cut off, hence `Stored` asks of both what `Agree` asks of the records; and
`Found` that a call marks a loop that exists.  `Inv` was first checked by TLC.

For stops `StopInv` (`StopInvariant`) is added.  `StopsAreSoon` (`StopsSoon`) rests on the order of the write queue: a
stop asks for a write, and an iteration that begins while this write waits asks for its own behind it; the
write of the stop ends first, so its caller has set the signal before the executor can look at it again, and no second
iteration begins (`CallAgrees`, `SinceAgrees`, by what is `Before` what in the queue).  That none begins once the call is past
its write is the step `BeginsUnasked`: the head of the loop looks at the signal, which no other step takes back.  `StopsAreFinal` (`StopHolds`) needs
what a stop that found the loop running may tell when the executor is over (`HeardAgrees`, `DoneAgrees`), that one which did not
find it running does not meet those that did (`UnheardAgrees`), and what a restart would read: `LoopAgrees` says of the
records, of the file and of a write under way that a loop which is over shows the outcome it has or, in an older copy,
`running` or `stopped`, and never another.  From this `RestartsAreHonest` (`RestartIsHonest`, the action property)
follows too.  `StopInv` was first checked by TLC, also with two loops that write into each other's queue.

`StopReturns`, which is liveness, is only model-checked.

### 4.6 `TimelineSync`

`TimelineSyncProofs.tla` proves `ReaderImplemented`: `Spec => ReaderSpec`, for every kind and number of rows,
every page size and every bound on epochs, messages and upsets, from the invariant `SyncInv` (`SyncInvariant`).  It assumes that
`None` is neither a cursor nor a place nor a direction, that there is an epoch, and what else `TimelineSync` names.

**The argument.**  A reader may only move to rows that exist and start anew only when the log has.  The app
computes its cursor from what arrives, long after the daemon sent it.  `SentInLog` therefore says that every row and
page under way is of an epoch the daemon has had and, for the present one, within the log; `CursorInLog` says the same of the
cursor.  That an old epoch does not come back needs the order of the connection: `SentInOrder` says that
the epochs under way never decrease, and `CursorBehind` that none of them is behind the cursor's; hence a page that
replaces the cursor by one of another epoch has a newer one.  What is still under way when the connection ends is lost and
cannot break the order.

**What is displayed.**  `SyncTypes` (`TypeOK`) and `NoMessageIsMissing` (`NoMessageMissing`) rest on `ViewInv`, which adds to
`SyncInv` what the view has to do with the cursor (`ViewText`):

* `SentText`: a row under way is the row of the log with its number, as long as the log is in its epoch; a page under way has the messages
  of its rows, each once and in order, and nothing but its rows; and it ends and begins where its request asked (`PageRange`).
* `Covered`: every message from the first to the last row of the cursor is an item of the tail.  A message never gets into the head, so
  the head can be flushed, taken up again or replaced without moving one.
* `AllBehind`: nobody asks for rows before a place that lies after the first row displayed, so an older page joins the rows displayed
  without a hole.  A page that replaces the view breaks this, which is what the mishap "moved" records.

What a fold does with every page is shown step by step, without induction over data: `FoldExists` builds the recursive function on
sets of numbers that `FoldLeft` chooses, `FoldAlong` a function of the number of elements taken that does the same, and
`StepByStep` carries a set of numbers from 0 up to the last.  So `HydratedOK`, `ExtendedOK`, `PrependedOK` and `ReplacedOK` show that the
four ways in which a page gets into the view keep the messages of the view (or drop them all) and take those of the page, and `NthSpans`
and `EntriesOK` that the entries the daemon projects have the messages of their rows in order.

**In order, once.**  `MessagesAreOnce` (`MessagesOnce`) is about the one way in which rows could be displayed again: a tail page that
arrives when no initialization waits for it is taken as a whole, behind the view, if it ends after the cursor.  `OnceInv`, inductive
together with `ViewInv`, says why that does not happen until a mishap "mixed" or "missed" has:

* `OnceText`: the messages of the tail are of the rows of the cursor, in their order.
* `LiveOrLagging`: the app is up to date by live events or it is behind.  Up to date (`Live`) means that every row after the cursor arrives as a
  live event before any page ends with it or beyond it, so such a page finds it taken.  Behind (`Lagging`), because the connection was lost or
  a page was not the last, whatever has been asked for goes on from the cursor or replaces the view: a place asked for in
  its epoch is whole pages before it (`Aligned`), a tail that was asked for without initialization is of another epoch and resets
  the view (`Foreign`), and an initialization with the tail still waits (`TailAwaited`).
* `AllLive`: each row or last page under way (`Anchor`) brings the app up to date: what was sent after it leaves out no row.
* `AskedBehind`, `InitAfter`, `Quiet`, `Down`, `Fuller`: no request is from an epoch after the cursor's, an initialization after the first asks for what
  comes after the cursor, while a history is read the app knows earlier epochs only, nothing is under way without a connection, and a page
  that is not the last has entries.

TLC checked these conditions on small instances before they were proved.

`DisplaysWhatIsTold`, which is liveness, is only model-checked.

## 5. Plan

Done: `AgentRuns` with `RunSlot`, `CommandBroker` with `RemoteCalls`, `Schedules`, `AgentRecords`,
`TimelineSync` with `TimelineReader`, `Loops`.  Next, in this order:

1. `RestIsIdle` proved with `rewind` and with autonomous turns, part by part (slot, turn, lifecycle).
2. Waiting and finish notifications, composed with `AgentRuns`.
