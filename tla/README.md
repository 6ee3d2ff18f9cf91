# Formal models of proteo-runtime

TLA+ models of the parts of `proteo-runtime` whose correctness depends on the
order of events: coroutines that share a task, a provider that answers late or
not at all, tool requests that arrive twice, teardown that overlaps with work.
Every definition is translated from the code under `src/src/proteo_runtime/`;
`PROJECT.json` ("map") gives the lines of each one. Paths below are relative to
that package.

## 1. The system

`proteo-runtime` is a provider-neutral runtime for language-model agents with
one provider, the Codex SDK. It is an asyncio library: all its coroutines run on
one event loop, so that interleaving happens only at awaits. There is one
exception: the SDK reads the provider's requests on a thread of its own, which
calls the tool multiplexer synchronously and blocks for the answer.

| Component | State it keeps | Operations | Interacts with |
|---|---|---|---|
| `CodexRuntime` (`providers/codex/runtime.py`) | `_sdk`, `_started`, `_closed`, `_tasks`, `_sessions`, `_active_runs`, catalog, event bus | `start`, `close`, `task`, `session`, `resume_session`, `migrate_session`, `model` | creates and closes tasks, sessions, runs; emits lifecycle events |
| `_CodexTask` (same file; contract in `core/task.py`) | `_state`, `_lock`, `_close_lock`, `_close_event`, `_active_run`, `_active_invocation_id`, workspace, thread, diagnostics | `ainvoke`, `astream`, `interrupt`, `close` | SDK thread, mux, executor, the runtime's registry, the bus |
| `TurnRun` (`providers/codex/_runner.py`) | `terminal_status`, `result`, `finished`, `cleanup`, sequence number | `events`, `interrupt`, `wait_finished` | SDK turn handle, bus |
| `ToolExecutor` (`tools/__init__.py`) | `_calls` (futures by key), `_locks`, `events`, frozen policies | `execute`, `end_invocation`, `clone` | tool functions, approval handler, event sink |
| `CodexToolBridge`, `CodexToolMux` (`providers/codex/experimental.py`) | routes, `_pending` futures, bound identifiers | `register`, `unregister`, `close`, `__call__` (reader thread) | executor, via `run_coroutine_threadsafe` |
| Sessions (`_CodexSession`, `_SessionState`) | thread, descriptor, lock, active run, `deleted`, generation | turns, `close`, `archive`, `delete`, migration | runtime registry, SDK |
| `RuntimeEventBus` (`observability/bus.py`) | per-invocation locks, seen events, diagnostics, `_closed` | `emit`, `flush`, `close` | observers, with time limits |
| Structured output (`providers/codex/_structured.py`) | attempts, usages | `ainvoke`, `astream` | model view, schema adapter |
| `RuntimeNode` (`integrations/langgraph/node.py`) | none between calls | `__call__` | model, task or session, stream writer |
| Profiles, configuration, session codec | none (pure) | resolution, validation, encoding | runtime |
| Test doubles (`testing/fakes.py`) | as the runtime, in memory | as the runtime | tests |

What is hard in this code, and what makes each part correct:

* **Task.** `close()` may come in at any await of a turn, from any number of
  coroutines, and the provider answers when it likes. One turn at a time; no turn
  gains ownership once `close()` has begun; thread and workspace survive every
  turn; the teardown happens once, attempts every step, and announces itself once;
  `close()` returns.
* **Tool executor.** Requests are duplicated and arrive at any point of the first
  one's execution. One owner per call; effects bounded by the retry policy; no
  tool without its checks and approval; the same answer for all; nothing left
  when the invocation ends; a duplicate is never left waiting.
* **Bridge.** A thread races with registration and removal of the route. A
  request runs under the turn that it names; a call has its effects once while
  its turn is registered; no reader thread blocks for ever.
* **Sessions.** Checks before an await, changes after it (resume, migrate), and
  restarts in between. A descriptor denotes one conversation for good, its
  permissions never change, and every later process can resume it; no workspace
  is lost or taken from an open handle.
* **Runtime.** `start`, `close` and the creation of tasks and sessions overlap,
  and a run may close the runtime from inside. A closed runtime leaves nothing,
  in dependency order, and announces its end once.
* **Bus and observers.** Locks are dropped while others wait; a worker thread
  outlives its timeout; `close` is not atomic. Events of an invocation are
  dispatched one at a time, a result that claims healthy observability is honest,
  traces end, no exporter stalls a run.
* **Streams, structured output, node.** Generators inside generators, each with
  its own cleanup, under cancellation, deadlines, retries and consumers that
  stop. One well-formed logical stream, a success only when there was one, and
  everything released on every way out.

`PROJECT.json` lists the hazards with their lines and the properties that cover
them, or says why none does.

## 2. Modules

| Module | Models | Kind |
|---|---|---|
| `TaskContract` | what a `RuntimeTask` promises (`core/task.py`) | abstract specification |
| `TaskLifecycle` | `_CodexTask` with its provider and closing runtime | specification, implements `TaskContract` |
| `FakeTask` | the task of `testing/fakes.py` | specification, implements `TaskContract` |
| `ToolExecutor` | `execute`, `end_invocation`, tool definitions | specification |
| `ToolBridge` | multiplexer, bridges, reader threads | composition with `ToolExecutor` |
| `RuntimeLifecycle` | `start`, `close` and what they overlap with | specification |
| `Profiles` | profiles, configuration, resolution of bindings, what a model view advertises | operators |
| `SessionCodec` | session descriptors | operators |
| `SessionManager` | sessions and restarts | composition with `Profiles`, `SessionCodec` |
| `TurnStream` | `TurnRun.events()` | action fragments |
| `StructuredModel` | `astream` of model, session, structured model | composition with `TurnStream` |
| `RuntimeNode` | the LangGraph node | composition with `StructuredModel` |
| `Observers` | what LangSmith and OpenTelemetry observers keep open | operators |
| `EventBus` | `emit`, `flush`, `close` | composition with `Observers` |
| `*_proof` | theorems of the module they are named after | proofs |
| `MC*` | instances of the module they are named after | model checking |

In all of them an action is the code between two awaits that may suspend (in
`ToolBridge`, where threads are preempted, between two accesses to shared state);
a call that is refused without a change is a stuttering step; names, texts and
payloads are model values.

### TaskLifecycle

`pc[p]` names the await at which coroutine `p` stands. Callers run `ainvoke()`
(`Invokers`) or `astream()` (`Streamers`), `Closers` run `close()`, the runtime's
own call included. The other variables are the fields of the task (`state`,
`lock`, `closeLock`, `closeEvent`, `activeRun`, `activeInvocation`), of its runs
(`terminal`, `finished`, `cleaned`), of the tool side (`routes`, `ended`), of the
provider (`prov`, `stopAsked`, `thread`), the directory, the registry entry and
the count of `TASK_CLOSED` events; `stopFailed` is a history variable.

A turn goes through `Begin` (tests, lock, request), one of `TurnStarted`,
`StartRejected`, `BridgeRefused`, `StartFails`, `CancelStart`, and then the loop
of `TurnRun.events()`: `Yield`/`Pull`, `Terminal`, `Finish`, or one of the ways
out (`StreamBreaks`, `MissingTerminal` + `LastEvent`, `CancelTurn` + `Unwound` +
`DrainDone`, `CloseStream`). Each way out contains the finally blocks of
`events()` and of the caller, in the code's order. `close()` is `CloseQueue`,
`CloseNoop`, `CloseJoin` + `EventSet` for the calls that find another one at
work, and `CloseBegin`, `InterruptReturned`/`InterruptFailed`, `RunFinished`,
`AcquireTurn`, `DeleteReturned`/`DeleteFailed`, `Announced` for the one that does
it. `CancelTeardown` is the cancellation of that one: only its finally block runs.

Abstractions: prompts, results, models and the wording of errors are left out;
the 5-second limits are nondeterministic choices; a task always has a tool
executor, because `task()` refuses to create one without a registry. The provider
(`ProviderStarts`, `ProviderEnds`) is external: it may start a turn after its
caller gave up, and end it at any time. Several events of one turn between two
pauses of the consumer are one `Yield`.

### ToolExecutor

A member of `Requests` is one call of `execute()` with a key
`(invocation_id, call_id)`, a tool and a bit for the validity of its arguments.
`Snapshot` gives the tools their definitions and `Allowed` is the permission
policy; what the pipeline tells apart (`Known`, `Permitted`, `NeedsApproval`,
`Idempotent`) is derived from them as in the code. The lock of the invocation is
never held across an await, so `Execute` claims a key in one step: `Own` or
`Join`. The owner's pipeline follows `_execute_owner` (`Check`,
`Approve`/`Deny`, `CallFunction`, `FunctionReturns`, `OutputInvalid`,
`FunctionFails`, `Retry`, `Completed`, `Failed`). `SinkFails` and
`SinkFailsCompleted` are an event sink that raises, outside and inside the try
block of an attempt. `AskFails` is an approval that cannot be asked for: the
request of the handler cannot be built, or the handler raises before it returns an
awaitable, both before the try block of `_approval` (lines 831-839); the pipeline
ends without a terminal event and without a run. `decision` is the history of the
approval. Constants switch on what not every use of the executor
meets: `Late` requests, `Cancellable` coroutines, a sink that may fail;
`sinkFailed` is a history variable.

### ToolBridge

Each request has a reader thread: `Denied` or `Routed` (the lookup), `Submit`
(`run_coroutine_threadsafe`), `Pend` (`_pending.add`), `Answer`. The loop starts
the queued job (`StartJob`, which is `ToolExecutor!Execute`), runs it on, and
delivers cancellations (`DeliverCancel`) behind its first step, as asyncio does.
A turn is registered and cleaned up in the order of the code: `DropRoute`,
`CancelPending`, `Unbind`, then `EndTurn`; `CloseMux` ends the invocation first.
Turns of one provider thread follow one another, because task and session hold a
lock. A request whose bridge is unbound between lookup and submission falls back
to the turn it names, as `__call__` does.

### RuntimeLifecycle

The eight steps of `close()` are actions of the coroutine that holds
`_close_lock` (`HasLock` to `BusCloses`), each working on the snapshot it took
(`todo`). `start()` is `StartBegin`, `StartFails`, `StartInstalls` and
`StartReturns`/`StartRefused`. Runs, tasks and sessions create their workspace,
await the provider, and register afterwards; `RunInvalidates` is a run that closes
the runtime from inside. The close of a task is one step (its steps are those of
`TaskLifecycle`).

The except clauses of this code name `Exception` only, and some of its clean-ups may
fail themselves. Hence `StartAbandons` (a cancelled `start()`, or a client that
refuses to close in the clean-up of a failed one), `CreateCancelled` (a cancelled
creation), the second disjunct of `CloseSession` (an interruption that raises, under
the `suppress` that also surrounds the removal of the workspace), `CancelClose`, and
`RunAbandons` (a `close()` that raises in the finally clause of a stream). Each is a
`Fault` or the consequence of a raising `close()`, and what it leaves open for good
is recorded in `abandoned`. `clean` records whether a creation was in flight when a
`close()` began: it is then registered behind the back of `close()`, which the
code does not prevent and the properties except by name.

### Profiles, SessionCodec, SessionManager

`SessionManager` has one coroutine per call of the host. `Create`/`Created`,
`Resume`/`Resumed`, `Migrate`/`Migrated` are the code before and after the await
of the provider, `Return` and `AnnounceFails` the dispatch of the event, followed
by the handle. `CreateFails` and `RebindFails` are the except clauses, which remove
the workspace; `CallCancelled` is a cancellation, which they do not catch, and which
leaves it. `CloseRuntime` interrupts the sessions and forgets them, `StartAgain` is a
`start()` of the same runtime while the host still has its old handles (whose states
then have a client that is closed: `live`), and `left` names the workspaces that a
cancelled call or a raising interruption has left. A descriptor is the object that `SessionCodec` encodes; the
fingerprint of the configuration is the tuple that the code hashes, so that two
are equal exactly when their inputs are (no collisions of the hash). `Restart`
ends the process, by a crash or not, and starts another one with any usable
configuration; threads and issued descriptors survive. `serial` chooses between a
host that makes one call at a time and one that overlaps them. The level of a
mapping is one more index of the same table and is left at one value.

### TurnStream, StructuredModel, RuntimeNode

`TurnStream` gives one resumption of `events()` as an action fragment
`RunStep(out)`. `Publishes` is `_publish()`: under a strict bus it may raise, and the
event is lost; what the except clauses then do depends on whether a terminal status
was there already. The loop reads on behind `turn/completed`: `Notified` (late deltas
and usages), `TurnEnded` (a second `turn/completed`, with any status) and
`StreamBreaks` fire there too. `InterruptOrInvalidate` interrupts the turn or closes
the runtime, `InvalidateRaises` is that close raising. `StructuredModel` drives it: `frame` says which generator runs,
`item` what its consumer gets. Plain streams pass events on and clean up
(`PlainStep`, `Handled`, `CleanedUp`); `_events()` collects an attempt
(`Collect`), replays it, completes, or announces the failed validation and a retry.
`Interrupted` is a cancellation or the deadline at any await; inside the finally
clause of a plain stream it cuts the cleanup short (`CutShort`, `cutCleanup`), as
does a runtime that refuses to close there (`CleanupRaises`); the attempts of a
structured stream have an outer except clause, which interrupts again. Validation is
a choice.
`RuntimeNode` is the consumer: it may refuse state and configuration
(`NodeRefuses`), resumes a session, takes events, may fail at its
writer or mapper, and closes stream and session.

### Observers, EventBus

An emitter is a coroutine with a script of events; `after` is the causal order
between scripts. `locks` is the dictionary of locks, each named after the `emit()`
that created it; `on` is the lock an emitter holds or awaits, also one that was
dropped from the dictionary meanwhile, and `ahead` the emitters that asked for it
before and have not left: who has nobody ahead holds it. `runs` maps each open key
of LangSmith to the keys before it, which is the insertion order of `_runs`; a
tool's last event without a run of its own ends the newest open tool. An event for
LangSmith becomes a job of a worker thread (`ToThread`,
`ThreadHandles`, `ThreadRaises`), which `TimesOut` and `EmitCancelled` leave
behind; OpenTelemetry handles it on the loop (`Traces`). Clients and spans may raise
(`Fault`): `OpenTelemetryRaises` gives the spans that an event leaves when one does
(`_end_span` takes a span out of the table before it ends it), `LifecycleFails` is a
`flush()` or `close()` that raises, also that of OpenTelemetry with a span still
open. `close()` flushes and closes the observers one by one and sets `_closed`
last. Payload modes and
projection are left out: they change the content of an event, not its way.

### FakeTask

As `TaskLifecycle`, without provider: a turn runs its script, publishes and
leaves. Its teardown waits for the lock like that of the real task.

## 3. Model checking

Run `tlc -config <cfg> <module>` in this directory. All runs disable the deadlock
check: a closed task or runtime, a finished node and a bus without emitters rest.

| Run (configuration) | Module | Question | Distinct states |
|---|---|---|---|
| `TaskLifecycle` | `MCTaskLifecycle` | two callers, three closers, three turns: teardown and contract | 217 425 |
| `TaskLiveness` | `MCTaskLifecycle` | the same, smaller, with cancelled `close()`: ownership, waits without a cycle, and does every `close()` return? | 155 903 |
| `ToolExecutor` | `MCToolExecutor` | three requests for a call, five kinds of tools, two attempts, cancellations, approvals that cannot be asked for, a raising sink | 1 142 259 |
| `ToolBridge` | `MCToolBridge` | two requests for one call name, two turns of one thread, cancellations: is every reader answered? | 401 940 |
| `SessionManager` | `MCSessionManager` | four calls, two usable configurations and a refused one, a restart or another start, foreign descriptors, one workspace left by a cancellation or a failing interruption | 614 015 |
| `RuntimeLifecycle` | `MCRuntimeLifecycle` | two starts, a close, a run, a task, a session, one cancellation or failing clean-up | 1 346 840 |
| `EventBus` | `MCEventBus` | a turn with a tool call, one fault, any timeout, a close | 4 590 902 |
| `EventBusLiveness` | `MCEventBus` | exporters that never answer | 152 327 |
| `RuntimeNode` | `MCRuntimeNode` | three modes, three attempts, two cancellations, a deadline, a strict bus, events behind `turn/completed` | 2 161 184 |
| `FakeTask` | `MCFakeTask` | three turns, three closes | 287 376 |
| `SessionOverlap` (`Session_OneTurnPerSession`) | `MCSessionManager` | is there one turn per session? | violated |
| `StructuredOrphanTurn` | `MCRuntimeNode` | does a cancellation interrupt the active turn? | violated |

Every property has a comment in its module that states it, and a mutant, a
plausible slip in the code, that breaks it (`PROJECT.json`).

**Bounds.** *Task:* two callers are the least at which a turn can start under
another one; a third turn meets what the second left behind; three closers are
one that tears down, one that waits for its event holding `_close_lock`, and one
that waits for `_close_lock`. *Executor:* three requests are an owner, a
duplicate, and one that comes when the owner was cancelled; the calls of an
invocation share only its lock entry, and invocations nothing. *Bridge:* two turns of one thread are what a wrong route would confuse, two
requests an owner and its duplicate or a latecomer. *Sessions:* four calls are a
creation, two that overlap on it and one that sees the result; the two usable
configurations differ in the mapping of one profile and in their custom profile;
the third is refused; one restart (or another start) has a before and an after;
`MaxOverlapping` is the number of calls of a host that overlaps them, `MaxSerial`
that of one that does not; `MaxLeft` is one workspace left by a cancelled call, since
none of them is looked at again. `LeftBySerialHost` and the view `Observed` keep the
directories on disk to the serial host: no guard reads them, and the only property
about them (`SerialHostOwnsWorkspaces`) is of that host. *Runtime:* two starts make a restart (`FirstStart`
lets the first of them begin first); two closers are the host and a run; `MaxFaults`
is one cancellation or failing clean-up, in any place, beside any number of ordinary
failures. *Bus:* two emitters contend for one invocation, and a duplicate
event is among theirs; one fault beside any number of timeouts; one worker thread
suffices to make jobs wait. *Node:* three attempts have a first, a middle and a
last; two cancellations reach a cleanup that runs because of the first.
`MaxNotes` and `MaxRepeats` let an event of each kind and a repeated completion
happen, before and behind `turn/completed`.

**Fairness.** *Task:* `LoopFairness` is what asyncio guarantees: a coroutine whose
await is over runs, and `wait_for` expires; `ProviderFairness`: the provider
answers requests and ends a turn it was asked to stop (no await of these answers
has a limit in the code); `ConsumerFairness`: the consumer of a stream goes on or
closes it. *Bridge:* threads are scheduled, the loop runs, and tools, approvals
and observers have time limits; the end of a turn is not assumed. *Runtime:* the
steps of `close()` are taken, which rests on the time limits, on `TaskLiveness`
and on two answers of the SDK without a limit (lines 407 and 422 of `runtime.py`).
*Bus:* only the loop and its timers; worker threads may hang. *Node:* the loop and
the finalizer of generators; the provider need not answer. *FakeTask:* scripts end
and consumers go on.

## 4. Findings

The two violated runs of `PROJECT.json`, with their quotes there:

1. Two resumptions of one descriptor that overlap after a restart both find no
   state for it before they await `thread_resume()`, and each registers its own
   behind the await: two `_SessionState` objects, each with a lock, and two turns of
   one session at once (`SessionOverlap`). That an old descriptor resumes besides the
   one a migration issued is by design and not counted
   (`phase-2 02_technical_design.md:175`).
2. A structured invocation that is cancelled while it announces itself, or while
   it requests its next attempt, leaves the provider turn running
   (`StructuredOrphanTurn`).

Fifteen further configurations are kept beside the runs. Each is violated, and
documents a behaviour that a reader of the documentation would not expect
(`RuntimeNode_Documented` holds three properties; `tlc -continue` shows that each is
violated):

| Configuration (module) | Property | What the code does |
|---|---|---|
| `TaskIdleConsumer` (`MCTaskLifecycle`) | `CloseIsBounded` | `close()` waits for the turn lock without a limit (line 2094); `controlled-agent-lifecycle-semantics/01_requirements.md:192` asks for a bounded grace period |
| `TaskCancelledCloseLeak` (`MCTaskLifecycle`) | `ClosedIsCleanedUp` | a cancelled `close()` declares the task closed and drops the rest of the cleanup (line 2138); `01_requirements.md:187` wants the workspace removed when the task closes |
| `TaskFalseDiagnostic` (`MCTaskLifecycle`) | `DiagnosticMeansFailure` | a second read of `_active_run` after an await turns a success into a failure diagnostic (line 2085) |
| `TaskThreadReuse` (`MCTaskLifecycle`) | `CancelledTurnStopsBeforeReuse` | an unconfirmed interruption is ignored and the thread used again (line 2057); `project-guide.md:2052` wants the transport replaced |
| `ToolSinkFailure` (`MCToolExecutor`) | `SinkFailureChangesNothing` | a sink that raises at `TOOL_COMPLETED` makes a completed tool run again (`tools/__init__.py:755`) |
| `ToolLateRequest` (`MCToolExecutor`) | `NothingLeftAfterEnd` | a request that reaches the loop after `end_invocation()` leaves state behind |
| `BridgeLateRequest` (`MCToolBridge`) | `NoJobAfterCleanup` | a request that passed the lookup before `unregister()` is submitted after it and runs; the docstring (`experimental.py:322`) says all pending requests are cancelled |
| `Session_OverriddenSessionResumes` (`MCSessionManager`) | `OverriddenSessionResumes` | a session created with another model than its profile's cannot be resumed: the fingerprint is compared with the profile's binding (`project-guide.md:1124`: `close()` "preserves resumability") |
| `Session_ToolsOnlyWherePermitted` (`MCSessionManager`) | `ToolsOnlyWherePermitted` | a migration from a profile with host tools to one without keeps the tool executor of the state |
| `Session_OnlySessionProfiles` (`MCSessionManager`) | `OnlySessionProfiles` | `resume_session()` (`runtime.py:664`) does not test the lifecycle and the fingerprint (line 622) leaves it out, so a descriptor of a persistent custom profile resumes after a restart whose configuration gives that name the ephemeral lifecycle (`core/profiles.py:237`: "RuntimeSession requires PERSISTENT lifecycle and non-EXTERNAL context.") |
| `ToolUnaskedApproval` (`MCToolExecutor`) | `EveryFailureDenies` | an approval request that cannot be built, or a handler that raises before it returns an awaitable, is a tool error without any terminal event (`tools/__init__.py:831`); `project-guide.md:1680`: "No handler, timeout, failure or invalid response means denial" |
| `RuntimeLeaks` (`MCRuntimeLifecycle`) | `NothingAbandoned` | a cancelled `start()` keeps its client (`runtime.py:298`), a cancelled creation its workspace (591, 814, 1260), a session whose interruption raises likewise (404); `phase-1 04_acceptance_criteria.md:12`: partial-start failures leave no "leaked work" |
| `Session_ReducedMigration` (`MCSessionManager`) | `ReducedMigrationAdmitted` | `migrate_session()` refuses every change of the security policy, also to a weaker one (`runtime.py:873`); `project-guide.md:1136` names the security policy among what a migration may change, and `phase-2 02_technical_design.md:165` says that the target may match or reduce it |
| `RuntimeNode_Documented` (`MCRuntimeNode`) | `DrainedStreamEndsTerminal` | a delta or usage that the provider sends behind `turn/completed` is published behind `INVOCATION_COMPLETED` (`_runner.py:196`); `project-guide.md:2050`: "A normally drained `astream()` ends with a terminal event" |
| `RuntimeNode_Documented` (`MCRuntimeNode`) | `OneTerminalOutcome` | a second `turn/completed`, or an error of the stream behind the first, publishes a second terminal event (`_runner.py:310`); `phase-2.1 02_technical_design.md:12` promises one terminal outcome per invocation |
| `RuntimeNode_Documented` (`MCRuntimeNode`) | `CleanupReleases` | a cancellation in the finally clause of a stream, or a runtime that refuses to close there, skips the release of registration, workspace and session lock (`runtime.py:1401`); `phase-1 04_acceptance_criteria.md:61` |
| `FakeStickyInterrupt` (`MCFakeTask`) | `InterruptHitsActiveTurn` | the fake's interruption flag is never reset, so the next turn ends interrupted too (`core/task.py:138`: "Interrupt the currently active turn") |

Also met, without a configuration of their own: `remove_workspace()` ignores
errors, so `close()` can never record `task.cleanup.workspace_failed`; calls of one
invocation are not serialised by `execute()`; a cancelled owner releases its key,
so that a later duplicate repeats the tool's effects; a creation in flight when the
runtime closes is registered afterwards and never closed; a failing attempt of a
structured invocation ends its logical stream without a terminal event; an
interrupted turn publishes `INTERRUPTED` and then `INVOCATION_FAILED`; an event
behind the terminal one creates a lock that nobody removes; the bus stays closed
when a runtime is started again; its `_seen` grows by an entry for each event as
long as it lives.

## 5. Proofs

`tlapm <module>_proof.tla` checks all proofs with Z3, Zenon and LS4. The theorems
hold for any sets of callers, closers, turns, requests, invocations, calls, tools,
configurations and descriptors, and for any bounds. In each module an inductive
invariant is built of named parts, every part has a lemma with one step per
action (or per group of actions with the same effect), and the theorems follow.
Each invariant was checked by TLC on the instance of its run before it was
proved.

**Task** (`TaskLifecycle_proof`). `TurnOwnership` and `NoTeardownUnderTurn` are not
inductive: that the lock is free says nothing about `pc`. `IInv` adds the converse
(`OwnerInv`: a caller is inside a turn exactly when it holds the lock, and it has a
turn), the uniqueness of the call that tears down and the state it works in
(`TeardownInv`), and that resources go only with `CLOSED` (`ResourceInv`).
`Invariance` joins them; `TypeCorrect`, `OwnershipTheorem`, `TeardownTheorem`,
`TaskClosedTheorem` and `OwnershipAfterClosing` follow.
`FinalisedOnceTheorem` needs in addition, for each position of a
caller, whether its turn's tools have been finalised (`EndedInv`), and that what
`close()` finalises nobody did before (`InvocationInv`). `ReleaseTheorem` and
`CloseReturnTheorem` are about a `close()` that runs to its end, and assume
`~ClosersCancellable` (`TaskCancelledCloseLeak` shows what a cancelled one leaves
behind). `Refinement` shows, under the same assumption, that every step maps to a
step of `TaskContract` or to a stutter, with `turn` computed from the lock and
`_active_run`. `CloseWaitTheorem` needs no such assumption: a cancelled teardown
still sets the event, so that the waits of `close()` never form a cycle (`WaitInv`:
a `CLOSING` task is being torn down, by one call, a `CLOSED` one has its event set, and
`_close_lock` belongs to the one call that waits for that event).

**Fake task** (`FakeTask_proof`). `FakeRefinement`: the test double implements the
same `TaskContract`. The mapping reads the lock, so `FakeInv` says who stands in
its queue: nobody, a caller, the teardown, or a caller and behind it the teardown.

**Executor** (`ToolExecutor_proof`). `RequestInv` ties the position of a coroutine
to its future and its attempt, `AuthInv` carries the outcome of the checks across
the approval; both hold of every execution and give `TypeCorrect` and
`AuthorisationTheorem`; `TerminalTheorem` adds which event a position has already
announced, and that a request whose approval could not be asked for has none and no
run. `KeyInv` says that an owner's future is the stored one until its
invocation ends, and needs `~Late` (`ToolLateRequest` shows why); it gives
`OwnerTheorem` and `CleanupTheorem`. `OwnedInv` is what is left of it when requests
may be late, for calls no owner of which was cancelled. On it rest `EffectInv`,
which counts at most one start per attempt, and `AnswerInv`, that all requests of
a call read one future: `AnswersTheorem` holds of every execution,
`EffectsTheorem` needs `~Late`, since a late request may own a call again.
`PendingInv` follows a future that is not settled: its owner is in the pipeline,
and is the one stored under the key as long as the invocation has not ended. So
`DuplicateTheorem`, again for every execution: whoever shares a pending future
shares that of an owner at work.

**Bridge** (`ToolBridge_proof`). `BridgeInvariance` instantiates the invariant of
the executor and adds the links between a reader thread's request, the route it
looked up and the turn the loop registered. `RoutingTheorem`: a request runs under
the turn that the provider named. `ExactlyOnceTheorem`: while its turn is
registered a call has one owner and bounded effects; the assumption `~Late` of the
executor is not left over, the multiplexer discharges it. `ReaderTheorem` takes
`PendingInv` over from the executor and adds `QueuedInv`, that a submitted job is
queued or has begun: as long as the job behind a blocked `future.result()` has no
answer, it is queued, at work, or shares a future that is settled or whose owner is
at work for the same turn and call.

**Runtime** (`RuntimeLifecycle_proof`). `RuntimeInvariance` holds the queues of the
three locks, the client that a `start()` or a `close()` has in hand, and for each
step of `close()` what it has done and what is still to do. `OneSdkTheorem`,
`StoppedTheorem`, `TaskSdkTheorem` and `ClosedTheorem` hold for any number of
closing, running and creating coroutines, and for any number of cancellations and
failing clean-ups; the last excepts runs that still unwind, creations that were in
flight, and what those faults abandoned, as the property does. So the theorems say
that nothing else leaks, and `RuntimeLeaks` that this does. They assume `Orderly`, as
the run does: the host calls `start()` only when no `start()` or `close()` is under
way, and repeats a `close()` that failed before it starts again. `start()` takes no
lock, so that two overlapping calls would each install a client; a run that closes
the runtime from inside may still overlap with all of it.

**Sessions** (`SessionManager_proof`). What a descriptor promises is a relation
between three things that live apart: the descriptors issued (for good), the
registered states (until the process ends) and the pending calls (which checked one
and will change another). `SessionInvariance` says for each pending call what it
checked and that nothing can falsify it: that what it creates is fresh, that the
thread of a descriptor, of its state and of its handle agree, that the policy of a
descriptor is the policy of its thread. `ThreadTheorem`, `PermissionsTheorem` and
`ResumeTheorem` (by the round trip of the codec) hold however calls overlap and
restarts intervene. `WorkspacesTheorem` is about a host that makes one call at a
time, as its property, and excepts the workspaces that `left` names.
`PermissionsTheorem` is what the code guarantees; the documentation would let a
migration change the policy (`Session_ReducedMigration`). `ProfilesTheorem` assumes `StableLifecycles`, that no two
configurations give one custom profile two lifecycles, and uses
`PersistentIsSession`; `Session_OnlySessionProfiles` is what happens otherwise.
The codec's `RoundTrip` and `Injective` stand before it.

**Profiles** (the first theorems of `SessionManager_proof`). `OneFactory`: a custom
profile that the configuration accepts fits exactly one of `model()`, `task()` and
`session()`. `PersistentIsSession`: the weaker test of `migrate_session()` admits no
profile that `session()` refuses. `HonestCapabilities`: what a model view advertises
is exactly what `_start_run()` lets it do.

**Bus and observers** (`EventBus_proof`). `BusInvariance` follows an event on its way.
`Queue` orders the emitters of a lock, `Claims` says that an id is claimed by one
emitter. `OneLock` is what the removal of a lock (`_release`) costs: either all
emitters of an invocation ask for the lock in the dictionary, or the terminal event
has been dispatched and nobody has an event up to it in hand; `SerialTheorem`
follows. The events behind the first terminal one (an interrupted turn has two) may
overlap, and do. For an observer that neither failed for an invocation nor was
closed, `Tracked` says where each of its events is that the observer has not handled:
in the hands of the one emitter that has not passed the observer yet, and a job of a
worker thread is still awaited. Once the invocation has ended nobody has anything in
hand, so that everything was handled in order: `Reported` carries this to the
completed result (`HonestTheorem`), `TracesEnded` to the open runs and spans
(`TraceTheorem`: whatever stays open is a run or a span that a stray event opened
itself, one that came behind the terminal event or whose dispatch was cancelled, and
the property says which of the two each observer tolerates). `Closing`
relates the position of `close()` to the observers it has closed (`ClosedTheorem`,
unless the `close()` of the observer raised).
`FirstCome` is about the queue of a lock object, whichever dictionary entry it was:
the emitters ahead of one are in `emit()` for the same lock, finitely many, and so
are those ahead of them. Of those ahead, the one with the fewest before it has none,
and holds the lock (`LockTheorem`). All of these theorems hold for any emitters, scripts, timeouts, faults and cancellations, with
either observer, both in any order, or none.

**Streams and node** (`RuntimeNode_proof`). `LogicalStreamWellFormed` speaks of the
log only; what makes it inductive is what is not yet in it. `Collecting` and
`Between` say what `buffer` may contain at each position of `_events()` (no
terminal event, a `turn_started` only at its head and only behind an announcement
or a retry), and that usages, turns and attempts advance together. For a plain
stream, `TakenCompletions` relates the completions on the bus to those the node
has taken, with the one event between them, `Reading` says that the run is still in
its loop - where it may stand before or behind `turn/completed` - and
`OnlyCompletions` that no other terminal event is on the bus as long as it is. `NodeInv` follows a cancellation: until
the node leaves, it is carried by an error in `item` that no cleanup can turn into
an end. `LogicalStreamTheorem` and `SuccessTheorem` follow from `NodeInvariance`
for any number of attempts, notifications and cancellations.

**Assumptions on constants** are named in the modules and evaluated by TLC in
every run: disjoint sets of coroutines (`CoroutinesAssumption` and its like), a
null value outside them and different from the names of errors
(`NodeAssumption`), Boolean flags, `MaxAttempts` in 1..3 as `ToolRetryPolicy`
requires (any positive number for structured output), definitions for the known
tools, foreign descriptors and texts that are none of the runtime's
(`ForeignAssumption`, `TextAssumption`), observers that are bound once, and events
whose id belongs to one event (`BusAssumption`).

**Only model-checked:** the liveness properties `CloseTerminates` (of a task and of
the runtime), `ReadersAnswered`, `EmitAlwaysReturns`, `EverythingReleased` and
`CloseLeavesNothing`. They rest on fairness and `ENABLED`, which are out of the
prover's reach, as are recursive operators and induction over data. Of the first
three (for `CloseTerminates`, the task's) the safety half is proved: nobody ever
waits for something that nobody is about to bring about (`CloseWaitTheorem`,
`ReaderTheorem`, `LockTheorem`); what is left to fairness is that those who are
waited for go on. Every invariant and every action property that a run checks has a
theorem. Two more theorems state what no run lists of its own: `TaskClosedTheorem` (in a
run it follows from `ContractSpec`) and `DuplicateTheorem` (from it follows what
`NoReaderWaitsInVain` says in a run).

## 6. Plan

The safety properties of all modules are proved. What could be added is more of the
code: the time limits of an interrupted turn whose task goes on, a session's turn
without a bridge, and an abstract specification of the bus that both observers are
written against.

**Not modelled, and why.** Value types and errors, the field-by-field mapping of
SDK objects, telemetry configuration, the command line and the example
application keep no state that several actors share. The projection of payloads
in the bus and the normalisation of JSON schemas are recursions over data: they
decide what an event or a request says, not when it is said. The fake models and
sessions repeat the control of `StructuredModel` and `SessionManager` in memory.
Registration of tools happens before any concurrency, on a registry that a run
copies. `ainvoke()` of a model is the stream's pipeline without pauses.
