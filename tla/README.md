# A TLA+ model of EDOT PHP (elastic-otel-php)

This directory holds TLA+ specifications of the Elastic Distribution of
OpenTelemetry PHP, its native part and the PHP code that works with it, the TLC configurations that check them on
small instances, and TLAPS proofs of the properties that matter most for every
size of instance. Paths below are relative to the root of the repository
(`src/` in PROJECT.json); `native/` stands for `prod/native/` and `code/` for
`prod/native/libcommon/code/`.

## 1. The system

A PHP server (Apache, PHP-FPM, the command line) loads the extension. The
*master* process runs MINIT (`native/extension/code/ModuleInit.cpp`), which
forks one *coordinator* process and goes on; the SAPI later forks *workers* from
the master. Each worker serves one request at a time: PHP code creates spans,
serializes them, and hands the payload to the native part, which sends it
through a message queue in shared memory to the coordinator. The coordinator
owns the HTTP transport, which posts payloads to the collector, and the OpAMP
client, which fetches remote configuration and publishes it in shared memory
for the workers.

    worker: PHP -> CoordinatorTelemetrySignalsSender -> ChunkedMessageProcessor
                      |  boost::interprocess::message_queue (100 chunks of 4 KiB)
    coordinator:      v
      CoordinatorProcess -> ChunkedMessageProcessor -> CoordinatorMessagesDispatcher
                                                           -> HttpTransportAsync -> collector
      OpAmp <-> HttpTransportAsync
        -> CoordinatorConfigurationProvider (shared memory, revision) -> workers

Who runs concurrently: the processes; in the coordinator its receiving loop, the
periodic thread, the transport's sender thread and the OpAMP heartbeat thread;
in every process that has forked or been forked, again a transport sender and a
heartbeat thread, because the fork hooks start them unconditionally; in a worker
with inferred spans enabled, the sampling thread.

### Components

| Component | State | Operations | Hard behaviour | Right when |
|---|---|---|---|---|
| Asynchronous transport (`code/transport/HttpTransportAsync.h`, `HttpEndpoints.h`) | payload queue, byte counter, thread, `working_`, `forceFlushOnDestruction_`, endpoints | initializeConnection, enqueue, prefork, postfork, destructor, sender loop | thread stop and start around `fork()`, copy of the queue in the child, retries, time-limited flush | nothing lost, repeated, reordered or sent twice; the limit holds; stop and fork never hang |
| HTTP client (`code/transport/CurlSender.cpp`) | one curl handle | sendPayload | failures, timeouts | every attempt ends |
| Fork hooks (`native/extension/code/ForkHandler.cpp`) | none | before, after in parent, after in child | order of the three components | each component is stopped at the fork and running after |
| Chunked messages (`code/coordinator/ChunkedMessageProcessor.*`) | message counter, map (sender, message) to partial message | sendPayload, processReceivedChunk, cleanupAbandonedMessages | lost chunks, interleaved senders, dead senders | what is delivered was sent, once; no entry stays for ever |
| Coordinator process (`code/coordinator/CoordinatorProcess.*`) | shared queue, `working_` | start, loop, periodic task, enqueueMessage | full queue, death of the parent | stops with its parent; does not block workers |
| Coordinator commands (`CoordinatorMessagesDispatcher.cpp`, `CoordinatorTelemetrySignalsSender.cpp`) | none | establish connection, send payload | a lost establish command | payload goes to the endpoint it names |
| Configuration distribution (`CoordinatorConfigurationProvider.h`) | shared files and revision, local revision | storeConfigFiles, triggerUpdateIfChanged | workers at different revisions, full segment | every worker ends with the last configuration |
| OpAMP client (`code/transport/OpAmp.*`) | agent id, hash, files, heartbeat interval, thread | startCommunication, handleServerToAgent, heartbeat, prefork, postfork | callbacks on another thread | a configuration is applied once and reported only then |
| Options (`ConfigurationManager.*`, `ConfigurationStorage.h`, `ElasticDynamicConfigurationAdapter.cpp`) | current snapshot and revision, worker snapshot, remote options | update, updateIfChanged, getOption | precedence, stale snapshots | remote over INI over environment over default |
| Request lifecycle (`RequestScope.h`) | request counter, bootstrap and preload flags | onRequestInit, onRequestShutdown, onRequestPostDeactivate | early returns | shutdown undoes what init did |
| Periodic tasks (`PeriodicTaskExecutor.h`) | thread, `working_`, `resumed_`, tasks | resume, suspend, addTask, prefork, postfork | task under way while suspended or stopped | no run long after suspension; stop never hangs |
| Inferred spans, native (`InferredSpans.h`, `Hooking.cpp`) | request flag, last tick, pending flag | tryRequestInterrupt, attachBacktraceIfInterrupted, reset | two threads, re-entry from PHP | no nested backtrace, no request starves |
| Inferred spans, PHP (`prod/php/ElasticOTel/InferredSpans/InferredSpans.php`) | open frames and spans | attach stack trace, shutdown | long sequences of traces | spans are nested and closed |
| Worker-wide state (`SharedMemoryState.h`) | one flag in shared memory | shouldExecuteOneTimeTaskAmongWorkers | race of workers | once |
| Function instrumentation (`InternalFunctionInstrumentation.cpp`, `InstrumentationBridge.php`) | hook storage | register, observer begin and end, clear | hooks registered while running, exceptions | every pre hook has its post hook |
| Autoloader guard (`DependencyAutoLoaderGuard.cpp`) | compiled files, class and function positions | onRequestInit, shouldDiscardFileCompilation | many requests | EDOT's own copy is the one compiled |
| Parsers and wildcards (`CommonUtils.cpp`, `WildcardMatcher.php`) | none | pure functions | corner cases | agree with a reference definition |

Not modelled (section 6 says why): logging, the Zend bridge and OTLP conversion, the
loader, resource detection, generated semantic conventions, the PHP exporters
(one stateless call per batch), the root span's attributes, build, packaging,
tests. They hold no protocol whose interleavings could be checked.

### What is hard

PROJECT.json lists the hazards at their lines. Those that no property covers, and
what the models say of them:

* *Hooks and a function's first call.* A user function is looked up by the engine
  once per request. One that was called before its hooks were registered is never
  observed in that request; one that was called with post hooks only gets no pre
  hooks later, but post hooks registered later do run, without their pre hooks
  (`InternalFunctionInstrumentation.cpp`, the observer's begin handler). Post
  hooks run in the order of the pre hooks, so two hooks that each open a span end
  each other's. All of it is in `FunctionHooks`; the documentation of the hook API
  does not exclude it.
* *Fatal errors.* With inferred spans on, `elastic_execute_internal` and the
  compile hook catch the bailout of a fatal error and do not pass it on.
  `BailoutStopped` is in the model, and `CalledRuns` holds across it.
* *The hooks of the engine* are installed by the value of the option at MINIT. A
  remote file that turns inferred spans on later resumes a thread whose interrupts
  nobody serves. `ScriptIsTraced` requires the hooks of MINIT.
* *A disabled root span.* Nothing then ends the inferred spans that are open when
  the script ends; only the handler of the root span does.
* *A scope taken for another's.* Hooks, frames and the root span share a stack of
  scopes and end the newest. The history variable `crossed` marks the behaviours
  in which that has gone wrong, and `SpansEnded`, `NoOrphan` and the last part of
  `PhpTypeOK` speak of the others.
* *A withdrawn file stays.* `storeConfigFiles` never erases; the merge is in the
  model, and no document promises otherwise.
* *A death with the lock.* Whoever dies inside the lock in shared memory blocks every
  later request. The model has it, and `LockReturns` excepts it.
* *A refused entry point.* A request whose PHP bootstrap returned false is sampled like
  any other (`EntryPointRefused`); no property speaks of it.
* *Reported, not read.* A heartbeat reports a configuration as applied before a worker
  has read it; `ReportedIsStored` promises only that it is stored.
* *Requests that are not sampled.* Their frames leave scopes attached (section 2).

## 2. Modules

| Module | What it is |
|---|---|
| `HttpTransportAsync` | the transport in every process that holds a copy of it |
| `MCHttpTransportAsync` | its finite instances |
| `HttpTransportAsyncProofs` | its theorems |
| `CoordinatorChannel` | sender, shared queue, reassembly and cleanup |
| `MessageChannel` | what the channel promises one sender, abstractly |
| `MCCoordinatorChannel` | its finite instances |
| `CoordinatorChannelProofs` | its theorems |
| `PeriodicTaskExecutor` | the thread that runs periodic tasks, in one process |
| `PeriodicTaskExecutorProofs` | its theorems |
| `InferredSpans` | a worker that samples stack traces; it extends the executor, and the run checks that it implements it |
| `InferredSpansProofs` | its theorems |
| `ConfigurationDistribution` | remote configuration from the OpAMP client through shared memory to the snapshots of every process |
| `ConfigurationDistributionProofs` | its theorems |
| `RemoteConfigHandler` | what the PHP part does with the remote options (operators only) |
| `RequestScope` | the life of requests in the master and the workers; it extends the two above |
| `RequestScopeProofs` | its theorems, and that it implements `ConfigurationDistribution` |
| `FunctionHooks` | instrumented functions in one process: hooks, handlers, calls, fatal errors |
| `InferredSpansPhp` | stack traces made into spans (operators on a tracing state) |
| `InferredSpansPhpProofs` | lemmas about those operators: what ending, starting and comparing frames do to a tracing state |
| `PhpRequest` | `RequestScope`, `FunctionHooks` and `InferredSpansPhp` composed in one worker |
| `PhpRequestProofs` | the invariant of calls and hooks, that `PhpRequest` implements `RequestScope`, and the theorems about calls and spans |
| `MCPhpRequest` | its finite instances |

### HttpTransportAsync

One element of `Procs` per process. `queue`, `usage`, `working`, `force`,
`known`, `retry` are `payloadsToSend_`, `payloadsByteUsage_`, `working_`,
`forceFlushOnDestruction_`, `endpoints_` and send's local `retry`. `thread` is
`thread_` together with the place the sender has reached, `phase` is the place
of the thread that calls prefork, postfork and the destructor. `accepted`,
`taken` and `outcome` are history and no guard of an operation that exists in
the code reads them, except that a payload is offered once.

* A step is what happens under one hold of `mutex_`. The sender's steps are
  `SenderStart` (first lock), `SenderWake` (the wait returns) and, for the
  payload in hand, `SendNoEndpoint`, `SendDelivered`, `SendRefused`,
  `SendBroken`, `SendRetry`: the unlocked attempt has an arbitrary result, then
  the sender relocks and pops the next payload, waits or leaves. `SenderStart`
  and `SenderWake` differ because the loop's condition is tested before the
  first wait.
* `EnqueueAccept`, `EnqueueDrop` and `InitializeConnection` are the callers. A
  connection that cannot be added (the constructor of the endpoint or of the
  curl handle throws) leaves the sender unable to find it, as if it had never
  been asked for, so that path is a stutter.
* `Prefork`, `PreforkJoined`, `Fork` or `ForkFails`, `PostforkParent` and
  `PostforkChild` are `pthread_atfork`'s order. `fork()` copies every field and
  no thread.
* `Destroy`, `DestroyStop`, `DestroyJoined` are the destructor: the force flag
  is atomic and raised outside the lock, so there is a step between it and the
  clearing of `working_`.
* The time limit of the flush counts from the start of the destructor, and the
  model lets it expire at any payload when `ShutdownTimeout` is TRUE.
* Left out: the length of sleeps (retry delay, `Retry-After`), bodies and
  headers, the sharing of curl handles, spurious wakeups (they re-test the
  predicate and change nothing).

### CoordinatorChannel

`StartSend`, `SendChunk` and `SendFails` are sendPayload; a worker sends one
chunk per step, so chunks of several workers interleave. `TrySend` is
`enqueueMessage`, which ignores that `try_send` returns false on a full queue.
`ReceiveStored`, `ReceiveComplete` and `ReceiveRejected` are the three ways
through processReceivedChunk, with the entry emplaced before the checks throw.
`Cleanup` erases what is stale; `GrowStale` is the passing of ten seconds for
one entry (an entry emplaced for a rejected chunk has the clock's epoch for its
time and is stale at once). `WorkerReplaced` kills a worker anywhere in
sendPayload; its successor is forked from the master and numbers from the same
value. `CoordinatorStops` is the parent check of the periodic task. Contents
are abstracted to where they were copied from (`Piece`), which is what tells a
whole message from a mixture. `SenderProcessId` is a constant function: the
member initialiser `getpid()` runs in the master.

### MessageChannel

Two actions: offer a message; let an offered message arrive that is later than
the last one that arrived. `ImplementsMessageChannel` maps a delivered sequence
of pieces to the message it is the whole of, and to no message when it is a
mixture, which no abstract step allows.

### PeriodicTaskExecutor

`working`, `resumed`, `tasks` and `todo` are `working_`, `resumed_`,
`periodicTasks_` and the local `tasksSnapshot`; `thread` is `thread_` and the
place `work()` has reached. `Turn` is the top of the loop: it leaves, waits or
goes through to the sleep. `SleepEnds` copies the tasks without another look at
`resumed_`, which is why a suspended executor may run them once more; `late` is
history and counts those rounds. `Prefork`, `PreforkJoined`, `Fork` and `Postfork`
are one fork; parent and child do the same to equal copies, so one process is
followed. Left out: `addTask` (no caller), the length of the sleep, the order of
the tasks, and the coordinator's own executor, which is resumed once.

### InferredSpans

Two threads. The executor's only task is `tryRequestInterrupt`: `SamplerChecks`
loads `interruptedRequested_` (`requested`) outside the lock, `SamplerRequests`
sets it and the tick under the lock, `SamplerInterrupts` sets the engine's
`vm_interrupt` after it. The PHP thread comes into `attachBacktraceIfInterrupted`
(`Attach`) after an internal function (`InternalCallReturns`) or when the engine
sees its flag (`VmInterrupt`), and the callback is PHP code that may come through
the same hooks: `depth` counts the callbacks under way. Times are abstracted to the
request they fall in (`tick`, `seen`) and to whether the interval has passed
(`due`). `CallbackBailsOut` is a fatal error inside the callback, which unwinds with
a jump and leaves `phpSideBacktracePending_` set; nothing between the hook and
the callback catches it. `RequestStarts`, `NotSampled` or `ResetSampling` and
`ResumeSampling`, `RequestShutdown`, `RequestEnds` are the part of RequestScope
that resumes and suspends the executor; the executor is constructed by the first
request that samples. The script, or the server between requests, may fork.

### ConfigurationDistribution

The server sends the configurations of `script`. `ServerToAgent` is
handleServerToAgent: `hash` is `currentConfigHash_` with the files it stands
for, and a configuration with the hash it has already is ignored. Storing has
two steps, because taking the upgradable mutex and holding it are seen by others
(`StoreLock`, `StoreConfigFiles`); `StoreThrows` is an insertion that finds the
segment full: the revision is raised, some of the files are stored, and the
exception, which nobody on that thread catches, ends the coordinator.
`triggerUpdateIfChanged` is `TriggerUpdateIfChanged` (the call),
`TriggerUnchanged` or `TriggerChanged` (the comparison under the sharable lock)
and `TriggerCopy` (the watchers: adapter, then manager). `conf[p]` holds a
process's revision, the native remote options, the manager's snapshot and the
one its request uses. `Kill` takes a process anywhere, with whatever lock it has
(`orphaned`, `Blocked`): the mutex in shared memory is not robust. `published`
is history.

A file's content is a function from options to JSON values, or empty, or
malformed. `infer_spans` is the one remote option with an effect in native code:
`logging_level` is stored under the name `log_level`, which nothing reads, because each
sink has a level of its own from INI and environment. `debug`, in `conf[p]`, says
whether debug messages are logged; MINIT fixes it. It matters because the debug message of
`remapOptions` looks its option up with `operator[]`, which inserts an empty value
when `infer_spans` was neither `true` nor `false` (`RemapOptions`).
The PHP options have theirs in `RemoteConfigHandler`, one operator per option, as
functions from environments to environments.

### RequestScope

`at[p]` is the place of a process in its request: trigger, the one-time task's
check and claim (two steps: the sharable lock is released before the scoped one is
taken), bootstrap, serving, closing. Early returns are steps of their own:
preloading goes from the trigger to the request without a bootstrap,
`NotBootstrapped` is a bootstrap that failed, `EntryPointRefused` a bootstrap whose
result the native part ignores. `counter` is capped at three: the code compares it
with one and two. `Gone` is what ends with a process; a worker may be forked
again, from the master as it then is. `RequestInit`, `Trigger`, ... conjoin the
actions of `ConfigurationDistribution`, so the composition is by conjunction and
the refinement is proved, not assumed.

### FunctionHooks

`replaced` and `originals` live as long as the process, `hooks` and `observer`
as long as the request (`ClearHooks`). A call is a frame that goes through "pre",
"body", "post", "done"; `handled` is what of its hooks runs, fixed by the handler
or observer when the call begins, whereas the list of hooks is read at every
step, as in the code, and may grow meanwhile. `Return` is a return or an
exception: post hooks run after both. `Bailout` is a fatal error.

### InferredSpansPhp and PhpRequest

A tracing state holds the spans as they were started, the scopes attached, the
frames of the last trace and what PHP has not yet collected of the spans that
were detached, because frames refer to their spans weakly. `CaptureStackTrace` is
the whole of captureStackTrace: comparison with the last trace, ending from the
top, reduction, reparenting, starting from the bottom.

`PhpRequest` gives `Traced` the script: it calls functions, hooks them, is
interrupted and traced wherever the engine could do so (`Interrupted`), and meets
fatal errors. `EndRootSpan` is the shutdown handler of the root span, which first
tells InferredSpans. Left out: attributes and names; requests whose trace is not
sampled (their spans do not record and are not of class `Span`, so endFrameSpan
returns at `InferredSpans.php:407` before any scope is detached, and the scopes of the
frames stay; `SpansEnded` and the other properties of spans speak of sampled requests);
`InstrumentationBridge.retryDelayedHooks` (classes that are loaded later); the
option that instruments all functions; what a hook does to arguments and results;
hooks that register hooks.

## 3. Runs

| Run | Instance | Shows |
|---|---|---|
| `transport_safety` | 2 processes, 3 payloads of 1, 2, 2 bytes, limit 3, 2 endpoints, 2 attempts, no time limit | types, accounting, no wrap-around, FIFO without loss, one sender per payload, final outcomes, forced flush |
| `transport_liveness` | 2 processes, 2 payloads, 1 endpoint, time limit on | a queued payload is popped, prefork and destructor return |
| `transport_fork_leak` | as above | violated: the child's counter keeps the bytes of payloads it threw away |
| `transport_unflushed` | 1 process, no time limit | violated: a destroyed transport drops its queue when the new thread has not run yet |
| `channel_one_sender` | 1 worker, messages of 2, 3, 3 bytes, chunks of 2, queue of 2 | types, whole messages only, refinement of `MessageChannel`, arrival of undamaged messages |
| `channel_many_senders` | 2 workers sharing a sender id, replaced at will, messages of one and two chunks | consistency of the map, at most once, cleanup |
| `channel_mixed` | the same | violated: two messages of equal length are delivered as one mixture |
| `channel_silent_drop` | 1 worker | violated: success is reported for a dropped chunk |
| `inferred_spans` | 1 worker, 3 requests | the worker implements the executor; no thread at a fork, one late round, no nested backtrace, ticks of the right request, stopping ends, a resumed executor runs, interrupts are served while internal functions are called |
| `inferred_spans_starved` | 1 request | violated: a script that calls no internal function is not sampled again |
| `requests` | a master, 2 workers, 6 configurations, 4 scripts, one death (36 ways to start, about 606000 states) | copies neither torn nor stale, options follow the file, what is reported is stored, remote options reach the SDK and leave with the request, the one-time task, sampling inside requests, the lock; hooked functions run, spans end, reduction keeps the tree |
| `fatal_loses_root` | one script with one hooked call | violated: the root span of a request that failed is never ended |

Why these bounds are enough. Two processes give a parent and a child, and all
state is per process, so a third process repeats what the second does. The
limit of 3 bytes with payloads of 1 and 2 makes acceptance, refusal and refusal
of a large payload followed by acceptance of a small one all happen. Two
attempts give a first, a last and an in-between retry. Two endpoints, one of
which a payload names and nobody need add, give the missing endpoint. In the
channel, 2 and 3 bytes in chunks of 2 are a message of one exactly full chunk
and messages of a full and a shorter chunk; a queue of two chunks can be full in the
middle of a message; three messages let a third meet the remains of two others.
Three requests let an interrupt or a late round of a sampled request meet one
that is not sampled and, after it, one that is; flags are Boolean, so a fourth
request finds the states the third one found.

`requests` does not take the product of everything, but starts that each make
one thing happen (`MCStarts`): one worker through all 25 pairs of five
configurations (options set, switched off or out of range, unparsable, empty,
none), with a death where the first sets something; through a configuration whose word for
`infer_spans` is refused, after and before one that sets the option, with debug messages logged or
not; two workers, with preloading,
through one; two other local environments (a sampler that takes no rate, a
configuration file of the OTel SDK) with a death; and four scripts: two calls and two hooks, three
calls and two traces, two calls and two traces with a minimum duration, and two
calls with a hook and a trace. Pairs are enough for what an earlier file may leave behind,
because a process holds one copy. Two traces have a frame that stays, one that ends
and one that begins; a third call gives reduction a run of frames of one
interval. Time is two ticks from trace to trace, so a trace may be late by less
than an interval. `MaxDepth` is three calls under way. Two internal methods, one
inherited from the other, a user function and the interface it implements tell
all keys apart.

In `channel_mixed` the counterexample has messages of two chunks, but length is no
shelter: a rejected tail leaves an empty entry under its key, and a one-chunk
message of another worker can be completed in it.

CHECK_DEADLOCK is off in every run because these systems may come to rest: a
destroyed transport, a drained channel and an idle server have nothing left to do.

### Fairness

`HttpTransportAsync`: weak fairness of each process's sender thread and of the
steps its owner has begun (join, fork, postfork, destructor). The operating
system schedules every thread, the mutex is released by everyone who takes it,
and curl has a timeout, so an attempt ends. Nobody is obliged to call enqueue,
fork or destroy. TLC showed that this does not give service to a process that
forks without end: each fork can stop the new sender before its first turn.
`QueueServed` therefore assumes that a process forks finitely often.
`CoordinatorChannel`: weak fairness of the receiving loop, the cleanup, the
passing of time and a worker inside sendPayload, each a loop that the code runs
as long as its process lives. Workers may stop sending, be replaced, and the
parent may die or not.
`PeriodicTaskExecutor`: weak fairness of the thread and of a fork or destructor
that has begun. `InferredSpans`: weak fairness of the sampling thread, of time,
of the callback and of the hooks of a request, and strong fairness of the
engine's look at its flag, which forks disable and enable: PHP code passes a
loop or a call again and again. A script need neither end nor call internal
functions; `ServedByInternalCalls` assumes the second for its conclusion, and that
no fatal error has stranded the pending flag.
`RequestScope` and `PhpRequest`: weak fairness of a process inside
triggerUpdateIfChanged and of the coordinator's thread inside storeConfigFiles,
both straight code between lock and unlock. No request need come or end; the
server sends finitely many configurations, so that writers do not starve readers:
the mutex promises no order.

## 4. Proofs

The proofs hold for every value of the constants that satisfies the named
assumptions: `TransportAssumption` (a root process exists, sizes and the limit
are natural numbers, at least one attempt, which `getConnection` enforces, and
the "no payload" marker is not a payload) and `ChannelAssumption` (no empty
message, since a serialized command never is one, chunks and queue of at least
one, and the same for "no message"), `RequestsAssumption` (a bound is a natural
number), `DistributionAssumption`, `StartsAssumption`, `HooksAssumption` and
`PhpStartsAssumption` (types of the constants and of the budgets and options of a
request, and that the master is no worker); the theorems about `PhpRequest` also
assume that `Traced` is a worker. TLC evaluates each in the
runs of its module.

`HttpTransportAsyncProofs`:

| Theorem | Says |
|---|---|
| `TypeCorrect` | `TypeOK`; the unsigned byte counter stays a natural number |
| `CounterCannotWrap` | `NoUnderflow` |
| `NothingLost` | `FifoNoLoss` |
| `NoDoubleSend` | `SentByOneProcess` |
| `EndedIsFinal` | `OutcomeIsFinal` |
| `FlushLeavesNothing` | `ForcedFlush` |
| `CounterCoversQueue` | `UsageAccounting` |

*Types* are not inductive alone: that `usage - Size[...]` stays in Nat needs to
know that the counter covers the queue. `AccountingInv` says that without a sum: a
sequence of *prefix sums* of the queue exists whose last element the counter
reaches (exactly, at the root). Appending extends the sequence, popping drops
its first element and subtracts it from the others, and both are proved with
ordinary arithmetic (`PrefixSumsAppend`, `PrefixSumsTail`). A forked child's counter
is only an upper bound, because postfork empties the queue and keeps the number.
`CounterCoversQueue` goes on from there to the sum itself: `QueuedBytes` is a
recursive function on the lengths of a queue, and the set of the lengths at which it
agrees with the prefix sums has no least exception. (The library's induction theorems
take an operator as their parameter, which the provers cannot instantiate; a *set* they
can.)

*Order* needs `NoThreadYet` (a process has no sender before its postfork has
run), else a child could pop from the copy it is about to throw away, and
`FifoInv`, which adds that such a process has popped nothing yet. *One sender*
needs `OnePlaceInv`: each payload is in at most one queue that will be served,
or in one sender's past. A forked child's queue does not count as one that will be
served; that is the whole point of the emptying in postfork. *Finality* adds
`InHandInv`: what a sender holds, it popped itself, and it has not ended; the
step that ends a payload can then touch no other one. `StepShape` reduces each
step of the system to one of a few shapes (pop, accept, fork, resume in the
child, quiet), so every invariant is proved over the shapes once.

`CoordinatorChannelProofs`:

| Theorem | Says |
|---|---|
| `ChannelTypeCorrect` | `TypeOK`, with the limit of the shared queue |
| `ReassemblyIsSound` | `ReassemblySound`, for any workers, replaced or not |
| `OneSenderIntact` | `Intact`, for one sender that is never replaced |
| `DeliveredOnce` | `AtMostOnce`, for any workers, replaced or not |
| `OneSenderImplements` | `ImplementsMessageChannel`, for one sender that is never replaced |

`ReassemblySound` is inductive relative to the types: a chunk is accepted only
at the offset where the entry ends. `OneSenderIntact` rests on `Numbered`: with one
sender that is never replaced a number names one message, and chunks and entries
carry only bytes of the message their number names. The hypothesis is needed:
the run `channel_mixed` is the counterexample without it. `DeliveredOnce` follows
the *first chunk* of a message, which is in the hands of its worker, in the queue,
at the head of an entry, or at the head of what was delivered, and in one of these
places at most (`FirstOnce`): a chunk at offset 0 is accepted only by an empty entry.
It needs no sender ids at all, which is why it survives their being shared.
`OneSenderImplements` adds `Ordered`: messages are offered once each, the queue is
sorted by number, and what was delivered last has no later number than what is
queued; with `DeliveredOnce` the next delivery is strictly later, so a delivery is
an `Arrive` of the abstract channel and every other step is an `Offer` or a stutter.

`PeriodicTaskExecutorProofs`, for any set of tasks and without assumptions:

| Theorem | Says |
|---|---|
| `ExecutorTypeCorrect` | `TypeOK` |
| `NoThreadAcrossFork` | `StoppedAtFork` |
| `OneLateRound` | `SuspendBounds` |

`StoppedAtFork` needs its converse (`ThreadOwned`: outside the phases without a
thread there is one). `SuspendBounds` needs `LateRound`: no round is late while
resumed, and the thread does not sleep again once the late round has begun.

`InferredSpansProofs`, for any number of requests:

| Theorem | Says |
|---|---|
| `BacktracesDoNotNest` | `NoNestedBacktrace` |
| `DurationsOfThisRequest` | `FreshTick` |
| `WorkerForksAlone` | `StoppedAtFork` of the worker's executor |
| `WorkerSuspends` | `SuspendBounds` of the worker's executor |
| `WorkerTypeCorrect` | `WorkerTypeOK` |
| `WorkerIsExecutor` | `WorkerSpec => Init /\ [][Next]_vars`, the safety half of the refinement of the executor |

A callback under way holds the pending flag (`CallbackHoldsPending`), which Attach
tests. The tick is of this request from the reset on (`TickOfRequest`), and no
callback crosses from the bootstrap into the script. `WorkerSteps` is the
simulation: every step of the worker is a step of its executor or leaves it
alone, so the executor's invariant is the worker's.

`ConfigurationDistributionProofs`, for any configurations, scripts of the server,
workers and deaths:

| Theorem | Says |
|---|---|
| `DistributionTypes` | `DistributionTypeOK` |
| `RevisionsHoldFiles` | `RevisionHoldsFiles` |
| `OptionsFollow` | `OptionsFollowFile` |
| `ReportsAreStored` | `ReportedIsStored` |

The inductive invariant `DInv` adds to the types that readers keep the writer out
and are then at the newest, complete revision (`ReadersAlone`), that what is being
stored is what was received and what was received has been stored once the thread
is idle (`Received`), and that the options of a process are a fixed point of the
adapter on its files (`OptionsOfFiles`), which is how "the options of the last file
that could be parsed" is said without a history. `OptionsFollowFile` is about any text
of `infer_spans`: "true" and "false" are obeyed, and any other word leaves the local
value, unless debug messages are logged: then inferred spans are off (finding 7).

`RequestScopeProofs`, for any environment, with and without preloading:

| Theorem | Says |
|---|---|
| `RequestsDistribute` | `RequestScopeSpec => DistributionSpec` |
| `RequestScopeTypes` | `RequestTypeOK` |
| `RequestsAreFresh` | `FreshAtRequest` |
| `OneTimeTaskOnce` | `OneTimeTask` |
| `SamplingInRequests` | `SampledInRequest` |
| `RemoteOptionsTakeEffect` | `RemoteTakesEffect` |

By the first, `DInv` holds of requests too. `RInv` adds where a process is in the
trigger (`Placed`), that a process behind none of the revisions of its start has
left the comparison (`Fresh`), that snapshots of one revision are one snapshot
(`SnapshotsAgree`, without which the snapshot a request takes over need not be of its
files), that the master serves one request, alone (`MasterFirst`), that a process
that counts past its first instrumented request has seen the task's flag
(`TaskDone`), the flags of the bootstrap, and that the whole environment is a
function of the start and the current file (`Environments`). `RemoteTakesEffect` is
then a statement about the operators of `RemoteConfigHandler` alone.

`PhpRequestProofs`, over the lemmas of `InferredSpansPhpProofs`, for any functions,
hooks, scripts, fatal errors, and any stack traces:

| Theorem | Says |
|---|---|
| `PhpImplementsRequestScope` | `PhpSpec => RequestScopeSpec` |
| `CalledFunctionsRun` | `CalledRuns` |
| `HooksTypes` | `HooksTypeOK` |
| `PhpTypes` | `PhpTypeOK` |
| `SpansAllEnd` | `SpansEnded` |
| `NoSpanOrphaned` | `NoOrphan` |
| `ReducedSpansDiffer` | `Reduced` |

The chain `PhpSpec`, `RequestScopeSpec`, `DistributionSpec` carries every theorem
about requests and configuration to workers that run PHP code. `HInv` needs that a
replaced function has its original (`replaced \subseteq originals`, which outlives
requests) and that a frame in its body has run.

The last four rest on one invariant, `PInv`, which relates the calls under way to the
spans. On the side of the calls, `Calls` says that a call has at most as many pre hooks
behind it as its list is long, and that one which runs its pre hooks will run its post
hooks. `OpenPairs` is then the set of the hooks, by the place of their call and their
own, whose pre hook has opened a span that the post hook has yet to end. It is one
larger after such a pre hook, one smaller after such a post hook, and unchanged by
every other step of a call, however the lists of hooks grow meanwhile. On the side of
the spans there is a weak part and a strong one:

* `Shaped` holds always: a span is younger than its parent, scopes and frames are in
  the order of their spans.
* `Sound(t, r, h, F)` holds until scopes of different owners cross. The scopes are that
  of the root (`r` is 1), those of the frames of the last trace, newest on top, and
  those of `h` hooks, where `h` is the number of `OpenPairs` (`Lined`); the open spans
  are exactly those on a scope (`Attached`), each below the next (`Chained`); nothing
  is later than now; frames of one trace begin together, those of a later trace later
  (`InOrder`); a span that has ended hangs below one that has ended, the root, a hook,
  or a frame that neither the reduction nor the least duration will drop (`Rooted`); and
  no two ended frames have the same times (`Distinct`).

Why the invariant has to say so much: `Rooted` speaks of frames *that nothing will
drop*, because a frame that stays may be dropped by a later trace, and then what hangs
below it would be an orphan; that a frame which keeps a long span below it is itself
long enough needs that parents begin no later than their children, which is
`InOrder` and `Chained`. `Distinct` needs that an ending frame ends later than every
earlier one ended or began at another time, hence two predicates on the middle of a
trace: before it (`Ready`) everything has happened by `past`, which is before `begin`;
once its lost frames have ended and while its new ones are started (`Between`) the old
frames and the ended ones began before `begin`, and the new ones begin at `begin`. `EndFramesSound` and `StartFramesSound`
are the inductions over the frames of a trace; they use the least-number principle on
sets of indices (`SmallestOf`, `UpTo`), as the recursion is a function on indices.
`CompareSound` puts them together, and `CapturedSound`, `ShutdownSound`, `HookStarts`,
`HookEnds`, `RootStarts`, `RootEndsLast` are what the actions need. The invariant was
checked by TLC on the states of `requests` before it was proved.

Only model-checked: everything about liveness (`QueueServed`, `OwnerReturns`,
`UndamagedArrives`, `AbandonedCleaned`, `StopReturns`, `ResumedRuns`,
`ServedByInternalCalls`, `LockReturns`, and the fairness in the executor's `Spec`),
which the prover cannot do under fairness. Every invariant and every action property
that a run checks is also a theorem. Not proved is what happens once scopes have
crossed, beyond `Shaped`: the properties claim nothing of it either.

## 5. Findings

1. **A child's byte counter leaks.** `HttpTransportAsync.h:105`:
   postfork empties the child's copy of the queue and keeps the counter.
   The fork hooks start a heartbeat thread in the master too, so its queue is
   not always empty when it forks a worker.
2. **A forced flush can be skipped.** `HttpTransportAsync.h:155`: a sender that
   has not run yet when the destructor clears `working_` never looks at the
   force flag. The unit test sleeps to avoid it.
3. **A full queue is reported as success.** `CoordinatorProcess.cpp:65`.
4. **Workers share a sender id.** `ChunkedMessageProcessor.h:106`: messages of
   several chunks from two workers can be mixed when their lengths agree, and
   turned away when they do not. The dispatcher may fail to parse a mixture or
   take it for a payload.
5. **Sampling can stop for the rest of a script.** `InferredSpans.h:40`: the hook
   turns an interrupt away while a stack trace is processed and keeps the
   request, for which the sampling thread then waits. Only the return of an
   internal function serves it, so a loop in PHP code alone is sampled no more.
   A fatal error in the callback leaves the pending flag set, which silences the
   worker for good; it is in the model, and no document promises otherwise.
6. **A fatal error in a hooked internal function loses the root span.**
   `InternalFunctionInstrumentation.cpp:234`: the bailout jumps over the post hooks,
   the scope of the pre hook stays the newest, and the shutdown handler ends its
   span instead of the root's. The trace of the request that failed has no root.
7. **A debug message changes the configuration.**
   `ElasticDynamicConfigurationAdapter.cpp:103`: the argument of the message is
   `result[...]`, which inserts an empty remote option when `infer_spans` was neither
   `true` nor `false`. It outranks INI and environment and means false, so whether a word
   that the code refuses switches inferred spans off depends on the log level. No run of
   its own: `OptionsFollowFile` states both outcomes, and `requests` reaches both.

## 6. Not modelled

* *Coordinator commands.* The dispatcher is one switch from a command to a call.
  What the channel may lose is in `CoordinatorChannel`, what a missing connection
  does is in `HttpTransportAsync`; their product is beyond a run, and nothing is
  shared between the two but the call.
* *The OpAMP heartbeat thread*, its interval, the agent identifier and the initial
  message: what a heartbeat reports is modelled, when it does is not; no decision of
  another component depends on it. Hence the fork hooks are modelled per component:
  executor, transport and OpAMP client share no state, except that the OpAMP thread
  enqueues, which `MayEnqueue` allows while the transport runs or is being stopped.
* *The autoloader guard* compares file names with a list read in the first request
  and kept; *value parsers and wildcards* are pure functions over text that the unit
  tests cover case by case.
* *Semantic conventions* are generated headers of constants; they are more than half
  of the lines of the repository's native code.
* *The Zend bridge and the OTLP conversion* copy values between representations;
  *resource detection* reads environment and files once; *exporters* make one stateless
  call per batch; *logging* is output; *loader, packaging, build and tests* are not part
  of the running system's state.
* *The length of sleeps and time limits* is nowhere modelled, only that they end.
