---------------------------- MODULE InferredSpans ----------------------------
(***************************************************************************)
(* Sampling of stack traces in a worker: InferredSpans.h, its calls from   *)
(* the hooks of the PHP engine (Hooking.cpp), the sampling thread, which   *)
(* is the executor's only task, and the part of RequestScope.h that resumes*)
(* and suspends it.                                                        *)
(*                                                                         *)
(* Two threads: the executor's, inside tryRequestInterrupt, and the PHP    *)
(* thread, inside attachBacktraceIfInterrupted.  What mutex_ protects is   *)
(* one step; the loads of the atomics outside it interleave.               *)
(***************************************************************************)
EXTENDS PeriodicTaskExecutor

CONSTANTS
  Sample,       \* the executor's task: tryRequestInterrupt
  MaxRequests   \* bound: requests served by the worker

ASSUME RequestsAssumption == MaxRequests \in Nat

VARIABLES
  sampler,      \* the place tryRequestInterrupt has reached
  requested,    \* interruptedRequested_
  tick,         \* lastInterruptRequestTick_: the request it was set in
  due,          \* TRUE iff samplingInterval_ has passed since tick
  pending,      \* phpSideBacktracePending_
  vmInterrupt,  \* EG(vm_interrupt), the flag of the PHP engine
  php,          \* the place the PHP thread has reached
  request,      \* requestCounter_
  sampling,     \* TRUE iff this request resumed the executor
  depth,        \* history: calls to attachInferredSpansOnPhp_ under way
  seen          \* history: the tick handed to the latest of them

executorVars == vars
requestVars == <<php, request, sampling>>
flags == <<requested, tick, pending, depth, seen>>
spanVars == <<sampler, flags, due, vmInterrupt, requestVars>>
workerVars == <<executorVars, spanVars>>

\* "checked": found no request outstanding.  "flagged": has made one and has
\* not yet set the engine's flag.
Sampler == {"idle", "checked", "flagged"}

\* "bootstrap": onRequestInit runs PHP code.  "reset": it has reset the tick
\* and not yet resumed the executor.  "aborted": a fatal error has ended the
\* script.  "exiting": onRequestShutdown has suspended it, PHP code runs.
Place == {"outside", "bootstrap", "reset", "user", "aborted", "exiting"}

WorkerInit ==
  /\ Init
  /\ sampler = "idle" /\ requested = FALSE /\ tick = 0 /\ due = FALSE
  /\ pending = FALSE /\ vmInterrupt = FALSE
  /\ php = "outside" /\ request = 0 /\ sampling = FALSE
  /\ depth = 0 /\ seen = 0

-----------------------------------------------------------------------------
(* The sampling thread: tryRequestInterrupt.                               *)

SamplerRuns == thread = "running" /\ Sample \in todo

\* A request is outstanding: return.
SamplerSkips ==
  /\ SamplerRuns /\ sampler = "idle"
  /\ requested
  /\ TaskEnds(Sample)
  /\ UNCHANGED spanVars

SamplerChecks ==
  /\ SamplerRuns /\ sampler = "idle"
  /\ ~requested
  /\ sampler' = "checked"
  /\ UNCHANGED <<executorVars, flags, due, vmInterrupt, requestVars>>

\* Under the lock: the interval has not passed, return.
SamplerTooEarly ==
  /\ SamplerRuns /\ sampler = "checked"
  /\ ~due
  /\ sampler' = "idle"
  /\ TaskEnds(Sample)
  /\ UNCHANGED <<flags, due, vmInterrupt, requestVars>>

\* Under the lock: set the tick and the flag.  now was read before the lock was
\* taken; if a reset came in between, it is not late enough, and if another
\* request has begun without one, that request does not look at the tick.
SamplerRequests ==
  /\ SamplerRuns /\ sampler = "checked"
  /\ due
  /\ requested' = TRUE /\ tick' = request /\ due' = FALSE
  /\ sampler' = "flagged"
  /\ UNCHANGED <<executorVars, pending, depth, seen, vmInterrupt, requestVars>>

\* interrupt_().
SamplerInterrupts ==
  /\ SamplerRuns /\ sampler = "flagged"
  /\ vmInterrupt' = TRUE /\ sampler' = "idle"
  /\ TaskEnds(Sample)
  /\ UNCHANGED <<flags, due, requestVars>>

SamplerNext ==
  \/ (ThreadStart \/ Wake \/ SleepEnds \/ RoundEnds) /\ UNCHANGED spanVars
  \/ SamplerSkips
  \/ SamplerChecks
  \/ SamplerTooEarly
  \/ SamplerRequests
  \/ SamplerInterrupts

\* samplingInterval_ has passed since the tick.
TimePasses ==
  /\ ~due
  /\ due' = TRUE
  /\ UNCHANGED <<executorVars, sampler, flags, vmInterrupt, requestVars>>

-----------------------------------------------------------------------------
(* The PHP thread: attachBacktraceIfInterrupted.                           *)

\* PHP code runs, its thread is not inside fork(), and hooks are called.
PhpRuns ==
  /\ php \in {"bootstrap", "user", "exiting"}
  /\ phase \in {"absent", "running"}

\* Mutant of Attach: the pending flag is not looked at.
AttachNested ==
  /\ requested
  /\ requested' = FALSE /\ pending' = TRUE
  /\ depth' = depth + 1 /\ seen' = tick
  /\ UNCHANGED tick

\* The interrupt is taken, and attachInferredSpansOnPhp_ runs unlocked.
Attach ==
  /\ ~pending /\ requested
  /\ requested' = FALSE /\ pending' = TRUE
  /\ depth' = depth + 1 /\ seen' = tick
  /\ UNCHANGED tick

\* Mutant of InternalCallReturns: the hook trusts the engine's flag.
InternalCallTrustsEngine ==
  /\ PhpRuns /\ vmInterrupt
  /\ Attach
  /\ UNCHANGED <<executorVars, sampler, due, vmInterrupt, requestVars>>

\* elastic_execute_internal, after an internal function.
InternalCallReturns ==
  /\ PhpRuns
  /\ Attach
  /\ UNCHANGED <<executorVars, sampler, due, vmInterrupt, requestVars>>

\* The engine clears its flag and calls elastic_interrupt_function, also in
\* PHP code that the callback runs, where the pending flag turns it away.
VmInterrupt ==
  /\ PhpRuns /\ vmInterrupt
  /\ vmInterrupt' = FALSE
  /\ Attach \/ ((pending \/ ~requested) /\ UNCHANGED flags)
  /\ UNCHANGED <<executorVars, sampler, due, requestVars>>

CallbackReturns ==
  /\ PhpRuns /\ depth > 0
  /\ depth' = depth - 1 /\ pending' = FALSE
  /\ UNCHANGED <<executorVars, sampler, due, requested, tick, seen, vmInterrupt, requestVars>>

\* A fatal error in the PHP code of the callback (no memory left, the time
\* limit of the script) jumps over the rest of attachBacktraceIfInterrupted.
\* Before the PHP part has started and once it has stopped it runs no code.
CallbackBailsOut ==
  /\ PhpRuns /\ depth > 0 /\ php = "user"
  /\ depth' = 0 /\ php' = "aborted"
  /\ UNCHANGED <<executorVars, sampler, due, requested, tick, pending, seen, vmInterrupt,
                 request, sampling>>

-----------------------------------------------------------------------------
(* The request: RequestScope.                                              *)

\* The engine starts a request and clears its flag; onRequestInit begins.
RequestStarts ==
  /\ php = "outside" /\ phase \in {"absent", "running"}
  /\ request < MaxRequests
  /\ php' = "bootstrap" /\ request' = request + 1 /\ sampling' = FALSE
  /\ vmInterrupt' = FALSE
  /\ UNCHANGED <<executorVars, sampler, flags, due>>

\* Bootstrapping failed, or inferred spans are disabled.
NotSampled ==
  /\ php = "bootstrap" /\ depth = 0
  /\ php' = "user"
  /\ UNCHANGED <<executorVars, sampler, flags, due, vmInterrupt, request, sampling>>

\* Mutant of ResetSampling: reset() is not called.
ResetForgotten ==
  /\ php = "bootstrap" /\ depth = 0
  /\ (phase = "absent" /\ Construct) \/ (phase = "running" /\ UNCHANGED executorVars)
  /\ php' = "reset" /\ sampling' = TRUE
  /\ UNCHANGED <<sampler, flags, due, vmInterrupt, request>>

\* Mutant of ResetSampling: an executor that exists is constructed again.
ResetConstructsAgain ==
  /\ php = "bootstrap" /\ depth = 0 /\ phase \in {"absent", "running"}
  /\ phase' = "running" /\ thread' = "starting" /\ tasks' = Tasks
  /\ UNCHANGED <<working, resumed, todo, late>>
  /\ tick' = request /\ due' = FALSE
  /\ php' = "reset" /\ sampling' = TRUE
  /\ UNCHANGED <<sampler, requested, pending, depth, seen, vmInterrupt, request>>

\* getPeriodicTaskExecutor, then inferredSpans_->reset().
ResetSampling ==
  /\ php = "bootstrap" /\ depth = 0
  /\ (phase = "absent" /\ Construct) \/ (phase = "running" /\ UNCHANGED executorVars)
  /\ tick' = request /\ due' = FALSE
  /\ php' = "reset" /\ sampling' = TRUE
  /\ UNCHANGED <<sampler, requested, pending, depth, seen, vmInterrupt, request>>

ResumeSampling ==
  /\ php = "reset"
  /\ ResumePeriodicTasks
  /\ php' = "user"
  /\ UNCHANGED <<sampler, flags, due, vmInterrupt, request, sampling>>

\* onRequestShutdown up to callPHPSideExitPoint.
RequestShutdown ==
  /\ php \in {"user", "aborted"} /\ depth = 0 /\ phase \in {"absent", "running"}
  /\ IF sampling THEN SuspendPeriodicTasks ELSE UNCHANGED executorVars
  /\ php' = "exiting"
  /\ UNCHANGED <<sampler, flags, due, vmInterrupt, request, sampling>>

RequestEnds ==
  /\ php = "exiting" /\ depth = 0
  /\ php' = "outside"
  /\ UNCHANGED <<executorVars, sampler, flags, due, vmInterrupt, request, sampling>>

\* The script, or the server between requests, forks.
ForkCalled ==
  /\ php \in {"user", "outside"} /\ depth = 0
  /\ Prefork
  /\ UNCHANGED spanVars

ModuleShutdown ==
  /\ php = "outside"
  /\ Destroy
  /\ UNCHANGED spanVars

-----------------------------------------------------------------------------
\* What the PHP thread does on its way through a request, PHP code aside.
RequestNext == NotSampled \/ ResetSampling \/ ResumeSampling \/ RequestEnds

WorkerNext ==
  \/ SamplerNext
  \/ TimePasses
  \/ InternalCallReturns
  \/ VmInterrupt
  \/ CallbackReturns
  \/ CallbackBailsOut
  \/ RequestNext
  \/ RequestStarts
  \/ RequestShutdown
  \/ ForkCalled
  \/ ModuleShutdown
  \/ OwnerNext /\ UNCHANGED spanVars

\* The sampling thread runs, time passes, the engine looks at its flag, and
\* the callback, the hooks of the request and fork() return.  Scripts need
\* not call internal functions, and need not end.
WorkerFairness ==
  /\ WF_workerVars(SamplerNext)
  /\ WF_workerVars(TimePasses)
  /\ SF_workerVars(VmInterrupt)
  /\ WF_workerVars(CallbackReturns)
  /\ WF_workerVars(RequestNext)
  /\ WF_workerVars(OwnerNext /\ UNCHANGED spanVars)

WorkerSpec == WorkerInit /\ [][WorkerNext]_workerVars /\ WorkerFairness

-----------------------------------------------------------------------------
(* Properties.                                                             *)

\* Every variable keeps its type, and the sampler is inside its function only
\* while the executor runs its task.
WorkerTypeOK ==
  /\ TypeOK
  /\ sampler \in Sampler /\ php \in Place
  /\ requested \in BOOLEAN /\ due \in BOOLEAN /\ pending \in BOOLEAN
  /\ vmInterrupt \in BOOLEAN /\ sampling \in BOOLEAN
  /\ request \in 0 .. MaxRequests /\ tick \in 0 .. MaxRequests /\ seen \in 0 .. MaxRequests
  /\ depth \in Nat
  /\ sampler # "idle" => SamplerRuns

\* However internal functions, the engine's interrupts and the sampler meet,
\* one stack trace is never taken while another is being processed.
NoNestedBacktrace == depth <= 1

\* In a request that samples, the duration handed to PHP counts from a moment
\* of that request: an interrupt left over from an earlier request is never
\* taken for one that has lasted since then.
FreshTick == depth > 0 /\ sampling /\ php = "user" => seen = request

\* In a script that goes on calling internal functions every interrupt that
\* was requested is taken, if no callback is ever cut off by a fatal error.
ServedByInternalCalls ==
  SF_workerVars(InternalCallReturns) /\ [](pending => depth > 0) =>
    ((requested /\ php = "user") ~> (~requested \/ php # "user"))

\* Stack traces are gathered at the configured frequency for as long as the
\* script runs: a requested interrupt is taken or the script ends.  An
\* interrupt that the engine delivers while the callback runs breaks it.
SamplingGoesOn == (requested /\ php = "user") ~> (~requested \/ php # "user")

=============================================================================
