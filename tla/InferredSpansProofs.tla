-------------------------- MODULE InferredSpansProofs --------------------------
(***************************************************************************)
(* The worker that samples stack traces, for any number of requests.       *)
(***************************************************************************)
EXTENDS InferredSpans, PeriodicTaskExecutorProofs

\* A callback under way holds the pending flag, so there is one at most.
CallbackHoldsPending ==
  /\ depth \in {0, 1}
  /\ depth = 1 => pending

\* Once a request has reset the sampling its tick is of that request, and no
\* callback is carried from the bootstrap into it.
TickOfRequest ==
  /\ php = "bootstrap" => ~sampling
  /\ php = "reset" => depth = 0
  /\ php \in {"reset", "user"} /\ sampling => tick = request

SpanInv == CallbackHoldsPending /\ TickOfRequest /\ FreshTick

LEMMA SpanInvInit == WorkerInit => SpanInv
BY DEF WorkerInit, SpanInv, CallbackHoldsPending, TickOfRequest, FreshTick

LEMMA SpanInvNext == SpanInv /\ [WorkerNext]_workerVars => SpanInv'
<1> SUFFICES ASSUME SpanInv, [WorkerNext]_workerVars PROVE SpanInv'
  OBVIOUS
<1> USE DEF SpanInv, CallbackHoldsPending, TickOfRequest, FreshTick
<1>1. CASE SamplerNext
  <2>1. CASE UNCHANGED spanVars
    BY <2>1 DEF spanVars, flags, requestVars
  <2>2. CASE SamplerSkips \/ SamplerChecks \/ SamplerTooEarly
    BY <2>2 DEF SamplerSkips, SamplerChecks, SamplerTooEarly, spanVars, flags, requestVars
  <2>3. CASE SamplerRequests
    BY <2>3 DEF SamplerRequests, requestVars
  <2>4. CASE SamplerInterrupts
    BY <2>4 DEF SamplerInterrupts, flags, requestVars
  <2>5. QED
    BY <1>1, <2>1, <2>2, <2>3, <2>4 DEF SamplerNext
<1>2. CASE TimePasses
  BY <1>2 DEF TimePasses, flags, requestVars
<1>3. CASE InternalCallReturns
  BY <1>3 DEF InternalCallReturns, Attach, PhpRuns, requestVars
<1>4. CASE VmInterrupt
  BY <1>4 DEF VmInterrupt, Attach, PhpRuns, flags, requestVars
<1>5. CASE CallbackReturns
  BY <1>5 DEF CallbackReturns, requestVars
<1>6. CASE CallbackBailsOut
  BY <1>6 DEF CallbackBailsOut
<1>7. CASE RequestNext
  <2>1. CASE NotSampled
    BY <2>1 DEF NotSampled, flags
  <2>2. CASE ResetSampling
    BY <2>2 DEF ResetSampling
  <2>3. CASE ResumeSampling
    BY <2>3 DEF ResumeSampling, flags
  <2>4. CASE RequestEnds
    BY <2>4 DEF RequestEnds, flags
  <2>5. QED
    BY <1>7, <2>1, <2>2, <2>3, <2>4 DEF RequestNext
<1>8. CASE RequestStarts
  BY <1>8 DEF RequestStarts, flags
<1>9. CASE RequestShutdown
  BY <1>9 DEF RequestShutdown, flags
<1>10. CASE ForkCalled \/ ModuleShutdown \/ (OwnerNext /\ UNCHANGED spanVars)
  BY <1>10 DEF ForkCalled, ModuleShutdown, spanVars, flags, requestVars
<1>11. CASE UNCHANGED workerVars
  BY <1>11 DEF workerVars, spanVars, flags, requestVars
<1>12. QED
  BY <1>1, <1>2, <1>3, <1>4, <1>5, <1>6, <1>7, <1>8, <1>9, <1>10, <1>11 DEF WorkerNext

\* attachInferredSpansOnPhp_ never runs inside itself, whichever hooks the PHP
\* code it runs comes through and however the sampling thread interleaves.
THEOREM BacktracesDoNotNest == WorkerSpec => []NoNestedBacktrace
<1>1. SpanInv => NoNestedBacktrace
  BY DEF SpanInv, CallbackHoldsPending, NoNestedBacktrace
<1>2. QED
  BY <1>1, SpanInvInit, SpanInvNext, PTL DEF WorkerSpec

\* A request that samples is never handed the time of an interrupt that was
\* requested in an earlier one.
THEOREM DurationsOfThisRequest == WorkerSpec => []FreshTick
<1>1. SpanInv => FreshTick
  BY DEF SpanInv
<1>2. QED
  BY <1>1, SpanInvInit, SpanInvNext, PTL DEF WorkerSpec

-----------------------------------------------------------------------------
\* Every step of the worker is a step of its executor or leaves it alone.
LEMMA WorkerSteps == [WorkerNext]_workerVars => [Next]_vars
<1> SUFFICES ASSUME [WorkerNext]_workerVars PROVE [Next]_vars
  OBVIOUS
<1>1. CASE SamplerNext
  <2>1. CASE ThreadStart \/ Wake \/ SleepEnds \/ RoundEnds
    BY <2>1 DEF Next, ThreadNext
  <2>2. CASE SamplerSkips \/ SamplerTooEarly \/ SamplerInterrupts
    <3>1. Sample \in todo /\ TaskEnds(Sample)
      BY <2>2 DEF SamplerSkips, SamplerTooEarly, SamplerInterrupts, SamplerRuns
    <3>2. QED
      BY <3>1 DEF Next, ThreadNext
  <2>3. CASE SamplerChecks \/ SamplerRequests
    BY <2>3 DEF SamplerChecks, SamplerRequests, executorVars
  <2>4. QED
    BY <1>1, <2>1, <2>2, <2>3 DEF SamplerNext
<1>2. CASE TimePasses \/ InternalCallReturns \/ VmInterrupt \/ CallbackReturns \/ CallbackBailsOut
  BY <1>2 DEF TimePasses, InternalCallReturns, VmInterrupt, CallbackReturns, CallbackBailsOut,
              executorVars
<1>3. CASE RequestNext
  BY <1>3 DEF RequestNext, NotSampled, ResetSampling, ResumeSampling, RequestEnds, executorVars,
              Next, CallerNext
<1>4. CASE RequestStarts
  BY <1>4 DEF RequestStarts, executorVars
<1>5. CASE RequestShutdown
  BY <1>5 DEF RequestShutdown, executorVars, Next, CallerNext
<1>6. CASE ForkCalled \/ ModuleShutdown \/ (OwnerNext /\ UNCHANGED spanVars)
  BY <1>6 DEF ForkCalled, ModuleShutdown, Next, CallerNext
<1>7. CASE UNCHANGED workerVars
  BY <1>7 DEF workerVars, executorVars
<1>8. QED
  BY <1>1, <1>2, <1>3, <1>4, <1>5, <1>6, <1>7 DEF WorkerNext

\* The worker refines its executor: requests, stack traces and forks do nothing
\* to the thread, the flags and the tasks that PeriodicTaskExecutor does not say.
THEOREM WorkerIsExecutor == WorkerSpec => Init /\ [][Next]_vars
<1>1. WorkerInit => Init
  BY DEF WorkerInit
<1>2. QED
  BY <1>1, WorkerSteps, PTL DEF WorkerSpec

\* The hooks and the requests use the executor as its specification allows,
\* so what is proved of any executor holds of the worker's: no fork meets the
\* sampling thread.
THEOREM WorkerForksAlone == WorkerSpec => []StoppedAtFork
<1>1. WorkerInit => Init
  BY DEF WorkerInit
<1>2. IInv => StoppedAtFork
  BY DEF IInv, ThreadOwned, StoppedAtFork
<1>3. IInv /\ [WorkerNext]_workerVars => IInv'
  BY WorkerSteps, IInvNext
<1>4. QED
  BY <1>1, <1>2, <1>3, IInvInit, PTL DEF WorkerSpec

\* The same for suspendPeriodicTasks, which onRequestShutdown calls: between
\* two requests the sampling thread runs its task once more at most.
THEOREM WorkerSuspends == WorkerSpec => []SuspendBounds
<1>1. WorkerInit => Init
  BY DEF WorkerInit
<1>2. IInv => SuspendBounds
  BY DEF IInv, LateRound, SuspendBounds
<1>3. IInv /\ [WorkerNext]_workerVars => IInv'
  BY WorkerSteps, IInvNext
<1>4. QED
  BY <1>1, <1>2, <1>3, IInvInit, PTL DEF WorkerSpec

-----------------------------------------------------------------------------
\* The sampling thread leaves tryRequestInterrupt only through the end of its
\* task: no other step of the executor, a fork included, happens inside it.
LEMMA StaysInTask ==
  ASSUME IInv, SamplerRuns, [Next]_vars
  PROVE  SamplerRuns' \/ TaskEnds(Sample)
<1> USE DEF SamplerRuns
<1>1. CASE ThreadNext
  BY <1>1 DEF ThreadNext, ThreadStart, Wake, SleepEnds, RoundEnds, TaskEnds
<1>2. CASE OwnerNext
  BY <1>2 DEF OwnerNext, PreforkJoined, DestroyJoined, Joined, Fork, Postfork, IInv, ThreadOwned
<1>3. CASE CallerNext
  BY <1>3 DEF CallerNext, Construct, ResumePeriodicTasks, SuspendPeriodicTasks, Prefork, Destroy,
              IInv, ThreadOwned
<1>4. CASE UNCHANGED vars
  BY <1>4 DEF vars
<1> QED
  BY <1>1, <1>2, <1>3, <1>4 DEF Next

\* The types of the variables that the worker adds to its executor's.
SpanTypes ==
  /\ sampler \in Sampler /\ php \in Place
  /\ requested \in BOOLEAN /\ due \in BOOLEAN /\ pending \in BOOLEAN
  /\ vmInterrupt \in BOOLEAN /\ sampling \in BOOLEAN
  /\ request \in 0 .. MaxRequests /\ tick \in 0 .. MaxRequests /\ seen \in 0 .. MaxRequests

InsideTask == sampler # "idle" => SamplerRuns

LEMMA SpanTypesInit == WorkerInit => SpanTypes
<1> SUFFICES ASSUME WorkerInit PROVE SpanTypes
  OBVIOUS
<1>1. /\ sampler \in Sampler /\ php \in Place
      /\ request \in 0 .. MaxRequests /\ tick \in 0 .. MaxRequests /\ seen \in 0 .. MaxRequests
  BY RequestsAssumption DEF WorkerInit, Sampler, Place
<1>2. /\ requested \in BOOLEAN /\ due \in BOOLEAN /\ pending \in BOOLEAN
      /\ vmInterrupt \in BOOLEAN /\ sampling \in BOOLEAN
  BY Zenon DEF WorkerInit
<1> QED
  BY <1>1, <1>2 DEF SpanTypes

LEMMA SpanTypesNext == SpanTypes /\ [WorkerNext]_workerVars => SpanTypes'
<1> SUFFICES ASSUME SpanTypes, [WorkerNext]_workerVars PROVE SpanTypes'
  OBVIOUS
<1> USE RequestsAssumption DEF SpanTypes, Sampler, Place
<1>1. CASE SamplerNext
  BY <1>1 DEF SamplerNext, SamplerSkips, SamplerChecks, SamplerTooEarly, SamplerRequests,
              SamplerInterrupts, spanVars, flags, requestVars
<1>2. CASE TimePasses
  BY <1>2 DEF TimePasses, flags, requestVars
<1>3. CASE InternalCallReturns \/ VmInterrupt
  BY <1>3 DEF InternalCallReturns, VmInterrupt, Attach, flags, requestVars
<1>4. CASE CallbackReturns \/ CallbackBailsOut
  BY <1>4 DEF CallbackReturns, CallbackBailsOut, requestVars
<1>5. CASE RequestNext
  BY <1>5 DEF RequestNext, NotSampled, ResetSampling, ResumeSampling, RequestEnds, flags
<1>6. CASE RequestStarts \/ RequestShutdown
  <2>1. CASE RequestStarts
    <3>1. request' \in 0 .. MaxRequests
      BY <2>1 DEF RequestStarts
    <3>2. vmInterrupt' \in BOOLEAN /\ sampling' \in BOOLEAN
      BY <2>1, Zenon DEF RequestStarts
    <3> QED
      BY <2>1, <3>1, <3>2 DEF RequestStarts, flags
  <2>2. CASE RequestShutdown
    BY <2>2 DEF RequestShutdown, flags
  <2> QED
    BY <1>6, <2>1, <2>2
<1>7. CASE ForkCalled \/ ModuleShutdown \/ (OwnerNext /\ UNCHANGED spanVars)
           \/ UNCHANGED workerVars
  BY <1>7 DEF ForkCalled, ModuleShutdown, workerVars, spanVars, flags, requestVars
<1> QED
  BY <1>1, <1>2, <1>3, <1>4, <1>5, <1>6, <1>7 DEF WorkerNext

LEMMA InsideTaskNext == IInv /\ InsideTask /\ [WorkerNext]_workerVars => InsideTask'
<1> SUFFICES ASSUME IInv, InsideTask, [WorkerNext]_workerVars PROVE InsideTask'
  OBVIOUS
<1>1. CASE SamplerChecks \/ SamplerRequests
  BY <1>1 DEF SamplerChecks, SamplerRequests, InsideTask, SamplerRuns, executorVars, vars
<1>2. CASE SamplerSkips \/ SamplerTooEarly \/ SamplerInterrupts
  BY <1>2 DEF SamplerSkips, SamplerTooEarly, SamplerInterrupts, InsideTask, spanVars
<1>3. ASSUME sampler' = sampler, SamplerRuns => ~TaskEnds(Sample)
      PROVE  InsideTask'
  BY <1>3, WorkerSteps, StaysInTask DEF InsideTask
<1>4. CASE (ThreadStart \/ Wake \/ SleepEnds \/ RoundEnds) /\ UNCHANGED spanVars
  <2>1. SamplerRuns => ~TaskEnds(Sample)
    BY <1>4 DEF ThreadStart, Wake, SleepEnds, RoundEnds, SamplerRuns, TaskEnds
  <2> QED
    BY <1>3, <1>4, <2>1 DEF spanVars
<1>5. ASSUME UNCHANGED sampler, UNCHANGED todo PROVE InsideTask'
  BY <1>3, <1>5 DEF TaskEnds, SamplerRuns
<1>6. UNCHANGED vars => UNCHANGED todo
  BY DEF vars
<1>7. CASE TimePasses \/ InternalCallReturns \/ VmInterrupt \/ CallbackReturns \/ CallbackBailsOut
  BY <1>5, <1>6, <1>7 DEF TimePasses, InternalCallReturns, VmInterrupt, CallbackReturns,
              CallbackBailsOut, executorVars
<1>8. CASE RequestNext \/ RequestStarts \/ RequestShutdown
  BY <1>5, <1>6, <1>8 DEF RequestNext, NotSampled, ResetSampling, ResumeSampling, RequestEnds,
              RequestStarts, RequestShutdown, executorVars, Construct, ResumePeriodicTasks,
              SuspendPeriodicTasks
<1>9. CASE ForkCalled \/ ModuleShutdown \/ (OwnerNext /\ UNCHANGED spanVars)
  BY <1>5, <1>9 DEF ForkCalled, ModuleShutdown, OwnerNext, Prefork, Destroy, PreforkJoined,
              DestroyJoined, Joined, Fork, Postfork, spanVars
<1>10. CASE UNCHANGED workerVars
  BY <1>5, <1>6, <1>10 DEF workerVars, spanVars, executorVars
<1> QED
  BY <1>1, <1>2, <1>4, <1>7, <1>8, <1>9, <1>10 DEF WorkerNext, SamplerNext

\* Every variable keeps its type, and the sampling thread is never stopped,
\* nor copied by a fork, halfway through tryRequestInterrupt.
THEOREM WorkerTypeCorrect == WorkerSpec => []WorkerTypeOK
<1>1. WorkerInit => IInv /\ SpanTypes /\ InsideTask /\ SpanInv
  BY IInvInit, SpanTypesInit, SpanInvInit DEF WorkerInit, InsideTask
<1>2. IInv /\ SpanTypes /\ InsideTask /\ SpanInv /\ [WorkerNext]_workerVars
        => (IInv /\ SpanTypes /\ InsideTask /\ SpanInv)'
  BY WorkerSteps, IInvNext, SpanTypesNext, InsideTaskNext, SpanInvNext
<1>3. IInv /\ SpanTypes /\ InsideTask /\ SpanInv => WorkerTypeOK
  BY DEF IInv, SpanTypes, InsideTask, SpanInv, CallbackHoldsPending, WorkerTypeOK
<1>4. QED
  BY <1>1, <1>2, <1>3, PTL DEF WorkerSpec

=============================================================================
