------------------------- MODULE HttpTransportAsync -------------------------
(***************************************************************************)
(* The asynchronous HTTP transport (transport/HttpTransportAsync.h): a     *)
(* byte-bounded queue of payloads, one sender thread that posts them, and  *)
(* the hooks that stop the thread before fork() and start it again after,  *)
(* in the parent and in the child.                                         *)
(*                                                                         *)
(* Every process that may come to hold a copy of the transport is an       *)
(* element of Procs.  Code between a lock and an unlock of mutex_ is one   *)
(* step; code that runs unlocked interleaves.  The network is the          *)
(* environment: each attempt ends as it likes, within MaxRetries attempts. *)
(***************************************************************************)
EXTENDS Integers, SequencesExt

CONSTANTS
  Procs,             \* processes, those not yet forked included
  Root,              \* the process that constructs the transport
  Payloads,          \* payloads, each handed to enqueue at most once
  Size,              \* Size[x]: bytes of payload x
  Endpoints,         \* endpoint hashes
  EndpointOf,        \* EndpointOf[x]: the endpoint payload x is meant for
  MaxSendQueueSize,  \* option max_send_queue_size, in bytes
  MaxRetries,        \* attempts per payload; getConnection makes it at least 1
  ShutdownTimeout,   \* TRUE iff option async_transport_shutdown_timeout is > 0
  NoPayload          \* the sender holds no payload

ASSUME TransportAssumption ==
  /\ Root \in Procs
  /\ Size \in [Payloads -> Nat]
  /\ EndpointOf \in [Payloads -> Endpoints]
  /\ MaxSendQueueSize \in Nat
  /\ MaxRetries \in Nat \ {0}
  /\ ShutdownTimeout \in BOOLEAN
  /\ NoPayload \notin Payloads

VARIABLES
  phase,      \* what the process's owner thread is doing with the transport
  known,      \* endpoints_: the endpoints added by initializeConnection
  queue,      \* payloadsToSend_
  usage,      \* payloadsByteUsage_
  thread,     \* thread_ and the place the sender thread has reached
  working,    \* working_
  force,      \* forceFlushOnDestruction_
  inflight,   \* the payload the sender has popped and is posting
  retry,      \* the sender's local counter of failed attempts
  accepted,   \* history: payloads this process put into its own queue
  taken,      \* history: payloads this process's sender popped
  outcome     \* history: how each payload ended

owner == <<phase, known>>
sender == <<thread, inflight, retry>>
vars == <<phase, known, queue, usage, thread, working, force, inflight, retry,
          accepted, taken, outcome>>

\* "preforked": the sender is joined and fork() may run.  "forkedParent" and
\* "forkedChild": fork() has returned and postfork() has not run.
\* "terminating": the destructor has raised force, not yet cleared working.
Phase == {"absent", "running", "preforking", "preforked", "forkedParent",
          "forkedChild", "terminating", "destroying", "dead"}

\* "starting": created, has not yet locked mutex_.  "exited": asyncSender has
\* returned and nobody has joined it.
Thread == {"none", "starting", "waiting", "sending", "exited"}

\* How sending ends: a 2xx answer, a 4xx answer (both reach the callback), or
\* no answer worth a callback: no endpoint, curl failed, attempts used up.
Final == {"delivered", "refused", "lost"}
Outcome == {"new", "overLimit", "accepted"} \cup Final

Init ==
  /\ phase = [p \in Procs |-> IF p = Root THEN "running" ELSE "absent"]
  /\ known = [p \in Procs |-> {}]
  /\ queue = [p \in Procs |-> <<>>]
  /\ usage = [p \in Procs |-> 0]
  /\ thread = [p \in Procs |-> "none"]
  /\ working = [p \in Procs |-> TRUE]
  /\ force = [p \in Procs |-> FALSE]
  /\ inflight = [p \in Procs |-> NoPayload]
  /\ retry = [p \in Procs |-> 0]
  /\ accepted = [p \in Procs |-> <<>>]
  /\ taken = [p \in Procs |-> <<>>]
  /\ outcome = [x \in Payloads |-> "new"]

-----------------------------------------------------------------------------
(* The sender thread: asyncSender and send.                                *)

\* while (!payloadsToSend_.empty()) { pop; payloadsByteUsage_ -= size; unlock }
TakeNext(p) ==
  /\ queue[p] # <<>>
  /\ queue' = [queue EXCEPT ![p] = Tail(@)]
  /\ usage' = [usage EXCEPT ![p] = @ - Size[Head(queue[p])]]
  /\ inflight' = [inflight EXCEPT ![p] = Head(queue[p])]
  /\ retry' = [retry EXCEPT ![p] = 0]
  /\ thread' = [thread EXCEPT ![p] = "sending"]
  /\ taken' = [taken EXCEPT ![p] = Append(@, Head(queue[p]))]
  /\ UNCHANGED <<owner, working, force, accepted>>

\* The sender moves to place t of its loop and holds no payload.
Leave(p, t) ==
  /\ thread' = [thread EXCEPT ![p] = t]
  /\ inflight' = [inflight EXCEPT ![p] = NoPayload]
  /\ retry' = [retry EXCEPT ![p] = 0]
  /\ UNCHANGED <<owner, queue, usage, working, force, accepted, taken>>

\* while (working_) pauseCondition_.wait(...), reached with an empty queue.
Idle(p) ==
  /\ queue[p] = <<>>
  /\ Leave(p, IF working[p] THEN "waiting" ELSE "exited")

\* The thread's first lock: it leaves at once if working_ is already false.
SenderStart(p) ==
  /\ thread[p] = "starting"
  /\ UNCHANGED outcome
  /\ \/ /\ ~working[p]
        /\ Leave(p, "exited")
     \/ /\ working[p]
        /\ TakeNext(p) \/ Idle(p)

\* Mutant of SenderWake: the flush forced by the destructor is forgotten.
SenderWakeNoFlush(p) ==
  /\ thread[p] = "waiting"
  /\ queue[p] # <<>> \/ ~working[p]
  /\ UNCHANGED outcome
  /\ IF working[p] THEN TakeNext(p) \/ Idle(p) ELSE Leave(p, "exited")

\* The wait's predicate holds: stop without a flush, or call send.
SenderWake(p) ==
  /\ thread[p] = "waiting"
  /\ queue[p] # <<>> \/ ~working[p]
  /\ UNCHANGED outcome
  /\ \/ /\ ~working[p] /\ ~force[p]
        /\ Leave(p, "exited")
     \/ /\ working[p] \/ force[p]
        /\ TakeNext(p) \/ Idle(p)

\* The destructor's flush stops at the first payload after the time limit.
\* The limit counts from the destructor's start, so it may expire any time.
FlushInterrupted(p) ==
  /\ force[p] /\ ~working[p] /\ ShutdownTimeout
  /\ queue[p] # <<>>
  /\ Leave(p, "exited")

\* The payload is finished with; relock and go on with the rest of the queue.
Finish(p, o) ==
  /\ outcome' = [outcome EXCEPT ![inflight[p]] = o]
  /\ TakeNext(p) \/ Idle(p) \/ FlushInterrupted(p)

Connected(p) == thread[p] = "sending" /\ EndpointOf[inflight[p]] \in known[p]

\* endpoints_.getConnection throws: the endpoint was never added.
SendNoEndpoint(p) ==
  /\ thread[p] = "sending"
  /\ retry[p] = 0
  /\ EndpointOf[inflight[p]] \notin known[p]
  /\ Finish(p, "lost")

\* Mutant of SendDelivered: the break after the callback is missing.
SendDeliveredNoBreak(p) ==
  /\ Connected(p)
  /\ outcome' = [outcome EXCEPT ![inflight[p]] = "delivered"]
  /\ UNCHANGED <<owner, sender, queue, usage, working, force, accepted, taken>>

\* 2xx: call back and stop.
SendDelivered(p) == Connected(p) /\ Finish(p, "delivered")

\* 4xx other than 408 and 429: call back and throw, no retry.
SendRefused(p) == Connected(p) /\ Finish(p, "refused")

\* curl_easy_perform failed: CurlSender throws, no retry.
SendBroken(p) == Connected(p) /\ Finish(p, "lost")

\* Mutant of SendRetry: one attempt too many.
SendRetryOnceMore(p) ==
  /\ Connected(p)
  /\ retry[p] < MaxRetries
  /\ retry' = [retry EXCEPT ![p] = @ + 1]
  /\ UNCHANGED <<owner, queue, usage, thread, working, force, inflight,
                 accepted, taken, outcome>>

\* Any other code: sleep and retry, until the attempts are used up.
SendRetry(p) ==
  /\ Connected(p)
  /\ \/ /\ retry[p] + 1 < MaxRetries
        /\ retry' = [retry EXCEPT ![p] = @ + 1]
        /\ UNCHANGED <<owner, queue, usage, thread, working, force, inflight,
                       accepted, taken, outcome>>
     \/ /\ retry[p] + 1 >= MaxRetries
        /\ Finish(p, "lost")

SenderNext(p) ==
  \/ SenderStart(p)
  \/ SenderWake(p)
  \/ SendNoEndpoint(p)
  \/ SendDelivered(p)
  \/ SendRefused(p)
  \/ SendBroken(p)
  \/ SendRetry(p)

-----------------------------------------------------------------------------
(* Calls into the transport.                                               *)

\* startThread: a no-op while a thread object exists.
StartThread(p) ==
  thread' = [thread EXCEPT ![p] = IF @ = "none" THEN "starting" ELSE @]

InitializeConnection(p, e) ==
  /\ phase[p] = "running"
  /\ known' = [known EXCEPT ![p] = @ \cup {e}]
  /\ StartThread(p)
  /\ UNCHANGED <<phase, queue, usage, working, force, inflight, retry,
                 accepted, taken, outcome>>

\* Other threads than the forking one (the OpAMP heartbeat, which prefork
\* stops only after the transport) call enqueue until fork() itself.
MayEnqueue(p) == phase[p] \in {"running", "preforking", "preforked"}

\* Mutant of EnqueueAccept: the limit looks at the queue without the payload.
EnqueueAcceptOverLimit(p, x) ==
  /\ MayEnqueue(p)
  /\ outcome[x] = "new"
  /\ usage[p] <= MaxSendQueueSize
  /\ queue' = [queue EXCEPT ![p] = Append(@, x)]
  /\ usage' = [usage EXCEPT ![p] = @ + Size[x]]
  /\ accepted' = [accepted EXCEPT ![p] = Append(@, x)]
  /\ outcome' = [outcome EXCEPT ![x] = "accepted"]
  /\ UNCHANGED <<owner, sender, working, force, taken>>

\* Mutant of EnqueueAccept: the payload is queued and not counted.
EnqueueAcceptUncounted(p, x) ==
  /\ MayEnqueue(p)
  /\ outcome[x] = "new"
  /\ usage[p] + Size[x] <= MaxSendQueueSize
  /\ queue' = [queue EXCEPT ![p] = Append(@, x)]
  /\ accepted' = [accepted EXCEPT ![p] = Append(@, x)]
  /\ outcome' = [outcome EXCEPT ![x] = "accepted"]
  /\ UNCHANGED <<owner, sender, usage, working, force, taken>>

EnqueueAccept(p, x) ==
  /\ MayEnqueue(p)
  /\ outcome[x] = "new"
  /\ usage[p] + Size[x] <= MaxSendQueueSize
  /\ queue' = [queue EXCEPT ![p] = Append(@, x)]
  /\ usage' = [usage EXCEPT ![p] = @ + Size[x]]
  /\ accepted' = [accepted EXCEPT ![p] = Append(@, x)]
  /\ outcome' = [outcome EXCEPT ![x] = "accepted"]
  /\ UNCHANGED <<owner, sender, working, force, taken>>

EnqueueDrop(p, x) ==
  /\ MayEnqueue(p)
  /\ outcome[x] = "new"
  /\ usage[p] + Size[x] > MaxSendQueueSize
  /\ outcome' = [outcome EXCEPT ![x] = "overLimit"]
  /\ UNCHANGED <<owner, sender, queue, usage, working, force, accepted, taken>>

-----------------------------------------------------------------------------
(* fork(): prefork, the fork itself, postfork on both sides.               *)

\* Mutant of Prefork: the sender is joined without being told to stop.
PreforkKeepsWorking(p) ==
  /\ phase[p] = "running"
  /\ phase' = [phase EXCEPT ![p] = "preforking"]
  /\ UNCHANGED <<known, sender, queue, usage, working, force, accepted, taken,
                 outcome>>

\* shutdownThread up to join(): clear working_, wake the sender.
Prefork(p) ==
  /\ phase[p] = "running"
  /\ phase' = [phase EXCEPT ![p] = "preforking"]
  /\ working' = [working EXCEPT ![p] = FALSE]
  /\ UNCHANGED <<known, sender, queue, usage, force, accepted, taken, outcome>>

\* join() returns: thread_ is reset and the owner goes from phase a to b.
Joined(p, a, b) ==
  /\ phase[p] = a
  /\ thread[p] \in {"none", "exited"}
  /\ phase' = [phase EXCEPT ![p] = b]
  /\ thread' = [thread EXCEPT ![p] = "none"]
  /\ UNCHANGED <<known, queue, usage, working, force, inflight, retry,
                 accepted, taken, outcome>>

PreforkJoined(p) == Joined(p, "preforking", "preforked")

\* The child gets a copy of the parent's memory, and none of its threads.
Fork(p, c) ==
  /\ phase[p] = "preforked" /\ phase[c] = "absent"
  /\ phase' = [phase EXCEPT ![p] = "forkedParent", ![c] = "forkedChild"]
  /\ known' = [known EXCEPT ![c] = known[p]]
  /\ queue' = [queue EXCEPT ![c] = queue[p]]
  /\ usage' = [usage EXCEPT ![c] = usage[p]]
  /\ working' = [working EXCEPT ![c] = working[p]]
  /\ force' = [force EXCEPT ![c] = force[p]]
  /\ UNCHANGED <<sender, accepted, taken, outcome>>

\* fork() fails: the parent's handlers run all the same.
ForkFails(p) ==
  /\ phase[p] = "preforked"
  /\ phase' = [phase EXCEPT ![p] = "forkedParent"]
  /\ UNCHANGED <<known, sender, queue, usage, working, force, accepted, taken,
                 outcome>>

\* Mutant of Resume: no thread is started.
ResumeNoThread(p) ==
  /\ phase' = [phase EXCEPT ![p] = "running"]
  /\ working' = [working EXCEPT ![p] = TRUE]
  /\ UNCHANGED <<known, sender, usage, force, accepted, taken, outcome>>

\* working_ = true; startThread().
Resume(p) ==
  /\ phase' = [phase EXCEPT ![p] = "running"]
  /\ working' = [working EXCEPT ![p] = TRUE]
  /\ StartThread(p)
  /\ UNCHANGED <<known, usage, force, inflight, retry, accepted, taken, outcome>>

\* Mutant of PostforkParent: the parent's queue is emptied as well.
PostforkParentEmpties(p) ==
  /\ phase[p] = "forkedParent"
  /\ queue' = [queue EXCEPT ![p] = <<>>]
  /\ Resume(p)

PostforkParent(p) ==
  /\ phase[p] = "forkedParent"
  /\ UNCHANGED queue
  /\ Resume(p)

\* Mutant of PostforkChild: the child keeps its copy of the queue.
PostforkChildKeeps(p) ==
  /\ phase[p] = "forkedChild"
  /\ UNCHANGED queue
  /\ Resume(p)

\* The child empties its copy of the queue, but not of payloadsByteUsage_.
PostforkChild(p) ==
  /\ phase[p] = "forkedChild"
  /\ queue' = [queue EXCEPT ![p] = <<>>]
  /\ Resume(p)

-----------------------------------------------------------------------------
(* The destructor.                                                         *)

\* shutdownStart_ = now(); forceFlushOnDestruction_ = true, without the lock.
Destroy(p) ==
  /\ phase[p] = "running"
  /\ phase' = [phase EXCEPT ![p] = "terminating"]
  /\ force' = [force EXCEPT ![p] = TRUE]
  /\ UNCHANGED <<known, sender, queue, usage, working, accepted, taken, outcome>>

DestroyStop(p) ==
  /\ phase[p] = "terminating"
  /\ phase' = [phase EXCEPT ![p] = "destroying"]
  /\ working' = [working EXCEPT ![p] = FALSE]
  /\ UNCHANGED <<known, sender, queue, usage, force, accepted, taken, outcome>>

DestroyJoined(p) == Joined(p, "destroying", "dead")

-----------------------------------------------------------------------------
\* The steps the owner has no choice about once it has begun.
OwnerNext(p) ==
  \/ PreforkJoined(p)
  \/ \E c \in Procs : Fork(p, c)
  \/ ForkFails(p)
  \/ PostforkParent(p)
  \/ PostforkChild(p)
  \/ DestroyStop(p)
  \/ DestroyJoined(p)

CallerNext(p) ==
  \/ \E e \in Endpoints : InitializeConnection(p, e)
  \/ \E x \in Payloads : EnqueueAccept(p, x)
  \/ \E x \in Payloads : EnqueueDrop(p, x)
  \/ Prefork(p)
  \/ Destroy(p)

Next == \E p \in Procs : SenderNext(p) \/ OwnerNext(p) \/ CallerNext(p)

\* The scheduler runs every live thread; an HTTP attempt ends because curl has
\* a timeout.  Nobody is obliged to call the transport.
Fairness == \A p \in Procs : WF_vars(SenderNext(p)) /\ WF_vars(OwnerNext(p))

Spec == Init /\ [][Next]_vars /\ Fairness

-----------------------------------------------------------------------------
(* Properties.                                                             *)

\* Every variable keeps its type: the byte counter stays a natural number, the
\* sender never makes more than MaxRetries attempts, and it holds a payload
\* exactly while it is sending.
TypeOK ==
  /\ phase \in [Procs -> Phase]
  /\ known \in [Procs -> SUBSET Endpoints]
  /\ queue \in [Procs -> Seq(Payloads)]
  /\ usage \in [Procs -> Nat]
  /\ thread \in [Procs -> Thread]
  /\ working \in [Procs -> BOOLEAN]
  /\ force \in [Procs -> BOOLEAN]
  /\ inflight \in [Procs -> Payloads \cup {NoPayload}]
  /\ retry \in [Procs -> 0 .. MaxRetries - 1]
  /\ accepted \in [Procs -> Seq(Payloads)]
  /\ taken \in [Procs -> Seq(Payloads)]
  /\ outcome \in [Payloads -> Outcome]
  /\ \A p \in Procs : inflight[p] # NoPayload <=> thread[p] = "sending"

QueuedBytes(p) ==
  LET sum[i \in 0 .. Len(queue[p])] == IF i = 0 THEN 0 ELSE sum[i - 1] + Size[queue[p][i]]
  IN sum[Len(queue[p])]

\* The byte counter never understates the queue, in any process, so the limit
\* of enqueue bounds the memory the queue really holds; in the process that
\* constructed the transport the counter is exact.
UsageAccounting ==
  /\ \A p \in Procs : QueuedBytes(p) <= usage[p] /\ usage[p] <= MaxSendQueueSize
  /\ usage[Root] = QueuedBytes(Root)

\* send subtracts a payload's size from an unsigned counter: the counter is
\* never smaller than the payload at the head, so it cannot wrap around.
NoUnderflow ==
  \A p \in Procs : queue[p] # <<>> => Size[Head(queue[p])] <= usage[p]

\* What a process accepted is, in order, what its sender popped followed by
\* what is still queued: forks, restarts of the thread and errors while
\* sending neither lose, repeat nor reorder a payload.
FifoNoLoss ==
  \A p \in Procs : phase[p] # "forkedChild" => accepted[p] = taken[p] \o queue[p]

\* A payload that was queued when the process forked is sent by the parent
\* only: no two processes ever post the same payload.
SentByOneProcess ==
  \A p, q \in Procs : p # q => ToSet(taken[p]) \cap ToSet(taken[q]) = {}

\* Once a payload is delivered, refused or given up, nothing happens to it any
\* more: a delivered payload is not retried, a lost one not revived.
OutcomeIsFinal ==
  [][\A x \in Payloads : outcome[x] \in Final => outcome'[x] = outcome[x]]_vars

\* A sender that has reached its loop leaves no payload behind when the
\* destructor forces the flush and no time limit is configured.
ForcedFlush ==
  [][\A p \in Procs :
       /\ thread[p] \in {"waiting", "sending"} /\ thread'[p] = "exited"
       /\ force[p] /\ ~ShutdownTimeout
       => queue'[p] = <<>>]_vars

\* The process forks finitely often.  A process that forks again and again can
\* stop each new sender before the thread has had its first turn.
ForksEnd(p) == <>[](phase[p] \notin {"preforking", "preforked", "forkedParent"})

\* A queued payload of a process that has a sender is eventually popped,
\* through any finite number of forks, unless the transport is destroyed.
QueueServed ==
  \A p \in Procs : ForksEnd(p) =>
    \A x \in Payloads :
      (x \in ToSet(queue[p]) /\ thread[p] # "none")
        ~> (x \notin ToSet(queue[p]) \/ phase[p] = "dead")

\* prefork and the destructor wait for the sender: the wait always ends, the
\* fork returns to a running transport and the destructor returns.
OwnerReturns ==
  \A p \in Procs :
    (phase[p] \notin {"absent", "running"}) ~> (phase[p] \in {"running", "dead"})

\* An empty queue has room for MaxSendQueueSize bytes, as the documentation of
\* max_send_queue_size has it.  Forked children break it.
EmptyQueueIsFree ==
  \A p \in Procs : phase[p] = "running" /\ queue[p] = <<>> => usage[p] = 0

\* With the time limit disabled, the destructor of a connected transport
\* flushes the whole queue.  A sender not yet at its loop breaks it.
DestructionFlushes ==
  \A p \in Procs :
    phase[p] = "dead" /\ known[p] # {} /\ ~ShutdownTimeout => queue[p] = <<>>

=============================================================================
