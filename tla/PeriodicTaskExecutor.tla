------------------------- MODULE PeriodicTaskExecutor -------------------------
(***************************************************************************)
(* The thread that runs periodic tasks (PeriodicTaskExecutor.h): the       *)
(* coordinator's check of its parent, and in a worker the sampling of      *)
(* inferred spans, resumed and suspended by every request.                 *)
(*                                                                         *)
(* prefork and postfork do the same in the parent and in the child, and    *)
(* the child's copy of the state is the parent's, so one process is        *)
(* followed: through a fork it may be read as either side.                 *)
(***************************************************************************)
EXTENDS Naturals

CONSTANT Tasks   \* the tasks given to the constructor; nobody calls addTask

VARIABLES
  phase,     \* what the thread that owns the executor is doing with it
  thread,    \* thread_ and the place work() has reached
  working,   \* working_
  resumed,   \* resumed_
  tasks,     \* periodicTasks_; the order in which they run is left out
  todo,      \* tasksSnapshot: the tasks of this round that have not run
  late       \* history: rounds begun since the last suspendPeriodicTasks

lifecycle == <<phase, working>>
vars == <<lifecycle, thread, resumed, tasks, todo, late>>

\* "absent": not constructed yet.  "preforked": joined, fork() may run.
\* "forked": fork() has returned, or failed, and postfork() has not run.
Phase == {"absent", "running", "preforking", "preforked", "forked", "destroying", "dead"}

\* "running": the sleep is over and the tasks of the snapshot are run.
Thread == {"none", "starting", "waiting", "sleeping", "running", "exited"}

Init ==
  /\ phase = "absent" /\ thread = "none"
  /\ working = TRUE /\ resumed = FALSE
  /\ tasks = {} /\ todo = {} /\ late = 0

-----------------------------------------------------------------------------
(* The thread: work().                                                     *)

\* Mutant of Turn: the loop does not look at resumed_ again after a round.
TurnResumed ==
  IF ~working THEN "exited" ELSE "sleeping"

\* Where the thread goes once it holds mutex_: out of the loop, into the wait,
\* or through the wait, whose predicate holds already.
Turn ==
  IF ~working THEN "exited" ELSE IF resumed THEN "sleeping" ELSE "waiting"

\* The thread's first lock.
ThreadStart ==
  /\ thread = "starting"
  /\ thread' = Turn
  /\ UNCHANGED <<lifecycle, resumed, tasks, todo, late>>

\* The predicate of the wait holds.
Wake ==
  /\ thread = "waiting"
  /\ resumed \/ ~working
  /\ thread' = Turn
  /\ UNCHANGED <<lifecycle, resumed, tasks, todo, late>>

\* sleep_for returns; nothing is asked of working_ or resumed_ before the
\* tasks are copied.
SleepEnds ==
  /\ thread = "sleeping"
  /\ thread' = "running"
  /\ todo' = tasks
  /\ late' = IF resumed THEN late ELSE late + 1
  /\ UNCHANGED <<lifecycle, resumed, tasks>>

\* One task of the snapshot returns.
TaskEnds(t) ==
  /\ thread = "running" /\ t \in todo
  /\ todo' = todo \ {t}
  /\ UNCHANGED <<lifecycle, thread, resumed, tasks, late>>

\* lock.lock() and the loop's condition.
RoundEnds ==
  /\ thread = "running" /\ todo = {}
  /\ thread' = Turn
  /\ UNCHANGED <<lifecycle, resumed, tasks, todo, late>>

-----------------------------------------------------------------------------
(* Calls by the owner.                                                     *)

Construct ==
  /\ phase = "absent"
  /\ phase' = "running" /\ thread' = "starting" /\ tasks' = Tasks
  /\ UNCHANGED <<working, resumed, todo, late>>

ResumePeriodicTasks ==
  /\ phase = "running"
  /\ resumed' = TRUE /\ late' = 0
  /\ UNCHANGED <<lifecycle, thread, tasks, todo>>

SuspendPeriodicTasks ==
  /\ phase = "running"
  /\ resumed' = FALSE
  /\ UNCHANGED <<lifecycle, thread, tasks, todo, late>>

\* Mutant of Prefork: the thread is joined without being told to stop.
PreforkKeepsWorking ==
  /\ phase = "running"
  /\ phase' = "preforking"
  /\ UNCHANGED <<working, thread, resumed, tasks, todo, late>>

\* shutdown(): the first half of prefork.
Prefork ==
  /\ phase = "running"
  /\ phase' = "preforking" /\ working' = FALSE
  /\ UNCHANGED <<thread, resumed, tasks, todo, late>>

Destroy ==
  /\ phase = "running"
  /\ phase' = "destroying" /\ working' = FALSE
  /\ UNCHANGED <<thread, resumed, tasks, todo, late>>

\* Mutant of Joined: join() does not wait.
JoinedAtOnce(a, b) ==
  /\ phase = a
  /\ phase' = b
  /\ UNCHANGED <<working, thread, resumed, tasks, todo, late>>

\* join() returns.
Joined(a, b) ==
  /\ phase = a
  /\ thread = "exited"
  /\ phase' = b /\ thread' = "none"
  /\ UNCHANGED <<working, resumed, tasks, todo, late>>

PreforkJoined == Joined("preforking", "preforked")

DestroyJoined == Joined("destroying", "dead")

Fork ==
  /\ phase = "preforked"
  /\ phase' = "forked"
  /\ UNCHANGED <<working, thread, resumed, tasks, todo, late>>

\* Mutant of Postfork: working_ is not set again.
PostforkNotWorking ==
  /\ phase = "forked"
  /\ phase' = "running" /\ thread' = "starting"
  /\ UNCHANGED <<working, resumed, tasks, todo, late>>

\* A new thread over whatever thread_ holds; resumed_ and the tasks are kept.
Postfork ==
  /\ phase = "forked"
  /\ phase' = "running" /\ working' = TRUE /\ thread' = "starting"
  /\ UNCHANGED <<resumed, tasks, todo, late>>

-----------------------------------------------------------------------------
ThreadNext ==
  \/ ThreadStart
  \/ Wake
  \/ SleepEnds
  \/ \E t \in todo : TaskEnds(t)
  \/ RoundEnds

\* The steps the owner has no choice about once it has begun.
OwnerNext == PreforkJoined \/ DestroyJoined \/ Fork \/ Postfork

CallerNext ==
  \/ Construct
  \/ ResumePeriodicTasks
  \/ SuspendPeriodicTasks
  \/ Prefork
  \/ Destroy

Next == ThreadNext \/ OwnerNext \/ CallerNext

\* The thread is scheduled, sleeps end and tasks return; nobody has to call.
Fairness == WF_vars(ThreadNext) /\ WF_vars(OwnerNext)

Spec == Init /\ [][Next]_vars /\ Fairness

-----------------------------------------------------------------------------
(* Properties.                                                             *)

\* Every variable keeps its type.
TypeOK ==
  /\ phase \in Phase /\ thread \in Thread
  /\ working \in BOOLEAN /\ resumed \in BOOLEAN
  /\ tasks \subseteq Tasks /\ todo \subseteq tasks
  /\ late \in Nat

\* fork() never happens while the thread exists, and postfork never assigns to
\* a joinable thread object, which would end the process.
StoppedAtFork == phase \in {"preforked", "forked", "dead"} => thread = "none"

\* After suspendPeriodicTasks the tasks run once more at most, the round whose
\* sleep had begun, until they are resumed: through any forks.
SuspendBounds == ~resumed => late <= 1

\* prefork and the destructor return: the thread is never asleep for good in
\* the wait, suspended or not, and a fork ends with a running executor.
StopReturns ==
  phase \in {"preforking", "preforked", "forked", "destroying"} ~> phase \in {"running", "dead"}

\* While the executor stays resumed the tasks run again and again: a request
\* that forks goes on being sampled in the parent and in the child.
ResumedRuns ==
  <>[](phase = "running" /\ resumed) => []<>(thread = "running")

=============================================================================
