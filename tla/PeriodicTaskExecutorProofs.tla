---------------------- MODULE PeriodicTaskExecutorProofs ----------------------
(***************************************************************************)
(* The safety properties of the executor, for any set of tasks.            *)
(***************************************************************************)
EXTENDS PeriodicTaskExecutor, TLAPS

\* The thread exists exactly while its owner may have to join it.
ThreadOwned == thread = "none" <=> phase \in {"absent", "preforked", "forked", "dead"}

\* No round is counted while resumed, and once the late round has begun the
\* thread does not sleep again until it is resumed.
LateRound ==
  /\ resumed => late = 0
  /\ ~resumed => late <= 1 /\ (late = 1 => thread # "sleeping")

IInv == TypeOK /\ ThreadOwned /\ LateRound

LEMMA TurnLeaves ==
  ASSUME TypeOK
  PROVE  /\ Turn \in Thread \ {"none", "running"}
         /\ Turn = "sleeping" => resumed
BY DEF TypeOK, Turn, Thread

LEMMA IInvInit == Init => IInv
<1>1. Init => TypeOK
  <2> SUFFICES ASSUME Init PROVE TypeOK
    OBVIOUS
  <2>1. phase \in Phase /\ thread \in Thread /\ late \in Nat
    BY DEF Init, Phase, Thread
  <2>2. working \in BOOLEAN /\ resumed \in BOOLEAN
    BY Zenon DEF Init
  <2>3. tasks \subseteq Tasks /\ todo \subseteq tasks
    BY DEF Init
  <2>4. QED
    BY <2>1, <2>2, <2>3 DEF TypeOK
<1>2. Init => ThreadOwned
  BY DEF Init, ThreadOwned
<1>3. Init => LateRound
  BY DEF Init, LateRound
<1>4. QED
  BY <1>1, <1>2, <1>3 DEF IInv

LEMMA IInvNext == IInv /\ [Next]_vars => IInv'
<1> SUFFICES ASSUME IInv, [Next]_vars PROVE IInv'
  OBVIOUS
<1> USE DEF IInv, TypeOK, ThreadOwned, LateRound
<1>1. CASE ThreadStart
  <2>1. Turn \in Thread \ {"none", "running"} /\ (Turn = "sleeping" => resumed)
    BY TurnLeaves
  <2>2. QED
    BY <1>1, <2>1 DEF ThreadStart, lifecycle
<1>2. CASE Wake
  <2>1. Turn \in Thread \ {"none", "running"} /\ (Turn = "sleeping" => resumed)
    BY TurnLeaves
  <2>2. QED
    BY <1>2, <2>1 DEF Wake, lifecycle
<1>3. CASE RoundEnds
  <2>1. Turn \in Thread \ {"none", "running"} /\ (Turn = "sleeping" => resumed)
    BY TurnLeaves
  <2>2. QED
    BY <1>3, <2>1 DEF RoundEnds, lifecycle
<1>4. CASE SleepEnds
  BY <1>4 DEF SleepEnds, lifecycle, Thread
<1>5. CASE \E t \in todo : TaskEnds(t)
  BY <1>5 DEF TaskEnds, lifecycle
<1>6. CASE OwnerNext
  <2>1. CASE PreforkJoined \/ DestroyJoined
    BY <1>6, <2>1 DEF PreforkJoined, DestroyJoined, Joined, Phase, Thread
  <2>2. CASE Fork
    BY <1>6, <2>2 DEF Fork, Phase
  <2>3. CASE Postfork
    BY <1>6, <2>3 DEF Postfork, Phase, Thread
  <2>4. QED
    BY <1>6, <2>1, <2>2, <2>3 DEF OwnerNext
<1>7. CASE CallerNext
  <2>1. CASE Construct
    BY <2>1 DEF Construct, Phase, Thread
  <2>2. CASE ResumePeriodicTasks
    BY <2>2 DEF ResumePeriodicTasks, lifecycle
  <2>3. CASE SuspendPeriodicTasks
    <3>1. ~resumed' /\ UNCHANGED <<lifecycle, thread, tasks, todo, late>>
      BY <2>3 DEF SuspendPeriodicTasks
    <3>2. TypeOK' /\ ThreadOwned'
      BY <2>3, <3>1 DEF SuspendPeriodicTasks, lifecycle
    <3>3. late = 0 \/ (late <= 1 /\ (late = 1 => thread # "sleeping"))
      OBVIOUS
    <3>4. LateRound'
      BY <3>1, <3>3
    <3>5. QED
      BY <3>2, <3>4
  <2>4. CASE Prefork
    BY <2>4 DEF Prefork, Phase
  <2>5. CASE Destroy
    BY <2>5 DEF Destroy, Phase
  <2>6. QED
    BY <1>7, <2>1, <2>2, <2>3, <2>4, <2>5 DEF CallerNext
<1>8. CASE UNCHANGED vars
  BY <1>8 DEF vars, lifecycle
<1>9. QED
  BY <1>1, <1>2, <1>3, <1>4, <1>5, <1>6, <1>7, <1>8 DEF Next, ThreadNext

LEMMA IInvAlways == Init /\ [][Next]_vars => []IInv
BY IInvInit, IInvNext, PTL

\* Every variable keeps its type, whatever tasks the executor is given.
THEOREM ExecutorTypeCorrect == Spec => []TypeOK
<1>1. IInv => TypeOK
  BY DEF IInv
<1>2. QED
  BY <1>1, IInvAlways, PTL DEF Spec

\* The thread that work() runs in has ended whenever fork() may run and
\* whenever postfork assigns a new one, so no fork copies a held mutex.
THEOREM NoThreadAcrossFork == Spec => []StoppedAtFork
<1>1. IInv => StoppedAtFork
  BY DEF IInv, ThreadOwned, StoppedAtFork
<1>2. QED
  BY <1>1, IInvAlways, PTL DEF Spec

\* suspendPeriodicTasks lets at most the round whose sleep had begun run,
\* through any forks, until resumePeriodicTasks.
THEOREM OneLateRound == Spec => []SuspendBounds
<1>1. IInv => SuspendBounds
  BY DEF IInv, LateRound, SuspendBounds
<1>2. QED
  BY <1>1, IInvAlways, PTL DEF Spec

=============================================================================
