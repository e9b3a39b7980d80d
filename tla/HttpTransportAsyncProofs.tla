---------------------- MODULE HttpTransportAsyncProofs ----------------------
(***************************************************************************)
(* Machine-checked proofs about HttpTransportAsync, for every set of       *)
(* processes and payloads, every size and every limit.                     *)
(***************************************************************************)
EXTENDS HttpTransportAsync, WellFoundedInduction, TLAPS

-----------------------------------------------------------------------------
(* Type correctness.                                                       *)

\* Popping the head of the queue keeps every variable it changes well typed;
\* the counter's new value is the one conjunct left open, because only the
\* accounting below shows that the subtraction stays in Nat.
LEMMA TakeNextType ==
  ASSUME TypeOK, NEW p \in Procs, TakeNext(p), usage' \in [Procs -> Nat],
         outcome' \in [Payloads -> Outcome]
  PROVE  TypeOK'
<1>1. Head(queue[p]) \in Payloads /\ Tail(queue[p]) \in Seq(Payloads)
  BY DEF TypeOK, TakeNext
<1>2. queue' \in [Procs -> Seq(Payloads)] /\ taken' \in [Procs -> Seq(Payloads)]
  BY <1>1 DEF TypeOK, TakeNext
<1>3. inflight' \in [Procs -> Payloads \cup {NoPayload}]
  BY <1>1 DEF TypeOK, TakeNext
<1>4. retry' \in [Procs -> 0 .. MaxRetries - 1] /\ thread' \in [Procs -> Thread]
  BY TransportAssumption DEF TypeOK, TakeNext, Thread
<1>5. \A q \in Procs : inflight'[q] # NoPayload <=> thread'[q] = "sending"
  BY <1>1, TransportAssumption DEF TypeOK, TakeNext
<1> QED
  BY <1>2, <1>3, <1>4, <1>5 DEF TypeOK, TakeNext, owner

\* Whatever the sender does between two payloads keeps the types.
LEMMA LeaveType ==
  ASSUME TypeOK, NEW p \in Procs, NEW t \in Thread \ {"sending"}, Leave(p, t),
         outcome' \in [Payloads -> Outcome]
  PROVE  TypeOK'
<1>1. /\ thread' \in [Procs -> Thread]
      /\ inflight' \in [Procs -> Payloads \cup {NoPayload}]
      /\ retry' \in [Procs -> 0 .. MaxRetries - 1]
  BY TransportAssumption DEF TypeOK, Leave
<1>2. \A q \in Procs : inflight'[q] # NoPayload <=> thread'[q] = "sending"
  BY DEF TypeOK, Leave
<1> QED
  BY <1>1, <1>2 DEF TypeOK, Leave, owner

-----------------------------------------------------------------------------
(* How a step can change the queue.                                        *)

\* The variables that say which payloads a process holds.
holdings == <<queue, usage, accepted, taken>>

\* A step that leaves the holdings alone, and makes and unmakes no forked child.
Quiet ==
  /\ UNCHANGED holdings
  /\ \A p \in Procs : phase'[p] = "forkedChild" <=> phase[p] = "forkedChild"
  /\ \A p \in Procs : phase'[p] = "absent" <=> phase[p] = "absent"

\* The sender either pops a payload or leaves the holdings alone.
LEMMA SenderShape ==
  ASSUME TypeOK, NEW p \in Procs, SenderNext(p)
  PROVE  (TakeNext(p) /\ thread[p] # "none") \/ Quiet
<1>1. ASSUME NEW t, Leave(p, t) PROVE Quiet
  BY <1>1 DEF Leave, owner, Quiet, holdings
<1>2. ASSUME NEW o, Finish(p, o) PROVE TakeNext(p) \/ Quiet
  BY <1>1, <1>2 DEF Finish, Idle, FlushInterrupted
<1>3. CASE SenderStart(p)
  BY <1>1, <1>3 DEF SenderStart, Idle
<1>4. CASE SenderWake(p)
  BY <1>1, <1>4 DEF SenderWake, Idle
<1>5. CASE SendNoEndpoint(p)
  BY <1>2, <1>5 DEF SendNoEndpoint
<1>6. CASE SendDelivered(p) \/ SendRefused(p) \/ SendBroken(p)
  BY <1>2, <1>6 DEF SendDelivered, SendRefused, SendBroken, Connected
<1>7. CASE SendRetry(p)
  BY <1>2, <1>7 DEF SendRetry, Connected, Quiet, holdings, owner
<1> QED
  BY <1>3, <1>4, <1>5, <1>6, <1>7 DEF SenderNext

\* Only four operations change what a process holds.
LEMMA StepShape ==
  ASSUME TypeOK, [Next]_vars
  PROVE  \/ \E p \in Procs : TakeNext(p) /\ thread[p] # "none"
         \/ \E p \in Procs, x \in Payloads : EnqueueAccept(p, x)
         \/ \E p, c \in Procs : Fork(p, c)
         \/ \E p \in Procs : PostforkChild(p)
         \/ Quiet
<1>1. CASE UNCHANGED vars
  BY <1>1 DEF vars, Quiet, holdings
<1>2. ASSUME NEW p \in Procs, SenderNext(p)
      PROVE  (TakeNext(p) /\ thread[p] # "none") \/ Quiet
  BY <1>2, SenderShape
<1>3. ASSUME NEW p \in Procs, CallerNext(p)
      PROVE  Quiet \/ \E x \in Payloads : EnqueueAccept(p, x)
  <2>1. ASSUME NEW e \in Endpoints, InitializeConnection(p, e) PROVE Quiet
    BY <2>1 DEF InitializeConnection, Quiet, holdings
  <2>2. ASSUME NEW x \in Payloads, EnqueueDrop(p, x) PROVE Quiet
    BY <2>2 DEF EnqueueDrop, Quiet, holdings, owner
  <2>3. CASE Prefork(p)
    BY <2>3 DEF TypeOK, Prefork, Quiet, holdings
  <2>4. CASE Destroy(p)
    BY <2>4 DEF TypeOK, Destroy, Quiet, holdings
  <2> QED
    BY <1>3, <2>1, <2>2, <2>3, <2>4 DEF CallerNext
<1>4. ASSUME NEW p \in Procs, OwnerNext(p)
      PROVE  \/ Quiet
             \/ \E c \in Procs : Fork(p, c)
             \/ PostforkChild(p)
  <2>1. CASE PreforkJoined(p) \/ DestroyJoined(p)
    BY <2>1 DEF TypeOK, PreforkJoined, DestroyJoined, Joined, Quiet, holdings
  <2>2. CASE ForkFails(p)
    BY <2>2 DEF TypeOK, ForkFails, Quiet, holdings
  <2>3. CASE PostforkParent(p)
    BY <2>3 DEF TypeOK, PostforkParent, Resume, Quiet, holdings
  <2>4. CASE DestroyStop(p)
    BY <2>4 DEF TypeOK, DestroyStop, Quiet, holdings
  <2> QED
    BY <1>4, <2>1, <2>2, <2>3, <2>4 DEF OwnerNext
<1> QED
  BY <1>1, <1>2, <1>3, <1>4 DEF Next

-----------------------------------------------------------------------------
(* The byte counter.  A sum over the queue is described by its prefix      *)
(* sums: f[i] is the number of bytes of the first i payloads.              *)

PrefixSums(f, s) ==
  /\ f \in [0 .. Len(s) -> Nat]
  /\ f[0] = 0
  /\ \A i \in 1 .. Len(s) : f[i] = f[i-1] + Size[s[i]]
  /\ \A i, j \in 0 .. Len(s) : i <= j => f[i] <= f[j]

\* The counter is at least the sum, and exactly the sum in the root process.
Counted(p) ==
  \E f : /\ PrefixSums(f, queue[p])
         /\ f[Len(queue[p])] <= usage[p]
         /\ p = Root => usage[p] = f[Len(queue[p])]

\* The inductive invariant: types hold only together with the accounting,
\* because the subtraction in send must stay in Nat, and the counter of the
\* root is exact only because the root is never a forked child.
AccountingInv ==
  /\ TypeOK
  /\ phase[Root] \notin {"absent", "forkedChild"}
  /\ \A p \in Procs : Counted(p) /\ usage[p] <= MaxSendQueueSize

\* Appending a payload adds its size to the sum.
LEMMA PrefixSumsAppend ==
  ASSUME NEW s \in Seq(Payloads), NEW x \in Payloads, NEW f, PrefixSums(f, s)
  PROVE  \E g : /\ PrefixSums(g, Append(s, x))
                /\ g[Len(Append(s, x))] = f[Len(s)] + Size[x]
<1> DEFINE n == Len(s)
           t == Append(s, x)
           g == [i \in 0 .. n + 1 |-> IF i = n + 1 THEN f[n] + Size[x] ELSE f[i]]
<1>1. n \in Nat /\ Len(t) = n + 1 /\ t[n + 1] = x /\ \A i \in 1 .. n : t[i] = s[i]
  OBVIOUS
<1>2. Size[x] \in Nat
  BY TransportAssumption
<1>3. g \in [0 .. n + 1 -> Nat] /\ g[0] = 0
  BY <1>1, <1>2 DEF PrefixSums
<1>4. \A i \in 1 .. n + 1 : g[i] = g[i-1] + Size[t[i]]
  BY <1>1, <1>2 DEF PrefixSums
<1>5. ASSUME NEW i \in 0 .. n + 1, NEW j \in 0 .. n + 1, i <= j PROVE g[i] <= g[j]
  <2>1. \A k \in 0 .. n : f[k] \in Nat /\ f[k] <= f[n]
    BY <1>1 DEF PrefixSums
  <2>2. CASE j = n + 1
    BY <2>1, <2>2, <1>1, <1>2
  <2>3. CASE j # n + 1
    <3>1. i \in 0 .. n /\ j \in 0 .. n /\ g[i] = f[i] /\ g[j] = f[j]
      BY <2>3, <1>1, <1>5
    <3> QED
      BY <3>1, <1>5, <1>1 DEF PrefixSums
  <2> QED
    BY <2>2, <2>3
<1>6. PrefixSums(g, t) /\ g[Len(t)] = f[n] + Size[x]
  BY <1>1, <1>3, <1>4, <1>5 DEF PrefixSums
<1> QED
  BY <1>6

\* Popping the head subtracts its size, which the sum contains.
LEMMA PrefixSumsTail ==
  ASSUME NEW s \in Seq(Payloads), s # <<>>, NEW f, PrefixSums(f, s)
  PROVE  /\ Size[Head(s)] <= f[Len(s)]
         /\ \E g : /\ PrefixSums(g, Tail(s))
                   /\ g[Len(Tail(s))] = f[Len(s)] - Size[Head(s)]
<1> DEFINE n == Len(s)
           t == Tail(s)
           g == [i \in 0 .. n - 1 |-> f[i + 1] - f[1]]
<1>1. /\ n \in Nat \ {0} /\ Len(t) = n - 1 /\ Head(s) = s[1] /\ Head(s) \in Payloads
      /\ \A i \in 1 .. n - 1 : t[i] = s[i + 1]
  OBVIOUS
<1>2. f[1] = Size[Head(s)] /\ \A i \in 0 .. n : f[i] \in Nat
  <2>1. f[1] = f[1 - 1] + Size[s[1]] /\ f[0] = 0
    BY <1>1 DEF PrefixSums
  <2>2. Size[s[1]] \in Nat
    BY <1>1, TransportAssumption
  <2> QED
    BY <1>1, <2>1, <2>2 DEF PrefixSums
<1>3. \A i \in 1 .. n : f[1] <= f[i]
  BY <1>1 DEF PrefixSums
<1>4. g \in [0 .. n - 1 -> Nat] /\ g[0] = 0 /\ g[n - 1] = f[n] - f[1]
  <2>1. ASSUME NEW i \in 0 .. n - 1 PROVE f[i + 1] - f[1] \in Nat
    <3>1. i + 1 \in 1 .. n /\ i + 1 \in 0 .. n /\ 1 \in 0 .. n
      BY <1>1
    <3>2. f[i + 1] \in Nat /\ f[1] \in Nat /\ f[1] <= f[i + 1]
      BY <3>1, <1>2, <1>3
    <3> QED
      BY <3>2
  <2>2. f[1] \in Nat /\ 0 \in 0 .. n - 1 /\ n - 1 \in 0 .. n - 1 /\ n - 1 + 1 = n
    BY <1>1, <1>2
  <2> QED
    BY <2>1, <2>2
<1>5. ASSUME NEW i \in 1 .. n - 1 PROVE g[i] = g[i-1] + Size[t[i]]
  <2>1. t[i] = s[i + 1] /\ t[i] \in Payloads /\ i + 1 \in 1 .. n
    BY <1>1
  <2>2. f[i + 1] = f[i] + Size[t[i]] /\ Size[t[i]] \in Nat
    BY <2>1, <1>1, TransportAssumption DEF PrefixSums
  <2>3. g[i] = f[i + 1] - f[1] /\ g[i - 1] = f[i] - f[1]
    BY <1>1
  <2> QED
    BY <2>2, <2>3, <1>1, <1>2
<1>6. ASSUME NEW i \in 0 .. n - 1, NEW j \in 0 .. n - 1, i <= j PROVE g[i] <= g[j]
  <2>1. i + 1 \in 0 .. n /\ j + 1 \in 0 .. n /\ i + 1 <= j + 1
    BY <1>1, <1>6
  <2>2. f[i + 1] <= f[j + 1]
    BY <2>1, <1>1 DEF PrefixSums
  <2> QED
    BY <2>1, <2>2, <1>1, <1>2
<1>7. PrefixSums(g, t) /\ g[Len(t)] = f[n] - Size[Head(s)]
  BY <1>1, <1>2, <1>4, <1>5, <1>6 DEF PrefixSums
<1> QED
  BY <1>1, <1>2, <1>3, <1>7

\* The least-number principle, for a set rather than a predicate.
LEMMA SmallestOf ==
  ASSUME NEW T \in SUBSET Nat, T # {}
  PROVE  \E n \in T : \A k \in T : n <= k
<1> DEFINE less == OpToRel(<, Nat)
<1>1. IsWellFoundedOn(less, Nat)
  BY NatLessThanWellFounded, Zenon
<1>2. \A x, y \in Nat : x < y => <<x, y>> \in less
  BY DEF OpToRel
<1> HIDE DEF less
<1>3. PICK n \in T : \A k \in T : ~ (<<k, n>> \in less)
  BY <1>1, WFMin, Zenon
<1>4. \A k \in T : n \in Nat /\ k \in Nat /\ ~ (k < n)
  BY <1>2, <1>3
<1> QED
  BY <1>4

\* A queue has one sequence of prefix sums, and its last element is QueuedBytes.
LEMMA PrefixSumsQueued ==
  ASSUME NEW p \in Procs, queue[p] \in Seq(Payloads), NEW f, PrefixSums(f, queue[p])
  PROVE  QueuedBytes(p) = f[Len(queue[p])]
<1> DEFINE s == queue[p]
           n == Len(s)
           Sums(h) == h = [i \in 0 .. n |-> IF i = 0 THEN 0 ELSE h[i - 1] + Size[s[i]]]
           sum == CHOOSE h : Sums(h)
<1>0. n \in Nat
  OBVIOUS
<1>1. Sums(f)
  <2>1. f = [i \in 0 .. n |-> f[i]]
    BY DEF PrefixSums
  <2>2. \A i \in 0 .. n : f[i] = IF i = 0 THEN 0 ELSE f[i - 1] + Size[s[i]]
    BY <1>0 DEF PrefixSums
  <2> QED
    BY <2>1, <2>2
<1>2. Sums(sum)
  BY <1>1, Zenon
<1> HIDE DEF sum
<1>3. \A i \in 0 .. n : sum[i] = f[i]
  <2> SUFFICES ASSUME {i \in 0 .. n : sum[i] # f[i]} # {} PROVE FALSE
    OBVIOUS
  <2>1. {i \in 0 .. n : sum[i] # f[i]} \in SUBSET Nat
    OBVIOUS
  <2>2. PICK i \in {j \in 0 .. n : sum[j] # f[j]} : \A k \in {j \in 0 .. n : sum[j] # f[j]} : i <= k
    BY <2>1, SmallestOf, Zenon
  <2>3. i # 0
    BY <1>1, <1>2, <1>0, <2>2
  <2>4. i - 1 \in 0 .. n /\ ~ (i <= i - 1)
    BY <2>2, <2>3
  <2>5. sum[i - 1] = f[i - 1]
    BY <2>2, <2>4
  <2> QED
    BY <1>1, <1>2, <2>2, <2>3, <2>5, SMTT(30)
<1>4. QueuedBytes(p) = sum[n]
  BY DEF QueuedBytes, sum
<1> QED
  BY <1>0, <1>3, <1>4

\* The transport starts with nothing queued and nothing counted.
LEMMA AccountingInit == Init => AccountingInv
<1> SUFFICES ASSUME Init PROVE AccountingInv
  OBVIOUS
<1>1. TypeOK
  BY TransportAssumption DEF Init, TypeOK, Phase, Thread, Outcome
<1>2. ASSUME NEW p \in Procs PROVE Counted(p)
  <2> DEFINE f == [i \in 0 .. 0 |-> 0]
  <2>1. queue[p] = <<>> /\ usage[p] = 0
    BY DEF Init
  <2>2. PrefixSums(f, queue[p]) /\ f[Len(queue[p])] = 0
    BY <2>1 DEF PrefixSums
  <2> QED
    BY <2>1, <2>2 DEF Counted
<1> QED
  BY <1>1, <1>2, TransportAssumption DEF Init, AccountingInv

\* Every action other than a pop keeps the types.
LEMMA StepType ==
  ASSUME TypeOK, [Next]_vars, \A p \in Procs : ~TakeNext(p)
  PROVE  TypeOK'
<1>1. CASE UNCHANGED vars
  BY <1>1 DEF TypeOK, vars
<1>2. ASSUME NEW p \in Procs, SenderNext(p) PROVE TypeOK'
  <2> DEFINE other == Thread \ {"sending"}
  <2>1. ASSUME NEW o \in Final, thread[p] = "sending", Finish(p, o) PROVE TypeOK'
    <3>1. inflight[p] \in Payloads
      BY <2>1, <1>2 DEF TypeOK
    <3>2. outcome' \in [Payloads -> Outcome]
      BY <2>1, <3>1 DEF Finish, TypeOK, Outcome
    <3>3. \E t \in other : Leave(p, t)
      BY <2>1 DEF Finish, Idle, FlushInterrupted, Thread
    <3> QED
      BY <3>2, <3>3, LeaveType
  <2>2. CASE SenderStart(p) \/ SenderWake(p)
    <3>1. \E t \in other : Leave(p, t)
      BY <2>2 DEF SenderStart, SenderWake, Idle, Thread
    <3>2. outcome' \in [Payloads -> Outcome]
      BY <2>2 DEF SenderStart, SenderWake, TypeOK
    <3> QED
      BY <3>1, <3>2, LeaveType
  <2>3. CASE SendNoEndpoint(p)
    BY <2>1, <2>3 DEF SendNoEndpoint, Final
  <2>4. CASE SendDelivered(p) \/ SendRefused(p) \/ SendBroken(p)
    BY <2>1, <2>4 DEF SendDelivered, SendRefused, SendBroken, Connected, Final
  <2>5. CASE SendRetry(p)
    <3>1. CASE Finish(p, "lost")
      BY <2>1, <2>5, <3>1 DEF SendRetry, Connected, Final
    <3>2. CASE retry[p] + 1 < MaxRetries /\ retry' = [retry EXCEPT ![p] = @ + 1]
      <4>1. retry[p] \in 0 .. MaxRetries - 1 /\ MaxRetries \in Nat
        BY TransportAssumption DEF TypeOK
      <4>2. ~(retry[p] + 1 >= MaxRetries) /\ retry[p] + 1 \in 0 .. MaxRetries - 1
        BY <3>2, <4>1
      <4>3. UNCHANGED <<owner, queue, usage, thread, working, force, inflight,
                        accepted, taken, outcome>>
        BY <2>5, <4>2 DEF SendRetry
      <4>4. retry' \in [Procs -> 0 .. MaxRetries - 1]
        BY <3>2, <4>2 DEF TypeOK
      <4> QED
        BY <4>3, <4>4 DEF TypeOK, owner
    <3> QED
      BY <2>5, <3>1, <3>2 DEF SendRetry
  <2> QED
    BY <1>2, <2>2, <2>3, <2>4, <2>5 DEF SenderNext
<1>3. ASSUME NEW p \in Procs, CallerNext(p) PROVE TypeOK'
  <2>1. ASSUME NEW e \in Endpoints, InitializeConnection(p, e) PROVE TypeOK'
    BY <2>1 DEF InitializeConnection, StartThread, TypeOK, Thread
  <2>2. ASSUME NEW x \in Payloads, EnqueueDrop(p, x) PROVE TypeOK'
    BY <2>2 DEF EnqueueDrop, owner, sender, TypeOK, Outcome
  <2>3. ASSUME NEW x \in Payloads, EnqueueAccept(p, x) PROVE TypeOK'
    <3>1. /\ queue' \in [Procs -> Seq(Payloads)]
          /\ accepted' \in [Procs -> Seq(Payloads)]
      BY <2>3 DEF EnqueueAccept, TypeOK
    <3>2. usage' \in [Procs -> Nat]
      <4>1. usage[p] + Size[x] \in Nat
        BY TransportAssumption DEF TypeOK
      <4> QED
        BY <2>3, <4>1 DEF EnqueueAccept, TypeOK
    <3>3. outcome' \in [Payloads -> Outcome]
      BY <2>3 DEF EnqueueAccept, TypeOK, Outcome
    <3> QED
      BY <2>3, <3>1, <3>2, <3>3 DEF EnqueueAccept, owner, sender, TypeOK
  <2>4. CASE Prefork(p)
    BY <2>4 DEF Prefork, sender, TypeOK, Phase
  <2>5. CASE Destroy(p)
    BY <2>5 DEF Destroy, sender, TypeOK, Phase
  <2> QED
    BY <1>3, <2>1, <2>2, <2>3, <2>4, <2>5 DEF CallerNext
<1>4. ASSUME NEW p \in Procs, OwnerNext(p) PROVE TypeOK'
  <2>1. CASE PreforkJoined(p) \/ DestroyJoined(p)
    BY <2>1 DEF PreforkJoined, DestroyJoined, Joined, TypeOK, Phase, Thread
  <2>2. ASSUME NEW c \in Procs, Fork(p, c) PROVE TypeOK'
    BY <2>2 DEF Fork, sender, TypeOK, Phase
  <2>3. CASE ForkFails(p)
    BY <2>3 DEF ForkFails, sender, TypeOK, Phase
  <2>4. CASE PostforkParent(p) \/ PostforkChild(p)
    <3>1. queue' \in [Procs -> Seq(Payloads)]
      <4>1. <<>> \in Seq(Payloads)
        OBVIOUS
      <4> QED
        BY <2>4, <4>1 DEF PostforkParent, PostforkChild, TypeOK
    <3>2. thread' \in [Procs -> Thread] /\ phase' \in [Procs -> Phase]
      BY <2>4 DEF PostforkParent, PostforkChild, Resume, StartThread, TypeOK, Phase, Thread
    <3>3. working' \in [Procs -> BOOLEAN]
      BY <2>4 DEF PostforkParent, PostforkChild, Resume, TypeOK
    <3>4. \A q \in Procs : inflight'[q] # NoPayload <=> thread'[q] = "sending"
      BY <2>4 DEF PostforkParent, PostforkChild, Resume, StartThread, TypeOK
    <3> QED
      BY <2>4, <3>1, <3>2, <3>3, <3>4 DEF PostforkParent, PostforkChild, Resume, TypeOK
  <2>5. CASE DestroyStop(p)
    BY <2>5 DEF DestroyStop, sender, TypeOK, Phase
  <2> QED
    BY <1>4, <2>1, <2>2, <2>3, <2>4, <2>5 DEF OwnerNext
<1> QED
  BY <1>1, <1>2, <1>3, <1>4 DEF Next

\* A step writes the outcome of at most one payload, and never makes it new.
OutcomeWritten ==
  \/ UNCHANGED outcome
  \/ \E x \in Payloads, o \in Outcome \ {"new"} : outcome' = [outcome EXCEPT ![x] = o]

\* A step ends or accepts at most one payload, and makes none new again.
LEMMA OutcomeShape ==
  ASSUME TypeOK, [Next]_vars
  PROVE  OutcomeWritten
<1>1. CASE UNCHANGED vars
  BY <1>1 DEF vars, OutcomeWritten
<1>2. ASSUME NEW q \in Procs, SenderNext(q) PROVE OutcomeWritten
  <2>1. ASSUME thread[q] = "sending", NEW o \in Final, Finish(q, o) PROVE OutcomeWritten
    BY <2>1 DEF Finish, TypeOK, OutcomeWritten, Outcome, Final
  <2> QED
    BY <1>2, <2>1 DEF SenderNext, SenderStart, SenderWake, SendNoEndpoint,
         SendDelivered, SendRefused, SendBroken, SendRetry, Connected, Final, OutcomeWritten
<1>3. ASSUME NEW q \in Procs, CallerNext(q) PROVE OutcomeWritten
  BY <1>3 DEF CallerNext, InitializeConnection, EnqueueAccept, EnqueueDrop, Prefork,
       Destroy, Outcome, OutcomeWritten
<1>4. ASSUME NEW q \in Procs, OwnerNext(q) PROVE OutcomeWritten
  BY <1>4 DEF OwnerNext, PreforkJoined, DestroyJoined, Joined, Fork, ForkFails,
       PostforkParent, PostforkChild, Resume, DestroyStop, OutcomeWritten
<1> QED
  BY <1>1, <1>2, <1>3, <1>4 DEF Next

\* Types and the exact count of each queue's bytes survive every step.
LEMMA AccountingStep == AccountingInv /\ [Next]_vars => AccountingInv'
<1> SUFFICES ASSUME AccountingInv, [Next]_vars PROVE AccountingInv'
  OBVIOUS
<1>0. TypeOK /\ \A q \in Procs : queue[q] \in Seq(Payloads) /\ usage[q] \in Nat
  BY DEF AccountingInv, TypeOK
<1>1. ASSUME NEW p \in Procs, TakeNext(p) PROVE AccountingInv'
  <2>1. queue[p] \in Seq(Payloads) /\ queue[p] # <<>> /\ Size[Head(queue[p])] \in Nat
    BY <1>0, <1>1, TransportAssumption DEF TakeNext
  <2>2. PICK f : /\ PrefixSums(f, queue[p]) /\ f[Len(queue[p])] <= usage[p]
                 /\ p = Root => usage[p] = f[Len(queue[p])]
    BY DEF AccountingInv, Counted
  <2>3. /\ Size[Head(queue[p])] <= f[Len(queue[p])]
        /\ \E g : /\ PrefixSums(g, Tail(queue[p]))
                  /\ g[Len(Tail(queue[p]))] = f[Len(queue[p])] - Size[Head(queue[p])]
    BY <2>1, <2>2, PrefixSumsTail
  <2>4. f[Len(queue[p])] \in Nat
    BY <2>1, <2>2 DEF PrefixSums
  <2>5. /\ queue'[p] = Tail(queue[p])
        /\ usage'[p] = usage[p] - Size[Head(queue[p])]
        /\ usage'[p] \in Nat
    BY <1>0, <1>1, <2>1, <2>2, <2>3, <2>4 DEF TakeNext, TypeOK
  <2>6. Counted(p)'
    BY <1>0, <2>1, <2>2, <2>3, <2>4, <2>5 DEF Counted
  <2>7. \A q \in Procs \ {p} : queue'[q] = queue[q] /\ usage'[q] = usage[q]
    BY <1>0, <1>1 DEF TakeNext, TypeOK
  <2>8. \A q \in Procs : Counted(q)'
    BY <2>6, <2>7 DEF AccountingInv, Counted
  <2>9. \A q \in Procs : usage'[q] \in Nat /\ usage'[q] <= MaxSendQueueSize
    BY <1>0, <2>1, <2>5, <2>7, TransportAssumption DEF AccountingInv
  <2>10. usage' \in [Procs -> Nat]
    BY <1>1, <2>9, <1>0 DEF TakeNext, TypeOK
  <2>11. TypeOK'
    <3>1. outcome' \in [Payloads -> Outcome]
      BY <1>0, OutcomeShape DEF OutcomeWritten, TypeOK
    <3> QED
      BY <1>0, <1>1, <2>10, <3>1, TakeNextType
  <2>12. phase'[Root] = phase[Root]
    BY <1>1 DEF TakeNext, owner
  <2> QED
    BY <2>8, <2>9, <2>11, <2>12 DEF AccountingInv
<1> SUFFICES ASSUME \A p \in Procs : ~TakeNext(p) PROVE AccountingInv'
  BY <1>1
<1>2. TypeOK'
  BY <1>0, StepType
<1>3. CASE Quiet
  <2>1. phase'[Root] \notin {"absent", "forkedChild"}
    BY <1>3, TransportAssumption DEF Quiet, AccountingInv
  <2> QED
    BY <1>2, <1>3, <2>1 DEF AccountingInv, Quiet, holdings, Counted
<1>4. ASSUME NEW p \in Procs, NEW x \in Payloads, EnqueueAccept(p, x) PROVE AccountingInv'
  <2>1. PICK f : /\ PrefixSums(f, queue[p]) /\ f[Len(queue[p])] <= usage[p]
                 /\ p = Root => usage[p] = f[Len(queue[p])]
    BY DEF AccountingInv, Counted
  <2>2. \E g : /\ PrefixSums(g, Append(queue[p], x))
               /\ g[Len(Append(queue[p], x))] = f[Len(queue[p])] + Size[x]
    BY <1>0, <2>1, PrefixSumsAppend
  <2>3. f[Len(queue[p])] \in Nat /\ Size[x] \in Nat
    BY <1>0, <2>1, TransportAssumption DEF PrefixSums
  <2>4. /\ queue'[p] = Append(queue[p], x)
        /\ usage'[p] = usage[p] + Size[x]
        /\ usage'[p] <= MaxSendQueueSize
    BY <1>0, <1>4 DEF EnqueueAccept, TypeOK
  <2>5. Counted(p)'
    BY <1>0, <2>1, <2>2, <2>3, <2>4 DEF Counted
  <2>6. \A q \in Procs \ {p} : queue'[q] = queue[q] /\ usage'[q] = usage[q]
    BY <1>0, <1>4 DEF EnqueueAccept, TypeOK
  <2>7. \A q \in Procs : Counted(q)' /\ usage'[q] <= MaxSendQueueSize
    BY <2>4, <2>5, <2>6 DEF AccountingInv, Counted
  <2>8. phase'[Root] = phase[Root]
    BY <1>4 DEF EnqueueAccept, owner
  <2> QED
    BY <1>2, <2>7, <2>8 DEF AccountingInv
<1>5. ASSUME NEW p \in Procs, NEW c \in Procs, Fork(p, c) PROVE AccountingInv'
  <2>1. c # Root /\ phase'[Root] \notin {"absent", "forkedChild"}
    BY <1>0, <1>5, TransportAssumption DEF AccountingInv, Fork, TypeOK
  <2>2. /\ queue'[c] = queue[p] /\ usage'[c] = usage[p]
        /\ \A q \in Procs \ {c} : queue'[q] = queue[q] /\ usage'[q] = usage[q]
    BY <1>0, <1>5 DEF Fork, TypeOK
  <2>3. \A q \in Procs : Counted(q)' /\ usage'[q] <= MaxSendQueueSize
    BY <1>0, <2>1, <2>2 DEF AccountingInv, Counted
  <2> QED
    BY <1>2, <2>1, <2>3 DEF AccountingInv
<1>6. ASSUME NEW p \in Procs, PostforkChild(p) PROVE AccountingInv'
  <2> DEFINE f == [i \in 0 .. 0 |-> 0]
  <2>1. p # Root /\ phase'[Root] = phase[Root]
    BY <1>0, <1>6, TransportAssumption DEF AccountingInv, PostforkChild, Resume, TypeOK
  <2>2. /\ queue'[p] = <<>> /\ UNCHANGED usage
        /\ \A q \in Procs \ {p} : queue'[q] = queue[q]
    BY <1>0, <1>6 DEF PostforkChild, Resume, TypeOK
  <2>3. PrefixSums(f, <<>>) /\ f[Len(<<>>)] = 0
    BY DEF PrefixSums
  <2>4. Counted(p)'
    BY <1>0, <2>1, <2>2, <2>3 DEF Counted
  <2>5. \A q \in Procs : Counted(q)' /\ usage'[q] <= MaxSendQueueSize
    BY <2>2, <2>4 DEF AccountingInv, Counted
  <2> QED
    BY <1>2, <2>1, <2>5 DEF AccountingInv
<1> QED
  BY <1>0, <1>3, <1>4, <1>5, <1>6, StepShape

\* In every reachable state the variables of the transport have their types;
\* for the byte counter this says that no subtraction of send goes below zero.
THEOREM TypeCorrect == Spec => []TypeOK
<1>1. AccountingInv => TypeOK
  BY DEF AccountingInv
<1> QED
  BY <1>1, AccountingInit, AccountingStep, PTL DEF Spec

\* In every process, whatever is forked and whatever fails, the counter is at
\* least the bytes of the queue and at most the limit, and exact in the process
\* that constructed the transport.
THEOREM CounterCoversQueue == Spec => []UsageAccounting
<1>1. AccountingInv => UsageAccounting
  <2> SUFFICES ASSUME AccountingInv PROVE UsageAccounting
    OBVIOUS
  <2>1. ASSUME NEW p \in Procs
        PROVE  /\ QueuedBytes(p) <= usage[p] /\ usage[p] <= MaxSendQueueSize
               /\ p = Root => usage[p] = QueuedBytes(p)
    <3>1. queue[p] \in Seq(Payloads)
      BY DEF AccountingInv, TypeOK
    <3>2. PICK f : /\ PrefixSums(f, queue[p]) /\ f[Len(queue[p])] <= usage[p]
                   /\ p = Root => usage[p] = f[Len(queue[p])]
      BY DEF AccountingInv, Counted
    <3>3. QueuedBytes(p) = f[Len(queue[p])]
      BY <3>1, <3>2, PrefixSumsQueued
    <3> QED
      BY <3>2, <3>3 DEF AccountingInv
  <2>2. Root \in Procs
    BY TransportAssumption
  <2> QED
    BY <2>1, <2>2 DEF UsageAccounting
<1> QED
  BY <1>1, AccountingInit, AccountingStep, PTL DEF Spec

\* The payload at the head of a queue never exceeds the byte counter, so the
\* unsigned subtraction in send cannot wrap, in any process after any forks.
THEOREM CounterCannotWrap == Spec => []NoUnderflow
<1>1. AccountingInv => NoUnderflow
  <2> SUFFICES ASSUME AccountingInv, NEW p \in Procs, queue[p] # <<>>
               PROVE  Size[Head(queue[p])] <= usage[p]
    BY DEF NoUnderflow
  <2>1. queue[p] \in Seq(Payloads) /\ usage[p] \in Nat
    BY DEF AccountingInv, TypeOK
  <2>2. PICK f : PrefixSums(f, queue[p]) /\ f[Len(queue[p])] <= usage[p]
    BY DEF AccountingInv, Counted
  <2>3. Size[Head(queue[p])] <= f[Len(queue[p])] /\ f[Len(queue[p])] \in Nat
    BY <2>1, <2>2, PrefixSumsTail DEF PrefixSums
  <2>4. Size[Head(queue[p])] \in Nat
    BY <2>1, TransportAssumption
  <2> QED
    BY <2>1, <2>2, <2>3, <2>4
<1> QED
  BY <1>1, AccountingInit, AccountingStep, PTL DEF Spec

-----------------------------------------------------------------------------
(* No loss, no reordering, one sender per payload.                         *)

\* Every process's accepted payloads are its popped ones, then its queue; a
\* process not yet forked, or forked and not yet resumed, has popped none.
FifoInv ==
  /\ FifoNoLoss
  /\ \A p \in Procs : phase[p] \in {"absent", "forkedChild"}
                        => accepted[p] = <<>> /\ taken[p] = <<>>

\* Moving the head of the second sequence to the end of the first changes
\* nothing in their concatenation.
LEMMA MoveHead ==
  ASSUME NEW S, NEW s \in Seq(S), NEW t \in Seq(S), t # <<>>
  PROVE  Append(s, Head(t)) \o Tail(t) = s \o t
<1> DEFINE l == Append(s, Head(t)) \o Tail(t)
           r == s \o t
<1>1. Head(t) \in S /\ Tail(t) \in Seq(S) /\ Len(Tail(t)) = Len(t) - 1
  OBVIOUS
<1>2. l \in Seq(S) /\ r \in Seq(S) /\ Len(l) = Len(r) /\ Len(r) = Len(s) + Len(t)
  BY <1>1
<1>3. ASSUME NEW i \in 1 .. Len(r) PROVE l[i] = r[i]
  <2>1. CASE i <= Len(s)
    BY <2>1, <1>1
  <2>2. CASE i = Len(s) + 1
    BY <2>2, <1>1
  <2>3. CASE i > Len(s) + 1
    <3>1. r[i] = t[i - Len(s)]
      BY <2>3, <1>2
    <3>2. l[i] = Tail(t)[i - (Len(s) + 1)]
      BY <2>3, <1>1, <1>2
    <3>3. i - (Len(s) + 1) \in 1 .. Len(Tail(t))
      BY <2>3, <1>1, <1>2
    <3> QED
      BY <3>1, <3>2, <3>3, <1>1
  <2> QED
    BY <2>1, <2>2, <2>3, <1>2
<1> QED
  BY <1>2, <1>3

\* Appending to the second sequence appends to the concatenation.
LEMMA AppendRight ==
  ASSUME NEW S, NEW s \in Seq(S), NEW t \in Seq(S), NEW x \in S
  PROVE  s \o Append(t, x) = Append(s \o t, x)
  OBVIOUS

\* A process that is not there yet, or whose postfork has not run, has no sender.
NoThreadYet ==
  \A p \in Procs : phase[p] \in {"absent", "forkedChild"} => thread[p] = "none"

\* A process has no sender before its postfork has run.
LEMMA NoThreadYetStep == TypeOK /\ NoThreadYet /\ [Next]_vars => NoThreadYet'
<1> SUFFICES ASSUME TypeOK, NoThreadYet, [Next]_vars PROVE NoThreadYet'
  OBVIOUS
<1>1. CASE UNCHANGED vars
  BY <1>1 DEF vars, NoThreadYet
<1>2. ASSUME NEW p \in Procs, SenderNext(p) PROVE NoThreadYet'
  <2>1. UNCHANGED phase
    BY <1>2 DEF SenderNext, SenderStart, SenderWake, SendNoEndpoint, SendDelivered,
         SendRefused, SendBroken, SendRetry, Finish, Idle, FlushInterrupted, Leave,
         TakeNext, owner
  <2>2. thread[p] # "none"
    BY <1>2 DEF SenderNext, SenderStart, SenderWake, SendNoEndpoint, SendDelivered,
         SendRefused, SendBroken, SendRetry, Connected
  <2>3. \A q \in Procs \ {p} : thread'[q] = thread[q]
    BY <1>2 DEF SenderNext, SenderStart, SenderWake, SendNoEndpoint, SendDelivered,
         SendRefused, SendBroken, SendRetry, Finish, Idle, FlushInterrupted, Leave,
         TakeNext, TypeOK
  <2> QED
    BY <2>1, <2>2, <2>3 DEF NoThreadYet
<1>3. ASSUME NEW p \in Procs, CallerNext(p) PROVE NoThreadYet'
  BY <1>3 DEF CallerNext, InitializeConnection, StartThread, EnqueueAccept, EnqueueDrop,
       Prefork, Destroy, owner, sender, TypeOK, NoThreadYet
<1>4. ASSUME NEW p \in Procs, OwnerNext(p) PROVE NoThreadYet'
  BY <1>4 DEF OwnerNext, PreforkJoined, DestroyJoined, Joined, Fork, ForkFails,
       PostforkParent, PostforkChild, Resume, StartThread, DestroyStop, sender,
       TypeOK, NoThreadYet
<1> QED
  BY <1>1, <1>2, <1>3, <1>4 DEF Next

\* Taken followed by queued stays what was accepted; a forked child is the
\* one exception, until its postfork empties its copy.
LEMMA FifoStep == TypeOK /\ NoThreadYet /\ FifoInv /\ [Next]_vars => FifoInv'
<1> SUFFICES ASSUME TypeOK, NoThreadYet, FifoInv, [Next]_vars PROVE FifoInv'
  OBVIOUS
<1>1. ASSUME NEW p \in Procs, TakeNext(p), thread[p] # "none" PROVE FifoInv'
  <2>1. phase[p] \notin {"absent", "forkedChild"} /\ UNCHANGED <<phase, accepted>>
    BY <1>1 DEF NoThreadYet, TakeNext, owner
  <2>2. \A q \in Procs \ {p} : taken'[q] = taken[q] /\ queue'[q] = queue[q]
    BY <1>1 DEF TakeNext, TypeOK
  <2>3. taken'[p] = Append(taken[p], Head(queue[p])) /\ queue'[p] = Tail(queue[p])
    BY <1>1 DEF TakeNext, TypeOK
  <2>4. taken'[p] \o queue'[p] = taken[p] \o queue[p]
    BY <1>1, <2>3, MoveHead, SMTT(30) DEF TakeNext, TypeOK
  <2> QED
    BY <2>1, <2>2, <2>4 DEF FifoInv, FifoNoLoss
<1>2. ASSUME NEW p \in Procs, NEW x \in Payloads, EnqueueAccept(p, x) PROVE FifoInv'
  <2>1. phase[p] \notin {"absent", "forkedChild"} /\ UNCHANGED <<phase, taken>>
    BY <1>2 DEF EnqueueAccept, MayEnqueue, owner
  <2>2. \A q \in Procs \ {p} : accepted'[q] = accepted[q] /\ queue'[q] = queue[q]
    BY <1>2 DEF EnqueueAccept, TypeOK
  <2>3. accepted'[p] = Append(accepted[p], x) /\ queue'[p] = Append(queue[p], x)
    BY <1>2 DEF EnqueueAccept, TypeOK
  <2>4. accepted'[p] = taken[p] \o queue'[p]
    <3>1. accepted[p] = taken[p] \o queue[p]
      BY <2>1 DEF FifoInv, FifoNoLoss
    <3>2. taken[p] \o Append(queue[p], x) = Append(taken[p] \o queue[p], x)
      BY AppendRight DEF TypeOK
    <3> QED
      BY <2>3, <3>1, <3>2
  <2> QED
    BY <2>1, <2>2, <2>4 DEF FifoInv, FifoNoLoss
<1>3. ASSUME NEW p \in Procs, NEW c \in Procs, Fork(p, c) PROVE FifoInv'
  BY <1>3 DEF Fork, FifoInv, FifoNoLoss, TypeOK
<1>4. ASSUME NEW p \in Procs, PostforkChild(p) PROVE FifoInv'
  <2>1. /\ phase[p] = "forkedChild" /\ UNCHANGED <<accepted, taken>>
        /\ queue'[p] = <<>> /\ phase'[p] = "running"
        /\ \A q \in Procs \ {p} : queue'[q] = queue[q] /\ phase'[q] = phase[q]
    BY <1>4 DEF PostforkChild, Resume, TypeOK
  <2>2. accepted[p] = <<>> /\ taken[p] = <<>>
    BY <2>1 DEF FifoInv
  <2>3. accepted'[p] = taken'[p] \o queue'[p]
    BY <2>1, <2>2
  <2> QED
    BY <2>1, <2>3 DEF FifoInv, FifoNoLoss
<1>5. CASE Quiet
  BY <1>5 DEF Quiet, holdings, FifoInv, FifoNoLoss
<1> QED
  BY <1>1, <1>2, <1>3, <1>4, <1>5, StepShape

\* No payload a process accepted is lost, repeated or reordered on its way to
\* the sender, whatever forks, stops and failures happen in between.
THEOREM NothingLost == Spec => []FifoNoLoss
<1>1. Init => NoThreadYet /\ FifoInv
  BY DEF Init, NoThreadYet, FifoInv, FifoNoLoss
<1>2. FifoInv => FifoNoLoss
  BY DEF FifoInv
<1> QED
  BY <1>1, <1>2, TypeCorrect, NoThreadYetStep, FifoStep, PTL DEF Spec

\* No element occurs twice.
Distinct(s) == \A i, j \in DOMAIN s : s[i] = s[j] => i = j

\* The payloads a process can still send: a forked child that has not resumed
\* will throw its copy of the queue away.
Sendable(p) == IF phase[p] = "forkedChild" THEN {} ELSE ToSet(queue[p])

\* Every payload has at most one place: one queue, or one sender's past.
OnePlaceInv ==
  /\ \A p \in Procs : Distinct(queue[p])
  /\ \A p \in Procs, x \in Payloads :
       outcome[x] = "new" => x \notin ToSet(queue[p]) /\ x \notin ToSet(taken[p])
  /\ \A p, q \in Procs : p # q => Sendable(p) \cap Sendable(q) = {}
  /\ \A p, q \in Procs : ToSet(taken[p]) \cap Sendable(q) = {}
  /\ SentByOneProcess

\* The elements of a sequence after an append.
LEMMA AppendElements ==
  ASSUME NEW S, NEW s \in Seq(S), NEW x \in S
  PROVE  /\ ToSet(Append(s, x)) = ToSet(s) \cup {x}
         /\ Distinct(s) /\ x \notin ToSet(s) => Distinct(Append(s, x))
<1> DEFINE t == Append(s, x)
           n == Len(s)
<1>1. /\ n \in Nat /\ DOMAIN s = 1 .. n /\ DOMAIN t = 1 .. n + 1
      /\ t[n + 1] = x /\ \A i \in 1 .. n : t[i] = s[i]
  OBVIOUS
<1>2. ToSet(t) = ToSet(s) \cup {x}
  BY <1>1 DEF ToSet
<1>3. ASSUME Distinct(s), x \notin ToSet(s), NEW i \in 1 .. n + 1, NEW j \in 1 .. n + 1,
             t[i] = t[j]
      PROVE  i = j
  BY <1>1, <1>3 DEF ToSet, Distinct
<1> QED
  BY <1>1, <1>2, <1>3 DEF Distinct

\* Popping the head of a sequence without repetition removes one element.
LEMMA TailElements ==
  ASSUME NEW S, NEW s \in Seq(S), s # <<>>
  PROVE  /\ ToSet(Tail(s)) \subseteq ToSet(s) /\ Head(s) \in ToSet(s)
         /\ Distinct(s) => Distinct(Tail(s)) /\ Head(s) \notin ToSet(Tail(s))
<1> DEFINE t == Tail(s)
           n == Len(s)
<1>1. /\ n \in Nat \ {0} /\ DOMAIN s = 1 .. n /\ DOMAIN t = 1 .. n - 1
      /\ Head(s) = s[1] /\ \A i \in 1 .. n - 1 : t[i] = s[i + 1]
  OBVIOUS
<1>2. \A i \in 1 .. n - 1 : i + 1 \in 1 .. n /\ i + 1 # 1
  BY <1>1
<1>3. ToSet(t) \subseteq ToSet(s) /\ Head(s) \in ToSet(s)
  BY <1>1, <1>2 DEF ToSet
<1>4. ASSUME Distinct(s) PROVE Distinct(t)
  BY <1>1, <1>2, <1>4 DEF Distinct
<1>5. ASSUME Distinct(s) PROVE Head(s) \notin ToSet(t)
  <2>1. \A i \in 1 .. n - 1 : s[i + 1] # s[1]
    BY <1>1, <1>2, <1>5 DEF Distinct
  <2> QED
    BY <1>1, <2>1 DEF ToSet
<1> QED
  BY <1>3, <1>4, <1>5

\* Each payload stays in one place: popped by one process, or queued in one
\* process that will send it.
LEMMA OnePlaceStep == TypeOK /\ NoThreadYet /\ OnePlaceInv /\ [Next]_vars => OnePlaceInv'
<1> SUFFICES ASSUME TypeOK, NoThreadYet, OnePlaceInv, [Next]_vars PROVE OnePlaceInv'
  OBVIOUS
<1>0. \A x \in Payloads : outcome'[x] = "new" => outcome[x] = "new"
  BY OutcomeShape DEF OutcomeWritten, TypeOK
<1>1. ASSUME NEW p \in Procs, TakeNext(p), thread[p] # "none" PROVE OnePlaceInv'
  <2> DEFINE x == Head(queue[p])
  <2>1. phase[p] # "forkedChild" /\ UNCHANGED phase
    BY <1>1 DEF NoThreadYet, TakeNext, owner
  <2>2. \A q \in Procs \ {p} : taken'[q] = taken[q] /\ queue'[q] = queue[q]
    BY <1>1 DEF TakeNext, TypeOK
  <2>3. /\ queue[p] \in Seq(Payloads) /\ queue[p] # <<>> /\ x \in Payloads
        /\ taken[p] \in Seq(Payloads)
        /\ taken'[p] = Append(taken[p], x) /\ queue'[p] = Tail(queue[p])
    BY <1>1 DEF TakeNext, TypeOK
  <2>4. /\ ToSet(taken'[p]) = ToSet(taken[p]) \cup {x}
        /\ ToSet(queue'[p]) \subseteq ToSet(queue[p]) /\ x \in ToSet(queue[p])
        /\ Distinct(queue'[p]) /\ x \notin ToSet(queue'[p])
    BY <2>3, AppendElements, TailElements DEF OnePlaceInv
  <2>5. x \in Sendable(p) /\ \A q \in Procs \ {p} : x \notin Sendable(q) /\ x \notin ToSet(taken[q])
    BY <2>1, <2>4 DEF OnePlaceInv, Sendable
  <2>6. /\ Sendable(p)' \subseteq Sendable(p) \ {x}
        /\ \A q \in Procs \ {p} : Sendable(q)' = Sendable(q)
    BY <2>1, <2>2, <2>4 DEF Sendable
  <2>7. \A q \in Procs : Distinct(queue'[q])
    BY <2>2, <2>4 DEF OnePlaceInv
  <2>8. ASSUME NEW q \in Procs, NEW y \in Payloads, outcome'[y] = "new"
        PROVE  y \notin ToSet(queue'[q]) /\ y \notin ToSet(taken'[q])
    BY <1>0, <2>2, <2>4, <2>8 DEF OnePlaceInv
  <2>9. \A q, r \in Procs : q # r => Sendable(q)' \cap Sendable(r)' = {}
    BY <2>6 DEF OnePlaceInv
  <2>10. \A q, r \in Procs : ToSet(taken'[q]) \cap Sendable(r)' = {}
    BY <2>2, <2>4, <2>5, <2>6 DEF OnePlaceInv
  <2>11. \A q, r \in Procs : q # r => ToSet(taken'[q]) \cap ToSet(taken'[r]) = {}
    BY <2>2, <2>4, <2>5 DEF OnePlaceInv, SentByOneProcess
  <2> QED
    BY <2>7, <2>8, <2>9, <2>10, <2>11 DEF OnePlaceInv, SentByOneProcess
<1>2. ASSUME NEW p \in Procs, NEW x \in Payloads, EnqueueAccept(p, x) PROVE OnePlaceInv'
  <2>1. phase[p] # "forkedChild" /\ UNCHANGED <<phase, taken>>
    BY <1>2 DEF EnqueueAccept, MayEnqueue, owner
  <2>2. \A q \in Procs \ {p} : queue'[q] = queue[q]
    BY <1>2 DEF EnqueueAccept, TypeOK
  <2>3. queue[p] \in Seq(Payloads) /\ queue'[p] = Append(queue[p], x)
    BY <1>2 DEF EnqueueAccept, TypeOK
  <2>4. outcome[x] = "new" /\ outcome'[x] # "new"
    BY <1>2 DEF EnqueueAccept, TypeOK
  <2>5. \A q \in Procs : x \notin ToSet(queue[q]) /\ x \notin ToSet(taken[q])
    BY <2>4 DEF OnePlaceInv
  <2>6. ToSet(queue'[p]) = ToSet(queue[p]) \cup {x} /\ Distinct(queue'[p])
    BY <2>3, <2>5, AppendElements DEF OnePlaceInv
  <2>7. /\ Sendable(p)' = Sendable(p) \cup {x}
        /\ \A q \in Procs \ {p} : Sendable(q)' = Sendable(q) /\ x \notin Sendable(q)
    BY <2>1, <2>2, <2>5, <2>6 DEF Sendable
  <2>8. \A q \in Procs : Distinct(queue'[q])
    BY <2>2, <2>6 DEF OnePlaceInv
  <2>9. ASSUME NEW q \in Procs, NEW y \in Payloads, outcome'[y] = "new"
        PROVE  y \notin ToSet(queue'[q]) /\ y \notin ToSet(taken'[q])
    BY <1>0, <2>1, <2>2, <2>4, <2>6, <2>9 DEF OnePlaceInv
  <2>10. \A q, r \in Procs : q # r => Sendable(q)' \cap Sendable(r)' = {}
    BY <2>7 DEF OnePlaceInv
  <2>11. \A q, r \in Procs : ToSet(taken'[q]) \cap Sendable(r)' = {}
    BY <2>1, <2>5, <2>7 DEF OnePlaceInv
  <2> QED
    BY <2>1, <2>8, <2>9, <2>10, <2>11 DEF OnePlaceInv, SentByOneProcess
<1>3. ASSUME NEW p \in Procs, NEW c \in Procs, Fork(p, c) PROVE OnePlaceInv'
  <2>1. /\ queue'[c] = queue[p] /\ \A q \in Procs \ {c} : queue'[q] = queue[q]
        /\ UNCHANGED taken
        /\ phase'[c] = "forkedChild" /\ phase[p] # "forkedChild" /\ phase'[p] # "forkedChild"
        /\ \A q \in Procs \ {p, c} : phase'[q] = phase[q]
    BY <1>3 DEF Fork, TypeOK
  <2>2. Sendable(c)' = {} /\ \A q \in Procs \ {c} : Sendable(q)' = Sendable(q)
    BY <2>1 DEF Sendable
  <2>3. \A q \in Procs, y \in Payloads :
          outcome'[y] = "new" => y \notin ToSet(queue'[q]) /\ y \notin ToSet(taken'[q])
    BY <1>0, <2>1 DEF OnePlaceInv
  <2>4. \A q \in Procs : Distinct(queue'[q])
    BY <2>1 DEF OnePlaceInv
  <2> QED
    BY <2>1, <2>2, <2>3, <2>4 DEF OnePlaceInv, SentByOneProcess
<1>4. ASSUME NEW p \in Procs, PostforkChild(p) PROVE OnePlaceInv'
  <2>1. /\ queue'[p] = <<>> /\ UNCHANGED taken
        /\ \A q \in Procs \ {p} : queue'[q] = queue[q] /\ phase'[q] = phase[q]
    BY <1>4 DEF PostforkChild, Resume, TypeOK
  <2>2. ToSet(<<>>) = {} /\ Distinct(<<>>)
    BY DEF ToSet, Distinct
  <2>3. Sendable(p)' = {} /\ \A q \in Procs \ {p} : Sendable(q)' = Sendable(q)
    BY <2>1, <2>2 DEF Sendable
  <2>4. \A q \in Procs, y \in Payloads :
          outcome'[y] = "new" => y \notin ToSet(queue'[q]) /\ y \notin ToSet(taken'[q])
    BY <1>0, <2>1, <2>2 DEF OnePlaceInv
  <2>5. \A q \in Procs : Distinct(queue'[q])
    BY <2>1, <2>2 DEF OnePlaceInv
  <2> QED
    BY <2>1, <2>3, <2>4, <2>5 DEF OnePlaceInv, SentByOneProcess
<1>5. CASE Quiet
  <2>1. UNCHANGED <<queue, taken>> /\ \A q \in Procs : Sendable(q)' = Sendable(q)
    BY <1>5 DEF Quiet, holdings, Sendable
  <2> QED
    BY <1>0, <2>1 DEF OnePlaceInv, SentByOneProcess
<1> QED
  BY <1>1, <1>2, <1>3, <1>4, <1>5, StepShape

\* A payload queued when its process forks is sent by the parent or not at
\* all: no two processes ever post the same payload.
THEOREM NoDoubleSend == Spec => []SentByOneProcess
<1>1. Init => NoThreadYet /\ OnePlaceInv
  <2> SUFFICES ASSUME Init PROVE NoThreadYet /\ OnePlaceInv
    OBVIOUS
  <2>1. \A p \in Procs : queue[p] = <<>> /\ taken[p] = <<>> /\ thread[p] = "none"
    BY DEF Init
  <2>2. ToSet(<<>>) = {} /\ Distinct(<<>>)
    BY DEF ToSet, Distinct
  <2> QED
    BY <2>1, <2>2 DEF NoThreadYet, OnePlaceInv, Sendable, SentByOneProcess
<1>2. OnePlaceInv => SentByOneProcess
  BY DEF OnePlaceInv
<1> QED
  BY <1>1, <1>2, TypeCorrect, NoThreadYetStep, OnePlaceStep, PTL DEF Spec

-----------------------------------------------------------------------------
(* How payloads end.                                                       *)

\* A payload in a sender's hands has been popped by that sender and has not
\* ended; neither has one that some process can still send.
InHandInv ==
  /\ \A p \in Procs : thread[p] = "sending" =>
       inflight[p] \in ToSet(taken[p]) /\ outcome[inflight[p]] = "accepted"
  /\ \A p \in Procs : \A x \in Sendable(p) : outcome[x] = "accepted"

\* The sender of p ends the payload it holds, or no payload ends.
Settles(p) ==
  \/ UNCHANGED outcome
  \/ /\ thread[p] = "sending"
     /\ \E o \in Final : outcome' = [outcome EXCEPT ![inflight[p]] = o]

\* The sender of p lets go of its payload, or goes on with the same one.
LetsGo(p) ==
  /\ Settles(p)
  /\ Quiet
  /\ \/ inflight' = [inflight EXCEPT ![p] = NoPayload] /\ thread'[p] # "sending"
     \/ UNCHANGED <<inflight, outcome, thread>>
  /\ \A q \in Procs \ {p} : thread'[q] = thread[q]

\* What a step of the sender does to the payload in its hands.
LEMMA SenderHands ==
  ASSUME TypeOK, NEW p \in Procs, SenderNext(p)
  PROVE  Settles(p) /\ ((TakeNext(p) /\ thread[p] # "none") \/ LetsGo(p))
<1>1. ASSUME NEW t \in Thread \ {"sending"}, Leave(p, t), Settles(p) PROVE LetsGo(p)
  BY <1>1 DEF Leave, owner, Quiet, holdings, LetsGo, TypeOK
<1>2. ASSUME Idle(p), Settles(p) PROVE LetsGo(p)
  BY <1>1, <1>2 DEF Idle, Thread
<1>3. ASSUME NEW o \in Final, Finish(p, o), thread[p] = "sending"
      PROVE  Settles(p) /\ (TakeNext(p) \/ LetsGo(p))
  <2>1. Settles(p)
    BY <1>3 DEF Finish, Settles
  <2> QED
    BY <1>1, <1>2, <1>3, <2>1 DEF Finish, FlushInterrupted, Thread
<1>4. CASE SenderStart(p)
  <2>1. Settles(p)
    BY <1>4 DEF SenderStart, Settles
  <2> QED
    BY <1>1, <1>2, <1>4, <2>1 DEF SenderStart, Thread
<1>5. CASE SenderWake(p)
  <2>1. Settles(p)
    BY <1>5 DEF SenderWake, Settles
  <2> QED
    BY <1>1, <1>2, <1>5, <2>1 DEF SenderWake, Thread
<1>6. CASE SendNoEndpoint(p) \/ SendDelivered(p) \/ SendRefused(p) \/ SendBroken(p)
  BY <1>3, <1>6 DEF SendNoEndpoint, SendDelivered, SendRefused, SendBroken, Connected, Final
<1>7. CASE SendRetry(p)
  <2>1. CASE retry[p] + 1 < MaxRetries /\ UNCHANGED <<owner, queue, usage, thread, working,
                force, inflight, accepted, taken, outcome>>
    BY <2>1 DEF LetsGo, Settles, Quiet, holdings, owner
  <2>2. CASE Finish(p, "lost")
    BY <1>3, <1>7, <2>2 DEF SendRetry, Connected, Final
  <2> QED
    BY <1>7, <2>1, <2>2 DEF SendRetry
<1> QED
  BY <1>4, <1>5, <1>6, <1>7 DEF SenderNext

\* A step that no sender takes leaves the payloads in hand where they are.
LEMMA OthersHands ==
  ASSUME TypeOK, NEW p \in Procs, OwnerNext(p) \/ CallerNext(p)
  PROVE  /\ UNCHANGED inflight
         /\ \A q \in Procs : thread'[q] = "sending" => thread[q] = "sending"
<1>1. ASSUME NEW e, InitializeConnection(p, e)
      PROVE  UNCHANGED inflight /\ \A q \in Procs : thread'[q] = "sending" => thread[q] = "sending"
  BY <1>1 DEF InitializeConnection, StartThread, TypeOK
<1>2. ASSUME NEW x, EnqueueAccept(p, x) \/ EnqueueDrop(p, x)
      PROVE  UNCHANGED <<inflight, thread>>
  BY <1>2 DEF EnqueueAccept, EnqueueDrop, sender
<1>3. CASE Prefork(p) \/ Destroy(p) \/ ForkFails(p) \/ DestroyStop(p) \/ \E c \in Procs : Fork(p, c)
  BY <1>3 DEF Prefork, Destroy, ForkFails, DestroyStop, Fork, sender
<1>4. CASE PreforkJoined(p) \/ DestroyJoined(p)
  BY <1>4 DEF PreforkJoined, DestroyJoined, Joined, TypeOK
<1>5. CASE PostforkParent(p) \/ PostforkChild(p)
  BY <1>5 DEF PostforkParent, PostforkChild, Resume, StartThread, TypeOK
<1> QED
  BY <1>1, <1>2, <1>3, <1>4, <1>5 DEF OwnerNext, CallerNext

\* Only a sender and enqueue write how a payload ended.
LEMMA OthersOutcome ==
  ASSUME NEW p \in Procs, OwnerNext(p) \/ CallerNext(p)
  PROVE  \/ UNCHANGED outcome
         \/ \E x \in Payloads : EnqueueAccept(p, x) \/ EnqueueDrop(p, x)
<1>1. CASE OwnerNext(p)
  BY <1>1 DEF OwnerNext, PreforkJoined, DestroyJoined, Joined, Fork, ForkFails, PostforkParent,
              PostforkChild, Resume, DestroyStop
<1>2. CASE CallerNext(p)
  BY <1>2 DEF CallerNext, InitializeConnection, Prefork, Destroy
<1> QED
  BY <1>1, <1>2

\* Forks and resumed children never give a process more payloads to send.
LEMMA SendableShrinks ==
  ASSUME TypeOK, NEW p \in Procs,
         (\E c \in Procs : Fork(p, c)) \/ PostforkChild(p) \/ Quiet
  PROVE  UNCHANGED taken /\ \A q \in Procs : Sendable(q)' \subseteq Sendable(q)
<1>1. ASSUME NEW c \in Procs, Fork(p, c)
      PROVE  UNCHANGED taken /\ \A q \in Procs : Sendable(q)' \subseteq Sendable(q)
  <2>1. /\ \A q \in Procs \ {c} : queue'[q] = queue[q]
        /\ phase'[c] = "forkedChild" /\ phase[p] # "forkedChild"
        /\ \A q \in Procs \ {p, c} : phase'[q] = phase[q]
        /\ UNCHANGED taken
    BY <1>1 DEF Fork, TypeOK
  <2> QED
    BY <2>1 DEF Sendable
<1>2. CASE PostforkChild(p)
  <2>1. /\ queue'[p] = <<>> /\ UNCHANGED taken
        /\ \A q \in Procs \ {p} : queue'[q] = queue[q] /\ phase'[q] = phase[q]
    BY <1>2 DEF PostforkChild, Resume, TypeOK
  <2>2. ToSet(<<>>) = {}
    BY DEF ToSet
  <2> QED
    BY <2>1, <2>2 DEF Sendable
<1>3. CASE Quiet
  BY <1>3 DEF Quiet, holdings, Sendable
<1> QED
  BY <1>1, <1>2, <1>3

\* No payload that has ended changes again.
EndedStays == \A x \in Payloads : outcome[x] \in Final => outcome'[x] = outcome[x]

\* The sender's step: it can only end the payload in its own hands.
LEMMA SenderEnds ==
  ASSUME TypeOK, OnePlaceInv, NoThreadYet, InHandInv, NEW p \in Procs, SenderNext(p)
  PROVE  InHandInv' /\ EndedStays
<1>1. Settles(p)
  BY SenderHands
<1>2. EndedStays
  BY <1>1 DEF EndedStays, Settles, InHandInv, Final, TypeOK
<1>3. ASSUME NEW y \in Payloads, outcome[y] = "accepted", thread[p] = "sending" => y # inflight[p]
      PROVE  outcome'[y] = "accepted"
  BY <1>1, <1>3 DEF Settles, TypeOK
<1>4. ASSUME NEW q \in Procs, NEW y \in Sendable(q)
      PROVE  y \in Payloads /\ outcome'[y] = "accepted"
  <2>1. y \in Payloads /\ outcome[y] = "accepted"
    BY <1>4 DEF Sendable, ToSet, TypeOK, InHandInv
  <2>2. thread[p] = "sending" => y # inflight[p]
    BY <1>4 DEF InHandInv, OnePlaceInv
  <2> QED
    BY <1>3, <2>1, <2>2
<1>5. ASSUME NEW q \in Procs \ {p}, thread[q] = "sending"
      PROVE  inflight[q] \in ToSet(taken[q]) /\ outcome'[inflight[q]] = "accepted"
  <2>1. /\ inflight[q] \in Payloads /\ inflight[q] \in ToSet(taken[q])
        /\ outcome[inflight[q]] = "accepted"
    BY <1>5, TransportAssumption DEF InHandInv, TypeOK
  <2>2. thread[p] = "sending" => inflight[q] # inflight[p]
    BY <1>5, <2>1 DEF InHandInv, OnePlaceInv, SentByOneProcess
  <2> QED
    BY <1>3, <2>1, <2>2
<1>6. CASE TakeNext(p) /\ thread[p] # "none"
  <2> DEFINE x == Head(queue[p])
  <2>1. phase[p] # "forkedChild" /\ UNCHANGED phase
    BY <1>6 DEF NoThreadYet, TakeNext, owner
  <2>2. \A q \in Procs \ {p} : /\ taken'[q] = taken[q] /\ queue'[q] = queue[q]
                               /\ inflight'[q] = inflight[q] /\ thread'[q] = thread[q]
    BY <1>6 DEF TakeNext, TypeOK
  <2>3. /\ queue[p] \in Seq(Payloads) /\ queue[p] # <<>> /\ x \in Payloads
        /\ taken[p] \in Seq(Payloads) /\ taken'[p] = Append(taken[p], x)
        /\ queue'[p] = Tail(queue[p]) /\ inflight'[p] = x
    BY <1>6 DEF TakeNext, TypeOK
  <2>4. x \in ToSet(taken'[p]) /\ ToSet(queue'[p]) \subseteq ToSet(queue[p]) /\ x \in ToSet(queue[p])
    BY <2>3, AppendElements, TailElements
  <2>5. x \in Sendable(p) /\ \A q \in Procs : Sendable(q)' \subseteq Sendable(q)
    BY <2>1, <2>2, <2>4 DEF Sendable
  <2>6. \A q \in Procs : \A y \in Sendable(q)' : outcome'[y] = "accepted"
    BY <1>4, <2>5
  <2>7. outcome'[x] = "accepted"
    BY <1>4, <2>5
  <2>8. \A q \in Procs : thread'[q] = "sending" =>
          inflight'[q] \in ToSet(taken'[q]) /\ outcome'[inflight'[q]] = "accepted"
    BY <1>5, <2>2, <2>3, <2>4, <2>7
  <2> QED
    BY <1>2, <2>6, <2>8 DEF InHandInv
<1>7. CASE LetsGo(p)
  <2>1. UNCHANGED taken /\ \A q \in Procs : Sendable(q)' \subseteq Sendable(q)
    BY <1>7, SendableShrinks DEF LetsGo
  <2>2. \A q \in Procs : \A y \in Sendable(q)' : outcome'[y] = "accepted"
    BY <1>4, <2>1
  <2>3. \A q \in Procs \ {p} : inflight'[q] = inflight[q] /\ thread'[q] = thread[q]
    BY <1>7 DEF LetsGo, TypeOK
  <2>4. thread'[p] = "sending" => UNCHANGED <<inflight, outcome, thread>>
    BY <1>7 DEF LetsGo
  <2>5. \A q \in Procs : thread'[q] = "sending" =>
          inflight'[q] \in ToSet(taken'[q]) /\ outcome'[inflight'[q]] = "accepted"
    BY <1>5, <2>1, <2>3, <2>4 DEF InHandInv
  <2> QED
    BY <1>2, <2>2, <2>5 DEF InHandInv
<1> QED
  BY <1>6, <1>7, SenderHands

\* Every step keeps the payloads in hand open and the ended ones ended.
LEMMA EndsStep ==
  TypeOK /\ OnePlaceInv /\ NoThreadYet /\ InHandInv /\ [Next]_vars => InHandInv' /\ EndedStays
<1> SUFFICES ASSUME TypeOK, OnePlaceInv, NoThreadYet, InHandInv, [Next]_vars
             PROVE  InHandInv' /\ EndedStays
  OBVIOUS
<1>1. CASE UNCHANGED vars
  BY <1>1 DEF vars, InHandInv, EndedStays, Sendable
<1>2. ASSUME NEW p \in Procs, SenderNext(p) PROVE InHandInv' /\ EndedStays
  BY <1>2, SenderEnds
<1>3. ASSUME NEW p \in Procs, OwnerNext(p) \/ CallerNext(p) PROVE InHandInv' /\ EndedStays
  <2>1. /\ UNCHANGED inflight
        /\ \A q \in Procs : thread'[q] = "sending" => thread[q] = "sending"
    BY <1>3, OthersHands
  <2>2. \A q \in Procs : thread[q] = "sending" => inflight[q] \in Payloads
    BY TransportAssumption DEF TypeOK
  <2>3. ASSUME NEW x \in Payloads, EnqueueAccept(p, x) PROVE InHandInv' /\ EndedStays
    <3>1. /\ outcome[x] = "new" /\ outcome' = [outcome EXCEPT ![x] = "accepted"]
          /\ UNCHANGED <<phase, taken>> /\ \A q \in Procs \ {p} : queue'[q] = queue[q]
          /\ queue[p] \in Seq(Payloads) /\ queue'[p] = Append(queue[p], x)
      BY <2>3 DEF EnqueueAccept, owner, TypeOK
    <3>2. ToSet(queue'[p]) = ToSet(queue[p]) \cup {x}
      BY <3>1, AppendElements
    <3>3. \A q \in Procs : Sendable(q)' \subseteq Sendable(q) \cup {x}
      BY <3>1, <3>2 DEF Sendable
    <3>4. \A y \in Payloads : y = x \/ outcome[y] = "accepted" => outcome'[y] = "accepted"
      BY <3>1 DEF TypeOK
    <3>5. \A q \in Procs : Sendable(q) \subseteq Payloads
      BY DEF Sendable, ToSet, TypeOK
    <3> QED
      BY <2>1, <2>2, <3>1, <3>3, <3>4, <3>5 DEF InHandInv, EndedStays, Final, TypeOK
  <2>4. ASSUME NEW x \in Payloads, EnqueueDrop(p, x) PROVE InHandInv' /\ EndedStays
    <3>1. /\ outcome[x] = "new" /\ outcome' = [outcome EXCEPT ![x] = "overLimit"]
          /\ UNCHANGED <<phase, queue, taken>>
      BY <2>4 DEF EnqueueDrop, owner
    <3>2. \A q \in Procs : Sendable(q)' = Sendable(q) /\ Sendable(q) \subseteq Payloads
      BY <3>1 DEF Sendable, ToSet, TypeOK
    <3>3. \A y \in Payloads : outcome[y] = "accepted" => outcome'[y] = "accepted"
      BY <3>1 DEF TypeOK
    <3> QED
      BY <2>1, <2>2, <3>1, <3>2, <3>3 DEF InHandInv, EndedStays, Final, TypeOK
  <2>5. CASE /\ UNCHANGED outcome
             /\ (\E q \in Procs : (\E c \in Procs : Fork(q, c)) \/ PostforkChild(q)) \/ Quiet
    <3>1. UNCHANGED taken /\ \A q \in Procs : Sendable(q)' \subseteq Sendable(q)
      BY <2>5, SendableShrinks
    <3> QED
      BY <2>1, <2>5, <3>1 DEF InHandInv, EndedStays
  <2>6. \/ UNCHANGED outcome
        \/ \E x \in Payloads : EnqueueAccept(p, x) \/ EnqueueDrop(p, x)
    BY <1>3, OthersOutcome
  <2>7. ~ \E q \in Procs, x \in Payloads : UNCHANGED outcome /\ EnqueueAccept(q, x)
    BY DEF EnqueueAccept, TypeOK
  <2>8. ASSUME NEW q \in Procs, TakeNext(q), thread[q] # "none", UNCHANGED inflight
        PROVE  FALSE
    <3> DEFINE x == Head(queue[q])
    <3>1. /\ queue[q] \in Seq(Payloads) /\ queue[q] # <<>> /\ x \in Payloads
          /\ inflight[q] = x /\ phase[q] # "forkedChild"
      BY <2>8 DEF TakeNext, TypeOK, NoThreadYet
    <3>2. x \in ToSet(queue[q])
      BY <3>1, TailElements
    <3>3. thread[q] = "sending"
      BY <3>1, TransportAssumption DEF TypeOK
    <3>4. x \in ToSet(taken[q])
      BY <3>1, <3>3 DEF InHandInv
    <3> QED
      BY <3>1, <3>2, <3>4 DEF OnePlaceInv, Sendable
  <2> QED
    BY <2>1, <2>3, <2>4, <2>5, <2>6, <2>7, <2>8, StepShape
<1> QED
  BY <1>1, <1>2, <1>3 DEF Next

\* A payload ends once: nothing the sender, the callers or a fork do later
\* changes how a payload was delivered, refused or lost.
THEOREM EndedIsFinal == Spec => OutcomeIsFinal
<1>1. Init => NoThreadYet /\ OnePlaceInv /\ InHandInv
  <2> SUFFICES ASSUME Init PROVE NoThreadYet /\ OnePlaceInv /\ InHandInv
    OBVIOUS
  <2>1. \A p \in Procs : queue[p] = <<>> /\ taken[p] = <<>> /\ thread[p] = "none"
    BY DEF Init
  <2>2. ToSet(<<>>) = {} /\ Distinct(<<>>)
    BY DEF ToSet, Distinct
  <2> QED
    BY <2>1, <2>2 DEF NoThreadYet, OnePlaceInv, InHandInv, Sendable, SentByOneProcess
<1>2. TypeOK /\ OnePlaceInv /\ NoThreadYet /\ InHandInv /\ [Next]_vars =>
        [\A x \in Payloads : outcome[x] \in Final => outcome'[x] = outcome[x]]_vars
  BY EndsStep DEF EndedStays
<1> QED
  BY <1>1, <1>2, TypeCorrect, NoThreadYetStep, OnePlaceStep, EndsStep, PTL
     DEF Spec, OutcomeIsFinal

-----------------------------------------------------------------------------
(* The flush of the destructor.                                            *)

\* A sender in its loop that is told to flush leaves with an empty queue.
Flushed(p) ==
  /\ thread[p] \in {"waiting", "sending"} /\ thread'[p] = "exited"
  /\ force[p] /\ ~ShutdownTimeout
  => queue'[p] = <<>>

\* A step that is not the sender's never makes the sender exit.
LEMMA OthersFlush ==
  ASSUME TypeOK, NEW p \in Procs, OwnerNext(p) \/ CallerNext(p)
  PROVE  \A q \in Procs : thread'[q] = "exited" => thread[q] = "exited"
<1>1. CASE OwnerNext(p)
  BY <1>1 DEF OwnerNext, PreforkJoined, DestroyJoined, Joined, Fork, ForkFails, PostforkParent,
              PostforkChild, Resume, StartThread, DestroyStop, sender, TypeOK
<1>2. CASE CallerNext(p)
  BY <1>2 DEF CallerNext, InitializeConnection, StartThread, EnqueueAccept, EnqueueDrop, Prefork,
              Destroy, sender, TypeOK
<1> QED
  BY <1>1, <1>2

\* The sender's own steps: out of the loop only through the empty queue.
LEMMA SenderFlush ==
  ASSUME TypeOK, NEW p \in Procs, SenderNext(p)
  PROVE  \A q \in Procs : Flushed(q)
<1>1. ASSUME TakeNext(p) PROVE \A q \in Procs : Flushed(q)
  BY <1>1 DEF TakeNext, Flushed, TypeOK
<1>2. ASSUME Idle(p) PROVE \A q \in Procs : Flushed(q)
  BY <1>2 DEF Idle, Leave, Flushed, TypeOK
<1>3. ASSUME FlushInterrupted(p) PROVE \A q \in Procs : Flushed(q)
  BY <1>3 DEF FlushInterrupted, Flushed
<1>4. ASSUME NEW o, Finish(p, o) PROVE \A q \in Procs : Flushed(q)
  BY <1>1, <1>2, <1>3, <1>4 DEF Finish
<1>5. CASE SenderStart(p)
  <2>1. CASE Leave(p, "exited") /\ thread[p] = "starting"
    BY <2>1 DEF Leave, Flushed, TypeOK
  <2> QED
    BY <1>1, <1>2, <1>5, <2>1 DEF SenderStart
<1>6. CASE SenderWake(p)
  <2>1. CASE Leave(p, "exited") /\ ~force[p]
    BY <2>1 DEF Leave, Flushed, TypeOK
  <2> QED
    BY <1>1, <1>2, <1>6, <2>1 DEF SenderWake
<1>7. CASE SendRetry(p)
  <2>1. CASE UNCHANGED thread
    BY <2>1 DEF Flushed
  <2> QED
    BY <1>4, <1>7, <2>1 DEF SendRetry
<1>8. CASE SendNoEndpoint(p) \/ SendDelivered(p) \/ SendRefused(p) \/ SendBroken(p)
  BY <1>4, <1>8 DEF SendNoEndpoint, SendDelivered, SendRefused, SendBroken
<1> QED
  BY <1>5, <1>6, <1>7, <1>8 DEF SenderNext

\* With the time limit disabled, a sender that has reached its loop before the
\* destructor forces the flush exits with nothing left in its queue.
THEOREM FlushLeavesNothing == Spec => ForcedFlush
<1>1. TypeOK /\ [Next]_vars => [\A p \in Procs : Flushed(p)]_vars
  <2> SUFFICES ASSUME TypeOK, Next PROVE \A p \in Procs : Flushed(p)
    OBVIOUS
  <2>1. ASSUME NEW p \in Procs, OwnerNext(p) \/ CallerNext(p)
        PROVE  \A q \in Procs : Flushed(q)
    BY <2>1, OthersFlush DEF Flushed
  <2> QED
    BY <2>1, SenderFlush DEF Next
<1>2. TypeOK /\ [Next]_vars =>
        [\A p \in Procs :
           /\ thread[p] \in {"waiting", "sending"} /\ thread'[p] = "exited"
           /\ force[p] /\ ~ShutdownTimeout
           => queue'[p] = <<>>]_vars
  BY <1>1 DEF Flushed
<1> QED
  BY <1>2, TypeCorrect, PTL DEF Spec, ForcedFlush

=============================================================================
