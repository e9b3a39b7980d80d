-------------------------- MODULE RequestScopeProofs --------------------------
(***************************************************************************)
(* Machine-checked proofs about RequestScope: for any number of workers,   *)
(* any environment, any remote files, with and without preloading, what a  *)
(* request finds when it runs.                                             *)
(***************************************************************************)
EXTENDS RequestScope, ConfigurationDistributionProofs

-----------------------------------------------------------------------------
(* RequestScope adds to ConfigurationDistribution and restricts it.        *)

LEMMA RequestSteps ==
  [RequestScopeNext]_requestVars => [DistributionNext]_distributionVars
<1>1. CASE Coordinator
  BY <1>1 DEF Coordinator, DistributionNext
<1>2. CASE MinitDone \/ UNCHANGED requestVars
  BY <1>2 DEF MinitDone, requestVars
<1>3. ASSUME NEW p \in Procs, RequestNext(p)
      PROVE  [DistributionNext]_distributionVars
  <2>1. CASE RequestInit(p) \/ Trigger(p) \/ Configured(p)
    BY <2>1 DEF RequestInit, Trigger, Configured, DistributionNext, ProcNext
  <2>2. CASE OneTimeTaskRead(p) \/ OneTimeTaskClaim(p) \/ NotBootstrapped(p)
    BY <2>2 DEF OneTimeTaskRead, OneTimeTaskClaim, NotBootstrapped
  <2>3. CASE Bootstrapped(p) \/ EntryPointRefused(p) \/ RequestShutdown(p) \/ PostDeactivate(p)
    BY <2>3 DEF Bootstrapped, EntryPointRefused, RequestShutdown, PostDeactivate
  <2> QED
    BY <1>3, <2>1, <2>2, <2>3 DEF RequestNext
<1>4. CASE \E w \in Workers : ForkWorker(w) \/ WorkerExits(w) \/ WorkerKilled(w)
  BY <1>4 DEF ForkWorker, WorkerExits, WorkerKilled, DistributionNext
<1> QED
  BY <1>1, <1>2, <1>3, <1>4 DEF RequestScopeNext

(* Whatever requests do, configurations are distributed as                 *)
(* ConfigurationDistribution says, so what is proved there holds here.     *)
THEOREM RequestsDistribute == RequestScopeSpec => DistributionSpec
<1>1. RequestScopeInit => DistributionInit
  BY DEF RequestScopeInit
<1> QED
  BY <1>1, RequestSteps, PTL DEF RequestScopeSpec, DistributionSpec

-----------------------------------------------------------------------------
(* Where a process is in a request, in the trigger, and in its snapshots.  *)

RequestTypes ==
  /\ start \in Starts
  /\ once \in BOOLEAN
  /\ tasks = IF once THEN 1 ELSE 0
  /\ at \in [Procs -> Place]
  /\ began \in [Procs -> Nat \ {0}]
  /\ counter \in [Procs -> 0..3]
  /\ preloadDetected \in [Procs -> BOOLEAN]
  /\ functional \in [Procs -> BOOLEAN]
  /\ resumed \in [Procs -> BOOLEAN]
  /\ applied \in [Procs -> BOOLEAN]

Triggering == {"minit", "trigger"}

\* Outside the trigger a process neither waits nor copies.
Placed ==
  \A p \in Procs :
    /\ at[p] = "none" <=> place[p] = "none"
    /\ at[p] \notin Triggering \cup {"none"} => place[p] = "idle"

\* Snapshots of one revision are one snapshot.
SnapshotsAgree ==
  \A p \in Procs :
    /\ conf[p].snapshot.revision <= conf[p].manager.revision
    /\ conf[p].snapshot.revision = conf[p].manager.revision => conf[p].snapshot = conf[p].manager

\* A process that has compared revisions is not behind the start of its
\* request, and past the trigger its snapshot is the one of its files.
Fresh ==
  \A p \in Procs :
    /\ began[p] <= Len(published)
    /\ at[p] = "trigger" /\ place[p] # "waiting" => conf[p].local >= began[p]
    /\ at[p] \in Configuring => conf[p].local >= began[p] /\ conf[p].snapshot = conf[p].manager

\* The master has one request at most, before it forks; nothing else happens
\* meanwhile.
MasterFirst ==
  /\ at[Master] \in {"minit", "idle", "trigger", "serving", "closing"}
  /\ counter[Master] \in {0, 1}
  /\ counter[Master] = 1 => start.preload /\ at[Master] \notin Triggering
  /\ at[Master] = "trigger" => start.preload
  /\ at[Master] \in {"serving", "closing"} => counter[Master] = 1 /\ preloadDetected[Master]
  /\ at[Master] # "idle" \/ (start.preload /\ counter[Master] = 0) =>
       ~once /\ \A w \in Workers : at[w] = "none"

\* Who has counted past its first instrumented request has seen the flag set.
TaskDone ==
  /\ \A p \in Procs :
       /\ p # Master /\ at[p] # "none" /\ start.preload => counter[p] >= 1
       /\ counter[p] >= 2 \/ (counter[p] >= 1 /\ ~start.preload) =>
            at[p] \in {"check", "claim"} \/ once
       /\ at[p] \in {"check", "claim", "boot"} => ~preloadDetected[p]
       /\ at[p] \in {"boot", "serving"} /\ ~preloadDetected[p] => once

\* The flags of the bootstrap.
Flags ==
  \A p \in Procs :
    /\ functional[p] => at[p] \in {"serving", "closing"} /\ ~preloadDetected[p]
    /\ resumed[p] => at[p] = "serving" /\ functional[p] /\ conf[p].snapshot.infer
    /\ applied[p] => at[p] \in {"serving", "closing"}

\* What PHP code reads in its environment.
Environment(p) ==
  IF applied[p] /\ start.env["config_file"] = Unset
  THEN ParseAndApply(start.env, OptionsIn(conf[p].snapshot.files))
  ELSE start.env

Environments == env = [p \in Procs |-> Environment(p)]

\* All of it but the distribution.
Requests ==
  /\ RequestTypes
  /\ Placed
  /\ SnapshotsAgree
  /\ Fresh
  /\ MasterFirst
  /\ TaskDone
  /\ Flags
  /\ Environments

RInv == DInv /\ Requests

LEMMA ProcsAre == Master \in Procs /\ Workers \subseteq Procs /\ Master \notin Workers
                  /\ Procs = {Master} \cup Workers
BY DistributionAssumption DEF Procs

LEMMA DistributionFacts ==
  ASSUME DInv
  PROVE  /\ revision \in Nat /\ Len(published) \in Nat \ {0}
         /\ store # "storing" => revision = Len(published)
         /\ conf \in [Procs -> Confs]
         /\ \A p \in Procs : /\ conf[p].local \in Nat
                             /\ conf[p].manager.revision \in Nat
                             /\ conf[p].snapshot.revision \in Nat
                             /\ conf[p].snapshot.infer \in BOOLEAN
         /\ place \in [Procs -> {"none", "idle", "waiting", "copying"}]
         /\ \A p \in Procs : place[p] = "copying" => conf[p].local = revision
BY DEF DInv, Types, DistributionTypeOK, Confs, Snapshots, ReadersAlone

-----------------------------------------------------------------------------
(* The initial states and the steps.                                       *)

LEMMA RInvInit == RequestScopeInit => RInv
<1> SUFFICES ASSUME RequestScopeInit PROVE RInv
  OBVIOUS
<1>0. \A p \in Procs :
        /\ at[p] = (IF p = Master THEN "minit" ELSE "none") /\ counter[p] = 0
        /\ functional[p] = FALSE /\ resumed[p] = FALSE /\ applied[p] = FALSE
  BY DEF RequestScopeInit
<1>8. MasterFirst /\ TaskDone /\ Flags
  <2>1. MasterFirst
    <3>1. at[Master] = "minit" /\ counter[Master] = 0
      BY <1>0, ProcsAre
    <3>2. ~once /\ \A w \in Workers : at[w] = "none"
      BY <1>0, ProcsAre DEF RequestScopeInit
    <3> QED
      BY <3>1, <3>2 DEF MasterFirst
  <2>2. TaskDone
    BY <1>0 DEF TaskDone
  <2>3. Flags
    BY <1>0 DEF Flags
  <2> QED
    BY <2>1, <2>2, <2>3
<1> USE ProcsAre DEF RequestScopeInit, DistributionInit
<1>1. DInv
  BY DInvInit
<1>2. RequestTypes
  <2>1. tasks = IF once THEN 1 ELSE 0
    OBVIOUS
  <2>2. /\ at \in [Procs -> Place] /\ began \in [Procs -> Nat \ {0}]
        /\ counter \in [Procs -> 0..3]
    BY DEF Place
  <2> QED
    BY <2>1, <2>2 DEF RequestTypes
<1>3. Placed
  BY DEF Placed, Triggering
<1>4. \A p \in Procs : conf[p].snapshot = conf[p].manager /\ conf[p].manager.revision = 2
  <2>1. \A d \in BOOLEAN : Minit(d).snapshot = Minit(d).manager /\ Minit(d).manager.revision = 2
    BY DEF Minit, Snapshot
  <2> QED
    BY <2>1
<1>5. SnapshotsAgree
  BY <1>4 DEF SnapshotsAgree
<1>6. Fresh
  BY DEF Fresh, Configuring
<1>7. Environments
  BY DEF Environments, Environment
<1> QED
  BY <1>1, <1>2, <1>3, <1>5, <1>6, <1>7, <1>8 DEF RInv, Requests

\* The coordinator touches nothing of a process; publishing only adds.
LEMMA CoordinatorSteps ==
  ASSUME RInv, Coordinator
  PROVE  Requests'
<1>1. UNCHANGED <<sharedVars, at, scopeVars, place, conf>>
  BY DEF Coordinator, CoordinatorNext, HandleServerToAgent, StoreLock, StoreConfigFiles,
         StoreThrows, CoordinatorKilled, procVars
<1>2. Len(published) \in Nat /\ Len(published') \in Nat /\ Len(published') >= Len(published)
  <2>1. published \in Seq(Files)
    BY DEF RInv, DInv, Types
  <2>2. published' = published \/ published' = Append(published, shared')
    BY DEF Coordinator, CoordinatorNext, HandleServerToAgent, StoreLock, StoreConfigFiles,
           StoreThrows, CoordinatorKilled, procVars
  <2> QED
    BY <2>1, <2>2
<1> USE <1>1 DEF sharedVars, scopeVars, RInv, Requests
<1>3. RequestTypes' /\ Placed' /\ SnapshotsAgree' /\ MasterFirst' /\ TaskDone' /\ Flags'
  BY DEF RequestTypes, Placed, SnapshotsAgree, MasterFirst, TaskDone, Flags
<1>4. Fresh'
  BY <1>2 DEF Fresh, RequestTypes
<1>5. Environments'
  BY DEF Environments, Environment
<1> QED
  BY <1>3, <1>4, <1>5

\* Nothing moves but a process from here to there, and none of its flags.
LEMMA MinitSteps == ASSUME RInv, MinitDone PROVE Requests'
<1> USE ProcsAre DEF RInv, Requests
<1>1. /\ at[Master] = "minit" /\ place[Master] = "idle"
      /\ at' = [at EXCEPT ![Master] = "idle"]
      /\ UNCHANGED <<sharedVars, scopeVars, distributionVars>>
  BY DEF MinitDone, Goto
<1> USE <1>1 DEF sharedVars, scopeVars, distributionVars
<1>2. RequestTypes' /\ Placed' /\ SnapshotsAgree' /\ Fresh'
  BY DEF RequestTypes, Place, Placed, Triggering, SnapshotsAgree, Fresh, Configuring
<1>3. MasterFirst' /\ TaskDone' /\ Flags'
  BY DEF RequestTypes, MasterFirst, TaskDone, Flags, Triggering
<1>4. Environments'
  BY DEF Environments, Environment
<1> QED
  BY <1>2, <1>3, <1>4

\* A request starts, and asks for the lock.
LEMMA RequestInitSteps ==
  ASSUME RInv, NEW p \in Procs, RequestInit(p)
  PROVE  Requests'
<1> USE ProcsAre DEF RInv, Requests
<1>1. /\ p = Master => start.preload /\ counter[Master] = 0
      /\ at[p] = "idle" /\ at' = [at EXCEPT ![p] = "trigger"]
      /\ place' = [place EXCEPT ![p] = "waiting"]
      /\ functional' = [functional EXCEPT ![p] = FALSE]
      /\ began' = [began EXCEPT ![p] = Len(published)]
      /\ UNCHANGED <<sharedVars, counter, preloadDetected, resumed, env, applied,
                     orphaned, conf, kills, storeVars>>
  BY DEF RequestInit, MayServe, Goto, TriggerUpdateIfChanged
<1> USE <1>1, DistributionFacts DEF sharedVars, storeVars
<1>2. RequestTypes'
  BY DEF RequestTypes, Place
<1>3. Placed' /\ SnapshotsAgree'
  BY DEF RequestTypes, Placed, Triggering, SnapshotsAgree
<1>4. Fresh'
  BY DEF RequestTypes, Fresh, Configuring
<1>5. MasterFirst' /\ TaskDone'
  BY DEF RequestTypes, MasterFirst, TaskDone, Triggering
<1>6. Flags'
  BY DEF RequestTypes, Flags
<1>7. Environments'
  BY DEF Environments, Environment
<1> QED
  BY <1>2, <1>3, <1>4, <1>5, <1>6, <1>7

\* The trigger: only where the process is in it, its revision, and what the
\* manager makes of the copy.
LEMMA TriggerSteps ==
  ASSUME RInv, NEW p \in Procs, Trigger(p)
  PROVE  Requests'
<1> USE ProcsAre DEF RInv, Requests
<1>1. UNCHANGED <<sharedVars, at, scopeVars, storeVars>>
  BY DEF Trigger, TriggerUnchanged, TriggerChanged, TriggerCopy
<1>2. /\ place[p] \in {"waiting", "copying"} /\ at[p] \in Triggering
      /\ place' = [place EXCEPT ![p] = "idle"] \/ place' = [place EXCEPT ![p] = "copying"]
  BY DEF Trigger, TriggerUnchanged, TriggerChanged, TriggerCopy, Placed, RequestTypes
<1>3. /\ DOMAIN conf' = Procs /\ \A q \in Procs \ {p} : conf'[q] = conf[q]
      /\ conf'[p].snapshot = conf[p].snapshot
      /\ \/ conf'[p].manager = conf[p].manager
         \/ conf'[p].manager.revision = conf[p].manager.revision + 1
  BY DistributionFacts DEF Trigger, TriggerUnchanged, TriggerChanged, TriggerCopy, Confs, Snapshot
<1>4. conf'[p].local = Len(published)
  <2>1. store # "storing" /\ (conf'[p].local = revision)
    BY DistributionFacts DEF Trigger, TriggerUnchanged, TriggerChanged, TriggerCopy, Readable,
                             Confs, DInv, ReadersAlone
  <2> QED
    BY <2>1, DistributionFacts
<1> USE <1>1, <1>2, <1>3 DEF sharedVars, scopeVars, storeVars
<1>5. RequestTypes' /\ MasterFirst' /\ TaskDone'
  BY DEF RequestTypes, MasterFirst, TaskDone
<1>6. Placed'
  BY DistributionFacts DEF Placed, Triggering
<1>7. SnapshotsAgree'
  BY DistributionFacts DEF SnapshotsAgree
<1>8. Fresh'
  BY <1>4, DistributionFacts, SMTT(30) DEF Fresh, Configuring, Triggering, RequestTypes
<1>9. Flags' /\ Environments'
  BY DEF Flags, Environments, Environment
<1> QED
  BY <1>5, <1>6, <1>7, <1>8, <1>9

\* The snapshot is taken over; a master that has not preloaded yet preloads,
\* any other process goes on to be instrumented.
LEMMA ConfiguredSteps ==
  ASSUME RInv, NEW p \in Procs, Configured(p)
  PROVE  Requests'
<1> USE ProcsAre DEF RInv, Requests
<1> DEFINE count == Min3(counter[p] + 1)
           preloading == count = 1 /\ start.preload /\ p = Master
           there == IF preloading THEN "serving" ELSE IF count <= 2 THEN "check" ELSE "boot"
<1>1. /\ at[p] = "trigger" /\ at' = [at EXCEPT ![p] = there]
      /\ place[p] = "idle"
      /\ counter' = [counter EXCEPT ![p] = count]
      /\ preloadDetected' = [preloadDetected EXCEPT ![p] = preloading]
      /\ UNCHANGED <<sharedVars, began, functional, resumed, env, applied, place, storeVars>>
  BY DEF Configured, Goto, UpdateSnapshot
<1>2. count \in 1..3 /\ (counter[p] >= 1 => count >= 2) /\ (count >= 3 => counter[p] >= 2)
      /\ preloading \in BOOLEAN /\ (p = Master => preloading)
  <2>1. counter[p] \in 0..3 /\ (p = Master => start.preload /\ counter[p] = 0)
    BY <1>1 DEF RequestTypes, MasterFirst, Triggering
  <2> QED
    BY <2>1 DEF Min3
<1>3. /\ DOMAIN conf' = Procs /\ \A q \in Procs \ {p} : conf'[q] = conf[q]
      /\ conf'[p].local = conf[p].local /\ conf'[p].manager = conf[p].manager
      /\ conf'[p].snapshot = conf'[p].manager
  <2>1. CASE conf[p].snapshot.revision # conf[p].manager.revision
    BY <2>1, DistributionFacts DEF Configured, UpdateSnapshot, Confs
  <2>2. CASE conf[p].snapshot.revision = conf[p].manager.revision
    BY <2>2, DistributionFacts DEF Configured, UpdateSnapshot, SnapshotsAgree
  <2> QED
    BY <2>1, <2>2
<1>4. functional[p] = FALSE /\ resumed[p] = FALSE /\ applied[p] = FALSE
  BY <1>1 DEF Flags, RequestTypes
<1> HIDE DEF count, preloading
<1> USE <1>1, <1>2, <1>3 DEF sharedVars, storeVars
<1>5. RequestTypes'
  BY DEF RequestTypes, Place
<1>6. Placed' /\ SnapshotsAgree'
  BY DistributionFacts DEF RequestTypes, Placed, Triggering, SnapshotsAgree
<1>7. Fresh'
  BY DistributionFacts DEF RequestTypes, Fresh, Configuring
<1>8. MasterFirst'
  <2>1. CASE p = Master
    BY <2>1 DEF RequestTypes, MasterFirst, Triggering, preloading
  <2>2. CASE p # Master
    BY <2>2 DEF RequestTypes, MasterFirst, Triggering
  <2> QED
    BY <2>1, <2>2
<1>9. TaskDone'
  <2>1. start.preload \in BOOLEAN /\ counter \in [Procs -> 0..3] /\ at \in [Procs -> Place]
        /\ preloadDetected \in [Procs -> BOOLEAN]
    BY StartsAssumption DEF RequestTypes
  <2>2. \A q \in Procs \ {p} : /\ counter'[q] = counter[q] /\ at'[q] = at[q]
                               /\ preloadDetected'[q] = preloadDetected[q]
    BY <2>1
  <2>3. at'[p] = there /\ counter'[p] = count /\ preloadDetected'[p] = preloading
    BY <2>1
  <2>4. count >= 3 => once
    BY DEF TaskDone
  <2>5. count >= 1 /\ ~start.preload => ~preloading
    BY DEF preloading
  <2>6. count >= 2 => ~preloading
    BY DEF preloading
  <2>7. preloading => count = 1 /\ start.preload
    BY DEF preloading
  <2>8. there \in {"check", "boot", "serving"} /\ (there = "serving" <=> preloading)
        /\ (there = "boot" => count >= 3)
    OBVIOUS
  <2> HIDE DEF there
  <2> QED
    BY <2>1, <2>2, <2>3, <2>4, <2>5, <2>6, <2>7, <2>8 DEF TaskDone
<1>10. Flags'
  BY <1>4 DEF RequestTypes, Flags
<1>11. Environments'
  BY <1>4 DEF Environments, Environment, RequestTypes
<1> QED
  BY <1>5, <1>6, <1>7, <1>8, <1>9, <1>10, <1>11

\* The flag is read, and set by the process that still finds it unset.
LEMMA OneTimeTaskSteps ==
  ASSUME RInv, NEW p \in Procs, OneTimeTaskRead(p) \/ OneTimeTaskClaim(p)
  PROVE  Requests'
<1> USE ProcsAre DEF RInv, Requests
<1>1. /\ at[p] \in {"check", "claim"}
      /\ \E there \in {"boot", "claim"} :
            /\ at' = [at EXCEPT ![p] = there]
            /\ there = "boot" => once'
      /\ once => once'
      /\ once' \in BOOLEAN /\ tasks' = IF once' THEN 1 ELSE 0
      /\ UNCHANGED <<start, scopeVars, distributionVars>>
  <2>1. CASE OneTimeTaskRead(p) /\ once
    BY <2>1 DEF OneTimeTaskRead, Goto, sharedVars, RequestTypes
  <2>2. CASE OneTimeTaskRead(p) /\ ~once
    BY <2>2 DEF OneTimeTaskRead, Goto, sharedVars, RequestTypes
  <2>3. CASE OneTimeTaskClaim(p)
    <3>1. at' = [at EXCEPT ![p] = "boot"] /\ at[p] = "claim" /\ once' = TRUE
          /\ tasks' = (IF once THEN tasks ELSE tasks + 1)
          /\ UNCHANGED <<start, scopeVars, distributionVars>>
      BY <2>3 DEF OneTimeTaskClaim, Goto
    <3>2. tasks' = 1
      BY <3>1 DEF RequestTypes
    <3> QED
      BY <3>1, <3>2
  <2> QED
    BY <2>1, <2>2, <2>3 DEF RequestTypes
<1>2. p # Master
  BY <1>1 DEF MasterFirst
<1>3. Workers # {} /\ at[Master] = "idle" /\ ~(start.preload /\ counter[Master] = 0)
  BY <1>1, <1>2 DEF MasterFirst
<1> USE <1>1, <1>2 DEF scopeVars, distributionVars
<1>4. RequestTypes'
  BY DEF RequestTypes, Place
<1>5. Placed' /\ SnapshotsAgree' /\ Fresh'
  BY DEF RequestTypes, Placed, Triggering, SnapshotsAgree, Fresh, Configuring
<1>6. MasterFirst'
  BY <1>3 DEF RequestTypes, MasterFirst, Triggering
<1>7. TaskDone'
  BY DEF RequestTypes, TaskDone
<1>8. Flags' /\ Environments'
  BY DEF RequestTypes, Flags, Environments, Environment
<1> QED
  BY <1>4, <1>5, <1>6, <1>7, <1>8

\* The bootstrap, run to its end or not.
LEMMA BootSteps ==
  ASSUME RInv, NEW p \in Procs,
         NotBootstrapped(p) \/ Bootstrapped(p) \/ EntryPointRefused(p)
  PROVE  Requests'
<1> USE ProcsAre DEF RInv, Requests
<1>1. /\ at[p] = "boot" /\ at' = [at EXCEPT ![p] = "serving"]
      /\ UNCHANGED <<sharedVars, began, counter, preloadDetected, distributionVars>>
  BY DEF NotBootstrapped, Bootstrapped, EntryPointRefused, Goto, scopeVars
<1>2. p # Master /\ ~preloadDetected[p] /\ once /\ ~functional[p] /\ ~resumed[p] /\ ~applied[p]
  BY <1>1 DEF MasterFirst, TaskDone, Flags
<1>3. /\ functional' \in [Procs -> BOOLEAN] /\ resumed' \in [Procs -> BOOLEAN]
      /\ applied' \in [Procs -> BOOLEAN]
      /\ \A q \in Procs \ {p} : /\ functional'[q] = functional[q]
                                /\ resumed'[q] = resumed[q]
                                /\ applied'[q] = applied[q]
      /\ resumed'[p] => functional'[p] /\ conf[p].snapshot.infer
  BY <1>2 DEF NotBootstrapped, Bootstrapped, EntryPointRefused, ResumeSampling, scopeVars,
              RequestTypes
<1>4. env' = [env EXCEPT ![p] = IF applied'[p] /\ start.env["config_file"] = Unset
                                THEN ParseAndApply(start.env, OptionsIn(conf[p].snapshot.files))
                                ELSE start.env]
  <2>1. DOMAIN env = Procs /\ env[p] = start.env
    BY <1>2 DEF Environments, Environment
  <2>2. CASE Bootstrapped(p)
    BY <2>1, <2>2 DEF Bootstrapped, FetchAndApply, RequestTypes
  <2>3. CASE NotBootstrapped(p) \/ EntryPointRefused(p)
    <3>1. applied' = applied /\ env' = env
      BY <2>3 DEF NotBootstrapped, EntryPointRefused, scopeVars
    <3> QED
      BY <1>2, <2>1, <3>1 DEF Environments
  <2> QED
    BY <2>2, <2>3
<1> USE <1>1, <1>2, <1>3 DEF sharedVars, distributionVars
<1>5. RequestTypes'
  BY DEF RequestTypes, Place
<1>6. Placed' /\ SnapshotsAgree' /\ Fresh'
  BY DEF RequestTypes, Placed, Triggering, SnapshotsAgree, Fresh, Configuring
<1>7. MasterFirst' /\ TaskDone'
  BY DEF RequestTypes, MasterFirst, TaskDone, Triggering
<1>8. Flags'
  BY DEF RequestTypes, Flags
<1>9. Environments'
  BY <1>4 DEF Environments, Environment
<1> QED
  BY <1>5, <1>6, <1>7, <1>8, <1>9

\* The end of a request.
LEMMA EndSteps ==
  ASSUME RInv, NEW p \in Procs, RequestShutdown(p) \/ PostDeactivate(p)
  PROVE  Requests'
<1> USE ProcsAre DEF RInv, Requests
<1>1. CASE RequestShutdown(p)
  <2>1. /\ at[p] = "serving" /\ at' = [at EXCEPT ![p] = "closing"]
        /\ UNCHANGED <<sharedVars, began, counter, preloadDetected, functional, env, applied,
                       distributionVars>>
    BY <1>1 DEF RequestShutdown, Goto
  <2>2. /\ resumed' \in [Procs -> BOOLEAN] /\ ~resumed'[p]
        /\ \A q \in Procs \ {p} : resumed'[q] = resumed[q]
    <3>1. resumed \in [Procs -> BOOLEAN]
      BY DEF RequestTypes
    <3>2. CASE resumed[p]
      <4>1. ~preloadDetected[p] /\ functional[p] /\ conf[p].snapshot.infer
        BY <3>2 DEF Flags
      <4>2. resumed' = [resumed EXCEPT ![p] = FALSE]
        BY <1>1, <4>1 DEF RequestShutdown
      <4> QED
        BY <3>1, <4>2
    <3>3. CASE ~resumed[p]
      BY <1>1, <3>1, <3>3 DEF RequestShutdown
    <3> QED
      BY <3>2, <3>3
  <2> USE <2>1, <2>2 DEF sharedVars, distributionVars
  <2>3. RequestTypes'
    BY DEF RequestTypes, Place
  <2>4. Placed' /\ SnapshotsAgree' /\ Fresh'
    BY DEF RequestTypes, Placed, Triggering, SnapshotsAgree, Fresh, Configuring
  <2>5. MasterFirst' /\ TaskDone'
    BY DEF RequestTypes, MasterFirst, TaskDone, Triggering
  <2>6. Flags' /\ Environments'
    BY DEF RequestTypes, Flags, Environments, Environment
  <2> QED
    BY <2>3, <2>4, <2>5, <2>6
<1>2. CASE PostDeactivate(p)
  <2>1. /\ at[p] = "closing" /\ at' = [at EXCEPT ![p] = "idle"]
        /\ functional' = [functional EXCEPT ![p] = FALSE]
        /\ env' = [env EXCEPT ![p] = start.env]
        /\ applied' = [applied EXCEPT ![p] = FALSE]
        /\ began' = [began EXCEPT ![p] = 1]
        /\ UNCHANGED <<sharedVars, counter, preloadDetected, resumed, distributionVars>>
    BY <1>2 DEF PostDeactivate, Goto
  <2> USE <2>1 DEF sharedVars, distributionVars
  <2>2. RequestTypes'
    BY DEF RequestTypes, Place
  <2>3. Placed' /\ SnapshotsAgree' /\ Fresh'
    BY DistributionFacts
       DEF RequestTypes, Placed, Triggering, SnapshotsAgree, Fresh, Configuring
  <2>4. MasterFirst' /\ TaskDone'
    BY DEF RequestTypes, MasterFirst, TaskDone, Triggering
  <2>5. Flags'
    BY DEF RequestTypes, Flags
  <2>6. Environments'
    BY DEF RequestTypes, Environments, Environment
  <2> QED
    BY <2>2, <2>3, <2>4, <2>5, <2>6
<1> QED
  BY <1>1, <1>2

\* A worker inherits a master that is in no request.
LEMMA ForkSteps ==
  ASSUME RInv, NEW w \in Workers, ForkWorker(w)
  PROVE  Requests'
<1> USE ProcsAre DEF RInv, Requests
<1>1. /\ at[Master] = "idle" /\ at[w] = "none" /\ at' = [at EXCEPT ![w] = "idle"]
      /\ start.preload => counter[Master] > 0
      /\ place' = [place EXCEPT ![w] = "idle"]
      /\ conf' = [conf EXCEPT ![w] = conf[Master]]
      /\ counter' = [counter EXCEPT ![w] = counter[Master]]
      /\ preloadDetected' = [preloadDetected EXCEPT ![w] = preloadDetected[Master]]
      /\ functional' = [functional EXCEPT ![w] = functional[Master]]
      /\ resumed' = [resumed EXCEPT ![w] = resumed[Master]]
      /\ env' = [env EXCEPT ![w] = env[Master]]
      /\ applied' = [applied EXCEPT ![w] = FALSE]
      /\ UNCHANGED <<sharedVars, began, orphaned, kills, storeVars>>
  BY DEF ForkWorker, Fork, Goto
<1>2. ~functional[Master] /\ ~resumed[Master] /\ ~applied[Master]
  BY <1>1 DEF Flags
<1> USE <1>1, <1>2, DistributionFacts DEF sharedVars, storeVars
<1>3. RequestTypes'
  BY DEF RequestTypes, Place
<1>4. Placed' /\ SnapshotsAgree' /\ Fresh'
  BY DEF RequestTypes, Placed, Triggering, SnapshotsAgree, Fresh, Configuring
<1>5. MasterFirst'
  BY DEF RequestTypes, MasterFirst, Triggering
<1>6. TaskDone'
  BY DEF RequestTypes, MasterFirst, TaskDone
<1>7. Flags'
  BY DEF RequestTypes, Flags
<1>8. Environments'
  BY DEF RequestTypes, Environments, Environment
<1> QED
  BY <1>3, <1>4, <1>5, <1>6, <1>7, <1>8

\* A worker that is gone holds nothing.
LEMMA GoneSteps ==
  ASSUME RInv, NEW w \in Workers, WorkerExits(w) \/ WorkerKilled(w)
  PROVE  Requests'
<1> USE ProcsAre DEF RInv, Requests
<1> DEFINE c == Minit(conf[w].debug)
<1>1. /\ place' = [place EXCEPT ![w] = "none"] /\ conf' = [conf EXCEPT ![w] = c]
      /\ UNCHANGED storeVars /\ Gone(w)
  BY DEF WorkerExits, WorkerKilled, Exit, Kill
<1>2. c.snapshot = c.manager /\ c.manager.revision = 2
  BY DEF Minit, Snapshot
<1> HIDE DEF c
<1>3. at[Master] = "idle" /\ ~(start.preload /\ counter[Master] = 0)
  <2>1. at[w] # "none"
    BY DEF WorkerExits, WorkerKilled, Kill, Placed
  <2> QED
    BY <2>1 DEF MasterFirst
<1> USE <1>1, <1>2, <1>3, DistributionFacts DEF sharedVars, storeVars, Gone
<1>4. RequestTypes'
  BY DEF RequestTypes, Place
<1>5. Placed' /\ SnapshotsAgree' /\ Fresh'
  BY DEF RequestTypes, Placed, Triggering, SnapshotsAgree, Fresh, Configuring
<1>6. MasterFirst' /\ TaskDone'
  BY DEF RequestTypes, MasterFirst, TaskDone, Triggering
<1>7. Flags' /\ Environments'
  BY DEF RequestTypes, Flags, Environments, Environment
<1> QED
  BY <1>4, <1>5, <1>6, <1>7

LEMMA RInvNext ==
  ASSUME RInv, [RequestScopeNext]_requestVars
  PROVE  RInv'
<1>1. DInv'
  BY RequestSteps, DInvNext DEF RInv
<1>2. Requests'
  <2>1. ASSUME NEW p \in Procs, RequestNext(p) PROVE Requests'
    BY <2>1, RequestInitSteps, TriggerSteps, ConfiguredSteps, OneTimeTaskSteps, BootSteps,
       EndSteps DEF RequestNext
  <2>2. CASE UNCHANGED requestVars
    <3> USE <2>2 DEF requestVars, sharedVars, scopeVars, distributionVars, RInv, Requests
    <3>1. RequestTypes' /\ Placed' /\ SnapshotsAgree' /\ Fresh'
      BY DEF RequestTypes, Placed, SnapshotsAgree, Fresh
    <3>2. MasterFirst' /\ TaskDone' /\ Flags' /\ Environments'
      BY DEF MasterFirst, TaskDone, Flags, Environments, Environment
    <3> QED
      BY <3>1, <3>2
  <2> QED
    BY <2>1, <2>2, CoordinatorSteps, MinitSteps, ForkSteps, GoneSteps DEF RequestScopeNext
<1> QED
  BY <1>1, <1>2 DEF RInv

LEMMA RInvHolds == RequestScopeSpec => []RInv
BY RInvInit, RInvNext, PTL DEF RequestScopeSpec

-----------------------------------------------------------------------------
(* The properties.                                                         *)

(* The types of the variables.                                             *)
THEOREM RequestScopeTypes == RequestScopeSpec => []RequestTypeOK
<1>1. RInv => RequestTypeOK
  <2> SUFFICES ASSUME RInv PROVE RequestTypeOK
    OBVIOUS
  <2>1. DistributionTypeOK /\ RequestTypes /\ DOMAIN env = Procs
    BY DEF RInv, DInv, Types, Requests, Environments
  <2>2. tasks \in Nat
    BY <2>1 DEF RequestTypes
  <2> QED
    BY <2>1, <2>2 DEF RequestTypes, RequestTypeOK
<1> QED
  BY <1>1, RInvHolds, PTL

(* No request runs with a configuration older than the newest one that was *)
(* complete when it started.                                               *)
THEOREM RequestsAreFresh == RequestScopeSpec => []FreshAtRequest
<1>1. RInv => FreshAtRequest
  <2> SUFFICES ASSUME RInv, NEW p \in Procs, at[p] \in Configuring
               PROVE  conf[p].local >= began[p] /\ conf[p].snapshot.files = published[conf[p].local]
    BY DEF FreshAtRequest
  <2>1. conf[p].local >= began[p] /\ conf[p].snapshot = conf[p].manager /\ Settled(p)
    BY DEF RInv, Requests, Fresh, Placed, Triggering, Configuring, Settled
  <2>2. conf[p].local # 0
    BY <2>1, DistributionFacts DEF RInv, Requests, RequestTypes
  <2> QED
    BY <2>1, <2>2 DEF RInv, DInv, RevisionHoldsFiles
<1> QED
  BY <1>1, RInvHolds, PTL

(* The diagnostics of a server are written once, whoever comes first.      *)
THEOREM OneTimeTaskOnce == RequestScopeSpec => []OneTimeTask
<1>1. RInv => OneTimeTask
  <2> SUFFICES ASSUME RInv PROVE OneTimeTask
    OBVIOUS
  <2>1. tasks = IF once THEN 1 ELSE 0
    BY DEF RInv, Requests, RequestTypes
  <2>2. \A p \in Procs : at[p] \in {"boot", "serving"} /\ ~preloadDetected[p] => once
    BY DEF RInv, Requests, TaskDone
  <2>3. at[Master] = "serving" => ~once
    BY DEF RInv, Requests, MasterFirst
  <2> QED
    BY <2>1, <2>2, <2>3 DEF OneTimeTask
<1> QED
  BY <1>1, RInvHolds, PTL

(* Sampling never outlives the request that resumed it.                    *)
THEOREM SamplingInRequests == RequestScopeSpec => []SampledInRequest
<1>1. RInv => SampledInRequest
  BY DEF RInv, Requests, Flags, SampledInRequest
<1> QED
  BY <1>1, RInvHolds, PTL

-----------------------------------------------------------------------------
(* What the options do to an environment.                                  *)

\* Each of the four steps sets its own variables and leaves the others alone.
LEMMA AllApplied ==
  ASSUME NEW e, DOMAIN e = Variables, NEW options,
         NEW a, a = ApplyLoggingLevel(e, options), NEW b, b = ApplySamplingRate(a, options),
         NEW c, c = ApplySendSignal(b, options),
         NEW f, f = ApplyDeactivateInstrumentations(c, options)
  PROVE  /\ IF /\ Given(options, "sampling_rate") /\ IsRate(options["sampling_rate"])
               /\ e["sampler"] \in {Unset, Ratio}
            THEN f["sampler"] = Ratio /\ f["rate"] = options["sampling_rate"].text
            ELSE f["sampler"] = e["sampler"] /\ f["rate"] = e["rate"]
         /\ \A name \in DOMAIN SignalOf :
              f[SignalOf[name]] = IF Given(options, name) /\ SaysFalse(options[name])
                                  THEN None ELSE e[SignalOf[name]]
         /\ Given(options, "deactivate_all_instrumentations")
              /\ SaysTrue(options["deactivate_all_instrumentations"])
              => f["disabled"] = "all"
<1>1. DOMAIN a = Variables /\ \A v \in Variables \ {"level"} : a[v] = e[v]
  BY DEF ApplyLoggingLevel, Variables
<1>2. /\ DOMAIN b = Variables
      /\ \A v \in Variables \ {"sampler", "rate"} : b[v] = a[v]
      /\ IF /\ Given(options, "sampling_rate") /\ IsRate(options["sampling_rate"])
            /\ a["sampler"] \in {Unset, Ratio}
         THEN b["sampler"] = Ratio /\ b["rate"] = options["sampling_rate"].text
         ELSE \A v \in Variables : b[v] = a[v]
  BY <1>1 DEF ApplySamplingRate, Variables
<1>3. /\ DOMAIN c = Variables
      /\ \A v \in Variables \ {"logs", "metrics", "traces"} : c[v] = b[v]
      /\ \A name \in DOMAIN SignalOf :
           c[SignalOf[name]] = IF Given(options, name) /\ SaysFalse(options[name])
                               THEN None ELSE b[SignalOf[name]]
  BY <1>2 DEF ApplySendSignal, Variables, SignalOf
<1>4. /\ \A v \in Variables \ {"disabled"} : f[v] = c[v]
      /\ Given(options, "deactivate_all_instrumentations")
           /\ SaysTrue(options["deactivate_all_instrumentations"])
           => f["disabled"] = "all"
  BY <1>3 DEF ApplyDeactivateInstrumentations, Variables
<1>5. \A name \in DOMAIN SignalOf : SignalOf[name] \in {"logs", "metrics", "traces"}
  <2>1. DOMAIN SignalOf = {"send_logs", "send_metrics", "send_traces"}
    BY DEF SignalOf
  <2>2. /\ SignalOf["send_logs"] = "logs" /\ SignalOf["send_metrics"] = "metrics"
        /\ SignalOf["send_traces"] = "traces"
    BY DEF SignalOf
  <2> QED
    BY <2>1, <2>2
<1>6. \A v \in {"logs", "metrics", "traces"} : b[v] = e[v] /\ f[v] = c[v]
  BY <1>1, <1>2, <1>4 DEF Variables
<1>7. \A v \in {"sampler", "rate"} : a[v] = e[v] /\ f[v] = b[v]
  BY <1>1, <1>3, <1>4 DEF Variables
<1>8. ASSUME NEW name \in DOMAIN SignalOf
      PROVE  f[SignalOf[name]] = IF Given(options, name) /\ SaysFalse(options[name])
                                 THEN None ELSE e[SignalOf[name]]
  <2>1. c[SignalOf[name]] = IF Given(options, name) /\ SaysFalse(options[name])
                            THEN None ELSE b[SignalOf[name]]
    BY <1>3
  <2>2. b[SignalOf[name]] = e[SignalOf[name]] /\ f[SignalOf[name]] = c[SignalOf[name]]
    BY <1>5, <1>6
  <2> QED
    BY <2>1, <2>2
<1>9. IF /\ Given(options, "sampling_rate") /\ IsRate(options["sampling_rate"])
         /\ e["sampler"] \in {Unset, Ratio}
      THEN f["sampler"] = Ratio /\ f["rate"] = options["sampling_rate"].text
      ELSE f["sampler"] = e["sampler"] /\ f["rate"] = e["rate"]
  BY <1>2, <1>7 DEF Variables
<1> QED
  BY <1>4, <1>8, <1>9

(* What the server published for a process is what the SDK reads in its    *)
(* requests, and nothing of an earlier file is left.                       *)
THEOREM RemoteOptionsTakeEffect == RequestScopeSpec => []RemoteTakesEffect
<1>1. RInv => RemoteTakesEffect
  <2> SUFFICES ASSUME RInv, NEW p \in Procs,
                      applied[p], start.env["config_file"] = Unset, at[p] = "serving",
                      NEW options, options = OptionsIn(published[conf[p].local]),
                      NEW rate,
                      rate = IF Given(options, "sampling_rate") /\ IsRate(options["sampling_rate"])
                             THEN options["sampling_rate"].text ELSE Unset
               PROVE  /\ start.env["sampler"] \in {Unset, Ratio} /\ rate # Unset =>
                            env[p]["sampler"] = Ratio /\ env[p]["rate"] = rate
                      /\ start.env["sampler"] \notin {Unset, Ratio} \/ rate = Unset =>
                            \A v \in {"sampler", "rate"} : env[p][v] = start.env[v]
                      /\ \A name \in DOMAIN SignalOf :
                            env[p][SignalOf[name]] =
                              IF Given(options, name) /\ SaysFalse(options[name])
                              THEN None ELSE start.env[SignalOf[name]]
                      /\ Given(options, "deactivate_all_instrumentations")
                            /\ SaysTrue(options["deactivate_all_instrumentations"])
                            => env[p]["disabled"] = "all"
    BY DEF RemoteTakesEffect
  <2>1. conf[p].snapshot.files = published[conf[p].local]
    <3>1. conf[p].local >= began[p] /\ conf[p].snapshot = conf[p].manager /\ Settled(p)
      BY DEF RInv, Requests, Fresh, Placed, Triggering, Configuring, Settled
    <3>2. conf[p].local # 0
      BY <3>1, DistributionFacts DEF RInv, Requests, RequestTypes
    <3> QED
      BY <3>1, <3>2 DEF RInv, DInv, RevisionHoldsFiles
  <2>2. env[p] = ParseAndApply(start.env, options)
    BY <2>1 DEF RInv, Requests, Environments, Environment
  <2>3. DOMAIN start.env = Variables
    BY StartsAssumption DEF RInv, Requests, RequestTypes
  <2>4. rate # Unset <=> Given(options, "sampling_rate") /\ IsRate(options["sampling_rate"])
    BY DEF IsRate, Rates, Unset
  <2>5. /\ IF /\ Given(options, "sampling_rate") /\ IsRate(options["sampling_rate"])
              /\ start.env["sampler"] \in {Unset, Ratio}
           THEN env[p]["sampler"] = Ratio /\ env[p]["rate"] = options["sampling_rate"].text
           ELSE /\ env[p]["sampler"] = start.env["sampler"]
                /\ env[p]["rate"] = start.env["rate"]
        /\ \A name \in DOMAIN SignalOf :
             env[p][SignalOf[name]] = IF Given(options, name) /\ SaysFalse(options[name])
                                      THEN None ELSE start.env[SignalOf[name]]
        /\ Given(options, "deactivate_all_instrumentations")
             /\ SaysTrue(options["deactivate_all_instrumentations"])
             => env[p]["disabled"] = "all"
    BY <2>2, <2>3, AllApplied DEF ParseAndApply
  <2> QED
    BY <2>4, <2>5
<1> QED
  BY <1>1, RInvHolds, PTL

=============================================================================
