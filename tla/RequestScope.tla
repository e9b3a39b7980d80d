---------------------------- MODULE RequestScope ----------------------------
(***************************************************************************)
(* The life of requests in the PHP processes (RequestScope.h): the request *)
(* takes over the newest configuration, one worker writes the diagnostics, *)
(* the PHP part is bootstrapped and applies the remote options to its      *)
(* environment, sampling is resumed; shutdown and post-deactivation undo   *)
(* it.  With opcache.preload the master itself has one request, before it  *)
(* forks, and the workers inherit its counter and flags.                   *)
(***************************************************************************)
EXTENDS ConfigurationDistribution, RemoteConfigHandler

CONSTANTS
  Starts       \* how the server may be started, and with it the bounds of a
               \* behaviour: [preload, env, debug, script, workers, kills]

(* The environment variables that remote options concern, and the one that *)
(* names a configuration file of the OTel SDK.                             *)
Variables == {"config_file", "level", "sampler", "rate", "logs", "metrics", "traces",
              "disabled"}

ASSUME StartsAssumption ==
  \A s \in Starts : /\ s.preload \in BOOLEAN
                   /\ DOMAIN s.env = Variables
                   /\ s.debug \in BOOLEAN
                   /\ s.script \in Scripts
                   /\ s.workers \subseteq Workers
                   /\ s.kills \in 0..MaxKills

VARIABLES
  start,       \* how the server was started: opcache.preload, environment, log level
  once,        \* oneTimeTaskAmongWorkersExecuted, shared
  tasks,       \* history: how often the one-time task was begun
  at,          \* where each process is in its request
  began,       \* history: the revisions complete when the request started
  counter,     \* requestCounter_; only 1 and 2 matter, so it stops at 3
  preloadDetected, functional,  \* preloadDetected_, bootstrapSuccessfull_
  resumed,     \* resumed_ of the periodic task executor
  env,         \* the environment as PHP code reads it
  applied      \* history: fetchAndApply has run in this request

scopeVars == <<began, counter, preloadDetected, functional, resumed, env, applied>>
sharedVars == <<start, once, tasks>>
requestVars == <<sharedVars, at, scopeVars, distributionVars>>

Place == {"none", "minit", "idle", "trigger", "check", "claim", "boot",
          "serving", "closing"}

RequestScopeInit ==
  /\ DistributionInit
  /\ start \in Starts
  /\ script = start.script
  /\ conf[Master].debug = start.debug
  /\ once = FALSE
  /\ tasks = 0
  /\ at = [p \in Procs |-> IF p = Master THEN "minit" ELSE "none"]
  /\ began = [p \in Procs |-> 1]
  /\ counter = [p \in Procs |-> 0]
  /\ preloadDetected = [p \in Procs |-> FALSE]
  /\ functional = [p \in Procs |-> FALSE]
  /\ resumed = [p \in Procs |-> FALSE]
  /\ env = [p \in Procs |-> start.env]
  /\ applied = [p \in Procs |-> FALSE]

Goto(p, here, there) ==
  /\ at[p] = here
  /\ at' = [at EXCEPT ![p] = there]

MinitDone ==
  /\ place[Master] = "idle"
  /\ Goto(Master, "minit", "idle")
  /\ UNCHANGED <<sharedVars, scopeVars, distributionVars>>

(* The master's only request is the one that preloads. *)
MayServe(p) == p = Master => start.preload /\ counter[Master] = 0

(* onRequestInit: resetRequest, then the trigger. *)
RequestInit(p) ==
  /\ MayServe(p)
  /\ Goto(p, "idle", "trigger")
  /\ TriggerUpdateIfChanged(p)
  /\ functional' = [functional EXCEPT ![p] = FALSE]
  /\ began' = [began EXCEPT ![p] = Len(published)]
  /\ UNCHANGED <<sharedVars, counter, preloadDetected, resumed, env, applied>>

Trigger(p) ==
  /\ TriggerUnchanged(p) \/ TriggerChanged(p) \/ TriggerCopy(p)
  /\ UNCHANGED <<sharedVars, at, scopeVars>>

Min3(n) == IF n > 3 THEN 3 ELSE n

\* Mutant of Configured: a process that has preloaded stays marked.
ConfiguredSticky(p) ==
  LET count == Min3(counter[p] + 1)
      preloading == count = 1 /\ start.preload /\ p = Master
  IN
  /\ Goto(p, "trigger", IF preloading   THEN "serving"
                        ELSE IF count <= 2 THEN "check"
                        ELSE "boot")
  /\ UpdateSnapshot(p)
  /\ counter' = [counter EXCEPT ![p] = count]
  /\ preloadDetected' = [preloadDetected EXCEPT ![p] = @ \/ preloading]
  /\ UNCHANGED <<sharedVars, began, functional, resumed, env, applied>>

(* The snapshot is taken over, the request counted, preloading detected.   *)
(* Diagnostics are for the first request that does not preload: the second *)
(* one of a worker that inherited the master's counter.                    *)
Configured(p) ==
  LET count == Min3(counter[p] + 1)
      preloading == count = 1 /\ start.preload /\ p = Master
  IN
  /\ Goto(p, "trigger", IF preloading   THEN "serving"
                        ELSE IF count <= 2 THEN "check"
                        ELSE "boot")
  /\ UpdateSnapshot(p)
  /\ counter' = [counter EXCEPT ![p] = count]
  /\ preloadDetected' = [preloadDetected EXCEPT ![p] = preloading]
  /\ UNCHANGED <<sharedVars, began, functional, resumed, env, applied>>

(* shouldExecuteOneTimeTaskAmongWorkers: the flag read under the shared    *)
(* lock, then again under the exclusive one.                               *)
OneTimeTaskRead(p) ==
  /\ Goto(p, "check", IF once THEN "boot" ELSE "claim")
  /\ UNCHANGED <<sharedVars, scopeVars, distributionVars>>

\* Mutant of OneTimeTaskClaim: no second look under the exclusive lock.
OneTimeTaskClaimBlindly(p) ==
  /\ Goto(p, "claim", "boot")
  /\ once' = TRUE
  /\ tasks' = tasks + 1
  /\ UNCHANGED <<start, scopeVars, distributionVars>>

OneTimeTaskClaim(p) ==
  /\ Goto(p, "claim", "boot")
  /\ once' = TRUE
  /\ tasks' = IF once THEN tasks ELSE tasks + 1
  /\ UNCHANGED <<start, scopeVars, distributionVars>>

(* opcache is about to restart, or the bootstrap file could not be run. *)
NotBootstrapped(p) ==
  /\ Goto(p, "boot", "serving")
  /\ UNCHANGED <<sharedVars, scopeVars, distributionVars>>

ResumeSampling(p) ==
  resumed' = IF conf[p].snapshot.infer
             THEN [resumed EXCEPT ![p] = TRUE]
             ELSE resumed

(* The options in the remote file of the snapshot; none when it is absent, *)
(* empty or malformed.                                                     *)
OptionsIn(files) ==
  IF Elastic \in DOMAIN files /\ files[Elastic] \notin {Empty, Malformed}
  THEN files[Elastic]
  ELSE NoFiles

(* fetchAndApply does nothing beside an OTel configuration file. *)
FetchAndApply(p) ==
  env' = [env EXCEPT ![p] =
            IF @["config_file"] # Unset
            THEN @
            ELSE ParseAndApply(@, OptionsIn(conf[p].snapshot.files))]

(* The bootstrap sequence of PhpPartFacade gets past the remote options:   *)
(* to its end, or only to an excluded URL or a step that throws.           *)
Bootstrapped(p) ==
  /\ Goto(p, "boot", "serving")
  /\ functional' = [functional EXCEPT ![p] = TRUE]
  /\ FetchAndApply(p)
  /\ applied' = [applied EXCEPT ![p] = TRUE]
  /\ ResumeSampling(p)
  /\ UNCHANGED <<sharedVars, began, counter, preloadDetected, distributionVars>>

(* It returns false before that.  The native part does not look at the     *)
(* result and takes the request for instrumented.                          *)
EntryPointRefused(p) ==
  /\ Goto(p, "boot", "serving")
  /\ functional' = [functional EXCEPT ![p] = TRUE]
  /\ ResumeSampling(p)
  /\ UNCHANGED <<sharedVars, began, counter, preloadDetected, env, applied,
                 distributionVars>>

RequestShutdown(p) ==
  LET undo == ~preloadDetected[p] /\ functional[p] IN
  /\ Goto(p, "serving", "closing")
  /\ resumed' = IF undo /\ conf[p].snapshot.infer
                THEN [resumed EXCEPT ![p] = FALSE]
                ELSE resumed
  /\ UNCHANGED <<sharedVars, began, counter, preloadDetected, functional, env,
                 applied, distributionVars>>

(* PHP has restored the variables that putenv set and dropped its statics. *)
PostDeactivate(p) ==
  /\ Goto(p, "closing", "idle")
  /\ functional' = [functional EXCEPT ![p] = FALSE]
  /\ env' = [env EXCEPT ![p] = start.env]
  /\ applied' = [applied EXCEPT ![p] = FALSE]
  /\ began' = [began EXCEPT ![p] = 1]
  /\ UNCHANGED <<sharedVars, counter, preloadDetected, resumed,
                 distributionVars>>

-----------------------------------------------------------------------------

(* A forked worker has a copy of what the master holds. *)
ForkWorker(w) ==
  /\ at[Master] = "idle"
  /\ w \in start.workers
  /\ start.preload => counter[Master] > 0
  /\ Fork(w)
  /\ Goto(w, "none", "idle")
  /\ counter' = [counter EXCEPT ![w] = counter[Master]]
  /\ preloadDetected' = [preloadDetected EXCEPT ![w] = preloadDetected[Master]]
  /\ functional' = [functional EXCEPT ![w] = functional[Master]]
  /\ resumed' = [resumed EXCEPT ![w] = resumed[Master]]
  /\ env' = [env EXCEPT ![w] = env[Master]]
  /\ applied' = [applied EXCEPT ![w] = FALSE]
  /\ UNCHANGED <<sharedVars, began>>

(* What a process held is gone with it. *)
Gone(w) ==
  /\ at' = [at EXCEPT ![w] = "none"]
  /\ began' = [began EXCEPT ![w] = 1]
  /\ counter' = [counter EXCEPT ![w] = 0]
  /\ env' = [env EXCEPT ![w] = start.env]
  /\ preloadDetected' = [preloadDetected EXCEPT ![w] = FALSE]
  /\ functional' = [functional EXCEPT ![w] = FALSE]
  /\ resumed' = [resumed EXCEPT ![w] = FALSE]
  /\ applied' = [applied EXCEPT ![w] = FALSE]
  /\ UNCHANGED sharedVars

WorkerExits(w) == at[w] = "idle" /\ Exit(w) /\ Gone(w)

WorkerKilled(w) == kills < start.kills /\ Kill(w) /\ Gone(w)

Coordinator ==
  /\ CoordinatorNext
  /\ kills' <= start.kills
  /\ UNCHANGED <<sharedVars, at, scopeVars>>

RequestNext(p) ==
  \/ RequestInit(p)
  \/ Trigger(p)
  \/ Configured(p)
  \/ OneTimeTaskRead(p)
  \/ OneTimeTaskClaim(p)
  \/ NotBootstrapped(p)
  \/ Bootstrapped(p)
  \/ EntryPointRefused(p)
  \/ RequestShutdown(p)
  \/ PostDeactivate(p)

RequestScopeNext ==
  \/ Coordinator
  \/ MinitDone
  \/ \E p \in Procs : RequestNext(p)
  \/ \E w \in Workers : ForkWorker(w) \/ WorkerExits(w) \/ WorkerKilled(w)

(* A process under way in a trigger goes on, and so does the coordinator   *)
(* in a store; no request need ever come or end.                           *)
RequestScopeSpec ==
  /\ RequestScopeInit
  /\ [][RequestScopeNext]_requestVars
  /\ \A p \in Procs : WF_requestVars(Trigger(p))
  /\ WF_requestVars(Coordinator /\ (StoreLock \/ StoreConfigFiles \/ StoreThrows))

-----------------------------------------------------------------------------
(* Properties.                                                             *)

(* The types of the variables, those of the distribution included. *)
RequestTypeOK ==
  /\ DistributionTypeOK
  /\ start \in Starts
  /\ once \in BOOLEAN
  /\ tasks \in Nat
  /\ at \in [Procs -> Place]
  /\ counter \in [Procs -> 0..3]
  /\ \A f \in {preloadDetected, functional, resumed, applied} :
        f \in [Procs -> BOOLEAN]
  /\ DOMAIN env = Procs

Configuring == {"check", "claim", "boot", "serving"}

(* A request runs with a published configuration at least as new as the    *)
(* newest one that was complete when the request started.                  *)
FreshAtRequest ==
  \A p \in Procs : at[p] \in Configuring =>
    /\ conf[p].local >= began[p]
    /\ conf[p].snapshot.files = published[conf[p].local]

(* What the server published reaches the SDK: while a request is served,   *)
(* each variable has the remote value, or the local one where the file     *)
(* sets nothing, sets what cannot be used, or the local sampler is not     *)
(* one that takes a rate; nothing of an earlier request's file is left.    *)
RemoteTakesEffect ==
  \A p \in Procs : applied[p] /\ start.env["config_file"] = Unset /\ at[p] = "serving" =>
    LET options == OptionsIn(published[conf[p].local])
        Rate == IF Given(options, "sampling_rate") /\ IsRate(options["sampling_rate"])
                THEN options["sampling_rate"].text ELSE Unset
    IN
    /\ start.env["sampler"] \in {Unset, Ratio} /\ Rate # Unset =>
          env[p]["sampler"] = Ratio /\ env[p]["rate"] = Rate
    /\ start.env["sampler"] \notin {Unset, Ratio} \/ Rate = Unset =>
          \A v \in {"sampler", "rate"} : env[p][v] = start.env[v]
    /\ \A name \in DOMAIN SignalOf :
          env[p][SignalOf[name]] =
            IF Given(options, name) /\ SaysFalse(options[name])
            THEN None ELSE start.env[SignalOf[name]]
    /\ Given(options, "deactivate_all_instrumentations")
          /\ SaysTrue(options["deactivate_all_instrumentations"])
          => env[p]["disabled"] = "all"

(* The one-time task is begun once, and by the time any request that does  *)
(* not preload is being served: not by the preloading request, and not     *)
(* missed because the workers inherit the counter of that request.         *)
OneTimeTask ==
  /\ tasks <= 1
  /\ \A p \in Procs :
        at[p] \in {"boot", "serving"} /\ ~preloadDetected[p] => tasks = 1
  /\ at[Master] = "serving" => tasks = 0

(* The sampling thread is awake in a request only: it was resumed by this  *)
(* request, and shutdown suspends it, whatever flags an earlier request or *)
(* the master left in the process.                                         *)
SampledInRequest ==
  \A p \in Procs : resumed[p] =>
    at[p] = "serving" /\ functional[p] /\ conf[p].snapshot.infer
=============================================================================
