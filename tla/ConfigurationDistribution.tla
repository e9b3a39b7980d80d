---------------------- MODULE ConfigurationDistribution ----------------------
(***************************************************************************)
(* Remote configuration on its way from the OpAMP server to a worker: the  *)
(* coordinator's OpAMP client stores the files it receives in shared       *)
(* memory (CoordinatorConfigurationProvider), every PHP process compares   *)
(* the shared revision with its own, copies the files, remaps the options  *)
(* it knows (ElasticDynamicConfigurationAdapter), builds a new snapshot    *)
(* (ConfigurationManager), and takes that snapshot over when a request     *)
(* starts (ConfigurationStorage).                                          *)
(*                                                                         *)
(* A file's content is Malformed, Empty, or a function from the names of   *)
(* the options it sets to JSON values [type, text].  infer_spans is the    *)
(* one remote option with an effect in native code: logging_level becomes  *)
(* the option log_level, which nothing reads, as each sink has a level of  *)
(* its own, from INI and environment.                                      *)
(***************************************************************************)
EXTENDS Naturals, Sequences

CONSTANTS
  Master, Workers,     \* the process that runs MINIT, and those it forks
  Elastic,             \* the name of the file that holds Elastic's options
  Malformed, Empty,
  Configs,             \* configurations: functions from file names to contents
  Scripts,             \* bound: sequences of configurations the server sends
  NoConfig,
  LocalInfer,          \* inferred_spans_enabled by INI and environment
  SegmentFills,        \* may an insertion into the shared segment throw?
  MaxKills             \* bound: processes killed

Procs == {Master} \cup Workers
NoFiles == << >>
NoOption == "unset"
EmptyOption == ""

ASSUME DistributionAssumption ==
  /\ Master \notin Workers
  /\ NoConfig \notin Configs
  /\ LocalInfer \in BOOLEAN
  /\ SegmentFills \in BOOLEAN
  /\ Scripts \subseteq Seq(Configs)
  /\ MaxKills \in Nat

VARIABLES
  script,      \* what the server is still going to send
  hash,        \* currentConfigHash_ and configFiles_: the last one received
  store,       \* where the coordinator is in storeConfigFiles, or "terminated"
  coordinator, \* FALSE: the coordinator was killed
  revision,    \* configRevision, shared
  shared,      \* configFiles, shared
  place,       \* where each PHP process is in triggerUpdateIfChanged
  orphaned,    \* a process died while it held the lock for reading
  conf,        \* the local state of each PHP process
  published,   \* history: published[r] is what the lock released as revision r
  kills

distributionVars == <<script, hash, store, coordinator, revision, shared,
                      place, orphaned, conf, published, kills>>

storeVars == <<script, hash, store, coordinator, revision, shared, published>>
procVars == <<place, orphaned, conf, kills>>

(* A snapshot: its revision, the files it came with, inferred_spans_enabled. *)
Snapshot(r, files, infer) == [revision |-> r, files |-> files, infer |-> infer]

(* MINIT up to the first look at the shared revision.  debug: do the levels *)
(* of the sinks, or log_features, let debug messages of CONFIG through?    *)
Minit(debug) ==
         [debug    |-> debug,
          local    |-> 0,
          options  |-> NoOption,
          manager  |-> Snapshot(2, NoFiles, LocalInfer),
          snapshot |-> Snapshot(2, NoFiles, LocalInfer)]

DistributionInit ==
  /\ script \in Scripts
  /\ hash = NoConfig
  /\ store = "idle"
  /\ coordinator = TRUE
  /\ revision = 1
  /\ shared = NoFiles
  /\ place = [p \in Procs |-> IF p = Master THEN "waiting" ELSE "none"]
  /\ orphaned = FALSE
  /\ \E debug \in BOOLEAN : conf = [p \in Procs |-> Minit(debug)]
  /\ published = <<NoFiles>>
  /\ kills = 0

-----------------------------------------------------------------------------
(* The coordinator.                                                        *)

(* A response of the server: a configuration with the hash of the last one *)
(* is ignored; else the hash is taken over first, then the watcher asks    *)
(* for the exclusive lock.                                                 *)
HandleServerToAgent ==
  /\ coordinator
  /\ store = "idle"
  /\ script # << >>
  /\ script' = Tail(script)
  /\ hash' = Head(script)
  /\ store' = IF Head(script) = hash THEN store ELSE "claiming"
  /\ UNCHANGED <<coordinator, revision, shared, published, procVars>>

\* Mutant of StoreLock: readers that wait go first, and they wait for the store.
StoreLockAfterReaders ==
  /\ coordinator
  /\ store = "claiming"
  /\ ~orphaned
  /\ \A p \in Procs : place[p] \notin {"waiting", "copying"}
  /\ store' = "storing"
  /\ revision' = revision + 1
  /\ UNCHANGED <<script, hash, coordinator, shared, published, procVars>>

(* The exclusive lock is granted when the last reader has gone. *)
StoreLock ==
  /\ coordinator
  /\ store = "claiming"
  /\ ~orphaned
  /\ \A p \in Procs : place[p] # "copying"
  /\ store' = "storing"
  /\ revision' = revision + 1
  /\ UNCHANGED <<script, hash, coordinator, shared, published, procVars>>

(* insert_or_assign of some of the received files; none is erased. *)
Inserted(names) ==
  [n \in names \cup DOMAIN shared |-> IF n \in names THEN hash[n] ELSE shared[n]]

\* Mutant of StoreConfigFiles: the revision is raised once more at the end.
StoreConfigFilesRaising ==
  /\ coordinator
  /\ store = "storing"
  /\ store' = "idle"
  /\ revision' = revision + 1
  /\ shared' = Inserted(DOMAIN hash)
  /\ published' = Append(published, shared')
  /\ UNCHANGED <<script, hash, coordinator, procVars>>

StoreConfigFiles ==
  /\ coordinator
  /\ store = "storing"
  /\ store' = "idle"
  /\ shared' = Inserted(DOMAIN hash)
  /\ published' = Append(published, shared')
  /\ UNCHANGED <<script, hash, coordinator, revision, procVars>>

(* The segment is full: some files are in, the lock is released, and an    *)
(* exception that the sender thread does not catch ends the coordinator.   *)
StoreThrows ==
  /\ SegmentFills
  /\ coordinator
  /\ store = "storing"
  /\ store' = "terminated"
  /\ \E stored \in SUBSET DOMAIN hash :
        /\ stored # DOMAIN hash
        /\ shared' = Inserted(stored)
  /\ published' = Append(published, shared')
  /\ UNCHANGED <<script, hash, coordinator, revision, procVars>>

\* Mutant of SendHeartbeat: the hash is read without configAccessMutex_.
SendHeartbeatUnlocked(c) ==
  /\ coordinator
  /\ store # "terminated"
  /\ hash # NoConfig
  /\ c = hash

(* What a heartbeat reports as APPLIED, which changes nothing here.        *)
(* configAccessMutex_ keeps it out while a configuration is being stored.  *)
SendHeartbeat(c) ==
  /\ coordinator
  /\ store = "idle"
  /\ hash # NoConfig
  /\ c = hash

CoordinatorKilled ==
  /\ coordinator
  /\ kills < MaxKills
  /\ coordinator' = FALSE
  /\ kills' = kills + 1
  /\ UNCHANGED <<script, hash, store, revision, shared, published, place, orphaned, conf>>

-----------------------------------------------------------------------------
(* A PHP process.                                                          *)

TriggerUpdateIfChanged(p) ==
  /\ place[p] = "idle"
  /\ place' = [place EXCEPT ![p] = "waiting"]
  /\ UNCHANGED <<orphaned, conf, kills, storeVars>>

(* boost's mutex lets no reader in once a writer has asked for it. *)
Readable == store \notin {"claiming", "storing"}

\* Mutant of TriggerUnchanged: a process that has a configuration keeps it.
TriggerUnchangedOnce(p) ==
  /\ place[p] = "waiting"
  /\ Readable
  /\ conf[p].local # 0
  /\ place' = [place EXCEPT ![p] = "idle"]
  /\ UNCHANGED <<orphaned, conf, kills, storeVars>>

TriggerUnchanged(p) ==
  /\ place[p] = "waiting"
  /\ Readable
  /\ conf[p].local = revision
  /\ place' = [place EXCEPT ![p] = "idle"]
  /\ UNCHANGED <<orphaned, conf, kills, storeVars>>

\* Mutant of TriggerChanged: the revision is read before the lock is taken.
TriggerChangedUnlocked(p) ==
  /\ place[p] = "waiting"
  /\ conf[p].local # revision
  /\ place' = [place EXCEPT ![p] = "copying"]
  /\ conf' = [conf EXCEPT ![p].local = revision]
  /\ UNCHANGED <<orphaned, kills, storeVars>>

TriggerChanged(p) ==
  /\ place[p] = "waiting"
  /\ Readable
  /\ conf[p].local # revision
  /\ place' = [place EXCEPT ![p] = "copying"]
  /\ conf' = [conf EXCEPT ![p].local = revision]
  /\ UNCHANGED <<orphaned, kills, storeVars>>

(* remapOptions: only the two words are taken over.  The debug message     *)
(* about it names result[...], which inserts an empty option for any other *)
(* word, when the message is logged.                                       *)
RemapOptions(debug, content) ==
  IF "infer_spans" \notin DOMAIN content THEN NoOption
  ELSE LET word == content["infer_spans"].text IN
       IF word \in {"true", "false"} THEN word
       ELSE IF debug THEN EmptyOption ELSE NoOption

\* Mutant of AdapterUpdate: an empty file leaves the options as well.
AdapterUpdateKeeping(debug, options, files) ==
  IF Elastic \notin DOMAIN files THEN NoOption
  ELSE IF files[Elastic] \in {Empty, Malformed} THEN options
  ELSE RemapOptions(debug, files[Elastic])

(* A malformed file leaves the options of an earlier one in force. *)
AdapterUpdate(debug, options, files) ==
  IF Elastic \notin DOMAIN files \/ files[Elastic] = Empty THEN NoOption
  ELSE IF files[Elastic] = Malformed THEN options
  ELSE RemapOptions(debug, files[Elastic])

(* fetchStringValue: a remote value goes before INI and environment, an    *)
(* empty one too, and parseBoolean reads that as false.                    *)
Effective(option) == IF option = NoOption THEN LocalInfer ELSE option = "true"

(* The rest of the trigger: copy, both watchers' work, release of the lock. *)
TriggerCopy(p) ==
  LET options == AdapterUpdate(conf[p].debug, conf[p].options, shared) IN
  /\ place[p] = "copying"
  /\ place' = [place EXCEPT ![p] = "idle"]
  /\ conf' = [conf EXCEPT
       ![p].options = options,
       ![p].manager = Snapshot(@.revision + 1, shared, Effective(options))]
  /\ UNCHANGED <<orphaned, kills, storeVars>>

(* ConfigurationStorage::update *)
UpdateSnapshot(p) ==
  /\ place[p] = "idle"
  /\ conf' = IF conf[p].snapshot.revision # conf[p].manager.revision
             THEN [conf EXCEPT ![p].snapshot = conf[p].manager]
             ELSE conf
  /\ UNCHANGED <<place, orphaned, kills, storeVars>>

(* The master forks a worker, the first or a replacement. *)
Fork(w) ==
  /\ place[Master] = "idle"
  /\ place[w] = "none"
  /\ place' = [place EXCEPT ![w] = "idle"]
  /\ conf' = [conf EXCEPT ![w] = conf[Master]]
  /\ UNCHANGED <<orphaned, kills, storeVars>>

(* A worker ends between requests (pm.max_requests and the like); what it  *)
(* held is gone.                                                           *)
Exit(w) ==
  /\ place[w] = "idle"
  /\ place' = [place EXCEPT ![w] = "none"]
  /\ conf' = [conf EXCEPT ![w] = Minit(@.debug)]
  /\ UNCHANGED <<orphaned, kills, storeVars>>

(* A worker is killed; nothing releases a lock that it holds. *)
Kill(w) ==
  /\ place[w] # "none"
  /\ kills < MaxKills
  /\ kills' = kills + 1
  /\ orphaned' = (orphaned \/ place[w] = "copying")
  /\ place' = [place EXCEPT ![w] = "none"]
  /\ conf' = [conf EXCEPT ![w] = Minit(@.debug)]
  /\ UNCHANGED storeVars

CoordinatorNext ==
  \/ HandleServerToAgent
  \/ StoreLock
  \/ StoreConfigFiles
  \/ StoreThrows
  \/ CoordinatorKilled

ProcNext(p) ==
  \/ TriggerUpdateIfChanged(p)
  \/ TriggerUnchanged(p)
  \/ TriggerChanged(p)
  \/ TriggerCopy(p)
  \/ UpdateSnapshot(p)

DistributionNext ==
  \/ CoordinatorNext
  \/ \E p \in Procs : ProcNext(p)
  \/ \E w \in Workers : Fork(w) \/ Exit(w) \/ Kill(w)

DistributionSpec == DistributionInit /\ [][DistributionNext]_distributionVars

-----------------------------------------------------------------------------
(* Properties.                                                             *)

(* The types of the variables, and that a revision counts the stores whose *)
(* lock has been released, the one under way included.                     *)
DistributionTypeOK ==
  /\ script \in Seq(Configs)
  /\ hash \in Configs \cup {NoConfig}
  /\ store \in {"idle", "claiming", "storing", "terminated"}
  /\ coordinator \in BOOLEAN
  /\ revision = Len(published) + (IF store = "storing" THEN 1 ELSE 0)
  /\ published # << >>
  /\ published[Len(published)] = shared
  /\ place \in [Procs -> {"none", "idle", "waiting", "copying"}]
  /\ orphaned \in BOOLEAN
  /\ \A p \in Procs : conf[p].local \in 0..revision
  /\ kills \in 0..MaxKills

Settled(p) == place[p] \in {"idle", "waiting"}

(* A process at a revision holds exactly the files that the coordinator    *)
(* published under that number, whatever stores, copies, forks and deaths  *)
(* came between: no copy is torn, and two processes at one revision agree. *)
RevisionHoldsFiles ==
  \A p \in Procs : Settled(p) =>
    \/ conf[p].local = 0 /\ conf[p].manager.files = NoFiles
    \/ /\ conf[p].local \in 1..Len(published)
       /\ conf[p].manager.files = published[conf[p].local]

(* What the native options of a process should follow: the file it holds,  *)
(* which an empty or absent one does not set, or Malformed.                *)
RemoteOptions(p) ==
  LET files == conf[p].manager.files IN
  IF Elastic \in DOMAIN files /\ files[Elastic] # Empty THEN files[Elastic] ELSE NoFiles

(* The native option follows the file the process holds: an option that    *)
(* the newest file does not set is back to its local value.  So is one set *)
(* to a word that is not accepted, unless debug messages are logged: then  *)
(* it is off, whatever its local value.  Only a malformed file leaves the  *)
(* earlier value, by the adapter's design.                                 *)
OptionsFollowFile ==
  \A p \in Procs :
    LET remote == RemoteOptions(p)
        infer == conf[p].manager.infer
    IN
    Settled(p) /\ remote # Malformed =>
      IF "infer_spans" \in DOMAIN remote
      THEN LET word == remote["infer_spans"].text IN
           /\ word = "true" => infer
           /\ word = "false" => ~infer
           /\ word \notin {"true", "false"} => infer = (LocalInfer /\ ~conf[p].debug)
      ELSE infer = LocalInfer

(* A configuration that a heartbeat reports as APPLIED has been stored     *)
(* whole: every file of it is published with its content.                  *)
ReportedIsStored ==
  \A c \in Configs : SendHeartbeat(c) =>
    \A n \in DOMAIN c : n \in DOMAIN shared /\ shared[n] = c[n]

(* Nothing releases the lock of a process that died with it. *)
Blocked == orphaned \/ (~coordinator /\ store \in {"claiming", "storing"})

(* Every process that waits for the lock gets it, the coordinator too,     *)
(* unless somebody died while holding or claiming it.                      *)
LockReturns ==
  /\ \A p \in Procs : place[p] = "waiting" ~> (place[p] # "waiting" \/ Blocked)
  /\ store = "claiming" ~> (store # "claiming" \/ Blocked)
=============================================================================
