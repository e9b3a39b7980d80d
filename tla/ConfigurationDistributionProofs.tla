------------------- MODULE ConfigurationDistributionProofs -------------------
(***************************************************************************)
(* Machine-checked proofs about ConfigurationDistribution, for any number  *)
(* of workers, any configurations in any order, and any deaths.            *)
(***************************************************************************)
EXTENDS ConfigurationDistribution, TLAPS

-----------------------------------------------------------------------------
(* The inductive invariant.                                                *)

Names == UNION {DOMAIN c : c \in Configs}
Contents == UNION {{c[n] : n \in DOMAIN c} : c \in Configs}

\* What a store can hold.
Files == UNION {[N -> Contents] : N \in SUBSET Names}

Snapshots == [revision : Nat, files : Files, infer : BOOLEAN]

Options == {NoOption, EmptyOption, "true", "false"}

Confs == [debug : BOOLEAN, local : Nat, options : Options, manager : Snapshots,
          snapshot : Snapshots]

\* The types, in the detail the proofs need.
Types ==
  /\ DistributionTypeOK
  /\ shared \in Files
  /\ published \in Seq(Files)
  /\ conf \in [Procs -> Confs]

\* Readers keep the writer out: a process that copies is at the newest
\* revision, and that revision is complete.
ReadersAlone ==
  \A p \in Procs : place[p] = "copying" => store # "storing" /\ conf[p].local = revision

\* What is being stored is a configuration, and what has been stored is there.
Received ==
  /\ store \in {"claiming", "storing"} => hash \in Configs
  /\ store = "idle" /\ hash # NoConfig =>
       \A n \in DOMAIN hash : n \in DOMAIN shared /\ shared[n] = hash[n]

\* The options of a process are those that its files give, or, under a
\* malformed file, those it had.
OptionsOfFiles ==
  \A p \in Procs :
    /\ conf[p].options
         = AdapterUpdate(conf[p].debug, conf[p].options, conf[p].manager.files)
    /\ conf[p].manager.infer = Effective(conf[p].options)

DInv == Types /\ ReadersAlone /\ Received /\ RevisionHoldsFiles /\ OptionsOfFiles

-----------------------------------------------------------------------------
(* Lemmas about the values.                                                *)

LEMMA NoFilesType == NoFiles \in Files /\ DOMAIN NoFiles = {}
<1>1. NoFiles \in [{} -> Contents] /\ DOMAIN NoFiles = {}
  BY DEF NoFiles
<1> QED
  BY <1>1 DEF Files

LEMMA FilesAreFunctions ==
  ASSUME NEW f \in Files
  PROVE  /\ DOMAIN f \subseteq Names
         /\ f = [n \in DOMAIN f |-> f[n]]
         /\ \A n \in DOMAIN f : f[n] \in Contents
<1> PICK N \in SUBSET Names : f \in [N -> Contents]
  BY DEF Files
<1> QED
  OBVIOUS

LEMMA FunctionsAreFiles ==
  ASSUME NEW N \in SUBSET Names, NEW f \in [N -> Contents]
  PROVE  f \in Files
BY DEF Files

\* Inserting received files into a store makes a store with those files.
LEMMA InsertedType ==
  ASSUME shared \in Files, hash \in Configs, NEW names \in SUBSET DOMAIN hash
  PROVE  /\ Inserted(names) \in Files
         /\ \A n \in names : n \in DOMAIN Inserted(names) /\ Inserted(names)[n] = hash[n]
<1> DEFINE f == Inserted(names)
           D == names \cup DOMAIN shared
<1>1. f = [n \in D |-> IF n \in names THEN hash[n] ELSE shared[n]]
  BY DEF Inserted
<1>2. /\ DOMAIN shared \subseteq Names
      /\ \A n \in DOMAIN shared : shared[n] \in Contents
  BY FilesAreFunctions
<1>3. DOMAIN hash \subseteq Names
  BY DEF Names
<1>4. \A n \in DOMAIN hash : hash[n] \in Contents
  BY DEF Contents
<1>5. D \in SUBSET Names
  BY <1>2, <1>3
<1>6. \A n \in D : (IF n \in names THEN hash[n] ELSE shared[n]) \in Contents
  BY <1>2, <1>4
<1>7. f \in [D -> Contents]
  BY <1>1, <1>6
<1>8. f \in Files
  BY <1>5, <1>7, FunctionsAreFiles
<1> QED
  BY <1>1, <1>8

\* The adapter's options are well typed, and those of the files it got.
LEMMA AdapterUpdateType ==
  ASSUME NEW debug, NEW options \in Options, NEW files
  PROVE  /\ AdapterUpdate(debug, options, files) \in Options
         /\ AdapterUpdate(debug, AdapterUpdate(debug, options, files), files)
              = AdapterUpdate(debug, options, files)
BY DEF AdapterUpdate, RemapOptions, Options

\* Deaths stay within their bound.
LEMMA KillsType ==
  ASSUME DInv, kills < MaxKills PROVE kills + 1 \in 0..MaxKills
BY DistributionAssumption DEF DInv, Types, DistributionTypeOK

LEMMA EffectiveType ==
  ASSUME NEW option PROVE Effective(option) \in BOOLEAN
BY DistributionAssumption DEF Effective

LEMMA MinitType ==
  ASSUME NEW debug \in BOOLEAN, NEW c, c = Minit(debug)
  PROVE  /\ c \in Confs /\ c.debug = debug
         /\ c.local = 0 /\ c.manager.files = NoFiles
         /\ c.options = AdapterUpdate(c.debug, c.options, c.manager.files)
         /\ c.manager.infer = Effective(c.options)
<1>1. Snapshot(2, NoFiles, LocalInfer) \in Snapshots
  BY NoFilesType, DistributionAssumption DEF Snapshot, Snapshots
<1>2. /\ c.manager = Snapshot(2, NoFiles, LocalInfer)
      /\ c.options = NoOption /\ c.local = 0 /\ c.debug = debug
      /\ c.manager.files = NoFiles /\ c.manager.infer = LocalInfer
  BY DEF Minit, Snapshot
<1>3. c \in Confs
  BY <1>1 DEF Minit, Confs, Options
<1> QED
  BY <1>2, <1>3, NoFilesType DEF AdapterUpdate, Effective

-----------------------------------------------------------------------------
(* The initial states and the steps.                                       *)

LEMMA DInvInit == DistributionInit => DInv
<1> SUFFICES ASSUME DistributionInit PROVE DInv
  OBVIOUS
<1> PICK debug \in BOOLEAN : conf = [p \in Procs |-> Minit(debug)]
  BY DEF DistributionInit
<1> DEFINE c == Minit(debug)
<1>0. /\ c \in Confs /\ c.local = 0 /\ c.manager.files = NoFiles
      /\ c.options = AdapterUpdate(c.debug, c.options, c.manager.files)
      /\ c.manager.infer = Effective(c.options)
  BY MinitType
<1> HIDE DEF c
<1>1. conf \in [Procs -> Confs] /\ \A p \in Procs : conf[p] = c
  BY <1>0 DEF c
<1>2. published = <<NoFiles>> /\ published \in Seq(Files) /\ Len(published) = 1
  BY NoFilesType DEF DistributionInit
<1>3. script \in Seq(Configs)
  BY DistributionAssumption DEF DistributionInit
<1>4. place \in [Procs -> {"none", "idle", "waiting", "copying"}]
  BY DEF DistributionInit
<1>5. DistributionTypeOK
  <2>1. 0 \in 0..MaxKills
    BY DistributionAssumption
  <2>2. revision = Len(published) + (IF store = "storing" THEN 1 ELSE 0)
    BY <1>2 DEF DistributionInit
  <2>3. published # << >> /\ published[Len(published)] = shared
    BY <1>2 DEF DistributionInit
  <2>4. \A p \in Procs : conf[p].local \in 0..revision
    BY <1>0, <1>1 DEF DistributionInit
  <2> QED
    BY <1>3, <1>4, <2>1, <2>2, <2>3, <2>4 DEF DistributionInit, DistributionTypeOK
<1>6. Types
  BY <1>1, <1>2, <1>5, NoFilesType DEF DistributionInit, Types
<1>7. ReadersAlone /\ Received
  BY DEF DistributionInit, ReadersAlone, Received
<1>8. RevisionHoldsFiles /\ OptionsOfFiles
  BY <1>0, <1>1 DEF RevisionHoldsFiles, OptionsOfFiles
<1> QED
  BY <1>6, <1>7, <1>8 DEF DInv

\* What the coordinator does outside a store.
LEMMA CoordinatorKeeps ==
  ASSUME DInv, HandleServerToAgent \/ StoreLock \/ CoordinatorKilled
  PROVE  DInv'
<1> USE DEF storeVars, procVars
<1>1. CASE HandleServerToAgent
  <2>1. Head(script) \in Configs /\ Tail(script) \in Seq(Configs)
    BY <1>1 DEF HandleServerToAgent, DInv, Types, DistributionTypeOK
  <2>2. Types' /\ ReadersAlone' /\ RevisionHoldsFiles' /\ OptionsOfFiles'
    BY <1>1, <2>1 DEF HandleServerToAgent, DInv, Types, DistributionTypeOK, ReadersAlone,
                      RevisionHoldsFiles, Settled, OptionsOfFiles
  <2>3. Received'
    BY <1>1, <2>1, DistributionAssumption
       DEF HandleServerToAgent, DInv, Types, DistributionTypeOK, Received
  <2> QED
    BY <2>2, <2>3 DEF DInv
<1>2. CASE StoreLock
  <2>1. Len(published) \in Nat
    BY DEF DInv, Types
  <2>2. Types'
    BY <1>2, <2>1 DEF StoreLock, DInv, Types, DistributionTypeOK, Confs
  <2>3. ReadersAlone' /\ RevisionHoldsFiles' /\ OptionsOfFiles' /\ Received'
    BY <1>2 DEF StoreLock, DInv, ReadersAlone, Received, RevisionHoldsFiles, Settled,
                OptionsOfFiles
  <2> QED
    BY <2>2, <2>3 DEF DInv
<1>3. CASE CoordinatorKilled
  <2>1. Types'
    BY <1>3, KillsType DEF CoordinatorKilled, DInv, Types, DistributionTypeOK
  <2>2. ReadersAlone' /\ RevisionHoldsFiles' /\ OptionsOfFiles' /\ Received'
    BY <1>3 DEF CoordinatorKilled, DInv, ReadersAlone, Received, RevisionHoldsFiles, Settled,
                OptionsOfFiles
  <2> QED
    BY <2>1, <2>2 DEF DInv
<1> QED
  BY <1>1, <1>2, <1>3

\* The end of a store, complete or not, publishes what the segment holds.
LEMMA StoreKeeps ==
  ASSUME DInv, StoreConfigFiles \/ StoreThrows
  PROVE  DInv'
<1>1. PICK names \in SUBSET DOMAIN hash :
        /\ shared' = Inserted(names)
        /\ store' = "idle" => names = DOMAIN hash
  BY DEF StoreConfigFiles, StoreThrows
<1>2. /\ store = "storing" /\ store' \in {"idle", "terminated"}
      /\ published' = Append(published, shared')
      /\ UNCHANGED <<script, hash, coordinator, revision, place, orphaned, conf, kills>>
  BY DEF StoreConfigFiles, StoreThrows, procVars
<1>3. hash \in Configs /\ shared \in Files /\ published \in Seq(Files)
  BY <1>2 DEF DInv, Types, Received
<1>4. /\ shared' \in Files
      /\ \A n \in names : n \in DOMAIN shared' /\ shared'[n] = hash[n]
  BY <1>1, <1>3, InsertedType
<1>5. /\ published' \in Seq(Files) /\ Len(published') = Len(published) + 1
      /\ published'[Len(published')] = shared'
      /\ Len(published) \in Nat
      /\ \A i \in 1..Len(published) : published'[i] = published[i]
  BY <1>2, <1>3, <1>4
<1>6. Types'
  BY <1>2, <1>4, <1>5 DEF DInv, Types, DistributionTypeOK
<1>7. ReadersAlone'
  BY <1>2 DEF DInv, ReadersAlone
<1>8. Received'
  BY <1>1, <1>2, <1>4 DEF Received
<1>9. RevisionHoldsFiles'
  BY <1>2, <1>5 DEF DInv, RevisionHoldsFiles, Settled
<1>10. OptionsOfFiles'
  BY <1>2 DEF DInv, OptionsOfFiles
<1> QED
  BY <1>6, <1>7, <1>8, <1>9, <1>10 DEF DInv

\* The trigger of a process, up to the copy.
LEMMA TriggerKeeps ==
  ASSUME DInv, NEW p \in Procs,
         TriggerUpdateIfChanged(p) \/ TriggerUnchanged(p) \/ TriggerChanged(p)
  PROVE  DInv'
<1>0. revision \in Nat /\ Len(published) \in Nat
  BY DEF DInv, Types, DistributionTypeOK
<1>1. CASE TriggerUpdateIfChanged(p) \/ TriggerUnchanged(p)
  <2>1. \E where \in {"idle", "waiting"} : place' = [place EXCEPT ![p] = where]
    BY <1>1 DEF TriggerUpdateIfChanged, TriggerUnchanged
  <2>2. UNCHANGED <<orphaned, conf, kills, storeVars>> /\ Settled(p)
    BY <1>1 DEF TriggerUpdateIfChanged, TriggerUnchanged, Settled
  <2>3. Types'
    BY <2>1, <2>2 DEF storeVars, DInv, Types, DistributionTypeOK
  <2>4. ReadersAlone' /\ Received' /\ RevisionHoldsFiles' /\ OptionsOfFiles'
    BY <2>1, <2>2 DEF storeVars, DInv, Types, DistributionTypeOK, ReadersAlone, Received,
                      RevisionHoldsFiles, Settled, OptionsOfFiles
  <2> QED
    BY <2>3, <2>4 DEF DInv
<1>2. CASE TriggerChanged(p)
  <2>1. /\ place' = [place EXCEPT ![p] = "copying"]
        /\ conf' = [conf EXCEPT ![p].local = revision]
        /\ store # "storing"
        /\ UNCHANGED <<orphaned, kills, storeVars>>
    BY <1>2 DEF TriggerChanged, Readable
  <2>2. /\ conf' \in [Procs -> Confs]
        /\ \A q \in Procs : /\ conf'[q].local = IF q = p THEN revision ELSE conf[q].local
                            /\ conf'[q].options = conf[q].options
                            /\ conf'[q].manager = conf[q].manager
                            /\ conf'[q].debug = conf[q].debug
    BY <1>0, <2>1 DEF DInv, Types, Confs
  <2>3. Types'
    BY <1>0, <2>1, <2>2 DEF storeVars, DInv, Types, DistributionTypeOK
  <2>4. ReadersAlone' /\ Received' /\ RevisionHoldsFiles' /\ OptionsOfFiles'
    BY <2>1, <2>2 DEF storeVars, DInv, Types, DistributionTypeOK, ReadersAlone, Received,
                      RevisionHoldsFiles, Settled, OptionsOfFiles
  <2> QED
    BY <2>3, <2>4 DEF DInv
<1> QED
  BY <1>1, <1>2

\* The copy: nothing is stored while it lasts, so what the process holds
\* afterwards is what was published under its revision.
LEMMA CopyKeeps ==
  ASSUME DInv, NEW p \in Procs, TriggerCopy(p)
  PROVE  DInv'
<1> DEFINE options == AdapterUpdate(conf[p].debug, conf[p].options, shared)
           manager == Snapshot(conf[p].manager.revision + 1, shared, Effective(options))
<1>1. /\ place[p] = "copying"
      /\ place' = [place EXCEPT ![p] = "idle"]
      /\ conf' = [conf EXCEPT ![p].options = options, ![p].manager = manager]
      /\ UNCHANGED <<orphaned, kills, storeVars>>
  BY DEF TriggerCopy
<1>2. /\ options \in Options /\ options = AdapterUpdate(conf[p].debug, options, shared)
      /\ manager \in Snapshots /\ manager.files = shared /\ manager.infer = Effective(options)
  <2>1. /\ conf[p].options \in Options /\ conf[p].manager.revision + 1 \in Nat
        /\ shared \in Files
    BY DEF DInv, Types, Confs, Snapshots
  <2> QED
    BY <2>1, AdapterUpdateType, EffectiveType DEF Snapshot, Snapshots
<1> HIDE DEF options, manager
<1>3. /\ conf' \in [Procs -> Confs]
      /\ conf'[p].options = options /\ conf'[p].manager = manager
      /\ conf'[p].local = conf[p].local /\ conf'[p].debug = conf[p].debug
      /\ \A q \in Procs \ {p} : conf'[q] = conf[q]
  BY <1>1, <1>2 DEF DInv, Types, Confs
<1>4. Types'
  BY <1>1, <1>3 DEF storeVars, DInv, Types, DistributionTypeOK
<1>5. ReadersAlone' /\ Received'
  BY <1>1, <1>3 DEF storeVars, DInv, Types, DistributionTypeOK, ReadersAlone, Received
<1>6. /\ conf[p].local = Len(published) /\ conf[p].local \in 1..Len(published)
      /\ published[conf[p].local] = shared
  BY <1>1 DEF DInv, ReadersAlone, Types, DistributionTypeOK
<1>7. RevisionHoldsFiles'
  BY <1>1, <1>2, <1>3, <1>6 DEF storeVars, DInv, Types, DistributionTypeOK, RevisionHoldsFiles,
                                Settled
<1>8. OptionsOfFiles'
  BY <1>1, <1>2, <1>3 DEF DInv, OptionsOfFiles
<1> QED
  BY <1>4, <1>5, <1>7, <1>8 DEF DInv

\* Taking over a snapshot, and the births and deaths of processes.
LEMMA ProcessKeeps ==
  ASSUME DInv,
         \/ \E p \in Procs : UpdateSnapshot(p)
         \/ \E w \in Workers : Fork(w) \/ Exit(w) \/ Kill(w)
  PROVE  DInv'
<1>0. Workers \subseteq Procs /\ Master \in Procs /\ revision \in Nat
  BY DEF Procs, DInv, Types, DistributionTypeOK
<1>1. CASE \E p \in Procs : UpdateSnapshot(p)
  <2> PICK p \in Procs : UpdateSnapshot(p)
    BY <1>1
  <2>1. UNCHANGED <<place, orphaned, kills, storeVars>>
    BY DEF UpdateSnapshot
  <2>2. /\ conf' \in [Procs -> Confs]
        /\ \A q \in Procs : /\ conf'[q].local = conf[q].local
                            /\ conf'[q].options = conf[q].options
                            /\ conf'[q].manager = conf[q].manager
                            /\ conf'[q].debug = conf[q].debug
    BY DEF UpdateSnapshot, DInv, Types, Confs
  <2>3. Types'
    BY <2>1, <2>2 DEF storeVars, DInv, Types, DistributionTypeOK
  <2>4. ReadersAlone' /\ Received' /\ RevisionHoldsFiles' /\ OptionsOfFiles'
    BY <2>1, <2>2 DEF storeVars, DInv, ReadersAlone, Received, RevisionHoldsFiles, Settled,
                      OptionsOfFiles
  <2> QED
    BY <2>3, <2>4 DEF DInv
<1>2. ASSUME NEW w \in Workers, Fork(w) PROVE DInv'
  <2>1. /\ Settled(Master)
        /\ place' = [place EXCEPT ![w] = "idle"]
        /\ conf' = [conf EXCEPT ![w] = conf[Master]]
        /\ UNCHANGED <<orphaned, kills, storeVars>>
    BY <1>2 DEF Fork, Settled
  <2>2. /\ conf' \in [Procs -> Confs]
        /\ \A q \in Procs : conf'[q] = IF q = w THEN conf[Master] ELSE conf[q]
    BY <1>0, <2>1 DEF DInv, Types
  <2>3. Types'
    BY <1>0, <2>1, <2>2 DEF storeVars, DInv, Types, DistributionTypeOK
  <2>4. ReadersAlone' /\ Received' /\ RevisionHoldsFiles' /\ OptionsOfFiles'
    BY <1>0, <2>1, <2>2 DEF storeVars, DInv, Types, DistributionTypeOK, ReadersAlone, Received,
                            RevisionHoldsFiles, Settled, OptionsOfFiles
  <2> QED
    BY <2>3, <2>4 DEF DInv
<1>3. ASSUME NEW w \in Workers, Exit(w) \/ Kill(w) PROVE DInv'
  <2> DEFINE c == Minit(conf[w].debug)
  <2>0. /\ c \in Confs /\ c.local = 0 /\ c.manager.files = NoFiles
        /\ c.options = AdapterUpdate(c.debug, c.options, c.manager.files)
        /\ c.manager.infer = Effective(c.options)
    <3>1. conf[w].debug \in BOOLEAN
      BY <1>0 DEF DInv, Types, Confs
    <3> QED
      BY <3>1, MinitType
  <2>1. /\ place' = [place EXCEPT ![w] = "none"]
        /\ conf' = [conf EXCEPT ![w] = c]
        /\ UNCHANGED storeVars
        /\ kills' \in 0..MaxKills /\ orphaned' \in BOOLEAN
    <3>1. CASE Exit(w)
      BY <3>1 DEF Exit, DInv, Types, DistributionTypeOK
    <3>2. CASE Kill(w)
      BY <3>2, KillsType DEF Kill, DInv, Types, DistributionTypeOK
    <3> QED
      BY <1>3, <3>1, <3>2
  <2> HIDE DEF c
  <2>2. /\ conf' \in [Procs -> Confs]
        /\ \A q \in Procs : conf'[q] = IF q = w THEN c ELSE conf[q]
    BY <1>0, <2>0, <2>1 DEF DInv, Types
  <2>3. Types'
    BY <1>0, <2>0, <2>1, <2>2 DEF storeVars, DInv, Types, DistributionTypeOK
  <2>4. ReadersAlone' /\ Received' /\ RevisionHoldsFiles' /\ OptionsOfFiles'
    BY <1>0, <2>0, <2>1, <2>2
       DEF storeVars, DInv, Types, DistributionTypeOK, ReadersAlone, Received,
           RevisionHoldsFiles, Settled, OptionsOfFiles
  <2> QED
    BY <2>3, <2>4 DEF DInv
<1> QED
  BY <1>1, <1>2, <1>3

LEMMA DInvNext ==
  ASSUME DInv, [DistributionNext]_distributionVars
  PROVE  DInv'
<1>1. CASE CoordinatorNext
  BY <1>1, CoordinatorKeeps, StoreKeeps DEF CoordinatorNext
<1>2. ASSUME NEW p \in Procs, ProcNext(p) PROVE DInv'
  BY <1>2, TriggerKeeps, CopyKeeps, ProcessKeeps DEF ProcNext
<1>3. CASE \E w \in Workers : Fork(w) \/ Exit(w) \/ Kill(w)
  BY <1>3, ProcessKeeps
<1>4. CASE UNCHANGED distributionVars
  <2>1. Types'
    BY <1>4 DEF distributionVars, DInv, Types, DistributionTypeOK
  <2>2. ReadersAlone' /\ Received' /\ RevisionHoldsFiles' /\ OptionsOfFiles'
    BY <1>4 DEF distributionVars, DInv, ReadersAlone, Received, RevisionHoldsFiles, Settled,
                OptionsOfFiles
  <2> QED
    BY <2>1, <2>2 DEF DInv
<1> QED
  BY <1>1, <1>2, <1>3, <1>4 DEF DistributionNext

LEMMA DInvHolds == DistributionSpec => []DInv
BY DInvInit, DInvNext, PTL DEF DistributionSpec

-----------------------------------------------------------------------------
(* The properties.                                                         *)

LEMMA DInvReports == DInv => ReportedIsStored
BY DEF DInv, Received, ReportedIsStored, SendHeartbeat

\* What the adapter computes is what the file says, but for a refused word.
LEMMA DInvOptions == DInv => OptionsFollowFile
<1> SUFFICES ASSUME DInv, NEW p \in Procs, RemoteOptions(p) # Malformed
             PROVE  LET remote == RemoteOptions(p)
                        infer == conf[p].manager.infer
                    IN
                    IF "infer_spans" \in DOMAIN remote
                    THEN LET word == remote["infer_spans"].text IN
                         /\ word = "true" => infer
                         /\ word = "false" => ~infer
                         /\ word \notin {"true", "false"} =>
                              infer = (LocalInfer /\ ~conf[p].debug)
                    ELSE infer = LocalInfer
  BY DEF OptionsFollowFile
<1> DEFINE options == conf[p].options
           debug == conf[p].debug
           files == conf[p].manager.files
           infer == conf[p].manager.infer
           remote == RemoteOptions(p)
<1>1. /\ options = AdapterUpdate(debug, options, files) /\ infer = Effective(options)
      /\ debug \in BOOLEAN /\ LocalInfer \in BOOLEAN
  BY DistributionAssumption DEF DInv, Types, Confs, OptionsOfFiles
<1>2. CASE Elastic \notin DOMAIN files \/ files[Elastic] = Empty
  <2>1. options = NoOption /\ remote = NoFiles
    BY <1>1, <1>2 DEF AdapterUpdate, RemoteOptions
  <2>2. infer = LocalInfer
    BY <1>1, <2>1 DEF Effective
  <2> QED
    BY <2>1, <2>2, NoFilesType
<1>3. CASE Elastic \in DOMAIN files /\ files[Elastic] # Empty
  <2>1. options = RemapOptions(debug, remote)
    BY <1>1, <1>3 DEF AdapterUpdate, RemoteOptions
  <2> HIDE DEF remote, options, infer, debug
  <2>2. CASE "infer_spans" \notin DOMAIN remote
    <3>1. infer = LocalInfer
      BY <1>1, <2>1, <2>2 DEF RemapOptions, Effective
    <3> QED
      BY <2>2, <3>1 DEF remote, infer
  <2>3. CASE "infer_spans" \in DOMAIN remote
    <3> DEFINE word == remote["infer_spans"].text
    <3> HIDE DEF word
    <3>1. options = IF word \in {"true", "false"} THEN word
                    ELSE IF debug THEN EmptyOption ELSE NoOption
      BY <2>1, <2>3 DEF RemapOptions, word
    <3>2. /\ word = "true" => infer
          /\ word = "false" => ~infer
          /\ word \notin {"true", "false"} => infer = (LocalInfer /\ ~debug)
      BY <1>1, <3>1 DEF Effective, NoOption, EmptyOption
    <3> QED
      BY <2>3, <3>2 DEF word, remote, infer, debug
  <2> QED
    BY <2>2, <2>3 DEF remote, infer, debug
<1> QED
  BY <1>2, <1>3

(* The types of the variables, and that a revision counts the stores that  *)
(* have ended.                                                             *)
THEOREM DistributionTypes == DistributionSpec => []DistributionTypeOK
<1>1. DInv => DistributionTypeOK
  BY DEF DInv, Types
<1> QED
  BY <1>1, DInvHolds, PTL

(* No process ever holds a torn or a stale copy under the number of the    *)
(* revision it believes to have.                                           *)
THEOREM RevisionsHoldFiles == DistributionSpec => []RevisionHoldsFiles
<1>1. DInv => RevisionHoldsFiles
  BY DEF DInv
<1> QED
  BY <1>1, DInvHolds, PTL

(* The native option of a process is that of the file it holds; the local  *)
(* one is in force without it.  A word that is refused counts as none, or, *)
(* when debug messages are logged, as false.                               *)
THEOREM OptionsFollow == DistributionSpec => []OptionsFollowFile
BY DInvOptions, DInvHolds, PTL

(* A heartbeat reports as applied only what the shared segment holds.      *)
THEOREM ReportsAreStored == DistributionSpec => []ReportedIsStored
BY DInvReports, DInvHolds, PTL

=============================================================================
