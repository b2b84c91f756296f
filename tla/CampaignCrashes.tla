-------------------------- MODULE CampaignCrashes --------------------------
(***************************************************************************)
(* Why no crash is lost: a name is never given twice, so from its setup to *)
(* its cleanup an execution's directory is nobody else's to move or to     *)
(* remove, and what has been judged once is not judged again.  This holds  *)
(* for every number of workers, executions, generations and faults, as     *)
(* long as the names fit.                                                  *)
(***************************************************************************)
EXTENDS CampaignProofs, SequenceTheorems

\* The executions of this generation that have come past their setup.
Started(v, e) == v < spawned /\ e <= exec[v] /\ (worker[v] = "setup" => e < exec[v])

\* The names that may have been given.
Past(n) ==
  \E g \in 1 .. LastGeneration : \E v \in Workers : \E e \in 1 .. ForkCount :
    g <= generation /\ n = Iter(g, v, e) /\ (g = generation => Started(v, e))

\* What the parents file, the part of an entry behind it and the temporary
\* copy name.
Listed == (Range(parents) \cup Range(partial) \cup Range(parentsTmp)) \ {Torn}

\* fffc_cleanup_mutation_state, whatever comes of it.
Cleanup(w) == SaveCrash(w) \/ SaveCrashFails(w) \/ RecordParent(w) \/ RecordParentFails(w)

Forked == \A w \in Workers : worker[w] # "none" => w < spawned

\* Every name in a file has been given.
Named ==
  /\ DOMAIN dirs \subseteq used
  /\ \A n \in used \cup DOMAIN saved \cup Listed \cup crashed \cup unmoved : Past(n)

\* An execution that got a directory keeps it, and is not judged yet.
Held == \A w \in Executing : Path(w) \in used => Path(w) \in DOMAIN dirs

Unjudged == \A w \in Executing : Path(w) \notin Listed \cup DOMAIN saved \cup unmoved

\* Nobody is both a parent and a crash.
Apart == Listed \cap (DOMAIN saved \cup unmoved) = {}

\* What is not judged yet is not in the parents file.
LEMMA NotEntered ==
  ASSUME ProcessesOK, Unjudged, NEW w \in Executing
  PROVE  Path(w) \notin Range(parents) \cup DOMAIN saved
<1>1. Path(w) # Torn
  BY PathIsInt, CampaignAssumption DEF Executing
<1> QED
  BY <1>1 DEF Unjudged, Listed

-----------------------------------------------------------------------------
(* Names *)

LEMMA PathsDiffer ==
  ASSUME NamesFit, Control, Counted, NEW v \in Executing, NEW w \in Executing, v # w
  PROVE  Path(v) # Path(w)
<1>1. v \in Workers /\ w \in Workers /\ generation \in 1 .. LastGeneration
  BY InGeneration DEF Executing
<1>2. exec[v] \in 1 .. ForkCount /\ exec[w] \in 1 .. ForkCount
  BY <1>1 DEF Counted, Executing
<1> QED
  BY <1>1, <1>2, NamesDistinct DEF Path

\* The name an execution is about to get has not been given.
LEMMA SetupIsFresh ==
  ASSUME NamesFit, ProcessesOK, Control, Counted, NEW w \in Workers, worker[w] = "setup"
  PROVE  ~Past(Path(w))
<1> SUFFICES ASSUME NEW g \in 1 .. LastGeneration, NEW v \in Workers, NEW e \in 1 .. ForkCount,
                    Path(w) = Iter(g, v, e), g = generation => Started(v, e)
             PROVE  FALSE
  BY DEF Past
<1>1. generation \in 1 .. LastGeneration /\ exec[w] \in 1 .. ForkCount /\ exec[w] \in Nat
  BY InGeneration DEF ProcessesOK, Counted
<1>2. g = generation /\ v = w /\ e = exec[w]
  BY <1>1, NamesDistinct DEF Path
<1> QED
  BY <1>1, <1>2 DEF Started

LEMMA ExecutingIsPast ==
  ASSUME ProcessesOK, Control, Counted, Forked, NEW w \in Executing
  PROVE  Past(Path(w))
<1>1. w \in Workers /\ exec[w] \in 1 .. ForkCount /\ generation \in 1 .. LastGeneration
      /\ generation \in Nat
  BY InGeneration DEF Executing, Counted, ProcessesOK
<1>2. Started(w, exec[w])
  BY <1>1 DEF Forked, Started, Executing
<1> QED
  BY <1>1, <1>2 DEF Past, Path

\* How the counters move.
LEMMA CountersStep ==
  ASSUME ProcessesOK, [Next]_vars
  PROVE  \/ KeepGenerating
         \/ /\ generation' = generation
            /\ \A v \in Workers : v < spawned =>
                 /\ v < spawned' /\ exec'[v] >= exec[v]
                 /\ worker'[v] = "setup" => worker[v] = "setup" \/ exec'[v] > exec[v]
<1> USE DEF ProcessesOK
<1>1. CASE SpawnWorker \/ SpawnFails
  <2>1. /\ generation' = generation /\ spawned' = spawned + 1
        /\ \A v \in Workers : v < spawned => exec'[v] = exec[v] /\ worker'[v] = worker[v]
    BY <1>1 DEF SpawnWorker, SpawnFails, NextSpawn, workerVars
  <2>2. \A v \in Workers : v \in Nat /\ exec[v] \in Nat
    BY CampaignAssumption DEF Workers
  <2>3. spawned \in Nat
    BY CampaignAssumption
  <2> HIDE DEF ProcessesOK
  <2> QED
    BY <2>1, <2>2, <2>3 DEF Workers
<1>2. ASSUME NEW w \in Workers, KeepMutating(w)
      PROVE  generation' = generation /\ \A v \in Workers : v < spawned =>
               /\ v < spawned' /\ exec'[v] >= exec[v]
               /\ worker'[v] = "setup" => worker[v] = "setup" \/ exec'[v] > exec[v]
  <2>1. /\ UNCHANGED <<generation, spawned>>
        /\ exec' = [exec EXCEPT ![w] = exec[w] + 1]
        /\ \E pc : worker' = [worker EXCEPT ![w] = pc]
    BY <1>2 DEF KeepMutating, WorkerStep, monitorVars, GoTo
  <2>2. exec'[w] = exec[w] + 1 /\ \A v \in Workers \ {w} : exec'[v] = exec[v] /\ worker'[v] = worker[v]
    BY <2>1
  <2>3. \A v \in Workers : exec[v] \in Nat
    OBVIOUS
  <2> HIDE DEF ProcessesOK
  <2> QED
    BY <2>1, <2>2, <2>3
<1>3. ASSUME NEW w \in Workers,
             \/ WaitForWorker(w) \/ CountingPassCrashes(w) \/ SetupMutationFails(w)
             \/ ForkChildFails(w) \/ SetupWorker(w) \/ SetupMutation(w) \/ ForkChild(w)
             \/ WaitForChild(w) \/ Cleanup(w)
      PROVE  generation' = generation /\ spawned' = spawned /\ exec' = exec
             /\ \A v \in Workers : worker'[v] = "setup" => worker[v] = "setup"
  BY <1>3 DEF WaitForWorker, CountingPassCrashes, SetupMutationFails, ForkChildFails, SetupWorker,
              SetupMutation, ForkChild, WaitForChild, Cleanup, SaveCrash, SaveCrashFails,
              RecordParent, RecordParentFails, GoTo, WorkerStep, monitorVars
<1>4. CASE \/ NoMoreWorkers \/ StartReaper \/ CleanupGeneration \/ ReaperNext
           \/ ReapForkFails \/ ReaperDies \/ UNCHANGED vars
           \/ \E w \in Workers : ChildNext(w) \/ ChildBlocks(w)
  BY <1>4 DEF NoMoreWorkers, StartReaper, CleanupGeneration, ReapForkFails, ReaperDies, ReaperNext,
           ReapCheck, ReapScore, ReapTrim, ReapUnlink, ReapRename, ReaperStep, workerVars, vars,
           ChildNext, ChildBlocks, ChildEnds, WorkerStep, monitorVars
<1> QED
  BY <1>1, <1>2, <1>3, <1>4 DEF Next, MonitorNext, FaultNext, WorkerNext, Cleanup, Finished

LEMMA PastStays ==
  ASSUME ProcessesOK, ProcessesOK', [Next]_vars, NEW n, Past(n)
  PROVE  Past(n)'
<1>1. PICK g \in 1 .. LastGeneration, v \in Workers, e \in 1 .. ForkCount :
        g <= generation /\ n = Iter(g, v, e) /\ (g = generation => Started(v, e))
  BY DEF Past
<1>0. g \in Int /\ generation \in Nat
  BY CampaignAssumption DEF LastGeneration, ProcessesOK
<1>2. CASE KeepGenerating
  <2>1. g <= generation' /\ g # generation'
    BY <1>0, <1>1, <1>2 DEF KeepGenerating
  <2> QED
    BY <1>1, <2>1 DEF Past, Iter
<1>3. CASE ~KeepGenerating
  <2>1. generation' = generation /\ (g = generation => Started(v, e)')
    BY <1>1, <1>3, CountersStep DEF Started, ProcessesOK
  <2> QED
    BY <1>1, <2>1 DEF Past, Iter
<1> QED
  BY <1>2, <1>3
-----------------------------------------------------------------------------
(* Where the files of the next state come from *)

LEMMA RangeAppend ==
  ASSUME NEW S, NEW seq \in Seq(S), NEW x
  PROVE  Range(Append(seq, x)) \subseteq Range(seq) \cup {x}
BY DEF Range

LEMMA RangeShort == Range(<<>>) = {} /\ \A x : Range(<<x>>) = {x}
BY DEF Range

\* Completing the part of an entry behind the file.
LEMMA Completed ==
  ASSUME FilesOK, partial # <<>>
  PROVE  parents \o partial = Append(parents, partial[1]) /\ Range(partial) = {partial[1]}
<1>1. partial \in Seq(Entry) /\ parents \in Seq(Entry) /\ Len(partial) <= 1 /\ Len(partial) # 0
  BY EmptySeq DEF FilesOK
<1>2. Len(partial) = 1 /\ DOMAIN partial = {1} /\ partial[1] \in Entry
  <2>0. Len(partial) \in Nat /\ DOMAIN partial = 1 .. Len(partial)
    BY <1>1
  <2>1. Len(partial) = 1 /\ DOMAIN partial = 1 .. Len(partial)
    BY <1>1, <2>0
  <2>2. 1 .. 1 = {1}
    OBVIOUS
  <2> QED
    BY <1>1, <2>1, <2>2
<1>3. partial = <<partial[1]>>
  BY <1>1, <1>2
<1>4. parents \o <<partial[1]>> = Append(parents, partial[1])
  BY <1>1, <1>2, AppendIsConcat
<1>5. Range(partial) = {partial[1]}
  BY <1>2 DEF Range
<1> QED
  BY <1>3, <1>4, <1>5

LEMMA OverwriteRange ==
  ASSUME NEW file \in Seq(Entry), NEW i \in Nat \ {0}, NEW n \in Entry, i <= Len(file) + 1
  PROVE  Range(Overwrite(file, i, n)) \subseteq Range(file) \cup {n}
<1>1. DOMAIN Overwrite(file, i, n) = 1 .. (IF i > Len(file) THEN i ELSE Len(file))
  BY DEF Overwrite
<1>2. \A k \in DOMAIN Overwrite(file, i, n) :
        \/ Overwrite(file, i, n)[k] = n
        \/ k \in DOMAIN file /\ Overwrite(file, i, n)[k] = file[k]
  BY <1>1 DEF Overwrite
<1> QED
  BY <1>2 DEF Range

\* The reaper writes down only names it has read.
LEMMA ReaperLists ==
  ASSUME FilesOK, Reaping, ReaperNext \/ ReaperDies
  PROVE  Listed' \subseteq Listed
<1>1. CASE ReapTrim
  <2>1. PICK i \in left : \/ UNCHANGED parentsTmp
                          \/ /\ next > Victims
                             /\ parentsTmp' = Overwrite(parentsTmp, next - Victims, parents[i])
    BY <1>1, CampaignAssumption DEF ReapTrim, FilesOK, Reaping, Victims
  <2>2. i \in DOMAIN parents /\ parents[i] \in Range(parents) /\ parents[i] \in Entry
    BY <1>1 DEF ReapTrim, FilesOK, Reaping, Range
  <2>3. Range(parentsTmp') \subseteq Range(parentsTmp) \cup {parents[i]}
    <3>1. CASE UNCHANGED parentsTmp
      BY <3>1
    <3>2. CASE next > Victims /\ parentsTmp' = Overwrite(parentsTmp, next - Victims, parents[i])
      <4>1. next - Victims \in Nat \ {0} /\ next - Victims <= Len(parentsTmp) + 1
        BY <1>1, <3>2, CampaignAssumption DEF ReapTrim, FilesOK, Reaping, Victims
      <4> QED
        BY <2>2, <3>2, <4>1, OverwriteRange DEF FilesOK
    <3> QED
      BY <2>1, <3>1, <3>2
  <2> QED
    BY <1>1, <2>2, <2>3 DEF ReapTrim, Listed
<1>2. CASE ReapUnlink
  BY <1>2, RangeShort DEF ReapUnlink, Listed
<1>3. CASE ReapRename
  BY <1>3, RangeShort DEF ReapRename, Listed
<1>4. CASE ReapCheck \/ ReapScore \/ ReaperDies
  BY <1>4 DEF ReapCheck, ReapScore, ReaperDies, Listed
<1> QED
  BY <1>1, <1>2, <1>3, <1>4 DEF ReaperNext

\* A name leaves the directories for being listed only.
LEMMA ReaperRemoves ==
  ASSUME FilesOK, Reaping, ReaperNext \/ ReaperDies
  PROVE  DOMAIN dirs' \subseteq DOMAIN dirs /\ DOMAIN dirs \ Listed \subseteq DOMAIN dirs'
<1>1. CASE ReapTrim
  <2>1. PICK i \in left : dirs' = dirs \/ dirs' = Without(dirs, parents[i])
    BY <1>1 DEF ReapTrim
  <2>2. i \in DOMAIN parents /\ parents[i] \in Range(parents)
    BY <1>1 DEF ReapTrim, FilesOK, Reaping, Range
  <2>3. Torn \notin DOMAIN dirs
    BY CampaignAssumption DEF FilesOK, Directories
  <2> QED
    BY <2>1, <2>2, <2>3 DEF Without, Listed
<1>2. CASE ReapCheck \/ ReapScore \/ ReapUnlink \/ ReapRename \/ ReaperDies
  BY <1>2 DEF ReapCheck, ReapScore, ReapUnlink, ReapRename, ReaperDies
<1> QED
  BY <1>1, <1>2 DEF ReaperNext

\* What is recorded of an execution is its name, or nothing that is a name.
LEMMA RecordLists ==
  ASSUME FilesOK, NEW w \in Workers, RecordParent(w) \/ RecordParentFails(w)
  PROVE  Listed' \subseteq Listed \cup {Path(w)}
<1>1. parentsTmp' = parentsTmp
  BY DEF RecordParent, RecordParentFails, WorkerStep, reaperVars
<1>2. \/ partial = <<>> /\ parents' = Append(parents, Path(w)) /\ partial' = partial
      \/ UNCHANGED <<parents, partial>>
      \/ parents' = parents /\ partial' \in {<<Path(w)>>, <<Torn>>}
      \/ partial # <<>> /\ parents' = parents \o partial /\ partial' \in {<<>>, <<Torn>>}
  BY DEF RecordParent, RecordParentFails
<1>3. Range(Append(parents, Path(w))) \subseteq Range(parents) \cup {Path(w)}
  BY RangeAppend DEF FilesOK
<1>4. partial # <<>> => Range(parents \o partial) \subseteq Range(parents) \cup Range(partial)
  <2>1. Range(Append(parents, partial[1])) \subseteq Range(parents) \cup {partial[1]}
    BY RangeAppend DEF FilesOK
  <2> QED
    BY <2>1, Completed
<1> QED
  BY <1>1, <1>2, <1>3, <1>4, RangeShort DEF Listed

\* What one step does to the files, by the actions that touch them.
LEMMA FilesFrom ==
  ASSUME FilesOK, Reaping, Control, [Next]_vars
  PROVE  \/ UNCHANGED <<dirs, used, saved, crashed, unmoved>> /\ Listed' = Listed
         \/ /\ ReaperNext \/ ReaperDies
            /\ UNCHANGED <<used, saved, crashed, unmoved>>
            /\ Listed' \subseteq Listed /\ Executing' = {}
            /\ DOMAIN dirs' \subseteq DOMAIN dirs /\ DOMAIN dirs \ Listed \subseteq DOMAIN dirs'
         \/ \E w \in Workers :
              \/ /\ SetupMutation(w) \/ SetupMutationFails(w)
                 /\ UNCHANGED <<saved, crashed, unmoved>> /\ Listed' = Listed
                 /\ \/ UNCHANGED <<dirs, used>>
                    \/ DOMAIN dirs' = DOMAIN dirs \cup {Path(w)} /\ used' = used \cup {Path(w)}
              \/ /\ WaitForChild(w)
                 /\ UNCHANGED <<dirs, used, saved, unmoved>> /\ Listed' = Listed
                 /\ \/ UNCHANGED crashed
                    \/ crashed' = crashed \cup {Path(w)} /\ GoTo(w, "save")
              \/ /\ SaveCrash(w)
                 /\ UNCHANGED <<used, crashed, unmoved>> /\ Listed' = Listed
                 /\ \/ ~CanRename(Path(w)) /\ UNCHANGED <<dirs, saved>>
                    \/ /\ DOMAIN dirs' = DOMAIN dirs \ {Path(w)}
                       /\ DOMAIN saved' = DOMAIN saved \cup {Path(w)}
              \/ /\ SaveCrashFails(w)
                 /\ UNCHANGED <<dirs, used, saved, crashed>> /\ Listed' = Listed
                 /\ unmoved' = unmoved \cup {Path(w)}
              \/ /\ RecordParent(w) \/ RecordParentFails(w)
                 /\ UNCHANGED <<dirs, used, saved, crashed, unmoved>>
                 /\ Listed' \subseteq Listed \cup {Path(w)}
<1>1. CASE ReaperNext \/ ReaperDies
  <2>1. Executing' = {} /\ UNCHANGED <<used, saved, crashed, unmoved>>
    BY <1>1 DEF ReaperNext, ReapCheck, ReapScore, ReapTrim, ReapUnlink, ReapRename, ReaperDies,
                ReaperStep, workerVars, observed, Control, Live, Executing
  <2> QED
    BY <1>1, <2>1, ReaperRemoves, ReaperLists
<1>2. ASSUME NEW w \in Workers, SetupMutation(w) \/ SetupMutationFails(w)
      PROVE  /\ UNCHANGED <<saved, crashed, unmoved>> /\ Listed' = Listed
             /\ \/ UNCHANGED <<dirs, used>>
                \/ DOMAIN dirs' = DOMAIN dirs \cup {Path(w)} /\ used' = used \cup {Path(w)}
  <2>1. UNCHANGED <<saved, crashed, unmoved, parents, partial, parentsTmp>>
    BY <1>2 DEF SetupMutation, SetupMutationFails, WorkerStep, reaperVars
  <2>2. \/ UNCHANGED <<dirs, used>>
        \/ used' = used \cup {Path(w)} /\ \E c : dirs' = With(dirs, Path(w), c)
    BY <1>2 DEF SetupMutation, SetupMutationFails
  <2> QED
    BY <2>1, <2>2 DEF Listed, With
<1>3. ASSUME NEW w \in Workers, WaitForChild(w)
      PROVE  /\ UNCHANGED <<dirs, used, saved, unmoved>> /\ Listed' = Listed
             /\ \/ UNCHANGED crashed
                \/ crashed' = crashed \cup {Path(w)} /\ GoTo(w, "save")
  BY <1>3 DEF WaitForChild, WorkerStep, reaperVars, Listed
<1>4. ASSUME NEW w \in Workers, SaveCrash(w)
      PROVE  /\ UNCHANGED <<used, crashed, unmoved>> /\ Listed' = Listed
             /\ \/ ~CanRename(Path(w)) /\ UNCHANGED <<dirs, saved>>
                \/ /\ DOMAIN dirs' = DOMAIN dirs \ {Path(w)}
                   /\ DOMAIN saved' = DOMAIN saved \cup {Path(w)}
  BY <1>4 DEF SaveCrash, WorkerStep, reaperVars, observed, Listed, With, Without
<1>5. ASSUME NEW w \in Workers, SaveCrashFails(w)
      PROVE  /\ UNCHANGED <<dirs, used, saved, crashed>> /\ Listed' = Listed
             /\ unmoved' = unmoved \cup {Path(w)}
  BY <1>5 DEF SaveCrashFails, WorkerStep, reaperVars, Listed
<1>6. ASSUME NEW w \in Workers, RecordParent(w) \/ RecordParentFails(w)
      PROVE  /\ UNCHANGED <<dirs, used, saved, crashed, unmoved>>
             /\ Listed' \subseteq Listed \cup {Path(w)}
  <2>1. UNCHANGED <<dirs, used, saved, crashed, unmoved>>
    BY <1>6 DEF RecordParent, RecordParentFails, WorkerStep, observed
  <2> QED
    BY <1>6, <2>1, RecordLists
<1>7. CASE \/ KeepGenerating \/ SpawnWorker \/ SpawnFails \/ NoMoreWorkers \/ StartReaper
           \/ CleanupGeneration \/ ReapForkFails \/ UNCHANGED vars
           \/ \E w \in Workers : \/ WaitForWorker(w) \/ CountingPassCrashes(w) \/ ForkChildFails(w)
                                 \/ SetupWorker(w) \/ KeepMutating(w) \/ ForkChild(w)
                                 \/ ChildNext(w) \/ ChildBlocks(w)
  BY <1>7 DEF KeepGenerating, SpawnWorker, SpawnFails, NextSpawn, NoMoreWorkers, StartReaper,
       CleanupGeneration, ReapForkFails, WaitForWorker, CountingPassCrashes, ForkChildFails,
       SetupWorker, KeepMutating, ForkChild, ChildNext, ChildBlocks, ChildEnds, WorkerStep,
       reaperVars, observed, vars, Listed
<1> QED
  BY <1>1, <1>2, <1>3, <1>4, <1>5, <1>6, <1>7 DEF Next, MonitorNext, FaultNext, WorkerNext,
                                                  Cleanup, Finished

\* A worker executes because it did before, or because it has set up.
LEMMA ExecutingFrom ==
  ASSUME ProcessesOK, Control, [Next]_vars, NEW w \in Executing'
  PROVE  /\ w \in Workers /\ Path(w)' = Path(w)
         /\ \/ w \in Executing /\ ~Cleanup(w)
            \/ worker[w] = "setup" /\ (SetupMutation(w) \/ SetupMutationFails(w))
<1> USE DEF ProcessesOK
<1>1. w \in Workers /\ worker'[w] \in {"fork", "wait", "save", "record"}
  BY DEF Executing
<1>2. CASE UNCHANGED <<worker, exec, generation>>
  <2>1. ~Cleanup(w)
    BY <1>1, <1>2 DEF Cleanup, SaveCrash, SaveCrashFails, RecordParent, RecordParentFails, GoTo
  <2> QED
    BY <1>1, <1>2, <2>1 DEF Executing, Path
<1>3. CASE SpawnWorker
  <2>1. w # spawned /\ worker'[w] = worker[w] /\ exec'[w] = exec[w] /\ generation' = generation
    BY <1>1, <1>3 DEF SpawnWorker, NextSpawn
  <2>2. ~Cleanup(w)
    BY <1>1, <2>1 DEF Cleanup, SaveCrash, SaveCrashFails, RecordParent, RecordParentFails, GoTo
  <2> QED
    BY <1>1, <2>1, <2>2 DEF Executing, Path
<1>4. CASE KeepGenerating
  BY <1>1, <1>4 DEF KeepGenerating, workerVars, Control, Live
<1>5. ASSUME NEW v \in Workers,
             \/ WaitForWorker(v) \/ CountingPassCrashes(v) \/ SetupMutationFails(v)
             \/ ForkChildFails(v) \/ SetupWorker(v) \/ SetupMutation(v) \/ ForkChild(v)
             \/ WaitForChild(v) \/ Cleanup(v) \/ KeepMutating(v)
      PROVE  /\ w \in Workers /\ Path(w)' = Path(w)
             /\ \/ w \in Executing /\ ~Cleanup(w)
                \/ worker[w] = "setup" /\ (SetupMutation(w) \/ SetupMutationFails(w))
  <2>1. ~Cleanup(w)
    BY <1>1 DEF Cleanup, SaveCrash, SaveCrashFails, RecordParent, RecordParentFails, GoTo
  <2>2. CASE v # w
    <3>1. worker'[w] = worker[w] /\ exec'[w] = exec[w] /\ generation' = generation
      BY <1>1, <1>5, <2>2 DEF WaitForWorker, CountingPassCrashes, SetupMutationFails,
                              ForkChildFails, SetupWorker, SetupMutation, ForkChild, WaitForChild,
                              Cleanup, SaveCrash, SaveCrashFails, RecordParent, RecordParentFails,
                              KeepMutating, GoTo, WorkerStep, monitorVars
    <3> QED
      BY <1>1, <2>1, <3>1 DEF Executing, Path
  <2>3. CASE v = w
    <3>1. /\ exec' = exec /\ generation' = generation
          /\ \/ worker[w] \in {"fork", "wait", "save", "record"}
             \/ worker[w] = "setup" /\ (SetupMutation(w) \/ SetupMutationFails(w))
      BY <1>1, <1>5, <2>3 DEF WaitForWorker, CountingPassCrashes, SetupMutationFails,
                              ForkChildFails, SetupWorker, SetupMutation, ForkChild, WaitForChild,
                              Cleanup, SaveCrash, SaveCrashFails, RecordParent, RecordParentFails,
                              KeepMutating, GoTo, WorkerStep, monitorVars
    <3> QED
      BY <1>1, <2>1, <3>1 DEF Executing, Path
  <2> QED
    BY <2>2, <2>3
<1>6. CASE \/ NoMoreWorkers \/ StartReaper \/ CleanupGeneration \/ ReaperNext \/ SpawnFails
           \/ ReapForkFails \/ ReaperDies \/ UNCHANGED vars
           \/ \E v \in Workers : ChildNext(v) \/ ChildBlocks(v)
  BY <1>2, <1>6 DEF NoMoreWorkers, StartReaper, CleanupGeneration, ReapForkFails, ReaperDies,
           ReaperNext, ReapCheck, ReapScore, ReapTrim, ReapUnlink, ReapRename, ReaperStep,
           SpawnFails, NextSpawn, workerVars, vars, ChildNext, ChildBlocks, ChildEnds, WorkerStep,
           monitorVars
<1> QED
  BY <1>3, <1>4, <1>5, <1>6 DEF Next, MonitorNext, FaultNext, WorkerNext, Cleanup, Finished

-----------------------------------------------------------------------------
(* Judged once *)

LEMMA ForkedStep ==
  ASSUME ProcessesOK, Control, Forked, [Next]_vars
  PROVE  Forked'
<1>1. CASE KeepGenerating
  <2>1. worker' = worker /\ \A w \in Workers : worker[w] = "none"
    BY <1>1 DEF KeepGenerating, workerVars, Control, Live
  <2> QED
    BY <2>1 DEF Forked
<1>2. CASE SpawnWorker
  <2>1. spawned' = spawned + 1 /\ spawned \in Nat
    BY <1>2, CampaignAssumption DEF SpawnWorker, NextSpawn, ProcessesOK
  <2>2. \A w \in Workers : w \in Nat /\ (w = spawned \/ worker'[w] = worker[w])
    BY <1>2, CampaignAssumption DEF SpawnWorker, ProcessesOK, Workers
  <2> QED
    BY <2>1, <2>2 DEF Forked
<1>3. CASE ~KeepGenerating /\ ~SpawnWorker
  <2>1. \A w \in Workers : worker'[w] # "none" => worker[w] # "none"
    <3>1. ASSUME NEW v \in Workers,
                 \/ WaitForWorker(v) \/ CountingPassCrashes(v) \/ SetupMutationFails(v)
                 \/ ForkChildFails(v) \/ SetupWorker(v) \/ SetupMutation(v) \/ ForkChild(v)
                 \/ WaitForChild(v) \/ Cleanup(v) \/ KeepMutating(v)
          PROVE  \A w \in Workers : worker'[w] # "none" => worker[w] # "none"
      BY <3>1 DEF WaitForWorker, CountingPassCrashes, SetupMutationFails, ForkChildFails,
                  SetupWorker, SetupMutation, ForkChild, WaitForChild, Cleanup, SaveCrash,
                  SaveCrashFails, RecordParent, RecordParentFails, KeepMutating, GoTo, ProcessesOK
    <3>2. CASE \/ NoMoreWorkers \/ StartReaper \/ CleanupGeneration \/ ReaperNext \/ SpawnFails
               \/ ReapForkFails \/ ReaperDies \/ UNCHANGED vars
               \/ \E v \in Workers : ChildNext(v) \/ ChildBlocks(v)
      BY <3>2 DEF NoMoreWorkers, StartReaper, CleanupGeneration, ReapForkFails, ReaperDies,
             ReaperNext, ReapCheck, ReapScore, ReapTrim, ReapUnlink, ReapRename, ReaperStep,
             SpawnFails, workerVars, vars, ChildNext, ChildBlocks, ChildEnds
    <3> QED
      BY <1>3, <3>1, <3>2 DEF Next, MonitorNext, FaultNext, WorkerNext, Cleanup, Finished
  <2> QED
    BY <1>3, <2>1, CountersStep DEF Forked
<1> QED
  BY <1>1, <1>2, <1>3

LEMMA NamedStep ==
  ASSUME NamesFit, Core, Core', Counted, Counted', Forked, Forked', Named, [Next]_vars
  PROVE  Named'
<1> USE DEF Core
<1>1. \A n : Past(n) => Past(n)'
  BY PastStays
<1>2. ASSUME NEW w \in Workers, SetupMutation(w) \/ SetupMutationFails(w)
      PROVE  Past(Path(w))'
  <2>1. worker'[w] = "fork"
    BY <1>2 DEF SetupMutation, SetupMutationFails, GoTo, ProcessesOK
  <2>2. /\ exec'[w] \in 1 .. ForkCount /\ w < spawned'
        /\ generation' \in 1 .. LastGeneration /\ generation' \in Nat
    BY <2>1 DEF Counted, Forked, ProcessesOK, Control, Live
  <2>3. Started(w, exec[w])'
    BY <2>1, <2>2 DEF Started
  <2> QED
    BY <2>2, <2>3 DEF Past, Path
<1>3. ASSUME NEW w \in Executing
      PROVE  Past(Path(w))
  BY ExecutingIsPast
<1> DEFINE All == used \cup DOMAIN saved \cup Listed \cup crashed \cup unmoved
<1>4. CASE DOMAIN dirs' \subseteq DOMAIN dirs /\ used' = used /\ All' \subseteq All
  BY <1>1, <1>4 DEF Named
<1>5. ASSUME NEW w \in Workers, SetupMutation(w) \/ SetupMutationFails(w),
             UNCHANGED <<saved, crashed, unmoved>>, Listed' = Listed,
             \/ UNCHANGED <<dirs, used>>
             \/ DOMAIN dirs' = DOMAIN dirs \cup {Path(w)} /\ used' = used \cup {Path(w)}
      PROVE  Named'
  <2>1. Path(w)' = Path(w)
    BY <1>5 DEF SetupMutation, SetupMutationFails, WorkerStep, monitorVars, Path
  <2> QED
    BY <1>1, <1>2, <1>5, <2>1 DEF Named
<1>6. ASSUME NEW w \in Executing, DOMAIN dirs' \subseteq DOMAIN dirs, used' = used,
             All' \subseteq All \cup {Path(w)}
      PROVE  Named'
  BY <1>1, <1>3, <1>6 DEF Named
<1>7. \A w \in Workers : \/ WaitForChild(w) \/ SaveCrash(w) \/ SaveCrashFails(w)
                         \/ RecordParent(w) \/ RecordParentFails(w)
        => w \in Executing
  BY DEF Executing, WaitForChild, SaveCrash, SaveCrashFails, RecordParent, RecordParentFails
<1>8. \/ DOMAIN dirs' \subseteq DOMAIN dirs /\ used' = used /\ All' \subseteq All
      \/ \E w \in Workers :
           /\ SetupMutation(w) \/ SetupMutationFails(w)
           /\ UNCHANGED <<saved, crashed, unmoved>> /\ Listed' = Listed
           /\ \/ UNCHANGED <<dirs, used>>
              \/ DOMAIN dirs' = DOMAIN dirs \cup {Path(w)} /\ used' = used \cup {Path(w)}
      \/ \E w \in Executing : /\ DOMAIN dirs' \subseteq DOMAIN dirs /\ used' = used
                             /\ All' \subseteq All \cup {Path(w)}
  BY <1>7, FilesFrom
<1> QED
  BY <1>4, <1>5, <1>6, <1>8

LEMMA HeldStep ==
  ASSUME NamesFit, Core, Counted, Named, Held, [Next]_vars
  PROVE  Held'
<1> SUFFICES ASSUME NEW w \in Executing', Path(w)' \in used' PROVE Path(w)' \in DOMAIN dirs'
  BY DEF Held
<1> USE DEF Core
<1>1. /\ w \in Workers /\ Path(w)' = Path(w)
      /\ \/ w \in Executing /\ ~Cleanup(w)
         \/ worker[w] = "setup" /\ (SetupMutation(w) \/ SetupMutationFails(w))
  BY ExecutingFrom
<1>2. CASE w \in Executing /\ ~Cleanup(w)
  <2>1. Path(w) \in used => Path(w) \in DOMAIN dirs
    BY <1>2 DEF Held
  <2>2. ASSUME NEW v \in Workers, SaveCrash(v) PROVE Path(v) # Path(w)
    BY <1>2, <2>2, PathsDiffer DEF Cleanup, SaveCrash, Executing
  <2>3. \A n \in used' : n \in used \/ n \in DOMAIN dirs'
    BY FilesFrom
  <2>4. Path(w) \in DOMAIN dirs => Path(w) \in DOMAIN dirs'
    BY <2>2, FilesFrom
  <2> QED
    BY <1>1, <2>1, <2>3, <2>4
<1>3. CASE worker[w] = "setup" /\ (SetupMutation(w) \/ SetupMutationFails(w))
  <2>1. Path(w) \notin used
    BY <1>1, <1>3, SetupIsFresh DEF Named
  <2>2. UNCHANGED used \/ \E c : dirs' = With(dirs, Path(w), c)
    BY <1>3 DEF SetupMutation, SetupMutationFails
  <2> QED
    BY <1>1, <2>1, <2>2 DEF With
<1> QED
  BY <1>1, <1>2, <1>3

LEMMA UnjudgedStep ==
  ASSUME NamesFit, Core, Counted, Named, Unjudged, [Next]_vars
  PROVE  Unjudged'
<1> SUFFICES ASSUME NEW w \in Executing'
             PROVE  Path(w)' \notin Listed' \cup DOMAIN saved' \cup unmoved'
  BY DEF Unjudged
<1> USE DEF Core
<1>1. /\ w \in Workers /\ Path(w)' = Path(w)
      /\ \/ w \in Executing /\ ~Cleanup(w)
         \/ worker[w] = "setup" /\ (SetupMutation(w) \/ SetupMutationFails(w))
  BY ExecutingFrom
<1>2. Path(w) \notin Listed \cup DOMAIN saved \cup unmoved
  <2>1. CASE w \in Executing
    BY <2>1 DEF Unjudged
  <2>2. CASE worker[w] = "setup"
    BY <1>1, <2>2, SetupIsFresh DEF Named
  <2> QED
    BY <1>1, <2>1, <2>2
<1>3. ASSUME NEW v \in Workers, Cleanup(v)
      PROVE  Path(v) # Path(w)
  <2>1. v \in Executing
    BY <1>3 DEF Cleanup, SaveCrash, SaveCrashFails, RecordParent, RecordParentFails, Executing
  <2>2. v # w
    <3>1. CASE w \in Executing /\ ~Cleanup(w)
      BY <1>3, <3>1
    <3>2. CASE worker[w] = "setup"
      BY <1>3, <3>2 DEF Cleanup, SaveCrash, SaveCrashFails, RecordParent, RecordParentFails
    <3> QED
      BY <1>1, <3>1, <3>2
  <2>3. CASE w \in Executing
    BY <2>1, <2>2, <2>3, PathsDiffer
  <2>4. CASE worker[w] = "setup" /\ (SetupMutation(w) \/ SetupMutationFails(w))
    BY <1>3, <2>2, <2>4 DEF Cleanup, SaveCrash, SaveCrashFails, RecordParent, RecordParentFails,
                            SetupMutation, SetupMutationFails, GoTo, ProcessesOK, Executing
  <2> QED
    BY <1>1, <2>3, <2>4
<1>4. Path(w) \notin Listed' \cup DOMAIN saved' \cup unmoved'
  <2>1. \A v \in Workers : \/ SaveCrash(v) \/ SaveCrashFails(v) \/ RecordParent(v)
                           \/ RecordParentFails(v)
          => Path(v) # Path(w)
    BY <1>3 DEF Cleanup
  <2> QED
    BY <1>2, <2>1, FilesFrom
<1> QED
  BY <1>1, <1>4

LEMMA ApartStep ==
  ASSUME Core, Unjudged, Apart, [Next]_vars
  PROVE  Apart'
<1> USE DEF Core
<1>1. \A w \in Workers : \/ SaveCrash(w) \/ SaveCrashFails(w) \/ RecordParent(w)
                         \/ RecordParentFails(w)
        => Path(w) \notin Listed \cup DOMAIN saved \cup unmoved
  BY DEF Unjudged, Executing, Cleanup, SaveCrash, SaveCrashFails, RecordParent, RecordParentFails
<1> QED
  BY <1>1, FilesFrom DEF Apart

\* Only saving the crash, or failing to, takes a worker on from there.
LEMMA SaveNext ==
  ASSUME ProcessesOK, Control, [Next]_vars, NEW w \in Workers, worker[w] = "save",
         ~SaveCrash(w), ~SaveCrashFails(w)
  PROVE  worker'[w] = "save" /\ Path(w)' = Path(w)
<1> USE DEF ProcessesOK
<1>1. CASE UNCHANGED <<worker, exec, generation>>
  BY <1>1 DEF Path
<1>2. CASE SpawnWorker
  <2>1. w # spawned
    BY <1>2 DEF SpawnWorker, NextSpawn, Control
  <2> QED
    BY <1>2, <2>1 DEF SpawnWorker, NextSpawn, Path
<1>3. ~KeepGenerating
  BY DEF KeepGenerating, Control, Live
<1>4. ASSUME NEW v \in Workers,
             \/ WaitForWorker(v) \/ CountingPassCrashes(v) \/ SetupMutationFails(v)
             \/ ForkChildFails(v) \/ SetupWorker(v) \/ SetupMutation(v) \/ ForkChild(v)
             \/ WaitForChild(v) \/ Cleanup(v) \/ KeepMutating(v)
      PROVE  worker'[w] = "save" /\ Path(w)' = Path(w)
  <2>1. v # w
    BY <1>4 DEF WaitForWorker, CountingPassCrashes, SetupMutationFails, ForkChildFails, SetupWorker,
                SetupMutation, ForkChild, WaitForChild, Cleanup, RecordParent, RecordParentFails,
                KeepMutating
  <2>2. worker'[w] = worker[w] /\ exec'[w] = exec[w] /\ generation' = generation
    BY <1>4, <2>1 DEF WaitForWorker, CountingPassCrashes, SetupMutationFails, ForkChildFails,
                      SetupWorker, SetupMutation, ForkChild, WaitForChild, Cleanup, SaveCrash,
                      SaveCrashFails, RecordParent, RecordParentFails, KeepMutating, GoTo,
                      WorkerStep, monitorVars
  <2> QED
    BY <2>2 DEF Path
<1>5. CASE \/ NoMoreWorkers \/ StartReaper \/ CleanupGeneration \/ ReaperNext \/ SpawnFails
           \/ ReapForkFails \/ ReaperDies \/ UNCHANGED vars
           \/ \E v \in Workers : ChildNext(v) \/ ChildBlocks(v)
  BY <1>1, <1>5 DEF NoMoreWorkers, StartReaper, CleanupGeneration, ReapForkFails, ReaperDies,
           ReaperNext, ReapCheck, ReapScore, ReapTrim, ReapUnlink, ReapRename, ReaperStep,
           SpawnFails, NextSpawn, workerVars, vars, ChildNext, ChildBlocks, ChildEnds, WorkerStep,
           monitorVars
<1> QED
  BY <1>2, <1>3, <1>4, <1>5 DEF Next, MonitorNext, FaultNext, WorkerNext, Cleanup, Finished

Judged == Counted /\ Forked /\ Named /\ Held /\ Unjudged /\ Apart

LEMMA CrashKeptStep ==
  ASSUME NamesFit, SameFilesystem, Core, Judged, CrashKept, [Next]_vars
  PROVE  CrashKept'
<1> SUFFICES ASSUME NEW n \in crashed' \cap used'
             PROVE  \/ n \in DOMAIN saved'
                    \/ /\ n \in DOMAIN dirs'
                       /\ n \in unmoved' \/ \E w \in Workers : worker'[w] = "save" /\ Path(w)' = n
  BY DEF CrashKept
<1> USE DEF Core
<1>1. DOMAIN saved \subseteq DOMAIN saved' /\ unmoved \subseteq unmoved'
  BY FilesFrom
<1>2. CASE n \in unmoved /\ n \in DOMAIN dirs
  <2>1. n \notin Listed /\ \A v \in Workers : SaveCrash(v) => Path(v) # n
    BY <1>2 DEF Judged, Apart, Unjudged, SaveCrash, Executing
  <2>2. n \in DOMAIN dirs'
    BY <1>2, <2>1, FilesFrom
  <2> QED
    BY <1>1, <1>2, <2>2
<1>3. ASSUME NEW w \in Workers, worker[w] = "save", Path(w) = n, n \in DOMAIN dirs
      PROVE  \/ n \in DOMAIN saved'
             \/ /\ n \in DOMAIN dirs'
                /\ n \in unmoved' \/ \E v \in Workers : worker'[v] = "save" /\ Path(v)' = n
  <2>1. CASE SaveCrash(w)
    BY <1>3, <2>1 DEF SaveCrash, CanRename, With
  <2>2. CASE SaveCrashFails(w)
    BY <1>3, <2>2 DEF SaveCrashFails
  <2>3. CASE ~SaveCrash(w) /\ ~SaveCrashFails(w)
    <3>1. worker'[w] = "save" /\ Path(w)' = n
      BY <1>3, <2>3, SaveNext
    <3>2. w \in Executing /\ n \notin Listed
      BY <1>3 DEF Judged, Unjudged, Executing
    <3>3. \A v \in Workers : SaveCrash(v) => Path(v) # n
      BY <1>3, <2>3, <3>2, PathsDiffer DEF Judged, SaveCrash, Executing
    <3>4. n \in DOMAIN dirs'
      BY <1>3, <3>2, <3>3, FilesFrom
    <3> QED
      BY <3>1, <3>4
  <2> QED
    BY <2>1, <2>2, <2>3
<1>4. CASE n \in crashed /\ n \in used
  BY <1>1, <1>2, <1>3, <1>4 DEF CrashKept
<1>5. CASE n \notin used
  <2>1. PICK w \in Workers : /\ SetupMutation(w) \/ SetupMutationFails(w)
                             /\ n = Path(w) /\ crashed' = crashed
    BY <1>5, FilesFrom
  <2>2. worker[w] = "setup" /\ Past(n)
    BY <2>1 DEF SetupMutation, SetupMutationFails, Judged, Named
  <2> QED
    BY <2>1, <2>2, SetupIsFresh DEF Judged
<1>6. CASE n \notin crashed /\ n \in used
  <2>1. PICK w \in Workers : WaitForChild(w) /\ n = Path(w) /\ GoTo(w, "save") /\ dirs' = dirs
    BY <1>6, FilesFrom
  <2>2. worker'[w] = "save" /\ Path(w)' = Path(w) /\ w \in Executing
    BY <2>1 DEF WaitForChild, GoTo, WorkerStep, monitorVars, ProcessesOK, Path, Executing
  <2>3. n \in DOMAIN dirs'
    BY <1>6, <2>1, <2>2 DEF Judged, Held
  <2> QED
    BY <2>1, <2>2, <2>3
<1> QED
  BY <1>4, <1>5, <1>6

LEMMA JudgedInvariant == NamesFit /\ Spec => []Judged
<1> SUFFICES ASSUME NamesFit PROVE Spec => []Judged
  OBVIOUS
<1>1. Init => Judged
  BY DEF Init, Judged, Counted, Forked, Named, Held, Unjudged, Apart, Listed, Executing, Range
<1>2. Core /\ Core' /\ Judged /\ [Next]_vars => Judged'
  <2> SUFFICES ASSUME Core, Core', Judged, [Next]_vars PROVE Judged'
    OBVIOUS
  <2>1. Counted' /\ Forked'
    BY CountedStep, ForkedStep DEF Core, Judged
  <2>2. Named'
    BY <2>1, NamedStep DEF Judged
  <2> QED
    BY <2>1, <2>2, HeldStep, UnjudgedStep, ApartStep DEF Judged
<1> QED
  BY <1>1, <1>2, CoreInvariant, PTL DEF Spec

\* When the data and the crash path are on one file system, the directory of
\* every crash is in the crash path as soon as its worker has moved it.  Until
\* then, and for good when mkdtemp or the rename fails, it is where it was:
\* whatever else fails and however the workers interleave, none is removed.
THEOREM CrashesKept == NamesFit /\ SameFilesystem /\ Spec => []CrashKept
<1> SUFFICES ASSUME NamesFit, SameFilesystem PROVE Spec => []CrashKept
  OBVIOUS
<1>1. Init => CrashKept
  BY DEF Init, CrashKept
<1>2. Core /\ Judged /\ CrashKept /\ [Next]_vars => CrashKept'
  BY CrashKeptStep
<1> QED
  BY <1>1, <1>2, CoreInvariant, JudgedInvariant, PTL DEF Spec

\* A crash that was saved stays so and never becomes a parent again.
THEOREM CrashesFinal == NamesFit /\ Spec => CrashesStay
<1> SUFFICES ASSUME NamesFit PROVE Spec => CrashesStay
  OBVIOUS
<1>1. Core /\ Core' /\ Judged' /\ [Next]_vars =>
        [/\ DOMAIN saved \subseteq DOMAIN saved'
         /\ Range(parents') \cap DOMAIN saved' = {}]_<<saved, parents>>
  <2> SUFFICES ASSUME Core, Core', Judged', [Next]_vars
               PROVE  /\ DOMAIN saved \subseteq DOMAIN saved'
                      /\ Range(parents') \cap DOMAIN saved' = {}
    OBVIOUS
  <2>1. DOMAIN saved \subseteq DOMAIN saved'
    BY FilesFrom DEF Core
  <2>2. Torn \notin DOMAIN saved'
    BY CampaignAssumption DEF Core, FilesOK, Directories
  <2>3. Range(parents') \cap DOMAIN saved' = {}
    BY <2>2 DEF Judged, Apart, Listed
  <2> QED
    BY <2>1, <2>3
<1> QED
  BY <1>1, CoreInvariant, JudgedInvariant, PTL DEF Spec, CrashesStay

-----------------------------------------------------------------------------
(***************************************************************************)
(* What becomes of the population: the reaper keeps the best, publishes    *)
(* only directories that exist, and, when nothing fails, the campaign is   *)
(* the abstract corpus: what later generations start from exists, ran      *)
(* clean and stays within its limit.                                       *)
(***************************************************************************)

\* The entries of the parents file whose turn in the copy loop has come.
Done == (1 .. Len(scores)) \ left

\* The number of entries written to the temporary file so far, if positive.
Written == next - Victims - 1

\* In the copy loop: the victims come first and are the worst; what is written
\* are other entries, each once, whose directories are there to stay.
Trimming ==
  reaper = "trim" =>
    /\ \A i \in left : HasCoverage(parents[i])
    /\ Torn \notin Range(parents)
    /\ next <= Victims => \A i \in Done : parents[i] \notin DOMAIN dirs
    /\ \A m \in 1 .. Written :
         \E i \in Done : parentsTmp[m] = parents[i] /\ HasCoverage(parents[i])
    /\ \A m, k \in 1 .. Written : parentsTmp[m] = parentsTmp[k] => m = k

Renaming ==
  reaper = "rename" =>
    /\ parents = <<>> /\ partial = <<>> /\ IsInjective(parentsTmp)
    /\ \A m \in DOMAIN parentsTmp : HasCoverage(parentsTmp[m])

\* No name is entered twice.
Distinct ==
  /\ \A i, j \in DOMAIN parents : parents[i] = parents[j] /\ parents[i] # Torn => i = j
  /\ Range(parents) \cap Range(partial) \subseteq {Torn}

-----------------------------------------------------------------------------
(* The copy loop *)

\* One turn of the copy loop, in terms of its entry.
LEMMA TrimTurn ==
  ASSUME FilesOK, Reaping, ReapTrim
  PROVE  /\ UNCHANGED <<reaper, scores, parents, used, saved, crashed, clean>>
         /\ reaper = "trim" /\ next' = next + 1 /\ Written' = Written + 1 /\ Written \in Int
         /\ \E i \in left :
              /\ Lowest(i) /\ left' = left \ {i} /\ Done' = Done \cup {i}
              /\ i \in DOMAIN parents /\ i \in 1 .. Len(scores)
              /\ \/ next <= Victims /\ dirs' = Without(dirs, parents[i]) /\ UNCHANGED parentsTmp
                 \/ /\ next > Victims /\ UNCHANGED dirs /\ Written' \in Nat \ {0}
                    /\ Written' <= Len(parentsTmp) + 1
                    /\ parentsTmp' = Overwrite(parentsTmp, Written', parents[i])
<1> USE CampaignAssumption
<1>1. /\ UNCHANGED <<reaper, scores, parents, used, saved, crashed, clean>> /\ reaper = "trim"
      /\ next' = next + 1 /\ next \in Nat
  BY DEF ReapTrim, ReaperStep, observed, FilesOK
<1>2. Victims \in Int /\ Victims' = Victims /\ Len(scores) \in Nat /\ Len(parentsTmp) \in Nat
  BY <1>1 DEF FilesOK, Victims
<1>3. Written' = Written + 1 /\ Written \in Int
  BY <1>1, <1>2 DEF Written
<1>4. PICK i \in left :
        /\ Lowest(i) /\ left' = left \ {i}
        /\ \/ next <= Victims /\ dirs' = Without(dirs, parents[i]) /\ UNCHANGED parentsTmp
           \/ /\ ~ next <= Victims /\ UNCHANGED dirs
              /\ parentsTmp' = Overwrite(parentsTmp, next - Victims, parents[i])
  BY DEF ReapTrim
<1>5. i \in 1 .. Len(scores) /\ i \in DOMAIN parents
  BY <1>1 DEF FilesOK, Reaping
<1>6. Done' = Done \cup {i}
  BY <1>1, <1>4, <1>5 DEF Done
<1>7. next > Victims => Written' \in Nat \ {0} /\ Written' <= Len(parentsTmp) + 1 /\ Written' = next - Victims
  BY <1>1, <1>2 DEF Written, Reaping
<1>8. ~ next <= Victims => next > Victims
  BY <1>1, <1>2
<1> QED
  BY <1>1, <1>3, <1>4, <1>5, <1>6, <1>7, <1>8

\* Entries are compared by their directories, which the names tell apart.
LEMMA TrimmingStep ==
  ASSUME FilesOK, Reaping, Distinct, Trimming, BestSurvive, ReapTrim
  PROVE  Trimming' /\ BestSurvive'
<1>1. /\ UNCHANGED <<reaper, scores, parents>> /\ reaper = "trim" /\ next' = next + 1
      /\ Written' = Written + 1 /\ Written \in Int
  BY TrimTurn
<1>2. PICK i \in left :
        /\ Lowest(i) /\ left' = left \ {i} /\ Done' = Done \cup {i}
        /\ i \in DOMAIN parents /\ i \in 1 .. Len(scores)
        /\ \/ next <= Victims /\ dirs' = Without(dirs, parents[i]) /\ UNCHANGED parentsTmp
           \/ /\ next > Victims /\ UNCHANGED dirs /\ Written' \in Nat \ {0}
              /\ Written' <= Len(parentsTmp) + 1
              /\ parentsTmp' = Overwrite(parentsTmp, Written', parents[i])
  BY TrimTurn
<1>3. /\ DOMAIN parents = 1 .. Len(scores) /\ DOMAIN scores = 1 .. Len(scores) /\ Len(scores) \in Nat
      /\ next \in Nat /\ Victims \in Int /\ left \subseteq DOMAIN parents /\ Victims' = Victims
      /\ \A j \in DOMAIN scores : scores[j] \in Int
  <2>1. Len(scores) \in Nat /\ Len(scores) = Len(parents) /\ next \in Nat /\ left \subseteq 1 .. Len(scores)
    BY <1>1 DEF FilesOK, Reaping
  <2>2. DOMAIN parents = 1 .. Len(parents) /\ DOMAIN scores = 1 .. Len(scores)
    BY DEF FilesOK
  <2>3. Victims \in Int /\ Victims' = Victims
    <3>1. MaxStateCount \in Int
      BY CampaignAssumption
    <3> QED
      BY <1>1, <2>1, <3>1 DEF Victims
  <2>4. \A j \in DOMAIN scores : scores[j] \in Int
    <3>1. Scores \subseteq Int
      BY CampaignAssumption
    <3>2. \A j \in DOMAIN scores : scores[j] \in Scores
      BY DEF FilesOK
    <3> QED
      BY <3>1, <3>2
  <2> QED
    BY <2>1, <2>2, <2>3, <2>4
<1>4. \A j, k \in DOMAIN parents : parents[j] = parents[k] => j = k
  BY <1>1 DEF Distinct, Trimming, Range
<1>5. CASE next <= Victims /\ dirs' = Without(dirs, parents[i]) /\ UNCHANGED parentsTmp
  <2>1. \A j \in DOMAIN parents \ {i} :
          /\ parents[j] \in DOMAIN dirs' <=> parents[j] \in DOMAIN dirs
          /\ HasCoverage(parents[j])' <=> HasCoverage(parents[j])
    BY <1>1, <1>2, <1>4, <1>5 DEF Without, HasCoverage
  <2>2. parents[i] \notin DOMAIN dirs'
    BY <1>5 DEF Without
  <2>3. \A j \in left' : HasCoverage(parents[j])'
    BY <1>1, <1>2, <1>3, <2>1 DEF Trimming
  <2>4. \A j \in Done : parents[j] \notin DOMAIN dirs
    BY <1>1, <1>5 DEF Trimming
  <2>5. \A j \in Done' : parents[j] \notin DOMAIN dirs'
    BY <1>2, <1>3, <2>1, <2>2, <2>4 DEF Done
  <2>6. Written' <= 0
    BY <1>1, <1>3, <1>5 DEF Written
  <2>7. Trimming'
    BY <1>1, <2>3, <2>5, <2>6 DEF Trimming
  <2>8. \A j \in DOMAIN scores : parents[j] \in DOMAIN dirs' => j \in left'
    BY <1>1, <1>2, <1>3, <2>5 DEF Done
  <2>9. BestSurvive'
    <3> SUFFICES ASSUME NEW j \in DOMAIN scores, NEW k \in DOMAIN scores,
                        parents[j] \notin DOMAIN dirs', parents[k] \in DOMAIN dirs'
                 PROVE  scores[j] <= scores[k]
      BY <1>1 DEF BestSurvive
    <3>1. k \in left /\ parents[k] \in DOMAIN dirs
      BY <1>2, <1>3, <2>1, <2>2, <2>8
    <3>2. CASE j = i
      BY <1>2, <3>1, <3>2 DEF Lowest
    <3>3. CASE j # i
      BY <1>1, <1>3, <2>1, <3>1, <3>3 DEF BestSurvive
    <3> QED
      BY <3>2, <3>3
  <2> QED
    BY <2>7, <2>9
<1>6. CASE /\ next > Victims /\ UNCHANGED dirs /\ Written' \in Nat \ {0}
           /\ Written' <= Len(parentsTmp) + 1
           /\ parentsTmp' = Overwrite(parentsTmp, Written', parents[i])
  <2>1. \A n : HasCoverage(n)' <=> HasCoverage(n)
    BY <1>6 DEF HasCoverage
  <2>2. BestSurvive'
    BY <1>1, <1>6 DEF BestSurvive
  <2>3. parentsTmp'[Written'] = parents[i] /\ \A m \in 1 .. Written : parentsTmp'[m] = parentsTmp[m]
    BY <1>1, <1>6 DEF Overwrite, FilesOK
  <2>4. \A m \in 1 .. Written' : m \in 1 .. Written \/ m = Written'
    BY <1>1
  <2>5. \A m \in 1 .. Written :
          \E j \in Done : parentsTmp[m] = parents[j] /\ HasCoverage(parents[j])
    BY <1>1 DEF Trimming
  <2>6. HasCoverage(parents[i]) /\ i \notin Done /\ Done \subseteq DOMAIN parents
    BY <1>1, <1>2, <1>3 DEF Trimming, Done
  <2>7. \A m \in 1 .. Written' :
          \E j \in Done' : parentsTmp'[m] = parents[j] /\ HasCoverage(parents[j])
    BY <1>2, <2>3, <2>4, <2>5, <2>6
  <2>8. \A m \in 1 .. Written : parentsTmp'[m] # parentsTmp'[Written']
    BY <1>2, <1>4, <2>3, <2>5, <2>6
  <2>9. \A m, k \in 1 .. Written' : parentsTmp'[m] = parentsTmp'[k] => m = k
    BY <1>1, <2>3, <2>4, <2>8 DEF Trimming
  <2>10. \A j \in left' : HasCoverage(parents[j])
    BY <1>1, <1>2 DEF Trimming
  <2>11. ~ next' <= Victims'
    BY <1>1, <1>3, <1>6
  <2> QED
    BY <1>1, <2>1, <2>2, <2>7, <2>9, <2>10, <2>11 DEF Trimming
<1> QED
  BY <1>2, <1>5, <1>6

-----------------------------------------------------------------------------
(* The reaping as a whole *)

\* While there is a reaper nobody else has a step that touches the files.
LEMMA ReaperMoves ==
  ASSUME ProcessesOK, Control, [Next]_vars, reaper' \in {"trim", "rename"}
  PROVE  \/ ReapScore /\ reaper' = "trim"
         \/ ReapTrim
         \/ ReapUnlink
         \/ /\ reaper \in {"trim", "rename"}
            /\ UNCHANGED <<reaper, scores, left, next, parentsTmp, dirs, parents, partial>>
<1>1. CASE ReaperNext \/ ReaperDies
  <2>1. ~ReapCheck /\ ~ReapRename /\ ~ReaperDies
    BY DEF ReapCheck, ReapRename, ReaperDies, ReaperExits
  <2>2. ReapScore => reaper' = "trim"
    BY DEF ReapScore, ReaperExits
  <2> QED
    BY <1>1, <2>1, <2>2 DEF ReaperNext
<1>2. CASE /\ UNCHANGED reaperVars
           /\ ~(ReaperNext \/ ReaperDies)
  <2>1. reaper \in {"trim", "rename"} /\ \A w \in Workers : worker[w] = "none" /\ child[w] = "none"
    BY <1>2 DEF reaperVars, Control, Live
  <2>2. UNCHANGED <<dirs, parents, partial>>
    BY <1>2, <2>1
       DEF Next, MonitorNext, KeepGenerating, SpawnWorker, NextSpawn, NoMoreWorkers, StartReaper,
           CleanupGeneration, WaitForWorker, FaultNext, SpawnFails, ReapForkFails,
           CountingPassCrashes, SetupMutationFails, ForkChildFails, Finished, WorkerNext,
           SetupWorker, KeepMutating, SetupMutation, ForkChild, WaitForChild, Cleanup, SaveCrash,
           SaveCrashFails, RecordParent, RecordParentFails, ChildNext, ChildBlocks, ChildEnds, vars
  <2> QED
    BY <1>2, <2>1, <2>2 DEF reaperVars
<1>3. StartReaper \/ CleanupGeneration \/ ReaperNext \/ ReaperDies \/ UNCHANGED reaperVars
  BY DEF Next, MonitorNext, KeepGenerating, SpawnWorker, NextSpawn, NoMoreWorkers, WaitForWorker,
         FaultNext, SpawnFails, ReapForkFails, CountingPassCrashes, SetupMutationFails,
         ForkChildFails, Finished, WorkerNext, SetupWorker, KeepMutating, SetupMutation,
         ForkChild, WaitForChild, Cleanup, SaveCrash, SaveCrashFails, RecordParent,
         RecordParentFails, ChildNext, ChildBlocks, ChildEnds, WorkerStep, vars, reaperVars
<1>4. ~StartReaper /\ ~CleanupGeneration
  BY DEF StartReaper, CleanupGeneration
<1> QED
  BY <1>1, <1>2, <1>3, <1>4

LEMMA ScoreStep ==
  ASSUME FilesOK, Reaping, ReapScore, reaper' = "trim"
  PROVE  Trimming' /\ BestSurvive'
<1>1. /\ \A n \in Range(parents) : HasCoverage(n)
      /\ scores' \in [1 .. Len(parents) -> Scores]
      /\ left' = 1 .. Len(parents) /\ next' = 1 /\ UNCHANGED <<parents, dirs>>
      /\ Len(parents) >= MaxStateCount /\ Torn \notin Range(parents)
  BY CampaignAssumption DEF ReapScore, ReaperExits, Reaping, FilesOK, Directories, HasCoverage
<1>2. Len(parents) \in Nat /\ DOMAIN parents = 1 .. Len(parents)
  BY DEF FilesOK
<1>3. Len(scores') = Len(parents) /\ DOMAIN scores' = 1 .. Len(parents)
  BY <1>1, <1>2
<1>4. \A i \in 1 .. Len(parents) : HasCoverage(parents[i]) /\ parents[i] \in DOMAIN dirs
  BY <1>1, <1>2 DEF Range, HasCoverage
<1>5. \A n : HasCoverage(n)' <=> HasCoverage(n)
  BY <1>1 DEF HasCoverage
<1>6. Done' = {}
  BY <1>1, <1>3 DEF Done
<1>7. Written' \in Int /\ Written' <= 0
  BY <1>1, <1>2, <1>3, CampaignAssumption DEF Written, Victims
<1>8. 1 .. Written' = {}
  BY <1>7
<1>9. Trimming'
  BY <1>1, <1>4, <1>5, <1>6, <1>8 DEF Trimming
<1>10. BestSurvive'
  BY <1>1, <1>3, <1>4 DEF BestSurvive
<1> QED
  BY <1>9, <1>10

\* When the loop is through, everything in the temporary file was written by
\* this reaper, whatever an earlier one left there.
LEMMA WholeCopy ==
  ASSUME FilesOK, Reaping, Trimming, ReapUnlink
  PROVE  /\ IsInjective(parentsTmp)
         /\ \A m \in DOMAIN parentsTmp :
              HasCoverage(parentsTmp[m]) /\ parentsTmp[m] \in Range(parents)
<1>1. reaper = "trim" /\ next > Len(scores) /\ next \in Nat /\ Len(scores) \in Nat
  BY DEF ReapUnlink, FilesOK
<1>2. Len(parentsTmp) \in Nat /\ DOMAIN parentsTmp = 1 .. Len(parentsTmp)
  BY DEF FilesOK
<1>3. Len(parentsTmp) <= MaxStateCount /\ MaxStateCount \in Nat
  BY CampaignAssumption DEF Reaping
<1>4. Written \in Int /\ Len(parentsTmp) <= Written
  BY <1>1, <1>2, <1>3 DEF Written, Victims
<1>5. DOMAIN parentsTmp \subseteq 1 .. Written
  BY <1>2, <1>4
<1>6. Done \subseteq DOMAIN parents
  BY <1>1 DEF Done, Reaping, FilesOK
<1>7. \A m \in 1 .. Written :
        \E i \in Done : parentsTmp[m] = parents[i] /\ HasCoverage(parents[i])
  BY <1>1 DEF Trimming
<1>8. \A m, k \in 1 .. Written : parentsTmp[m] = parentsTmp[k] => m = k
  BY <1>1 DEF Trimming
<1>9. \A m \in DOMAIN parentsTmp :
        HasCoverage(parentsTmp[m]) /\ parentsTmp[m] \in Range(parents)
  BY <1>5, <1>6, <1>7 DEF Range
<1>10. IsInjective(parentsTmp)
  BY <1>5, <1>8 DEF IsInjective
<1> QED
  BY <1>9, <1>10

LEMMA UnlinkStep ==
  ASSUME FilesOK, Reaping, Trimming, ReapUnlink
  PROVE  Renaming'
<1>1. parents' = <<>> /\ partial' = <<>> /\ UNCHANGED <<parentsTmp, dirs>>
  BY DEF ReapUnlink
<1> QED
  BY <1>1, WholeCopy DEF Renaming, HasCoverage

\* A name goes into the parents file once: it was not there before.
LEMMA DistinctStep ==
  ASSUME Core, Unjudged, Distinct, Renaming, [Next]_vars
  PROVE  Distinct'
<1> USE DEF Core
<1>1. ASSUME NEW n, n \notin Range(parents) \/ n = Torn, parents' = Append(parents, n)
      PROVE  \A i, j \in DOMAIN parents' : parents'[i] = parents'[j] /\ parents'[i] # Torn => i = j
  <2>1. /\ Len(parents) \in Nat /\ DOMAIN parents = 1 .. Len(parents)
        /\ DOMAIN parents' = 1 .. Len(parents) + 1
        /\ \A i \in DOMAIN parents' :
             IF i = Len(parents) + 1 THEN parents'[i] = n
                                     ELSE i \in DOMAIN parents /\ parents'[i] = parents[i]
    BY <1>1 DEF FilesOK
  <2>2. \A i \in DOMAIN parents : parents[i] # n \/ n = Torn
    BY <1>1 DEF Range
  <2> QED
    BY <2>1, <2>2 DEF Distinct
<1>2. ASSUME NEW w \in Workers, RecordParent(w) \/ RecordParentFails(w) PROVE Distinct'
  <2>1. Path(w) \notin Range(parents)
    <3>1. w \in Executing
      BY <1>2 DEF RecordParent, RecordParentFails, Executing
    <3> QED
      BY <3>1, NotEntered
  <2>2. CASE partial = <<>> /\ parents' = Append(parents, Path(w)) /\ partial' = partial
    BY <1>1, <2>1, <2>2, RangeShort DEF Distinct
  <2>3. CASE UNCHANGED <<parents, partial>>
    BY <2>3 DEF Distinct
  <2>4. CASE parents' = parents /\ partial' \in {<<Path(w)>>, <<Torn>>}
    BY <2>1, <2>4, RangeShort DEF Distinct
  <2>5. CASE partial # <<>> /\ parents' = parents \o partial /\ partial' \in {<<>>, <<Torn>>}
    <3>1. parents' = Append(parents, partial[1]) /\ Range(partial) = {partial[1]}
      BY <2>5, Completed
    <3>2. partial[1] \notin Range(parents) \/ partial[1] = Torn
      BY <3>1 DEF Distinct
    <3> QED
      BY <1>1, <2>5, <3>1, <3>2, RangeShort DEF Distinct
  <2> QED
    BY <1>2, <2>2, <2>3, <2>4, <2>5 DEF RecordParent, RecordParentFails
<1>3. CASE ReapUnlink
  BY <1>3, RangeShort DEF ReapUnlink, Distinct
<1>4. CASE ReapRename
  <2>1. parents' = parentsTmp /\ partial' = <<>> /\ IsInjective(parentsTmp)
    BY <1>4 DEF ReapRename, Renaming
  <2> QED
    BY <2>1, RangeShort DEF Distinct, IsInjective
<1>5. CASE UNCHANGED <<parents, partial>>
  BY <1>5 DEF Distinct
<1>6. \/ \E w \in Workers : RecordParent(w) \/ RecordParentFails(w)
      \/ ReapUnlink \/ ReapRename \/ UNCHANGED <<parents, partial>>
  BY DEF Next, MonitorNext, KeepGenerating, SpawnWorker, NextSpawn, NoMoreWorkers, StartReaper,
         CleanupGeneration, WaitForWorker, ReaperNext, ReapCheck, ReapScore, ReapTrim, FaultNext,
         SpawnFails, ReapForkFails, ReaperDies, CountingPassCrashes, SetupMutationFails,
         ForkChildFails, SaveCrashFails, Finished, WorkerNext, SetupWorker, KeepMutating,
         SetupMutation, ForkChild, WaitForChild, SaveCrash, ChildNext, ChildBlocks, ChildEnds, vars
<1> QED
  BY <1>2, <1>3, <1>4, <1>5, <1>6

Selecting == Distinct /\ Trimming /\ Renaming /\ BestSurvive

LEMMA SelectingStep ==
  ASSUME Core, Unjudged, Selecting, [Next]_vars
  PROVE  Selecting'
<1> USE DEF Core
<1>1. Distinct'
  BY DistinctStep DEF Selecting
<1> SUFFICES Trimming' /\ Renaming' /\ BestSurvive'
  BY <1>1 DEF Selecting
<1>2. CASE reaper' \notin {"trim", "rename"}
  BY <1>2 DEF Trimming, Renaming, BestSurvive
<1>3. CASE reaper' \in {"trim", "rename"}
  <2>1. CASE ReapScore /\ reaper' = "trim"
    BY <2>1, ScoreStep DEF Renaming
  <2>2. CASE ReapTrim
    <3>1. reaper' = "trim"
      BY <2>2 DEF ReapTrim
    <3> QED
      BY <2>2, <3>1, TrimmingStep DEF Selecting, Renaming
  <2>3. CASE ReapUnlink
    <3>1. reaper' = "rename"
      BY <2>3 DEF ReapUnlink
    <3> QED
      BY <2>3, <3>1, UnlinkStep DEF Selecting, Trimming, BestSurvive
  <2>4. CASE UNCHANGED <<reaper, scores, left, next, parentsTmp, dirs, parents, partial>>
    BY <2>4 DEF Selecting, Trimming, Renaming, BestSurvive, Done, Written, Victims, HasCoverage
  <2> QED
    BY <1>3, <2>1, <2>2, <2>3, <2>4, ReaperMoves
<1> QED
  BY <1>2, <1>3

LEMMA SelectingInvariant == NamesFit /\ Spec => []Selecting
<1> SUFFICES ASSUME NamesFit PROVE Spec => []Selecting
  OBVIOUS
<1>1. Init => Selecting
  BY RangeShort DEF Init, Selecting, Distinct, Trimming, Renaming, BestSurvive
<1>2. Core /\ Judged /\ Selecting /\ [Next]_vars => Selecting'
  BY SelectingStep DEF Judged
<1> QED
  BY <1>1, <1>2, CoreInvariant, JudgedInvariant, PTL DEF Spec

\* However many entries there are, however their scores tie, and whatever
\* failed before, the reaper never removes a state that scored above one it
\* has kept.
THEOREM SelectionKeepsBest == NamesFit /\ Spec => []BestSurvive
<1>1. Selecting => BestSurvive
  BY DEF Selecting
<1> QED
  BY <1>1, SelectingInvariant, PTL

\* What the reaper publishes is complete and resolves, whatever killed reapers
\* left in the temporary file.
THEOREM PublicationWhole == NamesFit /\ Spec => []PublishedWhole
<1>1. Core /\ Selecting => PublishedWhole
  BY DEF Core, Reaping, Selecting, Renaming, PublishedWhole, Range
<1> QED
  BY <1>1, CoreInvariant, SelectingInvariant, PTL

-----------------------------------------------------------------------------
(* Campaigns in which nothing failed *)

\* Whatever is listed ran clean and is there, and every log can be replayed.
Sound ==
  faults = 0 =>
    /\ \A n \in DOMAIN dirs : dirs[n].log = "begun"
    /\ \A n \in DOMAIN saved : saved[n].log = "begun"
    /\ Listed \subseteq clean /\ partial = <<>>
    /\ reaper # "trim" => Range(parents) \subseteq DOMAIN dirs
    /\ \A w \in Workers : worker[w] = "record" => Path(w) \in clean

\* The population is within its limit once the reaper is done with it.
Bounded ==
  faults = 0 /\ (reaper = "exited" \/ monitor \in {"generate", "done"}) =>
    Len(parents) <= MaxStateCount

\* A worker is about to record a parent because its child ended well.
LEMMA RecordFrom ==
  ASSUME ProcessesOK, Control, [Next]_vars, NEW w \in Workers, worker'[w] = "record",
         faults' = faults
  PROVE  /\ Path(w)' = Path(w)
         /\ worker[w] = "record" \/ (WaitForChild(w) /\ Path(w) \in clean')
<1> USE DEF ProcessesOK
<1>1. w \in Executing' /\ Path(w)' = Path(w)
  BY ExecutingFrom DEF Executing
<1>2. faults \in Nat
  OBVIOUS
<1>3. ~FaultNext
  BY <1>2 DEF FaultNext, SpawnFails, ReapForkFails, ReaperDies, CountingPassCrashes,
              SetupMutationFails, ForkChildFails, SaveCrashFails, RecordParentFails, Fault
<1>4. CASE UNCHANGED worker
  BY <1>1, <1>4
<1>5. CASE SpawnWorker
  BY <1>1, <1>5 DEF SpawnWorker, NextSpawn
<1>6. ASSUME NEW v \in Workers,
             \/ WaitForWorker(v) \/ SetupWorker(v) \/ SetupMutation(v) \/ ForkChild(v)
             \/ SaveCrash(v) \/ RecordParent(v) \/ KeepMutating(v)
      PROVE  worker[w] = "record"
  BY <1>6 DEF WaitForWorker, SetupWorker, SetupMutation, ForkChild, Cleanup, SaveCrash,
              SaveCrashFails, RecordParent, RecordParentFails, KeepMutating, GoTo
<1>7. ASSUME NEW v \in Workers, WaitForChild(v)
      PROVE  worker[w] = "record" \/ (WaitForChild(w) /\ Path(w) \in clean')
  <2>1. CASE v = w
    BY <1>7, <2>1 DEF WaitForChild, GoTo
  <2>2. CASE v # w
    BY <1>7, <2>2 DEF WaitForChild, GoTo
  <2> QED
    BY <2>1, <2>2
<1>8. CASE \/ KeepGenerating \/ NoMoreWorkers \/ StartReaper \/ CleanupGeneration \/ ReaperNext
           \/ UNCHANGED vars \/ \E v \in Workers : ChildNext(v) \/ ChildBlocks(v)
  BY <1>1, <1>8 DEF KeepGenerating, NoMoreWorkers, StartReaper, CleanupGeneration, ReaperNext,
         ReapCheck, ReapScore, ReapTrim, ReapUnlink, ReapRename, ReaperStep, workerVars, vars,
         ChildNext, ChildBlocks, ChildEnds
<1> QED
  BY <1>1, <1>3, <1>5, <1>6, <1>7, <1>8 DEF Next, MonitorNext, WorkerNext, Finished

\* A later generation starts from a log that begins with BEGIN, or makes one.
LEMMA LogsBegun ==
  ASSUME FilesOK, \A n \in DOMAIN dirs : dirs[n].log = "begun", Range(parents) \subseteq DOMAIN dirs
  PROVE  FirstLog \subseteq {"begun"}
<1>1. Sampled \subseteq Range(parents)
  <2>1. /\ Len(parents) \in Nat /\ DOMAIN parents = 1 .. Len(parents)
        /\ MaxStateCount \in Nat
    BY CampaignAssumption DEF FilesOK
  <2>2. 1 .. (IF Len(parents) < MaxStateCount THEN Len(parents) ELSE MaxStateCount)
          \subseteq DOMAIN parents
    BY <2>1
  <2> QED
    BY <2>2 DEF Sampled, Range
<1>2. \A n \in Sampled : CopiedLog(n) = "begun"
  BY <1>1 DEF CopiedLog
<1> QED
  BY <1>2 DEF FirstLog

LEMMA SoundStep ==
  ASSUME NamesFit, Core, Judged, Placed, Selecting, Sound, [Next]_vars
  PROVE  Sound'
<1> USE DEF Core
<1>0. SUFFICES ASSUME faults' = 0, faults = 0 PROVE Sound'
  <2>1. faults' = 0 => faults = 0
    BY FaultsGrow DEF ProcessesOK
  <2> QED
    BY <2>1 DEF Sound
<1>1. ~FaultNext
  BY <1>0 DEF FaultNext, SpawnFails, ReapForkFails, ReaperDies, CountingPassCrashes,
              SetupMutationFails, ForkChildFails, SaveCrashFails, RecordParentFails, Fault
<1>2. /\ \A n \in DOMAIN dirs : dirs[n].log = "begun"
      /\ \A n \in DOMAIN saved : saved[n].log = "begun"
      /\ Listed \subseteq clean /\ partial = <<>>
      /\ reaper # "trim" => Range(parents) \subseteq DOMAIN dirs
      /\ \A w \in Workers : worker[w] = "record" => Path(w) \in clean
  BY <1>0 DEF Sound
<1>3. \A w \in Workers : worker[w] # "none" => reaper = "none"
  BY DEF Control, Live
<1>4. clean \subseteq clean'
  BY DEF Next, MonitorNext, KeepGenerating, SpawnWorker, NextSpawn, NoMoreWorkers, StartReaper,
         CleanupGeneration, WaitForWorker, ReaperNext, ReapCheck, ReapScore, ReapTrim, ReapUnlink,
         ReapRename, ReaperStep, FaultNext, SpawnFails, ReapForkFails, ReaperDies,
         CountingPassCrashes, SetupMutationFails, ForkChildFails, Finished, WorkerNext,
         SetupWorker, KeepMutating, SetupMutation, ForkChild, WaitForChild, Cleanup, SaveCrash,
         SaveCrashFails, RecordParent, RecordParentFails, ChildNext, ChildBlocks, ChildEnds, vars,
         observed
<1>5. \A w \in Workers : worker'[w] = "record" => Path(w)' \in clean'
  BY <1>0, <1>2, <1>4, RecordFrom
<1> SUFFICES /\ \A n \in DOMAIN dirs' : dirs'[n].log = "begun"
             /\ \A n \in DOMAIN saved' : saved'[n].log = "begun"
             /\ Listed' \subseteq clean /\ partial' = <<>>
             /\ reaper' # "trim" => Range(parents') \subseteq DOMAIN dirs'
  BY <1>4, <1>5 DEF Sound
<1>6. CASE ReaperNext
  <2>1. Listed' \subseteq clean /\ saved' = saved /\ partial' = <<>>
    BY <1>2, <1>6, ReaperLists
       DEF ReaperNext, ReapCheck, ReapScore, ReapTrim, ReapUnlink, ReapRename, ReaperStep
  <2>2. \A n \in DOMAIN dirs' : n \in DOMAIN dirs /\ dirs'[n] = dirs[n]
    BY <1>6 DEF ReaperNext, ReapCheck, ReapScore, ReapTrim, ReapUnlink, ReapRename, Without
  <2>3. reaper' # "trim" => Range(parents') \subseteq DOMAIN dirs'
    <3>1. CASE ReapTrim
      BY <3>1 DEF ReapTrim
    <3>2. CASE ReapUnlink
      BY <3>2 DEF ReapUnlink, Range
    <3>3. CASE ReapRename
      BY <3>3 DEF ReapRename, Selecting, Renaming, HasCoverage, Range
    <3>4. CASE ReapCheck \/ ReapScore
      BY <1>2, <3>4 DEF ReapCheck, ReapScore
    <3> QED
      BY <1>6, <3>1, <3>2, <3>3, <3>4 DEF ReaperNext
  <2> QED
    BY <1>2, <2>1, <2>2, <2>3
<1>7. ASSUME NEW w \in Workers, SetupMutation(w)
      PROVE  /\ \A n \in DOMAIN dirs' : dirs'[n].log = "begun"
             /\ Range(parents') \subseteq DOMAIN dirs' /\ UNCHANGED <<saved, partial>>
             /\ Listed' = Listed
  <2>1. UNCHANGED <<saved, parents, partial, parentsTmp>> /\ Range(parents) \subseteq DOMAIN dirs
    BY <1>2, <1>3, <1>7 DEF SetupMutation, WorkerStep, reaperVars
  <2>2. FirstLog \subseteq {"begun"}
    BY <1>2, <2>1, LogsBegun
  <2>3. dirs' = dirs \/ dirs' = With(dirs, Path(w), [log |-> "begun", coverage |-> TRUE])
    BY <1>7, <2>2 DEF SetupMutation
  <2> QED
    BY <1>2, <2>1, <2>3 DEF With, Listed
<1>8. ASSUME NEW w \in Workers, SaveCrash(w)
      PROVE  /\ \A n \in DOMAIN dirs' : dirs'[n].log = "begun"
             /\ \A n \in DOMAIN saved' : saved'[n].log = "begun"
             /\ Range(parents') \subseteq DOMAIN dirs' /\ Listed' = Listed /\ partial' = partial
  <2>1. UNCHANGED <<parents, partial, parentsTmp>> /\ Range(parents) \subseteq DOMAIN dirs
    BY <1>2, <1>3, <1>8 DEF SaveCrash, WorkerStep, reaperVars
  <2>2. Path(w) \notin Range(parents)
    BY <1>8, NotEntered DEF SaveCrash, Judged, Executing
  <2>3. \/ UNCHANGED <<saved, dirs>>
        \/ /\ Path(w) \in DOMAIN dirs /\ dirs' = Without(dirs, Path(w))
           /\ saved' = With(saved, Path(w), dirs[Path(w)])
    BY <1>8 DEF SaveCrash, CanRename
  <2> QED
    BY <1>2, <2>1, <2>2, <2>3 DEF With, Without, Listed
<1>9. ASSUME NEW w \in Workers, RecordParent(w)
      PROVE  /\ UNCHANGED <<dirs, saved, partial>> /\ Listed' \subseteq clean
             /\ Range(parents') \subseteq DOMAIN dirs'
  <2>1. /\ UNCHANGED <<dirs, saved, partial, parentsTmp>> /\ parents' = Append(parents, Path(w))
        /\ Range(parents) \subseteq DOMAIN dirs /\ Path(w) \in clean /\ w \in Executing
    BY <1>2, <1>3, <1>9 DEF RecordParent, WorkerStep, reaperVars, Executing
  <2>2. Path(w) \in DOMAIN dirs
    BY <1>0, <2>1 DEF Placed
  <2>3. Range(parents') \subseteq Range(parents) \cup {Path(w)}
    BY <2>1, RangeAppend DEF FilesOK
  <2> QED
    BY <1>2, <2>1, <2>2, <2>3 DEF Listed
<1>10. CASE /\ UNCHANGED <<dirs, saved, parents, partial, parentsTmp>>
            /\ reaper = "trim" => reaper' = "trim"
  BY <1>2, <1>10 DEF Listed
<1>11. StartReaper => reaper # "trim"
  BY DEF StartReaper, Control
<1>12. \/ ReaperNext
       \/ \E w \in Workers : SetupMutation(w) \/ SaveCrash(w) \/ RecordParent(w)
       \/ /\ UNCHANGED <<dirs, saved, parents, partial, parentsTmp>>
          /\ reaper = "trim" => reaper' = "trim"
  BY <1>1, <1>11 DEF Next, MonitorNext, KeepGenerating, SpawnWorker, NextSpawn, NoMoreWorkers,
         StartReaper, CleanupGeneration, WaitForWorker, Finished, WorkerNext, SetupWorker,
         KeepMutating, ForkChild, WaitForChild, WorkerStep, reaperVars, ChildNext, ChildBlocks,
         ChildEnds, vars
<1> QED
  BY <1>2, <1>6, <1>7, <1>8, <1>9, <1>10, <1>12

LEMMA BoundedStep ==
  ASSUME Core, Placed, Sound, Bounded, [Next]_vars
  PROVE  Bounded'
<1> USE DEF Core
<1>0. SUFFICES ASSUME faults' = 0, faults = 0, reaper' = "exited" \/ monitor' \in {"generate", "done"}
               PROVE  Len(parents') <= MaxStateCount
  <2>1. faults' = 0 => faults = 0
    BY FaultsGrow DEF ProcessesOK
  <2> QED
    BY <2>1 DEF Bounded
<1>1. ~FaultNext
  BY <1>0 DEF FaultNext, SpawnFails, ReapForkFails, ReaperDies, CountingPassCrashes,
              SetupMutationFails, ForkChildFails, SaveCrashFails, RecordParentFails, Fault
<1>2. CASE ReapRename
  BY <1>2 DEF ReapRename, Reaping
<1>3. CASE ReapCheck
  <2>1. reaper # "none" /\ monitor' = monitor
    BY <1>3 DEF ReapCheck, ReaperStep, monitorVars
  <2>2. monitor = "reaping"
    BY <2>1 DEF Control
  <2>3. Len(parents) < MaxStateCount /\ parents' = parents
    BY <1>0, <1>3, <2>1, <2>2 DEF ReapCheck
  <2>4. Len(parents) \in Nat /\ MaxStateCount \in Nat
    BY CampaignAssumption DEF FilesOK
  <2> QED
    BY <2>3, <2>4
<1>4. CASE ReapScore
  <2>1. reaper = "score" /\ monitor' = monitor
    BY <1>4 DEF ReapScore, ReaperStep, monitorVars
  <2>2. monitor = "reaping"
    BY <2>1 DEF Control
  <2>3. \A n \in Range(parents) : HasCoverage(n)
    BY <1>0, <2>1 DEF Sound, Placed, HasCoverage
  <2>4. reaper' = "trim"
    BY <1>4, <2>3 DEF ReapScore
  <2> QED
    BY <1>0, <2>1, <2>2, <2>4
<1>5. CASE ReapTrim \/ ReapUnlink
  <2>1. reaper # "none" /\ monitor' = monitor /\ reaper' # "exited"
    BY <1>5 DEF ReapTrim, ReapUnlink, ReaperStep, monitorVars
  <2> QED
    BY <1>0, <2>1 DEF Control
<1>6. ASSUME NEW w \in Workers,
             \/ SetupWorker(w) \/ KeepMutating(w) \/ SetupMutation(w) \/ ForkChild(w)
             \/ WaitForChild(w) \/ SaveCrash(w) \/ RecordParent(w) \/ ChildNext(w) \/ ChildBlocks(w)
      PROVE  FALSE
  <2>1. /\ UNCHANGED <<monitor, reaper>>
        /\ worker[w] # "none" \/ child[w] # "none"
    BY <1>6 DEF SetupWorker, KeepMutating, SetupMutation, ForkChild, WaitForChild, Cleanup,
                SaveCrash, SaveCrashFails, RecordParent, RecordParentFails, ChildNext,
                ChildBlocks, ChildEnds, WorkerStep, monitorVars, reaperVars
  <2>2. Live # {}
    BY <2>1 DEF Control, Live
  <2> QED
    BY <1>0, <2>1, <2>2 DEF Control
<1>7. CASE KeepGenerating \/ CleanupGeneration \/ UNCHANGED vars
  BY <1>0, <1>7 DEF KeepGenerating, CleanupGeneration, Bounded, vars, monitorVars, reaperVars
<1>8. ASSUME \/ SpawnWorker \/ NoMoreWorkers \/ StartReaper
             \/ \E w \in Workers : WaitForWorker(w)
      PROVE  FALSE
  BY <1>0, <1>8 DEF SpawnWorker, NextSpawn, NoMoreWorkers, StartReaper, WaitForWorker, Control,
                    reaperVars
<1> QED
  BY <1>1, <1>2, <1>3, <1>4, <1>5, <1>6, <1>7, <1>8
     DEF Next, MonitorNext, ReaperNext, WorkerNext, Finished

Healthy == Counted /\ Placed /\ Sound /\ Bounded

LEMMA HealthyInvariant == NamesFit /\ Spec => []Healthy
<1> SUFFICES ASSUME NamesFit PROVE Spec => []Healthy
  OBVIOUS
<1>1. Init => Healthy
  BY CampaignAssumption
     DEF Init, Healthy, Counted, Placed, Sound, Bounded, Executing, Listed, Range
<1>2. Core /\ Judged /\ Selecting /\ Healthy /\ [Next]_vars => Healthy'
  <2> SUFFICES ASSUME Core, Judged, Selecting, Healthy, [Next]_vars PROVE Healthy'
    OBVIOUS
  <2>1. Counted' /\ Placed'
    BY CountedStep, PlacedStep DEF Core, Healthy
  <2> QED
    BY <2>1, SoundStep, BoundedStep DEF Healthy
<1> QED
  BY <1>1, <1>2, CoreInvariant, JudgedInvariant, SelectingInvariant, PTL DEF Spec

\* When nothing fails, whatever a later generation starts from exists, was
\* covered and ran clean, and every log, a saved crash's too, can be replayed.
THEOREM ParentsAreSound == NamesFit /\ Spec => []ParentsResolve
<1>1. Core /\ Healthy => ParentsResolve
  <2> SUFFICES ASSUME Core, Healthy, faults = 0 PROVE ParentsResolve
    BY DEF ParentsResolve
  <2>1. \A n \in DOMAIN saved : saved[n].log = "begun"
    BY DEF Healthy, Sound
  <2>2. monitor # "reaping" => reaper = "none"
    BY DEF Core, Control
  <2>3. ASSUME monitor # "reaping", NEW n \in Range(parents)
        PROVE  HasCoverage(n) /\ dirs[n].log = "begun" /\ n \in clean
    <3>1. n \in DOMAIN dirs
      BY <2>2, <2>3 DEF Healthy, Sound
    <3>2. n # Torn
      BY <3>1, CampaignAssumption DEF Core, FilesOK, Directories
    <3>3. n \in clean /\ dirs[n].log = "begun" /\ dirs[n].coverage
      BY <2>3, <3>1, <3>2 DEF Healthy, Sound, Placed, Listed
    <3> QED
      BY <3>1, <3>3 DEF HasCoverage
  <2> QED
    BY <2>1, <2>3 DEF ParentsResolve
<1> QED
  BY <1>1, CoreInvariant, HealthyInvariant, PTL

\* And the population is within its limit between generations.
THEOREM PopulationIsBounded == NamesFit /\ Spec => []PopulationBounded
<1>1. Healthy => PopulationBounded
  BY DEF Healthy, Bounded, PopulationBounded
<1> QED
  BY <1>1, HealthyInvariant, PTL

-----------------------------------------------------------------------------
(* The campaign is the abstract corpus *)

\* Every execution got its directory, and every entry was written as a whole.
Owned == partial = <<>> /\ \A w \in Executing : Path(w) \in used

LEMMA OwnedStep ==
  ASSUME MaxFaults = 0, NamesFit, Core, Judged, Owned, [Next]_vars
  PROVE  Owned'
<1> USE DEF Core
<1>0. ~FaultNext
  BY DEF FaultNext, SpawnFails, ReapForkFails, ReaperDies, CountingPassCrashes,
         SetupMutationFails, ForkChildFails, SaveCrashFails, RecordParentFails, Fault, ProcessesOK
<1>4. partial' = <<>>
  BY <1>0 DEF Owned, Next, MonitorNext, KeepGenerating, SpawnWorker, NextSpawn, NoMoreWorkers,
         StartReaper, CleanupGeneration, WaitForWorker, ReaperNext, ReapCheck, ReapScore, ReapTrim,
         ReapUnlink, ReapRename, Finished, WorkerNext, SetupWorker, KeepMutating, SetupMutation,
         ForkChild, WaitForChild, SaveCrash, RecordParent, ChildNext, ChildBlocks, ChildEnds, vars
<1> SUFFICES ASSUME NEW w \in Executing' PROVE Path(w)' \in used'
  BY <1>4 DEF Owned
<1>1. /\ w \in Workers /\ Path(w)' = Path(w)
      /\ \/ w \in Executing
         \/ worker[w] = "setup" /\ (SetupMutation(w) \/ SetupMutationFails(w))
  BY ExecutingFrom
<1>2. used \subseteq used'
  BY FilesFrom
<1>3. CASE worker[w] = "setup" /\ (SetupMutation(w) \/ SetupMutationFails(w))
  <2>1. ~SetupMutationFails(w)
    BY DEF SetupMutationFails, Fault, ProcessesOK
  <2>2. Path(w) \notin DOMAIN dirs
    BY <1>1, <1>3, SetupIsFresh DEF Judged, Named
  <2> QED
    BY <1>1, <1>3, <2>1, <2>2 DEF SetupMutation
<1> QED
  BY <1>1, <1>2, <1>3 DEF Owned

LEMMA InjectiveCount ==
  ASSUME NEW S, NEW s \in Seq(S), IsInjective(s)
  PROVE  Cardinality(Range(s)) = Len(s)
<1>1. Len(s) \in Nat /\ DOMAIN s = 1 .. Len(s)
  OBVIOUS
<1>2. s \in Bijection(1 .. Len(s), Range(s))
  BY <1>1 DEF Bijection, Injection, Surjection, Range
<1> QED
  BY <1>1, <1>2, FS_CountingElements DEF ExistsBijection

\* The abstract module counts as this one does.
LEMMA SameCardinality == \A S : Abstract!Cardinality(S) = Cardinality(S)
BY DEF Abstract!Cardinality, Cardinality

LEMMA CorpusStep ==
  ASSUME MaxFaults = 0, NamesFit, Core, Judged, Selecting, Owned, [Next]_vars
  PROVE  [Abstract!Next]_(Abstract!vars)
<1> USE DEF Core
<1>1. ~FaultNext
  BY DEF FaultNext, SpawnFails, ReapForkFails, ReaperDies, CountingPassCrashes,
         SetupMutationFails, ForkChildFails, SaveCrashFails, RecordParentFails, Fault, ProcessesOK
<1>2. \A w \in Workers : worker[w] # "none" => reaper = "none"
  BY DEF Control, Live
<1>3. ASSUME NEW w \in Workers, SetupMutation(w) PROVE Abstract!Begin
  <2>1. Path(w) \notin used /\ Path(w) \notin DOMAIN dirs
    BY <1>3, SetupIsFresh DEF SetupMutation, Judged, Named
  <2>2. used' = used \cup {Path(w)} /\ UNCHANGED <<parents, parentsTmp, reaper, saved>>
    BY <1>3, <2>1 DEF SetupMutation, WorkerStep, reaperVars
  <2> QED
    BY <2>1, <2>2 DEF Abstract!Begin
<1>4. ASSUME NEW w \in Workers, RecordParent(w) PROVE Abstract!Keep
  <2>1. /\ parents' = Append(parents, Path(w)) /\ UNCHANGED <<used, saved, reaper>>
        /\ w \in Executing /\ reaper = "none"
    BY <1>2, <1>4 DEF RecordParent, WorkerStep, reaperVars, observed, Executing, Owned
  <2>2. Path(w) \in used /\ Path(w) \notin Range(parents) \cup DOMAIN saved
    BY <2>1, NotEntered DEF Owned, Judged
  <2>3. Range(parents') = Range(parents) \cup {Path(w)}
    <3>1. /\ Len(parents) \in Nat /\ DOMAIN parents = 1 .. Len(parents)
          /\ DOMAIN parents' = 1 .. Len(parents) + 1
          /\ parents'[Len(parents) + 1] = Path(w)
          /\ \A i \in DOMAIN parents : parents'[i] = parents[i]
      BY <2>1 DEF FilesOK
    <3> QED
      BY <3>1 DEF Range
  <2> QED
    BY <2>1, <2>2, <2>3 DEF Abstract!Keep, Abstract!Judged
<1>5. ASSUME NEW w \in Workers, SaveCrash(w) PROVE Abstract!Save \/ UNCHANGED Abstract!vars
  <2>1. UNCHANGED <<used, parents, parentsTmp, reaper>> /\ w \in Executing /\ reaper = "none"
    BY <1>2, <1>5 DEF SaveCrash, WorkerStep, reaperVars, observed, Executing
  <2>2. Path(w) \in used /\ Path(w) \notin Range(parents) \cup DOMAIN saved
    BY <2>1, NotEntered DEF Owned, Judged
  <2>3. saved' = saved \/ DOMAIN saved' = DOMAIN saved \cup {Path(w)}
    BY <1>5 DEF SaveCrash, With
  <2> QED
    BY <2>1, <2>2, <2>3 DEF Abstract!Save, Abstract!Judged, Abstract!vars
<1>6. CASE ReapUnlink
  <2>1. reaper = "trim" /\ reaper' = "rename" /\ UNCHANGED <<used, saved, parentsTmp>>
    BY <1>6 DEF ReapUnlink, ReaperStep, observed
  <2>2. IsInjective(parentsTmp) /\ Range(parentsTmp) \subseteq Range(parents)
    BY <1>6, WholeCopy DEF Selecting, Range
  <2>3. Len(parentsTmp) = MaxStateCount
    <3>1. next > Len(scores) /\ next \in Nat /\ Len(scores) \in Nat /\ MaxStateCount \in Nat
      BY <1>6, CampaignAssumption DEF ReapUnlink, FilesOK
    <3>2. Len(parentsTmp) >= next - Victims - 1 /\ Len(parentsTmp) <= MaxStateCount
          /\ Len(parentsTmp) \in Nat
      BY <2>1 DEF Reaping, FilesOK
    <3> QED
      BY <3>1, <3>2 DEF Victims
  <2>4. Cardinality(Range(parentsTmp)) = MaxStateCount
    BY <2>2, <2>3, InjectiveCount DEF FilesOK
  <2>5. /\ (IF reaper = "rename" THEN Range(parentsTmp) ELSE Range(parents)) = Range(parents)
        /\ (IF reaper' = "rename" THEN Range(parentsTmp') ELSE Range(parents')) = Range(parentsTmp)
    BY <2>1
  <2>6. Abstract!Cull
    BY <2>1, <2>2, <2>4, <2>5, SameCardinality DEF Abstract!Cull
  <2> QED
    BY <2>6 DEF Abstract!Next
<1>7. CASE ReapRename
  <2>1. /\ reaper = "rename" /\ reaper' = "exited" /\ UNCHANGED <<used, saved>>
        /\ parents' = parentsTmp
    BY <1>7 DEF ReapRename, ReaperExits, ReaperStep, observed
  <2> QED
    BY <2>1 DEF Abstract!vars
<1>8. CASE /\ UNCHANGED <<used, saved, parents>>
           /\ "rename" \notin {reaper, reaper'} \/ UNCHANGED <<reaper, parentsTmp>>
  BY <1>8 DEF Abstract!vars
<1>9. \/ \E w \in Workers : SetupMutation(w) \/ SaveCrash(w) \/ RecordParent(w)
      \/ ReapUnlink \/ ReapRename
      \/ /\ UNCHANGED <<used, saved, parents>>
         /\ "rename" \notin {reaper, reaper'} \/ UNCHANGED <<reaper, parentsTmp>>
  <2>1. StartReaper \/ CleanupGeneration \/ ReapCheck \/ ReapScore \/ ReapTrim =>
          /\ UNCHANGED <<used, saved, parents>>
          /\ reaper # "rename" /\ reaper' # "rename"
    BY DEF StartReaper, CleanupGeneration, ReapCheck, ReapScore, ReapTrim, ReaperStep, ReaperExits,
           observed, Control
  <2>2. ASSUME \/ KeepGenerating \/ SpawnWorker \/ NoMoreWorkers \/ UNCHANGED vars
               \/ \E w \in Workers : \/ WaitForWorker(w) \/ SetupWorker(w) \/ KeepMutating(w)
                                     \/ ForkChild(w) \/ WaitForChild(w)
                                     \/ ChildNext(w) \/ ChildBlocks(w)
        PROVE  UNCHANGED <<used, saved, parents, reaper, parentsTmp>>
    BY <2>2 DEF KeepGenerating, SpawnWorker, NextSpawn, NoMoreWorkers, WaitForWorker, SetupWorker,
           KeepMutating, ForkChild, WaitForChild, WorkerStep, reaperVars, ChildNext, ChildBlocks,
           ChildEnds, vars, observed
  <2> QED
    BY <1>1, <2>1, <2>2 DEF Next, MonitorNext, ReaperNext, WorkerNext, Finished
<1> QED
  BY <1>3, <1>4, <1>5, <1>6, <1>7, <1>8, <1>9 DEF Abstract!Next

\* When no system call fails, a campaign of any size, whatever its workers'
\* interleaving, is the abstract corpus: names given once, each execution
\* judged once, crashes for good, a population cut back at one stroke.
THEOREM CampaignIsCorpus ==
  MaxFaults = 0 /\ NamesFit /\ Spec => ImplementsCorpus
<1> SUFFICES ASSUME MaxFaults = 0, NamesFit PROVE Spec => ImplementsCorpus
  OBVIOUS
<1>1. Init => Owned /\ Abstract!Init
  BY DEF Init, Owned, Executing, Abstract!Init, Range
<1>2. Core /\ Judged /\ Owned /\ [Next]_vars => Owned'
  BY OwnedStep
<1>3. Core /\ Judged /\ Selecting /\ Owned /\ [Next]_vars => [Abstract!Next]_(Abstract!vars)
  BY CorpusStep
<1> QED
  BY <1>1, <1>2, <1>3, CoreInvariant, JudgedInvariant, SelectingInvariant, PTL
     DEF Spec, ImplementsCorpus, Abstract!Spec
=============================================================================
