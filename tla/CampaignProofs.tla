--------------------------- MODULE CampaignProofs ---------------------------
(***************************************************************************)
(* What holds of a campaign for every number of workers, executions and    *)
(* generations, and however many faults there are.                         *)
(***************************************************************************)
EXTENDS CampaignProperties, FiniteSetTheorems, TLAPS

\* The variables that type the files of a campaign, and those that type the
\* processes: the steps of one seldom touch the other.
FilesOK ==
  /\ scores \in Seq(Scores) /\ left \subseteq 1 .. Len(scores) /\ next \in Nat
  /\ parents \in Seq(Entry) /\ parentsTmp \in Seq(Entry)
  /\ partial \in Seq(Entry) /\ Len(partial) <= 1
  /\ Directories(dirs) /\ Directories(saved)
  /\ used \subseteq Int /\ clean \subseteq Int /\ crashed \subseteq Int /\ unmoved \subseteq Int

ProcessesOK ==
  /\ monitor \in MonitorPC
  /\ generation \in Nat /\ spawned \in 0 .. ParallelCount /\ waited \in 0 .. ParallelCount
  /\ worker \in [Workers -> WorkerPC]
  /\ exec \in [Workers -> Nat] /\ crashes \in [Workers -> Nat]
  /\ excessive \in [Workers -> BOOLEAN]
  /\ child \in [Workers -> ChildPC]
  /\ reaper \in ReaperPC
  /\ faults \in Nat

\* Workers forked and not yet waited for.
Live == {w \in Workers : worker[w] # "none"}

\* How the processes of a campaign follow one another.
Control ==
  /\ monitor = "spawn" => /\ spawned < NumProcesses
                          /\ \A w \in Workers : w >= spawned => worker[w] = "none"
  /\ Cardinality(Live) + waited <= spawned
  /\ monitor \notin {"spawn", "join"} => Live = {}
  /\ reaper # "none" => monitor = "reaping"
  /\ \A w \in Workers : child[w] # "none" => worker[w] = "wait"

\* What the reaper relies on from one file operation to the next.
Reaping ==
  /\ Len(parentsTmp) <= MaxStateCount
  /\ reaper = "score" => Len(parents) >= MaxStateCount
  /\ reaper = "trim" =>
       /\ Len(parents) >= MaxStateCount /\ Len(scores) = Len(parents)
       /\ next \in 1 .. Len(scores) + 1
       /\ Len(parentsTmp) >= next - Victims - 1
  /\ reaper = "rename" => Len(parentsTmp) = MaxStateCount

-----------------------------------------------------------------------------
(* The operators of the model *)

LEMMA AsIntIsInt == \A x \in Int : AsInt(x) \in Int
<1> SUFFICES ASSUME NEW x \in Int PROVE AsInt(x) \in Int
  OBVIOUS
<1> DEFINE N == 2 * (IntMax + 1)
           y == x + IntMax + 1
<1>1. N \in Nat \ {0} /\ y \in Int /\ IntMax \in Nat
  BY CampaignAssumption
<1>2. AsInt(x) \in {x, (y % N) - (IntMax + 1)}
  BY DEF AsInt
<1> HIDE DEF N, y
<1>3. y % N \in Int
  BY <1>1
<1> QED
  BY <1>1, <1>2, <1>3

LEMMA IterIsInt ==
  ASSUME NEW g \in Nat, NEW w \in Nat, NEW e \in Nat
  PROVE  Iter(g, w, e) \in Int
<1>1. g * ForkCount \in Int
  BY CampaignAssumption
<1>2. g * ForkCount * ParallelCount \in Int /\ w * ForkCount \in Int
  BY <1>1, CampaignAssumption
<1> QED
  BY <1>2, AsIntIsInt DEF Iter

LEMMA PathIsInt ==
  ASSUME ProcessesOK, NEW w \in Workers
  PROVE  Path(w) \in Int
BY IterIsInt, CampaignAssumption DEF ProcessesOK, Path, Workers

LEMMA WithDirectories ==
  ASSUME NEW files, Directories(files), NEW n \in Int, NEW c \in Contents
  PROVE  Directories(With(files, n, c))
BY DEF Directories, With

LEMMA WithoutDirectories ==
  ASSUME NEW files, Directories(files), NEW n
  PROVE  Directories(Without(files, n))
BY DEF Directories, Without

LEMMA OverwriteType ==
  ASSUME NEW file \in Seq(Entry), NEW i \in Nat \ {0}, NEW n \in Entry, i <= Len(file) + 1
  PROVE  /\ Overwrite(file, i, n) \in Seq(Entry)
         /\ Len(Overwrite(file, i, n)) = IF i > Len(file) THEN i ELSE Len(file)
BY DEF Overwrite

LEMMA FirstLogType == FirstLog \subseteq {"empty", "begun"}
BY DEF FirstLog, CopiedLog

-----------------------------------------------------------------------------
(* The processes *)

LEMMA ProcessesInit == Init => ProcessesOK /\ Control
<1> SUFFICES ASSUME Init PROVE ProcessesOK /\ Control
  OBVIOUS
<1>1. ProcessesOK
  BY CampaignAssumption DEF Init, ProcessesOK, MonitorPC, WorkerPC, ChildPC, ReaperPC
<1>2. Live = {}
  BY DEF Init, Live
<1>3. QED
  BY <1>1, <1>2, FS_EmptySet DEF Init, Control

LEMMA LiveFinite == IsFiniteSet(Live) /\ IsFiniteSet(Workers) /\ Cardinality(Live) \in Nat
<1>1. IsFiniteSet(Workers)
  BY FS_Interval, CampaignAssumption DEF Workers
<1>2. QED
  BY <1>1, FS_Subset, FS_CardinalityType DEF Live

LEMMA ProcessesStep ==
  ASSUME ProcessesOK, Control, [Next]_vars
  PROVE  ProcessesOK'
<1> USE CampaignAssumption DEF ProcessesOK, MonitorPC, WorkerPC, ChildPC, ReaperPC
<1>1. CASE KeepGenerating
  BY <1>1 DEF KeepGenerating, workerVars, reaperVars
<1>2. CASE SpawnWorker
  <2>1. spawned \in Workers /\ spawned + 1 \in 0 .. ParallelCount
    BY <1>2 DEF SpawnWorker, NextSpawn, Control, NumProcesses, Workers
  <2> QED
    BY <1>2, <2>1 DEF SpawnWorker, NextSpawn, reaperVars
<1>3. CASE SpawnFails
  BY <1>3 DEF SpawnFails, NextSpawn, Fault, Control, NumProcesses, workerVars, reaperVars
<1>4. ASSUME NEW w \in Workers, WaitForWorker(w) PROVE ProcessesOK'
  <2>1. w \in Live
    BY <1>4 DEF WaitForWorker, Live
  <2>2. Cardinality(Live) >= 1
    BY <2>1, LiveFinite, FS_EmptySet
  <2>3. waited + 1 \in 0 .. ParallelCount
    BY <2>2, LiveFinite DEF Control
  <2> QED
    BY <1>4, <2>3 DEF WaitForWorker, reaperVars
<1>5. CASE NoMoreWorkers \/ StartReaper \/ ReapForkFails \/ CleanupGeneration
  BY <1>5 DEF NoMoreWorkers, StartReaper, ReapForkFails, CleanupGeneration, Fault,
              workerVars, reaperVars
<1>6. CASE ReaperNext
  BY <1>6 DEF ReaperNext, ReapCheck, ReapScore, ReapTrim, ReapUnlink, ReapRename,
              ReaperStep, ReaperExits, monitorVars, workerVars
<1>7. CASE ReaperDies
  BY <1>7 DEF ReaperDies, ReaperStep, ReaperExits, Fault, monitorVars, workerVars
<1>8. ASSUME NEW w \in Workers, WorkerNext(w) PROVE ProcessesOK'
  <2> USE DEF WorkerStep, GoTo, monitorVars, reaperVars
  <2>1. CASE SetupWorker(w)   BY <2>1 DEF SetupWorker
  <2>2. CASE KeepMutating(w)  BY <2>2 DEF KeepMutating
  <2>3. CASE SetupMutation(w) BY <2>3 DEF SetupMutation
  <2>4. CASE ForkChild(w)     BY <2>4 DEF ForkChild
  <2>5. CASE WaitForChild(w)
    <3>1. TooManyCrashes(crashes[w], exec[w]) \in BOOLEAN
          /\ TooManyCrashes(crashes[w] + 1, exec[w]) \in BOOLEAN
      BY DEF TooManyCrashes
    <3> QED
      BY <2>5, <3>1 DEF WaitForChild
  <2>6. CASE SaveCrash(w)     BY <2>6 DEF SaveCrash
  <2>7. CASE RecordParent(w)  BY <2>7 DEF RecordParent
  <2> QED
    BY <1>8, <2>1, <2>2, <2>3, <2>4, <2>5, <2>6, <2>7 DEF WorkerNext
<1>9. ASSUME NEW w \in Workers, ChildNext(w) \/ ChildBlocks(w) PROVE ProcessesOK'
  BY <1>9 DEF ChildNext, ChildBlocks, ChildEnds, WorkerStep, monitorVars, reaperVars
<1>10. ASSUME NEW w \in Workers,
              \/ CountingPassCrashes(w) \/ SetupMutationFails(w) \/ ForkChildFails(w)
              \/ SaveCrashFails(w) \/ RecordParentFails(w)
       PROVE  ProcessesOK'
  <2>1. TooManyCrashes(crashes[w], exec[w]) \in BOOLEAN
    BY DEF TooManyCrashes
  <2>2. CASE CountingPassCrashes(w) \/ SetupMutationFails(w)
    BY <2>2 DEF CountingPassCrashes, SetupMutationFails, WorkerStep, GoTo, Fault, monitorVars,
                reaperVars
  <2>3. CASE ForkChildFails(w)
    BY <2>1, <2>3 DEF ForkChildFails, WorkerStep, GoTo, Fault, monitorVars, reaperVars
  <2>4. CASE SaveCrashFails(w) \/ RecordParentFails(w)
    <3>1. /\ UNCHANGED <<monitorVars, reaperVars, exec, crashes, excessive, child>>
          /\ worker' = [worker EXCEPT ![w] = "loop"] /\ faults' = faults + 1
      BY <2>4, Zenon DEF SaveCrashFails, RecordParentFails, WorkerStep, GoTo, Fault
    <3> QED
      BY <3>1 DEF monitorVars, reaperVars
  <2> QED
    BY <1>10, <2>2, <2>3, <2>4
<1>11. CASE UNCHANGED vars
  BY <1>11 DEF vars, monitorVars, workerVars, reaperVars
<1> QED
  BY <1>1, <1>2, <1>3, <1>4, <1>5, <1>6, <1>7, <1>8, <1>9, <1>10, <1>11
     DEF Next, MonitorNext, FaultNext, Finished

\* A step that moves no worker from or to "none" leaves the live ones alone.
LEMMA LiveUnchanged ==
  ASSUME \A w \in Workers : worker'[w] = "none" <=> worker[w] = "none"
  PROVE  Live' = Live
BY DEF Live, Workers

\* The monitor collects workers one by one; the others are still counted.
LEMMA LiveShrinks ==
  ASSUME NEW w \in Workers, WaitForWorker(w), ProcessesOK, Control
  PROVE  Cardinality(Live') + waited' <= spawned'
<1>1. w \in Live /\ Live' = Live \ {w}
  BY DEF Live, WaitForWorker, ProcessesOK, Workers
<1>2. Cardinality(Live') = Cardinality(Live) - 1
  BY <1>1, LiveFinite, FS_RemoveElement
<1>3. QED
  BY <1>2, LiveFinite DEF Control, ProcessesOK, WaitForWorker

LEMMA ControlStep ==
  ASSUME ProcessesOK, Control, [Next]_vars
  PROVE  Control'
<1> USE CampaignAssumption, LiveFinite DEF Control
<1>1. CASE KeepGenerating
  <2>1. Live' = Live /\ Live = {}
    BY <1>1, LiveUnchanged DEF KeepGenerating, workerVars
  <2>2. Cardinality(Live') = 0
    BY <2>1, FS_EmptySet
  <2>3. \A w \in Workers : worker'[w] = "none"
    BY <1>1, <2>1 DEF KeepGenerating, workerVars, Live
  <2> QED
    BY <1>1, <2>1, <2>2, <2>3 DEF KeepGenerating, workerVars, reaperVars, NumProcesses
<1>2. CASE SpawnWorker
  <2>1. spawned \in Workers /\ spawned \in Nat
    BY <1>2 DEF SpawnWorker, NextSpawn, NumProcesses, Workers, ProcessesOK
  <2>2. Live' = Live \cup {spawned}
    BY <1>2, <2>1 DEF SpawnWorker, Live, ProcessesOK, Workers
  <2>3. Cardinality(Live \cup {spawned}) \in {Cardinality(Live), Cardinality(Live) + 1}
    BY FS_AddElement
  <2>4. Cardinality(Live') + waited' <= spawned'
    BY <1>2, <2>2, <2>3, <2>1 DEF SpawnWorker, NextSpawn, ProcessesOK
  <2>5. \A w \in Workers : child'[w] # "none" => worker'[w] = "wait"
    BY <1>2, <2>1 DEF SpawnWorker, NextSpawn, ProcessesOK
  <2>6. monitor' = "spawn" =>
          spawned' < NumProcesses /\ \A w \in Workers : w >= spawned' => worker'[w] = "none"
    BY <1>2, <2>1 DEF SpawnWorker, NextSpawn, ProcessesOK, NumProcesses, Workers
  <2> QED
    BY <1>2, <2>4, <2>5, <2>6 DEF SpawnWorker, NextSpawn, NumProcesses, reaperVars
<1>3. CASE SpawnFails
  <2>1. Live' = Live
    BY <1>3, LiveUnchanged DEF SpawnFails, workerVars
  <2> QED
    BY <1>3, <2>1 DEF SpawnFails, NextSpawn, NumProcesses, workerVars, reaperVars, ProcessesOK,
                      Workers
<1>4. ASSUME NEW w \in Workers, WaitForWorker(w) PROVE Control'
  <2>0. Cardinality(Live') + waited' <= spawned'
    BY <1>4, LiveShrinks
  <2>1. Cardinality(Live') + waited' <= spawned' /\ spawned' \in 0 .. ParallelCount
    BY <1>4, <2>0 DEF ProcessesOK, WaitForWorker
  <2>2. monitor' = "reap" => Live' = {}
    <3>1. IsFiniteSet(Live')
      BY LiveFinite, <1>4, FS_Subset DEF WaitForWorker, Live, ProcessesOK, Workers
    <3>2. monitor' = "reap" => Cardinality(Live') = 0
      BY <1>4, <2>1, <3>1, FS_CardinalityType DEF WaitForWorker, LastWaited, ProcessesOK
    <3> QED
      BY <3>1, <3>2, FS_EmptySet
  <2> QED
    BY <1>4, <2>1, <2>2 DEF WaitForWorker, LastWaited, reaperVars, ProcessesOK
<1>5. CASE NoMoreWorkers
  <2>1. Live' = Live /\ Live = {}
    BY <1>5, LiveUnchanged DEF NoMoreWorkers, workerVars, Live
  <2> QED
    BY <1>5, <2>1 DEF NoMoreWorkers, workerVars, reaperVars
<1>6. CASE StartReaper \/ ReapForkFails \/ CleanupGeneration
  <2>1. Live' = Live
    BY <1>6, LiveUnchanged DEF StartReaper, ReapForkFails, CleanupGeneration, workerVars
  <2> QED
    BY <1>6, <2>1 DEF StartReaper, ReapForkFails, CleanupGeneration, workerVars, reaperVars
<1>7. CASE ReaperNext \/ ReaperDies
  <2>1. Live' = Live /\ UNCHANGED <<monitorVars, workerVars>> /\ reaper # "none"
    BY <1>7, LiveUnchanged
       DEF ReaperNext, ReapCheck, ReapScore, ReapTrim, ReapUnlink, ReapRename, ReaperDies,
           ReaperStep, workerVars
  <2> QED
    BY <1>7, <2>1 DEF monitorVars, workerVars, NumProcesses
<1>8. ASSUME NEW w \in Workers,
             \/ WorkerNext(w) \/ ChildNext(w) \/ ChildBlocks(w)
             \/ CountingPassCrashes(w) \/ SetupMutationFails(w) \/ ForkChildFails(w)
             \/ SaveCrashFails(w) \/ RecordParentFails(w)
      PROVE  Control'
  <2> USE DEF WorkerNext, SetupWorker, KeepMutating, SetupMutation, ForkChild, WaitForChild,
              SaveCrash, RecordParent, ChildNext, ChildBlocks, ChildEnds, CountingPassCrashes,
              SetupMutationFails, ForkChildFails, SaveCrashFails, RecordParentFails, WorkerStep,
              GoTo
  <2>1. \A v \in Workers : worker'[v] = "none" <=> worker[v] = "none"
    BY <1>8 DEF ProcessesOK
  <2>2. Live' = Live
    BY <2>1, LiveUnchanged
  <2>3. UNCHANGED <<monitorVars, reaperVars>>
    BY <1>8
  <2>4. \A v \in Workers : child'[v] # "none" => worker'[v] = "wait"
    BY <1>8 DEF ProcessesOK
  <2> QED
    BY <2>1, <2>2, <2>3, <2>4 DEF monitorVars, reaperVars, NumProcesses
<1>9. CASE UNCHANGED vars
  <2>1. Live' = Live
    BY <1>9, LiveUnchanged DEF vars, workerVars
  <2> QED
    BY <1>9, <2>1 DEF vars, monitorVars, workerVars, reaperVars, NumProcesses
<1> QED
  BY <1>1, <1>2, <1>3, <1>4, <1>5, <1>6, <1>7, <1>8, <1>9
     DEF Next, MonitorNext, FaultNext, Finished

-----------------------------------------------------------------------------
(* The files *)

LEMMA FilesInit == Init => FilesOK /\ Reaping
BY CampaignAssumption DEF Init, FilesOK, Reaping, Directories

LEMMA FirstLogContents ==
  ASSUME NEW log \in {"none"} \cup FirstLog, NEW c \in BOOLEAN
  PROVE  [log |-> log, coverage |-> c] \in Contents
BY FirstLogType DEF Contents

\* The reaper may stop anywhere before it unlinks the parents file.
LEMMA ReaperExit ==
  ASSUME FilesOK, Reaping, ReaperExits,
         UNCHANGED <<parents, partial, parentsTmp, dirs, saved, observed>>
  PROVE  FilesOK' /\ Reaping'
<1>1. scores' \in Seq(Scores) /\ left' \subseteq 1 .. Len(scores') /\ next' \in Nat
  BY DEF ReaperExits
<1>2. FilesOK'
  BY <1>1 DEF FilesOK, observed
<1>3. Reaping'
  BY DEF ReaperExits, Reaping
<1> QED
  BY <1>2, <1>3

\* A turn of the reaper's loop never skips a place in parents.tmp, whatever an
\* earlier reaper left in it.
LEMMA TrimStep ==
  ASSUME ProcessesOK, FilesOK, Reaping, ReapTrim
  PROVE  FilesOK' /\ Reaping'
<1> USE CampaignAssumption
<1>1. /\ reaper = "trim" /\ next' = next + 1 /\ next \in 1 .. Len(scores)
      /\ UNCHANGED <<reaper, scores, parents, partial, saved, used, clean, crashed, unmoved>>
  BY DEF ReapTrim, ReaperStep, observed, FilesOK, Reaping
<1>2. PICK i \in left :
        /\ left' = left \ {i}
        /\ IF next <= Victims
             THEN dirs' = Without(dirs, parents[i]) /\ UNCHANGED parentsTmp
             ELSE /\ parentsTmp' = Overwrite(parentsTmp, next - Victims, parents[i])
                  /\ UNCHANGED dirs
  BY DEF ReapTrim
<1>3. parents[i] \in Entry /\ Victims \in Nat /\ Victims = Len(scores) - MaxStateCount
  BY <1>1 DEF FilesOK, Reaping, Victims
<1>4. left' \subseteq 1 .. Len(scores')
  BY <1>1, <1>2 DEF FilesOK
<1>5. CASE next <= Victims
  <2>1. Directories(dirs')
    BY <1>2, <1>5, WithoutDirectories DEF FilesOK
  <2> QED
    BY <1>1, <1>2, <1>3, <1>4, <1>5, <2>1 DEF FilesOK, Reaping, Victims
<1>6. CASE ~(next <= Victims)
  <2>1. next - Victims \in Nat \ {0} /\ next - Victims <= Len(parentsTmp) + 1
        /\ next - Victims <= MaxStateCount
    BY <1>1, <1>3, <1>6 DEF Reaping, FilesOK
  <2>2. parentsTmp' = Overwrite(parentsTmp, next - Victims, parents[i]) /\ UNCHANGED dirs
    BY <1>2, <1>6
  <2>3. parentsTmp \in Seq(Entry) /\ Len(parentsTmp) \in Nat
    BY DEF FilesOK
  <2>4. /\ parentsTmp' \in Seq(Entry)
        /\ Len(parentsTmp') = IF next - Victims > Len(parentsTmp)
                                THEN next - Victims ELSE Len(parentsTmp)
    BY <1>3, <2>1, <2>2, <2>3, OverwriteType
  <2>5. Reaping'
    BY <1>1, <1>3, <2>1, <2>3, <2>4 DEF Reaping, Victims
  <2> QED
    BY <1>1, <1>4, <2>2, <2>4, <2>5 DEF FilesOK
<1> QED
  BY <1>5, <1>6

LEMMA FilesStep ==
  ASSUME ProcessesOK, Control, FilesOK, Reaping, [Next]_vars
  PROVE  FilesOK' /\ Reaping'
<1> USE CampaignAssumption
<1> DEFINE Files == <<dirs, parents, partial, saved, observed>>
<1>1. CASE UNCHANGED <<reaperVars, Files>>
  BY <1>1 DEF reaperVars, observed, FilesOK, Reaping, Victims
<1>2. CASE MonitorNext \/ SpawnFails \/ ReapForkFails
  <2>1. UNCHANGED <<Files, scores, left, next, parentsTmp>>
        /\ reaper' \in {reaper, "start", "none"}
    BY <1>2 DEF MonitorNext, KeepGenerating, SpawnWorker, SpawnFails, NextSpawn, WaitForWorker,
                NoMoreWorkers, StartReaper, ReapForkFails, CleanupGeneration, reaperVars
  <2> QED
    BY <2>1 DEF observed, FilesOK, Reaping, Victims
<1>3. CASE ReaperNext \/ ReaperDies
  <2> USE DEF ReaperStep, observed
  <2>1. CASE ReapCheck
    <3>1. CASE ReaperExits
      BY <2>1, <3>1, ReaperExit DEF ReapCheck
    <3>2. CASE ~ReaperExits
      BY <2>1, <3>2 DEF ReapCheck, FilesOK, Reaping
    <3> QED
      BY <3>1, <3>2
  <2>2. CASE ReapScore
    <3>1. CASE \A n \in Range(parents) : HasCoverage(n)
      <4>1. /\ scores' \in [1 .. Len(parents) -> Scores] /\ Len(parents) \in Nat
            /\ left' = 1 .. Len(parents) /\ next' = 1 /\ reaper' = "trim" /\ reaper = "score"
            /\ UNCHANGED <<parents, partial, parentsTmp, dirs, saved, observed>>
        BY <2>2, <3>1 DEF ReapScore, FilesOK
      <4>2. scores' \in Seq(Scores) /\ Len(scores') = Len(parents)
        BY <4>1
      <4>3. FilesOK'
        BY <4>1, <4>2 DEF FilesOK
      <4>4. Len(parentsTmp) \in Nat
        BY DEF FilesOK
      <4>5. Reaping'
        BY <4>1, <4>2, <4>4 DEF Reaping, Victims
      <4> QED
        BY <4>3, <4>5
    <3>2. CASE ~ \A n \in Range(parents) : HasCoverage(n)
      BY <2>2, <3>2, ReaperExit DEF ReapScore
    <3> QED
      BY <3>1, <3>2
  <2>3. CASE ReapTrim
    BY <2>3, TrimStep
  <2>4. CASE ReapUnlink
    BY <2>4 DEF ReapUnlink, FilesOK, Reaping, Victims
  <2>5. CASE ReapRename
    BY <2>5 DEF ReapRename, ReaperExits, FilesOK, Reaping
  <2>6. CASE ReaperDies
    BY <2>6, ReaperExit DEF ReaperDies
  <2> QED
    BY <1>3, <2>1, <2>2, <2>3, <2>4, <2>5, <2>6 DEF ReaperNext
<1>4. ASSUME NEW w \in Workers,
             \/ WorkerNext(w) \/ ChildNext(w) \/ ChildBlocks(w)
             \/ CountingPassCrashes(w) \/ SetupMutationFails(w) \/ ForkChildFails(w)
             \/ SaveCrashFails(w) \/ RecordParentFails(w)
      PROVE  FilesOK' /\ Reaping'
  <2>1. UNCHANGED reaperVars /\ reaper = "none"
    <3>1. UNCHANGED reaperVars
      BY <1>4 DEF WorkerNext, SetupWorker, KeepMutating, SetupMutation, ForkChild, WaitForChild,
           SaveCrash, RecordParent, ChildNext, ChildBlocks, ChildEnds, CountingPassCrashes,
           SetupMutationFails, ForkChildFails, SaveCrashFails, RecordParentFails, WorkerStep
    <3>2. worker[w] # "none"
      BY <1>4 DEF Control, WorkerNext, SetupWorker, KeepMutating, SetupMutation, ForkChild,
           WaitForChild, SaveCrash, RecordParent, ChildNext, ChildBlocks, ChildEnds,
           CountingPassCrashes, SetupMutationFails, ForkChildFails, SaveCrashFails,
           RecordParentFails
    <3> QED
      BY <3>1, <3>2 DEF Control, Live
  <2>2. Reaping'
    BY <2>1 DEF reaperVars, Reaping
  <2>3. Path(w) \in Int
    BY PathIsInt
  <2>4. CASE SetupMutation(w) \/ SetupMutationFails(w)
    <3>1. \A log \in {"none"} \cup FirstLog, c \in BOOLEAN :
            Directories(With(dirs, Path(w), [log |-> log, coverage |-> c]))
      BY <2>3, FirstLogContents, WithDirectories DEF FilesOK
    <3>2. Directories(dirs') /\ used' \subseteq Int
      BY <2>3, <2>4, <3>1 DEF SetupMutation, SetupMutationFails, FilesOK
    <3> QED
      BY <2>1, <2>2, <2>4, <3>2
         DEF SetupMutation, SetupMutationFails, FilesOK, reaperVars
  <2>5. CASE SaveCrash(w)
    <3>1. Path(w) \in DOMAIN dirs => dirs[Path(w)] \in Contents
      BY DEF FilesOK, Directories
    <3>2. Directories(dirs') /\ Directories(saved')
      BY <2>3, <2>5, <3>1, WithDirectories, WithoutDirectories
         DEF SaveCrash, CanRename, FilesOK
    <3> QED
      BY <2>1, <2>2, <2>5, <3>2 DEF SaveCrash, FilesOK, reaperVars, observed
  <2>6. CASE RecordParent(w) \/ RecordParentFails(w)
    <3>1. Path(w) \in Entry /\ Torn \in Entry
      BY <2>3 DEF Entry
    <3>2. /\ parents \in Seq(Entry) /\ partial \in Seq(Entry) /\ Len(partial) <= 1
          /\ Append(parents, Path(w)) \in Seq(Entry) /\ parents \o partial \in Seq(Entry)
      BY <3>1 DEF FilesOK
    <3>3. \A x \in Entry : <<x>> \in Seq(Entry) /\ Len(<<x>>) <= 1
      OBVIOUS
    <3>4. <<>> \in Seq(Entry) /\ Len(<<>>) <= 1
      OBVIOUS
    <3>5. /\ parents' \in {parents, Append(parents, Path(w)), parents \o partial}
          /\ partial' \in {partial, <<>>, <<Torn>>, <<Path(w)>>}
      BY <2>6 DEF RecordParent, RecordParentFails
    <3>6. parents' \in Seq(Entry) /\ partial' \in Seq(Entry) /\ Len(partial') <= 1
      BY <3>1, <3>2, <3>3, <3>4, <3>5
    <3> QED
      BY <2>1, <2>2, <2>6, <3>6 DEF RecordParent, RecordParentFails, FilesOK, reaperVars, observed
  <2>7. CASE WaitForChild(w) \/ SaveCrashFails(w)
    BY <2>1, <2>2, <2>3, <2>7 DEF WaitForChild, SaveCrashFails, FilesOK, reaperVars
  <2>8. CASE SetupWorker(w) \/ KeepMutating(w) \/ ForkChild(w) \/ ChildNext(w) \/ ChildBlocks(w)
             \/ CountingPassCrashes(w) \/ ForkChildFails(w)
    BY <2>1, <2>8, <1>1 DEF SetupWorker, KeepMutating, ForkChild, ChildNext, ChildBlocks,
                            ChildEnds, CountingPassCrashes, ForkChildFails
  <2> QED
    BY <1>4, <2>4, <2>5, <2>6, <2>7, <2>8 DEF WorkerNext
<1>5. CASE UNCHANGED vars
  BY <1>5, <1>1 DEF vars
<1> QED
  BY <1>2, <1>3, <1>4, <1>5 DEF Next, FaultNext, Finished

-----------------------------------------------------------------------------
(* The crash budget *)

\* A worker that is not at work on an execution has raised its flag if it had
\* to; one that is at work had no reason to raise it before.
Budgeted ==
  \A w \in Workers :
    /\ worker[w] \in {"start", "loop", "save", "record"} /\ ~excessive[w]
         => ~TooManyCrashes(crashes[w], exec[w])
    /\ worker[w] \in {"setup", "fork", "wait"} => ~TooManyCrashes(crashes[w], exec[w] - 1)

LEMMA NoneYet == \A c : ~TooManyCrashes(c, 0)
BY CampaignAssumption DEF TooManyCrashes

LEMMA BudgetedStep ==
  ASSUME ProcessesOK, Control, Budgeted, [Next]_vars
  PROVE  Budgeted'
<1> USE DEF ProcessesOK
<1>1. CASE UNCHANGED <<worker, exec, crashes, excessive>>
  BY <1>1 DEF Budgeted
<1>2. CASE SpawnWorker
  BY <1>2, NoneYet DEF SpawnWorker, Budgeted
<1>3. ASSUME NEW w \in Workers, WaitForWorker(w) \/ CountingPassCrashes(w) PROVE Budgeted'
  BY <1>3 DEF WaitForWorker, CountingPassCrashes, GoTo, Budgeted
<1>4. ASSUME NEW w \in Workers, KeepMutating(w) PROVE Budgeted'
  <2>1. MayMutate(w) => ~TooManyCrashes(crashes[w], exec[w])
    <3>1. CASE Debug
      <4>1. MayMutate(w) => exec[w] = 0
        BY <3>1 DEF MayMutate, WithinForkCount
      <4> QED
        BY <4>1, NoneYet
    <3>2. CASE ~Debug
      BY <1>4, <3>2 DEF MayMutate, KeepMutating, Budgeted
    <3> QED
      BY <3>1, <3>2
  <2>2. exec'[w] - 1 = exec[w] /\ UNCHANGED <<crashes, excessive>>
    BY <1>4 DEF KeepMutating
  <2>3. worker'[w] = "zombie" \/ (worker'[w] = "setup" /\ MayMutate(w))
    BY <1>4 DEF KeepMutating, GoTo
  <2>4. \A v \in Workers \ {w} : worker'[v] = worker[v] /\ exec'[v] = exec[v]
    BY <1>4 DEF KeepMutating, GoTo
  <2> QED
    BY <2>1, <2>2, <2>3, <2>4 DEF Budgeted
<1>5. ASSUME NEW w \in Workers,
             \/ SetupWorker(w) \/ SetupMutation(w) \/ SetupMutationFails(w) \/ ForkChild(w)
             \/ SaveCrash(w) \/ SaveCrashFails(w) \/ RecordParent(w) \/ RecordParentFails(w)
      PROVE  Budgeted'
  BY <1>5 DEF SetupWorker, SetupMutation, SetupMutationFails, ForkChild, SaveCrash, SaveCrashFails,
              RecordParent, RecordParentFails, GoTo, Budgeted
<1>6. ASSUME NEW w \in Workers, WaitForChild(w) \/ ForkChildFails(w) PROVE Budgeted'
  <2>1. \A v \in Workers \ {w} : UNCHANGED <<worker[v], exec[v], crashes[v], excessive[v]>>
    BY <1>6 DEF WaitForChild, ForkChildFails, GoTo
  <2>2. worker'[w] \in {"save", "record"} /\ exec' = exec
    BY <1>6 DEF WaitForChild, ForkChildFails, GoTo
  <2>3. excessive'[w] = (excessive[w] \/ TooManyCrashes(crashes'[w], exec[w]))
    BY <1>6 DEF WaitForChild, ForkChildFails
  <2> QED
    BY <2>1, <2>2, <2>3 DEF Budgeted
<1>7. ASSUME NEW w \in Workers, ChildNext(w) \/ ChildBlocks(w) PROVE Budgeted'
  BY <1>1, <1>7 DEF ChildNext, ChildBlocks, ChildEnds
<1>8. CASE KeepGenerating \/ NoMoreWorkers \/ StartReaper \/ CleanupGeneration
           \/ ReaperNext \/ SpawnFails \/ ReapForkFails \/ ReaperDies \/ UNCHANGED vars
  BY <1>1, <1>8 DEF KeepGenerating, NoMoreWorkers, StartReaper, CleanupGeneration, SpawnFails,
           ReapForkFails, ReaperDies, ReaperNext, ReapCheck, ReapScore, ReapTrim, ReapUnlink,
           ReapRename, ReaperStep, workerVars, vars
<1> QED
  BY <1>2, <1>3, <1>4, <1>5, <1>6, <1>7, <1>8
     DEF Next, MonitorNext, FaultNext, WorkerNext, Finished

-----------------------------------------------------------------------------
(* The theorems *)

Core == ProcessesOK /\ Control /\ FilesOK /\ Reaping

LEMMA CoreInvariant == Spec => []Core
<1>1. Init => Core
  BY ProcessesInit, FilesInit DEF Core
<1>2. Core /\ [Next]_vars => Core'
  BY ProcessesStep, ControlStep, FilesStep DEF Core
<1> QED
  BY <1>1, <1>2, PTL DEF Spec

\* Every variable keeps its type, whatever fails and however many workers run.
THEOREM TypeCorrect == Spec => []TypeOK
<1>1. Core => TypeOK
  BY DEF Core, ProcessesOK, FilesOK, TypeOK
<1> QED
  BY <1>1, CoreInvariant, PTL

\* The reaper, which rewrites the parents file and deletes directories without
\* a lock, never runs beside a worker or a child.
THEOREM ReaperRunsAlone == Spec => []ReapAlone
<1>1. Core => ReapAlone
  BY DEF Core, Control, ReapAlone, Live
<1> QED
  BY <1>1, CoreInvariant, PTL

\* No worker starts an execution once too many of its earlier ones crashed,
\* whatever the thresholds are.
THEOREM CrashBudgetKept == Spec => []CrashBudget
<1>1. Init => Budgeted
  BY NoneYet DEF Init, Budgeted
<1>2. Core /\ Budgeted /\ [Next]_vars => Budgeted'
  BY BudgetedStep DEF Core
<1>3. Budgeted => CrashBudget
  BY DEF Budgeted, CrashBudget
<1> QED
  BY <1>1, <1>2, <1>3, CoreInvariant, PTL DEF Spec

-----------------------------------------------------------------------------
(***************************************************************************)
(* Why two executions never meet in one mutation state directory: the name *)
(* of a directory is a number with three digits, generation, worker and    *)
(* execution, and it loses none of them as long as every execution count   *)
(* fits its digit and the products fit an int.                             *)
(***************************************************************************)

\* A last digit can be read back from a number, and so can the rest.
LEMMA Digit ==
  ASSUME NEW N \in Nat \ {0}, NEW a \in Int, NEW b \in Int,
         NEW r \in 0 .. N - 1, NEW s \in 0 .. N - 1, a * N + r = b * N + s
  PROVE  a = b /\ r = s
<1>1. ASSUME NEW x \in Int, NEW y \in Int, NEW p \in 0 .. N - 1, NEW q \in 0 .. N - 1,
             x < y
      PROVE  x * N + p # y * N + q
  <2>1. PICK d \in Nat : y = x + 1 + d
    <3>1. y - x - 1 \in Nat /\ y = x + 1 + (y - x - 1)
      BY <1>1
    <3> QED
      BY <3>1
  <2>2. y * N = x * N + N + d * N
    BY <2>1
  <2>3. d * N \in Nat /\ x * N \in Int
    BY <2>1
  <2>4. y * N >= x * N + N
    BY <2>2, <2>3
  <2> HIDE <2>2
  <2> QED
    BY <2>3, <2>4
<1>2. a = b
  BY <1>1
<1> QED
  BY <1>2

LastGeneration == IF Debug THEN 1 ELSE GenerationCount

\* The campaign's fork count is a count, and the largest product its names are
\* made of fits an int: otherwise the code gives names twice.
NamesFit ==
  /\ ForkCount \in Nat \ {0}
  /\ LastGeneration * ForkCount * ParallelCount <= IntMax

LEMMA ProductGrows ==
  ASSUME NEW a \in Int, NEW b \in Int, NEW c \in Nat, a <= b
  PROVE  a * c <= b * c
<1>1. PICK d \in Nat : b = a + d
  <2>1. b - a \in Nat /\ b = a + (b - a)
    OBVIOUS
  <2> QED
    BY <2>1
<1>2. b * c = a * c + d * c /\ d * c \in Nat /\ a * c \in Int
  BY <1>1
<1> HIDE <1>1
<1> QED
  BY <1>2

\* As long as they fit, the products are what they are in arithmetic.
LEMMA IterFits ==
  ASSUME NamesFit, NEW g \in 1 .. LastGeneration, NEW w \in Workers, NEW e \in 1 .. ForkCount
  PROVE  Iter(g, w, e) = e + g * ForkCount * ParallelCount + w * ForkCount
<1> DEFINE N == ForkCount * ParallelCount
<1>1. ForkCount \in Nat \ {0} /\ ParallelCount \in Nat \ {0} /\ LastGeneration \in Int
      /\ IntMax \in Nat /\ w \in 0 .. ParallelCount - 1
  BY CampaignAssumption DEF NamesFit, LastGeneration, Workers
<1>2. N \in Nat /\ N = ParallelCount * ForkCount
  BY <1>1
<1>3. g * ForkCount * ParallelCount = g * N
      /\ LastGeneration * ForkCount * ParallelCount = LastGeneration * N
  BY <1>1
<1>4. w * ForkCount <= N
  BY <1>1, <1>2, ProductGrows
<1>5. w * ForkCount \in Nat /\ g * N \in Nat
  BY <1>1, <1>2
<1> HIDE DEF N
<1>6. 1 * N <= g * N /\ g * N <= LastGeneration * N
  BY <1>1, <1>2, ProductGrows
<1>7. LastGeneration * N <= IntMax
  BY <1>3 DEF NamesFit
<1>8. g * N \in 0 .. IntMax /\ w * ForkCount \in 0 .. IntMax
  <2>1. LastGeneration * N \in Int
    BY <1>1, <1>2
  <2>2. g * N <= IntMax
    BY <1>1, <1>5, <1>6, <1>7, <2>1
  <2>3. w * ForkCount <= IntMax
    BY <1>1, <1>2, <1>4, <1>5, <1>6, <2>2
  <2> QED
    BY <1>1, <1>5, <2>2, <2>3
<1>9. AsInt(g * N) = g * N /\ AsInt(w * ForkCount) = w * ForkCount
  BY <1>1, <1>8 DEF AsInt
<1> QED
  BY <1>3, <1>9 DEF Iter

\* Two executions with the same name are the same execution.
LEMMA NamesDistinct ==
  ASSUME NamesFit, NEW g \in 1 .. LastGeneration, NEW h \in 1 .. LastGeneration,
         NEW v \in Workers, NEW w \in Workers,
         NEW e \in 1 .. ForkCount, NEW f \in 1 .. ForkCount, Iter(g, v, e) = Iter(h, w, f)
  PROVE  g = h /\ v = w /\ e = f
<1> USE CampaignAssumption
<1>0. g \in Nat /\ h \in Nat /\ ForkCount \in Nat \ {0}
  BY DEF NamesFit, LastGeneration
<1> DEFINE A == (g * ParallelCount + v) * ForkCount
           B == (h * ParallelCount + w) * ForkCount
<1>1. v \in 0 .. ParallelCount - 1 /\ w \in 0 .. ParallelCount - 1
  BY DEF Workers
<1>2. g * ParallelCount + v \in Int /\ h * ParallelCount + w \in Int
  BY <1>0, <1>1
<1>3. A \in Int /\ B \in Int
  BY <1>0, <1>2
<1>4. Iter(g, v, e) = A + e /\ Iter(h, w, f) = B + f
  <2> DEFINE P == g * ForkCount * ParallelCount
             Q == h * ForkCount * ParallelCount
             V == v * ForkCount
             W == w * ForkCount
  <2>1. A = P + V /\ B = Q + W
    BY <1>0, <1>1
  <2>2. Iter(g, v, e) = e + P + V /\ Iter(h, w, f) = f + Q + W
    BY IterFits
  <2>3. P \in Int /\ Q \in Int /\ V \in Int /\ W \in Int
    BY <1>0, <1>1
  <2>4. e \in Int /\ f \in Int
    BY <1>0
  <2> HIDE DEF A, B, P, Q, V, W
  <2>5. e + P + V = P + V + e /\ f + Q + W = Q + W + f
    BY <2>3, <2>4
  <2> QED
    BY <2>1, <2>2, <2>5, Zenon
<1>5. A + (e - 1) = B + (f - 1)
  <2>1. A + e = B + f
    BY <1>4
  <2> HIDE DEF A, B
  <2> QED
    BY <1>3, <2>1
<1>6. e - 1 \in 0 .. ForkCount - 1 /\ f - 1 \in 0 .. ForkCount - 1
  OBVIOUS
<1>7. g * ParallelCount + v = h * ParallelCount + w /\ e - 1 = f - 1
  BY <1>0, <1>2, <1>5, <1>6, Digit
<1> QED
  BY <1>0, <1>1, <1>7, Digit

-----------------------------------------------------------------------------
(* Directories of their own *)

\* Every execution count fits its digit, and there is no generation too many.
Counted ==
  /\ \A w \in Workers :
       worker[w] \in {"setup", "fork", "wait", "save", "record"} => exec[w] \in 1 .. ForkCount
  /\ monitor \notin {"generate", "done"} => generation \in 1 .. LastGeneration

\* As long as nothing failed every directory is complete, and an execution's
\* directory is there.
Placed ==
  faults = 0 =>
    /\ \A n \in DOMAIN dirs : dirs[n].coverage /\ dirs[n].log # "none"
    /\ \A w \in Executing : Path(w) \in DOMAIN dirs

\* Nobody executes but in a generation.
LEMMA InGeneration ==
  ASSUME Control, Counted, NEW w \in Workers, worker[w] # "none"
  PROVE  generation \in 1 .. LastGeneration
BY DEF Control, Counted, Live

LEMMA OwnDirectoryFollows ==
  ASSUME NamesFit, Control, Counted, Placed
  PROVE  OwnDirectory
<1>1. ASSUME NEW v \in Executing, NEW w \in Executing, Path(v) = Path(w) PROVE v = w
  <2>1. v \in Workers /\ w \in Workers
    BY DEF Executing
  <2>2. exec[v] \in 1 .. ForkCount /\ exec[w] \in 1 .. ForkCount
    BY <2>1 DEF Counted, Executing
  <2>3. generation \in 1 .. LastGeneration
    BY <2>1, InGeneration DEF Executing
  <2> QED
    BY <1>1, <2>1, <2>2, <2>3, NamesDistinct DEF Path
<1> QED
  BY <1>1 DEF Placed, OwnDirectory, HasCoverage

LEMMA CountedStep ==
  ASSUME NamesFit, ProcessesOK, Control, Counted, [Next]_vars
  PROVE  Counted'
<1> USE DEF ProcessesOK
<1>0. ForkCount \in Nat \ {0}
  BY DEF NamesFit
<1>1. CASE /\ UNCHANGED <<worker, exec, generation>>
           /\ monitor' \in {"generate", "done"} \/ monitor \notin {"generate", "done"}
  BY <1>1 DEF Counted
<1>2. CASE UNCHANGED <<worker, exec, generation, monitor>>
  BY <1>2 DEF Counted
<1>3. ASSUME NEW w \in Workers, KeepMutating(w) PROVE Counted'
  <2>1. MayMutate(w) => exec[w] + 1 \in 1 .. ForkCount
    BY <1>0, CampaignAssumption DEF MayMutate, WithinForkCount
  <2>2. worker' = [worker EXCEPT ![w] = IF MayMutate(w) THEN "setup" ELSE "zombie"]
        /\ exec' = [exec EXCEPT ![w] = exec[w] + 1] /\ UNCHANGED <<generation, monitor>>
    BY <1>3 DEF KeepMutating, GoTo, WorkerStep, monitorVars
  <2> QED
    BY <2>1, <2>2 DEF Counted
<1>4. CASE SpawnWorker \/ SpawnFails
  BY <1>4 DEF SpawnWorker, SpawnFails, NextSpawn, workerVars, Counted
<1>5. CASE KeepGenerating
  <2>1. \A w \in Workers : worker'[w] = "none"
    BY <1>5 DEF KeepGenerating, Control, Live, workerVars
  <2>2. ~FuzzForever /\ GenerationCount \in Int
    BY <1>0, CampaignAssumption DEF FuzzForever
  <2>3. monitor' \notin {"generate", "done"} => generation' \in 1 .. LastGeneration
    BY <1>5, <2>2 DEF KeepGenerating, LastGeneration
  <2> QED
    BY <2>1, <2>3 DEF Counted
<1>6. ASSUME NEW w \in Workers,
             \/ WaitForWorker(w) \/ CountingPassCrashes(w) \/ SetupMutationFails(w)
             \/ ForkChildFails(w) \/ SetupWorker(w) \/ SetupMutation(w) \/ ForkChild(w)
             \/ WaitForChild(w) \/ SaveCrash(w) \/ SaveCrashFails(w) \/ RecordParent(w)
             \/ RecordParentFails(w)
      PROVE  Counted'
  <2>1. /\ exec' = exec /\ \A v \in Workers \ {w} : worker'[v] = worker[v]
        /\ \/ worker'[w] \in {"none", "zombie", "loop"}
           \/ worker[w] \in {"setup", "fork", "wait"}
    BY <1>6 DEF WaitForWorker, CountingPassCrashes, SetupMutationFails, ForkChildFails,
                SetupWorker, SetupMutation, ForkChild, WaitForChild, SaveCrash, SaveCrashFails,
                RecordParent, RecordParentFails, GoTo
  <2>2. generation' = generation /\ (monitor' = monitor \/ monitor = "join")
    BY <1>6 DEF WaitForWorker, CountingPassCrashes, SetupMutationFails, ForkChildFails,
                SetupWorker, SetupMutation, ForkChild, WaitForChild, SaveCrash, SaveCrashFails,
                RecordParent, RecordParentFails, WorkerStep, monitorVars
  <2> QED
    BY <2>1, <2>2 DEF Counted
<1>7. CASE \/ ReaperNext \/ ReaperDies \/ UNCHANGED vars
           \/ \E w \in Workers : ChildNext(w) \/ ChildBlocks(w)
  BY <1>2, <1>7 DEF ReaperDies, ReaperNext, ReapCheck, ReapScore, ReapTrim, ReapUnlink, ReapRename,
           ReaperStep, monitorVars, workerVars, vars, WorkerStep, ChildNext, ChildBlocks, ChildEnds
<1>8. CASE NoMoreWorkers \/ StartReaper \/ CleanupGeneration \/ ReapForkFails
  BY <1>1, <1>8 DEF NoMoreWorkers, StartReaper, CleanupGeneration, ReapForkFails, workerVars
<1> QED
  BY <1>3, <1>4, <1>5, <1>6, <1>7, <1>8 DEF Next, MonitorNext, FaultNext, WorkerNext, Finished

\* Faults are never taken back.
LEMMA FaultsGrow ==
  ASSUME ProcessesOK, [Next]_vars
  PROVE  faults' >= faults
BY DEF ProcessesOK, Next, MonitorNext, KeepGenerating, SpawnWorker, NextSpawn, NoMoreWorkers,
       StartReaper, CleanupGeneration, WaitForWorker, ReaperNext, ReapCheck, ReapScore, ReapTrim,
       ReapUnlink, ReapRename, FaultNext, SpawnFails, ReapForkFails, ReaperDies,
       CountingPassCrashes, SetupMutationFails, ForkChildFails, SaveCrashFails, RecordParentFails,
       Fault, Finished, WorkerNext, SetupWorker, KeepMutating, SetupMutation, ForkChild,
       WaitForChild, SaveCrash, RecordParent, ChildNext, ChildBlocks, ChildEnds, vars

LEMMA PlacedStep ==
  ASSUME NamesFit, ProcessesOK, Control, Counted, Placed, [Next]_vars
  PROVE  Placed'
<1> SUFFICES ASSUME faults' = 0 PROVE Placed'
  BY DEF Placed
<1>0. faults = 0
  BY FaultsGrow DEF ProcessesOK
<1> USE DEF ProcessesOK, Executing, Path
<1>1. CASE UNCHANGED <<worker, exec, generation, dirs>>
  BY <1>0, <1>1 DEF Placed
<1>2. CASE KeepGenerating
  <2>1. Executing' = {} /\ dirs' = dirs
    BY <1>2 DEF KeepGenerating, workerVars, Control, Live
  <2> QED
    BY <1>0, <2>1 DEF Placed
<1>3. CASE ReaperNext
  <2>1. Executing' = {}
    BY <1>3 DEF ReaperNext, ReapCheck, ReapScore, ReapTrim, ReapUnlink, ReapRename, ReaperStep,
                workerVars, Control, Live
  <2>2. \A n \in DOMAIN dirs' : n \in DOMAIN dirs /\ dirs'[n] = dirs[n]
    BY <1>3, ZenonT(60) DEF ReaperNext, ReapCheck, ReapScore, ReapTrim, ReapUnlink, ReapRename,
                            Without
  <2> QED
    BY <1>0, <2>1, <2>2 DEF Placed
<1>4. CASE SpawnWorker
  BY <1>0, <1>4 DEF SpawnWorker, NextSpawn, Placed
<1>5. ASSUME NEW w \in Workers,
             \/ WaitForWorker(w) \/ KeepMutating(w) \/ SetupWorker(w) \/ ForkChild(w)
             \/ WaitForChild(w) \/ RecordParent(w)
      PROVE  Placed'
  <2>1. /\ dirs' = dirs /\ generation' = generation
        /\ \A v \in Workers \ {w} : worker'[v] = worker[v] /\ exec'[v] = exec[v]
        /\ \/ w \notin Executing'
           \/ w \in Executing /\ exec'[w] = exec[w]
    BY <1>5 DEF WaitForWorker, KeepMutating, SetupWorker, ForkChild, WaitForChild, RecordParent,
                WorkerStep, monitorVars, GoTo
  <2> QED
    BY <1>0, <2>1 DEF Placed
<1>6. ASSUME NEW w \in Workers, SetupMutation(w) PROVE Placed'
  <2>1. /\ UNCHANGED <<exec, generation>>
        /\ \A v \in Workers \ {w} : worker'[v] = worker[v]
    BY <1>6 DEF SetupMutation, WorkerStep, monitorVars, GoTo
  <2>2. /\ DOMAIN dirs' = DOMAIN dirs \cup {Path(w)}
        /\ \A n \in DOMAIN dirs' : \/ n \in DOMAIN dirs /\ dirs'[n] = dirs[n]
                                   \/ dirs'[n].coverage /\ dirs'[n].log # "none"
    <3>1. CASE Path(w) \in DOMAIN dirs
      BY <1>6, <3>1 DEF SetupMutation
    <3>2. CASE Path(w) \notin DOMAIN dirs
      <4>1. PICK log \in FirstLog :
              dirs' = With(dirs, Path(w), [log |-> log, coverage |-> TRUE])
        BY <1>6, <3>2 DEF SetupMutation
      <4>2. log # "none"
        BY FirstLogType
      <4> QED
        BY <4>1, <4>2 DEF With
    <3> QED
      BY <3>1, <3>2
  <2> QED
    BY <1>0, <2>1, <2>2 DEF Placed
<1>7. ASSUME NEW w \in Workers, SaveCrash(w) PROVE Placed'
  <2>1. /\ UNCHANGED <<exec, generation>> /\ w \in Executing /\ w \notin Executing'
        /\ \A v \in Workers \ {w} : worker'[v] = worker[v]
    BY <1>7 DEF SaveCrash, WorkerStep, monitorVars, GoTo
  <2>2. \A n \in DOMAIN dirs : n = Path(w) \/ (n \in DOMAIN dirs' /\ dirs'[n] = dirs[n])
    BY <1>7 DEF SaveCrash, Without
  <2>3. DOMAIN dirs' \subseteq DOMAIN dirs
    BY <1>7 DEF SaveCrash, Without
  <2>4. OwnDirectory
    BY OwnDirectoryFollows
  <2>5. \A v \in Executing' : v \in Executing /\ Path(v) # Path(w) /\ Path(v)' = Path(v)
    BY <1>0, <2>1, <2>4 DEF OwnDirectory
  <2>6. \A v \in Executing' : Path(v)' \in DOMAIN dirs'
    BY <1>0, <2>2, <2>5 DEF Placed
  <2>7. \A n \in DOMAIN dirs' : dirs'[n] = dirs[n]
    BY <1>7 DEF SaveCrash, Without
  <2> QED
    BY <1>0, <2>3, <2>6, <2>7 DEF Placed
<1>8. CASE FaultNext
  BY <1>0, <1>8 DEF FaultNext, SpawnFails, ReapForkFails, ReaperDies, CountingPassCrashes,
                SetupMutationFails, ForkChildFails, SaveCrashFails, RecordParentFails, Fault
<1>9. CASE \/ NoMoreWorkers \/ StartReaper \/ CleanupGeneration \/ UNCHANGED vars
           \/ \E w \in Workers : ChildNext(w) \/ ChildBlocks(w)
  BY <1>1, <1>9 DEF NoMoreWorkers, StartReaper, CleanupGeneration, workerVars, vars, monitorVars,
                    WorkerStep, ChildNext, ChildBlocks, ChildEnds
<1> QED
  BY <1>2, <1>3, <1>4, <1>5, <1>6, <1>7, <1>8, <1>9 DEF Next, MonitorNext, WorkerNext, Finished

\* When nothing fails, each execution has a complete mutation state directory
\* that no other one uses, for every number of workers and generations and
\* every fork count but the -1 of "run forever", as long as the products that
\* make up the names fit an int.
THEOREM DirectoriesOwned == NamesFit /\ Spec => []OwnDirectory
<1> SUFFICES ASSUME NamesFit PROVE Spec => []OwnDirectory
  OBVIOUS
<1>1. Init => Counted /\ Placed
  BY DEF Init, Counted, Placed, Executing
<1>2. Core /\ Counted /\ Placed /\ [Next]_vars => Counted' /\ Placed'
  BY CountedStep, PlacedStep DEF Core
<1>3. Core /\ Counted /\ Placed => OwnDirectory
  BY OwnDirectoryFollows DEF Core
<1> QED
  BY <1>1, <1>2, <1>3, CoreInvariant, PTL DEF Spec
=============================================================================
