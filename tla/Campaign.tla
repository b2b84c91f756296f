------------------------------ MODULE Campaign ------------------------------
(***************************************************************************)
(* One fuzzing campaign: everything FFFC does for one intercepted call of  *)
(* the target function (fffc_runner.c, FFFC_parallel_replacement, and the  *)
(* parts of fffc_runtime.c it calls).                                      *)
(*                                                                         *)
(* The monitor runs generations.  In each one it forks ParallelCount       *)
(* workers, waits for them, and forks a reaper that trims the population.  *)
(* A worker runs up to ForkCount executions: it makes a mutation state     *)
(* directory, forks a child that calls the mutated target, waits for it,   *)
(* and either moves the directory to the crash path or appends its path to *)
(* the shared "parents" file.  The processes share nothing but files, all  *)
(* below the call state directory: the state directories themselves        *)
(* (dirs), the parents file and the reaper's temporary copy of it.         *)
(*                                                                         *)
(* A mutation state directory is named by its iteration number, so a name  *)
(* is an integer here and a path is its name.                              *)
(***************************************************************************)
EXTENDS Integers, Sequences, FiniteSets, Functions

CONSTANTS
  ParallelCount,     \* FFFC_PARALLEL_COUNT
  ForkCount,         \* FFFC_FORK_COUNT, -1 to run forever
  GenerationCount,   \* FFFC_GENERATION_COUNT
  MaxStateCount,     \* FFFC_MAX_STATE_COUNT
  CrashLimits,       \* the thresholds of fffc_check_for_excessive_crashes
  Scores,            \* the coverage scores compared by the reaper
  Debug,             \* fffc_debug(): replaying one log instead of fuzzing
  SameFilesystem,    \* FFFC_DATA_PATH and FFFC_CRASH_PATH share a filesystem
  TargetMayBlock,    \* a mutated call may sleep or wait for input for ever
  IntMax,            \* INT_MAX
  Torn,              \* an entry of the parents file that is no path
  MaxFaults,         \* bound: system calls that fail, processes killed
  MaxExec,           \* bound: executions of a worker that runs forever
  MaxGeneration      \* bound: generations of a campaign that runs forever

ASSUME CampaignAssumption ==
  /\ ParallelCount \in Nat \ {0}
  /\ ForkCount \in Int
  /\ GenerationCount \in Int
  /\ MaxStateCount \in Nat \ {0}
  /\ CrashLimits \subseteq [floor : Nat, num : Nat, den : Nat]
  /\ Scores \subseteq Int
  /\ Debug \in BOOLEAN /\ SameFilesystem \in BOOLEAN /\ TargetMayBlock \in BOOLEAN
  /\ IntMax \in Nat /\ Torn \notin Int
  /\ MaxFaults \in Nat /\ MaxExec \in Nat /\ MaxGeneration \in Nat

Workers == 0 .. ParallelCount - 1

VARIABLES
  monitor,      \* where FFFC_parallel_replacement is
  generation,   \* FFFC_GLOBAL_STATE.generation_count
  spawned,      \* i of the fork loop
  waited,       \* count of fffc_wait_for_workers
  worker,       \* where each worker is
  exec,         \* FFFC_WORKER_STATE.exec_count of each worker
  crashes,      \* FFFC_WORKER_STATE.crash_count of each worker
  excessive,    \* FFFC_WORKER_STATE.excessive_crashes of each worker
  child,        \* the child each worker forked last
  reaper,       \* where the reaper process is
  scores,       \* the score do_reap gave to each entry of the parents file
  left,         \* the entries its copy loop has not come to
  next,         \* the index of that loop, from 1
  dirs,         \* the mutation state directories: name -> contents
  parents,      \* the parents file: the names in its whole entries, in order
  partial,      \* and what the part of an entry behind them begins with, if any
  parentsTmp,   \* the parents.tmp file
  saved,        \* directories moved to the crash path: name -> contents
  used,         \* observed: every name a directory was made for
  clean,        \* observed: names whose child ran and exited with status 0
  crashed,      \* observed: names whose child ran and did not
  unmoved,      \* observed: crashes that a fault kept from being moved
  faults        \* observed: faults so far

monitorVars == <<monitor, generation, spawned, waited>>
workerVars  == <<worker, exec, crashes, excessive, child>>
reaperVars  == <<reaper, scores, left, next, parentsTmp>>
observed    == <<used, clean, crashed, unmoved>>
vars == <<monitorVars, workerVars, reaperVars, dirs, parents, partial, saved, observed, faults>>

-----------------------------------------------------------------------------
(* Names, limits and files *)

\* A product of ints: what does not fit wraps around.
AsInt(x) ==
  IF x \in -(IntMax + 1) .. IntMax THEN x
  ELSE ((x + IntMax + 1) % (2 * (IntMax + 1))) - (IntMax + 1)

\* Mutants of Iter, here and below: a slip in the code that a property has to
\* notice.  The worker, or the generation, is left out of the name.
IterNoWorker(g, w, e) == e + AsInt(g * ForkCount * ParallelCount)
IterNoGeneration(g, w, e) == e + AsInt(w * ForkCount)

\* The number fffc_setup_mutation_state puts in the directory's name.  The
\* products are of ints; the sum is of unsigned long longs, wide enough.
Iter(g, w, e) == e + AsInt(g * ForkCount * ParallelCount) + AsInt(w * ForkCount)

Path(w) == Iter(generation, w, exec[w])

NumProcesses == IF Debug THEN 1 ELSE ParallelCount

FuzzForever == ForkCount = -1

\* The test of fffc_keep_mutating; exec_count is unsigned long long, so a
\* negative fork count converts to a number no count reaches.
WithinForkCount(e) == IF Debug THEN e = 1 ELSE ForkCount < 0 \/ e <= ForkCount

TooManyCrashes(c, e) ==
  \E limit \in CrashLimits : e > limit.floor /\ c * limit.den > e * limit.num

Contents == [log : {"none", "empty", "begun"}, coverage : BOOLEAN]

With(files, name, contents) ==
  [n \in DOMAIN files \cup {name} |-> IF n = name THEN contents ELSE files[n]]

Without(files, name) == [n \in DOMAIN files \ {name} |-> files[n]]

\* Mutant: the temporary file is opened with O_APPEND, as the parents file is.
OverwriteAppend(file, i, name) == Append(file, name)

\* A write at entry i of a file opened without O_TRUNC.
Overwrite(file, i, name) ==
  [k \in 1 .. (IF i > Len(file) THEN i ELSE Len(file)) |->
     IF k = i THEN name ELSE file[k]]

\* What copy_file leaves in a new log: the parent's log, or nothing when the
\* parent's log cannot be opened.
CopiedLog(parent) ==
  IF parent \in DOMAIN dirs /\ dirs[parent].log = "begun" THEN "begun" ELSE "empty"

\* The entries pread can return: only the first MaxStateCount are sampled.
Sampled == {parents[i] : i \in 1 .. (IF Len(parents) < MaxStateCount
                                     THEN Len(parents) ELSE MaxStateCount)}

\* Mutant: fffc_log_begin is skipped when no parent is found.
FirstLogNoBegin ==
  IF generation > 1
    THEN {CopiedLog(p) : p \in Sampled}
           \cup (IF Len(parents) < MaxStateCount THEN {"empty"} ELSE {})
    ELSE {"begun"}

\* The log a mutation may start from.  In later generations a parent is
\* sampled; every retry can miss only while the file is short.
FirstLog ==
  IF generation > 1
    THEN {CopiedLog(p) : p \in Sampled}
           \cup (IF Len(parents) < MaxStateCount THEN {"begun"} ELSE {})
    ELSE {"begun"}

Fault == faults < MaxFaults /\ faults' = faults + 1

-----------------------------------------------------------------------------
Init ==
  /\ monitor = "generate" /\ generation = 0 /\ spawned = 0 /\ waited = 0
  /\ worker = [w \in Workers |-> "none"]
  /\ exec = [w \in Workers |-> 0]
  /\ crashes = [w \in Workers |-> 0]
  /\ excessive = [w \in Workers |-> FALSE]
  /\ child = [w \in Workers |-> "none"]
  /\ reaper = "none" /\ scores = <<>> /\ left = {} /\ next = 0 /\ parentsTmp = <<>>
  /\ dirs = [n \in {} |-> {}] /\ parents = <<>> /\ partial = <<>> /\ saved = [n \in {} |-> {}]
  /\ used = {} /\ clean = {} /\ crashed = {} /\ unmoved = {}
  /\ faults = 0

-----------------------------------------------------------------------------
(* The monitor *)

\* fffc_keep_generating, and fffc_setup_generation_state, which creates a
\* parents file when there is none.
KeepGenerating ==
  /\ monitor = "generate"
  /\ FuzzForever => generation < MaxGeneration
  /\ generation' = generation + 1
  /\ spawned' = 0 /\ waited' = 0
  /\ monitor' = IF \/ Debug /\ generation = 0
                   \/ ~Debug /\ (generation' <= GenerationCount \/ FuzzForever)
                  THEN "spawn" ELSE "done"
  /\ UNCHANGED <<workerVars, reaperVars, dirs, parents, partial, saved, observed, faults>>

\* Mutant: the fork loop runs once too often.
NextSpawnTooFar ==
  /\ monitor = "spawn"
  /\ spawned' = spawned + 1
  /\ monitor' = IF spawned' > NumProcesses THEN "join" ELSE "spawn"
  /\ UNCHANGED <<generation, waited, reaperVars, dirs, parents, partial, saved, observed>>

NextSpawn ==
  /\ monitor = "spawn"
  /\ spawned' = spawned + 1
  /\ monitor' = IF spawned' = NumProcesses THEN "join" ELSE "spawn"
  /\ UNCHANGED <<generation, waited, reaperVars, dirs, parents, partial, saved, observed>>

\* One turn of the fork loop: the worker starts with the counters of the
\* monitor, which has run nothing.
SpawnWorker ==
  /\ NextSpawn
  /\ worker' = [worker EXCEPT ![spawned] = "start"]
  /\ exec' = [exec EXCEPT ![spawned] = 0]
  /\ crashes' = [crashes EXCEPT ![spawned] = 0]
  /\ excessive' = [excessive EXCEPT ![spawned] = FALSE]
  /\ UNCHANGED <<child, faults>>

\* The fork fails: -1 is not 0, so the monitor carries on as the parent.
SpawnFails == NextSpawn /\ Fault /\ UNCHANGED workerVars

\* Mutant: the count starts at 1.
LastWaitedEarly(n) == n >= ParallelCount - 1

LastWaited(n) == n = ParallelCount

\* wait() in fffc_wait_for_workers collects an exited worker ...
WaitForWorker(w) ==
  /\ monitor = "join" /\ worker[w] = "zombie"
  /\ worker' = [worker EXCEPT ![w] = "none"]
  /\ waited' = waited + 1
  /\ monitor' = IF LastWaited(waited') THEN "reap" ELSE "join"
  /\ UNCHANGED <<generation, spawned, exec, crashes, excessive, child,
                 reaperVars, dirs, parents, partial, saved, observed, faults>>

\* ... or returns -1 when there is no child left.
NoMoreWorkers ==
  /\ monitor = "join" /\ \A w \in Workers : worker[w] = "none"
  /\ monitor' = "reap"
  /\ UNCHANGED <<generation, spawned, waited, workerVars, reaperVars,
                 dirs, parents, partial, saved, observed, faults>>

\* reap() forks the reaper ...
StartReaper ==
  /\ monitor = "reap"
  /\ monitor' = "reaping" /\ reaper' = "start"
  /\ UNCHANGED <<generation, spawned, waited, workerVars, scores, left, next,
                 parentsTmp, dirs, parents, partial, saved, observed, faults>>

\* ... or fails to, and then waits for nothing.
ReapForkFails ==
  /\ monitor = "reap" /\ Fault
  /\ monitor' = "generate"
  /\ UNCHANGED <<generation, spawned, waited, workerVars, reaperVars,
                 dirs, parents, partial, saved, observed>>

\* fffc_wait returns; the reaper's exit status is not looked at.
CleanupGeneration ==
  /\ monitor = "reaping" /\ reaper = "exited"
  /\ monitor' = "generate" /\ reaper' = "none"
  /\ UNCHANGED <<generation, spawned, waited, workerVars, scores, left, next,
                 parentsTmp, dirs, parents, partial, saved, observed, faults>>

-----------------------------------------------------------------------------
(* The reaper: do_reap, one action per file operation *)

ReaperStep == UNCHANGED <<monitorVars, workerVars, saved, observed>>

ReaperExits == reaper' = "exited" /\ scores' = <<>> /\ left' = {} /\ next' = 0

\* do_reap returns early when the population is below its limit.
ReapCheck ==
  /\ reaper = "start" /\ ReaperStep
  /\ \/ Len(parents) < MaxStateCount /\ ReaperExits
     \/ Len(parents) >= MaxStateCount /\ reaper' = "score" /\ UNCHANGED <<scores, left, next>>
  /\ UNCHANGED <<parentsTmp, dirs, parents, partial, faults>>

HasCoverage(n) == n \in DOMAIN dirs /\ dirs[n].coverage

\* Read every entry and score its coverage; the first entry whose directory
\* or coverage directory is missing ends the reaping.
ReapScore ==
  /\ reaper = "score" /\ ReaperStep
  /\ IF \A n \in Range(parents) : HasCoverage(n)
       THEN /\ scores' \in [1 .. Len(parents) -> Scores]
            /\ left' = 1 .. Len(parents) /\ next' = 1 /\ reaper' = "trim"
       ELSE ReaperExits
  /\ UNCHANGED <<parentsTmp, dirs, parents, partial, faults>>

\* Mutant: one entry too few is removed.
VictimsTooFew ==
  IF Len(scores) > MaxStateCount THEN Len(scores) - MaxStateCount - 1 ELSE 0

Victims == Len(scores) - MaxStateCount

\* Mutant: qcompare compares the other way round.
Highest(i) == i \in left /\ \A j \in left : scores[i] >= scores[j]

\* The entry the sorted array holds next: any of the lowest ones left, since
\* qsort does not say how it orders equal scores.
Lowest(i) == i \in left /\ \A j \in left : scores[i] <= scores[j]

\* One turn of the copy loop: remove a victim, or write a survivor over
\* whatever the temporary file holds there (it is opened without O_TRUNC).
ReapTrim ==
  /\ reaper = "trim" /\ next <= Len(scores) /\ ReaperStep
  /\ \E i \in left :
       /\ Lowest(i) /\ left' = left \ {i}
       /\ IF next <= Victims
            THEN dirs' = Without(dirs, parents[i]) /\ UNCHANGED parentsTmp
            ELSE /\ parentsTmp' = Overwrite(parentsTmp, next - Victims, parents[i])
                 /\ UNCHANGED dirs
  /\ next' = next + 1
  /\ UNCHANGED <<reaper, scores, parents, partial, faults>>

ReapUnlink ==
  /\ reaper = "trim" /\ next > Len(scores) /\ ReaperStep
  /\ parents' = <<>> /\ partial' = <<>> /\ reaper' = "rename"
  /\ UNCHANGED <<scores, left, next, parentsTmp, dirs, faults>>

ReapRename ==
  /\ reaper = "rename" /\ ReaperStep
  /\ parents' = parentsTmp /\ parentsTmp' = <<>> /\ ReaperExits
  /\ UNCHANGED <<partial, dirs, faults>>

\* The reaper is killed, or one of its system calls fails and it returns -1.
\* Half an entry it may leave in parents.tmp is where the next reaper writes
\* before that file is looked at.
ReaperDies ==
  /\ reaper \in {"start", "score", "trim", "rename"} /\ ReaperStep
  /\ Fault /\ ReaperExits
  /\ UNCHANGED <<parentsTmp, dirs, parents, partial>>

-----------------------------------------------------------------------------
(* The workers and their children *)

WorkerStep == UNCHANGED <<monitorVars, reaperVars>>

GoTo(w, pc) == worker' = [worker EXCEPT ![w] = pc]

\* fffc_setup_worker_state and the pass that counts the mutations.
SetupWorker(w) ==
  /\ worker[w] = "start" /\ WorkerStep
  /\ GoTo(w, "loop")
  /\ UNCHANGED <<exec, crashes, excessive, child, dirs, parents, partial, saved, observed, faults>>

\* The counting pass walks the arguments in the worker itself and may crash it.
CountingPassCrashes(w) ==
  /\ worker[w] = "start" /\ ~Debug /\ WorkerStep
  /\ Fault /\ GoTo(w, "zombie")
  /\ UNCHANGED <<exec, crashes, excessive, child, dirs, parents, partial, saved, observed>>

\* Mutant: the flag is set and never tested.
MayMutateOn(w) == WithinForkCount(exec[w] + 1)

MayMutate(w) == (~Debug => ~excessive[w]) /\ WithinForkCount(exec[w] + 1)

\* fffc_keep_mutating; when it returns 0 the worker exits.
KeepMutating(w) ==
  /\ worker[w] = "loop" /\ WorkerStep
  /\ ForkCount < 0 => exec[w] < MaxExec
  /\ exec' = [exec EXCEPT ![w] = exec[w] + 1]
  /\ GoTo(w, IF MayMutate(w) THEN "setup" ELSE "zombie")
  /\ UNCHANGED <<crashes, excessive, child, dirs, parents, partial, saved, observed, faults>>

\* fffc_setup_mutation_state.  mkdir fails when the directory exists, and the
\* caller does not look at the result.
SetupMutation(w) ==
  /\ worker[w] = "setup" /\ WorkerStep
  /\ GoTo(w, "fork")
  /\ IF Path(w) \in DOMAIN dirs
       THEN UNCHANGED <<dirs, used>>
       ELSE /\ \E log \in FirstLog :
                 dirs' = With(dirs, Path(w), [log |-> log, coverage |-> TRUE])
            /\ used' = used \cup {Path(w)}
  /\ UNCHANGED <<exec, crashes, excessive, child, parents, partial, saved, clean, crashed, unmoved,
                 faults>>

\* mkdir, the open of the log, or the mkdir of the coverage directory fails.
SetupMutationFails(w) ==
  /\ worker[w] = "setup" /\ Path(w) \notin DOMAIN dirs /\ WorkerStep
  /\ Fault /\ GoTo(w, "fork")
  /\ \/ UNCHANGED <<dirs, used>>
     \/ /\ \E log \in {"none"} \cup FirstLog :
             dirs' = With(dirs, Path(w), [log |-> log, coverage |-> FALSE])
        /\ used' = used \cup {Path(w)}
  /\ UNCHANGED <<exec, crashes, excessive, child, parents, partial, saved, clean, crashed, unmoved>>

ForkChild(w) ==
  /\ worker[w] = "fork" /\ WorkerStep
  /\ GoTo(w, "wait")
  /\ child' = [child EXCEPT ![w] = "running"]
  /\ UNCHANGED <<exec, crashes, excessive, dirs, parents, partial, saved, observed, faults>>

\* The fork fails.  -1 is not 0, so the worker waits; it has no child, wait
\* leaves status at 0, and the execution counts as one that did not crash.
ForkChildFails(w) ==
  /\ worker[w] = "fork" /\ WorkerStep
  /\ Fault /\ GoTo(w, "record")
  /\ excessive' = [excessive EXCEPT ![w] = @ \/ TooManyCrashes(crashes[w], exec[w])]
  /\ UNCHANGED <<exec, crashes, child, dirs, parents, partial, saved, observed>>

\* The child (FFFC_proxy) replays the log, mutates, calls the target and ends:
\* by itself, by a signal, or by RLIMIT_CPU.
ChildEnds(w, how) ==
  /\ child[w] = "running" /\ WorkerStep
  /\ child' = [child EXCEPT ![w] = how]
  /\ UNCHANGED <<worker, exec, crashes, excessive, dirs, parents, partial, saved, observed, faults>>

\* Mutant: fffc_restrict_child is not called, and a mutated call may loop.
ChildLoops(w) == ChildEnds(w, "blocked")

\* The limit is on CPU time: a call that sleeps is not ended by it.
ChildBlocks(w) == TargetMayBlock /\ ChildEnds(w, "blocked")

\* fffc_wait_for_child, fffc_inc_crash_count, fffc_check_for_excessive_crashes.
WaitForChild(w) ==
  /\ worker[w] = "wait" /\ child[w] \in {"clean", "crashed"} /\ WorkerStep
  /\ LET c == IF child[w] = "crashed" THEN crashes[w] + 1 ELSE crashes[w]
     IN  /\ crashes' = [crashes EXCEPT ![w] = c]
         /\ excessive' = [excessive EXCEPT ![w] = @ \/ TooManyCrashes(c, exec[w])]
  /\ IF child[w] = "crashed"
       THEN GoTo(w, "save") /\ crashed' = crashed \cup {Path(w)} /\ UNCHANGED clean
       ELSE GoTo(w, "record") /\ clean' = clean \cup {Path(w)} /\ UNCHANGED crashed
  /\ child' = [child EXCEPT ![w] = "none"]
  /\ UNCHANGED <<exec, dirs, parents, partial, saved, used, unmoved, faults>>

\* Mutant: only a state whose coverage directory exists is moved.
CanRenameCovered(n) == SameFilesystem /\ HasCoverage(n)

\* rename fails when there is no such directory, and across filesystems.
CanRename(n) == SameFilesystem /\ n \in DOMAIN dirs

\* fffc_cleanup_mutation_state of a crash: move_to_crashes.
SaveCrash(w) ==
  /\ worker[w] = "save" /\ WorkerStep
  /\ GoTo(w, "loop")
  /\ IF CanRename(Path(w))
       THEN /\ saved' = With(saved, Path(w), dirs[Path(w)])
            /\ dirs' = Without(dirs, Path(w))
       ELSE UNCHANGED <<saved, dirs>>
  /\ UNCHANGED <<exec, crashes, excessive, child, parents, partial, observed, faults>>

\* mkdtemp or rename fails: it is printed, and the directory stays where it is.
SaveCrashFails(w) ==
  /\ worker[w] = "save" /\ WorkerStep
  /\ Fault /\ GoTo(w, "loop")
  /\ unmoved' = unmoved \cup {Path(w)}
  /\ UNCHANGED <<exec, crashes, excessive, child, dirs, parents, partial, saved,
                 used, clean, crashed>>

\* And of an execution that did not crash: move_to_parents, one O_APPEND write
\* of an entry, whether there is such a directory or not.  Behind a part of an
\* entry it completes that one and leaves its own padding as another part.
RecordParent(w) ==
  /\ worker[w] = "record" /\ WorkerStep
  /\ GoTo(w, "loop")
  /\ IF partial = <<>>
       THEN parents' = Append(parents, Path(w)) /\ UNCHANGED partial
       ELSE parents' = parents \o partial /\ partial' = <<Torn>>
  /\ UNCHANGED <<exec, crashes, excessive, child, dirs, saved, observed, faults>>

\* The write fails or is short, which is printed.  A short one leaves a part of
\* the entry, with the whole path in it or not; or it adds to such a part,
\* which may complete it.
RecordParentFails(w) ==
  /\ worker[w] = "record" /\ WorkerStep
  /\ Fault /\ GoTo(w, "loop")
  /\ \/ UNCHANGED <<parents, partial>>
     \/ partial = <<>> /\ partial' \in {<<Path(w)>>, <<Torn>>} /\ UNCHANGED parents
     \/ /\ partial # <<>> /\ partial' \in {<<>>, <<Torn>>}
        /\ parents' = parents \o partial
  /\ UNCHANGED <<exec, crashes, excessive, child, dirs, saved, observed>>

-----------------------------------------------------------------------------
MonitorNext ==
  \/ KeepGenerating \/ SpawnWorker \/ NoMoreWorkers \/ StartReaper \/ CleanupGeneration
  \/ \E w \in Workers : WaitForWorker(w)

ReaperNext == ReapCheck \/ ReapScore \/ ReapTrim \/ ReapUnlink \/ ReapRename

WorkerNext(w) ==
  \/ SetupWorker(w) \/ KeepMutating(w) \/ SetupMutation(w) \/ ForkChild(w)
  \/ WaitForChild(w) \/ SaveCrash(w) \/ RecordParent(w)

ChildNext(w) == \E how \in {"clean", "crashed"} : ChildEnds(w, how)

FaultNext ==
  \/ SpawnFails \/ ReapForkFails \/ ReaperDies
  \/ \E w \in Workers : \/ CountingPassCrashes(w) \/ SetupMutationFails(w) \/ ForkChildFails(w)
                        \/ SaveCrashFails(w) \/ RecordParentFails(w)

Finished == monitor = "done" /\ UNCHANGED vars

Next ==
  \/ MonitorNext \/ ReaperNext \/ FaultNext \/ Finished
  \/ \E w \in Workers : WorkerNext(w) \/ ChildNext(w) \/ ChildBlocks(w)

\* The kernel schedules every runnable process.  ChildNext is fair because a
\* child that uses the CPU is ended by RLIMIT_CPU; a blocked one has no step.
Fairness ==
  /\ WF_vars(MonitorNext) /\ WF_vars(ReaperNext)
  /\ \A w \in Workers : WF_vars(WorkerNext(w)) /\ WF_vars(ChildNext(w))

Spec == Init /\ [][Next]_vars /\ Fairness
=============================================================================
