------------------------- MODULE CampaignProperties -------------------------
(***************************************************************************)
(* What a campaign guarantees, and under which faults.                     *)
(***************************************************************************)
EXTENDS Campaign

MonitorPC == {"generate", "spawn", "join", "reap", "reaping", "done"}
WorkerPC  == {"none", "start", "loop", "setup", "fork", "wait", "save", "record", "zombie"}
ChildPC   == {"none", "running", "blocked", "clean", "crashed"}
ReaperPC  == {"none", "start", "score", "trim", "rename", "exited"}

Entry == Int \cup {Torn}

Directories(files) == DOMAIN files \subseteq Int /\ \A n \in DOMAIN files : files[n] \in Contents

\* Every variable has its type.
TypeOK ==
  /\ monitor \in MonitorPC
  /\ generation \in Nat /\ spawned \in 0 .. ParallelCount /\ waited \in 0 .. ParallelCount
  /\ worker \in [Workers -> WorkerPC]
  /\ exec \in [Workers -> Nat] /\ crashes \in [Workers -> Nat]
  /\ excessive \in [Workers -> BOOLEAN]
  /\ child \in [Workers -> ChildPC]
  /\ reaper \in ReaperPC
  /\ scores \in Seq(Scores) /\ left \subseteq 1 .. Len(scores) /\ next \in Nat
  /\ parents \in Seq(Entry) /\ parentsTmp \in Seq(Entry)
  /\ partial \in Seq(Entry) /\ Len(partial) <= 1
  /\ Directories(dirs) /\ Directories(saved)
  /\ used \subseteq Int /\ clean \subseteq Int /\ crashed \subseteq Int /\ unmoved \subseteq Int
  /\ faults \in Nat

-----------------------------------------------------------------------------
(* Properties that no fault may break *)

\* The reaper rewrites the parents file and removes directories without any
\* lock.  That is only sound because the monitor forks it after every worker
\* has been waited for, and waits for it before the next generation: while it
\* lives, no worker and no child does.
ReapAlone ==
  reaper # "none" => \A w \in Workers : worker[w] = "none" /\ child[w] = "none"

\* A parents file the reaper publishes is complete and consistent, even when
\* earlier reapers were killed and left a longer or partial parents.tmp: it
\* has exactly MaxStateCount entries and every one is a directory that exists.
PublishedWhole ==
  reaper = "rename" =>
    /\ Len(parentsTmp) = MaxStateCount
    /\ \A n \in Range(parentsTmp) : HasCoverage(n)

\* Selection keeps the best: while the reaper removes directories, no entry
\* that still has one scored below an entry that has lost its own.
BestSurvive ==
  reaper = "trim" =>
    \A i, j \in DOMAIN scores :
      parents[i] \notin DOMAIN dirs /\ parents[j] \in DOMAIN dirs => scores[i] <= scores[j]

\* fffc_check_for_excessive_crashes: a worker never starts another execution
\* once too many of the previous ones crashed.
CrashBudget ==
  \A w \in Workers :
    worker[w] \in {"setup", "fork", "wait"} => ~TooManyCrashes(crashes[w], exec[w] - 1)

\* Every execution that crashed and has a directory reaches the crash path.
\* Until its worker moves it there the directory is where it was, and so it is
\* for good when mkdtemp or the rename fails (rt:1749-1759): whatever else
\* fails, neither the reaper nor another worker gets at it.
CrashKept ==
  \A n \in crashed \cap used :
    \/ n \in DOMAIN saved
    \/ /\ n \in DOMAIN dirs
       /\ n \in unmoved \/ \E w \in Workers : worker[w] = "save" /\ Path(w) = n

\* A saved crash never leaves the crash path, and it is not also a parent
\* that later generations mutate further.
CrashesStay ==
  [][/\ DOMAIN saved \subseteq DOMAIN saved'
     /\ Range(parents') \cap DOMAIN saved' = {}]_<<saved, parents>>

-----------------------------------------------------------------------------
(* Properties of a campaign in which no system call failed *)

Executing == {w \in Workers : worker[w] \in {"fork", "wait", "save", "record"}}

\* Each execution has a mutation state directory of its own, with a log and a
\* coverage directory, from its setup until its cleanup: no other worker
\* writes there, however the workers interleave.
OwnDirectory ==
  faults = 0 =>
    /\ \A w \in Executing : HasCoverage(Path(w)) /\ dirs[Path(w)].log # "none"
    /\ \A v, w \in Executing : v # w => Path(v) # Path(w)

\* Every entry of the parents file that a worker can sample names a state
\* that exists, has coverage and ran without crashing; and its log, like that
\* of every saved crash, starts with the BEGIN event that replay checks first.
ParentsResolve ==
  faults = 0 =>
    /\ monitor # "reaping" =>
         \A n \in Range(parents) : HasCoverage(n) /\ dirs[n].log = "begun" /\ n \in clean
    /\ \A n \in DOMAIN saved : saved[n].log = "begun"

\* Between generations the population is within its limit.
PopulationBounded ==
  faults = 0 /\ monitor \in {"generate", "done"} => Len(parents) <= MaxStateCount

\* The campaign implements the abstract corpus.  From the unlink of the old
\* parents file to the rename of the new one the population is already the
\* new one: nobody can look at the file in between.
Abstract == INSTANCE Corpus WITH
  used <- used,
  population <- IF reaper = "rename" THEN Range(parentsTmp) ELSE Range(parents),
  saved <- DOMAIN saved

ImplementsCorpus == Abstract!Spec

-----------------------------------------------------------------------------
(* Progress *)

\* The original process waits in fffc_wait for the monitor: the campaign has
\* to end for the program to go on.
CampaignEnds == <>(monitor = "done")
=============================================================================
