# A verification project for FFFC

FFFC fuzzes one function of a program from inside the program.  The `fffc`
command reads the program's DWARF and generates, for each function, a shared
object with mutators for its argument types.  The shared object hooks the
function; when the program calls it, the call is forked off, mutated and
executed many times, and then the original call goes on.  This directory holds
TLA+ models of both halves, the generator and the generated machinery, TLC
configurations that check them on small instances, and proofs of the properties
that matter most.

Line numbers below are those of `src/fffc/generate.py` (`gen:`),
`src/fffc/dwarf_to_c.py` (`dw:`), `src/fffc/template.py` (`tm:`),
`src/fffc/templates/fffc_runtime.c` (`rt:`) and
`src/fffc/templates/fffc_runner.c` (`run:`).  `PROJECT.json` maps every
definition to its lines.

## Inventory

| Part | State it keeps | Operations | Talks to |
| --- | --- | --- | --- |
| Campaign control (`run:34-113`, `rt:385-514`, `rt:736-767`, `rt:1144-1171`, `rt:1256-1309`, `rt:1522-1784`) | generation, per-worker counters, mutation state directories, `parents`, `parents.tmp`, crash path | run generations, fork workers and children, wait, judge an execution, reap | all processes share only files; `fork` and `wait` order them |
| Interception (`run:62-91`, `run:115-126`, `rt:537-549`, `rt:2033-2044`) | hook installed or not, call count | intercept, wait for the monitor, call, hook again; in debug mode skip all calls but one | the program, the monitor |
| Mutation log (`rt:1786-2044`) | events in the log file, memory of the child | append ALLOCATE, BEGIN, COPY, WRITE; replay | mutators, children, debug replay |
| Mutation engine (`rt:559-599`, `rt:1311-1483`, `base_mutators.c`, `pointer_mutator.c`) | mode, mutation counter, size cache | count, resize, mutate one leaf or none | mutation log |
| Coverage scoring (`rt:144-383`) | features file | parse counters, score, update features | reaper |
| Configuration (`rt:940-1142`, `rt:1186-1243`) | tunables, state and crash directories | read the environment, create directories | everything |
| Environment adjuster (`env_adjuster.c`) | the environment's size | pad it to a constant size | the debug scripts: replay needs equal stacks |
| Command line pipeline (`gen:10-68`, `dw:1116-1625`) | output directories, the class attributes `Executable.libraries` and `Mutator.mutated_types`, generated files | check paths; for each target, unit and library generate, compile and link | compilers, linker, `ldd` |
| Type emission (`dw:63-1114`) | the type objects of a unit, NEW / DECLARED / DONE of each, the inferred header | `get_named_types`, `get_mutable_types`; declare, define and reference of each class of types | the pipeline, mutator generation |
| Mutator generation (`template.py`) | the global `nesting_context`, generators in progress | inject a type; one statement per member, nested in place for anonymous types | the pipeline; its output is the mutation engine's program |
| Crash tools (`scripts/`) | what a campaign left | display, sort, move | files |

What is hard in the generated half: sixteen workers, their children, a monitor
and a reaper run concurrently and share files without locks; every system
call's failure is either ignored or printed; forks that fail look like parents;
the reaper rewrites a file in three steps and can be killed between them; a
mutated call can do anything, including never return; and a saved log has to
replay to the same memory in another process.

What is hard in the generator: it is sequential, but its state is spread over
calls that recurse through cyclic graphs of types, over attributes that belong
to classes and outlive the objects, over a global that several suspended
generators share, and over files that one target's libraries write into another
binary's directory; and an exception anywhere ends a target, not the program.

What makes each part correct:

* campaign: one execution, one directory; the parents file only names states
  that can be mutated further; the population is bounded and its best survive;
  a crash is kept for good; no process runs beside the reaper; a worker stops
  at its crash budget; the campaign ends;
* interception: the original call happens exactly once per call, with the hook
  removed, and after the campaign for it; a debug replay stops at one call;
* log: the replay of a log gives the memory the child had when it called;
* engine: the counting pass and the mutating pass walk the same leaves; the
  size cache answers with the size of the allocation;
* coverage: a counter seen before scores lower; the features file keeps one
  entry per counter;
* type emission: whatever the order of the entries, a name is stated before it
  is used and a type is complete before it is used by value; emission ends; the
  statuses only go forward; the dictionary of types is complete before it is
  iterated over;
* mutator generation: each member has one reachable statement, about itself;
  each variable is declared once and before its use, whatever came before;
* pipeline: a shared object has one definition of each symbol and misses none;
  every function of every instrumented binary is built; one target's failure or
  libraries are not another's; a rebuild gives the same object.

## Modules

| Module | What it is |
| --- | --- |
| `Corpus` | abstract specification: executions get fresh names, are kept or saved once, the population is cut at once to its limit |
| `Campaign` | the campaign control of one intercepted call |
| `CampaignProperties` | its type invariant, safety, action and liveness properties, and the mapping to `Corpus` |
| `MCCampaign` | values for the instances TLC checks |
| `CampaignProofs` | inductive invariants and theorems: types, the reaper runs alone, the crash budget, every execution owns its directory |
| `CampaignCrashes` | names are never given twice, and the theorems that follow: no crash is lost, a saved crash is final; what becomes of the population: selection, publication, sound parents, the limit, and that the campaign implements `Corpus` |
| `MutationLog` | what is recorded in a child, copied to its descendants and replayed there and in a debug replay; its properties |
| `MCMutationLog` | values for the instances TLC checks |
| `MutationLogProofs` | inductive invariant and theorems: a log begins once, replays exactly, is survived, is never changed |
| `CTypes` | the types of a unit as graphs, the texts made of them, and what C asks of a header |
| `TypeEmission` | the emission of the inferred header and of the list of mutable types; its properties |
| `MCTypeEmission` | families of type graphs for TLC |
| `CTypesProofs` | lemmas about graphs of types: where modifiers end, recursion and induction along what leads to what |
| `TypeEmissionProofs` | what every call of the emission keeps, the inductive invariant of its rounds, and the theorems that follow |
| `TypeEmissionOrder` | what every call promises about the order of the statements in a unit that is not circular, how deep its calls nest, and the theorems that follow |
| `Pipeline` | one run of the command; its properties |
| `MCPipeline` | worlds and command lines for TLC |
| `PipelineProofs` | inductive invariant and theorems: types, no clash, resolution, libraries kept apart; failures stay with their target, everything is built, rebuilds are faithful |
| `MutatorBody` | the statements the struct, union and enum templates write for a type; their properties |
| `MutationEngine` | those statements at work in a worker and its child: modes, counter, choices; its properties |
| `MCMutationEngine` | nested types for TLC |
| `MutationEngineProofs` | inductive invariants in layers and theorems: all properties of the two modules |

### Campaign

Each process is a program counter: `monitor` is in `FFFC_parallel_replacement`,
`worker[w]` in the worker function, `child[w]` in the proxy, `reaper` in
`do_reap`.  One action stands for the code between two points where another
process can notice a difference, that is between two file operations on shared
files or two forks, waits and exits:

* monitor: `KeepGenerating`, `SpawnWorker`, `WaitForWorker`, `NoMoreWorkers`,
  `StartReaper`, `CleanupGeneration`;
* reaper: `ReapCheck`, `ReapScore`, `ReapTrim` (one entry), `ReapUnlink`,
  `ReapRename`;
* worker: `SetupWorker`, `KeepMutating`, `SetupMutation`, `ForkChild`,
  `WaitForChild`, `SaveCrash`, `RecordParent`; child: `ChildEnds`,
  `ChildBlocks`;
* faults, at most `MaxFaults`: `SpawnFails`, `ReapForkFails`, `ForkChildFails`
  (fork returns -1), `SetupMutationFails` (mkdir or open fails at any point of
  the setup), `SaveCrashFails` (mkdtemp or rename fails in `move_to_crashes`),
  `RecordParentFails` (the append to the parents file fails or is short),
  `ReaperDies` (killed, or a call of its own fails), `CountingPassCrashes`.

A fault is followed by what the code does next, which is often to carry on as
if nothing had happened.  That a rename between two file systems always fails
(EXDEV) is no fault but the constant `SameFilesystem`.  A short append leaves
the beginning of an entry behind the whole ones: `partial` says what it begins
with, a path or what is none (`Torn`), and the next append completes it with
its own first bytes.  Not among the faults is a `remove` that fails in `rmrf`
(`rt:395-405`), whose result nobody looks at: a victim's directory is always
removed as a whole.

The products in a directory's number are of ints (`rt:1611-1612`): `AsInt` wraps
them at `IntMax`, which for TLC is just what the largest product needs.

A directory's name is the number in it, a path is its name, and a directory's
contents are what others test: does the log exist and begin with BEGIN, is
there a coverage directory.  Scores are any assignment of `Scores`; how they
are computed is another module's subject.  What the mutation does in the child
is its outcome.

`used`, `clean`, `crashed` and `unmoved` are observers: they are written and never
read.

### MutationLog

One line of descent: an execution, a child of a later generation that starts
from a copy of its log, and so on.  `Campaign` says which logs are copied; this
module says what they mean.  A child is a fork of the same worker, so every
generation starts from the same memory: `Start`.  Memory is a heap of
allocations, numbered in the order of their `malloc`s, and the pointer argument;
a process whose `memcpy` leaves an allocation is not alive any more.  `Resize`
is the resize pass with `fffc_maybe_munge_pointer`, `Replay` is
`fffc_replay_log` over the whole log, which by then ends with the events of the
child's own resize, `MutateElement` and `SkipElement` walk the elements as the
pointer mutator does, `Call` is the call of the target, and `NextGeneration`
the copy of the log.  `DebugReplay` is what the same log makes of `Start` in a
process that only replays.

The worker opens the log and its child inherits the descriptor, so the two share
one `offset`.  It is behind BEGIN in a new log and 0 after `NextGeneration`, since
`copy_file` writes through descriptors of its own; `Replay` seeks to the start
(`SeekStart`), reads what is `Unread` from there and leaves it at the end; and an
event is written where `SeekEnd` puts it, over what is there (`LogEvents`, `PutAt`).
That nothing ever is there is `KeepsInherited`.

External: AddressSanitizer, and an allocator that gives the same addresses in
the same order in every fork of a worker and in a debug run; without it no
recorded address would mean anything, and the code relies on it.  Left out: a
second pointer, pointers inside elements, the refusal of a log by its call
count or stack (`rt:1906-1932`).

### CTypes and TypeEmission

A type is a node [kind, named, of] of a graph with cycles, `of` being what it
is made from.  The emission is one long recursion per named entry, so it is
written as operators that take the emission so far and return it: `Touch`
(`get_typename`, `get_status`), `Declare`, `Define`, `Refer` are the methods
that recurse; each asks for its answer a function `ask` of the question, the
emission and the type, and `Answer` dispatches to one operator per class and
method (`DefinePointer`, `DeclareTypedef`, ...), in the order the Python makes
its calls.  `Answers` is that function for the calls that are left up to
`RecursionLimit`, each level made from the one below, so that the recursion is
a function over numbers and can be proved about.  `NamedType` is one round of `get_named_types`, `Mutators` is
`generate_mutator_for_cu`; between those, exceptions end the target (`raised`).
`RecursionLimit` stands for Python's: with no call left, the exception ends the
target.  For TLC it only has to exceed the longest chain of such calls through a
graph no definition of which comes to ask for itself.

Two members of a class are one here: structs and unions emit alike, and so do
the three qualified types.  A text is what it asks of the text before it: typedef
names, tags first met in a parameter list, structs to be complete.  That is
enough to say which headers a C compiler takes, and the input is restricted
(`Compiles`) to graphs a C compiler could have produced in the first place.
`PassedByName`, a part of it, is the only one that leaves programs out, contrived
ones: an array type that is qualified as a whole and an anonymous struct as a
parameter or result.  An anonymous struct may have several users
(`typedef struct {..} T, *TP;`); the code prints it for each, and so does the
model.  `add_type` drops the statements of names that start with `__builtin` or
`_GLOBAL__sub_` (`dw:961-965`); the model has no such names.

Three properties name the shapes the code is not up to.  One is a definition that
comes to ask for itself, such as that of a struct holding a pointer to a function
that takes such a struct by value (`Circular`: `dw:557` asks for the arguments
before it notes that it has, so the recursion ends in a RecursionError or in a
name before its statement).  What is asked is a question, to declare or to define
a type (`Wanted`), and `Asked` says which further ones it leads to: a pointer to a
type with a name asks for its declaration only (`dw:825`), a struct's declaration
for nothing, a typedef's for that of its type.  So a struct that holds a pointer
to itself, by its own name or by a typedef's (`typedef struct S T; struct S { T
*next; };`), is not circular, and the families TLC goes through have both.  The
others are an array of structs behind a pointer, or under a name below another
modifier (`EarlyArrays`: `dw:786` is content with a declaration, although an
element has to be complete); and a base type unlike any the tool knows (`dw:226`,
its name is None).  Without these exceptions TLC
finds each of them.  The second part of `EarlyArrays` was found by the proof, not
by TLC, whose families have no such unit: in `struct A { int i; }; typedef struct A
T[3]; struct B { const T c; };` the qualified type is content when `T` is declared.
In a circular unit a typedef may even be stated twice, and its status fall, within
one round; that no status falls from one round to the next is proved for every unit.
`OnlyEarlyConstPointers` is as much as holds of a fourth shape: the member `struct A *const p` is not DONE until `A` is, so the emission states
`struct A *const;` on its own (`dw:622`), which is no statement of C.

### Pipeline

`phase` is where `main` is: `checking` the output paths, `target` between two
targets, `units` in the loop over compile units, `linking` in the loop over
linkages, `libraries` in `build_debuggable_libs`.  One action is one round of
one of those loops.  `Raise` is any exception: `main` catches it and continues
past the line that resets `Executable.libraries` (`gen:63`).  `Fails` is any
compiler or linker that fails, at any time, at most `MaxFaults` times.  The disk
holds for each directory what is in a unit's mutator source, a function's runner
source and the shared objects, as sets of defined and called symbols; a type is
the name of its mutator.  `Linked` is what a link, or the rebuild script written
for it, puts together from the files of that moment.  What a pointer or a modifier
is of (`Under`) matters in `do_nothing.c`: it has do-nothing mutators for incomplete
structs and unions, and real ones, which call that of the type below, for what is
made of them (`ExceptionSource`, `dw:1473-1481`).

`failed` and `taken` are observers.  What the properties except is what the code
gets wrong: the libraries a failed target leaves in the class attribute for the
next (`OwnLibraries`, `FailsAlone`); a type that is complete in one unit and
opaque in another (`Resolves`: `mutated_types` is the class's, so the second
unit gets neither a mutator nor a do-nothing one, `dw:1471`); the first library
without instrumentation, unless nobody would fuzz it (`SkipsOne`: `found` is
unbound, `dw:1341`; once bound it is never reset); libraries that overwrite
their target's `do_nothing.c` and sources of the same name (`RebuildSame`); a
function called `do_nothing` (`NoClash`), whose runner is lost to the file of
exceptions (`Hooks`); and functions of one name, whose object is one (`dw:1568`).
`AllBuilt` asks of each function of each unit for an object linked for it, with the
runner of its unit and binary.  It has lost that object, and is not hooked, where a
later unit of its binary has another function of its name, static ones, or a binary
generated into the directory later does, a library after its target (`After`,
`dw:1332`); then that one has to be hooked, and nothing else is excepted.  Of a
target that comes twice on the command line the last time counts (`LastTime`).

### MutatorBody and MutationEngine

A type is a tree of members, and `MembersIn` is what a path of indices leads to.
`ShapesAssumption` says what trees there are, no more than C and DWARF allow: only
an anonymous struct or union has no name (compilers describe no unnamed bitfield),
a bitfield is an integer or an enum, only anonymous types have members here, and an
enum's mutator offers nothing to choose.  `MaxDepth` and `MaxMembers` are any
numbers the types keep to.

`MutatorBody` generates the statements of one mutator.  `frames` is the stack of
suspended `build_all_member_mutators` generators, `context` the global
`nesting_context`; an action is one member taken by the innermost generator, and
the class of the template that runs it decides which statement comes of it.
After an exception (`Unprintable`) the context is not reset and the next target
starts with it.

`MutationEngine` runs those statements as C does: `pc`, drawn random values, the
mode and the counter of `fffc_pick_one_or_none`.  The worker counts, its child
resizes or not and then mutates (`EndWalk`).  A leaf mutator is its number of
options; what it writes is abstracted to the set of `changed` members and the
set of `logged` ones.  `walked` and `forced` are observers.  A member of a named enum
type is a call of that type's mutator with nothing to choose, and is inert here,
where the code assigns to it in every mode and logs nothing (`enum_mutator.c:7`), as
it does for an anonymous one, which is modelled; `CountingKeeps` and `ChangesLogged`
except enums, named ones as well.

The exceptions again are findings of a kind: an anonymous union in a union
shares the outer one's random variable (`Confused`, `tm:818-914`), anonymous
structs and enums in a union are mutated whatever was drawn (`Loose`), unnamed
aggregates in named anonymous ones forget the reference (`ReachesMember`,
`tm:759`), an unnamed struct in a union raises (`OnlyUnnamedStructsRaise`), a
bitfield's mutator logs the address of a temporary and an enum's mutator asks
nobody and logs nothing (`ChangesLogged`, `CountingKeeps`).
`ForcesWhatWasCounted` holds because it says what the unsigned counter really
does: each of the three walks draws its own union members, so the difference of
what two of them counted may wrap around (`rt:1454`), and then nothing is forced.

Operators whose comment starts with "Mutant" are slips the code could contain;
nothing uses them.  Put in the place of the definition that follows them they
break the property `PROJECT.json` names.

## What the runs check

| Run | Instance | Distinct states | Shows |
| --- | --- | --- | --- |
| `campaign_faultless` | 2 workers, 2 executions, 2 generations, limit 1 | 260 thousand | `OwnDirectory`, `ParentsResolve`, termination, and that the campaign implements `Corpus` |
| `campaign_selection` | 1 worker, 4 executions, 2 generations, limit 2, 3 scores, thresholds at 1 and 3 executions | 1.55 million | `PopulationBounded`, `BestSurvive`, `CrashBudget` |
| `campaign_faults` | 2 workers, 1 execution, 3 generations, limit 2, 1 fault, blocking children | 1.57 million | `ReapAlone`, `PublishedWhole`, `CrashKept`, `CrashesStay` |
| `campaign_forever` | 2 workers, fork count -1 | violation | two workers get one directory |
| `campaign_blocked` | 2 workers, 1 execution, child may block | violation | the campaign does not end |
| `campaign_two_filesystems` | crash path elsewhere | violation | a crash is not moved |
| `mutation_log` | 2 elements, 3 generations | 193 thousand | `ReplayExact`, `ReplaySurvives`, `BeginOnce`, `KeepsInherited` |
| `log_two_resizes` | 2 elements, 2 generations | violation | a debug replay differs from the execution |
| `log_overread` | 2 elements, 1 generation | violation | a resize reads past the argument |
| `type_emission` | 2 families of graphs of five entries besides `int`, every order | 94 thousand | `DeclaredBeforeUse`, `CompleteBeforeUse`, `OnlyEarlyConstPointers`, `CyclesBroken`, `IncompleteOnlyOpaque`, `NothingToDiscover`, `StatusNeverFalls` |
| `pipeline` | 2 targets, 2 units that may share a function's name, a pointer to a type, 1 library of 3 kinds, libasan and libm in 5 linkages, 1 fault | 557 thousand | `NoClash`, `Resolves`, `OwnLibraries`, `FailsAlone`, `AllBuilt`, `RebuildSame` |
| `mutation_engine` | types nested three deep, one or two targets, counter modulo 16 | 42 thousand | `EveryMember`, `ReachesMember`, `DeclaredOnce`, `OnlyUnnamedStructsRaise`, `OneMember`, `CountingKeeps`, `ChangesLogged`, `ForcesWhatWasCounted` |

Bounds.  Two workers are enough for every interference between workers, since
they interact pairwise, through one directory name or one file.  Two
generations are needed for parents to be sampled, and three for a reaper to
meet what a killed one left two generations before.  The limit is 1 or 2 so
that the population is below, at and above it.  The thresholds of the crash
budget are scaled down from 10, 100 and 1000 executions to what four
executions can cross.  With a fork count of -1 `MaxExec` and `MaxGeneration`
stop the model, not the program.

For the log, two elements are the fewest for which a resize can start inside
the argument, wrap around and ask for too much; the two elements, a written
value and fresh memory are all different, so that a copy from the wrong place
shows.  The third generation is the one that inherits two resizes.

For the types, a cycle needs a struct, a pointer and at most one entry of each
other sort between them; the second struct lets one be reached by value and by
pointer at once, and every order of the named entries is an initial state, so
the emission comes upon every cycle from every side.  `RecursionLimit` is
12; from 12 to 20 it makes no difference to what is reached.

For the pipeline, two targets are the fewest for which something can be left
behind by the first, and two units the fewest that can disagree about a type;
libm comes before, between and after the libraries that matter.  One fault is
enough: a second target's fault after a first's meets nothing new, since what
outlives a target is the same after either.

For mutators, two members after an anonymous one are enough for a count to go
wrong behind it; three levels give an anonymous type in an anonymous type in a
named one.  Sixteen is above the choices of any of these types, so that the
counter wraps only by subtraction, as the real one does.  No type here has more than three
members next to each other (`MaxMembers`); more are more of the same.

Deadlock is checked wherever nothing may stop.  It is not in `campaign_faults`
and `campaign_blocked`, where a child may block for ever and everyone waits
for it.

Fairness is weak fairness of the monitor, the reaper, each worker and each
running child: the kernel schedules runnable processes, and a child that uses
the processor is ended by RLIMIT_CPU after a second (`rt:517-526`).  Faults are
never fair.  A child that sleeps has no step, which is `campaign_blocked`.

The five violations are disagreements between the code and its own
documentation; `PROJECT.json` quotes both sides.  `ReplayExact` and
`ReplayAlwaysExact` belong together: replay is exact for every line of descent
in which the child or its ancestors resized the argument, but not both, and
`log_two_resizes` shows that the exception is needed.

## What is proved

Each theorem holds for every value of the constants that the module's own
assumption allows (`CampaignAssumption`, `LogAssumption`, `PipelineAssumption`,
`ShapesAssumption`, `EngineAssumption`, `EmissionAssumption`): every number of workers, executions, faults,
every set of binaries and command lines, every argument and line of descent, types
of every depth and width, every range of the counter, every graph of types and order
of its entries.

Campaign:

* `TypeCorrect`: `Spec => []TypeOK`.  The interesting conjuncts are `waited`,
  bounded because live workers and collected ones together never exceed the
  forked ones, and `parentsTmp`, a sequence only because the reaper's writes
  never skip a place.
* `ReaperRunsAlone`: `Spec => []ReapAlone`.  Inductive invariant `Core`:
  `Control` says that the live workers plus `waited` never exceed `spawned`,
  that beyond the join there is no live worker, that a reaper only lives while
  the monitor waits for it, and that a child implies a waiting worker.  The
  property itself is not inductive: that `count == FFFC_PARALLEL_COUNT` means
  nobody is left needs the cardinality argument.
* `CrashBudgetKept`: `Spec => []CrashBudget`, by `Budgeted`: the flag is up
  whenever the counters demand it, except during an execution, at whose start
  they did not.
* `DirectoriesOwned`: `NamesFit /\ Spec => []OwnDirectory`.  `NamesFit` asks for a
  fork count of at least 1 whose product with the numbers of generations and workers
  fits an int; then `AsInt` changes nothing (`IterFits`) and names are numbers with
  three digits (generation, worker, execution); `NamesDistinct` reads them back
  (`Digit` is the mixed-radix step), `Counted` says that an execution count fits its
  digit, `Placed` that a directory stays where it is put.  For -1 the digits do not
  fit, which is `campaign_forever`; for 2^30 the product does not fit the int, and
  workers 0 and 4 get one name.

Campaign (module `CampaignCrashes`, inductive invariant `Judged`, under `NamesFit`
and for any number of faults):

* `CrashesKept`: with one file system, `Spec => []CrashKept`: a crash with a directory
  is in the crash path, or where it ran until its worker moves it, or stays there
  because the mkdtemp or the rename failed (`unmoved`).  `Named` says that
  every name in a file has been given to an execution (`Past`), and
  `SetupIsFresh` that the name the next setup gives has not; so no setup,
  removal or move by anybody else can concern an execution in progress, which
  is `Held` (it keeps the directory it got) and `Unjudged` (it is in no list
  yet).
* `CrashesFinal`: `Spec => CrashesStay`.  `Apart` says that what is listed, in
  the parents file or its temporary copy, was not saved; it needs `Unjudged`
  when an execution is judged, and `ReaperLists` when the reaper writes.

Campaign (module `CampaignCrashes`, on top of `Judged`, under `NamesFit`):

* `SelectionKeepsBest`: `Spec => []BestSurvive`, and `PublicationWhole`:
  `Spec => []PublishedWhole`, whatever fails.  The invariant is `Selecting`:
  nothing is listed twice (`Distinct`, from `Unjudged`), and in the copy loop
  (`Trimming`) victims come first, entries still to come have their
  directories, and everything up to `Written` was written by this reaper from
  entries whose turn has come.  When the loop ends `Written` has reached the
  whole length of the temporary file (`WholeCopy`), so nothing a killed reaper
  left in it is published.
* `ParentsAreSound`: `Spec => []ParentsResolve`, and `PopulationIsBounded`:
  `Spec => []PopulationBounded`, both about campaigns in which nothing has
  failed.  `Sound` says that, except during the copy loop, what is listed is
  there, ran clean and has a log that begins with BEGIN; then no scoring can
  fail, and the reaper leaves by its early return or by the rename.
* `CampaignIsCorpus`: with `MaxFaults = 0`, `Spec => ImplementsCorpus`.
  `CorpusStep` maps `SetupMutation` to `Begin`, `RecordParent` to `Keep`,
  `SaveCrash` to `Save` or a stutter, `ReapUnlink` to `Cull` (whose count is
  exact because the new list is injective) and every other action to a stutter.

Mutation log (module `MutationLogProofs`; `LogAssumption` asks for an argument of
at least one element, some value to write and some number of generations):

* `LogBeginsOnce`: `Spec => []BeginOnce`.  The invariant adds that the log is a
  nonempty sequence; `AppendedBegun` and `ResizeNoBegin` are the facts about
  writing behind it.
* `ReplayIsExact`: `Spec => []ReplayExact`, and `ReplayIsSurvived`: `Spec =>
  []ReplaySurvives`, for every argument and line of descent.  Inductive invariant
  `LogInv`, which compares the debug replay of the log with the child at every
  stage, not only at the call: a log without an allocation writes inside the
  original allocation only (`PlainEvent`), a child that has resized but not
  replayed has exactly the four events of that behind what it inherited
  (`Resized`), and from the replay on the target sees the same in both (`Agree`)
  or two executions of the line have resized.  Most steps append an event, and
  then what one event does to two memories that agree is enough.  `Replay` is not
  such a step: the child had resized first and applies its ancestors' events
  after, the debug replay applies them in the order of the log.  `ReplayedAlike`
  shows that the outcome is the same, by induction over the ancestors' events
  (`AlikeAll`): each keeps the original allocations of the two equal (`Alike`),
  from which the child's own four events, replayed, fill the same new one.
* `InheritedIsKept`: `Spec => KeepsInherited`.  A write goes where the seek before it
  has put the offset, which is the end of the file wherever opening, resizing and
  replaying had left it (`LoggedAtEnd`, from `PutAtEnd`); so what was there is a prefix
  of what is (`PrefixOfAppended`).  Without the seek the first resize of a second
  generation would write over BEGIN, which is what the mutant `NoSeek` does.

Induction over data is done with `NatSetInduction`: a set of numbers that has 0 and,
with each number, the next one, has all.  What a recursive function of the model
(`Memories`, `MembersIn`, `Names`, `Asked`) describes for the first *n* is such a
set, and its defining equation is the step (`MemoriesUnfold`, `AddingMeans`, `LevelsFurther`).

Pipeline (module `PipelineProofs`, inductive invariant `IInv`):

* `TypeCorrect`: the types, and that a target in work has a library of
  AddressSanitizer in its list, without which `AsanLib` would mean nothing.
* `LinkerAgrees`: `Spec => []NoClash`.  `Written` says of the executable in work
  that the sources of every linkage that waits are on the disk, that what is
  `mutated` is in `everMutated`, and that while it links `do_nothing.c` has
  exactly the incomplete types that are not.
* `RunnersResolve`: `Spec => []Resolves`.  `Traced` says that a type in
  `everMutated` is complete in a unit of a binary that was taken, which is where
  a mutator an object misses can only have gone.
* `LibrariesKeptApart`: `Spec => []OwnLibraries`.  `Listed` says that `libraries`
  is empty between targets and the target's own during one, unless the target
  before failed; the reset at the end of the loop body re-establishes it, the
  exception does not.

Pipeline (module `PipelineProofs`, the same invariant with `Walked`, `Covered`
and `Aged`):

* `FailuresStay`: `Spec => []FailsAlone`.  `Walked` says, unless the target
  before failed, that the libraries still to come are the tail of the target's
  own list, that a library before them that nobody fuzzes has set `found`, and
  that what is generated is the target or an instrumented library of its, with
  linkages of functions of its units.  `RaiseExcused` then goes through the four
  places an exception comes from; that the linker refuses nothing but a function
  called `do_nothing` is `LinkerAgrees`.
* `EverythingBuilt`: `Spec => []AllBuilt`.  `Covered` says that each function of a
  compiled unit of the binary in work is hooked or its linkage waits
  (`UnitsCovered`, `Due`), that the target is in work or built, and that each library
  is still to be taken, in work or built.  A runner's source is written at its
  linkage's unit and may be written over before it is linked: `OwnRunner` says that it
  is its unit's unless a later linkage of the same function waits.  `Built` is said of
  a binary taken before the one in work (`Before`), of whose functions one may wait
  for a linkage that replaces its object; `HookedStays`: once hooked or lost, a
  function stays so, since an object is only replaced by one of the same function.
* `RebuildsFaithful`: `Spec => []RebuildSame`.  `Aged` says that every object
  comes from a generation into its directory and that, while sources are being
  written, this is an earlier one.

Mutators (module `MutationEngineProofs`), five layers of inductive invariants, each
inductive only together with those before it:

* `Inv`.  `VariablesDeclared`: `Spec => []DeclaredOnce`.  `Counted` says that the
  context's counts are ahead of every variable of the body, `Drawn` that while
  a union's generator is suspended or runs, the variable the context names has
  been drawn; neither is asked for outside of "members", which is why a context
  left behind by an exception does no harm.  `CountingChangesNothing`: `Spec =>
  []CountingKeeps`, and `EveryChangeLogged`: `Spec => []ChangesLogged`.  `AllMeant`
  ties a statement to the member it is about: only enums are assigned to and only
  bitfields are copied, which holds of a statement by how its generator chose it
  and has to survive until the statement runs.
* `NestInv`: the suspended generators are for the types around the next member, each
  already advanced past the one it waits for (`NestedIn`); no statement is for a
  member they have not come to (`Behind`), each leaf that they have passed has one
  (`Complete`) and no other (`Single`).  When the last generator has ended there is
  nothing left to pass.
* `RefInv`.  `StatementsReachMembers`: `Spec => []ReachesMember`, and
  `NoTextMeansUnnamedStruct`: `Spec => []OnlyUnnamedStructsRaise`.  A generator's
  prefix is made of the names C would ask for, or a named member on the way has an
  unnamed one in it (`Forgot`), or it has a name that is None and there is an
  unnamed struct in a union (`Reaches`).  A prefix <<>> is right only where no named
  member is around, which is why `HasNames` goes with it.
* `GuardInv`.  `EveryMemberStated`: `Spec => []EveryMember`.  The values a variable
  is asked for are counted and never asked for again (`GuardsCounted`), as long as
  the context has not gone on to another variable; for a union without a union in
  or around it (`Unconfused`) the count stays behind the members passed and the
  variable's range is the number of its members (`OpenRange`), so the value can be
  drawn.
* `WalkInv`.  `OneMemberMutated`: `Spec => []OneMember`.  In a union of unions and
  plain members only (`Strict`) all statements ask one variable, for different
  values (`SameVariable`, `GuardsDiffer`); each entry of a walk was made by a
  statement whose guard held and still holds, since a variable is drawn once
  (`Came`); so no two entries are of one such union (`Apart`).  A union that is not
  strict is `Loose`, or has an anonymous struct around the member.
* `CounterInv`.  `CountedMemberForced`: `Spec => []ForcesWhatWasCounted`.  Before the
  normal walk the counter is `CreditOf` the walks so far, modulo `CounterSize`; in
  it `Forcing` says that nothing is forced and the counter is what is left while
  less than that has been asked, and that the first member to reach it is forced
  and the counter is 0 from then on.  That `Due` compares with what is left, not
  with what was asked, makes the two say the same without a wrap.

Type emission (modules `CTypesProofs`, `TypeEmissionProofs` and `TypeEmissionOrder`):

* What a call does is shown by induction over the calls left (`LevelInduction`, `CallInduction`): if
  the answers to all calls within a call have a property, so has its own, and an
  answer that gives up has it.  The property is a contract per question, `Good*`:
  it relates the emission before to the one after, unless the call raised.  `Inv` is
  what an emission must satisfy for a call to be made, with a set of types whose own
  definition is in progress exempted; `Grow` is what a call may change.  `EachKeeps`
  is the same for a loop over members or arguments.
* Graphs of types have cycles, but none that avoids the tags of structs
  (`LeadsAcyclic`), which is what a C program is; what holds of a type when it holds
  of those it leads to holds of all (`AcyclicInduction`).  `EndEnd` and its
  relatives say where chains of modifiers and typedefs end.
* `EmissionsTyped`: the emission is one of `Emissions` whatever is asked.
  `StatusesNeverFall`: `Spec => StatusNeverFalls`.  Within a round `Grow` says it of
  every call whose own type is not in progress; the invariant of rounds is
  `EmissionInv`.
* `NothingLeftToDiscover`: `Spec => NothingToDiscover`, and `OnlyOpaqueIncomplete`:
  `Spec => []IncompleteOnlyOpaque`.  `Settled` says that what the dictionary has is
  done, or as done as its innermost type can be; then every template finds what it asks
  for (`TemplatedSame`), so generation leaves the emission as it is (`Same`).
* `MembersComplete`: `Spec => []CompleteBeforeUse`.  `Complete` says of a type that what
  an object of it needs has been defined; `StatusFits`, that a status never says more
  than the header, except of a typedef content with a declaration; `Orderly`, that
  every statement's needs come before it; `PartsReady` and `FilledFirst`, that a struct
  whose members have been asked for has them ready.  The exception for arrays enters as
  `Simple`: a typedef that is only declared must not be of an array of structs.
* `NamesDeclared`: `Spec => []DeclaredBeforeUse`, and `ConstPointersEarly`: `Spec =>
  []OnlyEarlyConstPointers`.  A typedef has its status before it has its statement, so
  a status says nothing of the order by itself: between the two (`Pending`) its
  definition asks for others, and none of them may have its name in its text.Since
  the unit is not circular, what it asks for lies in `Before(t)`, the largest set of
  questions closed under `Asked` without the declaration of `t` in it (`BeforeFacts`);
  and a statement made for a question of a closed set names only typedefs whose
  declaration is in the set (`NamesIn`, `NamesMet`).  So the contracts, `Order*`, are
  about every closed set at once: a call for one of its questions (`Definable`,
  `Declarable`, `Sayable` are the types a set has one of), made while no typedef the
  set can declare is pending (`Clear`), leaves nothing else pending, touches no
  typedef outside the set, and what it states has its names stated (`Since`).  A const pointer is stated without a change of status
  (the second part of `OrderDefine`), so what it points to has no definition in the
  header yet, as `FinishedDone` says that what has one is DONE.  The invariant of
  rounds is `OrderInv`: between two rounds nothing is pending.
* `CyclesEnd`: `Spec => []CyclesBroken`, if `RecursionLimit` is at least twice the number
  of types of any unit.  The limit has to be compared with something, in the model as
  in Python, where it is 1000 frames; without the hypothesis the theorem is false,
  since a long chain of structs by value is no cycle and exceeds any limit.  The
  instance TLC checks satisfies it exactly, with six types and a limit of 12.
  `CallsEnd` is the sharper form, whatever the number of types: `NestedWithin(n)` says
  that the questions can be ranked from 1 to *n* so that each ranks above those it
  asks (`Ranks`; the questions of a circular unit cannot).  There are two questions to
  a type, so a ranking that exists needs no more ranks than twice the number of types
  (`AcyclicRanks`, `NestedEnough`).  The contracts, `End*`, are about sets of questions
  (`Rooms`): a call for one of them does not raise if the calls it makes, one deeper,
  do not for a set that has whatever it asks (`Above`).  `LevelEnds` is the induction
  over the calls left, and `AnswersEnd` takes the sets by rank (`RoomAt`).  The
  invariant of rounds is `EndInv`.

Model-checked only: `CampaignEnds`, since liveness under fairness is not for this
prover.  Every invariant and every other action property of the passing runs is
stated by a theorem.

## Plan

What is done: `Campaign` and `Corpus`, `MutationLog`, `TypeEmission`,
`Pipeline`, `MutatorBody` with `MutationEngine`, each with a run; the theorems
above.

What is left, in order of importance:

1. `Intercept`: the original process, hook, call count, nested calls and debug
   replay;
2. `SizeCache` and `CoverageScore`: the LFU cache and the features file;
3. a second pointer argument in `MutationLog`, elements of pointers and arrays in
   `MutationEngine`;
4. `Config` and `EnvAdjuster`.

## Not modelled

* Interception and debug replay of one call, configuration, the environment
  adjuster, the size cache and coverage scores: planned, see above.  Known about
  them: the cache evicts only entries that were never used and does not update
  the size of an address it has (`rt:575-599`); an updated feature is appended to
  a file that is read from its start (`rt:288`); `FFFC_MAX_STATE_COUNT=0` passes
  its test and divides by zero (`rt:1649`); `get_env_size` does not advance past
  its own variable (`env_adjuster.c:24`).
* Pointers and arrays in `MutationEngine`: the walk of elements is in
  `MutationLog`.  A pointer to an opaque type has a do-nothing size of 0
  (`tm:206`), by which the walk never gets on; that needs sizes.
* The modes no runner sets: iterative, random and smart skip.
* The names of mutators, hashes of printed types with a memo (`tm:39-71`), and
  everything else that is the text of a template: a mutator is known by its type.
* The partial deletion of an output directory, and a relative target path: an
  absolute path joins to itself (`gen:41`), so that --overwrite would delete the
  target.
* DWARF attributes, the rewriting of syntax trees, the interactive tools,
  installation, tests and the demo: input and output without state that outlives
  a call.
