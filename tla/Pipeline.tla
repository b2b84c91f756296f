------------------------------ MODULE Pipeline ------------------------------
(***************************************************************************)
(* One run of the fffc command: for each target, and then for each library *)
(* the target is linked with, the sources of its fuzzers are generated     *)
(* unit by unit, exceptions are made for the types no mutator was made     *)
(* for, and one shared object per function is linked (generate.py, and     *)
(* Executable and Mutator of dwarf_to_c.py).                               *)
(*                                                                         *)
(* Two things outlive the Executable object of a target: the list          *)
(* Executable.libraries and the set Mutator.mutated_types are attributes   *)
(* of their classes.  The files are shared too: those of a target's        *)
(* libraries are generated into the target's own directory.                *)
(*                                                                         *)
(* A binary is [libs, dwarf, asan, gcov, isAsan, ignored, units]: what ldd *)
(* lists, what it was compiled with, is it libasan, is it one of those     *)
(* nobody fuzzes.  A unit is [name, c, complete, opaque, runs]: is it      *)
(* written in C, the types it has a mutator for, those it leaves           *)
(* incomplete, its functions that can be fuzzed.  A type is named by its   *)
(* reference, from which its mutator's name is made.                       *)
(***************************************************************************)
EXTENDS Naturals, Sequences, FiniteSets, Functions

CONSTANTS
  Binaries,      \* paths of programs and libraries
  Units,         \* names of compile units
  Types,         \* references of types
  Under,         \* [Types -> SUBSET Types]: what a pointer or a modifier is of
  Runnable,      \* names of functions
  Worlds,        \* [Binaries -> binary], what may be on the disk
  CommandLines,  \* sequences of targets
  MaxFaults      \* bound: compilers, linkers and deletions that fail

\* A unit knows what its types are of.
Unit   == {u \in [name : Units, c : BOOLEAN, complete : SUBSET Types, opaque : SUBSET Types,
                  runs : Seq(Runnable)] :
             \A t \in u.opaque : Under[t] \subseteq u.complete \cup u.opaque}
Binary == [libs : Seq(Binaries), dwarf : BOOLEAN, asan : BOOLEAN, gcov : BOOLEAN,
           isAsan : BOOLEAN, ignored : BOOLEAN, units : Seq(Unit)]

DoNothing == "do_nothing"

ASSUME PipelineAssumption ==
  /\ Under \in [Types -> SUBSET Types]
  /\ Worlds \subseteq [Binaries -> Binary]
  /\ CommandLines \subseteq Seq(Binaries)
  /\ DoNothing \in Runnable
  /\ "hook" \notin Types
  /\ MaxFaults \in Nat

VARIABLES
  world, command, overwrite,   \* the input: binaries, targets, --overwrite
  phase,       \* where the program is
  at,          \* the index of the loop over the targets
  libraries,   \* Executable.libraries
  everMutated, \* Mutator.mutated_types
  exe,         \* the Executable generate_sources works for
  rest,        \* the libraries its loop has not come to
  found,       \* build_debuggable_libs' variable: is it set?
  exists,      \* the targets whose output directory exists
  disk,        \* the files in the output directory of each target
  failed,      \* observer: the indices of targets an exception ended
  taken,       \* observer: what generate_sources was called for, in order
  faults

input == <<world, command, overwrite>>
vars == <<input, phase, at, libraries, everMutated, exe, rest, found, exists, disk, failed,
          taken, faults>>

Target == command[at]

-----------------------------------------------------------------------------
(* Files *)

\* What is in a source file: whose it is, the symbols it defines and the
\* mutators it calls.
Nobody == [of |-> <<>>, defs |-> {}, calls |-> {}]

MutatorSource(b, u) ==
  [of |-> <<b, u.name>>, defs |-> u.complete, calls |-> u.complete \cup u.opaque]

RunnerSource(b, u) ==
  [of |-> <<b, u.name>>, defs |-> {"hook"}, calls |-> u.complete \cup u.opaque]

\* The mutator of an incomplete structure or union does nothing, that of
\* anything else calls the mutator of what it is of.
ExceptionSource(b, ts) == [of |-> <<b>>, defs |-> ts, calls |-> UNION {Under[t] : t \in ts}]

\* The files of a directory: _mutator.c of each unit, .c of each function, and
\* the shared objects.  do_nothing.c is named like a runner.
Empty == [mutators |-> [u \in Units |-> Nobody], sources |-> [f \in Runnable |-> Nobody],
          objects |-> {}]

\* The sources a linkage compiles and links, besides the same runtime and base
\* mutators for all.
Linked(d, l) == <<disk[d].mutators[l.unit], disk[d].sources[l.function], disk[d].sources[DoNothing]>>

\* Two definitions of a symbol are an error, an undefined symbol is not.
Clash(o)   == \E i, j \in DOMAIN o : i # j /\ o[i].defs \cap o[j].defs # {}
Missing(o) == (UNION {o[i].calls : i \in DOMAIN o}) \ (UNION {o[i].defs : i \in DOMAIN o})

-----------------------------------------------------------------------------
(* Executable.__init__ *)

\* top: build_dependencies, true of a target, not of its libraries.
Executable(b, top) ==
  [of |-> b, top |-> top, units |-> world[b].units, incomplete |-> {},
   mutated |-> {}, links |-> <<>>]

NoExecutable ==
  [of |-> <<>>, top |-> FALSE, units |-> <<>>, incomplete |-> {}, mutated |-> {}, links |-> <<>>]

\* The NotCompiledWith... exceptions.
Instrumented(b) == world[b].dwarf /\ world[b].asan /\ world[b].gcov

\* get_asan_lib asks the list of the class, not the binary.
AsanLibs(libs) == {i \in DOMAIN libs : world[libs[i]].isAsan}
AsanLib(libs)  == libs[CHOOSE i \in AsanLibs(libs) : \A j \in AsanLibs(libs) : i <= j]

-----------------------------------------------------------------------------
(* The loops of main *)

Init ==
  /\ world \in Worlds /\ command \in CommandLines /\ overwrite \in BOOLEAN
  /\ phase = "checking" /\ at = 1
  /\ libraries = <<>> /\ everMutated = {}
  /\ exe = NoExecutable /\ rest = <<>> /\ found = FALSE
  /\ exists \in SUBSET Range(command)
  /\ disk = [b \in Binaries |-> Empty]
  /\ failed = {} /\ taken = <<>> /\ faults = 0

\* Clear the way, or give up before anything is generated.
CheckPath ==
  /\ phase = "checking" /\ at <= Len(command)
  /\ IF Target \in exists /\ ~overwrite
     THEN phase' = "refused" /\ UNCHANGED <<at, exists, disk>>
     ELSE /\ at' = at + 1
          /\ exists' = exists \ {Target}
          /\ disk' = [disk EXCEPT ![Target] = Empty]
          /\ UNCHANGED phase
  /\ UNCHANGED <<input, libraries, everMutated, exe, rest, found, failed, taken, faults>>

\* shutil.rmtree fails.
CannotDelete ==
  /\ phase = "checking" /\ at <= Len(command) /\ Target \in exists /\ overwrite
  /\ faults < MaxFaults
  /\ faults' = faults + 1
  /\ phase' = "refused"
  /\ UNCHANGED <<input, at, libraries, everMutated, exe, rest, found, exists, disk, failed, taken>>

PathsChecked ==
  /\ phase = "checking" /\ at > Len(command)
  /\ phase' = "target" /\ at' = 1
  /\ UNCHANGED <<input, libraries, everMutated, exe, rest, found, exists, disk, failed, taken, faults>>

\* An exception, caught in main, which continues past the reset of libraries.
Raise ==
  /\ failed' = failed \cup {at}
  /\ phase' = "target" /\ at' = at + 1
  /\ exe' = NoExecutable /\ rest' = <<>> /\ found' = FALSE

\* The Executable of a binary is made and its generate_sources called.
Generate(b, top) ==
  /\ phase' = "units"
  /\ exe' = Executable(b, top)
  /\ taken' = Append(taken, [dir |-> Target, of |-> b])
  /\ UNCHANGED <<at, failed>>

StartTarget ==
  /\ phase = "target" /\ at <= Len(command)
  /\ libraries' = libraries \o world[Target].libs
  /\ exists' = exists \cup {Target}
  /\ IF Instrumented(Target) /\ AsanLibs(libraries') # {}
     THEN Generate(Target, TRUE) /\ UNCHANGED <<rest, found>>
     ELSE Raise /\ UNCHANGED taken
  /\ UNCHANGED <<input, everMutated, disk, faults>>

\* Mutant: the list is never reset.
NextTargetKept ==
  /\ phase = "libraries" /\ rest = <<>>
  /\ phase' = "target" /\ at' = at + 1
  /\ found' = FALSE
  /\ UNCHANGED <<input, libraries, everMutated, exe, rest, exists, disk, failed, taken, faults>>

NextTarget ==
  /\ phase = "libraries" /\ rest = <<>>
  /\ phase' = "target" /\ at' = at + 1
  /\ libraries' = <<>> /\ found' = FALSE
  /\ UNCHANGED <<input, everMutated, exe, rest, exists, disk, failed, taken, faults>>

-----------------------------------------------------------------------------
(* generate_sources *)

LinksOf(u) == [k \in DOMAIN u.runs |-> [unit |-> u.name, function |-> u.runs[k]]]

\* Mutant: the incomplete types of the last unit only.
WithUnitLast(u, ever) ==
  [exe EXCEPT !.units = Tail(@), !.links = @ \o LinksOf(u),
              !.incomplete = u.opaque, !.mutated = @ \cup ever]

\* Every type any Mutator object ever mutated is copied to this executable's.
WithUnit(u, ever) ==
  [exe EXCEPT !.units = Tail(@), !.links = @ \o LinksOf(u),
              !.incomplete = (@ \ u.complete) \cup u.opaque, !.mutated = @ \cup ever]

\* get_compile_units leaves it out.
NotWrittenInC ==
  /\ phase = "units" /\ exe.units # <<>> /\ ~Head(exe.units).c
  /\ exe' = [exe EXCEPT !.units = Tail(@)]
  /\ UNCHANGED <<input, phase, at, libraries, everMutated, rest, found, exists, disk, failed, taken, faults>>

\* One round of the loop over the compile units.
CompileUnit ==
  /\ phase = "units" /\ exe.units # <<>> /\ Head(exe.units).c
  /\ LET u    == Head(exe.units)
         ever == everMutated \cup u.complete
     IN  /\ everMutated' = ever
         /\ exe' = WithUnit(u, ever)
         /\ disk' = [disk EXCEPT
              ![Target].mutators[u.name] = MutatorSource(exe.of, u),
              ![Target].sources =
                [f \in Runnable |-> IF f \in Range(u.runs) THEN RunnerSource(exe.of, u) ELSE @[f]]]
  /\ UNCHANGED <<input, phase, at, libraries, rest, found, exists, failed, taken, faults>>

\* Mutant: define_exceptions does not look at mutated_types.
ExceptionsAll == exe.incomplete

Exceptions == exe.incomplete \ exe.mutated

\* define_exceptions.
DefineExceptions ==
  /\ phase = "units" /\ exe.units = <<>>
  /\ disk' = [disk EXCEPT ![Target].sources[DoNothing] = ExceptionSource(exe.of, Exceptions)]
  /\ phase' = "linking"
  /\ UNCHANGED <<input, at, libraries, everMutated, exe, rest, found, exists, failed, taken, faults>>

\* The shared object of a linkage and its scripts, and what was put into them.
SharedObject(l) ==
  [of |-> exe.of, link |-> l, object |-> Linked(Target, l), asan |-> AsanLib(libraries)]

\* Mutant: an object is linked as soon as its sources are there.
LinkEarly ==
  /\ phase \in {"units", "linking"} /\ exe.links # <<>>
  /\ LET s == SharedObject(Head(exe.links))
     IN  IF Clash(s.object)
         THEN Raise /\ UNCHANGED disk
         ELSE /\ disk' = [disk EXCEPT ![Target].objects =
                            {x \in @ : x.link.function # s.link.function} \cup {s}]
              /\ exe' = [exe EXCEPT !.links = Tail(@)]
              /\ UNCHANGED <<failed, phase, at, rest, found>>
  /\ UNCHANGED <<input, libraries, everMutated, exists, taken, faults>>

\* Mutant: an object that is there is not linked again.
LinkOnce ==
  /\ phase = "linking" /\ exe.links # <<>>
  /\ LET s == SharedObject(Head(exe.links))
     IN  IF Clash(s.object)
         THEN Raise /\ UNCHANGED disk
         ELSE /\ disk' = [disk EXCEPT ![Target].objects =
                            IF \E x \in @ : x.link.function = s.link.function THEN @ ELSE @ \cup {s}]
              /\ exe' = [exe EXCEPT !.links = Tail(@)]
              /\ UNCHANGED <<failed, phase, at, rest, found>>
  /\ UNCHANGED <<input, libraries, everMutated, exists, taken, faults>>

\* do_link.  The linker's refusal is an exception.
Link ==
  /\ phase = "linking" /\ exe.links # <<>>
  /\ LET s == SharedObject(Head(exe.links))
     IN  IF Clash(s.object)
         THEN Raise /\ UNCHANGED disk
         ELSE /\ disk' = [disk EXCEPT ![Target].objects =
                            {x \in @ : x.link.function # s.link.function} \cup {s}]
              /\ exe' = [exe EXCEPT !.links = Tail(@)]
              /\ UNCHANGED <<failed, phase, at, rest, found>>
  /\ UNCHANGED <<input, libraries, everMutated, exists, taken, faults>>

\* Any compiler or linker fails, or anything else raises.
Fails ==
  /\ phase \in {"units", "linking"} /\ faults < MaxFaults
  /\ faults' = faults + 1
  /\ Raise
  /\ UNCHANGED <<input, libraries, everMutated, exists, disk, taken>>

\* The end of generate_sources: only a target's goes on to build_debuggable_libs.
Generated ==
  /\ phase = "linking" /\ exe.links = <<>>
  /\ phase' = "libraries"
  /\ exe' = NoExecutable
  /\ rest' = IF exe.top THEN libraries ELSE rest
  /\ UNCHANGED <<input, at, libraries, everMutated, found, exists, disk, failed, taken, faults>>

-----------------------------------------------------------------------------
(* build_debuggable_libs *)

BuildLibrary ==
  /\ phase = "libraries" /\ rest # <<>> /\ Instrumented(Head(rest))
  /\ Generate(Head(rest), FALSE)
  /\ rest' = Tail(rest)
  /\ UNCHANGED <<input, libraries, everMutated, found, exists, disk, faults>>

\* Mutant: any library that is not ignored ends the loop.
SkipLibraryStrict ==
  /\ phase = "libraries" /\ rest # <<>> /\ ~Instrumented(Head(rest))
  /\ IF world[Head(rest)].ignored
     THEN found' = TRUE /\ rest' = Tail(rest) /\ UNCHANGED <<failed, phase, at, exe>>
     ELSE Raise
  /\ UNCHANGED <<input, libraries, everMutated, exists, disk, taken, faults>>

\* The variable found is bound once a library nobody fuzzes has come by, and
\* then for good; before, reading it raises UnboundLocalError.
SkipLibrary ==
  /\ phase = "libraries" /\ rest # <<>> /\ ~Instrumented(Head(rest))
  /\ IF world[Head(rest)].ignored \/ found
     THEN found' = TRUE /\ rest' = Tail(rest) /\ UNCHANGED <<failed, phase, at, exe>>
     ELSE Raise
  /\ UNCHANGED <<input, libraries, everMutated, exists, disk, taken, faults>>

Ended ==
  /\ phase = "refused" \/ (phase = "target" /\ at > Len(command))
  /\ UNCHANGED vars

Next ==
  \/ CheckPath \/ CannotDelete \/ PathsChecked \/ StartTarget \/ NextTarget
  \/ NotWrittenInC \/ CompileUnit \/ DefineExceptions \/ Link \/ Fails \/ Generated
  \/ BuildLibrary \/ SkipLibrary \/ Ended

Spec == Init /\ [][Next]_vars
-----------------------------------------------------------------------------
(* Properties *)

\* The units mutators are made for, and their functions.
CUnits(b)    == {u \in Range(world[b].units) : u.c}
Functions(b) == UNION {Range(u.runs) : u \in CUnits(b)}

Objects(d) == disk[d].objects

\* No symbol has two definitions in a shared object: what a unit has mutators
\* for is never defined again in do_nothing.c, although that is made from the
\* incomplete types of all units and shared by all objects.  The linker can only
\* refuse the runner of a function called do_nothing, whose source is lost.
NoClash ==
  phase = "linking" /\ exe.links # <<>> /\ Clash(Linked(Target, Head(exe.links))) =>
    Head(exe.links).function = DoNothing

\* A shared object has every mutator its sources call, except of a type its unit
\* leaves opaque and another unit, of this binary or of any taken before, has
\* completed.  Then it has neither that unit's mutator nor a do-nothing one.
Resolves ==
  \A d \in Binaries : \A s \in Objects(d) : \A t \in Missing(s.object) :
    \E i \in DOMAIN taken : \E u \in CUnits(taken[i].of) : t \in u.complete

\* What is generated for a target is for it and its own libraries, and preloads
\* its own AddressSanitizer, unless the target before it failed.
OwnLibraries ==
  \A d \in Binaries : \A s \in Objects(d) :
    \/ s.asan \in Range(world[d].libs) /\ s.of \in {d} \cup Range(world[d].libs)
    \/ \E i \in DOMAIN command : command[i] = d /\ i - 1 \in failed

\* The first library that cannot be fuzzed is one nobody would think of fuzzing.
SkipsOne(b) ==
  \A i \in DOMAIN world[b].libs :
    LET lib == world[b].libs[i]
    IN  \/ Instrumented(lib) \/ world[lib].ignored
        \/ \E j \in 1 .. i - 1 : ~Instrumented(world[b].libs[j]) /\ world[world[b].libs[j]].ignored

Fuzzable(b) ==
  /\ Instrumented(b) /\ AsanLibs(world[b].libs) # {} /\ SkipsOne(b)
  /\ \A l \in {b} \cup {x \in Range(world[b].libs) : Instrumented(x)} : DoNothing \notin Functions(l)

\* One target's failure is not another's: a target that could be fuzzed alone is,
\* whatever was done for the targets before it, unless a tool fails or the
\* target just before it failed.
FailsAlone ==
  \A i \in failed : faults > 0 \/ ~Fuzzable(command[i]) \/ i - 1 \in failed

\* The functions of a unit of b that can be fuzzed.
Runs(b, m) == IF world[b].units[m].c THEN Range(world[b].units[m].runs) ELSE {}

\* The object's runner is that of its own unit and binary.  The runner of a
\* function called do_nothing is lost to the exceptions.
Hooks(s) ==
  \/ s.link.function = DoNothing
  \/ "hook" \in s.object[2].defs /\ s.object[2].of = <<s.of, s.link.unit>>

\* The linkage is of the unit or of a later one with a function of that name.
OfUnit(l, b, m) ==
  \E n \in DOMAIN world[b].units :
    n >= m /\ l.unit = world[b].units[n].name /\ l.function \in Runs(b, n)

\* c was generated into the directory after b.
After(d, b, c) ==
  \E i, j \in DOMAIN taken : i < j /\ taken[i] = [dir |-> d, of |-> b] /\ taken[j] = [dir |-> d, of |-> c]

\* The function of the unit has an object, or has lost it to one of its name.
Hooked(d, b, m, f) ==
  \E s \in Objects(d) : /\ s.link.function = f /\ Hooks(s)
                       /\ \/ s.of = b /\ OfUnit(s.link, b, m)
                          \/ After(d, b, s.of)

Finished(i) == phase # "checking" /\ phase # "refused" /\ i < at /\ i \notin failed
LastTime(i) == \A j \in DOMAIN command : j > i => command[j] # command[i]

\* When main is past a target that did not fail and does not come again, each
\* function of each unit of it and of its libraries that can be fuzzed has an
\* object that hooks it: the linkage and the runner are of that unit.  Functions
\* share an object by their name, so one is lost where a later unit of its
\* binary, or a binary generated later, has another of its name, and then it is
\* that one that is hooked.
AllBuilt ==
  \A i \in DOMAIN command : Finished(i) /\ LastTime(i) =>
    LET t == command[i]
    IN  \A b \in {t} \cup {x \in Range(world[t].libs) : Instrumented(x)} :
          \A m \in DOMAIN world[b].units : \A f \in Runs(b, m) : Hooked(t, b, m, f)

\* A rebuild script links what was linked when it was written, unless a library
\* has been generated into the same directory since.
RebuildSame ==
  \A d \in Binaries : \A s \in Objects(d) :
    \/ Linked(d, s.link) = s.object
    \/ \E i, j \in DOMAIN taken : i < j /\ taken[i] = [dir |-> d, of |-> s.of] /\ taken[j].dir = d
=============================================================================
