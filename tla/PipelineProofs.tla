--------------------------- MODULE PipelineProofs ---------------------------
(***************************************************************************)
(* For every set of binaries, every command line and every number of       *)
(* failing tools: the linker never finds a mutator twice, a runner only    *)
(* misses mutators of types that were completed elsewhere, and a target's  *)
(* fuzzers are made from its own libraries unless the target before it     *)
(* failed.                                                                 *)
(***************************************************************************)
EXTENDS Pipeline, WellFoundedInduction, TLAPS

Source ==
  [of : Seq(Binaries \cup Units), defs : SUBSET (Types \cup {"hook"}), calls : SUBSET Types]

Linkage == [unit : Units, function : Runnable]

Object == [of : Binaries, link : Linkage, object : Seq(Source), asan : Binaries]

Directory == [mutators : [Units -> Source], sources : [Runnable -> Source], objects : SUBSET Object]

ExecutableType ==
  [of : Binaries \cup {<<>>}, top : BOOLEAN, units : Seq(Unit), incomplete : SUBSET Types,
   mutated : SUBSET Types, links : Seq(Linkage)]

Generating == phase \in {"units", "linking"}
Active     == phase \in {"units", "linking", "libraries"}

InputOK == world \in [Binaries -> Binary] /\ command \in Seq(Binaries) /\ overwrite \in BOOLEAN

ProgramOK ==
  /\ phase \in {"checking", "refused", "target", "units", "linking", "libraries"}
  /\ at \in 1 .. Len(command) + 1
  /\ libraries \in Seq(Binaries) /\ everMutated \in SUBSET Types
  /\ exe \in ExecutableType /\ rest \in Seq(Binaries) /\ found \in BOOLEAN
  /\ Active => at <= Len(command) /\ AsanLibs(libraries) # {}
  /\ Generating => exe.of \in Binaries

DiskOK == exists \subseteq Binaries /\ disk \in [Binaries -> Directory]

ObserversOK ==
  /\ failed \subseteq 1 .. at - 1 /\ (phase = "checking" => failed = {})
  /\ taken \in Seq([dir : Binaries, of : Binaries]) /\ faults \in Nat

TypeOK == InputOK /\ ProgramOK /\ DiskOK /\ ObserversOK

-----------------------------------------------------------------------------
(* The first AddressSanitizer library of a list that has one is in the list. *)

LEMMA AsanLibListed ==
  ASSUME NEW libs \in Seq(Binaries), AsanLibs(libs) # {}
  PROVE  AsanLib(libs) \in Range(libs) /\ AsanLib(libs) \in Binaries
<1> DEFINE first == CHOOSE i \in AsanLibs(libs) : \A j \in AsanLibs(libs) : i <= j
<1>1. AsanLibs(libs) \subseteq DOMAIN libs /\ DOMAIN libs \subseteq Nat
  BY DEF AsanLibs
<1>2. \E i \in AsanLibs(libs) : \A j \in AsanLibs(libs) : ~ <<j, i>> \in OpToRel(<, Nat)
  BY <1>1, NatLessThanWellFounded, WFMin
<1>3. \A i, j \in Nat : i < j => <<i, j>> \in OpToRel(<, Nat)
  BY Zenon DEF OpToRel
<1>4. \E i \in AsanLibs(libs) : \A j \in AsanLibs(libs) : ~ j < i
  BY <1>1, <1>2, <1>3, Zenon
<1>5. \E i \in AsanLibs(libs) : \A j \in AsanLibs(libs) : i <= j
  BY <1>1, <1>4
<1>6. first \in DOMAIN libs
  BY <1>1, <1>5
<1> HIDE DEF first
<1>7. libs[first] \in Range(libs)
  BY <1>6 DEF Range
<1>8. libs[first] \in Binaries
  BY <1>6
<1> QED
  BY <1>7, <1>8 DEF AsanLib, first

LEMMA LinkedType ==
  ASSUME TypeOK, NEW d \in Binaries, NEW l \in Linkage
  PROVE  Linked(d, l) \in Seq(Source) /\ Len(Linked(d, l)) = 3
BY PipelineAssumption DEF TypeOK, DiskOK, Directory, Linkage, Linked

LEMMA EmptyType == Empty \in Directory
BY DEF Empty, Directory, Nobody, Source

LEMMA NoExecutableType == NoExecutable \in ExecutableType
BY DEF NoExecutable, ExecutableType

LEMMA LinksType ==
  ASSUME NEW u \in Unit
  PROVE  LinksOf(u) \in Seq(Linkage)
<1>1. u.runs \in Seq(Runnable) /\ Len(u.runs) \in Nat /\ DOMAIN u.runs = 1 .. Len(u.runs)
  BY DEF Unit
<1>2. LinksOf(u) \in [1 .. Len(u.runs) -> Linkage]
  BY <1>1 DEF LinksOf, Linkage, Unit
<1> QED
  BY <1>1, <1>2

LEMMA SourcesType ==
  ASSUME NEW b \in Binaries, NEW u \in Unit, NEW ts \in SUBSET Types
  PROVE  MutatorSource(b, u) \in Source /\ RunnerSource(b, u) \in Source /\ ExceptionSource(b, ts) \in Source
<1>1. MutatorSource(b, u) \in Source /\ RunnerSource(b, u) \in Source
  BY DEF MutatorSource, RunnerSource, Source, Unit
<1>2. UNION {Under[t] : t \in ts} \in SUBSET Types
  BY PipelineAssumption
<1> QED
  BY <1>1, <1>2 DEF ExceptionSource, Source

\* What one round of the loop over the units does to the directory.
LEMMA UnitWritten ==
  ASSUME TypeOK, CompileUnit
  PROVE  /\ Target \in Binaries /\ Head(exe.units) \in Unit
         /\ disk' \in [Binaries -> Directory]
         /\ \A d \in Binaries : disk'[d].objects = disk[d].objects
         /\ \A n \in Units : disk'[Target].mutators[n] =
              IF n = Head(exe.units).name THEN MutatorSource(exe.of, Head(exe.units))
                                          ELSE disk[Target].mutators[n]
         /\ \A f \in Runnable : disk'[Target].sources[f] =
              IF f \in Range(Head(exe.units).runs) THEN RunnerSource(exe.of, Head(exe.units))
                                                   ELSE disk[Target].sources[f]
<1> DEFINE u == Head(exe.units)
           D == disk[Target]
           ms == [D.mutators EXCEPT ![u.name] = MutatorSource(exe.of, u)]
           ss == [f \in Runnable |->
                    IF f \in Range(u.runs) THEN RunnerSource(exe.of, u) ELSE D.sources[f]]
<1>1. Target \in Binaries /\ u \in Unit /\ exe.of \in Binaries /\ D \in Directory
  BY DEF TypeOK, InputOK, ProgramOK, DiskOK, CompileUnit, Active, Generating, Target, ExecutableType
<1>2. MutatorSource(exe.of, u) \in Source /\ RunnerSource(exe.of, u) \in Source
  BY <1>1, SourcesType
<1>3. ms \in [Units -> Source] /\ ss \in [Runnable -> Source]
  BY <1>1, <1>2 DEF Directory, Unit
<1>4. disk' = [disk EXCEPT ![Target] = [D EXCEPT !.mutators = ms, !.sources = ss]]
  BY <1>1 DEF CompileUnit, Target, Directory
<1>5. [D EXCEPT !.mutators = ms, !.sources = ss] \in Directory
  BY <1>1, <1>3 DEF Directory
<1>6. disk'[Target].mutators = ms /\ disk'[Target].sources = ss
  BY <1>1, <1>4 DEF TypeOK, DiskOK, Directory
<1>7. disk' \in [Binaries -> Directory]
  BY <1>1, <1>4, <1>5 DEF TypeOK, DiskOK
<1>8. \A d \in Binaries : disk'[d].objects = disk[d].objects
  BY <1>1, <1>4 DEF TypeOK, DiskOK, Directory
<1>9. \A n \in Units : ms[n] = IF n = u.name THEN MutatorSource(exe.of, u) ELSE D.mutators[n]
  BY <1>1 DEF Directory, Unit
<1> QED
  BY <1>1, <1>6, <1>7, <1>8, <1>9

\* What the other actions do to the directory and to the program.
LEMMA ObjectLinked ==
  ASSUME TypeOK, Link, ~Clash(SharedObject(Head(exe.links)).object)
  PROVE  /\ Target \in Binaries /\ Head(exe.links) \in Linkage
         /\ SharedObject(Head(exe.links)) \in Object
         /\ disk' \in [Binaries -> Directory]
         /\ \A d \in Binaries : /\ disk'[d].mutators = disk[d].mutators
                                /\ disk'[d].sources = disk[d].sources
                                /\ d # Target => disk'[d].objects = disk[d].objects
         /\ disk'[Target].objects =
              {x \in disk[Target].objects : x.link.function # Head(exe.links).function}
                \cup {SharedObject(Head(exe.links))}
<1> DEFINE l == Head(exe.links)
           s == SharedObject(l)
           D == disk[Target]
           os == {x \in D.objects : x.link.function # l.function} \cup {s}
<1>1. Target \in Binaries /\ l \in Linkage /\ exe.of \in Binaries /\ D \in Directory
  BY DEF TypeOK, InputOK, ProgramOK, DiskOK, Link, Active, Generating, Target, ExecutableType
<1>2. AsanLib(libraries) \in Binaries
  BY AsanLibListed DEF TypeOK, ProgramOK, Active, Link
<1>3. s \in Object
  BY <1>1, <1>2, LinkedType DEF SharedObject, Object
<1>4. s.link = l
  BY DEF SharedObject
<1>5. disk' = [disk EXCEPT ![Target] = [D EXCEPT !.objects = os]]
  BY <1>1, <1>4, ZenonT(60) DEF Link, Target, Directory
<1> HIDE DEF s
<1>6. os \subseteq Object
  BY <1>1, <1>3 DEF Directory
<1>7. [D EXCEPT !.objects = os] \in Directory
  BY <1>1, <1>6 DEF Directory
<1>8. disk' \in [Binaries -> Directory]
  BY <1>1, <1>5, <1>7 DEF TypeOK, DiskOK
<1>9. disk'[Target].objects = os
  BY <1>1, <1>5 DEF TypeOK, DiskOK, Directory
<1>10. \A d \in Binaries : /\ disk'[d].mutators = disk[d].mutators
                           /\ disk'[d].sources = disk[d].sources
                           /\ d # Target => disk'[d].objects = disk[d].objects
  BY <1>1, <1>5 DEF TypeOK, DiskOK, Directory
<1> QED
  BY <1>1, <1>3, <1>8, <1>9, <1>10 DEF s

LEMMA ExceptionsWritten ==
  ASSUME TypeOK, DefineExceptions
  PROVE  /\ Target \in Binaries
         /\ disk' \in [Binaries -> Directory]
         /\ \A d \in Binaries : /\ disk'[d].mutators = disk[d].mutators
                                /\ disk'[d].objects = disk[d].objects
         /\ \A f \in Runnable : disk'[Target].sources[f] =
              IF f = DoNothing THEN ExceptionSource(exe.of, Exceptions) ELSE disk[Target].sources[f]
<1> DEFINE D == disk[Target]
           ss == [D.sources EXCEPT ![DoNothing] = ExceptionSource(exe.of, Exceptions)]
<1>1. Target \in Binaries /\ exe.of \in Binaries /\ D \in Directory /\ Exceptions \in SUBSET Types
  BY DEF TypeOK, InputOK, ProgramOK, DiskOK, DefineExceptions, Active, Generating, Target,
         ExecutableType, Exceptions
<1>2. ExceptionSource(exe.of, Exceptions) \in Source /\ DoNothing \in Runnable
  BY <1>1, SourcesType, PipelineAssumption DEF ExceptionSource, Source
<1>3. ss \in [Runnable -> Source]
  BY <1>1, <1>2 DEF Directory
<1>4. disk' = [disk EXCEPT ![Target] = [D EXCEPT !.sources = ss]]
  BY <1>1 DEF DefineExceptions, Target, Directory
<1>5. [D EXCEPT !.sources = ss] \in Directory
  BY <1>1, <1>3 DEF Directory
<1>6. disk' \in [Binaries -> Directory]
  BY <1>1, <1>4, <1>5 DEF TypeOK, DiskOK
<1>7. disk'[Target].sources = ss
  BY <1>1, <1>4 DEF TypeOK, DiskOK, Directory
<1>8. \A d \in Binaries : /\ disk'[d].mutators = disk[d].mutators
                          /\ disk'[d].objects = disk[d].objects
  BY <1>1, <1>4 DEF TypeOK, DiskOK, Directory
<1>9. \A f \in Runnable : ss[f] =
        IF f = DoNothing THEN ExceptionSource(exe.of, Exceptions) ELSE D.sources[f]
  BY <1>1, <1>2 DEF Directory
<1> QED
  BY <1>1, <1>6, <1>7, <1>8, <1>9
-----------------------------------------------------------------------------
\* What a linkage will find when its turn comes: mutators only of types that are
\* mutated, calls only of mutators of types that are mutated or incomplete, and
\* in a runner's file, but for do_nothing.c, the hook.
MutatorReady(l) ==
  LET ms == disk[Target].mutators[l.unit]
  IN  ms.defs \subseteq exe.mutated /\ ms.calls \subseteq exe.mutated \cup exe.incomplete

RunnerReady(l) ==
  LET rs == disk[Target].sources[l.function]
  IN  /\ rs.calls \subseteq exe.mutated \cup exe.incomplete
      /\ l.function # DoNothing => rs.defs = {"hook"}

Written ==
  Generating =>
    /\ exe.mutated \subseteq everMutated
    /\ \A t \in exe.incomplete : Under[t] \subseteq exe.mutated \cup exe.incomplete
    /\ \A k \in DOMAIN exe.links : MutatorReady(exe.links[k]) /\ RunnerReady(exe.links[k])
    /\ phase = "linking" => disk[Target].sources[DoNothing] = ExceptionSource(exe.of, Exceptions)

Known(t) == \E i \in DOMAIN taken : \E u \in CUnits(taken[i].of) : t \in u.complete

\* Whatever was mutated was completed by a unit that was taken.
Traced ==
  /\ \A t \in everMutated : Known(t)
  /\ Generating => /\ Range(exe.units) \subseteq Range(world[exe.of].units)
                   /\ \E i \in DOMAIN taken : taken[i].of = exe.of

\* The list is empty between targets and a target's own during one, unless the
\* target before failed.
Listed ==
  /\ phase \in {"checking", "target"} => rest = <<>> /\ (at - 1 \in failed \/ libraries = <<>>)
  /\ Active => /\ at - 1 \in failed \/ libraries = world[Target].libs
               /\ Range(rest) \subseteq Range(libraries)
  /\ Generating => exe.of \in {Target} \cup Range(libraries)

IInv == TypeOK /\ Written /\ Traced /\ Listed /\ Resolves /\ OwnLibraries

LEMMA InitIInv == Init => IInv
<1> SUFFICES ASSUME Init PROVE IInv
  OBVIOUS
<1>1. InputOK
  BY PipelineAssumption DEF Init, InputOK
<1>2. ProgramOK
  <2>1. command \in Seq(Binaries) /\ Len(command) \in Nat
    BY <1>1 DEF InputOK
  <2>2. exe \in ExecutableType
    BY NoExecutableType DEF Init
  <2>3. libraries \in Seq(Binaries) /\ rest \in Seq(Binaries) /\ at \in 1 .. Len(command) + 1
    BY <2>1 DEF Init
  <2> QED
    BY <2>2, <2>3 DEF Init, ProgramOK, Active, Generating
<1>3. DiskOK
  <2>1. exists \subseteq Binaries
    BY <1>1 DEF Init, InputOK, Range
  <2>2. disk \in [Binaries -> Directory]
    BY EmptyType DEF Init
  <2> QED
    BY <2>1, <2>2 DEF DiskOK
<1>4. ObserversOK
  BY PipelineAssumption DEF Init, ObserversOK
<1>5. Written /\ Listed
  BY DEF Init, Written, Listed, Generating, Active
<1>6. Traced
  BY DEF Init, Traced, Generating
<1>7. Resolves /\ OwnLibraries
  BY DEF Init, Resolves, OwnLibraries, Objects, Empty
<1> QED
  BY <1>1, <1>2, <1>3, <1>4, <1>5, <1>6, <1>7 DEF IInv, TypeOK

\* The two ways an exception and a new Executable change the program.
LEMMA RaiseType ==
  ASSUME TypeOK, at <= Len(command), Raise, UNCHANGED <<input, everMutated>>,
         libraries' \in Seq(Binaries)
  PROVE  ProgramOK' /\ InputOK' /\ failed' \subseteq 1 .. at' - 1
<1>1. InputOK' /\ Len(command) \in Nat /\ at \in Nat
  BY DEF TypeOK, InputOK, ProgramOK, input
<1>2. ProgramOK'
  <2>1. exe' \in ExecutableType
    BY NoExecutableType DEF Raise
  <2>2. rest' \in Seq(Binaries) /\ at' \in 1 .. Len(command') + 1
    BY <1>1 DEF Raise, TypeOK, ProgramOK, input
  <2> QED
    BY <2>1, <2>2 DEF TypeOK, ProgramOK, Raise, Active, Generating
<1>3. failed' \subseteq 1 .. at' - 1
  BY <1>1 DEF TypeOK, ProgramOK, ObserversOK, Raise
<1> QED
  BY <1>1, <1>2, <1>3

LEMMA GenerateType ==
  ASSUME TypeOK, at <= Len(command), NEW b \in Binaries, NEW top \in BOOLEAN, Generate(b, top),
         UNCHANGED <<input, everMutated, faults>>, libraries' \in Seq(Binaries),
         AsanLibs(libraries') # {}, rest' \in Seq(Binaries), found' \in BOOLEAN
  PROVE  ProgramOK' /\ InputOK' /\ ObserversOK'
<1>1. InputOK' /\ Len(command) \in Nat /\ Target \in Binaries
  BY DEF TypeOK, InputOK, ProgramOK, input, Target
<1>2. Executable(b, top) \in ExecutableType
  BY DEF TypeOK, InputOK, Executable, ExecutableType, Binary
<1>3. AsanLibs(libraries)' # {}
  BY DEF AsanLibs, input
<1>4. ProgramOK'
  BY <1>1, <1>2, <1>3 DEF TypeOK, ProgramOK, Generate, Active, Generating, input, Executable
<1>5. ObserversOK'
  BY <1>1 DEF TypeOK, ObserversOK, ProgramOK, Generate
<1> QED
  BY <1>1, <1>4, <1>5

LEMMA WithUnitType ==
  ASSUME TypeOK, NEW u \in Unit, NEW ever \in SUBSET Types, exe.units # <<>>
  PROVE  /\ WithUnit(u, ever) \in ExecutableType
         /\ WithUnit(u, ever).of = exe.of
         /\ WithUnit(u, ever).units = Tail(exe.units)
         /\ WithUnit(u, ever).links = exe.links \o LinksOf(u)
         /\ WithUnit(u, ever).incomplete = (exe.incomplete \ u.complete) \cup u.opaque
         /\ WithUnit(u, ever).mutated = exe.mutated \cup ever
<1>1. exe \in ExecutableType /\ LinksOf(u) \in Seq(Linkage)
  BY LinksType DEF TypeOK, ProgramOK
<1>2. exe.links \o LinksOf(u) \in Seq(Linkage) /\ Tail(exe.units) \in Seq(Unit)
  BY <1>1 DEF ExecutableType
<1> QED
  BY <1>1, <1>2 DEF WithUnit, ExecutableType, Unit

LEMMA TypeStep == TypeOK /\ [Next]_vars => TypeOK'
<1> SUFFICES ASSUME TypeOK, [Next]_vars PROVE TypeOK'
  OBVIOUS
<1> USE DEF TypeOK
<1>0. Len(command) \in Nat /\ at \in Nat /\ (at <= Len(command) => Target \in Binaries)
  BY DEF InputOK, ProgramOK, Target
<1>1. CASE CheckPath
  <2>1. disk' \in [Binaries -> Directory]
    BY <1>0, <1>1, EmptyType DEF CheckPath, DiskOK
  <2>2. exists' \subseteq Binaries
    BY <1>1 DEF CheckPath, DiskOK
  <2>3. ProgramOK' /\ InputOK' /\ ObserversOK'
    BY <1>0, <1>1 DEF CheckPath, ProgramOK, InputOK, ObserversOK, input, Active, Generating
  <2> QED
    BY <2>1, <2>2, <2>3 DEF DiskOK
<1>2. CASE CannotDelete
  BY <1>0, <1>2 DEF CannotDelete, ProgramOK, InputOK, DiskOK, ObserversOK, input, Active, Generating
<1>3. CASE PathsChecked
  BY <1>0, <1>3 DEF PathsChecked, ProgramOK, InputOK, DiskOK, ObserversOK, input, Active, Generating
<1>4. CASE StartTarget
  <2>1. libraries' \in Seq(Binaries) /\ Target \in Binaries /\ world[Target].libs \in Seq(Binaries)
    BY <1>0, <1>4 DEF StartTarget, InputOK, ProgramOK, Binary
  <2>2. DiskOK'
    BY <1>4, <2>1 DEF StartTarget, DiskOK
  <2>3. CASE Instrumented(Target) /\ AsanLibs(libraries') # {}
    <3>1. Generate(Target, TRUE) /\ rest' \in Seq(Binaries) /\ found' \in BOOLEAN
      BY <1>4, <2>3 DEF StartTarget, ProgramOK
    <3> QED
      BY <1>4, <2>1, <2>2, <2>3, <3>1, GenerateType DEF StartTarget
  <2>4. CASE ~(Instrumented(Target) /\ AsanLibs(libraries') # {})
    <3>1. Raise /\ UNCHANGED taken
      BY <1>4, <2>4 DEF StartTarget
    <3>2. ProgramOK' /\ InputOK' /\ failed' \subseteq 1 .. at' - 1
      BY <1>4, <2>1, <3>1, RaiseType DEF StartTarget
    <3> QED
      BY <1>4, <2>2, <3>1, <3>2 DEF StartTarget, ObserversOK, Raise
  <2> QED
    BY <2>3, <2>4
<1>5. CASE NextTarget
  <2>1. at <= Len(command) /\ at' = at + 1 /\ libraries' = <<>> /\ phase' = "target"
    BY <1>5 DEF NextTarget, ProgramOK, Active
  <2>2. ProgramOK'
    <3>1. at' \in 1 .. Len(command') + 1
      BY <1>0, <1>5, <2>1 DEF NextTarget, ProgramOK, input
    <3>2. libraries' \in Seq(Binaries) /\ rest' \in Seq(Binaries) /\ exe' \in ExecutableType
      BY <1>5, <2>1 DEF NextTarget, ProgramOK
    <3> QED
      BY <1>5, <2>1, <3>1, <3>2 DEF NextTarget, ProgramOK, Active, Generating
  <2>3. ObserversOK'
    BY <1>0, <1>5, <2>1 DEF NextTarget, ProgramOK, ObserversOK
  <2> QED
    BY <1>5, <2>2, <2>3 DEF NextTarget, InputOK, DiskOK, input
<1>6. CASE NotWrittenInC
  <2>1. Tail(exe.units) \in Seq(Unit)
    BY <1>6 DEF NotWrittenInC, ProgramOK, ExecutableType
  <2>2. exe' \in ExecutableType /\ exe'.of = exe.of
    BY <1>6, <2>1 DEF NotWrittenInC, ProgramOK, ExecutableType
  <2>3. AsanLibs(libraries)' = AsanLibs(libraries)
    BY <1>6 DEF NotWrittenInC, AsanLibs, input
  <2> QED
    BY <1>6, <2>2, <2>3 DEF NotWrittenInC, ProgramOK, InputOK, DiskOK, ObserversOK, input, Active,
                            Generating
<1>7. CASE CompileUnit
  <2> DEFINE u == Head(exe.units)
             ever == everMutated \cup u.complete
  <2>1. u \in Unit /\ disk' \in [Binaries -> Directory]
    BY <1>7, UnitWritten
  <2>2. ever \in SUBSET Types
    BY <2>1 DEF ProgramOK, Unit
  <2>3. exe' = WithUnit(u, ever) /\ everMutated' = ever /\ exe.units # <<>>
    BY <1>7 DEF CompileUnit
  <2>4. exe' \in ExecutableType /\ exe'.of = exe.of
    BY <2>1, <2>2, <2>3, WithUnitType
  <2>5. AsanLibs(libraries)' = AsanLibs(libraries)
    BY <1>7 DEF CompileUnit, AsanLibs, input
  <2> HIDE DEF u, ever
  <2> QED
    BY <1>7, <2>1, <2>2, <2>3, <2>4, <2>5
       DEF CompileUnit, ProgramOK, InputOK, DiskOK, ObserversOK, input, Active, Generating
<1>8. CASE DefineExceptions
  <2>1. disk' \in [Binaries -> Directory]
    BY <1>8, ExceptionsWritten
  <2>2. AsanLibs(libraries)' = AsanLibs(libraries)
    BY <1>8 DEF DefineExceptions, AsanLibs, input
  <2> QED
    BY <1>8, <2>1, <2>2
       DEF DefineExceptions, ProgramOK, InputOK, DiskOK, ObserversOK, input, Active, Generating
<1>9. CASE Link
  <2> DEFINE s == SharedObject(Head(exe.links))
  <2>1. CASE Clash(s.object)
    <3>1. Raise /\ UNCHANGED disk /\ at <= Len(command)
      BY <1>9, <2>1 DEF Link, ProgramOK, Active
    <3>2. ProgramOK' /\ InputOK' /\ failed' \subseteq 1 .. at' - 1
      BY <1>9, <3>1, RaiseType DEF Link, ProgramOK
    <3> QED
      BY <1>9, <3>1, <3>2 DEF Link, DiskOK, ObserversOK, Raise
  <2>2. CASE ~Clash(s.object)
    <3>1. disk' \in [Binaries -> Directory]
      BY <1>9, <2>2, ObjectLinked
    <3>2. exe' = [exe EXCEPT !.links = Tail(@)] /\ UNCHANGED <<failed, phase, at, rest, found>>
      BY <1>9, <2>2 DEF Link
    <3>3. exe' \in ExecutableType /\ exe'.of = exe.of
      <4>1. exe \in ExecutableType /\ exe.links # <<>>
        BY <1>9 DEF Link, ProgramOK
      <4>2. Tail(exe.links) \in Seq(Linkage)
        BY <4>1 DEF ExecutableType
      <4> QED
        BY <3>2, <4>1, <4>2 DEF ExecutableType
    <3>4. AsanLibs(libraries)' = AsanLibs(libraries)
      BY <1>9 DEF Link, AsanLibs, input
    <3>5. UNCHANGED <<input, libraries, everMutated, exists, taken, faults>>
      BY <1>9 DEF Link
    <3> QED
      BY <3>1, <3>2, <3>3, <3>4, <3>5
         DEF ProgramOK, InputOK, DiskOK, ObserversOK, input, Active, Generating
  <2> QED
    BY <2>1, <2>2
<1>10. CASE Fails
  <2>1. Raise /\ at <= Len(command) /\ libraries' \in Seq(Binaries)
    BY <1>10 DEF Fails, ProgramOK, Active
  <2>2. ProgramOK' /\ InputOK' /\ failed' \subseteq 1 .. at' - 1
    BY <1>10, <2>1, RaiseType DEF Fails
  <2> QED
    BY <1>10, <2>2 DEF Fails, DiskOK, ObserversOK, Raise
<1>11. CASE Generated
  <2>1. exe' \in ExecutableType /\ rest' \in Seq(Binaries)
    BY <1>11, NoExecutableType DEF Generated, ProgramOK
  <2>2. AsanLibs(libraries)' = AsanLibs(libraries)
    BY <1>11 DEF Generated, AsanLibs, input
  <2> QED
    BY <1>11, <2>1, <2>2
       DEF Generated, ProgramOK, InputOK, DiskOK, ObserversOK, input, Active, Generating
<1>12. CASE BuildLibrary
  <2>1. Head(rest) \in Binaries /\ rest' \in Seq(Binaries) /\ at <= Len(command)
    BY <1>12 DEF BuildLibrary, ProgramOK, Active
  <2>2. libraries' \in Seq(Binaries) /\ AsanLibs(libraries') # {} /\ found' \in BOOLEAN
    BY <1>12 DEF BuildLibrary, ProgramOK, Active
  <2> QED
    BY <1>12, <2>1, <2>2, GenerateType DEF BuildLibrary, DiskOK
<1>13. CASE SkipLibrary
  <2>1. CASE world[Head(rest)].ignored \/ found
    <3>1. AsanLibs(libraries)' = AsanLibs(libraries)
      BY <1>13 DEF SkipLibrary, AsanLibs, input
    <3>2. rest # <<>> /\ found' = TRUE /\ rest' = Tail(rest) /\ UNCHANGED <<failed, phase, at, exe>>
      BY <1>13, <2>1, Zenon DEF SkipLibrary
    <3>3. rest' \in Seq(Binaries)
      BY <3>2 DEF ProgramOK
    <3> QED
      BY <1>13, <3>1, <3>2, <3>3
         DEF SkipLibrary, ProgramOK, InputOK, DiskOK, ObserversOK, input, Active, Generating
  <2>2. CASE ~(world[Head(rest)].ignored \/ found)
    <3>1. Raise /\ at <= Len(command) /\ libraries' \in Seq(Binaries)
      BY <1>13, <2>2 DEF SkipLibrary, ProgramOK, Active
    <3>2. ProgramOK' /\ InputOK' /\ failed' \subseteq 1 .. at' - 1
      BY <1>13, <3>1, RaiseType DEF SkipLibrary
    <3> QED
      BY <1>13, <3>1, <3>2 DEF SkipLibrary, DiskOK, ObserversOK, Raise
  <2> QED
    BY <2>1, <2>2
<1>14. CASE Ended \/ UNCHANGED vars
  <2>1. UNCHANGED vars
    BY <1>14 DEF Ended
  <2>2. AsanLibs(libraries)' = AsanLibs(libraries)
    BY <2>1 DEF vars, input, AsanLibs
  <2> QED
    BY <2>1, <2>2 DEF vars, input, ProgramOK, InputOK, DiskOK, ObserversOK, Active, Generating
<1> QED
  BY <1>1, <1>2, <1>3, <1>4, <1>5, <1>6, <1>7, <1>8, <1>9, <1>10, <1>11, <1>12, <1>13, <1>14 DEF Next

\* An element past the first of two sequences is one of the second.
LEMMA SecondPart ==
  ASSUME NEW S, NEW s1 \in Seq(S), NEW s2 \in Seq(S),
         NEW k \in DOMAIN (s1 \o s2), k > Len(s1)
  PROVE  k - Len(s1) \in DOMAIN s2 /\ (s1 \o s2)[k] = s2[k - Len(s1)]
OBVIOUS

LEMMA FirstPart ==
  ASSUME NEW S, NEW s1 \in Seq(S), NEW s2 \in Seq(S),
         NEW k \in DOMAIN (s1 \o s2), ~ k > Len(s1)
  PROVE  k \in DOMAIN s1 /\ (s1 \o s2)[k] = s1[k]
OBVIOUS

LEMMA BothParts ==
  ASSUME NEW S, NEW s1 \in Seq(S), NEW s2 \in Seq(S)
  PROVE  /\ Len(s1) \in Nat
         /\ \A k \in DOMAIN s1 : /\ k \in Nat /\ k <= Len(s1) /\ k \in DOMAIN (s1 \o s2)
                                 /\ (s1 \o s2)[k] = s1[k]
         /\ \A k \in DOMAIN s2 : /\ Len(s1) + k \in DOMAIN (s1 \o s2) /\ Len(s1) + k > Len(s1)
                                 /\ (s1 \o s2)[Len(s1) + k] = s2[k]
<1>1. Len(s1) \in Nat
  OBVIOUS
<1>2. \A k \in DOMAIN s1 : k \in Nat /\ k <= Len(s1) /\ k \in DOMAIN (s1 \o s2)
                          /\ (s1 \o s2)[k] = s1[k]
  OBVIOUS
<1>3. \A k \in DOMAIN s2 : k \in Nat /\ k > 0
  OBVIOUS
<1>4. \A k \in DOMAIN s2 : Len(s1) + k \in DOMAIN (s1 \o s2) /\ Len(s1) + k > Len(s1)
  OBVIOUS
<1>5. \A k \in DOMAIN s2 : (s1 \o s2)[Len(s1) + k] = s2[k]
  OBVIOUS
<1> QED
  BY <1>1, <1>2, <1>3, <1>4, <1>5

\* A linkage of the unit, or one from before, is ready after the unit is done.
LEMMA UnitReady ==
  ASSUME TypeOK, Written, CompileUnit
  PROVE  LET u    == Head(exe.units)
             ever == everMutated \cup u.complete
         IN  /\ Generating /\ u \in Unit /\ phase' = "units"
             /\ exe'.links = exe.links \o LinksOf(u)
             /\ exe'.mutated = ever /\ everMutated' = ever
             /\ \A t \in exe'.incomplete : Under[t] \subseteq exe'.mutated \cup exe'.incomplete
             /\ \A l \in Linkage :
                  \/ l.unit = u.name /\ l.function \in Range(u.runs)
                  \/ \E j \in DOMAIN exe.links : l = exe.links[j]
                  => MutatorReady(l)' /\ RunnerReady(l)'
<1> DEFINE u == Head(exe.units)
           ever == everMutated \cup u.complete
<1>1. /\ Generating /\ u \in Unit /\ Target' = Target /\ exe.of \in Binaries
      /\ phase = "units" /\ phase' = "units" /\ everMutated' = ever
      /\ exe' = WithUnit(u, ever)
  BY UnitWritten DEF CompileUnit, Generating, Target, input, TypeOK, ProgramOK
<1>2. /\ exe'.links = exe.links \o LinksOf(u)
      /\ exe'.mutated = exe.mutated \cup ever
      /\ exe'.incomplete = (exe.incomplete \ u.complete) \cup u.opaque
  <2>1. ever \in SUBSET Types /\ exe.units # <<>>
    BY <1>1 DEF CompileUnit, TypeOK, ProgramOK, Unit
  <2> QED
    BY <1>1, <2>1, WithUnitType
<1>3. exe'.mutated = ever
  BY <1>1, <1>2 DEF Written
<1>4. /\ u.complete \subseteq exe'.mutated /\ exe.mutated \subseteq exe'.mutated
      /\ exe.mutated \cup exe.incomplete \subseteq exe'.mutated \cup exe'.incomplete
      /\ u.complete \cup u.opaque \subseteq exe'.mutated \cup exe'.incomplete
  BY <1>2, <1>3
<1>7. \A t \in exe'.incomplete : Under[t] \subseteq exe'.mutated \cup exe'.incomplete
  <2>1. \A t \in u.opaque : Under[t] \subseteq u.complete \cup u.opaque
    BY <1>1 DEF Unit
  <2>2. \A t \in exe.incomplete : Under[t] \subseteq exe.mutated \cup exe.incomplete
    BY <1>1 DEF Written
  <2> QED
    BY <1>2, <1>4, <2>1, <2>2
<1>5. /\ \A n \in Units : disk'[Target].mutators[n] =
           IF n = u.name THEN MutatorSource(exe.of, u) ELSE disk[Target].mutators[n]
      /\ \A f \in Runnable : disk'[Target].sources[f] =
           IF f \in Range(u.runs) THEN RunnerSource(exe.of, u) ELSE disk[Target].sources[f]
  BY UnitWritten
<1> HIDE DEF u, ever
<1>6. ASSUME NEW l \in Linkage,
             \/ l.unit = u.name /\ l.function \in Range(u.runs)
             \/ \E j \in DOMAIN exe.links : l = exe.links[j]
      PROVE  MutatorReady(l)' /\ RunnerReady(l)'
  <2>1. l.unit \in Units /\ l.function \in Runnable
    BY DEF Linkage
  <2>2. MutatorReady(l)'
    <3>1. CASE l.unit = u.name
      <4>1. disk'[Target].mutators[l.unit] = MutatorSource(exe.of, u)
        BY <1>5, <2>1, <3>1
      <4> QED
        BY <1>1, <1>4, <4>1 DEF MutatorReady, MutatorSource
    <3>2. CASE l.unit # u.name
      <4>1. disk'[Target].mutators[l.unit] = disk[Target].mutators[l.unit]
        BY <1>5, <2>1, <3>2
      <4>2. MutatorReady(l)
        BY <1>1, <1>6, <3>2 DEF Written
      <4> QED
        BY <1>1, <1>4, <4>1, <4>2 DEF MutatorReady
    <3> QED
      BY <3>1, <3>2
  <2>3. RunnerReady(l)'
    <3>1. CASE l.function \in Range(u.runs)
      <4>1. disk'[Target].sources[l.function] = RunnerSource(exe.of, u)
        BY <1>5, <2>1, <3>1
      <4> QED
        BY <1>1, <1>4, <4>1 DEF RunnerReady, RunnerSource
    <3>2. CASE l.function \notin Range(u.runs)
      <4>1. disk'[Target].sources[l.function] = disk[Target].sources[l.function]
        BY <1>5, <2>1, <3>2
      <4>2. RunnerReady(l)
        BY <1>1, <1>6, <3>2 DEF Written
      <4> QED
        BY <1>1, <1>4, <4>1, <4>2 DEF RunnerReady
    <3> QED
      BY <3>1, <3>2
  <2> QED
    BY <2>2, <2>3
<1> QED
  BY <1>1, <1>2, <1>3, <1>6, <1>7 DEF u, ever

\* The generated sources stay what the linkages need.
LEMMA WrittenStep == TypeOK /\ TypeOK' /\ Written /\ [Next]_vars => Written'
<1> SUFFICES ASSUME TypeOK, TypeOK', Written, [Next]_vars, Generating' PROVE Written'
  BY DEF Written
<1>1. CASE CompileUnit
  <2> DEFINE u == Head(exe.units)
             ready(l) ==
               /\ disk'[Target].mutators[l.unit].defs \subseteq exe'.mutated
               /\ disk'[Target].mutators[l.unit].calls \subseteq exe'.mutated \cup exe'.incomplete
               /\ disk'[Target].sources[l.function].calls \subseteq exe'.mutated \cup exe'.incomplete
               /\ l.function # DoNothing => disk'[Target].sources[l.function].defs = {"hook"}
  <2>1. /\ Generating /\ u \in Unit /\ phase' = "units" /\ exe'.mutated = everMutated'
        /\ Target' = Target
        /\ exe'.links = exe.links \o LinksOf(u)
        /\ \A t \in exe'.incomplete : Under[t] \subseteq exe'.mutated \cup exe'.incomplete
        /\ \A l \in Linkage :
             \/ l.unit = u.name /\ l.function \in Range(u.runs)
             \/ \E j \in DOMAIN exe.links : l = exe.links[j]
             => ready(l)
    BY <1>1, UnitReady DEF MutatorReady, RunnerReady, CompileUnit, Target, input
  <2>2. /\ exe.links \in Seq(Linkage) /\ LinksOf(u) \in Seq(Linkage)
        /\ exe'.links \in Seq(Linkage)
    BY <2>1, LinksType DEF TypeOK, ProgramOK, ExecutableType
  <2>3. \A i \in DOMAIN LinksOf(u) : /\ LinksOf(u)[i].unit = u.name
                                    /\ LinksOf(u)[i].function \in Range(u.runs)
    BY DEF LinksOf, Range
  <2> HIDE DEF u, ready
  <2>4. ASSUME NEW k \in DOMAIN exe'.links
        PROVE  ready(exe'.links[k])
    <3>1. exe'.links[k] \in Linkage
      BY <2>2
    <3>2. CASE k > Len(exe.links)
      <4>1. k - Len(exe.links) \in DOMAIN LinksOf(u)
            /\ exe'.links[k] = LinksOf(u)[k - Len(exe.links)]
        BY <2>1, <2>2, <3>2, SecondPart
      <4> QED
        BY <2>1, <2>3, <3>1, <4>1
    <3>3. CASE ~ k > Len(exe.links)
      <4>1. k \in DOMAIN exe.links /\ exe'.links[k] = exe.links[k]
        BY <2>1, <2>2, <3>3, FirstPart
      <4> QED
        BY <2>1, <3>1, <4>1
    <3> QED
      BY <3>2, <3>3
  <2> QED
    BY <2>1, <2>4 DEF Written, ready, MutatorReady, RunnerReady
<1>2. CASE DefineExceptions
  <2>1. Generating /\ UNCHANGED <<Target, exe, everMutated>> /\ Target \in Binaries
    BY <1>2, ExceptionsWritten DEF DefineExceptions, Generating, Target, input
  <2>2. \A f \in Runnable : disk'[Target].sources[f] =
          IF f = DoNothing THEN ExceptionSource(exe.of, Exceptions) ELSE disk[Target].sources[f]
    BY <1>2, ExceptionsWritten
  <2>3. disk'[Target].mutators = disk[Target].mutators /\ DoNothing \in Runnable
    BY <1>2, <2>1, ExceptionsWritten, PipelineAssumption
  <2>4. \A k \in DOMAIN exe.links : exe.links[k].function \in Runnable
    <3>1. exe.links \in Seq(Linkage)
      BY DEF TypeOK, ProgramOK, ExecutableType
    <3>2. \A k \in DOMAIN exe.links : exe.links[k] \in Linkage
      BY <3>1
    <3> QED
      BY <3>2 DEF Linkage
  <2>5. Exceptions' = Exceptions
    BY <2>1 DEF Exceptions
  <2>6. ExceptionSource(exe.of, Exceptions).calls \subseteq exe.mutated \cup exe.incomplete
    BY <2>1 DEF ExceptionSource, Exceptions, Written
  <2>7. \A k \in DOMAIN exe.links : MutatorReady(exe.links[k])' /\ RunnerReady(exe.links[k])'
    <3> SUFFICES ASSUME NEW k \in DOMAIN exe.links
                 PROVE  MutatorReady(exe.links[k])' /\ RunnerReady(exe.links[k])'
      OBVIOUS
    <3>1. MutatorReady(exe.links[k]) /\ RunnerReady(exe.links[k])
      BY <2>1 DEF Written
    <3>2. MutatorReady(exe.links[k])'
      BY <2>1, <2>3, <3>1 DEF MutatorReady
    <3>3. RunnerReady(exe.links[k])'
      <4>1. CASE exe.links[k].function = DoNothing
        BY <2>1, <2>2, <2>3, <2>6, <4>1 DEF RunnerReady
      <4>2. CASE exe.links[k].function # DoNothing
        BY <2>1, <2>2, <2>4, <3>1, <4>2 DEF RunnerReady
      <4> QED
        BY <4>1, <4>2
    <3> QED
      BY <3>2, <3>3
  <2> QED
    BY <2>1, <2>2, <2>3, <2>5, <2>7 DEF Written
<1>3. CASE Link
  <2>1. CASE Clash(SharedObject(Head(exe.links)).object)
    BY <1>3, <2>1 DEF Link, Raise, Generating
  <2>2. CASE ~Clash(SharedObject(Head(exe.links)).object)
    <3>1. /\ Generating /\ phase = "linking" /\ UNCHANGED <<Target, everMutated, phase>>
          /\ Target \in Binaries /\ exe.links # <<>> /\ exe' = [exe EXCEPT !.links = Tail(@)]
      BY <1>3, <2>2, ObjectLinked DEF Link, Generating, Target, input
    <3>2. disk'[Target].sources = disk[Target].sources /\ disk'[Target].mutators = disk[Target].mutators
      BY <1>3, <2>2, <3>1, ObjectLinked
    <3>3. /\ exe'.links = Tail(exe.links) /\ exe.links \in Seq(Linkage)
          /\ UNCHANGED <<exe.of, exe.mutated, exe.incomplete>>
      BY <3>1 DEF TypeOK, ProgramOK, ExecutableType
    <3>4. \A k \in DOMAIN exe'.links : k + 1 \in DOMAIN exe.links /\ exe'.links[k] = exe.links[k + 1]
      BY <3>1, <3>3
    <3>5. Exceptions' = Exceptions
      BY <3>3 DEF Exceptions
    <3> QED
      BY <3>1, <3>2, <3>3, <3>4, <3>5, ZenonT(60) DEF Written, MutatorReady, RunnerReady
  <2> QED
    BY <2>1, <2>2
<1>4. CASE NotWrittenInC
  <2>1. Generating /\ UNCHANGED <<Target, everMutated, phase, disk>> /\ phase = "units"
    BY <1>4 DEF NotWrittenInC, Generating, Target, input
  <2>2. UNCHANGED <<exe.of, exe.mutated, exe.incomplete, exe.links>>
    BY <1>4 DEF NotWrittenInC, TypeOK, ProgramOK, ExecutableType
  <2> QED
    BY <2>1, <2>2 DEF Written, MutatorReady, RunnerReady
<1>5. ASSUME NEW b, NEW top, Generate(b, top)
      PROVE  Written'
  <2>1. exe'.links = <<>> /\ exe'.mutated = {} /\ exe'.incomplete = {} /\ phase' = "units"
    BY <1>5 DEF Generate, Executable
  <2> QED
    BY <2>1 DEF Written, MutatorReady, RunnerReady
<1>6. CASE StartTarget
  <2>1. Generate(Target, TRUE) \/ Raise
    BY <1>6 DEF StartTarget
  <2> QED
    BY <1>5, <2>1 DEF Raise, Generating
<1>7. CASE BuildLibrary
  BY <1>5, <1>7 DEF BuildLibrary
<1>8. CASE CheckPath \/ CannotDelete \/ PathsChecked \/ NextTarget \/ Fails \/ Generated \/ SkipLibrary
  BY <1>8 DEF CheckPath, CannotDelete, PathsChecked, NextTarget, Fails, Generated, SkipLibrary,
              Raise, Generating
<1>9. CASE Ended \/ UNCHANGED vars
  BY <1>9 DEF Ended, vars, input, Written, MutatorReady, RunnerReady, Generating, Target, Exceptions
<1> QED
  BY <1>1, <1>2, <1>3, <1>4, <1>6, <1>7, <1>8, <1>9 DEF Next

LEMMA TailRange ==
  ASSUME NEW S, NEW seq \in Seq(S), seq # <<>>
  PROVE  Range(Tail(seq)) \subseteq Range(seq) /\ Head(seq) \in Range(seq)
<1>1. \A k \in DOMAIN Tail(seq) : k + 1 \in DOMAIN seq /\ Tail(seq)[k] = seq[k + 1]
  OBVIOUS
<1>2. 1 \in DOMAIN seq /\ Head(seq) = seq[1]
  OBVIOUS
<1> QED
  BY <1>1, <1>2 DEF Range

\* What is known to be completed stays so, whatever is taken next.
LEMMA KnownStays ==
  ASSUME TypeOK, UNCHANGED world, NEW r,
         taken' = taken \/ (r \in [dir : Binaries, of : Binaries] /\ taken' = Append(taken, r))
  PROVE  /\ \A t : Known(t) => Known(t)'
         /\ \A i \in DOMAIN taken : i \in DOMAIN taken' /\ taken'[i] = taken[i]
<1>1. \A i \in DOMAIN taken : i \in DOMAIN taken' /\ taken'[i] = taken[i]
  BY DEF TypeOK, ObserversOK
<1> QED
  BY <1>1 DEF Known, CUnits

LEMMA TracedStep == TypeOK /\ TypeOK' /\ Traced /\ [Next]_vars => Traced'
<1> SUFFICES ASSUME TypeOK, TypeOK', Traced, [Next]_vars PROVE Traced'
  OBVIOUS
<1>1. ASSUME UNCHANGED <<world, taken, everMutated>>, ~Generating'
      PROVE  Traced'
  BY <1>1, KnownStays DEF Traced
<1>2. ASSUME UNCHANGED <<world, taken, everMutated>>, Generating, exe'.of = exe.of,
             Range(exe'.units) \subseteq Range(exe.units)
      PROVE  Traced'
  BY <1>2, KnownStays DEF Traced
<1>3. CASE CompileUnit
  <2> DEFINE u == Head(exe.units)
             ever == everMutated \cup u.complete
  <2>1. /\ UNCHANGED <<world, taken>> /\ Generating /\ exe.units # <<>> /\ exe.units \in Seq(Unit)
        /\ u.c /\ everMutated' = ever /\ exe' = WithUnit(u, ever)
    BY <1>3 DEF CompileUnit, input, Generating, TypeOK, ProgramOK, ExecutableType
  <2>2. u \in CUnits(exe.of)
    BY <2>1, TailRange DEF Traced, CUnits
  <2>3. \A t \in u.complete : Known(t)
    BY <2>1, <2>2 DEF Traced, Known
  <2>4. \A t \in everMutated' : Known(t)'
    BY <2>1, <2>3, KnownStays DEF Traced
  <2>5. exe'.of = exe.of /\ exe'.units = Tail(exe.units)
    <3>1. u \in Unit /\ ever \in SUBSET Types
      BY <1>3, <2>1, UnitWritten DEF TypeOK, ProgramOK
    <3> QED
      BY <2>1, <3>1, WithUnitType
  <2>6. Range(exe'.units) \subseteq Range(world'[exe'.of].units)
    BY <2>1, <2>5, TailRange DEF Traced
  <2>7. \E i \in DOMAIN taken' : taken'[i].of = exe'.of
    BY <2>1, <2>5 DEF Traced
  <2> QED
    BY <2>4, <2>6, <2>7 DEF Traced
<1>4. CASE NotWrittenInC
  <2>1. exe \in ExecutableType /\ exe.units # <<>>
    BY <1>4 DEF NotWrittenInC, TypeOK, ProgramOK
  <2>2. exe'.of = exe.of /\ exe'.units = Tail(exe.units) /\ exe.units \in Seq(Unit)
    BY <1>4, <2>1 DEF NotWrittenInC, ExecutableType
  <2> QED
    BY <1>2, <1>4, <2>1, <2>2, TailRange DEF NotWrittenInC, Generating, input
<1>5. CASE Link
  <2>1. CASE Clash(SharedObject(Head(exe.links)).object)
    BY <1>1, <1>5, <2>1 DEF Link, Raise, Generating, input
  <2>2. CASE ~Clash(SharedObject(Head(exe.links)).object)
    <3>1. exe' = [exe EXCEPT !.links = Tail(@)]
      BY <1>5, <2>2 DEF Link
    <3>2. exe'.of = exe.of /\ exe'.units = exe.units
      BY <3>1 DEF TypeOK, ProgramOK, ExecutableType
    <3> QED
      BY <1>2, <1>5, <3>2 DEF Link, Generating, input
  <2> QED
    BY <2>1, <2>2
<1>6. CASE DefineExceptions
  BY <1>2, <1>6 DEF DefineExceptions, Generating, input
<1>7. ASSUME NEW b \in Binaries, NEW top, Generate(b, top), UNCHANGED <<world, everMutated>>,
             Target \in Binaries
      PROVE  Traced'
  <2>1. /\ taken' = Append(taken, [dir |-> Target, of |-> b])
        /\ [dir |-> Target, of |-> b] \in [dir : Binaries, of : Binaries]
        /\ exe'.of = b /\ exe'.units = world[b].units
    BY <1>7 DEF Generate, Executable
  <2>2. \A t \in everMutated' : Known(t)'
    BY <1>7, <2>1, KnownStays DEF Traced
  <2>3. Len(taken) + 1 \in DOMAIN taken' /\ taken'[Len(taken) + 1].of = b
    BY <2>1 DEF TypeOK, ObserversOK
  <2> QED
    BY <1>7, <2>1, <2>2, <2>3 DEF Traced
<1>8. CASE StartTarget
  <2>1. Target \in Binaries /\ UNCHANGED <<world, everMutated>>
    BY <1>8 DEF StartTarget, TypeOK, InputOK, ProgramOK, input, Target
  <2>2. Generate(Target, TRUE) \/ (Raise /\ UNCHANGED taken)
    BY <1>8 DEF StartTarget
  <2> QED
    BY <1>1, <1>7, <2>1, <2>2 DEF Raise, Generating
<1>9. CASE BuildLibrary
  <2>1. Head(rest) \in Binaries /\ Target \in Binaries
    BY <1>9 DEF BuildLibrary, TypeOK, InputOK, ProgramOK, Active, Target
  <2> QED
    BY <1>7, <1>9, <2>1 DEF BuildLibrary, input
<1>10. CASE CheckPath \/ CannotDelete \/ PathsChecked \/ NextTarget \/ Fails \/ Generated \/ SkipLibrary
  BY <1>1, <1>10 DEF CheckPath, CannotDelete, PathsChecked, NextTarget, Fails, Generated,
                     SkipLibrary, Raise, Generating, input
<1>11. CASE Ended \/ UNCHANGED vars
  BY <1>1, <1>2, <1>11 DEF Ended, vars, input, Generating
<1> QED
  BY <1>3, <1>4, <1>5, <1>6, <1>8, <1>9, <1>10, <1>11 DEF Next
-----------------------------------------------------------------------------
(* The list of libraries. *)

LEMMA ListedStep == TypeOK /\ TypeOK' /\ Listed /\ [Next]_vars => Listed'
<1> SUFFICES ASSUME TypeOK, TypeOK', Listed, [Next]_vars PROVE Listed'
  OBVIOUS
<1>0. at \in Nat /\ at' \in Nat /\ Len(command) \in Nat
  BY DEF TypeOK, InputOK, ProgramOK
<1>1. ASSUME Raise
      PROVE  Listed'
  <2>1. at' - 1 \in failed' /\ phase' = "target" /\ rest' = <<>>
    BY <1>0, <1>1 DEF Raise
  <2> QED
    BY <2>1 DEF Listed, Active, Generating
<1>2. ASSUME UNCHANGED <<world, command, at, libraries, failed>>, Active,
             Range(rest') \subseteq Range(libraries),
             Generating' => exe'.of \in {Target} \cup Range(libraries), phase' \notin {"checking", "target"}
      PROVE  Listed'
  BY <1>2 DEF Listed, Target
<1>3. ASSUME UNCHANGED <<world, command, at, libraries, failed, rest>>, Generating, Generating',
             exe'.of = exe.of
      PROVE  Listed'
  BY <1>2, <1>3 DEF Listed, Active, Generating
<1>4. CASE CheckPath \/ CannotDelete \/ PathsChecked
  <2>1. phase = "checking" /\ failed = {} /\ libraries = <<>> /\ rest = <<>>
    BY <1>4 DEF CheckPath, CannotDelete, PathsChecked, Listed, TypeOK, ObserversOK
  <2>2. libraries' = <<>> /\ rest' = <<>> /\ ~Active' /\ ~Generating'
    BY <1>4, <2>1 DEF CheckPath, CannotDelete, PathsChecked, Active, Generating
  <2> QED
    BY <2>2 DEF Listed
<1>5. CASE StartTarget
  <2>1. /\ phase = "target" /\ libraries' = libraries \o world[Target].libs
        /\ UNCHANGED <<world, command>>
    BY <1>5 DEF StartTarget, input
  <2>2. CASE Raise
    BY <1>1, <2>2
  <2>3. CASE Generate(Target, TRUE) /\ rest' = rest
    <3>1. UNCHANGED <<at, failed, Target>> /\ exe'.of = Target /\ phase' = "units"
      BY <2>1, <2>3 DEF Generate, Executable, Target
    <3>2. Target \in Binaries /\ world[Target].libs \in Seq(Binaries)
      <4>1. Target \in Binaries
        BY <1>0, <1>5 DEF StartTarget, TypeOK, InputOK, ProgramOK, Target
      <4> QED
        BY <4>1 DEF TypeOK, InputOK, Binary
    <3>3. at' - 1 \in failed' \/ libraries' = world'[Target].libs
      BY <2>1, <3>1, <3>2 DEF Listed
    <3>4. rest' = <<>>
      BY <1>5, <2>3 DEF StartTarget, Listed
    <3> QED
      BY <3>1, <3>3, <3>4 DEF Listed, Range
  <2> QED
    BY <1>5, <2>2, <2>3 DEF StartTarget
<1>6. CASE NextTarget
  BY <1>6 DEF NextTarget, Listed, Active, Generating
<1>7. CASE NotWrittenInC
  BY <1>3, <1>7 DEF NotWrittenInC, input, Generating, TypeOK, ProgramOK, ExecutableType
<1>8. CASE CompileUnit
  <2>1. exe'.of = exe.of
    BY <1>8 DEF CompileUnit, WithUnit, TypeOK, ProgramOK, ExecutableType
  <2> QED
    BY <1>3, <1>8, <2>1 DEF CompileUnit, input, Generating
<1>9. CASE DefineExceptions
  BY <1>3, <1>9 DEF DefineExceptions, input, Generating
<1>10. CASE Link
  <2>1. CASE Clash(SharedObject(Head(exe.links)).object)
    BY <1>1, <1>10, <2>1 DEF Link
  <2>2. CASE ~Clash(SharedObject(Head(exe.links)).object)
    <3>1. exe' = [exe EXCEPT !.links = Tail(@)] /\ UNCHANGED <<failed, phase, at, rest>>
      BY <1>10, <2>2, Zenon DEF Link
    <3>2. exe'.of = exe.of
      BY <3>1 DEF TypeOK, ProgramOK, ExecutableType
    <3> QED
      BY <1>3, <1>10, <3>1, <3>2 DEF Link, input, Generating
  <2> QED
    BY <2>1, <2>2
<1>11. CASE Fails
  BY <1>1, <1>11 DEF Fails
<1>12. CASE Generated
  <2>1. Range(rest') \subseteq Range(libraries)
    BY <1>12 DEF Generated, Listed, Active
  <2> QED
    BY <1>2, <1>12, <2>1 DEF Generated, input, Active, Generating
<1>13. CASE BuildLibrary
  <2>1. Range(rest') \subseteq Range(libraries) /\ Head(rest) \in Range(libraries)
    BY <1>13, TailRange DEF BuildLibrary, Listed, Active, TypeOK, ProgramOK
  <2> QED
    BY <1>2, <1>13, <2>1 DEF BuildLibrary, Generate, Executable, input, Active, Generating
<1>14. CASE SkipLibrary
  <2>1. CASE Raise
    BY <1>1, <2>1
  <2>2. CASE rest' = Tail(rest) /\ UNCHANGED <<failed, phase, at, exe>>
    <3>1. Range(rest') \subseteq Range(libraries)
      BY <1>14, <2>2, TailRange DEF SkipLibrary, Listed, Active, TypeOK, ProgramOK
    <3> QED
      BY <1>2, <1>14, <2>2, <3>1 DEF SkipLibrary, input, Active, Generating
  <2> QED
    BY <1>14, <2>1, <2>2, Zenon DEF SkipLibrary
<1>15. CASE Ended \/ UNCHANGED vars
  BY <1>15 DEF Ended, vars, input, Listed, Active, Generating, Target
<1> QED
  BY <1>4, <1>5, <1>6, <1>7, <1>8, <1>9, <1>10, <1>11, <1>12, <1>13, <1>14, <1>15 DEF Next

-----------------------------------------------------------------------------
(* The shared objects. *)

\* The sources of a linkage whose turn has come, in order.
LEMMA ObjectParts ==
  ASSUME TypeOK, Written, phase = "linking", exe.links # <<>>
  PROVE  LET l == Head(exe.links)
             o == Linked(Target, l)
         IN  /\ DOMAIN o = 1 .. 3
             /\ o[1].defs \subseteq exe.mutated /\ o[1].calls \subseteq exe.mutated \cup exe.incomplete
             /\ o[2].calls \subseteq exe.mutated \cup exe.incomplete
             /\ l.function # DoNothing => o[2].defs = {"hook"}
             /\ o[3].defs = exe.incomplete \ exe.mutated
             /\ o[3].calls \subseteq exe.mutated \cup exe.incomplete
<1>1. Generating /\ 1 \in DOMAIN exe.links /\ Head(exe.links) = exe.links[1]
  BY DEF Generating, TypeOK, ProgramOK, ExecutableType
<1>2. MutatorReady(Head(exe.links)) /\ RunnerReady(Head(exe.links))
      /\ disk[Target].sources[DoNothing] = ExceptionSource(exe.of, Exceptions)
      /\ \A t \in exe.incomplete : Under[t] \subseteq exe.mutated \cup exe.incomplete
  BY <1>1 DEF Written
<1> DEFINE l == Head(exe.links)
           o == Linked(Target, l)
<1>3. /\ o[1] = disk[Target].mutators[l.unit] /\ o[2] = disk[Target].sources[l.function]
      /\ o[3] = ExceptionSource(exe.of, Exceptions) /\ DOMAIN o = 1 .. 3
  BY <1>2 DEF Linked
<1> HIDE DEF o
<1>4. o[3].defs = exe.incomplete \ exe.mutated /\ o[3].calls \subseteq exe.mutated \cup exe.incomplete
  BY <1>2, <1>3 DEF ExceptionSource, Exceptions
<1>5. MutatorReady(l) /\ RunnerReady(l)
  BY <1>2
<1> HIDE DEF l
<1>6. /\ o[1].defs \subseteq exe.mutated /\ o[1].calls \subseteq exe.mutated \cup exe.incomplete
      /\ o[2].calls \subseteq exe.mutated \cup exe.incomplete
      /\ l.function # DoNothing => o[2].defs = {"hook"}
  BY <1>3, <1>5 DEF MutatorReady, RunnerReady
<1> QED BY <1>3, <1>4, <1>6 DEF o, l

LEMMA NoClashHolds == TypeOK /\ Written => NoClash
<1> SUFFICES ASSUME TypeOK, Written, phase = "linking", exe.links # <<>>,
                    Head(exe.links).function # DoNothing
             PROVE  ~Clash(Linked(Target, Head(exe.links)))
  BY DEF NoClash
<1> DEFINE o == Linked(Target, Head(exe.links))
<1>1. /\ DOMAIN o = 1 .. 3 /\ o[1].defs \subseteq exe.mutated /\ o[2].defs = {"hook"}
      /\ o[3].defs = exe.incomplete \ exe.mutated
  BY ObjectParts
<1>2. "hook" \notin exe.mutated \cup exe.incomplete
  BY PipelineAssumption DEF TypeOK, ProgramOK, ExecutableType
<1> HIDE DEF o
<1>3. \A i, j \in 1 .. 3 : i # j => o[i].defs \cap o[j].defs = {}
  <2>1. o[1].defs \cap o[2].defs = {} /\ o[1].defs \cap o[3].defs = {} /\ o[2].defs \cap o[3].defs = {}
    BY <1>1, <1>2
  <2>2. \A i \in 1 .. 3 : i = 1 \/ i = 2 \/ i = 3
    OBVIOUS
  <2> QED
    BY <2>1, <2>2
<1> QED
  BY <1>1, <1>3 DEF Clash, o

LEMMA MissingMutated ==
  ASSUME TypeOK, Written, phase = "linking", exe.links # <<>>
  PROVE  Missing(Linked(Target, Head(exe.links))) \subseteq everMutated
<1> DEFINE o == Linked(Target, Head(exe.links))
<1>1. /\ DOMAIN o = 1 .. 3 /\ o[1].calls \subseteq exe.mutated \cup exe.incomplete
      /\ o[2].calls \subseteq exe.mutated \cup exe.incomplete
      /\ o[3].defs = exe.incomplete \ exe.mutated /\ o[3].calls \subseteq exe.mutated \cup exe.incomplete
  BY ObjectParts
<1>2. exe.mutated \subseteq everMutated
  BY DEF Written, Generating
<1> HIDE DEF o
<1>3. \A i \in DOMAIN o : o[i].calls \subseteq exe.mutated \cup exe.incomplete
  <2>1. \A i \in DOMAIN o : i = 1 \/ i = 2 \/ i = 3
    BY <1>1
  <2> QED
    BY <1>1, <2>1
<1>4. exe.incomplete \ exe.mutated \subseteq UNION {o[i].defs : i \in DOMAIN o}
  <2>1. 3 \in DOMAIN o
    BY <1>1
  <2> QED
    BY <1>1, <2>1
<1>5. UNION {o[i].calls : i \in DOMAIN o} \subseteq exe.mutated \cup exe.incomplete
  BY <1>3
<1> QED
  BY <1>2, <1>4, <1>5 DEF Missing, o

\* Where the shared objects of the next state come from, and what only grows.
LEMMA ObjectsFrom ==
  ASSUME TypeOK, [Next]_vars
  PROVE  /\ UNCHANGED <<world, command>> /\ failed \subseteq failed'
         /\ \A t : Known(t) => Known(t)'
         /\ \A d \in Binaries : \A s \in disk'[d].objects :
              \/ s \in disk[d].objects
              \/ /\ d = Target /\ s = SharedObject(Head(exe.links))
                 /\ phase = "linking" /\ exe.links # <<>>
<1>1. UNCHANGED <<world, command>>
  BY DEF Next, vars, input, CheckPath, CannotDelete, PathsChecked, StartTarget, NextTarget,
         NotWrittenInC, CompileUnit, DefineExceptions, Link, Fails, Generated, BuildLibrary,
         SkipLibrary, Ended
<1>2. failed \subseteq failed'
  BY Zenon DEF Next, vars, input, CheckPath, CannotDelete, PathsChecked, StartTarget, NextTarget,
         NotWrittenInC, CompileUnit, DefineExceptions, Link, Fails, Generated, BuildLibrary,
         SkipLibrary, Ended, Raise, Generate
<1>3. \A t : Known(t) => Known(t)'
  <2>1. ASSUME NEW b \in Binaries, NEW top, Generate(b, top), Target \in Binaries
        PROVE  \A t : Known(t) => Known(t)'
    <3>1. /\ [dir |-> Target, of |-> b] \in [dir : Binaries, of : Binaries]
          /\ taken' = Append(taken, [dir |-> Target, of |-> b])
      BY <2>1 DEF Generate
    <3> QED
      BY <1>1, <3>1, KnownStays
  <2>2. ASSUME taken' = taken
        PROVE  \A t : Known(t) => Known(t)'
    BY <1>1, <2>2, KnownStays
  <2>3. CASE StartTarget
    <3>1. Target \in Binaries
      BY <2>3 DEF StartTarget, TypeOK, InputOK, ProgramOK, Target
    <3> QED
      BY <2>1, <2>2, <2>3, <3>1 DEF StartTarget
  <2>4. CASE BuildLibrary
    <3>1. Head(rest) \in Binaries /\ Target \in Binaries
      BY <2>4 DEF BuildLibrary, TypeOK, InputOK, ProgramOK, Active, Target
    <3> QED
      BY <2>1, <2>4, <3>1 DEF BuildLibrary
  <2>5. CASE ~StartTarget /\ ~BuildLibrary
    BY <2>2, <2>5 DEF Next, vars, CheckPath, CannotDelete, PathsChecked, NextTarget,
         NotWrittenInC, CompileUnit, DefineExceptions, Link, Fails, Generated, SkipLibrary, Ended
  <2> QED
    BY <2>3, <2>4, <2>5
<1>4. ASSUME NEW d \in Binaries, NEW s \in disk'[d].objects
      PROVE  \/ s \in disk[d].objects
             \/ /\ d = Target /\ s = SharedObject(Head(exe.links))
                /\ phase = "linking" /\ exe.links # <<>>
  <2>1. CASE disk' = disk
    BY <2>1
  <2>2. CASE CheckPath
    BY <2>2, <1>4 DEF CheckPath, TypeOK, DiskOK, Empty
  <2>3. CASE CompileUnit
    BY <1>4, <2>3, UnitWritten
  <2>4. CASE DefineExceptions
    BY <1>4, <2>4, ExceptionsWritten
  <2>5. CASE Link
    <3>1. CASE Clash(SharedObject(Head(exe.links)).object)
      BY <2>1, <2>5, <3>1 DEF Link
    <3>2. CASE ~Clash(SharedObject(Head(exe.links)).object)
      BY <1>4, <2>5, <3>2, ObjectLinked DEF Link
    <3> QED
      BY <3>1, <3>2
  <2> QED
    BY <2>1, <2>2, <2>3, <2>4, <2>5
       DEF Next, vars, CannotDelete, PathsChecked, StartTarget, NextTarget, NotWrittenInC, Fails,
           Generated, BuildLibrary, SkipLibrary, Ended
<1> QED
  BY <1>1, <1>2, <1>3, <1>4

LEMMA ResolvesStep == TypeOK /\ Written /\ Traced /\ Resolves /\ [Next]_vars => Resolves'
<1> SUFFICES ASSUME TypeOK, Written, Traced, Resolves, [Next]_vars,
                    NEW d \in Binaries, NEW s \in disk'[d].objects, NEW t \in Missing(s.object)
             PROVE  Known(t)'
  BY DEF Resolves, Objects, Known, Missing
<1>1. CASE s \in disk[d].objects
  <2>1. Known(t)
    BY <1>1 DEF Resolves, Objects, Known
  <2> QED
    BY <2>1, ObjectsFrom
<1>2. CASE s = SharedObject(Head(exe.links)) /\ phase = "linking" /\ exe.links # <<>>
  <2>1. s.object = Linked(Target, Head(exe.links))
    BY <1>2 DEF SharedObject
  <2>2. t \in everMutated
    BY <1>2, <2>1, MissingMutated
  <2> QED
    BY <2>2, ObjectsFrom DEF Traced
<1> QED
  BY <1>1, <1>2, ObjectsFrom

LEMMA OwnLibrariesStep == TypeOK /\ Listed /\ OwnLibraries /\ [Next]_vars => OwnLibraries'
<1> SUFFICES ASSUME TypeOK, Listed, OwnLibraries, [Next]_vars,
                    NEW d \in Binaries, NEW s \in disk'[d].objects
             PROVE  \/ s.asan \in Range(world'[d].libs) /\ s.of \in {d} \cup Range(world'[d].libs)
                    \/ \E i \in DOMAIN command' : command'[i] = d /\ i - 1 \in failed'
  BY DEF OwnLibraries, Objects
<1>1. CASE s \in disk[d].objects
  BY <1>1, ObjectsFrom DEF OwnLibraries, Objects
<1>2. CASE d = Target /\ s = SharedObject(Head(exe.links)) /\ phase = "linking" /\ exe.links # <<>>
  <2>1. /\ Active /\ Generating /\ at \in DOMAIN command /\ command[at] = d
        /\ libraries \in Seq(Binaries) /\ AsanLibs(libraries) # {}
    BY <1>2 DEF Active, Generating, TypeOK, InputOK, ProgramOK, Target
  <2>2. s.asan \in Range(libraries) /\ s.of = exe.of
    BY <1>2, <2>1, AsanLibListed DEF SharedObject
  <2>3. exe.of \in {d} \cup Range(libraries) /\ (at - 1 \in failed \/ libraries = world[d].libs)
    BY <1>2, <2>1 DEF Listed
  <2> QED
    BY <2>1, <2>2, <2>3, ObjectsFrom
<1> QED
  BY <1>1, <1>2, ObjectsFrom

LEMMA StepIInv == IInv /\ [Next]_vars => IInv'
BY TypeStep, WrittenStep, TracedStep, ListedStep, ResolvesStep, OwnLibrariesStep DEF IInv

LEMMA InvariantHolds == Spec => []IInv
BY InitIInv, StepIInv, PTL DEF Spec

\* The variables of the program, the files it has written and what was observed
\* keep their types.
THEOREM TypeCorrect == Spec => []TypeOK
<1>1. IInv => TypeOK
  BY DEF IInv
<1> QED
  BY <1>1, InvariantHolds, PTL

\* For any binaries: the linker is never given a mutator twice, although the
\* do-nothing mutators of all units share one source file.
THEOREM LinkerAgrees == Spec => []NoClash
<1>1. IInv => NoClash
  BY NoClashHolds DEF IInv
<1> QED
  BY <1>1, InvariantHolds, PTL

\* A mutator a runner calls and does not have is of a type that was completed in
\* another place.
THEOREM RunnersResolve == Spec => []Resolves
<1>1. IInv => Resolves
  BY DEF IInv
<1> QED
  BY <1>1, InvariantHolds, PTL

\* A target's fuzzers are its own or those of its own libraries, unless the
\* target before it failed.
THEOREM LibrariesKeptApart == Spec => []OwnLibraries
<1>1. IInv => OwnLibraries
  BY DEF IInv
<1> QED
  BY <1>1, InvariantHolds, PTL

-----------------------------------------------------------------------------
(***************************************************************************)
(* For every set of binaries, every command line and every number of       *)
(* failing tools: a target that could be fuzzed alone fails only when the  *)
(* target before it or a tool does, and a target that did not fail has a   *)
(* shared object for each of its functions and of its libraries', its own  *)
(* or that of the last function of its name, which the scripts rebuild     *)
(* alike until the directory is written to again.                          *)
(***************************************************************************)

Position == Len(world[Target].libs) - Len(rest)

\* The loop over the libraries has come to Position in the target's own list.
Behind ==
  LET libs == world[Target].libs
  IN  /\ Len(rest) <= Len(libs)
      /\ \A i \in DOMAIN rest : rest[i] = libs[Position + i]
      /\ \A j \in 1 .. Position : ~Instrumented(libs[j]) /\ world[libs[j]].ignored => found

\* The binary that is generated is the target, or a library of it that can be.
Walked ==
  Active =>
    /\ Generating => /\ exe.of = Target \/ Instrumented(exe.of)
                     /\ exe.top => exe.of = Target
                     /\ \A k \in DOMAIN exe.links : exe.links[k].function \in Functions(exe.of)
    /\ at - 1 \in failed \/ (Generating /\ exe.top) \/ Behind

\* The binary at work is the last that was taken.  An object was made by a
\* generation into its directory, which is not the one that is now writing
\* sources there.
Aged ==
  /\ Generating => taken # <<>> /\ taken[Len(taken)] = [dir |-> Target, of |-> exe.of]
  /\ \A d \in Binaries : \A s \in Objects(d) : \E i \in DOMAIN taken :
       /\ taken[i] = [dir |-> d, of |-> s.of]
       /\ phase = "units" /\ d = Target => i < Len(taken)

\* How many units the loop over them is past.
Compiled == Len(world[exe.of].units) - Len(exe.units)

Placed ==
  /\ Len(exe.units) <= Len(world[exe.of].units)
  /\ \A i \in DOMAIN exe.units : exe.units[i] = world[exe.of].units[Compiled + i]

\* A function of that name is to be linked; and only ones of the unit or of
\* units after it are, from some point on.
Waiting(f) == \E k \in DOMAIN exe.links : exe.links[k].function = f

Due(m, f) ==
  \E k \in DOMAIN exe.links :
    /\ exe.links[k].function = f
    /\ \A j \in DOMAIN exe.links :
         j >= k /\ exe.links[j].function = f => OfUnit(exe.links[j], exe.of, m)

\* The runner on the disk is that of the last linkage of its name.
OwnRunner ==
  \A k \in DOMAIN exe.links :
    \/ exe.links[k].function = DoNothing
    \/ \E j \in DOMAIN exe.links : j > k /\ exe.links[j].function = exe.links[k].function
    \/ disk[Target].sources[exe.links[k].function].of = <<exe.of, exe.links[k].unit>>

\* Each function of a compiled unit is to be linked or hooked.
UnitsCovered ==
  \A m \in 1 .. Compiled : \A f \in Runs(exe.of, m) :
    Due(m, f) \/ (Hooked(Target, exe.of, m, f) /\ ~Waiting(f))

\* Those of a binary taken before are hooked but for those that now are replaced.
Before(d, b) ==
  \E i \in DOMAIN taken : taken[i] = [dir |-> d, of |-> b] /\ (Generating => i < Len(taken))

Built(d, b) ==
  /\ Before(d, b)
  /\ \A m \in DOMAIN world[b].units : \A f \in Runs(b, m) :
       Hooked(d, b, m, f) \/ (Generating /\ Waiting(f))

\* Each unit is to be compiled, or each of its functions to be linked, or done;
\* each library is to be taken, being generated, or done.
Covered ==
  Active =>
    /\ Generating => Placed /\ OwnRunner /\ UnitsCovered
    /\ phase = "linking" => exe.units = <<>>
    /\ Range(world[Target].libs) \subseteq Range(libraries)
    /\ (Generating /\ exe.top) \/
         /\ Built(Target, Target)
         /\ \A b \in Range(world[Target].libs) : Instrumented(b) =>
              b \in Range(rest) \/ (Generating /\ b = exe.of) \/ Built(Target, b)


\* What no step changes.
LEMMA InputFixed == [Next]_vars => UNCHANGED <<world, command>>
BY DEF Next, vars, input, CheckPath, CannotDelete, PathsChecked, StartTarget, NextTarget,
       NotWrittenInC, CompileUnit, DefineExceptions, Link, Fails, Generated, BuildLibrary,
       SkipLibrary, Ended

LEMMA DefinitionsFixed ==
  ASSUME UNCHANGED <<world, command>>
  PROVE  \A b : /\ Instrumented(b)' <=> Instrumented(b)
                /\ Functions(b)' = Functions(b)
                /\ CUnits(b)' = CUnits(b)
                /\ Fuzzable(b)' <=> Fuzzable(b)
                /\ SkipsOne(b)' <=> SkipsOne(b)
<1>1. \A b : /\ Instrumented(b)' <=> Instrumented(b)
             /\ CUnits(b)' = CUnits(b)
  BY DEF Instrumented, CUnits
<1>2. \A b : Functions(b)' = Functions(b)
  BY <1>1 DEF Functions
<1>3. \A b : SkipsOne(b)' <=> SkipsOne(b)
  BY DEF SkipsOne, Instrumented
<1>4. \A b : AsanLibs(world[b].libs)' = AsanLibs(world[b].libs)
  BY DEF AsanLibs
<1>5. \A b : {x \in Range(world[b].libs) : Instrumented(x)}' = {x \in Range(world[b].libs) : Instrumented(x)}
  BY DEF Instrumented
<1>6. \A b : Fuzzable(b)' <=> Fuzzable(b)
  BY <1>1, <1>2, <1>3, <1>4, <1>5 DEF Fuzzable
<1> QED
  BY <1>1, <1>2, <1>3, <1>6
-----------------------------------------------------------------------------
(* How objects come and stay. *)

\* What a unit has, and which linkages are of it, is fixed.
LEMMA UnitsFixed ==
  ASSUME UNCHANGED <<world, command>>
  PROVE  \A b, m : Runs(b, m)' = Runs(b, m) /\ \A l : OfUnit(l, b, m)' <=> OfUnit(l, b, m)
<1>1. \A b, m : Runs(b, m)' = Runs(b, m)
  BY DEF Runs
<1>2. \A b, m : \A l : OfUnit(l, b, m)' <=> OfUnit(l, b, m)
  BY <1>1 DEF OfUnit
<1> QED
  BY <1>1, <1>2

\* What was taken stays in its place.
LEMMA TakenGrows ==
  ASSUME TypeOK, [Next]_vars
  PROVE  /\ taken \in Seq([dir : Binaries, of : Binaries])
         /\ \A i \in DOMAIN taken : i \in DOMAIN taken' /\ taken'[i] = taken[i]
<1>1. taken' = taken \/ \E r : taken' = Append(taken, r)
  BY DEF Next, vars, CheckPath, CannotDelete, PathsChecked, StartTarget, NextTarget, NotWrittenInC,
         CompileUnit, DefineExceptions, Link, Fails, Generated, BuildLibrary, SkipLibrary, Ended,
         Generate
<1>2. taken \in Seq([dir : Binaries, of : Binaries])
  BY DEF TypeOK, ObserversOK
<1> QED
  BY <1>1, <1>2

LEMMA AfterStays ==
  ASSUME TypeOK, [Next]_vars, NEW d, NEW b, NEW c, After(d, b, c)
  PROVE  After(d, b, c)'
BY TakenGrows DEF After

\* An object that is not replaced hooks what it did.
LEMMA HookedStays ==
  ASSUME TypeOK, [Next]_vars, NEW d, NEW b, NEW m, NEW f, Hooked(d, b, m, f),
         \A s \in disk[d].objects : s.link.function = f => s \in disk'[d].objects
  PROVE  Hooked(d, b, m, f)'
<1>1. PICK s \in disk[d].objects :
        /\ s.link.function = f /\ Hooks(s)
        /\ (s.of = b /\ OfUnit(s.link, b, m)) \/ After(d, b, s.of)
  BY DEF Hooked, Objects
<1>2. s \in disk'[d].objects
  BY <1>1
<1>3. Hooks(s)'
  BY <1>1 DEF Hooks
<1>4. (s.of = b /\ OfUnit(s.link, b, m)') \/ After(d, b, s.of)'
  BY <1>1, InputFixed, UnitsFixed, AfterStays
<1> QED
  BY <1>1, <1>2, <1>3, <1>4 DEF Hooked, Objects

\* The objects of no directory change but by linking, once they are cleared.
LEMMA ObjectsStay ==
  ASSUME TypeOK, [Next]_vars, phase # "checking", NEW d \in Binaries,
         ~(d = Target /\ Link /\ ~Clash(SharedObject(Head(exe.links)).object))
  PROVE  disk'[d].objects = disk[d].objects
<1>1. CASE CompileUnit
  BY <1>1, UnitWritten
<1>2. CASE DefineExceptions
  BY <1>2, ExceptionsWritten
<1>3. CASE Link /\ ~Clash(SharedObject(Head(exe.links)).object)
  BY <1>3, ObjectLinked
<1>4. CASE Link /\ Clash(SharedObject(Head(exe.links)).object)
  BY <1>4 DEF Link
<1> QED
  BY <1>1, <1>2, <1>3, <1>4
     DEF Next, vars, CheckPath, CannotDelete, PathsChecked, StartTarget, NextTarget, NotWrittenInC,
         Fails, Generated, BuildLibrary, SkipLibrary, Ended

\* The object of a linkage after which none of its name comes is of its unit.
LEMMA LinkHooks ==
  ASSUME TypeOK, Written, OwnRunner, Link, ~Clash(SharedObject(Head(exe.links)).object),
         \A k \in DOMAIN Tail(exe.links) : Tail(exe.links)[k].function # Head(exe.links).function
  PROVE  LET l == Head(exe.links)
             s == SharedObject(l)
         IN  /\ s \in disk'[Target].objects /\ Hooks(s)
             /\ s.link = l /\ s.of = exe.of
<1> DEFINE l == Head(exe.links)
           s == SharedObject(l)
<1>1. s \in disk'[Target].objects
  BY ObjectLinked
<1>2. s.link = l /\ s.of = exe.of /\ s.object = Linked(Target, l)
  BY DEF SharedObject
<1>3. s.object[2] = disk[Target].sources[l.function]
  BY <1>2 DEF Linked
<1>4. l.function # DoNothing => Linked(Target, l)[2].defs = {"hook"}
  BY ObjectParts DEF Link
<1>5. exe.links \in Seq(Linkage) /\ exe.links # <<>>
  BY DEF TypeOK, ProgramOK, ExecutableType, Link
<1>6. 1 \in DOMAIN exe.links /\ exe.links[1] = l
  BY <1>5
<1>7. \A j \in DOMAIN exe.links : j > 1 => exe.links[j].function # l.function
  <2>1. \A j \in DOMAIN exe.links : j > 1 => j - 1 \in DOMAIN Tail(exe.links)
                                          /\ Tail(exe.links)[j - 1] = exe.links[j]
    BY <1>5
  <2> QED
    BY <2>1
<1>8. l.function = DoNothing \/ disk[Target].sources[l.function].of = <<exe.of, l.unit>>
  BY <1>6, <1>7 DEF OwnRunner
<1> HIDE DEF s, l
<1>9. Hooks(s)
  BY <1>2, <1>3, <1>4, <1>8 DEF Hooks
<1> QED
  BY <1>1, <1>2, <1>9 DEF s, l
-----------------------------------------------------------------------------
(* Where the loops are. *)

LEMMA TargetListed ==
  ASSUME TypeOK, at <= Len(command)
  PROVE  Target \in Binaries /\ world[Target].libs \in Seq(Binaries) /\ at \in DOMAIN command
<1>1. Target \in Binaries /\ at \in DOMAIN command
  BY DEF TypeOK, InputOK, ProgramOK, Target
<1> QED
  BY <1>1 DEF TypeOK, InputOK, Binary

\* A library that is taken or left is the next in the list.
LEMMA BehindStep ==
  ASSUME TypeOK, Active, Behind, rest # <<>>, rest' = Tail(rest), UNCHANGED <<world, command, at>>,
         found => found', Instrumented(Head(rest)) \/ found'
  PROVE  Behind'
<1> DEFINE libs == world[Target].libs
<1>1. libs \in Seq(Binaries) /\ rest \in Seq(Binaries) /\ Target' = Target
  BY TargetListed DEF TypeOK, ProgramOK, Active, Target
<1>2. /\ Len(rest) <= Len(libs) /\ Position \in Nat /\ Position = Len(libs) - Len(rest)
      /\ \A i \in DOMAIN rest : rest[i] = libs[Position + i]
      /\ \A j \in 1 .. Position : ~Instrumented(libs[j]) /\ world[libs[j]].ignored => found
  <2>1. /\ Len(rest) <= Len(libs)
        /\ \A i \in DOMAIN rest : rest[i] = libs[Position + i]
        /\ \A j \in 1 .. Position : ~Instrumented(libs[j]) /\ world[libs[j]].ignored => found
    BY Zenon DEF Behind
  <2>2. Position = Len(libs) - Len(rest) /\ Len(libs) \in Nat /\ Len(rest) \in Nat
    BY <1>1 DEF Position
  <2>3. Position \in Nat
    BY <2>1, <2>2
  <2> QED
    BY <2>1, <2>2, <2>3
<1>3. Len(rest') = Len(rest) - 1 /\ \A i \in DOMAIN rest' : i \in Nat /\ i + 1 \in DOMAIN rest /\ rest'[i] = rest[i + 1]
  BY <1>1
<1>4. Head(rest) = rest[1] /\ 1 \in DOMAIN rest /\ Len(rest) \in Nat /\ Len(rest') \in Nat /\ Len(libs) \in Nat
  BY <1>1
<1>5. Position' = Position + 1 /\ libs' = libs
  BY <1>1, <1>2, <1>3, <1>4 DEF Position
<1> HIDE DEF libs
<1>6. \A i \in DOMAIN rest' : rest'[i] = libs[Position' + i]
  <2> SUFFICES ASSUME NEW i \in DOMAIN rest' PROVE rest'[i] = libs[Position' + i]
    OBVIOUS
  <2>1. rest'[i] = libs[Position + (i + 1)]
    BY <1>2, <1>3
  <2>2. Position + (i + 1) = Position' + i
    BY <1>2, <1>3, <1>5
  <2> QED
    BY <2>1, <2>2
<1>7. ASSUME NEW j \in 1 .. Position', ~Instrumented(libs[j]), world[libs[j]].ignored
      PROVE  found'
  <2>1. CASE j = Position + 1
    BY <1>2, <1>4, <1>7, <2>1
  <2>2. CASE j # Position + 1
    <3>1. j \in 1 .. Position
      BY <1>2, <1>5, <2>2, SMTT(30)
    <3> QED
      BY <1>2, <1>7, <3>1
  <2> QED
    BY <2>1, <2>2
<1>8. \A b : Instrumented(b)' <=> Instrumented(b)
  BY DEF Instrumented
<1> QED
  BY <1>1, <1>2, <1>3, <1>4, <1>5, <1>6, <1>7, <1>8 DEF Behind, libs

LEMMA BehindStays == Behind /\ UNCHANGED <<world, command, at, rest, found>> => Behind'
BY DEF Behind, Position, Target, Instrumented

\* The linkages of a unit are of functions of its binary.
LEMMA UnitLinks ==
  ASSUME TypeOK, Traced, CompileUnit
  PROVE  /\ Head(exe.units) \in CUnits(exe.of) /\ Head(exe.units) \in Unit
         /\ exe' = WithUnit(Head(exe.units), everMutated')
         /\ exe'.of = exe.of /\ exe'.top = exe.top /\ exe'.units = Tail(exe.units)
         /\ exe'.links = exe.links \o LinksOf(Head(exe.units))
         /\ \A k \in DOMAIN LinksOf(Head(exe.units)) :
              LinksOf(Head(exe.units))[k].function \in Range(Head(exe.units).runs)
         /\ \A f \in Range(Head(exe.units).runs) :
              \E k \in DOMAIN LinksOf(Head(exe.units)) : LinksOf(Head(exe.units))[k].function = f
<1> DEFINE u == Head(exe.units)
<1>1. /\ u \in Unit /\ u.c /\ exe.units # <<>> /\ exe.units \in Seq(Unit) /\ exe \in ExecutableType
      /\ Generating /\ exe' = WithUnit(u, everMutated') /\ everMutated' = everMutated \cup u.complete
  BY UnitWritten DEF CompileUnit, Generating, TypeOK, ProgramOK, ExecutableType
<1>2. u \in CUnits(exe.of)
  BY <1>1, TailRange DEF Traced, CUnits
<1>3. everMutated' \in SUBSET Types
  BY <1>1 DEF Unit, TypeOK, ProgramOK
<1>4. /\ exe'.of = exe.of /\ exe'.units = Tail(exe.units) /\ exe'.links = exe.links \o LinksOf(u)
  BY <1>1, <1>3, WithUnitType
<1>5. exe'.top = exe.top
  BY <1>1 DEF WithUnit, ExecutableType
<1>6. /\ \A k \in DOMAIN LinksOf(u) : LinksOf(u)[k].function \in Range(u.runs)
      /\ \A f \in Range(u.runs) : \E k \in DOMAIN LinksOf(u) : LinksOf(u)[k].function = f
  BY DEF LinksOf, Range
<1> QED
  BY <1>1, <1>2, <1>4, <1>5, <1>6

LEMMA WalkedStep == IInv /\ TypeOK' /\ Walked /\ [Next]_vars => Walked'
<1> SUFFICES ASSUME IInv, TypeOK', Walked, [Next]_vars, Active' PROVE Walked'
  BY DEF Walked
<1> USE DEF IInv
<1>0. UNCHANGED <<world, command>>
  BY InputFixed
<1>1. \A b : (Instrumented(b)' <=> Instrumented(b)) /\ Functions(b)' = Functions(b)
  BY <1>0, DefinitionsFixed
<1>2. ASSUME UNCHANGED <<at, rest, found, failed>>, Generating, Generating', exe'.of = exe.of,
             exe'.top = exe.top,
             \A k \in DOMAIN exe'.links : exe'.links[k].function \in Functions(exe.of)
      PROVE  Walked'
  <2>1. Target' = Target /\ Active
    BY <1>0, <1>2 DEF Target, Generating, Active
  <2> QED
    BY <1>0, <1>1, <1>2, <2>1, BehindStays DEF Walked
<1>3. CASE StartTarget
  <2>1. Generate(Target, TRUE)
    BY <1>3 DEF StartTarget, Raise, Active
  <2>2. exe'.of = Target /\ Target' = Target /\ exe'.top /\ exe'.links = <<>> /\ Generating'
    BY <1>0, <2>1 DEF Generate, Executable, Target, Generating
  <2> QED
    BY <2>2 DEF Walked
<1>4. CASE NotWrittenInC
  <2>1. /\ UNCHANGED <<exe.of, exe.top, exe.links, at, rest, found, failed>>
        /\ Generating /\ Generating'
    BY <1>4 DEF NotWrittenInC, TypeOK, ProgramOK, ExecutableType, Generating
  <2> QED
    BY <1>2, <2>1 DEF Walked, Active, Generating
<1>5. CASE CompileUnit
  <2> DEFINE u == Head(exe.units)
  <2>1. /\ u \in CUnits(exe.of) /\ u \in Unit /\ exe'.of = exe.of /\ exe'.top = exe.top
        /\ exe'.links = exe.links \o LinksOf(u)
        /\ \A k \in DOMAIN LinksOf(u) : LinksOf(u)[k].function \in Range(u.runs)
    BY <1>5, UnitLinks
  <2>2. exe.links \in Seq(Linkage) /\ LinksOf(u) \in Seq(Linkage)
    BY <2>1, LinksType DEF TypeOK, ProgramOK, ExecutableType
  <2>3. UNCHANGED <<at, rest, found, failed>> /\ Generating /\ Generating' /\ Active
    BY <1>5 DEF CompileUnit, Generating, Active
  <2>4. \A k \in DOMAIN LinksOf(u) : LinksOf(u)[k].function \in Functions(exe.of)
    BY <2>1 DEF Functions
  <2> HIDE DEF u
  <2>5. ASSUME NEW k \in DOMAIN exe'.links
        PROVE  exe'.links[k].function \in Functions(exe.of)
    <3>1. CASE k > Len(exe.links)
      BY <2>1, <2>2, <2>4, <3>1, SecondPart
    <3>2. CASE ~ k > Len(exe.links)
      BY <2>1, <2>2, <2>3, <3>2, FirstPart DEF Walked
    <3> QED
      BY <3>1, <3>2
  <2> QED
    BY <1>2, <2>1, <2>3, <2>5
<1>6. CASE DefineExceptions
  BY <1>2, <1>6 DEF DefineExceptions, Walked, Active, Generating
<1>7. CASE Link
  <2>1. exe' = [exe EXCEPT !.links = Tail(@)] /\ UNCHANGED <<failed, phase, at, rest, found>>
    BY <1>7 DEF Link, Raise, Active
  <2>2. /\ UNCHANGED <<exe.of, exe.top>> /\ exe'.links = Tail(exe.links) /\ exe.links # <<>>
        /\ exe.links \in Seq(Linkage) /\ Generating /\ Generating' /\ Active
    BY <1>7, <2>1 DEF Link, TypeOK, ProgramOK, ExecutableType, Generating, Active
  <2>3. \A k \in DOMAIN exe'.links : k + 1 \in DOMAIN exe.links /\ exe'.links[k] = exe.links[k + 1]
    BY <2>2
  <2>4. \A k \in DOMAIN exe'.links : exe'.links[k].function \in Functions(exe.of)
    BY <2>2, <2>3 DEF Walked
  <2> QED
    BY <1>2, <2>1, <2>2, <2>4
<1>8. CASE Generated
  <2>1. /\ UNCHANGED <<at, found, failed>> /\ ~Generating' /\ Generating /\ Active /\ Target' = Target
        /\ rest' = IF exe.top THEN libraries ELSE rest
    BY <1>0, <1>8 DEF Generated, Generating, Active, Target
  <2>2. CASE at - 1 \in failed
    BY <2>1, <2>2 DEF Walked
  <2>3. CASE at - 1 \notin failed /\ exe.top
    <3>1. rest' = world'[Target'].libs /\ rest' \in Seq(Binaries)
      BY <1>0, <2>1, <2>3 DEF Listed, TypeOK, ProgramOK
    <3>2. Position' = 0
      BY <3>1 DEF Position
    <3>3. Behind'
      BY <3>1, <3>2 DEF Behind
    <3> QED
      BY <2>1, <3>3 DEF Walked
  <2>4. CASE at - 1 \notin failed /\ ~exe.top
    BY <1>0, <2>1, <2>4, BehindStays DEF Walked
  <2> QED
    BY <2>2, <2>3, <2>4
<1>9. CASE BuildLibrary
  <2>1. /\ UNCHANGED <<at, found, failed>> /\ ~Generating /\ Active /\ rest # <<>>
        /\ rest' = Tail(rest) /\ Instrumented(Head(rest))
        /\ exe'.of = Head(rest) /\ ~exe'.top /\ exe'.links = <<>>
    BY <1>9 DEF BuildLibrary, Generate, Executable, Generating, Active
  <2>2. at - 1 \in failed \/ Behind'
    BY <1>0, <2>1, BehindStep DEF Walked
  <2> QED
    BY <1>0, <1>1, <2>1, <2>2 DEF Walked
<1>10. CASE SkipLibrary
  <2>1. found' = TRUE /\ rest' = Tail(rest) /\ UNCHANGED <<failed, phase, at, exe>>
    BY <1>10, Zenon DEF SkipLibrary, Raise, Active
  <2>2. ~Generating /\ ~Generating' /\ Active /\ rest # <<>>
    BY <1>10, <2>1 DEF SkipLibrary, Generating, Active
  <2>3. at - 1 \in failed \/ Behind'
    BY <1>0, <2>1, <2>2, BehindStep DEF Walked
  <2> QED
    BY <2>1, <2>2, <2>3 DEF Walked
<1>11. CASE CheckPath \/ CannotDelete \/ PathsChecked \/ NextTarget \/ Fails
  BY <1>11 DEF CheckPath, CannotDelete, PathsChecked, NextTarget, Fails, Raise, Active
<1>12. CASE Ended \/ UNCHANGED vars
  <2>1. UNCHANGED vars
    BY <1>12 DEF Ended
  <2>2. UNCHANGED <<at, rest, found, failed, exe, phase, Target>> /\ Active
    BY <1>0, <2>1 DEF vars, Active, Target
  <2> QED
    BY <1>0, <1>1, <2>2, BehindStays DEF Walked, Generating
<1> QED
  BY <1>3, <1>4, <1>5, <1>6, <1>7, <1>8, <1>9, <1>10, <1>11, <1>12 DEF Next
-----------------------------------------------------------------------------
(* Who fails. *)

\* An exception ends a target only if it could not be fuzzed alone, or a tool
\* or the target before it failed.
LEMMA RaiseExcused ==
  ASSUME IInv, Walked, [Next]_vars, failed' # failed
  PROVE  /\ failed' = failed \cup {at} /\ at \in Nat
         /\ faults' > 0 \/ ~Fuzzable(Target) \/ at - 1 \in failed
<1> USE DEF IInv
<1>0. at \in Nat /\ (at <= Len(command) => Target \in Binaries /\ world[Target].libs \in Seq(Binaries))
  BY TargetListed DEF TypeOK, ProgramOK
<1>1. CASE StartTarget
  <2>1. /\ Raise /\ ~(Instrumented(Target) /\ AsanLibs(libraries') # {}) /\ phase = "target"
        /\ libraries' = libraries \o world[Target].libs /\ at <= Len(command)
        /\ UNCHANGED world
    BY <1>1 DEF StartTarget, Generate, input
  <2>2. at - 1 \notin failed => libraries' = world[Target].libs
    BY <1>0, <2>1 DEF Listed
  <2>3. AsanLibs(libraries') = {} /\ at - 1 \notin failed => AsanLibs(world[Target].libs) = {}
    BY <2>1, <2>2 DEF AsanLibs
  <2> QED
    BY <1>0, <2>1, <2>3 DEF Raise, Fuzzable
<1>2. CASE Link
  <2>1. Raise /\ Clash(Linked(Target, Head(exe.links))) /\ phase = "linking" /\ exe.links # <<>>
    BY <1>2 DEF Link, SharedObject
  <2>2. Head(exe.links).function = DoNothing
    BY <2>1, NoClashHolds DEF NoClash
  <2>3. Active /\ Generating /\ Head(exe.links) = exe.links[1] /\ 1 \in DOMAIN exe.links
    BY <2>1 DEF Active, Generating, TypeOK, ProgramOK, ExecutableType
  <2>4. DoNothing \in Functions(exe.of) /\ (exe.of = Target \/ Instrumented(exe.of))
    BY <2>2, <2>3 DEF Walked
  <2>5. at - 1 \notin failed => exe.of \in {Target} \cup Range(world[Target].libs)
    BY <2>3 DEF Listed
  <2> QED
    BY <1>0, <2>1, <2>4, <2>5 DEF Raise, Fuzzable
<1>3. CASE Fails
  BY <1>0, <1>3 DEF Fails, Raise, TypeOK, ObserversOK
<1>4. CASE SkipLibrary
  <2>1. /\ Raise /\ ~world[Head(rest)].ignored /\ ~found /\ ~Instrumented(Head(rest))
        /\ rest # <<>> /\ Active /\ ~Generating /\ at <= Len(command)
    BY <1>4 DEF SkipLibrary, Active, Generating, TypeOK, ProgramOK
  <2>2. ASSUME at - 1 \notin failed
        PROVE  ~Fuzzable(Target)
    <3> DEFINE libs == world[Target].libs
               i    == Position + 1
    <3>1. Behind /\ libs \in Seq(Binaries) /\ rest \in Seq(Binaries)
      BY <1>0, <2>1, <2>2 DEF Walked, TypeOK, ProgramOK
    <3>2. /\ Len(rest) <= Len(libs)
          /\ \A k \in DOMAIN rest : rest[k] = libs[Position + k]
          /\ \A j \in 1 .. Position : ~Instrumented(libs[j]) /\ world[libs[j]].ignored => found
      BY <3>1, Zenon DEF Behind
    <3>3. Position = Len(libs) - Len(rest) /\ Len(libs) \in Nat /\ Len(rest) \in Nat /\ Len(rest) > 0
      BY <2>1, <3>1 DEF Position
    <3>4. i \in DOMAIN libs /\ 1 .. i - 1 = 1 .. Position
      BY <3>1, <3>2, <3>3
    <3>5. libs[i] = Head(rest)
      <4>1. 1 \in DOMAIN rest /\ Head(rest) = rest[1]
        BY <2>1, <3>1
      <4> QED
        BY <3>2, <4>1
    <3>6. ~Instrumented(libs[i]) /\ ~world[libs[i]].ignored
      BY <2>1, <3>5
    <3>7. \A j \in 1 .. i - 1 : ~(~Instrumented(libs[j]) /\ world[libs[j]].ignored)
      BY <2>1, <3>2, <3>4
    <3> HIDE DEF i
    <3>8. ~SkipsOne(Target)
      BY <3>4, <3>6, <3>7 DEF SkipsOne
    <3> QED
      BY <3>8 DEF Fuzzable
  <2> QED
    BY <1>0, <2>1, <2>2 DEF Raise
<1> QED
  BY <1>1, <1>2, <1>3, <1>4
     DEF Next, vars, CheckPath, CannotDelete, PathsChecked, NextTarget, NotWrittenInC, CompileUnit,
         DefineExceptions, Generated, BuildLibrary, Generate, Ended

LEMMA FaultsGrow == TypeOK /\ [Next]_vars /\ faults > 0 => faults' > 0
<1> SUFFICES ASSUME TypeOK, [Next]_vars, faults > 0 PROVE faults' > 0
  OBVIOUS
<1>1. faults \in Nat
  BY DEF TypeOK, ObserversOK
<1>2. faults' = faults \/ faults' = faults + 1
  BY DEF Next, vars, CheckPath, CannotDelete, PathsChecked, StartTarget, NextTarget,
         NotWrittenInC, CompileUnit, DefineExceptions, Link, Fails, Generated, BuildLibrary,
         SkipLibrary, Ended
<1> QED
  BY <1>1, <1>2

LEMMA FailsAloneStep == IInv /\ Walked /\ FailsAlone /\ [Next]_vars => FailsAlone'
<1> SUFFICES ASSUME IInv, Walked, FailsAlone, [Next]_vars, NEW i \in failed'
             PROVE  faults' > 0 \/ ~Fuzzable(command[i])' \/ i - 1 \in failed'
  BY DEF FailsAlone
<1>1. UNCHANGED <<world, command>> /\ failed \subseteq failed'
  BY InputFixed, ObjectsFrom DEF IInv
<1>2. Fuzzable(command[i])' <=> Fuzzable(command[i])
  BY <1>1, DefinitionsFixed
<1>3. CASE i \in failed
  BY <1>1, <1>2, <1>3, FaultsGrow DEF FailsAlone, IInv
<1>4. CASE i \notin failed
  <2>1. /\ failed' = failed \cup {at}
        /\ faults' > 0 \/ ~Fuzzable(Target) \/ at - 1 \in failed
    BY <1>4, RaiseExcused
  <2> QED
    BY <1>1, <1>2, <1>4, <2>1 DEF Target
<1> QED
  BY <1>3, <1>4
-----------------------------------------------------------------------------
(* What is built. *)

LEMMA RestRange ==
  ASSUME NEW S, NEW seq \in Seq(S), seq # <<>>, NEW x \in Range(seq), x # Head(seq)
  PROVE  x \in Range(Tail(seq))
<1>1. PICK k \in DOMAIN seq : seq[k] = x
  BY DEF Range
<1>2. k # 1 /\ k - 1 \in DOMAIN Tail(seq) /\ Tail(seq)[k - 1] = x
  BY <1>1
<1> QED
  BY <1>2 DEF Range

\* All of a new Executable's units are to be compiled.
LEMMA GenerateCovers ==
  ASSUME TypeOK, NEW b \in Binaries, NEW top, Generate(b, top), UNCHANGED world
  PROVE  /\ Placed' /\ OwnRunner' /\ UnitsCovered'
         /\ phase' = "units" /\ Generating' /\ exe'.of = b /\ exe'.top = top /\ at' = at
<1>1. /\ phase' = "units" /\ exe'.of = b /\ exe'.top = top /\ exe'.units = world[b].units
      /\ at' = at /\ exe'.links = <<>>
  BY DEF Generate, Executable
<1>2. world[b].units \in Seq(Unit)
  BY DEF TypeOK, InputOK, Binary
<1>3. Compiled' = 0
  BY <1>1, <1>2 DEF Compiled
<1>4. Placed'
  BY <1>1, <1>2, <1>3 DEF Placed
<1>5. OwnRunner' /\ UnitsCovered'
  BY <1>1, <1>3 DEF OwnRunner, UnitsCovered
<1> QED
  BY <1>1, <1>4, <1>5 DEF Generating

\* The loop over the units is at one of the binary's.
LEMMA AtUnit ==
  ASSUME TypeOK, Placed, Generating, exe.units # <<>>
  PROVE  /\ Compiled \in Nat /\ Compiled + 1 \in DOMAIN world[exe.of].units
         /\ world[exe.of].units[Compiled + 1] = Head(exe.units)
<1>1. exe.units \in Seq(Unit) /\ world[exe.of].units \in Seq(Unit)
  BY DEF TypeOK, ProgramOK, InputOK, Binary, ExecutableType
<1>2. /\ Len(exe.units) \in Nat /\ Len(world[exe.of].units) \in Nat /\ Len(exe.units) > 0
      /\ Len(exe.units) <= Len(world[exe.of].units)
  BY <1>1 DEF Placed
<1>3. Compiled \in Nat /\ Compiled + 1 <= Len(world[exe.of].units)
  BY <1>2 DEF Compiled
<1>4. 1 \in DOMAIN exe.units /\ exe.units[1] = Head(exe.units)
  BY <1>1, <1>2
<1> QED
  BY <1>1, <1>3, <1>4 DEF Placed

LEMMA NextUnit ==
  ASSUME TypeOK, Placed, Generating, exe.units # <<>>, UNCHANGED world,
         exe'.of = exe.of, exe'.units = Tail(exe.units)
  PROVE  Compiled' = Compiled + 1 /\ Placed'
<1>1. exe.units \in Seq(Unit) /\ world[exe.of].units \in Seq(Unit)
  BY DEF TypeOK, ProgramOK, InputOK, Binary, ExecutableType
<1>2. /\ Len(exe'.units) = Len(exe.units) - 1
      /\ \A i \in DOMAIN exe'.units : i \in Nat /\ i + 1 \in DOMAIN exe.units
                                      /\ exe'.units[i] = exe.units[i + 1]
  BY <1>1
<1>3. Compiled \in Nat /\ Compiled' = Compiled + 1
  <2>1. Len(exe.units) \in Nat /\ Len(world[exe.of].units) \in Nat
    BY <1>1
  <2>2. Compiled' = Len(world[exe.of].units) - Len(exe'.units)
    BY DEF Compiled
  <2>3. Compiled = Len(world[exe.of].units) - Len(exe.units)
    BY DEF Compiled
  <2>4. Compiled \in Nat
    BY AtUnit
  <2> QED
    BY <1>2, <2>1, <2>2, <2>3, <2>4
<1>4. \A i \in Nat : Compiled + (i + 1) = Compiled' + i
  BY <1>3
<1>5. \A i \in DOMAIN exe'.units : exe'.units[i] = world[exe.of].units[Compiled' + i]
  BY <1>2, <1>4 DEF Placed
<1>6. Len(exe'.units) <= Len(world[exe.of].units)
  BY <1>1, <1>2 DEF Placed
<1> QED
  BY <1>3, <1>5, <1>6 DEF Placed

\* After a round of the loop over the units, each function of the unit is to be
\* linked, and one of an earlier unit is linked before the unit's.
LEMMA CompileCovers ==
  ASSUME IInv, Covered, [Next]_vars, CompileUnit, NEW d, d = Target, NEW e, e = exe.of
  PROVE  /\ Placed' /\ OwnRunner' /\ UnitsCovered'
         /\ \A f : Waiting(f) => Waiting(f)'
         /\ exe'.of = exe.of /\ exe'.top = exe.top
<1> USE DEF IInv
<1> DEFINE u == Head(exe.units)
           L == exe.links
           N == LinksOf(u)
           M == exe'.links
           c == Compiled + 1
<1>0. /\ UNCHANGED <<world, command, at, Target>> /\ Generating /\ Active /\ phase = "units"
      /\ exe.units # <<>> /\ u.c /\ Target \in Binaries
      /\ Placed /\ OwnRunner /\ UnitsCovered
  BY InputFixed, TargetListed
     DEF CompileUnit, Generating, Active, Target, Covered, TypeOK, ProgramOK
<1>1. /\ u \in Unit /\ exe'.of = exe.of /\ exe'.top = exe.top /\ exe'.units = Tail(exe.units)
      /\ M = L \o N
  BY UnitLinks
<1>2. L \in Seq(Linkage) /\ N \in Seq(Linkage)
  BY <1>1, LinksType DEF TypeOK, ProgramOK, ExecutableType
<1>3. /\ \A k \in DOMAIN N : N[k].unit = u.name /\ N[k].function \in Range(u.runs)
      /\ \A f \in Range(u.runs) : \E k \in DOMAIN N : N[k].function = f
  BY DEF LinksOf, Range
<1>4. /\ c - 1 \in Nat /\ c \in Nat /\ c \in DOMAIN world[exe.of].units /\ Compiled' = c /\ Placed'
      /\ Runs(exe.of, c) = Range(u.runs) /\ u.name = world[exe.of].units[c].name
  BY <1>0, <1>1, AtUnit, NextUnit DEF Runs
<1>5. /\ Len(L) \in Nat
      /\ \A k \in DOMAIN L : k \in Nat /\ k <= Len(L) /\ k \in DOMAIN M /\ M[k] = L[k]
      /\ \A k \in DOMAIN N : /\ Len(L) + k \in DOMAIN M /\ M[Len(L) + k] = N[k]
                             /\ Len(L) + k > Len(L)
  <2> HIDE DEF L, N, M, u
  <2>1. /\ Len(L) \in Nat
        /\ \A k \in DOMAIN L : k \in Nat /\ k <= Len(L) /\ k \in DOMAIN (L \o N) /\ (L \o N)[k] = L[k]
        /\ \A k \in DOMAIN N : /\ Len(L) + k \in DOMAIN (L \o N) /\ (L \o N)[Len(L) + k] = N[k]
                               /\ Len(L) + k > Len(L)
    <3>1. \A s1 \in Seq(Linkage), s2 \in Seq(Linkage) :
            /\ Len(s1) \in Nat
            /\ \A k \in DOMAIN s1 : /\ k \in Nat /\ k <= Len(s1) /\ k \in DOMAIN (s1 \o s2)
                                    /\ (s1 \o s2)[k] = s1[k]
            /\ \A k \in DOMAIN s2 : /\ Len(s1) + k \in DOMAIN (s1 \o s2) /\ Len(s1) + k > Len(s1)
                                    /\ (s1 \o s2)[Len(s1) + k] = s2[k]
      BY BothParts
    <3> QED
      BY <1>2, <3>1, Zenon
  <2> QED
    BY <1>1, <2>1, Zenon
<1>6. \A k \in DOMAIN M : /\ k \in Nat
                          /\ \/ k <= Len(L) /\ k \in DOMAIN L
                             \/ k > Len(L) /\ k - Len(L) \in DOMAIN N /\ M[k] = N[k - Len(L)]
  <2> SUFFICES ASSUME NEW k \in DOMAIN M
               PROVE  /\ k \in Nat
                      /\ \/ k <= Len(L) /\ k \in DOMAIN L
                         \/ k > Len(L) /\ k - Len(L) \in DOMAIN N /\ M[k] = N[k - Len(L)]
    OBVIOUS
  <2>1. k \in Nat /\ (k <= Len(L) \/ k > Len(L))
    BY <1>1, <1>2
  <2>2. k \in DOMAIN (L \o N) /\ M[k] = (L \o N)[k]
    BY <1>1
  <2>3. k > Len(L) => k - Len(L) \in DOMAIN N /\ (L \o N)[k] = N[k - Len(L)]
    BY <1>2, <2>2, SecondPart
  <2>4. ~ k > Len(L) => k \in DOMAIN L
    BY <1>2, <2>2, FirstPart
  <2> QED
    BY <1>5, <2>1, <2>2, <2>3, <2>4
<1>7. disk'[d].objects = disk[d].objects
  BY <1>0, UnitWritten
<1>8. \A f \in Runnable : disk'[Target].sources[f] =
        IF f \in Range(u.runs) THEN RunnerSource(exe.of, u) ELSE disk[Target].sources[f]
  BY UnitWritten
<1>9. \A k \in DOMAIN L : L[k].function \in Runnable
  <2>1. \A k \in DOMAIN L : L[k] \in Linkage
    BY <1>2
  <2> QED
    BY <2>1 DEF Linkage
<1>10. \A k \in DOMAIN N : N[k].function \in Runnable
  <2>1. \A k \in DOMAIN N : N[k] \in Linkage
    BY <1>2
  <2> QED
    BY <2>1 DEF Linkage
<1> HIDE DEF u, L, N, M, c
<1>11. \A m \in 1 .. c : \A k \in DOMAIN M : k > Len(L) => OfUnit(M[k], e, m)
  <2> SUFFICES ASSUME NEW m \in 1 .. c, NEW k \in DOMAIN M, k > Len(L)
               PROVE  OfUnit(M[k], e, m)
    OBVIOUS
  <2>1. k - Len(L) \in DOMAIN N /\ M[k] = N[k - Len(L)]
    BY <1>5, <1>6
  <2>2. M[k].unit = world[exe.of].units[c].name /\ M[k].function \in Runs(exe.of, c)
    BY <1>3, <1>4, <2>1
  <2> QED
    BY <1>4, <2>2 DEF OfUnit
<1>12. \A f \in Range(u.runs) : \E k \in DOMAIN M : k > Len(L) /\ M[k].function = f
  BY <1>3, <1>5
<1>13. ASSUME NEW m \in 1 .. c, NEW f \in Range(u.runs)
       PROVE  Due(m, f)'
  <2>1. PICK k \in DOMAIN M : k > Len(L) /\ M[k].function = f
    BY <1>12
  <2>2. \A j \in DOMAIN M : j >= k => j > Len(L)
    BY <1>5, <1>6, <2>1
  <2>3. \A j \in DOMAIN M : j >= k /\ M[j].function = f => OfUnit(M[j], e, m)
    BY <1>11, <2>2
  <2>4. \A l : OfUnit(l, e, m)' <=> OfUnit(l, e, m)
    BY <1>0, UnitsFixed
  <2>5. exe'.of = e
    BY <1>1
  <2> QED
    BY <2>1, <2>3, <2>4, <2>5 DEF Due, M
<1>14. ASSUME NEW m \in 1 .. c, NEW f, Due(m, f)
       PROVE  Due(m, f)'
  <2>1. PICK k \in DOMAIN L : /\ L[k].function = f
                              /\ \A j \in DOMAIN L : j >= k /\ L[j].function = f
                                                     => OfUnit(L[j], e, m)
    BY <1>14 DEF Due, L
  <2>2. \A j \in DOMAIN M : j >= k /\ M[j].function = f => OfUnit(M[j], e, m)
    BY <1>5, <1>6, <1>11, <2>1
  <2>3. \A l : OfUnit(l, e, m)' <=> OfUnit(l, e, m)
    BY <1>0, UnitsFixed
  <2>4. exe'.of = e
    BY <1>1
  <2> QED
    BY <1>5, <2>1, <2>2, <2>3, <2>4 DEF Due, M
<1>15. ASSUME NEW f, Waiting(f)', ~Waiting(f)
       PROVE  f \in Range(u.runs)
  <2>1. PICK k \in DOMAIN M : M[k].function = f
    BY <1>15 DEF Waiting, M
  <2>2. k \notin DOMAIN L
    BY <1>5, <1>15, <2>1 DEF Waiting, L
  <2> QED
    BY <1>3, <1>6, <2>1, <2>2
<1>16. UnitsCovered'
  <2> SUFFICES ASSUME NEW m \in 1 .. c, NEW f \in Runs(e, m)
               PROVE  Due(m, f)' \/ (Hooked(d, e, m, f)' /\ ~Waiting(f)')
    <3>1. \A m : Runs(e, m)' = Runs(e, m)
      BY <1>0, UnitsFixed
    <3>2. Target' = d /\ exe'.of = e /\ Compiled' = c
      BY <1>0, <1>1, <1>4
    <3> QED
      BY <3>1, <3>2 DEF UnitsCovered
  <2>1. CASE f \in Range(u.runs)
    BY <1>13, <2>1
  <2>2. CASE f \notin Range(u.runs)
    <3>1. m # c
      BY <1>4, <2>2
    <3>2. m \in 1 .. Compiled
      <4>1. Compiled \in Nat /\ c = Compiled + 1
        BY <1>0, AtUnit DEF c
      <4> QED
        BY <3>1, <4>1
    <3>3. Due(m, f) \/ (Hooked(d, e, m, f) /\ ~Waiting(f))
      BY <1>0, <3>2 DEF UnitsCovered
    <3>4. Hooked(d, e, m, f) => Hooked(d, e, m, f)'
      BY <1>7, HookedStays
    <3> QED
      BY <1>14, <1>15, <2>2, <3>3, <3>4
  <2> QED
    BY <2>1, <2>2
<1>17. OwnRunner'
  <2> SUFFICES ASSUME NEW k \in DOMAIN M, M[k].function # DoNothing,
                      \A j \in DOMAIN M : j > k => M[j].function # M[k].function
               PROVE  disk'[Target].sources[M[k].function].of = <<exe.of, M[k].unit>>
    BY <1>0, <1>1 DEF OwnRunner, M
  <2>1. CASE k > Len(L)
    <3>1. k - Len(L) \in DOMAIN N /\ M[k] = N[k - Len(L)]
      BY <1>5, <1>6, <2>1
    <3>2. disk'[Target].sources[M[k].function] = RunnerSource(exe.of, u) /\ M[k].unit = u.name
      BY <1>3, <1>8, <1>10, <3>1
    <3> QED
      BY <3>2 DEF RunnerSource
  <2>2. CASE k <= Len(L) /\ k \in DOMAIN L
    <3>1. M[k] = L[k] /\ M[k].function \in Runnable
      BY <1>5, <1>9, <2>2
    <3>2. M[k].function \notin Range(u.runs)
      <4> SUFFICES ASSUME M[k].function \in Range(u.runs) PROVE FALSE
        OBVIOUS
      <4>1. PICK j \in DOMAIN M : j > Len(L) /\ M[j].function = M[k].function
        BY <1>12
      <4>2. j > k
        BY <1>5, <1>6, <2>2, <4>1
      <4> QED
        BY <4>1, <4>2
    <3>3. disk'[Target].sources[M[k].function] = disk[Target].sources[L[k].function]
      BY <1>8, <3>1, <3>2
    <3>4. \A j \in DOMAIN L : j > k => L[j].function # L[k].function
      BY <1>5, <3>1
    <3>5. disk[Target].sources[L[k].function].of = <<exe.of, L[k].unit>>
      BY <1>0, <2>2, <3>1, <3>4 DEF OwnRunner, L
    <3> QED
      BY <3>1, <3>3, <3>5
  <2> QED
    BY <1>6, <2>1, <2>2
<1>18. \A f : Waiting(f) => Waiting(f)'
  BY <1>5 DEF Waiting, L, M
<1> QED
  BY <1>1, <1>4, <1>16, <1>17, <1>18

\* Linking one function leaves it hooked or another of its name to be linked.
LEMMA LinkCovers ==
  ASSUME IInv, Aged, Covered, [Next]_vars, Link, Generating', NEW d, d = Target, NEW e, e = exe.of
  PROVE  /\ Placed' /\ OwnRunner' /\ UnitsCovered'
         /\ \A b, m, f : Before(d, b) /\ (Hooked(d, b, m, f) \/ Waiting(f))
                         => Hooked(d, b, m, f)' \/ Waiting(f)'
         /\ exe'.of = exe.of /\ exe'.top = exe.top
<1> USE DEF IInv
<1> DEFINE L == exe.links
           M == exe'.links
           l == Head(exe.links)
           s == SharedObject(l)
<1>0. /\ UNCHANGED <<world, command, at, Target>> /\ Generating /\ Active /\ phase # "checking"
      /\ Target \in Binaries /\ ~Clash(SharedObject(Head(exe.links)).object)
      /\ Placed /\ OwnRunner /\ UnitsCovered
      /\ exe' = [exe EXCEPT !.links = Tail(@)] /\ L # <<>>
  <2>1. exe' = [exe EXCEPT !.links = Tail(@)] /\ ~Clash(SharedObject(Head(exe.links)).object)
        /\ UNCHANGED at /\ phase = "linking" /\ L # <<>>
    BY DEF Link, Raise, Generating
  <2> QED
    BY <2>1, InputFixed, TargetListed
       DEF Generating, Active, Target, Covered, TypeOK, ProgramOK
<1>1. /\ UNCHANGED <<exe.of, exe.top, exe.units>> /\ M = Tail(L) /\ L \in Seq(Linkage)
  BY <1>0 DEF TypeOK, ProgramOK, ExecutableType
<1>2. /\ \A k \in DOMAIN M : k \in Nat /\ k + 1 \in DOMAIN L /\ M[k] = L[k + 1]
      /\ \A k \in DOMAIN L : k \in Nat /\ (k = 1 \/ (k > 1 /\ k - 1 \in DOMAIN M /\ L[k] = M[k - 1]))
      /\ 1 \in DOMAIN L /\ L[1] = l
  BY <1>0, <1>1
<1>3. Compiled' = Compiled /\ Placed'
  BY <1>0, <1>1 DEF Compiled, Placed
<1>4. /\ disk'[Target].sources = disk[Target].sources
      /\ disk'[Target].objects = {x \in disk[Target].objects : x.link.function # l.function} \cup {s}
  BY <1>0, ObjectLinked
<1>5. ASSUME NEW f, f = l.function, ~Waiting(f)'
      PROVE  \E o \in disk'[d].objects : Hooks(o)' /\ o.link = l /\ o.of = e
  <2>1. \A k \in DOMAIN Tail(exe.links) : Tail(exe.links)[k].function # Head(exe.links).function
    BY <1>1, <1>5 DEF Waiting, M, L, l
  <2>2. s \in disk'[Target].objects /\ Hooks(s) /\ s.link = l /\ s.of = exe.of
    BY <1>0, <2>1, LinkHooks DEF s, l
  <2>3. PICK o : o = s
    OBVIOUS
  <2> HIDE DEF s
  <2>4. Hooks(o)'
    BY <2>2, <2>3 DEF Hooks
  <2> QED
    BY <2>2, <2>3, <2>4
<1>6. taken # <<>> /\ taken[Len(taken)] = [dir |-> Target, of |-> exe.of]
      /\ taken \in Seq([dir : Binaries, of : Binaries]) /\ Len(taken) \in DOMAIN taken
      /\ taken' = taken
  BY <1>0 DEF Aged, TypeOK, ObserversOK, Link
<1> HIDE DEF L, M, l, s
<1>7. ASSUME NEW b, NEW m, NEW f, Hooked(d, b, m, f), f # l.function
      PROVE  Hooked(d, b, m, f)'
  BY <1>4, <1>7, HookedStays
<1>8. ASSUME NEW f, Waiting(f), f # l.function
      PROVE  Waiting(f)'
  BY <1>2, <1>8 DEF Waiting, L, M
<1>9. ASSUME NEW b, NEW m, NEW f, Before(d, b), Hooked(d, b, m, f) \/ Waiting(f)
      PROVE  Hooked(d, b, m, f)' \/ Waiting(f)'
  <2>1. CASE f # l.function
    BY <1>7, <1>8, <1>9, <2>1
  <2>2. CASE f = l.function /\ ~Waiting(f)'
    <3>1. PICK o \in disk'[d].objects : Hooks(o)' /\ o.link = l /\ o.of = e
      BY <1>5, <2>2
    <3>2. After(d, b, e)
      BY <1>0, <1>6, <1>9 DEF Before, After
    <3>3. After(d, b, o.of)'
      BY <3>1, <3>2, AfterStays
    <3> QED
      BY <2>2, <3>1, <3>3 DEF Hooked, Objects
  <2> QED
    BY <2>1, <2>2
<1>10. ASSUME NEW m, NEW f, Due(m, f)
       PROVE  Due(m, f)' \/ (Hooked(d, e, m, f)' /\ ~Waiting(f)')
  <2>1. PICK k \in DOMAIN L : /\ L[k].function = f
                              /\ \A j \in DOMAIN L : j >= k /\ L[j].function = f
                                                     => OfUnit(L[j], e, m)
    BY <1>10 DEF Due, L
  <2>2. \A x : OfUnit(x, e, m)' <=> OfUnit(x, e, m)
    BY <1>0, UnitsFixed
  <2>3. ASSUME NEW i \in DOMAIN M, M[i].function = f, i + 1 >= k
        PROVE  Due(m, f)'
    <3>1. \A j \in DOMAIN M : j >= i => j + 1 \in DOMAIN L /\ j + 1 >= k /\ M[j] = L[j + 1]
      BY <1>2, <2>1, <2>3
    <3>2. \A j \in DOMAIN M : j >= i /\ M[j].function = f => OfUnit(M[j], e, m)
      BY <2>1, <3>1
    <3>3. exe'.of = e
      BY <1>1
    <3> QED
      BY <2>2, <2>3, <3>2, <3>3 DEF Due, M
  <2>4. CASE k # 1
    <3>1. k - 1 \in DOMAIN M /\ M[k - 1].function = f /\ (k - 1) + 1 >= k
      BY <1>2, <2>1, <2>4
    <3> QED
      BY <2>3, <3>1
  <2>5. CASE k = 1 /\ Waiting(f)'
    <3>1. PICK i \in DOMAIN M : M[i].function = f
      BY <2>5 DEF Waiting, M
    <3>2. i + 1 >= k
      BY <1>2, <2>5
    <3> QED
      BY <2>3, <3>1, <3>2
  <2>6. CASE k = 1 /\ ~Waiting(f)'
    <3>1. f = l.function /\ OfUnit(l, e, m)
      BY <1>2, <2>1, <2>6
    <3>2. PICK o \in disk'[d].objects : Hooks(o)' /\ o.link = l /\ o.of = e
      BY <1>5, <2>6, <3>1
    <3> QED
      BY <2>2, <2>6, <3>1, <3>2 DEF Hooked, Objects
  <2> QED
    BY <2>4, <2>5, <2>6
<1>11. ASSUME NEW f, Waiting(f)'
       PROVE  Waiting(f)
  BY <1>2, <1>11 DEF Waiting, L, M
<1>12. UnitsCovered'
  <2> SUFFICES ASSUME NEW m \in 1 .. Compiled, NEW f \in Runs(e, m)
               PROVE  Due(m, f)' \/ (Hooked(d, e, m, f)' /\ ~Waiting(f)')
    <3>1. \A m : Runs(e, m)' = Runs(e, m)
      BY <1>0, UnitsFixed
    <3>2. Target' = d /\ exe'.of = e /\ Compiled' = Compiled
      BY <1>0, <1>1, <1>3
    <3> QED
      BY <3>1, <3>2 DEF UnitsCovered
  <2>1. CASE Due(m, f)
    BY <1>10, <2>1
  <2>2. CASE Hooked(d, e, m, f) /\ ~Waiting(f)
    <3>1. f # l.function
      BY <1>2, <2>2 DEF Waiting, L
    <3> QED
      BY <1>7, <1>11, <2>2, <3>1
  <2> QED
    BY <1>0, <2>1, <2>2 DEF UnitsCovered
<1>13. OwnRunner'
  <2> SUFFICES ASSUME NEW k \in DOMAIN M, M[k].function # DoNothing,
                      \A j \in DOMAIN M : j > k => M[j].function # M[k].function
               PROVE  disk'[Target].sources[M[k].function].of = <<exe.of, M[k].unit>>
    BY <1>0, <1>1 DEF OwnRunner, M
  <2>1. k + 1 \in DOMAIN L /\ M[k] = L[k + 1]
    BY <1>2
  <2>2. \A j \in DOMAIN L : j > k + 1 => L[j].function # L[k + 1].function
    <3> SUFFICES ASSUME NEW j \in DOMAIN L, j > k + 1 PROVE L[j].function # L[k + 1].function
      OBVIOUS
    <3>1. j - 1 \in DOMAIN M /\ L[j] = M[j - 1] /\ j - 1 > k
      BY <1>2
    <3> QED
      BY <2>1, <3>1
  <2> QED
    BY <1>0, <1>4, <2>1, <2>2 DEF OwnRunner, L
<1> QED
  BY <1>1, <1>3, <1>9, <1>12, <1>13

\* One step of a generation covers the units as before, and what was built
\* before stays built or is being replaced.
LEMMA UnitsStep ==
  ASSUME IInv, TypeOK', Aged, Covered, [Next]_vars, Generating, Generating',
         NEW d, d = Target, NEW e, e = exe.of
  PROVE  /\ Placed' /\ OwnRunner' /\ UnitsCovered'
         /\ \A b : Built(d, b) => Built(d, b)'
         /\ exe'.of = exe.of /\ exe'.top = exe.top
<1> USE DEF IInv
<1>0. UNCHANGED <<world, command>>
  BY InputFixed
<1>1. UNCHANGED <<at, taken, Target>> /\ Target \in Binaries /\ phase # "checking" /\ Active
      /\ Placed /\ OwnRunner /\ UnitsCovered
  <2>1. UNCHANGED <<at, taken>>
    BY DEF Next, vars, CheckPath, CannotDelete, PathsChecked, StartTarget, NextTarget,
           NotWrittenInC, CompileUnit, DefineExceptions, Link, Fails, Generated, BuildLibrary,
           SkipLibrary, Ended, Raise, Generate, Generating
  <2>2. Active /\ phase # "checking"
    BY DEF Active, Generating
  <2> QED
    BY <1>0, <2>1, <2>2, TargetListed DEF Target, Covered, TypeOK, ProgramOK
<1>2. \A b : Before(d, b)' <=> Before(d, b)
  BY <1>1 DEF Before
<1>3. exe \in ExecutableType /\ exe.units \in Seq(Unit) /\ exe.links \in Seq(Linkage)
  BY DEF TypeOK, ProgramOK, ExecutableType
<1>4. ASSUME \A b, m, f : Before(d, b) /\ (Hooked(d, b, m, f) \/ Waiting(f))
                          => Hooked(d, b, m, f)' \/ Waiting(f)'
      PROVE  \A b : Built(d, b) => Built(d, b)'
  <2> SUFFICES ASSUME NEW b, Built(d, b) PROVE Built(d, b)'
    OBVIOUS
  <2>1. \A m : Runs(b, m)' = Runs(b, m)
    BY <1>0, UnitsFixed
  <2>2. ASSUME NEW m \in DOMAIN world[b].units, NEW f \in Runs(b, m)
        PROVE  Hooked(d, b, m, f)' \/ Waiting(f)'
    BY <1>4, <2>2 DEF Built
  <2> QED
    BY <1>0, <1>2, <2>1, <2>2 DEF Built
<1>5. ASSUME \A f : Waiting(f) => Waiting(f)', disk'[d].objects = disk[d].objects
      PROVE  \A b : Built(d, b) => Built(d, b)'
  <2>1. \A b, m, f : Hooked(d, b, m, f) => Hooked(d, b, m, f)'
    BY <1>5, HookedStays
  <2> QED
    BY <1>4, <1>5, <2>1
<1>6. ASSUME UNCHANGED exe, disk'[d].objects = disk[d].objects,
             \A f : f = DoNothing \/ disk'[Target].sources[f] = disk[Target].sources[f]
                    \/ f \notin Runnable
      PROVE  /\ Placed' /\ OwnRunner' /\ UnitsCovered'
             /\ \A b : Built(d, b) => Built(d, b)'
  <2>1. Compiled' = Compiled /\ Placed' /\ \A f : Waiting(f)' <=> Waiting(f)
    BY <1>0, <1>1, <1>6 DEF Compiled, Placed, Waiting
  <2>2. \A k \in DOMAIN exe.links : exe.links[k].function \in Runnable
    <3>1. \A k \in DOMAIN exe.links : exe.links[k] \in Linkage
      BY <1>3
    <3> QED
      BY <3>1 DEF Linkage
  <2>3. OwnRunner'
    BY <1>1, <1>6, <2>2 DEF OwnRunner
  <2>4. \A b, m, f : Hooked(d, b, m, f) => Hooked(d, b, m, f)'
    BY <1>6, HookedStays
  <2>5. \A m, f : Due(m, f)' <=> Due(m, f)
    <3>1. \A m, l : OfUnit(l, e, m)' <=> OfUnit(l, e, m)
      BY <1>0, UnitsFixed
    <3> QED
      BY <1>6, <3>1 DEF Due
  <2>6. UnitsCovered'
    <3>1. \A m : Runs(e, m)' = Runs(e, m)
      BY <1>0, UnitsFixed
    <3>2. Target' = d /\ exe'.of = e
      BY <1>1, <1>6
    <3> QED
      BY <1>1, <2>1, <2>4, <2>5, <3>1, <3>2 DEF UnitsCovered
  <2> QED
    BY <1>5, <1>6, <2>1, <2>3, <2>6
<1>7. CASE UNCHANGED <<exe, disk>>
  BY <1>6, <1>7
<1>8. CASE DefineExceptions
  <2>1. /\ disk'[d].objects = disk[d].objects
        /\ \A f \in Runnable : f = DoNothing \/ disk'[Target].sources[f] = disk[Target].sources[f]
    BY <1>8, ExceptionsWritten
  <2>2. UNCHANGED exe
    BY <1>8 DEF DefineExceptions
  <2> QED
    BY <1>6, <2>1, <2>2
<1>9. CASE NotWrittenInC
  <2>1. /\ exe.units # <<>> /\ ~Head(exe.units).c /\ exe'.units = Tail(exe.units)
        /\ UNCHANGED <<exe.of, exe.top, exe.links, disk>>
    BY <1>3, <1>9 DEF NotWrittenInC, ExecutableType
  <2>2. /\ Compiled \in Nat /\ world[exe.of].units[Compiled + 1] = Head(exe.units)
        /\ Compiled' = Compiled + 1 /\ Placed'
    BY <1>0, <1>1, <2>1, AtUnit, NextUnit
  <2>3. Runs(exe.of, Compiled + 1) = {}
    BY <2>1, <2>2 DEF Runs
  <2>4. OwnRunner' /\ \A f : Waiting(f)' <=> Waiting(f)
    BY <1>1, <2>1 DEF OwnRunner, Waiting
  <2>5. \A m, f : Due(m, f)' <=> Due(m, f)
    <3>1. \A m, l : OfUnit(l, e, m)' <=> OfUnit(l, e, m)
      BY <1>0, UnitsFixed
    <3> QED
      BY <2>1, <3>1 DEF Due
  <2>6. \A b, m, f : Hooked(d, b, m, f) => Hooked(d, b, m, f)'
    BY <2>1, HookedStays
  <2>7. UnitsCovered'
    <3> SUFFICES ASSUME NEW m \in 1 .. Compiled + 1, NEW f \in Runs(e, m)
                 PROVE  Due(m, f)' \/ (Hooked(d, e, m, f)' /\ ~Waiting(f)')
      <4>1. \A m : Runs(e, m)' = Runs(e, m)
        BY <1>0, UnitsFixed
      <4>2. Target' = d /\ exe'.of = e
        BY <1>1, <2>1
      <4> QED
        BY <2>2, <4>1, <4>2 DEF UnitsCovered
    <3>1. m # Compiled + 1
      BY <2>3
    <3>2. m \in 1 .. Compiled
      BY <2>2, <3>1
    <3>3. Due(m, f) \/ (Hooked(d, e, m, f) /\ ~Waiting(f))
      BY <1>1, <3>2 DEF UnitsCovered
    <3> QED
      BY <2>4, <2>5, <2>6, <3>3
  <2> QED
    BY <1>5, <2>1, <2>2, <2>4, <2>7
<1>10. CASE CompileUnit
  <2>1. disk'[d].objects = disk[d].objects
    BY <1>1, <1>10, UnitWritten
  <2> QED
    BY <1>5, <1>10, <2>1, CompileCovers
<1>11. CASE Link
  BY <1>4, <1>11, LinkCovers
<1> QED
  BY <1>6, <1>7, <1>8, <1>9, <1>10, <1>11
     DEF Next, vars, CheckPath, CannotDelete, PathsChecked, StartTarget, NextTarget,
         Fails, Generated, BuildLibrary, SkipLibrary, Ended, Raise, Generating

\* Where nothing is generated, what is built stays so while its target's turn
\* lasts, also when the next generation starts.
LEMMA BuiltStays ==
  ASSUME IInv, [Next]_vars, Active, ~Generating, UNCHANGED at, NEW d, d = Target,
         NEW b, Built(d, b), Generating' => Len(taken') = Len(taken) + 1
  PROVE  Built(d, b)'
<1> USE DEF IInv
<1>1. UNCHANGED <<world, command, Target>> /\ Target \in Binaries /\ phase # "checking" /\ ~Link
  BY InputFixed, TargetListed DEF Target, TypeOK, ProgramOK, Active, Generating, Link
<1>2. disk'[d].objects = disk[d].objects
  BY <1>1, ObjectsStay
<1>3. \A m, f : Hooked(d, b, m, f) => Hooked(d, b, m, f)'
  BY <1>2, HookedStays
<1>4. \A m \in DOMAIN world[b].units : \A f \in Runs(b, m) : Hooked(d, b, m, f)'
  BY <1>3 DEF Built
<1>5. PICK i \in DOMAIN taken : taken[i] = [dir |-> d, of |-> b]
  BY DEF Built, Before
<1>6. i \in DOMAIN taken' /\ taken'[i] = taken[i] /\ (Generating' => i < Len(taken'))
  <2>1. i \in Nat /\ i <= Len(taken) /\ Len(taken) \in Nat
    BY TakenGrows
  <2> QED
    BY <2>1, TakenGrows
<1>7. Before(d, b)'
  BY <1>1, <1>5, <1>6 DEF Before
<1>8. \A m : Runs(b, m)' = Runs(b, m)
  BY <1>1, UnitsFixed
<1> QED
  BY <1>1, <1>4, <1>7, <1>8 DEF Built

LEMMA CoveredStep == IInv /\ TypeOK' /\ Walked /\ Aged /\ Covered /\ [Next]_vars => Covered'
<1> SUFFICES ASSUME IInv, TypeOK', Walked, Aged, Covered, [Next]_vars, Active' PROVE Covered'
  BY DEF Covered
<1> USE DEF IInv
<1> DEFINE libs == world[Target].libs
<1>20. PICK d : d = Target
  OBVIOUS
<1>21. PICK e : e = exe.of
  OBVIOUS
<1>0. UNCHANGED <<world, command>> /\ \A b : Instrumented(b)' <=> Instrumented(b)
  BY InputFixed, DefinitionsFixed
<1>1. ASSUME Active, UNCHANGED at
      PROVE  Target' = Target /\ Target \in Binaries /\ libs \in Seq(Binaries) /\ libs' = libs
  BY <1>0, <1>1, TargetListed DEF Target, TypeOK, ProgramOK, Active
<1>2. ASSUME Active, UNCHANGED <<at, libraries, rest>>, Generating, Generating',
             phase' = "linking" => exe'.units = <<>>
      PROVE  Covered'
  <2>1. /\ Placed' /\ OwnRunner' /\ UnitsCovered'
        /\ \A b : Built(d, b) => Built(d, b)'
        /\ exe'.of = exe.of /\ exe'.top = exe.top
    BY <1>2, <1>20, <1>21, UnitsStep
  <2>2. Target' = d /\ libs' = libs
    BY <1>1, <1>2, <1>20
  <2> QED
    BY <1>0, <1>2, <1>20, <2>1, <2>2 DEF Covered
<1>3. CASE StartTarget
  <2>1. Generate(Target, TRUE) /\ libraries' = libraries \o libs /\ at <= Len(command)
    BY <1>3 DEF StartTarget, Raise, Active
  <2>2. /\ Placed' /\ OwnRunner' /\ UnitsCovered'
        /\ phase' = "units" /\ Generating' /\ exe'.top /\ Target' = Target
    BY <1>0, <2>1, GenerateCovers, TargetListed DEF Target
  <2>3. libs \in Seq(Binaries) /\ libraries \in Seq(Binaries)
    BY <2>1, TargetListed DEF TypeOK, ProgramOK
  <2>4. Range(libs) \subseteq Range(libraries')
    <3>1. \A k \in DOMAIN libs : /\ Len(libraries) + k \in DOMAIN libraries'
                                 /\ libraries'[Len(libraries) + k] = libs[k]
      BY <2>1, <2>3, SMTT(30)
    <3> QED
      BY <3>1 DEF Range
  <2> QED
    BY <1>0, <2>2, <2>4 DEF Covered
<1>4. CASE NotWrittenInC \/ CompileUnit
  BY <1>2, <1>4 DEF NotWrittenInC, CompileUnit, Generating, Active
<1>5. CASE DefineExceptions
  BY <1>2, <1>5 DEF DefineExceptions, Generating, Active
<1>6. CASE Link
  <2>1. exe' = [exe EXCEPT !.links = Tail(@)] /\ UNCHANGED <<failed, phase, at, rest, found, libraries>>
    BY <1>6 DEF Link, Raise, Active
  <2>2. exe'.units = exe.units /\ Generating /\ Generating' /\ Active /\ phase = "linking"
    BY <1>6, <2>1 DEF Link, TypeOK, ProgramOK, ExecutableType, Generating, Active
  <2>3. exe'.units = <<>>
    BY <2>2 DEF Covered
  <2> QED
    BY <1>2, <2>1, <2>2, <2>3
<1>7. CASE Generated
  <2>1. /\ UNCHANGED <<at, libraries, disk, taken>> /\ Generating /\ ~Generating' /\ Active
        /\ phase = "linking" /\ phase' = "libraries" /\ exe.links = <<>> /\ exe.units = <<>>
        /\ rest' = IF exe.top THEN libraries ELSE rest
    BY <1>7 DEF Generated, Generating, Active, Covered
  <2>2. \A f : ~Waiting(f)
    BY <2>1 DEF Waiting
  <2>3. \A b, m, f : Hooked(d, b, m, f) => Hooked(d, b, m, f)'
    BY <2>1, HookedStays
  <2>4. ASSUME NEW b, \E i \in DOMAIN taken : taken[i] = [dir |-> d, of |-> b],
               \A m \in DOMAIN world[b].units : \A f \in Runs(b, m) : Hooked(d, b, m, f)
        PROVE  Built(d, b)'
    <3>1. Before(d, b)'
      BY <2>1, <2>4 DEF Before
    <3>2. \A m : Runs(b, m)' = Runs(b, m)
      BY <1>0, UnitsFixed
    <3>3. \A m \in DOMAIN world[b].units : \A f \in Runs(b, m) : Hooked(d, b, m, f)'
      BY <2>3, <2>4
    <3> QED
      BY <1>0, <2>1, <3>1, <3>2, <3>3 DEF Built
  <2>5. Built(d, e)'
    <3>1. world[e].units \in Seq(Unit) /\ Compiled = Len(world[e].units)
      <4>1. world[e].units \in Seq(Unit)
        BY <1>21, <2>1 DEF TypeOK, ProgramOK, InputOK, Binary
      <4>2. Len(exe.units) = 0
        BY <2>1
      <4> QED
        BY <1>21, <4>1, <4>2 DEF Compiled
    <3>2. \A m \in DOMAIN world[e].units : \A f \in Runs(e, m) : Hooked(d, e, m, f)
      <4>1. \A m \in 1 .. Compiled : \A f \in Runs(e, m) : Hooked(d, e, m, f)
        BY <1>20, <1>21, <2>1, <2>2 DEF Covered, UnitsCovered, Due, Waiting
      <4> QED
        BY <3>1, <4>1
    <3>3. Len(taken) \in DOMAIN taken /\ taken[Len(taken)] = [dir |-> d, of |-> e]
      <4>1. taken \in Seq([dir : Binaries, of : Binaries]) /\ taken # <<>>
        BY <2>1 DEF Aged, TypeOK, ObserversOK
      <4> QED
        BY <1>20, <1>21, <2>1, <4>1 DEF Aged
    <3> QED
      BY <2>4, <3>2, <3>3
  <2>6. \A b : Built(d, b) => Built(d, b)'
    <3> SUFFICES ASSUME NEW b, Built(d, b) PROVE Built(d, b)'
      OBVIOUS
    <3>1. \E i \in DOMAIN taken : taken[i] = [dir |-> d, of |-> b]
      BY DEF Built, Before
    <3>2. \A m \in DOMAIN world[b].units : \A f \in Runs(b, m) : Hooked(d, b, m, f)
      BY <2>2 DEF Built
    <3> QED
      BY <2>4, <3>1, <3>2
  <2>7. CASE exe.top
    <3>1. d = e
      BY <1>20, <1>21, <2>1, <2>7 DEF Walked
    <3>2. Range(libs) \subseteq Range(rest')
      BY <2>1, <2>7 DEF Covered
    <3>3. Built(d, d)'
      BY <2>5, <3>1
    <3> QED
      BY <1>0, <1>1, <1>20, <2>1, <3>2, <3>3 DEF Covered
  <2>8. CASE ~exe.top
    BY <1>0, <1>1, <1>20, <1>21, <2>1, <2>5, <2>6, <2>8 DEF Covered
  <2> QED
    BY <2>7, <2>8
<1>8. CASE BuildLibrary
  <2>1. /\ Generate(Head(rest), FALSE) /\ UNCHANGED libraries /\ rest # <<>> /\ rest' = Tail(rest)
        /\ ~Generating /\ Active /\ Head(rest) \in Binaries
    <3>1. rest \in Seq(Binaries) /\ rest # <<>>
      BY <1>8 DEF BuildLibrary, TypeOK, ProgramOK
    <3>2. Head(rest) \in Binaries
      BY <3>1
    <3> QED
      BY <1>8, <3>1, <3>2 DEF BuildLibrary, Generating, Active
  <2>2. /\ Placed' /\ OwnRunner' /\ UnitsCovered'
        /\ phase' = "units" /\ Generating' /\ exe'.of = Head(rest) /\ at' = at
    BY <1>0, <2>1, GenerateCovers
  <2>3. \A b \in Range(rest) : b = exe'.of \/ b \in Range(rest')
    BY <2>1, <2>2, RestRange DEF TypeOK, ProgramOK
  <2>4. Len(taken') = Len(taken) + 1
    BY <2>1 DEF Generate, TypeOK, ObserversOK
  <2>5. \A b : Built(d, b) => Built(d, b)'
    BY <1>20, <2>1, <2>2, <2>4, BuiltStays
  <2> QED
    BY <1>0, <1>1, <1>20, <2>1, <2>2, <2>3, <2>5 DEF Covered
<1>9. CASE SkipLibrary
  <2>1. rest' = Tail(rest) /\ UNCHANGED <<failed, phase, at, exe>>
    BY <1>9, Zenon DEF SkipLibrary, Raise, Active
  <2>2. /\ ~Generating /\ ~Generating' /\ Active /\ rest # <<>> /\ ~Instrumented(Head(rest))
        /\ phase' = "libraries" /\ UNCHANGED libraries
    BY <1>9, <2>1 DEF SkipLibrary, Generating, Active
  <2>3. \A b \in Range(rest) : Instrumented(b) => b \in Range(rest')
    BY <2>1, <2>2, RestRange DEF TypeOK, ProgramOK
  <2>4. \A b : Built(d, b) => Built(d, b)'
    BY <1>20, <2>1, <2>2, BuiltStays
  <2> QED
    BY <1>0, <1>1, <1>20, <2>1, <2>2, <2>3, <2>4 DEF Covered
<1>10. CASE CheckPath \/ CannotDelete \/ PathsChecked \/ NextTarget \/ Fails
  BY <1>10 DEF CheckPath, CannotDelete, PathsChecked, NextTarget, Fails, Raise, Active
<1>11. CASE Ended \/ UNCHANGED vars
  <2>1. UNCHANGED vars
    BY <1>11 DEF Ended
  <2>2. UNCHANGED <<at, rest, libraries, exe, phase>> /\ Active
    BY <2>1 DEF vars, Active
  <2>3. CASE Generating
    BY <1>2, <2>2, <2>3 DEF Generating, Covered, Active
  <2>4. CASE ~Generating
    <3>1. ~Generating' /\ \A b : Built(d, b) => Built(d, b)'
      BY <1>20, <2>2, <2>4, BuiltStays DEF Generating
    <3> QED
      BY <1>0, <1>1, <1>20, <2>2, <2>4, <3>1 DEF Generating, Covered
  <2> QED
    BY <2>3, <2>4
<1> QED
  BY <1>3, <1>4, <1>5, <1>6, <1>7, <1>8, <1>9, <1>10, <1>11 DEF Next


\* Only the end of the loop over its libraries finishes a target.
LEMMA FinishedBy ==
  ASSUME IInv, [Next]_vars, NEW i \in DOMAIN command, Finished(i)'
  PROVE  Finished(i) \/ (NextTarget /\ i = at)
<1>0. i \in Nat /\ i >= 1 /\ at \in Nat /\ failed \subseteq failed' /\ failed' \subseteq failed \cup {at}
  <2>1. failed' \subseteq failed \cup {at}
    BY DEF Next, vars, CheckPath, CannotDelete, PathsChecked, StartTarget, NextTarget,
           NotWrittenInC, CompileUnit, DefineExceptions, Link, Fails, Generated, BuildLibrary,
           SkipLibrary, Ended, Raise, Generate
  <2> QED
    BY <2>1, ObjectsFrom DEF IInv, TypeOK, InputOK, ProgramOK
<1>1. CASE CheckPath \/ CannotDelete \/ PathsChecked
  BY <1>0, <1>1 DEF CheckPath, CannotDelete, PathsChecked, Finished
<1>2. CASE NextTarget
  BY <1>0, <1>2 DEF NextTarget, Finished
<1>3. ASSUME Raise, phase \notin {"checking", "refused"}
      PROVE  Finished(i)
  BY <1>0, <1>3 DEF Raise, Finished
<1>4. ASSUME UNCHANGED <<at, failed>>, phase \notin {"checking", "refused"}
      PROVE  Finished(i)
  BY <1>4 DEF Finished
<1>5. CASE StartTarget \/ Fails \/ BuildLibrary
  BY <1>3, <1>4, <1>5 DEF StartTarget, Fails, BuildLibrary, Generate
<1>6. CASE Link
  BY <1>3, <1>4, <1>6, Zenon DEF Link
<1>7. CASE SkipLibrary
  BY <1>3, <1>4, <1>7, Zenon DEF SkipLibrary
<1>8. CASE NotWrittenInC \/ CompileUnit \/ DefineExceptions \/ Generated
  BY <1>4, <1>8 DEF NotWrittenInC, CompileUnit, DefineExceptions, Generated
<1>9. CASE Ended \/ UNCHANGED vars
  BY <1>9 DEF Ended, vars, Finished
<1> QED
  BY <1>1, <1>2, <1>5, <1>6, <1>7, <1>8, <1>9 DEF Next

LEMMA AllBuiltStep == IInv /\ Covered /\ AllBuilt /\ [Next]_vars => AllBuilt'
<1> SUFFICES ASSUME IInv, Covered, AllBuilt, [Next]_vars PROVE AllBuilt'
  OBVIOUS
<1> SUFFICES ASSUME NEW i \in DOMAIN command, Finished(i)', LastTime(i),
                    NEW b \in {command[i]} \cup {x \in Range(world[command[i]].libs) : Instrumented(x)},
                    NEW m \in DOMAIN world[b].units, NEW f \in Runs(b, m)
             PROVE  \A d : d = command[i] => Hooked(d, b, m, f)'
  <2>1. UNCHANGED <<world, command>>
    BY InputFixed
  <2>2. \A i : LastTime(i)' <=> LastTime(i)
    BY <2>1 DEF LastTime
  <2>3. \A b : (Instrumented(b)' <=> Instrumented(b)) /\ \A m : Runs(b, m)' = Runs(b, m)
    BY <2>1, DefinitionsFixed, UnitsFixed
  <2> QED
    BY <2>1, <2>2, <2>3 DEF AllBuilt
<1> USE DEF IInv
<1> TAKE d
<1> HAVE d = command[i]
<1>1. UNCHANGED <<world, command>> /\ command[i] \in Binaries /\ i \in Nat /\ at \in Nat
  BY InputFixed DEF TypeOK, InputOK, ProgramOK
<1>2. phase # "checking"
  BY <1>1, FinishedBy DEF Finished, NextTarget
<1>3. CASE Finished(i)
  <2>1. Hooked(d, b, m, f)
    BY <1>3 DEF AllBuilt
  <2>2. ~(d = Target /\ Link)
    <3>1. Link => at \in DOMAIN command
      BY DEF Link, TypeOK, InputOK, ProgramOK, Active
    <3> QED
      BY <1>1, <1>3, <3>1 DEF Finished, LastTime, Target
  <2>3. disk'[d].objects = disk[d].objects
    BY <1>1, <1>2, <2>2, ObjectsStay
  <2> QED
    BY <2>1, <2>3, HookedStays
<1>4. CASE NextTarget /\ i = at
  <2>1. Active /\ ~Generating /\ Range(rest) = {} /\ Target = d
    BY <1>4 DEF NextTarget, Active, Generating, Range, Target
  <2>2. Built(Target, b)
    BY <2>1 DEF Covered
  <2>3. Hooked(Target, b, m, f)
    BY <2>1, <2>2 DEF Built
  <2>4. Hooked(d, b, m, f)
    BY <2>1, <2>3
  <2> QED
    BY <1>4, <2>4, HookedStays DEF NextTarget
<1> QED
  BY <1>1, <1>3, <1>4, FinishedBy


-----------------------------------------------------------------------------
(* What the rebuild scripts link. *)

LEMMA AgedStep == IInv /\ TypeOK' /\ Aged /\ [Next]_vars => Aged'
<1> SUFFICES ASSUME IInv, TypeOK', Aged, [Next]_vars PROVE Aged'
  OBVIOUS
<1> USE DEF IInv
<1>0. UNCHANGED <<world, command>> /\ taken \in Seq([dir : Binaries, of : Binaries])
  BY InputFixed DEF TypeOK, ObserversOK
<1>1. ASSUME NEW b, NEW top, Generate(b, top), UNCHANGED disk
      PROVE  Aged'
  <2>1. /\ taken' = Append(taken, [dir |-> Target, of |-> b]) /\ exe'.of = b /\ Target' = Target
    BY <1>0, <1>1 DEF Generate, Executable, Target
  <2>2. /\ Len(taken') = Len(taken) + 1 /\ taken'[Len(taken')] = [dir |-> Target, of |-> b]
        /\ \A i \in DOMAIN taken : i \in DOMAIN taken' /\ taken'[i] = taken[i] /\ i < Len(taken')
        /\ taken' # <<>>
    BY <1>0, <2>1
  <2> QED
    BY <1>1, <2>1, <2>2 DEF Aged, Objects
<1>2. ASSUME UNCHANGED <<taken, disk>>, ~Generating'
      PROVE  Aged'
  BY <1>2 DEF Aged, Generating, Objects
<1>3. ASSUME UNCHANGED <<taken, at>>, phase' = "units" => phase = "units",
             \A d \in Binaries : disk'[d].objects \subseteq disk[d].objects,
             Generating' => Generating /\ exe'.of = exe.of
      PROVE  Aged'
  <2>1. Target' = Target
    BY <1>0, <1>3 DEF Target
  <2> QED
    BY <1>3, <2>1 DEF Aged, Objects
<1>4. CASE CheckPath
  <2>1. \A d \in Binaries : disk'[d].objects \subseteq disk[d].objects
    BY <1>4 DEF CheckPath, TypeOK, DiskOK, Empty
  <2> QED
    BY <1>4, <2>1 DEF CheckPath, Aged, Generating, Objects
<1>5. CASE StartTarget
  BY <1>1, <1>2, <1>5 DEF StartTarget, Raise, Generating
<1>6. CASE NotWrittenInC
  BY <1>3, <1>6 DEF NotWrittenInC, Generating, TypeOK, ProgramOK, ExecutableType
<1>7. CASE CompileUnit
  <2>1. exe'.of = exe.of /\ \A d \in Binaries : disk'[d].objects = disk[d].objects
    BY <1>7, UnitLinks, UnitWritten
  <2> QED
    BY <1>3, <1>7, <2>1 DEF CompileUnit, Generating
<1>8. CASE DefineExceptions
  <2>1. \A d \in Binaries : disk'[d].objects = disk[d].objects
    BY <1>8, ExceptionsWritten
  <2> QED
    BY <1>3, <1>8, <2>1 DEF DefineExceptions, Generating
<1>9. CASE Link
  <2>1. CASE Clash(SharedObject(Head(exe.links)).object)
    BY <1>2, <1>9, <2>1 DEF Link, Raise, Generating
  <2>2. CASE ~Clash(SharedObject(Head(exe.links)).object)
    <3>1. exe' = [exe EXCEPT !.links = Tail(@)] /\ UNCHANGED <<phase, at, taken>> /\ phase = "linking"
      BY <1>9, <2>2 DEF Link
    <3>2. exe'.of = exe.of /\ Target' = Target /\ Generating
      BY <1>0, <3>1 DEF TypeOK, ProgramOK, ExecutableType, Target, Generating
    <3>3. \A d \in Binaries : \A s \in disk'[d].objects :
            s \in disk[d].objects \/ (d = Target /\ s.of = exe.of)
      BY ObjectsFrom DEF SharedObject
    <3>4. Len(taken) \in DOMAIN taken /\ taken[Len(taken)] = [dir |-> Target, of |-> exe.of]
      BY <1>0, <3>2 DEF Aged
    <3> QED
      BY <3>1, <3>2, <3>3, <3>4 DEF Aged, Objects, Generating
  <2> QED
    BY <2>1, <2>2
<1>10. CASE BuildLibrary
  BY <1>1, <1>10 DEF BuildLibrary
<1>11. CASE SkipLibrary
  <2>1. UNCHANGED <<taken, disk>> /\ ~Generating'
    BY <1>11, Zenon DEF SkipLibrary, Raise, Generating
  <2> QED
    BY <1>2, <2>1
<1>12. CASE CannotDelete \/ PathsChecked \/ NextTarget \/ Fails \/ Generated
  BY <1>2, <1>12 DEF CannotDelete, PathsChecked, NextTarget, Fails, Generated, Raise, Generating
<1>13. CASE Ended \/ UNCHANGED vars
  BY <1>3, <1>13 DEF Ended, vars, Generating
<1> QED
  BY <1>4, <1>5, <1>6, <1>7, <1>8, <1>9, <1>10, <1>11, <1>12, <1>13 DEF Next

LEMMA RebuildSameStep == IInv /\ Aged /\ RebuildSame /\ [Next]_vars => RebuildSame'
<1> SUFFICES ASSUME IInv, Aged, RebuildSame, [Next]_vars,
                    NEW d \in Binaries, NEW s \in disk'[d].objects
             PROVE  \/ Linked(d, s.link)' = s.object
                    \/ \E i, j \in DOMAIN taken' : i < j /\ taken'[i] = [dir |-> d, of |-> s.of]
                                                   /\ taken'[j].dir = d
  BY DEF RebuildSame, Objects
<1> USE DEF IInv
<1>1. \A i \in DOMAIN taken : i \in DOMAIN taken' /\ taken'[i] = taken[i]
  BY TakenGrows
<1>2. CASE s \notin disk[d].objects
  <2>1. d = Target /\ s = SharedObject(Head(exe.links)) /\ phase = "linking" /\ exe.links # <<>>
    BY <1>2, ObjectsFrom
  <2>2. disk'[d].mutators = disk[d].mutators /\ disk'[d].sources = disk[d].sources
    <3>1. Link
      BY <1>2, <2>1, UnitWritten, ExceptionsWritten
         DEF Next, vars, CheckPath, CannotDelete, PathsChecked, StartTarget, NextTarget,
             NotWrittenInC, CompileUnit, DefineExceptions, Fails, Generated, BuildLibrary,
             SkipLibrary, Ended
    <3>2. ~Clash(SharedObject(Head(exe.links)).object)
      BY <1>2, <3>1 DEF Link
    <3> QED
      BY <3>1, <3>2, ObjectLinked
  <2> QED
    BY <2>1, <2>2 DEF SharedObject, Linked
<1>3. CASE s \in disk[d].objects /\ disk'[d].mutators = disk[d].mutators /\ disk'[d].sources = disk[d].sources
  BY <1>1, <1>3 DEF RebuildSame, Objects, Linked
<1>4. ASSUME s \in disk[d].objects, phase = "units", d = Target, UNCHANGED taken
      PROVE  \E i, j \in DOMAIN taken' : i < j /\ taken'[i] = [dir |-> d, of |-> s.of]
                                         /\ taken'[j].dir = d
  <2>1. taken \in Seq([dir : Binaries, of : Binaries]) /\ taken # <<>> /\ taken[Len(taken)].dir = d
    BY <1>4 DEF Aged, Generating, TypeOK, ObserversOK
  <2>2. Len(taken) \in DOMAIN taken
    BY <2>1
  <2> QED
    BY <1>4, <2>1, <2>2 DEF Aged, Objects
<1>5. CASE s \in disk[d].objects /\ CompileUnit
  <2>1. CASE d = Target
    BY <1>4, <1>5, <2>1 DEF CompileUnit
  <2>2. CASE d # Target
    BY <1>3, <1>5, <2>2 DEF CompileUnit, TypeOK, DiskOK
  <2> QED
    BY <2>1, <2>2
<1>6. CASE s \in disk[d].objects /\ DefineExceptions
  <2>1. CASE d = Target
    BY <1>4, <1>6, <2>1 DEF DefineExceptions
  <2>2. CASE d # Target
    BY <1>3, <1>6, <2>2 DEF DefineExceptions, TypeOK, DiskOK
  <2> QED
    BY <2>1, <2>2
<1>7. CASE s \in disk[d].objects /\ CheckPath
  <2>1. CASE disk'[d] = disk[d]
    BY <1>3, <1>7, <2>1
  <2>2. CASE disk'[d] = Empty
    BY <2>2 DEF Empty
  <2> QED
    BY <1>7, <2>1, <2>2 DEF CheckPath, TypeOK, DiskOK
<1>8. CASE s \in disk[d].objects /\ Link
  <2>1. CASE Clash(SharedObject(Head(exe.links)).object)
    BY <1>3, <1>8, <2>1 DEF Link
  <2>2. CASE ~Clash(SharedObject(Head(exe.links)).object)
    BY <1>3, <1>8, <2>2, ObjectLinked
  <2> QED
    BY <2>1, <2>2
<1>9. CASE s \in disk[d].objects /\ disk' = disk
  BY <1>3, <1>9
<1> QED
  BY <1>2, <1>5, <1>6, <1>7, <1>8, <1>9
     DEF Next, vars, CannotDelete, PathsChecked, StartTarget, NextTarget, NotWrittenInC, Fails,
         Generated, BuildLibrary, SkipLibrary, Ended
-----------------------------------------------------------------------------
OInv == IInv /\ Walked /\ Covered /\ Aged /\ FailsAlone /\ AllBuilt /\ RebuildSame

LEMMA InitOInv == Init => OInv
<1> SUFFICES ASSUME Init PROVE OInv
  OBVIOUS
<1>1. IInv
  BY InitIInv
<1>2. Walked /\ Covered
  BY DEF Init, Walked, Covered, Active, Generating
<1>3. Aged /\ RebuildSame
  BY DEF Init, Aged, RebuildSame, Objects, Empty, Generating
<1>4. FailsAlone /\ AllBuilt
  BY DEF Init, FailsAlone, AllBuilt, Finished
<1> QED
  BY <1>1, <1>2, <1>3, <1>4 DEF OInv

LEMMA OutcomeInvariant == Spec => []OInv
<1>1. OInv /\ [Next]_vars => OInv'
  <2> SUFFICES ASSUME OInv, [Next]_vars PROVE OInv'
    OBVIOUS
  <2>1. IInv' /\ TypeOK'
    BY StepIInv DEF OInv, IInv
  <2> QED
    BY <2>1, WalkedStep, CoveredStep, AgedStep, FailsAloneStep, AllBuiltStep, RebuildSameStep DEF OInv
<1> QED
  BY <1>1, InitOInv, PTL DEF Spec

\* A target whose binaries could be fuzzed were it alone on the command line is
\* not ended by an exception, unless a tool failed or the target before did.
THEOREM FailuresStay == Spec => []FailsAlone
<1>1. OInv => FailsAlone
  BY DEF OInv
<1> QED
  BY <1>1, OutcomeInvariant, PTL

\* Past a target that did not fail and does not come again, each function of it
\* and of its libraries that can be fuzzed has a shared object whose linkage and
\* runner are its own, or has lost it to a function of its name of a later unit
\* or of a binary generated later.
THEOREM EverythingBuilt == Spec => []AllBuilt
<1>1. OInv => AllBuilt
  BY DEF OInv
<1> QED
  BY <1>1, OutcomeInvariant, PTL

\* A rebuild script links the sources its object was made of, until another
\* generation into the same directory.
THEOREM RebuildsFaithful == Spec => []RebuildSame
<1>1. OInv => RebuildSame
  BY DEF OInv
<1> QED
  BY <1>1, OutcomeInvariant, PTL
=============================================================================
