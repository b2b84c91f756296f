---------------------------- MODULE MutationLog ----------------------------
(***************************************************************************)
(* What a mutation log means: the child that writes it and the process     *)
(* that replays it (the proxy in fffc_runner.c; logging, replay and        *)
(* fffc_maybe_munge_pointer in fffc_runtime.c).                            *)
(*                                                                         *)
(* One line of descent: an execution, a child of a later generation that   *)
(* starts from its log, and so on.  The target has one pointer argument,   *)
(* to an allocation of a few elements.  Each child is a fork of the same   *)
(* worker image.  It may resize the argument, replays its log, which by    *)
(* then ends with the events of that resizing, mutates the elements and    *)
(* calls the target.  A debug replay only replays.                         *)
(*                                                                         *)
(* External: malloc gives the addresses of one size class in a fixed       *)
(* order, so an address is the number of the allocation; AddressSanitizer  *)
(* aborts a process whose memcpy leaves an allocation.                     *)
(***************************************************************************)
EXTENDS Integers, Sequences, FiniteSets, SequencesExt

CONSTANTS
  Argument,       \* the elements behind the pointer when the target is called
  Values,         \* what a mutator may make of an element
  Garbage,        \* what malloc leaves in an element
  Generations     \* bound: length of the line of descent

ASSUME LogAssumption ==
  /\ Argument # <<>> /\ Argument \in Seq(Range(Argument))
  /\ Values # {} /\ Generations \in Nat \ {0}

VARIABLES
  generation,  \* of the current execution
  stage,       \* where its child is
  log,         \* the events in its log file
  offset,      \* in events, of the descriptor the worker and its child share
  inherited,   \* how many of them it was given
  memory,      \* [pointer, heap, alive]: the child's memory
  element      \* the element the mutator has come to

vars == <<generation, stage, log, offset, inherited, memory, element>>

-----------------------------------------------------------------------------
(* Events; a place is <<allocation, offset>> *)

Original     == 1
OriginalSize == Len(Argument)
Pointer      == <<0, 0>>

Begin               == [type |-> "begin"]
Allocate(length)    == [type |-> "allocate", length |-> length]
Copy(to, from, len) == [type |-> "copy", to |-> to, from |-> from, length |-> len]
Write(at, value)    == [type |-> "write", at |-> at, value |-> value]

Within(m, at, len) ==
  at[1] \in DOMAIN m.heap /\ at[2] + len <= Len(m.heap[at[1]])

Abort(m) == [m EXCEPT !.alive = FALSE]

DoAllocate(m, e) == [m EXCEPT !.heap = Append(@, [i \in 1 .. e.length |-> Garbage])]

DoCopy(m, e) ==
  IF Within(m, e.from, e.length) /\ Within(m, e.to, e.length)
    THEN [m EXCEPT !.heap[e.to[1]] =
            [i \in DOMAIN @ |-> IF i - e.to[2] \in 1 .. e.length
                                  THEN m.heap[e.from[1]][i - e.to[2] + e.from[2]]
                                  ELSE @[i]]]
    ELSE Abort(m)

DoWrite(m, e) ==
  IF e.at = Pointer THEN [m EXCEPT !.pointer = e.value]
  ELSE IF Within(m, e.at, 1) THEN [m EXCEPT !.heap[e.at[1]][e.at[2] + 1] = e.value]
  ELSE Abort(m)

\* replay_event; a process that is dead stays as it is.
Apply(m, e) ==
  IF ~m.alive THEN m
  ELSE CASE e.type = "begin"    -> m
         [] e.type = "allocate" -> DoAllocate(m, e)
         [] e.type = "copy"     -> DoCopy(m, e)
         [] e.type = "write"    -> DoWrite(m, e)

\* Memory after each number of the events, in their order, and after all.
Memories(m, events) ==
  LET after[n \in 0 .. Len(events)] ==
        IF n = 0 THEN m ELSE Apply(after[n - 1], events[n])
  IN  after

ApplyAll(m, events) == Memories(m, events)[Len(events)]

\* Memory when the target is called, and what a debug replay makes of it.
Start == [pointer |-> Original, heap |-> <<Argument>>, alive |-> TRUE]

DebugReplay == ApplyAll(Start, log)

\* Mutant: the length of an allocation is recorded short.
RecordedShort(events) ==
  [i \in DOMAIN events |-> IF events[i].type = "allocate"
                             THEN [events[i] EXCEPT !.length = @ - 1] ELSE events[i]]

\* What the log functions record of the operations the child performed.
Recorded(events) == events

\* write: the events go to the offset at, over what is there.
PutAt(file, at, events) ==
  SubSeq(file, 1, at) \o events \o SubSeq(file, at + Len(events) + 1, Len(file))

\* Mutant: the write is not preceded by a seek to the end.
NoSeek(at, file) == at

\* lseek64(log_fd, 0, SEEK_END), from wherever the offset is.
SeekEnd(at, file) == Len(file)

\* lseek64(log_fd, 0, SEEK_SET).
SeekStart(at) == 0

\* write_event_to_log, for each of the events: a seek, then a write, which
\* moves the offset behind it.
LogEvents(events) ==
  /\ log' = PutAt(log, SeekEnd(offset, log), events)
  /\ offset' = SeekEnd(offset, log) + Len(events)

\* What reads to the end of the file return.
Unread(at) == SubSeq(log, at + 1, Len(log))

-----------------------------------------------------------------------------
Init ==
  /\ generation = 1 /\ stage = "fork"
  /\ log = <<Begin>> /\ offset = 1 /\ inherited = 1
  /\ memory = Start /\ element = 0

\* fffc_time_to_resize says no, or time_to_resize_pointer does.
NoResize ==
  /\ stage = "fork" /\ stage' = "replay"
  /\ UNCHANGED <<generation, log, offset, inherited, memory, element>>

\* fffc_maybe_munge_pointer: a new allocation of count elements, filled from
\* element first of the old one to its end and again from its beginning.  The
\* second copy may ask for more than there is.
Resize(count, first) ==
  LET new    == <<Len(memory.heap) + 1, 0>>
      len1   == IF OriginalSize - first < count THEN OriginalSize - first ELSE count
      len2   == count - len1
      ops    == <<Allocate(count),
                  Copy(new, <<Original, first>>, len1),
                  Copy(<<new[1], len1>>, <<Original, 0>>, len2),
                  Write(Pointer, new[1])>>
      inside == len2 <= OriginalSize
      done   == IF inside THEN ops ELSE SubSeq(ops, 1, 2)
  IN  /\ stage = "fork"
      /\ stage' = IF inside THEN "replay" ELSE "overread"
      /\ LogEvents(Recorded(done))
      /\ memory' = ApplyAll(memory, done)
      /\ UNCHANGED <<generation, inherited, element>>

\* fffc_replay_log, from the first event on, which leaves the offset at the
\* end.  The proxy ignores its result, but an abort ends the child.
Replay ==
  /\ stage = "replay"
  /\ memory' = ApplyAll(memory, Unread(SeekStart(offset)))
  /\ offset' = Len(log)
  /\ stage' = IF memory'.alive THEN "mutate" ELSE "aborted"
  /\ element' = 1
  /\ UNCHANGED <<generation, log, inherited>>

Size == Len(memory.heap[memory.pointer])

\* Mutant: the event is built before the element is changed.
WrittenBefore(v) ==
  Write(<<memory.pointer, element - 1>>, memory.heap[memory.pointer][element])

Written(v) == Write(<<memory.pointer, element - 1>>, v)

\* The pointer mutator visits every element; the mutator of the element type
\* writes it and logs what is there now ...
MutateElement(v) ==
  /\ stage = "mutate" /\ element <= Size
  /\ memory' = [memory EXCEPT !.heap[memory.pointer][element] = v]
  /\ LogEvents(<<Written(v)>>)
  /\ element' = element + 1
  /\ UNCHANGED <<generation, stage, inherited>>

\* ... or leaves it and logs nothing.
SkipElement ==
  /\ stage = "mutate" /\ element <= Size
  /\ element' = element + 1
  /\ UNCHANGED <<generation, stage, log, offset, inherited, memory>>

Call ==
  /\ stage = "mutate" /\ element > Size
  /\ stage' = "call"
  /\ UNCHANGED <<generation, log, offset, inherited, memory, element>>

\* Mutant: every log gets a BEGIN event, copied or not.
ChildLogBegun == Append(log, Begin)

\* The target returned; a child of a later generation gets a copy of the log.
\* copy_file writes it through descriptors of its own, so the one the worker
\* has opened for the new log is still at its beginning.
ChildLog == log

NextGeneration ==
  /\ stage = "call" /\ generation < Generations
  /\ generation' = generation + 1 /\ stage' = "fork"
  /\ log' = ChildLog /\ offset' = 0 /\ inherited' = Len(log')
  /\ memory' = Start /\ element' = 0

\* The line of descent ends: at its bound or with a crash.
Ended ==
  /\ stage \in {"overread", "aborted"} \/ (stage = "call" /\ generation = Generations)
  /\ UNCHANGED vars

Next ==
  \/ NoResize \/ Replay \/ SkipElement \/ Call \/ NextGeneration \/ Ended
  \/ \E count \in 1 .. 2 * OriginalSize, first \in 0 .. OriginalSize - 1 : Resize(count, first)
  \/ \E v \in Values : MutateElement(v)

Spec == Init /\ [][Next]_vars

-----------------------------------------------------------------------------
(* Properties *)

Allocations(events) == {i \in DOMAIN events : events[i].type = "allocate"}

\* What the target can see of its argument.
Visible(m) == <<m.pointer, m.heap[m.pointer], m.heap[Original]>>

\* The process is where the log says it is.
SameAsDebug == DebugReplay.alive /\ Visible(DebugReplay) = Visible(memory)

\* Replaying a saved log gives the call the argument it was executed with
\* (README.md: "exactly reexecute the mutations which FFFC applied"), although
\* the child did not get there by replaying it: its resize pass came before
\* the replay of its parent's events.  It holds unless both the child and one
\* of its ancestors resized.
ReplayExact ==
  stage = "call" =>
    \/ SameAsDebug
    \/ /\ Allocations(SubSeq(log, 1, inherited)) # {}
       /\ Allocations(SubSeq(log, inherited + 1, Len(log))) # {}

\* The same without the exception.
ReplayAlwaysExact == stage = "call" => SameAsDebug

\* A child is not killed by replaying what its parent did without being
\* killed, unless the line has resized more than once.
ReplaySurvives == stage = "aborted" => Cardinality(Allocations(log)) > 1

\* A log has one BEGIN event, the first, however often it was copied: replay
\* and debug replay check only that one.
BeginOnce == \A i \in DOMAIN log : log[i].type = "begin" <=> i = 1

\* A child never writes over an event, inherited or its own, wherever opening,
\* resizing and replaying have left the offset the writes start from.
KeepsInherited == [][IsPrefix(log, log')]_log

\* The resize pass reads only the allocation it is about to replace.
ResizeInside == stage # "overread"
=============================================================================
