--------------------------- MODULE MutationEngine ---------------------------
(***************************************************************************)
(* The generated mutator at work on one argument (fffc_runner.c): the      *)
(* worker walks it once to count the choices there are, and the child it   *)
(* forks walks it in the mode for resizing, when the dice say so, and then *)
(* in the normal mode.  Each mutator of a value asks fffc_pick_one_or_none *)
(* of fffc_runtime.c what to do.  Each walk draws its own random values.   *)
(*                                                                         *)
(* Every child starts from the same worker, so one is enough.              *)
(***************************************************************************)
EXTENDS MutatorBody, Integers

CONSTANT CounterSize   \* mutation_counter is unsigned: it is counted modulo this

ASSUME EngineAssumption == CounterSize \in Nat \ {0}

VARIABLES
  mode,      \* FFFC_WORKER_STATE.mode
  counter,   \* FFFC_WORKER_STATE.mutation_counter
  pc,        \* the next statement of the mutator
  drawn,     \* the values of its random variables
  changed,   \* the members whose value may not be the target's any more
  logged,    \* those whose address fffc_log_write has been given
  forced,    \* observer: the members mutated because their turn came
  walked     \* observer: [mode -> the members walked in it, in order]

walk == <<mode, counter, pc, drawn, changed, logged, forced, walked>>
vars == <<generation, walk>>

NotWalked == [m \in {"count", "resize", "normal"} |-> <<>>]

EngineInit ==
  /\ Init
  /\ mode = "count" /\ counter = 0 /\ pc = 1 /\ drawn = <<>>
  /\ changed = {} /\ logged = {} /\ forced = {} /\ walked = NotWalked

Generating == Generate /\ UNCHANGED walk

Running == phase = "made" /\ pc <= Len(body)
Now     == body[pc]

Options == MemberAt(Now.of).options
-----------------------------------------------------------------------------
(* fffc_pick_one_or_none *)

\* Anything not positive is none.  In the modes for counting and resizing there
\* is nothing to choose.
AnyChoice    == {-1} \cup 0 .. Options - 1
ForcedChoice == 0 .. Options - 1

\* Mutant: the modes are forgotten.
NoChoiceAny == AnyChoice

NoChoice == {-1}

\* Mutant: the last choice counted is not enough.
DueLate == 0 < counter /\ counter < Options

\* Is this the member the counter has been counting down to?
Due == 0 < counter /\ counter <= Options

Pick(choice) ==
  CASE mode = "resize" -> /\ choice \in NoChoice /\ UNCHANGED forced
                          /\ counter' = (counter + CounterSize - Options) % CounterSize
    [] mode = "count"  -> /\ choice \in NoChoice /\ UNCHANGED forced
                          /\ counter' = (counter + Options) % CounterSize
    [] mode = "normal" /\ Due  -> choice \in ForcedChoice /\ counter' = 0 /\ forced' = forced \cup {Now.of}
    [] mode = "normal" /\ ~Due -> /\ choice \in AnyChoice /\ UNCHANGED forced
                                 /\ counter' = IF counter = 0 THEN 0 ELSE counter - Options
-----------------------------------------------------------------------------
(* The statements of the mutator *)

Step  == pc' = pc + 1 /\ UNCHANGED <<generation, mode>>
Visit == walked' = [walked EXCEPT ![mode] = Append(@, Now.of)]

DrawValue ==
  /\ Running /\ Now.op = "draw"
  /\ \E v \in 0 .. Now.range - 1 :
       drawn' = [k \in DOMAIN drawn \cup {Now.var} |-> IF k = Now.var THEN v ELSE drawn[k]]
  /\ Step /\ UNCHANGED <<counter, changed, logged, forced, walked>>

Selected == Now.guard # <<>> => drawn[Now.guard[1]] = Now.guard[2]

NotSelected ==
  /\ Running /\ Now.op = "call" /\ ~Selected
  /\ Step /\ UNCHANGED <<counter, drawn, changed, logged, forced, walked>>

\* The mutator of an enum asks nobody, in any mode, and logs nothing.
AssignValue ==
  /\ Running /\ Now.op = "assign"
  /\ changed' = changed \cup {Now.of}
  /\ Step /\ Visit /\ UNCHANGED <<counter, drawn, logged, forced>>

\* Mutant: the last choice returns before it is logged.
LogsLess(choice) == 0 < choice /\ choice < Options - 1 /\ Now.op = "call"

Logs(choice) == 0 < choice /\ Now.op = "call"

\* A mutator of base_mutators.c.  It logs the address it was given, which is a
\* temporary's if the member is copied.
CallMutator ==
  /\ Running /\ Now.op \in {"call", "copy"} /\ Selected
  /\ \E choice \in AnyChoice :
       /\ Pick(choice)
       /\ changed' = IF 0 < choice THEN changed \cup {Now.of} ELSE changed
       /\ logged'  = IF Logs(choice) THEN logged \cup {Now.of} ELSE logged
  /\ Step /\ Visit /\ UNCHANGED drawn

\* The end of a walk: of the worker's, the child's first or the child's last.
EndWalk ==
  /\ phase = "made" /\ pc > Len(body)
  /\ \/ mode = "count" /\ mode' \in {"resize", "normal"} /\ UNCHANGED phase
     \/ mode = "resize" /\ mode' = "normal" /\ UNCHANGED phase
     \/ mode = "normal" /\ phase' = "called" /\ UNCHANGED mode
  /\ pc' = 1 /\ drawn' = <<>>
  /\ UNCHANGED <<shapes, at, context, frames, body, counter, changed, logged, forced, walked>>

\* The mutator of the next type is generated.
NextType ==
  /\ phase = "called"
  /\ phase' = "inject" /\ at' = at + 1
  /\ mode' = "count" /\ counter' = 0
  /\ changed' = {} /\ logged' = {} /\ forced' = {} /\ walked' = NotWalked
  /\ UNCHANGED <<shapes, context, frames, body, pc, drawn>>

Ended == phase = "inject" /\ at > Len(shapes) /\ UNCHANGED vars

Next ==
  \/ Generating \/ DrawValue \/ NotSelected \/ AssignValue \/ CallMutator \/ EndWalk
  \/ NextType \/ Ended

Spec == EngineInit /\ [][Next]_vars
-----------------------------------------------------------------------------
(* Properties *)

\* An anonymous struct or enum in the union, or in one directly in it.
Loose(q) ==
  \E p \in Paths : /\ Under(q, p) /\ MemberAt(p).kind \in {"struct", "enum"}
                   /\ \A r \in Above(p) : Len(r) > Len(q) => MemberAt(r).kind = "union"

\* A walk mutates one member of a union at most, except for anonymous structs and
\* enums, which it always mutates, and whatever the other walks have chosen.
OneMember ==
  \A m \in DOMAIN walked : \A i, j \in DOMAIN walked[m] :
    LET p == walked[m][i]
        r == walked[m][j]
    IN  \A q \in UnionsAbove(p) \cap UnionsAbove(r) :
          p[Len(q) + 1] = r[Len(q) + 1] \/ Loose(q)

\* Counting and resizing leave the values as they are, except an enum's.  What the
\* worker changes when it counts, all of its children start from.
CountingKeeps == mode \in {"count", "resize"} => \A p \in changed : KindAt(p) = "enum"

\* A replay of the log restores every value that was changed, except an enum's and
\* a bitfield's, for which it writes where the temporary was.
ChangesLogged ==
  \A p \in changed \ logged : KindAt(p) = "enum" \/ MemberAt(p).bits

ChoicesOf(p) == IF KindAt(p) = "enum" THEN 0 ELSE MemberAt(p).options

\* The choices of the members of a walk up to the n-th.
Asked(m, n) ==
  LET asked[k \in 0 .. n] ==
        IF k = 0 THEN 0 ELSE asked[k - 1] + ChoicesOf(walked[m][k])
  IN  asked[n]
All(m) == Asked(m, Len(walked[m]))

\* The normal walk forces a mutation of the first member at which it has come to
\* as many choices as were counted, less those of the walk for resizing, and of
\* no other.  If the walks have drawn the same that is the last one, or none at
\* all after resizing; if not, the difference may be negative and wrap around.
ForcesWhatWasCounted ==
  phase = "called" =>
    LET credit == (All("count") + CounterSize - All("resize")) % CounterSize
        due    == {n \in DOMAIN walked["normal"] : credit > 0 /\ Asked("normal", n) >= credit}
    IN  forced = {walked["normal"][n] : n \in {k \in due : \A j \in due : k <= j}}
=============================================================================
