---------------------------- MODULE TypeEmission ----------------------------
(***************************************************************************)
(* The header FFFC infers from the DWARF entries of one compile unit       *)
(* (dwarf_to_c.py): which types it declares and defines, in which order.   *)
(*                                                                         *)
(* get_named_types asks every named entry for its definition; a type asks, *)
(* before its own text is emitted, for the declaration or the definition   *)
(* of the types it is made from.  Those calls recurse through the graph of *)
(* types, which has cycles, so each operator below takes what the emission *)
(* has done so far and returns what it has done when the call returns;     *)
(* "ask" answers the calls it makes.  The emission is a record e of        *)
(*    status:  NEW, DECLARED or DONE of each type,                         *)
(*    made:    the types with an object, in order (offset_to_type_map),    *)
(*    linked:  the modifiers whose underlying_type is set,                 *)
(*    filled:  the types whose members or arguments are set,               *)
(*    header:  the statements of the inferred header,                      *)
(*    raised:  has an exception ended the target?                          *)
(***************************************************************************)
EXTENDS CTypes

CONSTANTS
  Graphs,         \* the type graphs to emit
  RecursionLimit  \* of calls within calls

ASSUME EmissionAssumption ==
  /\ RecursionLimit \in Nat \ {0}
  /\ \A g \in Graphs : WellFormed(g)

VARIABLES
  todo,       \* the named entries get_named_types has not come to
  emission,   \* the record e above
  mutable     \* the types that got a mutator, None before

vars == <<dies, todo, emission, mutable>>

Questions == {"touch", "declare", "define", "refer"}
Statuses  == {"NEW", "DECLARED", "DONE"}
Statements == [of : DOMAIN dies, form : {"declare", "define"}]
Emissions ==
  [status : [DOMAIN dies -> Statuses], made : Seq(DOMAIN dies), linked : SUBSET DOMAIN dies,
   filled : SUBSET DOMAIN dies, header : Seq(Statements), raised : BOOLEAN]

None == {"none yet"}

\* Mutant: DwarfPointerType loses its override.
NoPointers == {}

\* The modifiers that settle for a declaration (DwarfPointerType).
Pointers == {t \in DOMAIN dies : Kind(t) = "pointer"}

\* get_status: a modifier answers for the type it modifies.
Status(e, t) == e.status[Innermost(t)]

\* What comes of a step for each of a sequence in turn.
Each(step, x, ts) ==
  LET after[i \in 0 .. Len(ts)] == IF i = 0 THEN x ELSE step[<<after[i - 1], ts[i]>>]
  IN  after[Len(ts)]

Emitted(e, t, form) == [e EXCEPT !.header = Append(@, [of |-> t, form |-> form])]

\* A modifier's definition without a name is no statement at all unless it is
\* a qualified type's, which is printed as a reference.
Emit(e, t, form) ==
  IF e.raised \/ Kind(t) \in {"array", "pointer"} THEN e ELSE Emitted(e, t, form)

\* What may be asked of a type, and asks the same of others in turn: its name
\* or status (touch), declare, define, and the text of its reference.
Touch(ask, e, t)   == ask[<<"touch", e, t>>]
Declare(ask, e, t) == ask[<<"declare", e, t>>]
Define(ask, e, t)  == ask[<<"define", e, t>>]
Refer(ask, e, t)   == ask[<<"refer", e, t>>]

\* How a text is put together from the texts in it: a reference to what has a
\* name, the definition of what has not.
Use(ask, e, t) ==
  IF Named(t) THEN Refer(ask, Touch(ask, e, t), t) ELSE Define(ask, Touch(ask, e, t), t)

\* get_or_add_type.
Made(e, t) == IF t \in Range(e.made) THEN e ELSE [e EXCEPT !.made = Append(@, t)]

\* Mutant: pointers ask for nothing.
DependNot(ask, e, d) == Touch(ask, e, d)

\* Mutant: DONE is forgotten among the acceptable states.
DependDeclareDone(ask, e, d) ==
  LET f == Touch(ask, e, d)
  IN  IF Named(d) /\ Status(f, d) # "DECLARED" THEN Emit(Declare(ask, f, d), d, "declare") ELSE f

\* add_dependency_on_declaration
DependDeclare(ask, e, d) ==
  LET f == Touch(ask, e, d)
  IN  IF Named(d) /\ Status(f, d) = "NEW" THEN Emit(Declare(ask, f, d), d, "declare") ELSE f

\* Mutant: a declaration is good enough for a member.
DependDefineLax(ask, e, d) ==
  LET f == Touch(ask, e, d)
  IN  IF Named(d) /\ Status(f, d) = "NEW" THEN Emit(Define(ask, f, d), d, "define") ELSE f

\* Mutant: a definition is emitted wherever it is needed.
DependDefineAlways(ask, e, d) ==
  LET f == Touch(ask, e, d)
  IN  IF Named(d) /\ Kind(d) # "base" THEN Emit(Define(ask, f, d), d, "define") ELSE f

\* add_dependency, add_dependency_on_definition
DependDefine(ask, e, d) ==
  LET f == Touch(ask, e, d)
  IN  IF Named(d) /\ Status(f, d) # "DONE" THEN Emit(Define(ask, f, d), d, "define") ELSE f

UnderlyingDeclaration(ask, e, t) == DependDeclare(ask, Made(e, Target(t)), Target(t))

UnderlyingDefinition(ask, e, t) ==
  IF t \in Pointers THEN DependDeclare(ask, Made(e, Target(t)), Target(t))
                    ELSE DependDefine(ask, Made(e, Target(t)), Target(t))

LinkDeclared(ask, e, t) ==
  IF t \in e.linked THEN e
  ELSE LET d == UnderlyingDeclaration(ask, e, t) IN [d EXCEPT !.linked = @ \cup {t}]

LinkDefined(ask, e, t) ==
  IF t \in e.linked THEN e
  ELSE LET d == UnderlyingDefinition(ask, e, t) IN [d EXCEPT !.linked = @ \cup {t}]

-----------------------------------------------------------------------------
(* Structs, unions and enums *)

\* get_member_type and get_member_ast of one member.
Member(ask, e, m) ==
  LET f == Made(e, m)
  IN  Use(ask, IF Named(m) THEN DependDefine(ask, f, m) ELSE Touch(ask, f, m), m)

\* get_members, once.
Members(ask, e, t) ==
  IF t \in e.filled THEN e
  ELSE LET member == [p \in Emissions \X DOMAIN dies |-> Member(ask, p[1], p[2])]
       IN  [Each(member, e, dies[t].of) EXCEPT !.filled = @ \cup {t}]

DeclareStruct(e, t) == [e EXCEPT !.status[t] = "DECLARED"]

DefineStruct(ask, e, t) ==
  IF Kind(t) = "declared" THEN DeclareStruct(e, t)
  ELSE [Members(ask, e, t) EXCEPT !.status[t] = "DONE"]

DefineEnum(e, t) == [e EXCEPT !.status[t] = "DONE"]

DeclareBase(e, t) == [e EXCEPT !.status[t] = "DONE"]

-----------------------------------------------------------------------------
(* Functions *)

ReturnType(ask, e, t) == DependDefine(ask, Made(e, Target(t)), Target(t))

Argument(ask, e, a) == Refer(ask, DependDefine(ask, Made(e, a), a), a)

Arguments(ask, e, t) ==
  Each([p \in Emissions \X DOMAIN dies |-> Argument(ask, p[1], p[2])], e, Tail(dies[t].of))

\* _setup: each at most once.
Setup(ask, e, t) ==
  IF t \in e.filled THEN e
  ELSE [Arguments(ask, ReturnType(ask, e, t), t) EXCEPT !.filled = @ \cup {t}]

\* declare, define and the reference of a function are one.
DeclareFunction(ask, e, t) == [Refer(ask, Setup(ask, e, t), Target(t)) EXCEPT !.status[t] = "DONE"]

-----------------------------------------------------------------------------
(* Modifiers *)

\* A modifier's declare: the underlying type, at least declared.
DeclaredUnder(ask, e, t) ==
  LET l == LinkDeclared(ask, e, t)
  IN  IF Status(l, Target(t)) = "NEW" THEN UnderlyingDefinition(ask, l, t) ELSE l

\* A modifier's define: the underlying type, defined unless it is done.
DefinedUnder(ask, e, t) ==
  LET l == LinkDefined(ask, e, t)
  IN  IF Status(l, Target(t)) # "DONE" THEN UnderlyingDefinition(ask, l, t) ELSE l

DeclareQualified(ask, e, t) == Use(ask, DeclaredUnder(ask, e, t), Target(t))
DefineQualified(ask, e, t)  == Use(ask, DefinedUnder(ask, e, t), Target(t))
ReferQualified(ask, e, t)   == Use(ask, LinkDefined(ask, e, t), Target(t))

\* Without a name declare and define of an array build no text.
DeclareArray(ask, e, t) ==
  LET l == LinkDeclared(ask, e, t)
  IN  IF Status(l, Target(t)) = "NEW" THEN UnderlyingDeclaration(ask, l, t) ELSE l
DefineArray(ask, e, t) ==
  IF Named(t) THEN DefinedUnder(ask, e, t) ELSE Define(ask, DefinedUnder(ask, e, t), Target(t))
ReferArray(ask, e, t)  == Use(ask, LinkDefined(ask, e, t), Target(t))

DeclarePointer(ask, e, t) ==
  IF Named(t) THEN Declare(ask, DeclareArray(ask, e, t), Target(t))
  ELSE Define(ask, DeclareArray(ask, e, t), Target(t))
DefinePointer(ask, e, t) == DefineArray(ask, e, t)
ReferPointer(ask, e, t) == Use(ask, LinkDeclared(ask, e, t), Target(t))

EmitRefOrDefn(ask, e, t) ==
  LET u == Target(t)
  IN  IF Named(u) THEN Refer(ask, Touch(ask, e, u), u)
      ELSE [Define(ask, Touch(ask, e, u), u) EXCEPT !.status[u] = "DONE"]

DeclareTypedef(ask, e, t) ==
  EmitRefOrDefn(ask, [DeclaredUnder(ask, e, t) EXCEPT !.status[t] = "DECLARED"], t)
DefineTypedef(ask, e, t) ==
  EmitRefOrDefn(ask, [DefinedUnder(ask, e, t) EXCEPT !.status[t] = "DONE"], t)
ReferTypedef(ask, e, t)   == LinkDefined(ask, e, t)

-----------------------------------------------------------------------------
(* The name, declare, define and get_reference()(), of the class of the type *)

\* get_typename and get_status of a modifier look the underlying type up.
Touched(ask, e, t) == IF Modifier(t) THEN Touch(ask, LinkDeclared(ask, e, t), Target(t)) ELSE e

Declared(ask, e, t) ==
  CASE Kind(t) \in {"struct", "declared"} -> DeclareStruct(e, t)
    [] Kind(t) = "enum"                   -> DefineEnum(e, t)
    [] Kind(t) \in {"base", "unknown"}    -> DeclareBase(e, t)
    [] Kind(t) = "function"               -> DeclareFunction(ask, e, t)
    [] Kind(t) = "typedef"                -> DeclareTypedef(ask, e, t)
    [] Kind(t) = "qualified"              -> DeclareQualified(ask, e, t)
    [] Kind(t) = "array"                  -> DeclareArray(ask, e, t)
    [] Kind(t) = "pointer"                -> DeclarePointer(ask, e, t)

Defined(ask, e, t) ==
  CASE Kind(t) \in {"struct", "declared"} -> DefineStruct(ask, e, t)
    [] Kind(t) = "enum"                   -> DefineEnum(e, t)
    [] Kind(t) \in {"base", "unknown"}    -> DeclareBase(e, t)
    [] Kind(t) = "function"               -> DeclareFunction(ask, e, t)
    [] Kind(t) = "typedef"                -> DefineTypedef(ask, e, t)
    [] Kind(t) = "qualified"              -> DefineQualified(ask, e, t)
    [] Kind(t) = "array"                  -> DefineArray(ask, e, t)
    [] Kind(t) = "pointer"                -> DefinePointer(ask, e, t)

Referred(ask, e, t) ==
  CASE Kind(t) = "function"  -> DeclareFunction(ask, e, t)
    [] Kind(t) = "typedef"   -> ReferTypedef(ask, e, t)
    [] Kind(t) = "qualified" -> ReferQualified(ask, e, t)
    [] Kind(t) = "array"     -> ReferArray(ask, e, t)
    [] Kind(t) = "pointer"   -> ReferPointer(ask, e, t)
    [] OTHER                 -> e

Answer(ask, what, e, t) ==
  CASE what = "touch"   -> Touched(ask, e, t)
    [] what = "declare" -> Declared(ask, e, t)
    [] what = "define"  -> Defined(ask, e, t)
    [] what = "refer"   -> Referred(ask, e, t)

\* Calls within calls, up to Python's limit, n being left: nothing happens then.
\* What a call had done that ends so is lost with the target.
GivenUp(e) == [e EXCEPT !.raised = TRUE]

Answers ==
  LET answer[n \in 0 .. RecursionLimit] ==
        [q \in Questions \X Emissions \X DOMAIN dies |->
           IF q[2].raised \/ n = 0 THEN GivenUp(q[2])
           ELSE LET a == Answer(answer[n - 1], q[1], q[2], q[3])
                IN  IF a.raised THEN GivenUp(q[2]) ELSE a]
  IN  answer[RecursionLimit]

-----------------------------------------------------------------------------
\* Mutant: a function is DONE from the start, as base types are.
StartedFunctions ==
  [status |-> [t \in DOMAIN dies |-> IF Kind(t) \in {"base", "function"} THEN "DONE" ELSE "NEW"],
   made |-> <<>>, linked |-> {}, filled |-> {}, header |-> <<>>, raised |-> FALSE]

Started ==
  [status |-> [t \in DOMAIN dies |-> IF Kind(t) = "base" THEN "DONE" ELSE "NEW"],
   made |-> <<>>, linked |-> {}, filled |-> {}, header |-> <<>>, raised |-> FALSE]

\* All the loop does with a base type it knows is pass over it.
NamedEntries == {t \in DOMAIN dies : dies[t].named /\ Kind(t) # "base"}

\* iter_DIEs gives the entries in the order the compiler wrote them: any.
Init ==
  /\ dies \in Graphs /\ Compiles
  /\ todo \in SetToSeqs(NamedEntries)
  /\ emission = Started
  /\ mutable = None

\* Mutant: what was declared is taken for done.
NamedTypeNew ==
  /\ todo # <<>> /\ ~emission.raised
  /\ LET t == Head(todo)
         e == Made(emission, t)
     IN  emission' = IF Status(e, t) # "NEW" THEN e ELSE Emit(Define(Answers, e, t), t, "define")
  /\ todo' = Tail(todo)
  /\ UNCHANGED <<dies, mutable>>

\* One round of the loop of get_named_types.
NamedType ==
  /\ todo # <<>> /\ ~emission.raised
  /\ LET t == Head(todo)
         e == Made(emission, t)
     IN  emission' = IF Status(e, t) = "DONE" THEN e ELSE Emit(Define(Answers, e, t), t, "define")
  /\ todo' = Tail(todo)
  /\ UNCHANGED <<dies, mutable>>

\* write_header prints the statements.  The name of a base type that is like
\* none FFFC knows is None, which cannot be printed.
Unprintable(e) == \E i \in DOMAIN e.header : Kind(e.header[i].of) = "unknown"

\* What the template of a type asks for: its text, and that of the type below.
Templated(ask, e, t) ==
  IF Modifier(t) \/ Kind(t) = "typedef" THEN Use(ask, Use(ask, e, t), Target(t)) ELSE Use(ask, e, t)

\* One type: left out unless it is done, e being the emission once its status
\* has been looked up.
GeneratedFor(types, e, t) ==
  IF Kind(t) = "base" \/ Status(e, t) # "DONE" THEN [e |-> e, types |-> types]
  ELSE [e |-> Templated(Answers, e, t), types |-> types \cup {t}]

\* generate_mutator_for_cu goes through get_mutable_types, which goes through
\* the dictionary of types as the templates find it.
Generations == [e : Emissions, types : SUBSET DOMAIN dies]
Generated(e) ==
  LET generate == [p \in Generations \X DOMAIN dies |->
                     GeneratedFor(p[1].types, Touch(Answers, p[1].e, p[2]), p[2])]
  IN  Each(generate, [e |-> e, types |-> {}], e.made)

\* A type made meanwhile ends the loop with a RuntimeError.
Keep(s) ==
  /\ emission' = [s.e EXCEPT !.raised = @ \/ s.e.made # emission.made]
  /\ mutable' = s.types

Mutators ==
  /\ todo = <<>> /\ ~emission.raised /\ mutable = None
  /\ IF Unprintable(emission)
     THEN emission' = [emission EXCEPT !.raised = TRUE] /\ UNCHANGED mutable
     ELSE Keep(Generated(emission))
  /\ UNCHANGED <<dies, todo>>

Ended == (emission.raised \/ mutable # None) /\ UNCHANGED vars

Next == NamedType \/ Mutators \/ Ended

Spec == Init /\ [][Next]_vars
-----------------------------------------------------------------------------
(* Properties *)

Printed == todo = <<>> /\ ~emission.raised

\* Every typedef name is stated before the statements that use it, and a tag
\* before it is first met in a parameter list, where it would be local: the
\* order in which get_named_types reaches the types, through whatever cycle,
\* makes no difference.  It does for a definition that asks for itself.
DeclaredBeforeUse ==
  Printed => /\ NamesKnown(emission.header) \/ Circular
             /\ TagsVisible(emission.header)

\* A struct is complete before it is a member or an element, although a pointer
\* on the way may have settled for its declaration.  An array below a pointer,
\* or below a typedef that a modifier modifies, is the one place where the code
\* is content with the declaration.
CompleteBeforeUse ==
  Printed /\ ~EarlyArrays => NeedsComplete(emission.header)

\* A statement that is not C, the const pointer without a name, is emitted only
\* while what it points to is incomplete, unless a definition asks for itself.
OnlyEarlyConstPointers ==
  Printed => \/ \A i \in DOMAIN emission.header :
                  \/ Specifier(emission.header[i].of)
                  \/ Innermost(emission.header[i].of) \notin Completed(emission.header, i)
             \/ Circular

\* Pointers break every cycle: the emission of a C program none of whose
\* definitions asks for itself ends, whatever the order, unless a base type is
\* unknown.
CyclesBroken ==
  emission.raised => Circular \/ \E t \in DOMAIN dies : Kind(t) = "unknown"

\* What is left incomplete is what the unit leaves incomplete, and pointers to
\* it: define_exceptions has no mutator for anything else.
IncompleteOnlyOpaque ==
  mutable # None /\ ~emission.raised =>
    \A t \in Range(emission.made) :
      Status(emission, t) # "DONE" <=> Kind(Innermost(t)) = "declared"

\* By the time mutators are generated every type has been met: the dictionary
\* get_mutable_types goes through does not grow under it.
NothingToDiscover == [][mutable' # None => emission'.made = emission.made]_vars

\* A type that was defined is never declared again, nor a declared one new.
StatusNeverFalls ==
  [][\A t \in DOMAIN dies :
       \/ emission.status[t] = "NEW"
       \/ emission'.status[t] \in {emission.status[t], "DONE"}]_vars
=============================================================================
