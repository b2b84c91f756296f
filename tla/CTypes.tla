------------------------------- MODULE CTypes -------------------------------
(***************************************************************************)
(* The types of one compile unit as its DWARF entries describe them, the   *)
(* C text they are printed as, and what C asks of a header made of such    *)
(* texts.  Nothing here moves: TypeEmission adds the emission.             *)
(*                                                                         *)
(* An entry is [kind, named, of], "of" being the entries it is made from:  *)
(* the members of a struct or union, the result and then the parameters of *)
(* a function, the one type a modifier modifies.  A text is abstracted to  *)
(* what it asks of the text before it.                                     *)
(***************************************************************************)
EXTENDS Naturals, Sequences, FiniteSets, SequencesExt, FiniteSetsExt

VARIABLE dies    \* [entry -> [kind, named, of]]

Kind(t)   == dies[t].kind
Target(t) == dies[t].of[1]

\* The subclasses of DwarfModifierType whose name and status are those of the
\* type they modify: all but typedefs.
Modifiers   == {"qualified", "array", "pointer"}
Modifier(t) == Kind(t) \in Modifiers

\* What DWARF says of any unit.  Structs, enums, functions and modifiers may do
\* without a name, modifiers always do; a function that has one is a subprogram,
\* of which no type is made.
Kinds == {"base", "unknown", "declared", "struct", "enum", "function", "typedef"} \cup Modifiers

WellFormed(g) ==
  /\ IsFiniteSet(DOMAIN g)
  /\ \A t \in DOMAIN g :
       /\ g[t] \in [kind : Kinds, named : BOOLEAN, of : Seq(DOMAIN g)]
       /\ g[t].kind \in Modifiers => ~g[t].named
       /\ g[t].kind \in {"base", "unknown", "declared", "typedef"} => g[t].named
       /\ g[t].kind \in {"base", "unknown", "declared", "enum"} => g[t].of = <<>>
       /\ g[t].kind \in Modifiers \cup {"typedef"} => Len(g[t].of) = 1
       /\ g[t].kind = "function" => g[t].of # <<>>
       /\ \A u \in Range(g[t].of) : ~(g[u].kind = "function" /\ g[u].named)

\* Where the types of these kinds lead, from one to the type it is made from.
End(kinds, t) ==
  LET end[u \in DOMAIN dies] == IF Kind(u) \in kinds THEN end[Target(u)] ELSE u
  IN  end[t]

Innermost(t) == End(Modifiers, t)

\* Has get_typename() an answer?
Named(t) == dies[Innermost(t)].named

\* What a use of the type as an object has to have complete.
Tagged     == {t \in DOMAIN dies : dies[t].named /\ Kind(t) \in {"struct", "declared", "enum"}}
ByValue(t) == {End({"qualified", "typedef"}, t)} \cap Tagged

-----------------------------------------------------------------------------
(* Texts *)

\* names: the typedef names in it; tags: the tags it mentions, protos: those it
\* mentions in a parameter list only; needs: what must be complete before it;
\* top: what must be complete for an object of this type.
Plain == [names |-> {}, tags |-> {}, protos |-> {}, needs |-> {}, top |-> {}]

Join(texts) ==
  [f \in DOMAIN Plain |-> UNION {x[f] : x \in texts}]

Behind(x)   == [x EXCEPT !.top = {}]
Elements(x) == [x EXCEPT !.needs = @ \cup x.top, !.top = {}]
Params(x)   == [x EXCEPT !.protos = @ \cup x.tags, !.tags = {}, !.top = {}]

\* build_ast: a named type is printed as a reference, an anonymous one in full.
BodyOf(text, t)      == Join({Elements(text[m]) : m \in Range(dies[t].of)})
PrototypeOf(text, t) ==
  Join({Behind(text[Target(t)])} \cup {Params(text[p]) : p \in Range(Tail(dies[t].of))})
TagOf(t)  == [Plain EXCEPT !.tags = {t}, !.top = {t}]
NameOf(t) == [Plain EXCEPT !.names = {t}, !.top = ByValue(t)]
TextIn(text, t) ==
  CASE t \in Tagged         -> TagOf(t)
    [] Kind(t) = "typedef"   -> NameOf(t)
    [] Kind(t) = "function"  -> PrototypeOf(text, t)
    [] Kind(t) = "pointer"   -> Behind(text[Target(t)])
    [] Kind(t) = "array"     -> Elements(text[Target(t)])
    [] Kind(t) = "qualified" -> text[Target(t)]
    [] OTHER                 -> BodyOf(text, t)

Texts   == LET text[t \in DOMAIN dies] == TextIn(text, t) IN text
Text(t) == Texts[t]
Body(t) == BodyOf(Texts, t)

\* A statement of the header: what it states and how.
TextOf(s) ==
  CASE s.form = "define" /\ Kind(s.of) = "struct" -> Body(s.of)
    [] Kind(s.of) = "typedef"                     -> Text(Target(s.of))
    [] OTHER                                      -> Text(s.of)

\* Is the type, without a declarator, a statement on its own?  "const struct A;"
\* is, if useless; "struct A *const;" is not.
Specifier(t) == ~Modifier(End({"qualified"}, t))

-----------------------------------------------------------------------------
(* What C asks *)

\* Stated by the statements before the i-th.
Typedefs(header, i) == {header[j].of : j \in {k \in 1 .. i - 1 : Kind(header[k].of) = "typedef"}}
Completes(s) == Kind(s.of) = "enum" \/ (s.form = "define" /\ Kind(s.of) # "declared")
Completed(header, i) == {header[j].of : j \in {k \in 1 .. i - 1 : Completes(header[k])}}
Tags(header, i) == UNION {TextOf(header[j]).tags \cup {header[j].of} : j \in 1 .. i - 1}

NamesKnown(header)    == \A i \in DOMAIN header : TextOf(header[i]).names \subseteq Typedefs(header, i)
NeedsComplete(header) == \A i \in DOMAIN header : TextOf(header[i]).needs \subseteq Completed(header, i)
StatementsParse(header) == \A i \in DOMAIN header : Specifier(header[i].of)
TagsVisible(header)   ==
  \A i \in DOMAIN header : TextOf(header[i]).protos \subseteq Tags(header, i) \cup {header[i].of}

-----------------------------------------------------------------------------
(* The types of a C program *)

\* A set every element of which has a next one in it would hold a cycle.
Acyclic(next) ==
  ~\E S \in SUBSET DOMAIN next : S # {} /\ \A t \in S : next[t] \cap S # {}

\* What the program's own text of a named definition asks to stand before it.
Source(t) == IF Kind(t) = "typedef" THEN Text(Target(t)) ELSE Body(t)

Stated == {t \in DOMAIN dies : Kind(t) \in {"struct", "typedef", "enum"} /\ dies[t].named}

\* Only the tag of a struct can stand for a type before its definition ...
TagsBreakCycles ==
  Acyclic([t \in DOMAIN dies |->
             IF Kind(t) = "struct" /\ dies[t].named THEN {} ELSE Range(dies[t].of)])

\* ... and then only where the type may be incomplete ...
StatedInOrder ==
  Acyclic([t \in Stated |-> (Source(t).names \cup Source(t).needs) \cap Stated])

\* ... as a type the unit does not define always is.
OpaqueBehindPointers ==
  \A t \in DOMAIN dies :
    \A d \in IF Kind(t) = "struct" THEN Body(t).needs ELSE Text(t).needs : Kind(d) # "declared"

\* What is qualified is never an array or a function, and what is passed or
\* returned has a name: nobody could call a function with anything else.
PassedByName ==
  \A t \in DOMAIN dies :
    /\ Kind(t) = "qualified" => Kind(Target(t)) \notin {"array", "function"}
    /\ Kind(t) = "function" =>
         \A p \in Range(dies[t].of) : Kind(p) \in {"struct", "enum"} => dies[p].named

Compiles ==
  TagsBreakCycles /\ OpaqueBehindPointers /\ StatedInOrder /\ PassedByName

-----------------------------------------------------------------------------
(* Shapes of a C program the emission is known not to be up to *)

\* What a type can be asked to be.  To be declared is little: a struct asks for
\* nothing then, a typedef for the declaration of its type, or for the definition
\* of a type that has no name to be declared by.
Wanted == (DOMAIN dies) \X {"declare", "define"}

PartsAs(t, want) == {<<u, want>> : u \in Range(dies[t].of)}

ToDeclare(t) ==
  IF Modifier(t) \/ (Kind(t) = "typedef" /\ Named(Target(t))) THEN PartsAs(t, "declare")
  ELSE IF Kind(t) = "typedef" THEN PartsAs(t, "define") ELSE {}

\* A pointer to what has a name is content with a declaration of it.
ToDefine(t) ==
  {<<t, "declare">>} \cup PartsAs(t, IF Kind(t) = "pointer" /\ Named(t) THEN "declare" ELSE "define")

Asked(q) == IF q[2] = "declare" THEN ToDeclare(q[1]) ELSE ToDefine(q[1])

\* A definition that comes to ask for itself: that of a struct holding a pointer
\* to a function that takes such a struct by value, but not that of a struct
\* holding a pointer to itself, by its own name or by a typedef's.
Circular == ~Acyclic([q \in Wanted |-> Asked(q)])

\* An array that has to have a struct complete ...
ArrayOfStructs(t) ==
  LET u == End({"qualified", "typedef"}, t)
  IN  Kind(u) = "array" /\ ByValue(End({"qualified", "typedef", "array"}, u)) # {}

\* ... behind a pointer, or with a name, below what is not a typedef.
EarlyArrays ==
  \E t \in DOMAIN dies :
    /\ Modifier(t)
    /\ ArrayOfStructs(Innermost(t)) \/ (Kind(t) = "pointer" /\ ArrayOfStructs(Target(t)))
=============================================================================
