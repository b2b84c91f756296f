--------------------------- MODULE MCTypeEmission ---------------------------
(***************************************************************************)
(* The type graphs TLC emits, those of them a C program can have: structs  *)
(* A and B, a pointer P, a typedef T, a function f, and X, one type of     *)
(* each kind that has no name of its own.                                  *)
(***************************************************************************)
EXTENDS TypeEmission, TLC

Entry(kind, named, of) == [kind |-> kind, named |-> named, of |-> of]
Singles(ts)            == {<<t>> : t \in ts}

Base     == [i |-> Entry("base", TRUE, <<>>)]
Pointer  == {Entry("pointer", FALSE, ts) : ts \in Singles({"A", "X", "T"})}
Typedef  == {Entry("typedef", TRUE, ts) : ts \in Singles({"A", "P", "X"})}
Unnamed  ==
  {Entry(k, FALSE, ts) : k \in {"array", "qualified", "struct"}, ts \in Singles({"A", "P", "T"})}
    \cup {Entry("function", FALSE, <<r, p>>) : r \in {"i", "P"}, p \in {"A", "P", "T"}}

\* Two structs, each with members of every sort: every way round the cycles.
Structs ==
  {Base @@ [A |-> Entry("struct", TRUE, a), B |-> b, P |-> p, T |-> t, X |-> x] :
     a \in Singles({"P", "X", "T", "B"}) \cup {<<"X", "P">>, <<"B", "P">>, <<"T", "P">>},
     b \in {Entry("struct", TRUE, <<m>>) : m \in {"P", "X", "A"}} \cup {Entry("declared", TRUE, <<>>)},
     p \in Pointer \cup {Entry("pointer", FALSE, <<"B">>)}, t \in Typedef, x \in Unnamed}

\* A function, with an opaque struct or an enum or a base type FFFC does not know.
Functions ==
  {Base @@ [A |-> a, P |-> p, T |-> t, X |-> x, f |-> Entry("function", TRUE, <<r, q>>)] :
     a \in {Entry("struct", TRUE, <<m>>) : m \in {"P", "X", "T"}}
             \cup {Entry(k, TRUE, <<>>) : k \in {"declared", "enum", "unknown"}},
     p \in Pointer, t \in Typedef, x \in Unnamed, r \in {"i", "A"}, q \in {"A", "P", "T"}}

MCGraphs == Structs \cup Functions
=============================================================================
