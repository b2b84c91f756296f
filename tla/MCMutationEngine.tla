-------------------------- MODULE MCMutationEngine --------------------------
(***************************************************************************)
(* Structs and unions of up to three members, with anonymous ones in them  *)
(* up to three deep.                                                       *)
(***************************************************************************)
EXTENDS MutationEngine, TLC

Leaf(name, kind, options) ==
  [name |-> name, kind |-> kind, bits |-> FALSE, options |-> options, members |-> <<>>]

Plain(name, options) == Leaf(name, "plain", options)
Bits(name)           == [Plain(name, 2) EXCEPT !.bits = TRUE]
Enum(name)           == Leaf(name, "enum", 0)

Nest(name, kind, members) ==
  [name |-> name, kind |-> kind, bits |-> FALSE, options |-> 0, members |-> members]

Kinds == {"struct", "union"}

Deep  == {Nest(n, k, <<Plain("e", 2), Plain("f", 1)>>) : n \in {"", "d"}, k \in Kinds}
Inner == {Nest(n, k, <<Plain("b", 2), m>>) :
            n \in {"", "m"}, k \in Kinds, m \in {Plain("c", 3), Bits("c"), Enum("c")} \cup Deep}

Outer == {[kind |-> k, members |-> <<Plain("a", 2)>> \o <<m>> \o rest] :
            k \in Kinds, m \in {Bits("b"), Enum("b")} \cup Inner, rest \in {<<>>, <<Bits("z")>>}}

Two == {[kind |-> k, members |-> <<Nest("", "union", <<Plain("x", 2), Bits("y")>>),
                                   Nest("", "union", <<Plain("u", 2), Enum("v")>>)>>] : k \in Kinds}

\* A type no text can be made of, before another.
Raising == [kind |-> "union", members |->
             <<Nest("", "struct", <<Bits("p"), Nest("", "union", <<Plain("q", 1), Enum("r")>>)>>)>>]

MCShapes ==
  {<<s>> : s \in Outer \cup {[kind |-> "enum", members |-> <<>>]}}
    \cup {<<Raising, s>> : s \in Two} \cup {<<s, s>> : s \in Two}
=============================================================================
