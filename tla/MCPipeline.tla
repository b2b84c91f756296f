----------------------------- MODULE MCPipeline -----------------------------
(***************************************************************************)
(* Two targets, libasan, a library, and libm, which nothing is known of.   *)
(***************************************************************************)
EXTENDS Pipeline, TLC

\* P is a pointer to S.
MCUnder == [t \in Types |-> IF t = "P" THEN {"S"} ELSE {}]

U(name, complete, opaque, runs) ==
  [name |-> name, c |-> TRUE, complete |-> complete, opaque |-> opaque, runs |-> runs]

Program(libs, units) ==
  [libs |-> libs, dwarf |-> TRUE, asan |-> TRUE, gcov |-> TRUE, isAsan |-> FALSE,
   ignored |-> FALSE, units |-> units]

\* libasan and libm as a distribution ships them.
Asan == [Program(<<>>, <<>>) EXCEPT !.dwarf = FALSE, !.isAsan = TRUE, !.ignored = TRUE]
Libm == [Program(<<>>, <<>>) EXCEPT !.dwarf = FALSE]

Linkages == {<<"asan">>, <<"asan", "lib">>, <<"m", "asan">>, <<"asan", "m", "lib">>, <<>>}

\* A unit that knows S, one to which it is opaque, one without it, and one in
\* another language.
FirstUnits  == {U("u", {"S"}, {}, <<"f">>), U("u", {"T"}, {"S", "P"}, <<"f">>), U("u", {}, {"S"}, <<"do_nothing">>)}
SecondUnits == {U("v", {"S", "T"}, {}, <<"g">>), U("v", {}, {"T"}, <<"f", "g">>),
                [U("v", {"S"}, {}, <<"g">>) EXCEPT !.c = FALSE]}
UnitLists   == {<<x>> : x \in FirstUnits} \cup {<<x, y>> : x \in FirstUnits, y \in SecondUnits}

Programs(lists) ==
  {Program(libs, units) : libs \in Linkages, units \in lists}
    \cup {[Program(<<"asan">>, <<>>) EXCEPT !.gcov = FALSE]}

MCWorlds ==
  {[a |-> a, b |-> b, asan |-> Asan, m |-> Libm, lib |-> lib] :
     a \in Programs(UnitLists), b \in Programs({<<x>> : x \in FirstUnits}),
     lib \in {Program(<<>>, <<x>>) : x \in {U("u", {"S"}, {}, <<"f">>), U("w", {}, {"S", "P"}, <<"h">>)}}
               \cup {Asan}}

MCCommandLines == {<<"a">>, <<"a", "b">>}
=============================================================================
