------------------------------- MODULE Corpus -------------------------------
(***************************************************************************)
(* What a campaign promises about its corpus, without processes or files:  *)
(* every execution gets a name of its own, is judged once, and is either   *)
(* kept in the population or saved as a crash for good; and the population *)
(* is cut back, all at once, to exactly its limit.                         *)
(***************************************************************************)
EXTENDS Integers, FiniteSets

CONSTANT MaxStateCount  \* FFFC_MAX_STATE_COUNT

VARIABLES
  used,        \* names given to executions
  population,  \* names later generations may start from
  saved        \* names of executions kept as crashes

vars == <<used, population, saved>>

Init == used = {} /\ population = {} /\ saved = {}

Begin ==
  \E n \in used' : n \notin used /\ used' = used \cup {n} /\ UNCHANGED <<population, saved>>

Judged == population \cup saved

Keep ==
  \E n \in used \ Judged : population' = population \cup {n} /\ UNCHANGED <<used, saved>>

Save ==
  \E n \in used \ Judged : saved' = saved \cup {n} /\ UNCHANGED <<used, population>>

Cull ==
  /\ population' \subseteq population
  /\ Cardinality(population') = MaxStateCount
  /\ UNCHANGED <<used, saved>>

Next == Begin \/ Keep \/ Save \/ Cull

Spec == Init /\ [][Next]_vars
=============================================================================
