---------------------------- MODULE CTypesProofs ----------------------------
(***************************************************************************)
(* What the operators of CTypes answer, for every well-formed graph of     *)
(* types whose cycles go through the tags of structs.                      *)
(***************************************************************************)
EXTENDS CTypes, SequenceTheorems, TLAPS

Program == WellFormed(dies) /\ TagsBreakCycles

\* What holds of a type when it holds of those it leads to holds of all.
LEMMA AcyclicInduction ==
  ASSUME NEW next, Acyclic(next), NEW P,
         \A t \in DOMAIN next : next[t] \cap DOMAIN next \subseteq P => t \in P
  PROVE  DOMAIN next \subseteq P
<1> DEFINE S == DOMAIN next \ P
<1> SUFFICES ASSUME S # {} PROVE FALSE
  OBVIOUS
<1>1. S \in SUBSET DOMAIN next
  OBVIOUS
<1>2. PICK t \in S : next[t] \cap S = {}
  BY <1>1 DEF Acyclic
<1> QED BY <1>2

LEMMA TailFacts ==
  ASSUME NEW S, NEW s \in Seq(S), s # <<>>
  PROVE  /\ s[1] \in S /\ s[1] \in Range(s)
         /\ Tail(s) \in Seq(S)
         /\ Range(s) = {s[1]} \cup Range(Tail(s))
<1>1. /\ Len(s) \in Nat /\ Len(s) >= 1 /\ DOMAIN s = 1 .. Len(s)
      /\ \A i \in 1 .. Len(s) : s[i] \in S
  OBVIOUS
<1>2. /\ Tail(s) \in Seq(S) /\ Len(Tail(s)) = Len(s) - 1
      /\ \A i \in 1 .. Len(s) - 1 : Tail(s)[i] = s[i + 1]
  BY HeadTailProperties
<1>3. DOMAIN Tail(s) = 1 .. Len(s) - 1
  BY <1>2
<1>4. s[1] \in S /\ s[1] \in Range(s)
  BY <1>1 DEF Range
<1>5. \A i \in 1 .. Len(s) : i = 1 \/ (i - 1 \in 1 .. Len(s) - 1 /\ s[i] = Tail(s)[i - 1])
  BY <1>1, <1>2
<1>6. \A i \in 1 .. Len(s) - 1 : i + 1 \in 1 .. Len(s) /\ Tail(s)[i] = s[i + 1]
  BY <1>1, <1>2
<1> DEFINE u == Tail(s)
<1> HIDE DEF u
<1>7. Range(s) \subseteq {s[1]} \cup Range(u)
  <2> SUFFICES ASSUME NEW i \in 1 .. Len(s) PROVE s[i] \in {s[1]} \cup Range(u)
    BY <1>1 DEF Range
  <2>1. CASE i - 1 \in 1 .. Len(s) - 1 /\ s[i] = u[i - 1]
    BY <1>3, <2>1 DEF Range, u
  <2> QED BY <1>5, <2>1 DEF u
<1>8. Range(u) \subseteq Range(s)
  BY <1>1, <1>3, <1>6 DEF Range, u
<1> QED BY <1>2, <1>4, <1>7, <1>8 DEF u

LEMMA EntryFacts ==
  ASSUME WellFormed(dies), NEW t \in DOMAIN dies
  PROVE  /\ Kind(t) \in Kinds /\ dies[t].named \in BOOLEAN
         /\ dies[t].of \in Seq(DOMAIN dies) /\ Range(dies[t].of) \subseteq DOMAIN dies
         /\ Modifier(t) => ~dies[t].named
         /\ Kind(t) \in {"base", "unknown", "declared", "typedef"} => dies[t].named
         /\ Kind(t) \in {"base", "unknown", "declared", "enum"} => dies[t].of = <<>>
         /\ Modifier(t) \/ Kind(t) = "typedef" =>
              Len(dies[t].of) = 1 /\ Target(t) \in DOMAIN dies /\ Range(dies[t].of) = {Target(t)}
         /\ Kind(t) = "function" =>
              /\ dies[t].of # <<>> /\ Target(t) \in DOMAIN dies /\ Target(t) \in Range(dies[t].of)
              /\ Tail(dies[t].of) \in Seq(DOMAIN dies)
              /\ Range(dies[t].of) = {Target(t)} \cup Range(Tail(dies[t].of))
         /\ \A u \in Range(dies[t].of) : ~(Kind(u) = "function" /\ dies[u].named)
<1>1. /\ dies[t] \in [kind : Kinds, named : BOOLEAN, of : Seq(DOMAIN dies)]
      /\ dies[t].kind \in Modifiers => ~dies[t].named
      /\ dies[t].kind \in {"base", "unknown", "declared", "typedef"} => dies[t].named
      /\ dies[t].kind \in {"base", "unknown", "declared", "enum"} => dies[t].of = <<>>
      /\ dies[t].kind \in Modifiers \cup {"typedef"} => Len(dies[t].of) = 1
      /\ dies[t].kind = "function" => dies[t].of # <<>>
      /\ \A u \in Range(dies[t].of) : ~(dies[u].kind = "function" /\ dies[u].named)
  BY DEF WellFormed
<1> DEFINE s == dies[t].of
<1>2. s \in Seq(DOMAIN dies)
  BY <1>1
<1>3. DOMAIN s = 1 .. Len(s) /\ \A i \in 1 .. Len(s) : s[i] \in DOMAIN dies
  BY <1>2
<1>4. Range(s) \subseteq DOMAIN dies
  BY <1>3 DEF Range
<1>5. Len(s) = 1 => s[1] \in DOMAIN dies /\ Range(s) = {s[1]}
  BY <1>3 DEF Range
<1>6. s # <<>> => /\ s[1] \in DOMAIN dies /\ s[1] \in Range(s)
                  /\ Tail(s) \in Seq(DOMAIN dies)
                  /\ Range(s) = {s[1]} \cup Range(Tail(s))
  BY <1>2, TailFacts
<1> HIDE DEF s
<1>7. /\ Kind(t) = dies[t].kind /\ Target(t) = s[1] /\ Modifier(t) = (dies[t].kind \in Modifiers)
      /\ \A u : Kind(u) = dies[u].kind
  BY DEF Kind, Target, Modifier, s
<1> QED BY <1>1, <1>2, <1>4, <1>5, <1>6, <1>7 DEF s

-----------------------------------------------------------------------------
(* Chains *)

\* What an element reaches by following Target through these kinds.
Follows(kinds, C) ==
  C \in SUBSET DOMAIN dies /\ \A u \in C : Kind(u) \in kinds => Target(u) \in C
Ends(kinds, t, v) ==
  v \in DOMAIN dies /\ Kind(v) \notin kinds /\ \A C : Follows(kinds, C) /\ t \in C => v \in C

LEMMA EndsStep ==
  ASSUME Program, NEW kinds \in SUBSET (Modifiers \cup {"typedef"}), NEW t \in DOMAIN dies, NEW v
  PROVE  /\ Kind(t) \in kinds => Target(t) \in DOMAIN dies /\ (Ends(kinds, t, v) <=> Ends(kinds, Target(t), v))
         /\ Kind(t) \notin kinds => (Ends(kinds, t, v) <=> v = t)
<1>1. CASE Kind(t) \in kinds
  <2>1. Target(t) \in DOMAIN dies
    BY <1>1, EntryFacts DEF Program, Modifier
  <2>2. ASSUME Ends(kinds, t, v) PROVE Ends(kinds, Target(t), v)
    <3> SUFFICES ASSUME NEW C, Follows(kinds, C), Target(t) \in C PROVE v \in C
      BY <2>2 DEF Ends
    <3>1. Follows(kinds, C \cup {t})
      BY DEF Follows
    <3>2. v \in C \cup {t} /\ v # t
      BY <2>2, <3>1, <1>1 DEF Ends
    <3> QED BY <3>2
  <2>3. ASSUME Ends(kinds, Target(t), v) PROVE Ends(kinds, t, v)
    BY <2>3, <1>1 DEF Ends, Follows
  <2> QED BY <1>1, <2>1, <2>2, <2>3
<1>2. CASE Kind(t) \notin kinds
  <2>1. Follows(kinds, {t})
    BY <1>2 DEF Follows
  <2> QED BY <1>2, <2>1 DEF Ends
<1> QED BY <1>1, <1>2

LEMMA EndsOnce ==
  ASSUME Program, NEW kinds \in SUBSET (Modifiers \cup {"typedef"}), NEW t \in DOMAIN dies
  PROVE  \E v \in DOMAIN dies : \A w : Ends(kinds, t, w) <=> w = v
<1> DEFINE next == [u \in DOMAIN dies |-> IF Kind(u) = "struct" /\ dies[u].named THEN {} ELSE Range(dies[u].of)]
           P == {u \in DOMAIN dies : \E v \in DOMAIN dies : \A w : Ends(kinds, u, w) <=> w = v}
<1>1. Acyclic(next)
  BY DEF Program, TagsBreakCycles
<1>2. ASSUME NEW u \in DOMAIN dies, next[u] \cap DOMAIN dies \subseteq P PROVE u \in P
  <2>1. CASE Kind(u) \in kinds
    <3>1. /\ Target(u) \in DOMAIN dies /\ Kind(u) # "struct" /\ Target(u) \in Range(dies[u].of)
      BY <2>1, EntryFacts DEF Program, Modifier, Modifiers
    <3>2. Target(u) \in P
      BY <1>2, <3>1
    <3> QED BY <3>2, <2>1, EndsStep
  <2>2. CASE Kind(u) \notin kinds
    BY <2>2, EndsStep
  <2> QED BY <2>1, <2>2
<1>3. DOMAIN next = DOMAIN dies
  OBVIOUS
<1> HIDE DEF next, P
<1>4. DOMAIN dies \subseteq P
  BY <1>1, <1>2, <1>3, AcyclicInduction
<1> QED BY <1>4 DEF P

\* End is where its recursive definition says a chain ends.
LEMMA EndStep ==
  ASSUME Program, NEW kinds \in SUBSET (Modifiers \cup {"typedef"}), NEW t \in DOMAIN dies
  PROVE  /\ End(kinds, t) \in DOMAIN dies /\ Kind(End(kinds, t)) \notin kinds
         /\ Kind(t) \in kinds => Target(t) \in DOMAIN dies /\ End(kinds, t) = End(kinds, Target(t))
         /\ Kind(t) \notin kinds => End(kinds, t) = t
<1> DEFINE Describes(g) == g = [u \in DOMAIN dies |-> IF Kind(u) \in kinds THEN g[Target(u)] ELSE u]
           h == [u \in DOMAIN dies |-> CHOOSE v : Ends(kinds, u, v)]
           next == [u \in DOMAIN dies |-> IF Kind(u) = "struct" /\ dies[u].named THEN {} ELSE Range(dies[u].of)]
<1>1. \A u \in DOMAIN dies : h[u] = IF Kind(u) \in kinds THEN h[Target(u)] ELSE u
  <2> SUFFICES ASSUME NEW u \in DOMAIN dies PROVE h[u] = IF Kind(u) \in kinds THEN h[Target(u)] ELSE u
    OBVIOUS
  <2>0. PICK v \in DOMAIN dies : \A w : Ends(kinds, u, w) <=> w = v
    BY EndsOnce
  <2>1. h[u] = v
    BY <2>0
  <2>2. CASE Kind(u) \in kinds
    <3>1. Target(u) \in DOMAIN dies /\ \A w : Ends(kinds, Target(u), w) <=> w = v
      BY <2>0, <2>2, EndsStep
    <3>2. h[Target(u)] = v
      BY <3>1
    <3> QED BY <2>1, <2>2, <3>2
  <2>3. CASE Kind(u) \notin kinds
    BY <2>0, <2>1, <2>3, EndsStep
  <2> QED BY <2>2, <2>3
<1>2. Describes(h)
  <2>1. h = [u \in DOMAIN dies |-> h[u]]
    OBVIOUS
  <2> HIDE DEF h
  <2> QED BY <1>1, <2>1
<1> DEFINE e == CHOOSE g : Describes(g)
<1>3. Describes(e)
  <2> HIDE DEF Describes, h
  <2> QED BY <1>2
<1>4. \A u : End(kinds, u) = e[u]
  BY DEF End
<1>5. \A u \in DOMAIN dies : e[u] = IF Kind(u) \in kinds THEN e[Target(u)] ELSE u
  BY <1>3
<1> DEFINE P == {u \in DOMAIN dies : e[u] \in DOMAIN dies /\ Kind(e[u]) \notin kinds}
<1> HIDE DEF Describes, h, e
<1>6. Acyclic(next)
  BY DEF Program, TagsBreakCycles
<1>7. \A u \in DOMAIN dies : Kind(u) \in kinds =>
        Target(u) \in DOMAIN dies /\ Kind(u) # "struct" /\ Target(u) \in Range(dies[u].of)
  BY EntryFacts DEF Program, Modifier, Modifiers
<1>8. ASSUME NEW u \in DOMAIN dies, next[u] \cap DOMAIN dies \subseteq P PROVE u \in P
  <2>1. CASE Kind(u) \in kinds
    <3>1. Target(u) \in P
      BY <1>7, <1>8, <2>1
    <3> QED BY <1>5, <2>1, <3>1
  <2>2. CASE Kind(u) \notin kinds
    BY <1>5, <2>2
  <2> QED BY <2>1, <2>2
<1>9. DOMAIN next = DOMAIN dies
  OBVIOUS
<1> HIDE DEF next
<1>10. DOMAIN dies \subseteq P
  <2> HIDE DEF P
  <2> QED BY <1>6, <1>8, <1>9, AcyclicInduction
<1>11. e[t] \in DOMAIN dies /\ Kind(e[t]) \notin kinds
  BY <1>10
<1> QED BY <1>4, <1>5, <1>7, <1>11

\* Innermost, Named and Status go by the type a modifier modifies.
LEMMA InnermostFacts ==
  ASSUME Program, NEW t \in DOMAIN dies
  PROVE  /\ Innermost(t) \in DOMAIN dies /\ ~Modifier(Innermost(t))
         /\ Modifier(t) => /\ Target(t) \in DOMAIN dies
                           /\ Innermost(t) = Innermost(Target(t)) /\ Named(t) = Named(Target(t))
         /\ ~Modifier(t) => Innermost(t) = t /\ Named(t) = dies[t].named
         /\ Named(t) \in BOOLEAN
         /\ Innermost(Innermost(t)) = Innermost(t)
<1>1. Modifiers \in SUBSET (Modifiers \cup {"typedef"})
  OBVIOUS
<1>2. /\ Innermost(t) \in DOMAIN dies /\ ~Modifier(Innermost(t))
      /\ Modifier(t) => Target(t) \in DOMAIN dies /\ Innermost(t) = Innermost(Target(t))
      /\ ~Modifier(t) => Innermost(t) = t
  BY <1>1, EndStep DEF Innermost, Modifier
<1>3. Innermost(Innermost(t)) = Innermost(t)
  BY <1>1, <1>2, EndStep DEF Innermost, Modifier
<1>4. dies[Innermost(t)].named \in BOOLEAN
  BY <1>2, EntryFacts DEF Program
<1> QED BY <1>2, <1>3, <1>4 DEF Named

-----------------------------------------------------------------------------
(* Texts *)

Leads == [t \in DOMAIN dies |-> IF Kind(t) = "struct" /\ dies[t].named THEN {} ELSE Range(dies[t].of)]
Closed(S)    == S \in SUBSET DOMAIN dies /\ \A t \in S : Leads[t] \subseteq S
Prints(g, S) == \A t \in S : g[t] = TextIn(g, t)

LEMMA LeadsAcyclic ==
  ASSUME Program
  PROVE  Acyclic(Leads) /\ DOMAIN Leads = DOMAIN dies /\ \A t \in DOMAIN dies : Leads[t] \subseteq DOMAIN dies
<1>1. \A t \in DOMAIN dies : Range(dies[t].of) \subseteq DOMAIN dies
  BY EntryFacts DEF Program
<1> QED BY <1>1 DEF Leads, Program, TagsBreakCycles

\* TextIn, case by case.
LEMMA TextInCases ==
  ASSUME NEW g, NEW t
  PROVE  /\ t \in Tagged => TextIn(g, t) = TagOf(t)
         /\ Kind(t) = "typedef" => TextIn(g, t) = NameOf(t)
         /\ Kind(t) = "function" => TextIn(g, t) = PrototypeOf(g, t)
         /\ Kind(t) = "pointer" => TextIn(g, t) = Behind(g[Target(t)])
         /\ Kind(t) = "array" => TextIn(g, t) = Elements(g[Target(t)])
         /\ Kind(t) = "qualified" => TextIn(g, t) = g[Target(t)]
         /\ t \notin Tagged /\ Kind(t) \notin {"typedef", "function", "pointer", "array", "qualified"} =>
              TextIn(g, t) = BodyOf(g, t)
<1>1. CASE t \in Tagged
  <2>1. /\ Kind(t) # "typedef" /\ Kind(t) # "function" /\ Kind(t) # "pointer"
        /\ Kind(t) # "array" /\ Kind(t) # "qualified"
    BY <1>1 DEF Tagged
  <2> QED BY Zenon, <1>1, <2>1 DEF TextIn
<1>2. CASE t \notin Tagged
  <2>1. CASE Kind(t) = "typedef"
    BY Zenon, <1>2, <2>1 DEF TextIn
  <2>2. CASE Kind(t) = "function"
    BY Zenon, <1>2, <2>2 DEF TextIn
  <2>3. CASE Kind(t) = "pointer"
    BY Zenon, <1>2, <2>3 DEF TextIn
  <2>4. CASE Kind(t) = "array"
    BY Zenon, <1>2, <2>4 DEF TextIn
  <2>5. CASE Kind(t) = "qualified"
    BY Zenon, <1>2, <2>5 DEF TextIn
  <2>6. CASE Kind(t) \notin {"typedef", "function", "pointer", "array", "qualified"}
    BY Zenon, <1>2, <2>6 DEF TextIn
  <2> QED BY <1>2, <2>1, <2>2, <2>3, <2>4, <2>5, <2>6
<1> QED BY <1>1, <1>2

LEMMA TextInSame ==
  ASSUME Program, NEW g, NEW h, NEW t \in DOMAIN dies, \A u \in Leads[t] : g[u] = h[u]
  PROVE  TextIn(g, t) = TextIn(h, t)
<1>1. CASE t \in Tagged
  BY <1>1, TextInCases
<1>2. CASE t \notin Tagged
  <2>1. \A u \in Range(dies[t].of) : g[u] = h[u]
    <3>1. CASE Kind(t) \in {"struct", "declared", "enum"}
      BY <1>2, <3>1 DEF Leads, Tagged
    <3>2. CASE Kind(t) \notin {"struct", "declared", "enum"}
      BY <3>2 DEF Leads
    <3> QED BY <3>1, <3>2
  <2>2. BodyOf(g, t) = BodyOf(h, t)
    <3>1. {Elements(g[m]) : m \in Range(dies[t].of)} = {Elements(h[m]) : m \in Range(dies[t].of)}
      BY <2>1
    <3> QED BY <3>1 DEF BodyOf
  <2>3. Modifier(t) => g[Target(t)] = h[Target(t)]
    BY <2>1, EntryFacts DEF Program
  <2>4. Kind(t) = "function" => PrototypeOf(g, t) = PrototypeOf(h, t)
    <3> SUFFICES ASSUME Kind(t) = "function" PROVE PrototypeOf(g, t) = PrototypeOf(h, t)
      OBVIOUS
    <3>1. Range(dies[t].of) = {Target(t)} \cup Range(Tail(dies[t].of))
      BY EntryFacts DEF Program
    <3>2. g[Target(t)] = h[Target(t)] /\ \A p \in Range(Tail(dies[t].of)) : g[p] = h[p]
      BY <2>1, <3>1
    <3>3. {Params(g[p]) : p \in Range(Tail(dies[t].of))} = {Params(h[p]) : p \in Range(Tail(dies[t].of))}
      BY <3>2
    <3> QED BY <3>2, <3>3 DEF PrototypeOf
  <2>5. TextIn(g, t) = TextIn(h, t) \/ Kind(t) \in {"typedef", "function", "pointer", "array", "qualified"}
    BY <1>2, <2>2, TextInCases
  <2>6. CASE Kind(t) = "typedef"
    BY <2>6, TextInCases
  <2>7. CASE Kind(t) = "function"
    BY <2>4, <2>7, TextInCases
  <2>8. CASE Kind(t) \in {"pointer", "array", "qualified"}
    BY <2>3, <2>8, TextInCases DEF Modifier, Modifiers
  <2> QED BY <2>5, <2>6, <2>7, <2>8
<1> QED BY <1>1, <1>2

LEMMA PrintsOnce ==
  ASSUME Program, NEW g, NEW S, Closed(S), Prints(g, S), NEW h, NEW T, Closed(T), Prints(h, T)
  PROVE  \A t \in S \cap T : g[t] = h[t]
<1> DEFINE P == {t \in DOMAIN dies : t \in S \cap T => g[t] = h[t]}
<1>1. ASSUME NEW t \in DOMAIN dies, Leads[t] \cap DOMAIN dies \subseteq P PROVE t \in P
  <2> SUFFICES ASSUME t \in S \cap T PROVE g[t] = h[t]
    OBVIOUS
  <2>1. Leads[t] \subseteq S \cap T /\ Leads[t] \subseteq DOMAIN dies
    BY DEF Closed
  <2>2. \A u \in Leads[t] : g[u] = h[u]
    BY <1>1, <2>1
  <2>3. TextIn(g, t) = TextIn(h, t)
    BY <2>2, TextInSame
  <2> QED BY <2>3 DEF Prints
<1> HIDE DEF P
<1>2. DOMAIN dies \subseteq P
  BY <1>1, LeadsAcyclic, AcyclicInduction
<1> QED BY <1>2 DEF P, Closed

\* Texts are what their recursive definition says of them.
LEMMA TextsUnfold ==
  ASSUME Program
  PROVE  \A t \in DOMAIN dies : Texts[t] = TextIn(Texts, t)
<1> DEFINE Part(p, t) == t \in p[1] /\ Closed(p[1]) /\ Prints(p[2], p[1])
           P == {t \in DOMAIN dies : \E p : Part(p, t)}
           h == [t \in DOMAIN dies |-> (CHOOSE p : Part(p, t))[2][t]]
<1>1. ASSUME NEW p, NEW t, Part(p, t) PROVE t \in P /\ h[t] = p[2][t] /\ p[1] \subseteq P
  <2>1. p[1] \subseteq P
    <3> SUFFICES ASSUME NEW u \in p[1] PROVE u \in P
      OBVIOUS
    <3>1. u \in DOMAIN dies /\ Part(p, u)
      BY <1>1 DEF Closed
    <3> HIDE DEF Part
    <3> QED BY <3>1
  <2>2. t \in DOMAIN dies
    BY <1>1 DEF Closed
  <2> DEFINE q == CHOOSE r : Part(r, t)
  <2>3. Part(q, t)
    <3> HIDE DEF Part
    <3> QED BY <1>1
  <2>4. h[t] = q[2][t]
    BY <2>2
  <2> HIDE DEF q
  <2>5. q[2][t] = p[2][t]
    BY <1>1, <2>3, PrintsOnce
  <2> QED BY <1>1, <2>1, <2>4, <2>5
<1>2. ASSUME NEW t \in P PROVE h[t] = TextIn(h, t) /\ Leads[t] \subseteq P
  <2>1. PICK p : Part(p, t)
    OBVIOUS
  <2>2. \A u \in p[1] : Part(p, u)
    BY <2>1
  <2> HIDE DEF P, h, Part
  <2>3. \A u \in p[1] : h[u] = p[2][u]
    BY <1>1, <2>2
  <2>4. t \in p[1] /\ Leads[t] \subseteq p[1] /\ t \in DOMAIN dies /\ p[2][t] = TextIn(p[2], t)
    BY <2>1 DEF Part, Closed, Prints
  <2>5. TextIn(p[2], t) = TextIn(h, t)
    BY <2>3, <2>4, TextInSame
  <2> QED BY <1>1, <2>1, <2>3, <2>4, <2>5
<1>3. ASSUME NEW t \in DOMAIN dies, Leads[t] \cap DOMAIN dies \subseteq P PROVE t \in P
  <2> SUFFICES ASSUME t \notin P PROVE FALSE
    OBVIOUS
  <2>1. Leads[t] \subseteq P /\ P \subseteq DOMAIN dies
    BY <1>3, LeadsAcyclic
  <2> DEFINE v == TextIn(h, t)
             g == [u \in DOMAIN dies |-> IF u = t THEN v ELSE h[u]]
  <2>2. \A u \in P \cup {t} : \A w \in Leads[u] : w \in P /\ w # t
    BY <1>2, <2>1
  <2>3. g[t] = v /\ \A u \in P : g[u] = h[u]
    BY <2>1
  <2> HIDE DEF P, g, h
  <2>4. ASSUME NEW u \in P \cup {t} PROVE TextIn(g, u) = TextIn(h, u)
    <3>1. \A w \in Leads[u] : g[w] = h[w]
      BY <2>2, <2>3
    <3>2. u \in DOMAIN dies
      BY <2>1
    <3> QED BY <3>1, <3>2, TextInSame
  <2>5. Prints(g, P \cup {t})
    BY <1>2, <2>3, <2>4 DEF Prints
  <2>6. Closed(P \cup {t})
    BY <2>1, <2>2 DEF Closed
  <2>7. Part(<<P \cup {t}, g>>, t)
    BY <2>5, <2>6
  <2> HIDE DEF Part
  <2> QED BY <1>1, <2>7
<1>4. DOMAIN dies \subseteq P
  <2> HIDE DEF P
  <2> QED BY <1>3, LeadsAcyclic, AcyclicInduction
<1> DEFINE Describes(g) == g = [t \in DOMAIN dies |-> TextIn(g, t)]
<1>5. Describes(h)
  <2>1. h = [t \in DOMAIN dies |-> h[t]]
    OBVIOUS
  <2> HIDE DEF h, P
  <2> QED BY <1>2, <1>4, <2>1
<1>6. Texts = CHOOSE g : Describes(g)
  BY DEF Texts
<1>7. Describes(Texts)
  <2> HIDE DEF Describes, h
  <2> QED BY <1>5, <1>6
<1> QED BY <1>7

-----------------------------------------------------------------------------
(* What types come to *)

Objects == {"qualified", "typedef"}
Inner   == {"qualified", "array"}
Outer   == {"qualified", "typedef", "array"}

\* What is stored where an object of the type is, one or more of them.
Stem(t) == End(Inner, t)

LEMMA EndKinds ==
  Objects \in SUBSET (Modifiers \cup {"typedef"}) /\ Inner \in SUBSET (Modifiers \cup {"typedef"})
  /\ Outer \in SUBSET (Modifiers \cup {"typedef"}) /\ Modifiers \in SUBSET (Modifiers \cup {"typedef"})
BY DEF Objects, Inner, Outer, Modifiers

LEMMA ByValueStep ==
  ASSUME Program, NEW t \in DOMAIN dies
  PROVE  /\ Kind(t) \in Objects => Target(t) \in DOMAIN dies /\ ByValue(t) = ByValue(Target(t))
         /\ Kind(t) \notin Objects => ByValue(t) = {t} \cap Tagged
<1>1. /\ Kind(t) \in Objects => Target(t) \in DOMAIN dies /\ End(Objects, t) = End(Objects, Target(t))
      /\ Kind(t) \notin Objects => End(Objects, t) = t
  BY EndKinds, EndStep
<1>2. \A u : ByValue(u) = {End(Objects, u)} \cap Tagged
  BY DEF ByValue, Objects
<1> QED BY <1>1, <1>2

LEMMA StemStep ==
  ASSUME Program, NEW t \in DOMAIN dies
  PROVE  /\ Stem(t) \in DOMAIN dies /\ Kind(Stem(t)) \notin Inner
         /\ Kind(t) \in Inner => Target(t) \in DOMAIN dies /\ Stem(t) = Stem(Target(t))
         /\ Kind(t) \notin Inner => Stem(t) = t
BY EndKinds, EndStep DEF Stem

\* Where one chain of types ends, a longer one goes on.
LEMMA EndEnd ==
  ASSUME Program, NEW k \in SUBSET (Modifiers \cup {"typedef"}), NEW m \in SUBSET (Modifiers \cup {"typedef"}),
         k \subseteq m, NEW t \in DOMAIN dies
  PROVE  End(k, t) \in DOMAIN dies /\ End(m, End(k, t)) = End(m, t)
<1> DEFINE P == {u \in DOMAIN dies : End(m, End(k, u)) = End(m, u)}
<1>1. ASSUME NEW u \in DOMAIN dies, Leads[u] \cap DOMAIN dies \subseteq P PROVE u \in P
  <2>1. CASE Kind(u) \in k
    <3>1. Target(u) \in Leads[u] /\ Target(u) \in DOMAIN dies
      BY <2>1, EntryFacts DEF Leads, Program, Modifiers, Modifier
    <3>2. End(k, u) = End(k, Target(u)) /\ End(m, u) = End(m, Target(u))
      BY <2>1, EndStep
    <3> QED BY <1>1, <3>1, <3>2
  <2>2. CASE Kind(u) \notin k
    BY <2>2, EndStep
  <2> QED BY <2>1, <2>2
<1> HIDE DEF P
<1>2. DOMAIN dies \subseteq P
  BY <1>1, LeadsAcyclic, AcyclicInduction
<1> QED BY <1>2, EndStep DEF P

LEMMA StemInnermost ==
  ASSUME Program, NEW t \in DOMAIN dies
  PROVE  Innermost(Stem(t)) = Innermost(t)
<1>1. Inner \subseteq Modifiers
  BY DEF Inner, Modifiers
<1> QED BY <1>1, EndKinds, EndEnd DEF Stem, Innermost

LEMMA StemByValue ==
  ASSUME Program, NEW t \in DOMAIN dies
  PROVE  ByValue(t) \subseteq ByValue(Stem(t))
<1> DEFINE P == {u \in DOMAIN dies : ByValue(u) \subseteq ByValue(Stem(u))}
<1>1. ASSUME NEW u \in DOMAIN dies, Leads[u] \cap DOMAIN dies \subseteq P PROVE u \in P
  <2>1. CASE Kind(u) = "qualified"
    <3>1. Target(u) \in Leads[u] /\ Target(u) \in DOMAIN dies
      BY <2>1, EntryFacts DEF Leads, Program, Modifiers, Modifier
    <3>2. ByValue(u) = ByValue(Target(u)) /\ Stem(u) = Stem(Target(u))
      BY <2>1, ByValueStep, StemStep DEF Objects, Inner
    <3> QED BY <1>1, <3>1, <3>2
  <2>2. CASE Kind(u) = "array"
    BY <2>2, ByValueStep DEF Objects, Tagged
  <2>3. CASE Kind(u) \notin Inner
    BY <2>3, StemStep
  <2> QED BY <2>1, <2>2, <2>3 DEF Inner
<1> HIDE DEF P
<1>2. DOMAIN dies \subseteq P
  BY <1>1, LeadsAcyclic, AcyclicInduction
<1> QED BY <1>2 DEF P

\* Of an array that asks for nothing complete the elements do not either.
LEMMA ArrayFacts ==
  ASSUME Program, NEW t \in DOMAIN dies
  PROVE  /\ Kind(t) \in Objects => ArrayOfStructs(t) = ArrayOfStructs(Target(t))
         /\ Kind(t) = "array" /\ ~ArrayOfStructs(t) =>
              Target(t) \in DOMAIN dies /\ ByValue(Target(t)) = {} /\ ~ArrayOfStructs(Target(t))
<1>1. \A u : ArrayOfStructs(u) <=> /\ Kind(End(Objects, u)) = "array"
                                   /\ ByValue(End(Outer, End(Objects, u))) # {}
  BY DEF ArrayOfStructs, Objects, Outer
<1>2. Kind(t) \in Objects => ArrayOfStructs(t) = ArrayOfStructs(Target(t))
  BY <1>1, EndKinds, EndStep
<1>3. ASSUME Kind(t) = "array", ~ArrayOfStructs(t)
      PROVE  Target(t) \in DOMAIN dies /\ ByValue(Target(t)) = {} /\ ~ArrayOfStructs(Target(t))
  <2> DEFINE u == Target(t)
             w == End(Objects, u)
  <2>1. u \in DOMAIN dies /\ End(Objects, t) = t /\ End(Outer, t) = End(Outer, u)
    BY <1>3, EndKinds, EndStep DEF Objects, Outer
  <2>2. ByValue(End(Outer, u)) = {}
    BY <1>1, <1>3, <2>1
  <2>3. w \in DOMAIN dies /\ End(Outer, w) = End(Outer, u)
    BY <2>1, EndKinds, EndEnd DEF Objects, Outer
  <2>4. ByValue(u) = {w} \cap Tagged
    BY DEF ByValue, Objects
  <2>5. ASSUME w \in Tagged PROVE FALSE
    <3>1. Kind(w) \notin Outer /\ Kind(w) \notin Objects
      BY <2>5 DEF Tagged, Outer, Objects
    <3>2. End(Outer, w) = w /\ ByValue(w) = {w} \cap Tagged
      BY <2>3, <3>1, EndKinds, EndStep, ByValueStep
    <3> QED BY <2>2, <2>3, <2>5, <3>2
  <2> QED BY <1>1, <2>1, <2>2, <2>3, <2>4, <2>5
<1> QED BY <1>2, <1>3

-----------------------------------------------------------------------------
(* What texts ask for *)

Fields   == {"names", "tags", "protos", "needs", "top"}
TextType == [Fields -> SUBSET DOMAIN dies]

LEMMA RecordFacts ==
  ASSUME NEW x \in TextType
  PROVE  /\ Behind(x) \in TextType /\ Elements(x) \in TextType /\ Params(x) \in TextType
         /\ Behind(x).names = x.names /\ Behind(x).tags = x.tags /\ Behind(x).protos = x.protos
         /\ Behind(x).needs = x.needs /\ Behind(x).top = {}
         /\ Elements(x).names = x.names /\ Elements(x).tags = x.tags /\ Elements(x).protos = x.protos
         /\ Elements(x).needs = x.needs \cup x.top /\ Elements(x).top = {}
         /\ Params(x).names = x.names /\ Params(x).tags = {} /\ Params(x).protos = x.protos \cup x.tags
         /\ Params(x).needs = x.needs /\ Params(x).top = {}
BY DEF TextType, Fields, Behind, Elements, Params

LEMMA JoinFacts ==
  ASSUME NEW S, S \subseteq TextType
  PROVE  /\ Join(S) \in TextType
         /\ \A f \in Fields : \A u : u \in Join(S)[f] <=> \E x \in S : u \in x[f]
<1>1. DOMAIN Plain = Fields
  BY DEF Plain, Fields
<1>2. Join(S) = [f \in Fields |-> UNION {x[f] : x \in S}]
  BY <1>1 DEF Join
<1>3. \A f \in Fields : UNION {x[f] : x \in S} \in SUBSET DOMAIN dies
  BY DEF TextType
<1> QED BY <1>2, <1>3 DEF TextType

LEMMA PlainTyped == Plain \in TextType
<1>1. DOMAIN Plain = Fields
  BY DEF Plain, Fields
<1>2. Plain = [f \in Fields |-> {}]
  BY DEF Plain, Fields
<1> QED BY <1>2 DEF TextType

LEMMA TextsTyped ==
  ASSUME Program
  PROVE  \A t \in DOMAIN dies : Text(t) \in TextType
<1> DEFINE P == {t \in DOMAIN dies : Texts[t] \in TextType}
<1>1. ASSUME NEW t \in DOMAIN dies, Leads[t] \cap DOMAIN dies \subseteq P PROVE t \in P
  <2>0. Texts[t] = TextIn(Texts, t) /\ Range(dies[t].of) \subseteq DOMAIN dies
    BY TextsUnfold, EntryFacts DEF Program
  <2>1. CASE t \in Tagged
    <3>1. TagOf(t) \in TextType
      <4>1. Plain \in [Fields -> SUBSET DOMAIN dies]
        BY PlainTyped DEF TextType
      <4>2. [Plain EXCEPT !["tags"] = {t}] \in [Fields -> SUBSET DOMAIN dies]
        BY <4>1
      <4> QED BY <4>2 DEF TagOf, TextType
    <3> QED BY <2>0, <2>1, <3>1, TextInCases
  <2>2. CASE Kind(t) = "typedef"
    <3>1. ByValue(t) \subseteq DOMAIN dies
      BY DEF ByValue, Tagged
    <3>2. NameOf(t) \in TextType
      <4>1. Plain \in [Fields -> SUBSET DOMAIN dies]
        BY PlainTyped DEF TextType
      <4>2. [Plain EXCEPT !["names"] = {t}] \in [Fields -> SUBSET DOMAIN dies]
        BY <4>1
      <4> QED BY <3>1, <4>2 DEF NameOf, TextType
    <3> QED BY <2>0, <2>2, <3>2, TextInCases
  <2>3. CASE t \notin Tagged /\ Kind(t) # "typedef"
    <3>1. \A u \in Range(dies[t].of) : Texts[u] \in TextType
      <4>1. Leads[t] = Range(dies[t].of)
        BY <2>3 DEF Leads, Tagged
      <4> QED BY <1>1, <2>0, <4>1
    <3>2. BodyOf(Texts, t) \in TextType
      <4>1. {Elements(Texts[m]) : m \in Range(dies[t].of)} \subseteq TextType
        BY <3>1, RecordFacts
      <4> QED BY <4>1, JoinFacts DEF BodyOf
    <3>3. ASSUME Kind(t) = "function" PROVE PrototypeOf(Texts, t) \in TextType
      <4>1. Range(dies[t].of) = {Target(t)} \cup Range(Tail(dies[t].of))
        BY <3>3, EntryFacts DEF Program
      <4>2. {Behind(Texts[Target(t)])} \cup {Params(Texts[p]) : p \in Range(Tail(dies[t].of))} \subseteq TextType
        BY <3>1, <4>1, RecordFacts
      <4> QED BY <4>2, JoinFacts DEF PrototypeOf
    <3>4. ASSUME Modifier(t)
          PROVE  /\ Texts[Target(t)] \in TextType /\ Behind(Texts[Target(t)]) \in TextType
                 /\ Elements(Texts[Target(t)]) \in TextType
      <4>1. Target(t) \in Range(dies[t].of)
        BY <3>4, EntryFacts DEF Program
      <4> QED BY <3>1, <4>1, RecordFacts
    <3>5. TextIn(Texts, t) \in TextType
      BY <2>3, <3>2, <3>3, <3>4, TextInCases DEF Modifier, Modifiers
    <3> QED BY <2>0, <3>5
  <2> QED BY <2>1, <2>2, <2>3
<1> HIDE DEF P
<1>2. DOMAIN dies \subseteq P
  BY <1>1, LeadsAcyclic, AcyclicInduction
<1> QED BY <1>2 DEF P, Text

\* What asks for what a text does.
LEMMA BodyFacts ==
  ASSUME Program, NEW t \in DOMAIN dies
  PROVE  /\ Body(t).top = {}
         /\ \A u \in Body(t).names : \E m \in Range(dies[t].of) : u \in Text(m).names
         /\ \A u \in Body(t).tags : \E m \in Range(dies[t].of) : u \in Text(m).tags
         /\ \A u \in Body(t).protos : \E m \in Range(dies[t].of) : u \in Text(m).protos
         /\ \A u \in Body(t).needs : \E m \in Range(dies[t].of) : u \in Text(m).needs \cup Text(m).top
<1> DEFINE S == {Elements(Text(m)) : m \in Range(dies[t].of)}
<1>1. \A m \in Range(dies[t].of) : Text(m) \in TextType
  BY TextsTyped, EntryFacts DEF Program
<1>2. S \subseteq TextType
  BY <1>1, RecordFacts
<1>3. Body(t) = Join(S)
  BY DEF Body, BodyOf, Text
<1>4. \A x \in S : \E m \in Range(dies[t].of) :
        /\ x.names = Text(m).names /\ x.tags = Text(m).tags /\ x.protos = Text(m).protos
        /\ x.needs = Text(m).needs \cup Text(m).top /\ x.top = {}
  BY <1>1, RecordFacts
<1> HIDE DEF S
<1>5. Join(S) \in TextType /\ \A f \in Fields : \A u : u \in Join(S)[f] <=> \E x \in S : u \in x[f]
  BY <1>2, JoinFacts
<1>6. /\ \A u \in Join(S).names : \E x \in S : u \in x.names
      /\ \A u \in Join(S).tags : \E x \in S : u \in x.tags
      /\ \A u \in Join(S).protos : \E x \in S : u \in x.protos
      /\ \A u \in Join(S).needs : \E x \in S : u \in x.needs
      /\ \A u \in Join(S).top : \E x \in S : u \in x.top
  BY <1>5 DEF Fields
<1> QED BY <1>3, <1>4, <1>6

LEMMA PrototypeFacts ==
  ASSUME Program, NEW t \in DOMAIN dies, Kind(t) = "function"
  PROVE  /\ Text(t).top = {}
         /\ \A u \in Text(t).names : \E m \in Range(dies[t].of) : u \in Text(m).names
         /\ \A u \in Text(t).tags : \E m \in Range(dies[t].of) : u \in Text(m).tags
         /\ \A u \in Text(t).protos : \E m \in Range(dies[t].of) : u \in Text(m).protos \cup Text(m).tags
         /\ \A u \in Text(t).needs : \E m \in Range(dies[t].of) : u \in Text(m).needs
<1> DEFINE S == {Behind(Text(Target(t)))} \cup {Params(Text(p)) : p \in Range(Tail(dies[t].of))}
<1>1. /\ Range(dies[t].of) = {Target(t)} \cup Range(Tail(dies[t].of))
      /\ \A m \in Range(dies[t].of) : Text(m) \in TextType
  BY TextsTyped, EntryFacts DEF Program
<1>2. S \subseteq TextType
  BY <1>1, RecordFacts
<1>3. Text(t) = Join(S)
  <2>1. Texts[t] = TextIn(Texts, t)
    BY TextsUnfold
  <2>2. TextIn(Texts, t) = PrototypeOf(Texts, t)
    BY TextInCases
  <2> QED BY <2>1, <2>2 DEF PrototypeOf, Text
<1>4. \A x \in S : \E m \in Range(dies[t].of) :
        /\ x.names = Text(m).names /\ x.tags \subseteq Text(m).tags
        /\ x.protos \subseteq Text(m).protos \cup Text(m).tags
        /\ x.needs = Text(m).needs /\ x.top = {}
  BY <1>1, RecordFacts
<1> HIDE DEF S
<1>5. Join(S) \in TextType /\ \A f \in Fields : \A u : u \in Join(S)[f] <=> \E x \in S : u \in x[f]
  BY <1>2, JoinFacts
<1>6. /\ \A u \in Join(S).names : \E x \in S : u \in x.names
      /\ \A u \in Join(S).tags : \E x \in S : u \in x.tags
      /\ \A u \in Join(S).protos : \E x \in S : u \in x.protos
      /\ \A u \in Join(S).needs : \E x \in S : u \in x.needs
      /\ \A u \in Join(S).top : \E x \in S : u \in x.top
  BY <1>5 DEF Fields
<1> QED BY <1>3, <1>4, <1>6

LEMMA TextFacts ==
  ASSUME Program, NEW t \in DOMAIN dies
  PROVE  /\ t \in Tagged => /\ Text(t).names = {} /\ Text(t).tags = {t} /\ Text(t).protos = {}
                            /\ Text(t).needs = {} /\ Text(t).top = {t}
         /\ Kind(t) = "typedef" => /\ Text(t).names = {t} /\ Text(t).tags = {} /\ Text(t).protos = {}
                                   /\ Text(t).needs = {} /\ Text(t).top = ByValue(t)
         /\ Kind(t) = "pointer" =>
              /\ Text(t).names = Text(Target(t)).names /\ Text(t).tags = Text(Target(t)).tags
              /\ Text(t).protos = Text(Target(t)).protos
              /\ Text(t).needs = Text(Target(t)).needs /\ Text(t).top = {}
         /\ Kind(t) = "array" =>
              /\ Text(t).names = Text(Target(t)).names /\ Text(t).tags = Text(Target(t)).tags
              /\ Text(t).protos = Text(Target(t)).protos
              /\ Text(t).needs = Text(Target(t)).needs \cup Text(Target(t)).top /\ Text(t).top = {}
         /\ Kind(t) = "qualified" => Text(t) = Text(Target(t))
         /\ t \notin Tagged /\ Kind(t) \notin {"typedef", "function", "pointer", "array", "qualified"} =>
              Text(t) = Body(t)
<1>1. Texts[t] = TextIn(Texts, t)
  BY TextsUnfold
<1>2. CASE t \in Tagged
  <2>1. Text(t) = TagOf(t) /\ Kind(t) \notin {"typedef", "function", "pointer", "array", "qualified"}
    BY <1>1, <1>2, TextInCases DEF Text, Tagged
  <2> QED BY <1>2, <2>1 DEF TagOf, Plain
<1>3. CASE Kind(t) = "typedef"
  <2>1. Text(t) = NameOf(t) /\ t \notin Tagged
    BY <1>1, <1>3, TextInCases DEF Text, Tagged
  <2> QED BY <1>3, <2>1 DEF NameOf, Plain
<1>4. CASE Modifier(t)
  <2>1. Text(Target(t)) \in TextType /\ t \notin Tagged /\ Kind(t) # "typedef"
    BY <1>4, TextsTyped, EntryFacts DEF Program, Tagged, Modifier, Modifiers
  <2>2. /\ Kind(t) = "pointer" => Text(t) = Behind(Text(Target(t)))
        /\ Kind(t) = "array" => Text(t) = Elements(Text(Target(t)))
        /\ Kind(t) = "qualified" => Text(t) = Text(Target(t))
    BY <1>1, TextInCases DEF Text
  <2> QED BY <1>4, <2>1, <2>2, RecordFacts DEF Modifier, Modifiers
<1>5. CASE t \notin Tagged /\ Kind(t) \notin {"typedef", "function", "pointer", "array", "qualified"}
  BY <1>1, <1>5, TextInCases DEF Text, Body
<1>6. CASE Kind(t) = "function"
  BY <1>6 DEF Tagged
<1> QED BY <1>2, <1>3, <1>4, <1>5, <1>6 DEF Modifier, Modifiers

LEMMA TopFacts ==
  ASSUME Program, NEW t \in DOMAIN dies
  PROVE  Text(t).top \subseteq ByValue(t)
<1> DEFINE P == {u \in DOMAIN dies : Text(u).top \subseteq ByValue(u)}
<1>1. ASSUME NEW u \in DOMAIN dies, Leads[u] \cap DOMAIN dies \subseteq P PROVE u \in P
  <2>1. CASE u \in Tagged
    BY <2>1, TextFacts, ByValueStep DEF Tagged, Objects
  <2>2. CASE Kind(u) = "qualified"
    <3>1. Target(u) \in Leads[u] /\ Target(u) \in DOMAIN dies
      BY <2>2, EntryFacts DEF Leads, Program, Modifiers, Modifier
    <3>2. ByValue(u) = ByValue(Target(u)) /\ Text(u) = Text(Target(u))
      BY <2>2, ByValueStep, TextFacts DEF Objects
    <3> QED BY <1>1, <3>1, <3>2
  <2>3. CASE Kind(u) \in {"typedef", "pointer", "array"}
    BY <2>3, TextFacts
  <2>4. CASE Kind(u) = "function"
    BY <2>4, PrototypeFacts
  <2>5. CASE u \notin Tagged /\ Kind(u) \notin {"typedef", "function", "pointer", "array", "qualified"}
    BY <2>5, TextFacts, BodyFacts
  <2> QED BY <2>1, <2>2, <2>3, <2>4, <2>5
<1> HIDE DEF P
<1>2. DOMAIN dies \subseteq P
  BY <1>1, LeadsAcyclic, AcyclicInduction
<1> QED BY <1>2 DEF P
=============================================================================
