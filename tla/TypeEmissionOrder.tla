-------------------------- MODULE TypeEmissionOrder --------------------------
(***************************************************************************)
(* The order in which the emission of a header states typedef names, and   *)
(* how deep its calls go, for every unit none of whose definitions comes   *)
(* to ask for itself.                                                      *)
(*                                                                         *)
(* A typedef has a status before it is stated: while its own text is being *)
(* put together.  No text stated meanwhile may have its name in it.  What  *)
(* that asks for lies in a set of questions closed under Asked that does   *)
(* not ask for the typedef; the promises below are made for every such     *)
(* set.                                                                    *)
(*                                                                         *)
(* The second half ranks the questions by what asks for what: a call nests *)
(* no deeper than the rank of what it is asked.  A circular unit has no    *)
(* ranks, and nothing is said of it.                                       *)
(***************************************************************************)
EXTENDS TypeEmissionProofs

\* The types that may be defined, or declared, where S may be asked.
Definable(S)  == {t \in DOMAIN dies : <<t, "define">> \in S}
Declarable(S) == {t \in DOMAIN dies : <<t, "declare">> \in S}

\* The types whose text may be used: a text without a name is a definition.
Sayable(S) ==
  Definable(S) \cup {t \in Declarable(S) : Named(t) /\ Kind(t) # "function"}

\* May the underlying type be asked to be what a definition wants?
Below(S, t) ==
  Target(t) \in Definable(S) \/ (Kind(t) = "pointer" /\ Target(t) \in Declarable(S))

\* What may be asked at a time.
Rooms == {S \in SUBSET Wanted : Definable(S) \subseteq Declarable(S)}

\* Where P may be asked, what that asks may be.
Above(P, R) == \A q \in P : Asked(q) \subseteq R

AskClosed(S) == S \in SUBSET Wanted /\ Above(S, S)

\* All that can be asked without asking for a declaration of t.
Before(t) == UNION {S \in SUBSET Wanted : AskClosed(S) /\ <<t, "declare">> \notin S}

LEMMA AskedFacts ==
  ASSUME Program, NEW t \in DOMAIN dies
  PROVE  /\ <<t, "declare">> \in Wanted /\ <<t, "define">> \in Wanted
         /\ Asked(<<t, "declare">>) = ToDeclare(t) /\ Asked(<<t, "define">>) = ToDefine(t)
         /\ ToDeclare(t) \subseteq Wanted /\ ToDefine(t) \subseteq Wanted
<1>1. Range(dies[t].of) \subseteq DOMAIN dies
  BY EntryFacts DEF Program
<1>2. PartsAs(t, "declare") \subseteq Wanted /\ PartsAs(t, "define") \subseteq Wanted
  BY <1>1 DEF PartsAs, Wanted
<1>3. <<t, "declare">> \in Wanted /\ <<t, "define">> \in Wanted
  BY DEF Wanted
<1>4. Asked(<<t, "declare">>) = ToDeclare(t) /\ Asked(<<t, "define">>) = ToDefine(t)
  BY DEF Asked
<1>5. ToDeclare(t) \subseteq Wanted
  BY <1>2 DEF ToDeclare
<1>6. ToDefine(t) \subseteq Wanted
  BY <1>2, <1>3 DEF ToDefine
<1> QED BY <1>3, <1>4, <1>5, <1>6

LEMMA AskedWanted ==
  ASSUME Program, NEW q \in Wanted PROVE Asked(q) \subseteq Wanted
<1>1. PICK t \in DOMAIN dies, w \in {"declare", "define"} : q = <<t, w>>
  BY DEF Wanted
<1>2. Asked(<<t, w>>) \subseteq Wanted
  BY AskedFacts
<1> QED BY <1>1, <1>2

\* In what may be asked whatever a type is made from may be.
LEMMA PartsAsked ==
  ASSUME Program, NEW P, NEW R, Above(P, R), NEW t \in Definable(P), Kind(t) # "pointer"
  PROVE  Range(dies[t].of) \subseteq Definable(R)
<1>1. t \in DOMAIN dies /\ ToDefine(t) \subseteq R
  BY AskedFacts DEF Definable, Above
<1>2. PartsAs(t, "define") \subseteq R
  BY <1>1 DEF ToDefine
<1>3. Range(dies[t].of) \subseteq DOMAIN dies
  BY <1>1, EntryFacts DEF Program
<1> QED BY <1>2, <1>3 DEF PartsAs, Definable

LEMMA ClosedRoom ==
  ASSUME Program, NEW S, AskClosed(S) PROVE S \in Rooms /\ Above(S, S)
<1> SUFFICES ASSUME NEW t \in Definable(S) PROVE t \in Declarable(S)
  BY DEF AskClosed, Rooms
<1>1. t \in DOMAIN dies /\ ToDefine(t) \subseteq S
  BY AskedFacts DEF Definable, AskClosed, Above
<1> QED BY <1>1 DEF ToDefine, Declarable

LEMMA AllClosed ==
  ASSUME Program PROVE AskClosed(Wanted) /\ Definable(Wanted) = DOMAIN dies
BY AskedWanted, AskedFacts DEF AskClosed, Above, Definable

LEMMA ClosedMeet ==
  ASSUME NEW S, NEW T, AskClosed(S), AskClosed(T)
  PROVE  /\ AskClosed(S \cap T)
         /\ Declarable(S \cap T) = Declarable(S) \cap Declarable(T)
         /\ Definable(S \cap T) = Definable(S) \cap Definable(T)
BY DEF AskClosed, Above, Declarable, Definable

LEMMA BeforeFacts ==
  ASSUME Program, ~Circular, NEW t \in DOMAIN dies
  PROVE  AskClosed(Before(t)) /\ t \notin Declarable(Before(t)) /\ ToDeclare(t) \subseteq Before(t)
<1> DEFINE a == <<t, "declare">>
           B == Before(t)
           C == Wanted \ B
           next == [q \in Wanted |-> Asked(q)]
<1>0. a \in Wanted /\ Asked(a) = ToDeclare(t) /\ Asked(a) \subseteq Wanted
  BY AskedFacts
<1>1. AskClosed(B) /\ a \notin B
  BY DEF Before, AskClosed, Above
<1>a. t \notin Declarable(B)
  BY <1>1 DEF Declarable
<1>b. \A S : S \in SUBSET Wanted /\ AskClosed(S) /\ a \notin S => S \subseteq B
  BY DEF Before
<1> HIDE DEF a, B
<1>2. ASSUME NEW y \in C, y # a PROVE Asked(y) \cap C # {}
  <2> SUFFICES ASSUME Asked(y) \subseteq B PROVE FALSE
    BY AskedWanted
  <2>1. B \cup {y} \in SUBSET Wanted /\ a \notin B \cup {y}
    BY <1>1, <1>2 DEF AskClosed
  <2>2. AskClosed(B \cup {y})
    BY <1>1, <2>1 DEF AskClosed, Above
  <2>3. B \cup {y} \subseteq B
    BY <1>b, <2>1, <2>2
  <2> QED BY <1>2, <2>3
<1>3. PICK y \in C : Asked(y) \cap C = {}
  <2>1. a \in C /\ C \in SUBSET DOMAIN next /\ C # {}
    BY <1>0, <1>1
  <2>2. \A x \in C : next[x] = Asked(x)
    OBVIOUS
  <2>3. Acyclic(next)
    BY DEF Circular
  <2> HIDE DEF C, next
  <2>4. ~ \A x \in C : next[x] \cap C # {}
    BY <2>1, <2>3 DEF Acyclic
  <2> QED BY <2>2, <2>4
<1>4. Asked(a) \cap C = {}
  BY <1>2, <1>3
<1>5. ToDeclare(t) \subseteq B
  BY <1>0, <1>4
<1> QED BY <1>1, <1>a, <1>5 DEF B

-----------------------------------------------------------------------------
(* What a type asks of the one below it *)

LEMMA TargetAsked ==
  ASSUME Program, NEW P \in Rooms, NEW R \in Rooms, Above(P, R), NEW t \in DOMAIN dies, Refers(t)
  PROVE  /\ t \in Definable(P) => Below(R, t)
         /\ t \in Definable(P) /\ (Kind(t) # "pointer" \/ ~Named(t)) => Target(t) \in Definable(R)
         /\ t \in Declarable(P) => Target(t) \in Declarable(R)
         /\ t \in Declarable(P) /\ Kind(t) = "typedef" => Target(t) \in Sayable(R)
         /\ t \in Sayable(P) => Target(t) \in Sayable(R)
         /\ Below(R, t) => Target(t) \in Declarable(R)
<1> DEFINE u == Target(t)
<1>1. Range(dies[t].of) = {u} /\ u \in DOMAIN dies /\ Part(u)
  BY EntryFacts, RefersFacts DEF Refers, Program
<1>2. /\ Modifier(t) => Named(t) = Named(u)
      /\ Kind(t) = "pointer" => Modifier(t)
      /\ Kind(t) = "typedef" => ~Modifier(t)
      /\ Kind(u) = "function" => ~Named(u)
  BY <1>1, InnermostFacts DEF Modifier, Modifiers, Part
<1>3. PartsAs(t, "declare") = {<<u, "declare">>} /\ PartsAs(t, "define") = {<<u, "define">>}
  BY <1>1 DEF PartsAs
<1> HIDE DEF u
<1>4. /\ <<u, "define">> \in R => u \in Definable(R)
      /\ <<u, "declare">> \in R => u \in Declarable(R)
  BY <1>1 DEF Definable, Declarable
<1>5. u \in Definable(R) => u \in Declarable(R)
  BY DEF Rooms
<1>6. ASSUME t \in Definable(P)
      PROVE  /\ u \in Declarable(R)
             /\ u \in Definable(R) \/ (Kind(t) = "pointer" /\ Named(t))
  <2>1. ToDefine(t) \subseteq R
    BY <1>6, AskedFacts DEF Definable, Above
  <2>2. <<u, IF Kind(t) = "pointer" /\ Named(t) THEN "declare" ELSE "define">> \in R
    BY <1>3, <2>1 DEF ToDefine
  <2> QED BY <1>4, <1>5, <2>2
<1>7. ASSUME t \in Declarable(P)
      PROVE  /\ u \in Declarable(R)
             /\ u \in Definable(R) \/ Modifier(t) \/ (Kind(t) = "typedef" /\ Named(u))
  <2>1. ToDeclare(t) \subseteq R
    BY <1>7, AskedFacts DEF Declarable, Above
  <2>2. <<u, IF Modifier(t) \/ (Kind(t) = "typedef" /\ Named(u)) THEN "declare" ELSE "define">> \in R
    BY <1>3, <2>1 DEF ToDeclare, Refers, u
  <2> QED BY <1>4, <1>5, <2>2
<1>8. u \in Sayable(R) <=> u \in Definable(R) \/ (u \in Declarable(R) /\ Named(u))
  BY <1>2 DEF Sayable
<1>9. ASSUME t \in Sayable(P) PROVE u \in Sayable(R)
  <2>1. CASE t \in Definable(P)
    BY <1>2, <1>6, <1>8, <2>1
  <2>2. CASE t \in Declarable(P) /\ Named(t)
    BY <1>2, <1>7, <1>8, <2>2
  <2> QED BY <1>9, <2>1, <2>2 DEF Sayable
<1>10. t \in Declarable(P) /\ Kind(t) = "typedef" => u \in Sayable(R)
  BY <1>2, <1>7, <1>8
<1> QED BY <1>5, <1>6, <1>7, <1>9, <1>10 DEF Below, u

\* The typedef names in the text of a type are among what it asks for.
LEMMA NamesIn ==
  ASSUME Program, NEW S, AskClosed(S)
  PROVE  \A t \in Sayable(S) : Text(t).names \subseteq Declarable(S)
<1> DEFINE In(t) == t \in Sayable(S) => Text(t).names \subseteq Declarable(S)
           P == {t \in DOMAIN dies : In(t)}
<1>0. S \in Rooms /\ Above(S, S) /\ Definable(S) \subseteq Declarable(S)
  BY ClosedRoom DEF Rooms
<1>1. ASSUME NEW t \in DOMAIN dies, Leads[t] \cap DOMAIN dies \subseteq P PROVE t \in P
  <2> SUFFICES ASSUME t \in Sayable(S) PROVE Text(t).names \subseteq Declarable(S)
    OBVIOUS
  <2>1. CASE t \in Tagged
    BY <2>1, TextFacts
  <2>2. CASE Kind(t) = "typedef"
    BY <1>0, <2>2, TextFacts DEF Sayable
  <2>3. CASE t \notin Tagged /\ Kind(t) # "typedef"
    <3>1. ASSUME NEW m \in Range(dies[t].of) PROVE m \in DOMAIN dies /\ In(m)
      <4>1. m \in DOMAIN dies /\ m \in Leads[t]
        BY <2>3, EntryFacts DEF Leads, Tagged, Program
      <4> HIDE DEF In
      <4> QED BY <1>1, <4>1
    <3>2. CASE Modifier(t)
      <4>1. Target(t) \in DOMAIN dies /\ Target(t) \in Range(dies[t].of)
        BY <3>2, EntryFacts DEF Program
      <4>2. Text(t).names = Text(Target(t)).names
        BY <3>2, TextFacts DEF Modifier, Modifiers
      <4>3. Target(t) \in Sayable(S)
        BY <1>0, <3>2, TargetAsked DEF Refers
      <4> QED BY <3>1, <4>1, <4>2, <4>3
    <3>3. CASE ~Modifier(t)
      <4>1. Range(dies[t].of) \subseteq Sayable(S)
        <5>1. CASE t \in Definable(S)
          BY <1>0, <3>3, <5>1, PartsAsked DEF Modifier, Modifiers, Sayable
        <5>2. CASE t \notin Definable(S)
          <6>1. dies[t].named /\ Kind(t) # "function" /\ Kind(t) \in Kinds
            BY <3>3, <5>2, InnermostFacts, EntryFacts DEF Sayable, Program
          <6>2. Kind(t) \in {"base", "unknown"}
            BY <2>3, <3>3, <6>1 DEF Kinds, Modifier, Tagged
          <6> QED BY <6>2, EntryFacts DEF Program, Range
        <5> QED BY <5>1, <5>2
      <4>2. CASE Kind(t) = "function"
        BY <3>1, <4>1, <4>2, PrototypeFacts
      <4>3. CASE Kind(t) # "function"
        <5>1. Text(t) = Body(t)
          BY <2>3, <3>3, <4>3, TextFacts DEF Modifier, Modifiers
        <5> QED BY <3>1, <4>1, <5>1, BodyFacts
      <4> QED BY <4>2, <4>3
    <3> QED BY <3>2, <3>3
  <2> QED BY <2>1, <2>2, <2>3
<1> HIDE DEF P
<1>2. DOMAIN dies \subseteq P
  BY <1>1, LeadsAcyclic, AcyclicInduction
<1>3. Sayable(S) \subseteq DOMAIN dies
  BY DEF Sayable, Definable, Declarable
<1> QED BY <1>2, <1>3 DEF P


\* The typedefs named in the text of what is ready are not new.
LEMMA NamesMet ==
  ASSUME Program, NEW e \in Emissions, NEW X, Inv(e, X)
  PROVE  \A t \in DOMAIN dies : Readable(e, t) =>
           \A u \in Text(t).names : u \in DOMAIN dies /\ Kind(u) = "typedef" /\ e.status[u] # "NEW"
<1> DEFINE Met(t) == \A u \in Text(t).names : u \in DOMAIN dies /\ Kind(u) = "typedef" /\ e.status[u] # "NEW"
           P == {t \in DOMAIN dies : Readable(e, t) => Met(t)}
<1>1. ASSUME NEW t \in DOMAIN dies, Leads[t] \cap DOMAIN dies \subseteq P PROVE t \in P
  <2> SUFFICES ASSUME Readable(e, t) PROVE Met(t)
    OBVIOUS
  <2>1. CASE t \in Tagged
    BY <2>1, TextFacts
  <2>2. CASE Kind(t) = "typedef"
    <3>1. Text(t).names = {t}
      BY <2>2, TextFacts
    <3>2. Named(t) /\ Status(e, t) = e.status[t]
      BY <2>2, InnermostFacts, EntryFacts DEF Program, Modifier, Modifiers, Status
    <3>3. e.status[t] # "NEW"
      BY <3>2 DEF Readable, Ready, Known
    <3> QED BY <2>2, <3>1, <3>3
  <2>3. CASE t \notin Tagged /\ Kind(t) # "typedef"
    <3>1. ASSUME NEW m \in Range(dies[t].of) PROVE Met(m)
      <4>1. m \in DOMAIN dies /\ m \in Leads[t] /\ Readable(e, m)
        BY <2>3, ReadyParts
      <4> HIDE DEF Met
      <4> QED BY <1>1, <4>1
    <3>2. Modifier(t) => Target(t) \in Range(dies[t].of)
      BY EntryFacts DEF Program
    <3>3. CASE Kind(t) \in {"pointer", "array", "qualified"}
      BY <3>1, <3>2, <3>3, TextFacts DEF Modifier, Modifiers
    <3>4. CASE Kind(t) = "function"
      BY <3>1, <3>4, PrototypeFacts
    <3>5. CASE Kind(t) \notin {"function", "pointer", "array", "qualified"}
      BY <2>3, <3>1, <3>5, TextFacts, BodyFacts
    <3> QED BY <3>3, <3>4, <3>5
  <2> QED BY <2>1, <2>2, <2>3
<1> HIDE DEF P
<1>2. DOMAIN dies \subseteq P
  BY <1>1, LeadsAcyclic, AcyclicInduction
<1> QED BY <1>2 DEF P

-----------------------------------------------------------------------------
(* What is so of the header and the statuses whenever a call is made *)

\* The typedefs whose own definition is still asking for others.
Pending(e) == {t \in DOMAIN dies : Kind(t) = "typedef" /\ e.status[t] # "NEW"} \ Mentioned(e)

FinishedDone(e) == \A t \in Finished(e) : Modifier(t) \/ e.status[t] = "DONE"

EarlyOnly(header) ==
  \A i \in DOMAIN header : Specifier(header[i].of) \/ Innermost(header[i].of) \notin Completed(header, i)

Tidy(e) == NamesKnown(e.header) /\ EarlyOnly(e.header) /\ FinishedDone(e)

\* A call that asks for types of S only, none of which is pending.
Clear(e, S) == Inv(e, {}) /\ AskClosed(S) /\ Tidy(e) /\ Pending(e) \cap Declarable(S) = {}

\* What such a call leaves behind.  P: the type it may leave pending.
Since(e, f, S, P) ==
  /\ Tidy(f) /\ Pending(f) \subseteq Pending(e) \cup P
  /\ \A t \in DOMAIN dies : Kind(t) = "typedef" /\ t \notin Declarable(S) => f.status[t] = e.status[t]

LEMMA SinceSame ==
  ASSUME NEW e, NEW f, NEW S, Tidy(e), f.status = e.status, f.header = e.header
  PROVE  Since(e, f, S, {})
<1>1. Mentioned(f) = Mentioned(e) /\ Finished(f) = Finished(e)
  BY DEF Mentioned, Finished
<1>2. Tidy(f)
  BY <1>1 DEF Tidy, FinishedDone
<1>3. Pending(f) = Pending(e)
  BY <1>1 DEF Pending
<1> QED BY <1>2, <1>3 DEF Since

LEMMA SinceThen ==
  ASSUME NEW e, NEW f, NEW g, NEW S, NEW P
  PROVE  /\ Since(e, f, S, {}) /\ Since(f, g, S, P) => Since(e, g, S, P)
         /\ Since(e, f, S, P) /\ Since(f, g, S, {}) => Since(e, g, S, P)
BY DEF Since

LEMMA SinceWithin ==
  ASSUME NEW e, NEW f, NEW S, NEW T, NEW P, Since(e, f, S, P), S \subseteq T
  PROVE  Since(e, f, T, P)
BY DEF Since, Declarable

LEMMA SinceExempt ==
  ASSUME NEW e, NEW f, NEW S, NEW t, Since(e, f, S, {t}), Kind(t) # "typedef"
  PROVE  Since(e, f, S, {})
BY DEF Since, Pending

LEMMA ClearSince ==
  ASSUME NEW e, NEW f, NEW S, Clear(e, S), Since(e, f, S, {}), Inv(f, {})
  PROVE  Clear(f, S)
BY DEF Clear, Since

LEMMA ClearWithin ==
  ASSUME NEW e, NEW S, NEW T, Clear(e, S), AskClosed(T), T \subseteq S
  PROVE  Clear(e, T)
BY DEF Clear, Declarable

LEMMA ClearMade ==
  ASSUME Program, NEW e \in Emissions, NEW u \in DOMAIN dies, NEW S, Clear(e, S)
  PROVE  Made(e, u) \in Emissions /\ Clear(Made(e, u), S) /\ Since(e, Made(e, u), S, {})
<1> DEFINE f == Made(e, u)
<1>1. f \in Emissions /\ f.status = e.status /\ f.header = e.header
  BY MadeFacts
<1>2. Inv(f, {})
  BY MadeSame DEF Clear
<1> HIDE DEF f
<1>3. Since(e, f, S, {})
  BY <1>1, SinceSame DEF Clear
<1> QED BY <1>1, <1>2, <1>3, ClearSince DEF f

LEMMA SettingSince ==
  ASSUME NEW e \in Emissions, NEW t \in DOMAIN dies, NEW s \in Statuses, NEW S, Tidy(e),
         s = "DONE" \/ e.status[t] # "DONE", Kind(t) = "typedef" => t \in Declarable(S)
  PROVE  Since(e, Setting(e, t, s), S, {t})
<1> DEFINE f == Setting(e, t, s)
<1>1. /\ f.header = e.header /\ f.status[t] = s
      /\ \A u \in DOMAIN dies : u # t => f.status[u] = e.status[u]
  BY SettingFacts
<1> HIDE DEF f
<1>2. Mentioned(f) = Mentioned(e) /\ Finished(f) = Finished(e)
  BY <1>1 DEF Mentioned, Finished
<1>3. Finished(e) \subseteq DOMAIN dies
  <2>1. \A i \in DOMAIN e.header : e.header[i] \in Statements
    BY EmissionFacts
  <2>2. \A i \in DOMAIN e.header : e.header[i].of \in DOMAIN dies
    BY <2>1 DEF Statements
  <2>3. DOMAIN e.header = 1 .. Len(e.header) /\ Len(e.header) \in Nat
    BY EmissionFacts
  <2> QED BY <2>2, <2>3 DEF Finished, Completed
<1>4. FinishedDone(f)
  BY <1>1, <1>2, <1>3 DEF FinishedDone, Tidy
<1>5. Tidy(f)
  BY <1>1, <1>4 DEF Tidy
<1>6. Pending(f) \subseteq Pending(e) \cup {t}
  BY <1>1, <1>2 DEF Pending
<1> QED BY <1>1, <1>5, <1>6 DEF Since, f

-----------------------------------------------------------------------------
(* A statement more *)

\* Are the typedefs named in the statement stated?
Worded(e, t, form) ==
  \A u \in TextOf([of |-> t, form |-> form]).names : Kind(u) = "typedef" /\ u \in Mentioned(e)

\* May it be stated?
InOrder(e, t, form) ==
  /\ Worded(e, t, form)
  /\ Completes([of |-> t, form |-> form]) => Modifier(t) \/ e.status[t] = "DONE"
  /\ Specifier(t) \/ Innermost(t) \notin Finished(e)

LEMMA EmittedTidy ==
  ASSUME NEW e \in Emissions, NEW t \in DOMAIN dies, NEW form \in {"declare", "define"},
         Tidy(e), InOrder(e, t, form)
  PROVE  Tidy(Emitted(e, t, form)) /\ Pending(Emitted(e, t, form)) \subseteq Pending(e) \ {t}
<1> DEFINE f == Emitted(e, t, form)
           s == [of |-> t, form |-> form]
           N == Len(e.header)
<1>1. f.header = Append(e.header, s) /\ f.status = e.status
  BY EmittedFacts
<1>2. /\ N \in Nat /\ DOMAIN e.header = 1 .. N
      /\ Len(f.header) = N + 1 /\ DOMAIN f.header = 1 .. N + 1
      /\ \A i \in 1 .. N : f.header[i] = e.header[i]
      /\ f.header[N + 1] = s /\ s.of = t
  <2>1. e.header \in Seq(Statements) /\ s \in Statements
    BY EmissionFacts DEF Statements
  <2> HIDE DEF s, f
  <2>2. /\ Len(Append(e.header, s)) = N + 1 /\ Append(e.header, s) \in Seq(Statements)
        /\ \A i \in 1 .. N : Append(e.header, s)[i] = e.header[i]
        /\ Append(e.header, s)[N + 1] = s
    BY <2>1, AppendProperties
  <2> QED BY <1>1, <2>1, <2>2 DEF s
<1>3. Mentioned(f) = Mentioned(e) \cup {t}
  BY EmittedSets
<1> HIDE DEF f
<1>4. /\ \A u \in TextOf(s).names : Kind(u) = "typedef" /\ u \in Mentioned(e)
      /\ Completes(s) => Modifier(t) \/ e.status[t] = "DONE"
      /\ Specifier(t) \/ Innermost(t) \notin Finished(e)
  BY DEF Worded, InOrder
<1> HIDE DEF s
<1>5. ASSUME NEW i \in 1 .. N + 1
      PROVE  Completed(f.header, i) = Completed(e.header, i) /\ Typedefs(f.header, i) = Typedefs(e.header, i)
  <2>1. 1 .. i - 1 \subseteq 1 .. N
    BY <1>2
  <2>2. \A j \in 1 .. i - 1 : f.header[j] = e.header[j]
    BY <1>2, <2>1
  <2> QED BY <2>2 DEF Completed, Typedefs
<1>6. Completed(e.header, N + 1) = Finished(e)
  BY DEF Finished
<1>7. \A u \in Mentioned(e) : Kind(u) = "typedef" => u \in Typedefs(e.header, N + 1)
  <2>1. N + 1 - 1 = N
    BY <1>2
  <2> DEFINE K == N + 1
  <2>2. K - 1 = N
    BY <2>1
  <2> HIDE DEF K
  <2>3. Typedefs(e.header, K) = {e.header[j].of : j \in {k \in 1 .. N : Kind(e.header[k].of) = "typedef"}}
    BY <2>2 DEF Typedefs
  <2>4. Mentioned(e) = {e.header[j].of : j \in 1 .. N}
    BY <1>2 DEF Mentioned
  <2>5. \A u \in Mentioned(e) : Kind(u) = "typedef" => u \in Typedefs(e.header, K)
    BY <2>3, <2>4
  <2> QED BY <2>5 DEF K
<1>8. \A i \in 1 .. N + 1 : i = N + 1 \/ i \in 1 .. N
  BY <1>2
<1>9. N + 1 \in 1 .. N + 1
  BY <1>2
<1>10. NamesKnown(f.header)
  <2>1. ASSUME NEW i \in 1 .. N + 1
        PROVE  TextOf(f.header[i]).names \subseteq Typedefs(f.header, i)
    <3>1. CASE i = N + 1
      BY <1>2, <1>4, <1>5, <1>7, <3>1
    <3>2. CASE i \in 1 .. N
      BY <1>2, <1>5, <3>2 DEF Tidy, NamesKnown
    <3> QED BY <1>8, <3>1, <3>2
  <2> QED BY <1>2, <2>1 DEF NamesKnown
<1>11. EarlyOnly(f.header)
  <2>1. ASSUME NEW i \in 1 .. N + 1
        PROVE  Specifier(f.header[i].of) \/ Innermost(f.header[i].of) \notin Completed(f.header, i)
    <3>1. CASE i = N + 1
      BY <1>2, <1>4, <1>5, <1>6, <3>1
    <3>2. CASE i \in 1 .. N
      BY <1>2, <1>5, <3>2 DEF Tidy, EarlyOnly
    <3> QED BY <1>8, <3>1, <3>2
  <2> QED BY <1>2, <2>1 DEF EarlyOnly
<1>12. FinishedDone(f)
  <2>1. Finished(e) = {e.header[j].of : j \in {k \in 1 .. N : Completes(e.header[k])}}
    BY <1>2 DEF Finished, Completed
  <2>2. Finished(f) = {f.header[j].of : j \in {k \in 1 .. N + 1 : Completes(f.header[k])}}
    BY <1>2 DEF Finished, Completed
  <2>3. ASSUME NEW u \in Finished(f) PROVE u \in Finished(e) \/ (u = t /\ Completes(s))
    <3>1. PICK j \in 1 .. N + 1 : Completes(f.header[j]) /\ u = f.header[j].of
      BY <2>2
    <3> QED BY <1>2, <1>8, <2>1, <3>1
  <2> QED BY <1>1, <1>4, <2>3 DEF FinishedDone, Tidy
<1>13. Pending(f) \subseteq Pending(e) \ {t}
  BY <1>1, <1>3 DEF Pending
<1> QED BY <1>10, <1>11, <1>12, <1>13 DEF Tidy, f

-----------------------------------------------------------------------------
(* What a statement names has been stated *)

LEMMA NamesMentioned ==
  ASSUME Program, NEW S, AskClosed(S), NEW f \in Emissions, NEW X, Inv(f, X), NEW d,
         Pending(f) \cap Declarable(S) \subseteq {d},
         NEW t \in Sayable(S), Readable(f, t), d \notin Text(t).names
  PROVE  \A u \in Text(t).names : Kind(u) = "typedef" /\ u \in Mentioned(f)
<1>0. t \in DOMAIN dies
  BY DEF Sayable, Definable, Declarable
<1>1. \A u \in Text(t).names : u \in DOMAIN dies /\ Kind(u) = "typedef" /\ f.status[u] # "NEW"
  BY <1>0, NamesMet
<1>2. Text(t).names \subseteq Declarable(S)
  BY NamesIn
<1> QED BY <1>1, <1>2 DEF Pending

\* The text of a typedef asks for what does not ask for the typedef.
LEMMA TypedefAsks ==
  ASSUME Program, ~Circular, NEW S, AskClosed(S), NEW t \in Declarable(S), Kind(t) = "typedef"
  PROVE  LET T == S \cap Before(t)
         IN  /\ AskClosed(T) /\ T \subseteq S /\ t \notin Declarable(T)
             /\ Declarable(T) \subseteq Declarable(S) /\ Target(t) \in Sayable(T)
<1> DEFINE T == S \cap Before(t)
           P == {<<t, "declare">>}
<1>1. t \in DOMAIN dies /\ <<t, "declare">> \in S
  BY DEF Declarable
<1>2. AskClosed(Before(t)) /\ t \notin Declarable(Before(t)) /\ ToDeclare(t) \subseteq Before(t)
  BY <1>1, BeforeFacts
<1>3. AskClosed(T) /\ T \subseteq S /\ t \notin Declarable(T) /\ Declarable(T) \subseteq Declarable(S)
  <2>1. AskClosed(T) /\ Declarable(T) = Declarable(S) \cap Declarable(Before(t))
    BY <1>2, ClosedMeet
  <2>2. T \subseteq S
    OBVIOUS
  <2> HIDE DEF T
  <2> QED BY <1>2, <2>1, <2>2
<1>4. Asked(<<t, "declare">>) = ToDeclare(t) /\ <<t, "declare">> \in Wanted
  BY <1>1, AskedFacts
<1>5. ToDeclare(t) \subseteq S
  BY <1>1, <1>4 DEF AskClosed, Above
<1>6. P \in Rooms /\ t \in Declarable(P)
  BY <1>1, <1>4 DEF Rooms, Definable, Declarable
<1>7. Above(P, T)
  BY <1>2, <1>4, <1>5 DEF Above
<1> HIDE DEF P, T
<1>8. T \in Rooms
  BY <1>3, ClosedRoom
<1>9. Target(t) \in Sayable(T)
  BY <1>1, <1>6, <1>7, <1>8, TargetAsked DEF Refers
<1> QED BY <1>3, <1>9 DEF T

\* The text below a typedef does not have its name in it.
LEMMA NamesBelow ==
  ASSUME Program, ~Circular, NEW S, AskClosed(S), NEW f \in Emissions, NEW X, Inv(f, X),
         NEW t \in Declarable(S), Kind(t) = "typedef", Pending(f) \cap Declarable(S) \subseteq {t},
         Readable(f, Target(t))
  PROVE  \A u \in Text(Target(t)).names : Kind(u) = "typedef" /\ u \in Mentioned(f)
<1> DEFINE T == S \cap Before(t)
<1>1. /\ AskClosed(T) /\ t \notin Declarable(T)
      /\ Declarable(T) \subseteq Declarable(S) /\ Target(t) \in Sayable(T)
  BY TypedefAsks
<1> HIDE DEF T
<1>2. t \notin Text(Target(t)).names
  BY <1>1, NamesIn
<1>3. Pending(f) \cap Declarable(T) \subseteq {t}
  BY <1>1
<1> QED BY <1>1, <1>2, <1>3, NamesMentioned

LEMMA WordedDeclare ==
  ASSUME Program, ~Circular, NEW S, AskClosed(S), NEW f \in Emissions, NEW t \in DOMAIN dies, Inv(f, {t}),
         Pending(f) \cap Declarable(S) \subseteq {t}, Named(t), ~Modifier(t), Kind(t) # "function",
         Kind(t) = "typedef" => t \in Declarable(S) /\ Ready(f, Target(t))
  PROVE  Worded(f, t, "declare")
<1> DEFINE s == [of |-> t, form |-> "declare"]
           x == TextOf(s)
<1>1. dies[t].named /\ Kind(t) \in Kinds
  BY InnermostFacts, EntryFacts DEF Program
<1>2. x = IF Kind(t) = "typedef" THEN Text(Target(t)) ELSE Text(t)
  BY DEF TextOf
<1> HIDE DEF x
<1>3. CASE Kind(t) = "typedef"
  <2>1. Readable(f, Target(t))
    BY <1>3, EntryFacts DEF Program, Readable, Part
  <2>2. \A u \in Text(Target(t)).names : Kind(u) = "typedef" /\ u \in Mentioned(f)
    BY <1>3, <2>1, NamesBelow
  <2> QED BY <1>2, <1>3, <2>2 DEF Worded, x
<1>4. CASE Kind(t) # "typedef"
  <2>1. x.names = {}
    <3>1. CASE t \in Tagged
      BY <1>2, <1>4, <3>1, TextFacts
    <3>2. CASE t \notin Tagged
      <4>1. Kind(t) \in {"base", "unknown"}
        BY <1>1, <1>4, <3>2 DEF Kinds, Tagged, Modifier
      <4>2. Range(dies[t].of) = {}
        BY <4>1, EntryFacts DEF Range, Program
      <4> QED BY <1>2, <3>2, <4>1, <4>2, TextFacts, BodyFacts
    <3> QED BY <3>1, <3>2
  <2> QED BY <2>1 DEF Worded, x
<1> QED BY <1>3, <1>4

LEMMA WordedDefine ==
  ASSUME Program, ~Circular, NEW S, AskClosed(S), NEW f \in Emissions, NEW t \in DOMAIN dies, Inv(f, {t}),
         t \in Definable(S), Pending(f) \cap Declarable(S) \subseteq {t},
         Named(t), Reached(f, t), Status(f, t) # "NEW", Kind(t) \notin {"array", "pointer"},
         Straight(t) /\ ~Opaque(t) => Done(f, t),
         Kind(t) = "typedef" => Ready(f, Target(t))
  PROVE  Worded(f, t, "define")
<1> DEFINE s == [of |-> t, form |-> "define"]
           x == TextOf(s)
<1>0. Above(S, S) /\ t \in Declarable(S) /\ t \in Sayable(S)
  BY ClosedRoom DEF Rooms, Sayable
<1>1. Kind(t) \in Kinds /\ (~Modifier(t) => Innermost(t) = t /\ dies[t].named /\ Status(f, t) = f.status[t])
  BY InnermostFacts, EntryFacts DEF Program, Status
<1>2. ~Modifier(t) => Straight(t)
  BY StraightStep
<1>3. /\ Kind(t) = "struct" => x = Body(t)
      /\ Kind(t) = "typedef" => x = Text(Target(t))
      /\ Kind(t) \notin {"struct", "typedef"} => x = Text(t)
  <2>1. Kind(t) = "struct" => x = Body(t)
    BY Zenon DEF TextOf
  <2>2. Kind(t) = "typedef" => x = Text(Target(t))
    BY Zenon DEF TextOf
  <2>3. Kind(t) \notin {"struct", "typedef"} => x = Text(t)
    BY Zenon DEF TextOf
  <2> HIDE DEF x
  <2> QED BY <2>1, <2>2, <2>3
<1>a. (\A u \in x.names : Kind(u) = "typedef" /\ u \in Mentioned(f)) => Worded(f, t, "define")
  BY DEF Worded
<1> HIDE DEF x
<1>4. CASE Kind(t) = "struct"
  <2>1. x = Body(t) /\ f.status[t] = "DONE"
    BY <1>1, <1>2, <1>3, <1>4 DEF Opaque, Done, Modifier, Modifiers
  <2>2. t \in f.filled
    BY <1>4, <2>1 DEF Inv, FilledFirst
  <2>3. \A m \in Range(dies[t].of) : m \in DOMAIN dies /\ Readable(f, m)
    BY <1>4, <2>2, EntryFacts DEF Inv, PartsReady, Fit, Readable, Part, Program
  <2>4. ASSUME NEW m \in Range(dies[t].of) PROVE \A u \in Text(m).names : Kind(u) = "typedef" /\ u \in Mentioned(f)
    <3>1. m \in Sayable(S)
      BY <1>0, <1>4, PartsAsked DEF Sayable
    <3>2. t \notin Text(m).names
      BY <1>4, <2>3, NamesMet
    <3> QED BY <2>3, <3>1, <3>2, NamesMentioned
  <2> QED BY <1>a, <2>1, <2>4, BodyFacts
<1>5. CASE Kind(t) = "typedef"
  <2>1. Readable(f, Target(t)) /\ x = Text(Target(t))
    BY <1>3, <1>5, EntryFacts DEF Program, Readable, Part
  <2>2. \A u \in Text(Target(t)).names : Kind(u) = "typedef" /\ u \in Mentioned(f)
    BY <1>0, <1>5, <2>1, NamesBelow
  <2> QED BY <1>a, <2>1, <2>2
<1>6. CASE Kind(t) = "declared"
  <2>1. x.names = {}
    BY <1>1, <1>3, <1>6, TextFacts DEF Tagged, Modifier, Modifiers
  <2> QED BY <1>a, <2>1
<1>7. CASE Kind(t) \notin {"struct", "typedef", "declared"}
  <2>1. x = Text(t)
    BY <1>3, <1>7
  <2>2. Readable(f, t)
    <3>1. Kind(t) = "function" => Done(f, t)
      BY <1>1, <1>2 DEF Opaque, Modifier, Modifiers
    <3> QED BY <3>1 DEF Readable, Ready, Known, Part
  <2>3. t \notin Text(t).names
    BY <1>7, <2>2, NamesMet
  <2> QED BY <1>0, <1>a, <2>1, <2>2, <2>3, NamesMentioned
<1> QED BY <1>4, <1>5, <1>6, <1>7

-----------------------------------------------------------------------------
(* Statements that are none of C *)

LEMMA SpecifierFacts ==
  ASSUME Unit, NEW t \in DOMAIN dies
  PROVE  /\ ~Modifier(t) => Specifier(t)
         /\ ~Specifier(t) /\ Kind(t) \notin {"array", "pointer"} => Modifier(t) /\ ~Straight(t)
<1> DEFINE Q == {"qualified"}
           Mod == Modifiers \cup {"typedef"}
           P == {u \in DOMAIN dies : Kind(u) = "qualified" => Kind(End(Q, u)) # "array"}
<1>0. Program /\ Q \in SUBSET Mod /\ Inner \in SUBSET Mod /\ Q \subseteq Inner
  BY DEF Unit, Modifiers, Inner
<1>1. ASSUME NEW u \in DOMAIN dies, Leads[u] \cap DOMAIN dies \subseteq P PROVE u \in P
  <2> SUFFICES ASSUME Kind(u) = "qualified" PROVE Kind(End(Q, u)) # "array"
    OBVIOUS
  <2>1. Target(u) \in Leads[u] /\ Target(u) \in DOMAIN dies
    BY <1>0, EntryFacts DEF Leads, Program, Modifiers, Modifier
  <2>2. End(Q, u) = End(Q, Target(u)) /\ (Kind(Target(u)) # "qualified" => End(Q, Target(u)) = Target(u))
    BY <1>0, <2>1, EndStep
  <2>3. Kind(Target(u)) # "array"
    BY DEF Unit, PassedByName
  <2> QED BY <1>1, <2>1, <2>2, <2>3
<1> HIDE DEF P
<1>2. DOMAIN dies \subseteq P
  BY <1>0, <1>1, LeadsAcyclic, AcyclicInduction
<1>3. Kind(t) = "qualified" => Kind(End(Q, t)) # "array"
  BY <1>2 DEF P
<1>4. /\ End(Q, t) \in DOMAIN dies /\ Kind(End(Q, t)) # "qualified"
      /\ Kind(t) # "qualified" => End(Q, t) = t
  BY <1>0, EndStep
<1>5. Specifier(t) = ~Modifier(End(Q, t))
  BY DEF Specifier
<1>6. End(Inner, End(Q, t)) = Stem(t)
  BY <1>0, EndEnd DEF Stem
<1> HIDE DEF Q
<1>7. ASSUME ~Specifier(t), Kind(t) \notin {"array", "pointer"} PROVE Modifier(t) /\ ~Straight(t)
  <2>1. Kind(t) = "qualified"
    BY <1>4, <1>5, <1>7 DEF Modifier, Modifiers
  <2>2. Kind(End(Q, t)) = "pointer"
    BY <1>3, <1>4, <1>5, <1>7, <2>1 DEF Modifier, Modifiers
  <2>3. Stem(t) = End(Q, t)
    BY <1>0, <1>4, <1>6, <2>2, EndStep DEF Inner
  <2> QED BY <2>1, <2>2, <2>3 DEF Straight, Modifier, Modifiers
<1>8. ~Modifier(t) => Specifier(t)
  BY <1>4, <1>5 DEF Modifier, Modifiers
<1> QED BY <1>7, <1>8

-----------------------------------------------------------------------------
(* What a call promises about the order, if it is not given up *)

OrderTouch(e, t, f) ==
  \A S : Clear(e, S) /\ ~f.raised /\ t \in Declarable(S) => Since(e, f, S, {})

OrderDeclare(e, t, f) ==
  \A S : Clear(e, S) /\ ~f.raised /\ t \in Declarable(S)
         /\ ~Modifier(t) /\ Named(t) /\ Kind(t) # "function" /\ e.status[t] = "NEW" /\ Simple(t) =>
    Since(e, f, S, {t})

\* A const pointer whose type is known is stated without a change of status.
OrderDefine(e, t, f) ==
  \A S : Clear(e, S) /\ ~f.raised /\ t \in Definable(S) /\ Reached(e, t) =>
    /\ Since(e, f, S, {t})
    /\ Known(e, t) /\ Named(t) /\ ~Straight(t) => f.status = e.status

OrderRefer(e, t, f) ==
  \A S : Clear(e, S) /\ ~f.raised /\ t \in Definable(S) /\ Known(e, t) /\ Referable(e, t) => Since(e, f, S, {})

Ordered(ask) ==
  \A e \in Emissions, t \in DOMAIN dies :
    /\ OrderTouch(e, t, Touch(ask, e, t)) /\ OrderDeclare(e, t, Declare(ask, e, t))
    /\ OrderDefine(e, t, Define(ask, e, t)) /\ OrderRefer(e, t, Refer(ask, e, t))

LEMMA EmitSince ==
  ASSUME NEW g \in Emissions, NEW h \in Emissions, NEW t \in DOMAIN dies, NEW form \in {"declare", "define"},
         NEW S, Since(g, h, S, {t}), ~h.raised,
         Kind(t) \notin {"array", "pointer"} => InOrder(h, t, form)
  PROVE  Since(g, Emit(h, t, form), S, {}) /\ Emit(h, t, form).status = h.status
<1>1. CASE Kind(t) \in {"array", "pointer"}
  <2>1. Emit(h, t, form) = h /\ Kind(t) # "typedef"
    BY <1>1 DEF Emit
  <2> QED BY <2>1, SinceExempt
<1>2. CASE Kind(t) \notin {"array", "pointer"}
  <2> DEFINE f == Emitted(h, t, form)
  <2>1. Emit(h, t, form) = f
    BY <1>2 DEF Emit
  <2>2. f.status = h.status
    BY EmittedFacts
  <2>3. Tidy(f) /\ Pending(f) \subseteq Pending(h) \ {t}
    BY <1>2, EmittedTidy DEF Since
  <2> HIDE DEF f
  <2>4. Since(g, f, S, {})
    BY <2>2, <2>3 DEF Since
  <2> QED BY <2>1, <2>2, <2>4
<1> QED BY <1>1, <1>2

\* A call for a definition, and its statement.
LEMMA DefineEmitOrder ==
  ASSUME Unit, ~Circular, NEW ask, Typed(ask), Good(ask), Ordered(ask), NEW g \in Emissions, NEW S, Clear(g, S),
         NEW d \in DOMAIN dies, d \in Definable(S), Reached(g, d), Named(d), Status(g, d) # "DONE",
         ~Emit(Define(ask, g, d), d, "define").raised
  PROVE  LET f == Emit(Define(ask, g, d), d, "define")
         IN  /\ Since(g, f, S, {})
             /\ Known(g, d) /\ ~Straight(d) => f.status = g.status
<1> DEFINE h == Define(ask, g, d)
           f == Emit(h, d, "define")
<1>0. Program /\ AskClosed(S) /\ Inv(g, {}) /\ Pending(g) \cap Declarable(S) = {}
  BY DEF Unit, Clear
<1>1. h \in Emissions /\ Step(g, h) /\ GoodDefine(g, d, h) /\ OrderDefine(g, d, h)
  BY CallTyped DEF Good, Step, Ordered
<1> HIDE DEF h
<1>2. ~h.raised
  BY <1>0, <1>1, EmitTyped DEF Step, h
<1>3. /\ Inv(h, {d}) /\ Grow(g, h, {}) /\ Status(h, d) # "NEW"
      /\ Straight(d) /\ ~Opaque(d) => Done(h, d)
      /\ Kind(d) = "typedef" => Ready(h, Target(d))
  BY <1>0, <1>1, <1>2 DEF GoodDefine
<1>4. /\ Since(g, h, S, {d})
      /\ Known(g, d) /\ ~Straight(d) => h.status = g.status
  BY <1>1, <1>2 DEF OrderDefine
<1>5. Pending(h) \cap Declarable(S) \subseteq {d}
  BY <1>0, <1>4 DEF Since
<1>6. Reached(h, d)
  BY <1>0, <1>1, <1>3, GrowKeeps
<1>7. ASSUME Kind(d) \notin {"array", "pointer"}
      PROVE  InOrder(h, d, "define")
  <2>1. Worded(h, d, "define")
    BY <1>0, <1>1, <1>3, <1>5, <1>6, <1>7, WordedDefine
  <2>2. ASSUME Completes([of |-> d, form |-> "define"]), ~Modifier(d) PROVE h.status[d] = "DONE"
    <3>1. Kind(d) # "declared"
      BY <2>2 DEF Completes
    <3>2. Straight(d) /\ ~Opaque(d)
      BY <1>0, <2>2, <3>1, StraightStep, InnermostFacts DEF Opaque
    <3> QED BY <1>0, <1>1, <1>3, <2>2, <3>2, StatusIn DEF Done
  <2>3. ASSUME ~Specifier(d) PROVE Innermost(d) \notin Finished(h)
    <3>1. Modifier(d) /\ ~Straight(d)
      BY <1>7, <2>3, SpecifierFacts
    <3>2. Known(g, d)
      BY <1>0, <3>1, LinkedKnown DEF Reached
    <3>3. h.status = g.status
      BY <1>4, <3>1, <3>2
    <3>4. h.status[Innermost(d)] # "DONE" /\ ~Modifier(Innermost(d))
      BY <1>0, <3>3, InnermostFacts DEF Status
    <3> QED BY <1>4, <3>4 DEF Since, Tidy, FinishedDone
  <2> QED BY <2>1, <2>2, <2>3 DEF InOrder
<1>8. Since(g, f, S, {}) /\ f.status = h.status
  BY <1>1, <1>2, <1>4, <1>7, EmitSince
<1> QED BY <1>4, <1>8 DEF h

LEMMA DependDeclareOrder ==
  ASSUME Unit, ~Circular, NEW ask, Typed(ask), Good(ask), Ordered(ask), NEW e \in Emissions, NEW S, Clear(e, S),
         NEW d \in DOMAIN dies, Part(d), Simple(d), d \in Declarable(S), ~DependDeclare(ask, e, d).raised
  PROVE  Since(e, DependDeclare(ask, e, d), S, {})
<1> DEFINE f == DependDeclare(ask, e, d)
           g == Touch(ask, e, d)
           h == Declare(ask, g, d)
<1>0. Program /\ Inv(e, {})
  BY DEF Unit, Clear
<1>1. /\ g \in Emissions /\ GoodTouch(e, d, g) /\ OrderTouch(e, d, g)
      /\ f = IF Named(d) /\ Status(g, d) = "NEW" THEN Emit(h, d, "declare") ELSE g
  BY CallTyped DEF Good, Step, DependDeclare, Ordered
<1>2. h \in Emissions /\ Step(g, h) /\ GoodDeclare(g, d, h) /\ OrderDeclare(g, d, h)
  BY <1>1, CallTyped DEF Good, Step, Ordered
<1>3. ~f.raised
  OBVIOUS
<1> HIDE DEF f, g, h
<1>4. ~g.raised
  BY <1>0, <1>1, <1>2, <1>3, EmitTyped DEF Step
<1>5. Inv(g, {}) /\ Reached(g, d) /\ Since(e, g, S, {})
  BY <1>0, <1>1, <1>4 DEF GoodTouch, OrderTouch
<1>6. Clear(g, S)
  BY <1>5, ClearSince
<1>7. CASE ~(Named(d) /\ Status(g, d) = "NEW")
  BY <1>1, <1>5, <1>7 DEF f
<1>8. CASE Named(d) /\ Status(g, d) = "NEW"
  <2>1. f = Emit(h, d, "declare") /\ ~h.raised
    BY <1>0, <1>1, <1>2, <1>3, <1>8, EmitTyped DEF Step
  <2>2. ~Modifier(d)
    BY <1>0, <1>1, <1>5, <1>8, LinkedKnown DEF Reached, Known
  <2>3. g.status[d] = "NEW" /\ Kind(d) # "function"
    BY <1>0, <1>8, <2>2, InnermostFacts DEF Status, Part
  <2>4. /\ Inv(h, {d}) /\ h.status[d] # "NEW"
        /\ Kind(d) = "typedef" => Ready(h, Target(d))
    BY <1>2, <1>5, <1>8, <2>1, <2>2, <2>3 DEF GoodDeclare
  <2>5. Since(g, h, S, {d})
    BY <1>2, <1>6, <1>8, <2>1, <2>2, <2>3 DEF OrderDeclare
  <2>6. Pending(h) \cap Declarable(S) \subseteq {d} /\ AskClosed(S)
    BY <1>6, <2>5 DEF Since, Clear
  <2>8. Worded(h, d, "declare")
    BY <1>0, <1>2, <1>8, <2>2, <2>3, <2>4, <2>6, WordedDeclare
  <2>9. Completes([of |-> d, form |-> "declare"]) => h.status[d] = "DONE"
    <3>1. Completes([of |-> d, form |-> "declare"]) => Kind(d) = "enum"
      BY DEF Completes
    <3>2. h.status[d] \in Statuses
      BY <1>2, EmissionFacts
    <3> QED BY <2>4, <3>1, <3>2 DEF Inv, StatusFits, Statuses
  <2>10. Specifier(d)
    BY <2>2, SpecifierFacts
  <2>11. Since(g, f, S, {})
    BY <1>1, <1>2, <2>1, <2>5, <2>8, <2>9, <2>10, EmitSince DEF InOrder
  <2> QED BY <1>5, <2>11, SinceThen DEF f
<1> QED BY <1>7, <1>8

LEMMA DependDefineOrder ==
  ASSUME Unit, ~Circular, NEW ask, Typed(ask), Good(ask), Ordered(ask), NEW e \in Emissions, NEW S, Clear(e, S),
         NEW d \in DOMAIN dies, d \in Definable(S), ~DependDefine(ask, e, d).raised
  PROVE  LET f == DependDefine(ask, e, d)
         IN  /\ Since(e, f, S, {})
             /\ Known(e, d) /\ Named(d) /\ ~Straight(d) => f.status = e.status
<1> DEFINE f == DependDefine(ask, e, d)
           g == Touch(ask, e, d)
<1>0. Program /\ Inv(e, {})
  BY DEF Unit, Clear
<1>1. /\ g \in Emissions /\ GoodTouch(e, d, g) /\ OrderTouch(e, d, g)
      /\ f = IF Named(d) /\ Status(g, d) # "DONE" THEN Emit(Define(ask, g, d), d, "define") ELSE g
  BY CallTyped DEF Good, Step, DependDefine, Ordered
<1>2. ~f.raised
  OBVIOUS
<1> HIDE DEF f, g
<1>3. ~g.raised
  <2>1. Step(g, Define(ask, g, d))
    BY <1>1, CallTyped
  <2>2. Step(Define(ask, g, d), Emit(Define(ask, g, d), d, "define"))
    BY <1>0, <2>1, EmitTyped DEF Step
  <2> QED BY <1>1, <1>2, <2>1, <2>2 DEF Step
<1>4. Inv(g, {}) /\ Reached(g, d) /\ Since(e, g, S, {}) /\ (Reached(e, d) => g = e)
  <2>1. d \in Declarable(S)
    BY <1>0, ClosedRoom DEF Clear, Rooms
  <2> QED BY <1>0, <1>1, <1>3, <2>1 DEF GoodTouch, OrderTouch
<1>5. Clear(g, S)
  BY <1>4, ClearSince
<1>6. CASE ~(Named(d) /\ Status(g, d) # "DONE")
  BY <1>1, <1>4, <1>6 DEF f, Known
<1>7. CASE Named(d) /\ Status(g, d) # "DONE"
  <2>1. f = Emit(Define(ask, g, d), d, "define")
    BY <1>1, <1>7
  <2>2. Since(g, f, S, {}) /\ (Known(g, d) /\ ~Straight(d) => f.status = g.status)
    BY <1>1, <1>2, <1>4, <1>5, <1>7, <2>1, DefineEmitOrder
  <2>3. Since(e, f, S, {})
    BY <1>4, <2>2, SinceThen
  <2> QED BY <1>4, <2>2, <2>3 DEF f, Known
<1> QED BY <1>6, <1>7

LEMMA UseOrder ==
  ASSUME Unit, ~Circular, NEW ask, Typed(ask), Good(ask), Ordered(ask), NEW e \in Emissions, NEW S, Clear(e, S),
         NEW t \in DOMAIN dies, Known(e, t), Kind(t) = "function" /\ dies[t].named => Done(e, t),
         t \in Definable(S) \/ Ready(e, t), ~Use(ask, e, t).raised
  PROVE  Since(e, Use(ask, e, t), S, {})
<1> DEFINE f == Use(ask, e, t)
           g == Touch(ask, e, t)
<1>0. Program /\ Inv(e, {}) /\ Tidy(e)
  BY DEF Unit, Clear
<1>1. CASE Ready(e, t)
  <2>1. f = e
    BY <1>0, <1>1, UseGood
  <2> QED BY <1>0, <2>1, SinceSame
<1>2. CASE ~Ready(e, t)
  <2>1. ~Named(t) /\ t \in Definable(S)
    BY <1>2 DEF Ready
  <2>2. f = Define(ask, g, t)
    BY <2>1 DEF Use
  <2>3. g \in Emissions /\ GoodTouch(e, t, g)
    BY CallTyped DEF Good, Step
  <2> HIDE DEF f, g
  <2>4. Step(g, f)
    BY <2>2, <2>3, CallTyped
  <2>5. ~f.raised
    BY DEF f
  <2>6. ~g.raised
    BY <2>4, <2>5 DEF Step
  <2>7. g = e
    BY <1>0, <2>3, <2>6 DEF GoodTouch, Known
  <2>8. OrderDefine(e, t, f)
    BY <2>2, <2>7 DEF Ordered
  <2>9. Since(e, f, S, {t})
    BY <2>1, <2>5, <2>8 DEF OrderDefine, Known
  <2>10. Kind(t) # "typedef"
    BY <1>0, <2>1, NamelessFacts
  <2> QED BY <2>9, <2>10, SinceExempt DEF f
<1> QED BY <1>1, <1>2

-----------------------------------------------------------------------------
(* Modifiers and typedefs ask for the type below *)

LEMMA UnderlyingOrder ==
  ASSUME Unit, ~Circular, NEW ask, Typed(ask), Good(ask), Ordered(ask), NEW e \in Emissions, NEW S, Clear(e, S),
         NEW t \in DOMAIN dies, Refers(t)
  PROVE  /\ Simple(t) /\ Target(t) \in Declarable(S) /\ ~UnderlyingDeclaration(ask, e, t).raised =>
              Since(e, UnderlyingDeclaration(ask, e, t), S, {})
         /\ Below(S, t) /\ ~UnderlyingDefinition(ask, e, t).raised =>
              /\ Since(e, UnderlyingDefinition(ask, e, t), S, {})
              /\ /\ Known(e, Target(t)) /\ Named(Target(t))
                 /\ Kind(t) = "pointer" \/ ~Straight(Target(t))
                 => UnderlyingDefinition(ask, e, t).status = e.status
<1> DEFINE u == Target(t)
           g == Made(e, u)
<1>0. Program /\ u \in DOMAIN dies /\ Part(u) /\ AskClosed(S)
  BY RefersFacts DEF Unit, Clear
<1>1. /\ g \in Emissions /\ Clear(g, S) /\ Since(e, g, S, {}) /\ Inv(g, {})
      /\ g.status = e.status /\ Known(g, u) = Known(e, u)
  <2>1. g \in Emissions /\ Clear(g, S) /\ Since(e, g, S, {})
    BY <1>0, ClearMade
  <2>2. g.status = e.status /\ Known(g, u) = Known(e, u)
    BY <1>0, MadeFacts, MadeSame DEF Clear
  <2> QED BY <2>1, <2>2 DEF Clear
<1>2. /\ UnderlyingDeclaration(ask, e, t) = DependDeclare(ask, g, u)
      /\ Kind(t) = "pointer" => UnderlyingDefinition(ask, e, t) = DependDeclare(ask, g, u)
      /\ Kind(t) # "pointer" => UnderlyingDefinition(ask, e, t) = DependDefine(ask, g, u)
  BY DEF UnderlyingDeclaration, UnderlyingDefinition, Pointers
<1> HIDE DEF g
<1>3. Simple(t) \/ Kind(t) = "pointer" => Simple(u)
  BY <1>0, SimpleTarget DEF Simple
<1>4. ASSUME Simple(u), u \in Declarable(S), ~DependDeclare(ask, g, u).raised
      PROVE  /\ Since(e, DependDeclare(ask, g, u), S, {})
             /\ Known(e, u) => DependDeclare(ask, g, u).status = e.status
  <2>1. Since(g, DependDeclare(ask, g, u), S, {})
    BY <1>0, <1>1, <1>4, DependDeclareOrder
  <2>2. Known(g, u) => DependDeclare(ask, g, u) = g
    BY <1>0, <1>1, <1>4, DependDeclareGood
  <2> QED BY <1>1, <2>1, <2>2, SinceThen
<1>5. ASSUME u \in Definable(S), ~DependDefine(ask, g, u).raised
      PROVE  /\ Since(e, DependDefine(ask, g, u), S, {})
             /\ Known(e, u) /\ Named(u) /\ ~Straight(u) => DependDefine(ask, g, u).status = e.status
  <2>1. /\ Since(g, DependDefine(ask, g, u), S, {})
        /\ Known(g, u) /\ Named(u) /\ ~Straight(u) => DependDefine(ask, g, u).status = g.status
    BY <1>0, <1>1, <1>5, DependDefineOrder
  <2> QED BY <1>1, <2>1, SinceThen
<1>6. ASSUME Simple(t), u \in Declarable(S), ~UnderlyingDeclaration(ask, e, t).raised
      PROVE  Since(e, UnderlyingDeclaration(ask, e, t), S, {})
  BY <1>2, <1>3, <1>4, <1>6
<1>7. ASSUME Below(S, t), ~UnderlyingDefinition(ask, e, t).raised
      PROVE  /\ Since(e, UnderlyingDefinition(ask, e, t), S, {})
             /\ /\ Known(e, u) /\ Named(u)
                /\ Kind(t) = "pointer" \/ ~Straight(u)
                => UnderlyingDefinition(ask, e, t).status = e.status
  <2>1. u \in Declarable(S)
    BY <1>0, <1>7, ClosedRoom, TargetAsked
  <2>2. Kind(t) # "pointer" => u \in Definable(S)
    BY <1>7 DEF Below
  <2> QED BY <1>2, <1>3, <1>4, <1>5, <1>7, <2>1, <2>2
<1> QED BY <1>6, <1>7

LEMMA LinkOrder ==
  ASSUME Unit, ~Circular, NEW ask, Typed(ask), Good(ask), Ordered(ask), NEW e \in Emissions, NEW S, Clear(e, S),
         NEW t \in DOMAIN dies, Refers(t)
  PROVE  /\ Simple(t) /\ Target(t) \in Declarable(S) /\ ~LinkDeclared(ask, e, t).raised =>
              Since(e, LinkDeclared(ask, e, t), S, {})
         /\ Below(S, t) /\ ~LinkDefined(ask, e, t).raised => Since(e, LinkDefined(ask, e, t), S, {})
<1>0. Tidy(e) /\ Target(t) \in DOMAIN dies
  BY RefersFacts DEF Clear, Unit
<1>1. CASE t \in e.linked
  <2>1. LinkDeclared(ask, e, t) = e /\ LinkDefined(ask, e, t) = e
    BY <1>1 DEF LinkDeclared, LinkDefined
  <2> QED BY <1>0, <2>1, SinceSame
<1>2. CASE t \notin e.linked
  <2> DEFINE c == UnderlyingDeclaration(ask, e, t)
             d == UnderlyingDefinition(ask, e, t)
  <2>1. LinkDeclared(ask, e, t) = Linking(c, t) /\ LinkDefined(ask, e, t) = Linking(d, t)
    BY <1>2 DEF LinkDeclared, LinkDefined, Linking
  <2>2. c \in Emissions /\ d \in Emissions
    BY <1>0, UnderlyingTyped DEF Step
  <2> HIDE DEF c, d
  <2>3. ASSUME NEW x \in Emissions, Since(e, x, S, {}) PROVE Since(e, Linking(x, t), S, {})
    <3>1. Linking(x, t).status = x.status /\ Linking(x, t).header = x.header /\ Tidy(x)
      BY <2>3, LinkingFacts DEF Since
    <3>2. Since(x, Linking(x, t), S, {})
      BY <3>1, SinceSame
    <3> QED BY <2>3, <3>2, SinceThen
  <2>4. Linking(c, t).raised = c.raised /\ Linking(d, t).raised = d.raised
    BY <2>2, LinkingFacts
  <2>5. /\ Simple(t) /\ Target(t) \in Declarable(S) /\ ~c.raised => Since(e, c, S, {})
        /\ Below(S, t) /\ ~d.raised => Since(e, d, S, {})
    BY UnderlyingOrder DEF c, d
  <2> QED BY <2>1, <2>2, <2>3, <2>4, <2>5
<1> QED BY <1>1, <1>2

LEMMA UnderOrder ==
  ASSUME Unit, ~Circular, NEW ask, Typed(ask), Good(ask), Ordered(ask), NEW e \in Emissions, NEW S, Clear(e, S),
         NEW t \in DOMAIN dies, Refers(t)
  PROVE  /\ Simple(t) /\ Target(t) \in Sayable(S) /\ ~DeclaredUnder(ask, e, t).raised =>
              Since(e, DeclaredUnder(ask, e, t), S, {})
         /\ Below(S, t) /\ ~DefinedUnder(ask, e, t).raised =>
              /\ Since(e, DefinedUnder(ask, e, t), S, {})
              /\ /\ t \in e.linked /\ Named(Target(t))
                 /\ Kind(t) = "pointer" \/ ~Straight(Target(t))
                 => DefinedUnder(ask, e, t).status = e.status
<1> DEFINE u == Target(t)
<1>0. Program /\ u \in DOMAIN dies /\ AskClosed(S) /\ Inv(e, {})
  BY RefersFacts DEF Clear, Unit
<1>1. u \in Sayable(S) => u \in Declarable(S) /\ (Named(u) \/ Below(S, t))
  BY <1>0, ClosedRoom DEF Rooms, Sayable, Below
<1>2. ASSUME NEW l \in {LinkDeclared(ask, e, t), LinkDefined(ask, e, t)},
             \/ l = LinkDefined(ask, e, t) /\ Below(S, t)
             \/ l = LinkDeclared(ask, e, t) /\ Simple(t) /\ u \in Declarable(S),
             NEW f \in {l, UnderlyingDefinition(ask, l, t)}, ~f.raised,
             f = l \/ Below(S, t) \/ (Named(u) /\ Status(l, u) = "NEW")
      PROVE  /\ Since(e, f, S, {})
             /\ /\ t \in e.linked /\ Named(u)
                /\ Kind(t) = "pointer" \/ ~Straight(u)
                => f.status = e.status
  <2>1. l \in Emissions
    BY <1>0, LinkTyped DEF Step
  <2>2. Step(l, UnderlyingDefinition(ask, l, t))
    BY <1>0, <2>1, UnderlyingTyped
  <2>3. ~l.raised
    BY <1>2, <2>2 DEF Step
  <2>4. /\ Inv(l, {}) /\ Grow(e, l, {Innermost(Target(t))}) /\ t \in l.linked
        /\ t \in e.linked => l = e
    <3>1. l = LinkDefined(ask, e, t) \/ Simple(t) \/ Modifier(t)
      BY <1>2
    <3> QED BY <1>0, <2>3, <3>1, LinkGood
  <2>5. Since(e, l, S, {})
    BY <1>2, <2>3, LinkOrder
  <2>6. Clear(l, S)
    BY <2>4, <2>5, ClearSince
  <2>7. Known(l, u)
    BY <1>0, <2>1, <2>4, LinkedKnown
  <2>8. CASE f = l
    BY <2>4, <2>5, <2>8
  <2>9. CASE f = UnderlyingDefinition(ask, l, t) /\ f # l
    <3>0. Below(S, t)
      BY <1>2, <2>7, <2>9 DEF Known
    <3>1. /\ Since(l, f, S, {})
          /\ Named(u) /\ (Kind(t) = "pointer" \/ ~Straight(u)) => f.status = l.status
      BY <1>2, <2>1, <2>6, <2>7, <2>9, <3>0, UnderlyingOrder
    <3> QED BY <2>4, <2>5, <3>1, SinceThen
  <2> QED BY <1>2, <2>8, <2>9
<1>3. ASSUME Simple(t), u \in Sayable(S), ~DeclaredUnder(ask, e, t).raised
      PROVE  Since(e, DeclaredUnder(ask, e, t), S, {})
  <2> DEFINE l == LinkDeclared(ask, e, t)
             f == DeclaredUnder(ask, e, t)
  <2>1. /\ f \in {l, UnderlyingDefinition(ask, l, t)}
        /\ f = l \/ Status(l, u) = "NEW"
    BY DEF DeclaredUnder
  <2> HIDE DEF u
  <2> QED BY <1>1, <1>2, <1>3, <2>1
<1>4. DefinedUnder(ask, e, t) \in
        {LinkDefined(ask, e, t), UnderlyingDefinition(ask, LinkDefined(ask, e, t), t)}
  BY DEF DefinedUnder
<1> HIDE DEF u
<1>5. ASSUME Below(S, t), ~DefinedUnder(ask, e, t).raised
      PROVE  /\ Since(e, DefinedUnder(ask, e, t), S, {})
             /\ /\ t \in e.linked /\ Named(u)
                /\ Kind(t) = "pointer" \/ ~Straight(u)
                => DefinedUnder(ask, e, t).status = e.status
  BY <1>2, <1>4, <1>5
<1> QED BY <1>3, <1>5 DEF u

-----------------------------------------------------------------------------
(* Structs and functions ask for their parts *)

LEMMA EachOrder ==
  ASSUME NEW S, NEW step, NEW ts \in Seq(DOMAIN dies), NEW e \in Emissions, Clear(e, S),
         \A y \in Emissions, m \in Range(ts) :
           /\ Step(y, step[<<y, m>>])
           /\ Clear(y, S) /\ ~step[<<y, m>>].raised =>
                Inv(step[<<y, m>>], {}) /\ Since(y, step[<<y, m>>], S, {}),
         ~Each(step, e, ts).raised
  PROVE  Each(step, e, ts) \in Emissions /\ Clear(Each(step, e, ts), S) /\ Since(e, Each(step, e, ts), S, {})
<1> DEFINE Fine(y) == ~y.raised => Clear(y, S) /\ Since(e, y, S, {})
           Q == {q \in Emissions \X SUBSET DOMAIN dies : Fine(q[1])}
<1>1. <<e, {}>> \in Q
  BY SinceSame DEF Clear
<1>2. Range(ts) \subseteq DOMAIN dies
  <2>1. \A i \in DOMAIN ts : ts[i] \in DOMAIN dies
    OBVIOUS
  <2> QED BY <2>1 DEF Range
<1>3. ASSUME NEW y, NEW T, NEW t \in Range(ts), <<y, T>> \in Q
      PROVE  <<step[<<y, t>>], T \cup {t}>> \in Q
  <2> DEFINE f == step[<<y, t>>]
  <2>1. y \in Emissions /\ T \in SUBSET DOMAIN dies /\ Fine(y) /\ t \in DOMAIN dies
    BY <1>2, <1>3
  <2>2. Step(y, f) /\ f \in Emissions
    BY <2>1 DEF Step
  <2>3. ASSUME ~f.raised PROVE Clear(f, S) /\ Since(e, f, S, {})
    <3>1. Clear(y, S) /\ Since(e, y, S, {})
      BY <2>1, <2>2, <2>3 DEF Step
    <3>2. Inv(f, {}) /\ Since(y, f, S, {})
      BY <2>1, <2>3, <3>1
    <3> HIDE DEF f
    <3> QED BY <3>1, <3>2, ClearSince, SinceThen
  <2> HIDE DEF f
  <2> QED BY <2>1, <2>2, <2>3 DEF f
<1> HIDE DEF Q
<1>4. <<Each(step, e, ts), Range(ts)>> \in Q
  BY <1>1, <1>3, EachKeeps
<1> QED BY <1>4 DEF Q

LEMMA MemberOrder ==
  ASSUME Unit, ~Circular, NEW ask, Typed(ask), Good(ask), Ordered(ask), NEW e \in Emissions, NEW S, Clear(e, S),
         NEW m \in DOMAIN dies, m \in Definable(S), Part(m), ~Member(ask, e, m).raised
  PROVE  Since(e, Member(ask, e, m), S, {})
<1> DEFINE d == Made(e, m)
           g == IF Named(m) THEN DependDefine(ask, d, m) ELSE Touch(ask, d, m)
           f == Use(ask, g, m)
<1>0. Program
  BY DEF Unit
<1>1. Member(ask, e, m) = f
  BY DEF Member
<1>2. d \in Emissions /\ Clear(d, S) /\ Since(e, d, S, {}) /\ Inv(d, {})
  BY <1>0, ClearMade DEF Clear
<1> HIDE DEF d
<1>3. g \in Emissions
  BY <1>0, <1>2, CallTyped, DependTyped DEF Step
<1>4. ~g.raised
  <2> HIDE DEF g
  <2>1. Step(g, f)
    BY <1>3, UseTyped
  <2> QED BY <1>1, <2>1 DEF Step
<1>5. Inv(g, {}) /\ Since(d, g, S, {}) /\ Known(g, m)
  <2>1. CASE Named(m)
    BY <1>0, <1>2, <1>4, <2>1, DependDefineGood, DependDefineOrder
  <2>2. CASE ~Named(m)
    <3>1. GoodTouch(d, m, g) /\ OrderTouch(d, m, g)
      BY <1>2, <2>2 DEF Good, Ordered
    <3>2. m \in Declarable(S)
      BY <1>0, ClosedRoom DEF Clear, Rooms
    <3> HIDE DEF g
    <3> QED BY <1>2, <1>4, <2>2, <3>1, <3>2 DEF GoodTouch, OrderTouch, Known
  <2> QED BY <2>1, <2>2
<1> HIDE DEF g
<1>6. Clear(g, S)
  BY <1>2, <1>5, ClearSince
<1>7. Since(g, f, S, {})
  BY <1>1, <1>3, <1>5, <1>6, UseOrder DEF Part
<1> HIDE DEF f
<1>8. Since(e, g, S, {})
  BY <1>2, <1>5, SinceThen
<1> QED BY <1>1, <1>7, <1>8, SinceThen

LEMMA ArgumentOrder ==
  ASSUME Unit, ~Circular, NEW ask, Typed(ask), Good(ask), Ordered(ask), NEW e \in Emissions, NEW S, Clear(e, S),
         NEW a \in DOMAIN dies, a \in Definable(S), Part(a), Kind(a) \in {"struct", "enum"} => dies[a].named,
         ~Argument(ask, e, a).raised
  PROVE  Since(e, Argument(ask, e, a), S, {})
<1> DEFINE d == Made(e, a)
           g == DependDefine(ask, d, a)
           f == Refer(ask, g, a)
<1>0. Program
  BY DEF Unit
<1>1. Argument(ask, e, a) = f
  BY DEF Argument
<1>2. d \in Emissions /\ Clear(d, S) /\ Since(e, d, S, {}) /\ Inv(d, {})
  BY <1>0, ClearMade DEF Clear
<1> HIDE DEF d
<1>3. g \in Emissions
  BY <1>0, <1>2, DependTyped DEF Step
<1>4. ~g.raised /\ OrderRefer(g, a, f)
  <2> HIDE DEF g
  <2>1. Step(g, f) /\ OrderRefer(g, a, f)
    BY <1>3, CallTyped DEF Ordered
  <2> QED BY <1>1, <2>1 DEF Step
<1>5. Inv(g, {}) /\ Since(d, g, S, {}) /\ Known(g, a)
  BY <1>0, <1>2, <1>4, DependDefineGood, DependDefineOrder
<1> HIDE DEF g
<1>6. Clear(g, S)
  BY <1>2, <1>5, ClearSince
<1>7. Since(g, f, S, {})
  BY <1>1, <1>4, <1>5, <1>6 DEF OrderRefer, Referable, Part
<1> HIDE DEF f
<1>8. Since(e, g, S, {})
  BY <1>2, <1>5, SinceThen
<1> QED BY <1>1, <1>7, <1>8, SinceThen

LEMMA FillingSince ==
  ASSUME NEW e, NEW g \in Emissions, NEW S, NEW t \in DOMAIN dies, Since(e, g, S, {})
  PROVE  Since(e, Filling(g, t), S, {})
<1> DEFINE f == Filling(g, t)
<1>1. f.status = g.status /\ f.header = g.header
  BY FillingFacts
<1> HIDE DEF f
<1>2. Since(g, f, S, {})
  BY <1>1, SinceSame DEF Since
<1> QED BY <1>2, SinceThen DEF f

LEMMA MembersOrder ==
  ASSUME Unit, ~Circular, NEW ask, Typed(ask), Good(ask), Ordered(ask), NEW e \in Emissions, NEW S, Clear(e, S),
         NEW t \in DOMAIN dies, Kind(t) = "struct", t \in Definable(S), ~Members(ask, e, t).raised
  PROVE  Since(e, Members(ask, e, t), S, {})
<1> DEFINE member == [p \in Emissions \X DOMAIN dies |-> Member(ask, p[1], p[2])]
           g == Each(member, e, dies[t].of)
<1>0. Program /\ AskClosed(S) /\ Tidy(e)
  BY DEF Unit, Clear
<1>1. /\ dies[t].of \in Seq(DOMAIN dies) /\ Range(dies[t].of) \subseteq DOMAIN dies
      /\ \A m \in Range(dies[t].of) : Part(m)
  BY EntryFacts DEF Program, Part, Unit
<1>2. \A y \in Emissions, m \in DOMAIN dies : member[<<y, m>>] = Member(ask, y, m)
  OBVIOUS
<1>3. Members(ask, e, t) = IF t \in e.filled THEN e ELSE Filling(g, t)
  BY DEF Members, Filling
<1>4. Range(dies[t].of) \subseteq Definable(S)
  BY <1>0, ClosedRoom, PartsAsked
<1> HIDE DEF member
<1>5. CASE t \in e.filled
  BY <1>0, <1>3, <1>5, SinceSame
<1>6. CASE t \notin e.filled
  <2>1. ASSUME NEW y \in Emissions, NEW m \in Range(dies[t].of)
        PROVE  /\ Step(y, member[<<y, m>>])
               /\ Clear(y, S) /\ ~member[<<y, m>>].raised =>
                    Inv(member[<<y, m>>], {}) /\ Since(y, member[<<y, m>>], S, {})
    <3>1. m \in DOMAIN dies /\ m \in Definable(S) /\ Part(m) /\ member[<<y, m>>] = Member(ask, y, m)
      BY <1>1, <1>2, <1>4
    <3>2. Step(y, Member(ask, y, m))
      BY <1>0, <3>1, MemberTyped
    <3>3. ASSUME Clear(y, S), ~Member(ask, y, m).raised
          PROVE  Inv(Member(ask, y, m), {}) /\ Since(y, Member(ask, y, m), S, {})
      <4>1. Inv(y, {})
        BY <3>3 DEF Clear
      <4> QED BY <1>0, <3>1, <3>3, <4>1, MemberGood, MemberOrder
    <3> QED BY <3>1, <3>2, <3>3
  <2>2. g \in Emissions
    <3>1. \A y \in Emissions, m \in DOMAIN dies : Step(y, member[<<y, m>>])
      BY <1>0, <1>2, MemberTyped
    <3> QED BY <1>1, <3>1, EachTyped DEF Step
  <2>3. ~g.raised
    BY <1>3, <1>6, <2>2, FillingFacts
  <2>4. Since(e, g, S, {})
    BY <1>1, <2>1, <2>3, EachOrder
  <2> HIDE DEF g
  <2> QED BY <1>3, <1>6, <2>2, <2>4, FillingSince
<1> QED BY <1>5, <1>6

LEMMA DefineStructOrder ==
  ASSUME Unit, ~Circular, NEW ask, Typed(ask), Good(ask), Ordered(ask), NEW e \in Emissions, NEW S, Clear(e, S),
         NEW t \in DOMAIN dies, Kind(t) = "struct", t \in Definable(S), ~DefineStruct(ask, e, t).raised
  PROVE  Since(e, DefineStruct(ask, e, t), S, {})
<1> DEFINE g == Members(ask, e, t)
           f == DefineStruct(ask, e, t)
<1>0. Program
  BY DEF Unit
<1>1. f = Setting(g, t, "DONE")
  BY DEF DefineStruct, Setting
<1>2. g \in Emissions
  BY <1>0, EntryFacts, MembersTyped DEF Step, Program
<1>3. ~g.raised
  <2>1. ~f.raised
    OBVIOUS
  <2> HIDE DEF f, g
  <2> QED BY <1>1, <1>2, <2>1, SettingFacts DEF Statuses
<1>4. Since(e, g, S, {})
  BY <1>3, MembersOrder
<1> HIDE DEF f, g
<1>5. Since(g, f, S, {t})
  BY <1>1, <1>2, <1>4, SettingSince DEF Since, Statuses
<1> QED BY <1>4, <1>5, SinceThen, SinceExempt DEF f

LEMMA SetupOrder ==
  ASSUME Unit, ~Circular, NEW ask, Typed(ask), Good(ask), Ordered(ask), NEW e \in Emissions, NEW S, Clear(e, S),
         NEW t \in DOMAIN dies, Kind(t) = "function", t \in Definable(S), ~Setup(ask, e, t).raised
  PROVE  Since(e, Setup(ask, e, t), S, {})
<1> DEFINE u == Target(t)
           argument == [p \in Emissions \X DOMAIN dies |-> Argument(ask, p[1], p[2])]
           r == ReturnType(ask, e, t)
           g == Each(argument, r, Tail(dies[t].of))
<1>0. Program /\ AskClosed(S) /\ Tidy(e)
  BY DEF Unit, Clear
<1>1. /\ u \in DOMAIN dies /\ Tail(dies[t].of) \in Seq(DOMAIN dies)
      /\ Range(dies[t].of) = {u} \cup Range(Tail(dies[t].of)) /\ Range(dies[t].of) \subseteq DOMAIN dies
      /\ \A m \in Range(dies[t].of) : Part(m)
  BY EntryFacts DEF Program, Part, Unit
<1>2. \A y \in Emissions, m \in DOMAIN dies : argument[<<y, m>>] = Argument(ask, y, m)
  OBVIOUS
<1>3. Setup(ask, e, t) = IF t \in e.filled THEN e ELSE Filling(g, t)
  BY DEF Setup, Arguments, Filling
<1>4. Range(dies[t].of) \subseteq Definable(S)
  BY <1>0, ClosedRoom, PartsAsked
<1> HIDE DEF argument, u
<1>5. CASE t \in e.filled
  BY <1>0, <1>3, <1>5, SinceSame
<1>6. CASE t \notin e.filled
  <2> DEFINE d == Made(e, u)
  <2>1. d \in Emissions /\ Clear(d, S) /\ Since(e, d, S, {}) /\ Inv(d, {})
    BY <1>0, <1>1, ClearMade DEF Clear
  <2>2. r = DependDefine(ask, d, u)
    BY DEF ReturnType, u
  <2> HIDE DEF r, d
  <2>3. r \in Emissions
    BY <1>0, <1>1, <2>1, <2>2, DependTyped DEF Step
  <2>4. \A y \in Emissions, m \in DOMAIN dies : Step(y, argument[<<y, m>>])
    BY <1>0, <1>2, ArgumentTyped
  <2>5. g \in Emissions /\ Step(r, g)
    BY <1>1, <2>3, <2>4, EachTyped DEF Step
  <2>6. ~g.raised /\ ~r.raised
    BY <1>3, <1>6, <2>5, FillingFacts DEF Step
  <2>7. Inv(r, {}) /\ Since(d, r, S, {})
    BY <1>0, <1>1, <1>4, <2>1, <2>2, <2>6, DependDefineGood, DependDefineOrder
  <2>8. Clear(r, S) /\ Since(e, r, S, {})
    BY <2>1, <2>7, ClearSince, SinceThen
  <2>9. ASSUME NEW y \in Emissions, NEW m \in Range(Tail(dies[t].of))
        PROVE  /\ Step(y, argument[<<y, m>>])
               /\ Clear(y, S) /\ ~argument[<<y, m>>].raised =>
                    Inv(argument[<<y, m>>], {}) /\ Since(y, argument[<<y, m>>], S, {})
    <3>1. m \in DOMAIN dies /\ m \in Definable(S) /\ Part(m) /\ m \in Range(dies[t].of)
          /\ argument[<<y, m>>] = Argument(ask, y, m)
      BY <1>1, <1>2, <1>4
    <3>2. Kind(m) \in {"struct", "enum"} => dies[m].named
      BY <3>1 DEF Unit, PassedByName
    <3>3. ASSUME Clear(y, S), ~Argument(ask, y, m).raised
          PROVE  Inv(Argument(ask, y, m), {}) /\ Since(y, Argument(ask, y, m), S, {})
      <4>1. Inv(y, {})
        BY <3>3 DEF Clear
      <4> QED BY <1>0, <3>1, <3>2, <3>3, <4>1, ArgumentGood, ArgumentOrder
    <3> QED BY <2>4, <3>1, <3>3
  <2>10. Since(r, g, S, {})
    BY <1>1, <2>3, <2>6, <2>8, <2>9, EachOrder
  <2> HIDE DEF g
  <2>11. Since(e, g, S, {})
    BY <2>8, <2>10, SinceThen
  <2> QED BY <1>3, <1>6, <2>5, <2>11, FillingSince
<1> QED BY <1>5, <1>6

LEMMA FunctionOrder ==
  ASSUME Unit, ~Circular, NEW ask, Typed(ask), Good(ask), Ordered(ask), NEW e \in Emissions, NEW S, Clear(e, S),
         NEW t \in DOMAIN dies, Kind(t) = "function", t \in Definable(S), ~DeclareFunction(ask, e, t).raised
  PROVE  Since(e, DeclareFunction(ask, e, t), S, {})
<1> DEFINE u == Target(t)
           s == Setup(ask, e, t)
           g == Refer(ask, s, u)
           f == DeclareFunction(ask, e, t)
<1>0. Program /\ AskClosed(S) /\ Inv(e, {})
  BY DEF Unit, Clear
<1>1. f = Setting(g, t, "DONE")
  BY DEF DeclareFunction, Setting
<1>2. u \in DOMAIN dies /\ Part(u) /\ u \in Range(dies[t].of)
  BY EntryFacts DEF Program, Part, Unit
<1>3. u \in Definable(S)
  BY <1>0, <1>2, ClosedRoom, PartsAsked
<1>4. s \in Emissions
  BY <1>0, <1>2, EntryFacts, FunctionTyped DEF Step, Program
<1>5. ~f.raised
  OBVIOUS
<1> HIDE DEF s, f
<1>6. g \in Emissions /\ Step(s, g) /\ OrderRefer(s, u, g)
  BY <1>2, <1>4, CallTyped DEF Ordered, Step
<1>7. ~g.raised /\ ~s.raised
  BY <1>1, <1>5, <1>6, SettingFacts DEF Step, Statuses
<1>8. Inv(s, {}) /\ t \in s.filled /\ Since(e, s, S, {})
  BY <1>0, <1>7, SetupGood, SetupOrder DEF s
<1> HIDE DEF g
<1>9. Known(s, u)
  BY <1>2, <1>8 DEF Inv, PartsReady, Fit
<1>10. Referable(s, u)
  BY <1>2 DEF Referable, Part, Unit, PassedByName
<1>11. Clear(s, S)
  BY <1>8, ClearSince
<1>12. Since(s, g, S, {})
  BY <1>3, <1>6, <1>7, <1>9, <1>10, <1>11 DEF OrderRefer
<1>13. Since(g, f, S, {t})
  BY <1>1, <1>6, <1>12, SettingSince DEF Since, Statuses
<1>14. Since(e, f, S, {t})
  BY <1>8, <1>12, <1>13, SinceThen
<1> QED BY <1>14, SinceExempt DEF f

-----------------------------------------------------------------------------
(* Modifiers and typedefs *)

LEMMA DefineModifierOrder ==
  ASSUME Unit, ~Circular, NEW ask, Typed(ask), Good(ask), Ordered(ask), NEW e \in Emissions, NEW S, Clear(e, S),
         NEW t \in DOMAIN dies, Modifier(t), t \in e.linked, t \in Definable(S),
         NEW f \in {DefineQualified(ask, e, t), DefineArray(ask, e, t)}, ~f.raised,
         Kind(t) = "qualified" \/ f = DefineArray(ask, e, t)
  PROVE  /\ Since(e, f, S, {})
         /\ Named(t) /\ ~Straight(t) => f.status = e.status
<1> DEFINE u == Target(t)
           g == DefinedUnder(ask, e, t)
<1>0. Program /\ AskClosed(S) /\ Inv(e, {})
  BY DEF Unit, Clear
<1>1. /\ Refers(t) /\ u \in DOMAIN dies /\ Part(u) /\ Named(t) = Named(u)
      /\ ~Straight(t) => Kind(t) = "pointer" \/ ~Straight(u)
  BY <1>0, TargetFacts, StraightStep DEF Modifier, Modifiers
<1>2. g \in Emissions
  BY <1>0, <1>1, UnderTyped DEF Step
<1>3. \/ Named(u) /\ f = g
      \/ Kind(t) = "qualified" /\ f = Use(ask, g, u)
      \/ ~Named(u) /\ f = Define(ask, g, u)
  BY <1>1 DEF DefineQualified, DefineArray
<1>4. /\ Step(g, Use(ask, g, u)) /\ Step(g, Define(ask, g, u)) /\ OrderDefine(g, u, Define(ask, g, u))
  BY <1>1, <1>2, CallTyped, UseTyped DEF Ordered
<1>5. ~g.raised
  BY <1>2, <1>3, <1>4 DEF Step
<1>6. Inv(g, {}) /\ t \in g.linked
  BY <1>0, <1>1, <1>5, UnderGood
<1>7. Known(g, u)
  BY <1>0, <1>2, <1>6, LinkedKnown
<1>8. Below(S, t) /\ (Kind(t) # "pointer" \/ ~Named(t) => u \in Definable(S))
  BY <1>0, <1>1, ClosedRoom, TargetAsked
<1>9. /\ Since(e, g, S, {})
      /\ Named(u) /\ (Kind(t) = "pointer" \/ ~Straight(u)) => g.status = e.status
  BY <1>1, <1>5, <1>8, UnderOrder
<1> HIDE DEF g
<1>10. Clear(g, S)
  BY <1>6, <1>9, ClearSince
<1>11. Since(g, f, S, {}) /\ (Named(u) => f = g)
  <2>1. CASE Named(u) /\ f = g
    BY <1>9, <2>1, SinceSame DEF Since
  <2>2. CASE Kind(t) = "qualified" /\ f = Use(ask, g, u)
    <3>1. u \in Definable(S)
      BY <1>8, <2>2
    <3>2. Since(g, f, S, {})
      BY <1>1, <1>2, <1>7, <1>10, <2>2, <3>1, UseOrder DEF Part
    <3>3. Ready(g, u) => f = g
      BY <1>0, <1>1, <1>2, <1>6, <1>7, <2>2, UseGood DEF Part
    <3> QED BY <1>7, <3>2, <3>3 DEF Ready
  <2>3. CASE ~Named(u) /\ f = Define(ask, g, u)
    <3>1. Kind(u) # "typedef"
      BY <1>0, <1>1, <2>3, NamelessFacts
    <3>2. Since(g, f, S, {u})
      BY <1>1, <1>4, <1>7, <1>8, <1>10, <2>3 DEF OrderDefine, Known
    <3> QED BY <2>3, <3>1, <3>2, SinceExempt
  <2> QED BY <1>3, <2>1, <2>2, <2>3
<1> QED BY <1>1, <1>9, <1>11, SinceThen

LEMMA ReferModifierOrder ==
  ASSUME Unit, ~Circular, NEW ask, Typed(ask), Good(ask), Ordered(ask), NEW e \in Emissions, NEW S, Clear(e, S),
         NEW t \in DOMAIN dies, Modifier(t), Known(e, t), t \in Definable(S),
         NEW f \in {ReferQualified(ask, e, t), ReferArray(ask, e, t), ReferPointer(ask, e, t)}, ~f.raised
  PROVE  Since(e, f, S, {})
<1> DEFINE u == Target(t)
<1>0. Program /\ AskClosed(S) /\ Inv(e, {})
  BY DEF Unit, Clear
<1>1. Refers(t) /\ u \in DOMAIN dies /\ Part(u) /\ Named(t) = Named(u)
  BY <1>0, TargetFacts
<1>2. t \in e.linked
  BY DEF Known, Reached
<1>3. f = Use(ask, e, u)
  BY <1>2 DEF ReferQualified, ReferArray, ReferPointer, LinkDefined, LinkDeclared
<1>4. Known(e, u)
  BY <1>0, <1>2, LinkedKnown
<1>5. u \in Definable(S) \/ Ready(e, u)
  BY <1>0, <1>1, <1>4, ClosedRoom, TargetAsked DEF Ready
<1> QED BY <1>1, <1>3, <1>4, <1>5, UseOrder DEF Part

LEMMA EmitRefOrDefnOrder ==
  ASSUME Unit, ~Circular, NEW ask, Typed(ask), Good(ask), Ordered(ask), NEW e \in Emissions, NEW S, Clear(e, S),
         NEW t \in DOMAIN dies, Refers(t), Known(e, Target(t)), Target(t) \in Sayable(S), ~EmitRefOrDefn(ask, e, t).raised
  PROVE  Since(e, EmitRefOrDefn(ask, e, t), S, {})
<1> DEFINE u == Target(t)
           r == Touch(ask, e, u)
           f == EmitRefOrDefn(ask, e, t)
<1>0. Program /\ Inv(e, {}) /\ Tidy(e)
  BY DEF Unit, Clear
<1>1. u \in DOMAIN dies /\ Part(u)
  BY <1>0, RefersFacts
<1>2. r \in Emissions /\ GoodTouch(e, u, r)
  BY <1>1, CallTyped DEF Good, Step
<1>3. f = IF Named(u) THEN Refer(ask, r, u) ELSE Setting(Define(ask, r, u), u, "DONE")
  BY DEF EmitRefOrDefn, Setting
<1>4. ~f.raised
  OBVIOUS
<1> HIDE DEF r, f
<1>5. CASE Named(u)
  <2>1. f = Refer(ask, r, u) /\ Step(r, f) /\ GoodRefer(r, u, f)
    BY <1>1, <1>2, <1>3, <1>5, CallTyped DEF Good
  <2>2. ~r.raised
    BY <1>4, <2>1 DEF Step
  <2>3. r = e
    BY <1>0, <1>2, <2>2 DEF GoodTouch, Known
  <2>4. Referable(e, u) /\ Ready(e, u)
    BY <1>0, <1>1, <1>5, InnermostFacts DEF Referable, Modifier, Modifiers, Part, Ready
  <2>5. f = e
    BY <1>0, <1>4, <2>1, <2>3, <2>4 DEF GoodRefer
  <2> QED BY <1>0, <2>5, SinceSame DEF f
<1>6. CASE ~Named(u)
  <2> DEFINE g == Define(ask, r, u)
  <2>1. f = Setting(g, u, "DONE") /\ g \in Emissions /\ Step(r, g)
    BY <1>1, <1>2, <1>3, <1>6, CallTyped DEF Step
  <2>2. r.raised \/ r = e
    BY <1>0, <1>2 DEF GoodTouch, Known
  <2>3. OrderDefine(r, u, g)
    BY <1>1, <1>2 DEF Ordered
  <2> HIDE DEF g
  <2>4. ~g.raised
    <3> HIDE DEF u
    <3>1. Setting(g, u, "DONE").raised = g.raised
      BY DEF Setting
    <3> QED BY <1>4, <2>1, <3>1
  <2>5. r = e
    BY <2>1, <2>2, <2>4 DEF Step
  <2>10. u \in Definable(S)
    BY <1>6 DEF Sayable
  <2>6. Since(e, g, S, {u})
    BY <2>3, <2>4, <2>5, <2>10 DEF OrderDefine, Known
  <2>7. Kind(u) # "typedef"
    BY <1>0, <1>1, <1>6, NamelessFacts
  <2>8. Since(e, g, S, {})
    BY <2>6, <2>7, SinceExempt
  <2>9. Since(g, f, S, {u})
    BY <1>1, <2>1, <2>7, <2>8, SettingSince DEF Since, Statuses
  <2> QED BY <2>7, <2>8, <2>9, SinceThen, SinceExempt DEF f
<1> QED BY <1>5, <1>6

\* A typedef asks for what comes before it.
LEMMA TypedefBelow ==
  ASSUME Program, ~Circular, NEW e, NEW S, Clear(e, S), NEW t \in Declarable(S), Kind(t) = "typedef"
  PROVE  LET T == S \cap Before(t)
         IN  Clear(e, T) /\ T \subseteq S /\ t \notin Declarable(T) /\ Target(t) \in Sayable(T)
<1> DEFINE T == S \cap Before(t)
<1>1. AskClosed(T) /\ T \subseteq S /\ t \notin Declarable(T) /\ Target(t) \in Sayable(T)
  BY TypedefAsks DEF Clear
<1> HIDE DEF T
<1>2. Clear(e, T)
  BY <1>1, ClearWithin
<1> QED BY <1>1, <1>2 DEF T

LEMMA TypedefOrder ==
  ASSUME Unit, ~Circular, NEW ask, Typed(ask), Good(ask), Ordered(ask), NEW e \in Emissions, NEW S, Clear(e, S),
         NEW t \in Declarable(S), Kind(t) = "typedef", NEW s \in {"DECLARED", "DONE"},
         NEW g \in Emissions, Since(e, g, S, {}), t \in g.linked, s = "DONE" \/ g.status[t] # "DONE",
         Inv(Setting(g, t, s), {}), ~EmitRefOrDefn(ask, Setting(g, t, s), t).raised
  PROVE  Since(e, EmitRefOrDefn(ask, Setting(g, t, s), t), S, {t})
<1> DEFINE T == S \cap Before(t)
           h == Setting(g, t, s)
           f == EmitRefOrDefn(ask, h, t)
<1>1. Program /\ Refers(t) /\ t \in DOMAIN dies
  BY DEF Unit, Refers, Declarable
<1>2. Clear(e, T) /\ T \subseteq S /\ t \notin Declarable(T) /\ Target(t) \in Sayable(T)
  BY <1>1, TypedefBelow
<1>3. Since(e, g, S, {}) /\ Inv(h, {}) /\ ~f.raised
  OBVIOUS
<1> HIDE DEF f, T
<1>0. s \in Statuses
  BY DEF Statuses
<1>4. h \in Emissions /\ h.linked = g.linked
  BY <1>0, <1>1, SettingFacts
<1>5. Since(g, h, S, {t})
  BY <1>0, <1>1, <1>3, SettingSince DEF Since
<1> HIDE DEF h
<1>6. Clear(h, T)
  <2>1. Since(e, h, S, {t})
    BY <1>3, <1>5, SinceThen
  <2>2. Declarable(T) \subseteq Declarable(S)
    BY <1>2 DEF Declarable
  <2>3. Pending(h) \cap Declarable(T) = {}
    BY <1>2, <2>1, <2>2 DEF Clear, Since
  <2> QED BY <1>2, <1>3, <2>1, <2>3 DEF Clear, Since
<1>7. Known(h, Target(t))
  BY <1>1, <1>3, <1>4, LinkedKnown
<1>8. Since(h, f, T, {})
  BY <1>1, <1>2, <1>3, <1>4, <1>6, <1>7, EmitRefOrDefnOrder DEF f
<1>9. Since(h, f, S, {})
  BY <1>2, <1>8, SinceWithin
<1>10. Since(e, h, S, {t})
  BY <1>3, <1>5, SinceThen
<1> QED BY <1>9, <1>10, SinceThen DEF f, h

LEMMA DefineTypedefOrder ==
  ASSUME Unit, ~Circular, NEW ask, Typed(ask), Good(ask), Ordered(ask), NEW e \in Emissions, NEW S, Clear(e, S),
         NEW t \in DOMAIN dies, Kind(t) = "typedef", t \in Definable(S), ~DefineTypedef(ask, e, t).raised
  PROVE  Since(e, DefineTypedef(ask, e, t), S, {t})
<1> DEFINE u == Target(t)
           g == DefinedUnder(ask, e, t)
           h == Setting(g, t, "DONE")
           f == DefineTypedef(ask, e, t)
<1>0. Program /\ Inv(e, {}) /\ AskClosed(S)
  BY DEF Unit, Clear
<1>1. Refers(t) /\ u \in DOMAIN dies /\ t \notin Tagged
  BY <1>0, RefersFacts DEF Refers
<1>2. g \in Emissions
  BY <1>0, <1>1, UnderTyped DEF Step
<1>3. f = EmitRefOrDefn(ask, h, t) /\ ~f.raised
  BY DEF DefineTypedef, Setting
<1>4. Below(S, t) /\ t \in Declarable(S)
  BY <1>0, <1>1, ClosedRoom, TargetAsked DEF Rooms
<1> HIDE DEF g, f
<1>5. h \in Emissions /\ h.raised = g.raised
  BY <1>2, SettingFacts DEF Statuses
<1>6. ~g.raised
  <2> HIDE DEF h
  <2>1. Step(h, f)
    BY <1>1, <1>3, <1>5, TypedefTyped
  <2> QED BY <1>3, <1>5, <2>1 DEF Step
<1>7. /\ Inv(g, {}) /\ t \in g.linked
      /\ Named(u) /\ Straight(u) /\ ~Opaque(u) => Done(g, u)
  BY <1>0, <1>1, <1>6, UnderGood DEF g
<1>8. Since(e, g, S, {})
  BY <1>1, <1>4, <1>6, UnderOrder DEF g
<1>9. Inv(h, {})
  <2>1. Complete(g, u)
    BY <1>0, <1>1, <1>2, <1>7, CompleteBy
  <2>2. Inv(h, {t})
    BY <1>0, <1>2, <1>7, <2>1, SettingDoneKeeps
  <2> QED BY <1>1, <2>2, InvExempt
<1> QED BY <1>2, <1>3, <1>4, <1>7, <1>8, <1>9, TypedefOrder DEF f

LEMMA DeclareTypedefOrder ==
  ASSUME Unit, ~Circular, NEW ask, Typed(ask), Good(ask), Ordered(ask), NEW e \in Emissions, NEW S, Clear(e, S),
         NEW t \in DOMAIN dies, Kind(t) = "typedef", t \in Declarable(S), Simple(t), e.status[t] = "NEW",
         ~DeclareTypedef(ask, e, t).raised
  PROVE  Since(e, DeclareTypedef(ask, e, t), S, {t})
<1> DEFINE u == Target(t)
           T == S \cap Before(t)
           g == DeclaredUnder(ask, e, t)
           h == Setting(g, t, "DECLARED")
           f == DeclareTypedef(ask, e, t)
<1>0. Program /\ Inv(e, {})
  BY DEF Unit, Clear
<1>1. Refers(t) /\ u \in DOMAIN dies
  BY <1>0, RefersFacts DEF Refers
<1>2. g \in Emissions
  BY <1>0, <1>1, UnderTyped DEF Step
<1>3. f = EmitRefOrDefn(ask, h, t) /\ ~f.raised
  BY DEF DeclareTypedef, Setting
<1>4. Clear(e, T) /\ T \subseteq S /\ t \notin Declarable(T) /\ u \in Sayable(T)
  BY <1>0, TypedefBelow
<1> HIDE DEF g, f, T
<1>5. h \in Emissions /\ h.raised = g.raised
  BY <1>2, SettingFacts DEF Statuses
<1>6. ~g.raised
  <2> HIDE DEF h
  <2>1. Step(h, f)
    BY <1>1, <1>3, <1>5, TypedefTyped
  <2> QED BY <1>3, <1>5, <2>1 DEF Step
<1>7. Inv(g, {}) /\ Grow(e, g, {Innermost(u)}) /\ t \in g.linked
  BY <1>0, <1>1, <1>6, UnderGood DEF g
<1>8. Since(e, g, T, {})
  BY <1>1, <1>4, <1>6, UnderOrder DEF g
<1>a. Since(e, g, S, {})
  BY <1>4, <1>8, SinceWithin
<1>9. Inv(h, {})
  BY <1>0, <1>2, <1>7, SettingTypedefKeeps
<1>10. g.status[t] # "DONE"
  BY <1>4, <1>8 DEF Since
<1> QED BY <1>2, <1>3, <1>7, <1>9, <1>10, <1>a, TypedefOrder DEF f

-----------------------------------------------------------------------------
(* Every call keeps what it promises *)

LEMMA SinceMore ==
  ASSUME NEW e, NEW f, NEW S, NEW P, Since(e, f, S, {}) PROVE Since(e, f, S, P)
BY DEF Since

LEMMA TouchedOrder ==
  ASSUME Unit, ~Circular, NEW ask, Typed(ask), Good(ask), Ordered(ask), NEW e \in Emissions, NEW t \in DOMAIN dies
  PROVE  OrderTouch(e, t, Touched(ask, e, t))
<1> DEFINE u == Target(t)
           l == LinkDeclared(ask, e, t)
           f == Touched(ask, e, t)
<1> SUFFICES ASSUME NEW S, Clear(e, S), ~f.raised, t \in Declarable(S) PROVE Since(e, f, S, {})
  BY DEF OrderTouch
<1>0. Program /\ Inv(e, {}) /\ AskClosed(S) /\ Tidy(e)
  BY DEF Unit, Clear
<1>1. CASE ~Modifier(t)
  <2>1. f = e
    BY <1>1 DEF Touched
  <2> QED BY <1>0, <2>1, SinceSame
<1>2. CASE Modifier(t)
  <2>1. f = Touch(ask, l, u)
    BY <1>2 DEF Touched
  <2>2. Refers(t) /\ u \in DOMAIN dies /\ Simple(t)
    BY <1>0, <1>2, TargetFacts DEF Simple, Modifier, Modifiers
  <2>3. l \in Emissions
    BY <1>0, <2>2, LinkTyped DEF Step
  <2> HIDE DEF f
  <2>4. Step(l, f) /\ GoodTouch(l, u, f)
    BY <2>1, <2>2, <2>3, CallTyped DEF Good
  <2>5. ~l.raised
    BY <2>4 DEF Step
  <2>6. /\ Inv(l, {}) /\ Grow(e, l, {Innermost(Target(t))}) /\ t \in l.linked
        /\ t \in e.linked => l = e
    BY <1>0, <1>2, <2>2, <2>5, LinkGood
  <2>7. Known(l, u)
    BY <1>0, <2>3, <2>6, LinkedKnown
  <2>8. f = l
    BY <2>4, <2>6, <2>7 DEF GoodTouch, Known
  <2>9. u \in Declarable(S)
    BY <1>0, <2>2, ClosedRoom, TargetAsked
  <2>10. Since(e, l, S, {})
    BY <2>2, <2>5, <2>9, LinkOrder
  <2> QED BY <2>8, <2>10 DEF f
<1> QED BY <1>1, <1>2

LEMMA DeclaredOrder ==
  ASSUME Unit, ~Circular, NEW ask, Typed(ask), Good(ask), Ordered(ask), NEW e \in Emissions, NEW t \in DOMAIN dies
  PROVE  OrderDeclare(e, t, Declared(ask, e, t))
<1> DEFINE f == Declared(ask, e, t)
<1> SUFFICES ASSUME NEW S, Clear(e, S), ~f.raised, t \in Declarable(S), ~Modifier(t), Named(t), Kind(t) # "function",
                    e.status[t] = "NEW", Simple(t)
             PROVE  Since(e, f, S, {t})
  BY DEF OrderDeclare
<1>0. Program /\ Tidy(e)
  BY DEF Unit, Clear
<1>1. Kind(t) \in {"base", "unknown", "declared", "struct", "enum", "typedef"}
  BY <1>0, EntryFacts DEF Program, Kinds, Modifier
<1>2. CASE Kind(t) \in {"struct", "declared"}
  <2>1. f = Setting(e, t, "DECLARED")
    BY <1>2, DeclaredCases DEF DeclareStruct, Setting
  <2> QED BY <1>0, <1>2, <2>1, SettingSince DEF Statuses
<1>3. CASE Kind(t) \in {"base", "unknown", "enum"}
  <2>1. f = Setting(e, t, "DONE")
    BY <1>3, DeclaredCases DEF DefineEnum, DeclareBase, Setting
  <2> QED BY <1>0, <1>3, <2>1, SettingSince DEF Statuses
<1>4. CASE Kind(t) = "typedef"
  <2>1. f = DeclareTypedef(ask, e, t)
    BY <1>4, DeclaredCases
  <2> QED BY <1>4, <2>1, DeclareTypedefOrder
<1> QED BY <1>1, <1>2, <1>3, <1>4

LEMMA DefinedOrder ==
  ASSUME Unit, ~Circular, NEW ask, Typed(ask), Good(ask), Ordered(ask), NEW e \in Emissions, NEW t \in DOMAIN dies
  PROVE  OrderDefine(e, t, Defined(ask, e, t))
<1> DEFINE f == Defined(ask, e, t)
<1> SUFFICES ASSUME NEW S, Clear(e, S), ~f.raised, t \in Definable(S), Reached(e, t)
             PROVE  /\ Since(e, f, S, {t})
                    /\ Named(t) /\ ~Straight(t) => f.status = e.status
  BY DEF OrderDefine
<1>0. Program /\ Tidy(e) /\ Inv(e, {})
  BY DEF Unit, Clear
<1>1. Kind(t) \in Kinds /\ (~Modifier(t) => Straight(t))
  BY <1>0, EntryFacts, StraightStep DEF Program
<1>2. ~Modifier(t) <=> Kind(t) \notin {"qualified", "array", "pointer"}
  BY DEF Modifier, Modifiers
<1>3. CASE Kind(t) = "struct"
  <2>1. f = DefineStruct(ask, e, t)
    BY <1>3, DefinedCases
  <2>2. Since(e, f, S, {})
    BY <1>3, <2>1, DefineStructOrder
  <2> QED BY <1>1, <1>2, <1>3, <2>2, SinceMore
<1>4. CASE Kind(t) = "declared"
  <2>1. f = Setting(e, t, "DECLARED")
    BY <1>4, DefinedCases DEF DefineStruct, DeclareStruct, Setting
  <2>2. e.status[t] # "DONE"
    BY <1>0, <1>4 DEF Inv, StatusFits
  <2>3. Since(e, f, S, {t})
    BY <1>0, <1>4, <2>1, <2>2, SettingSince DEF Statuses
  <2> QED BY <1>1, <1>2, <1>4, <2>3
<1>5. CASE Kind(t) \in {"base", "unknown", "enum"}
  <2>1. f = Setting(e, t, "DONE")
    BY <1>5, DefinedCases DEF DefineEnum, DeclareBase, Setting
  <2>2. Since(e, f, S, {t})
    BY <1>0, <1>5, <2>1, SettingSince DEF Statuses
  <2> QED BY <1>1, <1>2, <1>5, <2>2
<1>6. CASE Kind(t) = "function"
  <2>1. f = DeclareFunction(ask, e, t)
    BY <1>6, DefinedCases
  <2>2. Since(e, f, S, {})
    BY <1>6, <2>1, FunctionOrder
  <2> QED BY <1>1, <1>2, <1>6, <2>2, SinceMore
<1>7. CASE Kind(t) = "typedef"
  <2>1. f = DefineTypedef(ask, e, t)
    BY <1>7, DefinedCases
  <2>2. Since(e, f, S, {t})
    BY <1>7, <2>1, DefineTypedefOrder
  <2> QED BY <1>1, <1>2, <1>7, <2>2
<1>8. CASE Modifier(t)
  <2>1. t \in e.linked
    BY <1>8 DEF Reached
  <2>2. f = IF Kind(t) = "qualified" THEN DefineQualified(ask, e, t) ELSE DefineArray(ask, e, t)
    BY <1>8, DefinedCases DEF DefinePointer, Modifier, Modifiers
  <2>3. f \in {DefineQualified(ask, e, t), DefineArray(ask, e, t)} /\ ~f.raised
    BY <2>2
  <2> HIDE DEF f
  <2>4. /\ Since(e, f, S, {})
        /\ Named(t) /\ ~Straight(t) => f.status = e.status
    BY <1>8, <2>1, <2>2, <2>3, DefineModifierOrder
  <2> QED BY <2>4, SinceMore DEF f
<1> QED BY <1>1, <1>3, <1>4, <1>5, <1>6, <1>7, <1>8 DEF Kinds, Modifier

LEMMA ReferredOrder ==
  ASSUME Unit, ~Circular, NEW ask, Typed(ask), Good(ask), Ordered(ask), NEW e \in Emissions, NEW t \in DOMAIN dies
  PROVE  OrderRefer(e, t, Referred(ask, e, t))
<1> DEFINE f == Referred(ask, e, t)
<1> SUFFICES ASSUME NEW S, Clear(e, S), ~f.raised, t \in Definable(S), Known(e, t), Referable(e, t)
             PROVE  Since(e, f, S, {})
  BY DEF OrderRefer
<1>0. Program /\ Tidy(e) /\ Inv(e, {})
  BY DEF Unit, Clear
<1>1. Kind(t) \in Kinds
  BY <1>0, EntryFacts DEF Program
<1>2. CASE Kind(t) \in {"base", "unknown", "declared", "struct", "enum"}
  <2>1. f = e
    BY <1>2, ReferredCases
  <2> QED BY <1>0, <2>1, SinceSame
<1>3. CASE Kind(t) = "function"
  <2>1. f = DeclareFunction(ask, e, t)
    BY <1>3, ReferredCases
  <2> QED BY <1>3, <2>1, FunctionOrder
<1>4. CASE Kind(t) = "typedef"
  <2>1. ~Modifier(t) /\ dies[t].named
    BY <1>0, <1>4, EntryFacts DEF Program, Modifier, Modifiers
  <2>2. Named(t) /\ Status(e, t) = e.status[t]
    BY <1>0, <2>1, InnermostFacts DEF Status
  <2>3. t \in e.linked
    BY <1>0, <1>4, <2>2 DEF Known, Inv, TypedefsLinked
  <2>4. f = e
    BY <1>4, <2>3, ReferredCases DEF ReferTypedef, LinkDefined
  <2> QED BY <1>0, <2>4, SinceSame
<1>5. CASE Modifier(t)
  <2>1. f \in {ReferQualified(ask, e, t), ReferArray(ask, e, t), ReferPointer(ask, e, t)}
    BY <1>5, ReferredCases DEF Modifier, Modifiers
  <2> QED BY <1>5, <2>1, ReferModifierOrder
<1> QED BY <1>1, <1>2, <1>3, <1>4, <1>5 DEF Kinds, Modifier

LEMMA LevelOrder ==
  ASSUME Unit, ~Circular, NEW ask, NEW n \in Nat, n = 0 \/ (Typed(ask) /\ Good(ask) /\ Ordered(ask))
  PROVE  Ordered(Level(ask, n))
<1>1. ASSUME NEW e \in Emissions, NEW t \in DOMAIN dies
      PROVE  /\ OrderTouch(e, t, Touch(Level(ask, n), e, t))
             /\ OrderDeclare(e, t, Declare(Level(ask, n), e, t))
             /\ OrderDefine(e, t, Define(Level(ask, n), e, t))
             /\ OrderRefer(e, t, Refer(Level(ask, n), e, t))
  <2> DEFINE L == Level(ask, n)
             Asking == Typed(ask) /\ Good(ask) /\ Ordered(ask)
  <2>1. \A what \in Questions :
          \/ L[<<what, e, t>>].raised
          \/ L[<<what, e, t>>] = Answer(ask, what, e, t) /\ Asking
    BY LevelAnswers, GivenUpFacts
  <2> HIDE DEF L
  <2>2. OrderTouch(e, t, L[<<"touch", e, t>>])
    <3>1. CASE L[<<"touch", e, t>>].raised
      BY <3>1 DEF OrderTouch
    <3>2. CASE L[<<"touch", e, t>>] = Touched(ask, e, t) /\ Asking
      BY <3>2, TouchedOrder
    <3> QED BY <2>1, <3>1, <3>2, AnswerCases DEF Questions
  <2>3. OrderDeclare(e, t, L[<<"declare", e, t>>])
    <3>1. CASE L[<<"declare", e, t>>].raised
      BY <3>1 DEF OrderDeclare
    <3>2. CASE L[<<"declare", e, t>>] = Declared(ask, e, t) /\ Asking
      BY <3>2, DeclaredOrder
    <3> QED BY <2>1, <3>1, <3>2, AnswerCases DEF Questions
  <2>4. OrderDefine(e, t, L[<<"define", e, t>>])
    <3>1. CASE L[<<"define", e, t>>].raised
      BY <3>1 DEF OrderDefine
    <3>2. CASE L[<<"define", e, t>>] = Defined(ask, e, t) /\ Asking
      BY <3>2, DefinedOrder
    <3> QED BY <2>1, <3>1, <3>2, AnswerCases DEF Questions
  <2>5. OrderRefer(e, t, L[<<"refer", e, t>>])
    <3>1. CASE L[<<"refer", e, t>>].raised
      BY <3>1 DEF OrderRefer
    <3>2. CASE L[<<"refer", e, t>>] = Referred(ask, e, t) /\ Asking
      BY <3>2, ReferredOrder
    <3> QED BY <2>1, <3>1, <3>2, AnswerCases DEF Questions
  <2> QED BY <2>2, <2>3, <2>4, <2>5 DEF Touch, Declare, Define, Refer, L
<1> QED BY <1>1 DEF Ordered

LEMMA AnswersOrdered ==
  ASSUME Unit, ~Circular
  PROVE  Typed(Answers) /\ Good(Answers) /\ Ordered(Answers)
<1> DEFINE Q == {ask \in [Questions \X Emissions \X DOMAIN dies -> Emissions] :
                   Typed(ask) /\ Good(ask) /\ Ordered(ask)}
<1>1. ASSUME NEW ask, NEW n \in Nat, n = 0 \/ ask \in Q PROVE Level(ask, n) \in Q
  <2>1. n = 0 \/ (Typed(ask) /\ Good(ask) /\ Ordered(ask))
    BY <1>1
  <2>2. /\ Level(ask, n) \in [Questions \X Emissions \X DOMAIN dies -> Emissions]
        /\ Typed(Level(ask, n)) /\ Good(Level(ask, n))
    BY <2>1, LevelGood
  <2> QED BY <2>1, <2>2, LevelOrder
<1> HIDE DEF Q
<1>2. Answers \in Q
  BY <1>1, CallInduction
<1> QED BY <1>2 DEF Q

-----------------------------------------------------------------------------
(* The rounds of get_named_types *)

\* What a round leaves behind: no typedef is pending between two of them.
InSequence(e) == Tidy(e) /\ Pending(e) = {}

OrderInv == EmissionInv /\ (~Circular /\ ~emission.raised => InSequence(emission))

LEMMA RoundOrder ==
  ASSUME Unit, ~Circular, NEW e \in Emissions, Inv(e, {}), InSequence(e), NEW t \in NamedEntries
  PROVE  LET d == Made(e, t)
             f == IF Status(d, t) = "DONE" THEN d ELSE Emit(Define(Answers, d, t), t, "define")
         IN  ~f.raised => InSequence(f)
<1> DEFINE S == Wanted
           d == Made(e, t)
           f == IF Status(d, t) = "DONE" THEN d ELSE Emit(Define(Answers, d, t), t, "define")
<1> SUFFICES ASSUME ~f.raised PROVE InSequence(f)
  OBVIOUS
<1>0. Program /\ t \in DOMAIN dies /\ dies[t].named
  BY DEF Unit, NamedEntries
<1>1. ~Modifier(t) /\ Named(t)
  BY <1>0, EntryFacts, InnermostFacts DEF Program
<1>2. Clear(e, S) /\ t \in Definable(S)
  BY <1>0, AllClosed DEF Clear, InSequence
<1>3. d \in Emissions /\ Clear(d, S) /\ Since(e, d, S, {})
  BY <1>0, <1>2, ClearMade
<1>4. Reached(d, t)
  BY <1>1 DEF Reached
<1> HIDE DEF d
<1>5. ASSUME Status(d, t) # "DONE", ~Emit(Define(Answers, d, t), t, "define").raised
      PROVE  Since(d, Emit(Define(Answers, d, t), t, "define"), S, {})
  BY <1>0, <1>1, <1>2, <1>3, <1>4, <1>5, AnswersOrdered, DefineEmitOrder
<1>6. f = d \/ Since(d, f, S, {})
  BY <1>5
<1> HIDE DEF f
<1>7. Since(e, f, S, {})
  BY <1>3, <1>6, SinceThen
<1> QED BY <1>7 DEF Since, InSequence, f, d

LEMMA InitsOrder ==
  ASSUME Init PROVE OrderInv
<1>1. /\ emission.header = <<>>
      /\ emission.status = [t \in DOMAIN dies |-> IF Kind(t) = "base" THEN "DONE" ELSE "NEW"]
  BY DEF Init, Started
<1>2. DOMAIN emission.header = {} /\ Len(emission.header) = 0
  BY <1>1
<1>3. Mentioned(emission) = {} /\ Finished(emission) = {}
  <2>1. 1 .. 0 + 1 - 1 = {}
    OBVIOUS
  <2> QED BY <1>2, <2>1 DEF Mentioned, Finished, Completed
<1>4. Tidy(emission)
  BY <1>2, <1>3 DEF Tidy, NamesKnown, EarlyOnly, FinishedDone
<1>5. Pending(emission) = {}
  BY <1>1 DEF Pending
<1> QED BY <1>4, <1>5, Inits DEF OrderInv, InSequence

\* The unit is the same in the next state.
LEMMA SameOrder ==
  ASSUME dies' = dies
  PROVE  /\ Circular' = Circular /\ \A q : Asked(q)' = Asked(q)
         /\ \A e : InSequence(e)' = InSequence(e)
<1>1. \A t : Kind(t)' = Kind(t) /\ Modifier(t)' = Modifier(t) /\ Innermost(t)' = Innermost(t) /\ Named(t)' = Named(t)
  BY SameTypes
<1>2. \A q : Asked(q)' = Asked(q)
  <2>1. \A t, w : PartsAs(t, w)' = PartsAs(t, w)
    BY DEF PartsAs
  <2>2. \A t : Target(t)' = Target(t)
    BY DEF Target
  <2>3. \A t : ToDeclare(t)' = ToDeclare(t) /\ ToDefine(t)' = ToDefine(t)
    BY <1>1, <2>1, <2>2 DEF ToDeclare, ToDefine
  <2> QED BY <2>3 DEF Asked
<1>3. [q \in Wanted |-> Asked(q)]' = [q \in Wanted |-> Asked(q)]
  BY <1>2 DEF Wanted
<1>4. Circular' = Circular
  BY <1>3 DEF Circular, Acyclic
<1>5. \A h, i : Typedefs(h, i)' = Typedefs(h, i) /\ Completed(h, i)' = Completed(h, i)
  BY <1>1, SameTexts DEF Typedefs
<1>6. \A h : NamesKnown(h)' = NamesKnown(h)
  BY <1>5, SameTexts DEF NamesKnown
<1>7. \A k, t : End(k, t)' = End(k, t)
  BY DEF End, Kind, Target
<1>8. \A t : Specifier(t)' = Specifier(t)
  BY <1>1, <1>7 DEF Specifier
<1>9. \A h : EarlyOnly(h)' = EarlyOnly(h)
  BY <1>1, <1>5, <1>8 DEF EarlyOnly
<1>10. \A e : FinishedDone(e)' = FinishedDone(e)
  BY <1>1, SameUnit DEF FinishedDone
<1>11. \A e : Pending(e)' = Pending(e)
  BY <1>1, SameUnit DEF Pending
<1>12. \A e : InSequence(e)' = InSequence(e)
  BY <1>6, <1>9, <1>10, <1>11 DEF InSequence, Tidy
<1> QED BY <1>2, <1>4, <1>12

LEMMA NamedTypeOrder ==
  ASSUME OrderInv, NamedType PROVE OrderInv'
<1> DEFINE t == Head(todo)
           d == Made(emission, t)
           f == IF Status(d, t) = "DONE" THEN d ELSE Emit(Define(Answers, d, t), t, "define")
<1>1. EmissionInv /\ Unit /\ Program
  BY UnitFacts DEF OrderInv
<1>2. EmissionInv'
  BY <1>1, NamedTypeKeeps
<1>3. emission \in Emissions /\ ~emission.raised /\ Inv(emission, {})
  BY <1>1 DEF EmissionInv, NamedType
<1>4. t \in NamedEntries
  BY <1>1, TodoFacts DEF EmissionInv, NamedType
<1>5. emission' = f /\ dies' = dies
  BY DEF NamedType
<1>6. ASSUME ~Circular, ~f.raised PROVE InSequence(f)
  <2>1. InSequence(emission)
    BY <1>3, <1>6 DEF OrderInv
  <2> HIDE DEF t
  <2> QED BY <1>1, <1>3, <1>4, <1>6, <2>1, RoundOrder
<1> HIDE DEF f
<1>7. ~Circular' /\ ~emission'.raised => InSequence(emission)'
  <2>1. (InSequence(emission))' = InSequence(f)
    BY <1>5, SameOrder
  <2> QED BY <1>5, <1>6, <2>1, SameOrder
<1> QED BY <1>2, <1>7 DEF OrderInv

LEMMA OrderInvariant == Spec => []OrderInv
<1>1. OrderInv /\ Mutators => OrderInv'
  <2> SUFFICES ASSUME OrderInv, Mutators PROVE OrderInv'
    OBVIOUS
  <2>1. EmissionInv' /\ (emission'.raised \/ emission' = emission)
    BY MutatorsKeep DEF OrderInv
  <2>2. dies' = dies /\ ~emission.raised
    BY DEF Mutators
  <2> QED BY <2>1, <2>2, SameOrder DEF OrderInv
<1>2. OrderInv /\ UNCHANGED vars => OrderInv'
  <2> SUFFICES ASSUME OrderInv, UNCHANGED vars PROVE OrderInv'
    OBVIOUS
  <2>1. EmissionInv'
    BY StutteringKeeps DEF OrderInv
  <2>2. dies' = dies /\ emission' = emission
    BY DEF vars
  <2> QED BY <2>1, <2>2, SameOrder DEF OrderInv
<1>3. OrderInv /\ [Next]_vars => OrderInv'
  BY <1>1, <1>2, NamedTypeOrder DEF Next, Ended
<1> QED BY InitsOrder, <1>3, PTL DEF Spec

\* Whatever the unit, its cycles and the order of its entries, no statement of
\* the printed header uses a typedef name before the typedef, unless a definition
\* of the unit asks for itself, nor meets a tag first in a parameter list, where
\* it would be another type.
THEOREM NamesDeclared == Spec => []DeclaredBeforeUse
<1>1. OrderInv => DeclaredBeforeUse
  <2> SUFFICES ASSUME OrderInv, ~emission.raised
               PROVE  (Circular \/ NamesKnown(emission.header)) /\ TagsVisible(emission.header)
    BY DEF DeclaredBeforeUse, Printed
  <2>1. Circular \/ NamesKnown(emission.header)
    BY DEF OrderInv, InSequence, Tidy
  <2>2. TagsVisible(emission.header)
    BY DEF OrderInv, EmissionInv, Inv, Orderly
  <2> QED BY <2>1, <2>2
<1> QED BY OrderInvariant, <1>1, PTL

\* Whatever the unit, a statement that is not C, as "struct A *const;" is not, is
\* only ever printed while what it points to is incomplete, unless a definition of
\* the unit asks for itself.
THEOREM ConstPointersEarly == Spec => []OnlyEarlyConstPointers
<1>1. OrderInv => OnlyEarlyConstPointers
  BY DEF OrderInv, InSequence, Tidy, EarlyOnly, OnlyEarlyConstPointers, Printed
<1> QED BY OrderInvariant, <1>1, PTL

-----------------------------------------------------------------------------
(* How deep the calls go *)

-----------------------------------------------------------------------------
(* A call that may be made is not given up *)

Going(e) == Inv(e, {}) /\ ~e.raised

EndTouch(R, e, t, f) == Going(e) /\ t \in Declarable(R) => ~f.raised

EndDeclare(R, e, t, f) ==
  Going(e) /\ t \in Declarable(R) /\ ~Modifier(t) /\ Named(t) /\ Kind(t) # "function" /\ e.status[t] = "NEW" /\ Simple(t) =>
    ~f.raised

EndDefine(R, e, t, f) == Going(e) /\ t \in Definable(R) /\ Reached(e, t) => ~f.raised

EndRefer(R, e, t, f) == Going(e) /\ t \in Sayable(R) /\ Known(e, t) /\ Referable(e, t) => ~f.raised

Ending(ask, R) ==
  /\ R \in Rooms /\ Typed(ask) /\ Good(ask)
  /\ \A e \in Emissions, t \in DOMAIN dies :
       /\ EndTouch(R, e, t, Touch(ask, e, t)) /\ EndDeclare(R, e, t, Declare(ask, e, t))
       /\ EndDefine(R, e, t, Define(ask, e, t)) /\ EndRefer(R, e, t, Refer(ask, e, t))

\* What is known of the answer to each question.
LEMMA EndingCalls ==
  ASSUME NEW R, NEW ask, Ending(ask, R), NEW e \in Emissions, NEW t \in DOMAIN dies
  PROVE  /\ Touch(ask, e, t) \in Emissions /\ GoodTouch(e, t, Touch(ask, e, t))
         /\ EndTouch(R, e, t, Touch(ask, e, t))
         /\ Declare(ask, e, t) \in Emissions /\ GoodDeclare(e, t, Declare(ask, e, t))
         /\ EndDeclare(R, e, t, Declare(ask, e, t))
         /\ Define(ask, e, t) \in Emissions /\ GoodDefine(e, t, Define(ask, e, t))
         /\ EndDefine(R, e, t, Define(ask, e, t))
         /\ Refer(ask, e, t) \in Emissions /\ GoodRefer(e, t, Refer(ask, e, t))
         /\ EndRefer(R, e, t, Refer(ask, e, t))
<1>1. Typed(ask) /\ Good(ask)
  BY DEF Ending
<1>2. /\ Touch(ask, e, t) \in Emissions /\ Declare(ask, e, t) \in Emissions
      /\ Define(ask, e, t) \in Emissions /\ Refer(ask, e, t) \in Emissions
  BY <1>1, CallTyped DEF Step
<1> QED BY <1>1, <1>2 DEF Ending, Good

LEMMA DependDeclareEnds ==
  ASSUME Unit, NEW R, NEW ask, Ending(ask, R), NEW e \in Emissions, Going(e),
         NEW d \in DOMAIN dies, Part(d), Simple(d), d \in Declarable(R)
  PROVE  Going(DependDeclare(ask, e, d)) /\ Known(DependDeclare(ask, e, d), d)
<1> DEFINE f == DependDeclare(ask, e, d)
           g == Touch(ask, e, d)
           h == Declare(ask, g, d)
<1>0. Program /\ Inv(e, {}) /\ ~e.raised /\ Typed(ask) /\ Good(ask)
  BY DEF Unit, Going, Ending
<1>1. /\ g \in Emissions /\ GoodTouch(e, d, g) /\ EndTouch(R, e, d, g)
      /\ f = IF Named(d) /\ Status(g, d) = "NEW" THEN Emit(h, d, "declare") ELSE g
  BY EndingCalls DEF DependDeclare
<1> HIDE DEF g
<1>2. h \in Emissions /\ EndDeclare(R, g, d, h)
  BY <1>1, EndingCalls
<1> HIDE DEF f, h
<1>3. Inv(g, {}) /\ ~g.raised /\ Reached(g, d)
  BY <1>0, <1>1 DEF GoodTouch, EndTouch, Going
<1>4. ASSUME Named(d), Status(g, d) = "NEW" PROVE ~h.raised
  <2>1. ~Modifier(d)
    BY <1>0, <1>1, <1>3, <1>4, LinkedKnown DEF Reached, Known
  <2>2. g.status[d] = "NEW" /\ Kind(d) # "function"
    BY <1>0, <1>4, <2>1, InnermostFacts DEF Status, Part
  <2> QED BY <1>2, <1>3, <1>4, <2>1, <2>2 DEF EndDeclare, Going
<1>5. ~f.raised
  BY <1>1, <1>2, <1>3, <1>4, EmitTyped
<1> QED BY <1>0, <1>5, DependDeclareGood DEF Going, f

LEMMA DefineEmitEnds ==
  ASSUME NEW R, NEW ask, Ending(ask, R), NEW g \in Emissions, Going(g),
         NEW d \in DOMAIN dies, d \in Definable(R), Reached(g, d)
  PROVE  ~Emit(Define(ask, g, d), d, "define").raised
<1> DEFINE h == Define(ask, g, d)
<1>1. h \in Emissions /\ EndDefine(R, g, d, h)
  BY EndingCalls
<1> HIDE DEF h
<1>2. ~h.raised
  BY <1>1 DEF EndDefine
<1> QED BY <1>1, <1>2, EmitTyped DEF h

LEMMA DependDefineEnds ==
  ASSUME Unit, NEW R, NEW ask, Ending(ask, R), NEW e \in Emissions, Going(e),
         NEW d \in DOMAIN dies, d \in Definable(R)
  PROVE  Going(DependDefine(ask, e, d)) /\ Known(DependDefine(ask, e, d), d)
<1> DEFINE f == DependDefine(ask, e, d)
           g == Touch(ask, e, d)
<1>0. Program /\ Inv(e, {}) /\ ~e.raised /\ Typed(ask) /\ Good(ask) /\ d \in Declarable(R)
  BY DEF Unit, Going, Ending, Rooms
<1>1. /\ g \in Emissions /\ GoodTouch(e, d, g) /\ EndTouch(R, e, d, g)
      /\ f = IF Named(d) /\ Status(g, d) # "DONE" THEN Emit(Define(ask, g, d), d, "define") ELSE g
  BY EndingCalls DEF DependDefine
<1> HIDE DEF g, f
<1>2. Going(g) /\ Reached(g, d)
  BY <1>0, <1>1 DEF GoodTouch, EndTouch, Going
<1>3. ~f.raised
  BY <1>1, <1>2, DefineEmitEnds DEF Going
<1> QED BY <1>0, <1>3, DependDefineGood DEF Going, f

LEMMA UseEnds ==
  ASSUME Unit, NEW R, NEW ask, Ending(ask, R), NEW e \in Emissions, Going(e),
         NEW t \in DOMAIN dies, t \in Sayable(R), Known(e, t), Kind(t) = "function" /\ dies[t].named => Done(e, t)
  PROVE  Going(Use(ask, e, t)) /\ Ready(Use(ask, e, t), t)
<1> DEFINE f == Use(ask, e, t)
           g == Touch(ask, e, t)
<1>0. Program /\ Inv(e, {}) /\ ~e.raised /\ Typed(ask) /\ Good(ask) /\ t \in Declarable(R)
  BY DEF Unit, Going, Ending, Rooms, Sayable
<1>1. g \in Emissions /\ GoodTouch(e, t, g) /\ EndTouch(R, e, t, g)
  BY EndingCalls
<1>2. f = IF Named(t) THEN Refer(ask, g, t) ELSE Define(ask, g, t)
  BY DEF Use
<1> HIDE DEF f, g
<1>3. g = e
  BY <1>0, <1>1 DEF GoodTouch, EndTouch, Known, Going
<1>4. ASSUME Named(t) PROVE ~f.raised
  <2>1. EndRefer(R, e, t, f)
    BY <1>2, <1>3, <1>4, EndingCalls
  <2>2. Referable(e, t)
    BY <1>0, <1>4, InnermostFacts DEF Referable, Modifier, Modifiers
  <2> QED BY <2>1, <2>2 DEF EndRefer
<1>5. ASSUME ~Named(t) PROVE ~f.raised
  <2>1. EndDefine(R, e, t, f)
    BY <1>2, <1>3, <1>5, EndingCalls
  <2>2. t \in Definable(R)
    BY <1>5 DEF Sayable
  <2> QED BY <2>1, <2>2 DEF EndDefine, Known
<1>6. ~f.raised
  BY <1>4, <1>5
<1> QED BY <1>0, <1>6, UseGood DEF Going, f

-----------------------------------------------------------------------------
(* Nor what modifiers and typedefs ask for *)

LEMMA MadeGoing ==
  ASSUME Unit, NEW e \in Emissions, Going(e), NEW u \in DOMAIN dies
  PROVE  Made(e, u) \in Emissions /\ Going(Made(e, u))
BY MadeFacts, MadeSame DEF Going, Unit

LEMMA UnderlyingEnds ==
  ASSUME Unit, NEW R, NEW ask, Ending(ask, R), NEW e \in Emissions, Going(e), NEW t \in DOMAIN dies, Refers(t)
  PROVE  /\ Simple(t) /\ Target(t) \in Declarable(R) => ~UnderlyingDeclaration(ask, e, t).raised
         /\ Below(R, t) => ~UnderlyingDefinition(ask, e, t).raised
<1> DEFINE u == Target(t)
           g == Made(e, u)
<1>0. Program /\ u \in DOMAIN dies /\ Part(u) /\ R \in Rooms
  BY RefersFacts DEF Unit, Ending
<1>1. g \in Emissions /\ Going(g)
  BY <1>0, MadeGoing
<1>2. /\ UnderlyingDeclaration(ask, e, t) = DependDeclare(ask, g, u)
      /\ Kind(t) = "pointer" => UnderlyingDefinition(ask, e, t) = DependDeclare(ask, g, u)
      /\ Kind(t) # "pointer" => UnderlyingDefinition(ask, e, t) = DependDefine(ask, g, u)
  BY DEF UnderlyingDeclaration, UnderlyingDefinition, Pointers
<1> HIDE DEF g
<1>3. Simple(t) \/ Kind(t) = "pointer" => Simple(u)
  BY <1>0, SimpleTarget DEF Simple
<1>4. Simple(u) /\ u \in Declarable(R) => ~DependDeclare(ask, g, u).raised
  BY <1>0, <1>1, DependDeclareEnds DEF Going
<1>5. u \in Definable(R) => ~DependDefine(ask, g, u).raised
  BY <1>0, <1>1, DependDefineEnds DEF Going
<1>6. Below(R, t) => u \in Declarable(R)
  BY <1>0 DEF Below, Rooms
<1> QED BY <1>2, <1>3, <1>4, <1>5, <1>6 DEF Below

LEMMA LinkEnds ==
  ASSUME Unit, NEW R, NEW ask, Ending(ask, R), NEW e \in Emissions, Going(e), NEW t \in DOMAIN dies, Refers(t)
  PROVE  /\ Simple(t) /\ Target(t) \in Declarable(R) => Going(LinkDeclared(ask, e, t)) /\ t \in LinkDeclared(ask, e, t).linked
         /\ Below(R, t) => Going(LinkDefined(ask, e, t)) /\ t \in LinkDefined(ask, e, t).linked
<1> DEFINE c == UnderlyingDeclaration(ask, e, t)
           d == UnderlyingDefinition(ask, e, t)
<1>0. Program /\ Inv(e, {}) /\ ~e.raised /\ Typed(ask) /\ Good(ask) /\ Target(t) \in DOMAIN dies
  BY RefersFacts DEF Unit, Going, Ending
<1>1. c \in Emissions /\ d \in Emissions
  BY <1>0, UnderlyingTyped DEF Step
<1>2. /\ LinkDeclared(ask, e, t) \in {e, Linking(c, t)}
      /\ LinkDefined(ask, e, t) \in {e, Linking(d, t)}
  BY DEF LinkDeclared, LinkDefined, Linking
<1> HIDE DEF c, d
<1>3. Linking(c, t).raised = c.raised /\ Linking(d, t).raised = d.raised
  BY <1>1, LinkingFacts
<1>4. /\ Simple(t) /\ Target(t) \in Declarable(R) => ~LinkDeclared(ask, e, t).raised
      /\ Below(R, t) => ~LinkDefined(ask, e, t).raised
  BY <1>0, <1>2, <1>3, UnderlyingEnds DEF c, d
<1> QED BY <1>0, <1>4, LinkGood DEF Going

LEMMA UnderEnds ==
  ASSUME Unit, NEW R, NEW ask, Ending(ask, R), NEW e \in Emissions, Going(e), NEW t \in DOMAIN dies, Refers(t)
  PROVE  /\ Simple(t) /\ Target(t) \in Sayable(R) =>
              Going(DeclaredUnder(ask, e, t)) /\ t \in DeclaredUnder(ask, e, t).linked
         /\ Below(R, t) => Going(DefinedUnder(ask, e, t)) /\ t \in DefinedUnder(ask, e, t).linked
<1> DEFINE u == Target(t)
<1>0. Program /\ Inv(e, {}) /\ Typed(ask) /\ Good(ask) /\ u \in DOMAIN dies /\ R \in Rooms
  BY RefersFacts DEF Unit, Going, Ending
<1>1. u \in Sayable(R) => u \in Declarable(R) /\ (Named(u) \/ Below(R, t))
  BY <1>0 DEF Rooms, Sayable, Below
<1> HIDE DEF u
<1>2. ASSUME Simple(t), u \in Sayable(R) PROVE ~DeclaredUnder(ask, e, t).raised
  <2> DEFINE l == LinkDeclared(ask, e, t)
  <2>1. DeclaredUnder(ask, e, t) = IF Status(l, u) = "NEW" THEN UnderlyingDefinition(ask, l, t) ELSE l
    BY DEF DeclaredUnder, u
  <2>2. l \in Emissions /\ Going(l) /\ t \in l.linked
    BY <1>0, <1>1, <1>2, LinkTyped, LinkEnds DEF Step, u
  <2> HIDE DEF l
  <2>3. Named(u) => Status(l, u) # "NEW"
    BY <1>0, <2>2, LinkedKnown DEF Known, Going, u
  <2>4. Below(R, t) => ~UnderlyingDefinition(ask, l, t).raised
    BY <2>2, UnderlyingEnds
  <2> QED BY <1>1, <1>2, <2>1, <2>2, <2>3, <2>4 DEF Going
<1>3. ASSUME Below(R, t) PROVE ~DefinedUnder(ask, e, t).raised
  <2> DEFINE l == LinkDefined(ask, e, t)
  <2>1. DefinedUnder(ask, e, t) \in {l, UnderlyingDefinition(ask, l, t)}
    BY DEF DefinedUnder
  <2>2. l \in Emissions /\ Going(l)
    BY <1>0, <1>3, LinkTyped, LinkEnds DEF Step, u
  <2> HIDE DEF l
  <2>3. ~UnderlyingDefinition(ask, l, t).raised
    BY <1>3, <2>2, UnderlyingEnds
  <2> QED BY <2>1, <2>2, <2>3 DEF Going
<1> QED BY <1>0, <1>2, <1>3, UnderGood DEF Going, u

LEMMA DefineModifierEnds ==
  ASSUME Unit, NEW R, NEW ask, Ending(ask, R), NEW e \in Emissions, Going(e),
         NEW t \in DOMAIN dies, Modifier(t), Below(R, t), Kind(t) # "pointer" \/ ~Named(t) => Target(t) \in Definable(R)
  PROVE  /\ Kind(t) = "qualified" => ~DefineQualified(ask, e, t).raised
         /\ ~DefineArray(ask, e, t).raised
<1> DEFINE u == Target(t)
           g == DefinedUnder(ask, e, t)
<1>0. Program /\ Inv(e, {}) /\ Typed(ask) /\ Good(ask)
  BY DEF Unit, Going, Ending
<1>1. Refers(t) /\ u \in DOMAIN dies /\ Part(u) /\ Named(t) = Named(u)
  BY <1>0, TargetFacts
<1>2. g \in Emissions
  BY <1>0, <1>1, UnderTyped DEF Step
<1>3. Going(g) /\ t \in g.linked
  BY <1>1, UnderEnds
<1>4. /\ DefineQualified(ask, e, t) = Use(ask, g, u)
      /\ DefineArray(ask, e, t) = IF Named(t) THEN g ELSE Define(ask, g, u)
  BY DEF DefineQualified, DefineArray
<1> HIDE DEF g
<1>5. Known(g, u)
  BY <1>0, <1>2, <1>3, LinkedKnown DEF Going
<1>6. ASSUME u \in Definable(R) PROVE ~Use(ask, g, u).raised
  BY <1>1, <1>2, <1>3, <1>5, <1>6, UseEnds DEF Part, Sayable, Going
<1>7. EndDefine(R, g, u, Define(ask, g, u))
  BY <1>1, <1>2, EndingCalls
<1>8. ASSUME u \in Definable(R) PROVE ~Define(ask, g, u).raised
  BY <1>3, <1>5, <1>7, <1>8 DEF EndDefine, Known
<1> QED BY <1>3, <1>4, <1>6, <1>8 DEF Going

LEMMA ReferModifierEnds ==
  ASSUME Unit, NEW R, NEW ask, Ending(ask, R), NEW e \in Emissions, Going(e),
         NEW t \in DOMAIN dies, Modifier(t), Known(e, t), Target(t) \in Sayable(R),
         NEW f \in {ReferQualified(ask, e, t), ReferArray(ask, e, t), ReferPointer(ask, e, t)}
  PROVE  ~f.raised
<1> DEFINE u == Target(t)
<1>0. Program /\ Inv(e, {})
  BY DEF Unit, Going
<1>1. u \in DOMAIN dies /\ Part(u)
  BY <1>0, TargetFacts
<1>2. t \in e.linked
  BY DEF Known, Reached
<1>3. f = Use(ask, e, u)
  BY <1>2 DEF ReferQualified, ReferArray, ReferPointer, LinkDefined, LinkDeclared
<1>4. Known(e, u)
  BY <1>0, <1>2, LinkedKnown
<1> QED BY <1>1, <1>3, <1>4, UseEnds DEF Part, Going

LEMMA EmitRefOrDefnEnds ==
  ASSUME Unit, NEW R, NEW ask, Ending(ask, R), NEW e \in Emissions, Going(e),
         NEW t \in DOMAIN dies, Refers(t), Known(e, Target(t)), Target(t) \in Sayable(R)
  PROVE  ~EmitRefOrDefn(ask, e, t).raised
<1> DEFINE u == Target(t)
           r == Touch(ask, e, u)
           g == Define(ask, r, u)
<1>0. /\ Program /\ Inv(e, {}) /\ u \in Declarable(R)
      /\ ~Named(u) => u \in Definable(R)
  BY DEF Unit, Going, Ending, Rooms, Sayable
<1>1. u \in DOMAIN dies /\ Part(u)
  BY <1>0, RefersFacts
<1>2. r \in Emissions /\ GoodTouch(e, u, r) /\ EndTouch(R, e, u, r)
  BY <1>1, EndingCalls
<1>3. EmitRefOrDefn(ask, e, t) = IF Named(u) THEN Refer(ask, r, u) ELSE Setting(g, u, "DONE")
  BY DEF EmitRefOrDefn, Setting
<1> HIDE DEF r, u
<1>4. r = e
  BY <1>0, <1>2 DEF GoodTouch, EndTouch, Known, Going, u
<1>5. ASSUME Named(u) PROVE ~Refer(ask, r, u).raised
  <2>1. EndRefer(R, e, u, Refer(ask, e, u))
    BY <1>1, EndingCalls
  <2>2. Referable(e, u)
    BY <1>0, <1>1, <1>5, InnermostFacts DEF Referable, Modifier, Modifiers, Part
  <2> QED BY <1>0, <1>4, <2>1, <2>2 DEF EndRefer, u
<1>6. g \in Emissions /\ EndDefine(R, e, u, g)
  BY <1>1, <1>4, EndingCalls
<1> HIDE DEF g
<1>7. ~Named(u) => ~g.raised
  BY <1>0, <1>6 DEF EndDefine, Known, u
<1>8. ~Named(u) => ~Setting(g, u, "DONE").raised
  <2>1. "DONE" \in Statuses
    BY DEF Statuses
  <2> QED BY <1>1, <1>6, <1>7, <2>1, SettingFacts
<1> QED BY <1>3, <1>5, <1>8

\* A typedef is set before its text is put together.
LEMMA TypedefEnds ==
  ASSUME Unit, NEW R, NEW ask, Ending(ask, R), NEW e \in Emissions, Going(e),
         NEW t \in DOMAIN dies, Kind(t) = "typedef", Target(t) \in Sayable(R)
  PROVE  /\ Target(t) \in Definable(R) => ~DefineTypedef(ask, e, t).raised
         /\ Simple(t) /\ e.status[t] = "NEW" => ~DeclareTypedef(ask, e, t).raised
<1> DEFINE u == Target(t)
           c == DeclaredUnder(ask, e, t)
           d == DefinedUnder(ask, e, t)
<1>0. Program /\ Inv(e, {}) /\ Typed(ask) /\ Good(ask)
  BY DEF Unit, Going, Ending
<1>1. /\ Refers(t) /\ u \in DOMAIN dies /\ t \notin Tagged
      /\ (u \in Definable(R) => Below(R, t))
  BY <1>0, RefersFacts DEF Refers, Below
<1>2. c \in Emissions /\ d \in Emissions
  BY <1>0, <1>1, UnderTyped DEF Step
<1>3. /\ DeclareTypedef(ask, e, t) = EmitRefOrDefn(ask, Setting(c, t, "DECLARED"), t)
      /\ DefineTypedef(ask, e, t) = EmitRefOrDefn(ask, Setting(d, t, "DONE"), t)
  BY DEF DeclareTypedef, DefineTypedef, Setting
<1> HIDE DEF c, d
<1>4. ASSUME NEW g \in {c, d}, NEW s \in {"DECLARED", "DONE"}, ~g.raised, t \in g.linked, Inv(Setting(g, t, s), {})
      PROVE  ~EmitRefOrDefn(ask, Setting(g, t, s), t).raised
  <2> DEFINE h == Setting(g, t, s)
  <2>1. h \in Emissions /\ h.raised = g.raised /\ h.linked = g.linked
    <3>1. s \in Statuses /\ g \in Emissions
      BY <1>2 DEF Statuses
    <3> QED BY <3>1, SettingFacts
  <2>2. Going(h)
    BY <1>4, <2>1 DEF Going
  <2> HIDE DEF h
  <2>3. Known(h, u)
    BY <1>0, <1>4, <2>1, <2>2, LinkedKnown DEF Going
  <2>4. ~EmitRefOrDefn(ask, h, t).raised
    BY <1>1, <2>1, <2>2, <2>3, EmitRefOrDefnEnds
  <2> QED BY <2>4 DEF h
<1>5. ASSUME u \in Definable(R) PROVE ~DefineTypedef(ask, e, t).raised
  <2>1. Going(d) /\ t \in d.linked
    BY <1>1, <1>5, UnderEnds DEF d
  <2>2. Named(u) /\ Straight(u) /\ ~Opaque(u) => Done(d, u)
    BY <1>0, <1>1, <2>1, UnderGood DEF d, Going
  <2>3. Complete(d, u)
    BY <1>0, <1>1, <1>2, <2>1, <2>2, CompleteBy DEF Going
  <2>4. Inv(Setting(d, t, "DONE"), {t})
    BY <1>0, <1>2, <2>1, <2>3, SettingDoneKeeps DEF Going
  <2>5. Inv(Setting(d, t, "DONE"), {})
    BY <1>1, <2>4, InvExempt
  <2> QED BY <1>3, <1>4, <2>1, <2>5 DEF Going
<1>6. ASSUME Simple(t), e.status[t] = "NEW" PROVE ~DeclareTypedef(ask, e, t).raised
  <2>1. Going(c) /\ t \in c.linked
    BY <1>1, <1>6, UnderEnds DEF c
  <2>2. Grow(e, c, {Innermost(u)})
    BY <1>0, <1>1, <1>6, <2>1, UnderGood DEF c, Going
  <2>3. Inv(Setting(c, t, "DECLARED"), {})
    BY <1>0, <1>2, <1>6, <2>1, <2>2, SettingTypedefKeeps DEF Going
  <2> QED BY <1>3, <1>4, <2>1, <2>3 DEF Going
<1> QED BY <1>5, <1>6

-----------------------------------------------------------------------------
(* Nor what structs and functions ask for *)

LEMMA EachEnds ==
  ASSUME NEW step, NEW ts \in Seq(DOMAIN dies), NEW e \in Emissions, Going(e),
         \A y \in Emissions, m \in Range(ts) :
           Step(y, step[<<y, m>>]) /\ (Going(y) => Going(step[<<y, m>>]))
  PROVE  Going(Each(step, e, ts))
<1> DEFINE Q == {q \in Emissions \X SUBSET DOMAIN dies : Going(q[1])}
<1>1. <<e, {}>> \in Q
  OBVIOUS
<1>2. Range(ts) \subseteq DOMAIN dies
  <2>1. \A i \in DOMAIN ts : ts[i] \in DOMAIN dies
    OBVIOUS
  <2> QED BY <2>1 DEF Range
<1>3. ASSUME NEW y, NEW T, NEW t \in Range(ts), <<y, T>> \in Q
      PROVE  <<step[<<y, t>>], T \cup {t}>> \in Q
  <2> DEFINE f == step[<<y, t>>]
  <2>1. y \in Emissions /\ T \in SUBSET DOMAIN dies /\ Going(y) /\ t \in DOMAIN dies
    BY <1>2, <1>3
  <2>2. f \in Emissions /\ Going(f)
    BY <2>1 DEF Step
  <2> HIDE DEF f
  <2> QED BY <2>1, <2>2 DEF f
<1> HIDE DEF Q
<1>4. <<Each(step, e, ts), Range(ts)>> \in Q
  BY <1>1, <1>3, EachKeeps
<1> QED BY <1>4 DEF Q

LEMMA MemberEnds ==
  ASSUME Unit, NEW R, NEW ask, Ending(ask, R), NEW e \in Emissions, Going(e),
         NEW m \in DOMAIN dies, m \in Definable(R), Part(m)
  PROVE  Going(Member(ask, e, m))
<1> DEFINE d == Made(e, m)
           g == IF Named(m) THEN DependDefine(ask, d, m) ELSE Touch(ask, d, m)
<1>0. Program /\ Typed(ask) /\ Good(ask) /\ m \in Declarable(R)
  BY DEF Unit, Ending, Rooms
<1>1. Member(ask, e, m) = Use(ask, g, m)
  BY DEF Member
<1>2. d \in Emissions /\ Going(d)
  BY MadeGoing
<1> HIDE DEF d
<1>3. /\ Touch(ask, d, m) \in Emissions /\ GoodTouch(d, m, Touch(ask, d, m))
      /\ EndTouch(R, d, m, Touch(ask, d, m))
      /\ DependDefine(ask, d, m) \in Emissions
  BY <1>0, <1>2, EndingCalls, DependTyped DEF Step
<1>4. g \in Emissions /\ Going(g) /\ Known(g, m)
  <2>1. CASE Named(m)
    BY <1>2, <1>3, <2>1, DependDefineEnds
  <2>2. CASE ~Named(m)
    BY <1>0, <1>2, <1>3, <2>2 DEF GoodTouch, EndTouch, Known, Going
  <2> QED BY <2>1, <2>2
<1> HIDE DEF g
<1> QED BY <1>1, <1>4, UseEnds DEF Part, Sayable

LEMMA ArgumentEnds ==
  ASSUME Unit, NEW R, NEW ask, Ending(ask, R), NEW e \in Emissions, Going(e),
         NEW a \in DOMAIN dies, a \in Definable(R), Part(a), Kind(a) \in {"struct", "enum"} => dies[a].named
  PROVE  Going(Argument(ask, e, a))
<1> DEFINE d == Made(e, a)
           g == DependDefine(ask, d, a)
           f == Refer(ask, g, a)
<1>0. Program /\ Typed(ask) /\ Good(ask) /\ a \in Sayable(R)
  BY DEF Unit, Ending, Sayable
<1>1. Argument(ask, e, a) = f
  BY DEF Argument
<1>2. d \in Emissions /\ Going(d)
  BY MadeGoing
<1> HIDE DEF d
<1>3. g \in Emissions /\ Going(g) /\ Known(g, a)
  BY <1>0, <1>2, DependDefineEnds, DependTyped DEF Step
<1> HIDE DEF g
<1>4. GoodRefer(g, a, f) /\ EndRefer(R, g, a, f)
  BY <1>3, EndingCalls
<1> HIDE DEF f
<1> QED BY <1>0, <1>1, <1>3, <1>4 DEF GoodRefer, EndRefer, Referable, Part, Going

LEMMA DefineStructEnds ==
  ASSUME Unit, NEW R, NEW ask, Ending(ask, R), NEW e \in Emissions, Going(e),
         NEW t \in DOMAIN dies, Kind(t) = "struct", Range(dies[t].of) \subseteq Definable(R)
  PROVE  ~DefineStruct(ask, e, t).raised
<1> DEFINE member == [p \in Emissions \X DOMAIN dies |-> Member(ask, p[1], p[2])]
           g == Each(member, e, dies[t].of)
<1>0. Program /\ Typed(ask) /\ Good(ask) /\ ~e.raised
  BY DEF Unit, Ending, Going
<1>1. /\ dies[t].of \in Seq(DOMAIN dies) /\ Range(dies[t].of) \subseteq DOMAIN dies
      /\ \A m \in Range(dies[t].of) : Part(m)
  BY EntryFacts DEF Program, Part, Unit
<1>2. \A y \in Emissions, m \in DOMAIN dies : member[<<y, m>>] = Member(ask, y, m)
  OBVIOUS
<1>3. Members(ask, e, t) = IF t \in e.filled THEN e ELSE Filling(g, t)
  BY DEF Members, Filling
<1> HIDE DEF member
<1>4. \A y \in Emissions, m \in DOMAIN dies : Step(y, member[<<y, m>>])
  BY <1>0, <1>2, MemberTyped
<1>5. g \in Emissions
  BY <1>1, <1>4, EachTyped DEF Step
<1>6. Going(g)
  <2>1. ASSUME NEW y \in Emissions, NEW m \in Range(dies[t].of)
        PROVE  Step(y, member[<<y, m>>]) /\ (Going(y) => Going(member[<<y, m>>]))
    <3>1. m \in DOMAIN dies /\ m \in Definable(R) /\ Part(m)
      BY <1>1
    <3> QED BY <1>2, <1>4, <3>1, MemberEnds
  <2> QED BY <1>1, <2>1, EachEnds
<1> HIDE DEF g
<1>7. Members(ask, e, t) \in Emissions /\ ~Members(ask, e, t).raised
  BY <1>0, <1>3, <1>5, <1>6, FillingFacts DEF Going
<1>8. DefineStruct(ask, e, t) = Setting(Members(ask, e, t), t, "DONE")
  BY DEF DefineStruct, Setting
<1>9. "DONE" \in Statuses
  BY DEF Statuses
<1> QED BY <1>7, <1>8, <1>9, SettingFacts

LEMMA FunctionEnds ==
  ASSUME Unit, NEW R, NEW ask, Ending(ask, R), NEW e \in Emissions, Going(e),
         NEW t \in DOMAIN dies, Kind(t) = "function", Range(dies[t].of) \subseteq Definable(R)
  PROVE  ~DeclareFunction(ask, e, t).raised
<1> DEFINE u == Target(t)
           argument == [p \in Emissions \X DOMAIN dies |-> Argument(ask, p[1], p[2])]
           d == Made(e, u)
           r == DependDefine(ask, d, u)
           g == Each(argument, r, Tail(dies[t].of))
           s == Setup(ask, e, t)
           f == Refer(ask, s, u)
<1>0. Program /\ Typed(ask) /\ Good(ask) /\ Inv(e, {}) /\ ~e.raised
  BY DEF Unit, Ending, Going
<1>1. /\ u \in DOMAIN dies /\ Tail(dies[t].of) \in Seq(DOMAIN dies)
      /\ Range(dies[t].of) = {u} \cup Range(Tail(dies[t].of)) /\ Range(dies[t].of) \subseteq DOMAIN dies
      /\ \A m \in Range(dies[t].of) : Part(m)
  BY EntryFacts DEF Program, Part, Unit
<1>2. \A y \in Emissions, m \in DOMAIN dies : argument[<<y, m>>] = Argument(ask, y, m)
  OBVIOUS
<1>3. s = IF t \in e.filled THEN e ELSE Filling(g, t)
  BY DEF Setup, Arguments, ReturnType, Filling
<1> HIDE DEF argument, u, s
<1>4. d \in Emissions /\ Going(d)
  BY <1>1, MadeGoing
<1> HIDE DEF d
<1>5. r \in Emissions /\ Going(r)
  BY <1>0, <1>1, <1>4, DependDefineEnds, DependTyped DEF Step
<1> HIDE DEF r
<1>6. \A y \in Emissions, m \in DOMAIN dies : Step(y, argument[<<y, m>>])
  BY <1>0, <1>2, ArgumentTyped
<1>7. g \in Emissions
  BY <1>1, <1>5, <1>6, EachTyped DEF Step
<1>8. Going(g)
  <2>1. ASSUME NEW y \in Emissions, NEW m \in Range(Tail(dies[t].of))
        PROVE  Step(y, argument[<<y, m>>]) /\ (Going(y) => Going(argument[<<y, m>>]))
    <3>1. m \in DOMAIN dies /\ m \in Definable(R) /\ Part(m) /\ m \in Range(dies[t].of)
      BY <1>1
    <3>2. Kind(m) \in {"struct", "enum"} => dies[m].named
      BY <3>1 DEF Unit, PassedByName
    <3> QED BY <1>2, <1>6, <3>1, <3>2, ArgumentEnds
  <2> QED BY <1>1, <1>5, <2>1, EachEnds
<1> HIDE DEF g
<1>9. s \in Emissions /\ ~s.raised
  BY <1>0, <1>3, <1>7, <1>8, FillingFacts DEF Going
<1>10. Inv(s, {}) /\ t \in s.filled
  BY <1>0, <1>9, SetupGood DEF s
<1>11. Known(s, u)
  BY <1>1, <1>10 DEF Inv, PartsReady, Fit
<1>12. Referable(s, u)
  BY <1>1 DEF Referable, Part, Unit, PassedByName
<1>13. f \in Emissions /\ EndRefer(R, s, u, f)
  BY <1>1, <1>9, EndingCalls
<1>14. DeclareFunction(ask, e, t) = Setting(f, t, "DONE") /\ "DONE" \in Statuses
  BY DEF DeclareFunction, Setting, Statuses, s, u
<1> HIDE DEF f
<1>15. ~f.raised
  BY <1>1, <1>9, <1>10, <1>11, <1>12, <1>13 DEF EndRefer, Going, Sayable
<1> QED BY <1>13, <1>14, <1>15, SettingFacts

-----------------------------------------------------------------------------
(* Whatever is asked, with calls enough left *)

LEMMA TouchedEnds ==
  ASSUME Unit, NEW R, NEW ask, Ending(ask, R), NEW P \in Rooms, Above(P, R),
         NEW e \in Emissions, NEW t \in DOMAIN dies
  PROVE  EndTouch(P, e, t, Touched(ask, e, t))
<1> DEFINE u == Target(t)
           l == LinkDeclared(ask, e, t)
           f == Touched(ask, e, t)
<1> SUFFICES ASSUME Going(e), t \in Declarable(P) PROVE ~f.raised
  BY DEF EndTouch
<1>0. Program /\ Typed(ask) /\ Good(ask) /\ R \in Rooms
  BY DEF Unit, Ending
<1>1. CASE ~Modifier(t)
  BY <1>1 DEF Touched, Going
<1>2. CASE Modifier(t)
  <2>1. f = Touch(ask, l, u)
    BY <1>2 DEF Touched
  <2>2. Refers(t) /\ u \in DOMAIN dies /\ Simple(t)
    BY <1>0, <1>2, TargetFacts DEF Simple, Modifier, Modifiers
  <2>3. u \in Declarable(R)
    BY <1>0, <2>2, TargetAsked
  <2>4. l \in Emissions /\ Going(l)
    BY <1>0, <2>2, <2>3, LinkTyped, LinkEnds DEF Step
  <2> HIDE DEF l
  <2>5. EndTouch(R, l, u, Touch(ask, l, u))
    BY <2>2, <2>4, EndingCalls
  <2> QED BY <2>1, <2>3, <2>4, <2>5 DEF EndTouch
<1> QED BY <1>1, <1>2

LEMMA DeclaredEnds ==
  ASSUME Unit, NEW R, NEW ask, Ending(ask, R), NEW P \in Rooms, Above(P, R),
         NEW e \in Emissions, NEW t \in DOMAIN dies
  PROVE  EndDeclare(P, e, t, Declared(ask, e, t))
<1> DEFINE f == Declared(ask, e, t)
<1> SUFFICES ASSUME Going(e), t \in Declarable(P), ~Modifier(t), Named(t), Kind(t) # "function",
                    e.status[t] = "NEW", Simple(t)
             PROVE  ~f.raised
  BY DEF EndDeclare
<1>0. Program /\ R \in Rooms /\ ~e.raised
  BY DEF Unit, Ending, Going
<1>1. Kind(t) \in {"base", "unknown", "declared", "struct", "enum", "typedef"}
  BY <1>0, EntryFacts DEF Program, Kinds, Modifier
<1>2. CASE Kind(t) # "typedef"
  <2>1. PICK s \in {"DECLARED", "DONE"} : f = Setting(e, t, s)
    BY <1>1, <1>2, DeclaredCases DEF DeclareStruct, DefineEnum, DeclareBase, Setting
  <2>2. s \in Statuses
    BY DEF Statuses
  <2> QED BY <1>0, <2>1, <2>2, SettingFacts
<1>3. CASE Kind(t) = "typedef"
  <2>1. f = DeclareTypedef(ask, e, t)
    BY <1>3, DeclaredCases
  <2>2. Target(t) \in Sayable(R)
    BY <1>0, <1>3, TargetAsked DEF Refers
  <2> QED BY <1>3, <2>1, <2>2, TypedefEnds
<1> QED BY <1>2, <1>3

LEMMA DefinedEnds ==
  ASSUME Unit, NEW R, NEW ask, Ending(ask, R), NEW P \in Rooms, Above(P, R),
         NEW e \in Emissions, NEW t \in DOMAIN dies
  PROVE  EndDefine(P, e, t, Defined(ask, e, t))
<1> DEFINE f == Defined(ask, e, t)
<1> SUFFICES ASSUME Going(e), t \in Definable(P), Reached(e, t) PROVE ~f.raised
  BY DEF EndDefine
<1>0. Program /\ R \in Rooms /\ ~e.raised
  BY DEF Unit, Ending, Going
<1>1. Kind(t) \in Kinds
  BY <1>0, EntryFacts DEF Program
<1>2. CASE Kind(t) \in {"base", "unknown", "declared", "enum"}
  <2>1. PICK s \in {"DECLARED", "DONE"} : f = Setting(e, t, s)
    BY <1>2, DefinedCases DEF DefineStruct, DeclareStruct, DefineEnum, DeclareBase, Setting
  <2>2. s \in Statuses
    BY DEF Statuses
  <2> QED BY <1>0, <2>1, <2>2, SettingFacts
<1>3. CASE Kind(t) = "struct"
  BY <1>0, <1>3, DefinedCases, PartsAsked, DefineStructEnds
<1>4. CASE Kind(t) = "function"
  BY <1>0, <1>4, DefinedCases, PartsAsked, FunctionEnds
<1>5. CASE Kind(t) = "typedef"
  <2>1. Target(t) \in Definable(R)
    BY <1>0, <1>5, TargetAsked DEF Refers
  <2>2. Target(t) \in Sayable(R)
    BY <2>1 DEF Sayable
  <2> QED BY <1>5, <2>1, <2>2, DefinedCases, TypedefEnds
<1>6. CASE Modifier(t)
  <2>1. f = IF Kind(t) = "qualified" THEN DefineQualified(ask, e, t) ELSE DefineArray(ask, e, t)
    BY <1>6, DefinedCases DEF DefinePointer, Modifier, Modifiers
  <2>2. Below(R, t) /\ (Kind(t) # "pointer" \/ ~Named(t) => Target(t) \in Definable(R))
    BY <1>0, <1>6, TargetAsked DEF Refers
  <2> HIDE DEF f
  <2> QED BY <1>6, <2>1, <2>2, DefineModifierEnds DEF f
<1> QED BY <1>1, <1>2, <1>3, <1>4, <1>5, <1>6 DEF Kinds, Modifier

LEMMA ReferredEnds ==
  ASSUME Unit, NEW R, NEW ask, Ending(ask, R), NEW P \in Rooms, Above(P, R),
         NEW e \in Emissions, NEW t \in DOMAIN dies
  PROVE  EndRefer(P, e, t, Referred(ask, e, t))
<1> DEFINE f == Referred(ask, e, t)
<1> SUFFICES ASSUME Going(e), t \in Sayable(P), Known(e, t), Referable(e, t) PROVE ~f.raised
  BY DEF EndRefer
<1>0. Program /\ R \in Rooms /\ ~e.raised /\ Inv(e, {})
  BY DEF Unit, Ending, Going
<1>1. Kind(t) \in Kinds
  BY <1>0, EntryFacts DEF Program
<1>2. CASE Kind(t) \in {"base", "unknown", "declared", "struct", "enum"}
  BY <1>0, <1>2, ReferredCases
<1>3. CASE Kind(t) = "function"
  <2>1. t \in Definable(P)
    BY <1>3 DEF Sayable
  <2> QED BY <1>0, <1>3, <2>1, ReferredCases, PartsAsked, FunctionEnds
<1>4. CASE Kind(t) = "typedef"
  <2>1. ~Modifier(t) /\ dies[t].named
    BY <1>0, <1>4, EntryFacts DEF Program, Modifier, Modifiers
  <2>2. Named(t) /\ Status(e, t) = e.status[t]
    BY <1>0, <2>1, InnermostFacts DEF Status
  <2>3. t \in e.linked
    BY <1>0, <1>4, <2>2 DEF Known, Inv, TypedefsLinked
  <2>4. f = e
    BY <1>4, <2>3, ReferredCases DEF ReferTypedef, LinkDefined
  <2> QED BY <1>0, <2>4
<1>5. CASE Modifier(t)
  <2>1. f \in {ReferQualified(ask, e, t), ReferArray(ask, e, t), ReferPointer(ask, e, t)}
    BY <1>5, ReferredCases DEF Modifier, Modifiers
  <2>2. Target(t) \in Sayable(R)
    BY <1>0, <1>5, TargetAsked DEF Refers
  <2> QED BY <1>5, <2>1, <2>2, ReferModifierEnds
<1> QED BY <1>1, <1>2, <1>3, <1>4, <1>5 DEF Kinds, Modifier

LEMMA LevelEnds ==
  ASSUME Unit, NEW ask, NEW n \in Nat, n = 0 \/ (Typed(ask) /\ Good(ask)), NEW P \in Rooms,
         P = {} \/ (n # 0 /\ \E R : Ending(ask, R) /\ Above(P, R))
  PROVE  Ending(Level(ask, n), P)
<1>1. Typed(Level(ask, n)) /\ Good(Level(ask, n))
  BY LevelGood
<1>2. ASSUME NEW e \in Emissions, NEW t \in DOMAIN dies
      PROVE  /\ EndTouch(P, e, t, Touch(Level(ask, n), e, t))
             /\ EndDeclare(P, e, t, Declare(Level(ask, n), e, t))
             /\ EndDefine(P, e, t, Define(Level(ask, n), e, t))
             /\ EndRefer(P, e, t, Refer(Level(ask, n), e, t))
  <2>1. CASE P = {}
    <3>1. Definable(P) = {} /\ Declarable(P) = {} /\ Sayable(P) = {}
      BY <2>1 DEF Definable, Declarable, Sayable
    <3> QED BY <3>1 DEF EndTouch, EndDeclare, EndDefine, EndRefer
  <2>2. CASE n # 0 /\ \E R : Ending(ask, R) /\ Above(P, R)
    <3>1. PICK R : Ending(ask, R) /\ Above(P, R)
      BY <2>2
    <3> DEFINE L == Level(ask, n)
    <3>2. \A what \in Questions : ~e.raised /\ ~Answer(ask, what, e, t).raised => ~L[<<what, e, t>>].raised
      BY <2>2, LevelGives
    <3> HIDE DEF L
    <3>3. "touch" \in Questions /\ "declare" \in Questions /\ "define" \in Questions /\ "refer" \in Questions
      BY DEF Questions
    <3>4. Going(e) => ~e.raised
      BY DEF Going
    <3>5. EndTouch(P, e, t, L[<<"touch", e, t>>])
      BY <3>1, <3>2, <3>3, <3>4, TouchedEnds, AnswerCases DEF EndTouch
    <3>6. EndDeclare(P, e, t, L[<<"declare", e, t>>])
      BY <3>1, <3>2, <3>3, <3>4, DeclaredEnds, AnswerCases DEF EndDeclare
    <3>7. EndDefine(P, e, t, L[<<"define", e, t>>])
      BY <3>1, <3>2, <3>3, <3>4, DefinedEnds, AnswerCases DEF EndDefine
    <3>8. EndRefer(P, e, t, L[<<"refer", e, t>>])
      BY <3>1, <3>2, <3>3, <3>4, ReferredEnds, AnswerCases DEF EndRefer
    <3> QED BY <3>5, <3>6, <3>7, <3>8 DEF Touch, Declare, Define, Refer, L
  <2> QED BY <2>1, <2>2
<1> QED BY <1>1, <1>2 DEF Ending

-----------------------------------------------------------------------------
(* How many calls within calls a unit comes to *)

\* Numbers up to k for the questions, lower for what is one step further.
Ranks(next, k) ==
  {r \in [DOMAIN next -> 1 .. k] : \A q \in DOMAIN next : \A p \in next[q] : r[p] < r[q]}

Asks == [q \in Wanted |-> Asked(q)]

\* Do the questions of the unit come, in so many steps, down to what asks for
\* nothing?
NestedWithin(n) == Ranks(Asks, n) # {}

RoomAt(r, n) == {q \in Wanted : r[q] <= n}

LEMMA RoomsAbove ==
  ASSUME Program, NEW k \in Nat, NEW r \in Ranks(Asks, k), NEW n \in Nat
  PROVE  /\ RoomAt(r, n) \in Rooms
         /\ n = 0 => RoomAt(r, n) = {}
         /\ n # 0 => Above(RoomAt(r, n), RoomAt(r, n - 1))
         /\ k <= n => Definable(RoomAt(r, n)) = DOMAIN dies
<1>1. /\ \A q \in Wanted : r[q] \in 1 .. k
      /\ \A q \in Wanted : \A p \in Asked(q) : p \in Wanted /\ r[p] < r[q]
  <2>1. r \in [Wanted -> 1 .. k] /\ \A q \in Wanted : \A p \in Asked(q) : r[p] < r[q]
    BY DEF Ranks, Asks
  <2> QED BY <2>1, AskedWanted
<1>2. RoomAt(r, n) \in Rooms
  <2> SUFFICES ASSUME NEW t \in Definable(RoomAt(r, n)) PROVE t \in Declarable(RoomAt(r, n))
    BY DEF Rooms, RoomAt
  <2> DEFINE p == <<t, "declare">>
             q == <<t, "define">>
  <2>1. t \in DOMAIN dies /\ q \in Wanted /\ r[q] <= n
    BY DEF Definable, RoomAt
  <2>2. p \in Asked(q)
    BY <2>1, AskedFacts DEF ToDefine
  <2> HIDE DEF p, q
  <2>3. p \in Wanted /\ r[p] <= n
    <3>1. p \in Wanted /\ r[p] < r[q] /\ r[p] \in 1 .. k /\ r[q] \in 1 .. k
      BY <1>1, <2>1, <2>2
    <3> QED BY <2>1, <3>1
  <2> QED BY <2>1, <2>3 DEF Declarable, RoomAt, p
<1>3. n = 0 => RoomAt(r, n) = {}
  BY <1>1 DEF RoomAt
<1>4. ASSUME n # 0, NEW q \in RoomAt(r, n) PROVE Asked(q) \subseteq RoomAt(r, n - 1)
  <2>1. q \in Wanted /\ r[q] <= n /\ r[q] \in 1 .. k
    BY <1>1 DEF RoomAt
  <2>2. \A p \in Asked(q) : p \in Wanted /\ r[p] < r[q] /\ r[p] \in 1 .. k
    BY <1>1, <2>1
  <2>3. \A p \in Asked(q) : p \in Wanted /\ r[p] <= n - 1
    BY <2>1, <2>2
  <2> QED BY <2>3 DEF RoomAt
<1>5. ASSUME k <= n PROVE Definable(RoomAt(r, n)) = DOMAIN dies
  <2>1. \A q \in Wanted : r[q] <= n
    BY <1>1, <1>5
  <2>2. RoomAt(r, n) = Wanted
    BY <2>1 DEF RoomAt
  <2> QED BY <2>2, AllClosed
<1> QED BY <1>2, <1>3, <1>4, <1>5 DEF Above

LEMMA AnswersEnd ==
  ASSUME Unit, NestedWithin(RecursionLimit)
  PROVE  \E R : Ending(Answers, R) /\ Definable(R) = DOMAIN dies
<1>0. Program /\ RecursionLimit \in Nat
  BY EmissionAssumption DEF Unit
<1>1. PICK r \in Ranks(Asks, RecursionLimit) : TRUE
  BY DEF NestedWithin
<1> DEFINE Rm(n) == RoomAt(r, n)
           A == [Questions \X Emissions \X DOMAIN dies -> Emissions]
           Q == [n \in Nat |-> {ask \in A : Ending(ask, Rm(n))}]
<1>3. \A n \in Nat : Rm(n) \in Rooms /\ (n = 0 => Rm(n) = {}) /\ (n # 0 => Above(Rm(n), Rm(n - 1)))
  BY <1>0, <1>1, RoomsAbove
<1>4. Definable(Rm(RecursionLimit)) = DOMAIN dies
  BY <1>0, <1>1, RoomsAbove
<1> HIDE DEF Rm
<1>5. \A n \in Nat : Q[n] = {ask \in A : Ending(ask, Rm(n))}
  OBVIOUS
<1> HIDE DEF Q
<1>6. ASSUME NEW ask, NEW n \in Nat, n = 0 \/ ask \in Q[n - 1] PROVE Level(ask, n) \in Q[n]
  <2>1. n = 0 \/ (n - 1 \in Nat /\ Ending(ask, Rm(n - 1)))
    BY <1>5, <1>6
  <2>2. n = 0 \/ (Typed(ask) /\ Good(ask))
    BY <2>1 DEF Ending
  <2>3. Level(ask, n) \in A
    BY <2>2, LevelGood
  <2>4. Ending(Level(ask, n), Rm(n))
    <3>1. Rm(n) = {} \/ (n # 0 /\ \E R : Ending(ask, R) /\ Above(Rm(n), R))
      BY <1>3, <2>1
    <3> QED BY <1>3, <2>2, <3>1, LevelEnds
  <2> QED BY <1>5, <2>3, <2>4
<1>7. Answers \in Q[RecursionLimit]
  BY <1>6, LevelInduction
<1> QED BY <1>0, <1>4, <1>5, <1>7

\* What holds no cycle has ranks: how much can be reached from each.
LEMMA AcyclicRanks ==
  ASSUME NEW next, Acyclic(next), IsFiniteSet(DOMAIN next), \A t \in DOMAIN next : next[t] \subseteq DOMAIN next
  PROVE  Ranks(next, Cardinality(DOMAIN next)) # {}
<1> DEFINE D == DOMAIN next
           N == Cardinality(D)
           Shut(S) == S \in SUBSET D /\ \A t \in S : next[t] \subseteq S
           Reach(t) == {u \in D : \A S \in SUBSET D : Shut(S) /\ t \in S => u \in S}
<1>1. \A t \in D : Shut(Reach(t)) /\ t \in Reach(t) /\ Reach(t) \subseteq D
  OBVIOUS
<1>2. ASSUME NEW t \in D, NEW S \in SUBSET D, Shut(S), t \in S PROVE Reach(t) \subseteq S
  BY <1>2
<1> HIDE DEF Reach
<1>3. ASSUME NEW v \in D, NEW t \in Reach(v), v # t PROVE \E w \in next[v] : t \in Reach(w)
  <2> SUFFICES ASSUME \A w \in next[v] : t \notin Reach(w) PROVE FALSE
    OBVIOUS
  <2> DEFINE S == {v} \cup UNION {Reach(w) : w \in next[v]}
  <2>1. \A w \in next[v] : w \in D /\ w \in Reach(w) /\ Reach(w) \subseteq D /\ Shut(Reach(w))
    BY <1>1
  <2>2. \A x \in S : x = v \/ \E w \in next[v] : x \in Reach(w)
    OBVIOUS
  <2>3. S \in SUBSET D /\ v \in S /\ next[v] \subseteq S /\ \A w \in next[v] : Reach(w) \subseteq S
    BY <2>1
  <2>4. t \notin S
    BY <1>3, <2>2
  <2> HIDE DEF S
  <2>5. Shut(S)
    BY <2>1, <2>2, <2>3
  <2>6. Reach(v) \subseteq S
    BY <1>2, <2>3, <2>5
  <2> QED BY <1>3, <2>4, <2>6
<1>4. ASSUME NEW t \in D, NEW u \in next[t] PROVE Reach(u) \subseteq Reach(t) /\ t \notin Reach(u)
  <2>1. u \in D /\ u \in Reach(t) /\ Reach(t) \in SUBSET D /\ Shut(Reach(t)) /\ Shut(Reach(u)) /\ u \in Reach(u)
    BY <1>1
  <2>2. Reach(u) \subseteq Reach(t)
    BY <1>2, <2>1
  <2>3. ASSUME t \in Reach(u) PROVE FALSE
    <3> DEFINE C == {v \in Reach(u) : t \in Reach(v)}
    <3>1. ASSUME NEW v \in C PROVE next[v] \cap C # {}
      <4>1. v \in Reach(u) /\ t \in Reach(v) /\ v \in D /\ next[v] \subseteq Reach(u)
        BY <2>1
      <4>2. CASE v = t
        BY <2>1, <2>3, <4>2
      <4>3. CASE v # t
        <5>1. PICK w \in next[v] : t \in Reach(w)
          BY <1>3, <4>1, <4>3
        <5> QED BY <4>1, <5>1
      <4> QED BY <4>2, <4>3
    <3>2. C \in SUBSET D /\ C # {}
      BY <2>1, <2>3
    <3> HIDE DEF C
    <3> QED BY <3>1, <3>2 DEF Acyclic
  <2> QED BY <2>2, <2>3
<1> HIDE DEF Shut
<1> DEFINE r == [t \in D |-> Cardinality(Reach(t))]
<1>5. ASSUME NEW t \in D PROVE IsFiniteSet(Reach(t)) /\ Cardinality(Reach(t)) \in 1 .. N
  <2>1. IsFiniteSet(Reach(t)) /\ Cardinality(Reach(t)) <= N
    BY <1>1, FS_Subset
  <2>2. N \in Nat /\ Cardinality(Reach(t)) \in Nat
    BY <2>1, FS_CardinalityType
  <2>3. Cardinality(Reach(t)) # 0
    BY <1>1, <2>1, FS_EmptySet
  <2> HIDE DEF N
  <2> QED BY <2>1, <2>2, <2>3
<1>6. ASSUME NEW t \in D, NEW u \in next[t] PROVE Cardinality(Reach(u)) < Cardinality(Reach(t))
  <2>1. u \in D /\ Reach(u) \subseteq Reach(t) /\ Reach(u) # Reach(t)
    BY <1>1, <1>4
  <2>2. Cardinality(Reach(u)) <= Cardinality(Reach(t)) /\ Cardinality(Reach(u)) # Cardinality(Reach(t))
    BY <1>5, <2>1, FS_Subset
  <2>3. Cardinality(Reach(u)) \in Nat /\ Cardinality(Reach(t)) \in Nat
    BY <1>5, <2>1, FS_CardinalityType
  <2> QED BY <2>2, <2>3
<1>7. r \in [D -> 1 .. N] /\ \A t \in D : \A u \in next[t] : r[u] < r[t]
  BY <1>5, <1>6
<1> HIDE DEF r, N
<1>8. r \in Ranks(next, N)
  BY <1>7 DEF Ranks
<1> QED BY <1>8 DEF N

\* As many calls as there are types, twice, are enough where nothing is circular.
LEMMA NestedEnough ==
  ASSUME Program, ~Circular, NEW n \in Nat, n >= 2 * Cardinality(DOMAIN dies)
  PROVE  NestedWithin(n)
<1> DEFINE D == DOMAIN dies
           W == {"declare", "define"}
           k == Cardinality(Wanted)
<1>1. IsFiniteSet(D) /\ Cardinality(D) \in Nat
  BY FS_CardinalityType DEF Program, WellFormed
<1>2. IsFiniteSet(Wanted) /\ k \in Nat /\ k <= n
  <2>1. IsFiniteSet(W) /\ Cardinality(W) = 2
    <3>1. IsFiniteSet({"declare"}) /\ Cardinality({"declare"}) = 1
      BY FS_Singleton
    <3>2. "define" \notin {"declare"} /\ W = {"declare"} \cup {"define"}
      OBVIOUS
    <3> QED BY <3>1, <3>2, FS_AddElement
  <2>2. Wanted = D \X W
    BY DEF Wanted
  <2> HIDE DEF D, W
  <2>3. IsFiniteSet(D \X W) /\ Cardinality(D \X W) = Cardinality(D) * Cardinality(W)
    BY <1>1, <2>1, FS_Product
  <2>4. Cardinality(D) * 2 = 2 * Cardinality(D)
    BY <1>1
  <2>5. 2 * Cardinality(D) \in Nat
    BY <1>1
  <2> QED BY <2>1, <2>2, <2>3, <2>4, <2>5 DEF D
<1>3. Ranks(Asks, k) # {}
  <2>1. Acyclic(Asks)
    BY DEF Circular, Asks
  <2>2. DOMAIN Asks = Wanted /\ \A q \in DOMAIN Asks : Asks[q] \subseteq DOMAIN Asks
    BY AskedWanted DEF Asks
  <2> QED BY <1>2, <2>1, <2>2, AcyclicRanks
<1>4. PICK r : r \in Ranks(Asks, k)
  BY <1>3
<1> HIDE DEF k
<1>5. 1 .. k \subseteq 1 .. n
  BY <1>2
<1>6. r \in Ranks(Asks, n)
  BY <1>4, <1>5 DEF Ranks
<1> QED BY <1>6 DEF NestedWithin

-----------------------------------------------------------------------------
(* The rounds end, and so does the loop over the types *)

LEMMA RoundEnds ==
  ASSUME Unit, NEW R, Ending(Answers, R), Definable(R) = DOMAIN dies,
         NEW e \in Emissions, Going(e), NEW t \in NamedEntries
  PROVE  LET d == Made(e, t)
             f == IF Status(d, t) = "DONE" THEN d ELSE Emit(Define(Answers, d, t), t, "define")
         IN  ~f.raised
<1> DEFINE d == Made(e, t)
<1>0. Program /\ t \in DOMAIN dies /\ dies[t].named
  BY DEF Unit, NamedEntries
<1>1. ~Modifier(t)
  BY <1>0, EntryFacts DEF Program
<1>2. d \in Emissions /\ Going(d) /\ Reached(d, t)
  BY <1>0, <1>1, MadeGoing DEF Reached
<1> HIDE DEF d
<1>3. ~Emit(Define(Answers, d, t), t, "define").raised /\ ~d.raised
  BY <1>0, <1>2, DefineEmitEnds DEF Going
<1> QED BY <1>3 DEF d

\* A text that has been looked up is there.
LEMMA UseThere ==
  ASSUME Unit, NEW R, Ending(Answers, R), Definable(R) = DOMAIN dies, NEW e \in Emissions, Going(e),
         NEW t \in DOMAIN dies, Ready(e, t), Kind(t) = "function" /\ dies[t].named => Done(e, t)
  PROVE  Use(Answers, e, t) = e
<1>0. Program /\ Typed(Answers) /\ Good(Answers) /\ Inv(e, {}) /\ Known(e, t) /\ t \in Sayable(R)
  BY DEF Unit, Ending, Going, Ready, Sayable
<1>1. ~Use(Answers, e, t).raised
  BY <1>0, UseEnds DEF Going
<1> QED BY <1>0, <1>1, UseGood

LEMMA GeneratedEnds ==
  ASSUME Unit, NEW R, Ending(Answers, R), Definable(R) = DOMAIN dies, NEW e \in Emissions, Going(e), Settled(e)
  PROVE  Generated(e).e = e
<1> DEFINE generate == [p \in Generations \X DOMAIN dies |->
                          GeneratedFor(p[1].types, Touch(Answers, p[1].e, p[2]), p[2])]
           start == [e |-> e, types |-> {}]
           Q == {q \in Generations \X SUBSET DOMAIN dies : q[1].e = e}
<1>0. Program /\ Inv(e, {}) /\ ~e.raised
  BY DEF Unit, Going
<1>1. <<start, {}>> \in Q
  BY DEF Generations
<1>2. e.made \in Seq(DOMAIN dies) /\ Range(e.made) \subseteq DOMAIN dies
  BY EmissionFacts, RangeMade
<1>3. ASSUME NEW t \in Range(e.made) PROVE Touch(Answers, e, t) = e
  <2>1. t \in DOMAIN dies /\ Reached(e, t) /\ t \in Declarable(R)
    BY <1>2 DEF Settled, Ready, Known, Ending, Rooms
  <2>2. GoodTouch(e, t, Touch(Answers, e, t)) /\ EndTouch(R, e, t, Touch(Answers, e, t))
    BY <2>1, EndingCalls
  <2> QED BY <1>0, <2>1, <2>2 DEF GoodTouch, EndTouch
<1>4. ASSUME NEW t \in Range(e.made), Done(e, t) PROVE Templated(Answers, e, t) = e
  <2>1. t \in DOMAIN dies /\ Ready(e, t)
    BY <1>2 DEF Settled
  <2>2. Use(Answers, e, t) = e
    BY <1>4, <2>1, UseThere
  <2>3. ASSUME Refers(t) PROVE Use(Answers, e, Target(t)) = e
    <3>1. t \in e.linked
      <4>1. Kind(t) = "typedef" => e.status[t] # "NEW"
        BY <1>0, <1>4, <2>1, StatusIn DEF Done, Modifier, Modifiers
      <4> QED BY <1>0, <2>1, <2>3, <4>1 DEF Refers, Ready, Known, Reached, Inv, TypedefsLinked
    <3>2. Target(t) \in Range(e.made) /\ Target(t) \in DOMAIN dies /\ Part(Target(t))
      BY <1>0, <2>1, <2>3, <3>1, LinkedKnown, RefersFacts
    <3> QED BY <3>2, UseThere DEF Settled, Part
  <2> QED BY <2>2, <2>3 DEF Templated, Refers
<1>5. ASSUME NEW y, NEW T, NEW t \in Range(e.made), <<y, T>> \in Q
      PROVE  <<generate[<<y, t>>], T \cup {t}>> \in Q
  <2>1. y \in Generations /\ T \in SUBSET DOMAIN dies /\ y.e = e /\ t \in DOMAIN dies
    BY <1>2, <1>5
  <2> DEFINE g == GeneratedFor(y.types, e, t)
  <2>2. generate[<<y, t>>] = g
    BY <1>3, <2>1
  <2>3. y.types \in SUBSET DOMAIN dies
    BY <2>1 DEF Generations
  <2>4. g.e = e /\ g.types \in SUBSET DOMAIN dies /\ g = [e |-> g.e, types |-> g.types]
    BY <1>4, <2>1, <2>3 DEF GeneratedFor, Done
  <2> HIDE DEF g
  <2>5. g \in Generations
    BY <2>4 DEF Generations
  <2> HIDE DEF generate
  <2> QED BY <2>1, <2>2, <2>4, <2>5
<1>6. Generated(e) = Each(generate, start, e.made)
  BY DEF Generated
<1> HIDE DEF Q, generate, start
<1>7. <<Each(generate, start, e.made), Range(e.made)>> \in Q
  BY <1>1, <1>2, <1>5, EachKeeps
<1> QED BY <1>6, <1>7 DEF Q

\* A target ends early for two reasons only.
EndInv ==
  /\ EmissionInv
  /\ emission.raised => ~NestedWithin(RecursionLimit) \/ \E t \in DOMAIN dies : Kind(t) = "unknown"

LEMMA SameNesting ==
  ASSUME dies' = dies
  PROVE  NestedWithin(RecursionLimit)' = NestedWithin(RecursionLimit)
<1>2. \A q : Asked(q)' = Asked(q)
  BY SameOrder
<1>3. Asks' = Asks
  BY <1>2 DEF Asks, Wanted
<1>4. \A k : Ranks(Asks, k)' = Ranks(Asks, k)
  BY <1>3 DEF Ranks
<1> QED BY <1>4 DEF NestedWithin

LEMMA NamedTypeEnds ==
  ASSUME EmissionInv, NamedType, NestedWithin(RecursionLimit) PROVE ~emission'.raised
<1> DEFINE t == Head(todo)
           d == Made(emission, t)
           f == IF Status(d, t) = "DONE" THEN d ELSE Emit(Define(Answers, d, t), t, "define")
<1>1. Unit /\ Program
  BY UnitFacts
<1>2. emission \in Emissions /\ Going(emission)
  BY DEF EmissionInv, NamedType, Going
<1>3. t \in NamedEntries
  BY <1>1, TodoFacts DEF EmissionInv, NamedType
<1>4. emission' = f
  BY DEF NamedType
<1>5. PICK R : Ending(Answers, R) /\ Definable(R) = DOMAIN dies
  BY <1>1, AnswersEnd
<1>6. ~f.raised
  <2> HIDE DEF t
  <2> QED BY <1>1, <1>2, <1>3, <1>5, RoundEnds
<1> QED BY <1>4, <1>6

LEMMA MutatorsEnd ==
  ASSUME EmissionInv, Mutators, NestedWithin(RecursionLimit)
  PROVE  ~emission'.raised \/ \E t \in DOMAIN dies : Kind(t) = "unknown"
<1>1. Unit /\ Program
  BY UnitFacts
<1>2. emission \in Emissions /\ Going(emission) /\ Settled(emission)
  BY AllSettled DEF EmissionInv, Mutators, Going
<1>3. CASE Unprintable(emission)
  <2>1. PICK i \in DOMAIN emission.header : Kind(emission.header[i].of) = "unknown"
    BY <1>3 DEF Unprintable
  <2>2. emission.header[i] \in Statements
    BY <1>2, <2>1, EmissionFacts
  <2> QED BY <2>1, <2>2 DEF Statements
<1>4. CASE ~Unprintable(emission)
  <2>1. PICK R : Ending(Answers, R) /\ Definable(R) = DOMAIN dies
    BY <1>1, AnswersEnd
  <2> DEFINE s == Generated(emission)
  <2>2. s.e = emission
    BY <1>1, <1>2, <2>1, GeneratedEnds
  <2>3. emission' = [s.e EXCEPT !.raised = @ \/ s.e.made # emission.made]
    BY <1>4 DEF Mutators, Keep
  <2> HIDE DEF s
  <2>4. ~emission.raised
    BY <1>2 DEF Going
  <2>5. emission.raised \in BOOLEAN /\ emission' = [emission EXCEPT !.raised = @ \/ FALSE]
    BY <1>2, <2>2, <2>3, EmissionFacts
  <2> QED BY <1>2, <2>4, <2>5 DEF Emissions
<1> QED BY <1>3, <1>4

LEMMA EndInvariant == Spec => []EndInv
<1>1. ASSUME EndInv, NamedType PROVE EndInv'
  <2>1. EmissionInv' /\ dies' = dies
    BY <1>1, NamedTypeKeeps DEF EndInv, NamedType
  <2>2. emission'.raised => ~NestedWithin(RecursionLimit)
    BY <1>1, NamedTypeEnds DEF EndInv
  <2> QED BY <2>1, <2>2, SameNesting DEF EndInv
<1>2. ASSUME EndInv, Mutators PROVE EndInv'
  <2>1. EmissionInv' /\ dies' = dies
    BY <1>2, MutatorsKeep DEF EndInv, Mutators
  <2>2. emission'.raised => ~NestedWithin(RecursionLimit) \/ \E t \in DOMAIN dies : Kind(t) = "unknown"
    BY <1>2, MutatorsEnd DEF EndInv
  <2>3. (\E t \in DOMAIN dies : Kind(t) = "unknown")' = (\E t \in DOMAIN dies : Kind(t) = "unknown")
    BY <2>1, SameTypes
  <2> QED BY <2>1, <2>2, <2>3, SameNesting DEF EndInv
<1>3. ASSUME EndInv, UNCHANGED vars PROVE EndInv'
  <2>1. EmissionInv'
    BY <1>3, StutteringKeeps DEF EndInv
  <2>2. dies' = dies /\ emission' = emission
    BY <1>3 DEF vars
  <2>3. (\E t \in DOMAIN dies : Kind(t) = "unknown")' = (\E t \in DOMAIN dies : Kind(t) = "unknown")
    BY <2>2, SameTypes
  <2> QED BY <1>3, <2>1, <2>2, <2>3, SameNesting DEF EndInv
<1>4. EndInv /\ [Next]_vars => EndInv'
  BY <1>1, <1>2, <1>3 DEF Next, Ended
<1>5. Init => EndInv
  BY Inits DEF EndInv, Init, Started
<1> QED BY <1>4, <1>5, PTL DEF Spec

\* Whatever the unit and the order of its entries, the recursion of the emission
\* stays within Python's limit if the types of the unit come down to what asks
\* for nothing within it: only a base type FFFC does not know ends the target.
THEOREM CallsEnd ==
  Spec => [](emission.raised => ~NestedWithin(RecursionLimit) \/ \E t \in DOMAIN dies : Kind(t) = "unknown")
<1>1. EndInv => (emission.raised => ~NestedWithin(RecursionLimit) \/ \E t \in DOMAIN dies : Kind(t) = "unknown")
  BY DEF EndInv
<1> QED BY EndInvariant, <1>1, PTL

\* Pointers break every cycle: where the limit is twice the number of types of a
\* unit, the emission of the unit ends, whatever its cycles and the order of its
\* entries, unless a definition asks for itself or a base type is unknown.
THEOREM CyclesEnd ==
  ASSUME \A g \in Graphs : RecursionLimit >= 2 * Cardinality(DOMAIN g)
  PROVE  Spec => []CyclesBroken
<1>1. EndInv => CyclesBroken
  <2> SUFFICES ASSUME EndInv, emission.raised, ~Circular PROVE \E t \in DOMAIN dies : Kind(t) = "unknown"
    BY DEF CyclesBroken
  <2>1. Program /\ dies \in Graphs
    BY UnitFacts DEF EndInv, EmissionInv
  <2>2. NestedWithin(RecursionLimit)
    BY <2>1, NestedEnough, EmissionAssumption
  <2> QED BY <2>2 DEF EndInv
<1> QED BY EndInvariant, <1>1, PTL
=============================================================================
