------------------------- MODULE TypeEmissionProofs -------------------------
(***************************************************************************)
(* What the emission of a header does to the types of any unit, whatever   *)
(* its graph of types and the order of its entries.                        *)
(***************************************************************************)
EXTENDS TypeEmission, CTypesProofs, FiniteSetTheorems, WellFoundedInduction

-----------------------------------------------------------------------------
(* Single changes of an emission *)

Linking(e, t)    == [e EXCEPT !.linked = @ \cup {t}]
Filling(e, t)    == [e EXCEPT !.filled = @ \cup {t}]
Setting(e, t, s) == [e EXCEPT !.status[t] = s]

LEMMA EmissionFacts ==
  ASSUME NEW e \in Emissions
  PROVE  /\ e.status \in [DOMAIN dies -> Statuses] /\ e.made \in Seq(DOMAIN dies)
         /\ e.linked \in SUBSET DOMAIN dies /\ e.filled \in SUBSET DOMAIN dies
         /\ e.header \in Seq(Statements) /\ e.raised \in BOOLEAN
BY DEF Emissions

LEMMA LinkingFacts ==
  ASSUME NEW e \in Emissions, NEW t \in DOMAIN dies
  PROVE  /\ Linking(e, t) \in Emissions
         /\ Linking(e, t).linked = e.linked \cup {t} /\ Linking(e, t).filled = e.filled
         /\ Linking(e, t).status = e.status /\ Linking(e, t).made = e.made
         /\ Linking(e, t).header = e.header /\ Linking(e, t).raised = e.raised
BY DEF Emissions, Linking

LEMMA FillingFacts ==
  ASSUME NEW e \in Emissions, NEW t \in DOMAIN dies
  PROVE  /\ Filling(e, t) \in Emissions
         /\ Filling(e, t).filled = e.filled \cup {t} /\ Filling(e, t).linked = e.linked
         /\ Filling(e, t).status = e.status /\ Filling(e, t).made = e.made
         /\ Filling(e, t).header = e.header /\ Filling(e, t).raised = e.raised
BY DEF Emissions, Filling

LEMMA SettingFacts ==
  ASSUME NEW e \in Emissions, NEW t \in DOMAIN dies, NEW s \in Statuses
  PROVE  /\ Setting(e, t, s) \in Emissions
         /\ Setting(e, t, s).status[t] = s
         /\ \A u \in DOMAIN dies : u # t => Setting(e, t, s).status[u] = e.status[u]
         /\ Setting(e, t, s).linked = e.linked /\ Setting(e, t, s).filled = e.filled
         /\ Setting(e, t, s).made = e.made
         /\ Setting(e, t, s).header = e.header /\ Setting(e, t, s).raised = e.raised
<1>1. e = [status |-> e.status, made |-> e.made, linked |-> e.linked, filled |-> e.filled,
           header |-> e.header, raised |-> e.raised]
  BY DEF Emissions
<1>2. e.status \in [DOMAIN dies -> Statuses]
  BY DEF Emissions
<1>3. [e.status EXCEPT ![t] = s] \in [DOMAIN dies -> Statuses]
  BY <1>2
<1>4. Setting(e, t, s) = [e EXCEPT !.status = [e.status EXCEPT ![t] = s]]
  BY <1>1 DEF Setting
<1> QED BY <1>2, <1>3, <1>4 DEF Emissions

LEMMA EmittedFacts ==
  ASSUME NEW e \in Emissions, NEW t \in DOMAIN dies, NEW form \in {"declare", "define"}
  PROVE  /\ Emitted(e, t, form) \in Emissions
         /\ Emitted(e, t, form).header = Append(e.header, [of |-> t, form |-> form])
         /\ Emitted(e, t, form).linked = e.linked /\ Emitted(e, t, form).filled = e.filled
         /\ Emitted(e, t, form).status = e.status /\ Emitted(e, t, form).made = e.made
         /\ Emitted(e, t, form).raised = e.raised
<1>1. Append(e.header, [of |-> t, form |-> form]) \in Seq(Statements)
  <2>1. [of |-> t, form |-> form] \in Statements
    BY DEF Statements
  <2> QED BY <2>1, EmissionFacts, AppendProperties
<1> QED BY <1>1 DEF Emissions, Emitted

LEMMA MadeFacts ==
  ASSUME NEW e \in Emissions, NEW t \in DOMAIN dies
  PROVE  /\ Made(e, t) \in Emissions
         /\ Range(Made(e, t).made) = Range(e.made) \cup {t}
         /\ t \in Range(e.made) => Made(e, t) = e
         /\ Made(e, t).linked = e.linked /\ Made(e, t).filled = e.filled
         /\ Made(e, t).status = e.status
         /\ Made(e, t).header = e.header /\ Made(e, t).raised = e.raised
<1>1. CASE t \in Range(e.made)
  BY <1>1 DEF Made
<1>2. CASE t \notin Range(e.made)
  <2>1. e.made \in Seq(DOMAIN dies)
    BY EmissionFacts
  <2>2. Append(e.made, t) \in Seq(DOMAIN dies)
    BY <2>1, AppendProperties
  <2>3. Range(Append(e.made, t)) = Range(e.made) \cup {t}
    <3>1. /\ Len(e.made) \in Nat /\ DOMAIN e.made = 1 .. Len(e.made)
          /\ DOMAIN Append(e.made, t) = 1 .. Len(e.made) + 1
          /\ \A i \in 1 .. Len(e.made) : Append(e.made, t)[i] = e.made[i]
          /\ Append(e.made, t)[Len(e.made) + 1] = t
      BY <2>1, AppendProperties
    <3> QED BY <3>1 DEF Range
  <2>4. Made(e, t) = [e EXCEPT !.made = Append(@, t)]
    BY <1>2 DEF Made
  <2> QED BY <1>2, <2>2, <2>3, <2>4 DEF Emissions
<1> QED BY <1>1, <1>2

LEMMA GivenUpFacts ==
  ASSUME NEW e \in Emissions
  PROVE  GivenUp(e) \in Emissions /\ GivenUp(e).raised /\ GivenUp(e).made = e.made
         /\ GivenUp(e).status = e.status /\ GivenUp(e).header = e.header
BY DEF Emissions, GivenUp

-----------------------------------------------------------------------------
(* A call returns an emission, and what has been given up stays so *)

Step(e, f) == f \in Emissions /\ (e.raised => f.raised)

Typed(ask) ==
  \A what \in Questions, e \in Emissions, t \in DOMAIN dies : Step(e, ask[<<what, e, t>>])

Entry(t) == /\ t \in DOMAIN dies /\ Range(dies[t].of) \subseteq DOMAIN dies
            /\ dies[t].of \in Seq(DOMAIN dies)

LEMMA StepTransitive ==
  ASSUME NEW e, NEW f, NEW g, Step(e, f), Step(f, g) PROVE Step(e, g)
BY DEF Step

LEMMA CallTyped ==
  ASSUME NEW ask, Typed(ask), NEW e \in Emissions, NEW t \in DOMAIN dies
  PROVE  /\ Step(e, Touch(ask, e, t)) /\ Step(e, Declare(ask, e, t))
         /\ Step(e, Define(ask, e, t)) /\ Step(e, Refer(ask, e, t))
BY DEF Typed, Questions, Touch, Declare, Define, Refer

LEMMA UseTyped ==
  ASSUME NEW ask, Typed(ask), NEW e \in Emissions, NEW t \in DOMAIN dies
  PROVE  Step(e, Use(ask, e, t))
<1>1. Step(e, Touch(ask, e, t)) /\ Touch(ask, e, t) \in Emissions
  BY CallTyped DEF Step
<1>2. /\ Step(Touch(ask, e, t), Refer(ask, Touch(ask, e, t), t))
      /\ Step(Touch(ask, e, t), Define(ask, Touch(ask, e, t), t))
  BY <1>1, CallTyped
<1> QED BY <1>1, <1>2, StepTransitive DEF Use

LEMMA EmitTyped ==
  ASSUME NEW e \in Emissions, NEW t \in DOMAIN dies, NEW form \in {"declare", "define"}
  PROVE  Step(e, Emit(e, t, form)) /\ Emit(e, t, form).raised = e.raised
BY EmittedFacts DEF Emit, Step

LEMMA DependTyped ==
  ASSUME NEW ask, Typed(ask), NEW e \in Emissions, NEW d \in DOMAIN dies
  PROVE  Step(e, DependDeclare(ask, e, d)) /\ Step(e, DependDefine(ask, e, d))
<1> DEFINE f == Touch(ask, e, d)
<1>1. Step(e, f) /\ f \in Emissions
  BY CallTyped DEF Step
<1> HIDE DEF f
<1>2. /\ Step(f, Declare(ask, f, d)) /\ Declare(ask, f, d) \in Emissions
      /\ Step(f, Define(ask, f, d)) /\ Define(ask, f, d) \in Emissions
  BY <1>1, CallTyped DEF Step
<1>3. /\ Step(f, Emit(Declare(ask, f, d), d, "declare"))
      /\ Step(f, Emit(Define(ask, f, d), d, "define"))
  BY <1>2, EmitTyped, StepTransitive
<1>4. /\ DependDeclare(ask, e, d) \in {f, Emit(Declare(ask, f, d), d, "declare")}
      /\ DependDefine(ask, e, d) \in {f, Emit(Define(ask, f, d), d, "define")}
  BY DEF DependDeclare, DependDefine, f
<1> QED BY <1>1, <1>3, <1>4, StepTransitive

LEMMA MadeTyped ==
  ASSUME NEW e \in Emissions, NEW t \in DOMAIN dies
  PROVE  Step(e, Made(e, t)) /\ Made(e, t) \in Emissions
BY MadeFacts DEF Step

LEMMA UnderlyingTyped ==
  ASSUME NEW ask, Typed(ask), NEW e \in Emissions, NEW t \in DOMAIN dies, Target(t) \in DOMAIN dies
  PROVE  Step(e, UnderlyingDeclaration(ask, e, t)) /\ Step(e, UnderlyingDefinition(ask, e, t))
<1>1. Step(e, Made(e, Target(t))) /\ Made(e, Target(t)) \in Emissions
  BY MadeTyped
<1>2. /\ Step(e, DependDeclare(ask, Made(e, Target(t)), Target(t)))
      /\ Step(e, DependDefine(ask, Made(e, Target(t)), Target(t)))
  BY <1>1, DependTyped, StepTransitive
<1> QED BY <1>2 DEF UnderlyingDeclaration, UnderlyingDefinition

LEMMA LinkTyped ==
  ASSUME NEW ask, Typed(ask), NEW e \in Emissions, NEW t \in DOMAIN dies, Target(t) \in DOMAIN dies
  PROVE  Step(e, LinkDeclared(ask, e, t)) /\ Step(e, LinkDefined(ask, e, t))
<1>1. /\ Step(e, UnderlyingDeclaration(ask, e, t)) /\ UnderlyingDeclaration(ask, e, t) \in Emissions
      /\ Step(e, UnderlyingDefinition(ask, e, t)) /\ UnderlyingDefinition(ask, e, t) \in Emissions
  BY UnderlyingTyped DEF Step
<1>2. /\ Step(e, Linking(UnderlyingDeclaration(ask, e, t), t))
      /\ Step(e, Linking(UnderlyingDefinition(ask, e, t), t))
  BY <1>1, LinkingFacts DEF Step
<1>3. Step(e, e)
  BY DEF Step
<1> QED BY <1>2, <1>3 DEF LinkDeclared, LinkDefined, Linking

LEMMA UnderTyped ==
  ASSUME NEW ask, Typed(ask), NEW e \in Emissions, NEW t \in DOMAIN dies, Target(t) \in DOMAIN dies
  PROVE  /\ Step(e, DeclaredUnder(ask, e, t)) /\ Step(e, DefinedUnder(ask, e, t))
         /\ Step(e, DeclareArray(ask, e, t))
<1>1. /\ Step(e, LinkDeclared(ask, e, t)) /\ LinkDeclared(ask, e, t) \in Emissions
      /\ Step(e, LinkDefined(ask, e, t)) /\ LinkDefined(ask, e, t) \in Emissions
  BY LinkTyped DEF Step
<1>2. /\ Step(e, UnderlyingDefinition(ask, LinkDeclared(ask, e, t), t))
      /\ Step(e, UnderlyingDefinition(ask, LinkDefined(ask, e, t), t))
      /\ Step(e, UnderlyingDeclaration(ask, LinkDeclared(ask, e, t), t))
  BY <1>1, UnderlyingTyped, StepTransitive
<1> QED BY <1>1, <1>2 DEF DeclaredUnder, DefinedUnder, DeclareArray

-----------------------------------------------------------------------------
(* Each: a step for every one of a sequence *)

\* Induction over the naturals with a set in the place of a predicate: a set
\* of naturals that misses one has a least it misses.
LEMMA SetInduction ==
  ASSUME NEW P, 0 \in P, \A n \in Nat : n \in P => n + 1 \in P
  PROVE  Nat \subseteq P
<1> DEFINE T == Nat \ P
           R == OpToRel(<, Nat)
<1>1. IsWellFoundedOn(R, Nat)
  BY NatLessThanWellFounded
<1> SUFFICES ASSUME T # {} PROVE FALSE
  OBVIOUS
<1>2. \A x, y \in Nat : <<y, x>> \in R <=> y < x
  BY DEF OpToRel
<1>3. PICK x \in T : \A y \in T : ~ (<<y, x>> \in R)
  <2> HIDE DEF R
  <2>1. T \subseteq Nat
    OBVIOUS
  <2> HIDE DEF T
  <2> QED BY <1>1, <2>1, WFMin
<1> HIDE DEF R
<1>4. x # 0 /\ x - 1 \in Nat /\ x - 1 < x
  OBVIOUS
<1>5. x - 1 \in P
  BY <1>2, <1>3, <1>4
<1> QED BY <1>4, <1>5

After(step, x, ts, g, i) == IF i = 0 THEN x ELSE step[<<g[i - 1], ts[i]>>]
Follow(step, x, ts, g, k) == g = [i \in 0 .. k |-> After(step, x, ts, g, i)]

LEMMA FollowFurther ==
  ASSUME NEW step, NEW x, NEW ts, NEW k \in Nat, NEW g, Follow(step, x, ts, g, k)
  PROVE  \E h : Follow(step, x, ts, h, k + 1)
<1> DEFINE h == [i \in 0 .. k + 1 |-> IF i = k + 1 THEN step[<<g[k], ts[k + 1]>>] ELSE g[i]]
           n == [i \in 0 .. k + 1 |-> After(step, x, ts, h, i)]
<1>1. ASSUME NEW i \in 0 .. k + 1 PROVE h[i] = n[i]
  <2>1. CASE i = k + 1
    <3>1. h[i] = step[<<g[k], ts[k + 1]>>] /\ h[k] = g[k]
      BY <2>1
    <3>2. n[i] = After(step, x, ts, h, k + 1)
      BY <2>1
    <3> HIDE DEF h, n
    <3> QED BY <2>1, <3>1, <3>2 DEF After
  <2>2. CASE i # k + 1
    <3>1. i \in 0 .. k /\ (i # 0 => i - 1 \in 0 .. k + 1 /\ i - 1 # k + 1)
      BY <2>2
    <3>2. h[i] = g[i] /\ (i # 0 => h[i - 1] = g[i - 1]) /\ n[i] = After(step, x, ts, h, i)
      BY <2>2, <3>1
    <3>3. g[i] = After(step, x, ts, g, i)
      BY <3>1 DEF Follow
    <3> HIDE DEF h, n
    <3> QED BY <3>2, <3>3 DEF After
  <2> QED BY <2>1, <2>2
<1>2. h = [i \in 0 .. k + 1 |-> h[i]] /\ n = [i \in 0 .. k + 1 |-> n[i]]
  OBVIOUS
<1>3. n = [i \in 0 .. k + 1 |-> After(step, x, ts, h, i)]
  OBVIOUS
<1> HIDE DEF h, n
<1>4. h = n
  BY <1>1, <1>2
<1>5. Follow(step, x, ts, h, k + 1)
  BY <1>3, <1>4 DEF Follow
<1> QED BY <1>5

LEMMA EachFollows ==
  ASSUME NEW step, NEW x, NEW ts, Len(ts) \in Nat
  PROVE  \E g : Follow(step, x, ts, g, Len(ts)) /\ Each(step, x, ts) = g[Len(ts)]
<1> DEFINE P == {k \in Nat : \E g : Follow(step, x, ts, g, k)}
<1>1. 0 \in P
  <2> DEFINE g == [i \in 0 .. 0 |-> x]
  <2>1. g = [i \in 0 .. 0 |-> g[i]] /\ \A i \in 0 .. 0 : g[i] = After(step, x, ts, g, i)
    BY DEF After
  <2> HIDE DEF g
  <2>2. Follow(step, x, ts, g, 0)
    BY <2>1 DEF Follow
  <2> QED BY <2>2
<1>2. \A k \in Nat : k \in P => k + 1 \in P
  BY FollowFurther
<1> HIDE DEF P
<1>3. Len(ts) \in P
  BY <1>1, <1>2, SetInduction
<1>4. \E g : Follow(step, x, ts, g, Len(ts))
  BY <1>3 DEF P
<1> DEFINE a == CHOOSE g : Follow(step, x, ts, g, Len(ts))
<1>5. Follow(step, x, ts, a, Len(ts))
  BY <1>4
<1>6. Each(step, x, ts) = a[Len(ts)]
  BY DEF Each, Follow, After
<1> HIDE DEF a
<1> QED BY <1>5, <1>6

\* What each step hands on, from what went before it, is so in the end.
LEMMA EachKeeps ==
  ASSUME NEW S, NEW step, NEW ts \in Seq(S), NEW x,
         NEW Q, <<x, {}>> \in Q,
         \A y, T : \A t \in Range(ts) : <<y, T>> \in Q => <<step[<<y, t>>], T \cup {t}>> \in Q
  PROVE  <<Each(step, x, ts), Range(ts)>> \in Q
<1> DEFINE K == Len(ts)
           First(k) == {ts[j] : j \in 1 .. k}
<1>1. K \in Nat /\ DOMAIN ts = 1 .. K
  OBVIOUS
<1>2. PICK g : Follow(step, x, ts, g, K) /\ Each(step, x, ts) = g[K]
  BY <1>1, EachFollows
<1> DEFINE P == {k \in Nat : k <= K => <<g[k], First(k)>> \in Q}
<1>3. 0 \in P
  <2>1. First(0) = {} /\ g[0] = x
    BY <1>1, <1>2 DEF Follow, After
  <2> QED BY <2>1
<1>4. ASSUME NEW k \in Nat, k \in P PROVE k + 1 \in P
  <2> SUFFICES ASSUME k + 1 <= K PROVE <<g[k + 1], First(k + 1)>> \in Q
    OBVIOUS
  <2>1. <<g[k], First(k)>> \in Q
    BY <1>1, <1>4
  <2>2. g[k + 1] = step[<<g[k], ts[k + 1]>>]
    BY <1>1, <1>2 DEF Follow, After
  <2>3. First(k + 1) = First(k) \cup {ts[k + 1]}
    OBVIOUS
  <2>4. ts[k + 1] \in Range(ts)
    BY <1>1 DEF Range
  <2> HIDE DEF First
  <2> QED BY <2>1, <2>2, <2>3, <2>4
<1>5. K \in P
  <2> HIDE DEF P
  <2> QED BY <1>1, <1>3, <1>4, SetInduction
<1>6. First(K) = Range(ts)
  BY <1>1 DEF Range
<1>7. <<g[K], First(K)>> \in Q
  BY <1>1, <1>5
<1> HIDE DEF P, First
<1> QED BY <1>2, <1>6, <1>7

-----------------------------------------------------------------------------
(* The calls, class by class *)

LEMMA EachTyped ==
  ASSUME NEW step, \A y \in Emissions, t \in DOMAIN dies : Step(y, step[<<y, t>>]),
         NEW ts \in Seq(DOMAIN dies), NEW e \in Emissions
  PROVE  Step(e, Each(step, e, ts))
<1> DEFINE Q == {q \in Emissions \X SUBSET DOMAIN dies : Step(e, q[1])}
<1>1. <<e, {}>> \in Q
  BY DEF Step
<1>2. Range(ts) \subseteq DOMAIN dies
  <2>1. \A i \in DOMAIN ts : ts[i] \in DOMAIN dies
    OBVIOUS
  <2> QED BY <2>1 DEF Range
<1>3. ASSUME NEW y, NEW T, NEW t \in Range(ts), <<y, T>> \in Q
      PROVE  <<step[<<y, t>>], T \cup {t}>> \in Q
  <2>1. y \in Emissions /\ T \in SUBSET DOMAIN dies /\ Step(e, y) /\ t \in DOMAIN dies
    BY <1>2, <1>3
  <2>2. Step(y, step[<<y, t>>])
    BY <2>1
  <2>3. Step(e, step[<<y, t>>]) /\ step[<<y, t>>] \in Emissions
    BY <2>1, <2>2 DEF Step
  <2> QED BY <2>1, <2>3
<1> HIDE DEF Q
<1>4. <<Each(step, e, ts), Range(ts)>> \in Q
  BY <1>1, <1>3, EachKeeps
<1> QED BY <1>4 DEF Q

LEMMA MemberTyped ==
  ASSUME NEW ask, Typed(ask), NEW y \in Emissions, NEW m \in DOMAIN dies
  PROVE  Step(y, Member(ask, y, m))
<1> DEFINE f == Made(y, m)
           g == IF Named(m) THEN DependDefine(ask, f, m) ELSE Touch(ask, f, m)
<1>1. Step(y, f) /\ f \in Emissions
  BY MadeTyped
<1>2. Step(f, DependDefine(ask, f, m)) /\ Step(f, Touch(ask, f, m))
  BY <1>1, DependTyped, CallTyped
<1>3. Step(y, g) /\ g \in Emissions
  BY <1>1, <1>2 DEF Step
<1> HIDE DEF g
<1>4. Step(g, Use(ask, g, m))
  BY <1>3, UseTyped
<1>5. Member(ask, y, m) = Use(ask, g, m)
  BY DEF Member, g
<1> QED BY <1>3, <1>4, <1>5, StepTransitive

LEMMA ArgumentTyped ==
  ASSUME NEW ask, Typed(ask), NEW y \in Emissions, NEW a \in DOMAIN dies
  PROVE  Step(y, Argument(ask, y, a))
<1> DEFINE f == DependDefine(ask, Made(y, a), a)
<1>1. Step(y, Made(y, a)) /\ Made(y, a) \in Emissions
  BY MadeTyped
<1>2. Step(y, f) /\ f \in Emissions
  BY <1>1, DependTyped DEF Step
<1> HIDE DEF f
<1>3. Step(y, Refer(ask, f, a))
  BY <1>2, CallTyped, StepTransitive
<1> QED BY <1>3 DEF Argument, f

LEMMA MembersTyped ==
  ASSUME NEW ask, Typed(ask), NEW e \in Emissions, NEW t \in DOMAIN dies,
         dies[t].of \in Seq(DOMAIN dies)
  PROVE  Step(e, Members(ask, e, t))
<1> DEFINE member == [p \in Emissions \X DOMAIN dies |-> Member(ask, p[1], p[2])]
           f == Each(member, e, dies[t].of)
<1>2. \A y \in Emissions, m \in DOMAIN dies : Step(y, member[<<y, m>>])
  BY MemberTyped
<1>3. Step(e, f)
  <2> HIDE DEF member
  <2> QED BY <1>2, EachTyped
<1>4. Members(ask, e, t) = IF t \in e.filled THEN e ELSE Filling(f, t)
  BY DEF Members, Filling
<1> HIDE DEF f
<1>5. Step(e, Filling(f, t))
  BY <1>3, FillingFacts DEF Step
<1> QED BY <1>4, <1>5 DEF Step

LEMMA SettingTyped ==
  ASSUME NEW e \in Emissions, NEW t \in DOMAIN dies, NEW s \in Statuses
  PROVE  Step(e, Setting(e, t, s))
BY SettingFacts DEF Step

LEMMA StructTyped ==
  ASSUME NEW ask, Typed(ask), NEW e \in Emissions, NEW t \in DOMAIN dies,
         dies[t].of \in Seq(DOMAIN dies)
  PROVE  /\ Step(e, DeclareStruct(e, t)) /\ Step(e, DefineStruct(ask, e, t))
         /\ Step(e, DefineEnum(e, t)) /\ Step(e, DeclareBase(e, t))
<1>1. {"DECLARED", "DONE"} \subseteq Statuses
  BY DEF Statuses
<1>2. Step(e, Members(ask, e, t)) /\ Members(ask, e, t) \in Emissions
  BY MembersTyped DEF Step
<1>3. Step(e, Setting(Members(ask, e, t), t, "DONE"))
  BY <1>1, <1>2, SettingTyped, StepTransitive
<1>4. Step(e, Setting(e, t, "DECLARED")) /\ Step(e, Setting(e, t, "DONE"))
  BY <1>1, SettingTyped
<1> QED BY <1>3, <1>4 DEF DeclareStruct, DefineStruct, DefineEnum, DeclareBase, Setting

LEMMA FunctionTyped ==
  ASSUME NEW ask, Typed(ask), NEW e \in Emissions, NEW t \in DOMAIN dies,
         Target(t) \in DOMAIN dies, Tail(dies[t].of) \in Seq(DOMAIN dies)
  PROVE  Step(e, Setup(ask, e, t)) /\ Step(e, DeclareFunction(ask, e, t))
<1>1. Step(e, ReturnType(ask, e, t)) /\ ReturnType(ask, e, t) \in Emissions
  <2>1. Step(e, Made(e, Target(t))) /\ Made(e, Target(t)) \in Emissions
    BY MadeTyped
  <2>2. Step(e, DependDefine(ask, Made(e, Target(t)), Target(t)))
    BY <2>1, DependTyped, StepTransitive
  <2> QED BY <2>2 DEF ReturnType, Step
<1> DEFINE argument == [p \in Emissions \X DOMAIN dies |-> Argument(ask, p[1], p[2])]
           r == ReturnType(ask, e, t)
           f == Each(argument, r, Tail(dies[t].of))
<1>3. \A y \in Emissions, a \in DOMAIN dies : Step(y, argument[<<y, a>>])
  BY ArgumentTyped
<1>4. Step(r, f)
  <2> HIDE DEF argument, r
  <2> QED BY <1>1, <1>3, EachTyped DEF r
<1>5. Setup(ask, e, t) = IF t \in e.filled THEN e ELSE Filling(f, t)
  BY DEF Setup, Arguments, Filling
<1> HIDE DEF f, r
<1>6. Step(e, f) /\ f \in Emissions
  BY <1>1, <1>4 DEF Step, r
<1>7. Step(e, Filling(f, t)) /\ Step(e, e)
  BY <1>6, FillingFacts DEF Step
<1>8. Step(e, Setup(ask, e, t)) /\ Setup(ask, e, t) \in Emissions
  BY <1>5, <1>7 DEF Step
<1>9. Step(e, Refer(ask, Setup(ask, e, t), Target(t))) /\ Refer(ask, Setup(ask, e, t), Target(t)) \in Emissions
  BY <1>8, CallTyped DEF Step
<1>10. Step(e, Setting(Refer(ask, Setup(ask, e, t), Target(t)), t, "DONE"))
  BY <1>9, SettingTyped, StepTransitive DEF Statuses
<1> QED BY <1>8, <1>10 DEF DeclareFunction, Setting

LEMMA ModifierTyped ==
  ASSUME NEW ask, Typed(ask), NEW e \in Emissions, NEW t \in DOMAIN dies, Target(t) \in DOMAIN dies
  PROVE  /\ Step(e, DeclareQualified(ask, e, t)) /\ Step(e, DefineQualified(ask, e, t))
         /\ Step(e, ReferQualified(ask, e, t))
         /\ Step(e, DefineArray(ask, e, t)) /\ Step(e, ReferArray(ask, e, t))
         /\ Step(e, DeclarePointer(ask, e, t)) /\ Step(e, DefinePointer(ask, e, t))
         /\ Step(e, ReferPointer(ask, e, t))
<1>1. /\ Step(e, DeclaredUnder(ask, e, t)) /\ DeclaredUnder(ask, e, t) \in Emissions
      /\ Step(e, DefinedUnder(ask, e, t)) /\ DefinedUnder(ask, e, t) \in Emissions
      /\ Step(e, DeclareArray(ask, e, t)) /\ DeclareArray(ask, e, t) \in Emissions
      /\ Step(e, LinkDeclared(ask, e, t)) /\ LinkDeclared(ask, e, t) \in Emissions
      /\ Step(e, LinkDefined(ask, e, t)) /\ LinkDefined(ask, e, t) \in Emissions
  BY UnderTyped, LinkTyped DEF Step
<1>2. ASSUME NEW f, Step(e, f), f \in Emissions
      PROVE  /\ Step(e, Use(ask, f, Target(t))) /\ Step(e, Define(ask, f, Target(t)))
             /\ Step(e, Declare(ask, f, Target(t)))
  BY <1>2, UseTyped, CallTyped, StepTransitive
<1>3. /\ Step(e, DeclareQualified(ask, e, t)) /\ Step(e, DefineQualified(ask, e, t))
      /\ Step(e, ReferQualified(ask, e, t)) /\ Step(e, ReferArray(ask, e, t)) /\ Step(e, ReferPointer(ask, e, t))
  BY <1>1, <1>2 DEF DeclareQualified, DefineQualified, ReferQualified, ReferArray, ReferPointer
<1>4. Step(e, DefineArray(ask, e, t)) /\ Step(e, DeclarePointer(ask, e, t))
  BY <1>1, <1>2 DEF DefineArray, DeclarePointer
<1> QED BY <1>3, <1>4 DEF DefinePointer

LEMMA TypedefTyped ==
  ASSUME NEW ask, Typed(ask), NEW e \in Emissions, NEW t \in DOMAIN dies, Target(t) \in DOMAIN dies
  PROVE  /\ Step(e, EmitRefOrDefn(ask, e, t))
         /\ Step(e, DeclareTypedef(ask, e, t)) /\ Step(e, DefineTypedef(ask, e, t))
         /\ Step(e, ReferTypedef(ask, e, t))
<1>1. ASSUME NEW f \in Emissions PROVE Step(f, EmitRefOrDefn(ask, f, t))
  <2> DEFINE g == Touch(ask, f, Target(t))
  <2>1. Step(f, g) /\ g \in Emissions
    BY CallTyped DEF Step
  <2> HIDE DEF g
  <2>2. /\ Step(f, Refer(ask, g, Target(t)))
        /\ Step(f, Define(ask, g, Target(t))) /\ Define(ask, g, Target(t)) \in Emissions
    BY <2>1, CallTyped DEF Step
  <2>3. Step(f, Setting(Define(ask, g, Target(t)), Target(t), "DONE"))
    BY <2>2, SettingTyped, StepTransitive DEF Statuses
  <2> QED BY <2>2, <2>3 DEF EmitRefOrDefn, Setting, g
<1>2. /\ Step(e, DeclaredUnder(ask, e, t)) /\ DeclaredUnder(ask, e, t) \in Emissions
      /\ Step(e, DefinedUnder(ask, e, t)) /\ DefinedUnder(ask, e, t) \in Emissions
  BY UnderTyped DEF Step
<1>3. ASSUME NEW f \in Emissions, NEW s \in Statuses, Step(e, f)
      PROVE  Step(e, EmitRefOrDefn(ask, Setting(f, t, s), t))
  <2>1. Step(e, Setting(f, t, s)) /\ Setting(f, t, s) \in Emissions
    BY <1>3, SettingTyped DEF Step
  <2> QED BY <1>1, <2>1, StepTransitive
<1>4. /\ Step(e, EmitRefOrDefn(ask, Setting(DeclaredUnder(ask, e, t), t, "DECLARED"), t))
      /\ Step(e, EmitRefOrDefn(ask, Setting(DefinedUnder(ask, e, t), t, "DONE"), t))
  BY <1>2, <1>3 DEF Statuses
<1> QED BY <1>1, <1>4, LinkTyped DEF DeclareTypedef, DefineTypedef, ReferTypedef, Setting

LEMMA DeclaredCases ==
  ASSUME NEW ask, NEW e, NEW t
  PROVE  /\ Kind(t) \in {"struct", "declared"} => Declared(ask, e, t) = DeclareStruct(e, t)
         /\ Kind(t) = "enum" => Declared(ask, e, t) = DefineEnum(e, t)
         /\ Kind(t) \in {"base", "unknown"} => Declared(ask, e, t) = DeclareBase(e, t)
         /\ Kind(t) = "function" => Declared(ask, e, t) = DeclareFunction(ask, e, t)
         /\ Kind(t) = "typedef" => Declared(ask, e, t) = DeclareTypedef(ask, e, t)
         /\ Kind(t) = "qualified" => Declared(ask, e, t) = DeclareQualified(ask, e, t)
         /\ Kind(t) = "array" => Declared(ask, e, t) = DeclareArray(ask, e, t)
         /\ Kind(t) = "pointer" => Declared(ask, e, t) = DeclarePointer(ask, e, t)
<1>1. ASSUME Kind(t) = "struct" PROVE Declared(ask, e, t) = DeclareStruct(e, t)
  BY Zenon, <1>1 DEF Declared
<1>2. ASSUME Kind(t) = "declared" PROVE Declared(ask, e, t) = DeclareStruct(e, t)
  BY Zenon, <1>2 DEF Declared
<1>3. ASSUME Kind(t) = "enum" PROVE Declared(ask, e, t) = DefineEnum(e, t)
  BY Zenon, <1>3 DEF Declared
<1>4. ASSUME Kind(t) = "base" PROVE Declared(ask, e, t) = DeclareBase(e, t)
  BY Zenon, <1>4 DEF Declared
<1>5. ASSUME Kind(t) = "unknown" PROVE Declared(ask, e, t) = DeclareBase(e, t)
  BY Zenon, <1>5 DEF Declared
<1>6. ASSUME Kind(t) = "function" PROVE Declared(ask, e, t) = DeclareFunction(ask, e, t)
  BY Zenon, <1>6 DEF Declared
<1>7. ASSUME Kind(t) = "typedef" PROVE Declared(ask, e, t) = DeclareTypedef(ask, e, t)
  BY Zenon, <1>7 DEF Declared
<1>8. ASSUME Kind(t) = "qualified" PROVE Declared(ask, e, t) = DeclareQualified(ask, e, t)
  BY Zenon, <1>8 DEF Declared
<1>9. ASSUME Kind(t) = "array" PROVE Declared(ask, e, t) = DeclareArray(ask, e, t)
  BY Zenon, <1>9 DEF Declared
<1>10. ASSUME Kind(t) = "pointer" PROVE Declared(ask, e, t) = DeclarePointer(ask, e, t)
  BY Zenon, <1>10 DEF Declared
<1> QED BY <1>1, <1>2, <1>3, <1>4, <1>5, <1>6, <1>7, <1>8, <1>9, <1>10

LEMMA DefinedCases ==
  ASSUME NEW ask, NEW e, NEW t
  PROVE  /\ Kind(t) \in {"struct", "declared"} => Defined(ask, e, t) = DefineStruct(ask, e, t)
         /\ Kind(t) = "enum" => Defined(ask, e, t) = DefineEnum(e, t)
         /\ Kind(t) \in {"base", "unknown"} => Defined(ask, e, t) = DeclareBase(e, t)
         /\ Kind(t) = "function" => Defined(ask, e, t) = DeclareFunction(ask, e, t)
         /\ Kind(t) = "typedef" => Defined(ask, e, t) = DefineTypedef(ask, e, t)
         /\ Kind(t) = "qualified" => Defined(ask, e, t) = DefineQualified(ask, e, t)
         /\ Kind(t) = "array" => Defined(ask, e, t) = DefineArray(ask, e, t)
         /\ Kind(t) = "pointer" => Defined(ask, e, t) = DefinePointer(ask, e, t)
<1>1. ASSUME Kind(t) = "struct" PROVE Defined(ask, e, t) = DefineStruct(ask, e, t)
  BY Zenon, <1>1 DEF Defined
<1>2. ASSUME Kind(t) = "declared" PROVE Defined(ask, e, t) = DefineStruct(ask, e, t)
  BY Zenon, <1>2 DEF Defined
<1>3. ASSUME Kind(t) = "enum" PROVE Defined(ask, e, t) = DefineEnum(e, t)
  BY Zenon, <1>3 DEF Defined
<1>4. ASSUME Kind(t) = "base" PROVE Defined(ask, e, t) = DeclareBase(e, t)
  BY Zenon, <1>4 DEF Defined
<1>5. ASSUME Kind(t) = "unknown" PROVE Defined(ask, e, t) = DeclareBase(e, t)
  BY Zenon, <1>5 DEF Defined
<1>6. ASSUME Kind(t) = "function" PROVE Defined(ask, e, t) = DeclareFunction(ask, e, t)
  BY Zenon, <1>6 DEF Defined
<1>7. ASSUME Kind(t) = "typedef" PROVE Defined(ask, e, t) = DefineTypedef(ask, e, t)
  BY Zenon, <1>7 DEF Defined
<1>8. ASSUME Kind(t) = "qualified" PROVE Defined(ask, e, t) = DefineQualified(ask, e, t)
  BY Zenon, <1>8 DEF Defined
<1>9. ASSUME Kind(t) = "array" PROVE Defined(ask, e, t) = DefineArray(ask, e, t)
  BY Zenon, <1>9 DEF Defined
<1>10. ASSUME Kind(t) = "pointer" PROVE Defined(ask, e, t) = DefinePointer(ask, e, t)
  BY Zenon, <1>10 DEF Defined
<1> QED BY <1>1, <1>2, <1>3, <1>4, <1>5, <1>6, <1>7, <1>8, <1>9, <1>10

LEMMA ReferredCases ==
  ASSUME NEW ask, NEW e, NEW t
  PROVE  /\ Kind(t) = "function" => Referred(ask, e, t) = DeclareFunction(ask, e, t)
         /\ Kind(t) = "typedef" => Referred(ask, e, t) = ReferTypedef(ask, e, t)
         /\ Kind(t) = "qualified" => Referred(ask, e, t) = ReferQualified(ask, e, t)
         /\ Kind(t) = "array" => Referred(ask, e, t) = ReferArray(ask, e, t)
         /\ Kind(t) = "pointer" => Referred(ask, e, t) = ReferPointer(ask, e, t)
         /\ Kind(t) \in {"base", "unknown", "declared", "struct", "enum"} => Referred(ask, e, t) = e
<1>1. ASSUME Kind(t) = "function" PROVE Referred(ask, e, t) = DeclareFunction(ask, e, t)
  BY Zenon, <1>1 DEF Referred
<1>2. ASSUME Kind(t) = "typedef" PROVE Referred(ask, e, t) = ReferTypedef(ask, e, t)
  BY Zenon, <1>2 DEF Referred
<1>3. ASSUME Kind(t) = "qualified" PROVE Referred(ask, e, t) = ReferQualified(ask, e, t)
  BY Zenon, <1>3 DEF Referred
<1>4. ASSUME Kind(t) = "array" PROVE Referred(ask, e, t) = ReferArray(ask, e, t)
  BY Zenon, <1>4 DEF Referred
<1>5. ASSUME Kind(t) = "pointer" PROVE Referred(ask, e, t) = ReferPointer(ask, e, t)
  BY Zenon, <1>5 DEF Referred
<1>6. ASSUME Kind(t) \in {"base", "unknown", "declared", "struct", "enum"} PROVE Referred(ask, e, t) = e
  BY Zenon, <1>6 DEF Referred
<1> QED BY <1>1, <1>2, <1>3, <1>4, <1>5, <1>6

LEMMA AnswerCases ==
  ASSUME NEW ask, NEW e, NEW t
  PROVE  /\ Answer(ask, "touch", e, t) = Touched(ask, e, t)
         /\ Answer(ask, "declare", e, t) = Declared(ask, e, t)
         /\ Answer(ask, "define", e, t) = Defined(ask, e, t)
         /\ Answer(ask, "refer", e, t) = Referred(ask, e, t)
<1>1. Answer(ask, "touch", e, t) = Touched(ask, e, t)
  BY Zenon DEF Answer
<1>2. Answer(ask, "declare", e, t) = Declared(ask, e, t)
  BY Zenon DEF Answer
<1>3. Answer(ask, "define", e, t) = Defined(ask, e, t)
  BY Zenon DEF Answer
<1>4. Answer(ask, "refer", e, t) = Referred(ask, e, t)
  BY Zenon DEF Answer
<1> QED BY <1>1, <1>2, <1>3, <1>4

LEMMA AnswerTyped ==
  ASSUME Program, NEW ask, Typed(ask), NEW what \in Questions, NEW e \in Emissions, NEW t \in DOMAIN dies
  PROVE  Step(e, Answer(ask, what, e, t))
<1>1. /\ dies[t].of \in Seq(DOMAIN dies) /\ Kind(t) \in Kinds
      /\ Kind(t) \in Modifiers \cup {"typedef", "function"} => Target(t) \in DOMAIN dies
      /\ Kind(t) = "function" => Tail(dies[t].of) \in Seq(DOMAIN dies)
  BY EntryFacts DEF Program, Modifier
<1>2. Step(e, Touched(ask, e, t))
  <2>1. CASE Modifier(t)
    <3>1. Step(e, LinkDeclared(ask, e, t)) /\ LinkDeclared(ask, e, t) \in Emissions
      BY <1>1, <2>1, LinkTyped DEF Step, Modifier
    <3>2. Step(e, Touch(ask, LinkDeclared(ask, e, t), Target(t)))
      BY <1>1, <2>1, <3>1, CallTyped, StepTransitive DEF Modifier
    <3> QED BY <2>1, <3>2 DEF Touched
  <2>2. CASE ~Modifier(t)
    BY <2>2 DEF Touched, Step
  <2> QED BY <2>1, <2>2
<1>3. ASSUME Kind(t) \in {"struct", "declared", "enum", "base", "unknown"}
      PROVE  Step(e, Declared(ask, e, t)) /\ Step(e, Defined(ask, e, t)) /\ Step(e, Referred(ask, e, t))
  <2>1. Step(e, e)
    BY DEF Step
  <2>2. /\ Step(e, DeclareStruct(e, t)) /\ Step(e, DefineStruct(ask, e, t))
        /\ Step(e, DefineEnum(e, t)) /\ Step(e, DeclareBase(e, t))
    BY <1>1, StructTyped
  <2> QED BY <1>3, <2>1, <2>2, DeclaredCases, DefinedCases, ReferredCases
<1>4. ASSUME Kind(t) = "function"
      PROVE  Step(e, Declared(ask, e, t)) /\ Step(e, Defined(ask, e, t)) /\ Step(e, Referred(ask, e, t))
  BY <1>1, <1>4, FunctionTyped, DeclaredCases, DefinedCases, ReferredCases
<1>5. ASSUME Kind(t) = "typedef"
      PROVE  Step(e, Declared(ask, e, t)) /\ Step(e, Defined(ask, e, t)) /\ Step(e, Referred(ask, e, t))
  BY <1>1, <1>5, TypedefTyped, DeclaredCases, DefinedCases, ReferredCases
<1>6. ASSUME Kind(t) \in {"qualified", "array", "pointer"}
      PROVE  Step(e, Declared(ask, e, t)) /\ Step(e, Defined(ask, e, t)) /\ Step(e, Referred(ask, e, t))
  BY <1>1, <1>6, ModifierTyped, UnderTyped, DeclaredCases, DefinedCases, ReferredCases DEF Modifiers
<1>7. Step(e, Declared(ask, e, t)) /\ Step(e, Defined(ask, e, t)) /\ Step(e, Referred(ask, e, t))
  BY <1>1, <1>3, <1>4, <1>5, <1>6 DEF Kinds, Modifiers
<1> QED BY <1>2, <1>7, AnswerCases DEF Questions

-----------------------------------------------------------------------------
(* Induction over the calls within calls *)

Given(ask, n, q) ==
  IF q[2].raised \/ n = 0 THEN GivenUp(q[2])
  ELSE LET a == Answer(ask, q[1], q[2], q[3])
       IN  IF a.raised THEN GivenUp(q[2]) ELSE a

Level(ask, n) == [q \in Questions \X Emissions \X DOMAIN dies |-> Given(ask, n, q)]

Levels(g, k) == g = [n \in 0 .. k |-> Level(g[n - 1], n)]

\* With nothing left it does not matter who answers.
LEMMA LevelZero == \A a, b : Level(a, 0) = Level(b, 0)
BY DEF Level, Given

LEMMA LevelsFurther ==
  ASSUME NEW k \in Nat, NEW g, Levels(g, k) PROVE \E h : Levels(h, k + 1)
<1> DEFINE h == [n \in 0 .. k + 1 |-> IF n = k + 1 THEN Level(g[k], k + 1) ELSE g[n]]
           m == [n \in 0 .. k + 1 |-> Level(h[n - 1], n)]
<1>1. ASSUME NEW n \in 0 .. k + 1 PROVE h[n] = m[n]
  <2>1. CASE n = k + 1
    <3>1. h[n] = Level(g[k], k + 1) /\ h[k] = g[k] /\ m[n] = Level(h[n - 1], n) /\ n - 1 = k
      BY <2>1
    <3> HIDE DEF h, m
    <3> QED BY <2>1, <3>1
  <2>2. CASE n # k + 1 /\ n # 0
    <3>1. n \in 0 .. k /\ n - 1 \in 0 .. k + 1 /\ n - 1 # k + 1
      BY <2>2
    <3>2. h[n] = g[n] /\ h[n - 1] = g[n - 1] /\ m[n] = Level(h[n - 1], n)
      BY <2>2, <3>1
    <3>3. g[n] = Level(g[n - 1], n)
      BY <3>1 DEF Levels
    <3> HIDE DEF h, m
    <3> QED BY <3>2, <3>3
  <2>3. CASE n = 0
    <3>1. h[0] = g[0] /\ m[0] = Level(h[0 - 1], 0) /\ g[0] = Level(g[0 - 1], 0)
      BY DEF Levels
    <3> HIDE DEF h, m
    <3> QED BY <2>3, <3>1, LevelZero
  <2> QED BY <2>1, <2>2, <2>3
<1>2. h = [n \in 0 .. k + 1 |-> h[n]] /\ m = [n \in 0 .. k + 1 |-> m[n]]
  OBVIOUS
<1>3. m = [n \in 0 .. k + 1 |-> Level(h[n - 1], n)]
  OBVIOUS
<1> HIDE DEF h, m
<1>4. h = m
  BY <1>1, <1>2
<1> QED BY <1>3, <1>4 DEF Levels

\* What holds of the answers with nothing left, and of those with one call more
\* than answers of which it holds, holds of all.
LEMMA LevelInduction ==
  ASSUME NEW Q, \A ask : \A n \in Nat : n = 0 \/ ask \in Q[n - 1] => Level(ask, n) \in Q[n]
  PROVE  Answers \in Q[RecursionLimit]
<1> DEFINE P == {k \in Nat : \E g : Levels(g, k)}
           L == RecursionLimit
<1>0. L \in Nat
  BY EmissionAssumption
<1>1. 0 \in P
  <2> DEFINE g == [n \in 0 .. 0 |-> Level(0, 0)]
  <2>1. g = [n \in 0 .. 0 |-> g[n]] /\ \A n \in 0 .. 0 : g[n] = Level(0, 0) /\ n = 0
    OBVIOUS
  <2> HIDE DEF g
  <2>2. \A n \in 0 .. 0 : g[n] = Level(g[n - 1], n)
    BY <2>1, LevelZero
  <2>3. Levels(g, 0)
    BY <2>1, <2>2 DEF Levels
  <2> QED BY <2>3
<1>2. \A k \in Nat : k \in P => k + 1 \in P
  BY LevelsFurther
<1>3. L \in P
  <2> HIDE DEF P
  <2> QED BY <1>0, <1>1, <1>2, SetInduction
<1>4. \E g : Levels(g, L)
  BY <1>3
<1> DEFINE a == CHOOSE g : Levels(g, L)
<1>5. Levels(a, L)
  <2> HIDE DEF L
  <2> QED BY <1>4
<1>6. Answers = a[L]
  BY DEF Answers, Levels, Level, Given
<1> HIDE DEF a
<1> DEFINE R == {n \in Nat : n <= L => a[n] \in Q[n]}
<1>7. \A n \in 0 .. L : a[n] = Level(a[n - 1], n)
  BY <1>5 DEF Levels
<1> HIDE DEF L
<1>8. 0 \in R
  <2>1. 0 \in 0 .. L
    BY <1>0
  <2>2. a[0] = Level(a[0 - 1], 0)
    BY <1>7, <2>1
  <2>3. Level(a[0 - 1], 0) \in Q[0]
    OBVIOUS
  <2> QED BY <2>2, <2>3
<1>9. ASSUME NEW n \in Nat, n \in R PROVE n + 1 \in R
  <2> SUFFICES ASSUME n + 1 <= L PROVE a[n + 1] \in Q[n + 1]
    OBVIOUS
  <2>1. n + 1 \in 0 .. L /\ n + 1 \in Nat /\ (n + 1) - 1 = n /\ a[n] \in Q[n]
    BY <1>0, <1>9
  <2>2. a[n + 1] = Level(a[n], n + 1)
    BY <1>7, <2>1
  <2> QED BY <2>1, <2>2
<1>10. L \in R
  <2> HIDE DEF R
  <2> QED BY <1>0, <1>8, <1>9, SetInduction
<1> QED BY <1>0, <1>6, <1>10 DEF L

\* The same of what does not depend on how many calls are left.
LEMMA CallInduction ==
  ASSUME NEW Q, \A ask : \A n \in Nat : n = 0 \/ ask \in Q => Level(ask, n) \in Q
  PROVE  Answers \in Q
<1> DEFINE S == [n \in Nat |-> Q]
<1>1. \A n \in Nat : S[n] = Q
  OBVIOUS
<1> HIDE DEF S
<1>2. ASSUME NEW ask, NEW n \in Nat, n = 0 \/ ask \in S[n - 1] PROVE Level(ask, n) \in S[n]
  <2>1. n = 0 \/ n - 1 \in Nat
    OBVIOUS
  <2> QED BY <1>1, <1>2, <2>1
<1>3. Answers \in S[RecursionLimit]
  BY <1>2, LevelInduction
<1> QED BY <1>1, <1>3, EmissionAssumption

\* What may come of a call: it is given up, or it is what the class returns.
LEMMA LevelAnswers ==
  ASSUME NEW ask, NEW n \in Nat, NEW what \in Questions, NEW e \in Emissions, NEW t \in DOMAIN dies
  PROVE  LET f == Level(ask, n)[<<what, e, t>>]
         IN  \/ f = GivenUp(e)
             \/ /\ ~e.raised /\ ~f.raised
                /\ f = Answer(ask, what, e, t) /\ n # 0
<1>1. Level(ask, n)[<<what, e, t>>] = Given(ask, n, <<what, e, t>>)
  BY DEF Level
<1>2. \/ Given(ask, n, <<what, e, t>>) = GivenUp(e)
      \/ /\ ~e.raised /\ ~Answer(ask, what, e, t).raised /\ n # 0
         /\ Given(ask, n, <<what, e, t>>) = Answer(ask, what, e, t)
  BY DEF Given
<1> QED BY <1>1, <1>2

\* What the class returns is what comes of a call unless it raises.
LEMMA LevelGives ==
  ASSUME NEW ask, NEW n \in Nat, n # 0, NEW what \in Questions, NEW e \in Emissions, NEW t \in DOMAIN dies,
         ~e.raised, ~Answer(ask, what, e, t).raised
  PROVE  ~Level(ask, n)[<<what, e, t>>].raised
<1>1. Level(ask, n)[<<what, e, t>>] = Given(ask, n, <<what, e, t>>)
  BY DEF Level
<1> QED BY <1>1 DEF Given

LEMMA AnswersTyped ==
  ASSUME Program
  PROVE  Typed(Answers)
<1> DEFINE Q == {ask \in [Questions \X Emissions \X DOMAIN dies -> Emissions] : Typed(ask)}
<1>1. ASSUME NEW ask, NEW n \in Nat, n = 0 \/ ask \in Q PROVE Level(ask, n) \in Q
  <2>1. ASSUME NEW what \in Questions, NEW e \in Emissions, NEW t \in DOMAIN dies
        PROVE  Step(e, Level(ask, n)[<<what, e, t>>])
    <3> DEFINE f == Level(ask, n)[<<what, e, t>>]
    <3>1. f = GivenUp(e) \/ (f = Answer(ask, what, e, t) /\ n # 0)
      BY LevelAnswers
    <3> HIDE DEF f
    <3>2. CASE f = GivenUp(e)
      BY <3>2, GivenUpFacts DEF Step, f
    <3>3. CASE f = Answer(ask, what, e, t) /\ n # 0
      BY <1>1, <3>3, AnswerTyped DEF f
    <3> QED BY <3>1, <3>2, <3>3
  <2>2. Typed(Level(ask, n))
    BY <2>1 DEF Typed
  <2>3. \A q \in Questions \X Emissions \X DOMAIN dies : Level(ask, n)[q] \in Emissions
    BY <2>1 DEF Step
  <2>4. Level(ask, n) \in [Questions \X Emissions \X DOMAIN dies -> Emissions]
    <3>1. Level(ask, n) = [q \in Questions \X Emissions \X DOMAIN dies |-> Level(ask, n)[q]]
      BY DEF Level
    <3> QED BY <2>3, <3>1
  <2> QED BY <2>2, <2>4
<1> HIDE DEF Q
<1>2. Answers \in Q
  BY <1>1, CallInduction
<1> QED BY <1>2 DEF Q

-----------------------------------------------------------------------------
(* What is so of an emission whenever a call is made *)

Done(e, t)    == Status(e, t) = "DONE"
Reached(e, t) == Modifier(t) => t \in e.linked
Known(e, t)   == Reached(e, t) /\ (Named(t) => Status(e, t) # "NEW")
Ready(e, t)   == Known(e, t) /\ (Named(t) \/ Done(e, t))

\* Is there no pointer between the type and the one it is made of?
Straight(t) == Kind(Stem(t)) # "pointer"
Opaque(t)   == Kind(Innermost(t)) = "declared"

Mentioned(e) == {e.header[i].of : i \in DOMAIN e.header}
Finished(e)  == Completed(e.header, Len(e.header) + 1)
Undefined    == {t \in DOMAIN dies : Kind(t) = "declared"}

\* Is what is stored in an object of the type, or an array, as complete as it gets?
Complete(e, t) == ByValue(Stem(t)) \subseteq Finished(e) \cup Undefined
Fit(e, t)      == Known(e, t) /\ Complete(e, t)

LinksLead(e) ==
  \A t \in e.linked :
    /\ Modifier(t) \/ Kind(t) = "typedef"
    /\ Target(t) \in Range(e.made) /\ Known(e, Target(t))

TypedefsLinked(e) ==
  \A t \in DOMAIN dies :
    Kind(t) = "typedef" /\ e.status[t] # "NEW" =>
      t \in e.linked /\ (e.status[t] = "DONE" => Complete(e, Target(t)))

StatusFits(e) ==
  \A t \in DOMAIN dies :
    /\ Kind(t) = "declared" => e.status[t] # "DONE"
    /\ Kind(t) = "base" => e.status[t] = "DONE"
    /\ Kind(t) \in {"enum", "function", "unknown"} => e.status[t] # "DECLARED"
    /\ Kind(t) = "struct" /\ ~dies[t].named => e.status[t] # "DECLARED"

FilledFirst(e) ==
  \A t \in DOMAIN dies : Kind(t) \in {"struct", "function"} /\ e.status[t] = "DONE" => t \in e.filled

\* The result of a function is looked at before the function is done.
PartsReady(e) ==
  \A t \in e.filled :
    /\ Kind(t) \in {"struct", "function"}
    /\ \A m \in Range(dies[t].of) :
         /\ m \in Range(e.made) /\ Fit(e, m)
         /\ Kind(t) = "struct" \/ m \in Range(Tail(dies[t].of)) \/ e.status[t] = "DONE" => Ready(e, m)

\* The header so far: no tag is first met among parameters, and what has to be
\* complete in a statement is.
Orderly(e) ==
  /\ TagsVisible(e.header)
  /\ ~EarlyArrays => \A i \in DOMAIN e.header :
       TextOf(e.header[i]).needs \subseteq Completed(e.header, i) \cup Undefined

\* X: those about to be stated.
Kept(e, X) ==
  \A t \in Tagged \ X :
    /\ e.status[t] # "NEW" => t \in Mentioned(e)
    /\ e.status[t] = "DONE" => t \in Finished(e)

Inv(e, X) ==
  /\ LinksLead(e) /\ TypedefsLinked(e) /\ StatusFits(e) /\ FilledFirst(e)
  /\ PartsReady(e) /\ Kept(e, X) /\ Orderly(e)

\* What a call adds.  X: the types without a name it may leave unfinished.
Grow(e, f, X) ==
  /\ Range(e.made) \subseteq Range(f.made) /\ e.linked \subseteq f.linked /\ e.filled \subseteq f.filled
  /\ Mentioned(e) \subseteq Mentioned(f) /\ Finished(e) \subseteq Finished(f)
  /\ \A t \in DOMAIN dies : e.status[t] = "NEW" \/ f.status[t] \in {e.status[t], "DONE"}
  /\ \A t \in Range(f.made) \ Range(e.made) :
       Reached(f, t) /\ (Named(t) \/ Done(f, t) \/ Innermost(t) \in X)

LEMMA RangeMade ==
  ASSUME NEW e \in Emissions PROVE Range(e.made) \subseteq DOMAIN dies
<1>1. \A i \in DOMAIN e.made : e.made[i] \in DOMAIN dies
  BY EmissionFacts
<1> QED BY <1>1 DEF Range

LEMMA StatusIn ==
  ASSUME Program, NEW e \in Emissions, NEW t \in DOMAIN dies
  PROVE  /\ Innermost(t) \in DOMAIN dies /\ Status(e, t) = e.status[Innermost(t)]
         /\ Status(e, t) \in Statuses
         /\ ~Modifier(t) => Status(e, t) = e.status[t]
BY InnermostFacts, EmissionFacts DEF Status

LEMMA StraightStep ==
  ASSUME Program, NEW t \in DOMAIN dies
  PROVE  /\ Kind(t) \in {"qualified", "array"} => Straight(t) = Straight(Target(t))
         /\ Kind(t) = "pointer" => ~Straight(t)
         /\ ~Modifier(t) => Straight(t)
BY StemStep DEF Straight, Inner, Modifier, Modifiers

LEMMA GrowKeeps ==
  ASSUME Program, NEW e \in Emissions, NEW f \in Emissions, NEW X, Grow(e, f, X), NEW t \in DOMAIN dies
  PROVE  /\ Reached(e, t) => Reached(f, t)
         /\ Status(e, t) # "NEW" => Status(f, t) # "NEW"
         /\ Done(e, t) => Done(f, t)
         /\ Known(e, t) => Known(f, t)
         /\ Ready(e, t) => Ready(f, t)
         /\ Complete(e, t) => Complete(f, t)
         /\ Fit(e, t) => Fit(f, t)
<1>1. Innermost(t) \in DOMAIN dies
  BY InnermostFacts
<1>2. e.status[Innermost(t)] = "NEW" \/ f.status[Innermost(t)] \in {e.status[Innermost(t)], "DONE"}
  BY <1>1 DEF Grow
<1>3. e.linked \subseteq f.linked
  BY DEF Grow
<1>4. Finished(e) \subseteq Finished(f)
  BY DEF Grow
<1> QED BY <1>2, <1>3, <1>4 DEF Reached, Known, Ready, Done, Status, Complete, Fit

LEMMA GrowSame == ASSUME NEW e \in Emissions PROVE Grow(e, e, {})
BY DEF Grow

LEMMA GrowTransitive ==
  ASSUME Program, NEW e \in Emissions, NEW f \in Emissions, NEW g \in Emissions, NEW X, NEW Y,
         Grow(e, f, X), Grow(f, g, Y)
  PROVE  Grow(e, g, X \cup Y)
<1>1. \A t \in DOMAIN dies : e.status[t] = "NEW" \/ g.status[t] \in {e.status[t], "DONE"}
  BY DEF Grow
<1>2. ASSUME NEW t \in Range(g.made), t \notin Range(e.made)
      PROVE  Reached(g, t) /\ (Named(t) \/ Done(g, t) \/ Innermost(t) \in X \cup Y)
  <2>1. CASE t \in Range(f.made)
    <3>1. t \in DOMAIN dies
      BY RangeMade
    <3>2. Reached(f, t) /\ (Named(t) \/ Done(f, t) \/ Innermost(t) \in X)
      BY <1>2, <2>1 DEF Grow
    <3> QED BY <3>1, <3>2, GrowKeeps
  <2>2. CASE t \notin Range(f.made)
    BY <1>2, <2>2 DEF Grow
  <2> QED BY <2>1, <2>2
<1> QED BY <1>1, <1>2 DEF Grow

\* What has been left unfinished is finished in the end.
LEMMA GrowFinish ==
  ASSUME Program, NEW e \in Emissions, NEW f \in Emissions, NEW u \in DOMAIN dies,
         Grow(e, f, {Innermost(u)}), Named(u) \/ Done(f, u)
  PROVE  Grow(e, f, {})
<1>1. ASSUME NEW t \in Range(f.made), Innermost(t) = Innermost(u)
      PROVE  Named(t) \/ Done(f, t)
  BY <1>1 DEF Named, Done, Status
<1> QED BY <1>1 DEF Grow

LEMMA GrowMore ==
  ASSUME NEW e, NEW f, NEW X, NEW Y, Grow(e, f, X), X \subseteq Y PROVE Grow(e, f, Y)
BY DEF Grow

LEMMA InvMore == ASSUME NEW e, NEW X, Inv(e, {}) PROVE Inv(e, X)
BY DEF Inv, Kept

LEMMA InvExempt ==
  ASSUME NEW e, NEW t, Inv(e, {t}), t \notin Tagged PROVE Inv(e, {})
BY DEF Inv, Kept

LEMMA MadeSame ==
  ASSUME Program, NEW e \in Emissions, NEW u \in DOMAIN dies, Inv(e, {})
  PROVE  /\ Inv(Made(e, u), {})
         /\ \A t : /\ Status(Made(e, u), t) = Status(e, t)
                   /\ Reached(Made(e, u), t) = Reached(e, t) /\ Known(Made(e, u), t) = Known(e, t)
                   /\ Ready(Made(e, u), t) = Ready(e, t) /\ Complete(Made(e, u), t) = Complete(e, t)
<1> DEFINE f == Made(e, u)
<1>1. /\ Range(f.made) = Range(e.made) \cup {u} /\ f.linked = e.linked /\ f.filled = e.filled
      /\ f.status = e.status /\ f.header = e.header
  BY MadeFacts
<1> HIDE DEF f
<1>2. Mentioned(f) = Mentioned(e) /\ Finished(f) = Finished(e) /\ (Orderly(f) <=> Orderly(e))
  BY <1>1 DEF Mentioned, Finished, Orderly
<1>3. \A t : /\ Status(f, t) = Status(e, t) /\ Reached(f, t) = Reached(e, t)
             /\ Known(f, t) = Known(e, t) /\ Ready(f, t) = Ready(e, t)
             /\ Complete(f, t) = Complete(e, t) /\ Fit(f, t) = Fit(e, t)
  BY <1>1, <1>2 DEF Status, Reached, Known, Ready, Done, Complete, Fit
<1>4. Kept(f, {}) /\ FilledFirst(f) /\ StatusFits(f) /\ TypedefsLinked(f) /\ Orderly(f)
  BY <1>1, <1>2, <1>3 DEF Inv, Kept, FilledFirst, StatusFits, TypedefsLinked
<1>5. LinksLead(f) /\ PartsReady(f)
  BY <1>1, <1>3 DEF Inv, LinksLead, PartsReady
<1> QED BY <1>3, <1>4, <1>5 DEF Inv, f

LEMMA GrowFromMade ==
  ASSUME Program, NEW e \in Emissions, NEW f \in Emissions, NEW u \in DOMAIN dies, NEW X,
         Grow(Made(e, u), f, X), Reached(f, u), Named(u) \/ Done(f, u) \/ Innermost(u) \in X
  PROVE  Grow(e, f, X) /\ u \in Range(f.made)
<1>1. /\ Range(Made(e, u).made) = Range(e.made) \cup {u}
      /\ Made(e, u).linked = e.linked /\ Made(e, u).filled = e.filled
      /\ Made(e, u).status = e.status /\ Made(e, u).header = e.header
  BY MadeFacts
<1>2. Mentioned(Made(e, u)) = Mentioned(e) /\ Finished(Made(e, u)) = Finished(e)
  BY <1>1 DEF Mentioned, Finished
<1> QED BY <1>1, <1>2 DEF Grow

LEMMA LinkingKeeps ==
  ASSUME Program, NEW e \in Emissions, NEW t \in DOMAIN dies, Inv(e, {}),
         Modifier(t) \/ Kind(t) = "typedef", Target(t) \in Range(e.made), Known(e, Target(t))
  PROVE  Inv(Linking(e, t), {}) /\ Grow(e, Linking(e, t), {})
<1> DEFINE f == Linking(e, t)
<1>1. /\ f \in Emissions /\ f.made = e.made /\ f.linked = e.linked \cup {t} /\ f.filled = e.filled
      /\ f.status = e.status /\ f.header = e.header
  BY LinkingFacts
<1> HIDE DEF f
<1>2. /\ Mentioned(f) = Mentioned(e) /\ Finished(f) = Finished(e) /\ (Orderly(f) <=> Orderly(e))
      /\ \A u : Complete(f, u) = Complete(e, u)
  BY <1>1 DEF Mentioned, Finished, Orderly, Complete
<1>3. Grow(e, f, {})
  BY <1>1, <1>2 DEF Grow
<1>4. \A u \in DOMAIN dies : /\ Known(e, u) => Known(f, u)
                             /\ Ready(e, u) => Ready(f, u)
  BY <1>1, <1>3, GrowKeeps
<1>5. Range(e.made) \subseteq DOMAIN dies
  BY RangeMade
<1>6. LinksLead(f)
  BY <1>1, <1>4, <1>5 DEF Inv, LinksLead
<1>7. PartsReady(f)
  BY <1>1, <1>2, <1>4, <1>5 DEF Inv, PartsReady, Fit
<1>8. TypedefsLinked(f) /\ StatusFits(f) /\ FilledFirst(f) /\ Kept(f, {}) /\ Orderly(f)
  BY <1>1, <1>2 DEF Inv, TypedefsLinked, StatusFits, FilledFirst, Kept
<1> QED BY <1>3, <1>6, <1>7, <1>8 DEF Inv, f

LEMMA FillingKeeps ==
  ASSUME Program, NEW e \in Emissions, NEW t \in DOMAIN dies, Inv(e, {}),
         Kind(t) \in {"struct", "function"},
         \A m \in Range(dies[t].of) :
           /\ m \in Range(e.made) /\ Fit(e, m)
           /\ Kind(t) = "struct" \/ m \in Range(Tail(dies[t].of)) \/ e.status[t] = "DONE" => Ready(e, m)
  PROVE  Inv(Filling(e, t), {}) /\ Grow(e, Filling(e, t), {})
<1> DEFINE f == Filling(e, t)
<1>1. /\ f \in Emissions /\ f.made = e.made /\ f.linked = e.linked /\ f.filled = e.filled \cup {t}
      /\ f.status = e.status /\ f.header = e.header
  BY FillingFacts
<1> HIDE DEF f
<1>2. /\ Mentioned(f) = Mentioned(e) /\ Finished(f) = Finished(e) /\ (Orderly(f) <=> Orderly(e))
      /\ \A u : Complete(f, u) = Complete(e, u)
  BY <1>1 DEF Mentioned, Finished, Orderly, Complete
<1>3. \A u : Known(f, u) = Known(e, u) /\ Ready(f, u) = Ready(e, u) /\ Fit(f, u) = Fit(e, u)
  BY <1>1, <1>2 DEF Known, Ready, Reached, Status, Done, Fit
<1>4. Grow(e, f, {})
  BY <1>1, <1>2 DEF Grow
<1>5. LinksLead(f)
  BY <1>1, <1>3 DEF Inv, LinksLead
<1>6. PartsReady(f)
  BY <1>1, <1>3 DEF Inv, PartsReady
<1>7. TypedefsLinked(f) /\ StatusFits(f) /\ FilledFirst(f) /\ Kept(f, {}) /\ Orderly(f)
  BY <1>1, <1>2 DEF Inv, TypedefsLinked, StatusFits, FilledFirst, Kept
<1> QED BY <1>4, <1>5, <1>6, <1>7 DEF Inv, f

LEMMA SettingDoneKeeps ==
  ASSUME Program, NEW e \in Emissions, NEW t \in DOMAIN dies, Inv(e, {}),
         Kind(t) # "declared",
         Kind(t) \in {"struct", "function"} => t \in e.filled,
         Kind(t) = "function" => \A m \in Range(dies[t].of) : Ready(e, m),
         Kind(t) = "typedef" => t \in e.linked /\ Complete(e, Target(t))
  PROVE  Inv(Setting(e, t, "DONE"), {t}) /\ Grow(e, Setting(e, t, "DONE"), {})
<1> DEFINE f == Setting(e, t, "DONE")
<1>1. /\ f \in Emissions /\ f.made = e.made /\ f.linked = e.linked /\ f.filled = e.filled
      /\ f.status[t] = "DONE" /\ \A u \in DOMAIN dies : u # t => f.status[u] = e.status[u]
      /\ f.header = e.header
  BY SettingFacts DEF Statuses
<1> HIDE DEF f
<1>2. /\ Mentioned(f) = Mentioned(e) /\ Finished(f) = Finished(e) /\ (Orderly(f) <=> Orderly(e))
      /\ \A u : Complete(f, u) = Complete(e, u)
  BY <1>1 DEF Mentioned, Finished, Orderly, Complete
<1>3. \A u \in DOMAIN dies : e.status[u] = "NEW" \/ f.status[u] \in {e.status[u], "DONE"}
  BY <1>1
<1>4. Grow(e, f, {})
  BY <1>1, <1>2, <1>3 DEF Grow
<1>5. \A u \in DOMAIN dies : /\ Known(e, u) => Known(f, u)
                             /\ Ready(e, u) => Ready(f, u)
                             /\ Fit(e, u) => Fit(f, u)
  BY <1>1, <1>4, GrowKeeps
<1>6. Range(e.made) \subseteq DOMAIN dies
  BY RangeMade
<1>7. LinksLead(f)
  BY <1>1, <1>5, <1>6 DEF Inv, LinksLead
<1>8. PartsReady(f)
  <2> SUFFICES ASSUME NEW u \in f.filled
               PROVE  /\ Kind(u) \in {"struct", "function"}
                      /\ \A m \in Range(dies[u].of) :
                           /\ m \in Range(f.made) /\ Fit(f, m)
                           /\ Kind(u) = "struct" \/ m \in Range(Tail(dies[u].of)) \/ f.status[u] = "DONE"
                                => Ready(f, m)
    BY DEF PartsReady
  <2>1. u \in DOMAIN dies /\ u \in e.filled
    BY <1>1, EmissionFacts
  <2>2. Range(dies[u].of) \subseteq DOMAIN dies
    BY <2>1, EntryFacts DEF Program
  <2>3. CASE u = t
    BY <1>1, <1>5, <2>1, <2>2, <2>3 DEF Inv, PartsReady
  <2>4. CASE u # t
    BY <1>1, <1>5, <2>1, <2>2, <2>4 DEF Inv, PartsReady
  <2> QED BY <2>3, <2>4
<1>9. TypedefsLinked(f) /\ FilledFirst(f) /\ Orderly(f)
  BY <1>1, <1>2 DEF Inv, TypedefsLinked, FilledFirst
<1>10. StatusFits(f)
  BY <1>1 DEF Inv, StatusFits
<1>11. Kept(f, {t})
  <2>1. Tagged \subseteq DOMAIN dies
    BY DEF Tagged
  <2> QED BY <1>1, <1>2, <2>1 DEF Inv, Kept
<1> QED BY <1>4, <1>7, <1>8, <1>9, <1>10, <1>11 DEF Inv, f

LEMMA SettingDeclaredKeeps ==
  ASSUME Program, NEW e \in Emissions, NEW t \in DOMAIN dies, Inv(e, {}),
         Kind(t) \in {"struct", "declared"}, dies[t].named, e.status[t] # "DONE"
  PROVE  Inv(Setting(e, t, "DECLARED"), {t}) /\ Grow(e, Setting(e, t, "DECLARED"), {})
<1> DEFINE f == Setting(e, t, "DECLARED")
<1>1. /\ f \in Emissions /\ f.made = e.made /\ f.linked = e.linked /\ f.filled = e.filled
      /\ f.status[t] = "DECLARED" /\ \A u \in DOMAIN dies : u # t => f.status[u] = e.status[u]
      /\ f.header = e.header
  BY SettingFacts DEF Statuses
<1> HIDE DEF f
<1>2. /\ Mentioned(f) = Mentioned(e) /\ Finished(f) = Finished(e) /\ (Orderly(f) <=> Orderly(e))
      /\ \A u : Complete(f, u) = Complete(e, u)
  BY <1>1 DEF Mentioned, Finished, Orderly, Complete
<1>3. \A u \in DOMAIN dies : e.status[u] = "NEW" \/ f.status[u] \in {e.status[u], "DONE"}
  BY <1>1, EmissionFacts DEF Statuses
<1>4. Grow(e, f, {})
  BY <1>1, <1>2, <1>3 DEF Grow
<1>5. \A u \in DOMAIN dies : /\ Known(e, u) => Known(f, u)
                             /\ Ready(e, u) => Ready(f, u)
                             /\ Fit(e, u) => Fit(f, u)
  BY <1>1, <1>4, GrowKeeps
<1>6. Range(e.made) \subseteq DOMAIN dies
  BY RangeMade
<1>7. LinksLead(f)
  BY <1>1, <1>5, <1>6 DEF Inv, LinksLead
<1>8. PartsReady(f)
  <2> SUFFICES ASSUME NEW u \in f.filled
               PROVE  /\ Kind(u) \in {"struct", "function"}
                      /\ \A m \in Range(dies[u].of) :
                           /\ m \in Range(f.made) /\ Fit(f, m)
                           /\ Kind(u) = "struct" \/ m \in Range(Tail(dies[u].of)) \/ f.status[u] = "DONE"
                                => Ready(f, m)
    BY DEF PartsReady
  <2>1. u \in DOMAIN dies /\ u \in e.filled
    BY <1>1, EmissionFacts
  <2>2. Range(dies[u].of) \subseteq DOMAIN dies
    BY <2>1, EntryFacts DEF Program
  <2> QED BY <1>1, <1>5, <2>1, <2>2 DEF Inv, PartsReady
<1>9. TypedefsLinked(f) /\ FilledFirst(f) /\ Orderly(f)
  BY <1>1, <1>2 DEF Inv, TypedefsLinked, FilledFirst
<1>10. StatusFits(f)
  BY <1>1 DEF Inv, StatusFits
<1>11. Kept(f, {t})
  <2>1. Tagged \subseteq DOMAIN dies
    BY DEF Tagged
  <2> QED BY <1>1, <1>2, <2>1 DEF Inv, Kept
<1> QED BY <1>4, <1>7, <1>8, <1>9, <1>10, <1>11 DEF Inv, f

\* A typedef that was new when its declaration began may have been defined
\* meanwhile, if its definition asks for itself.
LEMMA SettingTypedefKeeps ==
  ASSUME Program, NEW e \in Emissions, NEW t \in DOMAIN dies, Inv(e, {}),
         Kind(t) = "typedef", t \in e.linked,
         NEW b \in Emissions, NEW X, Grow(b, e, X), b.status[t] = "NEW"
  PROVE  Inv(Setting(e, t, "DECLARED"), {}) /\ Grow(b, Setting(e, t, "DECLARED"), X)
<1> DEFINE f == Setting(e, t, "DECLARED")
<1>1. /\ f \in Emissions /\ f.made = e.made /\ f.linked = e.linked /\ f.filled = e.filled
      /\ f.status[t] = "DECLARED" /\ \A u \in DOMAIN dies : u # t => f.status[u] = e.status[u]
      /\ f.header = e.header
  BY SettingFacts DEF Statuses
<1> HIDE DEF f
<1>2. /\ Mentioned(f) = Mentioned(e) /\ Finished(f) = Finished(e) /\ (Orderly(f) <=> Orderly(e))
      /\ \A u : Complete(f, u) = Complete(e, u)
  BY <1>1 DEF Mentioned, Finished, Orderly, Complete
<1>3. ASSUME NEW u \in DOMAIN dies
      PROVE  /\ Reached(f, u) = Reached(e, u)
             /\ Status(e, u) # "NEW" => Status(f, u) # "NEW"
             /\ Named(u) \/ (Done(e, u) => Done(f, u))
  <2>1. Innermost(u) \in DOMAIN dies
    BY InnermostFacts
  <2>2. CASE Innermost(u) = t
    <3>1. Named(u)
      BY <2>2, EntryFacts DEF Named, Program
    <3> QED BY <1>1, <2>2, <3>1 DEF Reached, Status
  <2>3. CASE Innermost(u) # t
    BY <1>1, <2>1, <2>3 DEF Reached, Status, Done
  <2> QED BY <2>2, <2>3
<1>4. \A u \in DOMAIN dies : /\ Known(e, u) => Known(f, u)
                             /\ Ready(e, u) => Ready(f, u)
                             /\ Fit(e, u) => Fit(f, u)
  BY <1>2, <1>3 DEF Known, Ready, Fit
<1>5. Range(e.made) \subseteq DOMAIN dies
  BY RangeMade
<1>6. Grow(b, f, X)
  <2>1. \A u \in DOMAIN dies : b.status[u] = "NEW" \/ f.status[u] \in {b.status[u], "DONE"}
    BY <1>1 DEF Grow
  <2>2. \A u \in Range(f.made) \ Range(b.made) :
          Reached(f, u) /\ (Named(u) \/ Done(f, u) \/ Innermost(u) \in X)
    BY <1>1, <1>3, <1>5 DEF Grow
  <2> QED BY <1>1, <1>2, <2>1, <2>2 DEF Grow
<1>7. LinksLead(f)
  BY <1>1, <1>4, <1>5 DEF Inv, LinksLead
<1>8. PartsReady(f)
  <2>1. \A u \in e.filled : Kind(u) \in {"struct", "function"} /\ u # t /\ u \in DOMAIN dies
    BY EmissionFacts DEF Inv, PartsReady
  <2>2. \A u \in e.filled : Range(dies[u].of) \subseteq DOMAIN dies
    BY <2>1, EntryFacts DEF Program
  <2> QED BY <1>1, <1>4, <2>1, <2>2 DEF Inv, PartsReady
<1>9. TypedefsLinked(f) /\ FilledFirst(f) /\ Orderly(f)
  BY <1>1, <1>2 DEF Inv, TypedefsLinked, FilledFirst
<1>10. StatusFits(f)
  BY <1>1 DEF Inv, StatusFits
<1>11. Kept(f, {})
  <2>1. Tagged \subseteq DOMAIN dies /\ t \notin Tagged
    BY DEF Tagged
  <2> QED BY <1>1, <1>2, <2>1 DEF Inv, Kept
<1> QED BY <1>6, <1>7, <1>8, <1>9, <1>10, <1>11 DEF Inv, f

\* What the statement asks for is there.
Statable(e, t, form) ==
  LET x == TextOf([of |-> t, form |-> form])
  IN  /\ x.protos \subseteq Mentioned(e) \cup {t}
      /\ ~EarlyArrays => x.needs \subseteq Finished(e) \cup Undefined

LEMMA EmittedSets ==
  ASSUME NEW e \in Emissions, NEW t \in DOMAIN dies, NEW form \in {"declare", "define"}
  PROVE  /\ Mentioned(Emitted(e, t, form)) = Mentioned(e) \cup {t}
         /\ Finished(e) \subseteq Finished(Emitted(e, t, form))
         /\ Completes([of |-> t, form |-> form]) => t \in Finished(Emitted(e, t, form))
         /\ Statable(e, t, form) /\ Orderly(e) => Orderly(Emitted(e, t, form))
<1> DEFINE f == Emitted(e, t, form)
           s == [of |-> t, form |-> form]
           N == Len(e.header)
<1>1. f.header = Append(e.header, s)
  BY EmittedFacts
<1>2. /\ N \in Nat /\ DOMAIN e.header = 1 .. N
      /\ Len(f.header) = N + 1 /\ DOMAIN f.header = 1 .. N + 1
      /\ \A i \in 1 .. N : f.header[i] = e.header[i]
      /\ f.header[N + 1] = s /\ s.of = t
  <2>1. e.header \in Seq(Statements) /\ s \in Statements
    BY EmissionFacts DEF Statements
  <2> HIDE DEF s, f
  <2>2. /\ Len(Append(e.header, s)) = N + 1 /\ Append(e.header, s) \in Seq(Statements)
        /\ \A i \in 1 .. N : Append(e.header, s)[i] = e.header[i]
        /\ Append(e.header, s)[N + 1] = s
    BY <2>1, AppendProperties
  <2> QED BY <1>1, <2>1, <2>2 DEF s
<1> HIDE DEF f, s
<1>3. Mentioned(f) = Mentioned(e) \cup {t}
  <2>1. Mentioned(f) = {f.header[i].of : i \in 1 .. N + 1} /\ Mentioned(e) = {e.header[i].of : i \in 1 .. N}
    BY <1>2 DEF Mentioned
  <2>2. \A i \in 1 .. N + 1 : i = N + 1 \/ i \in 1 .. N
    BY <1>2
  <2>3. N + 1 \in 1 .. N + 1 /\ 1 .. N \subseteq 1 .. N + 1
    BY <1>2
  <2>4. Mentioned(f) \subseteq Mentioned(e) \cup {t}
    BY <1>2, <2>1, <2>2
  <2>5. Mentioned(e) \cup {t} \subseteq Mentioned(f)
    BY <1>2, <2>1, <2>3
  <2> QED BY <2>4, <2>5
<1>4. Finished(e) = {e.header[j].of : j \in {k \in 1 .. N : Completes(e.header[k])}}
  BY <1>2 DEF Finished, Completed
<1>5. Finished(f) = {f.header[j].of : j \in {k \in 1 .. N + 1 : Completes(f.header[k])}}
  BY <1>2 DEF Finished, Completed
<1>6. Finished(e) \subseteq Finished(f)
  BY <1>2, <1>4, <1>5
<1>7. Completes(s) => t \in Finished(f)
  BY <1>2, <1>5
<1>8. ASSUME NEW i \in 1 .. N + 1
      PROVE  /\ Completed(f.header, i) = Completed(e.header, i)
             /\ Tags(f.header, i) = Tags(e.header, i)
  <2>1. 1 .. i - 1 \subseteq 1 .. N
    BY <1>2
  <2>2. \A j \in 1 .. i - 1 : f.header[j] = e.header[j]
    BY <1>2, <2>1
  <2> QED BY <2>2 DEF Completed, Tags
<1>9. Completed(f.header, N + 1) = Finished(e) /\ Mentioned(e) \subseteq Tags(f.header, N + 1)
  <2>1. N + 1 \in 1 .. N + 1 /\ N + 1 - 1 = N
    BY <1>2
  <2>2. Tags(e.header, N + 1) = UNION {TextOf(e.header[j]).tags \cup {e.header[j].of} : j \in 1 .. N}
    <3> DEFINE K == N + 1
    <3>1. K - 1 = N
      BY <2>1
    <3> HIDE DEF K
    <3>2. Tags(e.header, K) = UNION {TextOf(e.header[j]).tags \cup {e.header[j].of} : j \in 1 .. N}
      BY <3>1 DEF Tags
    <3> QED BY <3>2 DEF K
  <2> HIDE DEF N
  <2>3. Tags(f.header, N + 1) = Tags(e.header, N + 1) /\ Completed(f.header, N + 1) = Completed(e.header, N + 1)
    BY <1>8, <2>1
  <2> QED BY <1>2, <2>2, <2>3 DEF Finished, Mentioned, N
<1>10. ASSUME Statable(e, t, form), Orderly(e)
       PROVE  Orderly(f)
  <2>1. /\ TextOf(s).protos \subseteq Mentioned(e) \cup {t}
        /\ ~EarlyArrays => TextOf(s).needs \subseteq Finished(e) \cup Undefined
    BY <1>10 DEF Statable, s
  <2>2. \A i \in 1 .. N + 1 : i = N + 1 \/ i \in 1 .. N
    BY <1>2
  <2>3. ASSUME NEW i \in 1 .. N + 1
        PROVE  /\ TextOf(f.header[i]).protos \subseteq Tags(f.header, i) \cup {f.header[i].of}
               /\ ~EarlyArrays => TextOf(f.header[i]).needs \subseteq Completed(f.header, i) \cup Undefined
    <3>1. CASE i = N + 1
      BY <1>2, <1>9, <2>1, <3>1
    <3>2. CASE i \in 1 .. N
      <4>1. /\ TextOf(e.header[i]).protos \subseteq Tags(e.header, i) \cup {e.header[i].of}
            /\ ~EarlyArrays => TextOf(e.header[i]).needs \subseteq Completed(e.header, i) \cup Undefined
        BY <1>2, <1>10, <3>2 DEF Orderly, TagsVisible
      <4> QED BY <1>2, <1>8, <3>2, <4>1
    <3> QED BY <2>2, <3>1, <3>2
  <2> QED BY <1>2, <2>3 DEF Orderly, TagsVisible
<1> QED BY <1>3, <1>6, <1>7, <1>10 DEF f, s

LEMMA EmitKeeps ==
  ASSUME Program, NEW e \in Emissions, NEW t \in DOMAIN dies, NEW form \in {"declare", "define"},
         ~e.raised, Inv(e, {t}),
         t \in Tagged /\ e.status[t] = "DONE" => Completes([of |-> t, form |-> form]),
         Kind(t) \notin {"array", "pointer"} => Statable(e, t, form)
  PROVE  Inv(Emit(e, t, form), {}) /\ Grow(e, Emit(e, t, form), {})
<1>1. CASE Kind(t) \in {"array", "pointer"}
  <2>1. Emit(e, t, form) = e /\ t \notin Tagged
    BY <1>1 DEF Emit, Tagged
  <2> QED BY <2>1, InvExempt, GrowSame
<1>2. CASE Kind(t) \notin {"array", "pointer"}
  <2> DEFINE f == Emitted(e, t, form)
  <2>1. Emit(e, t, form) = f
    BY <1>2 DEF Emit
  <2>2. /\ f.made = e.made /\ f.linked = e.linked /\ f.filled = e.filled /\ f.status = e.status
    BY EmittedFacts
  <2>3. /\ Mentioned(f) = Mentioned(e) \cup {t} /\ Finished(e) \subseteq Finished(f)
        /\ Completes([of |-> t, form |-> form]) => t \in Finished(f)
        /\ Orderly(f)
    BY <1>2, EmittedSets DEF Inv
  <2> HIDE DEF f
  <2>4. /\ \A u : Known(f, u) = Known(e, u) /\ Ready(f, u) = Ready(e, u)
        /\ \A u : Complete(e, u) => Complete(f, u)
    BY <2>2, <2>3 DEF Known, Ready, Reached, Status, Done, Complete
  <2>5. Grow(e, f, {})
    BY <2>2, <2>3 DEF Grow
  <2>6. LinksLead(f)
    BY <2>2, <2>4 DEF Inv, LinksLead
  <2>7. PartsReady(f)
    BY <2>2, <2>4 DEF Inv, PartsReady, Fit
  <2>8. TypedefsLinked(f) /\ StatusFits(f) /\ FilledFirst(f)
    BY <2>2, <2>4 DEF Inv, TypedefsLinked, StatusFits, FilledFirst
  <2>9. Kept(f, {})
    BY <2>2, <2>3 DEF Inv, Kept
  <2> QED BY <2>1, <2>3, <2>5, <2>6, <2>7, <2>8, <2>9 DEF Inv
<1> QED BY <1>1, <1>2

LEMMA GrowJoin ==
  ASSUME Program, NEW e \in Emissions, NEW f \in Emissions, NEW g \in Emissions, NEW X, NEW Y, NEW Z,
         Grow(e, f, X), Grow(f, g, Y), X \subseteq Z, Y \subseteq Z
  PROVE  Grow(e, g, Z)
<1>1. Grow(e, f, Z) /\ Grow(f, g, Z)
  BY GrowMore
<1>2. Z \cup Z = Z
  OBVIOUS
<1> QED BY <1>1, <1>2, GrowTransitive

-----------------------------------------------------------------------------
(* What a call promises, if it is not given up *)

Unit == Program /\ PassedByName /\ OpaqueBehindPointers

Part(t) == ~(Kind(t) = "function" /\ dies[t].named)

\* A reference to what has no name is to a function.
Referable(e, t) ==
  /\ Kind(t) \in {"struct", "enum"} => dies[t].named
  /\ Kind(t) = "function" /\ dies[t].named => Done(e, t)

\* Is a declaration of it good enough for what holds it?
Simple(t) == Kind(t) = "typedef" /\ ~EarlyArrays => ~ArrayOfStructs(t)

GoodTouch(e, t, f) ==
  Inv(e, {}) /\ ~f.raised =>
    /\ Inv(f, {}) /\ Grow(e, f, {Innermost(t)}) /\ Reached(f, t)
    /\ Reached(e, t) => f = e

GoodDeclare(e, t, f) ==
  Inv(e, {}) /\ ~f.raised /\ ~Modifier(t) /\ Named(t) /\ Kind(t) # "function" /\ e.status[t] = "NEW" /\ Simple(t) =>
    /\ Inv(f, {t}) /\ Grow(e, f, {}) /\ f.status[t] # "NEW"
    /\ Kind(t) = "struct" => f.status[t] = "DECLARED"
    /\ Kind(t) = "typedef" => Ready(f, Target(t))

GoodDefine(e, t, f) ==
  Inv(e, {}) /\ ~f.raised /\ Reached(e, t) =>
    /\ Inv(f, {t}) /\ Grow(e, f, {})
    /\ Named(t) => Status(f, t) # "NEW"
    /\ (Straight(t) \/ ~Named(t)) /\ ~Opaque(t) => Done(f, t)
    /\ Kind(t) = "typedef" => Ready(f, Target(t))
    /\ ~Named(t) /\ Done(e, t) => f = e

GoodRefer(e, t, f) ==
  Inv(e, {}) /\ ~f.raised /\ Known(e, t) /\ Referable(e, t) =>
    /\ Inv(f, {}) /\ Grow(e, f, {}) /\ Ready(f, t)
    /\ Ready(e, t) => f = e

Good(ask) ==
  \A e \in Emissions, t \in DOMAIN dies :
    /\ GoodTouch(e, t, Touch(ask, e, t)) /\ GoodDeclare(e, t, Declare(ask, e, t))
    /\ GoodDefine(e, t, Define(ask, e, t)) /\ GoodRefer(e, t, Refer(ask, e, t))

\* A modifier that is linked is known, and its target too.
LEMMA LinkedKnown ==
  ASSUME Program, NEW e \in Emissions, Inv(e, {}), NEW t \in DOMAIN dies, t \in e.linked
  PROVE  /\ Target(t) \in DOMAIN dies /\ Target(t) \in Range(e.made) /\ Known(e, Target(t))
         /\ Modifier(t) => Known(e, t) /\ Status(e, t) = Status(e, Target(t)) /\ Named(t) = Named(Target(t))
<1>1. (Modifier(t) \/ Kind(t) = "typedef") /\ Target(t) \in Range(e.made) /\ Known(e, Target(t))
  BY DEF Inv, LinksLead
<1>2. Target(t) \in DOMAIN dies
  BY <1>1, RangeMade
<1> QED BY <1>1, <1>2, InnermostFacts DEF Known, Reached, Status

-----------------------------------------------------------------------------
(* What a statement asks for is there *)

Readable(e, t) == Ready(e, t) /\ (Part(t) \/ Done(e, t))

\* The types below what is ready are, those in a struct or function complete too.
LEMMA ReadyParts ==
  ASSUME Program, NEW e \in Emissions, NEW X, Inv(e, X), NEW t \in DOMAIN dies,
         Readable(e, t), t \notin Tagged, Kind(t) # "typedef", NEW m \in Range(dies[t].of)
  PROVE  /\ m \in DOMAIN dies /\ m \in Leads[t] /\ Readable(e, m)
         /\ Modifier(t) => m = Target(t)
         /\ Kind(t) \in {"struct", "function"} => Complete(e, m)
<1>1. /\ Kind(t) \in Kinds /\ m \in DOMAIN dies /\ Part(m) /\ Range(dies[t].of) \subseteq DOMAIN dies
      /\ Kind(t) \in {"base", "unknown", "declared", "enum"} => dies[t].of = <<>>
      /\ Modifier(t) => m = Target(t)
      /\ Kind(t) = "function" => Range(dies[t].of) = {Target(t)} \cup Range(Tail(dies[t].of))
  BY EntryFacts DEF Program, Part
<1>2. m \in Leads[t]
  BY DEF Leads, Tagged
<1>3. CASE Modifier(t)
  <2>1. m = Target(t) /\ t \in e.linked
    BY <1>1, <1>3 DEF Readable, Ready, Known, Reached
  <2>2. Known(e, m)
    BY <2>1 DEF Inv, LinksLead
  <2>3. Named(t) = Named(m) /\ Done(e, t) = Done(e, m)
    BY <1>3, <2>1, InnermostFacts DEF Done, Status
  <2>4. Kind(t) \notin {"struct", "function"}
    BY <1>3 DEF Modifier, Modifiers
  <2> QED BY <1>1, <1>2, <2>2, <2>3, <2>4 DEF Readable, Ready
<1>4. CASE Kind(t) \in {"struct", "function"}
  <2>1. ~Modifier(t) /\ Innermost(t) = t /\ Named(t) = dies[t].named /\ Status(e, t) = e.status[t]
    BY <1>4, InnermostFacts DEF Modifier, Modifiers, Status
  <2>2. e.status[t] = "DONE"
    BY <1>4, <2>1 DEF Readable, Ready, Done, Part, Tagged
  <2>3. t \in e.filled
    BY <1>4, <2>2 DEF Inv, FilledFirst
  <2>4. Fit(e, m) /\ Ready(e, m)
    BY <2>2, <2>3 DEF Inv, PartsReady
  <2> QED BY <1>1, <1>2, <2>1, <2>4 DEF Readable, Fit
<1>5. CASE Kind(t) \in {"base", "unknown", "declared", "enum"}
  BY <1>1, <1>5 DEF Range
<1> QED BY <1>1, <1>3, <1>4, <1>5 DEF Kinds, Modifier

\* What has been defined, as far as it can be, is complete.
LEMMA CompleteBy ==
  ASSUME Program, NEW e \in Emissions, Inv(e, {}), NEW t \in DOMAIN dies,
         Named(t) /\ Straight(t) /\ ~Opaque(t) => Done(e, t)
  PROVE  Complete(e, t)
<1> DEFINE w == Stem(t)
<1>1. w \in DOMAIN dies /\ Kind(w) \notin Inner
  BY StemStep
<1>2. Innermost(w) = Innermost(t)
  BY StemInnermost
<1> HIDE DEF w
<1>3. CASE w \in Tagged
  <2>1. ~Modifier(w) /\ Kind(w) \notin Objects /\ dies[w].named
    BY <1>3 DEF Tagged, Modifier, Modifiers, Objects
  <2>2. Innermost(t) = w
    BY <1>1, <1>2, <2>1, InnermostFacts
  <2>3. ByValue(w) = {w}
    BY <1>1, <1>3, <2>1, ByValueStep
  <2>4. CASE Kind(w) = "declared"
    BY <1>1, <2>3, <2>4 DEF Complete, Undefined, w
  <2>5. CASE Kind(w) # "declared"
    <3>1. e.status[w] = "DONE"
      BY <1>3, <2>1, <2>2, <2>5 DEF Named, Straight, Opaque, Done, Status, Modifier, Modifiers, w
    <3>2. w \in Finished(e)
      BY <1>3, <3>1 DEF Inv, Kept
    <3> QED BY <2>3, <3>2 DEF Complete, w
  <2> QED BY <2>4, <2>5
<1>4. CASE Kind(w) = "typedef"
  <2>1. ~Modifier(w) /\ dies[w].named /\ Target(w) \in DOMAIN dies /\ Kind(w) \in Objects
    BY <1>1, <1>4, EntryFacts DEF Program, Modifier, Modifiers, Objects
  <2>2. Innermost(t) = w
    BY <1>1, <1>2, <2>1, InnermostFacts
  <2>3. e.status[w] = "DONE"
    BY <1>4, <2>1, <2>2 DEF Named, Straight, Opaque, Done, Status, w
  <2>4. Complete(e, Target(w))
    BY <1>1, <1>4, <2>3 DEF Inv, TypedefsLinked
  <2>5. ByValue(w) \subseteq ByValue(Stem(Target(w)))
    BY <1>1, <2>1, ByValueStep, StemByValue
  <2> QED BY <2>4, <2>5 DEF Complete, w
<1>5. CASE w \notin Tagged /\ Kind(w) # "typedef"
  <2>1. Kind(w) \notin Objects
    BY <1>1, <1>5 DEF Objects, Inner
  <2>2. ByValue(w) = {}
    BY <1>1, <1>5, <2>1, ByValueStep
  <2> QED BY <2>2 DEF Complete, w
<1> QED BY <1>3, <1>4, <1>5

\* The tags in the text of what is ready have been met.
LEMMA TagsMet ==
  ASSUME Program, NEW e \in Emissions, NEW X, Inv(e, X)
  PROVE  \A t \in DOMAIN dies : Readable(e, t) =>
           \A u \in Text(t).tags \cup Text(t).protos : u \in Tagged /\ e.status[u] # "NEW"
<1> DEFINE Met(t) == \A u \in Text(t).tags \cup Text(t).protos : u \in Tagged /\ e.status[u] # "NEW"
           P == {t \in DOMAIN dies : Readable(e, t) => Met(t)}
<1>1. ASSUME NEW t \in DOMAIN dies, Leads[t] \cap DOMAIN dies \subseteq P PROVE t \in P
  <2> SUFFICES ASSUME Readable(e, t) PROVE Met(t)
    OBVIOUS
  <2>1. CASE t \in Tagged
    <3>1. Text(t).tags = {t} /\ Text(t).protos = {}
      BY <2>1, TextFacts
    <3>2. Named(t) /\ Status(e, t) = e.status[t]
      BY <2>1, InnermostFacts DEF Tagged, Modifier, Modifiers, Status
    <3>3. e.status[t] # "NEW"
      BY <3>2 DEF Readable, Ready, Known
    <3> QED BY <2>1, <3>1, <3>3
  <2>2. CASE Kind(t) = "typedef"
    BY <2>2, TextFacts
  <2>3. CASE t \notin Tagged /\ Kind(t) # "typedef"
    <3>1. ASSUME NEW m \in Range(dies[t].of) PROVE Met(m)
      <4>1. m \in DOMAIN dies /\ m \in Leads[t] /\ Readable(e, m)
        BY <2>3, ReadyParts
      <4> HIDE DEF Met
      <4> QED BY <1>1, <4>1
    <3>2. Modifier(t) => Target(t) \in Range(dies[t].of)
      BY EntryFacts DEF Program
    <3>3. CASE Kind(t) \in {"pointer", "array", "qualified"}
      BY <3>1, <3>2, <3>3, TextFacts DEF Modifier, Modifiers
    <3>4. CASE Kind(t) = "function"
      BY <3>1, <3>4, PrototypeFacts
    <3>5. CASE Kind(t) \notin {"function", "pointer", "array", "qualified"}
      BY <2>3, <3>1, <3>5, TextFacts, BodyFacts
    <3> QED BY <3>3, <3>4, <3>5
  <2> QED BY <2>1, <2>2, <2>3
<1> HIDE DEF P
<1>2. DOMAIN dies \subseteq P
  BY <1>1, LeadsAcyclic, AcyclicInduction
<1> QED BY <1>2 DEF P

\* What has to be complete in the text of what is ready is.
LEMMA NeedsMet ==
  ASSUME Program, NEW e \in Emissions, NEW X, Inv(e, X), ~EarlyArrays
  PROVE  \A t \in DOMAIN dies : Readable(e, t) /\ (Complete(e, t) \/ ~ArrayOfStructs(t)) =>
           Text(t).needs \subseteq Finished(e) \cup Undefined
<1> DEFINE Met(t)   == Text(t).needs \subseteq Finished(e) \cup Undefined
           Whole(t) == Complete(e, t) \/ ~ArrayOfStructs(t)
           P        == {t \in DOMAIN dies : Readable(e, t) /\ Whole(t) => Met(t)}
<1>1. ASSUME NEW t \in DOMAIN dies, Leads[t] \cap DOMAIN dies \subseteq P PROVE t \in P
  <2> SUFFICES ASSUME Readable(e, t), Whole(t) PROVE Met(t)
    OBVIOUS
  <2>1. CASE t \in Tagged \/ Kind(t) = "typedef"
    BY <2>1, TextFacts
  <2>2. CASE t \notin Tagged /\ Kind(t) # "typedef"
    <3>1. ASSUME NEW m \in Range(dies[t].of)
          PROVE  /\ m \in DOMAIN dies /\ (Whole(m) => Met(m))
                 /\ Kind(t) \in {"struct", "function"} => Complete(e, m)
      <4>1. /\ m \in DOMAIN dies /\ m \in Leads[t] /\ Readable(e, m)
            /\ Kind(t) \in {"struct", "function"} => Complete(e, m)
        BY <2>2, ReadyParts
      <4> HIDE DEF Met, Whole
      <4> QED BY <1>1, <4>1
    <3>2. Modifier(t) => Target(t) \in Range(dies[t].of)
      BY EntryFacts DEF Program
    <3>3. \A m \in DOMAIN dies : Complete(e, m) => Text(m).top \subseteq Finished(e) \cup Undefined
      BY TopFacts, StemByValue DEF Complete
    <3>4. CASE Kind(t) = "pointer"
      <4>1. Modifier(t)
        BY <3>4 DEF Modifier, Modifiers
      <4>2. Whole(Target(t))
        BY <3>4, <4>1 DEF EarlyArrays
      <4> QED BY <3>1, <3>2, <3>4, <4>1, <4>2, TextFacts
    <3>5. CASE Kind(t) = "array"
      <4>1. Modifier(t) /\ Stem(t) = Stem(Target(t))
        BY <3>5, StemStep DEF Modifier, Modifiers, Inner
      <4>2. Text(t).needs = Text(Target(t)).needs \cup Text(Target(t)).top
        BY <3>5, TextFacts
      <4>3. CASE Complete(e, t)
        <5>1. Complete(e, Target(t))
          BY <4>1, <4>3 DEF Complete
        <5> QED BY <3>1, <3>2, <3>3, <4>1, <4>2, <5>1
      <4>4. CASE ~ArrayOfStructs(t)
        <5>1. Target(t) \in DOMAIN dies /\ ByValue(Target(t)) = {} /\ ~ArrayOfStructs(Target(t))
          BY <3>5, <4>4, ArrayFacts
        <5>2. Text(Target(t)).top = {}
          BY <5>1, TopFacts
        <5> QED BY <3>1, <3>2, <4>1, <4>2, <5>1, <5>2
      <4> QED BY <4>3, <4>4
    <3>6. CASE Kind(t) = "qualified"
      <4>1. Modifier(t) /\ Stem(t) = Stem(Target(t)) /\ ArrayOfStructs(t) = ArrayOfStructs(Target(t))
        BY <3>6, StemStep, ArrayFacts DEF Modifier, Modifiers, Inner, Objects
      <4>2. Whole(Target(t))
        BY <4>1 DEF Complete
      <4> QED BY <3>1, <3>2, <3>6, <4>1, <4>2, TextFacts
    <3>7. CASE Kind(t) = "function"
      BY <3>1, <3>7, PrototypeFacts
    <3>8. CASE Kind(t) \notin {"function", "pointer", "array", "qualified"}
      <4>1. Text(t) = Body(t)
        BY <2>2, <3>8, TextFacts
      <4>2. CASE Kind(t) = "struct"
        BY <3>1, <3>3, <4>1, <4>2, BodyFacts
      <4>3. CASE Kind(t) # "struct"
        <5>1. dies[t].of = <<>>
          BY <2>2, <3>8, <4>3, EntryFacts DEF Program, Kinds, Modifiers
        <5>2. Range(dies[t].of) = {}
          BY <5>1 DEF Range
        <5> QED BY <4>1, <5>2, BodyFacts
      <4> QED BY <4>2, <4>3
    <3> QED BY <3>4, <3>5, <3>6, <3>7, <3>8
  <2> QED BY <2>1, <2>2
<1> HIDE DEF P
<1>2. DOMAIN dies \subseteq P
  BY <1>1, LeadsAcyclic, AcyclicInduction
<1> QED BY <1>2 DEF P

LEMMA StatableBy ==
  ASSUME NEW e \in Emissions, NEW t \in DOMAIN dies, Inv(e, {t}), NEW form, NEW x,
         x = TextOf([of |-> t, form |-> form]),
         \A u \in x.protos : u \in Tagged /\ e.status[u] # "NEW",
         ~EarlyArrays => x.needs \subseteq Finished(e) \cup Undefined
  PROVE  Statable(e, t, form)
<1>1. x.protos \subseteq Mentioned(e) \cup {t}
  BY DEF Inv, Kept
<1> QED BY <1>1 DEF Statable

\* What declare leaves behind can be stated.
LEMMA StatableDeclare ==
  ASSUME Program, NEW e \in Emissions, NEW t \in DOMAIN dies, Inv(e, {t}),
         Named(t), ~Modifier(t), Kind(t) # "function", Simple(t),
         Kind(t) = "typedef" => Ready(e, Target(t))
  PROVE  Statable(e, t, "declare")
<1> DEFINE s == [of |-> t, form |-> "declare"]
           x == TextOf(s)
<1>1. dies[t].named /\ Kind(t) \in Kinds
  BY InnermostFacts, EntryFacts DEF Program
<1>2. x = IF Kind(t) = "typedef" THEN Text(Target(t)) ELSE Text(t)
  BY DEF TextOf
<1> HIDE DEF x
<1>3. CASE Kind(t) = "typedef"
  <2>1. Target(t) \in DOMAIN dies /\ Readable(e, Target(t))
    BY <1>3, EntryFacts DEF Program, Readable, Part
  <2>2. \A u \in x.protos : u \in Tagged /\ e.status[u] # "NEW"
    BY <1>2, <1>3, <2>1, TagsMet
  <2>3. ASSUME ~EarlyArrays PROVE x.needs \subseteq Finished(e) \cup Undefined
    <3>1. ~ArrayOfStructs(Target(t))
      BY <1>3, <2>3, ArrayFacts DEF Simple, Objects
    <3> QED BY <1>2, <1>3, <2>1, <2>3, <3>1, NeedsMet
  <2> QED BY <2>2, <2>3, StatableBy DEF x
<1>4. CASE Kind(t) # "typedef"
  <2>1. x.protos = {} /\ x.needs = {}
    <3>1. CASE t \in Tagged
      BY <1>2, <1>4, <3>1, TextFacts
    <3>2. CASE t \notin Tagged
      <4>1. Kind(t) \in {"base", "unknown"}
        BY <1>1, <1>4, <3>2 DEF Kinds, Tagged, Modifier
      <4>2. Range(dies[t].of) = {}
        BY <4>1, EntryFacts DEF Range, Program
      <4> QED BY <1>2, <3>2, <4>1, <4>2, TextFacts, BodyFacts
    <3> QED BY <3>1, <3>2
  <2> QED BY <2>1, StatableBy DEF x
<1> QED BY <1>3, <1>4

\* What define leaves behind can be stated.
LEMMA StatableDefine ==
  ASSUME Program, NEW e \in Emissions, NEW t \in DOMAIN dies, Inv(e, {t}),
         Named(t), Reached(e, t), Status(e, t) # "NEW", Kind(t) \notin {"array", "pointer"},
         Straight(t) /\ ~Opaque(t) => Done(e, t),
         Kind(t) = "typedef" => Ready(e, Target(t))
  PROVE  Statable(e, t, "define")
<1> DEFINE s == [of |-> t, form |-> "define"]
           x == TextOf(s)
<1>1. Kind(t) \in Kinds /\ (~Modifier(t) => Innermost(t) = t /\ dies[t].named /\ Status(e, t) = e.status[t])
  BY InnermostFacts, EntryFacts DEF Program, Status
<1>2. ~Modifier(t) => Straight(t)
  BY StraightStep
<1>3. /\ Kind(t) = "struct" => x = Body(t)
      /\ Kind(t) = "typedef" => x = Text(Target(t))
      /\ Kind(t) \notin {"struct", "typedef"} => x = Text(t)
  <2>1. Kind(t) = "struct" => x = Body(t)
    BY Zenon DEF TextOf
  <2>2. Kind(t) = "typedef" => x = Text(Target(t))
    BY Zenon DEF TextOf
  <2>3. Kind(t) \notin {"struct", "typedef"} => x = Text(t)
    BY Zenon DEF TextOf
  <2> HIDE DEF x
  <2> QED BY <2>1, <2>2, <2>3
<1> HIDE DEF x
<1>4. CASE Kind(t) = "struct"
  <2>1. x = Body(t) /\ e.status[t] = "DONE"
    BY <1>1, <1>2, <1>3, <1>4 DEF Opaque, Done, Modifier, Modifiers
  <2>2. t \in e.filled
    BY <1>4, <2>1 DEF Inv, FilledFirst
  <2>3. \A m \in Range(dies[t].of) : m \in DOMAIN dies /\ Readable(e, m) /\ Complete(e, m)
    BY <1>4, <2>2, EntryFacts DEF Inv, PartsReady, Fit, Readable, Part, Program
  <2>4. \A u \in x.protos : u \in Tagged /\ e.status[u] # "NEW"
    BY <2>1, <2>3, BodyFacts, TagsMet
  <2>5. ASSUME ~EarlyArrays PROVE x.needs \subseteq Finished(e) \cup Undefined
    <3>1. ASSUME NEW m \in Range(dies[t].of)
          PROVE  Text(m).needs \cup Text(m).top \subseteq Finished(e) \cup Undefined
      <4>1. Text(m).needs \subseteq Finished(e) \cup Undefined
        BY <2>3, <2>5, <3>1, NeedsMet
      <4>2. Text(m).top \subseteq ByValue(Stem(m))
        BY <2>3, <3>1, TopFacts, StemByValue
      <4> QED BY <2>3, <3>1, <4>1, <4>2 DEF Complete
    <3> QED BY <2>1, <3>1, BodyFacts
  <2> QED BY <2>4, <2>5, StatableBy DEF x
<1>5. CASE Kind(t) = "typedef"
  <2>1. Target(t) \in DOMAIN dies /\ Readable(e, Target(t)) /\ x = Text(Target(t))
    BY <1>3, <1>5, EntryFacts DEF Program, Readable, Part
  <2>2. \A u \in x.protos : u \in Tagged /\ e.status[u] # "NEW"
    BY <2>1, TagsMet
  <2>3. Complete(e, Target(t))
    BY <1>1, <1>2, <1>5 DEF Inv, TypedefsLinked, Opaque, Done, Modifier, Modifiers
  <2>4. ~EarlyArrays => x.needs \subseteq Finished(e) \cup Undefined
    BY <2>1, <2>3, NeedsMet
  <2> QED BY <2>2, <2>4, StatableBy DEF x
<1>6. CASE Kind(t) = "declared"
  <2>1. x.protos = {} /\ x.needs = {}
    BY <1>1, <1>3, <1>6, TextFacts DEF Tagged, Modifier, Modifiers
  <2> QED BY <2>1, StatableBy DEF x
<1>7. CASE Kind(t) \notin {"struct", "typedef", "declared"}
  <2>1. x = Text(t)
    BY <1>3, <1>7
  <2>2. Readable(e, t)
    <3>1. Kind(t) = "function" => Done(e, t)
      BY <1>1, <1>2 DEF Opaque, Modifier, Modifiers
    <3> QED BY <3>1 DEF Readable, Ready, Known, Part
  <2>3. \A u \in x.protos : u \in Tagged /\ e.status[u] # "NEW"
    BY <2>1, <2>2, TagsMet
  <2>4. ~EarlyArrays => x.needs \subseteq Finished(e) \cup Undefined
    <3>1. CASE Modifier(t)
      <4>1. Inv(e, {})
        BY <3>1, InvExempt DEF Tagged, Modifier, Modifiers
      <4>2. Complete(e, t)
        BY <4>1, CompleteBy
      <4> QED BY <2>1, <2>2, <4>2, NeedsMet
    <3>2. CASE ~Modifier(t)
      <4>1. ~ArrayOfStructs(t)
        BY <1>7, <3>2, EndKinds, EndStep DEF ArrayOfStructs, Modifier, Modifiers, Objects
      <4> QED BY <2>1, <2>2, <4>1, NeedsMet
    <3> QED BY <3>1, <3>2
  <2> QED BY <2>3, <2>4, StatableBy DEF x
<1> QED BY <1>4, <1>5, <1>6, <1>7

LEMMA DependDeclareGood ==
  ASSUME Program, NEW ask, Typed(ask), Good(ask), NEW e \in Emissions, Inv(e, {}),
         NEW d \in DOMAIN dies, Part(d), Simple(d), ~DependDeclare(ask, e, d).raised
  PROVE  LET f == DependDeclare(ask, e, d)
         IN  /\ Inv(f, {}) /\ Grow(e, f, {Innermost(d)}) /\ Known(f, d)
             /\ Known(e, d) => f = e
<1> DEFINE f == DependDeclare(ask, e, d)
           g == Touch(ask, e, d)
           h == Declare(ask, g, d)
<1>1. /\ g \in Emissions /\ GoodTouch(e, d, g)
      /\ f = IF Named(d) /\ Status(g, d) = "NEW" THEN Emit(h, d, "declare") ELSE g
  BY CallTyped DEF Good, Step, DependDeclare
<1>2. h \in Emissions /\ Step(g, h) /\ GoodDeclare(g, d, h)
  BY <1>1, CallTyped DEF Good, Step
<1>3. ~f.raised
  OBVIOUS
<1> HIDE DEF f, g, h
<1>4. CASE ~(Named(d) /\ Status(g, d) = "NEW")
  <2>1. f = g /\ ~g.raised
    BY <1>1, <1>3, <1>4
  <2>2. Inv(g, {}) /\ Grow(e, g, {Innermost(d)}) /\ Reached(g, d) /\ (Reached(e, d) => g = e)
    BY <1>1, <2>1 DEF GoodTouch
  <2> QED BY <1>4, <2>1, <2>2 DEF Known, f
<1>5. CASE Named(d) /\ Status(g, d) = "NEW"
  <2>1. f = Emit(h, d, "declare") /\ ~h.raised /\ ~g.raised
    BY <1>1, <1>2, <1>3, <1>5, EmitTyped DEF Step
  <2>2. Inv(g, {}) /\ Grow(e, g, {Innermost(d)}) /\ Reached(g, d) /\ (Reached(e, d) => g = e)
    BY <1>1, <2>1 DEF GoodTouch
  <2>3. ~Modifier(d) /\ g.status[d] = "NEW" /\ Kind(d) # "function"
    <3>1. ~Modifier(d)
      BY <1>1, <1>5, <2>2, LinkedKnown DEF Reached, Known
    <3> QED BY <1>5, <3>1, InnermostFacts DEF Status, Part
  <2>4. /\ Inv(h, {d}) /\ Grow(g, h, {}) /\ h.status[d] # "NEW"
        /\ Kind(d) = "struct" => h.status[d] = "DECLARED"
        /\ Kind(d) = "typedef" => Ready(h, Target(d))
    BY <1>2, <1>5, <2>1, <2>2, <2>3 DEF GoodDeclare
  <2>5. d \in Tagged /\ h.status[d] = "DONE" => Completes([of |-> d, form |-> "declare"])
    BY <2>4 DEF Tagged, Completes, Inv, StatusFits
  <2>6. f \in Emissions /\ Inv(f, {}) /\ Grow(h, f, {})
    <3>1. Emit(h, d, "declare") \in Emissions
      BY <1>2, EmitTyped DEF Step
    <3>2. Statable(h, d, "declare")
      BY <1>2, <1>5, <2>3, <2>4, StatableDeclare
    <3> QED BY <1>2, <2>1, <2>4, <2>5, <3>1, <3>2, EmitKeeps
  <2>7. Grow(g, f, {})
    BY <1>1, <1>2, <2>4, <2>6, GrowJoin
  <2>8. Grow(e, f, {Innermost(d)})
    BY <1>1, <2>2, <2>6, <2>7, GrowJoin
  <2>9. Known(f, d)
    <3>1. Status(h, d) # "NEW"
      BY <1>2, <2>3, <2>4, StatusIn
    <3>2. Status(f, d) # "NEW"
      BY <1>2, <2>6, <3>1, GrowKeeps
    <3> QED BY <2>3, <3>2 DEF Known, Reached
  <2>10. ~Known(e, d)
    BY <1>5, <2>2 DEF Known
  <2> QED BY <2>6, <2>8, <2>9, <2>10 DEF f
<1> QED BY <1>4, <1>5

LEMMA DependDefineGood ==
  ASSUME Program, NEW ask, Typed(ask), Good(ask), NEW e \in Emissions, Inv(e, {}),
         NEW d \in DOMAIN dies, ~DependDefine(ask, e, d).raised
  PROVE  LET f == DependDefine(ask, e, d)
         IN  /\ Inv(f, {}) /\ Grow(e, f, {Innermost(d)}) /\ Known(f, d)
             /\ Named(d) /\ Straight(d) /\ ~Opaque(d) => Done(f, d)
             /\ Complete(f, d)
             /\ Known(e, d) /\ (~Named(d) \/ Done(e, d)) => f = e
<1> DEFINE f == DependDefine(ask, e, d)
           g == Touch(ask, e, d)
           h == Define(ask, g, d)
<1>1. /\ g \in Emissions /\ GoodTouch(e, d, g)
      /\ f = IF Named(d) /\ Status(g, d) # "DONE" THEN Emit(h, d, "define") ELSE g
  BY CallTyped DEF Good, Step, DependDefine
<1>2. h \in Emissions /\ Step(g, h) /\ GoodDefine(g, d, h)
  BY <1>1, CallTyped DEF Good, Step
<1>3. ~f.raised
  OBVIOUS
<1> HIDE DEF f, g, h
<1>4. CASE ~(Named(d) /\ Status(g, d) # "DONE")
  <2>1. f = g /\ ~g.raised
    BY <1>1, <1>3, <1>4
  <2>2. Inv(g, {}) /\ Grow(e, g, {Innermost(d)}) /\ Reached(g, d) /\ (Reached(e, d) => g = e)
    BY <1>1, <2>1 DEF GoodTouch
  <2>3. Known(g, d)
    BY <1>4, <2>2 DEF Known
  <2>4. Complete(g, d)
    BY <1>1, <1>4, <2>2, CompleteBy DEF Done
  <2> QED BY <1>4, <2>1, <2>2, <2>3, <2>4 DEF Known, f, Done
<1>5. CASE Named(d) /\ Status(g, d) # "DONE"
  <2>1. f = Emit(h, d, "define") /\ ~h.raised /\ ~g.raised
    BY <1>1, <1>2, <1>3, <1>5, EmitTyped DEF Step
  <2>2. Inv(g, {}) /\ Grow(e, g, {Innermost(d)}) /\ Reached(g, d) /\ (Reached(e, d) => g = e)
    BY <1>1, <2>1 DEF GoodTouch
  <2>3. /\ Inv(h, {d}) /\ Grow(g, h, {}) /\ Status(h, d) # "NEW"
        /\ Straight(d) /\ ~Opaque(d) => Done(h, d)
        /\ Kind(d) = "typedef" => Ready(h, Target(d))
    BY <1>2, <1>5, <2>1, <2>2 DEF GoodDefine
  <2>4. d \in Tagged /\ h.status[d] = "DONE" => Completes([of |-> d, form |-> "define"])
    BY <2>3 DEF Tagged, Completes, Inv, StatusFits
  <2>5. f \in Emissions /\ Inv(f, {}) /\ Grow(h, f, {})
    <3>1. Emit(h, d, "define") \in Emissions
      BY <1>2, EmitTyped DEF Step
    <3>2. Reached(h, d)
      BY <1>1, <1>2, <2>2, <2>3, GrowKeeps
    <3>3. Kind(d) \notin {"array", "pointer"} => Statable(h, d, "define")
      BY <1>2, <1>5, <2>3, <3>2, StatableDefine
    <3> QED BY <1>2, <2>1, <2>3, <2>4, <3>1, <3>3, EmitKeeps
  <2>6. Grow(g, f, {})
    BY <1>1, <1>2, <2>3, <2>5, GrowJoin
  <2>7. Grow(e, f, {Innermost(d)})
    BY <1>1, <2>2, <2>5, <2>6, GrowJoin
  <2>8. Known(f, d) /\ (Straight(d) /\ ~Opaque(d) => Done(f, d))
    <3>1. Reached(f, d)
      BY <1>1, <2>2, <2>5, <2>6, GrowKeeps
    <3> QED BY <1>2, <2>3, <2>5, <3>1, GrowKeeps DEF Known
  <2>9. ~(Known(e, d) /\ (~Named(d) \/ Done(e, d)))
    BY <1>5, <2>2 DEF Known, Done
  <2>10. Complete(f, d)
    BY <2>5, <2>8, CompleteBy
  <2> QED BY <2>5, <2>7, <2>8, <2>9, <2>10 DEF f
<1> QED BY <1>4, <1>5

LEMMA UseGood ==
  ASSUME Program, NEW ask, Typed(ask), Good(ask), NEW e \in Emissions, Inv(e, {}),
         NEW t \in DOMAIN dies, Known(e, t), Kind(t) = "function" /\ dies[t].named => Done(e, t),
         ~Use(ask, e, t).raised
  PROVE  LET f == Use(ask, e, t)
         IN  /\ Inv(f, {}) /\ Grow(e, f, {}) /\ Ready(f, t)
             /\ Ready(e, t) => f = e
<1> DEFINE g == Touch(ask, e, t)
<1>1. g \in Emissions /\ GoodTouch(e, t, g)
  BY CallTyped DEF Good, Step
<1>2. /\ Step(g, Refer(ask, g, t)) /\ GoodRefer(g, t, Refer(ask, g, t)) /\ Refer(ask, g, t) \in Emissions
      /\ Step(g, Define(ask, g, t)) /\ GoodDefine(g, t, Define(ask, g, t)) /\ Define(ask, g, t) \in Emissions
  BY <1>1, CallTyped DEF Good, Step
<1>3. Use(ask, e, t) = IF Named(t) THEN Refer(ask, g, t) ELSE Define(ask, g, t)
  BY DEF Use
<1> HIDE DEF g
<1>4. ~g.raised
  BY <1>2, <1>3 DEF Step
<1>5. g = e
  BY <1>1, <1>4 DEF GoodTouch, Known
<1>6. CASE Named(t)
  <2>1. Referable(e, t)
    BY <1>6, InnermostFacts DEF Referable, Modifier, Modifiers
  <2> QED BY <1>2, <1>3, <1>5, <1>6, <2>1 DEF GoodRefer
<1>7. CASE ~Named(t)
  <2> DEFINE f == Define(ask, e, t)
  <2>1. f = Use(ask, e, t) /\ ~f.raised /\ f \in Emissions /\ GoodDefine(e, t, f)
    BY <1>2, <1>3, <1>5, <1>7
  <2> HIDE DEF f
  <2>2. ~Opaque(t) /\ t \notin Tagged
    <3>1. ~Opaque(t)
      BY <1>7, InnermostFacts, EntryFacts DEF Opaque, Named, Program
    <3>2. t \notin Tagged
      BY <1>7, InnermostFacts DEF Tagged, Modifier, Modifiers
    <3> QED BY <3>1, <3>2
  <2>3. Inv(f, {t}) /\ Grow(e, f, {}) /\ Done(f, t) /\ (Done(e, t) => f = e)
    BY <1>7, <2>1, <2>2 DEF GoodDefine, Known
  <2>4. Inv(f, {}) /\ Ready(f, t)
    BY <1>7, <2>1, <2>2, <2>3, InvExempt, GrowKeeps DEF Ready, Known
  <2> QED BY <1>7, <2>1, <2>3, <2>4 DEF Ready
<1> QED BY <1>6, <1>7

-----------------------------------------------------------------------------
(* What a modifier or a typedef does about the type below it *)

Refers(t) == Modifier(t) \/ Kind(t) = "typedef"

LEMMA RefersFacts ==
  ASSUME Program, NEW t \in DOMAIN dies, Refers(t)
  PROVE  Target(t) \in DOMAIN dies /\ Part(Target(t))
         /\ Kind(t) \notin {"struct", "function", "declared", "enum", "base", "unknown"} /\ t \notin Tagged
BY EntryFacts DEF Refers, Program, Part, Modifier, Modifiers, Tagged

\* What is simple is made from simple types.
LEMMA SimpleTarget ==
  ASSUME Program, NEW t \in DOMAIN dies, Refers(t), Simple(t)
  PROVE  Simple(Target(t))
<1>1. CASE Kind(t) = "typedef"
  BY <1>1, ArrayFacts DEF Simple, Objects
<1>2. CASE Modifier(t) /\ Kind(Target(t)) = "typedef"
  <2>1. Target(t) \in DOMAIN dies /\ ~Modifier(Target(t))
    BY <1>2, RefersFacts DEF Modifier, Modifiers
  <2>2. Innermost(t) = Target(t)
    BY <1>2, <2>1, InnermostFacts
  <2> QED BY <1>2, <2>2 DEF Simple, EarlyArrays
<1> QED BY <1>1, <1>2 DEF Simple, Refers

LEMMA UnderlyingGood ==
  ASSUME Program, NEW ask, Typed(ask), Good(ask), NEW e \in Emissions, Inv(e, {}),
         NEW t \in DOMAIN dies, Refers(t),
         NEW f \in {UnderlyingDeclaration(ask, e, t), UnderlyingDefinition(ask, e, t)}, ~f.raised,
         f = UnderlyingDefinition(ask, e, t) \/ Simple(t)
  PROVE  /\ Inv(f, {}) /\ Grow(e, f, {Innermost(Target(t))})
         /\ Target(t) \in Range(f.made) /\ Known(f, Target(t))
         /\ f = UnderlyingDefinition(ask, e, t) /\ Kind(t) # "pointer"
              /\ Named(Target(t)) /\ Straight(Target(t)) /\ ~Opaque(Target(t)) => Done(f, Target(t))
         /\ Target(t) \in Range(e.made) /\ Known(e, Target(t)) /\ (~Named(Target(t)) \/ Done(e, Target(t))) => f = e
<1> DEFINE u == Target(t)
           g == Made(e, u)
<1>1. u \in DOMAIN dies /\ Part(u)
  BY RefersFacts
<1>2. /\ g \in Emissions /\ Inv(g, {}) /\ (u \in Range(e.made) => g = e)
      /\ Known(g, u) = Known(e, u) /\ Done(g, u) = Done(e, u)
  BY <1>1, MadeFacts, MadeSame DEF Done
<1>3. /\ f = DependDefine(ask, g, u) \/ (f = DependDeclare(ask, g, u) /\ (Modifier(t) \/ Simple(t)))
      /\ f = UnderlyingDefinition(ask, e, t) /\ Kind(t) # "pointer" => f = DependDefine(ask, g, u)
  BY DEF UnderlyingDeclaration, UnderlyingDefinition, Pointers, Modifier, Modifiers
<1>0. Modifier(t) \/ Simple(t) => Simple(u)
  BY SimpleTarget DEF Simple, Modifier, Modifiers
<1>4. Step(g, DependDeclare(ask, g, u)) /\ Step(g, DependDefine(ask, g, u))
  BY <1>1, <1>2, DependTyped
<1> HIDE DEF g
<1>5. /\ Inv(f, {}) /\ Grow(g, f, {Innermost(u)}) /\ Known(f, u)
      /\ f = DependDefine(ask, g, u) /\ Named(u) /\ Straight(u) /\ ~Opaque(u) => Done(f, u)
      /\ Known(g, u) /\ (~Named(u) \/ Done(g, u)) => f = g
  BY <1>0, <1>1, <1>2, <1>3, DependDeclareGood, DependDefineGood
<1>6. f \in Emissions
  BY <1>3, <1>4 DEF Step
<1>7. Grow(e, f, {Innermost(u)}) /\ u \in Range(f.made)
  BY <1>1, <1>5, <1>6, GrowFromMade DEF Known, g
<1> QED BY <1>2, <1>3, <1>5, <1>7

LEMMA LinkGood ==
  ASSUME Program, NEW ask, Typed(ask), Good(ask), NEW e \in Emissions, Inv(e, {}),
         NEW t \in DOMAIN dies, Refers(t),
         NEW f \in {LinkDeclared(ask, e, t), LinkDefined(ask, e, t)}, ~f.raised,
         f = LinkDefined(ask, e, t) \/ Simple(t) \/ Modifier(t)
  PROVE  /\ Inv(f, {}) /\ Grow(e, f, {Innermost(Target(t))}) /\ t \in f.linked
         /\ t \in e.linked => f = e
<1>1. CASE t \in e.linked
  <2>1. f = e
    BY <1>1 DEF LinkDeclared, LinkDefined
  <2> QED BY <1>1, <2>1, GrowSame, GrowMore
<1>2. CASE t \notin e.linked
  <2>1. PICK d \in {UnderlyingDeclaration(ask, e, t), UnderlyingDefinition(ask, e, t)} :
          f = Linking(d, t) /\ (d = UnderlyingDefinition(ask, e, t) \/ Simple(t))
    BY <1>2 DEF LinkDeclared, LinkDefined, Linking, Simple, Modifier, Modifiers
  <2>2. d \in Emissions
    BY <2>1, RefersFacts, UnderlyingTyped DEF Step
  <2>3. ~d.raised
    BY <2>1, <2>2, LinkingFacts
  <2>4. /\ Inv(d, {}) /\ Grow(e, d, {Innermost(Target(t))})
        /\ Target(t) \in Range(d.made) /\ Known(d, Target(t))
    BY <2>1, <2>3, UnderlyingGood
  <2>5. Inv(f, {}) /\ Grow(d, f, {}) /\ f \in Emissions /\ t \in f.linked
    BY <2>1, <2>2, <2>4, LinkingKeeps, LinkingFacts DEF Refers
  <2> QED BY <1>2, <2>2, <2>4, <2>5, GrowJoin
<1> QED BY <1>1, <1>2

LEMMA UnderOnce ==
  ASSUME Program, NEW ask, Typed(ask), Good(ask), NEW e \in Emissions, Inv(e, {}),
         NEW t \in DOMAIN dies, Refers(t),
         NEW l \in {LinkDeclared(ask, e, t), LinkDefined(ask, e, t)},
         l = LinkDefined(ask, e, t) \/ Simple(t),
         NEW f \in {l, UnderlyingDefinition(ask, l, t)}, ~f.raised
  PROVE  /\ Inv(f, {}) /\ Grow(e, f, {Innermost(Target(t))}) /\ t \in f.linked
         /\ f = UnderlyingDefinition(ask, l, t) /\ Kind(t) # "pointer"
              /\ Named(Target(t)) /\ Straight(Target(t)) /\ ~Opaque(Target(t)) => Done(f, Target(t))
         /\ t \in e.linked /\ (~Named(Target(t)) \/ Done(e, Target(t))) => f = e
<1> DEFINE u == Target(t)
<1>0. u \in DOMAIN dies
  BY RefersFacts
<1>2. l \in Emissions /\ Step(l, UnderlyingDefinition(ask, l, t)) /\ UnderlyingDefinition(ask, l, t) \in Emissions
  <2>1. l \in Emissions
    BY <1>0, LinkTyped DEF Step
  <2> QED BY <1>0, <2>1, UnderlyingTyped DEF Step
<1>3. ~l.raised
  BY <1>2 DEF Step
<1>4. /\ Inv(l, {}) /\ Grow(e, l, {Innermost(u)}) /\ t \in l.linked
      /\ t \in e.linked => l = e
  BY <1>3, LinkGood
<1>5. u \in Range(l.made) /\ Known(l, u)
  BY <1>2, <1>4, LinkedKnown
<1>6. CASE f = UnderlyingDefinition(ask, l, t)
  <2>1. /\ Inv(f, {}) /\ Grow(l, f, {Innermost(u)})
        /\ Kind(t) # "pointer" /\ Named(u) /\ Straight(u) /\ ~Opaque(u) => Done(f, u)
        /\ (~Named(u) \/ Done(l, u)) => f = l
    BY <1>2, <1>4, <1>5, <1>6, UnderlyingGood
  <2>2. Grow(e, f, {Innermost(u)}) /\ t \in f.linked
    <3>1. f \in Emissions /\ l.linked \subseteq f.linked
      BY <1>2, <1>6, <2>1 DEF Grow
    <3> QED BY <1>2, <1>4, <2>1, <3>1, GrowJoin
  <2> QED BY <1>4, <2>1, <2>2
<1>7. CASE f = l /\ f # UnderlyingDefinition(ask, l, t)
  BY <1>4, <1>7
<1> QED BY <1>6, <1>7

LEMMA UnderGood ==
  ASSUME Program, NEW ask, Typed(ask), Good(ask), NEW e \in Emissions, Inv(e, {}),
         NEW t \in DOMAIN dies, Refers(t)
  PROVE  /\ Simple(t) /\ ~DeclaredUnder(ask, e, t).raised =>
              /\ Inv(DeclaredUnder(ask, e, t), {})
              /\ Grow(e, DeclaredUnder(ask, e, t), {Innermost(Target(t))})
              /\ t \in DeclaredUnder(ask, e, t).linked
         /\ ~DefinedUnder(ask, e, t).raised =>
              /\ Inv(DefinedUnder(ask, e, t), {})
              /\ Grow(e, DefinedUnder(ask, e, t), {Innermost(Target(t))})
              /\ t \in DefinedUnder(ask, e, t).linked
              /\ Kind(t) # "pointer" /\ Named(Target(t)) /\ Straight(Target(t)) /\ ~Opaque(Target(t)) =>
                   Done(DefinedUnder(ask, e, t), Target(t))
              /\ t \in e.linked /\ (~Named(Target(t)) \/ Done(e, Target(t))) => DefinedUnder(ask, e, t) = e
<1>1. ASSUME Simple(t), ~DeclaredUnder(ask, e, t).raised
      PROVE  /\ Inv(DeclaredUnder(ask, e, t), {})
             /\ Grow(e, DeclaredUnder(ask, e, t), {Innermost(Target(t))})
             /\ t \in DeclaredUnder(ask, e, t).linked
  <2> DEFINE l == LinkDeclared(ask, e, t)
             f == DeclaredUnder(ask, e, t)
  <2>1. f \in {l, UnderlyingDefinition(ask, l, t)} /\ ~f.raised
    BY <1>1 DEF DeclaredUnder
  <2>2. l \in {LinkDeclared(ask, e, t), LinkDefined(ask, e, t)}
    OBVIOUS
  <2> HIDE DEF l, f
  <2>3. Inv(f, {}) /\ Grow(e, f, {Innermost(Target(t))}) /\ t \in f.linked
    BY <1>1, <2>1, <2>2, UnderOnce
  <2> QED BY <2>3 DEF f
<1>2. ASSUME ~DefinedUnder(ask, e, t).raised
      PROVE  /\ Inv(DefinedUnder(ask, e, t), {})
             /\ Grow(e, DefinedUnder(ask, e, t), {Innermost(Target(t))})
             /\ t \in DefinedUnder(ask, e, t).linked
             /\ Kind(t) # "pointer" /\ Named(Target(t)) /\ Straight(Target(t)) /\ ~Opaque(Target(t)) =>
                  Done(DefinedUnder(ask, e, t), Target(t))
             /\ t \in e.linked /\ (~Named(Target(t)) \/ Done(e, Target(t))) => DefinedUnder(ask, e, t) = e
  <2> DEFINE l == LinkDefined(ask, e, t)
             f == DefinedUnder(ask, e, t)
  <2>1. /\ f = UnderlyingDefinition(ask, l, t) \/ (f = l /\ Done(l, Target(t)))
        /\ ~f.raised
    BY <1>2 DEF DefinedUnder, Done
  <2>2. /\ l \in {LinkDeclared(ask, e, t), LinkDefined(ask, e, t)} /\ l = LinkDefined(ask, e, t)
        /\ f \in {l, UnderlyingDefinition(ask, l, t)}
    BY <2>1
  <2> HIDE DEF l, f
  <2>3. /\ Inv(f, {}) /\ Grow(e, f, {Innermost(Target(t))}) /\ t \in f.linked
        /\ f = UnderlyingDefinition(ask, l, t) /\ Kind(t) # "pointer"
             /\ Named(Target(t)) /\ Straight(Target(t)) /\ ~Opaque(Target(t)) => Done(f, Target(t))
        /\ t \in e.linked /\ (~Named(Target(t)) \/ Done(e, Target(t))) => f = e
    BY <2>1, <2>2, UnderOnce
  <2> QED BY <2>1, <2>3 DEF f
<1> QED BY <1>1, <1>2

-----------------------------------------------------------------------------
(* Structs and functions *)

LEMMA SettingSame ==
  ASSUME NEW e \in Emissions, NEW t \in DOMAIN dies, NEW s \in Statuses, e.status[t] = s
  PROVE  Setting(e, t, s) = e
<1>1. [e.status EXCEPT ![t] = s] = e.status
  BY EmissionFacts
<1>2. Setting(e, t, s) = [e EXCEPT !.status = [e.status EXCEPT ![t] = s]]
  BY DEF Setting, Emissions
<1> QED BY <1>1, <1>2 DEF Emissions

LEMMA EachGood ==
  ASSUME Program, NEW step, NEW ts \in Seq(DOMAIN dies), NEW e \in Emissions, Inv(e, {}),
         \A y \in Emissions, m \in Range(ts) :
           /\ Step(y, step[<<y, m>>])
           /\ Inv(y, {}) /\ ~step[<<y, m>>].raised =>
                /\ Inv(step[<<y, m>>], {}) /\ Grow(y, step[<<y, m>>], {})
                /\ m \in Range(step[<<y, m>>].made) /\ Ready(step[<<y, m>>], m) /\ Complete(step[<<y, m>>], m),
         ~Each(step, e, ts).raised
  PROVE  LET f == Each(step, e, ts)
         IN  /\ f \in Emissions /\ Inv(f, {}) /\ Grow(e, f, {})
             /\ \A m \in Range(ts) : m \in Range(f.made) /\ Ready(f, m) /\ Complete(f, m)
<1> DEFINE Fine(y, T) == ~y.raised => /\ Inv(y, {}) /\ Grow(e, y, {})
                                      /\ \A m \in T : m \in Range(y.made) /\ Ready(y, m) /\ Complete(y, m)
           Q == {q \in Emissions \X SUBSET DOMAIN dies : Fine(q[1], q[2])}
<1>1. <<e, {}>> \in Q
  BY GrowSame
<1>2. Range(ts) \subseteq DOMAIN dies
  <2>1. \A i \in DOMAIN ts : ts[i] \in DOMAIN dies
    OBVIOUS
  <2> QED BY <2>1 DEF Range
<1>3. ASSUME NEW y, NEW T, NEW t \in Range(ts), <<y, T>> \in Q
      PROVE  <<step[<<y, t>>], T \cup {t}>> \in Q
  <2> DEFINE f == step[<<y, t>>]
  <2>1. y \in Emissions /\ T \in SUBSET DOMAIN dies /\ Fine(y, T) /\ t \in DOMAIN dies
    BY <1>2, <1>3
  <2>2. Step(y, f) /\ f \in Emissions
    BY <2>1 DEF Step
  <2>3. ASSUME ~f.raised
        PROVE  /\ Inv(f, {}) /\ Grow(e, f, {})
               /\ \A m \in T \cup {t} : m \in Range(f.made) /\ Ready(f, m) /\ Complete(f, m)
    <3>1. ~y.raised
      BY <2>2, <2>3 DEF Step
    <3>2. /\ Inv(y, {}) /\ Grow(e, y, {})
          /\ \A m \in T : m \in Range(y.made) /\ Ready(y, m) /\ Complete(y, m)
      BY <2>1, <3>1
    <3>3. /\ Inv(f, {}) /\ Grow(y, f, {}) /\ t \in Range(f.made) /\ Ready(f, t) /\ Complete(f, t)
      BY <2>1, <2>3, <3>2
    <3> HIDE DEF f
    <3>4. Grow(e, f, {})
      BY <2>1, <2>2, <3>2, <3>3, GrowJoin
    <3>5. \A m \in T : m \in Range(f.made) /\ Ready(f, m) /\ Complete(f, m)
      BY <2>1, <2>2, <3>2, <3>3, GrowKeeps DEF Grow
    <3> QED BY <3>3, <3>4, <3>5
  <2> HIDE DEF f
  <2> QED BY <2>1, <2>2, <2>3 DEF f
<1> HIDE DEF Q
<1>4. <<Each(step, e, ts), Range(ts)>> \in Q
  BY <1>1, <1>3, EachKeeps
<1> QED BY <1>4 DEF Q

LEMMA MemberGood ==
  ASSUME Program, NEW ask, Typed(ask), Good(ask), NEW e \in Emissions, Inv(e, {}),
         NEW m \in DOMAIN dies, Part(m), ~Member(ask, e, m).raised
  PROVE  LET f == Member(ask, e, m)
         IN  Inv(f, {}) /\ Grow(e, f, {}) /\ m \in Range(f.made) /\ Ready(f, m) /\ Complete(f, m)
<1> DEFINE d == Made(e, m)
           g == IF Named(m) THEN DependDefine(ask, d, m) ELSE Touch(ask, d, m)
           f == Use(ask, g, m)
<1>1. Member(ask, e, m) = f
  BY DEF Member
<1>2. d \in Emissions /\ Inv(d, {})
  BY MadeFacts, MadeSame
<1> HIDE DEF d
<1>3. g \in Emissions /\ Step(d, g)
  BY <1>2, CallTyped, DependTyped DEF Step
<1>4. ~g.raised /\ f \in Emissions
  <2> HIDE DEF g
  <2>1. Step(g, f)
    BY <1>3, UseTyped
  <2> QED BY <1>1, <2>1 DEF Step
<1>5. Inv(g, {}) /\ Grow(d, g, {Innermost(m)}) /\ Known(g, m) /\ Complete(g, m)
  <2>1. CASE Named(m)
    BY <1>2, <1>4, <2>1, DependDefineGood
  <2>2. CASE ~Named(m)
    <3>1. GoodTouch(d, m, g)
      BY <1>2, <2>2 DEF Good
    <3> HIDE DEF g
    <3>2. Inv(g, {}) /\ Grow(d, g, {Innermost(m)}) /\ Known(g, m)
      BY <1>2, <1>4, <2>2, <3>1 DEF GoodTouch, Known
    <3> QED BY <1>3, <2>2, <3>2, CompleteBy
  <2> QED BY <2>1, <2>2
<1> HIDE DEF g
<1>6. Inv(f, {}) /\ Grow(g, f, {}) /\ Ready(f, m)
  BY <1>1, <1>3, <1>5, UseGood DEF Part
<1> HIDE DEF f
<1>7. Grow(d, f, {Innermost(m)})
  BY <1>2, <1>3, <1>4, <1>5, <1>6, GrowJoin
<1>8. Grow(d, f, {})
  BY <1>2, <1>4, <1>6, <1>7, GrowFinish DEF Ready
<1>10. Complete(f, m)
  BY <1>3, <1>4, <1>5, <1>6, GrowKeeps
<1>9. Grow(e, f, {}) /\ m \in Range(f.made)
  BY <1>4, <1>6, <1>8, GrowFromMade DEF Ready, Known, d
<1> QED BY <1>1, <1>6, <1>9, <1>10

LEMMA ArgumentGood ==
  ASSUME Program, NEW ask, Typed(ask), Good(ask), NEW e \in Emissions, Inv(e, {}),
         NEW a \in DOMAIN dies, Part(a), Kind(a) \in {"struct", "enum"} => dies[a].named,
         ~Argument(ask, e, a).raised
  PROVE  LET f == Argument(ask, e, a)
         IN  Inv(f, {}) /\ Grow(e, f, {}) /\ a \in Range(f.made) /\ Ready(f, a) /\ Complete(f, a)
<1> DEFINE d == Made(e, a)
           g == DependDefine(ask, d, a)
           f == Refer(ask, g, a)
<1>1. Argument(ask, e, a) = f
  BY DEF Argument
<1>2. d \in Emissions /\ Inv(d, {})
  BY MadeFacts, MadeSame
<1> HIDE DEF d
<1>3. g \in Emissions
  BY <1>2, DependTyped DEF Step
<1>4. ~g.raised /\ f \in Emissions /\ GoodRefer(g, a, f)
  <2> HIDE DEF g
  <2>1. Step(g, f) /\ GoodRefer(g, a, f)
    BY <1>3, CallTyped DEF Good
  <2> QED BY <1>1, <2>1 DEF Step
<1>5. Inv(g, {}) /\ Grow(d, g, {Innermost(a)}) /\ Known(g, a) /\ Complete(g, a)
  BY <1>2, <1>4, DependDefineGood
<1> HIDE DEF g
<1>6. Inv(f, {}) /\ Grow(g, f, {}) /\ Ready(f, a)
  BY <1>1, <1>4, <1>5 DEF GoodRefer, Referable, Part
<1> HIDE DEF f
<1>7. Grow(d, f, {Innermost(a)})
  BY <1>2, <1>3, <1>4, <1>5, <1>6, GrowJoin
<1>8. Grow(d, f, {})
  BY <1>2, <1>4, <1>6, <1>7, GrowFinish DEF Ready
<1>10. Complete(f, a)
  BY <1>3, <1>4, <1>5, <1>6, GrowKeeps
<1>9. Grow(e, f, {}) /\ a \in Range(f.made)
  BY <1>4, <1>6, <1>8, GrowFromMade DEF Ready, Known, d
<1> QED BY <1>1, <1>6, <1>9, <1>10

LEMMA MembersGood ==
  ASSUME Program, NEW ask, Typed(ask), Good(ask), NEW e \in Emissions, Inv(e, {}),
         NEW t \in DOMAIN dies, Kind(t) = "struct", ~Members(ask, e, t).raised
  PROVE  LET f == Members(ask, e, t)
         IN  Inv(f, {}) /\ Grow(e, f, {}) /\ t \in f.filled
<1> DEFINE member == [p \in Emissions \X DOMAIN dies |-> Member(ask, p[1], p[2])]
           g == Each(member, e, dies[t].of)
<1>1. /\ dies[t].of \in Seq(DOMAIN dies) /\ Range(dies[t].of) \subseteq DOMAIN dies
      /\ \A m \in Range(dies[t].of) : Part(m)
  BY EntryFacts DEF Program, Part
<1>2. \A y \in Emissions, m \in DOMAIN dies : member[<<y, m>>] = Member(ask, y, m)
  OBVIOUS
<1>3. Members(ask, e, t) = IF t \in e.filled THEN e ELSE Filling(g, t)
  BY DEF Members, Filling
<1> HIDE DEF member
<1>4. CASE t \in e.filled
  BY <1>3, <1>4, GrowSame
<1>5. CASE t \notin e.filled
  <2>1. ASSUME NEW y \in Emissions, NEW m \in Range(dies[t].of)
        PROVE  /\ Step(y, member[<<y, m>>])
               /\ Inv(y, {}) /\ ~member[<<y, m>>].raised =>
                    /\ Inv(member[<<y, m>>], {}) /\ Grow(y, member[<<y, m>>], {})
                    /\ m \in Range(member[<<y, m>>].made)
                    /\ Ready(member[<<y, m>>], m) /\ Complete(member[<<y, m>>], m)
    <3>1. m \in DOMAIN dies /\ Part(m) /\ member[<<y, m>>] = Member(ask, y, m)
      BY <1>1, <1>2
    <3>2. Step(y, Member(ask, y, m))
      BY <3>1, MemberTyped
    <3> QED BY <3>1, <3>2, MemberGood
  <2>2. g \in Emissions
    <3>1. \A y \in Emissions, m \in DOMAIN dies : Step(y, member[<<y, m>>])
      BY <1>2, MemberTyped
    <3> QED BY <1>1, <3>1, EachTyped DEF Step
  <2>3. ~g.raised
    BY <1>3, <1>5, <2>2, FillingFacts
  <2>4. /\ Inv(g, {}) /\ Grow(e, g, {})
        /\ \A m \in Range(dies[t].of) : m \in Range(g.made) /\ Ready(g, m) /\ Complete(g, m)
    BY <1>1, <2>1, <2>3, EachGood
  <2> HIDE DEF g
  <2>5. Inv(Filling(g, t), {}) /\ Grow(g, Filling(g, t), {}) /\ Filling(g, t) \in Emissions
    BY <2>2, <2>4, FillingKeeps, FillingFacts DEF Ready, Fit
  <2> QED BY <1>3, <1>5, <2>2, <2>4, <2>5, GrowJoin, FillingFacts
<1> QED BY <1>4, <1>5

LEMMA SetupGood ==
  ASSUME Unit, NEW ask, Typed(ask), Good(ask), NEW e \in Emissions, Inv(e, {}),
         NEW t \in DOMAIN dies, Kind(t) = "function", ~Setup(ask, e, t).raised
  PROVE  LET f == Setup(ask, e, t)
         IN  Inv(f, {}) /\ Grow(e, f, {Innermost(Target(t))}) /\ t \in f.filled
<1> DEFINE u == Target(t)
           argument == [p \in Emissions \X DOMAIN dies |-> Argument(ask, p[1], p[2])]
           r == ReturnType(ask, e, t)
           g == Each(argument, r, Tail(dies[t].of))
<1>1. /\ u \in DOMAIN dies /\ Tail(dies[t].of) \in Seq(DOMAIN dies)
      /\ Range(dies[t].of) = {u} \cup Range(Tail(dies[t].of)) /\ Range(dies[t].of) \subseteq DOMAIN dies
      /\ \A m \in Range(dies[t].of) : Part(m)
  BY EntryFacts DEF Program, Part, Unit
<1>2. \A y \in Emissions, m \in DOMAIN dies : argument[<<y, m>>] = Argument(ask, y, m)
  OBVIOUS
<1>3. Setup(ask, e, t) = IF t \in e.filled THEN e ELSE Filling(g, t)
  BY DEF Setup, Arguments, Filling
<1> HIDE DEF argument, u
<1>4. CASE t \in e.filled
  BY <1>3, <1>4, GrowSame, GrowMore
<1>5. CASE t \notin e.filled
  <2>1. r = DependDefine(ask, Made(e, u), u) /\ Made(e, u) \in Emissions /\ Inv(Made(e, u), {})
    BY <1>1, MadeFacts, MadeSame DEF ReturnType, u, Unit
  <2>2. r \in Emissions
    BY <1>1, <2>1, DependTyped DEF Step
  <2> HIDE DEF r
  <2>3. \A y \in Emissions, m \in DOMAIN dies : Step(y, argument[<<y, m>>])
    BY <1>2, ArgumentTyped
  <2>4. g \in Emissions /\ Step(r, g)
    BY <1>1, <2>2, <2>3, EachTyped DEF Step
  <2>5. ~g.raised /\ ~r.raised
    BY <1>3, <1>5, <2>4, FillingFacts DEF Step
  <2>6. Inv(r, {}) /\ Grow(Made(e, u), r, {Innermost(u)}) /\ Fit(r, u)
    BY <1>1, <2>1, <2>5, DependDefineGood DEF Unit, Fit
  <2>7. Grow(e, r, {Innermost(u)}) /\ u \in Range(r.made)
    BY <1>1, <2>2, <2>6, GrowFromMade DEF Fit, Known, Unit
  <2>8. ASSUME NEW y \in Emissions, NEW m \in Range(Tail(dies[t].of))
        PROVE  /\ Step(y, argument[<<y, m>>])
               /\ Inv(y, {}) /\ ~argument[<<y, m>>].raised =>
                    /\ Inv(argument[<<y, m>>], {}) /\ Grow(y, argument[<<y, m>>], {})
                    /\ m \in Range(argument[<<y, m>>].made)
                    /\ Ready(argument[<<y, m>>], m) /\ Complete(argument[<<y, m>>], m)
    <3>1. m \in DOMAIN dies /\ Part(m) /\ m \in Range(dies[t].of) /\ argument[<<y, m>>] = Argument(ask, y, m)
      BY <1>1, <1>2
    <3>2. Kind(m) \in {"struct", "enum"} => dies[m].named
      BY <3>1 DEF Unit, PassedByName
    <3> QED BY <2>3, <3>1, <3>2, ArgumentGood DEF Unit
  <2>9. /\ Inv(g, {}) /\ Grow(r, g, {})
        /\ \A m \in Range(Tail(dies[t].of)) : m \in Range(g.made) /\ Ready(g, m) /\ Complete(g, m)
    BY <1>1, <2>2, <2>5, <2>6, <2>8, EachGood DEF Unit
  <2> HIDE DEF g
  <2>10. u \in Range(g.made) /\ Fit(g, u)
    BY <1>1, <2>2, <2>4, <2>6, <2>7, <2>9, GrowKeeps DEF Grow, Unit
  <2>11. \A m \in Range(dies[t].of) :
           /\ m \in Range(g.made) /\ Fit(g, m)
           /\ Kind(t) = "struct" \/ m \in Range(Tail(dies[t].of)) \/ g.status[t] = "DONE" => Ready(g, m)
    <3>1. CASE g.status[t] = "DONE"
      <4>1. t \in g.filled
        BY <2>9, <3>1 DEF Inv, FilledFirst
      <4> QED BY <2>9, <3>1, <4>1 DEF Inv, PartsReady
    <3>2. CASE g.status[t] # "DONE"
      BY <1>1, <2>9, <2>10, <3>2 DEF Ready, Fit
    <3> QED BY <3>1, <3>2
  <2>12. Inv(Filling(g, t), {}) /\ Grow(g, Filling(g, t), {}) /\ Filling(g, t) \in Emissions
    BY <2>4, <2>9, <2>11, FillingKeeps, FillingFacts DEF Unit
  <2>13. Grow(e, g, {Innermost(u)})
    BY <2>2, <2>4, <2>7, <2>9, GrowJoin DEF Unit
  <2>14. Grow(e, Filling(g, t), {Innermost(u)})
    BY <2>4, <2>12, <2>13, GrowJoin DEF Unit
  <2> QED BY <1>3, <1>5, <2>4, <2>12, <2>14, FillingFacts DEF u
<1> QED BY <1>4, <1>5

LEMMA FunctionGood ==
  ASSUME Unit, NEW ask, Typed(ask), Good(ask), NEW e \in Emissions, Inv(e, {}),
         NEW t \in DOMAIN dies, Kind(t) = "function", ~DeclareFunction(ask, e, t).raised
  PROVE  LET f == DeclareFunction(ask, e, t)
         IN  /\ Inv(f, {}) /\ Grow(e, f, {}) /\ f.status[t] = "DONE"
             /\ e.status[t] = "DONE" => f = e
<1> DEFINE u == Target(t)
           s == Setup(ask, e, t)
           g == Refer(ask, s, u)
           f == DeclareFunction(ask, e, t)
<1>1. f = Setting(g, t, "DONE")
  BY DEF DeclareFunction, Setting
<1>2. /\ u \in DOMAIN dies /\ Part(u) /\ u \in Range(dies[t].of)
      /\ Tail(dies[t].of) \in Seq(DOMAIN dies)
      /\ Range(dies[t].of) = {u} \cup Range(Tail(dies[t].of)) /\ Range(dies[t].of) \subseteq DOMAIN dies
  BY EntryFacts DEF Program, Part, Unit
<1>3. s \in Emissions
  BY <1>2, FunctionTyped DEF Step
<1>4. s = e \/ t \notin e.filled
  BY DEF Setup
<1>5. ~f.raised
  OBVIOUS
<1> HIDE DEF s, f
<1>6. g \in Emissions /\ Step(s, g) /\ GoodRefer(s, u, g)
  BY <1>2, <1>3, CallTyped DEF Good, Step
<1>7. ~g.raised /\ ~s.raised
  BY <1>1, <1>5, <1>6, SettingFacts DEF Step, Statuses
<1>8. Inv(s, {}) /\ Grow(e, s, {Innermost(u)}) /\ t \in s.filled
  BY <1>7, SetupGood DEF s
<1> HIDE DEF g
<1>9. /\ Known(s, u)
      /\ \A m \in Range(Tail(dies[t].of)) : Ready(s, m)
      /\ s.status[t] = "DONE" => Ready(s, u)
  BY <1>2, <1>8 DEF Inv, PartsReady, Fit
<1>10. Referable(s, u)
  BY <1>2 DEF Referable, Part, Unit, PassedByName
<1>11. Inv(g, {}) /\ Grow(s, g, {}) /\ Ready(g, u) /\ (Ready(s, u) => g = s)
  BY <1>6, <1>7, <1>8, <1>9, <1>10 DEF GoodRefer
<1>12. t \in g.filled /\ \A m \in Range(dies[t].of) : Ready(g, m)
  BY <1>2, <1>3, <1>6, <1>8, <1>9, <1>11, GrowKeeps DEF Grow, Unit
<1>13. Inv(f, {t}) /\ Grow(g, f, {}) /\ f \in Emissions /\ f.status[t] = "DONE"
  BY <1>1, <1>6, <1>11, <1>12, SettingDoneKeeps, SettingFacts DEF Unit, Statuses
<1>14. Inv(f, {})
  BY <1>13, InvExempt DEF Tagged
<1>15. Grow(e, f, {})
  <2>1. Grow(e, g, {Innermost(u)})
    BY <1>3, <1>6, <1>8, <1>11, GrowJoin DEF Unit
  <2>2. Grow(e, g, {})
    BY <1>2, <1>6, <1>11, <2>1, GrowFinish DEF Ready, Unit
  <2> QED BY <1>6, <1>13, <2>2, GrowJoin DEF Unit
<1>16. e.status[t] = "DONE" => f = e
  <2> SUFFICES ASSUME e.status[t] = "DONE" PROVE f = e
    OBVIOUS
  <2>1. t \in e.filled
    BY DEF Inv, FilledFirst
  <2>2. s = e
    BY <1>4, <2>1
  <2>3. g = e
    BY <1>9, <1>11, <2>2
  <2> QED BY <1>1, <2>3, SettingSame DEF Statuses
<1> QED BY <1>13, <1>14, <1>15, <1>16 DEF f

LEMMA DefineStructGood ==
  ASSUME Program, NEW ask, Typed(ask), Good(ask), NEW e \in Emissions, Inv(e, {}),
         NEW t \in DOMAIN dies, Kind(t) = "struct", ~DefineStruct(ask, e, t).raised
  PROVE  LET f == DefineStruct(ask, e, t)
         IN  /\ Inv(f, {t}) /\ Grow(e, f, {}) /\ f.status[t] = "DONE"
             /\ e.status[t] = "DONE" => f = e
<1> DEFINE g == Members(ask, e, t)
           f == DefineStruct(ask, e, t)
<1>1. f = Setting(g, t, "DONE")
  BY DEF DefineStruct, Setting
<1>2. g \in Emissions
  BY EntryFacts, MembersTyped DEF Step, Program
<1>3. g = e \/ t \notin e.filled
  BY DEF Members
<1>4. ~f.raised
  OBVIOUS
<1> HIDE DEF f
<1>5. ~g.raised
  BY <1>1, <1>2, <1>4, SettingFacts DEF Statuses
<1>6. Inv(g, {}) /\ Grow(e, g, {}) /\ t \in g.filled
  BY <1>5, MembersGood
<1> HIDE DEF g
<1>7. Inv(f, {t}) /\ Grow(g, f, {}) /\ f \in Emissions /\ f.status[t] = "DONE"
  BY <1>1, <1>2, <1>6, SettingDoneKeeps, SettingFacts DEF Statuses
<1>8. Grow(e, f, {})
  BY <1>2, <1>6, <1>7, GrowJoin
<1>9. e.status[t] = "DONE" => f = e
  BY <1>1, <1>3, SettingSame DEF Inv, FilledFirst, Statuses
<1> QED BY <1>7, <1>8, <1>9 DEF f

-----------------------------------------------------------------------------
(* Modifiers and typedefs *)

LEMMA TargetFacts ==
  ASSUME Program, NEW t \in DOMAIN dies, Modifier(t)
  PROVE  /\ Refers(t) /\ Target(t) \in DOMAIN dies /\ Part(Target(t)) /\ t \notin Tagged
         /\ Innermost(t) = Innermost(Target(t)) /\ Named(t) = Named(Target(t)) /\ Opaque(t) = Opaque(Target(t))
         /\ \A e : Status(e, t) = Status(e, Target(t)) /\ Done(e, t) = Done(e, Target(t))
BY RefersFacts, InnermostFacts DEF Refers, Status, Done, Opaque

\* What has no name is no tag and never opaque.
LEMMA NamelessFacts ==
  ASSUME Program, NEW t \in DOMAIN dies, ~Named(t)
  PROVE  ~Opaque(t) /\ t \notin Tagged /\ Kind(t) # "typedef"
<1>1. ~Opaque(t)
  BY InnermostFacts, EntryFacts DEF Opaque, Named, Program
<1>2. ~Modifier(t) => ~dies[t].named
  BY InnermostFacts
<1> QED BY <1>1, <1>2, EntryFacts DEF Program, Tagged, Modifier, Modifiers

LEMMA DefineModifierGood ==
  ASSUME Program, NEW ask, Typed(ask), Good(ask), NEW e \in Emissions, Inv(e, {}),
         NEW t \in DOMAIN dies, Modifier(t), t \in e.linked,
         NEW f \in {DefineQualified(ask, e, t), DefineArray(ask, e, t)}, ~f.raised
  PROVE  /\ Inv(f, {}) /\ Grow(e, f, {})
         /\ Named(t) => Status(f, t) # "NEW"
         /\ (Straight(t) \/ ~Named(t)) /\ ~Opaque(t) => Done(f, t)
         /\ ~Named(t) /\ Done(e, t) => f = e
<1> DEFINE u == Target(t)
           g == DefinedUnder(ask, e, t)
<1>1. /\ Refers(t) /\ u \in DOMAIN dies /\ Part(u)
      /\ Innermost(t) = Innermost(u) /\ Named(t) = Named(u) /\ Opaque(t) = Opaque(u)
      /\ \A x : Status(x, t) = Status(x, u) /\ Done(x, t) = Done(x, u)
  BY TargetFacts
<1>2. g \in Emissions
  BY <1>1, UnderTyped DEF Step
<1>3. f \in {g, Use(ask, g, u), Define(ask, g, u)}
  BY DEF DefineQualified, DefineArray
<1>4. /\ Step(g, Use(ask, g, u)) /\ Step(g, Define(ask, g, u)) /\ GoodDefine(g, u, Define(ask, g, u))
      /\ Use(ask, g, u) \in Emissions /\ Define(ask, g, u) \in Emissions
  BY <1>1, <1>2, CallTyped, UseTyped DEF Good, Step
<1>5. f \in Emissions /\ ~g.raised
  BY <1>2, <1>3, <1>4 DEF Step
<1>6. /\ Inv(g, {}) /\ Grow(e, g, {Innermost(u)}) /\ t \in g.linked
      /\ Kind(t) # "pointer" /\ Named(u) /\ Straight(u) /\ ~Opaque(u) => Done(g, u)
      /\ ~Named(u) \/ Done(e, u) => g = e
  BY <1>1, <1>5, UnderGood
<1>7. Known(g, u) /\ Known(e, u)
  BY <1>2, <1>6, LinkedKnown
<1>8. Straight(t) => Kind(t) # "pointer" /\ Straight(u)
  BY StraightStep DEF Modifier, Modifiers
<1>9. \/ Named(u) /\ f = g
      \/ Named(u) /\ f = Use(ask, g, u)
      \/ ~Named(u) /\ f = Use(ask, g, u)
      \/ ~Named(u) /\ f = Define(ask, g, u)
  BY <1>1 DEF DefineQualified, DefineArray
<1> HIDE DEF g
<1>10. /\ Inv(f, {}) /\ Grow(g, f, {}) /\ Ready(f, u)
       /\ ~Named(u) /\ Done(e, u) => f = e
  <2>1. CASE Named(u) /\ f = g
    BY <1>6, <1>7, <1>2, <2>1, GrowSame DEF Ready
  <2>2. CASE f = Use(ask, g, u)
    <3>1. /\ Inv(f, {}) /\ Grow(g, f, {}) /\ Ready(f, u)
          /\ Ready(g, u) => f = g
      BY <1>1, <1>2, <1>6, <1>7, <2>2, UseGood DEF Part
    <3> QED BY <1>6, <1>7, <3>1 DEF Ready
  <2>3. CASE ~Named(u) /\ f = Define(ask, g, u)
    <3>1. ~Opaque(u) /\ u \notin Tagged
      BY <1>1, <2>3, NamelessFacts
    <3>2. Inv(f, {u}) /\ Grow(g, f, {}) /\ Done(f, u) /\ (Done(g, u) => f = g)
      BY <1>4, <1>6, <1>7, <2>3, <3>1 DEF GoodDefine, Known
    <3>3. Inv(f, {}) /\ Known(f, u)
      BY <1>1, <1>2, <1>5, <1>7, <3>1, <3>2, InvExempt, GrowKeeps
    <3> QED BY <1>6, <2>3, <3>2, <3>3 DEF Ready
  <2> QED BY <1>9, <2>1, <2>2, <2>3
<1>11. Grow(e, f, {})
  <2>1. Grow(e, f, {Innermost(u)})
    BY <1>2, <1>5, <1>6, <1>10, GrowJoin
  <2> QED BY <1>1, <1>5, <1>10, <2>1, GrowFinish DEF Ready
<1>12. Named(t) => Status(f, t) # "NEW"
  BY <1>1, <1>10 DEF Ready, Known
<1>13. ASSUME Straight(t) \/ ~Named(t), ~Opaque(t) PROVE Done(f, t)
  <2>1. CASE Named(t)
    <3>1. Done(g, u)
      BY <1>1, <1>6, <1>8, <1>13, <2>1
    <3> QED BY <1>1, <1>2, <1>5, <1>10, <3>1, GrowKeeps
  <2>2. CASE ~Named(t)
    BY <1>1, <1>10, <2>2 DEF Ready
  <2> QED BY <2>1, <2>2
<1> QED BY <1>1, <1>10, <1>11, <1>12, <1>13

LEMMA ReferModifierGood ==
  ASSUME Program, NEW ask, Typed(ask), Good(ask), NEW e \in Emissions, Inv(e, {}),
         NEW t \in DOMAIN dies, Modifier(t), Known(e, t),
         NEW f \in {ReferQualified(ask, e, t), ReferArray(ask, e, t), ReferPointer(ask, e, t)}, ~f.raised
  PROVE  /\ Inv(f, {}) /\ Grow(e, f, {}) /\ Ready(f, t)
         /\ Ready(e, t) => f = e
<1> DEFINE u == Target(t)
<1>1. /\ Refers(t) /\ u \in DOMAIN dies /\ Part(u) /\ Named(t) = Named(u)
      /\ \A x : Status(x, t) = Status(x, u) /\ Done(x, t) = Done(x, u)
  BY TargetFacts
<1>2. t \in e.linked
  BY DEF Known, Reached
<1>3. f = Use(ask, e, u)
  BY <1>2 DEF ReferQualified, ReferArray, ReferPointer, LinkDefined, LinkDeclared
<1>4. Known(e, u)
  BY <1>2, LinkedKnown
<1>5. /\ Inv(f, {}) /\ Grow(e, f, {}) /\ Ready(f, u)
      /\ Ready(e, u) => f = e
  BY <1>1, <1>3, <1>4, UseGood DEF Part
<1>6. f \in Emissions
  BY <1>1, <1>3, UseTyped DEF Step
<1>7. Known(f, t)
  BY <1>5, <1>6, GrowKeeps
<1> QED BY <1>1, <1>4, <1>5, <1>7 DEF Ready

LEMMA EmitRefOrDefnGood ==
  ASSUME Program, NEW ask, Typed(ask), Good(ask), NEW e \in Emissions, Inv(e, {}),
         NEW t \in DOMAIN dies, Refers(t), Known(e, Target(t)), ~EmitRefOrDefn(ask, e, t).raised
  PROVE  LET f == EmitRefOrDefn(ask, e, t)
         IN  f \in Emissions /\ Inv(f, {}) /\ Grow(e, f, {}) /\ Ready(f, Target(t))
<1> DEFINE u == Target(t)
           r == Touch(ask, e, u)
           f == EmitRefOrDefn(ask, e, t)
<1>1. u \in DOMAIN dies /\ Part(u)
  BY RefersFacts
<1>2. r \in Emissions /\ GoodTouch(e, u, r)
  BY <1>1, CallTyped DEF Good, Step
<1>3. /\ Step(r, Refer(ask, r, u)) /\ GoodRefer(r, u, Refer(ask, r, u)) /\ Refer(ask, r, u) \in Emissions
      /\ Step(r, Define(ask, r, u)) /\ GoodDefine(r, u, Define(ask, r, u)) /\ Define(ask, r, u) \in Emissions
  BY <1>1, <1>2, CallTyped DEF Good, Step
<1>4. f = IF Named(u) THEN Refer(ask, r, u) ELSE Setting(Define(ask, r, u), u, "DONE")
  BY DEF EmitRefOrDefn, Setting
<1>5. ~f.raised
  OBVIOUS
<1> HIDE DEF r, f
<1>6. CASE Named(u)
  <2>1. ~r.raised
    BY <1>3, <1>4, <1>5, <1>6 DEF Step
  <2>2. r = e
    BY <1>2, <2>1 DEF GoodTouch, Known
  <2>3. Referable(e, u)
    BY <1>1, <1>6, InnermostFacts DEF Referable, Modifier, Modifiers, Part
  <2> QED BY <1>3, <1>4, <1>5, <1>6, <2>2, <2>3 DEF GoodRefer, f
<1>7. CASE ~Named(u)
  <2> DEFINE g == Define(ask, r, u)
  <2>1. f = Setting(g, u, "DONE") /\ g \in Emissions /\ Step(r, g) /\ GoodDefine(r, u, g)
    BY <1>3, <1>4, <1>7
  <2> HIDE DEF g
  <2>2. ~g.raised /\ ~r.raised
    <3>1. f.raised = g.raised
      <4> HIDE DEF u
      <4>1. Setting(g, u, "DONE").raised = g.raised
        BY DEF Setting
      <4> QED BY <2>1, <4>1
    <3> QED BY <1>5, <2>1, <3>1 DEF Step
  <2>3. r = e
    BY <1>2, <2>2 DEF GoodTouch, Known
  <2>4. ~Opaque(u) /\ u \notin Tagged /\ Kind(u) # "typedef"
    BY <1>1, <1>7, NamelessFacts
  <2>5. Inv(g, {u}) /\ Grow(e, g, {}) /\ Done(g, u)
    BY <1>7, <2>1, <2>2, <2>3, <2>4 DEF GoodDefine, Known
  <2>6. Inv(g, {})
    BY <2>4, <2>5, InvExempt
  <2>7. /\ Kind(u) \in {"struct", "function"} => u \in g.filled
        /\ Kind(u) = "function" => \A m \in Range(dies[u].of) : Ready(g, m)
    <3> SUFFICES ASSUME Kind(u) \in {"struct", "function"}
                 PROVE  /\ u \in g.filled
                        /\ Kind(u) = "function" => \A m \in Range(dies[u].of) : Ready(g, m)
      OBVIOUS
    <3>1. g.status[u] = "DONE"
      BY <1>1, <2>5, InnermostFacts DEF Done, Status, Modifier, Modifiers
    <3>2. u \in g.filled
      BY <1>1, <2>6, <3>1 DEF Inv, FilledFirst
    <3> QED BY <2>6, <3>1, <3>2 DEF Inv, PartsReady
  <2>8. Kind(u) # "declared"
    BY <1>1, <1>7, InnermostFacts, EntryFacts DEF Program, Modifier, Modifiers
  <2>9. Inv(f, {u}) /\ Grow(g, f, {}) /\ f \in Emissions
    BY <1>1, <2>1, <2>4, <2>6, <2>7, <2>8, SettingDoneKeeps, SettingFacts DEF Statuses
  <2>10. Inv(f, {}) /\ Grow(e, f, {})
    BY <2>1, <2>4, <2>5, <2>9, InvExempt, GrowJoin
  <2>11. Ready(f, u)
    <3>1. Known(f, u)
      BY <1>1, <2>9, <2>10, GrowKeeps
    <3>2. Done(f, u)
      BY <1>1, <2>1, <2>5, <2>9, GrowKeeps
    <3> QED BY <3>1, <3>2 DEF Ready
  <2> QED BY <2>9, <2>10, <2>11 DEF f
<1> QED BY <1>6, <1>7

LEMMA DefineTypedefGood ==
  ASSUME Program, NEW ask, Typed(ask), Good(ask), NEW e \in Emissions, Inv(e, {}),
         NEW t \in DOMAIN dies, Kind(t) = "typedef", ~DefineTypedef(ask, e, t).raised
  PROVE  LET f == DefineTypedef(ask, e, t)
         IN  Inv(f, {}) /\ Grow(e, f, {}) /\ f.status[t] = "DONE" /\ Ready(f, Target(t))
<1> DEFINE u == Target(t)
           g == DefinedUnder(ask, e, t)
           h == Setting(g, t, "DONE")
           f == DefineTypedef(ask, e, t)
<1>1. Refers(t) /\ u \in DOMAIN dies /\ t \notin Tagged
  BY RefersFacts DEF Refers
<1>2. g \in Emissions
  BY <1>1, UnderTyped DEF Step
<1>3. f = EmitRefOrDefn(ask, h, t)
  BY DEF DefineTypedef, Setting
<1>4. ~f.raised
  OBVIOUS
<1> HIDE DEF g, f
<1>5. h \in Emissions /\ h.status[t] = "DONE" /\ h.raised = g.raised
  BY <1>2, SettingFacts DEF Statuses
<1>6. ~g.raised
  <2> HIDE DEF h
  <2>1. Step(h, f)
    BY <1>1, <1>3, <1>5, TypedefTyped
  <2> QED BY <1>4, <1>5, <2>1 DEF Step
<1>7. /\ Inv(g, {}) /\ Grow(e, g, {Innermost(u)}) /\ t \in g.linked
      /\ Named(u) /\ Straight(u) /\ ~Opaque(u) => Done(g, u)
  BY <1>1, <1>6, UnderGood DEF g
<1>14. Complete(g, u)
  BY <1>1, <1>2, <1>7, CompleteBy
<1>8. Inv(h, {t}) /\ Grow(g, h, {})
  BY <1>2, <1>7, <1>14, SettingDoneKeeps
<1>9. Inv(h, {}) /\ t \in h.linked
  BY <1>1, <1>7, <1>8, InvExempt DEF Grow
<1> HIDE DEF h
<1>10. Known(h, u)
  BY <1>5, <1>9, LinkedKnown
<1>11. f \in Emissions /\ Inv(f, {}) /\ Grow(h, f, {}) /\ Ready(f, u)
  BY <1>1, <1>3, <1>4, <1>5, <1>9, <1>10, EmitRefOrDefnGood
<1>12. Grow(e, f, {})
  <2>1. Grow(g, f, {})
    BY <1>2, <1>5, <1>8, <1>11, GrowJoin
  <2>2. Grow(e, f, {Innermost(u)})
    BY <1>2, <1>7, <1>11, <2>1, GrowJoin
  <2> QED BY <1>1, <1>11, <2>2, GrowFinish DEF Ready
<1>13. f.status[t] = "DONE"
  BY <1>5, <1>11 DEF Grow
<1> QED BY <1>11, <1>12, <1>13 DEF f

LEMMA DeclareTypedefGood ==
  ASSUME Program, NEW ask, Typed(ask), Good(ask), NEW e \in Emissions, Inv(e, {}),
         NEW t \in DOMAIN dies, Kind(t) = "typedef", Simple(t), e.status[t] = "NEW", ~DeclareTypedef(ask, e, t).raised
  PROVE  LET f == DeclareTypedef(ask, e, t)
         IN  Inv(f, {}) /\ Grow(e, f, {}) /\ f.status[t] # "NEW" /\ Ready(f, Target(t))
<1> DEFINE u == Target(t)
           g == DeclaredUnder(ask, e, t)
           h == Setting(g, t, "DECLARED")
           f == DeclareTypedef(ask, e, t)
<1>1. Refers(t) /\ u \in DOMAIN dies /\ t \notin Tagged
  BY RefersFacts DEF Refers
<1>2. g \in Emissions
  BY <1>1, UnderTyped DEF Step
<1>3. f = EmitRefOrDefn(ask, h, t)
  BY DEF DeclareTypedef, Setting
<1>4. ~f.raised
  OBVIOUS
<1> HIDE DEF g, f
<1>5. h \in Emissions /\ h.status[t] = "DECLARED" /\ h.raised = g.raised /\ h.linked = g.linked
  BY <1>2, SettingFacts DEF Statuses
<1>6. ~g.raised
  <2> HIDE DEF h
  <2>1. Step(h, f)
    BY <1>1, <1>3, <1>5, TypedefTyped
  <2> QED BY <1>4, <1>5, <2>1 DEF Step
<1>7. Inv(g, {}) /\ Grow(e, g, {Innermost(u)}) /\ t \in g.linked
  BY <1>1, <1>6, UnderGood DEF g
<1>8. Inv(h, {}) /\ Grow(e, h, {Innermost(u)})
  BY <1>2, <1>7, SettingTypedefKeeps
<1> HIDE DEF h
<1>9. Known(h, u)
  BY <1>5, <1>7, <1>8, LinkedKnown
<1>10. f \in Emissions /\ Inv(f, {}) /\ Grow(h, f, {}) /\ Ready(f, u)
  BY <1>1, <1>3, <1>4, <1>5, <1>8, <1>9, EmitRefOrDefnGood
<1>11. Grow(e, f, {})
  <2>1. Grow(e, f, {Innermost(u)})
    BY <1>5, <1>8, <1>10, GrowJoin
  <2> QED BY <1>1, <1>10, <2>1, GrowFinish DEF Ready
<1>12. f.status[t] # "NEW"
  BY <1>5, <1>10 DEF Grow
<1> QED BY <1>10, <1>11, <1>12 DEF f

-----------------------------------------------------------------------------
(* Every call keeps what it promises *)

LEMMA TouchedGood ==
  ASSUME Program, NEW ask, Typed(ask), Good(ask), NEW e \in Emissions, NEW t \in DOMAIN dies
  PROVE  GoodTouch(e, t, Touched(ask, e, t))
<1> DEFINE u == Target(t)
           l == LinkDeclared(ask, e, t)
           f == Touched(ask, e, t)
<1> SUFFICES ASSUME Inv(e, {}), ~f.raised
             PROVE  /\ Inv(f, {}) /\ Grow(e, f, {Innermost(t)}) /\ Reached(f, t)
                    /\ Reached(e, t) => f = e
  BY DEF GoodTouch
<1>1. CASE ~Modifier(t)
  <2>1. f = e
    BY <1>1 DEF Touched
  <2> QED BY <1>1, <2>1, GrowSame, GrowMore DEF Reached
<1>2. CASE Modifier(t)
  <2>1. f = Touch(ask, l, u)
    BY <1>2 DEF Touched
  <2>2. Refers(t) /\ u \in DOMAIN dies /\ Innermost(t) = Innermost(u)
    BY <1>2, TargetFacts
  <2>3. l \in Emissions
    BY <2>2, LinkTyped DEF Step
  <2> HIDE DEF f
  <2>4. Step(l, f) /\ GoodTouch(l, u, f)
    BY <2>1, <2>2, <2>3, CallTyped DEF Good
  <2>5. ~l.raised
    BY <2>4 DEF Step
  <2>6. /\ Inv(l, {}) /\ Grow(e, l, {Innermost(u)}) /\ t \in l.linked
        /\ t \in e.linked => l = e
    BY <1>2, <2>2, <2>5, LinkGood
  <2>7. Known(l, u)
    BY <2>3, <2>6, LinkedKnown
  <2>8. f = l
    BY <2>4, <2>6, <2>7 DEF GoodTouch, Known
  <2> QED BY <1>2, <2>2, <2>6, <2>8 DEF Reached
<1> QED BY <1>1, <1>2

LEMMA DeclaredGood ==
  ASSUME Program, NEW ask, Typed(ask), Good(ask), NEW e \in Emissions, NEW t \in DOMAIN dies
  PROVE  GoodDeclare(e, t, Declared(ask, e, t))
<1> DEFINE f == Declared(ask, e, t)
<1> SUFFICES ASSUME Inv(e, {}), ~f.raised, ~Modifier(t), Named(t), Kind(t) # "function", e.status[t] = "NEW",
                    Simple(t)
             PROVE  /\ Inv(f, {t}) /\ Grow(e, f, {}) /\ f.status[t] # "NEW"
                    /\ Kind(t) = "struct" => f.status[t] = "DECLARED"
                    /\ Kind(t) = "typedef" => Ready(f, Target(t))
  BY DEF GoodDeclare
<1>1. Kind(t) \in {"base", "unknown", "declared", "struct", "enum", "typedef"} /\ dies[t].named
  BY EntryFacts, InnermostFacts DEF Program, Kinds, Modifier
<1>2. CASE Kind(t) \in {"struct", "declared"}
  <2>1. f = Setting(e, t, "DECLARED")
    BY <1>2, DeclaredCases DEF DeclareStruct, Setting
  <2> HIDE DEF f
  <2>2. e.status[t] # "DONE"
    OBVIOUS
  <2>3. Inv(f, {t}) /\ Grow(e, f, {})
    BY <1>1, <1>2, <2>1, <2>2, SettingDeclaredKeeps
  <2>4. f.status[t] = "DECLARED"
    BY <2>1, SettingFacts DEF Statuses
  <2> QED BY <1>2, <2>3, <2>4 DEF f
<1>3. CASE Kind(t) \in {"base", "unknown", "enum"}
  <2>1. f = Setting(e, t, "DONE")
    BY <1>3, DeclaredCases DEF DefineEnum, DeclareBase, Setting
  <2> HIDE DEF f
  <2>2. Inv(f, {t}) /\ Grow(e, f, {})
    BY <1>3, <2>1, SettingDoneKeeps
  <2>3. f.status[t] = "DONE"
    BY <2>1, SettingFacts DEF Statuses
  <2> QED BY <1>3, <2>2, <2>3 DEF f
<1>4. CASE Kind(t) = "typedef"
  <2>1. f = DeclareTypedef(ask, e, t)
    BY <1>4, DeclaredCases
  <2> HIDE DEF f
  <2>2. ~DeclareTypedef(ask, e, t).raised
    BY <2>1 DEF f
  <2>3. Inv(f, {}) /\ Grow(e, f, {}) /\ f.status[t] # "NEW" /\ Ready(f, Target(t))
    BY <1>4, <2>1, <2>2, DeclareTypedefGood
  <2> QED BY <1>4, <2>3, InvMore DEF f
<1> QED BY <1>1, <1>2, <1>3, <1>4

LEMMA DefinedGood ==
  ASSUME Unit, NEW ask, Typed(ask), Good(ask), NEW e \in Emissions, NEW t \in DOMAIN dies
  PROVE  GoodDefine(e, t, Defined(ask, e, t))
<1> DEFINE f == Defined(ask, e, t)
<1> SUFFICES ASSUME Inv(e, {}), ~f.raised, Reached(e, t)
             PROVE  /\ Inv(f, {t}) /\ Grow(e, f, {})
                    /\ Named(t) => Status(f, t) # "NEW"
                    /\ (Straight(t) \/ ~Named(t)) /\ ~Opaque(t) => Done(f, t)
                    /\ Kind(t) = "typedef" => Ready(f, Target(t))
                    /\ ~Named(t) /\ Done(e, t) => f = e
  BY DEF GoodDefine
<1>1. Kind(t) \in Kinds
  BY EntryFacts DEF Unit, Program
<1>2. ASSUME ~Modifier(t)
      PROVE  Innermost(t) = t /\ Named(t) = dies[t].named /\ \A x : Status(x, t) = x.status[t]
  BY <1>2, InnermostFacts DEF Unit, Status
<1>0. Program
  BY DEF Unit
<1>a. ~Modifier(t) => \A x : Done(x, t) = (x.status[t] = "DONE")
  BY <1>2 DEF Done, Status
<1>3. CASE Kind(t) = "struct"
  <2>1. f = DefineStruct(ask, e, t)
    BY <1>3, DefinedCases
  <2>2. ~Modifier(t)
    BY <1>3 DEF Modifier, Modifiers
  <2> HIDE DEF f
  <2>3. ~DefineStruct(ask, e, t).raised
    BY <2>1 DEF f
  <2>4. Inv(f, {t}) /\ Grow(e, f, {}) /\ f.status[t] = "DONE" /\ (e.status[t] = "DONE" => f = e)
    BY <1>0, <1>3, <2>1, <2>3, DefineStructGood
  <2> QED BY <1>2, <1>3, <1>a, <2>2, <2>4 DEF f
<1>4. CASE Kind(t) = "declared"
  <2>1. f = Setting(e, t, "DECLARED")
    BY <1>4, DefinedCases DEF DefineStruct, DeclareStruct, Setting
  <2>2. e.status[t] # "DONE" /\ dies[t].named
    BY <1>0, <1>4, EntryFacts DEF Inv, StatusFits, Program
  <2>3. ~Modifier(t)
    BY <1>4 DEF Modifier, Modifiers
  <2> HIDE DEF f
  <2>4. Inv(f, {t}) /\ Grow(e, f, {})
    BY <1>0, <1>4, <2>1, <2>2, SettingDeclaredKeeps
  <2>5. f.status[t] = "DECLARED"
    BY <2>1, SettingFacts DEF Statuses
  <2>6. Opaque(t) /\ Named(t)
    BY <1>2, <1>4, <2>2, <2>3 DEF Opaque
  <2> QED BY <1>2, <1>4, <2>3, <2>4, <2>5, <2>6 DEF f
<1>5. CASE Kind(t) \in {"base", "unknown", "enum"}
  <2>1. f = Setting(e, t, "DONE")
    BY <1>5, DefinedCases DEF DefineEnum, DeclareBase, Setting
  <2>2. ~Modifier(t)
    BY <1>5 DEF Modifier, Modifiers
  <2> HIDE DEF f
  <2>3. Inv(f, {t}) /\ Grow(e, f, {})
    BY <1>0, <1>5, <2>1, SettingDoneKeeps
  <2>4. f.status[t] = "DONE"
    BY <2>1, SettingFacts DEF Statuses
  <2>5. e.status[t] = "DONE" => f = e
    BY <2>1, SettingSame DEF Statuses
  <2> QED BY <1>2, <1>5, <1>a, <2>2, <2>3, <2>4, <2>5 DEF f
<1>6. CASE Kind(t) = "function"
  <2>1. f = DeclareFunction(ask, e, t)
    BY <1>6, DefinedCases
  <2>2. Inv(f, {}) /\ Grow(e, f, {}) /\ f.status[t] = "DONE" /\ (e.status[t] = "DONE" => f = e)
    BY <1>6, <2>1, FunctionGood
  <2> QED BY <1>2, <1>6, <2>2, InvMore DEF Modifier, Modifiers, Done
<1>7. CASE Kind(t) = "typedef"
  <2>1. f = DefineTypedef(ask, e, t)
    BY <1>7, DefinedCases
  <2>2. Inv(f, {}) /\ Grow(e, f, {}) /\ f.status[t] = "DONE" /\ Ready(f, Target(t))
    BY <1>7, <2>1, DefineTypedefGood DEF Unit
  <2>3. dies[t].named
    BY <1>7, EntryFacts DEF Unit, Program
  <2> QED BY <1>2, <1>7, <2>2, <2>3, InvMore DEF Modifier, Modifiers, Done
<1>8. CASE Modifier(t)
  <2>1. t \in e.linked
    BY <1>8 DEF Reached
  <2>2. f = IF Kind(t) = "qualified" THEN DefineQualified(ask, e, t) ELSE DefineArray(ask, e, t)
    BY <1>8, DefinedCases DEF DefinePointer, Modifier, Modifiers
  <2>3. f \in {DefineQualified(ask, e, t), DefineArray(ask, e, t)}
    BY <2>2
  <2>4. ~f.raised
    OBVIOUS
  <2> HIDE DEF f
  <2>5. /\ Inv(f, {}) /\ Grow(e, f, {})
        /\ Named(t) => Status(f, t) # "NEW"
        /\ (Straight(t) \/ ~Named(t)) /\ ~Opaque(t) => Done(f, t)
        /\ ~Named(t) /\ Done(e, t) => f = e
    BY <1>0, <1>8, <2>1, <2>3, <2>4, DefineModifierGood
  <2> QED BY <1>8, <2>5, InvMore DEF f, Modifier, Modifiers
<1> QED BY <1>1, <1>3, <1>4, <1>5, <1>6, <1>7, <1>8 DEF Kinds, Modifier

LEMMA ReferredGood ==
  ASSUME Unit, NEW ask, Typed(ask), Good(ask), NEW e \in Emissions, NEW t \in DOMAIN dies
  PROVE  GoodRefer(e, t, Referred(ask, e, t))
<1> DEFINE f == Referred(ask, e, t)
<1> SUFFICES ASSUME Inv(e, {}), ~f.raised, Known(e, t), Referable(e, t)
             PROVE  /\ Inv(f, {}) /\ Grow(e, f, {}) /\ Ready(f, t)
                    /\ Ready(e, t) => f = e
  BY DEF GoodRefer
<1>1. Kind(t) \in Kinds
  BY EntryFacts DEF Unit, Program
<1>2. ASSUME ~Modifier(t)
      PROVE  Innermost(t) = t /\ Named(t) = dies[t].named /\ \A x : Status(x, t) = x.status[t]
  BY <1>2, InnermostFacts DEF Unit, Status
<1>3. CASE Kind(t) \in {"base", "unknown", "declared", "struct", "enum"}
  <2>1. f = e
    BY <1>3, ReferredCases
  <2>2. Named(t)
    BY <1>2, <1>3, EntryFacts DEF Referable, Unit, Program, Modifier, Modifiers
  <2> QED BY <2>1, <2>2, GrowSame DEF Ready
<1>4. CASE Kind(t) = "function"
  <2>1. f = DeclareFunction(ask, e, t)
    BY <1>4, ReferredCases
  <2>2. Inv(f, {}) /\ Grow(e, f, {}) /\ f.status[t] = "DONE" /\ (e.status[t] = "DONE" => f = e)
    BY <1>4, <2>1, FunctionGood
  <2>3. Ready(e, t) => e.status[t] = "DONE"
    BY <1>2, <1>4 DEF Ready, Referable, Done, Modifier, Modifiers
  <2>4. Ready(f, t)
    BY <1>2, <1>4, <2>2 DEF Ready, Known, Reached, Done, Modifier, Modifiers
  <2> QED BY <2>2, <2>3, <2>4
<1>5. CASE Kind(t) = "typedef"
  <2>1. Named(t)
    BY <1>2, <1>5, EntryFacts DEF Unit, Program, Modifier, Modifiers
  <2>2. t \in e.linked
    BY <1>2, <1>5, <2>1 DEF Known, Inv, TypedefsLinked, Modifier, Modifiers
  <2>3. f = e
    BY <1>5, <2>2, ReferredCases DEF ReferTypedef, LinkDefined
  <2> QED BY <2>1, <2>3, GrowSame DEF Ready
<1>6. CASE Modifier(t)
  <2>1. f \in {ReferQualified(ask, e, t), ReferArray(ask, e, t), ReferPointer(ask, e, t)}
    BY <1>6, ReferredCases DEF Modifier, Modifiers
  <2> QED BY <1>6, <2>1, ReferModifierGood DEF Unit
<1> QED BY <1>1, <1>3, <1>4, <1>5, <1>6 DEF Kinds, Modifier

\* One level more keeps what the calls below it promise.
LEMMA LevelGood ==
  ASSUME Unit, NEW ask, NEW n \in Nat, n = 0 \/ (Typed(ask) /\ Good(ask))
  PROVE  /\ Level(ask, n) \in [Questions \X Emissions \X DOMAIN dies -> Emissions]
         /\ Typed(Level(ask, n)) /\ Good(Level(ask, n))
<1> DEFINE Calls == [Questions \X Emissions \X DOMAIN dies -> Emissions]
<1>0. n = 0 \/ (Typed(ask) /\ Good(ask))
  OBVIOUS
<1>1. ASSUME NEW what \in Questions, NEW e \in Emissions, NEW t \in DOMAIN dies
      PROVE  Step(e, Level(ask, n)[<<what, e, t>>])
  <2> DEFINE f == Level(ask, n)[<<what, e, t>>]
  <2>1. f = GivenUp(e) \/ (f = Answer(ask, what, e, t) /\ n # 0)
    BY LevelAnswers
  <2> HIDE DEF f
  <2>2. CASE f = GivenUp(e)
    BY <2>2, GivenUpFacts DEF Step, f
  <2>3. CASE f = Answer(ask, what, e, t) /\ n # 0
    BY <1>0, <2>3, AnswerTyped DEF f, Unit
  <2> QED BY <2>1, <2>2, <2>3
<1>2. Typed(Level(ask, n))
  BY <1>1 DEF Typed
<1>3. \A q \in Questions \X Emissions \X DOMAIN dies : Level(ask, n)[q] \in Emissions
  BY <1>1 DEF Step
<1>4. Level(ask, n) \in Calls
  <2>1. Level(ask, n) = [q \in Questions \X Emissions \X DOMAIN dies |-> Level(ask, n)[q]]
    BY DEF Level
  <2> QED BY <1>3, <2>1
<1>5. ASSUME NEW e \in Emissions, NEW t \in DOMAIN dies
      PROVE  /\ GoodTouch(e, t, Touch(Level(ask, n), e, t))
             /\ GoodDeclare(e, t, Declare(Level(ask, n), e, t))
             /\ GoodDefine(e, t, Define(Level(ask, n), e, t))
             /\ GoodRefer(e, t, Refer(Level(ask, n), e, t))
  <2> DEFINE L == Level(ask, n)
  <2>1. \A what \in Questions :
          \/ L[<<what, e, t>>].raised
          \/ L[<<what, e, t>>] = Answer(ask, what, e, t) /\ Typed(ask) /\ Good(ask)
    BY <1>0, LevelAnswers, GivenUpFacts
  <2> HIDE DEF L
  <2>2. GoodTouch(e, t, L[<<"touch", e, t>>])
    <3>1. CASE L[<<"touch", e, t>>].raised
      BY <3>1 DEF GoodTouch
    <3>2. CASE L[<<"touch", e, t>>] = Touched(ask, e, t) /\ Typed(ask) /\ Good(ask)
      BY <3>2, TouchedGood DEF Unit
    <3> QED BY <2>1, <3>1, <3>2, AnswerCases DEF Questions
  <2>3. GoodDeclare(e, t, L[<<"declare", e, t>>])
    <3>1. CASE L[<<"declare", e, t>>].raised
      BY <3>1 DEF GoodDeclare
    <3>2. CASE L[<<"declare", e, t>>] = Declared(ask, e, t) /\ Typed(ask) /\ Good(ask)
      BY <3>2, DeclaredGood DEF Unit
    <3> QED BY <2>1, <3>1, <3>2, AnswerCases DEF Questions
  <2>4. GoodDefine(e, t, L[<<"define", e, t>>])
    <3>1. CASE L[<<"define", e, t>>].raised
      BY <3>1 DEF GoodDefine
    <3>2. CASE L[<<"define", e, t>>] = Defined(ask, e, t) /\ Typed(ask) /\ Good(ask)
      BY <3>2, DefinedGood
    <3> QED BY <2>1, <3>1, <3>2, AnswerCases DEF Questions
  <2>5. GoodRefer(e, t, L[<<"refer", e, t>>])
    <3>1. CASE L[<<"refer", e, t>>].raised
      BY <3>1 DEF GoodRefer
    <3>2. CASE L[<<"refer", e, t>>] = Referred(ask, e, t) /\ Typed(ask) /\ Good(ask)
      BY <3>2, ReferredGood
    <3> QED BY <2>1, <3>1, <3>2, AnswerCases DEF Questions
  <2> QED BY <2>2, <2>3, <2>4, <2>5 DEF Touch, Declare, Define, Refer, L
<1>6. Good(Level(ask, n))
  BY <1>5 DEF Good
<1> QED BY <1>2, <1>4, <1>6

LEMMA AnswersGood ==
  ASSUME Unit
  PROVE  Typed(Answers) /\ Good(Answers)
<1> DEFINE Q == {ask \in [Questions \X Emissions \X DOMAIN dies -> Emissions] : Typed(ask) /\ Good(ask)}
<1>1. ASSUME NEW ask, NEW n \in Nat, n = 0 \/ ask \in Q PROVE Level(ask, n) \in Q
  BY <1>1, LevelGood
<1> HIDE DEF Q
<1>2. Answers \in Q
  BY <1>1, CallInduction
<1> QED BY <1>2 DEF Q

-----------------------------------------------------------------------------
(* The rounds of get_named_types and what follows them *)

\* A call that is given up changes nothing.
Whole(ask) ==
  \A what \in Questions, e \in Emissions, t \in DOMAIN dies :
    ask[<<what, e, t>>].raised => ask[<<what, e, t>>] = GivenUp(e)

LEMMA AnswersWhole ==
  ASSUME Program
  PROVE  Whole(Answers)
<1> DEFINE Calls == [Questions \X Emissions \X DOMAIN dies -> Emissions]
           Q == {ask \in Calls : Typed(ask) /\ Whole(ask)}
<1>1. ASSUME NEW ask, NEW n \in Nat, n = 0 \/ ask \in Q PROVE Level(ask, n) \in Q
  <2>1. ASSUME NEW what \in Questions, NEW e \in Emissions, NEW t \in DOMAIN dies
        PROVE  /\ Step(e, Level(ask, n)[<<what, e, t>>])
               /\ Level(ask, n)[<<what, e, t>>].raised => Level(ask, n)[<<what, e, t>>] = GivenUp(e)
    <3> DEFINE f == Level(ask, n)[<<what, e, t>>]
    <3>1. f = GivenUp(e) \/ (~f.raised /\ f = Answer(ask, what, e, t) /\ n # 0)
      BY LevelAnswers
    <3> HIDE DEF f
    <3>2. CASE f = GivenUp(e)
      BY <3>2, GivenUpFacts DEF Step, f
    <3>3. CASE ~f.raised /\ f = Answer(ask, what, e, t) /\ n # 0
      BY <1>1, <3>3, AnswerTyped DEF f
    <3> QED BY <3>1, <3>2, <3>3
  <2>2. Typed(Level(ask, n)) /\ Whole(Level(ask, n))
    BY <2>1 DEF Typed, Whole
  <2>3. \A q \in Questions \X Emissions \X DOMAIN dies : Level(ask, n)[q] \in Emissions
    BY <2>1 DEF Step
  <2>4. Level(ask, n) \in Calls
    <3>1. Level(ask, n) = [q \in Questions \X Emissions \X DOMAIN dies |-> Level(ask, n)[q]]
      BY DEF Level
    <3> QED BY <2>3, <3>1
  <2> QED BY <2>2, <2>4
<1> HIDE DEF Q
<1>2. Answers \in Q
  BY <1>1, CallInduction
<1> QED BY <1>2 DEF Q

LEMMA GivenUpTwice ==
  ASSUME NEW e \in Emissions PROVE GivenUp(GivenUp(e)) = GivenUp(e)
BY DEF Emissions, GivenUp

\* What is left of an emission by calls that find nothing to do.
Same(e) == {e, GivenUp(e)}

LEMMA SameFacts ==
  ASSUME NEW e \in Emissions, NEW x \in Same(e)
  PROVE  /\ x \in Emissions /\ x.made = e.made /\ x.status = e.status /\ x.header = e.header
         /\ GivenUp(x) = GivenUp(e) /\ (x.raised \/ x = e)
BY GivenUpFacts, GivenUpTwice DEF Same

\* A call that is given up, or was before it was made.
LEMMA RaisedSame ==
  ASSUME Unit, NEW e \in Emissions, NEW x \in Same(e), NEW what \in Questions, NEW t \in DOMAIN dies,
         LET f == Answers[<<what, x, t>>] IN ~x.raised /\ ~f.raised => f = e
  PROVE  Answers[<<what, x, t>>] \in Same(e)
<1> DEFINE f == Answers[<<what, x, t>>]
<1>1. Program
  BY DEF Unit
<1>2. Typed(Answers) /\ Whole(Answers)
  BY <1>1, AnswersTyped, AnswersWhole
<1>3. x \in Emissions /\ GivenUp(x) = GivenUp(e)
  BY SameFacts
<1>4. Step(x, f) /\ (f.raised => f = GivenUp(x))
  BY <1>2, <1>3 DEF Typed, Whole
<1> HIDE DEF f
<1>5. ~x.raised /\ ~f.raised => f = e
  BY DEF f
<1> QED BY <1>3, <1>4, <1>5 DEF Same, Step, f

LEMMA TouchSame ==
  ASSUME Unit, NEW e \in Emissions, Inv(e, {}), NEW x \in Same(e), NEW t \in DOMAIN dies, Reached(e, t)
  PROVE  Touch(Answers, x, t) \in Same(e)
<1>1. "touch" \in Questions /\ Touch(Answers, x, t) = Answers[<<"touch", x, t>>]
  BY DEF Questions, Touch
<1>2. ASSUME ~x.raised, ~Touch(Answers, x, t).raised PROVE Touch(Answers, x, t) = e
  <2>1. x = e
    BY <1>2, SameFacts
  <2>2. GoodTouch(e, t, Touch(Answers, e, t))
    BY AnswersGood DEF Good
  <2> QED BY <1>2, <2>1, <2>2 DEF GoodTouch
<1> QED BY <1>1, <1>2, RaisedSame

LEMMA UseSame ==
  ASSUME Unit, NEW e \in Emissions, Inv(e, {}), NEW x \in Same(e), NEW t \in DOMAIN dies, Ready(e, t),
         Kind(t) = "function" /\ dies[t].named => Done(e, t)
  PROVE  Use(Answers, x, t) \in Same(e)
<1> DEFINE y == Touch(Answers, x, t)
           f == Use(Answers, x, t)
<1>1. y \in Same(e)
  BY TouchSame DEF Ready, Known
<1>2. PICK what \in Questions : f = Answers[<<what, y, t>>]
  BY DEF Use, Refer, Define, Questions
<1>3. ASSUME ~y.raised, ~f.raised PROVE f = e
  <2>1. x \in Emissions /\ Typed(Answers) /\ Good(Answers) /\ Program
    BY SameFacts, AnswersGood DEF Unit
  <2>2. Step(x, y)
    BY <2>1, CallTyped
  <2>3. x = e
    BY <1>3, <2>2, SameFacts DEF Step
  <2> HIDE DEF y
  <2>4. ~Use(Answers, e, t).raised
    BY <1>3, <2>3
  <2> HIDE DEF f
  <2>5. Known(e, t)
    BY DEF Ready
  <2>6. Use(Answers, e, t) = e
    BY <2>1, <2>4, <2>5, UseGood
  <2> QED BY <2>3, <2>6 DEF f
<1> HIDE DEF y, f
<1>4. ~y.raised /\ ~f.raised => f = e
  BY <1>3
<1>5. LET g == Answers[<<what, y, t>>] IN ~y.raised /\ ~g.raised => g = e
  BY <1>2, <1>4
<1>6. Answers[<<what, y, t>>] \in Same(e)
  BY <1>1, <1>5, RaisedSame
<1> QED BY <1>2, <1>6 DEF f

\* Every type with an object has been met, and those below it.
Settled(e) == \A t \in Range(e.made) : Ready(e, t)

LEMMA TemplatedSame ==
  ASSUME Unit, NEW e \in Emissions, Inv(e, {}), Settled(e), NEW x \in Same(e), NEW t \in Range(e.made),
         Done(e, t)
  PROVE  Templated(Answers, x, t) \in Same(e)
<1>0. Program /\ t \in DOMAIN dies
  BY RangeMade DEF Unit
<1>1. Use(Answers, x, t) \in Same(e)
  BY <1>0, UseSame DEF Settled
<1>2. CASE Refers(t)
  <2>1. t \in e.linked
    <3>1. CASE Modifier(t)
      BY <3>1 DEF Settled, Ready, Known, Reached
    <3>2. CASE Kind(t) = "typedef"
      <4>1. e.status[t] # "NEW"
        BY <1>0, <3>2, StatusIn DEF Done, Modifier, Modifiers
      <4> QED BY <1>0, <3>2, <4>1 DEF Inv, TypedefsLinked
    <3> QED BY <1>2, <3>1, <3>2 DEF Refers
  <2>2. Target(t) \in Range(e.made) /\ Target(t) \in DOMAIN dies
    BY <1>0, <2>1, LinkedKnown
  <2>3. ~(Kind(Target(t)) = "function" /\ dies[Target(t)].named)
    BY <1>0, <1>2, TargetFacts, RefersFacts DEF Part
  <2>4. Ready(e, Target(t))
    BY <2>2 DEF Settled
  <2>5. Use(Answers, Use(Answers, x, t), Target(t)) \in Same(e)
    BY <1>1, <2>2, <2>3, <2>4, UseSame
  <2> QED BY <1>2, <2>5 DEF Templated, Refers
<1>3. CASE ~Refers(t)
  BY <1>1, <1>3 DEF Templated, Refers
<1> QED BY <1>2, <1>3

\* The loop over the types with an object makes none and changes no status.
LEMMA GeneratedSame ==
  ASSUME Unit, NEW e \in Emissions, Inv(e, {}), Settled(e)
  PROVE  Generated(e).e \in Same(e)
<1> DEFINE generate == [p \in Generations \X DOMAIN dies |->
                          GeneratedFor(p[1].types, Touch(Answers, p[1].e, p[2]), p[2])]
           start == [e |-> e, types |-> {}]
           Q == {q \in Generations \X SUBSET DOMAIN dies : q[1].e \in Same(e)}
<1>1. <<start, {}>> \in Q
  BY DEF Same, Generations
<1>2. e.made \in Seq(DOMAIN dies) /\ Range(e.made) \subseteq DOMAIN dies
  BY EmissionFacts, RangeMade
<1>3. ASSUME NEW y, NEW T, NEW t \in Range(e.made), <<y, T>> \in Q
      PROVE  <<generate[<<y, t>>], T \cup {t}>> \in Q
  <2>1. y \in Generations /\ T \in SUBSET DOMAIN dies /\ y.e \in Same(e) /\ t \in DOMAIN dies
    BY <1>2, <1>3
  <2> DEFINE x == Touch(Answers, y.e, t)
             g == GeneratedFor(y.types, x, t)
  <2>2. generate[<<y, t>>] = g
    BY <2>1
  <2>3. x \in Same(e)
    BY <2>1, TouchSame DEF Settled, Ready, Known
  <2>4. y.types \in SUBSET DOMAIN dies
    BY <2>1 DEF Generations
  <2> HIDE DEF x
  <2>5. Status(x, t) = Status(e, t) /\ x \in Emissions
    BY <2>3, SameFacts DEF Status
  <2>6. g.e \in Same(e) /\ g.types \in SUBSET DOMAIN dies /\ g = [e |-> g.e, types |-> g.types]
    <3>1. CASE Kind(t) = "base" \/ Status(x, t) # "DONE"
      BY <2>3, <2>4, <3>1 DEF GeneratedFor
    <3>2. CASE ~(Kind(t) = "base" \/ Status(x, t) # "DONE")
      <4>1. Done(e, t)
        BY <2>5, <3>2 DEF Done
      <4>2. Templated(Answers, x, t) \in Same(e)
        BY <1>3, <2>3, <4>1, TemplatedSame
      <4> QED BY <2>1, <2>4, <3>2, <4>2 DEF GeneratedFor
    <3> QED BY <3>1, <3>2
  <2> HIDE DEF g
  <2>7. g.e \in Emissions
    BY <2>6, SameFacts
  <2>8. g \in Generations
    BY <2>6, <2>7 DEF Generations
  <2> HIDE DEF generate
  <2> QED BY <2>1, <2>2, <2>6, <2>8
<1>4. Generated(e) = Each(generate, start, e.made)
  BY DEF Generated
<1> HIDE DEF Q, generate, start
<1>5. <<Each(generate, start, e.made), Range(e.made)>> \in Q
  BY <1>1, <1>2, <1>3, EachKeeps
<1> QED BY <1>4, <1>5 DEF Q

-----------------------------------------------------------------------------
(* The rounds *)

\* The entries get_named_types has come to are known to be done, but for those
\* the unit only declares.
Rounded(e, s) ==
  \A t \in NamedEntries \ Range(s) : Kind(t) = "declared" \/ Done(e, t)
Declarations(e, s) ==
  \A t \in NamedEntries \ Range(s) : e.status[t] # "NEW"

\* What a round leaves behind: no type with an object is without a name and
\* unfinished, and no modifier with one has not looked its type up.
MadeWell(e) == \A t \in Range(e.made) : Reached(e, t) /\ (Named(t) \/ Done(e, t))

EmissionInv ==
  /\ dies \in Graphs /\ Unit
  /\ todo \in Seq(NamedEntries) /\ emission \in Emissions
  /\ mutable # None => todo = <<>>
  /\ ~emission.raised =>
       /\ Inv(emission, {}) /\ MadeWell(emission)
       /\ Rounded(emission, todo) /\ Declarations(emission, todo)

LEMMA UnitFacts ==
  ASSUME EmissionInv PROVE Unit /\ Program
BY DEF EmissionInv, Unit

\* One round: what is defined is not new, and done unless it has no definition.
LEMMA RoundGood ==
  ASSUME Unit, NEW e \in Emissions, Inv(e, {}), MadeWell(e), ~e.raised, NEW t \in NamedEntries
  PROVE  LET d == Made(e, t)
             f == IF Status(d, t) = "DONE" THEN d ELSE Emit(Define(Answers, d, t), t, "define")
         IN  /\ f \in Emissions
             /\ f.raised => f.status = e.status
             /\ ~f.raised => /\ Inv(f, {}) /\ Grow(e, f, {}) /\ MadeWell(f)
                             /\ f.status[t] # "NEW" /\ (Kind(t) = "declared" \/ Done(f, t))
<1> DEFINE d == Made(e, t)
           g == Define(Answers, d, t)
           f == IF Status(d, t) = "DONE" THEN d ELSE Emit(g, t, "define")
           Fine(x) == /\ x \in Emissions
                      /\ x.raised => x.status = e.status
                      /\ ~x.raised => /\ Inv(x, {}) /\ Grow(e, x, {}) /\ MadeWell(x)
                                      /\ x.status[t] # "NEW" /\ (Kind(t) = "declared" \/ Done(x, t))
<1> SUFFICES Fine(f)
  OBVIOUS
<1>0. Program /\ t \in DOMAIN dies /\ dies[t].named /\ Kind(t) # "base"
  BY DEF Unit, NamedEntries
<1>1. ~Modifier(t) /\ Named(t) /\ Innermost(t) = t /\ Straight(t)
  BY <1>0, EntryFacts, InnermostFacts, StraightStep DEF Program
<1>2. /\ d \in Emissions /\ d.status = e.status /\ d.raised = e.raised
      /\ Inv(d, {}) /\ Reached(d, t)
  BY <1>0, <1>1, MadeFacts, MadeSame DEF Reached
<1>3. \A x : Status(x, t) = x.status[t] /\ (Done(x, t) <=> x.status[t] = "DONE")
  BY <1>1 DEF Status, Done
<1>4. g \in Emissions /\ GoodDefine(d, t, g) /\ (g.raised => g = GivenUp(d))
  <2>1. Typed(Answers) /\ Good(Answers) /\ Whole(Answers)
    BY <1>0, AnswersGood, AnswersWhole
  <2>2. "define" \in Questions
    BY DEF Questions
  <2> HIDE DEF d
  <2> QED BY <1>0, <1>2, <2>1, <2>2, CallTyped DEF Good, Whole, Define, Step
<1> HIDE DEF g
<1>6. CASE Status(d, t) = "DONE"
  <2>1. f = d
    BY <1>6
  <2>2. Grow(d, d, {})
    BY <1>2, GrowSame
  <2> HIDE DEF f
  <2>3. Grow(e, d, {})
    BY <1>0, <1>1, <1>2, <2>2, GrowFromMade
  <2>4. MadeWell(d)
    <3>1. /\ Range(d.made) = Range(e.made) \cup {t}
          /\ \A u : Reached(d, u) = Reached(e, u) /\ Status(d, u) = Status(e, u)
      BY <1>0, MadeFacts, MadeSame
    <3> HIDE DEF d
    <3> QED BY <1>1, <1>2, <3>1 DEF MadeWell, Done
  <2> HIDE DEF d
  <2>5. Done(d, t) /\ d.status[t] # "NEW"
    BY <1>3, <1>6
  <2> QED BY <1>2, <2>1, <2>3, <2>4, <2>5
<1>7. CASE Status(d, t) # "DONE" /\ g.raised
  <2>1. f = g
    BY <1>7 DEF Emit
  <2>2. g.status = d.status
    BY <1>2, <1>4, <1>7, GivenUpFacts
  <2> HIDE DEF f, d
  <2> QED BY <1>2, <1>4, <1>7, <2>1, <2>2 DEF d
<1>8. CASE Status(d, t) # "DONE" /\ ~g.raised
  <2>1. f = Emit(g, t, "define")
    BY <1>8
  <2> HIDE DEF f
  <2>2. /\ Inv(g, {t}) /\ Grow(d, g, {}) /\ g.status[t] # "NEW"
        /\ ~Opaque(t) => Done(g, t)
        /\ Kind(t) = "typedef" => Ready(g, Target(t))
    BY <1>1, <1>2, <1>3, <1>4, <1>8 DEF GoodDefine
  <2>3. t \in Tagged /\ g.status[t] = "DONE" => Completes([of |-> t, form |-> "define"])
    <3>1. Kind(t) = "declared" => g.status[t] # "DONE"
      BY <1>0, <2>2 DEF Inv, StatusFits
    <3> QED BY <3>1 DEF Completes
  <2>4. Inv(f, {}) /\ Grow(g, f, {})
    <3>1. Statable(g, t, "define")
      BY <1>0, <1>1, <1>3, <1>4, <2>2, StatableDefine DEF Reached, Modifier, Modifiers
    <3> QED BY <1>0, <1>4, <1>8, <2>1, <2>2, <2>3, <3>1, EmitKeeps
  <2>5. f \in Emissions /\ f.raised = g.raised
    BY <1>0, <1>4, <2>1, EmitTyped DEF Step
  <2>6. Grow(d, f, {})
    BY <1>0, <1>2, <1>4, <2>2, <2>4, <2>5, GrowJoin
  <2>7. Reached(f, t)
    BY <1>1 DEF Reached
  <2>8. Grow(e, f, {})
    BY <1>0, <1>1, <2>5, <2>6, <2>7, GrowFromMade
  <2>9. MadeWell(f)
    <3>1. ASSUME NEW u \in Range(f.made), u \in Range(e.made)
          PROVE  Reached(f, u) /\ (Named(u) \/ Done(f, u))
      <4>1. Reached(e, u) /\ (Named(u) \/ Done(e, u)) /\ u \in DOMAIN dies
        BY <3>1, RangeMade DEF MadeWell
      <4> QED BY <1>0, <2>5, <2>8, <4>1, GrowKeeps
    <3> QED BY <2>8, <3>1 DEF MadeWell, Grow
  <2>10. f.status[t] # "NEW"
    BY <1>0, <2>2, <2>4 DEF Grow
  <2>11. Kind(t) = "declared" \/ Done(f, t)
    <3>1. Kind(t) # "declared" => Done(g, t)
      BY <1>1, <2>2 DEF Opaque
    <3> QED BY <1>0, <1>4, <2>4, <2>5, <3>1, GrowKeeps
  <2> QED BY <1>8, <2>4, <2>5, <2>8, <2>9, <2>10, <2>11
<1> QED BY <1>6, <1>7, <1>8

LEMMA TodoFacts ==
  ASSUME Program, NEW s \in Seq(NamedEntries), s # <<>>
  PROVE  /\ Head(s) \in NamedEntries /\ Tail(s) \in Seq(NamedEntries)
         /\ \A t \in NamedEntries \ Range(Tail(s)) : t = Head(s) \/ t \in NamedEntries \ Range(s)
<1>1. /\ s[1] \in NamedEntries /\ Tail(s) \in Seq(NamedEntries)
      /\ Range(s) = {s[1]} \cup Range(Tail(s))
  BY TailFacts
<1>2. Head(s) = s[1]
  OBVIOUS
<1> QED BY <1>1, <1>2

LEMMA Inits ==
  ASSUME Init PROVE EmissionInv
<1>1. Program /\ Unit
  BY EmissionAssumption DEF Init, Compiles, Program, Unit
<1>2. todo \in Seq(NamedEntries) /\ Range(todo) = NamedEntries
  <2> DEFINE S == NamedEntries
             D == 1 .. Cardinality(S)
  <2>1. IsFiniteSet(S)
    <3>1. IsFiniteSet(DOMAIN dies) /\ S \subseteq DOMAIN dies
      BY <1>1 DEF Program, WellFormed, NamedEntries
    <3> HIDE DEF S
    <3> QED BY <3>1, FS_Subset
  <2>2. todo \in [D -> S] /\ \A i, j \in D : i # j => todo[i] # todo[j]
    BY DEF Init, SetToSeqs
  <2> HIDE DEF S
  <2>3. Cardinality(S) \in Nat
    BY <2>1, FS_CardinalityType
  <2>4. IsFiniteSet(D) /\ Cardinality(D) = Cardinality(S)
    <3>1. 1 \in Int /\ Cardinality(S) \in Int
      BY <2>3
    <3>2. Cardinality(D) = IF 1 > Cardinality(S) THEN 0 ELSE Cardinality(S) - 1 + 1
      BY <3>1, FS_Interval
    <3> QED BY <2>3, <3>1, <3>2, FS_Interval
  <2>5. todo \in Injection(D, S)
    BY <2>2 DEF Injection, IsInjective
  <2> HIDE DEF D
  <2>6. todo \in Surjection(D, S)
    BY <2>1, <2>4, <2>5, FS_Injection
  <2>7. Range(todo) = S
    BY <2>2, <2>6 DEF Surjection, Range
  <2>8. todo \in Seq(S)
    BY <2>2, <2>3 DEF D
  <2> QED BY <2>7, <2>8 DEF S
<1>3. /\ emission = Started /\ Started \in Emissions
      /\ Started.linked = {} /\ Started.filled = {} /\ Started.made = <<>>
      /\ Started.header = <<>> /\ ~Started.raised
      /\ Started.status = [t \in DOMAIN dies |-> IF Kind(t) = "base" THEN "DONE" ELSE "NEW"]
  <2>1. <<>> \in Seq(DOMAIN dies) /\ <<>> \in Seq(Statements)
    OBVIOUS
  <2> QED BY <2>1 DEF Init, Started, Emissions, Statuses
<1>4. Range(Started.made) = {}
  BY <1>3 DEF Range
<1> HIDE DEF Started
<1>5. Inv(Started, {})
  <2>1. LinksLead(Started) /\ PartsReady(Started)
    BY <1>3 DEF LinksLead, PartsReady
  <2>2. \A t \in DOMAIN dies : Started.status[t] = IF Kind(t) = "base" THEN "DONE" ELSE "NEW"
    BY <1>3
  <2>3. TypedefsLinked(Started) /\ StatusFits(Started) /\ FilledFirst(Started)
    BY <2>2 DEF TypedefsLinked, StatusFits, FilledFirst
  <2>4. Kept(Started, {})
    BY <2>2 DEF Kept, Tagged
  <2>5. Orderly(Started)
    <3>1. DOMAIN Started.header = {}
      BY <1>3
    <3> QED BY <3>1 DEF Orderly, TagsVisible
  <2> QED BY <2>1, <2>3, <2>4, <2>5 DEF Inv
<1>6. MadeWell(Started)
  BY <1>4 DEF MadeWell
<1>7. Rounded(Started, todo) /\ Declarations(Started, todo)
  BY <1>2 DEF Rounded, Declarations
<1>8. mutable = None /\ dies \in Graphs
  BY DEF Init
<1> QED BY <1>1, <1>2, <1>3, <1>5, <1>6, <1>7, <1>8 DEF EmissionInv

-----------------------------------------------------------------------------
(* The unit is the same in the next state, and so is what is said of it *)

LEMMA SameTypes ==
  ASSUME dies' = dies
  PROVE  \A t : /\ Kind(t)' = Kind(t) /\ Target(t)' = Target(t) /\ Modifier(t)' = Modifier(t)
                /\ Innermost(t)' = Innermost(t) /\ Named(t)' = Named(t)
<1>1. \A t : Kind(t)' = Kind(t) /\ Target(t)' = Target(t)
  BY DEF Kind, Target
<1>2. \A t : Modifier(t)' = Modifier(t)
  BY <1>1 DEF Modifier
<1>3. \A k, t : End(k, t)' = End(k, t)
  BY DEF End, Kind, Target
<1>4. \A t : Innermost(t)' = Innermost(t)
  BY <1>3 DEF Innermost
<1>5. \A t : Named(t)' = Named(t)
  BY <1>4 DEF Named
<1> QED BY <1>1, <1>2, <1>4, <1>5

LEMMA SameTexts ==
  ASSUME dies' = dies
  PROVE  /\ Tagged' = Tagged /\ Undefined' = Undefined /\ EarlyArrays' = EarlyArrays
         /\ \A t : Stem(t)' = Stem(t) /\ ByValue(t)' = ByValue(t)
         /\ \A t : Text(t)' = Text(t) /\ Body(t)' = Body(t)
         /\ \A s : TextOf(s)' = TextOf(s)
         /\ \A h, i : Tags(h, i)' = Tags(h, i) /\ Completed(h, i)' = Completed(h, i)
<1>1. \A t : Kind(t)' = Kind(t) /\ Target(t)' = Target(t)
  BY SameTypes
<1>2. Tagged' = Tagged /\ Undefined' = Undefined
  BY DEF Tagged, Undefined, Kind
<1>3. \A k, t : End(k, t)' = End(k, t)
  BY DEF End, Kind, Target
<1>4. \A t : Stem(t)' = Stem(t) /\ ByValue(t)' = ByValue(t)
  BY <1>2, <1>3 DEF Stem, ByValue
<1>5. \A t : ArrayOfStructs(t)' = ArrayOfStructs(t)
  BY <1>1, <1>3, <1>4 DEF ArrayOfStructs
<1>6. EarlyArrays' = EarlyArrays
  BY <1>1, <1>5, SameTypes DEF EarlyArrays
<1>7. \A g, t : BodyOf(g, t)' = BodyOf(g, t)
  BY DEF BodyOf, Join, Plain, Elements
<1>8. \A g, t : PrototypeOf(g, t)' = PrototypeOf(g, t)
  BY DEF PrototypeOf, Join, Plain, Behind, Params, Target
<1>9. \A t : TagOf(t)' = TagOf(t) /\ NameOf(t)' = NameOf(t)
  BY <1>4 DEF TagOf, NameOf, Plain
<1>10. \A x : Behind(x)' = Behind(x) /\ Elements(x)' = Elements(x)
  BY DEF Behind, Elements
<1>11. \A g, t : TextIn(g, t)' = TextIn(g, t)
  BY <1>1, <1>2, <1>7, <1>8, <1>9, <1>10, Zenon DEF TextIn
<1>12. Texts' = Texts
  BY <1>11 DEF Texts
<1>13. \A t : Text(t)' = Text(t) /\ Body(t)' = Body(t)
  BY <1>7, <1>12 DEF Text, Body
<1>14. \A s : TextOf(s)' = TextOf(s)
  BY <1>1, <1>13, Zenon DEF TextOf
<1>15. \A s : Completes(s)' = Completes(s)
  BY DEF Completes, Kind
<1>16. \A h, i : Tags(h, i)' = Tags(h, i) /\ Completed(h, i)' = Completed(h, i)
  BY <1>14, <1>15 DEF Tags, Completed
<1> QED BY <1>2, <1>4, <1>6, <1>13, <1>14, <1>16

LEMMA SameUnit ==
  ASSUME dies' = dies
  PROVE  /\ Unit' = Unit /\ Tagged' = Tagged /\ NamedEntries' = NamedEntries /\ Emissions' = Emissions
         /\ \A e : Mentioned(e)' = Mentioned(e) /\ Finished(e)' = Finished(e)
         /\ \A e, t : /\ Status(e, t)' = Status(e, t) /\ Done(e, t)' = Done(e, t)
                      /\ Reached(e, t)' = Reached(e, t) /\ Known(e, t)' = Known(e, t)
                      /\ Ready(e, t)' = Ready(e, t) /\ Complete(e, t)' = Complete(e, t)
<1>1. Unit' = Unit
  <2>1. TagsBreakCycles' = TagsBreakCycles
    BY DEF TagsBreakCycles, Kind
  <2>2. PassedByName' = PassedByName
    BY DEF PassedByName, Kind, Target
  <2>3. WellFormed(dies)' = WellFormed(dies)
    OBVIOUS
  <2>4. OpaqueBehindPointers' = OpaqueBehindPointers
    BY SameTexts, SameTypes DEF OpaqueBehindPointers
  <2> QED BY <2>1, <2>2, <2>3, <2>4 DEF Unit, Program
<1>2. Tagged' = Tagged /\ NamedEntries' = NamedEntries
  BY DEF Tagged, NamedEntries, Kind
<1>3. Emissions' = Emissions
  BY DEF Emissions, Statements
<1>4. \A e : Mentioned(e)' = Mentioned(e)
  BY DEF Mentioned
<1>5. \A s : Completes(s)' = Completes(s)
  BY DEF Completes, Kind
<1>6. \A e : Finished(e)' = Finished(e)
  BY <1>5 DEF Finished, Completed
<1>7. \A e, t : Status(e, t)' = Status(e, t)
  BY SameTypes DEF Status
<1>8. \A e, t : Done(e, t)' = Done(e, t) /\ Reached(e, t)' = Reached(e, t)
  BY SameTypes, <1>7 DEF Done, Reached
<1>9. \A e, t : Known(e, t)' = Known(e, t)
  BY SameTypes, <1>7, <1>8 DEF Known
<1>10. \A e, t : Ready(e, t)' = Ready(e, t)
  BY SameTypes, <1>8, <1>9 DEF Ready
<1>11. \A e, t : Complete(e, t)' = Complete(e, t)
  BY <1>6, SameTexts DEF Complete
<1> QED BY <1>1, <1>2, <1>3, <1>4, <1>6, <1>7, <1>8, <1>9, <1>10, <1>11

LEMMA SameInv ==
  ASSUME dies' = dies
  PROVE  /\ \A e : Inv(e, {})' = Inv(e, {}) /\ MadeWell(e)' = MadeWell(e)
         /\ \A e, s : Rounded(e, s)' = Rounded(e, s) /\ Declarations(e, s)' = Declarations(e, s)
<1>1. \A e : LinksLead(e)' = LinksLead(e)
  BY SameTypes, SameUnit DEF LinksLead
<1>2. \A e : TypedefsLinked(e)' = TypedefsLinked(e)
  BY SameTypes, SameUnit DEF TypedefsLinked
<1>3. \A e : StatusFits(e)' = StatusFits(e)
  BY SameTypes DEF StatusFits
<1>4. \A e : FilledFirst(e)' = FilledFirst(e)
  BY SameTypes DEF FilledFirst
<1>5. \A e : PartsReady(e)' = PartsReady(e)
  BY SameTypes, SameUnit DEF PartsReady, Fit
<1>6. \A e : Kept(e, {})' = Kept(e, {})
  BY SameUnit DEF Kept
<1>10. \A e : Orderly(e)' = Orderly(e)
  BY SameTexts DEF Orderly, TagsVisible
<1>7. \A e : Inv(e, {})' = Inv(e, {})
  BY <1>1, <1>2, <1>3, <1>4, <1>5, <1>6, <1>10 DEF Inv
<1>8. \A e : MadeWell(e)' = MadeWell(e)
  BY SameTypes, SameUnit DEF MadeWell
<1>9. \A e, s : Rounded(e, s)' = Rounded(e, s) /\ Declarations(e, s)' = Declarations(e, s)
  BY SameTypes, SameUnit DEF Rounded, Declarations
<1> QED BY <1>7, <1>8, <1>9

-----------------------------------------------------------------------------
(* The steps *)

LEMMA NamedTypeKeeps ==
  ASSUME EmissionInv, NamedType
  PROVE  /\ EmissionInv'
         /\ \A t \in DOMAIN dies : \/ emission.status[t] = "NEW"
                                   \/ emission'.status[t] \in {emission.status[t], "DONE"}
<1> DEFINE t == Head(todo)
           d == Made(emission, t)
           f == IF Status(d, t) = "DONE" THEN d ELSE Emit(Define(Answers, d, t), t, "define")
<1>1. Unit /\ Program
  BY UnitFacts
<1>2. /\ emission \in Emissions /\ ~emission.raised /\ Inv(emission, {}) /\ MadeWell(emission)
      /\ Rounded(emission, todo) /\ Declarations(emission, todo)
  BY DEF EmissionInv, NamedType
<1>3. /\ t \in NamedEntries /\ Tail(todo) \in Seq(NamedEntries)
      /\ \A u \in NamedEntries \ Range(Tail(todo)) : u = t \/ u \in NamedEntries \ Range(todo)
  BY <1>1, TodoFacts DEF EmissionInv, NamedType
<1>4. emission' = f /\ todo' = Tail(todo) /\ mutable' = mutable /\ dies' = dies
  BY DEF NamedType
<1>5. /\ f \in Emissions
      /\ f.raised => f.status = emission.status
      /\ ~f.raised => /\ Inv(f, {}) /\ Grow(emission, f, {}) /\ MadeWell(f)
                      /\ f.status[t] # "NEW" /\ (Kind(t) = "declared" \/ Done(f, t))
  <2> HIDE DEF t
  <2> QED BY <1>1, <1>2, <1>3, RoundGood
<1> HIDE DEF f, t
<1>6. NamedEntries \subseteq DOMAIN dies
  BY DEF NamedEntries
<1>7. ASSUME ~f.raised PROVE Rounded(f, Tail(todo)) /\ Declarations(f, Tail(todo))
  <2>1. \A u \in NamedEntries \ Range(Tail(todo)) : Kind(u) = "declared" \/ Done(f, u)
    <3> SUFFICES ASSUME NEW u \in NamedEntries \ Range(todo)
                 PROVE  Kind(u) = "declared" \/ Done(f, u)
      BY <1>3, <1>5, <1>7
    <3>1. Kind(u) = "declared" \/ Done(emission, u)
      BY <1>2 DEF Rounded
    <3> QED BY <1>1, <1>2, <1>5, <1>6, <1>7, <3>1, GrowKeeps
  <2>2. \A u \in NamedEntries \ Range(Tail(todo)) : f.status[u] # "NEW"
    BY <1>2, <1>3, <1>5, <1>6, <1>7 DEF Declarations, Grow
  <2> QED BY <2>1, <2>2 DEF Rounded, Declarations
<1>8. todo # <<>> /\ mutable = None
  BY DEF EmissionInv, NamedType
<1>9. EmissionInv'
  <2>1. dies' \in Graphs /\ Unit'
    BY <1>1, <1>4, SameUnit DEF EmissionInv
  <2>2. todo' \in Seq(NamedEntries') /\ emission' \in Emissions'
    BY <1>3, <1>4, <1>5, SameUnit
  <2>3. mutable' = None
    BY <1>4, <1>8 DEF None
  <2>4. ~emission'.raised => /\ Inv(emission, {})' /\ MadeWell(emission)'
                             /\ Rounded(emission, todo)' /\ Declarations(emission, todo)'
    BY <1>4, <1>5, <1>7, SameInv
  <2> QED BY <2>1, <2>2, <2>3, <2>4 DEF EmissionInv, None
<1>10. \A u \in DOMAIN dies : \/ emission.status[u] = "NEW"
                              \/ f.status[u] \in {emission.status[u], "DONE"}
  BY <1>5 DEF Grow
<1> QED BY <1>4, <1>9, <1>10

\* What is not new by then is ready.
LEMMA AllSettled ==
  ASSUME EmissionInv, ~emission.raised, todo = <<>>
  PROVE  /\ Settled(emission)
         /\ \A t \in Range(emission.made) :
              Status(emission, t) # "DONE" <=> Kind(Innermost(t)) = "declared"
<1>1. Unit /\ Program
  BY UnitFacts
<1>2. /\ emission \in Emissions /\ Inv(emission, {}) /\ MadeWell(emission)
      /\ Rounded(emission, <<>>) /\ Declarations(emission, <<>>)
  BY DEF EmissionInv
<1>3. Range(<<>>) = {}
  BY DEF Range
<1> SUFFICES ASSUME NEW t \in Range(emission.made)
             PROVE  Ready(emission, t) /\ (Status(emission, t) # "DONE" <=> Kind(Innermost(t)) = "declared")
  BY DEF Settled
<1> DEFINE u == Innermost(t)
<1>4. /\ t \in DOMAIN dies /\ u \in DOMAIN dies /\ Named(t) = dies[u].named
      /\ Status(emission, t) = emission.status[u] /\ ~Modifier(u)
  BY <1>1, <1>2, RangeMade, InnermostFacts DEF Named, Status
<1>5. Reached(emission, t) /\ (Named(t) \/ Done(emission, t))
  BY <1>2 DEF MadeWell
<1>6. Kind(u) = "base" => emission.status[u] = "DONE"
  BY <1>2, <1>4 DEF Inv, StatusFits
<1>7. Kind(u) = "declared" => emission.status[u] # "DONE" /\ dies[u].named
  BY <1>1, <1>2, <1>4, EntryFacts DEF Inv, StatusFits, Program
<1> HIDE DEF u
<1>8. ASSUME Named(t), Kind(u) # "base"
      PROVE  emission.status[u] # "NEW" /\ (Kind(u) = "declared" \/ emission.status[u] = "DONE")
  <2>1. u \in NamedEntries \ Range(<<>>)
    BY <1>3, <1>4, <1>8 DEF NamedEntries
  <2>2. Kind(u) = "declared" \/ Done(emission, u)
    BY <1>2, <2>1 DEF Rounded
  <2>3. emission.status[u] # "NEW"
    BY <1>2, <2>1 DEF Declarations
  <2> QED BY <1>1, <1>2, <1>4, <2>2, <2>3, StatusIn DEF Done
<1>9. emission.status[u] = "DONE" <=> Kind(u) # "declared"
  BY <1>4, <1>5, <1>6, <1>7, <1>8 DEF Done
<1>10. Named(t) => emission.status[u] # "NEW"
  BY <1>6, <1>8
<1> QED BY <1>4, <1>5, <1>9, <1>10 DEF Ready, Known, u

LEMMA MutatorsKeep ==
  ASSUME EmissionInv, Mutators
  PROVE  /\ EmissionInv' /\ emission'.made = emission.made /\ emission'.status = emission.status
         /\ emission'.raised \/ emission' = emission
<1>1. Unit /\ Program
  BY UnitFacts
<1>2. /\ emission \in Emissions /\ Inv(emission, {}) /\ Settled(emission)
      /\ todo = <<>> /\ ~emission.raised /\ dies' = dies /\ todo' = todo
  BY AllSettled DEF EmissionInv, Mutators
<1>3. emission' \in Same(emission)
  <2>1. CASE Unprintable(emission)
    BY <2>1 DEF Mutators, Same, GivenUp
  <2>2. CASE ~Unprintable(emission)
    <3> DEFINE s == Generated(emission)
    <3>1. s.e \in Same(emission)
      BY <1>1, <1>2, GeneratedSame
    <3>2. emission' = [s.e EXCEPT !.raised = @ \/ s.e.made # emission.made]
      BY <2>2 DEF Mutators, Keep
    <3> HIDE DEF s
    <3>3. s.e \in Emissions /\ s.e.made = emission.made
      BY <1>2, <3>1, SameFacts
    <3>4. emission' = s.e
      BY <3>2, <3>3 DEF Emissions
    <3> QED BY <3>1, <3>4
  <2> QED BY <2>1, <2>2
<1>4. /\ emission' \in Emissions /\ emission'.made = emission.made /\ emission'.status = emission.status
      /\ emission'.raised \/ emission' = emission
  BY <1>2, <1>3, SameFacts
<1>5. EmissionInv'
  <2>1. dies' \in Graphs /\ Unit' /\ emission' \in Emissions'
    BY <1>1, <1>2, <1>4, SameUnit DEF EmissionInv
  <2>2. todo' \in Seq(NamedEntries') /\ todo' = <<>>
    BY <1>2
  <2>3. ~emission'.raised => /\ Inv(emission, {})' /\ MadeWell(emission)'
                             /\ Rounded(emission, todo)' /\ Declarations(emission, todo)'
    BY <1>2, <1>4, SameInv DEF EmissionInv
  <2> QED BY <2>1, <2>2, <2>3 DEF EmissionInv
<1> QED BY <1>4, <1>5

LEMMA StutteringKeeps ==
  ASSUME EmissionInv, UNCHANGED vars
  PROVE  EmissionInv'
<1>1. dies' = dies /\ todo' = todo /\ emission' = emission /\ mutable' = mutable
  BY DEF vars
<1>2. dies' \in Graphs /\ Unit' /\ emission' \in Emissions' /\ todo' \in Seq(NamedEntries')
  BY <1>1, SameUnit DEF EmissionInv
<1>3. ~emission'.raised => /\ Inv(emission, {})' /\ MadeWell(emission)'
                           /\ Rounded(emission, todo)' /\ Declarations(emission, todo)'
  BY <1>1, SameInv DEF EmissionInv
<1>4. mutable' # None' => todo' = <<>>
  BY <1>1 DEF EmissionInv, None
<1> QED BY <1>2, <1>3, <1>4 DEF EmissionInv

LEMMA EmissionInvariant == Spec => []EmissionInv
<1>1. EmissionInv /\ [Next]_vars => EmissionInv'
  BY NamedTypeKeeps, MutatorsKeep, StutteringKeeps DEF Next, Ended
<1> QED BY Inits, <1>1, PTL DEF Spec

\* Whatever the types of the unit and the order of its entries, what the
\* emission holds is what the code's fields can hold: a status of the three, a
\* statement that declares or defines a type of the unit.
THEOREM EmissionsTyped == Spec => [](emission \in Emissions)
<1>1. EmissionInv => emission \in Emissions
  BY DEF EmissionInv
<1> QED BY EmissionInvariant, <1>1, PTL

\* Whatever the types of the unit and the order of its entries, a type that
\* was defined is never declared again from one round to the next.
THEOREM StatusesNeverFall == Spec => StatusNeverFalls
<1> DEFINE Falls == \A t \in DOMAIN dies :
                      \/ emission.status[t] = "NEW"
                      \/ emission'.status[t] \in {emission.status[t], "DONE"}
<1>1. EmissionInv /\ [Next]_vars => Falls
  <2>1. EmissionInv /\ Mutators => Falls
    BY MutatorsKeep
  <2>2. UNCHANGED vars => Falls
    BY DEF vars
  <2> QED BY <2>1, <2>2, NamedTypeKeeps DEF Next, Ended
<1> HIDE DEF Falls
<1>2. EmissionInv /\ [Next]_vars => [Falls]_vars
  BY <1>1
<1>3. Spec => [][Falls]_vars
  BY EmissionInvariant, <1>2, PTL DEF Spec
<1> QED BY <1>3 DEF StatusNeverFalls, Falls

\* Whatever the unit, every type the mutators ask about has been met, with those
\* below it, when get_mutable_types goes through the dictionary of types: it does
\* not grow under the loop.
THEOREM NothingLeftToDiscover == Spec => NothingToDiscover
<1> DEFINE Found == mutable' # None => emission'.made = emission.made
<1>1. EmissionInv /\ [Next]_vars => Found \/ UNCHANGED vars
  <2>1. EmissionInv /\ Mutators => Found
    BY MutatorsKeep
  <2>2. EmissionInv /\ NamedType => Found
    BY DEF EmissionInv, NamedType
  <2> QED BY <2>1, <2>2 DEF Next, Ended
<1> HIDE DEF Found
<1>2. EmissionInv /\ [Next]_vars => [Found]_vars
  BY <1>1
<1>3. Spec => [][Found]_vars
  BY EmissionInvariant, <1>2, PTL DEF Spec
<1> QED BY <1>3 DEF NothingToDiscover, Found

\* Whatever the unit, the types it leaves incomplete, and pointers to them, are
\* all that is not done when there are mutators: no other type goes without one.
THEOREM OnlyOpaqueIncomplete == Spec => []IncompleteOnlyOpaque
<1>1. EmissionInv => IncompleteOnlyOpaque
  BY AllSettled DEF EmissionInv, IncompleteOnlyOpaque
<1> QED BY EmissionInvariant, <1>1, PTL

\* No statement has to have complete what the unit leaves incomplete.
LEMMA NeedsDefined ==
  ASSUME Unit, NEW s \in Statements
  PROVE  TextOf(s).needs \cap Undefined = {}
<1>1. Program /\ s.of \in DOMAIN dies
  BY DEF Unit, Statements
<1>2. \A t \in DOMAIN dies : Kind(t) = "struct" => Body(t).needs \cap Undefined = {}
  BY DEF Unit, OpaqueBehindPointers, Undefined
<1>3. ASSUME NEW t \in DOMAIN dies PROVE Text(t).needs \cap Undefined = {}
  <2>1. CASE Kind(t) # "struct"
    BY <2>1 DEF Unit, OpaqueBehindPointers, Undefined
  <2>2. CASE Kind(t) = "struct" /\ t \in Tagged
    BY <1>1, <2>2, TextFacts
  <2>3. CASE Kind(t) = "struct" /\ t \notin Tagged
    <3>1. Text(t) = Body(t)
      BY <1>1, <2>3, TextFacts
    <3> QED BY <1>2, <2>3, <3>1
  <2> QED BY <2>1, <2>2, <2>3
<1>4. Kind(s.of) = "typedef" => Target(s.of) \in DOMAIN dies
  BY <1>1, EntryFacts DEF Program
<1>5. \/ Kind(s.of) = "struct" /\ TextOf(s) = Body(s.of)
      \/ Kind(s.of) = "typedef" /\ TextOf(s) = Text(Target(s.of))
      \/ TextOf(s) = Text(s.of)
  BY Zenon DEF TextOf
<1> QED BY <1>1, <1>2, <1>3, <1>4, <1>5

\* Whatever the unit, its cycles and the order of its entries, every struct is
\* complete in the printed header before it is a member, an element or under a
\* typedef used as one, but in the units of EarlyArrays.
THEOREM MembersComplete == Spec => []CompleteBeforeUse
<1>1. EmissionInv => CompleteBeforeUse
  <2> SUFFICES ASSUME EmissionInv, ~emission.raised, ~EarlyArrays, NEW i \in DOMAIN emission.header
               PROVE  TextOf(emission.header[i]).needs \subseteq Completed(emission.header, i)
    BY DEF CompleteBeforeUse, Printed, NeedsComplete
  <2>1. TextOf(emission.header[i]).needs \subseteq Completed(emission.header, i) \cup Undefined
    BY DEF EmissionInv, Inv, Orderly
  <2>2. emission.header[i] \in Statements
    BY EmissionFacts DEF EmissionInv
  <2>3. TextOf(emission.header[i]).needs \cap Undefined = {}
    BY <2>2, UnitFacts, NeedsDefined
  <2> QED BY <2>1, <2>3
<1> QED BY EmissionInvariant, <1>1, PTL
=============================================================================
