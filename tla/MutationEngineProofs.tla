------------------------ MODULE MutationEngineProofs ------------------------
(***************************************************************************)
(* For all types, of any depth and width, every range of the counter and   *)
(* whatever is drawn and chosen, in the order of the layers below:         *)
(*                                                                         *)
(* Inv: a mutator declares each of its variables once and before it uses   *)
(*   it, whatever the types before have left in the nesting context;       *)
(*   counting and resizing change nothing but enums, and every change is   *)
(*   logged but those of enums and bitfields.                              *)
(* NestInv: the suspended generators are about nested types, and what they *)
(*   have passed has its statement: each member has one.                   *)
(* RefInv: references name the members they are for.                       *)
(* GuardInv: the values an if asks for are those its variable can have,    *)
(*   and no two members of a union that is not confused ask for the same.  *)
(* WalkInv: so a walk comes to one member of such a union only.            *)
(* CounterInv: the counter is what was counted less what was passed.       *)
(***************************************************************************)
EXTENDS MutationEngine, WellFoundedInduction, TLAPS

IsSeq(s) == s \in Seq(Range(s))

IsFrame(f) ==
  /\ f = [by |-> f.by, path |-> f.path, next |-> f.next, ref |-> f.ref]
  /\ IsSeq(f.path)

Contexts == [tmp : Nat, rnd : Nat, current : Nat, values : Nat]

TypeOK ==
  /\ phase \in {"inject", "members", "made", "raised", "called"}
  /\ context \in Contexts
  /\ IsSeq(body)
  /\ IsSeq(frames) /\ \A k \in DOMAIN frames : IsFrame(frames[k])
  /\ mode \in {"count", "resize", "normal"} /\ pc \in Nat \ {0}

\* The counts of the context are ahead of the variables they have numbered.
Numbered(s, c) ==
  /\ s.op = "draw"   => s.var \in Nat /\ s.var <= c.rnd
  /\ s.op = "copy"   => s.var \in Nat /\ s.var < c.tmp
  /\ s.op = "assign" => s.var \in Nat /\ s.var < c.values

Counted == \A i \in DOMAIN body : Numbered(body[i], context)

\* The variable a union's members are guarded by has been drawn.
HasDrawn == \E j \in DOMAIN body : body[j].op = "draw" /\ body[j].var = context.rnd
Drawn    == \A k \in DOMAIN frames : frames[k].by = "union" => HasDrawn

\* DeclaredOnce, of the body as far as it goes.
Unique ==
  \A i, j \in DOMAIN body :
    i # j /\ body[i].op = body[j].op /\ body[i].op # "call" => body[i].var # body[j].var

Guarded ==
  \A i \in DOMAIN body : body[i].guard # <<>> =>
    \E j \in 1 .. i - 1 : body[j].op = "draw" /\ body[j].var = body[i].guard[1]

\* Only enums are assigned to, only bitfields are copied.
Meant(s) ==
  /\ s.op = "assign" => KindAt(s.of) = "enum"
  /\ s.op = "copy"   => MemberAt(s.of).bits

AllMeant == \A i \in DOMAIN body : Meant(body[i])

Unwalked == phase \in {"inject", "members", "raised"} => changed = {}

BodyInv ==
  /\ Unique /\ Guarded
  /\ phase = "members" => Counted /\ Drawn
  /\ phase # "inject" => AllMeant

Inv == TypeOK /\ BodyInv /\ Unwalked /\ CountingKeeps /\ ChangesLogged

-----------------------------------------------------------------------------
(* Sequences *)

LEMMA AppendSeq ==
  ASSUME NEW q, IsSeq(q), NEW e
  PROVE  /\ Len(q) \in Nat /\ DOMAIN q = 1 .. Len(q)
         /\ IsSeq(Append(q, e)) /\ Append(q, e) # <<>>
         /\ Len(Append(q, e)) = Len(q) + 1
         /\ DOMAIN Append(q, e) = 1 .. Len(q) + 1
         /\ \A i \in DOMAIN q : Append(q, e)[i] = q[i]
         /\ Append(q, e)[Len(q) + 1] = e
         /\ Front(Append(q, e)) = q /\ Last(Append(q, e)) = e
<1> DEFINE S == Range(q) \cup {e}
           a == Append(q, e)
<1>1. q \in Seq(S) /\ e \in S
  BY DEF IsSeq
<1>2. /\ Len(q) \in Nat /\ DOMAIN q = 1 .. Len(q)
      /\ a \in Seq(S) /\ Len(a) = Len(q) + 1 /\ DOMAIN a = 1 .. Len(q) + 1
      /\ \A i \in 1 .. Len(q) : a[i] = q[i]
      /\ a[Len(q) + 1] = e /\ a # <<>>
  BY <1>1
<1>3. IsSeq(a)
  <2>1. a \in [1 .. Len(q) + 1 -> Range(a)]
    <3> HIDE DEF a
    <3> QED BY <1>2 DEF Range
  <2> HIDE DEF a
  <2> QED BY <1>2, <2>1 DEF IsSeq
<1>4. Front(a) = q
  <2>1. SubSeq(a, 1, Len(q)) = q
    BY <1>1, <1>2
  <2> QED BY <1>2, <2>1 DEF Front
<1> QED BY <1>2, <1>3, <1>4 DEF Last

LEMMA FrontSeq ==
  ASSUME NEW q, IsSeq(q), q # <<>>
  PROVE  /\ IsSeq(Front(q)) /\ DOMAIN Front(q) \subseteq DOMAIN q
         /\ \A i \in DOMAIN Front(q) : Front(q)[i] = q[i]
<1> DEFINE a == Front(q)
           n == Len(q) - 1
           S == Range(q)
<1>1. q \in Seq(S) /\ n \in Nat /\ DOMAIN q = 1 .. n + 1
  BY DEF IsSeq
<1>2. a \in Seq(S) /\ Len(a) = n /\ DOMAIN a = 1 .. n /\ \A i \in 1 .. n : a[i] = q[i]
  BY <1>1 DEF Front
<1>3. \A i \in 1 .. n : a[i] \in Range(a)
  BY <1>2 DEF Range
<1>4. IsSeq(a)
  <2> HIDE DEF a, n
  <2>1. a \in [1 .. n -> Range(a)]
    BY <1>2, <1>3
  <2> QED BY <1>1, <1>2, <2>1 DEF IsSeq
<1>5. DOMAIN a \subseteq DOMAIN q
  BY <1>1, <1>2
<1> QED BY <1>2, <1>4, <1>5

LEMMA ShortSeq ==
  /\ IsSeq(<<>>) /\ DOMAIN <<>> = {}
  /\ \A e : IsSeq(<<e>>) /\ DOMAIN <<e>> = {1} /\ <<e>>[1] = e /\ Len(<<e>>) = 1
<1>1. IsSeq(<<>>) /\ DOMAIN <<>> = {}
  BY DEF IsSeq
<1>2. ASSUME NEW e PROVE IsSeq(<<e>>) /\ DOMAIN <<e>> = {1} /\ <<e>>[1] = e /\ Len(<<e>>) = 1
  <2>1. DOMAIN <<e>> = {1} /\ <<e>>[1] = e
    OBVIOUS
  <2>2. e \in Range(<<e>>)
    BY <2>1 DEF Range
  <2> QED BY <2>1, <2>2 DEF IsSeq
<1> QED BY <1>1, <1>2

-----------------------------------------------------------------------------
(* The types do not change while a mutator is made of one. *)

LEMMA SameShape ==
  ASSUME UNCHANGED <<shapes, at>>
  PROVE  \A p : KindAt(p)' = KindAt(p) /\ MemberAt(p)' = MemberAt(p)
BY DEF KindAt, MemberAt, MembersAt, Shape

\* What a path is the path of.
LEMMA PathMeans ==
  ASSUME IsSeq(Top.path)
  PROVE  KindAt(Path) = Member.kind /\ MemberAt(Path) = Member
<1>1. Front(Path) = Top.path /\ Last(Path) = Top.next /\ Path # <<>>
  BY AppendSeq DEF Path
<1> QED BY <1>1, Zenon DEF KindAt, MemberAt, MemberIn, MembersAt, Member

\* A statement whose variable is new, and whose guard's is not, may be added.
LEMMA BodyGrows ==
  ASSUME IsSeq(body), Unique, Guarded, AllMeant, UNCHANGED <<shapes, at>>,
         NEW s, body' = Append(body, s), Meant(s),
         s.op = "call" \/ \A i \in DOMAIN body : body[i].op = s.op => body[i].var # s.var,
         s.guard = <<>> \/ \E j \in DOMAIN body : body[j].op = "draw" /\ body[j].var = s.guard[1]
  PROVE  IsSeq(body') /\ Unique' /\ Guarded' /\ AllMeant'
<1> DEFINE n == Len(body) + 1
<1>1. /\ n \in Nat /\ DOMAIN body = 1 .. n - 1 /\ IsSeq(body') /\ DOMAIN body' = 1 .. n
      /\ \A i \in DOMAIN body : body'[i] = body[i]
      /\ body'[n] = s
  BY AppendSeq
<1> HIDE DEF n
<1>2. Unique'
  <2> SUFFICES ASSUME NEW i \in 1 .. n, NEW j \in 1 .. n, i # j, body'[i].op = body'[j].op,
                      body'[i].op # "call"
               PROVE  body'[i].var # body'[j].var
    BY <1>1 DEF Unique
  <2>1. CASE i # n /\ j # n
    BY <1>1, <2>1 DEF Unique
  <2>2. CASE i = n
    BY <1>1, <2>2
  <2>3. CASE j = n
    BY <1>1, <2>3
  <2> QED BY <2>1, <2>2, <2>3
<1>3. Guarded'
  <2> SUFFICES ASSUME NEW i \in 1 .. n, body'[i].guard # <<>>
               PROVE  \E j \in 1 .. i - 1 :
                        body'[j].op = "draw" /\ body'[j].var = body'[i].guard[1]
    BY <1>1 DEF Guarded
  <2>1. CASE i # n
    <3>1. i \in DOMAIN body /\ body'[i] = body[i]
      BY <1>1, <2>1
    <3>2. PICK j \in 1 .. i - 1 : body[j].op = "draw" /\ body[j].var = body[i].guard[1]
      BY <3>1 DEF Guarded
    <3>3. body'[j] = body[j]
      BY <1>1, <3>1
    <3> QED BY <3>1, <3>2, <3>3
  <2>2. CASE i = n
    BY <1>1, <2>2
  <2> QED BY <2>1, <2>2
<1>4. AllMeant'
  <2>1. \A i \in DOMAIN body : Meant(body[i]) /\ body'[i] = body[i]
    BY <1>1 DEF AllMeant
  <2>2. \A i \in DOMAIN body' : i \in DOMAIN body \/ i = n
    BY <1>1
  <2> QED BY <1>1, <2>1, <2>2 DEF AllMeant, Meant, KindAt, MemberAt, MembersAt, Shape
<1> QED BY <1>1, <1>2, <1>3, <1>4

-----------------------------------------------------------------------------
(* The generators *)

Frames(fs) == IsSeq(fs) /\ \A k \in DOMAIN fs : IsFrame(fs[k])

\* Is one of them a union's?
InUnion(fs) == \E k \in DOMAIN fs : fs[k].by = "union"

LEMMA TopFrame ==
  ASSUME Frames(frames), frames # <<>>
  PROVE  /\ IsSeq(Top.path) /\ Frames(Advanced)
         /\ InUnion(Advanced) => InUnion(frames)
         /\ Top.by = "union" => InUnion(frames)
<1> DEFINE n == Len(frames)
           S == Range(frames)
           top == [frames[n] EXCEPT !.next = @ + 1]
<1>1. frames \in Seq(S) /\ n \in Nat \ {0} /\ DOMAIN frames = 1 .. n /\ n \in DOMAIN frames
  BY DEF Frames, IsSeq
<1>2. IsFrame(Top) /\ Top = frames[n]
  BY <1>1 DEF Top, Last, Frames
<1>3. IsFrame(top) /\ top.by = Top.by
  BY <1>2 DEF IsFrame
<1>4. /\ DOMAIN Advanced = 1 .. n /\ Advanced[n] = top
      /\ \A k \in 1 .. n : k # n => Advanced[k] = frames[k]
  BY <1>1 DEF Advanced
<1>5. IsSeq(Advanced)
  <2>1. \A k \in 1 .. n : Advanced[k] \in Range(Advanced)
    BY <1>4 DEF Range
  <2>2. Advanced \in [1 .. n -> Range(Advanced)]
    <3>1. Advanced = [k \in 1 .. n |-> Advanced[k]]
      BY <1>1, <1>4 DEF Advanced
    <3> QED BY <2>1, <3>1
  <2>3. Advanced \in Seq(Range(Advanced))
    <3> HIDE DEF n
    <3> QED BY <1>1, <2>2
  <2> QED BY <2>3 DEF IsSeq
<1> HIDE DEF top
<1>6. \A k \in 1 .. n : IsFrame(Advanced[k]) /\ Advanced[k].by = frames[k].by
  BY <1>1, <1>2, <1>3, <1>4 DEF Frames
<1> QED BY <1>1, <1>2, <1>4, <1>5, <1>6 DEF Frames, InUnion, IsFrame

LEMMA FramesGrow ==
  ASSUME Frames(frames), frames # <<>>, NEW f, IsFrame(f)
  PROVE  /\ Frames(Append(Advanced, f))
         /\ InUnion(Append(Advanced, f)) => f.by = "union" \/ InUnion(frames)
<1> DEFINE a == Advanced
           n == Len(a) + 1
<1>1. Frames(a) /\ (InUnion(a) => InUnion(frames))
  BY TopFrame
<1> HIDE DEF a
<1>2. /\ IsSeq(Append(a, f)) /\ DOMAIN a = 1 .. n - 1 /\ n \in Nat /\ DOMAIN Append(a, f) = 1 .. n
      /\ \A i \in DOMAIN a : Append(a, f)[i] = a[i]
      /\ Append(a, f)[n] = f
  BY <1>1, AppendSeq DEF Frames
<1> HIDE DEF n
<1>3. \A i \in DOMAIN Append(a, f) : i = n \/ i \in DOMAIN a
  BY <1>2
<1>4. Frames(Append(a, f))
  BY <1>1, <1>2, <1>3 DEF Frames
<1>5. InUnion(Append(a, f)) => f.by = "union" \/ InUnion(a)
  BY <1>2, <1>3 DEF InUnion
<1> QED BY <1>1, <1>4, <1>5 DEF a

LEMMA FramesShrink ==
  ASSUME Frames(frames), frames # <<>>
  PROVE  Frames(Front(frames)) /\ (InUnion(Front(frames)) => InUnion(frames))
BY FrontSeq DEF Frames, InUnion

LEMMA NewFrame ==
  ASSUME IsSeq(Top.path), NEW by, NEW ref
  PROVE  IsFrame(Frame(by, Path, ref)) /\ Frame(by, Path, ref).by = by
<1>1. IsSeq(Path)
  BY AppendSeq DEF Path
<1> QED BY <1>1 DEF IsFrame, Frame

-----------------------------------------------------------------------------
(* The steps of the generation *)

\* Before a walk nothing is changed.
LEMMA WalkRests ==
  ASSUME Inv, UNCHANGED walk, phase \in {"inject", "members", "raised"}
  PROVE  /\ Unwalked' /\ CountingKeeps' /\ ChangesLogged'
         /\ mode' \in {"count", "resize", "normal"} /\ pc' \in Nat \ {0}
<1>1. changed' = {} /\ mode' = mode /\ pc' = pc
  BY DEF Inv, Unwalked, walk
<1> QED BY <1>1 DEF Inv, TypeOK, Unwalked, CountingKeeps, ChangesLogged

\* How the context goes on.
Further ==
  /\ context' \in Contexts
  /\ context.tmp <= context'.tmp /\ context.rnd <= context'.rnd
  /\ context.values <= context'.values

\* A statement with a variable of its own has the next one.
OwnVariable(s) ==
  /\ s.op \in {"draw", "copy", "assign", "call"}
  /\ s.op = "draw"   => s.var = context.rnd + 1 /\ context'.rnd = s.var
  /\ s.op = "copy"   => s.var = context.tmp /\ context'.tmp = s.var + 1
  /\ s.op = "assign" => s.var = context.values /\ context'.values = s.var + 1

LEMMA QuietStep ==
  ASSUME Inv, phase = "members", phase' = "members", UNCHANGED <<shapes, at, walk, body, context>>,
         Frames(frames'), InUnion(frames') => InUnion(frames)
  PROVE  Inv'
<1>1. TypeOK'
  BY WalkRests DEF Inv, TypeOK, Frames
<1>2. Unique' /\ Guarded' /\ Counted' /\ HasDrawn' = HasDrawn
  BY DEF Inv, BodyInv, Unique, Guarded, Counted, HasDrawn
<1>3. AllMeant'
  BY DEF Inv, BodyInv, AllMeant, Meant, KindAt, MemberAt, MembersAt, Shape
<1>4. Drawn'
  BY <1>2 DEF Inv, BodyInv, Drawn, InUnion
<1> QED BY <1>1, <1>2, <1>3, <1>4, WalkRests DEF Inv, BodyInv

LEMMA StatementStep ==
  ASSUME Inv, phase = "members", phase' = "members", UNCHANGED <<shapes, at, walk>>,
         Frames(frames'), Further,
         NEW s, body' = Append(body, s), Meant(s), OwnVariable(s),
         s.guard = <<>> \/ \E j \in DOMAIN body : body[j].op = "draw" /\ body[j].var = s.guard[1],
         s.op = "draw" \/ (context'.rnd = context.rnd /\ (InUnion(frames') => InUnion(frames)))
  PROVE  Inv'
<1> DEFINE n == Len(body) + 1
<1>1. /\ IsSeq(body) /\ Unique /\ Guarded /\ AllMeant /\ Counted /\ Drawn
      /\ context \in Contexts
  BY DEF Inv, TypeOK, BodyInv
<1>2. s.op = "call" \/ \A i \in DOMAIN body : body[i].op = s.op => body[i].var # s.var
  BY <1>1 DEF OwnVariable, Counted, Numbered, Contexts
<1>3. IsSeq(body') /\ Unique' /\ Guarded' /\ AllMeant'
  BY <1>1, <1>2, BodyGrows
<1>4. /\ n \in Nat /\ DOMAIN body = 1 .. n - 1 /\ DOMAIN body' = 1 .. n
      /\ \A i \in DOMAIN body : body'[i] = body[i]
      /\ body'[n] = s
  BY <1>1, AppendSeq
<1> HIDE DEF n
<1>5. Counted'
  <2> SUFFICES ASSUME NEW i \in DOMAIN body' PROVE Numbered(body'[i], context')
    BY DEF Counted, Numbered
  <2>1. CASE i \in DOMAIN body
    BY <1>1, <1>4, <2>1, SMTT(30) DEF Counted, Numbered, Further, Contexts
  <2>2. CASE i = n
    BY <1>1, <1>4, <2>2 DEF Numbered, OwnVariable, Further, Contexts
  <2> QED BY <1>4, <2>1, <2>2
<1>6. Drawn'
  <2>1. CASE s.op = "draw"
    BY <1>4, <2>1 DEF Drawn, HasDrawn, OwnVariable
  <2>2. CASE context'.rnd = context.rnd /\ (InUnion(frames') => InUnion(frames))
    <3>1. HasDrawn => HasDrawn'
      BY <1>4, <2>2 DEF HasDrawn
    <3> QED BY <1>1, <2>2, <3>1 DEF Drawn, InUnion
  <2> QED BY <2>1, <2>2
<1>7. TypeOK'
  BY <1>3, WalkRests DEF TypeOK, Frames, Further
<1> QED BY <1>3, <1>5, <1>6, <1>7, WalkRests DEF Inv, BodyInv

\* What there is to know of a member when a statement is made for it.
LEMMA AtMember ==
  ASSUME Inv, HasMember
  PROVE  /\ Frames(frames) /\ frames # <<>> /\ IsSeq(Top.path) /\ context \in Contexts
         /\ Frames(Advanced) /\ (InUnion(Advanced) => InUnion(frames))
         /\ Top.by = "union" => InUnion(frames) /\ HasDrawn
         /\ KindAt(Path) = Member.kind /\ MemberAt(Path) = Member
<1>1. Frames(frames) /\ frames # <<>> /\ Drawn /\ context \in Contexts
  BY DEF Inv, TypeOK, BodyInv, HasMember, Frames
<1>2. /\ IsSeq(Top.path) /\ Frames(Advanced) /\ (InUnion(Advanced) => InUnion(frames))
      /\ Top.by = "union" => InUnion(frames)
  BY <1>1, TopFrame
<1> QED BY <1>1, <1>2, PathMeans DEF Drawn, InUnion

LEMMA RandomNext ==
  ASSUME context \in Contexts
  PROVE  /\ Random(context) \in Contexts /\ Random(context).rnd = context.rnd + 1
         /\ Random(context).tmp = context.tmp /\ Random(context).values = context.values
<1>1. Random(context) = [tmp |-> context.tmp, rnd |-> context.rnd + 1, current |-> 0,
                         values |-> context.values]
  <2> DEFINE c == [context EXCEPT !.rnd = context.rnd + 1]
  <2>1. c = [tmp |-> context.tmp, rnd |-> context.rnd + 1, current |-> context.current,
             values |-> context.values]
    BY DEF Contexts
  <2>2. Random(context) = [c EXCEPT !.current = 0]
    BY Zenon DEF Random
  <2> HIDE DEF c
  <2> QED BY <2>1, <2>2
<1>2. context.tmp \in Nat /\ context.rnd + 1 \in Nat /\ context.values \in Nat
  BY DEF Contexts
<1> QED BY <1>1, <1>2 DEF Contexts

LEMMA InjectKeeps == ASSUME Inv, Inject, UNCHANGED walk PROVE Inv'
<1>1. context \in Contexts /\ phase' = "members"
  BY DEF Inv, TypeOK, Inject
<1>2. CASE Shape.kind = "struct" /\ frames' = <<Frame("struct", <<>>, <<>>)>> /\ body' = <<>>
           /\ UNCHANGED context
  <2>1. Frames(frames') /\ ~InUnion(frames') /\ IsSeq(body') /\ DOMAIN body' = {}
    BY <1>2, ShortSeq DEF Frames, InUnion, IsFrame, Frame
  <2>2. Unique' /\ Guarded' /\ Counted' /\ AllMeant' /\ Drawn'
    BY <2>1 DEF Unique, Guarded, Counted, AllMeant, Drawn, InUnion
  <2>3. TypeOK'
    BY <1>1, <1>2, <2>1, WalkRests DEF TypeOK, Frames, Inject
  <2> QED BY <2>2, <2>3, WalkRests DEF Inv, BodyInv, Inject
<1>3. CASE /\ Shape.kind = "union" /\ context' = Random(context)
           /\ frames' = <<Frame("union", <<>>, <<>>)>> /\ body' = <<Draw(context', Shape.members)>>
  <2> DEFINE s == Draw(context', Shape.members)
  <2>1. s.op = "draw" /\ s.var = context'.rnd /\ s.guard = <<>>
    BY DEF Draw, Statement
  <2> HIDE DEF s
  <2>2. context' \in Contexts
    BY <1>1, <1>3, RandomNext
  <2>3. Frames(frames') /\ IsSeq(body') /\ DOMAIN body' = {1} /\ body'[1] = s
    BY <1>3, ShortSeq DEF Frames, IsFrame, Frame, s
  <2>4. Unique' /\ Guarded'
    BY <2>1, <2>3 DEF Unique, Guarded
  <2>5. Counted' /\ Drawn'
    BY <2>1, <2>2, <2>3 DEF Counted, Drawn, HasDrawn, Numbered, Contexts
  <2>6. AllMeant'
    BY <2>1, <2>3 DEF AllMeant, Meant
  <2>7. TypeOK'
    BY <1>1, <2>2, <2>3, WalkRests DEF TypeOK, Frames, Inject
  <2> QED BY <2>4, <2>5, <2>6, <2>7, WalkRests DEF Inv, BodyInv, Inject
<1>4. CASE /\ Shape.kind = "enum" /\ context' = [context EXCEPT !.values = @ + 1]
           /\ frames' = <<>> /\ body' = <<Statement("assign", <<>>, <<>>, context.values)>>
  <2> DEFINE s == Statement("assign", <<>>, <<>>, context.values)
  <2>1. s.op = "assign" /\ s.var = context.values /\ s.guard = <<>> /\ s.of = <<>>
    BY DEF Statement
  <2> HIDE DEF s
  <2>2. context' \in Contexts /\ context'.values = context.values + 1 /\ context.values \in Nat
    BY <1>1, <1>4 DEF Contexts
  <2>3. Frames(frames') /\ ~InUnion(frames') /\ IsSeq(body') /\ DOMAIN body' = {1} /\ body'[1] = s
    BY <1>4, ShortSeq DEF Frames, InUnion, s
  <2>4. Unique' /\ Guarded'
    BY <2>1, <2>3 DEF Unique, Guarded
  <2>5. Counted' /\ Drawn'
    BY <2>1, <2>2, <2>3 DEF Counted, Drawn, InUnion, Numbered
  <2>6. AllMeant'
    <3>1. KindAt(<<>>)' = "enum"
      BY <1>4 DEF KindAt, Shape, Inject
    <3> QED BY <2>1, <2>3, <3>1 DEF AllMeant, Meant
  <2>7. TypeOK'
    BY <1>1, <2>2, <2>3, WalkRests DEF TypeOK, Frames, Inject
  <2> QED BY <2>4, <2>5, <2>6, <2>7, WalkRests DEF Inv, BodyInv, Inject
<1> QED BY <1>2, <1>3, <1>4 DEF Inject

LEMMA StatementFields ==
  ASSUME NEW op, NEW p, NEW ref, NEW var
  PROVE  /\ Statement(op, p, ref, var).op = op /\ Statement(op, p, ref, var).of = p
         /\ Statement(op, p, ref, var).var = var /\ Statement(op, p, ref, var).guard = <<>>
BY DEF Statement

LEMMA CopyKeeps == ASSUME Inv, CopyMember, UNCHANGED walk PROVE Inv'
<1> DEFINE s == Statement("copy", Path, Ref, context.tmp)
<1>1. HasMember /\ phase' = phase /\ phase = "members" /\ Member.bits
  BY DEF CopyMember, HasMember
<1>2. /\ Frames(frames') /\ (InUnion(frames') => InUnion(frames)) /\ MemberAt(Path) = Member
      /\ context \in Contexts
  BY <1>1, AtMember DEF CopyMember
<1>3. s.op = "copy" /\ s.of = Path /\ s.var = context.tmp /\ s.guard = <<>>
  BY StatementFields
<1>4. body' = Append(body, s)
  BY DEF CopyMember
<1>5. /\ context'.tmp = context.tmp + 1 /\ context'.rnd = context.rnd
      /\ context'.values = context.values /\ context' \in Contexts
  BY <1>2 DEF CopyMember, Contexts
<1> HIDE DEF s
<1>6. Further /\ OwnVariable(s)
  BY <1>2, <1>3, <1>5 DEF Further, OwnVariable, Contexts
<1>7. Meant(s)
  BY <1>1, <1>2, <1>3, Zenon DEF Meant
<1> QED BY <1>1, <1>2, <1>3, <1>4, <1>5, <1>6, <1>7, StatementStep DEF CopyMember

LEMMA AssignKeeps == ASSUME Inv, AssignMember, UNCHANGED walk PROVE Inv'
<1> DEFINE s == Statement("assign", Path, Ref, context.values)
<1>1. HasMember /\ phase' = phase /\ phase = "members" /\ Member.kind = "enum"
  BY DEF AssignMember, HasMember
<1>2. /\ Frames(frames') /\ (InUnion(frames') => InUnion(frames)) /\ KindAt(Path) = Member.kind
      /\ context \in Contexts
  BY <1>1, AtMember DEF AssignMember
<1>3. s.op = "assign" /\ s.of = Path /\ s.var = context.values /\ s.guard = <<>>
  BY StatementFields
<1>4. body' = Append(body, s)
  BY DEF AssignMember
<1>5. /\ context'.tmp = context.tmp /\ context'.rnd = context.rnd
      /\ context'.values = context.values + 1 /\ context' \in Contexts
  BY <1>2 DEF AssignMember, Contexts
<1> HIDE DEF s
<1>6. Further /\ OwnVariable(s)
  BY <1>2, <1>3, <1>5 DEF Further, OwnVariable, Contexts
<1>7. Meant(s)
  BY <1>1, <1>2, <1>3 DEF Meant
<1> QED BY <1>1, <1>2, <1>3, <1>4, <1>5, <1>6, <1>7, StatementStep DEF AssignMember

LEMMA NestStructKeeps == ASSUME Inv, NestStruct, UNCHANGED walk PROVE Inv'
<1>1. HasMember /\ phase' = phase /\ phase = "members"
  BY DEF NestStruct, HasMember
<1>2. PICK ref : frames' = Append(Advanced, Frame("struct", Path, ref))
  BY DEF NestStruct
<1>3. /\ IsFrame(Frame("struct", Path, ref)) /\ Frame("struct", Path, ref).by = "struct"
      /\ Frames(frames) /\ frames # <<>>
  BY <1>1, AtMember, NewFrame
<1>4. Frames(frames') /\ (InUnion(frames') => InUnion(frames))
  BY <1>2, <1>3, FramesGrow
<1> QED BY <1>1, <1>4, QuietStep DEF NestStruct

LEMMA NestAgainKeeps == ASSUME Inv, NestUnionAgain, UNCHANGED walk PROVE Inv'
<1>1. HasMember /\ phase' = phase /\ phase = "members" /\ Top.by = "union"
  BY DEF NestUnionAgain, HasMember
<1>2. IsFrame(Frame("union", Path, NestedRef)) /\ InUnion(frames) /\ Frames(frames) /\ frames # <<>>
  BY <1>1, AtMember, NewFrame
<1>3. Frames(frames')
  BY <1>2, FramesGrow DEF NestUnionAgain
<1> QED BY <1>1, <1>2, <1>3, QuietStep DEF NestUnionAgain

LEMMA NestUnionKeeps == ASSUME Inv, NestUnion, UNCHANGED walk PROVE Inv'
<1> DEFINE s == Draw(context', Member.members)
<1>1. HasMember /\ phase' = phase /\ phase = "members"
  BY DEF NestUnion, HasMember
<1>2. /\ IsFrame(Frame("union", Path, NestedRef)) /\ Frames(frames) /\ frames # <<>>
      /\ context \in Contexts
  BY <1>1, AtMember, NewFrame
<1>3. Frames(frames')
  BY <1>2, FramesGrow DEF NestUnion
<1>4. s.op = "draw" /\ s.var = context'.rnd /\ s.guard = <<>>
  BY DEF Draw, Statement
<1>5. body' = Append(body, s)
  BY DEF NestUnion
<1>6. /\ context'.tmp = context.tmp /\ context'.rnd = context.rnd + 1
      /\ context'.values = context.values /\ context' \in Contexts
  BY <1>2, RandomNext DEF NestUnion
<1> HIDE DEF s
<1>7. Further /\ OwnVariable(s)
  BY <1>2, <1>4, <1>6 DEF Further, OwnVariable, Contexts
<1>8. Meant(s)
  BY <1>4 DEF Meant
<1> QED BY <1>1, <1>3, <1>4, <1>5, <1>7, <1>8, StatementStep DEF NestUnion

LEMMA CallKeeps == ASSUME Inv, CallMember, UNCHANGED walk PROVE Inv'
<1> DEFINE s == Statement("call", Path, Ref, 0)
<1>1. HasMember /\ phase' = phase /\ phase = "members"
  BY DEF CallMember, HasMember
<1>2. Frames(frames') /\ (InUnion(frames') => InUnion(frames)) /\ context \in Contexts
  BY <1>1, AtMember DEF CallMember
<1>3. s.op = "call" /\ s.guard = <<>>
  BY StatementFields
<1>4. body' = Append(body, s) /\ context' = context
  BY DEF CallMember
<1> HIDE DEF s
<1>5. Further /\ OwnVariable(s) /\ Meant(s)
  BY <1>2, <1>3, <1>4 DEF Further, OwnVariable, Contexts, Meant
<1> QED BY <1>1, <1>2, <1>3, <1>4, <1>5, StatementStep DEF CallMember

LEMMA GuardKeeps == ASSUME Inv, GuardMember, UNCHANGED walk PROVE Inv'
<1> DEFINE s == [Statement("call", Path, Ref, 0) EXCEPT !.guard = Guard]
<1>1. HasMember /\ phase' = phase /\ phase = "members" /\ Top.by = "union"
  BY DEF GuardMember, HasMember
<1>2. /\ Frames(frames') /\ (InUnion(frames') => InUnion(frames)) /\ context \in Contexts
      /\ HasDrawn
  BY <1>1, AtMember DEF GuardMember
<1>3. s.op = "call" /\ s.guard[1] = context.rnd
  BY DEF Statement, Guard
<1>4. body' = Append(body, s)
  BY DEF GuardMember
<1>5. /\ context'.tmp = context.tmp + 1 /\ context'.rnd = context.rnd
      /\ context'.values = context.values /\ context' \in Contexts
  <2>1. context' = [tmp |-> context.tmp + 1, rnd |-> context.rnd, current |-> context.current + 1,
                    values |-> context.values]
    BY <1>2 DEF GuardMember, Contexts
  <2>2. context.tmp + 1 \in Nat /\ context.rnd \in Nat /\ context.current + 1 \in Nat
        /\ context.values \in Nat
    BY <1>2 DEF Contexts
  <2> QED BY <2>1, <2>2 DEF Contexts
<1> HIDE DEF s
<1>6. Further /\ OwnVariable(s) /\ Meant(s)
  BY <1>2, <1>3, <1>5 DEF Further, OwnVariable, Contexts, Meant
<1>7. \E j \in DOMAIN body : body[j].op = "draw" /\ body[j].var = s.guard[1]
  BY <1>2, <1>3 DEF HasDrawn
<1> QED BY <1>1, <1>2, <1>4, <1>5, <1>6, <1>7, StatementStep DEF GuardMember

LEMMA EndKeeps == ASSUME Inv, EndMembers, UNCHANGED walk PROVE Inv'
<1>1. Frames(frames) /\ frames # <<>>
  BY DEF Inv, TypeOK, Frames, EndMembers
<1>2. Frames(frames') /\ (InUnion(frames') => InUnion(frames))
  BY <1>1, FramesShrink DEF EndMembers
<1> QED BY <1>2, QuietStep DEF EndMembers

LEMMA FinishKeeps == ASSUME Inv, Finish, UNCHANGED walk PROVE Inv'
<1>1. /\ phase = "members" /\ phase' \in {"raised", "made"}
      /\ UNCHANGED <<shapes, at, frames, body>> /\ context \in Contexts
  BY DEF Inv, TypeOK, Finish
<1>2. context' \in Contexts
  BY <1>1 DEF Finish, FreshContext, Contexts
<1>3. Unique' /\ Guarded' /\ AllMeant'
  BY <1>1 DEF Inv, BodyInv, Unique, Guarded, AllMeant, Meant, KindAt, MemberAt, MembersAt, Shape
<1>4. TypeOK'
  BY <1>1, <1>2, WalkRests DEF Inv, TypeOK
<1> QED BY <1>1, <1>3, <1>4, WalkRests DEF Inv, BodyInv

LEMMA AbandonKeeps == ASSUME Inv, Abandon, UNCHANGED walk PROVE Inv'
<1>1. phase = "raised" /\ phase' = "inject" /\ UNCHANGED <<frames, body, context>>
  BY DEF Abandon
<1>2. Unique' /\ Guarded'
  BY <1>1 DEF Inv, BodyInv, Unique, Guarded
<1>3. TypeOK'
  BY <1>1, WalkRests DEF Inv, TypeOK
<1> QED BY <1>1, <1>2, <1>3, WalkRests DEF Inv, BodyInv

-----------------------------------------------------------------------------
(* The steps of the walks *)

\* While a mutator runs, what was generated stays.
LEMMA BodyRests ==
  ASSUME Inv, phase = "made", UNCHANGED <<shapes, at, context, frames, body>>,
         phase' \in {"made", "called"},
         mode' \in {"count", "resize", "normal"}, pc' \in Nat \ {0}
  PROVE  TypeOK' /\ BodyInv' /\ Unwalked'
<1>1. Unique' /\ Guarded' /\ AllMeant'
  BY DEF Inv, BodyInv, Unique, Guarded, AllMeant, Meant, KindAt, MemberAt, MembersAt, Shape
<1> QED BY <1>1 DEF Inv, TypeOK, BodyInv, Unwalked

LEMMA StepKeeps ==
  ASSUME Inv, Running, Step,
         CountingKeeps', ChangesLogged'
  PROVE  Inv'
<1>1. pc' \in Nat \ {0} /\ mode' \in {"count", "resize", "normal"}
  BY DEF Inv, TypeOK, Step
<1> QED BY <1>1, BodyRests DEF Inv, Running, Step, generation

LEMMA NowMeant ==
  ASSUME Inv, Running
  PROVE  Meant(Now)
<1>1. pc \in DOMAIN body /\ AllMeant
  BY DEF Inv, TypeOK, BodyInv, IsSeq, Running
<1> QED BY <1>1 DEF AllMeant, Now

\* Nothing new is changed.
LEMMA SameKeeps ==
  ASSUME Inv, Running, Step, UNCHANGED <<changed, logged>>
  PROVE  Inv'
<1>1. UNCHANGED <<shapes, at>> /\ mode' = mode
  BY DEF Step, generation
<1>2. CountingKeeps' /\ ChangesLogged'
  BY <1>1 DEF Inv, CountingKeeps, ChangesLogged, KindAt, MemberAt, MembersAt, Shape
<1> QED BY <1>2, StepKeeps

LEMMA AssignValueKeeps == ASSUME Inv, AssignValue PROVE Inv'
<1>1. /\ Running /\ Step /\ KindAt(Now.of) = "enum" /\ changed' = changed \cup {Now.of}
      /\ logged' = logged
  BY NowMeant DEF AssignValue, Meant
<1>2. UNCHANGED <<shapes, at>> /\ mode' = mode
  BY <1>1 DEF Step, generation
<1>3. \A p : KindAt(p)' = KindAt(p) /\ MemberAt(p)' = MemberAt(p)
  BY <1>2, SameShape
<1>4. CountingKeeps'
  BY <1>1, <1>2, <1>3 DEF Inv, CountingKeeps
<1>5. ChangesLogged'
  <2> SUFFICES ASSUME NEW p \in changed' \ logged'
               PROVE  KindAt(p)' = "enum" \/ MemberAt(p)'.bits
    BY DEF ChangesLogged
  <2>1. p = Now.of \/ p \in changed \ logged
    BY <1>1
  <2> QED BY <1>1, <1>3, <2>1, Zenon DEF Inv, ChangesLogged
<1> QED BY <1>1, <1>4, <1>5, StepKeeps

LEMMA CallMutatorKeeps == ASSUME Inv, CallMutator PROVE Inv'
<1>1. PICK choice \in AnyChoice :
        /\ Pick(choice)
        /\ changed' = IF 0 < choice THEN changed \cup {Now.of} ELSE changed
        /\ logged'  = IF Logs(choice) THEN logged \cup {Now.of} ELSE logged
  BY DEF CallMutator
<1>2. Running /\ Step /\ Now.op \in {"call", "copy"} /\ Meant(Now)
  BY NowMeant DEF CallMutator
<1>3. UNCHANGED <<shapes, at>> /\ mode' = mode /\ mode \in {"count", "resize", "normal"}
  BY <1>2 DEF Step, generation, Inv, TypeOK
<1>4. \A p : KindAt(p)' = KindAt(p) /\ MemberAt(p)' = MemberAt(p)
  BY <1>3, SameShape
<1>5. 0 < choice => mode = "normal"
  <2>1. mode \in {"count", "resize"} => choice \in NoChoice
    BY <1>1, Zenon DEF Pick
  <2> QED BY <1>3, <2>1 DEF NoChoice
<1>6. CountingKeeps'
  BY <1>1, <1>3, <1>4, <1>5 DEF Inv, CountingKeeps
<1>7. ChangesLogged'
  <2> SUFFICES ASSUME NEW p \in changed' \ logged'
               PROVE  KindAt(p)' = "enum" \/ MemberAt(p)'.bits
    BY DEF ChangesLogged
  <2>1. p \in changed \ logged \/ (p = Now.of /\ Now.op = "copy")
    BY <1>1, <1>2 DEF Logs
  <2> QED BY <1>2, <1>4, <2>1, Zenon DEF Inv, ChangesLogged, Meant
<1> QED BY <1>2, <1>6, <1>7, StepKeeps

LEMMA EndWalkKeeps == ASSUME Inv, EndWalk PROVE Inv'
<1>1. /\ phase = "made" /\ phase' \in {"made", "called"} /\ pc' = 1
      /\ UNCHANGED <<shapes, at, context, frames, body, changed, logged>>
      /\ mode' \in {"count", "resize", "normal"}
      /\ mode' \in {"count", "resize"} => mode \in {"count", "resize"}
  BY DEF EndWalk
<1>2. TypeOK' /\ BodyInv' /\ Unwalked'
  BY <1>1, BodyRests
<1>3. CountingKeeps' /\ ChangesLogged'
  BY <1>1 DEF Inv, CountingKeeps, ChangesLogged, KindAt, MemberAt, MembersAt, Shape
<1> QED BY <1>2, <1>3 DEF Inv

LEMMA NextTypeKeeps == ASSUME Inv, NextType PROVE Inv'
<1>1. /\ phase' = "inject" /\ mode' = "count" /\ changed' = {} /\ pc' = pc
      /\ UNCHANGED <<context, frames, body>>
  BY DEF NextType
<1>2. Unique' /\ Guarded'
  BY <1>1 DEF Inv, BodyInv, Unique, Guarded
<1>3. TypeOK'
  BY <1>1 DEF Inv, TypeOK
<1> QED BY <1>1, <1>2, <1>3 DEF Inv, BodyInv, Unwalked, CountingKeeps, ChangesLogged

LEMMA StutterKeeps == ASSUME Inv, UNCHANGED vars PROVE Inv'
<1>1. UNCHANGED <<shapes, at, context, frames, body, phase, mode, pc, changed, logged>>
  BY DEF vars, generation, walk
<1> QED BY <1>1 DEF Inv, TypeOK, BodyInv, Unique, Guarded, Counted, Drawn, HasDrawn, AllMeant,
                    Meant, Unwalked, CountingKeeps, ChangesLogged, KindAt, MemberAt, MembersAt, Shape

-----------------------------------------------------------------------------
(* The theorems *)

LEMMA InvInit == EngineInit => Inv
<1> SUFFICES ASSUME EngineInit PROVE Inv
  OBVIOUS
<1>1. /\ phase = "inject" /\ context = FreshContext /\ frames = <<>> /\ body = <<>>
      /\ mode = "count" /\ pc = 1 /\ changed = {}
  BY DEF EngineInit, Init
<1>2. TypeOK
  BY <1>1, ShortSeq DEF TypeOK, FreshContext, Contexts
<1>3. Unique /\ Guarded
  BY <1>1, ShortSeq DEF Unique, Guarded
<1> QED BY <1>1, <1>2, <1>3 DEF Inv, BodyInv, Unwalked, CountingKeeps, ChangesLogged

LEMMA InvNext == Inv /\ [Next]_vars => Inv'
<1> SUFFICES ASSUME Inv, [Next]_vars PROVE Inv'
  OBVIOUS
<1>1. CASE Generating
  BY <1>1, InjectKeeps, CopyKeeps, AssignKeeps, NestStructKeeps, NestUnionKeeps, NestAgainKeeps,
     CallKeeps, GuardKeeps, EndKeeps, FinishKeeps, AbandonKeeps DEF Generating, Generate
<1>2. CASE DrawValue
  BY <1>2, SameKeeps DEF DrawValue
<1>3. CASE NotSelected
  BY <1>3, SameKeeps DEF NotSelected
<1>4. CASE AssignValue
  BY <1>4, AssignValueKeeps
<1>5. CASE CallMutator
  BY <1>5, CallMutatorKeeps
<1>6. CASE EndWalk
  BY <1>6, EndWalkKeeps
<1>7. CASE NextType
  BY <1>7, NextTypeKeeps
<1>8. CASE UNCHANGED vars
  BY <1>8, StutterKeeps
<1> QED BY <1>1, <1>2, <1>3, <1>4, <1>5, <1>6, <1>7, <1>8 DEF Next, Ended

LEMMA InvAlways == Spec => []Inv
BY InvInit, InvNext, PTL DEF Spec

\* In every mutator that is made, however deep the type, each variable is declared
\* once and before the statement that uses it.
THEOREM VariablesDeclared == Spec => []DeclaredOnce
<1>1. Inv => DeclaredOnce
  BY DEF Inv, BodyInv, Unique, Guarded, DeclaredOnce
<1> QED BY <1>1, InvAlways, PTL

\* The walks for counting and resizing change no value but enums, of any type and
\* for any range of the counter.
THEOREM CountingChangesNothing == Spec => []CountingKeeps
<1>1. Inv => CountingKeeps
  BY DEF Inv
<1> QED BY <1>1, InvAlways, PTL

\* What is changed and not logged is an enum or a bitfield.
THEOREM EveryChangeLogged == Spec => []ChangesLogged
<1>1. Inv => ChangesLogged
  BY DEF Inv
<1> QED BY <1>1, InvAlways, PTL

\* Induction over numbers, for a set of them: the library's theorem takes an operator.
LEMMA NatSetInduction ==
  ASSUME NEW P, 0 \in P, \A n \in Nat : n \in P => n + 1 \in P
  PROVE  Nat \subseteq P
<1> DEFINE T == Nat \ P
           R == OpToRel(<, Nat)
<1>1. IsWellFoundedOn(R, Nat)
  BY NatLessThanWellFounded
<1> SUFFICES ASSUME T # {} PROVE FALSE
  OBVIOUS
<1>2. \A x, y \in Nat : <<y, x>> \in R <=> y < x
  BY DEF OpToRel
<1>3. PICK x \in T : \A y \in T : ~ (<<y, x>> \in R)
  <2> HIDE DEF R
  <2>1. T \subseteq Nat
    OBVIOUS
  <2> HIDE DEF T
  <2> QED BY <1>1, <2>1, WFMin
<1> HIDE DEF R
<1>4. x # 0 /\ x - 1 \in Nat /\ x - 1 < x
  OBVIOUS
<1>5. x - 1 \in P
  BY <1>2, <1>3, <1>4
<1> QED BY <1>4, <1>5

-----------------------------------------------------------------------------
(* Members and their paths *)

\* What the recursive definition of MembersIn describes, up to the n-th index.
Leads(f, type, p, n) ==
  f = [k \in 0 .. n |-> IF k = 0 THEN type.members ELSE f[k - 1][p[k]].members]

\* A function that describes n indices extends to one more.
LEMMA LeadsOn ==
  ASSUME NEW type, NEW p, NEW n \in Nat, NEW g, Leads(g, type, p, n)
  PROVE  \E h : /\ Leads(h, type, p, n + 1) /\ h[n + 1] = g[n][p[n + 1]].members
<1> DEFINE h == [k \in 0 .. n + 1 |-> IF k = n + 1 THEN g[n][p[n + 1]].members ELSE g[k]]
           next == [k \in 0 .. n + 1 |-> IF k = 0 THEN type.members ELSE h[k - 1][p[k]].members]
<1>1. /\ g[0] = type.members
      /\ \A k \in 1 .. n : g[k] = g[k - 1][p[k]].members
  <2>1. \A k \in 0 .. n : g[k] = IF k = 0 THEN type.members ELSE g[k - 1][p[k]].members
    BY DEF Leads
  <2> QED BY <2>1
<1>2. \A k \in 0 .. n : h[k] = g[k] /\ h[n + 1] = g[n][p[n + 1]].members
  OBVIOUS
<1>3. ASSUME NEW k \in 0 .. n + 1 PROVE h[k] = next[k]
  <2>0. next[k] = IF k = 0 THEN type.members ELSE h[k - 1][p[k]].members
    OBVIOUS
  <2> HIDE DEF h, next
  <2>1. CASE k = n + 1
    <3>1. k - 1 = n /\ h[k - 1] = g[n]
      BY <1>2, <2>1
    <3> QED BY <1>2, <2>0, <2>1, <3>1
  <2>2. CASE k # n + 1 /\ k # 0
    <3>1. k \in 1 .. n /\ k - 1 \in 0 .. n /\ k \in 0 .. n
      BY <2>2
    <3> QED BY <1>1, <1>2, <2>0, <2>2, <3>1
  <2>3. CASE k = 0
    BY <1>1, <1>2, <2>0, <2>3
  <2> QED BY <2>1, <2>2, <2>3
<1>4. h = next
  <2>1. h = [k \in 0 .. n + 1 |-> h[k]] /\ next = [k \in 0 .. n + 1 |-> next[k]]
    OBVIOUS
  <2> HIDE DEF h, next
  <2> QED BY <1>3, <2>1
<1>5. Leads(h, type, p, n + 1)
  <2>1. next = [k \in 0 .. n + 1 |-> IF k = 0 THEN type.members ELSE h[k - 1][p[k]].members]
    OBVIOUS
  <2> HIDE DEF h, next
  <2> QED BY <1>4, <2>1 DEF Leads
<1> HIDE DEF h
<1> QED BY <1>2, <1>5

\* The function exists, for any number of indices, ...
LEMMA LeadsExists == ASSUME NEW type, NEW p, NEW n \in Nat PROVE \E g : Leads(g, type, p, n)
<1> DEFINE P == {k \in Nat : \E g : Leads(g, type, p, k)}
<1>1. 0 \in P
  <2> DEFINE g == [k \in 0 .. 0 |-> type.members]
  <2>1. Leads(g, type, p, 0)
    BY DEF Leads
  <2> QED BY <2>1
<1>2. \A k \in Nat : k \in P => k + 1 \in P
  BY LeadsOn
<1>3. n \in P
  <2> HIDE DEF P
  <2> QED BY <1>1, <1>2, NatSetInduction
<1> QED BY <1>3

\* ... and two of them, for paths that agree so far, agree.
LEMMA LeadsSame ==
  ASSUME NEW type, NEW p, NEW q, NEW n \in Nat, NEW k \in Nat, k <= n,
         \A i \in 1 .. k : p[i] = q[i],
         NEW f, Leads(f, type, p, n), NEW g, Leads(g, type, q, k)
  PROVE  f[k] = g[k]
<1> DEFINE P == {i \in Nat : i <= k => f[i] = g[i]}
<1>1. /\ f[0] = type.members /\ g[0] = type.members
      /\ \A i \in 1 .. n : f[i] = f[i - 1][p[i]].members
      /\ \A i \in 1 .. k : g[i] = g[i - 1][q[i]].members
  <2>1. /\ \A i \in 0 .. n : f[i] = IF i = 0 THEN type.members ELSE f[i - 1][p[i]].members
        /\ \A i \in 0 .. k : g[i] = IF i = 0 THEN type.members ELSE g[i - 1][q[i]].members
    BY DEF Leads
  <2> QED BY <2>1
<1>2. 0 \in P
  BY <1>1
<1>3. ASSUME NEW i \in Nat, i \in P PROVE i + 1 \in P
  <2> SUFFICES ASSUME i + 1 <= k PROVE f[i + 1] = g[i + 1]
    OBVIOUS
  <2>1. i + 1 \in 1 .. k /\ i + 1 \in 1 .. n /\ i <= k /\ (i + 1) - 1 = i
    OBVIOUS
  <2>2. f[i] = g[i] /\ p[i + 1] = q[i + 1]
    BY <1>3, <2>1
  <2> QED BY <1>1, <2>1, <2>2
<1>4. k \in P
  <2> HIDE DEF P
  <2> QED BY <1>2, <1>3, NatSetInduction
<1> QED BY <1>4

LEMMA MembersLead ==
  ASSUME NEW type, NEW p, Len(p) \in Nat
  PROVE  \E g : Leads(g, type, p, Len(p)) /\ MembersIn(type, p) = g[Len(p)]
<1> DEFINE g == CHOOSE f : Leads(f, type, p, Len(p))
<1>1. MembersIn(type, p) = g[Len(p)]
  BY DEF MembersIn, Leads
<1>2. Leads(g, type, p, Len(p))
  BY LeadsExists
<1> QED BY <1>1, <1>2

\* No index leads to the members of the type, and one index more to those of the
\* member it is the index of.
LEMMA MembersStep ==
  ASSUME NEW type
  PROVE  /\ MembersIn(type, <<>>) = type.members
         /\ \A p, i : IsSeq(p) => MembersIn(type, Append(p, i)) = MembersIn(type, p)[i].members
<1>1. MembersIn(type, <<>>) = type.members
  <2>1. PICK g : Leads(g, type, <<>>, 0) /\ MembersIn(type, <<>>) = g[0]
    BY MembersLead
  <2> QED BY <2>1 DEF Leads
<1>2. ASSUME NEW p, NEW i, IsSeq(p)
      PROVE  MembersIn(type, Append(p, i)) = MembersIn(type, p)[i].members
  <2> DEFINE q == Append(p, i)
             n == Len(p)
  <2>1. n \in Nat /\ Len(q) = n + 1 /\ q[n + 1] = i /\ \A k \in 1 .. n : q[k] = p[k]
    BY <1>2, AppendSeq
  <2> HIDE DEF q, n
  <2>2. PICK g : Leads(g, type, p, n) /\ MembersIn(type, p) = g[n]
    BY <2>1, MembersLead DEF n
  <2>3. PICK f : Leads(f, type, q, n + 1) /\ MembersIn(type, q) = f[n + 1]
    BY <2>1, MembersLead
  <2>4. f[n] = g[n]
    BY <2>1, <2>2, <2>3, LeadsSame
  <2>5. f[n + 1] = f[n][q[n + 1]].members
    BY <2>1, <2>3 DEF Leads
  <2> QED BY <2>1, <2>2, <2>3, <2>4, <2>5 DEF q
<1> QED BY <1>1, <1>2

\* Sequences are the same if they have the same elements.
LEMMA SameSeq ==
  ASSUME NEW p \in Seq(Nat), NEW q \in Seq(Nat), Len(p) = Len(q), \A n \in 1 .. Len(p) : p[n] = q[n]
  PROVE  p = q
OBVIOUS

\* The first n elements of p.
Begins(q, p, n) == q \in Seq(Nat) /\ Len(q) = n /\ \A k \in 1 .. n : q[k] = p[k]

LEMMA FirstPart ==
  ASSUME NEW p \in Seq(Nat), NEW n \in Nat, n <= Len(p)
  PROVE  Begins(SubSeq(p, 1, n), p, n)
<1>1. n \in 0 .. Len(p)
  OBVIOUS
<1>2. /\ SubSeq(p, 1, n) \in Seq(Nat) /\ Len(SubSeq(p, 1, n)) = n
      /\ \A k \in 1 .. n : SubSeq(p, 1, n)[k] = p[k]
  BY <1>1
<1> QED BY <1>2 DEF Begins

LEMMA UnderMeans ==
  ASSUME NEW p \in Seq(Nat), NEW q \in Seq(Nat)
  PROVE  Under(q, p) <=> Len(q) < Len(p) /\ \A n \in 1 .. Len(q) : p[n] = q[n]
<1>1. ASSUME Len(q) < Len(p)
      PROVE  SubSeq(p, 1, Len(q)) = q <=> \A n \in 1 .. Len(q) : p[n] = q[n]
  <2> DEFINE r == SubSeq(p, 1, Len(q))
  <2>1. Len(q) \in Nat /\ Len(q) <= Len(p)
    BY <1>1
  <2>2. Begins(r, p, Len(q))
    BY <2>1, FirstPart, Zenon
  <2> HIDE DEF r
  <2>3. (\A n \in 1 .. Len(q) : p[n] = q[n]) => r = q
    BY <2>2, SameSeq DEF Begins
  <2> QED BY <2>2, <2>3 DEF r, Begins
<1> QED BY <1>1 DEF Under

LEMMA AboveMeans ==
  ASSUME NEW p \in Seq(Nat)
  PROVE  /\ \A q \in Above(p) : q \in Seq(Nat) /\ Under(q, p)
         /\ \A q \in Seq(Nat) : Under(q, p) => q \in Above(p)
<1>1. ASSUME NEW n \in 0 .. Len(p) - 1
      PROVE  SubSeq(p, 1, n) \in Seq(Nat) /\ Under(SubSeq(p, 1, n), p)
  <2> DEFINE r == SubSeq(p, 1, n)
  <2>1. n \in Nat /\ n <= Len(p) /\ n < Len(p)
    OBVIOUS
  <2>2. Begins(r, p, n)
    BY <2>1, FirstPart, Zenon
  <2>3. r \in Seq(Nat) /\ Len(r) = n
    <3> HIDE DEF r
    <3> QED BY <2>2 DEF Begins
  <2> QED BY <2>1, <2>3 DEF Under
<1>2. ASSUME NEW q \in Seq(Nat), Under(q, p)
      PROVE  q \in Above(p)
  <2>1. Len(q) \in 0 .. Len(p) - 1 /\ q = SubSeq(p, 1, Len(q))
    BY <1>2 DEF Under
  <2> QED BY <2>1, Zenon DEF Above
<1> QED BY <1>1, <1>2, Zenon DEF Above

LEMMA NatSeq == ASSUME NEW p \in Seq(Nat) PROVE IsSeq(p)
<1>1. DOMAIN p = 1 .. Len(p) /\ p \in [1 .. Len(p) -> Range(p)]
  BY DEF Range
<1> QED BY <1>1 DEF IsSeq

\* What is said of a sequence with one index more.
LEMMA OneMore ==
  ASSUME NEW p \in Seq(Nat), NEW i \in Nat
  PROVE  /\ Append(p, i) \in Seq(Nat) /\ Len(Append(p, i)) = Len(p) + 1 /\ Append(p, i)[Len(p) + 1] = i
         /\ \A n \in 1 .. Len(p) : Append(p, i)[n] = p[n]
         /\ Append(p, i) # <<>> /\ Front(Append(p, i)) = p /\ Last(Append(p, i)) = i
         /\ SubSeq(Append(p, i), 1, Len(p)) = p
         /\ \A n \in Nat : n <= Len(p) => SubSeq(Append(p, i), 1, n) = SubSeq(p, 1, n)
<1> DEFINE a == Append(p, i)
<1>1. IsSeq(p)
  BY NatSeq
<1>2. /\ Len(a) = Len(p) + 1 /\ a[Len(p) + 1] = i /\ a # <<>> /\ Front(a) = p /\ Last(a) = i
      /\ \A n \in DOMAIN p : a[n] = p[n]
  BY <1>1, AppendSeq
<1>3. a \in Seq(Nat) /\ DOMAIN p = 1 .. Len(p) /\ Len(p) \in Nat
  OBVIOUS
<1> HIDE DEF a
<1>4. ASSUME NEW n \in Nat, n <= Len(p) PROVE SubSeq(a, 1, n) = SubSeq(p, 1, n)
  <2> DEFINE x == SubSeq(a, 1, n)
             y == SubSeq(p, 1, n)
  <2>1. n <= Len(a)
    BY <1>2, <1>3, <1>4
  <2>2. Begins(x, a, n) /\ Begins(y, p, n)
    BY <1>3, <1>4, <2>1, FirstPart, Zenon
  <2> HIDE DEF x, y
  <2>3. ASSUME NEW k \in 1 .. n PROVE a[k] = p[k]
    <3>1. k \in DOMAIN p
      BY <1>3, <1>4
    <3> QED BY <1>2, <3>1
  <2>4. \A k \in 1 .. n : x[k] = y[k]
    BY <2>2, <2>3 DEF Begins
  <2>5. x = y
    BY <2>2, <2>4, SameSeq DEF Begins
  <2> QED BY <2>5 DEF x, y
<1>5. SubSeq(a, 1, Len(p)) = p
  BY <1>2, <1>3 DEF Front
<1> QED BY <1>2, <1>3, <1>4, <1>5 DEF a

\* A sequence that is not empty has a first part and a last index.
LEMMA OneLess ==
  ASSUME NEW p \in Seq(Nat), p # <<>>
  PROVE  /\ Front(p) \in Seq(Nat) /\ Last(p) \in Nat /\ Append(Front(p), Last(p)) = p
         /\ Len(p) \in Nat \ {0} /\ Len(Front(p)) = Len(p) - 1
<1> DEFINE n == Len(p) - 1
           f == Front(p)
           i == Last(p)
<1>1. n \in Nat /\ n <= Len(p) /\ Len(p) \in Nat \ {0} /\ Len(p) = n + 1 /\ i = p[n + 1] /\ i \in Nat
  BY DEF Last
<1>2. Begins(f, p, n)
  BY <1>1, FirstPart, Zenon DEF Front, n
<1> HIDE DEF f, i, n
<1>3. f \in Seq(Nat) /\ Len(f) = n /\ \A k \in 1 .. n : f[k] = p[k]
  BY <1>2 DEF Begins
<1> DEFINE a == Append(f, i)
<1>4. a \in Seq(Nat) /\ Len(a) = n + 1 /\ a[n + 1] = i /\ \A k \in 1 .. n : a[k] = f[k]
  BY <1>1, <1>3, OneMore
<1> HIDE DEF a
<1>5. \A k \in 1 .. n + 1 : a[k] = p[k]
  BY <1>1, <1>3, <1>4
<1>6. a = p
  BY <1>1, <1>4, <1>5, SameSeq
<1> QED BY <1>1, <1>3, <1>6 DEF a, f, i, n

-----------------------------------------------------------------------------
(* Paths *)

LEMMA PathSeq ==
  ASSUME NEW type, NEW p \in PathsIn(type)
  PROVE  /\ p \in Seq(Nat) /\ p # <<>> /\ Len(p) <= MaxDepth /\ \A n \in 1 .. Len(p) : p[n] \in 1 .. MaxMembers
         /\ \A n \in 1 .. Len(p) : p[n] \in DOMAIN MembersIn(type, SubSeq(p, 1, n - 1))
<1>1. /\ p \in SeqOf(1 .. MaxMembers, MaxDepth) /\ p # <<>>
      /\ \A n \in 1 .. Len(p) : p[n] \in DOMAIN MembersIn(type, SubSeq(p, 1, n - 1))
  BY DEF PathsIn
<1>2. PICK m \in 0 .. MaxDepth : p \in [1 .. m -> 1 .. MaxMembers]
  BY <1>1 DEF SeqOf
<1>3. m \in Nat /\ p \in Seq(1 .. MaxMembers) /\ Len(p) = m
  BY <1>2, ShapesAssumption
<1>4. p \in Seq(Nat)
  <2>1. \A n \in 1 .. m : p[n] \in Nat
    BY <1>2, ShapesAssumption
  <2>2. p \in [1 .. m -> Nat]
    BY <1>2, <2>1
  <2> QED BY <1>3, <2>2
<1> QED BY <1>1, <1>2, <1>3, <1>4, ShapesAssumption

\* What is at a place of a type.
PlaceIn(type, p) == p = <<>> \/ p \in PathsIn(type)

LEMMA PlaceSeq ==
  ASSUME NEW type, NEW p, PlaceIn(type, p)
  PROVE  p \in Seq(Nat) /\ IsSeq(p) /\ Len(p) <= MaxDepth
<1>1. CASE p = <<>>
  BY <1>1, ShortSeq, ShapesAssumption
<1>2. CASE p \in PathsIn(type)
  BY <1>2, PathSeq, NatSeq
<1> QED BY <1>1, <1>2 DEF PlaceIn

\* Members one index further.
LEMMA MemberOn ==
  ASSUME NEW type, NEW p \in Seq(Nat), NEW i \in Nat
  PROVE  /\ MemberIn(type, Append(p, i)) = MembersIn(type, p)[i]
         /\ MembersIn(type, Append(p, i)) = MemberIn(type, Append(p, i)).members
<1>1. IsSeq(p)
  BY NatSeq
<1>2. Front(Append(p, i)) = p /\ Last(Append(p, i)) = i
  BY OneMore
<1>3. MembersIn(type, Append(p, i)) = MembersIn(type, p)[i].members
  <2>1. \A q, j : IsSeq(q) => MembersIn(type, Append(q, j)) = MembersIn(type, q)[j].members
    BY MembersStep
  <2> QED BY <1>1, <2>1, Zenon
<1> QED BY <1>2, <1>3, Zenon DEF MemberIn

\* The way to a path goes from place to place.
LEMMA PathBack ==
  ASSUME NEW type, NEW p \in PathsIn(type)
  PROVE  PlaceIn(type, Front(p)) /\ Last(p) \in DOMAIN MembersIn(type, Front(p))
<1>1. /\ p \in Seq(Nat) /\ p # <<>> /\ Len(p) <= MaxDepth /\ \A n \in 1 .. Len(p) : p[n] \in 1 .. MaxMembers
      /\ \A n \in 1 .. Len(p) : p[n] \in DOMAIN MembersIn(type, SubSeq(p, 1, n - 1))
  BY PathSeq
<1> DEFINE f == Front(p)
           i == Last(p)
<1>2. f \in Seq(Nat) /\ i \in Nat /\ Append(f, i) = p /\ Len(p) \in Nat \ {0} /\ Len(f) = Len(p) - 1
  BY <1>1, OneLess
<1>3. i = p[Len(p)] /\ f = SubSeq(p, 1, Len(p) - 1)
  BY <1>1 DEF Last, Front
<1> HIDE DEF f, i
<1>4. i \in DOMAIN MembersIn(type, f)
  <2>1. Len(p) \in 1 .. Len(p)
    BY <1>2
  <2> QED BY <1>1, <1>3, <2>1, Zenon
<1>5. \A n \in Nat : n <= Len(f) => SubSeq(p, 1, n) = SubSeq(f, 1, n)
  <2>1. \A n \in Nat : n <= Len(f) => SubSeq(Append(f, i), 1, n) = SubSeq(f, 1, n)
    <3>1. f \in Seq(Nat) /\ i \in Nat
      BY <1>2
    <3> QED BY <3>1, OneMore, Zenon
  <2> QED BY <1>2, <2>1, Zenon
<1>6. ASSUME f # <<>> PROVE f \in PathsIn(type)
  <2>1. \A n \in 1 .. Len(f) : f[n] = p[n]
    BY <1>2, OneMore
  <2>2. ASSUME NEW n \in 1 .. Len(f) PROVE f[n] \in DOMAIN MembersIn(type, SubSeq(f, 1, n - 1))
    <3>1. n \in 1 .. Len(p) /\ n - 1 \in Nat /\ n - 1 <= Len(f)
      BY <1>2
    <3>2. SubSeq(p, 1, n - 1) = SubSeq(f, 1, n - 1)
      BY <1>5, <3>1, Zenon
    <3> QED BY <1>1, <2>1, <3>1, <3>2, Zenon
  <2>3. f \in SeqOf(1 .. MaxMembers, MaxDepth)
    <3>1. \A n \in 1 .. Len(f) : f[n] \in 1 .. MaxMembers
      BY <1>1, <1>2, <2>1, SMTT(30)
    <3>2. f \in [1 .. Len(f) -> 1 .. MaxMembers]
      BY <1>2, <3>1, SMTT(30)
    <3>3. Len(f) \in 0 .. MaxDepth
      BY <1>1, <1>2, ShapesAssumption
    <3> QED BY <3>2, <3>3 DEF SeqOf
  <2> QED BY <1>6, <2>2, <2>3 DEF PathsIn
<1> QED BY <1>4, <1>6 DEF PlaceIn, f, i

\* An index of a place leads to a path.
LEMMA PathOn ==
  ASSUME NEW type, IsType(type), NEW p, PlaceIn(type, p), NEW i \in DOMAIN MembersIn(type, p)
  PROVE  Append(p, i) \in PathsIn(type) /\ i \in Nat
<1>1. p \in Seq(Nat) /\ IsSeq(p)
  BY PlaceSeq
<1>2. IsMembers(MembersIn(type, p)) /\ Len(p) < MaxDepth
  <2>1. CASE p = <<>>
    BY <2>1, MembersStep, ShapesAssumption DEF IsType
  <2>2. CASE p \in PathsIn(type)
    <3>1. Front(p) \in Seq(Nat) /\ Last(p) \in Nat /\ Append(Front(p), Last(p)) = p
      BY <2>2, PathSeq, OneLess
    <3>2. MembersIn(type, p) = MemberIn(type, p).members
      BY <3>1, MemberOn
    <3>3. IsMember(MemberIn(type, p)) /\ (MemberIn(type, p).members # <<>> => Len(p) < MaxDepth)
      BY <2>2 DEF IsType
    <3>4. DOMAIN MembersIn(type, p) # {}
      OBVIOUS
    <3>5. MembersIn(type, p) # <<>>
      BY <3>4
    <3> QED BY <3>2, <3>3, <3>5 DEF IsMember
  <2> QED BY <2>1, <2>2 DEF PlaceIn
<1>3. i \in 1 .. MaxMembers
  <2> DEFINE ms == MembersIn(type, p)
  <2>1. ms \in Seq(Range(ms)) /\ Len(ms) <= MaxMembers /\ i \in DOMAIN ms
    BY <1>2 DEF IsMembers
  <2> HIDE DEF ms
  <2> QED BY <2>1, ShapesAssumption
<1> DEFINE a == Append(p, i)
           n == Len(p)
<1>4. /\ a \in Seq(Nat) /\ Len(a) = n + 1 /\ a[n + 1] = i /\ a # <<>>
      /\ \A k \in 1 .. n : a[k] = p[k]
      /\ SubSeq(a, 1, n) = p
      /\ \A k \in Nat : k <= n => SubSeq(a, 1, k) = SubSeq(p, 1, k)
  BY <1>1, <1>3, OneMore
<1>5. /\ n \in Nat
      /\ \A k \in 1 .. n : p[k] \in 1 .. MaxMembers /\ p[k] \in DOMAIN MembersIn(type, SubSeq(p, 1, k - 1))
  <2>1. CASE p = <<>>
    BY <2>1
  <2>2. CASE p \in PathsIn(type)
    BY <1>1, <2>2, PathSeq
  <2> QED BY <2>1, <2>2 DEF PlaceIn
<1> HIDE DEF a, n
<1>6. ASSUME NEW k \in 1 .. n + 1 PROVE a[k] \in DOMAIN MembersIn(type, SubSeq(a, 1, k - 1))
  <2>1. CASE k = n + 1
    <3>1. k - 1 = n
      BY <1>5, <2>1
    <3> QED BY <1>4, <2>1, <3>1, Zenon
  <2>2. CASE k # n + 1
    <3>1. k \in 1 .. n /\ k - 1 \in Nat /\ k - 1 <= n
      BY <1>5, <2>2
    <3>2. SubSeq(a, 1, k - 1) = SubSeq(p, 1, k - 1) /\ a[k] = p[k]
      BY <1>4, <3>1, Zenon
    <3> QED BY <1>5, <3>1, <3>2, Zenon
  <2> QED BY <2>1, <2>2
<1>7. a \in SeqOf(1 .. MaxMembers, MaxDepth)
  <2>1. ASSUME NEW k \in 1 .. n + 1 PROVE a[k] \in 1 .. MaxMembers
    <3>1. k = n + 1 \/ k \in 1 .. n
      BY <1>5
    <3> QED BY <1>3, <1>4, <1>5, <3>1, Zenon
  <2>2. a \in [1 .. n + 1 -> 1 .. MaxMembers]
    BY <1>4, <2>1
  <2>3. n + 1 \in 0 .. MaxDepth
    BY <1>2, <1>5, ShapesAssumption DEF n
  <2> QED BY <2>2, <2>3 DEF SeqOf
<1>8. a \in PathsIn(type)
  BY <1>4, <1>6, <1>7, Zenon DEF PathsIn
<1> QED BY <1>3, <1>8 DEF a

-----------------------------------------------------------------------------
(* Where the generators are *)

KindIn(type, p) == IF p = <<>> THEN type.kind ELSE MemberIn(type, p).kind
LeavesIn(type)  == {p \in PathsIn(type) : MemberIn(type, p).kind \in {"plain", "enum"}}

\* The frames are those of the types around the next member, each of which has
\* been advanced when the next was put on it.
NestedIn(type, fs) ==
  \A k \in DOMAIN fs :
    /\ PlaceIn(type, fs[k].path) /\ Len(fs[k].path) = k - 1
    /\ fs[k].next \in 1 .. Len(MembersIn(type, fs[k].path)) + 1
    /\ fs[k].by = KindIn(type, fs[k].path) /\ fs[k].by \in {"struct", "union"}
    /\ \A j \in DOMAIN fs : k < j => Under(fs[k].path, fs[j].path) /\ fs[j].path[k] = fs[k].next - 1

\* What a statement is made for.
SoundIn(type, s) ==
  \/ s.of = <<>> /\ s.op \in {"draw", "assign"} /\ s.guard = <<>>
  \/ /\ s.of \in LeavesIn(type) /\ s.op \in {"copy", "assign", "call"}
     /\ s.op = "call" => KindIn(type, s.of) = "plain"
     /\ s.op = "call" /\ MemberIn(type, s.of).bits => KindIn(type, Front(s.of)) = "union"
     /\ s.guard # <<>> => s.op = "call"

AllSound(type, b) == \A i \in DOMAIN b : SoundIn(type, b[i])

\* No statement is for a member that the generators have not come to, ...
Behind(fs, b) ==
  \A i \in DOMAIN b : \A k \in DOMAIN fs : Under(fs[k].path, b[i].of) => b[i].of[k] < fs[k].next

\* ... each leaf that they have passed has one, ...
Covered(b, p) == \E i \in DOMAIN b : b[i].of = p

Passed(fs, p) ==
  \E k \in DOMAIN fs :
    /\ Under(fs[k].path, p) /\ p[k] < fs[k].next
    /\ k < Len(fs) => p[k] < fs[k].next - 1

Complete(type, fs, b) == \A p \in LeavesIn(type) : fs = <<>> \/ Passed(fs, p) => Covered(b, p)

\* ... and no other.
Single(b) == \A i, j \in DOMAIN b : b[i].of = b[j].of /\ b[i].of # <<>> => i = j

\* The generators fs have come to the member m, whose path is p.
Comes(type, fs, n, p, m) ==
  /\ n = Len(fs) /\ n \in Nat \ {0} /\ DOMAIN fs = 1 .. n
  /\ fs[n].path \in Seq(Nat) /\ PlaceIn(type, fs[n].path)
  /\ fs[n].next \in Nat \ {0} /\ fs[n].next \in DOMAIN MembersIn(type, fs[n].path)
  /\ fs[n].next <= Len(MembersIn(type, fs[n].path))
  /\ p = Append(fs[n].path, fs[n].next) /\ p \in PathsIn(type) /\ p \in Seq(Nat)
  /\ Len(p) = n /\ p[n] = fs[n].next /\ Front(p) = fs[n].path
  /\ m = MemberIn(type, p) /\ m = MembersIn(type, fs[n].path)[fs[n].next] /\ IsMember(m)
  /\ KindIn(type, p) = m.kind /\ MembersIn(type, p) = m.members
  /\ \A k \in 1 .. n : Under(fs[k].path, p) /\ fs[k].path \in Seq(Nat)
  /\ \A k \in 1 .. n : k < n => p[k] = fs[k].next - 1

\* The last of the generators fs goes on.
GoneOn(fs, gs, n) ==
  /\ IsSeq(gs) /\ Len(gs) = n /\ DOMAIN gs = 1 .. n /\ \A k \in 1 .. n : k < n => gs[k] = fs[k]
  /\ gs[n].path = fs[n].path /\ gs[n].by = fs[n].by /\ gs[n].ref = fs[n].ref
  /\ gs[n].next = fs[n].next + 1

\* One more is put on top.
PutOn(gs, hs, n, f) ==
  /\ IsSeq(hs) /\ Len(hs) = n + 1 /\ DOMAIN hs = 1 .. n + 1
  /\ \A k \in 1 .. n : hs[k] = gs[k]
  /\ hs[n + 1] = f

LEMMA UnderOn ==
  ASSUME NEW p \in Seq(Nat), NEW i \in Nat, NEW q \in Seq(Nat)
  PROVE  /\ Under(q, p) => Under(q, Append(p, i)) /\ \A k \in 1 .. Len(p) : Append(p, i)[k] = p[k]
         /\ Under(p, Append(p, i))
         /\ Under(q, Append(p, i)) => Under(q, p) \/ q = p
<1> DEFINE a == Append(p, i)
<1>1. a \in Seq(Nat) /\ Len(a) = Len(p) + 1 /\ \A k \in 1 .. Len(p) : a[k] = p[k]
  BY OneMore
<1> HIDE DEF a
<1>2. Under(p, a)
  <2>1. Under(p, a) <=> Len(p) < Len(a) /\ \A n \in 1 .. Len(p) : a[n] = p[n]
    BY <1>1, UnderMeans, Zenon
  <2> QED BY <1>1, <2>1
<1>3. Under(q, p) => Under(q, a)
  <2>1. /\ Under(q, a) <=> Len(q) < Len(a) /\ \A n \in 1 .. Len(q) : a[n] = q[n]
        /\ Under(q, p) <=> Len(q) < Len(p) /\ \A n \in 1 .. Len(q) : p[n] = q[n]
    BY <1>1, UnderMeans, Zenon
  <2> QED BY <1>1, <2>1
<1>4. Under(q, a) => Under(q, p) \/ q = p
  <2> SUFFICES ASSUME Under(q, a), ~Under(q, p) PROVE q = p
    OBVIOUS
  <2>1. Len(q) < Len(a) /\ \A k \in 1 .. Len(q) : a[k] = q[k]
    BY <1>1, UnderMeans
  <2>2. Len(q) <= Len(p) /\ \A k \in 1 .. Len(q) : p[k] = q[k]
    <3>1. Len(q) \in Nat /\ Len(p) \in Nat
      OBVIOUS
    <3>2. Len(q) <= Len(p) /\ \A k \in 1 .. Len(q) : k \in 1 .. Len(p)
      BY <1>1, <2>1, <3>1
    <3> QED BY <1>1, <2>1, <3>2, Zenon
  <2>3. Len(q) = Len(p)
    <3>1. Under(q, p) <=> Len(q) < Len(p) /\ \A n \in 1 .. Len(q) : p[n] = q[n]
      BY UnderMeans, Zenon
    <3> QED BY <2>2, <3>1
  <2> QED BY <2>2, <2>3, SameSeq
<1> QED BY <1>1, <1>2, <1>3, <1>4 DEF a

LEMMA ComesTo ==
  ASSUME NEW type, IsType(type), NEW fs, IsSeq(fs), fs # <<>>, NestedIn(type, fs),
         NEW top, top = Last(fs), top.next <= Len(MembersIn(type, top.path))
  PROVE  Comes(type, fs, Len(fs), Append(top.path, top.next),
               MembersIn(type, top.path)[top.next])
<1> DEFINE n == Len(fs)
           t == top.path
           i == top.next
           p == Append(t, i)
           m == MembersIn(type, t)[i]
<1>1. n \in Nat \ {0} /\ DOMAIN fs = 1 .. n /\ n \in DOMAIN fs
  BY DEF IsSeq
<1>2. top = fs[n]
  BY DEF Last
<1>0. n = Len(fs)
  OBVIOUS
<1> HIDE DEF n, p, m
<1>3. PlaceIn(type, t) /\ Len(t) = n - 1 /\ i \in 1 .. Len(MembersIn(type, t)) + 1
  BY <1>1, <1>2 DEF NestedIn
<1>4. t \in Seq(Nat) /\ IsMembers(MembersIn(type, t))
  <2>1. CASE t = <<>>
    BY <1>3, <2>1, MembersStep, PlaceSeq DEF IsType
  <2>2. CASE t \in PathsIn(type)
    <3>1. Front(t) \in Seq(Nat) /\ Last(t) \in Nat /\ Append(Front(t), Last(t)) = t
      BY <2>2, PathSeq, OneLess
    <3>2. MembersIn(type, t) = MemberIn(type, t).members
      BY <3>1, MemberOn, ZenonT(60)
    <3>3. IsMember(MemberIn(type, t))
      BY <2>2 DEF IsType
    <3> QED BY <2>2, <3>2, <3>3, PathSeq DEF IsMember
  <2> QED BY <1>3, <2>1, <2>2 DEF PlaceIn
<1>5. i \in DOMAIN MembersIn(type, t) /\ i \in Nat \ {0}
  <2> DEFINE ms == MembersIn(type, t)
  <2>1. ms \in Seq(Range(ms)) /\ i <= Len(ms) /\ i \in 1 .. Len(ms) + 1
    BY <1>3, <1>4 DEF IsMembers
  <2> HIDE DEF ms
  <2> QED BY <2>1
<1>6. p \in PathsIn(type)
  BY <1>3, <1>5, PathOn DEF p
<1>7. p \in Seq(Nat) /\ Len(p) = n /\ p[n] = i /\ Front(p) = t
  <2>1. p \in Seq(Nat) /\ Len(p) = Len(t) + 1 /\ p[Len(t) + 1] = i /\ Front(p) = t
    BY <1>4, <1>5, OneMore DEF p
  <2>2. Len(t) + 1 = n
    BY <1>1, <1>3
  <2> QED BY <2>1, <2>2
<1>8. m = MemberIn(type, p) /\ MembersIn(type, p) = m.members
  BY <1>4, <1>5, MemberOn DEF p, m
<1>9. IsMember(m) /\ KindIn(type, p) = m.kind
  <2>1. p # <<>>
    BY <1>6, PathSeq
  <2> QED BY <1>6, <1>8, <2>1, Zenon DEF IsType, KindIn
<1>10. ASSUME NEW k \in 1 .. n
       PROVE  Under(fs[k].path, p) /\ fs[k].path \in Seq(Nat) /\ (k < n => p[k] = fs[k].next - 1)
  <2>1. fs[k].path \in Seq(Nat)
    <3>1. PlaceIn(type, fs[k].path)
      BY <1>1 DEF NestedIn
    <3> QED BY <3>1, PlaceSeq
  <2>2. CASE k = n
    BY <1>2, <1>4, <1>5, <2>1, <2>2, UnderOn DEF p
  <2>3. CASE k < n
    <3>1. Under(fs[k].path, t) /\ t[k] = fs[k].next - 1
      BY <1>1, <1>2, <2>3 DEF NestedIn
    <3>2. Under(fs[k].path, p)
      BY <1>4, <1>5, <2>1, <3>1, UnderOn DEF p
    <3>3. k \in 1 .. Len(t)
      BY <1>1, <1>3, <2>3
    <3>4. p[k] = t[k]
      BY <1>4, <1>5, <3>3, OneMore DEF p
    <3> QED BY <2>1, <2>3, <3>1, <3>2, <3>4
  <2>4. k = n \/ k < n
    BY <1>1
  <2> QED BY <2>1, <2>2, <2>3, <2>4
<1> QED BY <1>0, <1>1, <1>2, <1>3, <1>4, <1>5, <1>6, <1>7, <1>8, <1>9, <1>10 DEF Comes, n, p, m

\* A statement is added.
Grown(b, c, s) ==
  /\ Len(b) \in Nat /\ DOMAIN b = 1 .. Len(b) /\ DOMAIN c = 1 .. Len(b) + 1
  /\ \A i \in 1 .. Len(b) : c[i] = b[i]
  /\ c[Len(b) + 1] = s

Nest(type, fs, b) ==
  NestedIn(type, fs) /\ AllSound(type, b) /\ Behind(fs, b) /\ Complete(type, fs, b) /\ Single(b)

LEMMA GoesOn ==
  ASSUME NEW fs, IsSeq(fs), fs # <<>>, \A k \in DOMAIN fs : IsFrame(fs[k])
  PROVE  GoneOn(fs, [fs EXCEPT ![Len(fs)].next = @ + 1], Len(fs))
<1> DEFINE n == Len(fs)
           gs == [fs EXCEPT ![n].next = @ + 1]
<1>1. n \in Nat \ {0} /\ DOMAIN fs = 1 .. n /\ n \in DOMAIN fs /\ IsFrame(fs[n])
  BY DEF IsSeq
<1>2. fs[n] = [by |-> fs[n].by, path |-> fs[n].path, next |-> fs[n].next, ref |-> fs[n].ref]
  BY <1>1 DEF IsFrame
<1>3. DOMAIN gs = 1 .. n /\ \A k \in 1 .. n : k < n => gs[k] = fs[k]
  BY <1>1
<1>4. gs[n] = [fs[n] EXCEPT !.next = @ + 1]
  BY <1>1
<1>5. gs[n] = [by |-> fs[n].by, path |-> fs[n].path, next |-> fs[n].next + 1, ref |-> fs[n].ref]
  BY <1>2, <1>4
<1>6. IsSeq(gs) /\ Len(gs) = n
  <2>1. gs = [k \in 1 .. n |-> gs[k]]
    BY <1>1
  <2> HIDE DEF gs, n
  <2>2. \A k \in 1 .. n : gs[k] \in Range(gs)
    BY <1>3 DEF Range
  <2>3. gs \in [1 .. n -> Range(gs)]
    BY <2>1, <2>2
  <2>4. gs \in Seq(Range(gs)) /\ Len(gs) = n
    BY <1>1, <2>3
  <2> QED BY <2>4 DEF IsSeq
<1> HIDE DEF gs
<1> QED BY <1>3, <1>5, <1>6 DEF GoneOn, gs

LEMMA PutsOn ==
  ASSUME NEW gs, IsSeq(gs), NEW f
  PROVE  PutOn(gs, Append(gs, f), Len(gs), f)
<1> DEFINE a == Append(gs, f)
<1>1. /\ Len(gs) \in Nat /\ DOMAIN gs = 1 .. Len(gs) /\ IsSeq(a) /\ Len(a) = Len(gs) + 1
      /\ DOMAIN a = 1 .. Len(gs) + 1 /\ \A i \in DOMAIN gs : a[i] = gs[i]
      /\ a[Len(gs) + 1] = f
  BY AppendSeq
<1> HIDE DEF a
<1> QED BY <1>1 DEF PutOn, a

LEMMA GrownBy == ASSUME NEW b, IsSeq(b), NEW s PROVE Grown(b, Append(b, s), s)
<1> DEFINE a == Append(b, s)
<1>1. /\ Len(b) \in Nat /\ DOMAIN b = 1 .. Len(b) /\ DOMAIN a = 1 .. Len(b) + 1
      /\ \A i \in DOMAIN b : a[i] = b[i]
      /\ a[Len(b) + 1] = s
  BY AppendSeq
<1> HIDE DEF a
<1> QED BY <1>1 DEF Grown, a

\* Where a path goes below a place, the place has an index.
LEMMA LeafIndex ==
  ASSUME NEW type, NEW p \in PathsIn(type), NEW q \in Seq(Nat), Under(q, p)
  PROVE  p \in Seq(Nat) /\ Len(q) + 1 \in 1 .. Len(p) /\ p[Len(q) + 1] \in Nat
<1>1. p \in Seq(Nat)
  BY PathSeq
<1>2. Len(q) < Len(p)
  BY DEF Under
<1> QED BY <1>1, <1>2

LEMMA NestedOn ==
  ASSUME NEW type, NEW fs, NEW gs, NEW n, NEW p, NEW m, Comes(type, fs, n, p, m),
         NestedIn(type, fs), GoneOn(fs, gs, n)
  PROVE  NestedIn(type, gs)
<1>1. n \in Nat \ {0} /\ DOMAIN fs = 1 .. n /\ DOMAIN gs = 1 .. n
  BY DEF Comes, GoneOn
<1>2. ASSUME NEW k \in 1 .. n PROVE gs[k].path = fs[k].path /\ gs[k].by = fs[k].by
  BY <1>1 DEF GoneOn
<1>3. ASSUME NEW k \in 1 .. n
      PROVE  /\ gs[k].next \in 1 .. Len(MembersIn(type, gs[k].path)) + 1
             /\ k < n => gs[k].next = fs[k].next
  <2>1. CASE k = n
    <3>1. gs[n].next = fs[n].next + 1 /\ fs[n].next <= Len(MembersIn(type, fs[n].path)) /\ fs[n].next \in Nat
      BY DEF Comes, GoneOn
    <3>2. fs[n].next \in 1 .. Len(MembersIn(type, fs[n].path)) + 1
      BY <1>1 DEF NestedIn
    <3>3. gs[n].path = fs[n].path
      BY <1>2, <2>1
    <3> QED BY <2>1, <3>1, <3>2, <3>3
  <2>2. CASE k # n
    <3>1. gs[k] = fs[k]
      BY <1>1, <2>2 DEF GoneOn
    <3> QED BY <1>1, <3>1 DEF NestedIn
  <2> QED BY <2>1, <2>2
<1>4. ASSUME NEW k \in 1 .. n, NEW j \in 1 .. n, k < j
      PROVE  Under(gs[k].path, gs[j].path) /\ gs[j].path[k] = gs[k].next - 1
  <2>1. k < n
    BY <1>1, <1>4
  <2>2. Under(fs[k].path, fs[j].path) /\ fs[j].path[k] = fs[k].next - 1
    BY <1>1, <1>4 DEF NestedIn
  <2> QED BY <1>2, <1>3, <2>1, <2>2
<1> QED BY <1>1, <1>2, <1>3, <1>4 DEF NestedIn

LEMMA NestedDown ==
  ASSUME NEW type, NEW fs, NEW gs, NEW hs, NEW n, NEW p, NEW m, NEW f,
         Comes(type, fs, n, p, m), NestedIn(type, fs), GoneOn(fs, gs, n), PutOn(gs, hs, n, f),
         f.path = p, f.next = 1, f.by = m.kind, m.kind \in {"struct", "union"}
  PROVE  NestedIn(type, hs)
<1>1. n \in Nat \ {0} /\ DOMAIN fs = 1 .. n /\ DOMAIN gs = 1 .. n /\ DOMAIN hs = 1 .. n + 1
      /\ n + 1 \in 1 .. n + 1
  BY DEF Comes, GoneOn, PutOn
<1>2. NestedIn(type, gs)
  BY NestedOn
<1>3. hs[n + 1] = f /\ \A k \in 1 .. n : hs[k] = gs[k] /\ gs[k].path = fs[k].path
  BY <1>1 DEF GoneOn, PutOn
<1>4. /\ PlaceIn(type, p) /\ Len(p) = n /\ KindIn(type, p) = m.kind
      /\ 1 \in 1 .. Len(MembersIn(type, p)) + 1
  <2>1. IsMember(m) /\ MembersIn(type, p) = m.members
    BY DEF Comes
  <2>2. Len(m.members) \in Nat
    BY <2>1 DEF IsMember, IsMembers
  <2>3. p \in PathsIn(type) /\ Len(p) = n /\ KindIn(type, p) = m.kind
    BY Zenon DEF Comes
  <2>4. PlaceIn(type, p)
    BY <2>3, Zenon DEF PlaceIn
  <2>5. 1 \in 1 .. Len(MembersIn(type, p)) + 1
    BY <2>1, <2>2
  <2> QED BY <2>3, <2>4, <2>5
<1>5. ASSUME NEW k \in 1 .. n PROVE Under(hs[k].path, p) /\ p[k] = hs[k].next - 1
  <2>1. Under(hs[k].path, p)
    BY <1>3 DEF Comes
  <2>2. CASE k = n
    <3>1. p[n] = fs[n].next /\ gs[n].next = fs[n].next + 1 /\ fs[n].next \in Nat
      BY DEF Comes, GoneOn
    <3>2. p[n] = gs[n].next - 1
      BY <3>1
    <3> QED BY <1>3, <2>1, <2>2, <3>2
  <2>3. CASE k # n
    <3>1. k < n
      BY <1>1, <2>3
    <3>2. p[k] = fs[k].next - 1 /\ gs[k] = fs[k]
      BY <3>1 DEF Comes, GoneOn
    <3> QED BY <1>3, <2>1, <3>2
  <2> QED BY <2>2, <2>3
<1>6. ASSUME NEW k \in 1 .. n + 1
      PROVE  /\ PlaceIn(type, hs[k].path) /\ Len(hs[k].path) = k - 1
             /\ hs[k].next \in 1 .. Len(MembersIn(type, hs[k].path)) + 1
             /\ hs[k].by = KindIn(type, hs[k].path) /\ hs[k].by \in {"struct", "union"}
  <2>1. CASE k = n + 1
    <3>1. n = k - 1
      BY <1>1, <2>1
    <3> QED BY <1>3, <1>4, <2>1, <3>1
  <2>2. CASE k # n + 1
    <3>1. k \in 1 .. n
      BY <1>1, <2>2
    <3>2. hs[k] = gs[k] /\ k \in DOMAIN gs
      BY <1>1, <1>3, <3>1
    <3> QED BY <1>2, <3>2 DEF NestedIn
  <2> QED BY <2>1, <2>2
<1>7. ASSUME NEW k \in 1 .. n + 1, NEW j \in 1 .. n + 1, k < j
      PROVE  Under(hs[k].path, hs[j].path) /\ hs[j].path[k] = hs[k].next - 1
  <2>1. k \in 1 .. n
    BY <1>1, <1>7
  <2>2. CASE j = n + 1
    BY <1>3, <1>5, <2>1, <2>2
  <2>3. CASE j # n + 1
    <3>1. j \in 1 .. n
      BY <1>1, <2>3
    <3>2. hs[k] = gs[k] /\ hs[j] = gs[j]
      BY <1>3, <2>1, <3>1
    <3>3. Under(gs[k].path, gs[j].path) /\ gs[j].path[k] = gs[k].next - 1
      BY <1>1, <1>2, <1>7, <2>1, <3>1 DEF NestedIn
    <3> QED BY <3>2, <3>3
  <2> QED BY <2>2, <2>3
<1> QED BY <1>1, <1>6, <1>7 DEF NestedIn

LEMMA SoundOf ==
  ASSUME NEW type, NEW b, AllSound(type, b), NEW i \in DOMAIN b
  PROVE  /\ b[i].of \in Seq(Nat)
         /\ b[i].of # <<>> => b[i].of \in LeavesIn(type) /\ b[i].of \in PathsIn(type)
<1>1. SoundIn(type, b[i])
  BY DEF AllSound
<1>2. b[i].of = <<>> \/ b[i].of \in LeavesIn(type)
  BY <1>1 DEF SoundIn
<1> DEFINE o == b[i].of
<1> HIDE DEF o
<1>3. o \in LeavesIn(type) => o \in PathsIn(type)
  BY DEF LeavesIn
<1>4. o \in PathsIn(type) => o \in Seq(Nat)
  BY PathSeq
<1>5. o = <<>> => o \in Seq(Nat)
  OBVIOUS
<1> QED BY <1>2, <1>3, <1>4, <1>5 DEF o

\* No statement is for what the generators come to, or for what is in it.
LEMMA NoneYet ==
  ASSUME NEW type, NEW fs, NEW b, NEW n, NEW p, NEW m, Comes(type, fs, n, p, m),
         AllSound(type, b), Behind(fs, b), NEW i \in DOMAIN b
  PROVE  b[i].of # p /\ ~Under(p, b[i].of)
<1> DEFINE o == b[i].of
           t == fs[n].path
<1>1. /\ n \in DOMAIN fs /\ n \in Nat \ {0} /\ t \in Seq(Nat) /\ p \in Seq(Nat) /\ Len(p) = n
      /\ p[n] = fs[n].next /\ Under(t, p) /\ fs[n].next \in Nat
  BY DEF Comes
<1>2. o \in Seq(Nat)
  BY SoundOf
<1>3. ASSUME Under(t, o) PROVE o[n] < fs[n].next
  BY <1>1, <1>3 DEF Behind
<1> HIDE DEF o, t
<1>4. o # p
  <2> SUFFICES ASSUME o = p PROVE FALSE
    OBVIOUS
  <2> QED BY <1>1, <1>3
<1>5. ~Under(p, o)
  <2> SUFFICES ASSUME Under(p, o) PROVE FALSE
    OBVIOUS
  <2>1. Len(p) < Len(o) /\ \A k \in 1 .. Len(p) : o[k] = p[k]
    BY <1>1, <1>2, UnderMeans, Zenon
  <2>2. Len(t) < Len(p) /\ \A k \in 1 .. Len(t) : p[k] = t[k]
    BY <1>1, UnderMeans, Zenon
  <2>3. Len(t) < Len(o) /\ \A k \in 1 .. Len(t) : o[k] = t[k]
    BY <1>1, <1>2, <2>1, <2>2, SMTT(30)
  <2>4. Under(t, o)
    BY <1>1, <1>2, <2>3, UnderMeans, Zenon
  <2>5. o[n] = p[n]
    BY <1>1, <2>1
  <2> QED BY <1>1, <1>3, <2>4, <2>5
<1> QED BY <1>4, <1>5 DEF o

LEMMA BehindOn ==
  ASSUME NEW type, NEW fs, NEW gs, NEW n, NEW p, NEW m, NEW b, Comes(type, fs, n, p, m),
         NestedIn(type, fs), GoneOn(fs, gs, n), AllSound(type, b), Behind(fs, b)
  PROVE  Behind(gs, b)
<1> SUFFICES ASSUME NEW i \in DOMAIN b, NEW k \in DOMAIN gs, Under(gs[k].path, b[i].of)
             PROVE  b[i].of[k] < gs[k].next
  BY DEF Behind
<1>1. k \in 1 .. n /\ k \in DOMAIN fs /\ n \in Nat
  BY DEF Comes, GoneOn
<1>2. CASE k = n
  <2>1. gs[n].path = fs[n].path /\ gs[n].next = fs[n].next + 1 /\ fs[n].next \in Nat /\ fs[n].path \in Seq(Nat)
    BY DEF Comes, GoneOn
  <2>2. b[i].of[n] < fs[n].next
    BY <1>1, <1>2, <2>1 DEF Behind
  <2>3. b[i].of \in Seq(Nat)
    BY SoundOf
  <2>4. b[i].of[n] \in Nat
    <3>1. Len(fs[n].path) = n - 1
      BY <1>1, <1>2 DEF NestedIn
    <3>2. Len(fs[n].path) < Len(b[i].of)
      BY <1>2, <2>1 DEF Under
    <3>3. n \in 1 .. Len(b[i].of)
      BY <1>1, <1>2, <2>3, <3>1, <3>2
    <3> QED BY <2>3, <3>3
  <2> QED BY <1>2, <2>1, <2>2, <2>4
<1>3. CASE k # n
  <2>1. gs[k] = fs[k]
    BY <1>1, <1>3 DEF GoneOn
  <2> QED BY <1>1, <2>1 DEF Behind
<1> QED BY <1>2, <1>3

\* A leaf that is passed when the generators have gone on was passed before, or is the
\* one they had come to.
LEMMA PassedOn ==
  ASSUME NEW type, NEW fs, NEW gs, NEW n, NEW p, NEW m, Comes(type, fs, n, p, m),
         NestedIn(type, fs), GoneOn(fs, gs, n), NEW q \in PathsIn(type), Passed(gs, q)
  PROVE  Passed(fs, q) \/ q = p \/ Under(p, q)
<1>1. /\ n \in Nat \ {0} /\ DOMAIN fs = 1 .. n /\ DOMAIN gs = 1 .. n /\ Len(fs) = n /\ Len(gs) = n
      /\ p = Append(fs[n].path, fs[n].next) /\ fs[n].path \in Seq(Nat) /\ fs[n].next \in Nat
      /\ gs[n].path = fs[n].path /\ gs[n].next = fs[n].next + 1
      /\ p \in Seq(Nat) /\ Len(p) = n /\ p[n] = fs[n].next
  BY DEF Comes, GoneOn
<1>2. PICK k \in 1 .. n :
        /\ Under(gs[k].path, q) /\ q[k] < gs[k].next
        /\ k < n => q[k] < gs[k].next - 1
  BY <1>1 DEF Passed
<1>3. CASE k # n
  <2>1. gs[k] = fs[k] /\ k < n
    BY <1>1, <1>3 DEF GoneOn
  <2> QED BY <1>1, <1>2, <2>1 DEF Passed
<1>4. CASE k = n
  <2> DEFINE t == fs[n].path
  <2>1. q \in Seq(Nat) /\ t \in Seq(Nat) /\ Under(t, q) /\ Len(t) + 1 \in 1 .. Len(q) /\ q[Len(t) + 1] \in Nat
    BY <1>1, <1>2, <1>4, LeafIndex
  <2>2. Len(t) = n - 1
    BY <1>1 DEF NestedIn
  <2> HIDE DEF t
  <2>3. n \in 1 .. Len(q) /\ q[n] \in Nat /\ q[n] < fs[n].next + 1
    BY <1>1, <1>2, <1>4, <2>1, <2>2
  <2>4. CASE q[n] < fs[n].next
    <3>1. Under(fs[n].path, q) /\ n \in DOMAIN fs /\ ~(n < n)
      BY <1>1, <2>1 DEF t
    <3> QED BY <1>1, <2>4, <3>1 DEF Passed
  <2>5. CASE q[n] = fs[n].next
    <3>1. \A j \in 1 .. Len(t) : q[j] = t[j]
      BY <2>1, UnderMeans, Zenon
    <3>2. \A j \in 1 .. Len(t) : p[j] = t[j]
      BY <1>1, <2>1, OneMore DEF t
    <3>3. \A j \in 1 .. n : q[j] = p[j]
      <4> SUFFICES ASSUME NEW j \in 1 .. n PROVE q[j] = p[j]
        OBVIOUS
      <4>1. j = n \/ j \in 1 .. Len(t)
        BY <1>1, <2>2
      <4> QED BY <1>1, <2>5, <3>1, <3>2, <4>1
    <3>4. CASE Len(q) = n
      BY <1>1, <2>1, <3>3, <3>4, SameSeq
    <3>5. CASE Len(q) # n
      <4>1. Len(p) < Len(q)
        BY <1>1, <2>1, <2>3, <3>5
      <4>2. Under(p, q) <=> Len(p) < Len(q) /\ \A j \in 1 .. Len(p) : q[j] = p[j]
        BY <1>1, <2>1, UnderMeans, Zenon
      <4> QED BY <1>1, <3>3, <4>1, <4>2
    <3> QED BY <3>4, <3>5
  <2> QED BY <1>1, <2>3, <2>4, <2>5
<1> QED BY <1>3, <1>4

\* A leaf has nothing in it.
LEMMA LeafEnds ==
  ASSUME NEW type, IsType(type), NEW p \in LeavesIn(type), NEW q \in PathsIn(type)
  PROVE  ~Under(p, q)
<1> SUFFICES ASSUME Under(p, q) PROVE FALSE
  OBVIOUS
<1>1. p \in PathsIn(type) /\ MemberIn(type, p).kind \in {"plain", "enum"}
  BY DEF LeavesIn
<1>2. p \in Seq(Nat) /\ q \in Seq(Nat) /\ Len(p) \in Nat
  BY <1>1, PathSeq
<1>3. MembersIn(type, p) = <<>>
  <2>1. Front(p) \in Seq(Nat) /\ Last(p) \in Nat /\ Append(Front(p), Last(p)) = p
    BY <1>1, PathSeq, OneLess
  <2>2. MembersIn(type, p) = MemberIn(type, p).members
    BY <2>1, MemberOn
  <2>3. IsMember(MemberIn(type, p))
    BY <1>1 DEF IsType
  <2> QED BY <1>1, <2>2, <2>3 DEF IsMember
<1>4. \A n \in 1 .. Len(q) : q[n] \in DOMAIN MembersIn(type, SubSeq(q, 1, n - 1))
  BY PathSeq
<1>5. Len(p) + 1 \in 1 .. Len(q) /\ (Len(p) + 1) - 1 = Len(p) /\ SubSeq(q, 1, Len(p)) = p
  BY <1>2 DEF Under
<1>6. q[Len(p) + 1] \in DOMAIN MembersIn(type, p)
  BY <1>4, <1>5, Zenon
<1> QED BY <1>3, <1>6

\* What the statements there were and one more are for.
LEMMA GrownSound ==
  ASSUME NEW type, NEW b, NEW c, NEW s, Grown(b, c, s), AllSound(type, b), SoundIn(type, s)
  PROVE  AllSound(type, c) /\ \A i \in DOMAIN c : i = Len(b) + 1 \/ (i \in DOMAIN b /\ c[i] = b[i])
<1>1. \A i \in DOMAIN c : i = Len(b) + 1 \/ (i \in DOMAIN b /\ c[i] = b[i])
  BY DEF Grown
<1>2. c[Len(b) + 1] = s
  BY DEF Grown
<1> QED BY <1>1, <1>2 DEF AllSound

LEMMA GrownCovers ==
  ASSUME NEW b, NEW c, NEW s, Grown(b, c, s)
  PROVE  Covered(c, s.of) /\ \A p : Covered(b, p) => Covered(c, p)
<1>1. Len(b) + 1 \in DOMAIN c /\ c[Len(b) + 1] = s /\ \A i \in DOMAIN b : i \in DOMAIN c /\ c[i] = b[i]
  BY DEF Grown
<1> QED BY <1>1 DEF Covered

\* A variable is drawn.
LEMMA NestDraws ==
  ASSUME NEW type, NEW fs, NEW b, NEW c, NEW s, Nest(type, fs, b), Grown(b, c, s),
         s.of = <<>>, SoundIn(type, s)
  PROVE  Nest(type, fs, c)
<1>1. AllSound(type, c) /\ \A i \in DOMAIN c : i = Len(b) + 1 \/ (i \in DOMAIN b /\ c[i] = b[i])
  BY GrownSound DEF Nest
<1>2. c[Len(b) + 1].of = <<>>
  BY DEF Grown
<1>3. Behind(fs, c)
  <2> SUFFICES ASSUME NEW i \in DOMAIN c, NEW k \in DOMAIN fs, Under(fs[k].path, c[i].of)
               PROVE  c[i].of[k] < fs[k].next
    BY DEF Behind
  <2>1. CASE i = Len(b) + 1
    <3>1. Len(fs[k].path) = k - 1 /\ Len(fs[k].path) \in Nat
      <4>1. PlaceIn(type, fs[k].path) /\ Len(fs[k].path) = k - 1
        BY DEF Nest, NestedIn
      <4>2. fs[k].path \in Seq(Nat)
        BY <4>1, PlaceSeq
      <4> QED BY <4>1, <4>2
    <3>2. Len(fs[k].path) < 0
      BY <1>2, <2>1 DEF Under
    <3> QED BY <3>1, <3>2
  <2>2. CASE i \in DOMAIN b /\ c[i] = b[i]
    BY <2>2 DEF Nest, Behind
  <2> QED BY <1>1, <2>1, <2>2
<1>4. Complete(type, fs, c)
  BY GrownCovers DEF Nest, Complete
<1>5. Single(c)
  BY <1>1, <1>2 DEF Nest, Single
<1> QED BY <1>1, <1>3, <1>4, <1>5 DEF Nest

\* A leaf gets its statement.
LEMMA NestStates ==
  ASSUME NEW type, IsType(type), NEW fs, NEW gs, NEW n, NEW p, NEW m, NEW b, NEW c, NEW s,
         Nest(type, fs, b), Comes(type, fs, n, p, m), GoneOn(fs, gs, n), Grown(b, c, s),
         s.of = p, SoundIn(type, s), p \in LeavesIn(type)
  PROVE  Nest(type, gs, c)
<1>1. AllSound(type, c) /\ \A i \in DOMAIN c : i = Len(b) + 1 \/ (i \in DOMAIN b /\ c[i] = b[i])
  BY GrownSound DEF Nest
<1>2. c[Len(b) + 1].of = p
  BY DEF Grown
<1>3. /\ n \in Nat \ {0} /\ DOMAIN gs = 1 .. n /\ gs # <<>> /\ fs # <<>> /\ NestedIn(type, gs)
      /\ Behind(gs, b)
  <2>1. n \in Nat \ {0} /\ DOMAIN gs = 1 .. n /\ Len(gs) = n /\ Len(fs) = n
    BY DEF Comes, GoneOn
  <2>2. NestedIn(type, gs) /\ Behind(gs, b)
    BY NestedOn, BehindOn DEF Nest
  <2>3. gs # <<>> /\ fs # <<>>
    BY <2>1
  <2> QED BY <2>1, <2>2, <2>3
<1>4. Behind(gs, c)
  <2> SUFFICES ASSUME NEW i \in DOMAIN c, NEW k \in DOMAIN gs, Under(gs[k].path, c[i].of)
               PROVE  c[i].of[k] < gs[k].next
    BY DEF Behind
  <2>1. CASE i = Len(b) + 1
    <3>1. CASE k = n
      <4>1. p[n] = fs[n].next /\ gs[n].next = fs[n].next + 1 /\ fs[n].next \in Nat
        BY DEF Comes, GoneOn
      <4>2. p[n] < gs[n].next
        BY <4>1
      <4> QED BY <1>2, <2>1, <3>1, <4>2
    <3>2. CASE k # n
      <4>1. k \in 1 .. n /\ k < n
        BY <1>3, <3>2
      <4>2. p[k] = fs[k].next - 1 /\ gs[k] = fs[k]
        BY <4>1 DEF Comes, GoneOn
      <4>3. fs[k].next \in Int
        <5>1. k \in DOMAIN fs
          BY <4>1 DEF Comes
        <5>2. fs[k].next \in 1 .. Len(MembersIn(type, fs[k].path)) + 1
          BY <5>1 DEF Nest, NestedIn
        <5> QED BY <5>2
      <4> QED BY <1>2, <2>1, <4>2, <4>3
    <3> QED BY <3>1, <3>2
  <2>2. CASE i \in DOMAIN b /\ c[i] = b[i]
    BY <1>3, <2>2 DEF Behind
  <2> QED BY <1>1, <2>1, <2>2
<1>5. Complete(type, gs, c)
  <2> SUFFICES ASSUME NEW q \in LeavesIn(type), Passed(gs, q) PROVE Covered(c, q)
    BY <1>3 DEF Complete
  <2>1. q \in PathsIn(type)
    BY DEF LeavesIn
  <2>2. Passed(fs, q) \/ q = p \/ Under(p, q)
    BY <2>1, PassedOn DEF Nest
  <2>3. ~Under(p, q)
    BY <2>1, LeafEnds
  <2>4. Passed(fs, q) => Covered(b, q)
    BY DEF Nest, Complete
  <2> QED BY <2>2, <2>3, <2>4, GrownCovers
<1>6. Single(c)
  <2>1. \A i \in DOMAIN b : b[i].of # p
    BY NoneYet DEF Nest
  <2> QED BY <1>1, <1>2, <2>1 DEF Nest, Single
<1> QED BY <1>1, <1>3, <1>4, <1>5, <1>6 DEF Nest

\* The members of an anonymous type are put on the generators.
LEMMA NestEnters ==
  ASSUME NEW type, IsType(type), NEW fs, NEW gs, NEW hs, NEW n, NEW p, NEW m, NEW b, NEW f,
         Nest(type, fs, b), Comes(type, fs, n, p, m), GoneOn(fs, gs, n), PutOn(gs, hs, n, f),
         f.path = p, f.next = 1, f.by = m.kind, m.kind \in {"struct", "union"}
  PROVE  Nest(type, hs, b)
<1>1. NestedIn(type, hs)
  BY NestedDown DEF Nest
<1>2. /\ n \in Nat \ {0} /\ DOMAIN gs = 1 .. n /\ DOMAIN hs = 1 .. n + 1 /\ fs # <<>> /\ Len(hs) = n + 1
      /\ hs[n + 1] = f /\ \A k \in 1 .. n : hs[k] = gs[k]
      /\ Len(gs) = n /\ Len(fs) = n /\ p \in Seq(Nat) /\ Len(p) = n
  BY DEF Comes, GoneOn, PutOn
<1>3. Behind(hs, b)
  <2>1. Behind(gs, b)
    BY BehindOn DEF Nest
  <2> SUFFICES ASSUME NEW i \in DOMAIN b, NEW k \in DOMAIN hs, Under(hs[k].path, b[i].of)
               PROVE  b[i].of[k] < hs[k].next
    BY DEF Behind
  <2>2. CASE k = n + 1
    <3>1. ~Under(p, b[i].of)
      BY NoneYet DEF Nest
    <3> QED BY <1>2, <2>2, <3>1
  <2>3. CASE k # n + 1
    <3>1. k \in DOMAIN gs /\ hs[k] = gs[k]
      BY <1>2, <2>3
    <3> QED BY <2>1, <3>1 DEF Behind
  <2> QED BY <2>2, <2>3
<1>4. Complete(type, hs, b)
  <2> SUFFICES ASSUME NEW q \in LeavesIn(type), hs = <<>> \/ Passed(hs, q) PROVE Covered(b, q)
    BY DEF Complete
  <2>1. hs # <<>> /\ q \in PathsIn(type)
    BY <1>2 DEF LeavesIn
  <2>2. PICK k \in 1 .. n + 1 :
          /\ Under(hs[k].path, q) /\ q[k] < hs[k].next
          /\ k < n + 1 => q[k] < hs[k].next - 1
    BY <1>2, <2>1 DEF Passed
  <2>3. CASE k = n + 1
    \* Nothing is passed yet of what has just been entered.
    <3>1. Under(p, q) /\ q[n + 1] < 1
      BY <1>2, <2>2, <2>3
    <3>2. q \in Seq(Nat) /\ Len(p) + 1 \in 1 .. Len(q) /\ \A j \in 1 .. Len(q) : q[j] \in 1 .. MaxMembers
      BY <1>2, <2>1, <3>1, LeafIndex, PathSeq
    <3>3. q[n + 1] >= 1
      BY <1>2, <3>2, ShapesAssumption
    <3> QED BY <1>2, <3>1, <3>2, <3>3
  <2>4. CASE k # n + 1
    <3>1. k \in 1 .. n /\ k < n + 1 /\ hs[k] = gs[k] /\ q[k] < gs[k].next - 1
      BY <1>2, <2>2, <2>4
    <3>2. Passed(fs, q)
      <4>1. CASE k = n
        <5>1. gs[n].next = fs[n].next + 1 /\ fs[n].next \in Nat /\ gs[n].path = fs[n].path /\ n \in DOMAIN fs
          BY SMTT(30) DEF Comes, GoneOn
        <5>2. q[n] < fs[n].next
          BY <3>1, <4>1, <5>1
        <5>3. Under(fs[n].path, q) /\ ~(n < Len(fs))
          BY <1>2, <2>2, <3>1, <4>1, <5>1
        <5> QED BY <5>1, <5>2, <5>3 DEF Passed
      <4>2. CASE k # n
        <5>1. k < n /\ gs[k] = fs[k] /\ k \in DOMAIN fs
          BY <1>2, <3>1, <4>2, SMTT(30) DEF Comes, GoneOn
        <5>2. Under(fs[k].path, q) /\ q[k] < fs[k].next /\ q[k] < fs[k].next - 1
          BY <2>2, <3>1, <5>1
        <5> QED BY <5>1, <5>2 DEF Passed
      <4> QED BY <4>1, <4>2
    <3> QED BY <3>2 DEF Nest, Complete
  <2> QED BY <2>3, <2>4
<1> QED BY <1>1, <1>3, <1>4 DEF Nest

\* A generator ends.
LEMMA NestEnds ==
  ASSUME NEW type, IsType(type), NEW fs, IsSeq(fs), fs # <<>>, NEW b, Nest(type, fs, b),
         Last(fs).next > Len(MembersIn(type, Last(fs).path))
  PROVE  Nest(type, Front(fs), b)
<1> DEFINE n == Len(fs)
           gs == Front(fs)
           t == fs[n].path
<1>1. n \in Nat \ {0} /\ DOMAIN fs = 1 .. n /\ n \in DOMAIN fs /\ Last(fs) = fs[n]
  BY DEF IsSeq, Last
<1>2. DOMAIN gs = 1 .. n - 1 /\ Len(gs) = n - 1 /\ \A k \in 1 .. n - 1 : gs[k] = fs[k] /\ k \in DOMAIN fs
  <2>1. fs \in Seq(Range(fs))
    BY DEF IsSeq
  <2>2. gs \in Seq(Range(fs)) /\ Len(gs) = n - 1 /\ DOMAIN gs = 1 .. n - 1
    BY <1>1, <2>1 DEF Front
  <2>3. \A k \in 1 .. n - 1 : gs[k] = fs[k]
    BY <1>1, <2>1 DEF Front
  <2> QED BY <1>1, <2>2, <2>3
<1> HIDE DEF gs
<1>3. NestedIn(type, gs) /\ Behind(gs, b)
  <2>1. ASSUME NEW k \in 1 .. n - 1
        PROVE  /\ PlaceIn(type, gs[k].path) /\ Len(gs[k].path) = k - 1
               /\ gs[k].next \in 1 .. Len(MembersIn(type, gs[k].path)) + 1
               /\ gs[k].by = KindIn(type, gs[k].path) /\ gs[k].by \in {"struct", "union"}
    <3>1. gs[k] = fs[k] /\ k \in DOMAIN fs
      BY <1>2
    <3> QED BY <3>1 DEF Nest, NestedIn
  <2>2. ASSUME NEW k \in 1 .. n - 1, NEW j \in 1 .. n - 1, k < j
        PROVE  Under(gs[k].path, gs[j].path) /\ gs[j].path[k] = gs[k].next - 1
    <3>1. gs[k] = fs[k] /\ k \in DOMAIN fs /\ gs[j] = fs[j] /\ j \in DOMAIN fs
      BY <1>2
    <3> QED BY <2>2, <3>1 DEF Nest, NestedIn
  <2>3. NestedIn(type, gs)
    BY <1>2, <2>1, <2>2 DEF NestedIn
  <2>4. Behind(gs, b)
    BY <1>2 DEF Nest, Behind
  <2> QED BY <2>3, <2>4
<1>4. /\ t \in Seq(Nat) /\ PlaceIn(type, t) /\ Len(t) = n - 1 /\ IsMembers(MembersIn(type, t))
      /\ fs[n].next > Len(MembersIn(type, t)) /\ KindIn(type, t) \in {"struct", "union"}
  <2>1. PlaceIn(type, t) /\ Len(t) = n - 1 /\ KindIn(type, t) \in {"struct", "union"}
    BY <1>1 DEF Nest, NestedIn
  <2>2. t \in Seq(Nat)
    BY <2>1, PlaceSeq
  <2>3. CASE t = <<>>
    BY <1>1, <2>1, <2>2, <2>3, MembersStep DEF IsType
  <2>4. CASE t \in PathsIn(type)
    <3>1. Front(t) \in Seq(Nat) /\ Last(t) \in Nat /\ Append(Front(t), Last(t)) = t
      BY <2>4, PathSeq, OneLess
    <3>2. MembersIn(type, t) = MemberIn(type, t).members
      BY <3>1, MemberOn
    <3>3. IsMember(MemberIn(type, t))
      BY <2>4 DEF IsType
    <3> QED BY <1>1, <2>1, <2>2, <3>2, <3>3 DEF IsMember
  <2> QED BY <2>1, <2>3, <2>4 DEF PlaceIn
<1> HIDE DEF n
\* All leaves of what has ended have been passed.
<1>5. ASSUME NEW q \in LeavesIn(type), Under(t, q) PROVE Covered(b, q)
  <2>1. q \in PathsIn(type)
    BY DEF LeavesIn
  <2>2. q \in Seq(Nat) /\ Len(t) + 1 \in 1 .. Len(q) /\ SubSeq(q, 1, Len(t)) = t
    BY <1>4, <1>5, <2>1, LeafIndex DEF Under
  <2>3. q[Len(t) + 1] \in DOMAIN MembersIn(type, SubSeq(q, 1, (Len(t) + 1) - 1))
    BY <2>1, <2>2, PathSeq, Zenon
  <2>4. (Len(t) + 1) - 1 = Len(t) /\ Len(t) + 1 = n
    BY <1>1, <1>4
  <2>5. q[n] \in DOMAIN MembersIn(type, t)
    BY <2>2, <2>3, <2>4
  <2>6. q[n] < fs[n].next
    <3> DEFINE ms == MembersIn(type, t)
    <3>1. ms \in Seq(Range(ms)) /\ q[n] \in DOMAIN ms /\ fs[n].next > Len(ms)
      BY <1>4, <2>5 DEF IsMembers
    <3>2. fs[n].next \in Int
      BY <1>1 DEF Nest, NestedIn
    <3> HIDE DEF ms
    <3> QED BY <3>1, <3>2
  <2>7. Passed(fs, q)
    BY <1>1, <1>5, <2>6 DEF Passed, n
  <2> QED BY <2>7 DEF Nest, Complete
<1>6. Complete(type, gs, b)
  <2> SUFFICES ASSUME NEW q \in LeavesIn(type), gs = <<>> \/ Passed(gs, q) PROVE Covered(b, q)
    BY DEF Complete
  <2>0. q \in PathsIn(type) /\ q \in Seq(Nat) /\ q # <<>>
    BY PathSeq DEF LeavesIn
  <2>1. CASE gs = <<>>
    <3>1. Len(t) = 0
      BY <1>1, <1>2, <1>4, <2>1
    <3>2. Under(t, q)
      BY <1>4, <2>0, <3>1, UnderMeans
    <3> QED BY <1>5, <3>2
  <2>2. CASE Passed(gs, q)
    <3>1. PICK k \in 1 .. n - 1 :
            /\ Under(gs[k].path, q) /\ q[k] < gs[k].next
            /\ k < n - 1 => q[k] < gs[k].next - 1
      BY <1>2, <2>2 DEF Passed
    <3>2. gs[k] = fs[k] /\ k \in DOMAIN fs /\ k < n /\ k \in Nat \ {0}
      BY <1>1, <1>2
    <3>3. CASE q[k] < fs[k].next - 1
      <4>1. Passed(fs, q)
        BY <3>1, <3>2, <3>3 DEF Passed
      <4> QED BY <4>1 DEF Nest, Complete
    <3>4. CASE ~(q[k] < fs[k].next - 1)
      <4>1. k = n - 1
        BY <1>1, <3>1, <3>2, <3>4
      <4>2. /\ PlaceIn(type, fs[k].path) /\ Len(fs[k].path) = k - 1 /\ fs[k].next \in Nat
            /\ Under(fs[k].path, t) /\ t[k] = fs[k].next - 1
        <5>1. fs[k].next \in 1 .. Len(MembersIn(type, fs[k].path)) + 1
          BY <3>2 DEF Nest, NestedIn
        <5> QED BY <1>1, <3>2, <5>1 DEF Nest, NestedIn
      <4>3. fs[k].path \in Seq(Nat)
        BY <4>2, PlaceSeq
      <4>4. k \in 1 .. Len(q) /\ q[k] \in Nat
        <5>1. Len(fs[k].path) + 1 \in 1 .. Len(q) /\ q[Len(fs[k].path) + 1] \in Nat
          BY <2>0, <3>1, <3>2, <4>3, LeafIndex
        <5>2. Len(fs[k].path) + 1 = k
          BY <3>2, <4>2
        <5> QED BY <5>1, <5>2
      <4>5. q[k] = t[k]
        BY <3>1, <3>2, <3>4, <4>2, <4>4
      <4>6. /\ \A j \in 1 .. Len(fs[k].path) : q[j] = fs[k].path[j]
            /\ \A j \in 1 .. Len(fs[k].path) : t[j] = fs[k].path[j]
        BY <1>4, <2>0, <3>1, <3>2, <4>2, <4>3, UnderMeans, Zenon
      <4>7. \A j \in 1 .. Len(t) : q[j] = t[j]
        <5> SUFFICES ASSUME NEW j \in 1 .. Len(t) PROVE q[j] = t[j]
          OBVIOUS
        <5>1. j = k \/ j \in 1 .. Len(fs[k].path)
          BY <1>1, <1>4, <4>1, <4>2
        <5> QED BY <4>5, <4>6, <5>1
      <4>8. CASE Len(q) = Len(t)
        <5>1. q = t
          BY <1>4, <2>0, <4>7, <4>8, SameSeq
        <5>2. KindIn(type, q) \in {"plain", "enum"}
          BY <2>0 DEF LeavesIn, KindIn
        <5> QED BY <1>4, <5>1, <5>2
      <4>9. CASE Len(q) # Len(t)
        <5>1. Len(t) < Len(q)
          BY <1>1, <1>4, <2>0, <4>1, <4>4, <4>9
        <5>2. Under(t, q) <=> Len(t) < Len(q) /\ \A j \in 1 .. Len(t) : q[j] = t[j]
          BY <1>4, <2>0, UnderMeans, Zenon
        <5> QED BY <1>5, <4>7, <5>1, <5>2
      <4> QED BY <4>8, <4>9
    <3> QED BY <3>3, <3>4
  <2> QED BY <2>1, <2>2
<1> QED BY <1>3, <1>6 DEF Nest, gs

-----------------------------------------------------------------------------
(* The generators go through all members in order *)

\* What has been stated is what the generators have passed.
NestInv ==
  /\ shapes \in Shapes /\ at \in Nat \ {0}
  /\ phase \in {"made", "raised", "called"} => frames = <<>>
  /\ phase # "inject" => at \in DOMAIN shapes /\ Nest(Shape, frames, body)

LEMMA ShapeKnown ==
  ASSUME shapes \in Shapes, at \in DOMAIN shapes
  PROVE  IsType(Shape)
<1>1. \A t \in Range(shapes) : IsType(t)
  BY ShapesAssumption
<1>2. Shape \in Range(shapes)
  BY DEF Shape, Range
<1> QED BY <1>1, <1>2

LEMMA AtMeans ==
  /\ \A p : KindAt(p) = KindIn(Shape, p) /\ MemberAt(p) = MemberIn(Shape, p) /\ MembersAt(p) = MembersIn(Shape, p)
  /\ Paths = PathsIn(Shape) /\ Leaves = LeavesIn(Shape)
BY DEF KindAt, KindIn, MemberAt, MembersAt, Paths, Leaves, LeavesIn

LEMMA NextComes ==
  ASSUME Inv, NestInv, HasMember
  PROVE  /\ Comes(Shape, frames, Len(frames), Path, Member)
         /\ GoneOn(frames, Advanced, Len(frames))
         /\ IsType(Shape) /\ Nest(Shape, frames, body) /\ IsSeq(body)
         /\ phase = "members" /\ Top = frames[Len(frames)] /\ shapes \in Shapes /\ at \in DOMAIN shapes
         /\ Top.by = KindIn(Shape, Top.path)
<1>1. /\ phase = "members" /\ frames # <<>> /\ IsSeq(frames) /\ IsSeq(body)
      /\ \A k \in DOMAIN frames : IsFrame(frames[k])
      /\ Top.next <= Len(MembersIn(Shape, Top.path))
  BY DEF Inv, TypeOK, HasMember, MembersAt
<1>2. /\ IsType(Shape) /\ Nest(Shape, frames, body) /\ NestedIn(Shape, frames)
      /\ shapes \in Shapes /\ at \in DOMAIN shapes
  BY <1>1, ShapeKnown DEF NestInv, Nest
<1>3. Comes(Shape, frames, Len(frames), Path, Member)
  <2>1. Path = Append(Top.path, Top.next) /\ Member = MembersIn(Shape, Top.path)[Top.next] /\ Top = Last(frames)
    BY DEF Path, Member, Top, MembersAt
  <2> QED BY <1>1, <1>2, <2>1, ComesTo
<1>4. GoneOn(frames, Advanced, Len(frames))
  BY <1>1, GoesOn DEF Advanced
<1>5. Top = frames[Len(frames)] /\ Len(frames) \in DOMAIN frames
  BY <1>1 DEF Top, Last, IsSeq
<1>6. Top.by = KindIn(Shape, Top.path)
  BY <1>2, <1>5 DEF NestedIn
<1> QED BY <1>1, <1>2, <1>3, <1>4, <1>5, <1>6

LEMMA Stating ==
  ASSUME Inv, NestInv, HasMember, phase' = "members", UNCHANGED <<shapes, at>>, frames' = Advanced,
         NEW s, body' = Append(body, s), s.of = Path, SoundIn(Shape, s)
  PROVE  NestInv'
<1>1. /\ Comes(Shape, frames, Len(frames), Path, Member)
      /\ GoneOn(frames, Advanced, Len(frames))
      /\ IsType(Shape) /\ Nest(Shape, frames, body)
      /\ Grown(body, Append(body, s), s)
  BY NextComes, GrownBy
<1>2. Path \in LeavesIn(Shape)
  <2>1. Path # <<>>
    BY <1>1, PathSeq DEF Comes
  <2> QED BY <2>1 DEF SoundIn
<1>3. Nest(Shape, Advanced, Append(body, s))
  BY <1>1, <1>2, NestStates
<1>4. Shape' = Shape
  BY DEF Shape
<1>5. shapes \in Shapes /\ at \in DOMAIN shapes /\ at \in Nat \ {0}
  BY NextComes DEF NestInv
<1> QED BY <1>3, <1>4, <1>5 DEF NestInv

LEMMA Entering ==
  ASSUME Inv, NestInv, HasMember, phase' = "members", UNCHANGED <<shapes, at>>,
         NEW by, NEW ref, frames' = Append(Advanced, Frame(by, Path, ref)),
         by = Member.kind, by \in {"struct", "union"},
         UNCHANGED body \/ \E s : body' = Append(body, s) /\ s.of = <<>> /\ SoundIn(Shape, s)
  PROVE  NestInv'
<1> DEFINE f == Frame(by, Path, ref)
<1>1. /\ Comes(Shape, frames, Len(frames), Path, Member)
      /\ GoneOn(frames, Advanced, Len(frames))
      /\ IsType(Shape) /\ Nest(Shape, frames, body) /\ IsSeq(body)
      /\ IsSeq(Advanced) /\ Len(Advanced) = Len(frames)
  BY NextComes DEF GoneOn
<1>2. f.path = Path /\ f.next = 1 /\ f.by = by
  BY DEF Frame
<1>3. PutOn(Advanced, frames', Len(frames), f)
  BY <1>1, PutsOn
<1> HIDE DEF f
<1>4. Nest(Shape, frames', body)
  BY <1>1, <1>2, <1>3, NestEnters
<1>5. Nest(Shape, frames', body')
  <2>1. CASE UNCHANGED body
    BY <1>4, <2>1
  <2>2. ASSUME NEW s, body' = Append(body, s), s.of = <<>>, SoundIn(Shape, s)
        PROVE  Nest(Shape, frames', body')
    BY <1>1, <1>4, <2>2, GrownBy, NestDraws
  <2> QED BY <2>1, <2>2
<1>6. Shape' = Shape
  BY DEF Shape
<1>7. shapes \in Shapes /\ at \in DOMAIN shapes /\ at \in Nat \ {0}
  BY NextComes DEF NestInv
<1> QED BY <1>5, <1>6, <1>7 DEF NestInv

LEMMA CopyNests == ASSUME Inv, NestInv, CopyMember PROVE NestInv'
<1> DEFINE s == Statement("copy", Path, Ref, context.tmp)
<1>1. HasMember /\ Member.bits /\ phase' = "members"
  BY DEF CopyMember, HasMember
<1>2. Comes(Shape, frames, Len(frames), Path, Member)
  BY <1>1, NextComes
<1>3. Path \in LeavesIn(Shape)
  BY <1>1, <1>2 DEF Comes, IsMember, LeavesIn
<1>4. s.op = "copy" /\ s.of = Path /\ s.guard = <<>>
  BY StatementFields
<1>5. body' = Append(body, s)
  BY DEF CopyMember
<1> HIDE DEF s
<1>6. SoundIn(Shape, s)
  BY <1>3, <1>4 DEF SoundIn
<1> QED BY <1>1, <1>4, <1>5, <1>6, Stating DEF CopyMember

LEMMA AssignNests == ASSUME Inv, NestInv, AssignMember PROVE NestInv'
<1> DEFINE s == Statement("assign", Path, Ref, context.values)
<1>1. HasMember /\ Member.kind = "enum" /\ phase' = "members"
  BY DEF AssignMember, HasMember
<1>2. Comes(Shape, frames, Len(frames), Path, Member)
  BY <1>1, NextComes
<1>3. Path \in LeavesIn(Shape)
  BY <1>1, <1>2 DEF Comes, LeavesIn
<1>4. s.op = "assign" /\ s.of = Path /\ s.guard = <<>>
  BY StatementFields
<1>5. body' = Append(body, s)
  BY DEF AssignMember
<1> HIDE DEF s
<1>6. SoundIn(Shape, s)
  BY <1>3, <1>4 DEF SoundIn
<1> QED BY <1>1, <1>4, <1>5, <1>6, Stating DEF AssignMember

\* What a statement with a call says of the member.
LEMMA CallSound ==
  ASSUME Inv, NestInv, HasMember, Member.kind = "plain", Top.by = "union" \/ ~Member.bits,
         NEW s, s.op = "call", s.of = Path
  PROVE  SoundIn(Shape, s)
<1>1. Comes(Shape, frames, Len(frames), Path, Member) /\ Top = frames[Len(frames)] /\ Top.by = KindIn(Shape, Top.path)
  BY NextComes
<1>2. Path \in LeavesIn(Shape) /\ KindIn(Shape, Path) = "plain"
  BY <1>1 DEF Comes, LeavesIn
<1>3. MemberIn(Shape, Path) = Member /\ Front(Path) = Top.path
  BY <1>1 DEF Comes
<1>4. MemberIn(Shape, Path).bits => KindIn(Shape, Front(Path)) = "union"
  BY <1>1, <1>3, Zenon
<1> QED BY <1>2, <1>4 DEF SoundIn

LEMMA CallNests == ASSUME Inv, NestInv, CallMember PROVE NestInv'
<1> DEFINE s == Statement("call", Path, Ref, 0)
<1>1. HasMember /\ Member.kind = "plain" /\ ~Member.bits /\ phase' = "members"
  BY DEF CallMember, HasMember
<1>2. s.op = "call" /\ s.of = Path
  BY StatementFields
<1>3. body' = Append(body, s)
  BY DEF CallMember
<1> HIDE DEF s
<1>4. SoundIn(Shape, s)
  BY <1>1, <1>2, CallSound
<1> QED BY <1>1, <1>2, <1>3, <1>4, Stating DEF CallMember

LEMMA GuardFields ==
  ASSUME NEW p, NEW ref, NEW g
  PROVE  LET s == [Statement("call", p, ref, 0) EXCEPT !.guard = g]
         IN  s.op = "call" /\ s.of = p /\ s.guard = g /\ s.ref = ref
BY DEF Statement

LEMMA GuardNests == ASSUME Inv, NestInv, GuardMember PROVE NestInv'
<1> DEFINE s == [Statement("call", Path, Ref, 0) EXCEPT !.guard = Guard]
<1>1. HasMember /\ Member.kind = "plain" /\ Top.by = "union" /\ phase' = "members"
  BY DEF GuardMember, HasMember
<1>2. s.op = "call" /\ s.of = Path
  BY GuardFields
<1>3. body' = Append(body, s)
  BY DEF GuardMember
<1> HIDE DEF s
<1>4. SoundIn(Shape, s)
  BY <1>1, <1>2, CallSound
<1> QED BY <1>1, <1>2, <1>3, <1>4, Stating DEF GuardMember

LEMMA DrawSound ==
  ASSUME NEW type, NEW c, NEW ms
  PROVE  Draw(c, ms).of = <<>> /\ SoundIn(type, Draw(c, ms)) /\ Draw(c, ms).op = "draw"
         /\ Draw(c, ms).ref = <<>> /\ Draw(c, ms).var = c.rnd /\ Draw(c, ms).range = Len(ms)
         /\ Draw(c, ms).guard = <<>>
<1> DEFINE s == Draw(c, ms)
<1>1. /\ s.of = <<>> /\ s.op = "draw" /\ s.ref = <<>> /\ s.guard = <<>> /\ s.var = c.rnd
      /\ s.range = Len(ms)
  BY DEF Draw, Statement
<1> HIDE DEF s
<1>2. SoundIn(type, s)
  BY <1>1 DEF SoundIn
<1> QED BY <1>1, <1>2 DEF s

LEMMA EntersNest ==
  ASSUME Inv, NestInv, NestStruct \/ NestUnion \/ NestUnionAgain
  PROVE  NestInv'
<1>1. CASE NestStruct
  <2>1. PICK ref : frames' = Append(Advanced, Frame("struct", Path, ref))
    BY <1>1 DEF NestStruct
  <2> QED BY <1>1, <2>1, Entering DEF NestStruct, HasMember
<1>2. CASE NestUnion
  <2>1. body' = Append(body, Draw(context', Member.members))
    BY <1>2 DEF NestUnion
  <2>2. \E s : body' = Append(body, s) /\ s.of = <<>> /\ SoundIn(Shape, s)
    BY <2>1, DrawSound
  <2> QED BY <1>2, <2>2, Entering DEF NestUnion, HasMember
<1>3. CASE NestUnionAgain
  BY <1>3, Entering DEF NestUnionAgain, HasMember
<1> QED BY <1>1, <1>2, <1>3

LEMMA EndNests == ASSUME Inv, NestInv, EndMembers PROVE NestInv'
<1>1. phase = "members" /\ frames # <<>> /\ IsSeq(frames) /\ Shape' = Shape
  BY DEF EndMembers, Inv, TypeOK, Shape
<1>2. IsType(Shape) /\ Nest(Shape, frames, body)
  BY <1>1, ShapeKnown DEF NestInv
<1>3. Last(frames).next > Len(MembersIn(Shape, Last(frames).path))
  BY DEF EndMembers, Top, MembersAt
<1>4. Nest(Shape, Front(frames), body)
  BY <1>1, <1>2, <1>3, NestEnds
<1> QED BY <1>1, <1>4 DEF NestInv, EndMembers

LEMMA InjectNests == ASSUME Inv, NestInv, Inject PROVE NestInv'
<1>1. /\ phase = "inject" /\ at \in DOMAIN shapes /\ phase' = "members" /\ UNCHANGED <<shapes, at>>
      /\ shapes \in Shapes /\ at \in Nat \ {0} /\ Shape' = Shape
  <2>1. shapes \in Seq(Range(shapes)) /\ at \in Nat \ {0} /\ at <= Len(shapes)
    BY ShapesAssumption DEF NestInv, Inject
  <2> QED BY <2>1 DEF Inject, NestInv, Shape
<1>2. IsType(Shape)
  BY <1>1, ShapeKnown
<1>3. MembersIn(Shape, <<>>) = Shape.members /\ KindIn(Shape, <<>>) = Shape.kind /\ IsMembers(Shape.members)
      /\ (Shape.members # <<>> => Shape.kind \in {"struct", "union"})
  BY <1>2, MembersStep DEF IsType, KindIn
<1>4. Len(Shape.members) \in Nat
  BY <1>3 DEF IsMembers
\* A struct or union starts with one frame, and perhaps a variable.
<1>5. ASSUME NEW f, f.by = Shape.kind, f.by \in {"struct", "union"}, f.path = <<>>, f.next = 1,
             NEW b, b = <<>> \/ \E s : b = <<s>> /\ s.of = <<>> /\ SoundIn(Shape, s)
      PROVE  Nest(Shape, <<f>>, b)
  <2>1. DOMAIN <<f>> = {1} /\ <<f>>[1] = f /\ Len(<<f>>) = 1 /\ <<f>> # <<>>
    BY ShortSeq
  <2> DEFINE fs == <<f>>
  <2> HIDE DEF fs
  <2>2. NestedIn(Shape, fs)
    <3>1. \A k \in DOMAIN fs : k = 1 /\ fs[k] = f
      BY <2>1 DEF fs
    <3>2. PlaceIn(Shape, <<>>) /\ Len(<<>>) = 1 - 1 /\ 1 \in 1 .. Len(MembersIn(Shape, <<>>)) + 1
      BY <1>3, <1>4 DEF PlaceIn
    <3>3. \A k, j \in DOMAIN fs : ~(k < j)
      BY <3>1
    <3> QED BY <1>3, <1>5, <3>1, <3>2, <3>3 DEF NestedIn
  <2>3. \A i \in DOMAIN b : i = 1 /\ b[i].of = <<>> /\ SoundIn(Shape, b[i])
    <3>1. CASE b = <<>>
      BY <3>1, ShortSeq
    <3>2. ASSUME NEW s, b = <<s>>, s.of = <<>>, SoundIn(Shape, s)
          PROVE  \A i \in DOMAIN b : i = 1 /\ b[i].of = <<>> /\ SoundIn(Shape, b[i])
      BY <3>2, ShortSeq
    <3> QED BY <1>5, <3>1, <3>2
  <2>4. AllSound(Shape, b) /\ Single(b)
    BY <2>3 DEF AllSound, Single
  <2>5. Behind(fs, b)
    <3> SUFFICES ASSUME NEW i \in DOMAIN b, NEW k \in DOMAIN fs PROVE ~Under(fs[k].path, b[i].of)
      BY DEF Behind
    <3>1. fs[k].path = <<>> /\ b[i].of = <<>>
      BY <1>5, <2>1, <2>3 DEF fs
    <3> QED BY <3>1 DEF Under
  <2>6. Complete(Shape, fs, b)
    <3> SUFFICES ASSUME NEW p \in LeavesIn(Shape) PROVE ~Passed(fs, p) /\ fs # <<>>
      BY DEF Complete
    <3>1. p \in PathsIn(Shape)
      BY DEF LeavesIn
    <3>2. p \in Seq(Nat) /\ p # <<>> /\ \A n \in 1 .. Len(p) : p[n] \in 1 .. MaxMembers
      BY <3>1, PathSeq
    <3>3. p[1] >= 1 /\ p[1] \in Nat
      BY <3>2, ShapesAssumption
    <3>4. \A k \in DOMAIN fs : k = 1 /\ fs[k].next = 1
      BY <1>5, <2>1 DEF fs
    <3> QED BY <2>1, <3>3, <3>4 DEF Passed, fs
  <2> QED BY <2>2, <2>4, <2>5, <2>6 DEF Nest, fs
<1>6. CASE Shape.kind = "struct" /\ frames' = <<Frame("struct", <<>>, <<>>)>> /\ body' = <<>>
  <2> DEFINE f == Frame("struct", <<>>, <<>>)
  <2>1. f.by = "struct" /\ f.path = <<>> /\ f.next = 1
    BY DEF Frame
  <2> HIDE DEF f
  <2>2. Nest(Shape, <<f>>, <<>>)
    BY <1>5, <1>6, <2>1
  <2> QED BY <1>1, <1>6, <2>2 DEF NestInv, f
<1>7. CASE /\ Shape.kind = "union"
           /\ frames' = <<Frame("union", <<>>, <<>>)>> /\ body' = <<Draw(context', Shape.members)>>
  <2> DEFINE f == Frame("union", <<>>, <<>>)
             s == Draw(context', Shape.members)
  <2>1. f.by = "union" /\ f.path = <<>> /\ f.next = 1
    BY DEF Frame
  <2>2. s.of = <<>> /\ SoundIn(Shape, s)
    BY DrawSound
  <2> HIDE DEF f, s
  <2>3. Nest(Shape, <<f>>, <<s>>)
    BY <1>5, <1>7, <2>1, <2>2
  <2> QED BY <1>1, <1>7, <2>3 DEF NestInv, f, s
<1>8. CASE /\ Shape.kind = "enum"
           /\ frames' = <<>> /\ body' = <<Statement("assign", <<>>, <<>>, context.values)>>
  <2> DEFINE s == Statement("assign", <<>>, <<>>, context.values)
  <2>1. s.of = <<>> /\ s.op = "assign" /\ s.guard = <<>>
    BY StatementFields
  <2> HIDE DEF s
  <2>2. SoundIn(Shape, s)
    BY <2>1 DEF SoundIn
  <2>3. DOMAIN <<s>> = {1} /\ <<s>>[1] = s /\ DOMAIN <<>> = {}
    BY ShortSeq
  <2>4. AllSound(Shape, <<s>>) /\ Single(<<s>>)
    BY <2>2, <2>3 DEF AllSound, Single
  <2>5. NestedIn(Shape, <<>>) /\ Behind(<<>>, <<s>>)
    BY <2>3 DEF NestedIn, Behind
  <2>6. PathsIn(Shape) = {}
    <3> SUFFICES ASSUME NEW p \in PathsIn(Shape) PROVE FALSE
      OBVIOUS
    <3>1. /\ p \in Seq(Nat) /\ p # <<>>
          /\ \A n \in 1 .. Len(p) : p[n] \in DOMAIN MembersIn(Shape, SubSeq(p, 1, n - 1))
      BY PathSeq
    <3>2. 1 \in 1 .. Len(p) /\ 1 - 1 = 0
      BY <3>1
    <3>3. SubSeq(p, 1, 0) = <<>>
      BY <3>1
    <3>4. p[1] \in DOMAIN MembersIn(Shape, <<>>)
      BY <3>1, <3>2, <3>3
    <3>5. Shape.members = <<>>
      BY <1>3, <1>8
    <3> QED BY <1>3, <2>3, <3>4, <3>5
  <2>7. Complete(Shape, <<>>, <<s>>)
    BY <2>6 DEF Complete, LeavesIn
  <2> QED BY <1>1, <1>8, <2>4, <2>5, <2>7 DEF NestInv, Nest, s
<1> QED BY <1>6, <1>7, <1>8 DEF Inject

\* What has been generated is kept until the next mutator.
LEMMA NestRests ==
  ASSUME Inv, NestInv, UNCHANGED <<shapes, frames, body, at>>, phase # "inject",
         phase' \in {"made", "raised", "called"}, frames = <<>>
  PROVE  NestInv'
BY DEF NestInv, Shape, Inv, TypeOK

LEMMA NestLeaves ==
  ASSUME Inv, NestInv, UNCHANGED <<shapes, frames>>, frames = <<>>, phase' = "inject", at' \in Nat \ {0}
  PROVE  NestInv'
BY DEF NestInv

LEMMA NestInvNext == ASSUME Inv, NestInv, [Next]_vars PROVE NestInv'
<1>1. CASE Generating
  <2>1. CASE Finish
    <3>1. /\ phase = "members" /\ frames = <<>> /\ UNCHANGED <<shapes, at, frames, body>>
          /\ phase' \in {"made", "raised", "called"}
      BY <2>1 DEF Finish
    <3> QED BY <3>1, NestRests
  <2>2. CASE Abandon
    <3>1. phase = "raised" /\ frames = <<>> /\ UNCHANGED <<shapes, frames, body>> /\ phase' = "inject"
          /\ at' \in Nat \ {0}
      BY <2>2 DEF Abandon, NestInv
    <3> QED BY <3>1, NestLeaves
  <2> QED BY <1>1, <2>1, <2>2, InjectNests, CopyNests, AssignNests, EntersNest, CallNests, GuardNests,
             EndNests DEF Generating, Generate
<1>2. CASE DrawValue \/ NotSelected \/ AssignValue \/ CallMutator
  <2>1. phase = "made" /\ UNCHANGED <<shapes, at, frames, body, phase>>
    BY <1>2 DEF DrawValue, NotSelected, AssignValue, CallMutator, Running, Step, generation
  <2> QED BY <2>1, NestRests DEF NestInv
<1>3. CASE EndWalk
  <2>1. phase = "made" /\ UNCHANGED <<shapes, at, frames, body>> /\ phase' \in {"made", "raised", "called"}
    BY <1>3 DEF EndWalk
  <2> QED BY <2>1, NestRests DEF NestInv
<1>4. CASE NextType
  <2>1. phase' = "inject" /\ at' \in Nat \ {0} /\ UNCHANGED <<shapes, frames>> /\ frames = <<>>
    BY <1>4 DEF NextType, NestInv
  <2> QED BY <2>1, NestLeaves
<1>5. CASE UNCHANGED vars
  BY <1>5 DEF vars, generation, NestInv, Shape
<1> QED BY <1>1, <1>2, <1>3, <1>4, <1>5 DEF Next, Ended

LEMMA NestInvInit == EngineInit => NestInv
BY DEF EngineInit, Init, NestInv

LEMMA NestAlways == Spec => []NestInv
BY NestInvInit, NestInvNext, InvAlways, PTL DEF Spec

-----------------------------------------------------------------------------
(* The names of a member *)

\* What the recursive definition of Names describes, for the first n indices.
Naming(f, type, p, n) ==
  f = [k \in 0 .. n |->
         IF k = 0 THEN <<>>
         ELSE IF MemberIn(type, SubSeq(p, 1, k)).name = Unnamed THEN f[k - 1]
         ELSE Append(f[k - 1], MemberIn(type, SubSeq(p, 1, k)).name)]

\* The names of one index more.
OneNameMore(names, type, q) ==
  IF MemberIn(type, q).name = Unnamed THEN names ELSE Append(names, MemberIn(type, q).name)

LEMMA NamingMeans ==
  ASSUME NEW f, NEW type, NEW p, NEW n \in Nat, Naming(f, type, p, n)
  PROVE  /\ f[0] = <<>>
         /\ \A k \in 1 .. n : f[k] = OneNameMore(f[k - 1], type, SubSeq(p, 1, k))
<1>1. \A k \in 0 .. n : f[k] =
         IF k = 0 THEN <<>>
         ELSE IF MemberIn(type, SubSeq(p, 1, k)).name = Unnamed THEN f[k - 1]
         ELSE Append(f[k - 1], MemberIn(type, SubSeq(p, 1, k)).name)
  BY DEF Naming
<1>2. \A k \in 1 .. n : k \in 0 .. n /\ k # 0
  OBVIOUS
<1>3. 0 \in 0 .. n
  OBVIOUS
<1>4. f[0] = <<>>
  BY <1>1, <1>3, Zenon
<1> QED BY <1>1, <1>2, <1>4, Zenon DEF OneNameMore

LEMMA NamingOn ==
  ASSUME NEW type, NEW p, NEW n \in Nat, NEW g, Naming(g, type, p, n)
  PROVE  \E h : Naming(h, type, p, n + 1)
<1> DEFINE last == OneNameMore(g[n], type, SubSeq(p, 1, n + 1))
           h == [k \in 0 .. n + 1 |-> IF k = n + 1 THEN last ELSE g[k]]
           step(k) == IF k = 0 THEN <<>>
                      ELSE IF MemberIn(type, SubSeq(p, 1, k)).name = Unnamed THEN h[k - 1]
                      ELSE Append(h[k - 1], MemberIn(type, SubSeq(p, 1, k)).name)
<1>1. /\ g[0] = <<>>
      /\ \A k \in 1 .. n : g[k] = OneNameMore(g[k - 1], type, SubSeq(p, 1, k))
  BY NamingMeans
<1>2. (\A k \in 0 .. n : h[k] = g[k]) /\ h[n + 1] = last
  OBVIOUS
<1>3. h = [k \in 0 .. n + 1 |-> h[k]]
  OBVIOUS
<1> HIDE DEF h
<1>4. ASSUME NEW k \in 0 .. n + 1 PROVE h[k] = step(k)
  <2>1. CASE k = n + 1
    <3>1. k - 1 = n /\ h[k - 1] = g[n] /\ k # 0 /\ h[k] = last
      BY <1>2, <2>1
    <3>2. last = OneNameMore(h[k - 1], type, SubSeq(p, 1, k))
      BY <2>1, <3>1
    <3> QED BY <3>1, <3>2, Zenon DEF OneNameMore
  <2>2. CASE k # n + 1 /\ k # 0
    <3>1. k \in 1 .. n /\ k - 1 \in 0 .. n /\ k \in 0 .. n
      BY <2>2
    <3>2. h[k] = OneNameMore(h[k - 1], type, SubSeq(p, 1, k))
      BY <1>1, <1>2, <3>1, Zenon
    <3> QED BY <2>2, <3>2, Zenon DEF OneNameMore
  <2>3. CASE k = 0
    BY <1>1, <1>2, <2>3
  <2> QED BY <2>1, <2>2, <2>3
<1>5. h = [k \in 0 .. n + 1 |-> step(k)]
  <2> HIDE DEF step
  <2> QED BY <1>3, <1>4
<1>6. Naming(h, type, p, n + 1)
  BY <1>5, Zenon DEF Naming
<1> QED BY <1>6

LEMMA NamingExists == ASSUME NEW type, NEW p, NEW n \in Nat PROVE \E g : Naming(g, type, p, n)
<1> DEFINE P == {k \in Nat : \E g : Naming(g, type, p, k)}
<1>1. 0 \in P
  <2> DEFINE g == [k \in 0 .. 0 |-> <<>>]
  <2>1. Naming(g, type, p, 0)
    BY DEF Naming
  <2> QED BY <2>1
<1>2. \A k \in Nat : k \in P => k + 1 \in P
  BY NamingOn
<1>3. n \in P
  <2> HIDE DEF P
  <2> QED BY <1>1, <1>2, NatSetInduction
<1> QED BY <1>3

\* Two paths lead the same way so far.
SameWay(p, q, n) == \A i \in 1 .. n : SubSeq(p, 1, i) = SubSeq(q, 1, i)

LEMMA NamingSame ==
  ASSUME NEW type, NEW p, NEW q, NEW n \in Nat, NEW k \in Nat, k <= n, SameWay(p, q, k),
         NEW f, Naming(f, type, p, n), NEW g, Naming(g, type, q, k)
  PROVE  f[k] = g[k]
<1> DEFINE P == {i \in Nat : i <= k => f[i] = g[i]}
<1>1. /\ f[0] = <<>> /\ g[0] = <<>>
      /\ \A i \in 1 .. n : f[i] = OneNameMore(f[i - 1], type, SubSeq(p, 1, i))
      /\ \A i \in 1 .. k : g[i] = OneNameMore(g[i - 1], type, SubSeq(q, 1, i))
  BY NamingMeans
<1>2. 0 \in P
  BY <1>1
<1>3. ASSUME NEW i \in Nat, i \in P PROVE i + 1 \in P
  <2> SUFFICES ASSUME i + 1 <= k PROVE f[i + 1] = g[i + 1]
    OBVIOUS
  <2>1. i + 1 \in 1 .. k /\ i + 1 \in 1 .. n /\ i <= k /\ (i + 1) - 1 = i
    OBVIOUS
  <2>2. f[i] = g[i] /\ SubSeq(p, 1, i + 1) = SubSeq(q, 1, i + 1)
    BY <1>3, <2>1 DEF SameWay
  <2> QED BY <1>1, <2>1, <2>2, Zenon
<1>4. k \in P
  <2> HIDE DEF P
  <2> QED BY <1>2, <1>3, NatSetInduction
<1> QED BY <1>4

NamesIn(type, p) ==
  LET named[n \in 0 .. Len(p)] ==
        IF n = 0 THEN <<>>
        ELSE IF MemberIn(type, SubSeq(p, 1, n)).name = Unnamed THEN named[n - 1]
        ELSE Append(named[n - 1], MemberIn(type, SubSeq(p, 1, n)).name)
  IN  named[Len(p)]

LEMMA NamesAt == \A p : Names(p) = NamesIn(Shape, p)
BY Zenon DEF Names, NamesIn, MemberAt

LEMMA NamesAre ==
  ASSUME NEW type, NEW p, Len(p) \in Nat
  PROVE  \E g : Naming(g, type, p, Len(p)) /\ NamesIn(type, p) = g[Len(p)]
<1> DEFINE g == CHOOSE f : Naming(f, type, p, Len(p))
<1>1. NamesIn(type, p) = g[Len(p)]
  BY DEF NamesIn, Naming
<1>2. Naming(g, type, p, Len(p))
  BY NamingExists
<1> QED BY <1>1, <1>2

LEMMA NamesStep ==
  ASSUME NEW type
  PROVE  /\ NamesIn(type, <<>>) = <<>>
         /\ \A p \in Seq(Nat) : \A i \in Nat :
              NamesIn(type, Append(p, i)) = OneNameMore(NamesIn(type, p), type, Append(p, i))
<1>1. NamesIn(type, <<>>) = <<>>
  <2>1. Len(<<>>) = 0
    OBVIOUS
  <2>2. PICK g : Naming(g, type, <<>>, 0) /\ NamesIn(type, <<>>) = g[0]
    BY <2>1, NamesAre
  <2> QED BY <2>2, NamingMeans
<1>2. ASSUME NEW p \in Seq(Nat), NEW i \in Nat
      PROVE  NamesIn(type, Append(p, i)) = OneNameMore(NamesIn(type, p), type, Append(p, i))
  <2> DEFINE q == Append(p, i)
             n == Len(p)
  <2>1. /\ q \in Seq(Nat) /\ n \in Nat /\ Len(q) = n + 1 /\ SubSeq(q, 1, n + 1) = q
        /\ \A k \in Nat : k <= n => SubSeq(q, 1, k) = SubSeq(p, 1, k)
    <3>1. /\ q \in Seq(Nat) /\ n \in Nat /\ Len(q) = n + 1
          /\ \A k \in Nat : k <= n => SubSeq(q, 1, k) = SubSeq(p, 1, k)
      BY OneMore
    <3> HIDE DEF q, n
    <3>2. n + 1 \in Nat /\ n + 1 <= Len(q)
      BY <3>1
    <3>3. Begins(SubSeq(q, 1, n + 1), q, n + 1)
      BY <3>1, <3>2, FirstPart, Zenon
    <3>4. SubSeq(q, 1, n + 1) = q
      BY <3>1, <3>3, SameSeq DEF Begins
    <3> QED BY <3>1, <3>4, Zenon
  <2> HIDE DEF q, n
  <2>2. PICK g : Naming(g, type, p, n) /\ NamesIn(type, p) = g[n]
    BY <2>1, NamesAre DEF n
  <2>3. PICK f : Naming(f, type, q, n + 1) /\ NamesIn(type, q) = f[n + 1]
    BY <2>1, NamesAre
  <2>4. f[n] = g[n]
    <3>1. \A k \in 1 .. n : k \in Nat /\ k <= n
      BY <2>1
    <3>2. SameWay(q, p, n)
      BY <2>1, <3>1, Zenon DEF SameWay
    <3>3. n + 1 \in Nat /\ n <= n + 1 /\ n \in Nat
      BY <2>1
    <3> QED BY <2>2, <2>3, <3>2, <3>3, NamingSame
  <2>5. f[n + 1] = OneNameMore(f[n], type, SubSeq(q, 1, n + 1))
    <3>1. n + 1 \in 1 .. n + 1 /\ (n + 1) - 1 = n /\ n + 1 \in Nat
      BY <2>1
    <3>2. \A k \in 1 .. n + 1 : f[k] = OneNameMore(f[k - 1], type, SubSeq(q, 1, k))
      BY <2>3, <3>1, NamingMeans
    <3> QED BY <3>1, <3>2, Zenon
  <2> QED BY <2>1, <2>2, <2>3, <2>4, <2>5 DEF q
<1> QED BY <1>1, <1>2

-----------------------------------------------------------------------------
(* References *)

\* A member on the way to p, or p.
OnWay(q, p) == q \in Seq(Nat) /\ q # <<>> /\ (Under(q, p) \/ q = p)

\* What the templates forget: a named one on the way with an unnamed one in it.
Forgot(type, p) ==
  \E q, r : /\ OnWay(q, p) /\ OnWay(r, p) /\ Under(q, r)
            /\ MemberIn(type, q).name # Unnamed /\ MemberIn(type, r).name = Unnamed

\* What no text can be made of.
UnnamedStruct(type) ==
  \E p \in PathsIn(type) :
    MemberIn(type, p).kind = "struct" /\ MemberIn(type, p).name = Unnamed
      /\ KindIn(type, Front(p)) = "union"

Reaches(type, p, ref) ==
  /\ IsSeq(ref)
  /\ ref = NamesIn(type, p) \/ Forgot(type, p) \/ Unnamed \in Range(ref)
  /\ Unnamed \in Range(ref) => UnnamedStruct(type)

\* A place with names is at or below a named member.
HasNames(type, p) == NamesIn(type, p) # <<>> => \E q : OnWay(q, p) /\ MemberIn(type, q).name # Unnamed

FrameReaches(type, f) == Reaches(type, f.path, f.ref) /\ HasNames(type, f.path)

Refs(type, fs, b) ==
  /\ \A k \in DOMAIN fs : FrameReaches(type, fs[k])
  /\ \A i \in DOMAIN b : Reaches(type, b[i].of, b[i].ref)

LEMMA WayOn ==
  ASSUME NEW p \in Seq(Nat), NEW i \in Nat
  PROVE  /\ OnWay(Append(p, i), Append(p, i))
         /\ \A q : OnWay(q, p) => OnWay(q, Append(p, i)) /\ Under(q, Append(p, i))
<1> DEFINE a == Append(p, i)
<1>1. a \in Seq(Nat) /\ a # <<>>
  BY OneMore
<1>2. ASSUME NEW q, OnWay(q, p) PROVE Under(q, a)
  <2>1. q \in Seq(Nat) /\ (Under(q, p) \/ q = p)
    BY <1>2 DEF OnWay
  <2>2. Under(q, p) => Under(q, a)
    BY <2>1, UnderOn
  <2>3. Under(p, a)
    BY UnderOn
  <2> QED BY <2>1, <2>2, <2>3
<1> HIDE DEF a
<1>3. ASSUME NEW q, OnWay(q, p) PROVE OnWay(q, a)
  BY <1>2, <1>3 DEF OnWay
<1>4. OnWay(a, a)
  BY <1>1 DEF OnWay
<1> QED BY <1>2, <1>3, <1>4 DEF a

LEMMA ForgotOn ==
  ASSUME NEW type, NEW p \in Seq(Nat), NEW i \in Nat, Forgot(type, p)
  PROVE  Forgot(type, Append(p, i))
<1>1. PICK q, r : /\ OnWay(q, p) /\ OnWay(r, p) /\ Under(q, r)
                  /\ MemberIn(type, q).name # Unnamed /\ MemberIn(type, r).name = Unnamed
  BY DEF Forgot
<1>2. OnWay(q, Append(p, i)) /\ OnWay(r, Append(p, i))
  BY <1>1, WayOn
<1> QED BY <1>1, <1>2, Zenon DEF Forgot

LEMMA RangeOn ==
  ASSUME NEW q, IsSeq(q), NEW e
  PROVE  IsSeq(Append(q, e)) /\ Range(Append(q, e)) = Range(q) \cup {e}
<1> DEFINE a == Append(q, e)
<1>1. /\ Len(q) \in Nat /\ DOMAIN q = 1 .. Len(q) /\ IsSeq(a)
      /\ DOMAIN a = 1 .. Len(q) + 1 /\ \A i \in DOMAIN q : a[i] = q[i]
      /\ a[Len(q) + 1] = e
  BY AppendSeq
<1> HIDE DEF a
<1>2. \A i \in DOMAIN a : i \in DOMAIN q \/ i = Len(q) + 1
  BY <1>1
<1>3. Len(q) + 1 \in DOMAIN a /\ DOMAIN q \subseteq DOMAIN a
  BY <1>1
<1>4. Range(a) \subseteq Range(q) \cup {e}
  BY <1>1, <1>2 DEF Range
<1>5. Range(q) \cup {e} \subseteq Range(a)
  BY <1>1, <1>3 DEF Range
<1> QED BY <1>1, <1>4, <1>5 DEF a

\* The reference of a named member is that of the place it is in and its name.
LEMMA NamedReaches ==
  ASSUME NEW type, NEW t \in Seq(Nat), NEW i \in Nat, NEW m, m = MemberIn(type, Append(t, i)),
         m.name # Unnamed, NEW ref, Reaches(type, t, ref)
  PROVE  Reaches(type, Append(t, i), Reference(ref, m)) /\ HasNames(type, Append(t, i))
<1> DEFINE p == Append(t, i)
<1>1. NamesIn(type, p) = Append(NamesIn(type, t), m.name)
  <2>1. NamesIn(type, p) = OneNameMore(NamesIn(type, t), type, p)
    BY NamesStep, Zenon
  <2> QED BY <2>1, Zenon DEF OneNameMore
<1>2. Reference(ref, m) = Append(ref, m.name)
  BY Zenon DEF Reference
<1>3. IsSeq(Append(ref, m.name)) /\ Range(Append(ref, m.name)) = Range(ref) \cup {m.name}
  BY RangeOn DEF Reaches
<1>4. OnWay(p, p)
  BY WayOn
<1>5. HasNames(type, p)
  BY <1>4, Zenon DEF HasNames
<1>6. Forgot(type, t) => Forgot(type, p)
  BY ForgotOn
<1> HIDE DEF p
<1>7. Unnamed \in Range(Append(ref, m.name)) <=> Unnamed \in Range(ref)
  BY <1>3
<1>8. Reaches(type, p, Append(ref, m.name))
  BY <1>1, <1>3, <1>6, <1>7, Zenon DEF Reaches
<1> QED BY <1>2, <1>5, <1>8, Zenon DEF p

\* An unnamed one has the names of the place it is in, and none once they are forgotten.
LEMMA UnnamedReaches ==
  ASSUME NEW type, NEW t \in Seq(Nat), NEW i \in Nat, MemberIn(type, Append(t, i)).name = Unnamed,
         HasNames(type, t)
  PROVE  Reaches(type, Append(t, i), <<>>) /\ HasNames(type, Append(t, i))
<1> DEFINE p == Append(t, i)
<1>1. NamesIn(type, p) = NamesIn(type, t)
  <2>1. NamesIn(type, p) = OneNameMore(NamesIn(type, t), type, p)
    BY NamesStep, Zenon
  <2> QED BY <2>1, Zenon DEF OneNameMore
<1>2. OnWay(p, p) /\ \A q : OnWay(q, t) => OnWay(q, p) /\ Under(q, p)
  BY WayOn
<1>3. MemberIn(type, p).name = Unnamed
  OBVIOUS
<1> HIDE DEF p
<1>4. HasNames(type, p)
  BY <1>1, <1>2, Zenon DEF HasNames
<1>5. NamesIn(type, t) # <<>> => Forgot(type, p)
  BY <1>2, <1>3, Zenon DEF HasNames, Forgot
<1>6. IsSeq(<<>>) /\ Range(<<>>) = {}
  BY ShortSeq DEF Range
<1>7. Reaches(type, p, <<>>)
  BY <1>1, <1>5, <1>6 DEF Reaches
<1> QED BY <1>4, <1>7 DEF p

\* A union does not look at the name of a struct in it.
LEMMA StructReaches ==
  ASSUME NEW type, NEW t \in Seq(Nat), NEW i \in Nat, Append(t, i) \in PathsIn(type),
         NEW m, m = MemberIn(type, Append(t, i)), m.name = Unnamed, m.kind = "struct",
         KindIn(type, t) = "union", NEW ref, Reaches(type, t, ref), HasNames(type, t)
  PROVE  Reaches(type, Append(t, i), Reference(ref, m)) /\ HasNames(type, Append(t, i))
<1> DEFINE p == Append(t, i)
<1>1. Reference(ref, m) = Append(ref, m.name)
  BY Zenon DEF Reference
<1>2. IsSeq(Append(ref, m.name)) /\ Range(Append(ref, m.name)) = Range(ref) \cup {m.name}
  BY RangeOn DEF Reaches
<1>3. UnnamedStruct(type)
  <2>1. Front(p) = t
    BY OneMore
  <2> QED BY <2>1, Zenon DEF UnnamedStruct
<1>4. HasNames(type, p)
  BY UnnamedReaches
<1> HIDE DEF p
<1>5. Unnamed \in Range(Append(ref, m.name))
  BY <1>2
<1>6. Reaches(type, p, Append(ref, m.name))
  BY <1>2, <1>3, <1>5, Zenon DEF Reaches
<1> QED BY <1>1, <1>4, <1>6, Zenon DEF p

\* The argument itself needs no name.
LEMMA ArgumentReaches == ASSUME NEW type PROVE Reaches(type, <<>>, <<>>) /\ HasNames(type, <<>>)
<1>1. NamesIn(type, <<>>) = <<>>
  BY NamesStep
<1>2. IsSeq(<<>>) /\ Range(<<>>) = {}
  BY ShortSeq DEF Range
<1> QED BY <1>1, <1>2 DEF Reaches, HasNames

LEMMA GrownMeans ==
  ASSUME NEW b, NEW c, NEW s, Grown(b, c, s)
  PROVE  \A i \in DOMAIN c : (i = Len(b) + 1 /\ c[i] = s) \/ (i \in DOMAIN b /\ c[i] = b[i])
<1>1. \A i \in DOMAIN c : i = Len(b) + 1 \/ i \in 1 .. Len(b)
  BY DEF Grown
<1> QED BY <1>1 DEF Grown

\* There is a last generator.
LEMMA TopComes ==
  ASSUME NEW type, NEW fs, NEW n, NEW p, NEW m, Comes(type, fs, n, p, m)
  PROVE  n \in DOMAIN fs /\ n \in Nat /\ DOMAIN fs = 1 .. n
BY DEF Comes

LEMMA RefsState ==
  ASSUME NEW type, NEW fs, NEW gs, NEW n, NEW p, NEW m, NEW b, NEW c, NEW s, Refs(type, fs, b),
         Comes(type, fs, n, p, m), GoneOn(fs, gs, n), Grown(b, c, s), Reaches(type, s.of, s.ref)
  PROVE  Refs(type, gs, c)
<1>1. DOMAIN fs = 1 .. n /\ DOMAIN gs = 1 .. n /\ n \in Nat
  BY DEF Comes, GoneOn
<1>2. ASSUME NEW k \in DOMAIN gs PROVE FrameReaches(type, gs[k])
  <2>1. gs[k].path = fs[k].path /\ gs[k].ref = fs[k].ref
    BY <1>1 DEF GoneOn
  <2>2. FrameReaches(type, fs[k])
    BY <1>1 DEF Refs
  <2> QED BY <2>1, <2>2 DEF FrameReaches
<1>3. ASSUME NEW i \in DOMAIN c PROVE Reaches(type, c[i].of, c[i].ref)
  <2>1. (i = Len(b) + 1 /\ c[i] = s) \/ (i \in DOMAIN b /\ c[i] = b[i])
    BY GrownMeans
  <2> QED BY <2>1 DEF Refs
<1> QED BY <1>2, <1>3 DEF Refs

LEMMA RefsDraw ==
  ASSUME NEW type, NEW fs, NEW b, NEW c, NEW s, Refs(type, fs, b), Grown(b, c, s),
         s.of = <<>>, s.ref = <<>>
  PROVE  Refs(type, fs, c)
<1>1. Reaches(type, s.of, s.ref)
  BY ArgumentReaches
<1>2. ASSUME NEW i \in DOMAIN c PROVE Reaches(type, c[i].of, c[i].ref)
  <2>1. (i = Len(b) + 1 /\ c[i] = s) \/ (i \in DOMAIN b /\ c[i] = b[i])
    BY GrownMeans
  <2> QED BY <1>1, <2>1 DEF Refs
<1> QED BY <1>2 DEF Refs

LEMMA RefsEnter ==
  ASSUME NEW type, NEW fs, NEW gs, NEW hs, NEW n, NEW p, NEW m, NEW b, NEW f, Refs(type, fs, b),
         Comes(type, fs, n, p, m), GoneOn(fs, gs, n), PutOn(gs, hs, n, f), FrameReaches(type, f)
  PROVE  Refs(type, hs, b)
<1>1. DOMAIN fs = 1 .. n /\ DOMAIN hs = 1 .. n + 1 /\ n \in Nat
  BY DEF Comes, PutOn
<1>2. ASSUME NEW k \in DOMAIN hs PROVE FrameReaches(type, hs[k])
  <2>1. CASE k = n + 1
    BY <2>1 DEF PutOn
  <2>2. CASE k # n + 1
    <3>1. k \in 1 .. n
      BY <1>1, <2>2
    <3>2. hs[k].path = fs[k].path /\ hs[k].ref = fs[k].ref
      BY <1>1, <3>1 DEF GoneOn, PutOn
    <3>3. FrameReaches(type, fs[k])
      BY <1>1, <3>1 DEF Refs
    <3> QED BY <3>2, <3>3 DEF FrameReaches
  <2> QED BY <2>1, <2>2
<1> QED BY <1>2 DEF Refs

-----------------------------------------------------------------------------
(* The steps of the generation reach what they are for *)

\* References name what they are for, or the templates have forgotten something.
RefInv ==
  /\ phase # "inject" => Refs(Shape, frames, body)
  /\ phase = "raised" => Unprintable
  /\ phase \in {"made", "called"} => ~Unprintable

\* The reference of the next member, if it has a name, and of what is in it.
LEMMA NextReaches ==
  ASSUME Inv, NestInv, RefInv, HasMember
  PROVE  /\ Refs(Shape, frames, body)
         /\ Member.name # Unnamed => Reaches(Shape, Path, Ref) /\ HasNames(Shape, Path)
         /\ Member.name = Unnamed => Reaches(Shape, Path, <<>>) /\ HasNames(Shape, Path)
         /\ Member.name = Unnamed /\ Member.kind = "struct" /\ Top.by = "union" => Reaches(Shape, Path, Ref)
<1>1. /\ Comes(Shape, frames, Len(frames), Path, Member) /\ phase = "members"
      /\ Top = frames[Len(frames)] /\ Top.by = KindIn(Shape, Top.path)
  BY NextComes
<1>2. Refs(Shape, frames, body)
  BY <1>1 DEF RefInv
<1>3. /\ Top.path \in Seq(Nat) /\ Top.next \in Nat /\ Path = Append(Top.path, Top.next)
      /\ Path \in PathsIn(Shape) /\ Member = MemberIn(Shape, Path) /\ Len(frames) \in DOMAIN frames
  <2>1. Len(frames) \in DOMAIN frames
    BY <1>1, TopComes
  <2> QED BY <1>1, <2>1 DEF Comes
<1>4. Reaches(Shape, Top.path, Top.ref) /\ HasNames(Shape, Top.path)
  BY <1>1, <1>2, <1>3 DEF Refs, FrameReaches
<1>5. Ref = Reference(Top.ref, Member)
  BY DEF Ref
<1>6. Member.name # Unnamed => Reaches(Shape, Path, Ref) /\ HasNames(Shape, Path)
  BY <1>3, <1>4, <1>5, NamedReaches
<1>7. Member.name = Unnamed => Reaches(Shape, Path, <<>>) /\ HasNames(Shape, Path)
  BY <1>3, <1>4, UnnamedReaches
<1>8. Member.name = Unnamed /\ Member.kind = "struct" /\ Top.by = "union" => Reaches(Shape, Path, Ref)
  BY <1>1, <1>3, <1>4, <1>5, StructReaches
<1> QED BY <1>2, <1>6, <1>7, <1>8

LEMMA RefStating ==
  ASSUME Inv, NestInv, RefInv, HasMember, phase' = "members", UNCHANGED <<shapes, at>>,
         frames' = Advanced, Member.kind \in {"plain", "enum"} \/ Member.bits,
         NEW s, body' = Append(body, s), s.of = Path, s.ref = Ref
  PROVE  RefInv'
<1>1. /\ Comes(Shape, frames, Len(frames), Path, Member)
      /\ GoneOn(frames, Advanced, Len(frames)) /\ Grown(body, Append(body, s), s)
      /\ Refs(Shape, frames, body)
  BY NextComes, NextReaches, GrownBy
<1>2. Member.name # Unnamed
  BY <1>1 DEF Comes, IsMember
<1>3. Reaches(Shape, s.of, s.ref)
  BY <1>2, NextReaches
<1>4. Refs(Shape, Advanced, Append(body, s))
  BY <1>1, <1>3, RefsState
<1>5. Shape' = Shape
  BY DEF Shape
<1> QED BY <1>4, <1>5 DEF RefInv

LEMMA RefEntering ==
  ASSUME Inv, NestInv, RefInv, HasMember, phase' = "members", UNCHANGED <<shapes, at>>,
         NEW by, NEW ref, frames' = Append(Advanced, Frame(by, Path, ref)),
         Reaches(Shape, Path, ref),
         UNCHANGED body \/ \E c, ms : body' = Append(body, Draw(c, ms))
  PROVE  RefInv'
<1> DEFINE f == Frame(by, Path, ref)
<1>1. /\ Comes(Shape, frames, Len(frames), Path, Member)
      /\ GoneOn(frames, Advanced, Len(frames)) /\ IsSeq(body)
      /\ IsSeq(Advanced) /\ Len(Advanced) = Len(frames) /\ Refs(Shape, frames, body)
  BY NextComes, NextReaches DEF GoneOn
<1>2. f.path = Path /\ f.ref = ref
  BY DEF Frame
<1>3. PutOn(Advanced, frames', Len(frames), f)
  BY <1>1, PutsOn
<1>4. FrameReaches(Shape, f)
  <2>1. HasNames(Shape, Path)
    BY NextReaches
  <2> HIDE DEF f
  <2> QED BY <1>2, <2>1 DEF FrameReaches
<1> HIDE DEF f
<1>5. Refs(Shape, frames', body)
  BY <1>1, <1>3, <1>4, RefsEnter
<1>6. Refs(Shape, frames', body')
  <2>1. CASE UNCHANGED body
    BY <1>5, <2>1
  <2>2. ASSUME NEW c, NEW ms, body' = Append(body, Draw(c, ms)) PROVE Refs(Shape, frames', body')
    <3> DEFINE s == Draw(c, ms)
    <3>1. s.of = <<>> /\ s.ref = <<>>
      BY DrawSound
    <3> HIDE DEF s
    <3>2. body' = Append(body, s)
      BY <2>2 DEF s
    <3>3. Grown(body, body', s)
      BY <1>1, <3>2, GrownBy
    <3> QED BY <1>5, <3>1, <3>3, RefsDraw
  <2> QED BY <2>1, <2>2
<1>7. Shape' = Shape
  BY DEF Shape
<1> QED BY <1>6, <1>7 DEF RefInv

LEMMA StatementRef ==
  ASSUME NEW op, NEW p, NEW ref, NEW var
  PROVE  Statement(op, p, ref, var).ref = ref /\ Statement(op, p, ref, var).of = p
BY DEF Statement

LEMMA StatesRefs ==
  ASSUME Inv, NestInv, RefInv, CopyMember \/ AssignMember \/ CallMember \/ GuardMember
  PROVE  RefInv'
<1>1. CASE CopyMember
  <2>1. HasMember /\ Member.bits /\ phase' = "members" /\ body' = Append(body, Statement("copy", Path, Ref, context.tmp))
    BY <1>1 DEF CopyMember, HasMember
  <2> QED BY <1>1, <2>1, StatementRef, RefStating DEF CopyMember
<1>2. CASE AssignMember
  <2>1. HasMember /\ Member.kind = "enum" /\ phase' = "members"
        /\ body' = Append(body, Statement("assign", Path, Ref, context.values))
    BY <1>2 DEF AssignMember, HasMember
  <2> QED BY <1>2, <2>1, StatementRef, RefStating DEF AssignMember
<1>3. CASE CallMember
  <2>1. HasMember /\ Member.kind = "plain" /\ phase' = "members" /\ body' = Append(body, Statement("call", Path, Ref, 0))
    BY <1>3 DEF CallMember, HasMember
  <2> QED BY <1>3, <2>1, StatementRef, RefStating DEF CallMember
<1>4. CASE GuardMember
  <2> DEFINE s == [Statement("call", Path, Ref, 0) EXCEPT !.guard = Guard]
  <2>1. HasMember /\ Member.kind = "plain" /\ phase' = "members" /\ body' = Append(body, s)
    BY <1>4 DEF GuardMember, HasMember
  <2>2. s.of = Path /\ s.ref = Ref
    BY GuardFields
  <2> HIDE DEF s
  <2> QED BY <1>4, <2>1, <2>2, RefStating DEF GuardMember
<1> QED BY <1>1, <1>2, <1>3, <1>4

LEMMA EntersRefs ==
  ASSUME Inv, NestInv, RefInv, NestStruct \/ NestUnion \/ NestUnionAgain
  PROVE  RefInv'
<1>1. CASE NestStruct
  <2>1. /\ HasMember /\ Member.kind = "struct" /\ phase' = "members" /\ UNCHANGED <<shapes, at, body>>
        /\ frames' = Append(Advanced, Frame("struct", Path,
                       IF Top.by = "struct" /\ Member.name = Unnamed THEN <<>> ELSE Ref))
    BY <1>1 DEF NestStruct, HasMember
  <2>2. Top.by \in {"struct", "union"}
    <3>1. Top = frames[Len(frames)] /\ Nest(Shape, frames, body) /\ Comes(Shape, frames, Len(frames), Path, Member)
      BY <2>1, NextComes
    <3>2. Len(frames) \in DOMAIN frames
      BY <3>1, TopComes
    <3> QED BY <3>1, <3>2 DEF Nest, NestedIn
  <2>3. CASE Member.name # Unnamed
    <3>1. frames' = Append(Advanced, Frame("struct", Path, Ref)) /\ Reaches(Shape, Path, Ref)
      BY <2>1, <2>3, NextReaches
    <3> QED BY <2>1, <3>1, RefEntering
  <2>4. CASE Member.name = Unnamed /\ Top.by = "struct"
    <3>1. frames' = Append(Advanced, Frame("struct", Path, <<>>)) /\ Reaches(Shape, Path, <<>>)
      BY <2>1, <2>4, NextReaches
    <3> QED BY <2>1, <3>1, RefEntering
  <2>5. CASE Member.name = Unnamed /\ Top.by = "union"
    <3>1. frames' = Append(Advanced, Frame("struct", Path, Ref)) /\ Reaches(Shape, Path, Ref)
      BY <2>1, <2>5, NextReaches
    <3> QED BY <2>1, <3>1, RefEntering
  <2> QED BY <2>2, <2>3, <2>4, <2>5
<1>2. CASE NestUnion \/ NestUnionAgain
  <2>1. /\ HasMember /\ phase' = "members" /\ UNCHANGED <<shapes, at>>
        /\ frames' = Append(Advanced, Frame("union", Path, NestedRef))
        /\ UNCHANGED body \/ \E c, ms : body' = Append(body, Draw(c, ms))
    BY <1>2 DEF NestUnion, NestUnionAgain, HasMember
  <2>2. Reaches(Shape, Path, NestedRef)
    BY <2>1, NextReaches DEF NestedRef
  <2> QED BY <2>1, <2>2, RefEntering
<1> QED BY <1>1, <1>2

LEMMA InjectRefs == ASSUME Inv, NestInv, RefInv, Inject PROVE RefInv'
<1>1. phase' = "members" /\ Shape' = Shape
  BY DEF Inject, Shape
<1>2. ASSUME NEW f, f.path = <<>>, f.ref = <<>> PROVE FrameReaches(Shape, f)
  BY <1>2, ArgumentReaches DEF FrameReaches
<1>3. ASSUME NEW s, s.of = <<>>, s.ref = <<>> PROVE Reaches(Shape, s.of, s.ref)
  BY <1>3, ArgumentReaches
<1>4. ASSUME NEW by, frames' = <<Frame(by, <<>>, <<>>)>> \/ frames' = <<>>,
             body' = <<>> \/ \E s : body' = <<s>> /\ s.of = <<>> /\ s.ref = <<>>
      PROVE  Refs(Shape, frames', body')
  <2>1. Frame(by, <<>>, <<>>).path = <<>> /\ Frame(by, <<>>, <<>>).ref = <<>>
    BY DEF Frame
  <2>2. ASSUME NEW k \in DOMAIN frames' PROVE FrameReaches(Shape, frames'[k])
    <3>1. frames'[k] = Frame(by, <<>>, <<>>)
      BY <1>4, <2>2, ShortSeq
    <3> QED BY <1>2, <2>1, <3>1
  <2>3. ASSUME NEW i \in DOMAIN body' PROVE Reaches(Shape, body'[i].of, body'[i].ref)
    <3>1. PICK s : body' = <<s>> /\ s.of = <<>> /\ s.ref = <<>>
      BY <1>4, <2>3, ShortSeq
    <3>2. body'[i] = s
      BY <2>3, <3>1, ShortSeq
    <3> QED BY <1>3, <3>1, <3>2
  <2> QED BY <2>2, <2>3 DEF Refs
<1>5. \/ \E by : frames' = <<Frame(by, <<>>, <<>>)>>
      \/ frames' = <<>>
  BY DEF Inject
<1>6. \/ body' = <<>>
      \/ body' = <<Draw(context', Shape.members)>>
      \/ body' = <<Statement("assign", <<>>, <<>>, context.values)>>
  BY DEF Inject
<1>7. body' = <<>> \/ \E s : body' = <<s>> /\ s.of = <<>> /\ s.ref = <<>>
  <2>1. \A c, ms : Draw(c, ms).of = <<>> /\ Draw(c, ms).ref = <<>>
    BY DrawSound
  <2>2. ASSUME NEW s, body' = <<s>>, s.of = <<>>, s.ref = <<>>
        PROVE  \E r : body' = <<r>> /\ r.of = <<>> /\ r.ref = <<>>
    BY <2>2
  <2>3. CASE body' = <<Draw(context', Shape.members)>>
    BY <2>1, <2>2, <2>3
  <2>4. CASE body' = <<Statement("assign", <<>>, <<>>, context.values)>>
    BY <2>2, <2>4, StatementRef
  <2> QED BY <1>6, <2>3, <2>4
<1>8. Refs(Shape, frames', body')
  BY <1>4, <1>5, <1>7
<1> QED BY <1>1, <1>8 DEF RefInv

LEMMA EndRefs == ASSUME Inv, NestInv, RefInv, EndMembers PROVE RefInv'
<1>1. /\ phase = "members" /\ phase' = "members" /\ frames # <<>> /\ IsSeq(frames) /\ Shape' = Shape
      /\ frames' = Front(frames) /\ body' = body
  BY DEF EndMembers, Inv, TypeOK, Shape
<1>2. DOMAIN Front(frames) \subseteq DOMAIN frames
      /\ \A k \in DOMAIN Front(frames) : Front(frames)[k] = frames[k]
  BY <1>1, FrontSeq
<1>3. Refs(Shape, Front(frames), body)
  BY <1>1, <1>2 DEF RefInv, Refs
<1> QED BY <1>1, <1>3 DEF RefInv

LEMMA RefInvNext == ASSUME Inv, NestInv, RefInv, [Next]_vars PROVE RefInv'
<1>1. CASE Inject \/ Abandon \/ NextType
  BY <1>1, InjectRefs DEF Abandon, NextType, RefInv
<1>2. CASE Finish
  <2>1. phase = "members" /\ UNCHANGED <<shapes, at, frames, body>> /\ Unprintable' = Unprintable /\ Shape' = Shape
        /\ phase' = IF Unprintable THEN "raised" ELSE "made"
    BY <1>2 DEF Finish, Unprintable, Shape
  <2> QED BY <2>1 DEF RefInv
<1>3. CASE DrawValue \/ NotSelected \/ AssignValue \/ CallMutator \/ EndWalk
  <2>1. phase = "made" /\ phase' \in {"made", "called"} /\ UNCHANGED <<shapes, at, frames, body>>
    BY <1>3 DEF DrawValue, NotSelected, AssignValue, CallMutator, Running, Step, generation, EndWalk
  <2> QED BY <2>1 DEF RefInv, Unprintable, Shape
<1>4. CASE UNCHANGED vars
  BY <1>4 DEF vars, generation, RefInv, Unprintable, Shape
<1> QED BY <1>1, <1>2, <1>3, <1>4, StatesRefs, EntersRefs, EndRefs DEF Next, Ended, Generating, Generate

LEMMA RefAlways == Spec => []RefInv
<1>1. EngineInit => RefInv
  BY DEF EngineInit, Init, RefInv
<1> QED BY <1>1, RefInvNext, InvAlways, NestAlways, PTL DEF Spec

LEMMA ForgotMeans ==
  ASSUME NEW type, IsType(type), NEW p \in LeavesIn(type), Forgot(type, p)
  PROVE  \E q, r \in Above(p) \ {<<>>} :
           Under(q, r) /\ MemberIn(type, q).name # Unnamed /\ MemberIn(type, r).name = Unnamed
<1>1. p \in PathsIn(type) /\ MemberIn(type, p).name # Unnamed
  BY DEF LeavesIn, IsType, IsMember
<1>2. p \in Seq(Nat)
  BY <1>1, PathSeq
<1>3. PICK q, r : /\ OnWay(q, p) /\ OnWay(r, p) /\ Under(q, r)
                  /\ MemberIn(type, q).name # Unnamed /\ MemberIn(type, r).name = Unnamed
  BY DEF Forgot
<1>4. q \in Seq(Nat) /\ r \in Seq(Nat) /\ q # <<>> /\ r # <<>> /\ Under(r, p)
  BY <1>1, <1>3 DEF OnWay
<1>5. Under(q, p)
  <2>1. Len(q) < Len(r) /\ Len(r) < Len(p)
    BY <1>3, <1>4 DEF Under
  <2>2. q # p
    BY <1>2, <1>4, <2>1
  <2> QED BY <1>3, <2>2 DEF OnWay
<1>6. q \in Above(p) /\ r \in Above(p)
  BY <1>2, <1>4, <1>5, AboveMeans
<1> QED BY <1>3, <1>4, <1>6

\* Only for a type with an unnamed struct in a union is there no text of its mutator:
\* no other reference has a name that is None.
THEOREM NoTextMeansUnnamedStruct == Spec => []OnlyUnnamedStructsRaise
<1>1. NestInv /\ RefInv => OnlyUnnamedStructsRaise
  <2> SUFFICES ASSUME NestInv, RefInv, phase = "raised"
               PROVE  \E p \in Paths :
                        MemberAt(p).kind = "struct" /\ MemberAt(p).name = Unnamed /\ KindAt(Front(p)) = "union"
    BY DEF OnlyUnnamedStructsRaise
  <2>1. PICK i \in DOMAIN body : Unnamed \in Range(body[i].ref)
    BY DEF RefInv, Unprintable
  <2>2. UnnamedStruct(Shape)
    BY <2>1 DEF RefInv, Refs, Reaches
  <2> QED BY <2>2, AtMeans DEF UnnamedStruct
<1> QED BY <1>1, NestAlways, RefAlways, PTL

\* Of whatever type a mutator is made, its statements refer to the members they are for,
\* unless the named aggregate around an unnamed one has been forgotten on the way.
THEOREM StatementsReachMembers == Spec => []ReachesMember
<1>1. NestInv /\ RefInv => ReachesMember
  <2> SUFFICES ASSUME NestInv, RefInv, phase = "made", NEW i \in DOMAIN body, body[i].of # <<>>
               PROVE  /\ \/ body[i].ref = Names(body[i].of)
                         \/ \E q, r \in Above(body[i].of) \ {<<>>} :
                              Under(q, r) /\ MemberAt(q).name # Unnamed /\ MemberAt(r).name = Unnamed
                      /\ body[i].op = "call" /\ MemberAt(body[i].of).bits =>
                           KindAt(Front(body[i].of)) = "union"
    BY DEF ReachesMember, Made
  <2> DEFINE p == body[i].of
  <2>1. /\ Nest(Shape, frames, body) /\ IsType(Shape) /\ Refs(Shape, frames, body) /\ ~Unprintable
    BY ShapeKnown DEF NestInv, RefInv
  <2>2. p \in LeavesIn(Shape)
    BY <2>1, SoundOf DEF Nest
  <2>3. body[i].op = "call" /\ MemberAt(p).bits => KindAt(Front(p)) = "union"
    <3>1. SoundIn(Shape, body[i])
      BY <2>1 DEF Nest, AllSound
    <3>2. body[i].op = "call" /\ MemberIn(Shape, p).bits => KindIn(Shape, Front(p)) = "union"
      BY <3>1 DEF SoundIn
    <3> HIDE DEF p
    <3> QED BY <3>2, AtMeans
  <2>4. body[i].ref = NamesIn(Shape, p) \/ Forgot(Shape, p)
    <3>1. Reaches(Shape, p, body[i].ref)
      BY <2>1 DEF Refs
    <3>2. ~(Unnamed \in Range(body[i].ref))
      BY <2>1 DEF Unprintable
    <3> HIDE DEF p
    <3> QED BY <3>1, <3>2 DEF Reaches
  <2> HIDE DEF p
  <2>5. CASE body[i].ref = NamesIn(Shape, p)
    <3>1. body[i].ref = Names(p)
      BY <2>5, NamesAt
    <3> QED BY <2>3, <3>1, Zenon DEF p
  <2>6. CASE Forgot(Shape, p)
    <3>1. \E q, r \in Above(p) \ {<<>>} :
            Under(q, r) /\ MemberIn(Shape, q).name # Unnamed /\ MemberIn(Shape, r).name = Unnamed
      BY <2>1, <2>2, <2>6, ForgotMeans
    <3>2. \E q, r \in Above(p) \ {<<>>} :
            Under(q, r) /\ MemberAt(q).name # Unnamed /\ MemberAt(r).name = Unnamed
      BY <3>1, AtMeans, Zenon
    <3> QED BY <2>3, <3>2, Zenon DEF p
  <2> QED BY <2>4, <2>5, <2>6
<1> QED BY <1>1, NestAlways, RefAlways, PTL

-----------------------------------------------------------------------------
(* Unions *)

\* A union in which there are only unions and what has a mutator.
Strict(type, q) ==
  /\ KindIn(type, q) = "union"
  /\ \A p \in PathsIn(type) : Under(q, p) => MemberIn(type, p).kind \in {"plain", "union"}

\* Up to its next member, has the union q no union in or around it that would share or
\* replace its variable?
Unconfused(type, q, next) ==
  /\ q # <<>> => KindIn(type, Front(q)) # "union"
  /\ \A u \in PathsIn(type) : MemberIn(type, u).kind = "union" /\ Under(q, u) => u[Len(q) + 1] >= next

ConfusedIn(type, p) ==
  \E q \in Above(p) : KindIn(type, q) = "union" /\ \E u \in PathsIn(type) :
    /\ MemberIn(type, u).kind = "union" /\ Under(q, u)
    /\ \/ Len(u) = Len(q) + 1 /\ Under(u, p)
       \/ u[Len(q) + 1] < p[Len(q) + 1]

LEMMA ConfusedMeans == \A p : Confused(p) <=> ConfusedIn(Shape, p)
BY AtMeans DEF Confused, UnionsAbove, ConfusedIn

LEMMA UnderTrans ==
  ASSUME NEW f \in Seq(Nat), NEW q \in Seq(Nat), NEW p \in Seq(Nat), Under(f, q), Under(q, p)
  PROVE  Under(f, p)
<1>1. Len(f) < Len(q) /\ \A j \in 1 .. Len(f) : q[j] = f[j]
  BY UnderMeans, Zenon
<1>2. Len(q) < Len(p) /\ \A j \in 1 .. Len(q) : p[j] = q[j]
  BY UnderMeans, Zenon
<1>3. Under(f, p) <=> Len(f) < Len(p) /\ \A j \in 1 .. Len(f) : p[j] = f[j]
  BY UnderMeans, Zenon
<1>4. Len(f) \in Nat /\ Len(q) \in Nat /\ Len(p) \in Nat
  OBVIOUS
<1>5. Len(f) < Len(p) /\ \A j \in 1 .. Len(f) : j \in 1 .. Len(q)
  BY <1>1, <1>2, <1>4
<1> QED BY <1>1, <1>2, <1>3, <1>5, Zenon

\* What is known of the generators.
LEMMA FrameAt ==
  ASSUME NEW type, NEW fs, NEW n, NEW p, NEW m, Comes(type, fs, n, p, m), NestedIn(type, fs),
         NEW k \in 1 .. n
  PROVE  /\ n \in Nat \ {0} /\ DOMAIN fs = 1 .. n /\ k \in DOMAIN fs /\ k \in Nat /\ n \in 1 .. n
         /\ fs[k].path \in Seq(Nat) /\ PlaceIn(type, fs[k].path)
         /\ Len(fs[k].path) = k - 1 /\ Len(fs[k].path) + 1 = k
         /\ fs[k].by = KindIn(type, fs[k].path) /\ fs[k].by \in {"struct", "union"}
         /\ k # 1 => /\ fs[k].path \in PathsIn(type)
                     /\ KindIn(type, fs[k].path) = MemberIn(type, fs[k].path).kind
         /\ k # n => Under(fs[k].path, fs[n].path) /\ fs[n].path[k] = fs[k].next - 1 /\ n # 1
<1>1. n \in Nat \ {0} /\ DOMAIN fs = 1 .. n
  BY DEF Comes
<1>2. k \in DOMAIN fs /\ k \in Nat /\ n \in DOMAIN fs /\ n \in 1 .. n
  BY <1>1
<1>3. /\ PlaceIn(type, fs[k].path) /\ Len(fs[k].path) = k - 1
      /\ fs[k].by = KindIn(type, fs[k].path) /\ fs[k].by \in {"struct", "union"}
  BY <1>2 DEF NestedIn
<1>4. fs[k].path \in Seq(Nat)
  BY <1>3, PlaceSeq
<1>5. ASSUME k # 1 PROVE fs[k].path \in PathsIn(type) /\ KindIn(type, fs[k].path) = MemberIn(type, fs[k].path).kind
  <2>1. fs[k].path # <<>>
    BY <1>2, <1>3, <1>5
  <2> QED BY <1>3, <2>1 DEF PlaceIn, KindIn
<1>6. ASSUME k # n PROVE Under(fs[k].path, fs[n].path) /\ fs[n].path[k] = fs[k].next - 1 /\ n # 1
  <2>1. k < n
    BY <1>1, <1>6
  <2> QED BY <1>1, <1>2, <2>1 DEF NestedIn
<1>7. Len(fs[k].path) + 1 = k
  BY <1>2, <1>3
<1> QED BY <1>1, <1>2, <1>3, <1>4, <1>5, <1>6, <1>7

LEMMA RunningFrame ==
  ASSUME NEW type, NEW fs, NEW n, NEW p, NEW m, Comes(type, fs, n, p, m), NestedIn(type, fs)
  PROVE  n \in 1 .. n /\ Len(fs[n].path) + 1 = n /\ fs[n].by = KindIn(type, fs[n].path)
<1>1. n \in 1 .. n /\ n \in DOMAIN fs /\ n \in Nat
  BY DEF Comes
<1>2. fs[n].by = KindIn(type, fs[n].path) /\ Len(fs[n].path) = n - 1
  BY <1>1 DEF NestedIn
<1> QED BY <1>1, <1>2

\* The generators are those of the places above the next member.
LEMMA FrameAbove ==
  ASSUME NEW type, NEW fs, NEW n, NEW p, NEW m, Comes(type, fs, n, p, m), NestedIn(type, fs),
         NEW q \in Above(p)
  PROVE  \E k \in 1 .. n : q = fs[k].path
<1>1. /\ n \in Nat \ {0} /\ DOMAIN fs = 1 .. n /\ p \in Seq(Nat) /\ Len(p) = n
      /\ \A k \in 1 .. n : Under(fs[k].path, p) /\ fs[k].path \in Seq(Nat)
  BY DEF Comes
<1>2. q \in Seq(Nat) /\ Under(q, p)
  BY <1>1, AboveMeans
<1>3. Len(q) + 1 \in 1 .. n
  BY <1>1, <1>2 DEF Under
<1> DEFINE k == Len(q) + 1
           r == fs[k].path
<1>4. r \in Seq(Nat) /\ Under(r, p) /\ Len(r) = k - 1
  BY <1>1, <1>3 DEF NestedIn
<1>5. Len(r) = Len(q) /\ SubSeq(p, 1, Len(q)) = q /\ SubSeq(p, 1, Len(r)) = r
  <2>1. SubSeq(p, 1, Len(q)) = q /\ SubSeq(p, 1, Len(r)) = r
    BY <1>2, <1>4 DEF Under
  <2>2. Len(r) = Len(q)
    BY <1>2, <1>4
  <2> QED BY <2>1, <2>2
<1>6. r = q
  BY <1>5, Zenon
<1> QED BY <1>3, <1>6

\* A generator of a union puts nothing on top for a struct.
LEMMA NoneStrict ==
  ASSUME NEW type, NEW fs, NEW n, NEW p, NEW m, Comes(type, fs, n, p, m), NestedIn(type, fs),
         fs[n].by = "struct" \/ m.kind \in {"struct", "enum"}
  PROVE  \A k \in 1 .. n : ~Strict(type, fs[k].path)
<1> SUFFICES ASSUME NEW k \in 1 .. n, Strict(type, fs[k].path) PROVE FALSE
  OBVIOUS
<1>1. /\ n \in Nat \ {0} /\ DOMAIN fs = 1 .. n /\ p \in PathsIn(type) /\ m = MemberIn(type, p)
      /\ Under(fs[k].path, p)
  BY DEF Comes
<1>2. m.kind \in {"plain", "union"}
  BY <1>1 DEF Strict
<1>3. fs[n].by = "struct" /\ KindIn(type, fs[n].path) = "struct" /\ n \in 1 .. n
  BY <1>2, FrameAt
<1>4. k # n
  BY <1>3 DEF Strict
<1>5. Under(fs[k].path, fs[n].path) /\ n # 1
  BY <1>4, FrameAt
<1>6. fs[n].path \in PathsIn(type) /\ KindIn(type, fs[n].path) = MemberIn(type, fs[n].path).kind
  BY <1>3, <1>5, FrameAt, ZenonT(60)
<1> QED BY <1>3, <1>5, <1>6 DEF Strict

\* Once the generator of a union has come to a union below it, it is confused.
LEMMA UnionConfuses ==
  ASSUME NEW type, NEW q \in Seq(Nat), NEW next, NEW u \in PathsIn(type),
         MemberIn(type, u).kind = "union", Under(q, u), ~(u[Len(q) + 1] >= next)
  PROVE  ~Unconfused(type, q, next)
BY DEF Unconfused

\* When nothing has confused the members of a union, the next may be told from all of them.
LEMMA NotConfused ==
  ASSUME NEW type, NEW fs, NEW n, NEW p, NEW m, Comes(type, fs, n, p, m), NestedIn(type, fs),
         fs[n].by = "union", ~ConfusedIn(type, p)
  PROVE  Unconfused(type, fs[n].path, fs[n].next)
<1> DEFINE q == fs[n].path
<1>1. /\ n \in Nat \ {0} /\ DOMAIN fs = 1 .. n /\ p \in PathsIn(type) /\ p \in Seq(Nat) /\ Len(p) = n
      /\ Under(q, p) /\ q \in Seq(Nat) /\ p[n] = fs[n].next /\ fs[n].next \in Nat /\ PlaceIn(type, q)
  BY DEF Comes
<1>2. Len(q) + 1 = n /\ KindIn(type, q) = "union" /\ q \in Above(p)
  <2>2. Len(fs[n].path) + 1 = n /\ fs[n].by = KindIn(type, fs[n].path)
    BY RunningFrame
  <2>3. q \in Above(p)
    BY <1>1, AboveMeans
  <2> QED BY <2>2, <2>3
<1>3. ASSUME NEW u \in PathsIn(type), MemberIn(type, u).kind = "union", Under(q, u), ~(u[Len(q) + 1] >= fs[n].next)
      PROVE  FALSE
  <2>1. u[n] \in Nat
    BY <1>1, <1>2, <1>3, LeafIndex
  <2>2. u[Len(q) + 1] < p[Len(q) + 1]
    BY <1>1, <1>2, <1>3, <2>1
  <2> QED BY <1>2, <1>3, <2>2 DEF ConfusedIn
<1>4. ASSUME q # <<>>, KindIn(type, Front(q)) = "union" PROVE FALSE
  <2> DEFINE f == Front(q)
  <2>1. f \in Seq(Nat) /\ Last(q) \in Nat /\ Append(f, Last(q)) = q /\ Len(q) \in Nat \ {0} /\ Len(f) = Len(q) - 1
    BY <1>1, <1>4, OneLess
  <2>2. Under(f, q)
    <3>1. Under(f, Append(f, Last(q)))
      BY <2>1, UnderOn
    <3> HIDE DEF f
    <3> QED BY <2>1, <3>1
  <2>3. q \in PathsIn(type) /\ MemberIn(type, q).kind = "union"
    BY <1>1, <1>2, <1>4 DEF PlaceIn, KindIn
  <2> HIDE DEF f, q
  <2>4. Under(f, p)
    BY <1>1, <2>1, <2>2, UnderTrans DEF q
  <2>5. f \in Above(p)
    BY <1>1, <2>1, <2>4, AboveMeans
  <2>6. Len(q) = Len(f) + 1
    BY <2>1
  <2>7. KindIn(type, f) = "union"
    BY <1>4 DEF f
  <2> QED BY <1>1, <2>2, <2>3, <2>5, <2>6, <2>7 DEF ConfusedIn
<1> QED BY <1>3, <1>4 DEF Unconfused

-----------------------------------------------------------------------------
(* Guards *)

Asks(s, v, w) == s.guard # <<>> /\ s.guard[1] = v /\ s.guard[2] = w

\* The values of a variable are counted, so no two guards are the same.
GuardsCounted(d, b) ==
  \A i \in DOMAIN b : b[i].guard # <<>> =>
    \E v, w \in Nat : b[i].guard = <<v, w>> /\ v <= d.rnd /\ (v = d.rnd => w < d.current)

GuardsDiffer(b) == \A i, j \in DOMAIN b : \A v, w : Asks(b[i], v, w) /\ Asks(b[j], v, w) => i = j

\* In a strict union all guards ask for the same variable, ...
SameVariable(type, b) ==
  \A i, j \in DOMAIN b : \A q : q \in Above(b[i].of) /\ q \in Above(b[j].of) /\ Strict(type, q) =>
    b[i].guard # <<>> /\ b[j].guard # <<>> /\ b[i].guard[1] = b[j].guard[1]

\* ... which is the one drawn last as long as its generator has not ended.
OpenVariable(type, fs, d, b) ==
  \A k \in DOMAIN fs : Strict(type, fs[k].path) =>
    \A i \in DOMAIN b : Under(fs[k].path, b[i].of) => b[i].guard # <<>> /\ b[i].guard[1] = d.rnd

\* That variable has a value for each member of a union that is not confused, ...
HasRange(d, b, n) == \E j \in DOMAIN b : b[j].op = "draw" /\ b[j].var = d.rnd /\ b[j].range = n

OpenRange(type, fs, d, b) ==
  \A k \in DOMAIN fs : fs[k].by = "union" /\ Unconfused(type, fs[k].path, fs[k].next) =>
    d.current < fs[k].next /\ HasRange(d, b, Len(MembersIn(type, fs[k].path)))

\* ... and the guard of each asks for one that there is.
InRange(type, b) ==
  \A i \in DOMAIN b : b[i].guard # <<>> /\ ~ConfusedIn(type, b[i].of) =>
    \E j \in 1 .. i - 1 : b[j].op = "draw" /\ b[j].var = b[i].guard[1] /\ b[i].guard[2] < b[j].range

Guards(type, b) == GuardsDiffer(b) /\ SameVariable(type, b) /\ InRange(type, b)

OpenGuards(type, fs, d, b) ==
  GuardsCounted(d, b) /\ OpenVariable(type, fs, d, b) /\ OpenRange(type, fs, d, b)

\* A statement that is added keeps them if its own guard does.
LEMMA GuardsGrow ==
  ASSUME NEW type, NEW b, NEW c, NEW s, Guards(type, b), Grown(b, c, s),
         \A v, w : Asks(s, v, w) => \A i \in DOMAIN b : ~Asks(b[i], v, w),
         \A q : q \in Above(s.of) /\ Strict(type, q) =>
           s.guard # <<>> /\ \A i \in DOMAIN b : q \in Above(b[i].of) =>
                               b[i].guard # <<>> /\ b[i].guard[1] = s.guard[1],
         s.guard # <<>> /\ ~ConfusedIn(type, s.of) =>
           \E j \in DOMAIN b : b[j].op = "draw" /\ b[j].var = s.guard[1] /\ s.guard[2] < b[j].range
  PROVE  Guards(type, c)
<1> DEFINE n == Len(b) + 1
<1>1. \A i \in DOMAIN c : (i = n /\ c[i] = s) \/ (i \in DOMAIN b /\ c[i] = b[i])
  BY GrownMeans
<1>2. n \in Nat /\ DOMAIN b = 1 .. n - 1 /\ \A i \in DOMAIN b : i \in DOMAIN c /\ c[i] = b[i]
  BY DEF Grown
<1> HIDE DEF n
<1>3. GuardsDiffer(c)
  <2> SUFFICES ASSUME NEW i \in DOMAIN c, NEW j \in DOMAIN c, NEW v, NEW w, Asks(c[i], v, w), Asks(c[j], v, w)
               PROVE  i = j
    BY DEF GuardsDiffer
  <2>1. CASE i \in DOMAIN b /\ c[i] = b[i] /\ j \in DOMAIN b /\ c[j] = b[j]
    BY <2>1, Zenon DEF Guards, GuardsDiffer
  <2>2. CASE i = n /\ c[i] = s /\ j \in DOMAIN b /\ c[j] = b[j]
    BY <2>2, Zenon
  <2>3. CASE j = n /\ c[j] = s /\ i \in DOMAIN b /\ c[i] = b[i]
    BY <2>3, Zenon
  <2> QED BY <1>1, <2>1, <2>2, <2>3, Zenon
<1>4. SameVariable(type, c)
  <2> SUFFICES ASSUME NEW i \in DOMAIN c, NEW j \in DOMAIN c, NEW q, q \in Above(c[i].of),
                      q \in Above(c[j].of), Strict(type, q)
               PROVE  c[i].guard # <<>> /\ c[j].guard # <<>> /\ c[i].guard[1] = c[j].guard[1]
    BY Zenon DEF SameVariable
  <2>1. CASE i \in DOMAIN b /\ c[i] = b[i] /\ j \in DOMAIN b /\ c[j] = b[j]
    BY <2>1, ZenonT(60) DEF Guards, SameVariable
  <2>2. CASE i = n /\ c[i] = s /\ j \in DOMAIN b /\ c[j] = b[j]
    BY <2>2, Zenon
  <2>3. CASE j = n /\ c[j] = s /\ i \in DOMAIN b /\ c[i] = b[i]
    BY <2>3, Zenon
  <2>4. CASE i = n /\ c[i] = s /\ j = n /\ c[j] = s
    BY <2>4, Zenon
  <2> QED BY <1>1, <2>1, <2>2, <2>3, <2>4, Zenon
<1>5. InRange(type, c)
  <2> SUFFICES ASSUME NEW i \in DOMAIN c, c[i].guard # <<>>, ~ConfusedIn(type, c[i].of)
               PROVE  \E j \in 1 .. i - 1 : /\ c[j].op = "draw" /\ c[j].var = c[i].guard[1]
                                           /\ c[i].guard[2] < c[j].range
    BY DEF InRange
  <2>1. CASE i \in DOMAIN b /\ c[i] = b[i]
    <3>1. PICK j \in 1 .. i - 1 : b[j].op = "draw" /\ b[j].var = b[i].guard[1] /\ b[i].guard[2] < b[j].range
      BY <2>1 DEF Guards, InRange
    <3>2. j \in DOMAIN b
      BY <1>2, <2>1
    <3>3. c[j] = b[j]
      BY <1>2, <3>2
    <3> QED BY <2>1, <3>1, <3>3, Zenon
  <2>2. CASE i = n /\ c[i] = s
    <3>1. PICK j \in DOMAIN b : b[j].op = "draw" /\ b[j].var = s.guard[1] /\ s.guard[2] < b[j].range
      BY <2>2
    <3>2. j \in 1 .. i - 1 /\ c[j] = b[j]
      BY <1>2, <2>2, <3>1
    <3> QED BY <2>2, <3>1, <3>2, Zenon
  <2> QED BY <1>1, <2>1, <2>2, Zenon
<1> QED BY <1>3, <1>4, <1>5 DEF Guards

\* A statement without a guard, for what is in no strict union.
LEMMA GuardsPlain ==
  ASSUME NEW type, NEW b, NEW c, NEW s, Guards(type, b), Grown(b, c, s),
         s.guard = <<>>, \A q \in Above(s.of) : ~Strict(type, q)
  PROVE  Guards(type, c)
BY GuardsGrow, Zenon DEF Asks

LEMMA CountedOn ==
  ASSUME NEW d, NEW b, NEW c, NEW s, NEW e, GuardsCounted(d, b), Grown(b, c, s), s.guard = <<>>,
         e.rnd = d.rnd /\ e.current = d.current
  PROVE  GuardsCounted(e, c)
<1>1. \A i \in DOMAIN c : (i = Len(b) + 1 /\ c[i] = s) \/ (i \in DOMAIN b /\ c[i] = b[i])
  BY GrownMeans
<1> QED BY <1>1 DEF GuardsCounted

LEMMA RangeKept ==
  ASSUME NEW d, NEW b, NEW c, NEW s, NEW e, NEW n, Grown(b, c, s), e.rnd = d.rnd, HasRange(d, b, n)
  PROVE  HasRange(e, c, n)
<1>1. \A i \in DOMAIN b : i \in DOMAIN c /\ c[i] = b[i]
  BY DEF Grown
<1> QED BY <1>1 DEF HasRange

-----------------------------------------------------------------------------
(* The guards as the generators go on *)

\* A union that a union has been come to in is confused.
LEMMA ConfusedOn ==
  ASSUME NEW type, NEW fs, NEW n, NEW p, NEW m, Comes(type, fs, n, p, m), NestedIn(type, fs),
         NEW k \in 1 .. n, k # n /\ fs[n].by = "union"
  PROVE  ~Unconfused(type, fs[k].path, fs[k].next)
<1>0. k # n
  OBVIOUS
<1>1. /\ n \in Nat \ {0} /\ k \in DOMAIN fs /\ k \in Nat /\ fs[k].path \in Seq(Nat) /\ Len(fs[k].path) + 1 = k
  BY FrameAt
<1>6. Under(fs[k].path, fs[n].path) /\ fs[n].path[k] = fs[k].next - 1 /\ n # 1
  BY <1>0, FrameAt
<1>2. n \in 1 .. n
  BY <1>1, <1>6
<1>3. fs[n].path \in PathsIn(type) /\ MemberIn(type, fs[n].path).kind = "union"
  BY <1>1, <1>6, <1>2, FrameAt, SMTT(30)
<1>4. fs[k].next \in Nat
  BY <1>1, <1>6 DEF NestedIn
<1>5. ~(fs[n].path[Len(fs[k].path) + 1] >= fs[k].next)
  BY <1>1, <1>6, <1>4
<1> QED BY <1>1, <1>6, <1>3, <1>5, UnionConfuses, Zenon

LEMMA OpenOn ==
  ASSUME NEW type, NEW fs, NEW gs, NEW n, NEW p, NEW m, Comes(type, fs, n, p, m), NestedIn(type, fs),
         GoneOn(fs, gs, n), NEW k \in 1 .. n, gs[k].by = "union",
         Unconfused(type, gs[k].path, gs[k].next)
  PROVE  /\ fs[k].by = "union" /\ Unconfused(type, fs[k].path, fs[k].next)
         /\ fs[k].next \in Nat /\ gs[k].next \in Nat /\ fs[k].next <= gs[k].next
         /\ gs[k].path = fs[k].path /\ k \in DOMAIN fs
         /\ k = n => gs[k].next = fs[k].next + 1
         /\ k # n => fs[n].by # "union"
         /\ m.kind # "union"
<1>1. /\ n \in Nat \ {0} /\ k \in DOMAIN fs /\ k \in Nat /\ fs[k].path \in Seq(Nat) /\ Len(fs[k].path) + 1 = k
  BY FrameAt
<1>2. /\ gs[k].path = fs[k].path /\ gs[k].by = fs[k].by
      /\ k = n => gs[k].next = fs[k].next + 1
      /\ k # n => gs[k] = fs[k]
  BY <1>1 DEF GoneOn
<1>3. fs[k].next \in Nat /\ gs[k].next \in Nat /\ fs[k].next <= gs[k].next
  <2>1. fs[k].next \in Nat
    BY <1>1 DEF NestedIn
  <2> QED BY <1>2, <2>1
<1>4. Unconfused(type, fs[k].path, fs[k].next)
  <2>1. ASSUME NEW u \in PathsIn(type), MemberIn(type, u).kind = "union", Under(fs[k].path, u)
        PROVE  u[Len(fs[k].path) + 1] >= fs[k].next
    <3>1. u[Len(fs[k].path) + 1] >= gs[k].next
      BY <1>2, <2>1 DEF Unconfused
    <3>2. u[Len(fs[k].path) + 1] \in Nat
      BY <1>1, <2>1, LeafIndex
    <3> QED BY <1>3, <3>1, <3>2
  <2>2. fs[k].path # <<>> => KindIn(type, Front(fs[k].path)) # "union"
    BY <1>2, Zenon DEF Unconfused
  <2> QED BY <2>1, <2>2, Zenon DEF Unconfused
<1>5. k # n => fs[n].by # "union"
  BY <1>4, ConfusedOn
<1>6. m.kind # "union"
  <2> SUFFICES ASSUME m.kind = "union" PROVE FALSE
    OBVIOUS
  <2>1. p \in PathsIn(type) /\ MemberIn(type, p).kind = "union" /\ Under(fs[k].path, p)
    BY <1>1 DEF Comes
  <2>2. p[k] = gs[k].next - 1
    <3>1. CASE k = n
      <4>1. p[n] = fs[n].next
        BY DEF Comes
      <4> QED BY <1>2, <1>3, <3>1, <4>1
    <3>2. CASE k # n
      <4>1. p[k] = fs[k].next - 1
        BY <1>1, <3>2, SMTT(30) DEF Comes
      <4> QED BY <1>2, <3>2, <4>1
    <3> QED BY <3>1, <3>2
  <2>3. ~(p[Len(fs[k].path) + 1] >= gs[k].next)
    BY <1>1, <1>3, <2>2
  <2>4. ~Unconfused(type, fs[k].path, gs[k].next)
    BY <1>1, <2>1, <2>3, UnionConfuses, Zenon
  <2> QED BY <1>2, <2>4
<1> QED BY <1>1, <1>2, <1>3, <1>4, <1>5, <1>6

\* The generator goes on after a statement without a guard.
LEMMA RangesGoOn ==
  ASSUME NEW type, NEW fs, NEW gs, NEW n, NEW p, NEW m, Comes(type, fs, n, p, m), NestedIn(type, fs),
         GoneOn(fs, gs, n), NEW d, NEW b, NEW c, NEW s, NEW e, d.current \in Nat,
         OpenRange(type, fs, d, b), Grown(b, c, s) \/ c = b, e.rnd = d.rnd,
         e.current = d.current \/ (e.current = d.current + 1 /\ fs[n].by = "union")
  PROVE  OpenRange(type, gs, e, c)
<1> SUFFICES ASSUME NEW k \in DOMAIN gs, gs[k].by = "union", Unconfused(type, gs[k].path, gs[k].next)
             PROVE  e.current < gs[k].next /\ HasRange(e, c, Len(MembersIn(type, gs[k].path)))
  BY DEF OpenRange
<1>1. k \in 1 .. n
  BY DEF GoneOn
<1>2. /\ fs[k].by = "union" /\ Unconfused(type, fs[k].path, fs[k].next)
      /\ fs[k].next \in Nat /\ gs[k].next \in Nat /\ fs[k].next <= gs[k].next
      /\ gs[k].path = fs[k].path /\ k \in DOMAIN fs
      /\ k = n => gs[k].next = fs[k].next + 1
      /\ k # n => fs[n].by # "union"
  BY <1>1, OpenOn
<1>3. d.current < fs[k].next /\ HasRange(d, b, Len(MembersIn(type, fs[k].path)))
  BY <1>2 DEF OpenRange
<1>4. HasRange(e, c, Len(MembersIn(type, fs[k].path)))
  <2>1. CASE c = b
    BY <1>3, <2>1 DEF HasRange
  <2>2. CASE Grown(b, c, s)
    BY <1>3, <2>2, RangeKept
  <2> QED BY <2>1, <2>2
<1>5. e.current < gs[k].next
  BY <1>2, <1>3
<1> QED BY <1>2, <1>4, <1>5

LEMMA GuardsState ==
  ASSUME NEW type, NEW fs, NEW gs, NEW n, NEW p, NEW m, Comes(type, fs, n, p, m), NestedIn(type, fs),
         GoneOn(fs, gs, n), NEW d, NEW b, NEW c, NEW s, NEW e, d.current \in Nat,
         Guards(type, b), OpenGuards(type, fs, d, b), Grown(b, c, s), s.of = p, s.guard = <<>>,
         fs[n].by = "struct" \/ m.kind = "enum", e.rnd = d.rnd, e.current = d.current
  PROVE  Guards(type, c) /\ OpenGuards(type, gs, e, c)
<1>1. \A k \in 1 .. n : ~Strict(type, fs[k].path)
  BY NoneStrict
<1>2. \A q \in Above(p) : ~Strict(type, q)
  <2> SUFFICES ASSUME NEW q \in Above(p) PROVE ~Strict(type, q)
    OBVIOUS
  <2>1. PICK k \in 1 .. n : q = fs[k].path
    BY FrameAbove
  <2> QED BY <1>1, <2>1
<1>3. Guards(type, c)
  BY <1>2, GuardsPlain
<1>4. GuardsCounted(e, c)
  BY CountedOn DEF OpenGuards
<1>5. OpenVariable(type, gs, e, c)
  <2>1. \A k \in DOMAIN gs : k \in 1 .. n /\ gs[k].path = fs[k].path
    BY DEF GoneOn
  <2> QED BY <1>1, <2>1, Zenon DEF OpenVariable
<1>6. OpenRange(type, gs, e, c)
  BY RangesGoOn DEF OpenGuards
<1> QED BY <1>3, <1>4, <1>5, <1>6 DEF OpenGuards

\* The generator of a union goes on after a statement with a guard.
LEMMA GuardsGuard ==
  ASSUME NEW type, NEW fs, NEW gs, NEW n, NEW p, NEW m, Comes(type, fs, n, p, m), NestedIn(type, fs),
         GoneOn(fs, gs, n), NEW d, NEW b, NEW c, NEW s, NEW e, d.current \in Nat, d.rnd \in Nat,
         Guards(type, b), OpenGuards(type, fs, d, b), AllSound(type, b), Grown(b, c, s), s.of = p,
         s.guard = <<d.rnd, d.current>>,
         fs[n].by = "union", e.rnd = d.rnd, e.current = d.current + 1
  PROVE  Guards(type, c) /\ OpenGuards(type, gs, e, c)
<1>0. s.guard[1] = d.rnd /\ s.guard[2] = d.current /\ s.guard # <<>>
  OBVIOUS
<1>00. \A i \in DOMAIN c : (i = Len(b) + 1 /\ c[i] = s) \/ (i \in DOMAIN b /\ c[i] = b[i])
  BY GrownMeans
<1>1. ASSUME NEW v, NEW w, Asks(s, v, w), NEW i \in DOMAIN b, Asks(b[i], v, w)
      PROVE  FALSE
  <2>1. v = d.rnd /\ w = d.current /\ b[i].guard # <<>> /\ b[i].guard[1] = v /\ b[i].guard[2] = w
    BY <1>0, <1>1 DEF Asks
  <2>2. PICK x, y \in Nat : b[i].guard = <<x, y>> /\ (x = d.rnd => y < d.current)
    BY <2>1 DEF OpenGuards, GuardsCounted
  <2>3. x = d.rnd /\ y = d.current
    BY <2>1, <2>2
  <2> QED BY <2>2, <2>3
<1>2. ASSUME NEW q, q \in Above(s.of), Strict(type, q)
      PROVE  \A i \in DOMAIN b : q \in Above(b[i].of) => b[i].guard # <<>> /\ b[i].guard[1] = s.guard[1]
  <2>1. PICK k \in 1 .. n : q = fs[k].path
    BY <1>2, FrameAbove
  <2>2. k \in DOMAIN fs
    BY <2>1 DEF Comes
  <2> SUFFICES ASSUME NEW i \in DOMAIN b, q \in Above(b[i].of) PROVE b[i].guard # <<>> /\ b[i].guard[1] = s.guard[1]
    OBVIOUS
  <2>3. Under(q, b[i].of)
    <3>1. b[i].of \in Seq(Nat)
      BY SoundOf
    <3> QED BY <3>1, AboveMeans, Zenon
  <2> QED BY <1>0, <1>2, <2>1, <2>2, <2>3, Zenon DEF OpenGuards, OpenVariable
<1>3. ASSUME ~ConfusedIn(type, s.of)
      PROVE  \E j \in DOMAIN b : b[j].op = "draw" /\ b[j].var = s.guard[1] /\ s.guard[2] < b[j].range
  <2>1. Unconfused(type, fs[n].path, fs[n].next)
    BY <1>3, NotConfused
  <2>2. /\ n \in DOMAIN fs /\ fs[n].next \in Nat /\ fs[n].next <= Len(MembersIn(type, fs[n].path))
        /\ Len(MembersIn(type, fs[n].path)) \in Nat
    <3>1. n \in DOMAIN fs
      BY TopComes
    <3>2. fs[n].next \in 1 .. Len(MembersIn(type, fs[n].path)) + 1
      BY <3>1 DEF NestedIn
    <3> QED BY <3>1, <3>2 DEF Comes
  <2>3. d.current < fs[n].next /\ HasRange(d, b, Len(MembersIn(type, fs[n].path)))
    BY <2>1, <2>2 DEF OpenGuards, OpenRange
  <2>4. d.current < Len(MembersIn(type, fs[n].path))
    BY <2>2, <2>3
  <2> QED BY <1>0, <2>3, <2>4 DEF HasRange
<1>4. Guards(type, c)
  BY <1>0, <1>1, <1>2, <1>3, GuardsGrow, Zenon
<1>5. GuardsCounted(e, c)
  <2> SUFFICES ASSUME NEW i \in DOMAIN c, c[i].guard # <<>>
               PROVE  \E v, w \in Nat : c[i].guard = <<v, w>> /\ v <= e.rnd /\ (v = e.rnd => w < e.current)
    BY DEF GuardsCounted
  <2>1. CASE c[i] = s
    BY <2>1
  <2>2. CASE i \in DOMAIN b /\ c[i] = b[i]
    <3>1. PICK v, w \in Nat : b[i].guard = <<v, w>> /\ v <= d.rnd /\ (v = d.rnd => w < d.current)
      BY <2>2 DEF OpenGuards, GuardsCounted
    <3>2. v <= e.rnd /\ (v = e.rnd => w < e.current)
      BY <3>1
    <3> QED BY <2>2, <3>1, <3>2
  <2> QED BY <1>00, <2>1, <2>2
<1>6. OpenVariable(type, gs, e, c)
  <2> SUFFICES ASSUME NEW k \in DOMAIN gs, Strict(type, gs[k].path), NEW i \in DOMAIN c,
                      Under(gs[k].path, c[i].of)
               PROVE  c[i].guard # <<>> /\ c[i].guard[1] = e.rnd
    BY DEF OpenVariable
  <2>1. k \in DOMAIN fs /\ gs[k].path = fs[k].path
    BY TopComes DEF GoneOn
  <2>2. CASE c[i] = s
    BY <1>0, <2>2
  <2>3. CASE i \in DOMAIN b /\ c[i] = b[i]
    <3>1. b[i].guard # <<>> /\ b[i].guard[1] = d.rnd
      BY <2>1, <2>3 DEF OpenGuards, OpenVariable
    <3> QED BY <2>3, <3>1
  <2> QED BY <1>00, <2>2, <2>3
<1>7. OpenRange(type, gs, e, c)
  BY RangesGoOn DEF OpenGuards
<1> QED BY <1>4, <1>5, <1>6, <1>7 DEF OpenGuards

LEMMA PutFrames ==
  ASSUME NEW type, NEW fs, NEW gs, NEW hs, NEW n, NEW p, NEW m, NEW f, Comes(type, fs, n, p, m),
         GoneOn(fs, gs, n), PutOn(gs, hs, n, f), NEW k \in DOMAIN hs
  PROVE  \/ k = n + 1 /\ hs[k] = f
         \/ k \in 1 .. n /\ k \in DOMAIN gs /\ k \in DOMAIN fs /\ hs[k] = gs[k] /\ gs[k].path = fs[k].path
<1>1. DOMAIN fs = 1 .. n /\ DOMAIN gs = 1 .. n /\ DOMAIN hs = 1 .. n + 1 /\ n \in Nat
  BY DEF Comes, GoneOn, PutOn
<1>2. CASE k = n + 1
  BY <1>2 DEF PutOn
<1>3. CASE k # n + 1
  <2>1. k \in 1 .. n
    BY <1>1, <1>3
  <2> QED BY <1>1, <2>1 DEF GoneOn, PutOn
<1> QED BY <1>2, <1>3

\* Nothing is above the argument.
LEMMA NoneAbove == /\ Above(<<>>) = {}
                   /\ \A q \in Seq(Nat) : ~Under(q, <<>>)
<1>1. Len(<<>>) = 0
  OBVIOUS
<1>2. 0 .. Len(<<>>) - 1 = {}
  BY <1>1
<1>3. Above(<<>>) = {}
  BY <1>2 DEF Above
<1> QED BY <1>1, <1>3 DEF Under

\* A generator is put on top and nothing is drawn for it.
LEMMA GuardsEnter ==
  ASSUME NEW type, NEW fs, NEW gs, NEW hs, NEW n, NEW p, NEW m, Comes(type, fs, n, p, m),
         NestedIn(type, fs), GoneOn(fs, gs, n), NEW f, PutOn(gs, hs, n, f), NEW d, NEW b,
         d.current \in Nat, AllSound(type, b), Behind(fs, b), OpenGuards(type, fs, d, b),
         f.path = p, f.by = m.kind, m.kind = "struct" \/ (m.kind = "union" /\ fs[n].by = "union")
  PROVE  OpenGuards(type, hs, d, b)
<1>1. OpenVariable(type, hs, d, b)
  <2> SUFFICES ASSUME NEW k \in DOMAIN hs, Strict(type, hs[k].path), NEW i \in DOMAIN b,
                      Under(hs[k].path, b[i].of)
               PROVE  b[i].guard # <<>> /\ b[i].guard[1] = d.rnd
    BY DEF OpenVariable
  <2>1. \/ k = n + 1 /\ hs[k] = f
        \/ k \in 1 .. n /\ k \in DOMAIN gs /\ k \in DOMAIN fs /\ hs[k] = gs[k] /\ gs[k].path = fs[k].path
    BY PutFrames
  <2>2. CASE hs[k] = f
    <3>1. ~Under(p, b[i].of)
      BY NoneYet
    <3> QED BY <2>2, <3>1
  <2>3. CASE k \in DOMAIN fs /\ hs[k].path = fs[k].path
    BY <2>3 DEF OpenGuards, OpenVariable
  <2> QED BY <2>1, <2>2, <2>3
<1>2. OpenRange(type, gs, d, b)
  BY RangesGoOn DEF OpenGuards
<1>3. OpenRange(type, hs, d, b)
  <2> SUFFICES ASSUME NEW k \in DOMAIN hs, hs[k].by = "union", Unconfused(type, hs[k].path, hs[k].next)
               PROVE  d.current < hs[k].next /\ HasRange(d, b, Len(MembersIn(type, hs[k].path)))
    BY DEF OpenRange
  <2>1. \/ k = n + 1 /\ hs[k] = f
        \/ k \in 1 .. n /\ k \in DOMAIN gs /\ k \in DOMAIN fs /\ hs[k] = gs[k] /\ gs[k].path = fs[k].path
    BY PutFrames
  <2>2. hs[k] # f
    <3> SUFFICES ASSUME hs[k] = f PROVE FALSE
      OBVIOUS
    <3>1. m.kind = "union" /\ fs[n].by = "union"
      OBVIOUS
    <3>2. p # <<>> /\ Front(p) = fs[n].path
      BY PathSeq DEF Comes
    <3>3. n \in 1 .. n /\ n \in Nat
      BY DEF Comes
    <3>4. fs[n].by = KindIn(type, fs[n].path)
      BY <3>3, FrameAt
    <3>5. KindIn(type, Front(p)) # "union"
      BY <3>2, Zenon DEF Unconfused
    <3> QED BY <3>1, <3>2, <3>4, <3>5
  <2> QED BY <1>2, <2>1, <2>2 DEF OpenRange
<1> QED BY <1>1, <1>3 DEF OpenGuards

\* One is put on top for a union, and a value is drawn for it.
LEMMA GuardsDraw ==
  ASSUME NEW type, NEW fs, NEW gs, NEW hs, NEW n, NEW p, NEW m, Comes(type, fs, n, p, m),
         NestedIn(type, fs), GoneOn(fs, gs, n), NEW f, PutOn(gs, hs, n, f), NEW d, NEW b, NEW c, NEW s,
         NEW e, AllSound(type, b), Behind(fs, b), Guards(type, b), OpenGuards(type, fs, d, b),
         Grown(b, c, s), s.of = <<>>, s.guard = <<>>, s.op = "draw", s.var = e.rnd,
         s.range = Len(m.members), d.rnd \in Nat, e.rnd = d.rnd + 1, e.current = 0,
         f.path = p, f.next = 1, m.kind = "union", fs[n].by = "struct"
  PROVE  Guards(type, c) /\ OpenGuards(type, hs, e, c)
<1>1. \A i \in DOMAIN c : (i = Len(b) + 1 /\ c[i] = s) \/ (i \in DOMAIN b /\ c[i] = b[i])
  BY GrownMeans
<1>2. Guards(type, c)
  BY NoneAbove, GuardsPlain
<1>3. GuardsCounted(e, c)
  <2> SUFFICES ASSUME NEW i \in DOMAIN c, c[i].guard # <<>>
               PROVE  \E v, w \in Nat : c[i].guard = <<v, w>> /\ v <= e.rnd /\ (v = e.rnd => w < e.current)
    BY DEF GuardsCounted
  <2>1. i \in DOMAIN b /\ c[i] = b[i]
    BY <1>1
  <2>2. PICK v, w \in Nat : b[i].guard = <<v, w>> /\ v <= d.rnd
    BY <2>1 DEF OpenGuards, GuardsCounted
  <2>3. v <= e.rnd /\ v # e.rnd
    BY <2>2
  <2> QED BY <2>1, <2>2, <2>3
<1>4. OpenVariable(type, hs, e, c)
  <2> SUFFICES ASSUME NEW k \in DOMAIN hs, Strict(type, hs[k].path), NEW i \in DOMAIN c,
                      Under(hs[k].path, c[i].of)
               PROVE  FALSE
    BY DEF OpenVariable
  <2>1. \A j \in 1 .. n : ~Strict(type, fs[j].path)
    BY NoneStrict
  <2>2. hs[k] = f
    BY <2>1, PutFrames
  <2>3. p \in Seq(Nat)
    BY DEF Comes
  <2>4. c[i] # s
    BY <2>2, <2>3, NoneAbove
  <2>5. i \in DOMAIN b /\ c[i] = b[i]
    BY <1>1, <2>4
  <2>6. ~Under(p, b[i].of)
    BY <2>5, NoneYet
  <2> QED BY <2>2, <2>5, <2>6
<1>5. OpenRange(type, hs, e, c)
  <2> SUFFICES ASSUME NEW k \in DOMAIN hs, hs[k].by = "union", Unconfused(type, hs[k].path, hs[k].next)
               PROVE  e.current < hs[k].next /\ HasRange(e, c, Len(MembersIn(type, hs[k].path)))
    BY DEF OpenRange
  <2>1. hs[k] = f
    <3>1. ASSUME k \in 1 .. n, hs[k] = gs[k] PROVE FALSE
      BY <3>1, OpenOn
    <3> QED BY <3>1, PutFrames
  <2>2. MembersIn(type, p) = m.members
    BY DEF Comes
  <2>3. Len(b) + 1 \in DOMAIN c /\ c[Len(b) + 1] = s
    BY DEF Grown
  <2>4. HasRange(e, c, Len(MembersIn(type, p)))
    BY <2>2, <2>3 DEF HasRange
  <2> QED BY <2>1, <2>4
<1> QED BY <1>2, <1>3, <1>4, <1>5 DEF OpenGuards

\* A generator ends.
LEMMA GuardsEnd ==
  ASSUME NEW type, NEW fs, IsSeq(fs), fs # <<>>, NEW d, NEW b, OpenGuards(type, fs, d, b)
  PROVE  OpenGuards(type, Front(fs), d, b)
<1>1. DOMAIN Front(fs) \subseteq DOMAIN fs /\ \A k \in DOMAIN Front(fs) : Front(fs)[k] = fs[k]
  BY FrontSeq
<1>2. OpenVariable(type, Front(fs), d, b)
  BY <1>1 DEF OpenGuards, OpenVariable
<1>3. OpenRange(type, Front(fs), d, b)
  BY <1>1 DEF OpenGuards, OpenRange
<1> QED BY <1>2, <1>3 DEF OpenGuards

-----------------------------------------------------------------------------
(* The steps of the generation and the guards *)

\* The guards of what is stated, and what the generators have counted and drawn.
GuardInv ==
  phase # "inject" =>
    Guards(Shape, body) /\ (phase = "members" => OpenGuards(Shape, frames, context, body))

LEMMA NextGuards ==
  ASSUME Inv, NestInv, GuardInv, HasMember
  PROVE  /\ Comes(Shape, frames, Len(frames), Path, Member)
         /\ GoneOn(frames, Advanced, Len(frames))
         /\ NestedIn(Shape, frames) /\ AllSound(Shape, body) /\ Behind(frames, body) /\ IsSeq(body)
         /\ Guards(Shape, body) /\ OpenGuards(Shape, frames, context, body)
         /\ context.rnd \in Nat /\ context.current \in Nat /\ context \in Contexts
         /\ Top = frames[Len(frames)]
         /\ IsSeq(Advanced) /\ Len(Advanced) = Len(frames) /\ phase = "members"
<1>1. /\ Comes(Shape, frames, Len(frames), Path, Member)
      /\ GoneOn(frames, Advanced, Len(frames)) /\ Nest(Shape, frames, body) /\ IsSeq(body)
      /\ phase = "members" /\ Top = frames[Len(frames)]
  BY NextComes
<1>2. context \in Contexts
  BY DEF Inv, TypeOK
<1> QED BY <1>1, <1>2 DEF Nest, GuardInv, Contexts, GoneOn

LEMMA GuardStating ==
  ASSUME Inv, NestInv, GuardInv, HasMember, phase' = "members", UNCHANGED <<shapes, at>>,
         frames' = Advanced, NEW s, body' = Append(body, s), s.of = Path, s.guard = <<>>,
         Top.by = "struct" \/ Member.kind = "enum",
         context'.rnd = context.rnd, context'.current = context.current
  PROVE  GuardInv'
<1>1. /\ Comes(Shape, frames, Len(frames), Path, Member)
      /\ GoneOn(frames, Advanced, Len(frames)) /\ Grown(body, Append(body, s), s)
      /\ NestedIn(Shape, frames) /\ Top = frames[Len(frames)]
      /\ Guards(Shape, body) /\ OpenGuards(Shape, frames, context, body) /\ context.current \in Nat
  BY NextGuards, GrownBy
<1>2. Guards(Shape, Append(body, s)) /\ OpenGuards(Shape, Advanced, context', Append(body, s))
  BY <1>1, GuardsState
<1>3. Shape' = Shape
  BY DEF Shape
<1> QED BY <1>2, <1>3 DEF GuardInv

LEMMA StatesGuards ==
  ASSUME Inv, NestInv, GuardInv, CopyMember \/ AssignMember \/ CallMember
  PROVE  GuardInv'
<1>0. context \in Contexts
  BY DEF Inv, TypeOK
<1>1. CASE CopyMember
  <2> DEFINE s == Statement("copy", Path, Ref, context.tmp)
  <2>1. HasMember /\ Top.by = "struct" /\ phase' = "members" /\ body' = Append(body, s)
    BY <1>1 DEF CopyMember, HasMember
  <2>2. s.of = Path /\ s.guard = <<>>
    BY StatementFields
  <2>3. context'.rnd = context.rnd /\ context'.current = context.current
    BY <1>0, <1>1 DEF CopyMember, Contexts
  <2> HIDE DEF s
  <2> QED BY <1>1, <2>1, <2>2, <2>3, GuardStating DEF CopyMember
<1>2. CASE AssignMember
  <2> DEFINE s == Statement("assign", Path, Ref, context.values)
  <2>1. HasMember /\ Member.kind = "enum" /\ phase' = "members" /\ body' = Append(body, s)
    BY <1>2 DEF AssignMember, HasMember
  <2>2. s.of = Path /\ s.guard = <<>>
    BY StatementFields
  <2>3. context'.rnd = context.rnd /\ context'.current = context.current
    BY <1>0, <1>2 DEF AssignMember, Contexts
  <2> HIDE DEF s
  <2> QED BY <1>2, <2>1, <2>2, <2>3, GuardStating DEF AssignMember
<1>3. CASE CallMember
  <2> DEFINE s == Statement("call", Path, Ref, 0)
  <2>1. HasMember /\ Top.by = "struct" /\ phase' = "members" /\ body' = Append(body, s)
        /\ context' = context
    BY <1>3 DEF CallMember, HasMember
  <2>2. s.of = Path /\ s.guard = <<>>
    BY StatementFields
  <2> HIDE DEF s
  <2> QED BY <1>3, <2>1, <2>2, GuardStating DEF CallMember
<1> QED BY <1>1, <1>2, <1>3

LEMMA GuardGuards == ASSUME Inv, NestInv, GuardInv, GuardMember PROVE GuardInv'
<1> DEFINE s == [Statement("call", Path, Ref, 0) EXCEPT !.guard = Guard]
<1>1. HasMember /\ Top.by = "union" /\ phase' = "members" /\ body' = Append(body, s)
      /\ frames' = Advanced /\ UNCHANGED <<shapes, at>>
  BY DEF GuardMember, HasMember
<1>2. s.of = Path /\ s.guard = <<context.rnd, context.current>>
  BY GuardFields DEF Guard
<1> HIDE DEF s
<1>3. /\ Comes(Shape, frames, Len(frames), Path, Member)
      /\ GoneOn(frames, Advanced, Len(frames)) /\ Grown(body, Append(body, s), s)
      /\ NestedIn(Shape, frames) /\ AllSound(Shape, body) /\ Top = frames[Len(frames)]
      /\ Guards(Shape, body) /\ OpenGuards(Shape, frames, context, body)
      /\ context.rnd \in Nat /\ context.current \in Nat /\ context \in Contexts
  BY <1>1, NextGuards, GrownBy
<1>4. context'.rnd = context.rnd /\ context'.current = context.current + 1
  BY <1>3 DEF GuardMember, Contexts
<1>5. Guards(Shape, Append(body, s)) /\ OpenGuards(Shape, Advanced, context', Append(body, s))
  BY <1>1, <1>2, <1>3, <1>4, GuardsGuard
<1>6. Shape' = Shape
  BY <1>1 DEF Shape
<1> QED BY <1>1, <1>5, <1>6 DEF GuardInv

LEMMA FrameFields ==
  ASSUME NEW by, NEW p, NEW ref
  PROVE  Frame(by, p, ref).by = by /\ Frame(by, p, ref).path = p /\ Frame(by, p, ref).next = 1
BY DEF Frame

LEMMA EntersGuards ==
  ASSUME Inv, NestInv, GuardInv, NestStruct \/ NestUnionAgain
  PROVE  GuardInv'
<1>1. PICK ref : frames' = Append(Advanced, Frame(Member.kind, Path, ref))
  BY DEF NestStruct, NestUnionAgain
<1>2. /\ HasMember /\ phase' = "members" /\ UNCHANGED <<shapes, at, body, context>>
      /\ Member.kind = "struct" \/ (Member.kind = "union" /\ Top.by = "union")
  BY DEF NestStruct, NestUnionAgain, HasMember
<1> DEFINE f == Frame(Member.kind, Path, ref)
<1>3. f.by = Member.kind /\ f.path = Path
  BY FrameFields
<1> HIDE DEF f
<1>4. /\ Comes(Shape, frames, Len(frames), Path, Member)
      /\ GoneOn(frames, Advanced, Len(frames))
      /\ NestedIn(Shape, frames) /\ AllSound(Shape, body) /\ Behind(frames, body)
      /\ Top = frames[Len(frames)] /\ IsSeq(Advanced) /\ Len(Advanced) = Len(frames)
      /\ Guards(Shape, body) /\ OpenGuards(Shape, frames, context, body) /\ context.current \in Nat
  BY <1>2, NextGuards
<1>5. PutOn(Advanced, frames', Len(frames), f)
  BY <1>1, <1>4, PutsOn DEF f
<1>6. OpenGuards(Shape, frames', context, body)
  BY <1>2, <1>3, <1>4, <1>5, GuardsEnter
<1>7. Shape' = Shape
  BY <1>2 DEF Shape
<1> QED BY <1>2, <1>4, <1>6, <1>7 DEF GuardInv

LEMMA DrawsGuards == ASSUME Inv, NestInv, GuardInv, NestUnion PROVE GuardInv'
<1> DEFINE s == Draw(context', Member.members)
           f == Frame("union", Path, NestedRef)
<1>1. /\ HasMember /\ phase' = "members" /\ UNCHANGED <<shapes, at>>
      /\ Member.kind = "union" /\ Top.by = "struct"
      /\ frames' = Append(Advanced, f) /\ body' = Append(body, s) /\ context' = Random(context)
  BY DEF NestUnion, HasMember
<1>2. s.of = <<>> /\ s.guard = <<>> /\ s.op = "draw" /\ s.var = context'.rnd /\ s.range = Len(Member.members)
  BY DrawSound, ZenonT(60)
<1>3. f.path = Path /\ f.next = 1
  BY FrameFields
<1> HIDE DEF s, f
<1>4. /\ Comes(Shape, frames, Len(frames), Path, Member)
      /\ GoneOn(frames, Advanced, Len(frames)) /\ Grown(body, body', s)
      /\ NestedIn(Shape, frames) /\ AllSound(Shape, body) /\ Behind(frames, body)
      /\ Top = frames[Len(frames)] /\ IsSeq(Advanced) /\ Len(Advanced) = Len(frames)
      /\ Guards(Shape, body) /\ OpenGuards(Shape, frames, context, body)
      /\ context.rnd \in Nat /\ context \in Contexts
  BY <1>1, NextGuards, GrownBy
<1>5. PutOn(Advanced, frames', Len(frames), f)
  BY <1>1, <1>4, PutsOn
<1>6. context'.rnd = context.rnd + 1 /\ context'.current = 0
  <2>1. Random(context).rnd = context.rnd + 1
    BY <1>4, RandomNext
  <2>2. Random(context).current = 0
    BY <1>4 DEF Random, Contexts
  <2> QED BY <1>1, <2>1, <2>2
<1>7. Guards(Shape, body') /\ OpenGuards(Shape, frames', context', body')
  BY <1>1, <1>2, <1>3, <1>4, <1>5, <1>6, GuardsDraw
<1>8. Shape' = Shape
  BY <1>1 DEF Shape
<1> QED BY <1>1, <1>7, <1>8 DEF GuardInv

\* A body starts without a guard.
LEMMA GuardsStart ==
  ASSUME NEW type, NEW b, \A i \in DOMAIN b : b[i].guard = <<>> /\ b[i].of = <<>>,
         NEW d, NEW fs, \A k \in DOMAIN fs : fs[k].path = <<>>
  PROVE  Guards(type, b) /\ GuardsCounted(d, b) /\ OpenVariable(type, fs, d, b)
<1>1. Above(<<>>) = {} /\ ~Under(<<>>, <<>>)
  BY NoneAbove DEF Under
<1>2. GuardsDiffer(b) /\ GuardsCounted(d, b) /\ InRange(type, b)
  BY DEF GuardsDiffer, Asks, GuardsCounted, InRange
<1>3. SameVariable(type, b)
  BY <1>1, Zenon DEF SameVariable
<1>4. OpenVariable(type, fs, d, b)
  BY <1>1, Zenon DEF OpenVariable
<1> QED BY <1>2, <1>3, <1>4 DEF Guards

LEMMA InjectGuards == ASSUME Inv, NestInv, GuardInv, Inject PROVE GuardInv'
<1>1. phase' = "members" /\ Shape' = Shape /\ context \in Contexts
  BY DEF Inject, Shape, Inv, TypeOK
<1>2. CASE Shape.kind = "struct" /\ frames' = <<Frame("struct", <<>>, <<>>)>> /\ body' = <<>>
  <2> DEFINE f == Frame("struct", <<>>, <<>>)
  <2>1. f.by = "struct" /\ f.path = <<>>
    BY FrameFields
  <2> HIDE DEF f
  <2>2. DOMAIN body' = {} /\ \A k \in DOMAIN frames' : frames'[k] = f
    BY <1>2, ShortSeq DEF f
  <2>3. Guards(Shape, body') /\ GuardsCounted(context', body') /\ OpenVariable(Shape, frames', context', body')
    BY <2>1, <2>2, GuardsStart
  <2>4. OpenRange(Shape, frames', context', body')
    BY <2>1, <2>2 DEF OpenRange
  <2> QED BY <1>1, <2>3, <2>4 DEF GuardInv, OpenGuards
<1>3. CASE /\ Shape.kind = "union" /\ context' = Random(context)
           /\ frames' = <<Frame("union", <<>>, <<>>)>> /\ body' = <<Draw(context', Shape.members)>>
  <2> DEFINE f == Frame("union", <<>>, <<>>)
             s == Draw(context', Shape.members)
  <2>1. f.path = <<>> /\ f.next = 1
    BY FrameFields
  <2>2. s.of = <<>> /\ s.guard = <<>> /\ s.op = "draw" /\ s.var = context'.rnd /\ s.range = Len(Shape.members)
    BY DrawSound, ZenonT(60)
  <2> HIDE DEF f, s
  <2>3. /\ DOMAIN body' = {1} /\ body'[1] = s
        /\ \A k \in DOMAIN frames' : frames'[k] = f
    BY <1>3, ShortSeq DEF f, s
  <2>4. Guards(Shape, body') /\ GuardsCounted(context', body') /\ OpenVariable(Shape, frames', context', body')
    BY <2>1, <2>2, <2>3, GuardsStart
  <2>5. context'.current = 0
    BY <1>1, <1>3 DEF Random, Contexts
  <2>6. HasRange(context', body', Len(MembersIn(Shape, <<>>)))
    BY <2>2, <2>3, MembersStep DEF HasRange
  <2>7. OpenRange(Shape, frames', context', body')
    BY <2>1, <2>3, <2>5, <2>6 DEF OpenRange
  <2> QED BY <1>1, <2>4, <2>7 DEF GuardInv, OpenGuards
<1>4. CASE /\ Shape.kind = "enum"
           /\ frames' = <<>> /\ body' = <<Statement("assign", <<>>, <<>>, context.values)>>
  <2> DEFINE s == Statement("assign", <<>>, <<>>, context.values)
  <2>1. s.of = <<>> /\ s.guard = <<>>
    BY StatementFields
  <2> HIDE DEF s
  <2>2. DOMAIN body' = {1} /\ body'[1] = s /\ DOMAIN frames' = {}
    BY <1>4, ShortSeq DEF s
  <2>3. Guards(Shape, body') /\ GuardsCounted(context', body') /\ OpenVariable(Shape, frames', context', body')
    BY <2>1, <2>2, GuardsStart
  <2>4. OpenRange(Shape, frames', context', body')
    BY <2>2 DEF OpenRange
  <2> QED BY <1>1, <2>3, <2>4 DEF GuardInv, OpenGuards
<1> QED BY <1>2, <1>3, <1>4 DEF Inject

LEMMA EndGuards == ASSUME Inv, NestInv, GuardInv, EndMembers PROVE GuardInv'
<1>1. /\ phase = "members" /\ phase' = "members" /\ frames # <<>> /\ IsSeq(frames) /\ Shape' = Shape
      /\ frames' = Front(frames) /\ UNCHANGED <<body, context>>
  BY DEF EndMembers, Inv, TypeOK, Shape
<1>2. OpenGuards(Shape, Front(frames), context, body)
  BY <1>1, GuardsEnd DEF GuardInv
<1> QED BY <1>1, <1>2 DEF GuardInv

LEMMA GuardInvNext == ASSUME Inv, NestInv, GuardInv, [Next]_vars PROVE GuardInv'
<1>1. CASE Abandon \/ NextType
  BY <1>1 DEF Abandon, NextType, GuardInv
<1>2. CASE Finish \/ DrawValue \/ NotSelected \/ AssignValue \/ CallMutator \/ EndWalk
  <2>1. phase # "inject" /\ phase' # "members" /\ UNCHANGED <<shapes, at, body>>
    BY <1>2 DEF Finish, DrawValue, NotSelected, AssignValue, CallMutator, Running, Step, generation, EndWalk
  <2> QED BY <2>1 DEF GuardInv, Shape
<1>3. CASE UNCHANGED vars
  BY <1>3 DEF vars, generation, GuardInv, Shape
<1> QED BY <1>1, <1>2, <1>3, InjectGuards, StatesGuards, GuardGuards, EntersGuards, DrawsGuards, EndGuards
           DEF Next, Ended, Generating, Generate

LEMMA GuardAlways == Spec => []GuardInv
<1>1. EngineInit => GuardInv
  BY DEF EngineInit, Init, GuardInv
<1> QED BY <1>1, GuardInvNext, InvAlways, NestAlways, PTL DEF Spec

\* The drawing that a guard asks about is the one there is.
LEMMA DrawingIs ==
  ASSUME Unique, IsSeq(body), NEW i \in DOMAIN body, NEW v, NEW j \in 1 .. i - 1,
         body[j].op = "draw", body[j].var = v
  PROVE  Drawing(i, v) = j
<1> DEFINE D(h) == /\ body[h].op = "draw" /\ body[h].var = v
                   /\ \A g \in h + 1 .. i - 1 : body[g].op = "draw" => body[g].var # v
<1>1. DOMAIN body = 1 .. Len(body) /\ Len(body) \in Nat
  BY DEF IsSeq
<1>2. \A h \in 1 .. i - 1 : h \in DOMAIN body /\ h \in Nat
  BY <1>1
<1>3. \A h \in 1 .. i - 1 : body[h].op = "draw" /\ body[h].var = v => h = j
  BY <1>2 DEF Unique
<1>4. D(j)
  <2> SUFFICES ASSUME NEW g \in j + 1 .. i - 1, body[g].op = "draw", body[g].var = v PROVE FALSE
    OBVIOUS
  <2>1. g \in 1 .. i - 1 /\ g # j
    BY <1>1, <1>2
  <2> QED BY <1>3, <2>1
<1>5. Drawing(i, v) = CHOOSE h \in 1 .. i - 1 : D(h)
  BY DEF Drawing
<1>6. \A h \in 1 .. i - 1 : D(h) => h = j
  BY <1>3
<1> HIDE DEF D
<1> QED BY <1>4, <1>5, <1>6

\* Of whatever type a mutator is made, each member that has a value has one statement,
\* and unless a union has confused its guard the random value it asks for can be drawn.
THEOREM EveryMemberStated == Spec => []EveryMember
<1>1. Inv /\ NestInv /\ GuardInv => EveryMember
  <2> SUFFICES ASSUME Inv, NestInv, GuardInv, phase = "made", NEW p \in Leaves
               PROVE  \E i \in DOMAIN body :
                        /\ body[i].of = p /\ \A j \in DOMAIN body : body[j].of = p => j = i
                        /\ Selectable(i) \/ Confused(p)
    BY DEF EveryMember, Made
  <2>1. /\ frames = <<>> /\ Nest(Shape, frames, body) /\ Guards(Shape, body) /\ Unique /\ IsSeq(body)
    BY DEF NestInv, GuardInv, Inv, BodyInv, TypeOK
  <2>2. p \in LeavesIn(Shape)
    BY AtMeans
  <2>3. PICK i \in DOMAIN body : body[i].of = p
    BY <2>1, <2>2 DEF Nest, Complete, Covered
  <2>4. p # <<>>
    BY <2>2, PathSeq DEF LeavesIn
  <2>5. \A j \in DOMAIN body : body[j].of = p => j = i
    BY <2>1, <2>3, <2>4 DEF Nest, Single
  <2>6. Selectable(i) \/ Confused(p)
    <3>1. CASE body[i].guard = <<>>
      BY <3>1 DEF Selectable
    <3>2. CASE body[i].guard # <<>> /\ ~Confused(p)
      <4>1. ~ConfusedIn(Shape, body[i].of)
        BY <2>3, <3>2, ConfusedMeans
      <4>2. PICK j \in 1 .. i - 1 : /\ body[j].op = "draw" /\ body[j].var = body[i].guard[1]
                                    /\ body[i].guard[2] < body[j].range
        BY <2>1, <3>2, <4>1 DEF Guards, InRange
      <4>3. Drawing(i, body[i].guard[1]) = j
        BY <2>1, <4>2, DrawingIs
      <4> QED BY <4>2, <4>3 DEF Selectable
    <3> QED BY <3>1, <3>2
  <2> QED BY <2>3, <2>5, <2>6
<1> QED BY <1>1, InvAlways, NestAlways, GuardAlways, PTL

-----------------------------------------------------------------------------
(* What is in a union *)

LEMMA LeastOf ==
  ASSUME NEW T, T \subseteq Nat, T # {}
  PROVE  \E n \in T : \A m \in T : n <= m
<1> DEFINE R == OpToRel(<, Nat)
<1>1. IsWellFoundedOn(R, Nat)
  BY NatLessThanWellFounded
<1>2. \A x, y \in Nat : <<y, x>> \in R <=> y < x
  BY DEF OpToRel
<1>3. PICK n \in T : \A m \in T : ~ (<<m, n>> \in R)
  <2> HIDE DEF R
  <2> QED BY <1>1, WFMin
<1> HIDE DEF R
<1>4. ASSUME NEW m \in T PROVE n <= m
  <2>1. m \in Nat /\ n \in Nat /\ ~(m < n)
    BY <1>2, <1>3
  <2> QED BY <2>1
<1> QED BY <1>4

\* The way to a path leads to paths, to aggregates but for the last.
LEMMA WayThere ==
  ASSUME NEW type, IsType(type), NEW p \in PathsIn(type), NEW n \in 1 .. Len(p)
  PROVE  /\ SubSeq(p, 1, n) \in PathsIn(type)
         /\ n < Len(p) => MemberIn(type, SubSeq(p, 1, n)).kind \in {"struct", "union"}
<1>1. /\ p \in Seq(Nat) /\ p # <<>> /\ Len(p) <= MaxDepth /\ \A k \in 1 .. Len(p) : p[k] \in 1 .. MaxMembers
      /\ \A k \in 1 .. Len(p) : p[k] \in DOMAIN MembersIn(type, SubSeq(p, 1, k - 1))
  BY PathSeq
<1> DEFINE r == SubSeq(p, 1, n)
<1>2. r \in Seq(Nat) /\ Len(r) = n /\ \A k \in 1 .. n : r[k] = p[k]
  BY <1>1, FirstPart DEF Begins
<1>3. \A k \in 1 .. n : SubSeq(r, 1, k - 1) = SubSeq(p, 1, k - 1)
  BY <1>1
<1> HIDE DEF r
<1>4. r \in PathsIn(type)
  <2>1. ASSUME NEW k \in 1 .. Len(r) PROVE r[k] \in DOMAIN MembersIn(type, SubSeq(r, 1, k - 1))
    <3>1. k \in 1 .. Len(p) /\ k \in 1 .. n
      BY <1>1, <1>2
    <3> QED BY <1>1, <1>2, <1>3, <3>1, Zenon
  <2>2. r \in SeqOf(1 .. MaxMembers, MaxDepth)
    <3>0. \A k \in 1 .. n : r[k] \in 1 .. MaxMembers
      <4>1. \A k \in 1 .. n : k \in 1 .. Len(p)
        BY <1>1
      <4> QED BY <1>1, <1>2, <4>1, Zenon
    <3>1. r \in [1 .. n -> 1 .. MaxMembers]
      BY <1>2, <3>0
    <3>2. n \in 0 .. MaxDepth
      BY <1>1, ShapesAssumption
    <3> QED BY <3>1, <3>2 DEF SeqOf
  <2>3. r # <<>>
    BY <1>2
  <2> QED BY <2>1, <2>2, <2>3 DEF PathsIn
<1>5. ASSUME n < Len(p) PROVE MemberIn(type, r).kind \in {"struct", "union"}
  <2>1. p[n + 1] \in DOMAIN MembersIn(type, r)
    <3>1. n + 1 \in 1 .. Len(p) /\ (n + 1) - 1 = n
      BY <1>1, <1>5
    <3> QED BY <1>1, <3>1 DEF r
  <2>2. Front(r) \in Seq(Nat) /\ Last(r) \in Nat /\ Append(Front(r), Last(r)) = r
    BY <1>2, OneLess
  <2>3. MembersIn(type, r) = MemberIn(type, r).members
    BY <2>2, MemberOn
  <2>4. MemberIn(type, r).members # <<>>
    BY <2>1, <2>3
  <2> QED BY <1>4, <2>4 DEF IsType, IsMember
<1> QED BY <1>4, <1>5 DEF r

LooseIn(type, q) ==
  \E p \in PathsIn(type) :
    /\ Under(q, p) /\ MemberIn(type, p).kind \in {"struct", "enum"}
    /\ \A r \in Above(p) : Len(r) > Len(q) => MemberIn(type, r).kind = "union"

LEMMA LooseMeans == \A q : Loose(q) <=> LooseIn(Shape, q)
BY AtMeans DEF Loose, LooseIn

\* A union that is not strict has an anonymous struct or enum in it or in a union in it.
LEMMA StrictOrLoose ==
  ASSUME NEW type, IsType(type), NEW q \in Seq(Nat), KindIn(type, q) = "union", ~Strict(type, q)
  PROVE  LooseIn(type, q)
<1>1. PICK p \in PathsIn(type) : Under(q, p) /\ MemberIn(type, p).kind \notin {"plain", "union"}
  BY DEF Strict
<1>2. p \in Seq(Nat) /\ p # <<>> /\ Len(p) \in Nat /\ Len(q) \in Nat /\ Len(q) < Len(p)
  BY <1>1, PathSeq DEF Under
<1>3. MemberIn(type, p).kind \in {"struct", "enum"}
  BY <1>1 DEF IsType, IsMember
<1> DEFINE S == {n \in Len(q) + 1 .. Len(p) : MemberIn(type, SubSeq(p, 1, n)).kind # "union"}
<1>4. Len(p) \in S
  <2>1. SubSeq(p, 1, Len(p)) = p
    BY <1>2
  <2>2. Len(p) \in Len(q) + 1 .. Len(p)
    BY <1>2
  <2> QED BY <1>3, <2>1, <2>2
<1>5. PICK n \in S : \A m \in S : n <= m
  <2>1. S \subseteq Nat
    BY <1>2
  <2> HIDE DEF S
  <2> QED BY <1>4, <2>1, LeastOf
<1> DEFINE r == SubSeq(p, 1, n)
<1>6. n \in 1 .. Len(p) /\ n \in Nat /\ Len(q) < n
  BY <1>2
<1>7. r \in PathsIn(type) /\ (n < Len(p) => MemberIn(type, r).kind \in {"struct", "union"})
  BY <1>6, WayThere
<1>8. MemberIn(type, r).kind \in {"struct", "enum"}
  <2>1. MemberIn(type, r).kind # "union"
    OBVIOUS
  <2>2. CASE n = Len(p)
    <3>1. r = p
      BY <1>2, <2>2
    <3> QED BY <1>3, <3>1
  <2>3. CASE n < Len(p)
    BY <1>7, <2>1, <2>3
  <2> QED BY <1>6, <2>2, <2>3
<1>9. r \in Seq(Nat) /\ Len(r) = n /\ \A k \in 1 .. n : r[k] = p[k]
  BY <1>2, <1>6, FirstPart DEF Begins
<1>10. \A k \in 1 .. n : SubSeq(r, 1, k) = SubSeq(p, 1, k)
  BY <1>2, <1>6
<1> HIDE DEF r
<1>11. Under(q, r)
  <2>1. SubSeq(r, 1, Len(q)) = SubSeq(p, 1, Len(q))
    <3>1. CASE Len(q) = 0
      <4>1. SubSeq(r, 1, 0) = <<>> /\ SubSeq(p, 1, 0) = <<>>
        BY <1>2, <1>9
      <4> QED BY <3>1, <4>1
    <3>2. CASE Len(q) # 0
      <4>1. Len(q) \in 1 .. n
        BY <1>2, <1>6, <3>2
      <4> QED BY <1>10, <4>1, Zenon
    <3> QED BY <3>1, <3>2
  <2> QED BY <1>1, <1>6, <1>9, <2>1 DEF Under
<1>12. ASSUME NEW t \in Above(r), Len(t) > Len(q) PROVE MemberIn(type, t).kind = "union"
  <2>1. PICK k \in 0 .. Len(r) - 1 : t = SubSeq(r, 1, k)
    BY DEF Above
  <2>2. k \in Nat /\ k < n
    BY <1>6, <1>9, <2>1
  <2>3. Len(t) = k
    BY <1>9, <2>1, <2>2
  <2>4. k \in 1 .. n /\ k \in Len(q) + 1 .. Len(p)
    BY <1>2, <1>6, <1>12, <2>2, <2>3
  <2>5. t = SubSeq(p, 1, k)
    BY <1>10, <2>1, <2>4
  <2>6. k \notin S
    <3> HIDE DEF S
    <3> QED BY <1>5, <1>6, <2>2
  <2> QED BY <2>4, <2>5, <2>6
<1> QED BY <1>7, <1>8, <1>11, <1>12 DEF LooseIn

-----------------------------------------------------------------------------
(* The walks *)

Modes == {"count", "resize", "normal"}

\* The statement h ran for the member p: its guard held, and holds.
Ran(b, d, h, p) ==
  /\ h \in DOMAIN b /\ b[h].of = p
  /\ b[h].guard # <<>> => b[h].guard[1] \in DOMAIN d /\ d[b[h].guard[1]] = b[h].guard[2]

\* The variables of the first n statements have a value.
HasValues(b, d, n) == \A j \in DOMAIN b : j <= n /\ b[j].op = "draw" => b[j].var \in DOMAIN d

\* No two entries of a walk are of one strict union.
Apart(type, w) ==
  \A i, j \in DOMAIN w : \A q : q \in Above(w[i]) /\ q \in Above(w[j]) /\ Strict(type, q) => i = j

Came(b, d, w, n) == \A i \in DOMAIN w : \E h \in 1 .. n : Ran(b, d, h, w[i])

\* What a walk has come to, it came to by statements whose guards still hold.
WalkInv ==
  /\ DOMAIN walked = Modes
  /\ \A m \in Modes : walked[m] \in Seq(Seq(Nat)) /\ Apart(Shape, walked[m])
  /\ mode = "count" => walked["resize"] = <<>>
  /\ mode # "normal" => walked["normal"] = <<>>
  /\ phase # "made" => pc = 1
  /\ phase \notin {"made", "called"} => mode = "count" /\ walked = NotWalked
  /\ phase = "made" =>
       HasValues(body, drawn, pc - 1) /\ Came(body, drawn, walked[mode], pc - 1)

\* Two statements of a strict union never run with the same values.
LEMMA Alone ==
  ASSUME NEW type, NEW b, Guards(type, b), NEW d, NEW h, NEW k, NEW p, NEW r,
         Ran(b, d, h, p), Ran(b, d, k, r), NEW q, q \in Above(p), q \in Above(r), Strict(type, q)
  PROVE  h = k
<1>1. h \in DOMAIN b /\ b[h].of = p /\ k \in DOMAIN b /\ b[k].of = r
  BY DEF Ran
<1>2. b[h].guard # <<>> /\ b[k].guard # <<>> /\ b[h].guard[1] = b[k].guard[1]
  BY <1>1, Zenon DEF Guards, SameVariable
<1>3. b[h].guard[2] = b[k].guard[2]
  BY <1>2 DEF Ran
<1> DEFINE v == b[h].guard[1]
           w == b[h].guard[2]
<1>4. Asks(b[h], v, w) /\ Asks(b[k], v, w)
  BY <1>2, <1>3 DEF Asks
<1> QED BY <1>1, <1>4, Zenon DEF Guards, GuardsDiffer

\* A walk that a statement adds its member to.
LEMMA ApartOn ==
  ASSUME NEW type, NEW b, Guards(type, b), NEW d, NEW n \in Nat, NEW w \in Seq(Seq(Nat)),
         Apart(type, w), Came(b, d, w, n - 1), NEW p \in Seq(Nat), Ran(b, d, n, p)
  PROVE  Append(w, p) \in Seq(Seq(Nat)) /\ Apart(type, Append(w, p))
<1> DEFINE a == Append(w, p)
           z == Len(w) + 1
<1>1. /\ a \in Seq(Seq(Nat)) /\ DOMAIN a = 1 .. z /\ DOMAIN w = 1 .. z - 1 /\ z \in Nat
      /\ \A i \in DOMAIN w : a[i] = w[i]
      /\ a[z] = p
  OBVIOUS
<1> HIDE DEF a, z
<1>2. \A i \in DOMAIN a : (i = z /\ a[i] = p) \/ (i \in DOMAIN w /\ a[i] = w[i])
  BY <1>1
<1>3. ASSUME NEW i \in DOMAIN w, NEW q, q \in Above(w[i]), q \in Above(p), Strict(type, q)
      PROVE  FALSE
  <2>1. PICK h \in 1 .. n - 1 : Ran(b, d, h, w[i])
    BY DEF Came
  <2>2. h = n
    BY <1>3, <2>1, Alone
  <2> QED BY <2>1, <2>2
<1>4. ASSUME NEW i \in DOMAIN a, NEW j \in DOMAIN a, NEW q, q \in Above(a[i]), q \in Above(a[j]), Strict(type, q)
      PROVE  i = j
  <2>1. CASE i \in DOMAIN w /\ a[i] = w[i] /\ j \in DOMAIN w /\ a[j] = w[j]
    BY <1>4, <2>1, Zenon DEF Apart
  <2>2. CASE i = z /\ a[i] = p /\ j = z
    BY <2>2
  <2>3. CASE i = z /\ a[i] = p /\ j \in DOMAIN w /\ a[j] = w[j]
    BY <1>3, <1>4, <2>3, Zenon
  <2>4. CASE j = z /\ a[j] = p /\ i \in DOMAIN w /\ a[i] = w[i]
    BY <1>3, <1>4, <2>4, Zenon
  <2> QED BY <1>2, <2>1, <2>2, <2>3, <2>4, Zenon
<1>5. Apart(type, a)
  BY <1>4, Zenon DEF Apart
<1> QED BY <1>1, <1>5 DEF a

LEMMA CameOn ==
  ASSUME NEW b, NEW d, NEW n \in Nat \ {0}, NEW w \in Seq(Seq(Nat)), Came(b, d, w, n - 1),
         NEW p \in Seq(Nat), Ran(b, d, n, p)
  PROVE  Came(b, d, Append(w, p), n)
<1> DEFINE a == Append(w, p)
<1>1. \A i \in DOMAIN a : a[i] = p \/ (i \in DOMAIN w /\ a[i] = w[i])
  OBVIOUS
<1> HIDE DEF a
<1>2. ASSUME NEW i \in DOMAIN a PROVE \E h \in 1 .. n : Ran(b, d, h, a[i])
  <2>1. CASE a[i] = p
    BY <2>1
  <2>2. CASE i \in DOMAIN w /\ a[i] = w[i]
    <3>1. PICK h \in 1 .. n - 1 : Ran(b, d, h, w[i])
      BY <2>2 DEF Came
    <3>2. h \in 1 .. n
      OBVIOUS
    <3> QED BY <2>2, <3>1, <3>2
  <2> QED BY <1>1, <2>1, <2>2
<1> QED BY <1>2 DEF Came, a

\* A new value is of no guard that was asked before.
LEMMA ValueOn ==
  ASSUME NEW d, NEW x, NEW v
  PROVE  LET e == [k \in DOMAIN d \cup {x} |-> IF k = x THEN v ELSE d[k]]
         IN  x \in DOMAIN e /\ \A y \in DOMAIN d : y \in DOMAIN e /\ (y # x => e[y] = d[y])
OBVIOUS

LEMMA AtStatement ==
  ASSUME Inv, NestInv, GuardInv, WalkInv, Running
  PROVE  /\ pc \in DOMAIN body /\ pc \in Nat \ {0} /\ Now = body[pc] /\ Now.of \in Seq(Nat)
         /\ Guards(Shape, body) /\ Unique /\ Guarded /\ SoundIn(Shape, Now) /\ mode \in Modes
         /\ walked[mode] \in Seq(Seq(Nat)) /\ Apart(Shape, walked[mode])
         /\ HasValues(body, drawn, pc - 1) /\ Came(body, drawn, walked[mode], pc - 1)
         /\ DOMAIN body = 1 .. Len(body) /\ Len(body) \in Nat
<1>1. /\ phase = "made" /\ Nest(Shape, frames, body) /\ Guards(Shape, body) /\ Unique /\ Guarded
      /\ IsSeq(body) /\ pc \in Nat \ {0} /\ pc <= Len(body) /\ mode \in Modes
  BY DEF Running, NestInv, GuardInv, Inv, BodyInv, TypeOK, Modes
<1>2. DOMAIN body = 1 .. Len(body) /\ Len(body) \in Nat
  BY <1>1 DEF IsSeq
<1>3. pc \in DOMAIN body
  BY <1>1, <1>2
<1>4. Now.of \in Seq(Nat) /\ SoundIn(Shape, Now)
  <2>1. AllSound(Shape, body)
    BY <1>1 DEF Nest
  <2> QED BY <1>3, <2>1, SoundOf DEF Now, AllSound
<1> QED BY <1>1, <1>2, <1>3, <1>4 DEF Now, WalkInv

\* A guard that holds is of a variable that has a value.
LEMMA RunsNow ==
  ASSUME Inv, NestInv, GuardInv, WalkInv, Running, Selected
  PROVE  Ran(body, drawn, pc, Now.of)
<1>1. /\ pc \in DOMAIN body /\ pc \in Nat \ {0} /\ Now = body[pc] /\ Guarded
      /\ HasValues(body, drawn, pc - 1) /\ DOMAIN body = 1 .. Len(body) /\ Len(body) \in Nat
  BY AtStatement
<1>2. ASSUME Now.guard # <<>> PROVE Now.guard[1] \in DOMAIN drawn
  <2>1. PICK j \in 1 .. pc - 1 : body[j].op = "draw" /\ body[j].var = Now.guard[1]
    BY <1>1, <1>2 DEF Guarded
  <2>2. j \in DOMAIN body /\ j <= pc - 1
    BY <1>1
  <2> QED BY <1>1, <2>1, <2>2 DEF HasValues
<1> QED BY <1>1, <1>2 DEF Ran, Selected

LEMMA VisitWalks ==
  ASSUME Inv, NestInv, GuardInv, WalkInv, Running, Now.op # "draw", Selected, Step, Visit, UNCHANGED drawn
  PROVE  WalkInv'
<1>1. /\ pc \in DOMAIN body /\ pc \in Nat \ {0} /\ Now = body[pc] /\ Now.of \in Seq(Nat)
      /\ Guards(Shape, body) /\ mode \in Modes
      /\ walked[mode] \in Seq(Seq(Nat)) /\ Apart(Shape, walked[mode])
      /\ HasValues(body, drawn, pc - 1) /\ Came(body, drawn, walked[mode], pc - 1)
      /\ DOMAIN body = 1 .. Len(body) /\ Len(body) \in Nat
  BY AtStatement
<1>2. Ran(body, drawn, pc, Now.of)
  BY RunsNow
<1> DEFINE w == Append(walked[mode], Now.of)
<1>3. w \in Seq(Seq(Nat)) /\ Apart(Shape, w)
  BY <1>1, <1>2, ApartOn
<1>4. Came(body, drawn, w, pc)
  BY <1>1, <1>2, CameOn
<1> HIDE DEF w
<1>5. HasValues(body, drawn, pc)
  <2> SUFFICES ASSUME NEW j \in DOMAIN body, j <= pc, body[j].op = "draw" PROVE body[j].var \in DOMAIN drawn
    BY DEF HasValues
  <2>1. j # pc
    BY <1>1
  <2>2. j <= pc - 1
    BY <1>1, <2>1
  <2> QED BY <1>1, <2>2 DEF HasValues
<1>6. /\ pc' = pc + 1 /\ UNCHANGED <<generation, mode, drawn>> /\ phase = "made"
      /\ walked' = [walked EXCEPT ![mode] = w]
  BY DEF Step, Visit, Running, w
<1>7. /\ body' = body /\ phase' = "made" /\ mode' = mode /\ drawn' = drawn /\ Shape' = Shape
      /\ pc' - 1 = pc
  BY <1>1, <1>6 DEF generation, Shape
<1>8. /\ DOMAIN walked' = Modes /\ walked'[mode] = w
      /\ \A m \in Modes : m # mode => walked'[m] = walked[m]
  BY <1>1, <1>6 DEF WalkInv
<1>9. \A m \in Modes : walked'[m] \in Seq(Seq(Nat)) /\ Apart(Shape, walked'[m])
  <2> SUFFICES ASSUME NEW m \in Modes PROVE walked'[m] \in Seq(Seq(Nat)) /\ Apart(Shape, walked'[m])
    OBVIOUS
  <2>1. CASE m = mode
    BY <1>3, <1>8, <2>1
  <2>2. CASE m # mode
    BY <1>8, <2>2 DEF WalkInv
  <2> QED BY <2>1, <2>2
<1>10. /\ mode' = "count" => walked'["resize"] = <<>>
       /\ mode' # "normal" => walked'["normal"] = <<>>
  BY <1>7, <1>8 DEF WalkInv, Modes
<1>11. HasValues(body', drawn', pc' - 1) /\ Came(body', drawn', walked'[mode'], pc' - 1)
  BY <1>4, <1>5, <1>7, <1>8
<1> QED BY <1>7, <1>8, <1>9, <1>10, <1>11 DEF WalkInv

LEMMA DrawWalks == ASSUME Inv, NestInv, GuardInv, WalkInv, DrawValue PROVE WalkInv'
<1>1. Running /\ Now.op = "draw" /\ Step /\ UNCHANGED walked /\ phase = "made"
  BY DEF DrawValue, Running
<1>2. /\ pc \in DOMAIN body /\ pc \in Nat \ {0} /\ Now = body[pc] /\ Unique /\ Guarded
      /\ HasValues(body, drawn, pc - 1) /\ Came(body, drawn, walked[mode], pc - 1)
      /\ DOMAIN body = 1 .. Len(body) /\ Len(body) \in Nat
  BY <1>1, AtStatement
<1>3. PICK v : drawn' = [k \in DOMAIN drawn \cup {Now.var} |-> IF k = Now.var THEN v ELSE drawn[k]]
  BY DEF DrawValue
<1>4. Now.var \in DOMAIN drawn' /\ \A y \in DOMAIN drawn : y \in DOMAIN drawn' /\ (y # Now.var => drawn'[y] = drawn[y])
  BY <1>3, ValueOn
<1>5. HasValues(body, drawn', pc)
  <2> SUFFICES ASSUME NEW j \in DOMAIN body, j <= pc, body[j].op = "draw" PROVE body[j].var \in DOMAIN drawn'
    BY DEF HasValues
  <2>1. CASE j = pc
    BY <1>2, <1>4, <2>1
  <2>2. CASE j # pc
    <3>1. j <= pc - 1
      BY <1>2, <2>2
    <3> QED BY <1>2, <1>4, <3>1 DEF HasValues
  <2> QED BY <2>1, <2>2
<1>6. ASSUME NEW h \in 1 .. pc - 1, NEW p, Ran(body, drawn, h, p) PROVE Ran(body, drawn', h, p)
  <2>1. h \in DOMAIN body /\ body[h].of = p
    BY <1>6 DEF Ran
  <2>2. ASSUME body[h].guard # <<>> PROVE body[h].guard[1] # Now.var
    <3>1. PICK j \in 1 .. h - 1 : body[j].op = "draw" /\ body[j].var = body[h].guard[1]
      BY <1>2, <2>1, <2>2 DEF Guarded
    <3>2. j \in DOMAIN body /\ j # pc
      BY <1>2
    <3> QED BY <1>1, <1>2, <3>1, <3>2 DEF Unique
  <2>3. body[h].guard # <<>> => body[h].guard[1] \in DOMAIN drawn /\ drawn[body[h].guard[1]] = body[h].guard[2]
    BY <1>6 DEF Ran
  <2> QED BY <1>4, <2>1, <2>2, <2>3 DEF Ran
<1>7. Came(body, drawn', walked[mode], pc)
  <2> SUFFICES ASSUME NEW i \in DOMAIN walked[mode] PROVE \E h \in 1 .. pc : Ran(body, drawn', h, walked[mode][i])
    BY DEF Came
  <2>1. PICK h \in 1 .. pc - 1 : Ran(body, drawn, h, walked[mode][i])
    BY <1>2 DEF Came
  <2>2. h \in 1 .. pc
    BY <1>2
  <2> QED BY <1>6, <2>1, <2>2
<1>8. /\ body' = body /\ phase' = "made" /\ mode' = mode /\ Shape' = Shape /\ pc' - 1 = pc /\ walked' = walked
  BY <1>1, <1>2 DEF Step, generation, Shape
<1> QED BY <1>5, <1>7, <1>8 DEF WalkInv

LEMMA PassWalks == ASSUME Inv, NestInv, GuardInv, WalkInv, NotSelected PROVE WalkInv'
<1>1. Running /\ Now.op = "call" /\ Step /\ UNCHANGED <<walked, drawn>> /\ phase = "made"
  BY DEF NotSelected, Running
<1>2. /\ pc \in DOMAIN body /\ pc \in Nat \ {0} /\ Now = body[pc]
      /\ HasValues(body, drawn, pc - 1) /\ Came(body, drawn, walked[mode], pc - 1)
      /\ DOMAIN body = 1 .. Len(body) /\ Len(body) \in Nat
  BY <1>1, AtStatement
<1>3. HasValues(body, drawn, pc)
  <2> SUFFICES ASSUME NEW j \in DOMAIN body, j <= pc, body[j].op = "draw" PROVE body[j].var \in DOMAIN drawn
    BY DEF HasValues
  <2>1. j # pc
    BY <1>1, <1>2
  <2>2. j <= pc - 1
    BY <1>2, <2>1
  <2> QED BY <1>2, <2>2 DEF HasValues
<1>4. Came(body, drawn, walked[mode], pc)
  <2>1. \A h \in 1 .. pc - 1 : h \in 1 .. pc
    BY <1>2
  <2> QED BY <1>2, <2>1 DEF Came
<1>5. /\ body' = body /\ phase' = "made" /\ mode' = mode /\ Shape' = Shape /\ pc' - 1 = pc
      /\ walked' = walked /\ drawn' = drawn
  BY <1>1, <1>2 DEF Step, generation, Shape
<1> QED BY <1>3, <1>4, <1>5 DEF WalkInv

LEMMA VisitsWalk == ASSUME Inv, NestInv, GuardInv, WalkInv, AssignValue \/ CallMutator PROVE WalkInv'
<1>1. CASE AssignValue
  <2>1. Running /\ Now.op = "assign" /\ Step /\ Visit /\ UNCHANGED drawn
    BY <1>1 DEF AssignValue
  <2>2. SoundIn(Shape, Now)
    BY <2>1, AtStatement
  <2>3. Selected
    BY <2>1, <2>2 DEF SoundIn, Selected
  <2> QED BY <2>1, <2>3, VisitWalks
<1>2. CASE CallMutator
  <2>1. Running /\ Now.op # "draw" /\ Selected /\ Step /\ Visit /\ UNCHANGED drawn
    BY <1>2 DEF CallMutator
  <2> QED BY <2>1, VisitWalks
<1> QED BY <1>1, <1>2

\* A walk that has not begun.
LEMMA NoneWalked ==
  /\ \A type : Apart(type, <<>>)
  /\ <<>> \in Seq(Seq(Nat))
  /\ \A b, d, n : Came(b, d, <<>>, n)
  /\ DOMAIN NotWalked = Modes /\ \A m \in Modes : NotWalked[m] = <<>>
<1>1. DOMAIN <<>> = {} /\ <<>> \in Seq(Seq(Nat))
  OBVIOUS
<1> QED BY <1>1 DEF Apart, Came, NotWalked, Modes

LEMMA EndWalks == ASSUME Inv, NestInv, GuardInv, WalkInv, EndWalk PROVE WalkInv'
<1>1. /\ phase = "made" /\ pc' = 1 /\ UNCHANGED <<shapes, at, body, walked>> /\ Shape' = Shape
      /\ body' = body /\ walked' = walked /\ mode \in Modes
  BY DEF EndWalk, Inv, TypeOK, Modes, Shape
<1>2. \/ /\ phase' = "made" /\ walked[mode'] = <<>> /\ mode' \in Modes \ {"count"}
         /\ mode' # "normal" => walked["normal"] = <<>>
      \/ phase' = "called" /\ mode' = "normal"
  BY DEF EndWalk, WalkInv, Modes
<1>3. phase' = "made" => Came(body', drawn', walked'[mode'], pc' - 1)
  BY <1>1, <1>2, NoneWalked
<1>4. HasValues(body', drawn', pc' - 1)
  <2>1. \A j \in DOMAIN body : ~(j <= pc' - 1)
    <3>1. IsSeq(body)
      BY DEF Inv, TypeOK
    <3>2. DOMAIN body = 1 .. Len(body) /\ Len(body) \in Nat
      BY <3>1 DEF IsSeq
    <3> QED BY <1>1, <3>2
  <2> QED BY <1>1, <2>1 DEF HasValues
<1>5. /\ DOMAIN walked' = Modes
      /\ \A m \in Modes : walked'[m] \in Seq(Seq(Nat)) /\ Apart(Shape, walked'[m])
  BY <1>1 DEF WalkInv
<1> QED BY <1>1, <1>2, <1>3, <1>4, <1>5 DEF WalkInv

\* What is left as it was, until a walk begins.
LEMMA Unwalking ==
  ASSUME walked' = NotWalked, mode' = "count", pc' = 1, phase' # "called", IsSeq(body')
  PROVE  WalkInv'
<1>1. Came(body', drawn', walked'[mode'], pc' - 1)
  BY NoneWalked DEF Modes
<1>2. HasValues(body', drawn', pc' - 1)
  <2>1. DOMAIN body' = 1 .. Len(body') /\ Len(body') \in Nat
    BY DEF IsSeq
  <2> QED BY <2>1 DEF HasValues
<1>3. DOMAIN walked' = Modes /\ \A m \in Modes : walked'[m] = <<>>
  BY NoneWalked
<1>4. \A m \in Modes : walked'[m] \in Seq(Seq(Nat)) /\ Apart(Shape', walked'[m])
  BY <1>3, NoneWalked
<1> QED BY <1>1, <1>2, <1>3, <1>4 DEF WalkInv, Modes

LEMMA WalkInvNext == ASSUME Inv, NestInv, GuardInv, WalkInv, Inv', [Next]_vars PROVE WalkInv'
<1>0. IsSeq(body') /\ pc \in Nat \ {0}
  BY DEF Inv, TypeOK
<1>1. CASE Generating
  <2>1. phase \notin {"made", "called"} /\ phase' # "called"
    BY <1>1 DEF Generating, Generate, Inject, CopyMember, AssignMember, NestStruct, NestUnion,
                NestUnionAgain, CallMember, GuardMember, HasMember, EndMembers, Finish, Abandon
  <2>2. UNCHANGED <<mode, pc, walked>>
    BY <1>1 DEF Generating, walk
  <2> QED BY <1>0, <2>1, <2>2, Unwalking DEF WalkInv
<1>2. CASE NextType
  <2>1. phase = "called" /\ phase' = "inject" /\ mode' = "count" /\ walked' = NotWalked /\ pc' = pc
    BY <1>2 DEF NextType
  <2>2. pc = 1
    BY <2>1 DEF WalkInv
  <2> QED BY <1>0, <2>1, <2>2, Unwalking
<1>3. CASE UNCHANGED vars
  BY <1>3 DEF vars, generation, walk, WalkInv, Shape
<1> QED BY <1>1, <1>2, <1>3, DrawWalks, PassWalks, VisitsWalk, EndWalks DEF Next, Ended

LEMMA WalkAlways == Spec => []WalkInv
<1>1. EngineInit => WalkInv
  <2> SUFFICES ASSUME EngineInit PROVE WalkInv
    OBVIOUS
  <2>1. phase = "inject" /\ mode = "count" /\ pc = 1 /\ walked = NotWalked
    BY DEF EngineInit, Init
  <2>2. DOMAIN walked = Modes /\ \A m \in Modes : walked[m] = <<>>
    BY <2>1, NoneWalked
  <2> QED BY <2>1, <2>2, NoneWalked DEF WalkInv, Modes
<1>2. Inv /\ NestInv /\ GuardInv /\ WalkInv /\ Inv' /\ [Next]_vars => WalkInv'
  BY WalkInvNext
<1> QED BY <1>1, <1>2, InvAlways, NestAlways, GuardAlways, PTL DEF Spec

\* Whatever has been drawn and chosen, a walk of a mutator of any type mutates one
\* member of a union only, unless it has an anonymous struct or enum in it.
THEOREM OneMemberMutated == Spec => []OneMember
<1>1. NestInv /\ WalkInv => OneMember
  <2> SUFFICES ASSUME NestInv, WalkInv, NEW m \in DOMAIN walked,
                      NEW i \in DOMAIN walked[m], NEW j \in DOMAIN walked[m],
                      NEW q \in UnionsAbove(walked[m][i]) \cap UnionsAbove(walked[m][j]), ~Loose(q)
               PROVE  walked[m][i][Len(q) + 1] = walked[m][j][Len(q) + 1]
    BY DEF OneMember
  <2>1. m \in Modes /\ walked[m] \in Seq(Seq(Nat)) /\ Apart(Shape, walked[m])
    BY DEF WalkInv
  <2>2. walked[m][i] \in Seq(Nat)
    BY <2>1
  <2>3. q \in Above(walked[m][i]) /\ q \in Above(walked[m][j]) /\ KindIn(Shape, q) = "union"
    BY AtMeans DEF UnionsAbove
  <2>4. q \in Seq(Nat)
    BY <2>2, <2>3, AboveMeans
  <2>5. phase # "inject"
    <3> SUFFICES ASSUME phase = "inject" PROVE FALSE
      OBVIOUS
    <3>1. walked[m] = <<>>
      BY <2>1, NoneWalked DEF WalkInv
    <3> QED BY <3>1
  <2>6. IsType(Shape)
    BY <2>5, ShapeKnown DEF NestInv
  <2>7. Strict(Shape, q)
    <3>1. ~LooseIn(Shape, q)
      BY LooseMeans
    <3> QED BY <2>3, <2>4, <2>6, <3>1, StrictOrLoose
  <2>8. i = j
    BY <2>1, <2>3, <2>7, Zenon DEF Apart
  <2> QED BY <2>8
<1> QED BY <1>1, NestAlways, WalkAlways, PTL

-----------------------------------------------------------------------------
(* The choices of a walk *)

ChoicesIn(type, p) == IF KindIn(type, p) = "enum" THEN 0 ELSE MemberIn(type, p).options

AskedIn(type, w, n) ==
  LET asked[k \in 0 .. n] == IF k = 0 THEN 0 ELSE asked[k - 1] + ChoicesIn(type, w[k])
  IN  asked[n]

LEMMA AskedAt == \A m, n : Asked(m, n) = AskedIn(Shape, walked[m], n)
BY Zenon DEF Asked, AskedIn, ChoicesOf, ChoicesIn, KindAt, KindIn, MemberAt

\* What the recursive definition of Asked describes, for the first n members.
Adding(f, type, w, n) ==
  f = [k \in 0 .. n |-> IF k = 0 THEN 0 ELSE f[k - 1] + ChoicesIn(type, w[k])]

OneAskedMore(a, type, p) == a + ChoicesIn(type, p)

LEMMA AddingMeans ==
  ASSUME NEW f, NEW type, NEW w, NEW n \in Nat, Adding(f, type, w, n)
  PROVE  /\ f[0] = 0
         /\ \A k \in 1 .. n : f[k] = OneAskedMore(f[k - 1], type, w[k])
<1>1. \A k \in 0 .. n : f[k] = IF k = 0 THEN 0 ELSE f[k - 1] + ChoicesIn(type, w[k])
  BY DEF Adding
<1>2. \A k \in 1 .. n : k \in 0 .. n /\ k # 0
  OBVIOUS
<1>3. 0 \in 0 .. n
  OBVIOUS
<1>4. f[0] = 0
  BY <1>1, <1>3, Zenon
<1> QED BY <1>1, <1>2, <1>4, Zenon DEF OneAskedMore

LEMMA AddingOn ==
  ASSUME NEW type, NEW w, NEW n \in Nat, NEW g, Adding(g, type, w, n)
  PROVE  \E h : Adding(h, type, w, n + 1)
<1> DEFINE last == OneAskedMore(g[n], type, w[n + 1])
           h == [k \in 0 .. n + 1 |-> IF k = n + 1 THEN last ELSE g[k]]
           step(k) == IF k = 0 THEN 0 ELSE h[k - 1] + ChoicesIn(type, w[k])
<1>1. /\ g[0] = 0
      /\ \A k \in 1 .. n : g[k] = OneAskedMore(g[k - 1], type, w[k])
  BY AddingMeans
<1>2. (\A k \in 0 .. n : h[k] = g[k]) /\ h[n + 1] = last
  OBVIOUS
<1>3. h = [k \in 0 .. n + 1 |-> h[k]]
  OBVIOUS
<1> HIDE DEF h
<1>4. ASSUME NEW k \in 0 .. n + 1 PROVE h[k] = step(k)
  <2>1. CASE k = n + 1
    <3>1. k - 1 = n /\ h[k - 1] = g[n] /\ k # 0 /\ h[k] = last
      BY <1>2, <2>1
    <3>2. last = OneAskedMore(h[k - 1], type, w[k])
      BY <2>1, <3>1
    <3> QED BY <3>1, <3>2, Zenon DEF OneAskedMore
  <2>2. CASE k # n + 1 /\ k # 0
    <3>1. k \in 1 .. n /\ k - 1 \in 0 .. n /\ k \in 0 .. n
      BY <2>2
    <3>2. h[k] = OneAskedMore(h[k - 1], type, w[k])
      BY <1>1, <1>2, <3>1, Zenon
    <3> QED BY <2>2, <3>2, Zenon DEF OneAskedMore
  <2>3. CASE k = 0
    BY <1>1, <1>2, <2>3
  <2> QED BY <2>1, <2>2, <2>3
<1>5. h = [k \in 0 .. n + 1 |-> step(k)]
  <2> HIDE DEF step
  <2> QED BY <1>3, <1>4
<1>6. Adding(h, type, w, n + 1)
  BY <1>5, Zenon DEF Adding
<1> QED BY <1>6

LEMMA AddingExists == ASSUME NEW type, NEW w, NEW n \in Nat PROVE \E g : Adding(g, type, w, n)
<1> DEFINE P == {k \in Nat : \E g : Adding(g, type, w, k)}
<1>1. 0 \in P
  <2> DEFINE g == [k \in 0 .. 0 |-> 0]
  <2>1. Adding(g, type, w, 0)
    BY DEF Adding
  <2> QED BY <2>1
<1>2. \A k \in Nat : k \in P => k + 1 \in P
  BY AddingOn
<1>3. n \in P
  <2> HIDE DEF P
  <2> QED BY <1>1, <1>2, NatSetInduction
<1> QED BY <1>3

LEMMA AskedIs ==
  ASSUME NEW type, NEW w, NEW n \in Nat
  PROVE  \E g : Adding(g, type, w, n) /\ AskedIn(type, w, n) = g[n]
<1> DEFINE g == CHOOSE f : Adding(f, type, w, n)
<1>1. AskedIn(type, w, n) = g[n]
  BY DEF AskedIn, Adding
<1>2. Adding(g, type, w, n)
  BY AddingExists
<1> QED BY <1>1, <1>2

\* The first k members of two walks are the same.
SameMembers(w, v, k) == \A i \in 1 .. k : w[i] = v[i]

LEMMA AddingSame ==
  ASSUME NEW type, NEW w, NEW v, NEW n \in Nat, NEW k \in Nat, k <= n, SameMembers(w, v, k),
         NEW f, Adding(f, type, w, n), NEW g, Adding(g, type, v, k)
  PROVE  f[k] = g[k]
<1> DEFINE P == {i \in Nat : i <= k => f[i] = g[i]}
<1>1. /\ f[0] = 0 /\ g[0] = 0
      /\ \A i \in 1 .. n : f[i] = OneAskedMore(f[i - 1], type, w[i])
      /\ \A i \in 1 .. k : g[i] = OneAskedMore(g[i - 1], type, v[i])
  BY AddingMeans
<1>2. 0 \in P
  BY <1>1
<1>3. ASSUME NEW i \in Nat, i \in P PROVE i + 1 \in P
  <2> SUFFICES ASSUME i + 1 <= k PROVE f[i + 1] = g[i + 1]
    OBVIOUS
  <2>1. i + 1 \in 1 .. k /\ i + 1 \in 1 .. n /\ i <= k /\ (i + 1) - 1 = i
    OBVIOUS
  <2>2. f[i] = g[i] /\ w[i + 1] = v[i + 1]
    BY <1>3, <2>1 DEF SameMembers
  <2> QED BY <1>1, <2>1, <2>2, Zenon
<1>4. k \in P
  <2> HIDE DEF P
  <2> QED BY <1>2, <1>3, NatSetInduction
<1> QED BY <1>4

LEMMA AskedSame ==
  ASSUME NEW type, NEW w, NEW v, NEW n \in Nat, SameMembers(w, v, n)
  PROVE  AskedIn(type, w, n) = AskedIn(type, v, n)
<1>1. PICK f : Adding(f, type, w, n) /\ AskedIn(type, w, n) = f[n]
  BY AskedIs
<1>2. PICK g : Adding(g, type, v, n) /\ AskedIn(type, v, n) = g[n]
  BY AskedIs
<1> QED BY <1>1, <1>2, AddingSame

LEMMA AskedStep ==
  ASSUME NEW type, NEW w
  PROVE  /\ AskedIn(type, w, 0) = 0
         /\ \A n \in Nat : AskedIn(type, w, n + 1) = AskedIn(type, w, n) + ChoicesIn(type, w[n + 1])
<1>1. AskedIn(type, w, 0) = 0
  <2>1. PICK g : Adding(g, type, w, 0) /\ AskedIn(type, w, 0) = g[0]
    BY AskedIs
  <2> QED BY <2>1, AddingMeans
<1>2. ASSUME NEW n \in Nat
      PROVE  AskedIn(type, w, n + 1) = AskedIn(type, w, n) + ChoicesIn(type, w[n + 1])
  <2>1. PICK f : Adding(f, type, w, n + 1) /\ AskedIn(type, w, n + 1) = f[n + 1]
    BY AskedIs
  <2>2. PICK g : Adding(g, type, w, n) /\ AskedIn(type, w, n) = g[n]
    BY AskedIs
  <2>3. f[n] = g[n]
    <3>1. SameMembers(w, w, n) /\ n <= n + 1 /\ n + 1 \in Nat
      BY DEF SameMembers
    <3> QED BY <2>1, <2>2, <3>1, AddingSame
  <2>4. f[n + 1] = OneAskedMore(f[n], type, w[n + 1])
    <3>1. n + 1 \in 1 .. n + 1 /\ (n + 1) - 1 = n /\ n + 1 \in Nat
      OBVIOUS
    <3> QED BY <2>1, <3>1, AddingMeans
  <2> QED BY <2>1, <2>2, <2>3, <2>4 DEF OneAskedMore
<1> QED BY <1>1, <1>2

-----------------------------------------------------------------------------
(* Counting modulo CounterSize *)

LEMMA ModIn == ASSUME NEW K \in Nat \ {0}, NEW x \in Int PROVE x % K \in 0 .. K - 1
OBVIOUS

LEMMA ModIs == ASSUME NEW K \in Nat \ {0}, NEW q \in Int, NEW r \in 0 .. K - 1 PROVE (K * q + r) % K = r
OBVIOUS

LEMMA ModSame ==
  ASSUME NEW K \in Nat \ {0}, NEW y \in Int, NEW k \in Int
  PROVE  (K * k + y) % K = y % K
<1> DEFINE q == y \div K
           r == y % K
<1>1. q \in Int /\ r \in 0 .. K - 1 /\ y = K * q + r
  OBVIOUS
<1> HIDE DEF q, r
<1>2. K * k + y = K * (k + q) + r
  BY <1>1
<1>3. k + q \in Int
  BY <1>1
<1>4. (K * (k + q) + r) % K = r
  BY <1>1, <1>3, ModIs
<1> QED BY <1>2, <1>4 DEF r

LEMMA ModPlus ==
  ASSUME NEW K \in Nat \ {0}, NEW x \in Int, NEW c \in Int
  PROVE  ((x % K) + c) % K = (x + c) % K
<1> DEFINE q == x \div K
           r == x % K
<1>1. q \in Int /\ r \in 0 .. K - 1 /\ x = K * q + r
  OBVIOUS
<1> HIDE DEF q, r
<1>2. x + c = K * q + (r + c) /\ r + c \in Int
  BY <1>1
<1>3. (K * q + (r + c)) % K = (r + c) % K
  BY <1>1, <1>2, ModSame
<1> QED BY <1>2, <1>3 DEF r

\* What counting and resizing by c do to the difference of what was counted.
Differs(K, a, b, c) ==
  /\ (a + K - b) % K \in Nat
  /\ (((a + K - b) % K) + c) % K = ((a + c) + K - b) % K
  /\ (((a + K - b) % K) + K - c) % K = (a + K - (b + c)) % K

LEMMA CountsOn ==
  ASSUME NEW K \in Nat \ {0}, NEW a \in Nat, NEW b \in Nat, NEW c \in Nat
  PROVE  Differs(K, a, b, c)
<1> DEFINE x == a + K - b
           r == x % K
<1>1. x \in Int /\ K - c \in Int /\ c \in Int /\ r \in 0 .. K - 1
  BY ModIn
<1>2. (r + c) % K = (x + c) % K
  BY <1>1, ModPlus
<1>3. (r + (K - c)) % K = (x + (K - c)) % K
  BY <1>1, ModPlus
<1>4. (K * 1 + (a + K - (b + c))) % K = (a + K - (b + c)) % K
  <2>1. a + K - (b + c) \in Int /\ 1 \in Int
    OBVIOUS
  <2> QED BY <2>1, ModSame
<1>5. x + c = (a + c) + K - b /\ x + (K - c) = K * 1 + (a + K - (b + c)) /\ r + (K - c) = r + K - c
  BY <1>1
<1>6. r \in Nat
  BY <1>1
<1> HIDE DEF r, x
<1>7. (r + c) % K = ((a + c) + K - b) % K
  BY <1>2, <1>5
<1>8. (r + K - c) % K = (a + K - (b + c)) % K
  BY <1>3, <1>4, <1>5
<1> QED BY <1>6, <1>7, <1>8 DEF r, x, Differs

-----------------------------------------------------------------------------
(* What a walk has asked *)

\* Every entry is of a member that has a number of choices.
Priced(type, w) == \A i \in DOMAIN w : ChoicesIn(type, w[i]) \in Nat

AllIn(type, w) == AskedIn(type, w, Len(w))

LEMMA AskedNat ==
  ASSUME NEW type, NEW w \in Seq(Seq(Nat)), Priced(type, w), NEW n \in 0 .. Len(w)
  PROVE  AskedIn(type, w, n) \in Nat
<1> DEFINE P == {k \in Nat : k <= Len(w) => AskedIn(type, w, k) \in Nat}
<1>1. 0 \in P
  BY AskedStep
<1>2. ASSUME NEW k \in Nat, k \in P PROVE k + 1 \in P
  <2> SUFFICES ASSUME k + 1 <= Len(w) PROVE AskedIn(type, w, k + 1) \in Nat
    OBVIOUS
  <2>1. AskedIn(type, w, k) \in Nat
    BY <1>2
  <2>2. ChoicesIn(type, w[k + 1]) \in Nat
    <3>1. k + 1 \in DOMAIN w
      OBVIOUS
    <3> QED BY <3>1 DEF Priced
  <2>3. AskedIn(type, w, k + 1) = AskedIn(type, w, k) + ChoicesIn(type, w[k + 1])
    BY AskedStep
  <2> QED BY <2>1, <2>2, <2>3
<1>3. n \in P
  <2>1. n \in Nat
    OBVIOUS
  <2> HIDE DEF P
  <2> QED BY <1>1, <1>2, <2>1, NatSetInduction
<1> QED BY <1>3

LEMMA AskedOn ==
  ASSUME NEW type, NEW w \in Seq(Seq(Nat)), Priced(type, w), NEW p \in Seq(Nat),
         ChoicesIn(type, p) \in Nat
  PROVE  /\ Append(w, p) \in Seq(Seq(Nat)) /\ Priced(type, Append(w, p))
         /\ Len(Append(w, p)) = Len(w) + 1 /\ Append(w, p)[Len(w) + 1] = p
         /\ DOMAIN Append(w, p) = 1 .. Len(w) + 1 /\ DOMAIN w = 1 .. Len(w) /\ Len(w) \in Nat
         /\ \A n \in DOMAIN w : Append(w, p)[n] = w[n]
         /\ \A n \in 0 .. Len(w) : AskedIn(type, Append(w, p), n) = AskedIn(type, w, n)
         /\ AskedIn(type, Append(w, p), Len(w) + 1) = AllIn(type, w) + ChoicesIn(type, p)
         /\ AllIn(type, Append(w, p)) = AllIn(type, w) + ChoicesIn(type, p)
         /\ AllIn(type, w) \in Nat
<1> DEFINE a == Append(w, p)
           z == Len(w)
<1>1. /\ a \in Seq(Seq(Nat)) /\ Len(a) = z + 1 /\ a[z + 1] = p /\ z \in Nat
      /\ DOMAIN a = 1 .. z + 1 /\ DOMAIN w = 1 .. z /\ \A n \in DOMAIN w : a[n] = w[n]
  OBVIOUS
<1> HIDE DEF a, z
<1>2. Priced(type, a)
  <2> SUFFICES ASSUME NEW i \in DOMAIN a PROVE ChoicesIn(type, a[i]) \in Nat
    BY DEF Priced
  <2>1. CASE i = z + 1
    BY <1>1, <2>1
  <2>2. CASE i # z + 1
    <3>1. i \in DOMAIN w /\ a[i] = w[i]
      BY <1>1, <2>2
    <3> QED BY <3>1 DEF Priced
  <2> QED BY <2>1, <2>2
<1>3. ASSUME NEW n \in 0 .. z PROVE AskedIn(type, a, n) = AskedIn(type, w, n)
  <2>1. n \in Nat /\ \A i \in 1 .. n : i \in DOMAIN w
    BY <1>1
  <2>2. SameMembers(a, w, n)
    BY <1>1, <2>1, Zenon DEF SameMembers
  <2> QED BY <2>1, <2>2, AskedSame
<1>4. AskedIn(type, a, z + 1) = AskedIn(type, w, z) + ChoicesIn(type, p)
  <2>1. AskedIn(type, a, z + 1) = AskedIn(type, a, z) + ChoicesIn(type, a[z + 1])
    BY <1>1, AskedStep
  <2>2. z \in 0 .. z
    BY <1>1
  <2> QED BY <1>1, <1>3, <2>1, <2>2
<1>5. AskedIn(type, w, z) \in Nat
  <2>1. z \in 0 .. Len(w)
    BY <1>1 DEF z
  <2> QED BY <2>1, AskedNat
<1>6. AllIn(type, w) = AskedIn(type, w, z) /\ AllIn(type, a) = AskedIn(type, a, z + 1)
  BY <1>1 DEF AllIn, z
<1> QED BY <1>1, <1>2, <1>3, <1>4, <1>5, <1>6 DEF a, z

-----------------------------------------------------------------------------
(* The walk that is counted down *)

Enough(type, w, c) == {n \in DOMAIN w : c > 0 /\ AskedIn(type, w, n) >= c}

FirstOf(S) == {k \in S : \A j \in S : k <= j}

\* The counter and the members forced when the walk w counts down from c.
Forcing(type, w, c, count, members) ==
  /\ members = {w[n] : n \in FirstOf(Enough(type, w, c))}
  /\ Enough(type, w, c) # {} => count = 0
  /\ Enough(type, w, c) = {} =>
       /\ count = (IF c = 0 THEN 0 ELSE c - AllIn(type, w))
       /\ c > 0 => AllIn(type, w) < c

\* A walk that begins.
LEMMA ForcingStart == ASSUME NEW type, NEW c \in Nat PROVE Forcing(type, <<>>, c, c, {})
<1>1. Enough(type, <<>>, c) = {}
  BY DEF Enough
<1>2. FirstOf({}) = {}
  BY DEF FirstOf
<1>3. AllIn(type, <<>>) = 0
  <2>1. Len(<<>>) = 0
    OBVIOUS
  <2> QED BY <2>1, AskedStep DEF AllIn
<1>4. {} = {<<>>[n] : n \in {}}
  OBVIOUS
<1>5. Enough(type, <<>>, c) = {} =>
       /\ c = (IF c = 0 THEN 0 ELSE c - AllIn(type, <<>>))
       /\ c > 0 => AllIn(type, <<>>) < c
  BY <1>3
<1> QED BY <1>1, <1>2, <1>4, <1>5, Zenon DEF Forcing

\* With the n-th member p, of k choices, the walk w has come to enough.
Continued(type, w, p, k, c, n) ==
  /\ (c > 0 /\ AllIn(type, w) + k >= c) => Enough(type, Append(w, p), c) = Enough(type, w, c) \cup {n}
  /\ ~(c > 0 /\ AllIn(type, w) + k >= c) => Enough(type, Append(w, p), c) = Enough(type, w, c)
  /\ \A i \in Enough(type, w, c) : i \in Nat /\ i < n /\ Append(w, p)[i] = w[i]

LEMMA EnoughOn ==
  ASSUME NEW type, NEW w \in Seq(Seq(Nat)), Priced(type, w), NEW p \in Seq(Nat),
         NEW k \in Nat, k = ChoicesIn(type, p), NEW c \in Nat, NEW n, n = Len(w) + 1
  PROVE  Continued(type, w, p, k, c, n)
<1> DEFINE a == Append(w, p)
           on == c > 0 /\ AllIn(type, w) + k >= c
<1>1. /\ DOMAIN a = 1 .. n /\ DOMAIN w = 1 .. n - 1 /\ n \in Nat \ {0}
      /\ \A i \in DOMAIN w : a[i] = w[i] /\ AskedIn(type, a, i) = AskedIn(type, w, i)
      /\ AskedIn(type, a, n) = AllIn(type, w) + k
  <2>1. /\ DOMAIN a = 1 .. Len(w) + 1 /\ DOMAIN w = 1 .. Len(w) /\ Len(w) \in Nat
        /\ \A i \in DOMAIN w : a[i] = w[i]
        /\ \A i \in 0 .. Len(w) : AskedIn(type, a, i) = AskedIn(type, w, i)
        /\ AskedIn(type, a, Len(w) + 1) = AllIn(type, w) + k
    BY AskedOn
  <2> HIDE DEF a
  <2>2. \A i \in DOMAIN w : i \in 0 .. Len(w)
    BY <2>1
  <2>3. Len(w) = n - 1
    BY <2>1
  <2> QED BY <2>1, <2>2, <2>3
<1> HIDE DEF a
<1>2. \A i \in Enough(type, w, c) : i \in DOMAIN w
  BY DEF Enough
<1>3. \A i \in Enough(type, w, c) : i \in Nat /\ i < n /\ a[i] = w[i]
  BY <1>1, <1>2
<1>4. \A i : i \in DOMAIN a <=> i \in DOMAIN w \/ i = n
  BY <1>1
<1>5. \A i : i \in DOMAIN w => (i \in Enough(type, a, c) <=> i \in Enough(type, w, c))
  BY <1>1, <1>4, Zenon DEF Enough
<1>6. n \in Enough(type, a, c) <=> on
  BY <1>1, <1>4, Zenon DEF Enough
<1>7. \A i : i \in Enough(type, a, c) => i \in DOMAIN w \/ i = n
  BY <1>4, Zenon DEF Enough
<1>8. ASSUME on PROVE Enough(type, a, c) = Enough(type, w, c) \cup {n}
  BY <1>2, <1>5, <1>6, <1>7, <1>8
<1>9. ASSUME ~on PROVE Enough(type, a, c) = Enough(type, w, c)
  BY <1>2, <1>5, <1>6, <1>7, <1>9
<1> QED BY <1>3, <1>8, <1>9, Zenon DEF a, Continued

LEMMA FirstOn ==
  ASSUME NEW S, S # {}, NEW n \in Nat, \A k \in S : k \in Nat /\ k < n
  PROVE  FirstOf(S \cup {n}) = FirstOf(S)
BY DEF FirstOf

LEMMA ForcingOn ==
  ASSUME NEW type, NEW w \in Seq(Seq(Nat)), Priced(type, w), NEW p \in Seq(Nat), NEW k \in Nat,
         k = ChoicesIn(type, p), NEW c \in Nat, NEW count, NEW members, Forcing(type, w, c, count, members),
         NEW next, NEW others,
         0 < count /\ count <= k => next = 0 /\ others = members \cup {p},
         ~(0 < count /\ count <= k) => next = (IF count = 0 THEN 0 ELSE count - k) /\ others = members
  PROVE  Forcing(type, Append(w, p), c, next, others)
<1> DEFINE a == Append(w, p)
           n == Len(w) + 1
           E == Enough(type, w, c)
           F == Enough(type, a, c)
           s == AllIn(type, w)
<1>0. Continued(type, w, p, k, c, n)
  BY EnoughOn
<1>1. /\ (c > 0 /\ s + k >= c) => F = E \cup {n}
      /\ ~(c > 0 /\ s + k >= c) => F = E
      /\ \A i \in E : i \in Nat /\ i < n /\ a[i] = w[i]
  BY <1>0, Zenon DEF Continued
<1>2. s \in Nat /\ AllIn(type, a) = s + k /\ a[n] = p /\ n \in Nat
  BY AskedOn
<1>3. /\ members = {w[i] : i \in FirstOf(E)}
      /\ E # {} => count = 0
      /\ E = {} => count = (IF c = 0 THEN 0 ELSE c - s) /\ (c > 0 => s < c)
  BY DEF Forcing
<1> HIDE DEF a, n, E, F, s
<1>4. FirstOf(E) \subseteq E
  BY DEF FirstOf
<1>5. {w[i] : i \in FirstOf(E)} = {a[i] : i \in FirstOf(E)}
  BY <1>1, <1>4
<1>6. CASE E # {}
  <2>1. next = 0 /\ others = members /\ F # {}
    BY <1>1, <1>3, <1>6
  <2>2. FirstOf(F) = FirstOf(E)
    <3>1. FirstOf(E \cup {n}) = FirstOf(E)
      BY <1>1, <1>2, <1>6, FirstOn
    <3> QED BY <1>1, <3>1
  <2> QED BY <1>3, <1>5, <2>1, <2>2, Zenon DEF Forcing, F, a
<1>7. CASE E = {} /\ c = 0
  <2>1. next = 0 /\ others = members /\ F = {}
    BY <1>1, <1>3, <1>7
  <2>2. members = {}
    BY <1>3, <1>4, <1>7
  <2>3. members = {a[i] : i \in FirstOf(F)}
    BY <2>1, <2>2 DEF FirstOf
  <2>4. next = (IF c = 0 THEN 0 ELSE c - AllIn(type, a)) /\ ~(c > 0)
    BY <1>7, <2>1
  <2> QED BY <2>1, <2>3, <2>4, Zenon DEF Forcing, F, a
<1>8. CASE E = {} /\ c > 0 /\ s + k >= c
  <2>1. count = c - s /\ 0 < count /\ count <= k
    BY <1>2, <1>3, <1>8
  <2>2. next = 0 /\ others = members \cup {p} /\ F = {n}
    BY <1>1, <1>8, <2>1
  <2>3. members = {}
    BY <1>3, <1>4, <1>8
  <2>4. FirstOf(F) = {n}
    BY <1>2, <2>2 DEF FirstOf
  <2>5. others = {a[i] : i \in FirstOf(F)}
    BY <1>2, <2>2, <2>3, <2>4
  <2>6. F # {}
    BY <2>2
  <2> QED BY <2>2, <2>5, <2>6, Zenon DEF Forcing, F, a
<1>9. CASE E = {} /\ c > 0 /\ ~(s + k >= c)
  <2>1. count = c - s /\ 0 < count /\ ~(count <= k) /\ count # 0
    BY <1>2, <1>3, <1>9
  <2>2. next = count - k /\ others = members /\ F = {}
    BY <1>1, <1>9, <2>1
  <2>3. members = {}
    BY <1>3, <1>4, <1>9
  <2>4. others = {a[i] : i \in FirstOf(F)}
    BY <2>2, <2>3 DEF FirstOf
  <2>5. next = (IF c = 0 THEN 0 ELSE c - AllIn(type, a)) /\ AllIn(type, a) < c
    BY <1>2, <1>9, <2>1, <2>2
  <2> QED BY <2>2, <2>4, <2>5, Zenon DEF Forcing, F, a
<1> QED BY <1>6, <1>7, <1>8, <1>9

-----------------------------------------------------------------------------
(* The counter *)

CreditOf(type, ws) ==
  (AllIn(type, ws["count"]) + CounterSize - AllIn(type, ws["resize"])) % CounterSize

\* Counting adds, resizing subtracts, and the normal walk counts down from the difference.
CounterInv ==
  /\ \A m \in Modes : Priced(Shape, walked[m])
  /\ mode # "normal" => counter = CreditOf(Shape, walked) /\ forced = {}
  /\ mode = "normal" => Forcing(Shape, walked["normal"], CreditOf(Shape, walked), counter, forced)
  /\ phase = "called" => mode = "normal"

LEMMA ChoicesNow ==
  ASSUME Inv, NestInv, GuardInv, WalkInv, Running, Now.op # "draw"
  PROVE  /\ ChoicesIn(Shape, Now.of) \in Nat
         /\ Now.op \in {"call", "copy"} => Options = ChoicesIn(Shape, Now.of)
         /\ Now.op = "assign" => ChoicesIn(Shape, Now.of) = 0
<1>1. /\ phase = "made" /\ pc \in DOMAIN body /\ Now = body[pc] /\ SoundIn(Shape, Now)
      /\ at \in DOMAIN shapes /\ shapes \in Shapes
  BY AtStatement DEF Running, NestInv
<1>2. Now.op = "assign" => KindIn(Shape, Now.of) = "enum"
  <2>1. AllMeant
    BY <1>1 DEF Inv, BodyInv
  <2>2. Meant(Now)
    BY <1>1, <2>1 DEF AllMeant
  <2> QED BY <2>2, AtMeans DEF Meant
<1>3. CASE Now.of = <<>> /\ Now.op \in {"draw", "assign"}
  BY <1>2, <1>3 DEF ChoicesIn
<1>4. CASE Now.of \in LeavesIn(Shape)
  <2>1. Now.of \in PathsIn(Shape) /\ Now.of # <<>>
    BY <1>4, PathSeq DEF LeavesIn
  <2>2. IsType(Shape)
    BY <1>1, ShapeKnown
  <2>3. IsMember(MemberIn(Shape, Now.of))
    BY <2>1, <2>2 DEF IsType
  <2>4. KindIn(Shape, Now.of) = MemberIn(Shape, Now.of).kind
    BY <2>1 DEF KindIn
  <2>5. ChoicesIn(Shape, Now.of) = MemberIn(Shape, Now.of).options /\ ChoicesIn(Shape, Now.of) \in Nat
    BY <2>3, <2>4 DEF IsMember, ChoicesIn
  <2>6. Options = MemberIn(Shape, Now.of).options
    BY AtMeans DEF Options
  <2>7. Now.op = "assign" => ChoicesIn(Shape, Now.of) = 0
    BY <1>2 DEF ChoicesIn
  <2> QED BY <2>5, <2>6, <2>7
<1> QED BY <1>1, <1>3, <1>4 DEF SoundIn

\* A member of k choices is walked.
LEMMA VisitCounts ==
  ASSUME Inv, NestInv, GuardInv, WalkInv, CounterInv, Running, Visit, UNCHANGED <<generation, mode>>,
         NEW k \in Nat, k = ChoicesIn(Shape, Now.of),
         mode = "count" => counter' = (counter + k) % CounterSize /\ forced' = forced,
         mode = "resize" => counter' = (counter + CounterSize - k) % CounterSize /\ forced' = forced,
         mode = "normal" =>
           /\ 0 < counter /\ counter <= k => counter' = 0 /\ forced' = forced \cup {Now.of}
           /\ ~(0 < counter /\ counter <= k) =>
                counter' = (IF counter = 0 THEN 0 ELSE counter - k) /\ forced' = forced
  PROVE  CounterInv'
<1> DEFINE w == walked[mode]
           p == Now.of
           a == Append(w, p)
<1>1. /\ p \in Seq(Nat) /\ mode \in Modes /\ w \in Seq(Seq(Nat)) /\ Priced(Shape, w)
      /\ \A m \in Modes : walked[m] \in Seq(Seq(Nat)) /\ Priced(Shape, walked[m])
  BY AtStatement DEF WalkInv, CounterInv
<1>2. /\ DOMAIN walked' = Modes /\ walked'[mode] = a
      /\ \A m \in Modes : m # mode => walked'[m] = walked[m]
  BY <1>1 DEF Visit, WalkInv
<1>3. Priced(Shape, a) /\ AllIn(Shape, a) = AllIn(Shape, w) + k
  <2>1. ChoicesIn(Shape, p) \in Nat
    OBVIOUS
  <2> HIDE DEF w, p
  <2>2. Priced(Shape, a) /\ AllIn(Shape, a) = AllIn(Shape, w) + ChoicesIn(Shape, p)
    BY <1>1, <2>1, AskedOn
  <2> QED BY <2>2 DEF p
<1> HIDE DEF w, a, p
<1>4. Shape' = Shape /\ mode' = mode /\ phase' = "made" /\ phase = "made"
  BY DEF generation, Shape, Running
<1>5. \A m \in Modes : Priced(Shape, walked'[m])
  BY <1>1, <1>2, <1>3
<1>6. \A m \in Modes : AllIn(Shape, walked[m]) \in Nat
  <2> SUFFICES ASSUME NEW m \in Modes PROVE AllIn(Shape, walked[m]) \in Nat
    OBVIOUS
  <2>1. walked[m] \in Seq(Seq(Nat)) /\ Priced(Shape, walked[m]) /\ Len(walked[m]) \in 0 .. Len(walked[m])
    BY <1>1
  <2> QED BY <2>1, AskedNat DEF AllIn
<1> DEFINE x == AllIn(Shape, walked["count"])
           y == AllIn(Shape, walked["resize"])
<1>7. /\ x \in Nat /\ y \in Nat /\ CounterSize \in Nat \ {0}
      /\ CreditOf(Shape, walked) = (x + CounterSize - y) % CounterSize
  BY <1>6, EngineAssumption DEF Modes, CreditOf
<1> HIDE DEF x, y
<1>8. /\ (x + CounterSize - y) % CounterSize \in Nat
      /\ (((x + CounterSize - y) % CounterSize) + k) % CounterSize = ((x + k) + CounterSize - y) % CounterSize
      /\ (((x + CounterSize - y) % CounterSize) + CounterSize - k) % CounterSize
           = (x + CounterSize - (y + k)) % CounterSize
  <2>1. Differs(CounterSize, x, y, k)
    BY <1>7, CountsOn
  <2> QED BY <2>1, Zenon DEF Differs
<1>9. CASE mode = "count"
  <2>1. counter = (x + CounterSize - y) % CounterSize /\ forced = {}
    BY <1>7, <1>9 DEF CounterInv
  <2>2. CreditOf(Shape, walked') = ((x + k) + CounterSize - y) % CounterSize
    <3>1. AllIn(Shape, walked'["count"]) = x + k /\ AllIn(Shape, walked'["resize"]) = y
      BY <1>2, <1>3, <1>9 DEF Modes, w, x, y
    <3> QED BY <3>1 DEF CreditOf
  <2>3. counter' = CreditOf(Shape, walked') /\ forced' = {}
    BY <1>8, <1>9, <2>1, <2>2
  <2> QED BY <1>4, <1>5, <1>9, <2>3 DEF CounterInv
<1>10. CASE mode = "resize"
  <2>1. counter = (x + CounterSize - y) % CounterSize /\ forced = {}
    BY <1>7, <1>10 DEF CounterInv
  <2>2. CreditOf(Shape, walked') = (x + CounterSize - (y + k)) % CounterSize
    <3>1. AllIn(Shape, walked'["count"]) = x /\ AllIn(Shape, walked'["resize"]) = y + k
      BY <1>2, <1>3, <1>10 DEF Modes, w, x, y
    <3> QED BY <3>1 DEF CreditOf
  <2>3. counter' = CreditOf(Shape, walked') /\ forced' = {}
    BY <1>8, <1>10, <2>1, <2>2
  <2> QED BY <1>4, <1>5, <1>10, <2>3 DEF CounterInv
<1>11. CASE mode = "normal"
  <2> DEFINE c == CreditOf(Shape, walked)
  <2>1. CreditOf(Shape, walked') = c
    BY <1>2, <1>11 DEF CreditOf, Modes
  <2>2. c \in Nat /\ Forcing(Shape, w, c, counter, forced)
    BY <1>7, <1>8, <1>11 DEF CounterInv, w
  <2> HIDE DEF c
  <2>3. /\ 0 < counter /\ counter <= k => counter' = 0 /\ forced' = forced \cup {p}
        /\ ~(0 < counter /\ counter <= k) =>
                counter' = (IF counter = 0 THEN 0 ELSE counter - k) /\ forced' = forced
    BY <1>11 DEF p
  <2>4. k = ChoicesIn(Shape, p)
    BY DEF p
  <2>5. Forcing(Shape, a, c, counter', forced')
    BY <1>1, <2>2, <2>3, <2>4, ForcingOn DEF a
  <2>6. walked'["normal"] = a
    BY <1>2, <1>11
  <2> QED BY <1>4, <1>5, <1>11, <2>1, <2>5, <2>6 DEF CounterInv
<1> QED BY <1>1, <1>9, <1>10, <1>11 DEF Modes

LEMMA ModStays ==
  ASSUME NEW K \in Nat \ {0}, NEW r \in 0 .. K - 1
  PROVE  (r + 0) % K = r /\ (r + K - 0) % K = r
<1>1. (K * 0 + r) % K = r /\ (K * 1 + r) % K = r
  BY ModIs
<1>2. K * 0 + r = r + 0 /\ K * 1 + r = r + K - 0
  OBVIOUS
<1> QED BY <1>1, <1>2

\* What the counter can be.
LEMMA Counting ==
  ASSUME Inv, WalkInv, CounterInv
  PROVE  /\ CreditOf(Shape, walked) \in 0 .. CounterSize - 1
         /\ CreditOf(Shape, walked) \in Nat /\ counter \in Int
         /\ mode # "normal" => (counter + 0) % CounterSize = counter
                               /\ (counter + CounterSize - 0) % CounterSize = counter
<1> DEFINE c == CreditOf(Shape, walked)
<1>1. ASSUME NEW m \in Modes PROVE AllIn(Shape, walked[m]) \in Nat
  <2>1. walked[m] \in Seq(Seq(Nat)) /\ Priced(Shape, walked[m])
    BY DEF WalkInv, CounterInv
  <2>2. Len(walked[m]) \in 0 .. Len(walked[m])
    BY <2>1
  <2> QED BY <2>1, <2>2, AskedNat DEF AllIn
<1> DEFINE x == AllIn(Shape, walked["count"])
           y == AllIn(Shape, walked["resize"])
<1>2. x \in Nat /\ y \in Nat /\ CounterSize \in Nat \ {0} /\ AllIn(Shape, walked["normal"]) \in Nat
  BY <1>1, EngineAssumption DEF Modes
<1>3. c = (x + CounterSize - y) % CounterSize
  BY DEF CreditOf
<1> HIDE DEF x, y
<1>4. x + CounterSize - y \in Int
  BY <1>2
<1>5. c \in 0 .. CounterSize - 1 /\ c \in Nat
  BY <1>2, <1>3, <1>4, ModIn
<1> HIDE DEF c
<1>6. CASE mode # "normal"
  <2>1. counter = c
    BY <1>6 DEF CounterInv, c
  <2>2. (c + 0) % CounterSize = c /\ (c + CounterSize - 0) % CounterSize = c
    BY <1>2, <1>5, ModStays
  <2> QED BY <1>5, <2>1, <2>2 DEF c
<1>7. CASE mode = "normal"
  <2>1. Forcing(Shape, walked["normal"], c, counter, forced)
    BY <1>7 DEF CounterInv, c
  <2>2. counter \in Int
    BY <1>2, <1>5, <2>1 DEF Forcing
  <2> QED BY <1>5, <1>7, <2>2 DEF c
<1> QED BY <1>6, <1>7

LEMMA AssignCounts == ASSUME Inv, NestInv, GuardInv, WalkInv, CounterInv, AssignValue PROVE CounterInv'
<1>1. Running /\ Now.op = "assign" /\ Step /\ Visit /\ UNCHANGED <<counter, forced>> /\ mode \in Modes
  BY DEF AssignValue, Inv, TypeOK, Modes
<1>2. 0 = ChoicesIn(Shape, Now.of)
  BY <1>1, ChoicesNow
<1>3. /\ counter \in Int
      /\ mode # "normal" => (counter + 0) % CounterSize = counter
                            /\ (counter + CounterSize - 0) % CounterSize = counter
  BY Counting
<1>4. ~(0 < counter /\ counter <= 0) /\ (IF counter = 0 THEN 0 ELSE counter - 0) = counter
  BY <1>3
<1>5. UNCHANGED <<generation, mode>>
  BY <1>1 DEF Step
<1>6. /\ mode = "count" => counter' = (counter + 0) % CounterSize /\ forced' = forced
      /\ mode = "resize" => counter' = (counter + CounterSize - 0) % CounterSize /\ forced' = forced
  BY <1>1, <1>3
<1>7. /\ 0 < counter /\ counter <= 0 => counter' = 0 /\ forced' = forced \cup {Now.of}
      /\ ~(0 < counter /\ counter <= 0) =>
           counter' = (IF counter = 0 THEN 0 ELSE counter - 0) /\ forced' = forced
  BY <1>1, <1>4
<1>8. 0 \in Nat
  OBVIOUS
<1> QED BY <1>1, <1>2, <1>5, <1>6, <1>7, <1>8, VisitCounts

LEMMA CallCounts == ASSUME Inv, NestInv, GuardInv, WalkInv, CounterInv, CallMutator PROVE CounterInv'
<1> DEFINE k == Options
<1>1. /\ Running /\ Now.op \in {"call", "copy"} /\ Step /\ Visit /\ mode \in Modes
      /\ \E choice \in AnyChoice : Pick(choice)
  BY DEF CallMutator, Inv, TypeOK, Modes
<1>2. k \in Nat /\ k = ChoicesIn(Shape, Now.of)
  BY <1>1, ChoicesNow
<1>3. PICK choice : Pick(choice)
  BY <1>1
<1>4. UNCHANGED <<generation, mode>>
  BY <1>1 DEF Step
<1>5. counter \in Int
  BY Counting
<1>6. mode = "count" => counter' = (counter + k) % CounterSize /\ forced' = forced
  BY <1>3 DEF Pick
<1>7. mode = "resize" => counter' = (counter + CounterSize - k) % CounterSize /\ forced' = forced
  BY <1>3 DEF Pick
<1>8. mode = "normal" =>
        /\ 0 < counter /\ counter <= k => counter' = 0 /\ forced' = forced \cup {Now.of}
        /\ ~(0 < counter /\ counter <= k) =>
             counter' = (IF counter = 0 THEN 0 ELSE counter - k) /\ forced' = forced
  BY <1>3 DEF Pick, Due
<1> HIDE DEF k
<1> QED BY <1>1, <1>2, <1>4, <1>6, <1>7, <1>8, VisitCounts

LEMMA EndCounts == ASSUME Inv, NestInv, GuardInv, WalkInv, CounterInv, EndWalk PROVE CounterInv'
<1>1. /\ phase = "made" /\ UNCHANGED <<walked, counter, forced>> /\ Shape' = Shape
      /\ CreditOf(Shape, walked)' = CreditOf(Shape, walked)
  BY DEF EndWalk, Shape, CreditOf
<1>2. CASE mode # "normal" /\ mode' # "normal" /\ phase' = phase
  BY <1>1, <1>2 DEF CounterInv
<1>3. CASE mode # "normal" /\ mode' = "normal" /\ phase' = phase
  <2>1. walked["normal"] = <<>> /\ counter = CreditOf(Shape, walked) /\ forced = {}
    BY <1>3 DEF WalkInv, CounterInv
  <2>2. Forcing(Shape, <<>>, CreditOf(Shape, walked), CreditOf(Shape, walked), {})
    BY Counting, ForcingStart
  <2> QED BY <1>1, <1>3, <2>1, <2>2 DEF CounterInv
<1>4. CASE mode = "normal" /\ mode' = "normal" /\ phase' = "called"
  BY <1>1, <1>4 DEF CounterInv
<1> QED BY <1>2, <1>3, <1>4 DEF EndWalk

LEMMA NoneCredited ==
  /\ \A type : CreditOf(type, NotWalked) = 0
  /\ \A type : \A m \in Modes : Priced(type, NotWalked[m])
<1>1. ASSUME NEW type, NEW m \in Modes PROVE AllIn(type, NotWalked[m]) = 0 /\ Priced(type, NotWalked[m])
  <2>1. NotWalked[m] = <<>> /\ Len(<<>>) = 0 /\ DOMAIN <<>> = {}
    BY NoneWalked
  <2> QED BY <2>1, AskedStep DEF AllIn, Priced
<1>2. ASSUME NEW type PROVE CreditOf(type, NotWalked) = 0
  <2>1. CreditOf(type, NotWalked) = (0 + CounterSize - 0) % CounterSize
    BY <1>1 DEF CreditOf, Modes
  <2>2. CounterSize \in Nat \ {0} /\ 0 \in 0 .. CounterSize - 1
    BY EngineAssumption
  <2>3. (0 + CounterSize - 0) % CounterSize = 0
    BY <2>2, ModStays
  <2> QED BY <2>1, <2>3
<1> QED BY <1>1, <1>2

LEMMA Uncounted ==
  ASSUME walked' = NotWalked, mode' = "count", counter' = 0, forced' = {}, phase' # "called"
  PROVE  CounterInv'
<1>1. CreditOf(Shape', walked') = 0 /\ \A m \in Modes : Priced(Shape', walked'[m])
  BY NoneCredited
<1> QED BY <1>1 DEF CounterInv

LEMMA CounterInvNext ==
  ASSUME Inv, NestInv, GuardInv, WalkInv, CounterInv, [Next]_vars
  PROVE  CounterInv'
<1>1. CASE Generating
  <2>1. phase \notin {"made", "called"} /\ phase' # "called"
    BY <1>1 DEF Generating, Generate, Inject, CopyMember, AssignMember, NestStruct, NestUnion,
                NestUnionAgain, CallMember, GuardMember, HasMember, EndMembers, Finish, Abandon
  <2>2. UNCHANGED <<mode, counter, forced, walked>>
    BY <1>1 DEF Generating, walk
  <2>3. mode = "count" /\ walked = NotWalked
    BY <2>1 DEF WalkInv
  <2>4. counter = 0 /\ forced = {}
    BY <2>3, NoneCredited DEF CounterInv
  <2> QED BY <2>1, <2>2, <2>3, <2>4, Uncounted
<1>2. CASE NextType
  <2>1. phase' = "inject" /\ mode' = "count" /\ walked' = NotWalked /\ counter' = 0 /\ forced' = {}
    BY <1>2 DEF NextType
  <2> QED BY <2>1, Uncounted
<1>3. CASE DrawValue \/ NotSelected
  <2>1. UNCHANGED <<shapes, at, phase, mode, counter, forced, walked>>
    BY <1>3 DEF DrawValue, NotSelected, Step, generation
  <2> QED BY <2>1 DEF CounterInv, CreditOf, Shape
<1>4. CASE UNCHANGED vars
  <2>1. UNCHANGED <<shapes, at, phase, mode, counter, forced, walked>>
    BY <1>4 DEF vars, generation, walk
  <2> QED BY <2>1 DEF CounterInv, CreditOf, Shape
<1> QED BY <1>1, <1>2, <1>3, <1>4, AssignCounts, CallCounts, EndCounts DEF Next, Ended

LEMMA CounterAlways == Spec => []CounterInv
<1>1. EngineInit => CounterInv
  <2> SUFFICES ASSUME EngineInit PROVE CounterInv
    OBVIOUS
  <2>1. phase = "inject" /\ mode = "count" /\ walked = NotWalked /\ counter = 0 /\ forced = {}
    BY DEF EngineInit, Init
  <2> QED BY <2>1, NoneCredited DEF CounterInv
<1> QED BY <1>1, CounterInvNext, InvAlways, NestAlways, GuardAlways, WalkAlways, PTL DEF Spec

\* For every range of the counter, and whatever the three walks have drawn: the normal
\* walk forces the first member at which it has come to what was counted, less what the
\* walk for resizing was asked, modulo that range, and no other.
THEOREM CountedMemberForced == Spec => []ForcesWhatWasCounted
<1>1. CounterInv => ForcesWhatWasCounted
  <2> SUFFICES ASSUME CounterInv, phase = "called"
               PROVE  LET credit == (All("count") + CounterSize - All("resize")) % CounterSize
                          due    == {n \in DOMAIN walked["normal"] : credit > 0 /\ Asked("normal", n) >= credit}
                      IN  forced = {walked["normal"][n] : n \in {k \in due : \A j \in due : k <= j}}
    BY DEF ForcesWhatWasCounted
  <2>1. Forcing(Shape, walked["normal"], CreditOf(Shape, walked), counter, forced)
    BY DEF CounterInv
  <2>2. \A m : All(m) = AllIn(Shape, walked[m])
    BY AskedAt, Zenon DEF All, AllIn
  <2>3. (All("count") + CounterSize - All("resize")) % CounterSize = CreditOf(Shape, walked)
    BY <2>2 DEF CreditOf
  <2> DEFINE c == CreditOf(Shape, walked)
             due == {n \in DOMAIN walked["normal"] : c > 0 /\ Asked("normal", n) >= c}
  <2>4. due = Enough(Shape, walked["normal"], c)
    BY AskedAt DEF Enough
  <2>5. forced = {walked["normal"][n] : n \in {k \in due : \A j \in due : k <= j}}
    <3> HIDE DEF due, c
    <3> QED BY <2>1, <2>4 DEF Forcing, FirstOf, c
  <2> QED BY <2>3, <2>5
<1> QED BY <1>1, CounterAlways, PTL
=============================================================================
