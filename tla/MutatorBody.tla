----------------------------- MODULE MutatorBody -----------------------------
(***************************************************************************)
(* The bodies of the generated mutators: what StructureMutatorTemplate,    *)
(* UnionMutatorTemplate and EnumMutatorTemplate of template.py write for   *)
(* the members of a struct or union.  A member of a type that has a name   *)
(* is left to the mutator of its type.  One of an anonymous struct, union  *)
(* or enum is mutated in place: the templates call each other, they are    *)
(* generators that run in step, and what they share is the global          *)
(* nesting_context.                                                        *)
(*                                                                         *)
(* A member is [name, kind, bits, options, members].  Its name is Unnamed  *)
(* for the members C calls anonymous; its kind is "plain" when its type    *)
(* has a mutator; bits says it is a bitfield; options is the number of     *)
(* choices its mutator has, and members are those of an anonymous type.    *)
(* Members are found by their path of indices from the argument.           *)
(***************************************************************************)
EXTENDS Naturals, Sequences, FiniteSets, SequencesExt

CONSTANTS
  Shapes,     \* sequences of types, [kind, members], one for each target of a command
  MaxDepth,   \* bound: how deep members are nested
  MaxMembers  \* bound: how many are next to each other

Unnamed == ""

-----------------------------------------------------------------------------
(* Members *)

\* The members that a path leads to.
MembersIn(type, p) ==
  LET members[n \in 0 .. Len(p)] ==
        IF n = 0 THEN type.members ELSE members[n - 1][p[n]].members
  IN  members[Len(p)]

MemberIn(type, p) == MembersIn(type, Front(p))[Last(p)]

PathsIn(type) ==
  {p \in SeqOf(1 .. MaxMembers, MaxDepth) :
     p # <<>> /\ \A n \in 1 .. Len(p) : p[n] \in DOMAIN MembersIn(type, SubSeq(p, 1, n - 1))}

IsMembers(ms) == ms \in Seq(Range(ms)) /\ Len(ms) <= MaxMembers

\* In C a bitfield is an integer or an enum, and only an anonymous struct or union
\* needs no name.  The mutator of an enum chooses among nothing.
IsMember(m) ==
  /\ m.kind \in {"plain", "enum", "struct", "union"} /\ m.bits \in BOOLEAN /\ m.options \in Nat
  /\ IsMembers(m.members) /\ (m.members # <<>> => m.kind \in {"struct", "union"})
  /\ m.bits => m.kind \in {"plain", "enum"}
  /\ m.name = Unnamed => m.kind \in {"struct", "union"}
  /\ m.kind = "enum" => m.options = 0

IsType(type) ==
  /\ type.kind \in {"struct", "union", "enum"}
  /\ IsMembers(type.members) /\ (type.members # <<>> => type.kind \in {"struct", "union"})
  /\ \A p \in PathsIn(type) :
       IsMember(MemberIn(type, p)) /\ (MemberIn(type, p).members # <<>> => Len(p) < MaxDepth)

ASSUME ShapesAssumption ==
  /\ MaxDepth \in Nat \ {0} /\ MaxMembers \in Nat
  /\ \A ss \in Shapes : ss \in Seq(Range(ss)) /\ \A t \in Range(ss) : IsType(t)

VARIABLES
  shapes,    \* the input
  at,        \* the index of the type whose mutator is generated
  context,   \* nesting_context
  frames,    \* the generators build_all_member_mutators that have not ended
  body,      \* the statements of the mutator
  phase      \* where the program is

generation == <<shapes, at, context, frames, body, phase>>

Shape == shapes[at]

MembersAt(p) == MembersIn(Shape, p)
MemberAt(p)  == MemberIn(Shape, p)

Paths  == PathsIn(Shape)
Leaves == {p \in Paths : MemberAt(p).kind \in {"plain", "enum"}}

KindAt(p) == IF p = <<>> THEN Shape.kind ELSE MemberAt(p).kind
-----------------------------------------------------------------------------
(* NestingContext and the statements *)

FreshContext == [tmp |-> 1, rnd |-> 0, current |-> 0, values |-> 1]

\* op is "draw" (int rnd = fffc_get_random() % range), "call" (of the member's
\* mutator), "copy" (into a temporary, a call, and back) or "assign" (of one of
\* an enum's values).  guard is <<>> or the variable and the value an if asks for.
Statement(op, p, ref, var) ==
  [op |-> op, of |-> p, ref |-> ref, var |-> var, range |-> 0, guard |-> <<>>]

\* Mutant: the values go on where the last union ended.
RandomOn(c) == [c EXCEPT !.rnd = @ + 1]

\* build_random_value.
Random(c) == [c EXCEPT !.rnd = @ + 1, !.current = 0]

Draw(c, members) == [Statement("draw", <<>>, <<>>, c.rnd) EXCEPT !.range = Len(members)]

\* build_arrow_ref of the first name, build_dot_ref of the others.
Reference(ref, m) == Append(ref, m.name)

\* A generator: the template that runs it, whose members, the next one, and
\* the reference to prefix theirs with, <<>> for None.
Frame(by, p, ref) == [by |-> by, path |-> p, next |-> 1, ref |-> ref]

Init ==
  /\ shapes \in Shapes
  /\ at = 1 /\ phase = "inject" /\ context = FreshContext
  /\ frames = <<>> /\ body = <<>>
-----------------------------------------------------------------------------
(* inject *)

Inject ==
  /\ phase = "inject" /\ at <= Len(shapes)
  /\ phase' = "members"
  /\ \/ /\ Shape.kind = "struct"
        /\ frames' = <<Frame("struct", <<>>, <<>>)>> /\ body' = <<>> /\ UNCHANGED context
     \/ /\ Shape.kind = "union"
        /\ context' = Random(context)
        /\ frames' = <<Frame("union", <<>>, <<>>)>> /\ body' = <<Draw(context', Shape.members)>>
     \/ /\ Shape.kind = "enum"
        /\ context' = [context EXCEPT !.values = @ + 1]
        /\ frames' = <<>> /\ body' = <<Statement("assign", <<>>, <<>>, context.values)>>
  /\ UNCHANGED <<shapes, at>>

\* The generator that runs, and its next member.
Top    == Last(frames)
Member == MembersAt(Top.path)[Top.next]
Path   == Append(Top.path, Top.next)
Ref    == Reference(Top.ref, Member)
Advanced == [frames EXCEPT ![Len(frames)].next = @ + 1]

HasMember ==
  /\ phase = "members" /\ frames # <<>>
  /\ Top.next <= Len(MembersAt(Top.path))

\* Mutant: the temporaries are not counted.
CopyOne ==
  /\ HasMember /\ Top.by = "struct" /\ Member.bits
  /\ body' = Append(body, Statement("copy", Path, Ref, context.tmp))
  /\ frames' = Advanced
  /\ UNCHANGED <<shapes, at, phase, context>>

\* A bitfield of a struct is copied out and back.
CopyMember ==
  /\ HasMember /\ Top.by = "struct" /\ Member.bits
  /\ body' = Append(body, Statement("copy", Path, Ref, context.tmp))
  /\ context' = [context EXCEPT !.tmp = @ + 1]
  /\ frames' = Advanced
  /\ UNCHANGED <<shapes, at, phase>>

\* build_nested_mutator of an anonymous enum.  In a union, nothing guards it.
AssignMember ==
  /\ HasMember /\ Member.kind = "enum" /\ ~(Top.by = "struct" /\ Member.bits)
  /\ body' = Append(body, Statement("assign", Path, Ref, context.values))
  /\ context' = [context EXCEPT !.values = @ + 1]
  /\ frames' = Advanced
  /\ UNCHANGED <<shapes, at, phase>>

\* The members of an anonymous struct.  A struct refers to those of an unnamed
\* one as to its own and forgets what it was itself reached by; a union does not
\* look at the name.  Nothing guards them either.
NestStruct ==
  /\ HasMember /\ Member.kind = "struct"
  /\ LET ref == IF Top.by = "struct" /\ Member.name = Unnamed THEN <<>> ELSE Ref
     IN  frames' = Append(Advanced, Frame("struct", Path, ref))
  /\ UNCHANGED <<shapes, at, phase, body, context>>

\* Mutant: an unnamed union is referred to too.
NestedRefNamed == Ref

\* Mutant: a named one is not.
NestedRefNone == <<>>

NestedRef == IF Member.name = Unnamed THEN <<>> ELSE Ref

\* Those of an anonymous union in a struct have a random value of their own.
NestUnion ==
  /\ HasMember /\ Member.kind = "union" /\ Top.by = "struct"
  /\ context' = Random(context)
  /\ body' = Append(body, Draw(context', Member.members))
  /\ frames' = Append(Advanced, Frame("union", Path, NestedRef))
  /\ UNCHANGED <<shapes, at, phase>>

\* Those of one in a union have not, they count on with the members of the union.
NestUnionAgain ==
  /\ HasMember /\ Member.kind = "union" /\ Top.by = "union"
  /\ frames' = Append(Advanced, Frame("union", Path, NestedRef))
  /\ UNCHANGED <<shapes, at, phase, body, context>>

CallMember ==
  /\ HasMember /\ Member.kind = "plain" /\ Top.by = "struct" /\ ~Member.bits
  /\ body' = Append(body, Statement("call", Path, Ref, 0))
  /\ frames' = Advanced
  /\ UNCHANGED <<shapes, at, phase, context>>

Guard == <<context.rnd, context.current>>

\* Mutant: the value is not counted.
GuardSame ==
  /\ HasMember /\ Member.kind = "plain" /\ Top.by = "union"
  /\ body' = Append(body, [Statement("call", Path, Ref, 0) EXCEPT !.guard = Guard])
  /\ context' = [context EXCEPT !.tmp = @ + 1]
  /\ frames' = Advanced
  /\ UNCHANGED <<shapes, at, phase>>

\* The mutator of a member of a union is called for one random value.
GuardMember ==
  /\ HasMember /\ Member.kind = "plain" /\ Top.by = "union"
  /\ body' = Append(body, [Statement("call", Path, Ref, 0) EXCEPT !.guard = Guard])
  /\ context' = [context EXCEPT !.tmp = @ + 1, !.current = @ + 1]
  /\ frames' = Advanced
  /\ UNCHANGED <<shapes, at, phase>>

EndMembers ==
  /\ phase = "members" /\ frames # <<>>
  /\ Top.next > Len(MembersAt(Top.path))
  /\ frames' = Front(frames)
  /\ UNCHANGED <<shapes, at, phase, body, context>>

\* CGenerator concatenates a reference from its names: None is a TypeError.
Unprintable == \E i \in DOMAIN body : Unnamed \in Range(body[i].ref)

\* The text is made and the context is new; after an exception it is not.
Finish ==
  /\ phase = "members" /\ frames = <<>>
  /\ IF Unprintable
     THEN phase' = "raised" /\ UNCHANGED context
     ELSE phase' = "made" /\ context' = FreshContext
  /\ UNCHANGED <<shapes, at, frames, body>>

\* main goes on to the next target.
Abandon ==
  /\ phase = "raised"
  /\ phase' = "inject" /\ at' = at + 1
  /\ UNCHANGED <<shapes, frames, body, context>>

Generate ==
  \/ Inject \/ CopyMember \/ AssignMember \/ NestStruct \/ NestUnion \/ NestUnionAgain
  \/ CallMember \/ GuardMember \/ EndMembers \/ Finish \/ Abandon
-----------------------------------------------------------------------------
(* What the C compiler makes of it *)

Made == phase = "made"

\* The names by which C reaches a member: those of the unnamed ones are skipped.
Names(p) ==
  LET named[n \in 0 .. Len(p)] ==
        IF n = 0 THEN <<>>
        ELSE IF MemberAt(SubSeq(p, 1, n)).name = Unnamed THEN named[n - 1]
        ELSE Append(named[n - 1], MemberAt(SubSeq(p, 1, n)).name)
  IN  named[Len(p)]

\* The last drawing of a variable before a statement.
Drawing(i, k) == CHOOSE j \in 1 .. i - 1 :
  /\ body[j].op = "draw" /\ body[j].var = k
  /\ \A h \in j + 1 .. i - 1 : body[h].op = "draw" => body[h].var # k

\* Can its guard hold?
Selectable(i) ==
  body[i].guard = <<>> \/ body[i].guard[2] < body[Drawing(i, body[i].guard[1])].range

Under(q, p)    == Len(q) < Len(p) /\ SubSeq(p, 1, Len(q)) = q
Above(p)       == {SubSeq(p, 1, n) : n \in 0 .. Len(p) - 1}
UnionsAbove(p) == {q \in Above(p) : KindAt(q) = "union"}
-----------------------------------------------------------------------------
(* Properties *)

\* Some union around p has another union directly in it, around p or before p,
\* or one in a struct before p.
Confused(p) ==
  \E q \in UnionsAbove(p) : \E u \in Paths :
    /\ MemberAt(u).kind = "union" /\ Under(q, u)
    /\ \/ Len(u) = Len(q) + 1 /\ Under(u, p)
       \/ u[Len(q) + 1] < p[Len(q) + 1]

\* Every member has one statement, which some random value selects, except those
\* of or after an anonymous union in a union, whose values the random variable
\* of the union may never have.
EveryMember ==
  Made => \A p \in Leaves :
    \E i \in DOMAIN body :
      /\ body[i].of = p /\ \A j \in DOMAIN body : body[j].of = p => j = i
      /\ Selectable(i) \/ Confused(p)

\* A statement is about the member it was made for, and takes the address of no
\* bitfield, except: in an unnamed aggregate of a named one the named one is
\* forgotten, and bitfields of unions are not copied.
ReachesMember ==
  Made => \A i \in DOMAIN body : body[i].of # <<>> =>
    LET s == body[i]
    IN  /\ \/ s.ref = Names(s.of)
           \/ \E q, r \in Above(s.of) \ {<<>>} :
                Under(q, r) /\ MemberAt(q).name # Unnamed /\ MemberAt(r).name = Unnamed
        /\ s.op = "call" /\ MemberAt(s.of).bits => KindAt(Front(s.of)) = "union"

\* Each variable of the function is declared once, and before it is used, in
\* whatever state the types before have left the context.
DeclaredOnce ==
  Made => \A i \in DOMAIN body :
    /\ \A j \in DOMAIN body : i # j /\ body[i].op = body[j].op /\ body[i].op # "call" =>
         body[i].var # body[j].var
    /\ body[i].guard # <<>> =>
         \E j \in 1 .. i - 1 : body[j].op = "draw" /\ body[j].var = body[i].guard[1]

\* No text can be made of a type only if a union in it has an unnamed struct.
OnlyUnnamedStructsRaise ==
  phase = "raised" => \E p \in Paths :
    MemberAt(p).kind = "struct" /\ MemberAt(p).name = Unnamed /\ KindAt(Front(p)) = "union"
=============================================================================
