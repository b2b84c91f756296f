------------------------- MODULE MutationLogProofs -------------------------
(***************************************************************************)
(* What a mutation log replays to, for every argument, every set of values *)
(* and every length of the line of descent.                                *)
(*                                                                         *)
(* The log is only ever appended to, so what is asked of it follows from   *)
(* what replaying one more event does.  The one place where that is not    *)
(* enough is a child that resized before it replayed its ancestors'        *)
(* events: there two replays of the same events, from two memories, have   *)
(* to be compared, by induction over the events (AlikeAll, ReplayedAlike). *)
(***************************************************************************)
EXTENDS MutationLog, FiniteSetTheorems, WellFoundedInduction, TLAPS

-----------------------------------------------------------------------------
(* Induction, and memory after any number of events *)

\* Induction over the naturals with a set in the place of a predicate: a set
\* of naturals that misses one has a least it misses.
LEMMA NatSetInduction ==
  ASSUME NEW P, 0 \in P, \A n \in Nat : n \in P => n + 1 \in P
  PROVE  Nat \subseteq P
<1> DEFINE T == Nat \ P
           R == OpToRel(<, Nat)
<1>1. IsWellFoundedOn(R, Nat)
  BY NatLessThanWellFounded
<1> SUFFICES ASSUME T # {} PROVE FALSE
  OBVIOUS
<1>2. \A x, y \in Nat : <<y, x>> \in R <=> y < x
  BY DEF OpToRel
<1>3. PICK x \in T : \A y \in T : ~ (<<y, x>> \in R)
  <2> HIDE DEF R
  <2>1. T \subseteq Nat
    OBVIOUS
  <2> HIDE DEF T
  <2> QED BY <1>1, <2>1, WFMin
<1> HIDE DEF R
<1>4. x # 0 /\ x - 1 \in Nat /\ x - 1 < x
  OBVIOUS
<1>5. x - 1 \in P
  BY <1>2, <1>3, <1>4
<1> QED BY <1>4, <1>5

\* Memories is the function its recursive definition describes: one that
\* describes the memory after n events extends to one more.
LEMMA MemoriesUnfold ==
  ASSUME NEW m, NEW events, Len(events) \in Nat
  PROVE  Memories(m, events) =
           [n \in 0 .. Len(events) |->
              IF n = 0 THEN m ELSE Apply(Memories(m, events)[n - 1], events[n])]
<1> DEFINE Describes(g, k) ==
             g = [n \in 0 .. k |-> IF n = 0 THEN m ELSE Apply(g[n - 1], events[n])]
           P == {k \in Nat : \E g : Describes(g, k)}
<1>1. 0 \in P
  <2> DEFINE g == [n \in 0 .. 0 |-> m]
  <2>1. Describes(g, 0)
    OBVIOUS
  <2> QED BY <2>1
<1>2. ASSUME NEW k \in Nat, k \in P PROVE k + 1 \in P
  <2>1. PICK g : Describes(g, k)
    BY <1>2
  <2> DEFINE h == [n \in 0 .. k + 1 |-> IF n = k + 1 THEN Apply(g[k], events[k + 1]) ELSE g[n]]
             next == [n \in 0 .. k + 1 |-> IF n = 0 THEN m ELSE Apply(h[n - 1], events[n])]
  <2>2. ASSUME NEW n \in 0 .. k + 1 PROVE h[n] = next[n]
    <3>1. CASE n = k + 1
      <4>1. h[n] = Apply(g[k], events[k + 1]) /\ h[k] = g[k]
        BY <3>1
      <4>2. next[n] = Apply(h[n - 1], events[n]) /\ n - 1 = k
        BY <3>1
      <4> QED BY <3>1, <4>1, <4>2
    <3>2. CASE n # k + 1 /\ n # 0
      <4>1. n \in 0 .. k /\ n - 1 \in 0 .. k /\ n - 1 # k + 1
        BY <3>2
      <4>2. h[n] = g[n] /\ h[n - 1] = g[n - 1]
        BY <4>1, <3>2
      <4> HIDE DEF h
      <4>3. g[n] = Apply(g[n - 1], events[n])
        BY <2>1, <4>1, <3>2
      <4> QED BY <3>2, <4>2, <4>3
    <3>3. CASE n = 0
      <4>1. g[0] = m
        BY <2>1
      <4> QED BY <3>3, <4>1
    <3> QED BY <3>1, <3>2, <3>3
  <2>3. h = next
    <3>1. h = [n \in 0 .. k + 1 |-> h[n]] /\ next = [n \in 0 .. k + 1 |-> next[n]]
      OBVIOUS
    <3> HIDE DEF h, next
    <3> QED BY <2>2, <3>1
  <2>4. Describes(h, k + 1)
    <3>1. next = [n \in 0 .. k + 1 |-> IF n = 0 THEN m ELSE Apply(h[n - 1], events[n])]
      OBVIOUS
    <3> HIDE DEF h, next
    <3> QED BY <2>3, <3>1
  <2>5. \E f : Describes(f, k + 1)
    <3> HIDE DEF Describes, h
    <3> QED BY <2>4
  <2> HIDE DEF Describes
  <2> QED BY <2>5
<1>3. Len(events) \in P
  <2> HIDE DEF P
  <2> QED BY <1>1, <1>2, NatSetInduction
<1>4. PICK g : Describes(g, Len(events))
  BY <1>3
<1>5. Memories(m, events) = CHOOSE f : Describes(f, Len(events))
  BY DEF Memories
<1>6. Describes(Memories(m, events), Len(events))
  <2> HIDE DEF Describes
  <2> QED BY <1>4, <1>5
<1> QED BY <1>6

\* Before any event memory is what it was; the n-th event makes the n-th memory
\* of the one before.
LEMMA MemoriesStep ==
  ASSUME NEW m, NEW events, Len(events) \in Nat
  PROVE  /\ Memories(m, events)[0] = m
         /\ \A n \in 1 .. Len(events) :
              Memories(m, events)[n] = Apply(Memories(m, events)[n - 1], events[n])
<1> DEFINE M == Memories(m, events)
<1>1. M = [n \in 0 .. Len(events) |-> IF n = 0 THEN m ELSE Apply(M[n - 1], events[n])]
  BY MemoriesUnfold
<1> HIDE DEF M
<1>2. M[0] = m
  BY <1>1
<1>3. ASSUME NEW n \in 1 .. Len(events)
      PROVE  M[n] = Apply(M[n - 1], events[n])
  <2>1. n \in 0 .. Len(events) /\ n # 0
    OBVIOUS
  <2> QED BY <1>1, <2>1
<1> QED BY <1>2, <1>3 DEF M

\* A property of memory that every event of a sequence keeps holds after all.
LEMMA ApplyAllKeeps ==
  ASSUME NEW S, NEW events, Len(events) \in Nat, NEW m \in S,
         \A n \in 1 .. Len(events) : \A x \in S : Apply(x, events[n]) \in S
  PROVE  ApplyAll(m, events) \in S
<1> DEFINE P == {n \in Nat : n <= Len(events) => Memories(m, events)[n] \in S}
<1>1. 0 \in P
  BY MemoriesStep
<1>2. ASSUME NEW n \in Nat, n \in P PROVE n + 1 \in P
  <2> SUFFICES ASSUME n + 1 <= Len(events) PROVE Memories(m, events)[n + 1] \in S
    OBVIOUS
  <2>1. n + 1 \in 1 .. Len(events) /\ n <= Len(events) /\ (n + 1) - 1 = n
    OBVIOUS
  <2>2. Memories(m, events)[n] \in S
    BY <1>2, <2>1
  <2>3. Memories(m, events)[n + 1] = Apply(Memories(m, events)[n], events[n + 1])
    BY <2>1, MemoriesStep
  <2> QED BY <2>1, <2>2, <2>3
<1>3. Len(events) \in P
  <2> HIDE DEF P
  <2> QED BY <1>1, <1>2, NatSetInduction
<1> QED BY <1>3 DEF ApplyAll

\* One event is applied by itself ...
LEMMA ApplyAllOne ==
  ASSUME NEW m, NEW e
  PROVE  ApplyAll(m, <<e>>) = Apply(m, e)
<1>1. Len(<<e>>) = 1 /\ <<e>>[1] = e /\ 1 - 1 = 0
  OBVIOUS
<1>2. Memories(m, <<e>>)[1] = Apply(Memories(m, <<e>>)[0], e) /\ Memories(m, <<e>>)[0] = m
  BY <1>1, MemoriesStep
<1> QED BY <1>1, <1>2 DEF ApplyAll

\* ... and the four of a resizing one after the other.
LEMMA ApplyAllFour ==
  ASSUME NEW m, NEW a, NEW b, NEW c, NEW d
  PROVE  ApplyAll(m, <<a, b, c, d>>) = Apply(Apply(Apply(Apply(m, a), b), c), d)
<1> DEFINE s == <<a, b, c, d>>
<1>1. Len(s) = 4 /\ s[1] = a /\ s[2] = b /\ s[3] = c /\ s[4] = d
  OBVIOUS
<1> HIDE DEF s
<1> DEFINE M == Memories(m, s)
<1>2. M[0] = m /\ \A n \in 1 .. Len(s) : M[n] = Apply(M[n - 1], s[n])
  <2>1. Len(s) \in Nat
    BY <1>1
  <2> QED BY <2>1, MemoriesStep
<1> HIDE DEF M
<1>3. M[1] = Apply(M[0], a) /\ M[2] = Apply(M[1], b) /\ M[3] = Apply(M[2], c)
      /\ M[4] = Apply(M[3], d)
  <2>1. 1 \in 1 .. 4 /\ 2 \in 1 .. 4 /\ 3 \in 1 .. 4 /\ 4 \in 1 .. 4
        /\ 1 - 1 = 0 /\ 2 - 1 = 1 /\ 3 - 1 = 2 /\ 4 - 1 = 3
    OBVIOUS
  <2> QED BY <1>1, <1>2, <2>1
<1>4. ApplyAll(m, s) = M[4]
  BY <1>1 DEF ApplyAll, M
<1> QED BY <1>2, <1>3, <1>4 DEF s

\* Events are replayed one after the other, whatever was replayed before.
LEMMA ApplyAllConcat ==
  ASSUME NEW S, NEW T, NEW s \in Seq(S), NEW t \in Seq(T), NEW m
  PROVE  ApplyAll(m, s \o t) = ApplyAll(ApplyAll(m, s), t)
<1> DEFINE all == s \o t
           X == Memories(m, all)
           Y == Memories(m, s)
           Z == Memories(ApplyAll(m, s), t)
           P == {n \in Nat : n <= Len(s) => X[n] = Y[n]}
           Q == {n \in Nat : n <= Len(t) => X[Len(s) + n] = Z[n]}
<1>1. /\ Len(s) \in Nat /\ Len(t) \in Nat /\ Len(all) = Len(s) + Len(t)
      /\ \A n \in 1 .. Len(s) : all[n] = s[n]
      /\ \A n \in 1 .. Len(t) : all[Len(s) + n] = t[n]
  <2>1. s \in Seq(S \cup T) /\ t \in Seq(S \cup T)
    OBVIOUS
  <2> QED BY <2>1
<1> HIDE DEF all
<1>2. X[0] = m /\ \A n \in 1 .. Len(all) : X[n] = Apply(X[n - 1], all[n])
  BY <1>1, MemoriesStep, SMTT(30)
<1>3. Y[0] = m /\ \A n \in 1 .. Len(s) : Y[n] = Apply(Y[n - 1], s[n])
  BY <1>1, MemoriesStep
<1>4. Z[0] = ApplyAll(m, s) /\ \A n \in 1 .. Len(t) : Z[n] = Apply(Z[n - 1], t[n])
  BY <1>1, MemoriesStep
<1>5. ApplyAll(m, s) = Y[Len(s)] /\ ApplyAll(m, all) = X[Len(s) + Len(t)]
      /\ ApplyAll(ApplyAll(m, s), t) = Z[Len(t)]
  BY <1>1 DEF ApplyAll
<1> HIDE DEF X, Y, Z
<1>6. X[Len(s)] = Y[Len(s)]
  <2>1. 0 \in P
    BY <1>2, <1>3
  <2>2. ASSUME NEW n \in Nat, n \in P PROVE n + 1 \in P
    <3> SUFFICES ASSUME n + 1 <= Len(s) PROVE X[n + 1] = Y[n + 1]
      OBVIOUS
    <3>1. n + 1 \in 1 .. Len(s) /\ n + 1 \in 1 .. Len(all) /\ n <= Len(s) /\ (n + 1) - 1 = n
      BY <1>1
    <3>2. X[n] = Y[n] /\ all[n + 1] = s[n + 1]
      BY <1>1, <2>2, <3>1
    <3>3. X[n + 1] = Apply(X[n], all[n + 1]) /\ Y[n + 1] = Apply(Y[n], s[n + 1])
      BY <1>2, <1>3, <3>1
    <3> QED BY <3>2, <3>3
  <2>3. Len(s) \in P
    <3> HIDE DEF P
    <3> QED BY <1>1, <2>1, <2>2, NatSetInduction
  <2> QED BY <2>3
<1>7. X[Len(s) + Len(t)] = Z[Len(t)]
  <2>1. 0 \in Q
    <3>1. Len(s) + 0 = Len(s)
      BY <1>1
    <3> QED BY <1>4, <1>5, <1>6, <3>1
  <2>2. ASSUME NEW n \in Nat, n \in Q PROVE n + 1 \in Q
    <3> SUFFICES ASSUME n + 1 <= Len(t) PROVE X[Len(s) + (n + 1)] = Z[n + 1]
      OBVIOUS
    <3>1. n + 1 \in 1 .. Len(t) /\ Len(s) + (n + 1) \in 1 .. Len(all) /\ n <= Len(t)
          /\ (n + 1) - 1 = n /\ (Len(s) + (n + 1)) - 1 = Len(s) + n
      BY <1>1
    <3>2. X[Len(s) + n] = Z[n] /\ all[Len(s) + (n + 1)] = t[n + 1]
      BY <1>1, <2>2, <3>1
    <3>3. X[Len(s) + (n + 1)] = Apply(X[Len(s) + n], all[Len(s) + (n + 1)])
          /\ Z[n + 1] = Apply(Z[n], t[n + 1])
      BY <1>2, <1>4, <3>1
    <3> QED BY <3>2, <3>3
  <2>3. Len(t) \in Q
    <3> HIDE DEF Q
    <3> QED BY <1>1, <2>1, <2>2, NatSetInduction
  <2> QED BY <2>3
<1> QED BY <1>5, <1>6, <1>7 DEF all

-----------------------------------------------------------------------------
(* What the seek before a write is for *)

\* What is written at the end of a file is appended to it.
LEMMA PutAtEnd ==
  ASSUME NEW S, NEW T, NEW file \in Seq(S), NEW events \in Seq(T)
  PROVE  PutAt(file, Len(file), events) = file \o events
<1> DEFINE all == file \o events
           U   == S \cup T
<1>1. file \in Seq(U) /\ events \in Seq(U)
  OBVIOUS
<1>2. SubSeq(file, 1, Len(file)) = file
  OBVIOUS
<1>3. SubSeq(file, Len(file) + Len(events) + 1, Len(file)) = <<>>
  BY <1>1
<1>4. all \in Seq(U)
  BY <1>1
<1> HIDE DEF all
<1>5. all \o <<>> = all
  BY <1>4
<1> QED BY <1>2, <1>3, <1>5 DEF PutAt, all

\* Wherever the offset is, what write_event_to_log writes is appended.
LEMMA LoggedAtEnd ==
  ASSUME NEW S, NEW T, log \in Seq(S), NEW events \in Seq(T), LogEvents(events)
  PROVE  log' = log \o events
BY PutAtEnd, Zenon DEF LogEvents, SeekEnd

\* What is read from the beginning is everything.
LEMMA UnreadFromStart ==
  ASSUME NEW S, log \in Seq(S)
  PROVE  Unread(SeekStart(offset)) = log
<1>1. SubSeq(log, 1, Len(log)) = log
  OBVIOUS
<1>2. SeekStart(offset) + 1 = 1
  BY DEF SeekStart
<1> QED BY <1>1, <1>2, Zenon DEF Unread

-----------------------------------------------------------------------------
(* A log begins once *)

\* A sequence of events that holds no BEGIN event.
NoBegin(events) ==
  /\ events \in Seq(Range(events))
  /\ \A i \in DOMAIN events : events[i].type # "begin"

\* A log as BeginOnce wants it; a sequence, so that it can be appended to.
Begun(events) ==
  /\ events \in Seq(Range(events))
  /\ \A i \in DOMAIN events : events[i].type = "begin" <=> i = 1

\* A log stays begun, and begun once, whatever other events are appended.
LEMMA AppendedBegun ==
  ASSUME NEW file, NEW events, Begun(file), file # <<>>, NoBegin(events)
  PROVE  Begun(file \o events) /\ file \o events # <<>>
<1> DEFINE S == Range(file) \cup Range(events)
           all == file \o events
<1>1. file \in Seq(S) /\ events \in Seq(S)
  BY DEF Begun, NoBegin
<1>2. /\ all \in Seq(S) /\ Len(all) = Len(file) + Len(events)
      /\ \A i \in 1 .. Len(all) :
           all[i] = IF i <= Len(file) THEN file[i] ELSE events[i - Len(file)]
  BY <1>1
<1>3. DOMAIN file = 1 .. Len(file) /\ DOMAIN events = 1 .. Len(events)
      /\ DOMAIN all = 1 .. Len(all)
  BY <1>1, <1>2
<1>4. Len(file) \in Nat \ {0} /\ Len(events) \in Nat
  BY <1>1
<1>5. all \in Seq(Range(all))
  <2>1. \A i \in 1 .. Len(all) : all[i] \in Range(all)
    BY <1>3 DEF Range
  <2> HIDE DEF all
  <2>2. Len(all) \in Nat /\ all \in [1 .. Len(all) -> Range(all)]
    BY <1>2, <2>1
  <2> QED BY <2>2
<1>6. ASSUME NEW i \in DOMAIN all
      PROVE  all[i].type = "begin" <=> i = 1
  <2>1. CASE i <= Len(file)
    BY <1>2, <1>3, <2>1 DEF Begun
  <2>2. CASE i > Len(file)
    <3>1. all[i] = events[i - Len(file)] /\ i - Len(file) \in DOMAIN events /\ i # 1
      BY <1>2, <1>3, <1>4, <2>2
    <3> QED BY <3>1 DEF NoBegin
  <2> QED BY <1>3, <1>4, <2>1, <2>2
<1> QED BY <1>1, <1>2, <1>4, <1>5, <1>6 DEF Begun

\* What a resize logs, whole or cut short by the overread, holds no BEGIN.
LEMMA ResizeNoBegin ==
  ASSUME NEW length, NEW c1, NEW c2, c1.type = "copy", c2.type = "copy", NEW at, NEW v,
         NEW ops, ops = <<Allocate(length), c1, c2, Write(at, v)>>
  PROVE  NoBegin(ops) /\ NoBegin(SubSeq(ops, 1, 2))
<1> DEFINE S == {Allocate(length), c1, c2, Write(at, v)}
<1>1. ops \in Seq(S) /\ Len(ops) = 4 /\ DOMAIN ops = 1 .. 4
  OBVIOUS
<1>2. \A e \in S : e.type # "begin"
  BY DEF Allocate, Write
<1>3. \A i \in 1 .. 4 : ops[i] \in S
  BY <1>1
<1>4. NoBegin(ops)
  <2>1. \A i \in 1 .. Len(ops) : ops[i] \in Range(ops)
    BY <1>1 DEF Range
  <2> QED BY <1>1, <1>2, <1>3, <2>1 DEF NoBegin
<1>5. NoBegin(SubSeq(ops, 1, 2))
  <2> DEFINE cut == SubSeq(ops, 1, 2)
  <2>1. cut \in Seq(S) /\ Len(cut) = 2 /\ DOMAIN cut = 1 .. 2
    BY <1>1
  <2>2. \A i \in 1 .. 2 : cut[i] \in S /\ cut[i] \in Range(cut)
    BY <2>1 DEF Range
  <2>3. cut \in Seq(Range(cut))
    BY <2>1, <2>2
  <2> QED BY <1>2, <2>1, <2>2, <2>3 DEF NoBegin
<1> QED BY <1>4, <1>5

LogBegun == Begun(log) /\ log # <<>>

\* BeginOnce holds at the start ...
LEMMA BeginOnceInit == Init => LogBegun
<1> SUFFICES ASSUME Init PROVE LogBegun
  OBVIOUS
<1>1. log = <<Begin>> /\ DOMAIN log = {1} /\ log[1].type = "begin"
  BY DEF Init, Begin
<1>2. log \in Seq(Range(log))
  BY <1>1 DEF Range
<1> QED BY <1>1, <1>2 DEF LogBegun, Begun

\* ... and every step keeps it.
LEMMA BeginOnceStep == LogBegun /\ [Next]_vars => LogBegun'
<1> SUFFICES ASSUME LogBegun, [Next]_vars PROVE LogBegun'
  OBVIOUS
<1>1. CASE UNCHANGED log
  BY <1>1 DEF LogBegun
<1>2. ASSUME NEW count, NEW first, Resize(count, first) PROVE LogBegun'
  <2> DEFINE new  == <<Len(memory.heap) + 1, 0>>
             len1 == IF OriginalSize - first < count THEN OriginalSize - first ELSE count
             len2 == count - len1
             c1   == Copy(new, <<Original, first>>, len1)
             c2   == Copy(<<new[1], len1>>, <<Original, 0>>, len2)
             ops  == <<Allocate(count), c1, c2, Write(Pointer, new[1])>>
             done == IF len2 <= OriginalSize THEN ops ELSE SubSeq(ops, 1, 2)
  <2>1. LogEvents(done)
    BY <1>2, Zenon DEF Resize, Recorded
  <2>2. c1.type = "copy" /\ c2.type = "copy"
    BY DEF Copy
  <2>3. NoBegin(ops) /\ NoBegin(SubSeq(ops, 1, 2))
    <3> HIDE DEF c1, c2, new
    <3> QED BY <2>2, ResizeNoBegin
  <2>4. NoBegin(done)
    <3> HIDE DEF ops, len2
    <3> QED BY <2>3
  <2> HIDE DEF done
  <2>5. log' = log \o done
    BY <2>1, <2>4, LoggedAtEnd DEF LogBegun, Begun, NoBegin
  <2> QED BY <2>4, <2>5, AppendedBegun DEF LogBegun
<1>3. ASSUME NEW v, MutateElement(v) PROVE LogBegun'
  <2>1. LogEvents(<<Written(v)>>)
    BY <1>3 DEF MutateElement
  <2>2. NoBegin(<<Written(v)>>)
    <3>1. Written(v).type = "write"
      BY DEF Written, Write
    <3> DEFINE w == Written(v)
    <3> HIDE DEF w
    <3>2. <<w>> \in Seq(Range(<<w>>)) /\ DOMAIN <<w>> = {1} /\ <<w>>[1] = w
      BY DEF Range
    <3> QED BY <3>1, <3>2 DEF NoBegin, w
  <2>3. log' = log \o <<Written(v)>>
    BY <2>1, <2>2, LoggedAtEnd DEF LogBegun, Begun, NoBegin
  <2> QED BY <2>2, <2>3, AppendedBegun DEF LogBegun
<1>4. CASE NextGeneration
  BY <1>4, <1>1 DEF NextGeneration, ChildLog
<1>5. CASE NoResize \/ Replay \/ SkipElement \/ Call \/ Ended \/ UNCHANGED vars
  BY <1>5, <1>1 DEF NoResize, Replay, SkipElement, Call, Ended, vars
<1> QED BY <1>2, <1>3, <1>4, <1>5 DEF Next

\* However long the line of descent, a log has one BEGIN event and it is the
\* first: every replay checks the call it belongs to before anything else, and
\* never again.
THEOREM LogBeginsOnce == Spec => []BeginOnce
<1>1. LogBegun => BeginOnce
  BY DEF LogBegun, Begun, BeginOnce
<1> QED BY BeginOnceInit, BeginOnceStep, <1>1, PTL DEF Spec

-----------------------------------------------------------------------------
(* What holds between a log, its replays and the child's memory *)

Elem == Range(Argument) \cup Values \cup {Garbage}

\* A mutator only ever writes inside an allocation; the pointer is only ever
\* moved to the second one, the first address malloc gives a fresh child.
PlainWrites == {Write(<<Original, k>>, v) : k \in 0 .. OriginalSize - 1, v \in Elem}
Event ==
  {Begin} \cup {Allocate(n) : n \in Nat}
  \cup {Copy(to, from, n) : to \in Nat \X Nat, from \in Nat \X Nat, n \in Nat}
  \cup {Write(at, v) : at \in (Nat \ {0}) \X Nat, v \in Elem}
  \cup {Write(Pointer, 2)}

\* Events of a line of descent that never resized.
PlainEvent == {Begin} \cup PlainWrites

Memory ==
  {m \in [pointer : {1, 2}, heap : Seq(Seq(Elem)), alive : BOOLEAN] :
     /\ m.pointer \in DOMAIN m.heap
     /\ m.heap # <<>> /\ Len(m.heap[Original]) = OriginalSize}

\* The memory of a process that is alive.
Alive(p, h) == [pointer |-> p, heap |-> h, alive |-> TRUE]

Allocates(i) == log[i].type = "allocate"

TwoAllocations == \E i, j \in DOMAIN log : i # j /\ Allocates(i) /\ Allocates(j)
BothAllocate ==
  /\ \E i \in 1 .. inherited : Allocates(i)
  /\ \E i \in inherited + 1 .. Len(log) : Allocates(i)

LogOK ==
  /\ log \in Seq(Event) /\ inherited \in 1 .. Len(log)
  /\ DebugReplay \in Memory
  /\ DebugReplay.alive \/ TwoAllocations
  /\ \/ \E i \in DOMAIN log : Allocates(i)
     \/ /\ log \in Seq(PlainEvent)
        /\ DebugReplay.pointer = Original /\ Len(DebugReplay.heap) = 1

\* The target sees the same in both.
Agree(d, m) == d.alive /\ m.alive /\ Visible(d) = Visible(m)

\* What fffc_maybe_munge_pointer logs in a child, whose allocation is the second.
Len1(count, first) == IF OriginalSize - first < count THEN OriginalSize - first ELSE count
Len2(count, first) == count - Len1(count, first)
Resizing(count, first) ==
  <<Allocate(count),
    Copy(<<2, 0>>, <<Original, first>>, Len1(count, first)),
    Copy(<<2, Len1(count, first)>>, <<Original, 0>>, Len2(count, first)),
    Write(Pointer, 2)>>

\* The child resized, and its log is what it inherited and that.
Resized ==
  \E count \in 1 .. 2 * OriginalSize, first \in 0 .. OriginalSize - 1 :
    LET inh == SubSeq(log, 1, inherited)
    IN  /\ Len2(count, first) <= OriginalSize
        /\ (\E i \in 1 .. inherited : Allocates(i)) \/ inh \in Seq(PlainEvent)
        /\ log = inh \o Resizing(count, first)
        /\ memory = ApplyAll(Start, Resizing(count, first))

StageOK ==
  \/ stage = "fork" /\ memory = Start /\ inherited = Len(log)
  \/ stage = "replay" /\ memory = Start /\ inherited = Len(log)
  \/ stage = "replay" /\ Resized
  \/ /\ stage \in {"mutate", "call"}
     /\ element \in Nat \ {0}
     /\ memory \in Memory /\ memory.alive
     /\ Agree(DebugReplay, memory) \/ BothAllocate
  \/ stage = "aborted" /\ TwoAllocations

LogInv == stage = "overread" \/ (LogOK /\ StageOK)

-----------------------------------------------------------------------------
(* Single events *)

\* The argument has elements, and they are elements a memory may hold.
LEMMA ConstantsOK ==
  /\ OriginalSize \in Nat \ {0} /\ Argument \in Seq(Elem)
  /\ DOMAIN Argument = 1 .. OriginalSize
  /\ Garbage \in Elem /\ Values \subseteq Elem
<1>1. Argument \in Seq(Range(Argument)) /\ Argument # <<>>
  BY LogAssumption
<1>2. Argument \in Seq(Elem)
  BY <1>1 DEF Elem
<1> QED BY <1>1, <1>2 DEF OriginalSize, Elem

\* The target is called with a memory of that kind.
LEMMA StartOK == Start \in Memory
<1>1. Argument \in Seq(Elem) /\ Len(Argument) = OriginalSize
  BY ConstantsOK DEF OriginalSize
<1>2. <<Argument>> \in Seq(Seq(Elem)) /\ <<Argument>>[1] = Argument
      /\ DOMAIN <<Argument>> = {1} /\ <<Argument>> # <<>>
  BY <1>1
<1> QED BY <1>1, <1>2 DEF Start, Memory, Original

\* The parts of a memory, as sets the backends can compute with.
LEMMA MemoryParts ==
  ASSUME NEW m \in Memory
  PROVE  /\ m = [pointer |-> m.pointer, heap |-> m.heap, alive |-> m.alive]
         /\ m.pointer \in {1, 2} /\ m.pointer \in 1 .. Len(m.heap) /\ m.alive \in BOOLEAN
         /\ m.heap \in Seq(Seq(Elem)) /\ DOMAIN m.heap = 1 .. Len(m.heap)
         /\ Len(m.heap) \in Nat \ {0}
         /\ Len(m.heap[1]) = OriginalSize
         /\ \A a \in 1 .. Len(m.heap) :
              m.heap[a] \in Seq(Elem) /\ DOMAIN m.heap[a] = 1 .. Len(m.heap[a])
              /\ Len(m.heap[a]) \in Nat
<1>1. m \in [pointer : {1, 2}, heap : Seq(Seq(Elem)), alive : BOOLEAN]
      /\ m.pointer \in DOMAIN m.heap /\ m.heap # <<>> /\ Len(m.heap[1]) = OriginalSize
  BY DEF Memory, Original
<1>2. m.heap \in Seq(Seq(Elem)) /\ DOMAIN m.heap = 1 .. Len(m.heap)
      /\ Len(m.heap) \in Nat \ {0}
  BY <1>1
<1>3. ASSUME NEW a \in 1 .. Len(m.heap)
      PROVE  m.heap[a] \in Seq(Elem)
  BY <1>2
<1> QED BY <1>1, <1>2, <1>3

\* A pointer to an allocation and a heap whose first allocation is still as
\* long as the argument make a memory.
LEMMA AliveOK ==
  ASSUME NEW p \in {1, 2}, NEW h \in Seq(Seq(Elem)),
         p \in 1 .. Len(h), Len(h[1]) = OriginalSize
  PROVE  /\ Alive(p, h) \in Memory /\ Alive(p, h).alive
         /\ Alive(p, h).pointer = p /\ Alive(p, h).heap = h
BY DEF Alive, Memory, Original

\* A process that aborts leaves its memory behind.
LEMMA AbortOK ==
  ASSUME NEW m \in Memory
  PROVE  Abort(m) \in Memory /\ Abort(m).heap = m.heap
BY DEF Abort, Memory

\* Replacing a memory's heap leaves its other parts.
LEMMA HeapExcept ==
  ASSUME NEW m \in Memory, NEW h
  PROVE  [m EXCEPT !.heap = h] = [pointer |-> m.pointer, heap |-> h, alive |-> m.alive]
<1> DEFINE P == {1, 2}
           H == Seq(Seq(Elem))
<1>1. m \in [pointer : P, heap : H, alive : BOOLEAN]
  BY DEF Memory
<1> HIDE DEF P, H
<1> QED BY <1>1

\* Changing the heap of a memory that is alive.
LEMMA WithHeap ==
  ASSUME NEW m \in Memory, m.alive, NEW h
  PROVE  [m EXCEPT !.heap = h] = Alive(m.pointer, h)
<1>1. m.alive = TRUE
  BY MemoryParts
<1>2. [m EXCEPT !.heap = h] = [pointer |-> m.pointer, heap |-> h, alive |-> m.alive]
  BY HeapExcept, Zenon
<1> QED BY <1>1, <1>2, Zenon DEF Alive

\* The same memory with other elements in one of its allocations.
HeapWith(m, a, s) == Alive(m.pointer, [m.heap EXCEPT ![a] = s])

\* Other elements for an allocation, as many as before, make a memory again and
\* change nothing else.
LEMMA HeapWithOK ==
  ASSUME NEW m \in Memory, NEW a \in DOMAIN m.heap,
         NEW s \in Seq(Elem), Len(s) = Len(m.heap[a])
  PROVE  /\ HeapWith(m, a, s) \in Memory /\ HeapWith(m, a, s).alive
         /\ HeapWith(m, a, s).pointer = m.pointer
         /\ Len(HeapWith(m, a, s).heap) = Len(m.heap)
         /\ HeapWith(m, a, s).heap[a] = s
         /\ \A b \in DOMAIN m.heap : b # a => HeapWith(m, a, s).heap[b] = m.heap[b]
<1> DEFINE g == m.heap
           h == [g EXCEPT ![a] = s]
<1>1. g \in Seq(Seq(Elem)) /\ DOMAIN g = 1 .. Len(g) /\ 1 \in DOMAIN g
      /\ Len(s) = Len(g[a]) /\ a \in DOMAIN g
  BY MemoryParts
<1>2. m.pointer \in {1, 2} /\ m.pointer \in 1 .. Len(g) /\ Len(g[1]) = OriginalSize
  BY MemoryParts
<1>3. HeapWith(m, a, s) = Alive(m.pointer, h)
  BY DEF HeapWith
<1>4. \A b \in DOMAIN m.heap : b \in DOMAIN g /\ m.heap[b] = g[b] /\ Len(m.heap) = Len(g)
  OBVIOUS
<1>5. Len(m.heap) = Len(g)
  OBVIOUS
<1> HIDE DEF g
<1>6. /\ h \in Seq(Seq(Elem)) /\ Len(h) = Len(g) /\ h[a] = s
      /\ \A b \in DOMAIN g : b # a => h[b] = g[b]
  BY <1>1
<1> HIDE DEF h
<1>7. Len(h[1]) = Len(g[1])
  BY <1>1, <1>6
<1>8. /\ Alive(m.pointer, h) \in Memory /\ Alive(m.pointer, h).alive
      /\ Alive(m.pointer, h).pointer = m.pointer /\ Alive(m.pointer, h).heap = h
  BY <1>2, <1>6, <1>7, AliveOK
<1> QED BY <1>3, <1>4, <1>5, <1>6, <1>8

\* Allocating appends to the heap and fails never.
LEMMA AllocateOK ==
  ASSUME NEW m \in Memory, NEW n \in Nat, m.alive
  PROVE  /\ Apply(m, Allocate(n)) =
              Alive(m.pointer, Append(m.heap, [i \in 1 .. n |-> Garbage]))
         /\ Apply(m, Allocate(n)) \in Memory
         /\ Len(Apply(m, Allocate(n)).heap) = Len(m.heap) + 1
<1> DEFINE e == Allocate(n)
           g == [i \in 1 .. n |-> Garbage]
           h == Append(m.heap, g)
<1>1. e.type = "allocate" /\ e.length = n
  BY DEF Allocate
<1>2. Apply(m, e) = DoAllocate(m, e)
  <2> HIDE DEF e
  <2> QED BY <1>1 DEF Apply
<1>3. DoAllocate(m, e) = [m EXCEPT !.heap = h]
  <2> HIDE DEF e
  <2> QED BY <1>1 DEF DoAllocate
<1>4. g \in Seq(Elem)
  BY ConstantsOK
<1>5. h \in Seq(Seq(Elem)) /\ Len(h) = Len(m.heap) + 1 /\ h[1] = m.heap[1]
      /\ 1 .. Len(m.heap) \subseteq 1 .. Len(h)
  <2> HIDE DEF g
  <2> QED BY <1>4, MemoryParts
<1> HIDE DEF h, e
<1>6. Apply(m, e) = Alive(m.pointer, h)
  <2>1. [m EXCEPT !.heap = h] = Alive(m.pointer, h)
    BY WithHeap
  <2> QED BY <1>2, <1>3, <2>1
<1>7. Alive(m.pointer, h) \in Memory /\ Alive(m.pointer, h).heap = h
  BY <1>5, MemoryParts, AliveOK, ZenonT(60)
<1>8. Apply(m, e) \in Memory /\ Len(Apply(m, e).heap) = Len(m.heap) + 1
  BY <1>5, <1>6, <1>7
<1> QED BY <1>6, <1>8 DEF h, e

\* What a copy and a write make of the allocation they change.
Copied(m, to, from, n) ==
  [i \in 1 .. Len(m.heap[to[1]]) |->
     IF i - to[2] \in 1 .. n THEN m.heap[from[1]][i - to[2] + from[2]]
                             ELSE m.heap[to[1]][i]]

Overwritten(m, at, v) == [m.heap[at[1]] EXCEPT ![at[2] + 1] = v]

\* A range inside an allocation, in numbers.
LEMMA WithinParts ==
  ASSUME NEW m \in Memory, NEW at \in Nat \X Nat, NEW n \in Nat, Within(m, at, n)
  PROVE  /\ at[1] \in Nat \ {0} /\ at[1] \in DOMAIN m.heap /\ at[2] \in Nat
         /\ m.heap[at[1]] \in Seq(Elem) /\ DOMAIN m.heap[at[1]] = 1 .. Len(m.heap[at[1]])
         /\ Len(m.heap[at[1]]) \in Nat
         /\ at[2] + n <= Len(m.heap[at[1]])
<1>1. at[1] \in DOMAIN m.heap /\ at[2] + n <= Len(m.heap[at[1]])
  BY DEF Within
<1>2. at[1] \in 1 .. Len(m.heap) /\ at[2] \in Nat
  BY <1>1, MemoryParts
<1> QED BY <1>1, <1>2, MemoryParts

\* The element a copy takes for the i-th is inside the range it copies from.
LEMMA Shifted ==
  ASSUME NEW i \in Nat, NEW to \in Nat, NEW fo \in Nat, NEW n \in Nat, NEW len \in Nat,
         i - to \in 1 .. n, fo + n <= len
  PROVE  i - to + fo \in 1 .. len
OBVIOUS

\* A copy changes no length ...
LEMMA CopiedOK ==
  ASSUME NEW m \in Memory, NEW to \in Nat \X Nat, NEW from \in Nat \X Nat, NEW n \in Nat,
         Within(m, to, n), Within(m, from, n)
  PROVE  /\ Copied(m, to, from, n) \in Seq(Elem)
         /\ Len(Copied(m, to, from, n)) = Len(m.heap[to[1]])
<1> DEFINE a == m.heap[to[1]]
           b == m.heap[from[1]]
           s == Copied(m, to, from, n)
<1>1. /\ a \in Seq(Elem) /\ Len(a) \in Nat /\ to[2] \in Nat
      /\ b \in Seq(Elem) /\ Len(b) \in Nat /\ from[2] \in Nat /\ from[2] + n <= Len(b)
  BY WithinParts
<1>2. s = [i \in 1 .. Len(a) |-> IF i - to[2] \in 1 .. n THEN b[i - to[2] + from[2]] ELSE a[i]]
  BY DEF Copied
<1> HIDE DEF a, b, s
<1>3. ASSUME NEW i \in 1 .. Len(a) PROVE s[i] \in Elem
  <2>1. a[i] \in Elem /\ i \in Nat
    BY <1>1
  <2>2. CASE i - to[2] \in 1 .. n
    <3>1. i - to[2] + from[2] \in 1 .. Len(b)
      BY <1>1, <2>1, <2>2, Shifted
    <3>2. b[i - to[2] + from[2]] \in Elem
      BY <1>1, <3>1
    <3> QED BY <1>2, <2>2, <3>2
  <2>3. CASE i - to[2] \notin 1 .. n
    BY <1>2, <2>1, <2>3
  <2> QED BY <2>2, <2>3
<1>4. s \in [1 .. Len(a) -> Elem]
  BY <1>2, <1>3
<1>5. Len(a) \in Nat
  BY <1>1
<1>6. s \in Seq(Elem) /\ Len(s) = Len(a)
  BY <1>4, <1>5
<1> QED BY <1>6 DEF s, a

\* ... and is carried out when both of its ranges are inside their allocations ...
LEMMA CopyInside ==
  ASSUME NEW m \in Memory, m.alive,
         NEW to \in Nat \X Nat, NEW from \in Nat \X Nat, NEW n \in Nat,
         Within(m, to, n), Within(m, from, n)
  PROVE  Apply(m, Copy(to, from, n)) = HeapWith(m, to[1], Copied(m, to, from, n))
<1> DEFINE e == Copy(to, from, n)
           s == Copied(m, to, from, n)
           h == [m.heap EXCEPT ![to[1]] = s]
<1>1. e.type = "copy" /\ e.length = n /\ e.to = to /\ e.from = from
  BY DEF Copy
<1> HIDE DEF e
<1>2. Apply(m, e) = DoCopy(m, e)
  BY <1>1 DEF Apply
<1>3. to[1] \in DOMAIN m.heap /\ DOMAIN m.heap[to[1]] = 1 .. Len(m.heap[to[1]])
  BY WithinParts
<1>4. DoCopy(m, e) = [m EXCEPT !.heap[to[1]] =
                        [i \in DOMAIN @ |-> IF i - to[2] \in 1 .. n
                            THEN m.heap[from[1]][i - to[2] + from[2]] ELSE @[i]]]
  BY <1>1, Zenon DEF DoCopy
<1>5. DoCopy(m, e) = [m EXCEPT !.heap = h]
  BY <1>3, <1>4 DEF Copied
<1> HIDE DEF h
<1>6. Apply(m, e) = Alive(m.pointer, h)
  BY <1>2, <1>5, WithHeap
<1> QED BY <1>6, Zenon DEF HeapWith, h, s, e

\* ... and otherwise ends the process: memory either way.
LEMMA CopyOK ==
  ASSUME NEW m \in Memory, m.alive,
         NEW to \in Nat \X Nat, NEW from \in Nat \X Nat, NEW n \in Nat
  PROVE  /\ Apply(m, Copy(to, from, n)) \in Memory
         /\ Len(Apply(m, Copy(to, from, n)).heap) = Len(m.heap)
<1>1. CASE Within(m, to, n) /\ Within(m, from, n)
  <2>1. Apply(m, Copy(to, from, n)) = HeapWith(m, to[1], Copied(m, to, from, n))
    BY <1>1, CopyInside
  <2>2. to[1] \in DOMAIN m.heap
    BY <1>1, WithinParts
  <2>3. /\ Copied(m, to, from, n) \in Seq(Elem)
        /\ Len(Copied(m, to, from, n)) = Len(m.heap[to[1]])
    BY <1>1, CopiedOK
  <2> QED BY <2>1, <2>2, <2>3, HeapWithOK
<1>2. CASE ~ (Within(m, to, n) /\ Within(m, from, n))
  <2> DEFINE e == Copy(to, from, n)
  <2>1. e.type = "copy" /\ e.length = n /\ e.to = to /\ e.from = from
    BY DEF Copy
  <2> HIDE DEF e
  <2>2. Apply(m, e) = Abort(m)
    BY <1>2, <2>1 DEF Apply, DoCopy
  <2> QED BY <2>2, AbortOK DEF e
<1> QED BY <1>1, <1>2

\* A write changes no length ...
LEMMA OverwrittenOK ==
  ASSUME NEW m \in Memory, NEW at \in Nat \X Nat, NEW v \in Elem, Within(m, at, 1)
  PROVE  /\ Overwritten(m, at, v) \in Seq(Elem)
         /\ Len(Overwritten(m, at, v)) = Len(m.heap[at[1]])
<1> DEFINE a == m.heap[at[1]]
           k == at[2] + 1
           s == Overwritten(m, at, v)
<1>1. s = [a EXCEPT ![k] = v]
  BY DEF Overwritten
<1>2. a \in Seq(Elem) /\ k \in Nat
  BY WithinParts
<1> HIDE DEF a, k, s
<1>3. s \in Seq(Elem) /\ Len(s) = Len(a)
  <2>1. a \in [1 .. Len(a) -> Elem] /\ Len(a) \in Nat
    BY <1>2
  <2>2. s \in [1 .. Len(a) -> Elem]
    BY <1>1, <2>1
  <2> QED BY <2>1, <2>2
<1> QED BY <1>3 DEF a, s

\* ... and is carried out when its place is inside an allocation ...
LEMMA WriteInside ==
  ASSUME NEW m \in Memory, m.alive, NEW at \in (Nat \ {0}) \X Nat, NEW v \in Elem,
         Within(m, at, 1)
  PROVE  Apply(m, Write(at, v)) = HeapWith(m, at[1], Overwritten(m, at, v))
<1> DEFINE e == Write(at, v)
           h == [m.heap EXCEPT ![at[1]] = Overwritten(m, at, v)]
<1>1. e.type = "write" /\ e.at = at /\ e.value = v
  BY DEF Write
<1> HIDE DEF e
<1>2. Apply(m, e) = DoWrite(m, e) /\ at # Pointer
  BY <1>1 DEF Apply, Pointer
<1>3. DoWrite(m, e) = [m EXCEPT !.heap[at[1]][at[2] + 1] = v]
  BY <1>1, <1>2, Zenon DEF DoWrite
<1>4. DoWrite(m, e) = [m EXCEPT !.heap = h]
  BY <1>3 DEF Overwritten
<1> HIDE DEF h
<1>5. Apply(m, e) = Alive(m.pointer, h)
  BY <1>2, <1>4, WithHeap
<1> QED BY <1>5, Zenon DEF HeapWith, h, e

\* ... and otherwise ends the process: memory either way.
LEMMA WriteOK ==
  ASSUME NEW m \in Memory, m.alive, NEW at \in (Nat \ {0}) \X Nat, NEW v \in Elem
  PROVE  /\ Apply(m, Write(at, v)) \in Memory
         /\ Len(Apply(m, Write(at, v)).heap) = Len(m.heap)
<1>1. CASE Within(m, at, 1)
  <2>1. Apply(m, Write(at, v)) = HeapWith(m, at[1], Overwritten(m, at, v))
    BY <1>1, WriteInside
  <2>2. at \in Nat \X Nat
    OBVIOUS
  <2>3. at[1] \in DOMAIN m.heap
    BY <1>1, <2>2, WithinParts
  <2>4. /\ Overwritten(m, at, v) \in Seq(Elem)
        /\ Len(Overwritten(m, at, v)) = Len(m.heap[at[1]])
    BY <1>1, <2>2, OverwrittenOK
  <2> QED BY <2>1, <2>3, <2>4, HeapWithOK
<1>2. CASE ~ Within(m, at, 1)
  <2> DEFINE e == Write(at, v)
  <2>1. e.type = "write" /\ e.at = at /\ e.value = v /\ at # Pointer
    BY DEF Write, Pointer
  <2> HIDE DEF e
  <2>2. Apply(m, e) = Abort(m)
    BY <1>2, <2>1 DEF Apply, DoWrite
  <2> QED BY <2>2, AbortOK DEF e
<1> QED BY <1>1, <1>2

\* The pointer can be moved to the second allocation once there is one.
LEMMA PointerOK ==
  ASSUME NEW m \in Memory, m.alive, Len(m.heap) >= 2
  PROVE  /\ Apply(m, Write(Pointer, 2)) =
              Alive(2, m.heap)
         /\ Apply(m, Write(Pointer, 2)) \in Memory
<1> DEFINE e == Write(Pointer, 2)
<1>1. e.type = "write" /\ e.at = Pointer /\ e.value = 2
  BY DEF Write
<1> HIDE DEF e
<1>2. Apply(m, e) = [m EXCEPT !.pointer = 2]
  BY <1>1 DEF Apply, DoWrite
<1>3. m \in [pointer : {1, 2}, heap : Seq(Seq(Elem)), alive : BOOLEAN] /\ m.alive = TRUE
  BY DEF Memory
<1>4. Apply(m, e) = Alive(2, m.heap)
  BY <1>2, <1>3 DEF Alive
<1>5. Alive(2, m.heap) \in Memory
  BY MemoryParts, AliveOK
<1> QED BY <1>4, <1>5 DEF e

\* A BEGIN event changes nothing.
LEMMA BeginOK ==
  ASSUME NEW m \in Memory
  PROVE  Apply(m, Begin) = m
<1>1. Begin.type = "begin"
  BY DEF Begin
<1> QED BY <1>1 DEF Apply

\* Nothing changes the memory of a process that is dead.
LEMMA DeadOK ==
  ASSUME NEW m, ~m.alive, NEW e
  PROVE  Apply(m, e) = m
BY DEF Apply

-----------------------------------------------------------------------------
(* Sequences of events *)

\* Memory with room for a pointer to the second allocation.
Roomy == {m \in Memory : Len(m.heap) >= 2}

\* Any event a log may hold can be replayed over a memory that has been resized,
\* at worst ending the process ...
LEMMA EventOK ==
  ASSUME NEW m \in Roomy, NEW e \in Event
  PROVE  Apply(m, e) \in Roomy
<1>1. m \in Memory /\ Len(m.heap) >= 2 /\ Len(m.heap) \in Nat
  BY MemoryParts DEF Roomy
<1>2. CASE ~m.alive
  BY <1>2, DeadOK
<1>3. CASE m.alive /\ e = Begin
  BY <1>1, <1>3, BeginOK
<1>4. ASSUME m.alive, NEW n \in Nat, e = Allocate(n)
      PROVE  Apply(m, e) \in Roomy
  <2>1. Apply(m, e) \in Memory /\ Len(Apply(m, e).heap) = Len(m.heap) + 1
    BY <1>1, <1>4, AllocateOK
  <2> QED BY <1>1, <2>1 DEF Roomy
<1>5. ASSUME m.alive, NEW to \in Nat \X Nat, NEW from \in Nat \X Nat, NEW n \in Nat,
             e = Copy(to, from, n)
      PROVE  Apply(m, e) \in Roomy
  <2>1. Apply(m, e) \in Memory /\ Len(Apply(m, e).heap) = Len(m.heap)
    BY <1>1, <1>5, CopyOK
  <2> QED BY <1>1, <2>1 DEF Roomy
<1>6. ASSUME m.alive, NEW at \in (Nat \ {0}) \X Nat, NEW v \in Elem, e = Write(at, v)
      PROVE  Apply(m, e) \in Roomy
  <2>1. Apply(m, e) \in Memory /\ Len(Apply(m, e).heap) = Len(m.heap)
    BY <1>1, <1>6, WriteOK
  <2> QED BY <1>1, <2>1 DEF Roomy
<1>7. CASE m.alive /\ e = Write(Pointer, 2)
  <2>1. Apply(m, e) = Alive(2, m.heap) /\ Apply(m, e) \in Memory
    BY <1>1, <1>7, PointerOK
  <2> QED BY <1>1, <2>1 DEF Roomy, Alive
<1> QED BY <1>2, <1>3, <1>4, <1>5, <1>6, <1>7 DEF Event

\* ... and so can any number of them.
LEMMA ApplyAllOK ==
  ASSUME NEW m \in Roomy, NEW events \in Seq(Event)
  PROVE  ApplyAll(m, events) \in Roomy
<1>1. Len(events) \in Nat /\ \A n \in 1 .. Len(events) : events[n] \in Event
  OBVIOUS
<1> QED BY <1>1, EventOK, ApplyAllKeeps

\* The numbers of a resizing: where the first copy ends and the second starts.
LEMMA LengthsOK ==
  ASSUME NEW count \in 1 .. 2 * OriginalSize, NEW first \in 0 .. OriginalSize - 1
  PROVE  /\ count \in Nat /\ first \in Nat
         /\ Len1(count, first) \in Nat /\ Len2(count, first) \in Nat
         /\ Len1(count, first) + Len2(count, first) = count
         /\ first + Len1(count, first) <= OriginalSize
BY ConstantsOK DEF Len1, Len2

\* A resizing logs four events, an allocation first.
LEMMA ResizingEvents ==
  ASSUME NEW count \in 1 .. 2 * OriginalSize, NEW first \in 0 .. OriginalSize - 1
  PROVE  /\ Resizing(count, first) \in Seq(Event)
         /\ Len(Resizing(count, first)) = 4
         /\ Resizing(count, first)[1].type = "allocate"
<1> DEFINE a == Allocate(count)
           b == Copy(<<2, 0>>, <<Original, first>>, Len1(count, first))
           c == Copy(<<2, Len1(count, first)>>, <<Original, 0>>, Len2(count, first))
           d == Write(Pointer, 2)
<1>1. a \in Event
  BY LengthsOK DEF Event
<1>2. b \in Event
  <2>1. <<2, 0>> \in Nat \X Nat /\ <<Original, first>> \in Nat \X Nat
    BY LengthsOK DEF Original
  <2> QED BY <2>1, LengthsOK DEF Event
<1>3. c \in Event
  <2>1. <<2, Len1(count, first)>> \in Nat \X Nat /\ <<Original, 0>> \in Nat \X Nat
    BY LengthsOK DEF Original
  <2> QED BY <2>1, LengthsOK DEF Event
<1>4. d \in Event
  BY DEF Event
<1>5. a.type = "allocate"
  BY DEF Allocate
<1>6. Resizing(count, first) = <<a, b, c, d>>
  BY DEF Resizing
<1> HIDE DEF a, b, c, d
<1> QED BY <1>1, <1>2, <1>3, <1>4, <1>5, <1>6

\* A resizing keeps memory what it is, wherever it is replayed.
LEMMA ResizingOK ==
  ASSUME NEW m \in Memory,
         NEW count \in 1 .. 2 * OriginalSize, NEW first \in 0 .. OriginalSize - 1
  PROVE  ApplyAll(m, Resizing(count, first)) \in Memory
<1> DEFINE a == Allocate(count)
           b == Copy(<<2, 0>>, <<Original, first>>, Len1(count, first))
           c == Copy(<<2, Len1(count, first)>>, <<Original, 0>>, Len2(count, first))
           d == Write(Pointer, 2)
<1>1. b \in Event /\ c \in Event /\ d \in Event
  <2>1. Resizing(count, first) = <<a, b, c, d>>
    BY DEF Resizing
  <2>2. <<a, b, c, d>>[2] = b /\ <<a, b, c, d>>[3] = c /\ <<a, b, c, d>>[4] = d
    OBVIOUS
  <2>3. \A i \in 1 .. 4 : Resizing(count, first)[i] \in Event
    BY ResizingEvents
  <2> HIDE DEF a, b, c, d
  <2> QED BY <2>1, <2>2, <2>3
<1>2. ApplyAll(m, Resizing(count, first)) = Apply(Apply(Apply(Apply(m, a), b), c), d)
  <2>1. Resizing(count, first) = <<a, b, c, d>>
    BY DEF Resizing
  <2> HIDE DEF a, b, c, d
  <2> QED BY <2>1, ApplyAllFour
<1>3. CASE m.alive
  <2>1. Apply(m, a) \in Roomy
    <3>1. Apply(m, a) \in Memory /\ Len(Apply(m, a).heap) = Len(m.heap) + 1
      BY <1>3, AllocateOK, LengthsOK
    <3>2. Len(m.heap) \in Nat \ {0}
      BY MemoryParts
    <3> HIDE DEF a
    <3> QED BY <3>1, <3>2 DEF Roomy
  <2> HIDE DEF a, b, c, d
  <2>2. Apply(Apply(Apply(Apply(m, a), b), c), d) \in Roomy
    BY <1>1, <2>1, EventOK
  <2> QED BY <1>2, <2>2 DEF Roomy
<1>4. CASE ~m.alive
  <2> HIDE DEF a, b, c, d
  <2> QED BY <1>2, <1>4, DeadOK
<1> QED BY <1>3, <1>4

\* What the two copies put into the new allocation.
Refilled(argument, count, first) ==
  [i \in 1 .. count |-> IF i <= Len1(count, first) THEN argument[i + first]
                                                   ELSE argument[i - Len1(count, first)]]

\* Whether the second allocation is the resizing's own, or one of the same
\* length was there before it, the two copies fill it completely.
LEMMA ResizingResult ==
  ASSUME NEW m \in Memory, m.alive,
         NEW count \in 1 .. 2 * OriginalSize, NEW first \in 0 .. OriginalSize - 1,
         Len2(count, first) <= OriginalSize,
         Len(m.heap) = 1 \/ (Len(m.heap) = 2 /\ Len(m.heap[2]) = count)
  PROVE  LET r == ApplyAll(m, Resizing(count, first))
         IN  /\ r \in Memory /\ r.alive /\ r.pointer = 2
             /\ Len(r.heap) = Len(m.heap) + 1
             /\ r.heap[1] = m.heap[1]
             /\ r.heap[2] = Refilled(m.heap[1], count, first)
<1> DEFINE len1 == Len1(count, first)
           len2 == Len2(count, first)
           a == Allocate(count)
           b == Copy(<<2, 0>>, <<1, first>>, len1)
           c == Copy(<<2, len1>>, <<1, 0>>, len2)
           d == Write(Pointer, 2)
           m1 == Apply(m, a)
           m2 == Apply(m1, b)
           m3 == Apply(m2, c)
           m4 == Apply(m3, d)
           r == ApplyAll(m, Resizing(count, first))
<1>1. r = m4
  <2>1. Resizing(count, first) = <<a, b, c, d>>
    BY DEF Resizing, Original
  <2> HIDE DEF a, b, c, d
  <2> QED BY <2>1, ApplyAllFour
<1>2. /\ count \in Nat /\ first \in Nat /\ len1 \in Nat /\ len2 \in Nat
      /\ len1 + len2 = count /\ first + len1 <= OriginalSize /\ len2 <= OriginalSize
      /\ OriginalSize \in Nat
  BY LengthsOK, ConstantsOK
<1> HIDE DEF len1, len2
<1>3. /\ m.heap \in Seq(Seq(Elem)) /\ Len(m.heap) \in Nat \ {0}
      /\ Len(m.heap[1]) = OriginalSize /\ m.heap[1] \in Seq(Elem)
      /\ DOMAIN m.heap = 1 .. Len(m.heap)
  BY MemoryParts
<1>4. /\ m1 \in Memory /\ m1.alive /\ Len(m1.heap) = Len(m.heap) + 1
      /\ m1.heap[1] = m.heap[1] /\ Len(m1.heap[2]) = count
  <2> DEFINE g == [i \in 1 .. count |-> Garbage]
             h == Append(m.heap, g)
  <2>1. m1 = Alive(m.pointer, h) /\ m1 \in Memory
    BY <1>2, AllocateOK
  <2>2. m1.heap = h /\ m1.alive
    BY <2>1 DEF Alive
  <2>3. g \in Seq(Elem) /\ Len(g) = count
    BY <1>2, ConstantsOK
  <2> HIDE DEF g, m1
  <2>4. Len(h) = Len(m.heap) + 1 /\ h[1] = m.heap[1]
        /\ h[2] = IF Len(m.heap) = 1 THEN g ELSE m.heap[2]
    BY <1>3, <2>3
  <2> QED BY <2>1, <2>2, <2>3, <2>4
<1> HIDE DEF m1, a
<1>5. /\ m2 \in Memory /\ m2.alive /\ Len(m2.heap) = Len(m1.heap)
      /\ m2.heap[1] = m.heap[1] /\ Len(m2.heap[2]) = count
      /\ \A i \in 1 .. count : i <= len1 => m2.heap[2][i] = m.heap[1][i + first]
  <2> DEFINE s == Copied(m1, <<2, 0>>, <<1, first>>, len1)
  <2>1. <<2, 0>> \in Nat \X Nat /\ <<1, first>> \in Nat \X Nat
        /\ <<2, 0>>[1] = 2 /\ <<2, 0>>[2] = 0
        /\ <<1, first>>[1] = 1 /\ <<1, first>>[2] = first
    BY <1>2
  <2>2. m1.heap \in Seq(Seq(Elem)) /\ DOMAIN m1.heap = 1 .. Len(m1.heap)
        /\ 1 \in DOMAIN m1.heap /\ 2 \in DOMAIN m1.heap
    <3>1. m1.heap \in Seq(Seq(Elem)) /\ DOMAIN m1.heap = 1 .. Len(m1.heap)
      BY <1>4, MemoryParts
    <3>2. Len(m1.heap) \in Nat /\ Len(m1.heap) >= 2
      BY <1>3, <1>4, SMTT(30)
    <3> QED BY <3>1, <3>2
  <2>3. Within(m1, <<2, 0>>, len1)
    <3>1. 0 + len1 <= count
      BY <1>2
    <3> QED BY <1>4, <2>1, <2>2, <3>1 DEF Within
  <2>4. Within(m1, <<1, first>>, len1)
    <3>1. Len(m1.heap[1]) = OriginalSize
      BY <1>3, <1>4
    <3> QED BY <1>2, <2>1, <2>2, <3>1 DEF Within
  <2>5. m2 = HeapWith(m1, 2, s)
    <3>1. m1 \in Memory /\ m1.alive /\ len1 \in Nat
      BY <1>2, <1>4
    <3> QED BY <2>1, <2>3, <2>4, <3>1, CopyInside
  <2>6. s \in Seq(Elem) /\ Len(s) = count
    <3>1. m1 \in Memory /\ len1 \in Nat /\ Len(m1.heap[2]) = count
      BY <1>2, <1>4
    <3> QED BY <2>1, <2>3, <2>4, <3>1, CopiedOK
  <2>7. ASSUME NEW i \in 1 .. count, i <= len1 PROVE s[i] = m.heap[1][i + first]
    <3>1. i \in 1 .. Len(m1.heap[2]) /\ i - 0 \in 1 .. len1 /\ i - 0 + first = i + first
      BY <1>2, <1>4, <2>7
    <3> QED BY <1>4, <2>1, <3>1 DEF Copied
  <2> HIDE DEF m2, s
  <2>8. /\ m2 \in Memory /\ m2.alive /\ Len(m2.heap) = Len(m1.heap)
        /\ m2.heap[1] = m1.heap[1] /\ m2.heap[2] = s
    <3>1. m1 \in Memory /\ Len(s) = Len(m1.heap[2]) /\ s \in Seq(Elem) /\ 1 # 2
      BY <1>4, <2>6
    <3> QED BY <2>2, <2>5, <3>1, HeapWithOK
  <2> QED BY <1>4, <2>6, <2>7, <2>8
<1> HIDE DEF m2, b
<1>6. /\ m3 \in Memory /\ m3.alive /\ Len(m3.heap) = Len(m2.heap)
      /\ m3.heap[1] = m.heap[1]
      /\ m3.heap[2] = Refilled(m.heap[1], count, first)
  <2> DEFINE s == Copied(m2, <<2, len1>>, <<1, 0>>, len2)
             f == Refilled(m.heap[1], count, first)
  <2>1. <<2, len1>> \in Nat \X Nat /\ <<1, 0>> \in Nat \X Nat
        /\ <<2, len1>>[1] = 2 /\ <<2, len1>>[2] = len1
        /\ <<1, 0>>[1] = 1 /\ <<1, 0>>[2] = 0
    BY <1>2
  <2>2. m2.heap \in Seq(Seq(Elem)) /\ DOMAIN m2.heap = 1 .. Len(m2.heap)
        /\ 1 \in DOMAIN m2.heap /\ 2 \in DOMAIN m2.heap
    <3>1. m2.heap \in Seq(Seq(Elem)) /\ DOMAIN m2.heap = 1 .. Len(m2.heap)
      BY <1>5, MemoryParts
    <3>2. Len(m2.heap) \in Nat /\ Len(m2.heap) >= 2
      BY <1>3, <1>4, <1>5
    <3> QED BY <3>1, <3>2
  <2>3. Within(m2, <<2, len1>>, len2)
    <3>1. len1 + len2 <= count
      BY <1>2
    <3> QED BY <1>5, <2>1, <2>2, <3>1 DEF Within
  <2>4. Within(m2, <<1, 0>>, len2)
    <3>1. Len(m2.heap[1]) = OriginalSize /\ 0 + len2 <= OriginalSize
      BY <1>2, <1>3, <1>5
    <3> QED BY <2>1, <2>2, <3>1 DEF Within
  <2>5. m3 = HeapWith(m2, 2, s)
    <3>1. m2 \in Memory /\ m2.alive /\ len2 \in Nat
      BY <1>2, <1>5
    <3> QED BY <2>1, <2>3, <2>4, <3>1, CopyInside
  <2>6. s \in Seq(Elem) /\ Len(s) = count
    <3>1. m2 \in Memory /\ len2 \in Nat /\ Len(m2.heap[2]) = count
      BY <1>2, <1>5
    <3> QED BY <2>1, <2>3, <2>4, <3>1, CopiedOK
  <2>7. f = [i \in 1 .. count |-> IF i <= len1 THEN m.heap[1][i + first]
                                               ELSE m.heap[1][i - len1]]
    BY Zenon DEF Refilled, len1
  <2> HIDE DEF f
  <2>8. ASSUME NEW i \in 1 .. count PROVE s[i] = f[i]
    <3>1. i \in 1 .. Len(m2.heap[2]) /\ i - len1 + 0 = i - len1
      BY <1>2, <1>5
    <3>2. CASE i <= len1
      <4>1. i - len1 \notin 1 .. len2
        BY <1>2, <3>2
      <4>2. s[i] = m2.heap[2][i]
        BY <2>1, <3>1, <4>1 DEF Copied
      <4> QED BY <1>5, <2>7, <3>2, <4>2
    <3>3. CASE ~(i <= len1)
      <4>1. i - len1 \in 1 .. len2
        BY <1>2, <3>3
      <4>2. s[i] = m2.heap[1][i - len1]
        BY <2>1, <3>1, <4>1 DEF Copied
      <4> QED BY <1>5, <2>7, <3>3, <4>2
    <3> QED BY <3>2, <3>3
  <2> HIDE DEF m3, s
  <2>9. s = [i \in 1 .. count |-> s[i]] /\ f = [i \in 1 .. count |-> f[i]]
    BY <2>6, <2>7
  <2>10. s = f
    BY <2>8, <2>9
  <2>11. /\ m3 \in Memory /\ m3.alive /\ Len(m3.heap) = Len(m2.heap)
         /\ m3.heap[1] = m2.heap[1] /\ m3.heap[2] = s
    <3>1. m2 \in Memory /\ Len(s) = Len(m2.heap[2]) /\ s \in Seq(Elem) /\ 1 # 2
      BY <1>5, <2>6
    <3> QED BY <2>2, <2>5, <3>1, HeapWithOK
  <2> QED BY <1>5, <2>10, <2>11 DEF f
<1> HIDE DEF m3, c
<1>7. m4 = Alive(2, m3.heap) /\ m4 \in Memory
  <2>1. Len(m3.heap) >= 2
    BY <1>3, <1>4, <1>5, <1>6
  <2> QED BY <1>6, <2>1, PointerOK
<1>8. m4.alive /\ m4.pointer = 2 /\ m4.heap = m3.heap
  BY <1>7 DEF Alive
<1> HIDE DEF m4, r
<1> QED BY <1>1, <1>4, <1>5, <1>6, <1>7, <1>8 DEF r

-----------------------------------------------------------------------------
(* Replaying what never resized, into a fresh child and into one that has *)

Alike(x, y, count) ==
  /\ x \in Memory /\ x.alive /\ x.pointer = 1 /\ Len(x.heap) = 1
  /\ y \in Memory /\ y.alive /\ y.pointer = 2 /\ Len(y.heap) = 2
  /\ x.heap[1] = y.heap[1] /\ Len(y.heap[2]) = count

\* Writing an element of the original allocation keeps the two alike ...
LEMMA AlikeStep ==
  ASSUME NEW x, NEW y, NEW count, Alike(x, y, count), NEW e \in PlainEvent
  PROVE  Alike(Apply(x, e), Apply(y, e), count)
<1>1. /\ x \in Memory /\ x.alive /\ x.pointer = 1 /\ Len(x.heap) = 1
      /\ y \in Memory /\ y.alive /\ y.pointer = 2 /\ Len(y.heap) = 2
      /\ x.heap[1] = y.heap[1] /\ Len(y.heap[2]) = count
  BY DEF Alike
<1>2. CASE e = Begin
  BY <1>1, <1>2, BeginOK
<1>3. ASSUME NEW k \in 0 .. OriginalSize - 1, NEW v \in Elem, e = Write(<<Original, k>>, v)
      PROVE  Alike(Apply(x, e), Apply(y, e), count)
  <2> DEFINE at == <<1, k>>
  <2>1. at \in (Nat \ {0}) \X Nat /\ at \in Nat \X Nat /\ at[1] = 1 /\ at[2] = k
    OBVIOUS
  <2>2. e = Write(at, v)
    BY <1>3 DEF Original
  <2>3. /\ DOMAIN x.heap = 1 .. Len(x.heap) /\ DOMAIN y.heap = 1 .. Len(y.heap)
        /\ Len(x.heap[1]) = OriginalSize /\ Len(y.heap[1]) = OriginalSize
    BY <1>1, MemoryParts
  <2>4. 1 \in DOMAIN x.heap /\ 1 \in DOMAIN y.heap /\ 2 \in DOMAIN y.heap
    BY <1>1, <2>3
  <2>5. k + 1 <= OriginalSize
    BY ConstantsOK
  <2> HIDE DEF at
  <2>6. Within(x, at, 1) /\ Within(y, at, 1)
    BY <2>1, <2>3, <2>4, <2>5 DEF Within
  <2>7. Overwritten(x, at, v) = Overwritten(y, at, v)
    BY <1>1, <2>1 DEF Overwritten
  <2>8. /\ Apply(x, e) = HeapWith(x, 1, Overwritten(x, at, v))
        /\ Apply(y, e) = HeapWith(y, 1, Overwritten(y, at, v))
    BY <1>1, <2>1, <2>2, <2>6, WriteInside
  <2>9. /\ Overwritten(x, at, v) \in Seq(Elem) /\ Len(Overwritten(x, at, v)) = Len(x.heap[1])
        /\ Overwritten(y, at, v) \in Seq(Elem) /\ Len(Overwritten(y, at, v)) = Len(y.heap[1])
    BY <1>1, <2>1, <2>6, OverwrittenOK
  <2> DEFINE s == Overwritten(x, at, v)
             t == Overwritten(y, at, v)
  <2> HIDE DEF s, t
  <2>10. /\ HeapWith(x, 1, s) \in Memory /\ HeapWith(x, 1, s).alive
         /\ HeapWith(x, 1, s).pointer = 1 /\ Len(HeapWith(x, 1, s).heap) = 1
         /\ HeapWith(x, 1, s).heap[1] = s
    BY <1>1, <2>4, <2>9, HeapWithOK DEF s
  <2>11. /\ HeapWith(y, 1, t) \in Memory /\ HeapWith(y, 1, t).alive
         /\ HeapWith(y, 1, t).pointer = 2 /\ Len(HeapWith(y, 1, t).heap) = 2
         /\ HeapWith(y, 1, t).heap[1] = t /\ HeapWith(y, 1, t).heap[2] = y.heap[2]
    <3>1. 2 # 1
      OBVIOUS
    <3> QED BY <1>1, <2>4, <2>9, <3>1, HeapWithOK DEF t
  <2> QED BY <1>1, <2>7, <2>8, <2>10, <2>11 DEF Alike, s, t
<1>4. e = Begin \/ \E k \in 0 .. OriginalSize - 1, v \in Elem : e = Write(<<Original, k>>, v)
  BY DEF PlainEvent, PlainWrites
<1> QED BY <1>2, <1>3, <1>4

\* ... and so does the whole log of a line that never resized.
LEMMA AlikeAll ==
  ASSUME NEW x, NEW y, NEW count, Alike(x, y, count), NEW events \in Seq(PlainEvent)
  PROVE  Alike(ApplyAll(x, events), ApplyAll(y, events), count)
<1> DEFINE X == Memories(x, events)
           Y == Memories(y, events)
           P == {n \in Nat : n <= Len(events) => Alike(X[n], Y[n], count)}
<1>1. Len(events) \in Nat /\ \A n \in 1 .. Len(events) : events[n] \in PlainEvent
  OBVIOUS
<1>2. X[0] = x /\ \A n \in 1 .. Len(events) : X[n] = Apply(X[n - 1], events[n])
  BY <1>1, MemoriesStep
<1>3. Y[0] = y /\ \A n \in 1 .. Len(events) : Y[n] = Apply(Y[n - 1], events[n])
  BY <1>1, MemoriesStep
<1>4. ApplyAll(x, events) = X[Len(events)] /\ ApplyAll(y, events) = Y[Len(events)]
  BY DEF ApplyAll
<1> HIDE DEF X, Y
<1>5. 0 \in P
  BY <1>2, <1>3
<1>6. ASSUME NEW n \in Nat, n \in P PROVE n + 1 \in P
  <2> SUFFICES ASSUME n + 1 <= Len(events) PROVE Alike(X[n + 1], Y[n + 1], count)
    OBVIOUS
  <2>1. n + 1 \in 1 .. Len(events) /\ n <= Len(events) /\ (n + 1) - 1 = n
    BY <1>1
  <2>2. Alike(X[n], Y[n], count)
    BY <1>6, <2>1
  <2>3. X[n + 1] = Apply(X[n], events[n + 1]) /\ Y[n + 1] = Apply(Y[n], events[n + 1])
    BY <1>2, <1>3, <2>1
  <2> QED BY <1>1, <2>1, <2>2, <2>3, AlikeStep
<1>7. Len(events) \in P
  <2> HIDE DEF P
  <2> QED BY <1>1, <1>5, <1>6, NatSetInduction
<1> QED BY <1>4, <1>7

\* A fresh child is in no way ahead of the debug replay, and one that only
\* resized is alive, with the new allocation behind the pointer.
LEMMA StartParts ==
  /\ Start \in Memory /\ Start.alive /\ Start.pointer = 1 /\ Len(Start.heap) = 1
  /\ Start.heap[1] = Argument
BY StartOK DEF Start, Original

\* A fresh child and one that only resized are alike.
LEMMA ResizedParts ==
  ASSUME NEW count \in 1 .. 2 * OriginalSize, NEW first \in 0 .. OriginalSize - 1,
         Len2(count, first) <= OriginalSize
  PROVE  /\ Alike(Start, ApplyAll(Start, Resizing(count, first)), count)
         /\ ApplyAll(Start, Resizing(count, first)) \in Roomy
<1> DEFINE r == ApplyAll(Start, Resizing(count, first))
<1>1. /\ r \in Memory /\ r.alive /\ r.pointer = 2 /\ Len(r.heap) = Len(Start.heap) + 1
      /\ r.heap[1] = Start.heap[1]
      /\ r.heap[2] = Refilled(Start.heap[1], count, first)
  <2> DEFINE s == Start
  <2>1. s \in Memory /\ s.alive /\ Len(s.heap) = 1
    BY StartParts
  <2>2. r = ApplyAll(s, Resizing(count, first))
    OBVIOUS
  <2> HIDE DEF s, r
  <2>3. /\ r \in Memory /\ r.alive /\ r.pointer = 2 /\ Len(r.heap) = Len(s.heap) + 1
        /\ r.heap[1] = s.heap[1]
        /\ r.heap[2] = Refilled(s.heap[1], count, first)
    BY <2>1, <2>2, ResizingResult, ZenonT(60)
  <2> QED BY <2>3 DEF s
<1> HIDE DEF r
<1>2. Len(r.heap[2]) = count
  <2> DEFINE f == Refilled(Start.heap[1], count, first)
             g(i) == IF i <= Len1(count, first) THEN Start.heap[1][i + first]
                                   ELSE Start.heap[1][i - Len1(count, first)]
  <2>1. f = [i \in 1 .. count |-> g(i)]
    BY DEF Refilled
  <2>2. count \in Nat
    BY LengthsOK
  <2> HIDE DEF f, g
  <2>3. Len(f) = count
    BY <2>1, <2>2
  <2> QED BY <1>1, <2>3 DEF f
<1>3. Len(r.heap) = 2
  BY <1>1, StartParts
<1>4. r \in Roomy
  BY <1>1, <1>3 DEF Roomy
<1> QED BY <1>1, <1>2, <1>3, <1>4, StartParts DEF Alike, r

\* The heart of the matter: a child that resized first and replayed then, and
\* the debug replay of the same log, end with the same argument.
LEMMA ReplayedAlike ==
  ASSUME NEW count \in 1 .. 2 * OriginalSize, NEW first \in 0 .. OriginalSize - 1,
         Len2(count, first) <= OriginalSize, NEW inh \in Seq(PlainEvent)
  PROVE  LET ops == Resizing(count, first)
         IN  Agree(ApplyAll(Start, inh \o ops), ApplyAll(ApplyAll(Start, ops), inh \o ops))
<1> DEFINE ops == Resizing(count, first)
           b == ApplyAll(Start, ops)
           x == ApplyAll(Start, inh)
           y == ApplyAll(b, inh)
           d == ApplyAll(x, ops)
           m == ApplyAll(y, ops)
<1>1. ops \in Seq(Event)
  BY ResizingEvents
<1>2. Alike(Start, b, count)
  BY ResizedParts
<1>3. Alike(x, y, count)
  <2> HIDE DEF b
  <2> QED BY <1>2, AlikeAll
<1>4. /\ x \in Memory /\ x.alive /\ x.pointer = 1 /\ Len(x.heap) = 1
      /\ y \in Memory /\ y.alive /\ y.pointer = 2 /\ Len(y.heap) = 2
      /\ x.heap[1] = y.heap[1] /\ Len(y.heap[2]) = count
  BY <1>3 DEF Alike
<1> HIDE DEF x, y, b
<1>5. /\ d \in Memory /\ d.alive /\ d.pointer = 2 /\ d.heap[1] = x.heap[1]
      /\ d.heap[2] = Refilled(x.heap[1], count, first)
  BY <1>4, ResizingResult
<1>6. /\ m \in Memory /\ m.alive /\ m.pointer = 2 /\ m.heap[1] = y.heap[1]
      /\ m.heap[2] = Refilled(y.heap[1], count, first)
  BY <1>4, ResizingResult
<1>7. Agree(d, m)
  <2> HIDE DEF d, m
  <2> QED BY <1>4, <1>5, <1>6 DEF Agree, Visible, Original
<1>8. ApplyAll(Start, inh \o ops) = d /\ ApplyAll(b, inh \o ops) = m
  <2> HIDE DEF ops
  <2> QED BY <1>1, ApplyAllConcat DEF x, y
<1> QED BY <1>7, <1>8 DEF b

-----------------------------------------------------------------------------
(* The invariant *)

\* Appending to a log leaves what was there where it was.
LEMMA ConcatFacts ==
  ASSUME NEW l \in Seq(Event), NEW e \in Seq(Event)
  PROVE  /\ l \o e \in Seq(Event) /\ DOMAIN l = 1 .. Len(l)
         /\ DOMAIN (l \o e) = 1 .. Len(l) + Len(e)
         /\ Len(l) \in Nat /\ Len(e) \in Nat /\ Len(l \o e) = Len(l) + Len(e)
         /\ \A i \in 1 .. Len(l) : (l \o e)[i] = l[i]
         /\ \A i \in 1 .. Len(e) : (l \o e)[Len(l) + i] = e[i]
         /\ SubSeq(l \o e, 1, Len(l)) = l
OBVIOUS

\* The first execution starts with an empty line of descent.
LEMMA LogInvInit == Init => LogInv
<1> SUFFICES ASSUME Init PROVE LogInv
  OBVIOUS
<1>1. log = <<Begin>> /\ inherited = 1 /\ stage = "fork" /\ memory = Start
  BY DEF Init
<1>2. Begin \in Event /\ Begin \in PlainEvent
  BY DEF Event, PlainEvent
<1>3. log \in Seq(Event) /\ log \in Seq(PlainEvent) /\ Len(log) = 1
  BY <1>1, <1>2
<1>4. DebugReplay = Start
  BY <1>1, ApplyAllOne, StartOK, BeginOK DEF DebugReplay
<1>5. LogOK
  BY <1>1, <1>3, <1>4, StartParts DEF LogOK, Original
<1> QED BY <1>1, <1>3, <1>5 DEF LogInv, StageOK

\* What is appended to a log is replayed after it.
LEMMA DebugReplayGrows ==
  ASSUME log \in Seq(Event), NEW events \in Seq(Event), log' = log \o events
  PROVE  DebugReplay' = ApplyAll(DebugReplay, events)
BY ApplyAllConcat DEF DebugReplay

\* A child that resizes logs how, after what it was given.
LEMMA ResizeStep ==
  ASSUME LogInv,
         NEW count \in 1 .. 2 * OriginalSize, NEW first \in 0 .. OriginalSize - 1,
         Resize(count, first)
  PROVE  LogInv'
<1> DEFINE ops == Resizing(count, first)
<1>1. stage = "fork" /\ inherited' = inherited
      /\ stage' = IF Len2(count, first) <= OriginalSize THEN "replay" ELSE "overread"
  BY DEF Resize, Len1, Len2
<1>2. CASE ~(Len2(count, first) <= OriginalSize)
  BY <1>1, <1>2 DEF LogInv
<1>3. CASE Len2(count, first) <= OriginalSize
  <2>1. LogOK /\ memory = Start /\ inherited = Len(log)
    BY <1>1 DEF LogInv, StageOK
  <2>2. /\ log \in Seq(Event) /\ inherited \in 1 .. Len(log) /\ DebugReplay \in Memory
        /\ DebugReplay.alive \/ TwoAllocations
        /\ \/ \E i \in DOMAIN log : Allocates(i)
           \/ /\ log \in Seq(PlainEvent)
              /\ DebugReplay.pointer = Original /\ Len(DebugReplay.heap) = 1
    BY <2>1 DEF LogOK
  <2>3. log' = log \o ops /\ memory' = ApplyAll(Start, ops)
    <3>1. <<Len(memory.heap) + 1, 0>> = <<2, 0>> /\ <<2, 0>>[1] = 2
      <4>1. Len(memory.heap) = 1
        BY <2>1, StartParts
      <4> QED BY <4>1
    <3> DEFINE new    == <<Len(memory.heap) + 1, 0>>
               len1   == IF OriginalSize - first < count THEN OriginalSize - first ELSE count
               len2   == count - len1
               done   == <<Allocate(count),
                           Copy(new, <<Original, first>>, len1),
                           Copy(<<new[1], len1>>, <<Original, 0>>, len2),
                           Write(Pointer, new[1])>>
               cut    == IF len2 <= OriginalSize THEN done ELSE SubSeq(done, 1, 2)
    <3>2. len1 = Len1(count, first) /\ len2 = Len2(count, first)
      BY DEF Len1, Len2
    <3>3. LogEvents(cut) /\ memory' = ApplyAll(memory, cut)
      BY Zenon DEF Resize, Recorded
    <3> HIDE DEF len1, len2
    <3>4. done = ops
      BY <3>1, <3>2, Zenon DEF Resizing
    <3> HIDE DEF done, ops
    <3>5. cut = ops
      BY <1>3, <3>2, <3>4
    <3>6. ops \in Seq(Event)
      BY ResizingEvents DEF ops
    <3> QED BY <2>1, <2>2, <3>3, <3>5, <3>6, LoggedAtEnd
  <2>4. ops \in Seq(Event) /\ Len(ops) = 4 /\ ops[1].type = "allocate"
    BY ResizingEvents
  <2>5. DebugReplay' = ApplyAll(DebugReplay, ops)
    BY <2>2, <2>3, <2>4, DebugReplayGrows
  <2>6. DebugReplay' \in Memory
    BY <2>2, <2>5, ResizingOK
  <2>7. DebugReplay.alive /\ Len(DebugReplay.heap) = 1 => DebugReplay'.alive
    <3> DEFINE d == DebugReplay
    <3> HIDE DEF d
    <3>1. d \in Memory
      BY <2>2 DEF d
    <3>2. d.alive /\ Len(d.heap) = 1 => ApplyAll(d, ops).alive
      BY <1>3, <3>1, ResizingResult
    <3> QED BY <2>5, <3>2 DEF d
  <2> HIDE DEF ops
  <2>8. /\ log' \in Seq(Event) /\ DOMAIN log = 1 .. Len(log)
        /\ DOMAIN log' = 1 .. Len(log')
        /\ Len(log) \in Nat /\ Len(log') = Len(log) + 4
        /\ \A i \in 1 .. Len(log) : log'[i] = log[i]
        /\ log'[Len(log) + 1] = ops[1]
        /\ SubSeq(log', 1, Len(log)) = log
    <3> DEFINE all == log \o ops
    <3>1. /\ all \in Seq(Event) /\ DOMAIN log = 1 .. Len(log)
          /\ DOMAIN all = 1 .. Len(log) + Len(ops)
          /\ Len(log) \in Nat /\ Len(all) = Len(log) + Len(ops)
          /\ \A i \in 1 .. Len(log) : all[i] = log[i]
          /\ \A i \in 1 .. Len(ops) : all[Len(log) + i] = ops[i]
          /\ SubSeq(all, 1, Len(log)) = log
      BY <2>2, <2>4, ConcatFacts
    <3>2. log' = all
      BY <2>3
    <3> HIDE DEF all
    <3>3. all[Len(log) + 1] = ops[1]
      BY <2>4, <3>1
    <3> QED BY <2>4, <3>1, <3>2, <3>3
  <2>9. PICK n \in DOMAIN log' : n = Len(log) + 1 /\ Allocates(n)'
    <3>1. log'[Len(log) + 1].type = "allocate"
      BY <2>4, <2>8
    <3>2. Len(log) + 1 \in DOMAIN log'
      BY <2>8
    <3> QED BY <3>1, <3>2 DEF Allocates
  <2>10. ASSUME NEW i \in DOMAIN log, Allocates(i)
         PROVE  i \in DOMAIN log' /\ Allocates(i)' /\ i # n
    BY <2>8, <2>9, <2>10 DEF Allocates
  <2>11. DebugReplay'.alive \/ TwoAllocations'
    <3>1. CASE \E i \in DOMAIN log : Allocates(i)
      BY <2>9, <2>10, <3>1 DEF TwoAllocations
    <3>2. CASE ~ \E i \in DOMAIN log : Allocates(i)
      <4>1. DebugReplay.alive /\ Len(DebugReplay.heap) = 1
        BY <2>2, <3>2 DEF TwoAllocations
      <4> QED BY <2>7, <4>1
    <3> QED BY <3>1, <3>2
  <2>12. inherited' \in 1 .. Len(log')
    BY <1>1, <2>2, <2>8
  <2>13. LogOK'
    <3>1. \E i \in DOMAIN log' : Allocates(i)'
      BY <2>9
    <3> QED BY <2>6, <2>8, <2>11, <2>12, <3>1 DEF LogOK
  <2>14. (\E i \in 1 .. inherited : Allocates(i)') \/ log \in Seq(PlainEvent)
    BY <2>1, <2>2, <2>8, <2>10
  <2>15. Resized'
    <3>1. SubSeq(log', 1, inherited') = log
      BY <1>1, <2>1, <2>8
    <3> QED BY <1>1, <1>3, <2>3, <2>14, <3>1 DEF Resized, ops
  <2> QED BY <1>1, <1>3, <2>13, <2>15 DEF LogInv, StageOK
<1> QED BY <1>2, <1>3

\* A child that replays is where the debug replay is, unless both allocated.
LEMMA ReplayStep == LogInv /\ Replay => LogInv'
<1> SUFFICES ASSUME LogInv, Replay PROVE LogInv'
  OBVIOUS
<1>0. log \in Seq(Event)
  BY DEF Replay, LogInv, LogOK
<1>1. /\ stage = "replay" /\ memory' = ApplyAll(memory, log) /\ element' = 1
      /\ stage' = IF memory'.alive THEN "mutate" ELSE "aborted"
      /\ UNCHANGED <<log, inherited>>
  BY <1>0, UnreadFromStart DEF Replay
<1>2. LogOK /\ ((memory = Start /\ inherited = Len(log)) \/ Resized)
  BY <1>1 DEF LogInv, StageOK
<1>3. LogOK'
  BY <1>1, <1>2, Zenon DEF LogOK, DebugReplay, TwoAllocations, Allocates
<1>4. /\ log \in Seq(Event) /\ inherited \in 1 .. Len(log) /\ DebugReplay \in Memory
      /\ DebugReplay.alive \/ TwoAllocations
  BY <1>2 DEF LogOK
<1>5. DebugReplay' = DebugReplay /\ (TwoAllocations' <=> TwoAllocations)
      /\ (BothAllocate' <=> BothAllocate)
  BY <1>1, Zenon DEF DebugReplay, TwoAllocations, BothAllocate, Allocates
<1>6. CASE memory = Start
  <2>1. memory' = DebugReplay
    BY <1>1, <1>6 DEF DebugReplay
  <2>2. CASE memory'.alive
    <3>1. Agree(DebugReplay', memory')
      BY <1>5, <2>1, <2>2 DEF Agree
    <3>2. memory' \in Memory
      BY <1>4, <2>1
    <3> QED BY <1>1, <1>3, <2>2, <3>1, <3>2 DEF LogInv, StageOK
  <2>3. CASE ~memory'.alive
    <3>1. TwoAllocations'
      BY <1>4, <1>5, <2>1, <2>3
    <3> QED BY <1>1, <1>3, <2>3, <3>1 DEF LogInv, StageOK
  <2> QED BY <2>2, <2>3
<1>7. CASE Resized
  <2> DEFINE inh == SubSeq(log, 1, inherited)
  <2>1. PICK count \in 1 .. 2 * OriginalSize, first \in 0 .. OriginalSize - 1 :
          /\ Len2(count, first) <= OriginalSize
          /\ (\E i \in 1 .. inherited : Allocates(i)) \/ inh \in Seq(PlainEvent)
          /\ log = inh \o Resizing(count, first)
          /\ memory = ApplyAll(Start, Resizing(count, first))
    BY <1>7 DEF Resized
  <2> DEFINE ops == Resizing(count, first)
  <2>2. memory \in Roomy
    BY <2>1, ResizedParts
  <2>3. memory' \in Memory
    BY <1>1, <1>4, <2>2, ApplyAllOK DEF Roomy
  <2>4. ops \in Seq(Event) /\ Len(ops) = 4 /\ ops[1].type = "allocate"
    BY ResizingEvents
  <2> HIDE DEF ops
  <2>5. inh \in Seq(Event) /\ Len(inh) = inherited /\ Len(log) \in Nat
    BY <1>4
  <2>6. log = inh \o ops
    BY <2>1 DEF ops
  <2>7. /\ inherited \in Nat /\ DOMAIN log = 1 .. Len(log) /\ Len(log) = inherited + 4
        /\ log[inherited + 1] = ops[1]
    <3> HIDE DEF inh
    <3>1. /\ DOMAIN (inh \o ops) = 1 .. Len(inh) + Len(ops)
          /\ Len(inh) \in Nat /\ Len(inh \o ops) = Len(inh) + Len(ops)
          /\ \A i \in 1 .. Len(ops) : (inh \o ops)[Len(inh) + i] = ops[i]
      BY <2>4, <2>5, ConcatFacts
    <3>2. (inh \o ops)[Len(inh) + 1] = ops[1]
      BY <2>4, <3>1
    <3> QED BY <2>4, <2>5, <2>6, <3>1, <3>2
  <2>8. inherited + 1 \in inherited + 1 .. Len(log) /\ Allocates(inherited + 1)
    BY <2>4, <2>7 DEF Allocates
  <2>9. CASE \E i \in 1 .. inherited : Allocates(i)
    <3>1. BothAllocate
      BY <2>8, <2>9 DEF BothAllocate
    <3>2. TwoAllocations
      <4>1. PICK i \in 1 .. inherited : Allocates(i)
        BY <2>9
      <4>2. i \in DOMAIN log /\ inherited + 1 \in DOMAIN log /\ i # inherited + 1
        BY <2>7
      <4> QED BY <2>8, <4>1, <4>2 DEF TwoAllocations
    <3> QED BY <1>1, <1>3, <1>5, <2>3, <3>1, <3>2 DEF LogInv, StageOK
  <2>10. CASE inh \in Seq(PlainEvent)
    <3>1. Agree(ApplyAll(Start, inh \o ops), ApplyAll(ApplyAll(Start, ops), inh \o ops))
      <4> HIDE DEF inh
      <4> QED BY <2>1, <2>10, ReplayedAlike DEF ops
    <3>2. memory = ApplyAll(Start, ops)
      BY <2>1 DEF ops
    <3> HIDE DEF inh
    <3>3. Agree(DebugReplay', memory')
      BY <1>1, <1>5, <2>6, <3>1, <3>2 DEF DebugReplay
    <3>4. memory'.alive
      BY <3>3 DEF Agree
    <3> QED BY <1>1, <1>3, <2>3, <3>3, <3>4 DEF LogInv, StageOK
  <2> QED BY <2>1, <2>9, <2>10
<1> QED BY <1>2, <1>6, <1>7

\* Two memories that agree still do after the same write through the pointer.
LEMMA AgreeWrite ==
  ASSUME NEW d \in Memory, NEW m \in Memory, Agree(d, m), NEW v \in Elem,
         NEW k \in Nat, k + 1 <= Len(m.heap[m.pointer])
  PROVE  LET e == Write(<<m.pointer, k>>, v)
         IN  /\ Agree(Apply(d, e), Apply(m, e))
             /\ Apply(d, e).pointer = d.pointer
             /\ Len(Apply(d, e).heap) = Len(d.heap)
<1> DEFINE p  == m.pointer
           at == <<p, k>>
           e  == Write(at, v)
           s  == Overwritten(d, at, v)
           t  == Overwritten(m, at, v)
<1>1. /\ d.alive /\ m.alive /\ d.pointer = p /\ d.heap[p] = m.heap[p]
      /\ d.heap[1] = m.heap[1]
  BY DEF Agree, Visible, Original
<1>2. /\ p \in Nat \ {0} /\ p \in DOMAIN m.heap /\ p \in DOMAIN d.heap
      /\ 1 \in DOMAIN m.heap /\ 1 \in DOMAIN d.heap
  BY <1>1, MemoryParts, SMTT(30)
<1>3. at \in (Nat \ {0}) \X Nat /\ at \in Nat \X Nat /\ at[1] = p /\ at[2] = k
  BY <1>2
<1>4. k + 1 <= Len(m.heap[p])
  OBVIOUS
<1> HIDE DEF p, at
<1>5. Within(m, at, 1) /\ Within(d, at, 1)
  BY <1>1, <1>2, <1>3, <1>4 DEF Within
<1>6. s = t
  BY <1>1, <1>3 DEF Overwritten
<1>7. Apply(d, e) = HeapWith(d, p, s) /\ Apply(m, e) = HeapWith(m, p, t)
  BY <1>1, <1>3, <1>5, WriteInside
<1>8. /\ s \in Seq(Elem) /\ Len(s) = Len(d.heap[p])
      /\ t \in Seq(Elem) /\ Len(t) = Len(m.heap[p])
  BY <1>3, <1>5, OverwrittenOK
<1> HIDE DEF s, t, e
<1> DEFINE x == HeapWith(d, p, s)
           y == HeapWith(m, p, t)
<1>9. /\ x.alive /\ x.pointer = p /\ Len(x.heap) = Len(d.heap) /\ x.heap[p] = s
      /\ 1 # p => x.heap[1] = d.heap[1]
  BY <1>1, <1>2, <1>8, HeapWithOK, SMTT(30)
<1>10. /\ y.alive /\ y.pointer = p /\ y.heap[p] = t
       /\ 1 # p => y.heap[1] = m.heap[1]
  <2>1. m.pointer = p
    BY DEF p
  <2> QED BY <1>1, <1>2, <1>8, <2>1, HeapWithOK
<1> HIDE DEF x, y
<1>11. Agree(x, y)
  BY <1>1, <1>6, <1>9, <1>10 DEF Agree, Visible, Original
<1>12. /\ Agree(Apply(d, e), Apply(m, e)) /\ Apply(d, e).pointer = d.pointer
       /\ Len(Apply(d, e).heap) = Len(d.heap)
  BY <1>1, <1>7, <1>9, <1>11 DEF x, y
<1> QED BY <1>12 DEF e, at, p

\* A child that writes an element logs the write it made.
LEMMA MutateStep ==
  ASSUME LogInv, NEW v \in Values, MutateElement(v)
  PROVE  LogInv'
<1> DEFINE p  == memory.pointer
           k  == element - 1
           e  == Written(v)
<1>1. /\ stage = "mutate" /\ stage' = "mutate" /\ element <= Size /\ element' = element + 1
      /\ inherited' = inherited
      /\ LogEvents(<<e>>)
      /\ memory' = [memory EXCEPT !.heap[memory.pointer][element] = v]
  BY DEF MutateElement
<1>2. /\ LogOK /\ element \in Nat \ {0} /\ memory \in Memory /\ memory.alive
      /\ Agree(DebugReplay, memory) \/ BothAllocate
  BY <1>1 DEF LogInv, StageOK
<1>3. /\ log \in Seq(Event) /\ inherited \in 1 .. Len(log) /\ DebugReplay \in Memory
      /\ DebugReplay.alive \/ TwoAllocations
      /\ \/ \E i \in DOMAIN log : Allocates(i)
         \/ /\ log \in Seq(PlainEvent)
            /\ DebugReplay.pointer = Original /\ Len(DebugReplay.heap) = 1
  BY <1>2 DEF LogOK
<1>4. /\ e = Write(<<p, k>>, v) /\ v \in Elem /\ k \in Nat /\ k + 1 = element
      /\ p \in {1, 2} /\ <<p, k>> \in (Nat \ {0}) \X Nat /\ <<p, k>> \in Nat \X Nat
  BY <1>2, MemoryParts, ConstantsOK DEF Written
<1>5. k + 1 <= Len(memory.heap[p])
  BY <1>1, <1>4 DEF Size
<1>6. e \in Event /\ log' = log \o <<e>>
  <2>1. e \in Event
    BY <1>4 DEF Event
  <2>2. <<e>> \in Seq(Event)
    BY <2>1
  <2> QED BY <1>1, <1>3, <2>1, <2>2, LoggedAtEnd
<1>7. DebugReplay' = Apply(DebugReplay, e)
  <2>1. <<e>> \in Seq(Event)
    BY <1>6
  <2> HIDE DEF e
  <2>2. DebugReplay' = ApplyAll(DebugReplay, <<e>>)
    BY <1>6, <1>3, <2>1, DebugReplayGrows
  <2> QED BY <2>2, ApplyAllOne
<1>8. memory' = Apply(memory, e) /\ memory' \in Memory /\ memory'.alive
  <2> DEFINE at == <<p, k>>
             h  == [memory.heap EXCEPT ![p] = [@ EXCEPT ![element] = v]]
  <2>1. at[1] = p /\ at[2] = k /\ at[2] + 1 = element
    BY <1>4
  <2>2. Within(memory, at, 1)
    BY <1>2, <1>5, <2>1, MemoryParts DEF Within
  <2>3. at \in (Nat \ {0}) \X Nat
    BY <1>4
  <2> HIDE DEF at
  <2>4. Apply(memory, Write(at, v)) = HeapWith(memory, p, Overwritten(memory, at, v))
    BY <1>2, <1>4, <2>1, <2>2, <2>3, WriteInside
  <2>5. Overwritten(memory, at, v) = [memory.heap[p] EXCEPT ![element] = v]
    BY <2>1 DEF Overwritten
  <2>6. memory' = [memory EXCEPT !.heap = h]
    BY <1>1
  <2>7. memory' = Alive(memory.pointer, h)
    <3> HIDE DEF h
    <3> QED BY <1>2, <2>6, WithHeap
  <2>8. memory' = HeapWith(memory, p, Overwritten(memory, at, v))
    BY <2>5, <2>7, Zenon DEF HeapWith
  <2>9. Apply(memory, Write(at, v)) \in Memory
    BY <1>2, <1>4, <2>3, WriteOK
  <2>10. memory'.alive
    BY <2>7 DEF Alive
  <2> QED BY <1>4, <2>4, <2>8, <2>9, <2>10 DEF at
<1> HIDE DEF e
<1>10. /\ log' \in Seq(Event) /\ DOMAIN log = 1 .. Len(log) /\ DOMAIN log' = 1 .. Len(log')
       /\ Len(log) \in Nat /\ Len(log') = Len(log) + 1
       /\ \A i \in 1 .. Len(log) : log'[i] = log[i]
  <2>1. <<e>> \in Seq(Event) /\ Len(<<e>>) = 1
    BY <1>6
  <2> QED BY <1>6, <1>3, <2>1, ConcatFacts
<1>11. ASSUME NEW i \in 1 .. Len(log), Allocates(i)
       PROVE  Allocates(i)'
  BY <1>10, <1>11 DEF Allocates
<1>12. TwoAllocations => TwoAllocations'
  <2> SUFFICES ASSUME TwoAllocations PROVE TwoAllocations'
    OBVIOUS
  <2>1. PICK i, j \in DOMAIN log : i # j /\ Allocates(i) /\ Allocates(j)
    BY DEF TwoAllocations
  <2>2. i \in DOMAIN log' /\ j \in DOMAIN log' /\ Allocates(i)' /\ Allocates(j)'
    BY <1>10, <1>11, <2>1
  <2> QED BY <2>1, <2>2 DEF TwoAllocations
<1>13. BothAllocate => BothAllocate' /\ TwoAllocations'
  <2> SUFFICES ASSUME BothAllocate PROVE BothAllocate' /\ TwoAllocations'
    OBVIOUS
  <2>1. PICK i \in 1 .. inherited : Allocates(i)
    BY DEF BothAllocate
  <2>2. PICK j \in inherited + 1 .. Len(log) : Allocates(j)
    BY DEF BothAllocate
  <2>3. i \in 1 .. Len(log) /\ j \in 1 .. Len(log) /\ i # j
        /\ j \in inherited + 1 .. Len(log') /\ i \in DOMAIN log' /\ j \in DOMAIN log'
    BY <1>3, <1>10
  <2>4. Allocates(i)' /\ Allocates(j)'
    BY <1>11, <2>1, <2>2, <2>3
  <2>5. BothAllocate'
    BY <1>1, <2>1, <2>3, <2>4 DEF BothAllocate
  <2>6. TwoAllocations'
    BY <2>3, <2>4 DEF TwoAllocations
  <2> QED BY <2>5, <2>6
<1>14. CASE BothAllocate
  <2>1. DebugReplay' \in Memory
    <3>1. CASE DebugReplay.alive
      BY <1>3, <1>4, <1>7, <3>1, WriteOK
    <3>2. CASE ~DebugReplay.alive
      BY <1>3, <1>7, <3>2, DeadOK
    <3> QED BY <3>1, <3>2
  <2>2. \E i \in DOMAIN log' : Allocates(i)'
    BY <1>13, <1>14 DEF TwoAllocations
  <2>3. inherited' \in 1 .. Len(log')
    BY <1>1, <1>3, <1>10
  <2>4. LogOK'
    BY <1>10, <1>13, <1>14, <2>1, <2>2, <2>3 DEF LogOK
  <2>5. element' \in Nat \ {0}
    BY <1>1, <1>2
  <2> QED BY <1>1, <1>8, <1>13, <1>14, <2>4, <2>5 DEF LogInv, StageOK
<1>15. CASE Agree(DebugReplay, memory) /\ ~BothAllocate
  <2> DEFINE d == DebugReplay
  <2>1. d \in Memory /\ d.alive /\ d.pointer = p /\ d.heap[1] = memory.heap[1]
    BY <1>3, <1>15 DEF Agree, Visible, Original
  <2> HIDE DEF d
  <2>2. /\ Agree(Apply(d, e), Apply(memory, e)) /\ Apply(d, e).pointer = d.pointer
        /\ Len(Apply(d, e).heap) = Len(d.heap)
    <3>1. Agree(d, memory)
      BY <1>15 DEF d
    <3> QED BY <1>2, <1>4, <1>5, <2>1, <3>1, AgreeWrite
  <2>3. Apply(d, e) \in Memory
    BY <1>4, <2>1, WriteOK
  <2>4. DebugReplay' = Apply(d, e)
    BY <1>7 DEF d
  <2>5. DebugReplay'.alive
    BY <2>2, <2>4 DEF Agree
  <2>6. \/ \E i \in DOMAIN log' : Allocates(i)'
        \/ /\ log' \in Seq(PlainEvent)
           /\ DebugReplay'.pointer = Original /\ Len(DebugReplay'.heap) = 1
    <3>1. CASE \E i \in DOMAIN log : Allocates(i)
      BY <1>10, <1>11, <3>1
    <3>2. CASE /\ log \in Seq(PlainEvent)
               /\ DebugReplay.pointer = Original /\ Len(DebugReplay.heap) = 1
      <4>1. p = Original /\ Len(d.heap) = 1 /\ d.pointer = Original
        BY <2>1, <3>2 DEF d
      <4>2. k \in 0 .. OriginalSize - 1
        <5>1. Len(memory.heap[p]) = OriginalSize
          BY <1>2, <4>1, MemoryParts DEF Original
        <5> QED BY <1>4, <1>5, <5>1, ConstantsOK
      <4>3. e \in PlainEvent
        BY <1>4, <4>1, <4>2 DEF PlainEvent, PlainWrites
      <4>4. log' \in Seq(PlainEvent)
        BY <1>6, <3>2, <4>3
      <4> QED BY <2>2, <2>4, <4>1, <4>4
    <3> QED BY <1>3, <3>1, <3>2
  <2>7. inherited' \in 1 .. Len(log')
    BY <1>1, <1>3, <1>10
  <2>8. LogOK'
    BY <1>10, <2>3, <2>4, <2>5, <2>6, <2>7 DEF LogOK
  <2>9. Agree(DebugReplay', memory')
    BY <1>8, <2>2, <2>4
  <2>10. element' \in Nat \ {0}
    BY <1>1, <1>2
  <2> QED BY <1>1, <1>8, <2>8, <2>9, <2>10 DEF LogInv, StageOK
<1> QED BY <1>2, <1>14, <1>15

\* Every step keeps the invariant.
LEMMA LogInvStep == LogInv /\ [Next]_vars => LogInv'
<1> SUFFICES ASSUME LogInv, [Next]_vars PROVE LogInv'
  OBVIOUS
<1> USE DEF DebugReplay, TwoAllocations, BothAllocate, Allocates
<1>1. LogOK /\ UNCHANGED <<log, inherited>> => LogOK'
  BY Zenon DEF LogOK
<1>2. CASE UNCHANGED vars
  <2>1. UNCHANGED <<log, inherited, memory, stage, element>>
    BY <1>2 DEF vars
  <2> QED BY <2>1, Zenon DEF LogInv, LogOK, StageOK, Resized
<1>3. CASE NoResize
  <2>1. LogOK /\ memory = Start /\ inherited = Len(log) /\ stage' = "replay"
        /\ UNCHANGED <<log, inherited, memory>>
    BY <1>3 DEF NoResize, LogInv, StageOK
  <2> QED BY <1>1, <2>1 DEF LogInv, StageOK
<1>4. CASE SkipElement
  <2>1. /\ stage = "mutate" /\ stage' = stage /\ element' = element + 1
        /\ UNCHANGED <<log, inherited, memory>>
    BY <1>4 DEF SkipElement
  <2>2. /\ LogOK /\ element \in Nat \ {0} /\ memory \in Memory /\ memory.alive
        /\ Agree(DebugReplay, memory) \/ BothAllocate
    BY <2>1 DEF LogInv, StageOK
  <2>3. element' \in Nat \ {0}
    BY <2>1, <2>2
  <2>4. Agree(DebugReplay, memory)' \/ BothAllocate'
    BY <2>1, <2>2, Zenon
  <2> QED BY <1>1, <2>1, <2>2, <2>3, <2>4 DEF LogInv, StageOK
<1>5. CASE Call
  <2>1. /\ stage = "mutate" /\ stage' = "call"
        /\ UNCHANGED <<log, inherited, memory, element>>
    BY <1>5 DEF Call
  <2>2. /\ LogOK /\ element \in Nat \ {0} /\ memory \in Memory /\ memory.alive
        /\ Agree(DebugReplay, memory) \/ BothAllocate
    BY <2>1 DEF LogInv, StageOK
  <2>3. Agree(DebugReplay, memory)' \/ BothAllocate'
    BY <2>1, <2>2, Zenon
  <2> QED BY <1>1, <2>1, <2>2, <2>3 DEF LogInv, StageOK
<1>6. CASE NextGeneration
  <2>1. /\ stage = "call" /\ stage' = "fork" /\ log' = log /\ inherited' = Len(log')
        /\ memory' = Start
    BY <1>6 DEF NextGeneration, ChildLog
  <2>2. LogOK
    BY <2>1 DEF LogInv
  <2>3. inherited' \in 1 .. Len(log')
    BY <2>1, <2>2 DEF LogOK
  <2>4. LogOK'
    BY <2>1, <2>2, <2>3, Zenon DEF LogOK
  <2> QED BY <2>1, <2>4 DEF LogInv, StageOK
<1>7. CASE Ended
  BY <1>2, <1>7 DEF Ended
<1>8. CASE Replay
  BY <1>8, ReplayStep
<1>9. ASSUME NEW count \in 1 .. 2 * OriginalSize, NEW first \in 0 .. OriginalSize - 1,
             Resize(count, first)
      PROVE  LogInv'
  BY <1>9, ResizeStep
<1>10. ASSUME NEW v \in Values, MutateElement(v) PROVE LogInv'
  BY <1>10, MutateStep
<1> QED BY <1>2, <1>3, <1>4, <1>5, <1>6, <1>7, <1>8, <1>9, <1>10 DEF Next

\* The invariant holds of every behaviour.
LEMMA LogInvAlways == Spec => []LogInv
BY LogInvInit, LogInvStep, PTL DEF Spec

\* Replaying a saved log gives the call the argument it was executed with,
\* whatever the argument is and however long the line of descent, unless both
\* the child and one of its ancestors resized it.
THEOREM ReplayIsExact == Spec => []ReplayExact
<1>1. LogInv => ReplayExact
  <2> SUFFICES ASSUME LogInv, stage = "call",
                      ~ SameAsDebug
               PROVE  /\ Allocations(SubSeq(log, 1, inherited)) # {}
                      /\ Allocations(SubSeq(log, inherited + 1, Len(log))) # {}
    BY DEF ReplayExact
  <2>1. LogOK /\ (Agree(DebugReplay, memory) \/ BothAllocate)
    BY DEF LogInv, StageOK
  <2>2. BothAllocate
    BY <2>1 DEF Agree, SameAsDebug
  <2>3. log \in Seq(Event) /\ inherited \in 1 .. Len(log) /\ Len(log) \in Nat
    BY <2>1 DEF LogOK
  <2>4. Allocations(SubSeq(log, 1, inherited)) # {}
    <3> DEFINE s == SubSeq(log, 1, inherited)
    <3>1. PICK i \in 1 .. inherited : log[i].type = "allocate"
      BY <2>2 DEF BothAllocate, Allocates
    <3>2. i \in DOMAIN s /\ s[i] = log[i]
      BY <2>3
    <3> HIDE DEF s
    <3>3. i \in Allocations(s)
      BY <3>1, <3>2 DEF Allocations
    <3> QED BY <3>3 DEF s
  <2>5. Allocations(SubSeq(log, inherited + 1, Len(log))) # {}
    <3> DEFINE s == SubSeq(log, inherited + 1, Len(log))
    <3>1. PICK i \in inherited + 1 .. Len(log) : log[i].type = "allocate"
      BY <2>2 DEF BothAllocate, Allocates
    <3>2. i - inherited \in DOMAIN s /\ s[i - inherited] = log[i]
      BY <2>3, SMTT(30)
    <3> HIDE DEF s
    <3>3. i - inherited \in Allocations(s)
      BY <3>1, <3>2 DEF Allocations
    <3> QED BY <3>3 DEF s
  <2> QED BY <2>4, <2>5
<1> QED BY LogInvAlways, <1>1, PTL

\* A child that dies while it replays what its ancestors did without dying has
\* a log that allocates twice.
THEOREM ReplayIsSurvived == Spec => []ReplaySurvives
<1>1. LogInv => ReplaySurvives
  <2> SUFFICES ASSUME LogInv, stage = "aborted"
               PROVE  Cardinality(Allocations(log)) > 1
    BY DEF ReplaySurvives
  <2>1. LogOK /\ TwoAllocations
    BY DEF LogInv, StageOK
  <2>2. PICK i, j \in DOMAIN log : i # j /\ Allocates(i) /\ Allocates(j)
    BY <2>1 DEF TwoAllocations
  <2> DEFINE A == Allocations(log)
  <2>3. {i, j} \subseteq A
    BY <2>2 DEF Allocations, Allocates
  <2>4. IsFiniteSet(A)
    <3>1. DOMAIN log = 1 .. Len(log) /\ Len(log) \in Nat
      BY <2>1 DEF LogOK
    <3>2. A \subseteq 1 .. Len(log)
      BY <3>1 DEF Allocations
    <3>3. IsFiniteSet(1 .. Len(log))
      BY <3>1, FS_Interval
    <3> QED BY <3>2, <3>3, FS_Subset
  <2> HIDE DEF A
  <2>5. Cardinality({i, j}) <= Cardinality(A) /\ IsFiniteSet({i, j})
    BY <2>3, <2>4, FS_Subset
  <2>6. Cardinality({i, j}) = 2
    <3>1. IsFiniteSet({i}) /\ Cardinality({i}) = 1
      BY FS_Singleton
    <3>2. {i, j} = {i} \cup {j} /\ j \notin {i}
      BY <2>2
    <3> QED BY <3>1, <3>2, FS_AddElement
  <2>7. Cardinality(A) \in Nat
    BY <2>4, FS_CardinalityType
  <2> QED BY <2>5, <2>6, <2>7 DEF A
<1> QED BY LogInvAlways, <1>1, PTL

\* What is appended to begins with what it is appended to.
LEMMA PrefixOfAppended ==
  ASSUME NEW S, NEW T, NEW l \in Seq(S), NEW e \in Seq(T)
  PROVE  IsPrefix(l, l \o e)
<1>1. l \in Seq(S \cup T) /\ e \in Seq(S \cup T)
  OBVIOUS
<1> DEFINE all == l \o e
<1>2. /\ all \in Seq(S \cup T) /\ Len(all) = Len(l) + Len(e)
      /\ Len(l) \in Nat /\ Len(e) \in Nat
      /\ \A i \in 1 .. Len(l) : all[i] = l[i]
  BY <1>1
<1> HIDE DEF all
<1>3. SubSeq(all, 1, Len(l)) = SubSeq(l, 1, Len(l))
  BY <1>1, <1>2
<1> QED BY <1>2, <1>3 DEF IsPrefix, all

\* A child never writes over an event: wherever the offset it shares with the
\* worker has been left by the opening of the log, by a resize or by a replay,
\* what it logs is appended.
THEOREM InheritedIsKept == Spec => KeepsInherited
<1>1. LogBegun /\ [Next]_vars => [IsPrefix(log, log')]_log
  <2> SUFFICES ASSUME LogBegun, [Next]_vars, log' # log PROVE IsPrefix(log, log')
    OBVIOUS
  <2>1. log \in Seq(Range(log))
    BY DEF LogBegun, Begun
  <2>2. CASE \E count, first : Resize(count, first)
    <3>1. PICK count, first : Resize(count, first)
      BY <2>2
    <3> DEFINE new  == <<Len(memory.heap) + 1, 0>>
               len1 == IF OriginalSize - first < count THEN OriginalSize - first ELSE count
               len2 == count - len1
               c1   == Copy(new, <<Original, first>>, len1)
               c2   == Copy(<<new[1], len1>>, <<Original, 0>>, len2)
               ops  == <<Allocate(count), c1, c2, Write(Pointer, new[1])>>
               done == IF len2 <= OriginalSize THEN ops ELSE SubSeq(ops, 1, 2)
    <3>2. LogEvents(done)
      BY <3>1, Zenon DEF Resize, Recorded
    <3>3. done \in Seq(Range(done))
      <4>1. c1.type = "copy" /\ c2.type = "copy"
        BY DEF Copy
      <4> HIDE DEF c1, c2, new
      <4>2. NoBegin(ops) /\ NoBegin(SubSeq(ops, 1, 2))
        BY <4>1, ResizeNoBegin
      <4> HIDE DEF ops, len2
      <4>3. NoBegin(done)
        BY <4>2
      <4> HIDE DEF done
      <4> QED BY <4>3 DEF NoBegin
    <3> HIDE DEF done
    <3>4. log' = log \o done
      BY <2>1, <3>2, <3>3, LoggedAtEnd
    <3> QED BY <2>1, <3>3, <3>4, PrefixOfAppended
  <2>3. CASE \E v \in Values : MutateElement(v)
    <3>1. PICK v : MutateElement(v)
      BY <2>3
    <3> DEFINE w == Written(v)
    <3>2. LogEvents(<<w>>)
      BY <3>1 DEF MutateElement
    <3> HIDE DEF w
    <3>3. <<w>> \in Seq({w})
      OBVIOUS
    <3>4. log' = log \o <<w>>
      BY <2>1, <3>2, <3>3, LoggedAtEnd
    <3> QED BY <2>1, <3>3, <3>4, PrefixOfAppended
  <2>4. CASE NextGeneration \/ NoResize \/ Replay \/ SkipElement \/ Call \/ Ended \/ UNCHANGED vars
    BY <2>4 DEF NextGeneration, ChildLog, NoResize, Replay, SkipElement, Call, Ended, vars
  <2> QED BY <2>2, <2>3, <2>4 DEF Next
<1> QED BY BeginOnceInit, BeginOnceStep, <1>1, PTL DEF Spec, KeepsInherited
=============================================================================
