----------------------- MODULE InferredSpansPhpProofs -----------------------
(***************************************************************************)
(* Machine-checked lemmas about InferredSpansPhp, for any functions, any   *)
(* stack traces and any time between them: what a stack trace does to the  *)
(* spans, the scopes and the frames of a tracing state.                    *)
(***************************************************************************)
EXTENDS InferredSpansPhp, SequenceTheorems, WellFoundedInduction, TLAPS

-----------------------------------------------------------------------------
(* Induction over data, with sets in the place of predicates.              *)

\* The least-number principle.
LEMMA SmallestOf ==
  ASSUME NEW T \in SUBSET Nat, T # {}
  PROVE  \E n \in T : \A k \in T : n <= k
<1> DEFINE less == OpToRel(<, Nat)
<1>1. IsWellFoundedOn(less, Nat)
  BY NatLessThanWellFounded, Zenon
<1>2. \A x, y \in Nat : x < y => <<x, y>> \in less
  BY DEF OpToRel
<1> HIDE DEF less
<1>3. PICK n \in T : \A k \in T : ~ (<<k, n>> \in less)
  BY <1>1, WFMin, Zenon
<1>4. \A k \in T : n \in Nat /\ k \in Nat /\ ~ (k < n)
  BY <1>2, <1>3
<1> QED
  BY <1>4

\* A bounded set of numbers has a largest one.
LEMMA LargestOf ==
  ASSUME NEW m \in Nat, NEW T \in SUBSET (0..m), T # {}
  PROVE  \E n \in T : \A k \in T : k <= n
<1> DEFINE below == {m - k : k \in T}
<1>1. below \in SUBSET Nat /\ below # {}
  <2>1. \A k \in T : k \in 0..m /\ m - k \in Nat
    OBVIOUS
  <2> QED
    BY <2>1
<1>2. PICK x \in below : \A k \in below : x <= k
  BY <1>1, SmallestOf, Zenon
<1>3. PICK n \in T : x = m - n
  OBVIOUS
<1>4. ASSUME NEW k \in T PROVE k <= n
  <2>1. m - k \in below
    OBVIOUS
  <2>2. m - n <= m - k /\ n \in 0..m /\ k \in 0..m
    BY <1>2, <1>3, <2>1
  <2> QED
    BY <2>2
<1> QED
  BY <1>4

\* What holds of 0, and of i when it holds of i - 1, holds up to n.
LEMMA UpTo ==
  ASSUME NEW n \in Nat, NEW good \in SUBSET Nat, 0 \in good,
         \A i \in 1..n : i - 1 \in good => i \in good
  PROVE  0..n \subseteq good
<1> DEFINE bad == (0..n) \ good
<1> SUFFICES ASSUME bad # {} PROVE FALSE
  OBVIOUS
<1>1. bad \in SUBSET Nat
  OBVIOUS
<1>2. PICK m \in bad : \A k \in bad : m <= k
  BY <1>1, SmallestOf, Zenon
<1>3. m \in 1..n /\ m - 1 \in 0..n /\ ~ (m <= m - 1)
  BY <1>2
<1>4. m - 1 \in good
  BY <1>2, <1>3
<1> QED
  BY <1>2, <1>3, <1>4

-----------------------------------------------------------------------------
(* The shape of a tracing state.  F stands for the functions that frames   *)
(* and spans name.                                                         *)

Span(F) == [kind : {"root", "hook", "inferred"}, fn : F, parent : Nat, from : Int,
            until : Int, state : {"open", "ended", "dropped"}]

TracedFrame(F) == [fn : F, span : Nat, trace : Nat]

Tracing(F) == [scopes : Seq(Nat), spans : Seq(Span(F)), last : Seq(TracedFrame(F)),
               garbage : SUBSET Nat, trace : Nat, now : Nat, shutdown : BOOLEAN,
               reduction : BOOLEAN, minDuration : Nat]

Increasing(s) == \A i, j \in 1..Len(s) : i < j => s[i] < s[j]

\* What holds whatever order scopes are detached in: a span is younger than its
\* parent, scopes and frames are in the order in which their spans started.
Shaped(t, F) ==
  /\ t \in Tracing(F)
  /\ \A i \in 1..Len(t.scopes) : t.scopes[i] \in 1..Len(t.spans)
  /\ Increasing(t.scopes)
  /\ \A s \in 1..Len(t.spans) : t.spans[s].parent < s
  /\ \A i \in 1..Len(t.last) : t.last[i].span \in 1..Len(t.spans)
  /\ \A i, j \in 1..Len(t.last) : i < j => t.last[j].span < t.last[i].span

LEMMA ShapedTypes ==
  ASSUME NEW F, NEW t, Shaped(t, F)
  PROVE  /\ t.scopes \in Seq(Nat) /\ Len(t.scopes) \in Nat
         /\ t.spans \in Seq(Span(F)) /\ Len(t.spans) \in Nat
         /\ t.last \in Seq(TracedFrame(F)) /\ Len(t.last) \in Nat
         /\ t.garbage \in SUBSET Nat /\ t.trace \in Nat /\ t.now \in Nat
         /\ t.minDuration \in Nat
         /\ \A s \in 1..Len(t.spans) :
              /\ t.spans[s] \in Span(F)
              /\ t.spans[s].parent \in Nat /\ t.spans[s].from \in Int /\ t.spans[s].until \in Int
         /\ \A i \in 1..Len(t.last) : t.last[i].trace \in Nat /\ t.last[i].span \in Nat
<1>1. /\ t.scopes \in Seq(Nat) /\ t.spans \in Seq(Span(F)) /\ t.last \in Seq(TracedFrame(F))
      /\ t.garbage \in SUBSET Nat /\ t.trace \in Nat /\ t.now \in Nat /\ t.minDuration \in Nat
  BY DEF Shaped, Tracing
<1>2. \A s \in 1..Len(t.spans) : t.spans[s] \in Span(F)
  BY <1>1
<1>3. \A i \in 1..Len(t.last) : t.last[i] \in TracedFrame(F)
  BY <1>1
<1>4. \A s \in 1..Len(t.spans) :
        t.spans[s].parent \in Nat /\ t.spans[s].from \in Int /\ t.spans[s].until \in Int
  BY <1>2 DEF Span
<1>5. \A i \in 1..Len(t.last) : t.last[i].trace \in Nat /\ t.last[i].span \in Nat
  BY <1>3 DEF TracedFrame
<1> QED
  BY <1>1, <1>2, <1>4, <1>5

-----------------------------------------------------------------------------
(* Scopes.                                                                 *)

LEMMA RemoveAtIs ==
  ASSUME NEW s \in Seq(Nat), NEW c \in 1..Len(s)
  PROVE  /\ RemoveAt(s, c) \in Seq(Nat) /\ Len(RemoveAt(s, c)) = Len(s) - 1
         /\ \A i \in 1..Len(s) - 1 : RemoveAt(s, c)[i] = IF i < c THEN s[i] ELSE s[i + 1]
<1> DEFINE n == Len(s)
           a == SubSeq(s, 1, c - 1)
           b == SubSeq(s, c + 1, n)
<1>1. n \in Nat /\ c \in 1..n /\ \A i \in 1..n : s[i] \in Nat
  OBVIOUS
<1>2. a \in Seq(Nat) /\ Len(a) = c - 1 /\ \A i \in 1..c - 1 : a[i] = s[i]
  BY <1>1, SubSeqProperties
<1>3. b \in Seq(Nat) /\ Len(b) = n - c /\ \A i \in 1..n - c : b[i] = s[c + i]
  BY <1>1, SubSeqProperties
<1>4. RemoveAt(s, c) = a \o b
  BY DEF RemoveAt
<1> HIDE DEF a, b
<1>5. /\ a \o b \in Seq(Nat) /\ Len(a \o b) = Len(a) + Len(b)
      /\ \A i \in 1..Len(a) + Len(b) : (a \o b)[i] = IF i <= Len(a) THEN a[i] ELSE b[i - Len(a)]
  BY <1>2, <1>3, ConcatProperties
<1>6. Len(a) + Len(b) = n - 1
  BY <1>1, <1>2, <1>3
<1>7. ASSUME NEW i \in 1..n - 1 PROVE (a \o b)[i] = IF i < c THEN s[i] ELSE s[i + 1]
  <2>1. CASE i < c
    BY <1>1, <1>2, <1>5, <1>6, <2>1
  <2>2. CASE ~(i < c)
    <3>1. i - (c - 1) \in 1..n - c /\ c + (i - (c - 1)) = i + 1
      BY <1>1, <2>2
    <3>2. (a \o b)[i] = b[i - (c - 1)]
      BY <1>1, <1>2, <1>5, <1>6, <2>2, SMTT(30)
    <3> QED
      BY <1>3, <2>2, <3>1, <3>2
  <2> QED
    BY <2>1, <2>2
<1> QED
  BY <1>4, <1>5, <1>6, <1>7

\* A scope taken out leaves the others as they were.
LEMMA WithoutKeeps ==
  ASSUME NEW s \in Seq(Nat), Increasing(s), NEW id
  PROVE  /\ Without(s, id) \in Seq(Nat)
         /\ Increasing(Without(s, id))
         /\ \A i \in 1..Len(Without(s, id)) : \E j \in 1..Len(s) : Without(s, id)[i] = s[j]
<1>1. CASE id \notin ToSet(s)
  BY <1>1 DEF Without
<1>2. CASE id \in ToSet(s)
  <2>1. \E i \in DOMAIN s : s[i] = id
    BY <1>2 DEF ToSet
  <2> DEFINE c == CHOOSE i \in DOMAIN s : s[i] = id
             w == RemoveAt(s, c)
  <2>2. c \in 1..Len(s) /\ Len(s) \in Nat
    BY <2>1
  <2>3. w = Without(s, id)
    BY <1>2 DEF Without
  <2> HIDE DEF c
  <2>4. /\ w \in Seq(Nat) /\ Len(w) = Len(s) - 1
        /\ \A i \in 1..Len(s) - 1 : w[i] = IF i < c THEN s[i] ELSE s[i + 1]
    BY <2>2, RemoveAtIs
  <2> HIDE DEF w
  <2>5. ASSUME NEW i \in 1..Len(w), NEW j \in 1..Len(w), i < j PROVE w[i] < w[j]
    <3> DEFINE k == IF i < c THEN i ELSE i + 1
               l == IF j < c THEN j ELSE j + 1
    <3>1. k \in 1..Len(s) /\ l \in 1..Len(s) /\ k < l
      BY <2>2, <2>4, <2>5
    <3>2. w[i] = s[k] /\ w[j] = s[l]
      BY <2>4
    <3> QED
      BY <3>1, <3>2 DEF Increasing
  <2>6. ASSUME NEW i \in 1..Len(w) PROVE \E j \in 1..Len(s) : w[i] = s[j]
    <3> DEFINE k == IF i < c THEN i ELSE i + 1
    <3>1. k \in 1..Len(s)
      BY <2>2, <2>4
    <3>2. w[i] = s[k]
      BY <2>4
    <3> QED
      BY <3>1, <3>2
  <2> QED
    BY <2>3, <2>4, <2>5, <2>6 DEF Increasing
<1> QED
  BY <1>1, <1>2

\* The newest scope taken out is the last element.
LEMMA WithoutLast ==
  ASSUME NEW s \in Seq(Nat), Increasing(s), s # << >>
  PROVE  /\ Without(s, s[Len(s)]) \in Seq(Nat)
         /\ Len(Without(s, s[Len(s)])) = Len(s) - 1
         /\ \A i \in 1..Len(s) - 1 : Without(s, s[Len(s)])[i] = s[i]
<1> DEFINE id == s[Len(s)]
           c == CHOOSE i \in DOMAIN s : s[i] = id
<1>1. Len(s) \in 1..Len(s) /\ DOMAIN s = 1..Len(s)
  OBVIOUS
<1>2. c \in 1..Len(s) /\ s[c] = id
  BY <1>1
<1>3. Without(s, id) = RemoveAt(s, c)
  BY <1>1 DEF Without, ToSet
<1> HIDE DEF c
<1>4. c = Len(s)
  <2>1. c < Len(s) => s[c] < s[Len(s)]
    BY <1>1, <1>2 DEF Increasing
  <2>2. s[c] \in Nat /\ Len(s) \in Nat
    BY <1>2
  <2> QED
    BY <1>2, <2>1, <2>2
<1>5. Len(s) \in Nat /\ \A i \in 1..Len(s) - 1 : i < Len(s)
  OBVIOUS
<1> QED
  BY <1>2, <1>3, <1>4, <1>5, RemoveAtIs

-----------------------------------------------------------------------------
(* One span.                                                               *)

\* What u and t have in common when scopes, spans and garbage may differ.
Alike(u, t) ==
  /\ Len(u.spans) = Len(t.spans)
  /\ u.last = t.last /\ u.trace = t.trace /\ u.now = t.now /\ u.shutdown = t.shutdown
  /\ u.reduction = t.reduction /\ u.minDuration = t.minDuration

SameRun(u, t) ==
  /\ u.trace = t.trace /\ u.now = t.now /\ u.shutdown = t.shutdown
  /\ u.reduction = t.reduction /\ u.minDuration = t.minDuration

\* Every span of u is that of t, but for id.
Untouched(u, t, id) == \A s \in 1..Len(t.spans) : s # id => u.spans[s] = t.spans[s]

LEMMA SpanReplaced ==
  ASSUME NEW F, NEW spans \in Seq(Span(F)), NEW id \in 1..Len(spans), NEW x \in Span(F)
  PROVE  /\ [spans EXCEPT ![id] = x] \in Seq(Span(F))
         /\ Len([spans EXCEPT ![id] = x]) = Len(spans)
         /\ [spans EXCEPT ![id] = x][id] = x
         /\ \A s \in 1..Len(spans) : s # id => [spans EXCEPT ![id] = x][s] = spans[s]
OBVIOUS

\* A state whose spans alone changed, each of them younger than its parent.
LEMMA SpansChanged ==
  ASSUME NEW F, NEW t, Shaped(t, F), NEW spans \in Seq(Span(F)), Len(spans) = Len(t.spans),
         \A s \in 1..Len(spans) : spans[s].parent < s
  PROVE  LET u == [t EXCEPT !.spans = spans] IN
         Shaped(u, F) /\ Alike(u, t) /\ u.spans = spans /\ u.scopes = t.scopes
                      /\ u.garbage = t.garbage
<1> DEFINE u == [t EXCEPT !.spans = spans]
<1>1. /\ u \in Tracing(F) /\ u.spans = spans /\ u.scopes = t.scopes /\ u.last = t.last
      /\ u.garbage = t.garbage /\ u.trace = t.trace /\ u.now = t.now /\ u.shutdown = t.shutdown
      /\ u.reduction = t.reduction /\ u.minDuration = t.minDuration
  BY DEF Shaped, Tracing
<1> HIDE DEF u
<1>2. Shaped(u, F) /\ Alike(u, t)
  BY <1>1 DEF Shaped, Alike
<1> QED
  BY <1>1, <1>2 DEF u

LEMMA DetachIs ==
  ASSUME NEW F, NEW t, Shaped(t, F), NEW id \in Nat
  PROVE  LET u == Detach(t, id) IN
         /\ Shaped(u, F) /\ Alike(u, t) /\ u.spans = t.spans
         /\ u.scopes = Without(t.scopes, id)
<1> DEFINE u == Detach(t, id)
           w == Without(t.scopes, id)
<1>1. /\ w \in Seq(Nat) /\ Increasing(w)
      /\ \A i \in 1..Len(w) : \E j \in 1..Len(t.scopes) : w[i] = t.scopes[j]
  <2>1. t.scopes \in Seq(Nat) /\ Increasing(t.scopes)
    BY DEF Shaped, Tracing
  <2>2. PICK s \in Seq(Nat) : s = t.scopes /\ Increasing(s)
    BY <2>1
  <2>3. /\ Without(s, id) \in Seq(Nat) /\ Increasing(Without(s, id))
        /\ \A i \in 1..Len(Without(s, id)) : \E j \in 1..Len(s) : Without(s, id)[i] = s[j]
    BY <2>2, WithoutKeeps, SMTT(30)
  <2> QED
    BY <2>2, <2>3
<1> HIDE DEF w
<1>2. /\ u \in Tracing(F) /\ u.spans = t.spans /\ u.scopes = w /\ u.last = t.last
      /\ u.trace = t.trace /\ u.now = t.now /\ u.shutdown = t.shutdown
      /\ u.reduction = t.reduction /\ u.minDuration = t.minDuration
  BY <1>1 DEF Shaped, Tracing, Detach, w
<1> HIDE DEF u
<1>3. \A i \in 1..Len(u.scopes) : u.scopes[i] \in 1..Len(u.spans)
  BY <1>1, <1>2 DEF Shaped
<1>4. Shaped(u, F) /\ Alike(u, t)
  BY <1>1, <1>2, <1>3 DEF Shaped, Alike
<1> QED
  BY <1>2, <1>4 DEF u, w

\* The time at which a span ends that is told to end at until.
EndTime(t, until) == IF until = NoTime THEN t.now ELSE until

\* What an open span becomes when it ends.
EndedSpan(t, x, until) == [x EXCEPT !.state = "ended", !.until = EndTime(t, until)]

LEMMA EndSpanIs ==
  ASSUME NEW F, NEW t, Shaped(t, F), NEW id \in 1..Len(t.spans), NEW until \in Int
  PROVE  LET u == EndSpan(t, id, until) IN
         /\ Shaped(u, F) /\ Alike(u, t) /\ u.scopes = t.scopes /\ u.garbage = t.garbage
         /\ Untouched(u, t, id)
         /\ u.spans[id] = IF t.spans[id].state = "open"
                          THEN EndedSpan(t, t.spans[id], until) ELSE t.spans[id]
<1> DEFINE u == EndSpan(t, id, until)
<1>1. CASE t.spans[id].state # "open"
  BY <1>1 DEF EndSpan, Alike, Untouched
<1>2. CASE t.spans[id].state = "open"
  <2> DEFINE x == EndedSpan(t, t.spans[id], until)
             spans == [t.spans EXCEPT ![id] = x]
  <2>1. t.spans \in Seq(Span(F)) /\ t.spans[id] \in Span(F) /\ EndTime(t, until) \in Int
    BY ShapedTypes DEF EndTime
  <2>2. x \in Span(F) /\ x.parent = t.spans[id].parent
    BY <2>1 DEF Span, EndedSpan
  <2> HIDE DEF x
  <2>3. /\ spans \in Seq(Span(F)) /\ Len(spans) = Len(t.spans) /\ spans[id] = x
        /\ \A s \in 1..Len(t.spans) : s # id => spans[s] = t.spans[s]
    BY <2>1, <2>2, SpanReplaced
  <2>4. u = [t EXCEPT !.spans = spans]
    BY <1>2, <2>1, ZenonT(60) DEF EndSpan, x, EndedSpan, EndTime, Shaped, Tracing, Span
  <2> HIDE DEF spans, u
  <2>5. \A s \in 1..Len(spans) : spans[s].parent < s
    BY <2>2, <2>3 DEF Shaped
  <2>6. /\ Shaped(u, F) /\ Alike(u, t) /\ u.spans = spans /\ u.scopes = t.scopes
        /\ u.garbage = t.garbage
    BY <2>3, <2>4, <2>5, SpansChanged
  <2> QED
    BY <1>2, <2>3, <2>6 DEF u, x, Untouched
<1> QED
  BY <1>1, <1>2


\* What the newest scope and its span become in EndTop.
LEMMA EndTopIs ==
  ASSUME NEW F, NEW t, Shaped(t, F), t.scopes # << >>
  PROVE  LET u == EndTop(t)
             id == Current(t) IN
         /\ id \in 1..Len(t.spans) /\ id = t.scopes[Len(t.scopes)]
         /\ Shaped(u, F) /\ Alike(u, t)
         /\ Len(u.scopes) = Len(t.scopes) - 1
         /\ \A i \in 1..Len(t.scopes) - 1 : u.scopes[i] = t.scopes[i]
         /\ Untouched(u, t, id)
         /\ u.spans[id] = IF t.spans[id].state = "open"
                          THEN EndedSpan(t, t.spans[id], NoTime) ELSE t.spans[id]
<1> DEFINE id == Current(t)
           d == Detach(t, id)
<1>1. t.scopes \in Seq(Nat) /\ Increasing(t.scopes) /\ Len(t.scopes) \in 1..Len(t.scopes)
  BY ShapedTypes DEF Shaped
<1>2. id = t.scopes[Len(t.scopes)] /\ id \in 1..Len(t.spans) /\ id \in Nat
  BY <1>1 DEF Current, Last, Shaped
<1>3. /\ Shaped(d, F) /\ Alike(d, t) /\ d.spans = t.spans /\ d.scopes = Without(t.scopes, id)
  BY <1>2, DetachIs
<1>4. /\ Len(d.scopes) = Len(t.scopes) - 1
      /\ \A i \in 1..Len(t.scopes) - 1 : d.scopes[i] = t.scopes[i]
  BY <1>1, <1>2, <1>3, WithoutLast, SMTT(30)
<1> HIDE DEF d, id
<1> DEFINE u == EndSpan(d, id, NoTime)
<1>5. NoTime \in Int /\ id \in 1..Len(d.spans) /\ d.now = t.now
  BY <1>2, <1>3 DEF NoTime, Alike
<1>6. /\ Shaped(u, F) /\ Alike(u, d) /\ u.scopes = d.scopes
      /\ Untouched(u, d, id)
      /\ u.spans[id] = IF d.spans[id].state = "open"
                       THEN EndedSpan(d, d.spans[id], NoTime) ELSE d.spans[id]
  BY <1>3, <1>5, EndSpanIs
<1>7. u = EndTop(t)
  BY DEF EndTop, d, id
<1> HIDE DEF u
<1>8. EndedSpan(d, t.spans[id], NoTime) = EndedSpan(t, t.spans[id], NoTime)
  BY <1>5 DEF EndedSpan, EndTime
<1> QED
  BY <1>2, <1>3, <1>4, <1>6, <1>7, <1>8 DEF Alike, Untouched, id

\* A span that starts goes on top.
Started(u, t, kind, fn, parent, from, F) ==
  LET n == Len(t.spans) + 1 IN
  /\ Shaped(u, F)
  /\ Len(u.spans) = n /\ Untouched(u, t, n)
  /\ u.spans[n] = [kind |-> kind, fn |-> fn, parent |-> parent, from |-> from,
                   until |-> NoTime, state |-> "open"]
  /\ Len(u.scopes) = Len(t.scopes) + 1 /\ u.scopes[Len(t.scopes) + 1] = n
  /\ \A i \in 1..Len(t.scopes) : u.scopes[i] = t.scopes[i]
  /\ u.last = t.last /\ SameRun(u, t)

LEMMA StartSpanIs ==
  ASSUME NEW F, NEW t, Shaped(t, F), NEW kind \in {"root", "hook", "inferred"}, NEW fn \in F,
         NEW parent \in 0..Len(t.spans), NEW from \in Int
  PROVE  Started(StartSpan(t, kind, fn, parent, from), t, kind, fn, parent, from, F)
<1> DEFINE u == StartSpan(t, kind, fn, parent, from)
           n == Len(t.spans) + 1
           x == [kind |-> kind, fn |-> fn, parent |-> parent, from |-> from,
                 until |-> NoTime, state |-> "open"]
           spans == Append(t.spans, x)
           scopes == Append(t.scopes, n)
<1>1. /\ t.scopes \in Seq(Nat) /\ Len(t.scopes) \in Nat /\ t.spans \in Seq(Span(F))
      /\ Len(t.spans) \in Nat
  BY ShapedTypes
<1>2. x \in Span(F) /\ x.parent < n
  BY <1>1 DEF Span, NoTime
<1> HIDE DEF x
<1>3. /\ spans \in Seq(Span(F)) /\ Len(spans) = n /\ spans[n] = x
      /\ \A s \in 1..Len(t.spans) : spans[s] = t.spans[s]
  BY <1>1, <1>2
<1>4. /\ scopes \in Seq(Nat) /\ Len(scopes) = Len(t.scopes) + 1
      /\ scopes[Len(t.scopes) + 1] = n
      /\ \A i \in 1..Len(t.scopes) : scopes[i] = t.scopes[i]
  BY <1>1
<1>5. /\ u \in Tracing(F) /\ u.spans = spans /\ u.scopes = scopes /\ u.last = t.last
      /\ u.trace = t.trace /\ u.now = t.now /\ u.shutdown = t.shutdown
      /\ u.reduction = t.reduction /\ u.minDuration = t.minDuration
  BY <1>3, <1>4 DEF Shaped, Tracing, StartSpan, x
<1> HIDE DEF u, spans, scopes
<1>6. \A i \in 1..Len(scopes) : scopes[i] \in 1..n
  <2> SUFFICES ASSUME NEW i \in 1..Len(scopes) PROVE scopes[i] \in 1..n
    OBVIOUS
  <2>1. CASE i = Len(t.scopes) + 1
    BY <1>1, <1>4, <2>1
  <2>2. CASE i # Len(t.scopes) + 1
    <3>1. i \in 1..Len(t.scopes) /\ scopes[i] = t.scopes[i]
      BY <1>1, <1>4, <2>2, SMTT(30)
    <3>2. t.scopes[i] \in 1..Len(t.spans)
      BY <3>1 DEF Shaped
    <3> QED
      BY <1>1, <3>1, <3>2
  <2> QED
    BY <2>1, <2>2
<1>7. Increasing(scopes)
  <2> SUFFICES ASSUME NEW i \in 1..Len(scopes), NEW j \in 1..Len(scopes), i < j
               PROVE  scopes[i] < scopes[j]
    BY DEF Increasing
  <2>1. i \in 1..Len(t.scopes) /\ scopes[i] = t.scopes[i]
    BY <1>1, <1>4, SMTT(30)
  <2>2. CASE j = Len(t.scopes) + 1
    BY <1>1, <1>4, <2>1, <2>2, SMTT(30) DEF Shaped
  <2>3. CASE j # Len(t.scopes) + 1
    <3>1. j \in 1..Len(t.scopes) /\ scopes[j] = t.scopes[j]
      BY <1>1, <1>4, <2>3, SMTT(30)
    <3> QED
      BY <2>1, <3>1 DEF Shaped, Increasing
  <2> QED
    BY <2>2, <2>3
<1>8. \A s \in 1..n : spans[s].parent < s
  <2> SUFFICES ASSUME NEW s \in 1..n PROVE spans[s].parent < s
    OBVIOUS
  <2>1. CASE s = n
    BY <1>2, <1>3, <2>1
  <2>2. CASE s # n
    <3>1. s \in 1..Len(t.spans) /\ spans[s] = t.spans[s]
      BY <1>1, <1>3, <2>2
    <3> QED
      BY <3>1 DEF Shaped
  <2> QED
    BY <2>1, <2>2
<1>9. Shaped(u, F)
  <2>1. \A i \in 1..Len(u.last) : u.last[i].span \in 1..Len(u.spans)
    BY <1>1, <1>3, <1>5 DEF Shaped
  <2> QED
    BY <1>3, <1>4, <1>5, <1>6, <1>7, <1>8, <2>1 DEF Shaped
<1>10. Untouched(u, t, n)
  BY <1>3, <1>5 DEF Untouched
<1> QED
  BY <1>3, <1>4, <1>5, <1>9, <1>10 DEF u, x, Started, SameRun


-----------------------------------------------------------------------------
(* One frame that ends.                                                    *)

\* What a span becomes when its frame ends.
LeftSpan(t, id, drop, until) ==
  IF drop \/ TooShort(t, id, until)
  THEN [t.spans[id] EXCEPT !.state = "dropped"]
  ELSE EndedSpan(t, t.spans[id], until)

\* A frame whose span is open and has the newest scope takes both along.
TakenAlong(u, t, id, drop, until, F) ==
  /\ Shaped(u, F) /\ Alike(u, t)
  /\ Len(u.scopes) = Len(t.scopes) - 1
  /\ \A i \in 1..Len(t.scopes) - 1 : u.scopes[i] = t.scopes[i]
  /\ Untouched(u, t, id)
  /\ u.spans[id] = LeftSpan(t, id, drop, until)

LEMMA EndFrameSpanIs ==
  ASSUME NEW F, NEW t, Shaped(t, F), NEW frame, NEW drop \in BOOLEAN, NEW until \in Int,
         t.scopes # << >>, frame.span = t.scopes[Len(t.scopes)],
         t.spans[frame.span].state = "open"
  PROVE  TakenAlong(EndFrameSpan(t, frame, drop, until), t, frame.span, drop, until, F)
<1> DEFINE id == frame.span
           d == Detach(t, id)
           u == EndFrameSpan(t, frame, drop, until)
<1>1. t.scopes \in Seq(Nat) /\ Increasing(t.scopes) /\ Len(t.scopes) \in 1..Len(t.scopes)
  BY ShapedTypes DEF Shaped
<1>2. id = t.scopes[Len(t.scopes)] /\ id \in 1..Len(t.spans) /\ id \in Nat
  BY <1>1 DEF Shaped
<1>3. Alive(t, id) /\ Current(t) = id
  BY <1>1, <1>2 DEF Alive, ToSet, Current, Last
<1>4. /\ Shaped(d, F) /\ Alike(d, t) /\ d.spans = t.spans /\ d.scopes = Without(t.scopes, id)
  BY <1>2, DetachIs
<1>5. /\ Len(d.scopes) = Len(t.scopes) - 1
      /\ \A i \in 1..Len(t.scopes) - 1 : d.scopes[i] = t.scopes[i]
  BY <1>1, <1>2, <1>4, WithoutLast, SMTT(30)
<1>6. t.spans[id] \in Span(F) /\ t.spans \in Seq(Span(F)) /\ t.spans[id].parent < id
  BY <1>2, ShapedTypes DEF Shaped
<1>7. CASE drop \/ TooShort(t, id, until)
  <2> DEFINE x == [t.spans[id] EXCEPT !.state = "dropped"]
             spans == [t.spans EXCEPT ![id] = x]
  <2>1. x \in Span(F) /\ x.parent = t.spans[id].parent
    BY <1>6 DEF Span
  <2> HIDE DEF x
  <2>2. /\ spans \in Seq(Span(F)) /\ Len(spans) = Len(t.spans) /\ spans[id] = x
        /\ \A s \in 1..Len(t.spans) : s # id => spans[s] = t.spans[s]
    BY <1>2, <1>6, <2>1, SpanReplaced
  <2>3. u = [d EXCEPT !.spans = spans]
    <3>1. u = [d EXCEPT !.spans[id].state = IF @ = "open" THEN "dropped" ELSE @]
      BY <1>3, <1>7 DEF EndFrameSpan
    <3>2. d.spans[id].state = "open"
      BY <1>4
    <3> HIDE DEF d, u
    <3>3. d \in Tracing(F) /\ d.spans[id] \in Span(F)
      BY <1>4, <1>6 DEF Shaped
    <3> QED
      BY <3>1, <3>2, <3>3, <1>4 DEF x, Tracing, Span
  <2> HIDE DEF spans, u, d
  <2>4. \A s \in 1..Len(spans) : spans[s].parent < s
    BY <1>6, <2>1, <2>2 DEF Shaped
  <2>5. Shaped(u, F) /\ Alike(u, d) /\ u.spans = spans /\ u.scopes = d.scopes
    BY <1>4, <2>2, <2>3, <2>4, SpansChanged
  <2> QED
    BY <1>4, <1>5, <1>7, <2>2, <2>5 DEF u, x, Untouched, Alike, LeftSpan, TakenAlong
<1>8. CASE ~(drop \/ TooShort(t, id, until))
  <2>1. u = EndSpan(d, id, until)
    BY <1>3, <1>8 DEF EndFrameSpan
  <2> HIDE DEF d, u
  <2>2. id \in 1..Len(d.spans) /\ d.now = t.now
    BY <1>2, <1>4 DEF Alike
  <2>3. /\ Shaped(u, F) /\ Alike(u, d) /\ u.scopes = d.scopes
        /\ Untouched(u, d, id)
        /\ u.spans[id] = EndedSpan(d, d.spans[id], until)
    BY <1>4, <2>1, <2>2, EndSpanIs
  <2>4. EndedSpan(d, d.spans[id], until) = EndedSpan(t, t.spans[id], until)
    BY <1>4, <2>2 DEF EndedSpan, EndTime
  <2> QED
    BY <1>4, <1>5, <1>8, <2>3, <2>4 DEF u, Untouched, Alike, LeftSpan, TakenAlong
<1> QED
  BY <1>7, <1>8

\* Whatever scopes there are, the shape is kept.
LEMMA EndFrameSpanKeeps ==
  ASSUME NEW F, NEW t, Shaped(t, F), NEW frame, frame.span \in 1..Len(t.spans),
         NEW drop \in BOOLEAN, NEW until \in Int
  PROVE  LET u == EndFrameSpan(t, frame, drop, until) IN Shaped(u, F) /\ Alike(u, t)
<1> DEFINE id == frame.span
           u == EndFrameSpan(t, frame, drop, until)
<1>1. CASE u = t
  BY <1>1 DEF Alike
<1>2. CASE u = EndSpan(Detach(t, Current(t)), id, until) /\ t.scopes # << >>
  <2> DEFINE d == Detach(t, Current(t))
  <2>1. Current(t) \in Nat
    BY <1>2, ShapedTypes DEF Current, Last
  <2>2. Shaped(d, F) /\ Alike(d, t)
    BY <2>1, DetachIs
  <2> HIDE DEF d
  <2>3. id \in 1..Len(d.spans)
    BY <2>2 DEF Alike
  <2>4. Shaped(EndSpan(d, id, until), F) /\ Alike(EndSpan(d, id, until), d)
    BY <2>2, <2>3, EndSpanIs
  <2> QED
    BY <1>2, <2>2, <2>4 DEF Alike, d
<1>3. CASE u = [Detach(t, id) EXCEPT !.spans[id].state = IF @ = "open" THEN "dropped" ELSE @]
  <2> DEFINE d == Detach(t, id)
             x == [t.spans[id] EXCEPT !.state = IF @ = "open" THEN "dropped" ELSE @]
             spans == [t.spans EXCEPT ![id] = x]
  <2>1. id \in Nat
    OBVIOUS
  <2>2. Shaped(d, F) /\ Alike(d, t) /\ d.spans = t.spans
    BY <2>1, DetachIs
  <2>3. t.spans[id] \in Span(F) /\ t.spans \in Seq(Span(F)) /\ t.spans[id].parent < id
    BY ShapedTypes DEF Shaped
  <2>4. x \in Span(F) /\ x.parent = t.spans[id].parent
    BY <2>3 DEF Span
  <2> HIDE DEF x, d
  <2>5. /\ spans \in Seq(Span(F)) /\ Len(spans) = Len(t.spans) /\ spans[id] = x
        /\ \A s \in 1..Len(t.spans) : s # id => spans[s] = t.spans[s]
    BY <2>3, <2>4, SpanReplaced
  <2>6. u = [d EXCEPT !.spans = spans]
    <3>1. u = [d EXCEPT !.spans[id].state = IF @ = "open" THEN "dropped" ELSE @]
      BY <1>3 DEF d
    <3>2. d \in Tracing(F) /\ d.spans[id] \in Span(F)
      BY <2>2, <2>3 DEF Shaped
    <3> HIDE DEF u
    <3> QED
      BY <3>1, <3>2, <2>2 DEF x, Tracing, Span
  <2> HIDE DEF spans, u
  <2>7. \A s \in 1..Len(spans) : spans[s].parent < s
    BY <2>3, <2>4, <2>5 DEF Shaped
  <2>8. Shaped(u, F) /\ Alike(u, d)
    BY <2>2, <2>5, <2>6, <2>7, SpansChanged
  <2> QED
    BY <2>2, <2>8 DEF u, Alike
<1> QED
  BY <1>1, <1>2, <1>3 DEF EndFrameSpan


-----------------------------------------------------------------------------
(* The frames that are gone.                                               *)

\* A frame that is kept gets the parent of frame m, the last of those of its
\* stack trace that end with it; any other frame keeps its own.
Reparented(u, t, i, old) ==
  \E m \in i..old :
    /\ u.spans[t.last[i].span]
         = [t.spans[t.last[i].span] EXCEPT !.parent = t.spans[t.last[m].span].parent]
    /\ t.reduction /\ ~Reduces(t, i) /\ (\A j \in i..old : Alive(t, t.last[j].span)) =>
         m = old \/ t.last[m + 1].trace # t.last[m].trace

LEMMA ChangeParentIs ==
  ASSUME NEW F, NEW t, Shaped(t, F), NEW old \in 0..Len(t.last), NEW i \in 1..old
  PROVE  LET u == ChangeParent(t, i, old)
             id == t.last[i].span IN
         /\ Shaped(u, F) /\ Alike(u, t) /\ u.scopes = t.scopes /\ Untouched(u, t, id)
         /\ Reparented(u, t, i, old)
<1> DEFINE u == ChangeParent(t, i, old)
           id == t.last[i].span
           below == SameInterval(t, i, old)
           all == \A j \in i..old : Alive(t, t.last[j].span)
           apart(m) == m = old \/ t.last[m + 1].trace # t.last[m].trace
<1>1. /\ Len(t.last) \in Nat /\ i \in 1..Len(t.last) /\ old \in Nat
      /\ id \in 1..Len(t.spans) /\ t.spans \in Seq(Span(F)) /\ t.spans[id] \in Span(F)
  <2>1. Len(t.last) \in Nat
    BY ShapedTypes
  <2>2. i \in 1..Len(t.last) /\ old \in Nat
    BY <2>1
  <2>3. id \in 1..Len(t.spans)
    BY <2>2 DEF Shaped
  <2>4. t.spans \in Seq(Span(F)) /\ t.spans[id] \in Span(F)
    BY <2>3, ShapedTypes
  <2> QED
    BY <2>1, <2>2, <2>3, <2>4
<1>2. below \subseteq i + 1..old
  BY DEF SameInterval
<1>3. ASSUME t.reduction, ~Reduces(t, i), below # {}, Alive(t, id)
      PROVE  /\ Shaped(u, F) /\ Alike(u, t) /\ u.scopes = t.scopes /\ Untouched(u, t, id)
             /\ \E m \in i..old :
                  /\ u.spans[id] = [t.spans[id] EXCEPT !.parent = t.spans[t.last[m].span].parent]
                  /\ all => apart(m)
  <2> DEFINE m == Lowest(below)
             p == t.spans[t.last[m].span].parent
             x == [t.spans[id] EXCEPT !.parent = p]
             spans == [t.spans EXCEPT ![id] = x]
  <2>1. PICK n \in below : \A k \in below : k <= n
    <3>1. below \in SUBSET (0..old)
      BY <1>1, <1>2
    <3> HIDE DEF below
    <3> QED
      BY <1>1, <1>3, <3>1, LargestOf
  <2>2. m \in below /\ \A k \in below : k <= m
    <3> HIDE DEF below
    <3> QED
      BY <2>1, Zenon DEF Lowest
  <2> HIDE DEF m
  <2>3. m \in i..old /\ m \in 1..Len(t.last) /\ i < m /\ m \in Nat /\ i \in Nat
    BY <1>1, <1>2, <2>2
  <2>4. t.last[m].span \in 1..Len(t.spans) /\ p < t.last[m].span /\ t.last[m].span < id
    BY <1>1, <2>3 DEF Shaped
  <2>5. p \in Nat /\ p < id
    <3>1. p \in Nat
      BY <2>4, ShapedTypes
    <3> QED
      BY <1>1, <2>4, <3>1, SMTT(30)
  <2> HIDE DEF p
  <2>6. x \in Span(F) /\ x.parent = p
    BY <1>1, <2>5 DEF Span
  <2> HIDE DEF x
  <2>7. /\ spans \in Seq(Span(F)) /\ Len(spans) = Len(t.spans) /\ spans[id] = x
        /\ \A s \in 1..Len(t.spans) : s # id => spans[s] = t.spans[s]
    BY <1>1, <2>6, SpanReplaced
  <2>8. u = [t EXCEPT !.spans = spans]
    <3>1. u = [t EXCEPT !.spans[id].parent = p]
      BY <1>3 DEF ChangeParent, p, m
    <3>2. t \in Tracing(F)
      BY DEF Shaped
    <3> HIDE DEF u
    <3> QED
      BY <3>1, <3>2, <1>1 DEF x, Tracing, Span
  <2> HIDE DEF u, spans
  <2>9. \A s \in 1..Len(spans) : spans[s].parent < s
    BY <2>5, <2>6, <2>7 DEF Shaped
  <2>10. Shaped(u, F) /\ Alike(u, t) /\ u.spans = spans /\ u.scopes = t.scopes
    BY <2>7, <2>8, <2>9, SpansChanged
  <2>11. all => apart(m)
    <3> SUFFICES ASSUME all, m < old, t.last[m + 1].trace = t.last[m].trace PROVE FALSE
      BY <2>3
    <3>1. m + 1 \in i + 1..old
      BY <2>3
    <3>2. \A k \in i + 1..m : t.last[k].trace = t.last[i].trace /\ Alive(t, t.last[k].span)
      BY <2>2 DEF SameInterval
    <3>3. t.last[m].trace = t.last[i].trace
      BY <2>3, <3>2
    <3>4. ASSUME NEW k \in i + 1..m + 1
          PROVE  t.last[k].trace = t.last[i].trace /\ Alive(t, t.last[k].span)
      <4>1. CASE k = m + 1
        BY <2>3, <3>3, <4>1
      <4>2. CASE k # m + 1
        <5>1. k \in i + 1..m
          BY <2>3, <4>2
        <5> QED
          BY <3>2, <5>1
      <4> QED
        BY <4>1, <4>2
    <3>5. m + 1 \in below
      BY <3>1, <3>4 DEF SameInterval
    <3> HIDE DEF below
    <3> QED
      BY <2>2, <2>3, <3>5
  <2> QED
    BY <2>3, <2>7, <2>10, <2>11 DEF Untouched, x, p
<1>4. ASSUME ~(t.reduction /\ ~Reduces(t, i) /\ below # {} /\ Alive(t, id))
      PROVE  /\ Shaped(u, F) /\ Alike(u, t) /\ u.scopes = t.scopes /\ Untouched(u, t, id)
             /\ \E m \in i..old :
                  /\ u.spans[id] = [t.spans[id] EXCEPT !.parent = t.spans[t.last[m].span].parent]
                  /\ t.reduction /\ ~Reduces(t, i) /\ all => apart(m)
  <2>1. u = t
    BY <1>4 DEF ChangeParent
  <2>2. t.spans[id] = [t.spans[id] EXCEPT !.parent = t.spans[id].parent]
    BY <1>1 DEF Span
  <2>3. ASSUME t.reduction, ~Reduces(t, i), all PROVE apart(i)
    <3> SUFFICES ASSUME i < old, t.last[i + 1].trace = t.last[i].trace PROVE FALSE
      BY <1>1
    <3>1. i + 1 \in i + 1..old /\ i \in i..old /\ i + 1 \in i..old
      BY <1>1
    <3>2. below = {} /\ Alive(t, t.last[i + 1].span)
      BY <1>4, <2>3, <3>1
    <3>3. \A k \in i + 1..i + 1 : k = i + 1
      BY <1>1
    <3>4. i + 1 \in below
      BY <3>1, <3>2, <3>3 DEF SameInterval
    <3> QED
      BY <3>2, <3>4
  <2>4. i \in i..old
    BY <1>1
  <2> QED
    BY <2>1, <2>2, <2>3, <2>4 DEF Alike, Untouched
<1> QED
  BY <1>3, <1>4 DEF Reparented


\* The scopes of t are that of the root, if r is 1, those of the frames, the
\* newest on top, and those of h hooks.
Lined(t, r, h) ==
  /\ Len(t.scopes) = r + Len(t.last) + h
  /\ r = 1 => t.spans[t.scopes[1]].kind = "root"
  /\ \A i \in 1..Len(t.last) : /\ t.scopes[r + Len(t.last) + 1 - i] = t.last[i].span
                               /\ t.spans[t.last[i].span].kind = "inferred"
  /\ \A k \in r + Len(t.last) + 1..Len(t.scopes) : t.spans[t.scopes[k]].kind = "hook"

\* The open spans are those whose scopes are attached.
Attached(t) ==
  /\ \A k \in 1..Len(t.scopes) : t.spans[t.scopes[k]].state = "open"
  /\ \A s \in 1..Len(t.spans) : t.spans[s].state = "open" =>
        t.spans[s].until = NoTime /\ \E k \in 1..Len(t.scopes) : t.scopes[k] = s

Short(t, id, until) ==
  t.minDuration > 0 /\ EndTime(t, until) - t.spans[id].from < t.minDuration

\* The span of frame i of t is over in u.
Over(u, t, i, old, until) ==
  \E m \in i..old :
    LET id == t.last[i].span
        x == [t.spans[id] EXCEPT !.parent = t.spans[t.last[m].span].parent] IN
    /\ t.reduction /\ ~Reduces(t, i) => m = old \/ t.last[m + 1].trace # t.last[m].trace
    /\ u.spans[id] = IF Reduces(t, i) \/ Short(t, id, until)
                     THEN [x EXCEPT !.state = "dropped"] ELSE EndedSpan(t, x, until)

\* The first k frames of t have ended in u, and nothing else has changed.
Ends(u, t, k, old, until, F) ==
  /\ Shaped(u, F) /\ Alike(u, t)
  /\ Len(u.scopes) = Len(t.scopes) - k
  /\ \A j \in 1..Len(t.scopes) - k : u.scopes[j] = t.scopes[j]
  /\ \A s \in 1..Len(t.spans) : (\A i \in 1..k : s # t.last[i].span) => u.spans[s] = t.spans[s]
  /\ \A i \in 1..k : Over(u, t, i, old, until)

LEMMA NextFrameEnds ==
  ASSUME NEW F, NEW t, Shaped(t, F), NEW r \in 0..1, Lined(t, r, 0), Attached(t),
         NEW old \in 0..Len(t.last), NEW until \in Int, NEW k \in 1..old,
         NEW u, Ends(u, t, k - 1, old, until, F)
  PROVE  Ends(EndFrameSpan(ChangeParent(u, k, old), t.last[k], Reduces(t, k), until),
              t, k, old, until, F)
<1> DEFINE id == t.last[k].span
           L == Len(t.last)
           c == ChangeParent(u, k, old)
           v == EndFrameSpan(c, t.last[k], Reduces(t, k), until)
<1>1. /\ L \in Nat /\ old \in Nat /\ k \in Nat /\ k \in 1..L /\ old <= L /\ r \in Nat
      /\ Len(t.scopes) = r + L /\ Len(u.scopes) = r + L - (k - 1)
      /\ Shaped(u, F) /\ Alike(u, t) /\ u.last = t.last /\ Len(u.spans) = Len(t.spans)
  <2>1. L \in Nat
    BY ShapedTypes
  <2> QED
    BY <2>1 DEF Ends, Lined, Alike
<1>2. \A i \in 1..L : t.last[i].span \in 1..Len(t.spans)
  BY DEF Shaped
<1>3. \A i, j \in 1..L : i # j => t.last[i].span # t.last[j].span
  <2> SUFFICES ASSUME NEW i \in 1..L, NEW j \in 1..L, i # j
               PROVE  t.last[i].span # t.last[j].span
    OBVIOUS
  <2>1. i < j => t.last[j].span < t.last[i].span
    BY DEF Shaped
  <2>2. j < i => t.last[i].span < t.last[j].span
    BY DEF Shaped
  <2>3. t.last[i].span \in Nat /\ t.last[j].span \in Nat
    BY ShapedTypes
  <2> QED
    BY <2>1, <2>2, <2>3, <1>1
<1>4. ASSUME NEW j \in k..old
      PROVE  Alive(u, u.last[j].span) /\ u.spans[t.last[j].span] = t.spans[t.last[j].span]
  <2>1. j \in 1..L /\ r + L + 1 - j \in 1..r + L - (k - 1)
    BY <1>1
  <2>2. u.scopes[r + L + 1 - j] = t.last[j].span
    <3>1. u.scopes[r + L + 1 - j] = t.scopes[r + L + 1 - j]
      BY <1>1, <2>1 DEF Ends
    <3> QED
      BY <2>1, <3>1 DEF Lined
  <2>3. DOMAIN u.scopes = 1..Len(u.scopes)
    <3>1. u.scopes \in Seq(Nat)
      BY <1>1, ShapedTypes
    <3> QED
      BY <3>1
  <2>4. t.last[j].span \in ToSet(u.scopes)
    BY <1>1, <2>1, <2>2, <2>3 DEF ToSet
  <2>5. \A i \in 1..k - 1 : t.last[j].span # t.last[i].span
    <3> SUFFICES ASSUME NEW i \in 1..k - 1 PROVE t.last[j].span # t.last[i].span
      OBVIOUS
    <3>1. i \in 1..L /\ i # j
      BY <1>1
    <3> QED
      BY <1>3, <2>1, <3>1
  <2> QED
    BY <1>1, <1>2, <2>1, <2>4, <2>5 DEF Ends, Alive
<1>5. /\ Shaped(c, F) /\ Alike(c, u) /\ c.scopes = u.scopes /\ Untouched(c, u, id)
      /\ Reparented(c, u, k, old)
  <2>1. old \in 0..Len(u.last) /\ u.last[k].span = id
    BY <1>1
  <2>2. Shaped(u, F) /\ old \in 0..Len(u.last) /\ k \in 1..old
    BY <1>1, <2>1
  <2>3. /\ Shaped(c, F) /\ Alike(c, u) /\ c.scopes = u.scopes
        /\ Untouched(c, u, u.last[k].span)
    BY <2>2, ChangeParentIs
  <2>4. Reparented(c, u, k, old)
    BY <2>2, ChangeParentIs
  <2> HIDE DEF c, id
  <2> QED
    BY <2>1, <2>3, <2>4
<1>6. PICK m \in k..old :
        /\ c.spans[id] = [t.spans[id] EXCEPT !.parent = t.spans[t.last[m].span].parent]
        /\ t.reduction /\ ~Reduces(t, k) => m = old \/ t.last[m + 1].trace # t.last[m].trace
  <2>1. u.reduction = t.reduction /\ Reduces(u, k) = Reduces(t, k)
    BY <1>1 DEF Alike, Reduces
  <2>2. k \in k..old
    BY <1>1
  <2> HIDE DEF c
  <2>3. PICK m \in k..old :
          /\ c.spans[id] = [u.spans[id] EXCEPT !.parent = u.spans[u.last[m].span].parent]
          /\ u.reduction /\ ~Reduces(u, k) => m = old \/ u.last[m + 1].trace # u.last[m].trace
    BY <1>1, <1>4, <1>5 DEF Reparented
  <2>4. u.spans[id] = t.spans[id] /\ u.spans[u.last[m].span] = t.spans[t.last[m].span]
    BY <1>1, <1>4, <2>2
  <2> QED
    BY <1>1, <2>1, <2>3, <2>4
<1> DEFINE x == [t.spans[id] EXCEPT !.parent = t.spans[t.last[m].span].parent]
<1>7. /\ t.spans[id] \in Span(F) /\ t.spans[id].state = "open" /\ t.spans[id].until = NoTime
      /\ id \in 1..Len(t.spans)
  <2>1. r + L + 1 - k \in 1..Len(t.scopes) /\ t.scopes[r + L + 1 - k] = id
    BY <1>1 DEF Lined
  <2>2. id \in 1..Len(t.spans)
    BY <1>1 DEF Shaped
  <2> QED
    BY <2>1, <2>2, ShapedTypes DEF Attached
<1>8. x.state = "open" /\ x.until = NoTime /\ x.from = t.spans[id].from /\ c.spans[id] = x
  BY <1>6, <1>7 DEF Span
<1> HIDE DEF x, c
<1>9. c.scopes # << >> /\ id = c.scopes[Len(c.scopes)]
  <2>1. Len(c.scopes) = r + L + 1 - k /\ Len(c.scopes) \in 1..r + L - (k - 1)
    <3>1. Len(c.scopes) = r + L - (k - 1)
      BY <1>1, <1>5
    <3> QED
      BY <1>1, <3>1
  <2>2. c.scopes[r + L + 1 - k] = t.scopes[r + L + 1 - k]
    BY <1>1, <1>5, <2>1 DEF Ends
  <2>3. t.scopes[r + L + 1 - k] = id
    BY <1>1 DEF Lined
  <2>4. c.scopes \in Seq(Nat)
    BY <1>5, ShapedTypes
  <2> QED
    BY <1>1, <2>1, <2>2, <2>3, <2>4
<1>10. /\ Shaped(v, F) /\ Alike(v, c)
       /\ Len(v.scopes) = Len(c.scopes) - 1
       /\ \A i \in 1..Len(c.scopes) - 1 : v.scopes[i] = c.scopes[i]
       /\ Untouched(v, c, id)
       /\ v.spans[id] = LeftSpan(c, id, Reduces(t, k), until)
  <2>1. Reduces(t, k) \in BOOLEAN
    <3>1. t.reduction \in BOOLEAN
      BY DEF Shaped, Tracing
    <3> QED
      BY <3>1 DEF Reduces
  <2>2. c.spans[id].state = "open" /\ Shaped(c, F)
    BY <1>5, <1>8
  <2>3. id = t.last[k].span
    OBVIOUS
  <2> DEFINE frame == t.last[k]
  <2> HIDE DEF frame, id
  <2>4. /\ frame.span = id /\ c.scopes # << >> /\ frame.span = c.scopes[Len(c.scopes)]
        /\ c.spans[frame.span].state = "open"
    BY <1>9, <2>2, <2>3 DEF frame
  <2>5. TakenAlong(v, c, id, Reduces(t, k), until, F)
    BY <2>1, <2>2, <2>4, EndFrameSpanIs DEF frame
  <2> QED
    BY <2>5 DEF TakenAlong
<1>11. v.spans[id] = IF Reduces(t, k) \/ Short(t, id, until)
                     THEN [x EXCEPT !.state = "dropped"] ELSE EndedSpan(t, x, until)
  <2>1. c.now = t.now /\ c.minDuration = t.minDuration
    BY <1>1, <1>5 DEF Alike
  <2>2. TooShort(c, id, until) = Short(t, id, until)
    BY <1>8, <2>1 DEF TooShort, Short, EndTime
  <2>3. EndedSpan(c, x, until) = EndedSpan(t, x, until)
    BY <2>1 DEF EndedSpan, EndTime
  <2> HIDE DEF v
  <2> QED
    BY <1>8, <1>10, <2>2, <2>3 DEF LeftSpan
<1> HIDE DEF v
<1>12. Shaped(v, F) /\ Alike(v, t)
  BY <1>1, <1>5, <1>10 DEF Alike
<1>13. /\ Len(v.scopes) = Len(t.scopes) - k
       /\ \A j \in 1..Len(t.scopes) - k : v.scopes[j] = t.scopes[j]
  <2>1. Len(c.scopes) - 1 = r + L - k
    <3>1. Len(c.scopes) = r + L - (k - 1)
      BY <1>1, <1>5
    <3> QED
      BY <1>1, <3>1
  <2>2. \A j \in 1..r + L - k : v.scopes[j] = u.scopes[j] /\ j \in 1..r + L - (k - 1)
    BY <1>1, <1>5, <1>10, <2>1, SMTT(30)
  <2> QED
    BY <1>1, <1>10, <2>1, <2>2, SMTT(30) DEF Ends
<1>14. ASSUME NEW s \in 1..Len(t.spans), s # id PROVE v.spans[s] = u.spans[s]
  <2>1. s \in 1..Len(u.spans) /\ s \in 1..Len(c.spans)
    BY <1>1, <1>5 DEF Alike
  <2> QED
    BY <1>5, <1>10, <1>14, <2>1 DEF Untouched
<1>15. ASSUME NEW s \in 1..Len(t.spans), \A i \in 1..k : s # t.last[i].span
       PROVE  v.spans[s] = t.spans[s]
  <2>1. k \in 1..k /\ \A i \in 1..k - 1 : i \in 1..k
    BY <1>1
  <2>2. s # id /\ \A i \in 1..k - 1 : s # t.last[i].span
    BY <1>15, <2>1
  <2> QED
    BY <1>14, <2>2 DEF Ends
<1>16. ASSUME NEW i \in 1..k PROVE Over(v, t, i, old, until)
  <2>1. CASE i = k
    BY <1>6, <1>11, <2>1 DEF Over, x
  <2>2. CASE i # k
    <3>1. i \in 1..k - 1 /\ i \in 1..L
      BY <1>1, <2>2
    <3>2. v.spans[t.last[i].span] = u.spans[t.last[i].span]
      BY <1>1, <1>2, <1>3, <1>14, <2>2, <3>1
    <3>3. Over(u, t, i, old, until)
      BY <3>1 DEF Ends
    <3> QED
      BY <3>2, <3>3 DEF Over
  <2> QED
    BY <2>1, <2>2
<1>17. Ends(v, t, k, old, until, F)
  BY <1>12, <1>13, <1>15, <1>16 DEF Ends
<1> QED
  BY <1>17 DEF v, c


\* f[i] is what the end of the first i frames leaves.
Ending(f, t, old, until) ==
  /\ f[0] = t
  /\ \A i \in 1..old :
       f[i] = EndFrameSpan(ChangeParent(f[i - 1], i, old), t.last[i], Reduces(t, i), until)
  /\ EndFrames(t, old, until) = [f[old] EXCEPT !.last = SubSeq(@, old + 1, Len(@))]

\* The recursion of EndFrames, unfolded.
LEMMA EndFramesUnfolds ==
  ASSUME NEW t, NEW old \in Nat, NEW until
  PROVE  \E f : Ending(f, t, old, until)
<1> DEFINE Step(u, i) ==
             EndFrameSpan(ChangeParent(u, i, old), t.last[i], Reduces(t, i), until)
           Rec(f, n) == f = [i \in 0..n |-> IF i = 0 THEN t ELSE Step(f[i - 1], i)]
           good == {n \in Nat : \E f : Rec(f, n)}
           ended == CHOOSE f : Rec(f, old)
<1>1. EndFrames(t, old, until) = [ended[old] EXCEPT !.last = SubSeq(@, old + 1, Len(@))]
  BY DEF EndFrames
<1> HIDE DEF Step
<1>2. 0 \in good
  <2> DEFINE f == [i \in 0..0 |-> t]
  <2>1. Rec(f, 0)
    OBVIOUS
  <2> QED
    BY <2>1
<1>3. ASSUME NEW n \in 1..old, n - 1 \in good PROVE n \in good
  <2>1. PICK f : Rec(f, n - 1)
    BY <1>3
  <2> DEFINE g == [i \in 0..n |-> IF i = n THEN Step(f[n - 1], n) ELSE f[i]]
  <2>2. \A i \in 0..n - 1 : f[i] = IF i = 0 THEN t ELSE Step(f[i - 1], i)
    BY <2>1
  <2>3. \A i \in 0..n : g[i] = IF i = 0 THEN t ELSE Step(g[i - 1], i)
    <3> SUFFICES ASSUME NEW i \in 0..n PROVE g[i] = IF i = 0 THEN t ELSE Step(g[i - 1], i)
      OBVIOUS
    <3>1. CASE i = n
      <4>1. n - 1 \in 0..n /\ n - 1 # n /\ n # 0 /\ n \in 0..n
        OBVIOUS
      <4>2. g[n - 1] = f[n - 1]
        BY <4>1
      <4> QED
        BY <3>1, <4>1, <4>2
    <3>2. CASE i # n
      <4>1. i \in 0..n - 1 /\ g[i] = f[i]
        BY <3>2
      <4>2. i # 0 => i - 1 \in 0..n /\ i - 1 # n
        OBVIOUS
      <4>3. i # 0 => g[i - 1] = f[i - 1]
        BY <4>2
      <4> QED
        BY <2>2, <4>1, <4>3
    <3> QED
      BY <3>1, <3>2
  <2>4. Rec(g, n)
    <3>1. g = [i \in 0..n |-> g[i]]
      OBVIOUS
    <3> HIDE DEF g
    <3>2. [i \in 0..n |-> g[i]] = [i \in 0..n |-> IF i = 0 THEN t ELSE Step(g[i - 1], i)]
      BY <2>3
    <3> QED
      BY <3>1, <3>2
  <2>5. n \in Nat
    OBVIOUS
  <2> HIDE DEF g, Rec
  <2> QED
    BY <2>4, <2>5
<1>4. Rec(ended, old)
  <2>1. good \in SUBSET Nat
    OBVIOUS
  <2>2. 0..old \subseteq good
    <3> HIDE DEF good
    <3> QED
      BY <1>2, <1>3, <2>1, UpTo
  <2>3. old \in 0..old
    OBVIOUS
  <2>4. \E f : Rec(f, old)
    BY <2>2, <2>3
  <2> HIDE DEF Rec
  <2> QED
    BY <2>4, Zenon
<1> HIDE DEF ended
<1>5. ended[0] = t /\ \A i \in 1..old : ended[i] = Step(ended[i - 1], i)
  <2>1. \A i \in 0..old : ended[i] = IF i = 0 THEN t ELSE Step(ended[i - 1], i)
    BY <1>4
  <2>2. 0 \in 0..old /\ \A i \in 1..old : i \in 0..old /\ i # 0
    OBVIOUS
  <2> QED
    BY <2>1, <2>2
<1> QED
  BY <1>1, <1>5, Zenon DEF Step, Ending

\* The old frames of the last stack trace are forgotten.
CutBy(u, t, old, F) ==
  /\ Shaped(u, F) /\ u.spans = t.spans /\ u.scopes = t.scopes /\ SameRun(u, t)
  /\ Len(u.last) = Len(t.last) - old
  /\ \A i \in 1..Len(t.last) - old : u.last[i] = t.last[i + old]

LEMMA LastCut ==
  ASSUME NEW F, NEW t, Shaped(t, F), NEW old \in 0..Len(t.last)
  PROVE  CutBy([t EXCEPT !.last = SubSeq(@, old + 1, Len(@))], t, old, F)
<1> DEFINE L == Len(t.last)
           last == SubSeq(t.last, old + 1, L)
           u == [t EXCEPT !.last = last]
<1>1. L \in Nat /\ old \in Nat
  BY ShapedTypes
<1>2. /\ last \in Seq(TracedFrame(F)) /\ Len(last) = L - old
      /\ \A i \in 1..L - old : last[i] = t.last[i + old]
  <2>1. PICK s \in Seq(TracedFrame(F)) : s = t.last
    BY ShapedTypes
  <2>2. old + 1 \in 1..Len(s) + 1 /\ L \in old..Len(s)
    BY <1>1, <2>1
  <2>3. /\ SubSeq(s, old + 1, L) \in Seq(TracedFrame(F))
        /\ Len(SubSeq(s, old + 1, L)) = IF old + 1 <= L THEN L - (old + 1) + 1 ELSE 0
        /\ \A i \in 1..L - (old + 1) + 1 : SubSeq(s, old + 1, L)[i] = s[old + 1 + i - 1]
    BY <1>1, <2>1, <2>2, SubSeqProperties
  <2>4. L - (old + 1) + 1 = L - old /\ (~(old + 1 <= L) => L - old = 0)
    BY <1>1
  <2>5. \A i \in 1..L - old : old + 1 + i - 1 = i + old
    BY <1>1
  <2> QED
    BY <2>1, <2>3, <2>4, <2>5
<1> HIDE DEF last
<1>3. /\ u \in Tracing(F) /\ u.spans = t.spans /\ u.scopes = t.scopes /\ u.last = last
      /\ u.trace = t.trace /\ u.now = t.now /\ u.shutdown = t.shutdown
      /\ u.reduction = t.reduction /\ u.minDuration = t.minDuration
  BY <1>2 DEF Shaped, Tracing
<1> HIDE DEF u
<1>4. \A i \in 1..L - old : last[i] = t.last[i + old] /\ i + old \in 1..L
  BY <1>1, <1>2
<1>5. \A i \in 1..Len(last) : last[i].span \in 1..Len(t.spans)
  BY <1>2, <1>4 DEF Shaped
<1>6. \A i, j \in 1..Len(last) : i < j => last[j].span < last[i].span
  <2> SUFFICES ASSUME NEW i \in 1..L - old, NEW j \in 1..L - old, i < j
               PROVE  last[j].span < last[i].span
    BY <1>2
  <2>1. i + old < j + old
    BY <1>1
  <2> QED
    BY <1>4, <2>1 DEF Shaped
<1>7. Shaped(u, F)
  BY <1>3, <1>5, <1>6 DEF Shaped
<1> QED
  BY <1>2, <1>3, <1>7 DEF u, last, CutBy, SameRun



\* Whatever scopes there are, frames that end keep the shape.
LEMMA EndFramesKeeps ==
  ASSUME NEW F, NEW t, Shaped(t, F), NEW old \in 0..Len(t.last), NEW until \in Int
  PROVE  LET u == EndFrames(t, old, until) IN
         Shaped(u, F) /\ SameRun(u, t) /\ Len(u.spans) = Len(t.spans)
<1>1. Len(t.last) \in Nat /\ old \in Nat
  BY ShapedTypes
<1>2. PICK f : Ending(f, t, old, until)
  BY <1>1, EndFramesUnfolds
<1> DEFINE good == {k \in Nat : k <= old => Shaped(f[k], F) /\ Alike(f[k], t)}
<1>3. 0 \in good
  BY <1>2 DEF Alike, Ending
<1>4. ASSUME NEW k \in 1..old, k - 1 \in good PROVE k \in good
  <2> DEFINE c == ChangeParent(f[k - 1], k, old)
             v == EndFrameSpan(c, t.last[k], Reduces(t, k), until)
  <2>1. k \in Nat /\ k - 1 <= old /\ k \in 1..Len(t.last)
    BY <1>1
  <2>2. Shaped(f[k - 1], F) /\ Alike(f[k - 1], t)
    BY <1>4, <2>1
  <2>3. old \in 0..Len(f[k - 1].last) /\ t.last[k].span \in 1..Len(t.spans)
    BY <2>1, <2>2 DEF Alike, Shaped
  <2>4. Shaped(c, F) /\ Alike(c, f[k - 1])
    BY <2>2, <2>3, ChangeParentIs
  <2> HIDE DEF c
  <2>5. t.last[k].span \in 1..Len(c.spans)
    BY <2>2, <2>3, <2>4 DEF Alike
  <2>6. Reduces(t, k) \in BOOLEAN
    <3>1. t.reduction \in BOOLEAN
      BY DEF Shaped, Tracing
    <3> QED
      BY <3>1 DEF Reduces
  <2>7. Shaped(v, F) /\ Alike(v, c)
    BY <2>4, <2>5, <2>6, EndFrameSpanKeeps
  <2>8. f[k] = v
    BY <1>2 DEF c, Ending
  <2> HIDE DEF v
  <2> QED
    BY <2>1, <2>2, <2>4, <2>7, <2>8 DEF Alike
<1>5. old \in good
  <2>1. good \in SUBSET Nat /\ old \in 0..old
    BY <1>1
  <2> HIDE DEF good
  <2> QED
    BY <1>1, <1>3, <1>4, <2>1, UpTo
<1>6. Shaped(f[old], F) /\ Alike(f[old], t)
  BY <1>1, <1>5
<1>7. old \in 0..Len(f[old].last)
  BY <1>6 DEF Alike
<1> DEFINE u == [f[old] EXCEPT !.last = SubSeq(@, old + 1, Len(@))]
<1>8. CutBy(u, f[old], old, F)
  BY <1>6, <1>7, LastCut
<1>9. u = EndFrames(t, old, until)
  BY <1>2 DEF Ending
<1> HIDE DEF u
<1> QED
  BY <1>6, <1>8, <1>9 DEF Alike, SameRun, CutBy

\* The first old frames of t have ended in u and are forgotten.
FramesEnded(u, t, old, until, F) ==
  /\ Shaped(u, F) /\ SameRun(u, t) /\ Len(u.spans) = Len(t.spans)
  /\ Len(u.scopes) = Len(t.scopes) - old
  /\ \A j \in 1..Len(t.scopes) - old : u.scopes[j] = t.scopes[j]
  /\ Len(u.last) = Len(t.last) - old
  /\ \A i \in 1..Len(t.last) - old : u.last[i] = t.last[i + old]
  /\ \A s \in 1..Len(t.spans) : (\A i \in 1..old : s # t.last[i].span) => u.spans[s] = t.spans[s]
  /\ \A i \in 1..old : Over(u, t, i, old, until)

LEMMA EndFramesIs ==
  ASSUME NEW F, NEW t, Shaped(t, F), NEW r \in 0..1, Lined(t, r, 0), Attached(t),
         NEW old \in 0..Len(t.last), NEW until \in Int
  PROVE  FramesEnded(EndFrames(t, old, until), t, old, until, F)
<1>1. Len(t.last) \in Nat /\ old \in Nat /\ Len(t.scopes) \in Nat
  BY ShapedTypes
<1>2. PICK f : Ending(f, t, old, until)
  BY <1>1, EndFramesUnfolds
<1> DEFINE good == {k \in Nat : k <= old => Ends(f[k], t, k, old, until, F)}
<1>3. 0 \in good
  <2>1. Alike(t, t) /\ Len(t.scopes) - 0 = Len(t.scopes)
    BY <1>1 DEF Alike
  <2>2. Ends(t, t, 0, old, until, F)
    BY <2>1 DEF Ends
  <2> QED
    BY <1>2, <2>2 DEF Ending
<1>4. ASSUME NEW k \in 1..old, k - 1 \in good PROVE k \in good
  <2>1. k \in Nat /\ k - 1 <= old
    BY <1>1
  <2>2. Ends(f[k - 1], t, k - 1, old, until, F)
    BY <1>4, <2>1
  <2>3. Ends(EndFrameSpan(ChangeParent(f[k - 1], k, old), t.last[k], Reduces(t, k), until),
             t, k, old, until, F)
    BY <2>2, NextFrameEnds
  <2>4. f[k] = EndFrameSpan(ChangeParent(f[k - 1], k, old), t.last[k], Reduces(t, k), until)
    BY <1>2 DEF Ending
  <2> QED
    BY <2>1, <2>3, <2>4
<1>5. old \in good
  <2>1. good \in SUBSET Nat /\ old \in 0..old
    BY <1>1
  <2> HIDE DEF good
  <2> QED
    BY <1>1, <1>3, <1>4, <2>1, UpTo
<1>6. Ends(f[old], t, old, old, until, F)
  BY <1>1, <1>5
<1>7. Shaped(f[old], F) /\ Alike(f[old], t) /\ old \in 0..Len(f[old].last)
  BY <1>6 DEF Ends, Alike
<1> DEFINE u == [f[old] EXCEPT !.last = SubSeq(@, old + 1, Len(@))]
<1>8. CutBy(u, f[old], old, F)
  BY <1>7, LastCut
<1>9. u = EndFrames(t, old, until)
  BY <1>2 DEF Ending
<1> HIDE DEF u
<1>10. FramesEnded(u, t, old, until, F)
  <2>1. /\ Shaped(u, F) /\ SameRun(u, t) /\ u.spans = f[old].spans /\ u.scopes = f[old].scopes
        /\ Len(u.spans) = Len(t.spans) /\ Len(u.last) = Len(t.last) - old
        /\ \A i \in 1..Len(t.last) - old : u.last[i] = t.last[i + old]
    BY <1>7, <1>8 DEF CutBy, Alike, SameRun
  <2>2. \A i \in 1..old : Over(u, t, i, old, until)
    <3> SUFFICES ASSUME NEW i \in 1..old PROVE Over(u, t, i, old, until)
      OBVIOUS
    <3>1. Over(f[old], t, i, old, until) /\ u.spans = f[old].spans
      BY <1>6, <2>1 DEF Ends
    <3> QED
      BY <3>1, Zenon DEF Over
  <2> QED
    BY <1>6, <2>1, <2>2 DEF Ends, FramesEnded
<1> QED
  BY <1>9, <1>10


-----------------------------------------------------------------------------
(* The frames that are new.                                                *)

\* u is t with one more span, and ended says whether it is over already.
NewFrame(u, t, fn, parent, dur, ended, F) ==
  LET n == Len(t.spans) + 1
      open == [kind |-> "inferred", fn |-> fn, parent |-> parent, from |-> t.now - dur,
               until |-> NoTime, state |-> "open"] IN
  /\ Shaped(u, F) /\ SameRun(u, t) /\ Len(u.spans) = n
  /\ \A s \in 1..Len(t.spans) : u.spans[s] = t.spans[s]
  /\ \A k \in 1..Len(t.scopes) : u.scopes[k] = t.scopes[k]
  /\ ended =>
       /\ u.last = t.last /\ Len(u.scopes) = Len(t.scopes)
       /\ u.spans[n] = IF t.minDuration > 0 /\ dur < t.minDuration
                       THEN [open EXCEPT !.state = "dropped"]
                       ELSE [open EXCEPT !.state = "ended", !.until = t.now]
  /\ ~ended =>
       /\ Len(u.scopes) = Len(t.scopes) + 1 /\ u.scopes[Len(t.scopes) + 1] = n
       /\ u.spans[n] = open
       /\ Len(u.last) = Len(t.last) + 1
       /\ u.last[1] = [fn |-> fn, span |-> n, trace |-> t.trace]
       /\ \A i \in 1..Len(t.last) : u.last[i + 1] = t.last[i]

LEMMA Prepended ==
  ASSUME NEW S, NEW x \in S, NEW s \in Seq(S)
  PROVE  /\ <<x>> \o s \in Seq(S) /\ Len(<<x>> \o s) = Len(s) + 1
         /\ (<<x>> \o s)[1] = x
         /\ \A i \in 1..Len(s) : (<<x>> \o s)[i + 1] = s[i]
<1>1. <<x>> \in Seq(S) /\ Len(<<x>>) = 1 /\ <<x>>[1] = x /\ Len(s) \in Nat
  OBVIOUS
<1>2. PICK a \in Seq(S) : a = <<x>> /\ Len(a) = 1 /\ a[1] = x
  BY <1>1
<1>3. /\ a \o s \in Seq(S) /\ Len(a \o s) = Len(a) + Len(s)
      /\ \A i \in 1..Len(a) + Len(s) : (a \o s)[i] = IF i <= Len(a) THEN a[i] ELSE s[i - Len(a)]
  BY ConcatProperties
<1>4. 1 \in 1..1 + Len(s) /\ \A i \in 1..Len(s) : i + 1 \in 1..1 + Len(s) /\ ~(i + 1 <= 1) /\ i + 1 - 1 = i
  BY <1>1
<1>5. (a \o s)[1] = x /\ \A i \in 1..Len(s) : (a \o s)[i + 1] = s[i]
  BY <1>2, <1>3, <1>4
<1> QED
  BY <1>1, <1>2, <1>3, <1>5

LEMMA StartFrameIs ==
  ASSUME NEW F, NEW t, Shaped(t, F), NEW fn \in F, NEW parent \in 0..Len(t.spans),
         NEW dur \in Int, NEW ended \in BOOLEAN
  PROVE  NewFrame(StartFrame(t, fn, parent, dur, ended), t, fn, parent, dur, ended, F)
<1> DEFINE n == Len(t.spans) + 1
           from == t.now - dur
           open == [kind |-> "inferred", fn |-> fn, parent |-> parent, from |-> from,
                    until |-> NoTime, state |-> "open"]
           v == StartSpan(t, "inferred", fn, parent, from)
           frame == [fn |-> fn, span |-> n, trace |-> t.trace]
           u == StartFrame(t, fn, parent, dur, ended)
<1>1. /\ Len(t.spans) \in Nat /\ Len(t.scopes) \in Nat /\ Len(t.last) \in Nat /\ from \in Int
      /\ t.now \in Nat /\ t.trace \in Nat /\ t.minDuration \in Nat /\ n \in Nat
  BY ShapedTypes
<1>2. /\ Shaped(v, F)
      /\ Len(v.spans) = n /\ Untouched(v, t, n) /\ v.spans[n] = open
      /\ Len(v.scopes) = Len(t.scopes) + 1 /\ v.scopes[Len(t.scopes) + 1] = n
      /\ \A i \in 1..Len(t.scopes) : v.scopes[i] = t.scopes[i]
      /\ v.last = t.last /\ SameRun(v, t)
  <2>1. Started(v, t, "inferred", fn, parent, from, F)
    BY <1>1, StartSpanIs
  <2> HIDE DEF v
  <2> QED
    BY <2>1 DEF Started
<1>3. \A s \in 1..Len(t.spans) : v.spans[s] = t.spans[s]
  <2> HIDE DEF v
  <2> QED
    BY <1>1, <1>2 DEF Untouched
<1>4. u = IF ended THEN EndFrameSpan(v, frame, FALSE, NoTime)
          ELSE [v EXCEPT !.last = <<frame>> \o @]
  BY <1>2 DEF StartFrame, v
<1> HIDE DEF v
<1>5. open.kind = "inferred" /\ open.state = "open" /\ open.until = NoTime /\ open.from = from
  OBVIOUS
<1>6. ASSUME ended PROVE NewFrame(u, t, fn, parent, dur, ended, F)
  <2> DEFINE w == EndFrameSpan(v, frame, FALSE, NoTime)
  <2>1. frame.span = n /\ v.scopes # << >> /\ v.scopes[Len(v.scopes)] = n
    <3>1. v.scopes \in Seq(Nat)
      BY <1>2, ShapedTypes
    <3> QED
      BY <1>1, <1>2, <3>1
  <2> HIDE DEF frame
  <2>2. TakenAlong(w, v, frame.span, FALSE, NoTime, F)
    <3>1. v.spans[frame.span].state = "open" /\ NoTime \in Int
      BY <1>2, <1>5, <2>1 DEF NoTime
    <3> QED
      BY <1>2, <2>1, <3>1, EndFrameSpanIs
  <2> HIDE DEF w
  <2>3. w.spans[n] = IF t.minDuration > 0 /\ dur < t.minDuration
                     THEN [open EXCEPT !.state = "dropped"]
                     ELSE [open EXCEPT !.state = "ended", !.until = t.now]
    <3>1. v.now = t.now /\ v.minDuration = t.minDuration
      BY <1>2 DEF SameRun
    <3>2. w.spans[n] = LeftSpan(v, n, FALSE, NoTime) /\ v.spans[n] = open
      BY <1>2, <2>1, <2>2 DEF TakenAlong
    <3>3. TooShort(v, n, NoTime) <=> t.minDuration > 0 /\ dur < t.minDuration
      <4>1. TooShort(v, n, NoTime) <=> t.minDuration > 0 /\ t.now - from < t.minDuration
        BY <1>5, <3>1, <3>2 DEF TooShort
      <4>2. t.now - from = dur
        BY <1>1
      <4> QED
        BY <4>1, <4>2
    <3> HIDE DEF open
    <3> QED
      BY <3>1, <3>2, <3>3 DEF LeftSpan, EndedSpan, EndTime
  <2>4. u = w
    BY <1>4, <1>6 DEF w, frame
  <2>5. /\ Shaped(w, F) /\ SameRun(w, t) /\ Len(w.spans) = n /\ w.last = t.last
        /\ Len(w.scopes) = Len(t.scopes)
        /\ \A k \in 1..Len(t.scopes) : w.scopes[k] = t.scopes[k]
    <3>1. Len(v.scopes) - 1 = Len(t.scopes)
      BY <1>1, <1>2
    <3> QED
      BY <1>2, <2>2, <3>1 DEF TakenAlong, Alike, SameRun
  <2>6. \A s \in 1..Len(t.spans) : w.spans[s] = t.spans[s]
    <3>1. \A s \in 1..Len(t.spans) : s \in 1..n /\ s # n
      BY <1>1
    <3> QED
      BY <1>2, <1>3, <2>1, <2>2, <3>1 DEF TakenAlong, Untouched
  <2> HIDE DEF u
  <2> QED
    BY <1>6, <2>3, <2>4, <2>5, <2>6 DEF NewFrame
<1>7. ASSUME ~ended PROVE NewFrame(u, t, fn, parent, dur, ended, F)
  <2> DEFINE last == <<frame>> \o v.last
  <2>1. frame \in TracedFrame(F)
    BY <1>1 DEF TracedFrame
  <2>2. /\ last \in Seq(TracedFrame(F)) /\ Len(last) = Len(t.last) + 1 /\ last[1] = frame
        /\ \A i \in 1..Len(t.last) : last[i + 1] = t.last[i]
    <3>1. t.last \in Seq(TracedFrame(F)) /\ v.last = t.last
      BY <1>2, ShapedTypes
    <3> HIDE DEF frame
    <3> QED
      BY <2>1, <3>1, Prepended
  <2>3. u = [v EXCEPT !.last = last]
    BY <1>4, <1>7
  <2> HIDE DEF last
  <2>4. /\ u \in Tracing(F) /\ u.spans = v.spans /\ u.scopes = v.scopes /\ u.last = last
        /\ u.trace = v.trace /\ u.now = v.now /\ u.shutdown = v.shutdown
        /\ u.reduction = v.reduction /\ u.minDuration = v.minDuration
    BY <1>2, <2>2, <2>3 DEF Shaped, Tracing
  <2>5. frame.span = n
    OBVIOUS
  <2> HIDE DEF u, frame
  <2>6. ASSUME NEW i \in 1..Len(last)
        PROVE  /\ i = 1 => last[i].span = n
               /\ i # 1 => i - 1 \in 1..Len(t.last) /\ last[i] = t.last[i - 1]
                             /\ last[i].span \in 1..Len(t.spans)
    <3>1. CASE i = 1
      BY <2>2, <2>5, <3>1
    <3>2. CASE i # 1
      <4>1. i - 1 \in 1..Len(t.last) /\ i - 1 + 1 = i
        BY <1>1, <2>2, <3>2, SMTT(30)
      <4>2. last[i] = t.last[i - 1]
        BY <2>2, <4>1
      <4> QED
        BY <3>2, <4>1, <4>2 DEF Shaped
    <3> QED
      BY <3>1, <3>2
  <2>7. \A i \in 1..Len(last) : last[i].span \in 1..n
    BY <1>1, <2>6, SMTT(30)
  <2>8. \A i, j \in 1..Len(last) : i < j => last[j].span < last[i].span
    <3> SUFFICES ASSUME NEW i \in 1..Len(last), NEW j \in 1..Len(last), i < j
                 PROVE  last[j].span < last[i].span
      OBVIOUS
    <3>1. j # 1
      OBVIOUS
    <3>2. CASE i = 1
      BY <1>1, <2>6, <3>1, <3>2, SMTT(30)
    <3>3. CASE i # 1
      <4>1. i - 1 < j - 1
        OBVIOUS
      <4> QED
        BY <2>6, <3>1, <3>3, <4>1 DEF Shaped
    <3> QED
      BY <3>2, <3>3
  <2>9. Shaped(u, F)
    BY <1>2, <2>4, <2>7, <2>8 DEF Shaped
  <2>10. SameRun(u, t)
    BY <1>2, <2>4 DEF SameRun
  <2> QED
    BY <1>2, <1>3, <1>7, <2>2, <2>4, <2>9, <2>10 DEF NewFrame, frame
<1> QED
  BY <1>6, <1>7


-----------------------------------------------------------------------------
(* What holds of a request until scopes of different owners cross.         *)

\* The parent of a span that is open is the one below it.
Chained(t) ==
  \A k \in 1..Len(t.scopes) :
    t.spans[t.scopes[k]].parent = IF k = 1 THEN NoSpan ELSE t.scopes[k - 1]

Before(t, time) ==
  \A s \in 1..Len(t.spans) : t.spans[s].from <= time /\ t.spans[s].until <= time

FromOf(t, i) == t.spans[t.last[i].span].from

\* Frames on top came with the same stack trace or a later one.
InOrder(t) ==
  \A i, j \in 1..Len(t.last) : i < j =>
    /\ t.last[j].trace <= t.last[i].trace
    /\ FromOf(t, j) <= FromOf(t, i)
    /\ t.last[j].trace # t.last[i].trace => FromOf(t, j) < FromOf(t, i)

\* A frame that the reduction will not drop.
Keeper(t, i) == ~t.reduction \/ i = 1 \/ t.last[i - 1].trace # t.last[i].trace

\* What the tree that is exported promises of a span that has ended.
Kept(t, s) ==
  t.spans[s].state = "ended" /\ ~(t.minDuration > 0 /\ t.spans[s].kind = "hook")

\* The parent of span s is exported, or will be: it is not one of a frame, or
\* that of a frame in X that nothing will drop.
Hangs(t, s, X) ==
  LET p == t.spans[s].parent IN
  \/ p = NoSpan
  \/ t.spans[p].state = "ended"
  \/ t.spans[p].state = "open" /\ t.spans[p].kind # "inferred"
  \/ \E i \in X : /\ p = t.last[i].span /\ Keeper(t, i)
                  /\ t.minDuration > 0 => t.spans[s].until - t.spans[p].from >= t.minDuration

Rooted(t, X) == \A s \in 1..Len(t.spans) : Kept(t, s) => Hangs(t, s, X)

EndedFrame(t, s) == t.spans[s].state = "ended" /\ t.spans[s].kind = "inferred"

Distinct(t) ==
  t.reduction =>
    \A s, x \in 1..Len(t.spans) :
      EndedFrame(t, s) /\ EndedFrame(t, x) /\ s # x =>
        t.spans[s].from # t.spans[x].from \/ t.spans[s].until # t.spans[x].until

\* At rest, with h spans of hooks open.
Sound(t, r, h, F) ==
  /\ Shaped(t, F) /\ Lined(t, r, h) /\ Attached(t) /\ Chained(t)
  /\ Before(t, t.now) /\ InOrder(t) /\ (\A i \in 1..Len(t.last) : t.last[i].trace <= t.trace)
  /\ Rooted(t, 1..Len(t.last)) /\ Distinct(t)

\* A stack trace has come in: what there is has happened by past, and what is
\* new has begun at begin.
Ready(t, r, past, begin, F) ==
  /\ Shaped(t, F) /\ Lined(t, r, 0) /\ Attached(t) /\ Chained(t)
  /\ Before(t, past) /\ InOrder(t) /\ (\A i \in 1..Len(t.last) : t.last[i].trace < t.trace)
  /\ Rooted(t, 1..Len(t.last)) /\ Distinct(t)
  /\ past \in Int /\ begin \in Int /\ past < begin /\ begin <= t.now

Older(t) == {i \in 1..Len(t.last) : t.last[i].trace # t.trace}

\* Old frames have ended, and new ones are being started.
Between(t, r, begin, F) ==
  /\ Shaped(t, F) /\ Lined(t, r, 0) /\ Attached(t) /\ Chained(t)
  /\ Before(t, t.now) /\ InOrder(t)
  /\ Rooted(t, Older(t)) /\ Distinct(t)
  /\ begin \in Int /\ begin <= t.now
  /\ \A i \in 1..Len(t.last) :
       /\ t.last[i].trace <= t.trace
       /\ t.last[i].trace = t.trace => FromOf(t, i) = begin
       /\ t.last[i].trace # t.trace => FromOf(t, i) < begin
  /\ \A s \in 1..Len(t.spans) : EndedFrame(t, s) => t.spans[s].from < begin

-----------------------------------------------------------------------------
(* From Ready to Between: the frames that are gone.                        *)

\* The span below that of frame i.
Below(t, r, i) ==
  IF i < Len(t.last) THEN t.last[i + 1].span ELSE IF r = 1 THEN t.scopes[1] ELSE NoSpan

LEMMA BelowIs ==
  ASSUME NEW F, NEW t, Shaped(t, F), NEW r \in 0..1, Lined(t, r, 0), Chained(t),
         NEW i \in 1..Len(t.last)
  PROVE  t.spans[t.last[i].span].parent = Below(t, r, i)
<1> DEFINE L == Len(t.last)
           k == r + L + 1 - i
<1>1. L \in Nat /\ k \in 1..Len(t.scopes) /\ t.scopes[k] = t.last[i].span
      /\ Len(t.scopes) = r + L
  <2>1. L \in Nat
    BY ShapedTypes
  <2>2. Len(t.scopes) = r + L
    BY <2>1 DEF Lined
  <2>3. k \in 1..Len(t.scopes)
    BY <2>1, <2>2
  <2> QED
    BY <2>1, <2>2, <2>3 DEF Lined
<1>2. t.spans[t.last[i].span].parent = IF k = 1 THEN NoSpan ELSE t.scopes[k - 1]
  BY <1>1 DEF Chained
<1>3. CASE i < L
  <2>1. i + 1 \in 1..L /\ r + L + 1 - (i + 1) = k - 1 /\ k # 1
    <3>1. i \in 1..L
      OBVIOUS
    <3> HIDE DEF L
    <3> QED
      BY <1>1, <1>3, <3>1
  <2>2. t.scopes[k - 1] = t.last[i + 1].span
    BY <2>1 DEF Lined
  <2> QED
    BY <1>2, <1>3, <2>1, <2>2 DEF Below
<1>4. CASE ~(i < L)
  <2>1. k = r + 1 /\ (r = 1 => k # 1 /\ k - 1 = 1) /\ (r # 1 => k = 1)
    BY <1>1, <1>4
  <2> QED
    BY <1>2, <1>4, <2>1 DEF Below
<1> QED
  BY <1>3, <1>4

\* What the span of frame i has become.
FrameGone(u, t, r, i, old, until) ==
  LET id == t.last[i].span IN
  /\ \E m \in i..old :
       /\ u.spans[id].parent = Below(t, r, m)
       /\ t.reduction /\ ~Reduces(t, i) => m = old \/ t.last[m + 1].trace # t.last[m].trace
  /\ u.spans[id].kind = "inferred" /\ u.spans[id].from = t.spans[id].from
  /\ IF Reduces(t, i) \/ Short(t, id, until)
     THEN u.spans[id].state = "dropped" /\ u.spans[id].until = NoTime
     ELSE u.spans[id].state = "ended" /\ u.spans[id].until = EndTime(t, until)

LEMMA OverIsGone ==
  ASSUME NEW F, NEW t, Shaped(t, F), NEW r \in 0..1, Lined(t, r, 0), Attached(t), Chained(t),
         NEW old \in 0..Len(t.last), NEW i \in 1..old, NEW until \in Int,
         NEW u, Over(u, t, i, old, until)
  PROVE  FrameGone(u, t, r, i, old, until)
<1> DEFINE id == t.last[i].span
           y == t.spans[id]
<1>1. /\ Len(t.last) \in Nat /\ i \in 1..Len(t.last) /\ id \in 1..Len(t.spans) /\ y \in Span(F)
      /\ y.kind = "inferred" /\ y.state = "open" /\ y.until = NoTime
  <2>1. Len(t.last) \in Nat /\ i \in 1..Len(t.last)
    BY ShapedTypes
  <2>2. id \in 1..Len(t.spans) /\ y \in Span(F)
    BY <2>1, ShapedTypes DEF Shaped
  <2>3. y.kind = "inferred"
    BY <2>1 DEF Lined
  <2>4. r + Len(t.last) + 1 - i \in 1..Len(t.scopes) /\ t.scopes[r + Len(t.last) + 1 - i] = id
    BY <2>1 DEF Lined
  <2>5. y.state = "open" /\ y.until = NoTime
    <3> DEFINE k == r + Len(t.last) + 1 - i
    <3>1. k \in 1..Len(t.scopes) /\ t.scopes[k] = id
      BY <2>4
    <3> HIDE DEF k, id
    <3>2. t.spans[id].state = "open"
      BY <3>1 DEF Attached
    <3>3. t.spans[id].until = NoTime
      BY <2>2, <3>2 DEF Attached
    <3> QED
      BY <3>2, <3>3
  <2> QED
    BY <2>1, <2>2, <2>3, <2>5
<1> HIDE DEF y
<1>2. PICK m \in i..old :
        LET x == [y EXCEPT !.parent = t.spans[t.last[m].span].parent] IN
        /\ t.reduction /\ ~Reduces(t, i) => m = old \/ t.last[m + 1].trace # t.last[m].trace
        /\ u.spans[id] = IF Reduces(t, i) \/ Short(t, id, until)
                         THEN [x EXCEPT !.state = "dropped"] ELSE EndedSpan(t, x, until)
  BY Zenon DEF Over, y
<1> DEFINE p == t.spans[t.last[m].span].parent
           x == [y EXCEPT !.parent = p]
<1>3. p = Below(t, r, m)
  <2>1. m \in 1..Len(t.last)
    BY <1>1
  <2> QED
    BY <2>1, BelowIs
<1> HIDE DEF p
<1>4. x \in [kind : {"root", "hook", "inferred"}, fn : F, parent : {p}, from : Int,
             until : Int, state : {"open", "ended", "dropped"}]
      /\ x.kind = "inferred" /\ x.from = y.from /\ x.until = NoTime /\ x.parent = p
  BY <1>1 DEF Span
<1> HIDE DEF x
<1>5. CASE Reduces(t, i) \/ Short(t, id, until)
  <2>1. u.spans[id] = [x EXCEPT !.state = "dropped"]
    BY <1>2, <1>5 DEF x, p
  <2>2. /\ u.spans[id].state = "dropped" /\ u.spans[id].until = NoTime
        /\ u.spans[id].kind = "inferred" /\ u.spans[id].from = y.from
        /\ u.spans[id].parent = p
    BY <1>4, <2>1
  <2> QED
    BY <1>2, <1>3, <1>5, <2>2 DEF FrameGone, y
<1>6. CASE ~(Reduces(t, i) \/ Short(t, id, until))
  <2>1. u.spans[id] = EndedSpan(t, x, until)
    BY <1>2, <1>6 DEF x, p
  <2>2. /\ u.spans[id].state = "ended" /\ u.spans[id].until = EndTime(t, until)
        /\ u.spans[id].kind = "inferred" /\ u.spans[id].from = y.from
        /\ u.spans[id].parent = p
    BY <1>4, <2>1 DEF EndedSpan
  <2> QED
    BY <1>2, <1>3, <1>6, <2>2 DEF FrameGone, y
<1> QED
  BY <1>5, <1>6


LEMMA FramesApart ==
  ASSUME NEW F, NEW t, Shaped(t, F)
  PROVE  \A i, j \in 1..Len(t.last) : t.last[i].span = t.last[j].span => i = j
<1> SUFFICES ASSUME NEW i \in 1..Len(t.last), NEW j \in 1..Len(t.last), i # j
             PROVE  t.last[i].span # t.last[j].span
  OBVIOUS
<1>1. i < j => t.last[j].span < t.last[i].span
  BY DEF Shaped
<1>2. j < i => t.last[i].span < t.last[j].span
  BY DEF Shaped
<1>3. t.last[i].span \in Nat /\ t.last[j].span \in Nat /\ i \in Nat /\ j \in Nat
  BY ShapedTypes
<1> QED
  BY <1>1, <1>2, <1>3

LEMMA ScopesApart ==
  ASSUME NEW F, NEW t, Shaped(t, F)
  PROVE  \A i, j \in 1..Len(t.scopes) : t.scopes[i] = t.scopes[j] => i = j
<1> SUFFICES ASSUME NEW i \in 1..Len(t.scopes), NEW j \in 1..Len(t.scopes), i # j
             PROVE  t.scopes[i] # t.scopes[j]
  OBVIOUS
<1>1. i < j => t.scopes[i] < t.scopes[j]
  BY DEF Shaped, Increasing
<1>2. j < i => t.scopes[j] < t.scopes[i]
  BY DEF Shaped, Increasing
<1>3. t.scopes[i] \in Nat /\ t.scopes[j] \in Nat /\ i \in Nat /\ j \in Nat
  BY ShapedTypes DEF Shaped
<1> QED
  BY <1>1, <1>2, <1>3

LEMMA EndFramesSound ==
  ASSUME NEW F, NEW t, NEW r \in 0..1, NEW past, NEW begin, Ready(t, r, past, begin, F),
         NEW old \in 0..Len(t.last), NEW until \in Int, until = NoTime \/ until = begin,
         NEW u, FramesEnded(u, t, old, until, F)
  PROVE  Between(u, r, begin, F)
<1> DEFINE L == Len(t.last)
           N == Len(t.spans)
           id(i) == t.last[i].span
           E == EndTime(t, until)
           Stays(s) == \A i \in 1..old : s # id(i)
<1>1. /\ L \in Nat /\ N \in Nat /\ old \in Nat /\ old <= L /\ r \in Nat
      /\ Shaped(t, F) /\ Lined(t, r, 0) /\ Attached(t) /\ Chained(t)
      /\ Len(t.scopes) = r + L /\ Len(u.scopes) = r + L - old /\ Len(u.last) = L - old
      /\ Len(u.spans) = N /\ Shaped(u, F) /\ SameRun(u, t)
  <2>1. Shaped(t, F) /\ Lined(t, r, 0) /\ Attached(t) /\ Chained(t)
    BY DEF Ready
  <2>2. L \in Nat /\ N \in Nat
    BY <2>1, ShapedTypes
  <2>3. Len(t.scopes) = r + L
    BY <2>1, <2>2 DEF Lined
  <2> QED
    BY <2>1, <2>2, <2>3 DEF FramesEnded
<1>2. /\ past \in Int /\ begin \in Int /\ t.now \in Nat /\ past < begin /\ begin <= t.now
      /\ E \in Int /\ begin <= E /\ E <= t.now /\ u.now = t.now /\ u.trace = t.trace
      /\ u.reduction = t.reduction /\ u.minDuration = t.minDuration /\ t.minDuration \in Nat
  <2>1. t.now \in Nat /\ t.minDuration \in Nat
    BY <1>1, ShapedTypes
  <2> QED
    BY <1>1, <2>1 DEF Ready, SameRun, EndTime
<1>3. \A i \in 1..old : i \in 1..L /\ FrameGone(u, t, r, i, old, until)
  <2> SUFFICES ASSUME NEW i \in 1..old PROVE i \in 1..L /\ FrameGone(u, t, r, i, old, until)
    OBVIOUS
  <2>1. Over(u, t, i, old, until)
    BY DEF FramesEnded
  <2>2. FrameGone(u, t, r, i, old, until)
    BY <1>1, <2>1, OverIsGone
  <2> QED
    BY <1>1, <2>2
<1>4. \A i \in 1..L : /\ id(i) \in 1..N /\ t.spans[id(i)].kind = "inferred"
                      /\ t.spans[id(i)].state = "open"
                      /\ r + L + 1 - i \in 1..r + L /\ t.scopes[r + L + 1 - i] = id(i)
  <2> SUFFICES ASSUME NEW i \in 1..L
               PROVE  /\ id(i) \in 1..N /\ t.spans[id(i)].kind = "inferred"
                      /\ t.spans[id(i)].state = "open"
                      /\ r + L + 1 - i \in 1..r + L /\ t.scopes[r + L + 1 - i] = id(i)
    OBVIOUS
  <2>1. r + L + 1 - i \in 1..r + L
    BY <1>1
  <2>2. id(i) \in 1..N
    BY <1>1 DEF Shaped
  <2>3. t.spans[id(i)].kind = "inferred" /\ t.scopes[r + L + 1 - i] = id(i)
    BY <1>1 DEF Lined
  <2>4. t.spans[t.scopes[r + L + 1 - i]].state = "open"
    BY <1>1, <2>1 DEF Attached
  <2> QED
    BY <2>1, <2>2, <2>3, <2>4
<1>5. \A i, j \in 1..L : id(i) = id(j) => i = j
  BY <1>1, FramesApart
<1>6. \A s \in 1..N : Stays(s) => u.spans[s] = t.spans[s]
  BY DEF FramesEnded
<1>7. \A i \in old + 1..L : Stays(id(i)) /\ u.spans[id(i)] = t.spans[id(i)]
  <2> SUFFICES ASSUME NEW i \in old + 1..L PROVE Stays(id(i)) /\ u.spans[id(i)] = t.spans[id(i)]
    OBVIOUS
  <2>1. i \in 1..L /\ \A j \in 1..old : j \in 1..L /\ i # j
    BY <1>1
  <2>2. Stays(id(i))
    BY <1>5, <2>1
  <2> QED
    BY <1>4, <1>6, <2>1, <2>2
<1>8. \A i \in 1..L - old : i + old \in old + 1..L /\ i + old \in 1..L /\ u.last[i] = t.last[i + old]
  BY <1>1 DEF FramesEnded
<1> HIDE DEF Stays, E
<1>9. \A s \in 1..N : u.spans[s].kind = t.spans[s].kind /\ u.spans[s].from = t.spans[s].from
  <2> SUFFICES ASSUME NEW s \in 1..N
               PROVE  u.spans[s].kind = t.spans[s].kind /\ u.spans[s].from = t.spans[s].from
    OBVIOUS
  <2>1. CASE Stays(s)
    BY <1>6, <2>1
  <2>2. CASE ~Stays(s)
    <3>1. PICK i \in 1..old : s = id(i)
      BY <2>2 DEF Stays
    <3> QED
      BY <1>3, <1>4, <3>1 DEF FrameGone
  <2> QED
    BY <2>1, <2>2
<1>10. \A k \in 1..r + L - old :
         /\ k \in 1..r + L /\ u.scopes[k] = t.scopes[k] /\ t.scopes[k] \in 1..N
         /\ Stays(t.scopes[k]) /\ u.spans[t.scopes[k]] = t.spans[t.scopes[k]]
  <2> SUFFICES ASSUME NEW k \in 1..r + L - old
               PROVE  /\ k \in 1..r + L /\ u.scopes[k] = t.scopes[k] /\ t.scopes[k] \in 1..N
                      /\ Stays(t.scopes[k]) /\ u.spans[t.scopes[k]] = t.spans[t.scopes[k]]
    OBVIOUS
  <2>1. k \in 1..r + L /\ u.scopes[k] = t.scopes[k]
    BY <1>1 DEF FramesEnded
  <2>2. t.scopes[k] \in 1..N
    BY <1>1, <2>1 DEF Shaped
  <2>3. ASSUME NEW i \in 1..old PROVE t.scopes[k] # id(i)
    <3>1. i \in 1..L /\ r + L + 1 - i # k /\ r + L + 1 - i \in 1..r + L
      BY <1>1
    <3>2. t.scopes[r + L + 1 - i] = id(i)
      BY <1>4, <3>1
    <3> QED
      BY <1>1, <2>1, <3>1, <3>2, ScopesApart
  <2> QED
    BY <1>6, <2>1, <2>2, <2>3 DEF Stays
<1>11. Lined(u, r, 0)
  <2>1. Len(u.scopes) = r + Len(u.last) + 0
    BY <1>1
  <2>2. r = 1 => u.spans[u.scopes[1]].kind = "root"
    <3> SUFFICES ASSUME r = 1 PROVE u.spans[u.scopes[1]].kind = "root"
      OBVIOUS
    <3>1. 1 \in 1..r + L - old
      BY <1>1
    <3> QED
      BY <1>1, <1>10, <3>1 DEF Lined
  <2>3. ASSUME NEW i \in 1..Len(u.last)
        PROVE  /\ u.scopes[r + Len(u.last) + 1 - i] = u.last[i].span
               /\ u.spans[u.last[i].span].kind = "inferred"
    <3>1. i \in 1..L - old /\ i + old \in 1..L /\ u.last[i].span = id(i + old)
      BY <1>1, <1>8
    <3> DEFINE k == r + Len(u.last) + 1 - i
    <3>2. k = r + L + 1 - (i + old) /\ k \in 1..r + L - old
      <4>1. Len(u.last) = L - old /\ i \in 1..L - old
        BY <1>1, <3>1
      <4> HIDE DEF L
      <4> QED
        BY <1>1, <4>1
    <3>3. u.scopes[k] = t.scopes[k]
      BY <1>10, <3>2
    <3>4. t.scopes[k] = id(i + old) /\ t.spans[id(i + old)].kind = "inferred" /\ id(i + old) \in 1..N
      BY <1>4, <3>1, <3>2
    <3> QED
      BY <1>9, <3>1, <3>3, <3>4
  <2>4. r + Len(u.last) + 1..Len(u.scopes) = {}
    BY <1>1
  <2> QED
    BY <2>1, <2>2, <2>3, <2>4 DEF Lined
<1>12. Attached(u)
  <2>1. ASSUME NEW k \in 1..Len(u.scopes) PROVE u.spans[u.scopes[k]].state = "open"
    <3>1. k \in 1..r + L - old
      BY <1>1
    <3>2. u.scopes[k] = t.scopes[k] /\ u.spans[t.scopes[k]] = t.spans[t.scopes[k]]
          /\ k \in 1..Len(t.scopes)
      BY <1>1, <1>10, <3>1
    <3> QED
      BY <1>1, <3>2 DEF Attached
  <2>2. ASSUME NEW s \in 1..Len(u.spans), u.spans[s].state = "open"
        PROVE  u.spans[s].until = NoTime /\ \E k \in 1..Len(u.scopes) : u.scopes[k] = s
    <3>1. s \in 1..N
      BY <1>1
    <3>2. Stays(s)
      <4> SUFFICES ASSUME NEW i \in 1..old, s = id(i) PROVE FALSE
        BY DEF Stays
      <4> QED
        BY <1>3, <2>2 DEF FrameGone
    <3>3. u.spans[s] = t.spans[s]
      BY <1>6, <3>1, <3>2
    <3>4. PICK k \in 1..Len(t.scopes) : t.scopes[k] = s
      BY <1>1, <2>2, <3>1, <3>3 DEF Attached
    <3>5. k \in 1..r + L - old
      <4> SUFFICES ASSUME k > r + L - old PROVE FALSE
        BY <1>1
      <4>0. k \in 1..r + L /\ k > r + L - old /\ old \in 0..L
        BY <1>1
      <4>1. r + L + 1 - k \in 1..old /\ r + L + 1 - (r + L + 1 - k) = k
        <5> HIDE DEF L
        <5> QED
          BY <1>1, <4>0
      <4>2. r + L + 1 - k \in 1..L
        BY <1>1, <4>1
      <4>3. t.scopes[k] = id(r + L + 1 - k)
        BY <1>4, <4>1, <4>2
      <4> QED
        BY <3>2, <3>4, <4>1, <4>3 DEF Stays
    <3>6. u.spans[s].until = NoTime
      BY <1>1, <2>2, <3>1, <3>3 DEF Attached
    <3> QED
      BY <1>1, <1>10, <3>4, <3>5, <3>6
  <2> QED
    BY <2>1, <2>2 DEF Attached
<1>13. Chained(u)
  <2> SUFFICES ASSUME NEW k \in 1..Len(u.scopes)
               PROVE  u.spans[u.scopes[k]].parent = IF k = 1 THEN NoSpan ELSE u.scopes[k - 1]
    BY DEF Chained
  <2>1. k \in 1..r + L - old /\ k \in 1..Len(t.scopes)
    BY <1>1
  <2>2. k # 1 => k - 1 \in 1..r + L - old
    BY <1>1, <2>1
  <2>3. t.spans[t.scopes[k]].parent = IF k = 1 THEN NoSpan ELSE t.scopes[k - 1]
    BY <1>1, <2>1 DEF Chained
  <2> QED
    BY <1>10, <2>1, <2>2, <2>3
<1>14. \A s \in 1..N :
         /\ u.spans[s].from \in Int /\ u.spans[s].from <= past
         /\ u.spans[s].until \in Int /\ u.spans[s].until <= t.now
         /\ t.spans[s].until \in Int /\ t.spans[s].until <= past
  <2> SUFFICES ASSUME NEW s \in 1..N
               PROVE  /\ u.spans[s].from \in Int /\ u.spans[s].from <= past
                      /\ u.spans[s].until \in Int /\ u.spans[s].until <= t.now
                      /\ t.spans[s].until \in Int /\ t.spans[s].until <= past
    OBVIOUS
  <2>1. /\ t.spans[s].from <= past /\ t.spans[s].until <= past
        /\ t.spans[s].from \in Int /\ t.spans[s].until \in Int
    BY <1>1, ShapedTypes DEF Ready, Before
  <2>2. CASE Stays(s)
    BY <1>2, <1>6, <2>1, <2>2, SMTT(30)
  <2>3. CASE ~Stays(s)
    <3>1. PICK i \in 1..old : s = id(i)
      BY <2>3 DEF Stays
    <3>2. u.spans[s].until = NoTime \/ u.spans[s].until = E
      BY <1>3, <3>1 DEF FrameGone, E
    <3>3. u.spans[s].from = t.spans[s].from
      BY <1>9
    <3> QED
      BY <1>2, <2>1, <3>2, <3>3, SMTT(30) DEF NoTime
  <2> QED
    BY <2>2, <2>3
<1>15. Before(u, u.now)
  <2> SUFFICES ASSUME NEW s \in 1..N
               PROVE  u.spans[s].from <= t.now /\ u.spans[s].until <= t.now
    BY <1>1, <1>2 DEF Before
  <2>1. u.spans[s].from \in Int /\ u.spans[s].from <= past /\ u.spans[s].until <= t.now
    BY <1>14
  <2> QED
    BY <1>2, <2>1
<1>16. \A i \in 1..L - old : FromOf(u, i) = FromOf(t, i + old)
  BY <1>4, <1>8, <1>9 DEF FromOf
<1>17. InOrder(u)
  <2> SUFFICES ASSUME NEW i \in 1..L - old, NEW j \in 1..L - old, i < j
               PROVE  /\ u.last[j].trace <= u.last[i].trace
                      /\ FromOf(u, j) <= FromOf(u, i)
                      /\ u.last[j].trace # u.last[i].trace => FromOf(u, j) < FromOf(u, i)
    BY <1>1 DEF InOrder
  <2>1. i + old \in 1..L /\ j + old \in 1..L /\ i + old < j + old
    BY <1>1
  <2>2. InOrder(t)
    BY DEF Ready
  <2> QED
    BY <1>8, <1>16, <2>1, <2>2 DEF InOrder
<1>18. ASSUME NEW i \in 1..Len(u.last)
       PROVE  u.last[i].trace < u.trace /\ FromOf(u, i) < begin /\ u.last[i].trace \in Nat
  <2>1. i \in 1..L - old
    BY <1>1
  <2>2. t.last[i + old].trace < t.trace
    BY <1>8, <2>1 DEF Ready
  <2>3. FromOf(u, i) \in Int /\ FromOf(u, i) <= past
    BY <1>4, <1>8, <1>14, <2>1 DEF FromOf
  <2>4. u.last[i].trace \in Nat
    BY <1>1, ShapedTypes
  <2>5. u.last[i] = t.last[i + old] /\ u.trace = t.trace
    BY <1>2, <1>8, <2>1
  <2>6. FromOf(u, i) < begin
    BY <1>2, <2>3
  <2> QED
    BY <2>2, <2>4, <2>5, <2>6
<1>19. ASSUME NEW s \in 1..Len(u.spans), EndedFrame(u, s) PROVE u.spans[s].from < begin
  BY <1>1, <1>2, <1>14, SMTT(30)
<1>20. t.trace \in Nat /\ u.trace \in Nat
  BY <1>1, <1>2, ShapedTypes
<1>21. ASSUME NEW i \in 1..old, u.spans[id(i)].state = "ended"
       PROVE  /\ ~Reduces(t, i) /\ ~Short(t, id(i), until) /\ u.spans[id(i)].until = E
              /\ E > past
  <2>1. FrameGone(u, t, r, i, old, until)
    BY <1>3
  <2> QED
    BY <1>2, <1>21, <2>1 DEF FrameGone, E
<1>22. ASSUME NEW i \in 1..old, ~Reduces(t, i), ~Short(t, id(i), until)
       PROVE  u.spans[id(i)].state = "ended"
  <2>1. FrameGone(u, t, r, i, old, until)
    BY <1>3
  <2> QED
    BY <1>22, <2>1 DEF FrameGone
<1>23. \A i \in 1..L : t.last[i].trace \in Nat /\ FromOf(t, i) \in Int
  BY <1>1, <1>4, ShapedTypes DEF FromOf
<1>24. Distinct(u)
  <2> SUFFICES ASSUME t.reduction, NEW s \in 1..N, NEW x \in 1..N,
                      EndedFrame(u, s), EndedFrame(u, x), s # x
               PROVE  u.spans[s].from # u.spans[x].from \/ u.spans[s].until # u.spans[x].until
    BY <1>1, <1>2 DEF Distinct
  <2>1. CASE Stays(s) /\ Stays(x)
    <3>1. Distinct(t) /\ u.spans[s] = t.spans[s] /\ u.spans[x] = t.spans[x]
      BY <1>6, <2>1 DEF Ready
    <3>2. EndedFrame(t, s) /\ EndedFrame(t, x)
      BY <3>1 DEF EndedFrame
    <3> QED
      BY <3>1, <3>2 DEF Distinct
  <2>2. ASSUME NEW y \in 1..N, NEW z \in 1..N, Stays(y), ~Stays(z), EndedFrame(u, z)
        PROVE  u.spans[y].until # u.spans[z].until
    <3>1. u.spans[y].until \in Int /\ u.spans[y].until <= past
      BY <1>6, <1>14, <2>2
    <3>2. PICK i \in 1..old : z = id(i)
      BY <2>2 DEF Stays
    <3>3. u.spans[z].until = E /\ E > past
      BY <1>21, <2>2, <3>2 DEF EndedFrame
    <3> QED
      BY <1>2, <3>1, <3>3
  <2>3. ASSUME NEW i \in 1..old, NEW j \in 1..old, i < j, EndedFrame(u, id(j))
        PROVE  u.spans[id(i)].from # u.spans[id(j)].from
    <3>1. ~Reduces(t, j) /\ j \in 1..L /\ i \in 1..L /\ j - 1 \in 1..L /\ j > 1
      BY <1>1, <1>21, <2>3, SMTT(30) DEF EndedFrame
    <3>0. /\ t.last[i].trace \in Nat /\ t.last[j].trace \in Nat /\ t.last[j - 1].trace \in Nat
          /\ FromOf(t, i) \in Int /\ FromOf(t, j) \in Int
      BY <1>23, <3>1
    <3>2. t.last[j - 1].trace # t.last[j].trace
      BY <3>1 DEF Reduces
    <3>3. InOrder(t)
      BY DEF Ready
    <3>4. t.last[j].trace <= t.last[j - 1].trace
      BY <3>1, <3>3, SMTT(30) DEF InOrder
    <3>5. t.last[j - 1].trace <= t.last[i].trace
      <4>1. CASE i = j - 1
        BY <3>0, <4>1
      <4>2. CASE i # j - 1
        <5>1. i < j - 1
          BY <2>3, <4>2
        <5> QED
          BY <3>1, <3>3, <5>1 DEF InOrder
      <4> QED
        BY <4>1, <4>2
    <3>6. t.last[j].trace # t.last[i].trace
      BY <3>0, <3>2, <3>4, <3>5, SMTT(30)
    <3>7. FromOf(t, j) < FromOf(t, i)
      BY <2>3, <3>1, <3>3, <3>6 DEF InOrder
    <3> QED
      <4>1. u.spans[id(i)].from = FromOf(t, i) /\ u.spans[id(j)].from = FromOf(t, j)
        BY <1>4, <1>9, <3>1 DEF FromOf
      <4> QED
        BY <3>0, <3>7, <4>1
  <2>4. CASE ~Stays(s) /\ ~Stays(x)
    <3>1. PICK i \in 1..old : s = id(i)
      BY <2>4 DEF Stays
    <3>2. PICK j \in 1..old : x = id(j)
      BY <2>4 DEF Stays
    <3>3. i < j \/ j < i
      BY <3>1, <3>2
    <3> QED
      BY <2>3, <3>1, <3>2, <3>3
  <2> QED
    BY <2>1, <2>2, <2>4
<1>25. Rooted(u, Older(u))
  <2>1. ASSUME NEW i \in old + 1..L
        PROVE  i - old \in Older(u) /\ u.last[i - old] = t.last[i]
    <3>1. i - old \in 1..L - old /\ i - old + old = i
      BY <1>1
    <3> QED
      BY <1>1, <1>8, <1>18, <1>20, <3>1 DEF Older
  <2>2. ASSUME NEW s \in 1..N, Kept(u, s), Stays(s) PROVE Hangs(u, s, Older(u))
    <3> DEFINE p == t.spans[s].parent
    <3>1. u.spans[s] = t.spans[s] /\ p = u.spans[s].parent
      BY <1>6, <2>2
    <3>2. Hangs(t, s, 1..L)
      BY <1>2, <2>2, <3>1 DEF Kept, Ready, Rooted
    <3>3. p \in 1..N \/ p = NoSpan
      <4>1. p \in Nat /\ p < s
        BY <1>1, ShapedTypes DEF Shaped
      <4> HIDE DEF p
      <4> QED
        BY <1>1, <4>1 DEF NoSpan
    <3> HIDE DEF p
    <3>4. CASE p = NoSpan
      BY <3>1, <3>4 DEF Hangs
    <3>5. CASE p \in 1..N /\ Stays(p)
                /\ (t.spans[p].state = "ended" \/ (t.spans[p].state = "open" /\ t.spans[p].kind # "inferred"))
      <4>1. u.spans[p] = t.spans[p]
        BY <1>6, <3>5
      <4> QED
        BY <3>1, <3>5, <4>1 DEF Hangs
    <3>6. CASE p \in 1..N /\ ~Stays(p)
                /\ (t.spans[p].state = "ended" \/ (t.spans[p].state = "open" /\ t.spans[p].kind # "inferred"))
      <4>1. PICK i \in 1..old : p = id(i)
        BY <3>6 DEF Stays
      <4> QED
        BY <1>3, <1>4, <3>6, <4>1
    <3>7. ASSUME NEW i \in 1..L, p = id(i), Keeper(t, i),
                 t.minDuration > 0 => t.spans[s].until - t.spans[p].from >= t.minDuration
          PROVE  Hangs(u, s, Older(u))
      <4>1. /\ t.spans[s].until \in Int /\ t.spans[s].until <= past
            /\ t.spans[p].from \in Int /\ u.spans[p].from = t.spans[p].from
        BY <1>4, <1>9, <1>14, <3>7
      <4>2. CASE i <= old
        <5>1. i \in 1..old /\ ~Reduces(t, i)
          BY <1>1, <3>7, <4>2 DEF Keeper, Reduces
        <5>2. ~Short(t, id(i), until)
          <6>1. t.minDuration > 0 => ~(E - t.spans[p].from < t.minDuration)
            <7> SUFFICES ASSUME t.minDuration > 0 PROVE ~(E - t.spans[p].from < t.minDuration)
              OBVIOUS
            <7>1. t.spans[s].until - t.spans[p].from >= t.minDuration
              BY <3>7
            <7>2. t.spans[s].until < E
              BY <1>2, <4>1
            <7>3. \A a, b, d, e \in Int : a - b >= d /\ a < e => ~(e - b < d)
              OBVIOUS
            <7>4. /\ t.spans[s].until \in Int /\ t.spans[p].from \in Int
                  /\ t.minDuration \in Int /\ E \in Int
              BY <1>2, <4>1
            <7> QED
              BY <7>1, <7>2, <7>3, <7>4, Zenon
          <6> QED
            BY <3>7, <6>1 DEF Short, E
        <5>3. u.spans[p].state = "ended"
          BY <1>22, <3>7, <5>1, <5>2
        <5> QED
          BY <3>1, <5>3 DEF Hangs
      <4>3. CASE ~(i <= old)
        <5>1. i \in old + 1..L /\ i - old \in Older(u) /\ u.last[i - old] = t.last[i]
          BY <1>1, <2>1, <4>3, SMTT(30)
        <5>2. Keeper(u, i - old)
          <6>1. CASE i - old = 1
            BY <6>1 DEF Keeper
          <6>2. CASE i - old # 1
            <7>1. i - 1 \in old + 1..L /\ i - old - 1 = i - 1 - old /\ i # 1
              <8> HIDE DEF L
              <8>1. L \in Nat /\ old \in Nat
                BY <1>1
              <8>2. i \in old + 1..L
                BY <5>1
              <8> QED
                BY <6>2, <8>1, <8>2
            <7>2. u.last[i - old - 1] = t.last[i - 1]
              BY <2>1, <7>1
            <7> QED
              BY <1>2, <3>7, <5>1, <7>1, <7>2 DEF Keeper
          <6> QED
            BY <6>1, <6>2
        <5>3. u.minDuration > 0 => u.spans[s].until - u.spans[p].from >= u.minDuration
          BY <1>2, <3>1, <3>7, <4>1
        <5> QED
          BY <3>1, <3>7, <5>1, <5>2, <5>3 DEF Hangs
      <4> QED
        BY <4>2, <4>3
    <3> QED
      BY <3>2, <3>3, <3>4, <3>5, <3>6, <3>7 DEF Hangs, p
  <2>3. ASSUME NEW i \in 1..old, Kept(u, id(i)) PROVE Hangs(u, id(i), Older(u))
    <3>1. ~Reduces(t, i) /\ ~Short(t, id(i), until) /\ u.spans[id(i)].until = E
      BY <1>21, <2>3 DEF Kept
    <3>2. PICK m \in i..old :
            /\ u.spans[id(i)].parent = Below(t, r, m)
            /\ t.reduction => m = old \/ t.last[m + 1].trace # t.last[m].trace
      BY <1>3, <3>1 DEF FrameGone
    <3>3. CASE m < L
      <4> DEFINE q == id(m + 1)
      <4>1. /\ m + 1 \in 1..L /\ i \in 1..L /\ i < m + 1 /\ m \in Nat
            /\ m + 1 # 1 /\ m + 1 - 1 = m
        BY <1>1, <3>3
      <4>2. u.spans[id(i)].parent = q
        BY <3>2, <3>3 DEF Below
      <4>3. FromOf(t, m + 1) <= FromOf(t, i)
        BY <4>1 DEF Ready, InOrder
      <4>4. t.minDuration > 0 => E - FromOf(t, m + 1) >= t.minDuration
        <5>1. t.minDuration > 0 => ~(E - FromOf(t, i) < t.minDuration)
          BY <3>1 DEF Short, E, FromOf
        <5>2. FromOf(t, m + 1) \in Int /\ FromOf(t, i) \in Int
          BY <1>23, <4>1
        <5> QED
          BY <1>2, <4>3, <5>1, <5>2
      <4>5. CASE m < old
        <5>1. m + 1 \in 1..old /\ ~Reduces(t, m + 1)
          BY <1>1, <3>2, <4>1, <4>5 DEF Reduces
        <5>2. ~Short(t, id(m + 1), until)
          <6>1. FromOf(t, m + 1) \in Int
            BY <1>23, <4>1
          <6>2. t.minDuration > 0 => ~(E - FromOf(t, m + 1) < t.minDuration)
            BY <1>2, <4>4, <6>1
          <6> QED
            BY <6>2 DEF Short, E, FromOf
        <5>3. u.spans[q].state = "ended"
          BY <1>22, <5>1, <5>2
        <5> QED
          BY <4>2, <5>3 DEF Hangs
      <4>6. CASE m = old
        <5>1. 1 \in Older(u) /\ u.last[1] = t.last[m + 1]
          <6>1. m + 1 \in old + 1..L /\ m + 1 - old = 1
            BY <1>1, <4>1, <4>6
          <6>2. m + 1 - old \in Older(u) /\ u.last[m + 1 - old] = t.last[m + 1]
            BY <2>1, <6>1
          <6> QED
            BY <6>1, <6>2
        <5>2. Keeper(u, 1) /\ q = u.last[1].span
          BY <5>1 DEF Keeper
        <5>3. u.spans[q].from = FromOf(t, m + 1)
          BY <1>4, <1>9, <4>1 DEF FromOf
        <5>4. u.minDuration > 0 => u.spans[id(i)].until - u.spans[q].from >= u.minDuration
          BY <1>2, <3>1, <4>4, <5>3
        <5> HIDE DEF q
        <5> QED
          BY <4>2, <5>1, <5>2, <5>4 DEF Hangs
      <4> QED
        BY <1>1, <4>5, <4>6
    <3>4. CASE ~(m < L)
      <4>1. m = L /\ old = L
        BY <1>1, <3>4
      <4>2. u.spans[id(i)].parent = IF r = 1 THEN t.scopes[1] ELSE NoSpan
        BY <3>2, <3>4 DEF Below
      <4>3. CASE r = 1
        <5>1. 1 \in 1..r + L - old /\ 1 \in 1..Len(t.scopes)
          BY <1>1, <4>1, <4>3
        <5>2. u.spans[t.scopes[1]] = t.spans[t.scopes[1]]
          BY <1>10, <5>1
        <5>3. t.spans[t.scopes[1]].kind = "root" /\ t.spans[t.scopes[1]].state = "open"
          BY <1>1, <4>3, <5>1 DEF Lined, Attached
        <5> QED
          BY <4>2, <4>3, <5>2, <5>3 DEF Hangs
      <4>4. CASE r # 1
        BY <4>2, <4>4 DEF Hangs
      <4> QED
        BY <4>3, <4>4
    <3> QED
      BY <3>3, <3>4
  <2> QED
    BY <1>1, <2>2, <2>3 DEF Rooted, Stays
<1>26. \A i \in 1..Len(u.last) :
       /\ u.last[i].trace <= u.trace
       /\ u.last[i].trace = u.trace => FromOf(u, i) = begin
       /\ u.last[i].trace # u.trace => FromOf(u, i) < begin
  BY <1>18, <1>20
<1> QED
  BY <1>1, <1>2, <1>11, <1>12, <1>13, <1>15, <1>17, <1>19, <1>24, <1>25, <1>26 DEF Between


-----------------------------------------------------------------------------
(* From Between to rest: the frames that are new.                          *)

LEMMA CurrentIs ==
  ASSUME NEW F, NEW t, Shaped(t, F)
  PROVE  /\ Current(t) \in 0..Len(t.spans)
         /\ Current(t) = IF Len(t.scopes) = 0 THEN NoSpan ELSE t.scopes[Len(t.scopes)]
         /\ t.scopes = << >> <=> Len(t.scopes) = 0
<1>1. t.scopes \in Seq(Nat) /\ Len(t.scopes) \in Nat /\ Len(t.spans) \in Nat
  BY ShapedTypes
<1>2. t.scopes = << >> <=> Len(t.scopes) = 0
  BY <1>1
<1>3. Current(t) = IF Len(t.scopes) = 0 THEN NoSpan ELSE t.scopes[Len(t.scopes)]
  BY <1>2 DEF Current, Last
<1>4. CASE Len(t.scopes) = 0
  BY <1>1, <1>2, <1>3, <1>4 DEF NoSpan
<1>5. CASE Len(t.scopes) # 0
  <2>1. Len(t.scopes) \in 1..Len(t.scopes)
    BY <1>1, <1>5
  <2>2. t.scopes[Len(t.scopes)] \in 1..Len(t.spans)
    BY <2>1 DEF Shaped
  <2> QED
    BY <1>1, <1>2, <1>3, <1>5, <2>2
<1> QED
  BY <1>4, <1>5

\* With no scopes of hooks, the newest one is that of the frame on top.
LEMMA TopIsCurrent ==
  ASSUME NEW F, NEW t, Shaped(t, F), NEW r \in 0..1, Lined(t, r, 0)
  PROVE  Current(t) = Below(t, r, 0)
<1>1. Len(t.last) \in Nat /\ Len(t.scopes) = r + Len(t.last) /\ t.scopes \in Seq(Nat)
  BY ShapedTypes DEF Lined
<1>2. Current(t) = IF Len(t.scopes) = 0 THEN NoSpan ELSE t.scopes[Len(t.scopes)]
  BY CurrentIs
<1>3. CASE 0 < Len(t.last)
  <2>1. 1 \in 1..Len(t.last) /\ r + Len(t.last) + 1 - 1 = Len(t.scopes) /\ Len(t.scopes) # 0
    BY <1>1, <1>3
  <2>2. t.scopes[r + Len(t.last) + 1 - 1] = t.last[1].span
    BY <2>1 DEF Lined
  <2> QED
    BY <1>2, <1>3, <2>1, <2>2 DEF Below
<1>4. CASE ~(0 < Len(t.last))
  BY <1>1, <1>2, <1>4 DEF Below
<1> QED
  BY <1>3, <1>4

\* A parent that is kept for some frames is kept for more of them.
LEMMA HangsAnyway ==
  ASSUME NEW t, NEW s, NEW X, NEW Y, X \subseteq Y, Hangs(t, s, X)
  PROVE  Hangs(t, s, Y)
BY DEF Hangs

LEMMA BetweenIsSound ==
  ASSUME NEW F, NEW t, NEW r, NEW begin, Between(t, r, begin, F)
  PROVE  Sound(t, r, 0, F)
<1>1. Older(t) \subseteq 1..Len(t.last)
  BY DEF Older
<1>2. Rooted(t, 1..Len(t.last))
  BY <1>1, HangsAnyway DEF Between, Rooted
<1> QED
  BY <1>2 DEF Between, Sound

LEMMA FrameStarts ==
  ASSUME NEW F, NEW t, NEW r \in 0..1, NEW begin, Between(t, r, begin, F), NEW fn \in F,
         NEW dur \in Int, begin = t.now - dur,
         NEW u, NewFrame(u, t, fn, Current(t), dur, FALSE, F)
  PROVE  Between(u, r, begin, F)
<1> DEFINE L == Len(t.last)
           N == Len(t.spans)
           n == N + 1
<1>1. /\ L \in Nat /\ N \in Nat /\ n \in Nat /\ r \in Nat /\ t.now \in Nat /\ t.trace \in Nat
      /\ Shaped(t, F) /\ Lined(t, r, 0) /\ Attached(t) /\ Chained(t) /\ Len(t.scopes) = r + L
      /\ begin \in Int /\ begin <= t.now
  BY ShapedTypes DEF Between, Lined
<1>2. /\ Shaped(u, F) /\ Len(u.spans) = n /\ Len(u.last) = L + 1 /\ Len(u.scopes) = r + L + 1
      /\ u.trace = t.trace /\ u.now = t.now /\ u.reduction = t.reduction
      /\ u.minDuration = t.minDuration
      /\ \A s \in 1..N : u.spans[s] = t.spans[s]
      /\ \A k \in 1..r + L : u.scopes[k] = t.scopes[k]
      /\ \A i \in 1..L : u.last[i + 1] = t.last[i]
      /\ u.scopes[r + L + 1] = n
      /\ u.last[1].span = n /\ u.last[1].trace = t.trace
      /\ u.spans[n].kind = "inferred" /\ u.spans[n].parent = Current(t)
      /\ u.spans[n].from = begin /\ u.spans[n].until = NoTime /\ u.spans[n].state = "open"
  <2>1. /\ u.last[1] = [fn |-> fn, span |-> n, trace |-> t.trace]
        /\ u.spans[n] = [kind |-> "inferred", fn |-> fn, parent |-> Current(t),
                         from |-> begin, until |-> NoTime, state |-> "open"]
    BY DEF NewFrame
  <2>2. /\ Shaped(u, F) /\ Len(u.spans) = n /\ Len(u.last) = L + 1
        /\ Len(u.scopes) = Len(t.scopes) + 1 /\ SameRun(u, t)
        /\ \A s \in 1..N : u.spans[s] = t.spans[s]
        /\ \A k \in 1..Len(t.scopes) : u.scopes[k] = t.scopes[k]
        /\ \A i \in 1..L : u.last[i + 1] = t.last[i]
        /\ u.scopes[Len(t.scopes) + 1] = n
    BY DEF NewFrame
  <2>3. Len(t.scopes) = r + L
    BY <1>1
  <2>4. /\ u.last[1].span = n /\ u.last[1].trace = t.trace
        /\ u.spans[n].kind = "inferred" /\ u.spans[n].parent = Current(t)
        /\ u.spans[n].from = begin /\ u.spans[n].until = NoTime /\ u.spans[n].state = "open"
    <3> HIDE DEF n
    <3> QED
      BY <2>1
  <2>5. /\ u.trace = t.trace /\ u.now = t.now /\ u.reduction = t.reduction
        /\ u.minDuration = t.minDuration
    BY <2>2 DEF SameRun
  <2> HIDE DEF n, N, L
  <2> QED
    BY <2>2, <2>3, <2>4, <2>5, Zenon
<1>3. ASSUME NEW i \in 1..L + 1, i # 1
      PROVE  /\ i - 1 \in 1..L /\ u.last[i] = t.last[i - 1] /\ t.last[i - 1].span \in 1..N
             /\ u.spans[u.last[i].span] = t.spans[t.last[i - 1].span]
             /\ u.last[i].trace \in Nat /\ u.last[i].trace <= t.trace
             /\ FromOf(u, i) = FromOf(t, i - 1) /\ FromOf(u, i) \in Int
             /\ FromOf(u, i) <= begin
             /\ u.last[i].trace = t.trace => FromOf(u, i) = begin
             /\ u.last[i].trace # t.trace => FromOf(u, i) < begin
  <2>1. i - 1 \in 1..L /\ i - 1 + 1 = i
    BY <1>1, <1>3
  <2>2. u.last[i] = t.last[i - 1]
    BY <1>2, <2>1
  <2>3. t.last[i - 1].span \in 1..N
    BY <1>1, <2>1 DEF Shaped
  <2>4. u.spans[u.last[i].span] = t.spans[t.last[i - 1].span]
    BY <1>2, <2>2, <2>3
  <2>5. /\ t.last[i - 1].trace \in Nat /\ t.last[i - 1].trace <= t.trace
        /\ FromOf(t, i - 1) \in Int
        /\ t.last[i - 1].trace = t.trace => FromOf(t, i - 1) = begin
        /\ t.last[i - 1].trace # t.trace => FromOf(t, i - 1) < begin
    BY <1>1, <2>1, <2>3, ShapedTypes DEF Between, FromOf
  <2>6. FromOf(u, i) = FromOf(t, i - 1)
    BY <2>4 DEF FromOf
  <2>7. FromOf(u, i) <= begin
    BY <1>1, <2>5, <2>6
  <2> QED
    BY <2>1, <2>2, <2>3, <2>4, <2>5, <2>6, <2>7
<1>4. FromOf(u, 1) = begin
  BY <1>2 DEF FromOf
<1>5. ASSUME NEW k \in 1..r + L
      PROVE  /\ u.scopes[k] = t.scopes[k] /\ t.scopes[k] \in 1..N
             /\ u.spans[t.scopes[k]] = t.spans[t.scopes[k]]
  <2>1. t.scopes[k] \in 1..N
    BY <1>1 DEF Shaped
  <2> QED
    BY <1>2, <2>1
<1>6. Lined(u, r, 0)
  <2>1. Len(u.scopes) = r + Len(u.last) + 0
    BY <1>1, <1>2
  <2>2. r = 1 => u.spans[u.scopes[1]].kind = "root"
    <3>1. r = 1 => 1 \in 1..r + L
      BY <1>1
    <3> QED
      BY <1>1, <1>5, <3>1 DEF Lined
  <2>3. ASSUME NEW i \in 1..Len(u.last)
        PROVE  /\ u.scopes[r + Len(u.last) + 1 - i] = u.last[i].span
               /\ u.spans[u.last[i].span].kind = "inferred"
    <3>1. CASE i = 1
      <4>1. r + Len(u.last) + 1 - 1 = r + L + 1
        BY <1>1, <1>2
      <4> QED
        BY <1>2, <3>1, <4>1
    <3>2. CASE i # 1
      <4>1. /\ i - 1 \in 1..L /\ u.last[i] = t.last[i - 1]
            /\ u.spans[u.last[i].span] = t.spans[t.last[i - 1].span]
        BY <1>2, <1>3, <3>2
      <4>2. /\ r + Len(u.last) + 1 - i = r + L + 1 - (i - 1)
            /\ r + L + 1 - (i - 1) \in 1..r + L
        <5>1. Len(u.last) = L + 1 /\ i \in 2..L + 1
          BY <1>1, <1>2, <3>2
        <5> HIDE DEF L
        <5> QED
          BY <1>1, <5>1
      <4>3. t.scopes[r + L + 1 - (i - 1)] = t.last[i - 1].span
            /\ t.spans[t.last[i - 1].span].kind = "inferred"
        BY <1>1, <4>1 DEF Lined
      <4> QED
        BY <1>5, <4>1, <4>2, <4>3
    <3> QED
      BY <3>1, <3>2
  <2>4. r + Len(u.last) + 1..Len(u.scopes) = {}
    BY <1>1, <1>2
  <2> QED
    BY <2>1, <2>2, <2>3, <2>4 DEF Lined
<1>7. Attached(u)
  <2>1. ASSUME NEW k \in 1..Len(u.scopes) PROVE u.spans[u.scopes[k]].state = "open"
    <3>1. k \in 1..r + L \/ k = r + L + 1
      BY <1>1, <1>2
    <3>2. k \in 1..r + L => t.spans[t.scopes[k]].state = "open"
      BY <1>1 DEF Attached
    <3> QED
      BY <1>2, <1>5, <3>1, <3>2
  <2>2. ASSUME NEW s \in 1..Len(u.spans), u.spans[s].state = "open"
        PROVE  u.spans[s].until = NoTime /\ \E k \in 1..Len(u.scopes) : u.scopes[k] = s
    <3>1. CASE s = n
      <4>1. r + L + 1 \in 1..Len(u.scopes)
        BY <1>1, <1>2
      <4> QED
        BY <1>2, <3>1, <4>1
    <3>2. CASE s # n
      <4>1. s \in 1..N
        BY <1>1, <1>2, <3>2
      <4>2. u.spans[s] = t.spans[s]
        BY <1>2, <4>1
      <4>3. t.spans[s].until = NoTime /\ \E k \in 1..Len(t.scopes) : t.scopes[k] = s
        BY <1>1, <2>2, <4>1, <4>2 DEF Attached
      <4>4. PICK k \in 1..r + L : t.scopes[k] = s
        BY <1>1, <4>3
      <4>5. k \in 1..Len(u.scopes) /\ u.scopes[k] = s
        <5>1. u.scopes[k] = s
          BY <1>2, <4>4
        <5>2. Len(u.scopes) = r + L + 1
          BY <1>2
        <5> HIDE DEF L
        <5> QED
          BY <1>1, <4>4, <5>1, <5>2
      <4> QED
        BY <4>2, <4>3, <4>5
    <3> QED
      BY <3>1, <3>2
  <2> QED
    BY <2>1, <2>2 DEF Attached
<1>8. Chained(u)
  <2> SUFFICES ASSUME NEW k \in 1..Len(u.scopes)
               PROVE  u.spans[u.scopes[k]].parent = IF k = 1 THEN NoSpan ELSE u.scopes[k - 1]
    BY DEF Chained
  <2>1. k \in Nat /\ (k # 1 /\ k # r + L + 1 => k - 1 \in 1..r + L) /\ (k \in 1..r + L \/ k = r + L + 1)
    BY <1>1, <1>2
  <2>2. CASE k \in 1..r + L
    <3>1. t.spans[t.scopes[k]].parent = IF k = 1 THEN NoSpan ELSE t.scopes[k - 1]
      BY <1>1, <2>2 DEF Chained
    <3>2. k # 1 => u.scopes[k - 1] = t.scopes[k - 1]
      <4>1. k # 1 => k - 1 \in 1..r + L
        <5> HIDE DEF L
        <5> QED
          BY <1>1, <2>2
      <4> QED
        BY <1>2, <4>1
    <3> QED
      BY <1>5, <2>2, <3>1, <3>2
  <2>3. CASE k = r + L + 1
    <3>1. u.spans[u.scopes[k]].parent = Current(t)
      BY <1>2, <2>3
    <3>2. Current(t) = IF r + L = 0 THEN NoSpan ELSE t.scopes[r + L]
      BY <1>1, CurrentIs
    <3>3. r + L # 0 => r + L \in 1..r + L
      BY <1>1
    <3>4. k - 1 = r + L /\ (k = 1 <=> r + L = 0)
      BY <1>1, <2>3
    <3>5. r + L # 0 => u.scopes[r + L] = t.scopes[r + L]
      BY <1>2, <3>3
    <3> QED
      BY <3>1, <3>2, <3>4, <3>5
  <2> QED
    BY <2>1, <2>2, <2>3
<1>9. Before(u, u.now)
  <2> SUFFICES ASSUME NEW s \in 1..n PROVE u.spans[s].from <= t.now /\ u.spans[s].until <= t.now
    BY <1>2 DEF Before
  <2>1. s \in 1..N \/ s = n
    BY <1>1
  <2>2. s \in 1..N => t.spans[s].from <= t.now /\ t.spans[s].until <= t.now
    BY DEF Between, Before
  <2>3. NoTime <= t.now
    BY <1>1 DEF NoTime
  <2> QED
    BY <1>1, <1>2, <2>1, <2>2, <2>3
<1>10. InOrder(u)
  <2> SUFFICES ASSUME NEW i \in 1..L + 1, NEW j \in 1..L + 1, i < j
               PROVE  /\ u.last[j].trace <= u.last[i].trace
                      /\ FromOf(u, j) <= FromOf(u, i)
                      /\ u.last[j].trace # u.last[i].trace => FromOf(u, j) < FromOf(u, i)
    BY <1>2 DEF InOrder
  <2>1. j # 1
    OBVIOUS
  <2>2. CASE i = 1
    BY <1>2, <1>3, <1>4, <2>1, <2>2
  <2>3. CASE i # 1
    <3>1. i - 1 \in 1..L /\ j - 1 \in 1..L /\ i - 1 < j - 1
      BY <1>1, <2>1, <2>3
    <3>2. InOrder(t)
      BY DEF Between
    <3>3. /\ u.last[i] = t.last[i - 1] /\ u.last[j] = t.last[j - 1]
          /\ FromOf(u, i) = FromOf(t, i - 1) /\ FromOf(u, j) = FromOf(t, j - 1)
      BY <1>3, <2>1, <2>3
    <3> QED
      BY <3>1, <3>2, <3>3 DEF InOrder
  <2> QED
    BY <2>2, <2>3
<1>11. Rooted(u, Older(u))
  <2> SUFFICES ASSUME NEW s \in 1..n, Kept(u, s) PROVE Hangs(u, s, Older(u))
    BY <1>2 DEF Rooted
  <2>1. s \in 1..N
    BY <1>1, <1>2 DEF Kept
  <2> DEFINE p == t.spans[s].parent
  <2>2. u.spans[s] = t.spans[s]
    BY <1>2, <2>1
  <2>3. Hangs(t, s, Older(t))
    BY <1>2, <2>1, <2>2 DEF Kept, Between, Rooted
  <2>4. p = NoSpan \/ u.spans[p] = t.spans[p]
    <3>1. p \in Nat /\ p < s
      BY <1>1, <2>1, ShapedTypes DEF Shaped
    <3>2. p = NoSpan \/ p \in 1..N
      <4> HIDE DEF p
      <4> QED
        BY <1>1, <2>1, <3>1 DEF NoSpan
    <3> QED
      BY <1>2, <3>2
  <2>5. ASSUME NEW i \in Older(t), p = t.last[i].span, Keeper(t, i),
               t.minDuration > 0 => t.spans[s].until - t.spans[p].from >= t.minDuration,
               u.spans[p] = t.spans[p]
        PROVE  Hangs(u, s, Older(u))
    <3>1. i \in 1..L /\ t.last[i].trace # t.trace /\ i + 1 \in 1..L + 1 /\ u.last[i + 1] = t.last[i]
          /\ i + 1 # 1 /\ i + 1 - 1 = i
      BY <1>1, <1>2 DEF Older
    <3>2. i + 1 \in Older(u) /\ p = u.last[i + 1].span
      BY <1>2, <2>5, <3>1 DEF Older
    <3>3. Keeper(u, i + 1)
      <4>1. CASE i = 1
        BY <1>2, <3>1, <4>1 DEF Keeper
      <4>2. CASE i # 1
        <5>1. i - 1 \in 1..L /\ i - 1 + 1 = i
          <6> HIDE DEF L
          <6> QED
            BY <1>1, <3>1, <4>2, SMTT(30)
        <5>2. u.last[i] = t.last[i - 1]
          BY <1>2, <5>1
        <5> QED
          BY <1>2, <2>5, <3>1, <4>2, <5>2, SMTT(30) DEF Keeper
      <4> QED
        BY <4>1, <4>2
    <3> HIDE DEF p
    <3>4. u.minDuration > 0 => u.spans[s].until - u.spans[p].from >= u.minDuration
      BY <1>2, <2>2, <2>5
    <3>5. p = u.spans[s].parent
      BY <2>2 DEF p
    <3> QED
      BY <3>2, <3>3, <3>4, <3>5 DEF Hangs
  <2> QED
    BY <2>2, <2>3, <2>4, <2>5 DEF Hangs
<1>12. Distinct(u)
  <2> SUFFICES ASSUME t.reduction, NEW s \in 1..n, NEW x \in 1..n,
                      EndedFrame(u, s), EndedFrame(u, x), s # x
               PROVE  u.spans[s].from # u.spans[x].from \/ u.spans[s].until # u.spans[x].until
    BY <1>2 DEF Distinct
  <2>1. s \in 1..N /\ x \in 1..N
    <3>1. s # n /\ x # n
      BY <1>2 DEF EndedFrame
    <3> QED
      BY <1>1, <3>1, SMTT(30)
  <2>2. u.spans[s] = t.spans[s] /\ u.spans[x] = t.spans[x]
    BY <1>2, <2>1
  <2> QED
    BY <2>1, <2>2 DEF EndedFrame, Between, Distinct
<1>13. ASSUME NEW i \in 1..Len(u.last)
       PROVE  /\ u.last[i].trace <= u.trace
              /\ u.last[i].trace = u.trace => FromOf(u, i) = begin
              /\ u.last[i].trace # u.trace => FromOf(u, i) < begin
  <2>1. CASE i = 1
    BY <1>1, <1>2, <1>4, <2>1
  <2>2. CASE i # 1
    BY <1>2, <1>3, <2>2
  <2> QED
    BY <2>1, <2>2
<1>14. ASSUME NEW s \in 1..Len(u.spans), EndedFrame(u, s) PROVE u.spans[s].from < begin
  <2>1. s \in 1..N
    BY <1>1, <1>2, <1>14 DEF EndedFrame
  <2>2. u.spans[s] = t.spans[s]
    BY <1>2, <2>1
  <2> QED
    BY <1>14, <2>1, <2>2 DEF EndedFrame, Between
<1> QED
  BY <1>1, <1>2, <1>6, <1>7, <1>8, <1>9, <1>10, <1>11, <1>12, <1>13, <1>14 DEF Between


\* The internal function on top has ended by the time it is seen.
LEMMA FrameStartsEnded ==
  ASSUME NEW F, NEW t, NEW r \in 0..1, NEW begin, Between(t, r, begin, F), NEW fn \in F,
         NEW dur \in Int, begin = t.now - dur,
         NEW u, NewFrame(u, t, fn, Current(t), dur, TRUE, F)
  PROVE  Sound(u, r, 0, F)
<1> DEFINE L == Len(t.last)
           N == Len(t.spans)
           n == N + 1
           brief == t.minDuration > 0 /\ dur < t.minDuration
<1>1. /\ L \in Nat /\ N \in Nat /\ n \in Nat /\ r \in Nat /\ t.now \in Nat /\ t.trace \in Nat
      /\ t.minDuration \in Nat
      /\ Shaped(t, F) /\ Lined(t, r, 0) /\ Attached(t) /\ Chained(t) /\ Len(t.scopes) = r + L
      /\ begin \in Int /\ begin <= t.now
  BY ShapedTypes DEF Between, Lined
<1>2. /\ Shaped(u, F) /\ Len(u.spans) = n /\ u.last = t.last /\ Len(u.scopes) = r + L
      /\ u.trace = t.trace /\ u.now = t.now /\ u.reduction = t.reduction
      /\ u.minDuration = t.minDuration
      /\ \A s \in 1..N : u.spans[s] = t.spans[s]
      /\ \A k \in 1..r + L : u.scopes[k] = t.scopes[k]
      /\ u.spans[n].kind = "inferred" /\ u.spans[n].parent = Current(t) /\ u.spans[n].from = begin
      /\ IF brief THEN u.spans[n].state = "dropped" /\ u.spans[n].until = NoTime
                  ELSE u.spans[n].state = "ended" /\ u.spans[n].until = t.now
  <2> DEFINE open == [kind |-> "inferred", fn |-> fn, parent |-> Current(t),
                      from |-> begin, until |-> NoTime, state |-> "open"]
  <2>1. u.spans[n] = IF brief THEN [open EXCEPT !.state = "dropped"]
                     ELSE [open EXCEPT !.state = "ended", !.until = t.now]
    BY DEF NewFrame
  <2>2. /\ Shaped(u, F) /\ Len(u.spans) = n /\ u.last = t.last
        /\ Len(u.scopes) = Len(t.scopes) /\ SameRun(u, t)
        /\ \A s \in 1..N : u.spans[s] = t.spans[s]
        /\ \A k \in 1..Len(t.scopes) : u.scopes[k] = t.scopes[k]
    BY DEF NewFrame
  <2>3. /\ u.spans[n].kind = "inferred" /\ u.spans[n].parent = Current(t) /\ u.spans[n].from = begin
        /\ IF brief THEN u.spans[n].state = "dropped" /\ u.spans[n].until = NoTime
                    ELSE u.spans[n].state = "ended" /\ u.spans[n].until = t.now
    <3> HIDE DEF brief, n
    <3> QED
      BY <2>1
  <2>4. /\ Len(u.scopes) = r + L /\ u.trace = t.trace /\ u.now = t.now
        /\ u.reduction = t.reduction /\ u.minDuration = t.minDuration
        /\ \A k \in 1..r + L : u.scopes[k] = t.scopes[k]
    BY <1>1, <2>2 DEF SameRun
  <2> QED
    BY <2>2, <2>3, <2>4, Zenon
<1>3. ASSUME NEW k \in 1..r + L
      PROVE  /\ u.scopes[k] = t.scopes[k] /\ t.scopes[k] \in 1..N
             /\ u.spans[t.scopes[k]] = t.spans[t.scopes[k]]
  <2>1. t.scopes[k] \in 1..N
    BY <1>1 DEF Shaped
  <2> QED
    BY <1>2, <2>1
<1>4. ASSUME NEW i \in 1..L
      PROVE  /\ t.last[i].span \in 1..N /\ u.spans[t.last[i].span] = t.spans[t.last[i].span]
             /\ FromOf(u, i) = FromOf(t, i) /\ FromOf(t, i) \in Int /\ FromOf(t, i) <= begin
             /\ t.last[i].trace <= t.trace
  <2>1. t.last[i].span \in 1..N
    BY <1>1 DEF Shaped
  <2>2. FromOf(u, i) = FromOf(t, i) /\ FromOf(t, i) \in Int
    BY <1>1, <1>2, <2>1, ShapedTypes DEF FromOf
  <2>3. /\ t.last[i].trace = t.trace => FromOf(t, i) = begin
        /\ t.last[i].trace # t.trace => FromOf(t, i) < begin
        /\ t.last[i].trace <= t.trace
    BY DEF Between
  <2>4. FromOf(t, i) <= begin
    <3>1. begin \in Int
      BY <1>1
    <3> QED
      BY <2>2, <2>3, <3>1
  <2>5. u.spans[t.last[i].span] = t.spans[t.last[i].span]
    BY <1>2, <2>1
  <2> QED
    BY <2>1, <2>2, <2>3, <2>4, <2>5, Zenon
<1>5. Lined(u, r, 0)
  <2>1. r = 1 => u.spans[u.scopes[1]].kind = "root"
    <3>1. r = 1 => 1 \in 1..r + L
      BY <1>1
    <3> QED
      BY <1>1, <1>3, <3>1 DEF Lined
  <2>2. ASSUME NEW i \in 1..L
        PROVE  /\ u.scopes[r + L + 1 - i] = u.last[i].span
               /\ u.spans[u.last[i].span].kind = "inferred"
    <3>1. r + L + 1 - i \in 1..r + L
      <4>1. i \in 1..L
        OBVIOUS
      <4> HIDE DEF L
      <4> QED
        BY <1>1, <4>1
    <3>2. t.scopes[r + L + 1 - i] = t.last[i].span /\ t.spans[t.last[i].span].kind = "inferred"
      BY <1>1 DEF Lined
    <3> QED
      BY <1>2, <1>3, <1>4, <3>1, <3>2
  <2>3. r + L + 1..Len(u.scopes) = {} /\ Len(u.scopes) = r + L + 0
    BY <1>1, <1>2
  <2> QED
    BY <1>2, <2>1, <2>2, <2>3 DEF Lined
<1>6. Attached(u)
  <2>1. ASSUME NEW k \in 1..Len(u.scopes) PROVE u.spans[u.scopes[k]].state = "open"
    <3>1. k \in 1..r + L /\ k \in 1..Len(t.scopes)
      BY <1>1, <1>2
    <3>2. t.spans[t.scopes[k]].state = "open"
      BY <1>1, <3>1 DEF Attached
    <3> QED
      BY <1>3, <3>1, <3>2
  <2>2. ASSUME NEW s \in 1..Len(u.spans), u.spans[s].state = "open"
        PROVE  u.spans[s].until = NoTime /\ \E k \in 1..Len(u.scopes) : u.scopes[k] = s
    <3>1. s # n
      BY <1>2, <2>2
    <3>2. s \in 1..N
      BY <1>1, <1>2, <3>1
    <3>3. u.spans[s] = t.spans[s]
      BY <1>2, <3>2
    <3>4. t.spans[s].until = NoTime /\ \E k \in 1..Len(t.scopes) : t.scopes[k] = s
      BY <1>1, <2>2, <3>2, <3>3 DEF Attached
    <3> QED
      BY <1>1, <1>2, <3>3, <3>4
  <2> QED
    BY <2>1, <2>2 DEF Attached
<1>7. Chained(u)
  <2> SUFFICES ASSUME NEW k \in 1..r + L
               PROVE  u.spans[u.scopes[k]].parent = IF k = 1 THEN NoSpan ELSE u.scopes[k - 1]
    BY <1>2 DEF Chained
  <2>1. t.spans[t.scopes[k]].parent = IF k = 1 THEN NoSpan ELSE t.scopes[k - 1]
    BY <1>1 DEF Chained
  <2>2. k # 1 => k - 1 \in 1..r + L
    <3>1. k \in 1..r + L
      OBVIOUS
    <3> HIDE DEF L
    <3> QED
      BY <1>1, <3>1
  <2> QED
    BY <1>3, <2>1, <2>2
<1>8. Before(u, u.now)
  <2> SUFFICES ASSUME NEW s \in 1..n PROVE u.spans[s].from <= t.now /\ u.spans[s].until <= t.now
    BY <1>2 DEF Before
  <2>1. s \in 1..N \/ s = n
    BY <1>1
  <2>2. s \in 1..N => t.spans[s].from <= t.now /\ t.spans[s].until <= t.now
    BY DEF Between, Before
  <2>3. NoTime <= t.now
    BY <1>1 DEF NoTime
  <2> HIDE DEF n, brief
  <2> QED
    BY <1>1, <1>2, <2>1, <2>2, <2>3
<1>9. InOrder(u)
  BY <1>2, <1>4 DEF InOrder, Between
<1>10. Hangs(u, n, 1..L) \/ ~Kept(u, n)
  <2> SUFFICES ASSUME ~brief PROVE Hangs(u, n, 1..L)
    BY <1>2 DEF Kept
  <2>1. u.spans[n].parent = Below(t, r, 0) /\ u.spans[n].until = t.now
    BY <1>1, <1>2, TopIsCurrent
  <2>2. CASE 0 < L
    <3>1. 1 \in 1..L /\ Keeper(u, 1) /\ u.spans[n].parent = u.last[1].span
      BY <1>1, <1>2, <2>1, <2>2 DEF Below, Keeper
    <3>2. FromOf(u, 1) \in Int /\ FromOf(u, 1) <= begin
      BY <1>4, <3>1
    <3>3. u.spans[u.spans[n].parent].from = FromOf(u, 1)
      BY <3>1 DEF FromOf
    <3>4. u.minDuration > 0 => t.now - FromOf(u, 1) >= u.minDuration
      BY <1>1, <1>2, <3>2
    <3>5. u.minDuration > 0 =>
            u.spans[n].until - u.spans[u.spans[n].parent].from >= u.minDuration
      BY <2>1, <3>3, <3>4
    <3> HIDE DEF n, L
    <3> QED
      BY <3>1, <3>5 DEF Hangs
  <2>3. CASE ~(0 < L) /\ r = 1
    <3>1. 1 \in 1..r + L /\ 1 \in 1..Len(t.scopes)
      BY <1>1, <2>3
    <3>2. u.spans[n].parent = t.scopes[1]
      BY <2>1, <2>3 DEF Below
    <3>3. t.spans[t.scopes[1]].kind = "root" /\ t.spans[t.scopes[1]].state = "open"
      BY <1>1, <2>3, <3>1 DEF Lined, Attached
    <3>4. u.spans[t.scopes[1]] = t.spans[t.scopes[1]]
      BY <1>3, <3>1
    <3> QED
      BY <3>2, <3>3, <3>4 DEF Hangs
  <2>4. CASE ~(0 < L) /\ r # 1
    BY <2>1, <2>4 DEF Below, Hangs
  <2> QED
    BY <2>2, <2>3, <2>4
<1>11. Rooted(u, 1..L)
  <2> SUFFICES ASSUME NEW s \in 1..n, Kept(u, s) PROVE Hangs(u, s, 1..L)
    BY <1>2 DEF Rooted
  <2>1. CASE s = n
    BY <1>10, <2>1
  <2>2. CASE s # n
    <3>1. s \in 1..N
      BY <1>1, <2>2
    <3> DEFINE p == t.spans[s].parent
    <3>2. u.spans[s] = t.spans[s]
      BY <1>2, <3>1
    <3>3. Hangs(t, s, Older(t)) /\ Older(t) \subseteq 1..L
      BY <1>2, <3>1, <3>2 DEF Kept, Between, Rooted, Older
    <3>4. Hangs(t, s, 1..L)
      BY <3>3, HangsAnyway
    <3>5. p = NoSpan \/ u.spans[p] = t.spans[p]
      <4>1. p \in Nat /\ p < s
        BY <1>1, <3>1, ShapedTypes DEF Shaped
      <4>2. p = NoSpan \/ p \in 1..N
        <5> HIDE DEF p
        <5> QED
          BY <1>1, <3>1, <4>1 DEF NoSpan
      <4> QED
        BY <1>2, <4>2
    <3> QED
      BY <1>2, <3>2, <3>4, <3>5 DEF Hangs, Keeper
  <2> QED
    BY <2>1, <2>2
<1>12. Distinct(u)
  <2> SUFFICES ASSUME t.reduction, NEW s \in 1..n, NEW x \in 1..n,
                      EndedFrame(u, s), EndedFrame(u, x), s # x
               PROVE  u.spans[s].from # u.spans[x].from \/ u.spans[s].until # u.spans[x].until
    BY <1>2 DEF Distinct
  <2>1. ASSUME NEW y \in 1..n, y # n
        PROVE  y \in 1..N /\ u.spans[y] = t.spans[y] /\ t.spans[y].from \in Int
               /\ (EndedFrame(u, y) => t.spans[y].from < begin)
    <3>1. y \in 1..N
      BY <1>1, <2>1
    <3>2. u.spans[y] = t.spans[y] /\ t.spans[y].from \in Int
      BY <1>1, <1>2, <3>1, ShapedTypes
    <3> QED
      BY <3>1, <3>2 DEF Between, EndedFrame
  <2>2. CASE s = n \/ x = n
    <3>1. u.spans[n].from = begin
      BY <1>2
    <3>2. \A y \in 1..n : y # n /\ EndedFrame(u, y) => u.spans[y].from # u.spans[n].from
      <4> SUFFICES ASSUME NEW y \in 1..n, y # n, EndedFrame(u, y)
                   PROVE  u.spans[y].from # u.spans[n].from
        OBVIOUS
      <4>1. u.spans[y] = t.spans[y] /\ t.spans[y].from \in Int /\ t.spans[y].from < begin
        BY <2>1
      <4>2. t.spans[y].from # begin
        BY <1>1, <4>1
      <4> QED
        BY <3>1, <4>1, <4>2
    <3> QED
      BY <2>2, <3>2
  <2>3. CASE s # n /\ x # n
    <3>1. /\ s \in 1..N /\ x \in 1..N
          /\ u.spans[s] = t.spans[s] /\ u.spans[x] = t.spans[x]
      BY <2>1, <2>3
    <3> QED
      BY <3>1 DEF EndedFrame, Between, Distinct
  <2> QED
    BY <2>2, <2>3
<1> QED
  BY <1>2, <1>4, <1>5, <1>6, <1>7, <1>8, <1>9, <1>11, <1>12 DEF Sound


LEMMA ParentIs ==
  ASSUME NEW F, NEW t, Shaped(t, F), NEW i, NEW filtered
  PROVE  ParentOfNew(t, i, filtered) \in 0..Len(t.spans)
<1>1. t.last \in Seq(TracedFrame(F)) /\ Len(t.last) \in Nat /\ Len(t.spans) \in Nat
  BY ShapedTypes
<1>2. t.last # << >> => 1 \in 1..Len(t.last)
  BY <1>1
<1>3. t.last # << >> => t.last[1].span \in 0..Len(t.spans)
  BY <1>1, <1>2 DEF Shaped
<1>4. Current(t) \in 0..Len(t.spans)
  BY CurrentIs
<1> QED
  BY <1>3, <1>4 DEF ParentOfNew

\* A cut in the stack trace makes no difference when no scope is in the way.
LEMMA ParentIsCurrent ==
  ASSUME NEW F, NEW t, Shaped(t, F), NEW r \in 0..1, Lined(t, r, 0), NEW i, NEW filtered
  PROVE  ParentOfNew(t, i, filtered) = Current(t)
<1>1. t.last \in Seq(TracedFrame(F)) /\ Len(t.last) \in Nat
  BY ShapedTypes
<1>2. t.last # << >> => 0 < Len(t.last)
  BY <1>1
<1>3. Current(t) = Below(t, r, 0)
  BY TopIsCurrent
<1> QED
  BY <1>2, <1>3 DEF ParentOfNew, Below

\* f[i] is what the start of the first i new frames leaves.
Starting(f, t, new, dur, internal, filtered) ==
  /\ f[0] = t
  /\ \A i \in 1..Len(new) :
       f[i] = StartFrame(f[i - 1], new[i], ParentOfNew(f[i - 1], i, filtered), dur,
                         internal /\ i = Len(new))
  /\ StartFrames(t, new, dur, internal, filtered) = f[Len(new)]

\* The recursion of StartFrames, unfolded.
LEMMA StartFramesUnfolds ==
  ASSUME NEW t, NEW new, Len(new) \in Nat, NEW dur, NEW internal, NEW filtered
  PROVE  \E f : Starting(f, t, new, dur, internal, filtered)
<1> DEFINE Step(u, i) ==
             StartFrame(u, new[i], ParentOfNew(u, i, filtered), dur, internal /\ i = Len(new))
           m == Len(new)
           Rec(f, n) == f = [i \in 0..n |-> IF i = 0 THEN t ELSE Step(f[i - 1], i)]
           good == {n \in Nat : \E f : Rec(f, n)}
           started == CHOOSE f : Rec(f, m)
<1>1. StartFrames(t, new, dur, internal, filtered) = started[m]
  BY DEF StartFrames
<1>0. m \in Nat
  OBVIOUS
<1> HIDE DEF Step
<1>2. 0 \in good
  <2> DEFINE f == [i \in 0..0 |-> t]
  <2>1. Rec(f, 0)
    OBVIOUS
  <2> QED
    BY <2>1
<1>3. ASSUME NEW n \in 1..m, n - 1 \in good PROVE n \in good
  <2>1. PICK f : Rec(f, n - 1)
    BY <1>3
  <2> DEFINE g == [i \in 0..n |-> IF i = n THEN Step(f[n - 1], n) ELSE f[i]]
  <2>2. \A i \in 0..n - 1 : f[i] = IF i = 0 THEN t ELSE Step(f[i - 1], i)
    BY <2>1
  <2> HIDE DEF m
  <2>3. \A i \in 0..n : g[i] = IF i = 0 THEN t ELSE Step(g[i - 1], i)
    <3> SUFFICES ASSUME NEW i \in 0..n PROVE g[i] = IF i = 0 THEN t ELSE Step(g[i - 1], i)
      OBVIOUS
    <3>0. n \in Nat /\ i \in Nat /\ n # 0
      BY <1>0
    <3>1. CASE i = n
      <4>1. n - 1 \in 0..n /\ n - 1 # n /\ n # 0 /\ n \in 0..n
        BY <3>0
      <4>2. g[n - 1] = f[n - 1]
        BY <4>1
      <4> QED
        BY <3>1, <4>1, <4>2
    <3>2. CASE i # n
      <4>1. i \in 0..n - 1 /\ g[i] = f[i]
        BY <3>0, <3>2
      <4>2. i # 0 => i - 1 \in 0..n /\ i - 1 # n
        BY <3>0
      <4>3. i # 0 => g[i - 1] = f[i - 1]
        BY <4>2
      <4> QED
        BY <2>2, <4>1, <4>3
    <3> QED
      BY <3>1, <3>2
  <2>4. Rec(g, n)
    <3>1. g = [i \in 0..n |-> g[i]]
      OBVIOUS
    <3> HIDE DEF g
    <3>2. [i \in 0..n |-> g[i]] = [i \in 0..n |-> IF i = 0 THEN t ELSE Step(g[i - 1], i)]
      BY <2>3
    <3> QED
      BY <3>1, <3>2
  <2>5. n \in Nat
    BY <1>0
  <2> HIDE DEF g, Rec
  <2> QED
    BY <2>4, <2>5
<1>4. Rec(started, m)
  <2>1. good \in SUBSET Nat
    OBVIOUS
  <2>2. 0..m \subseteq good
    <3> HIDE DEF good, m
    <3> QED
      BY <1>0, <1>2, <1>3, <2>1, UpTo
  <2>3. m \in 0..m
    BY <1>0
  <2>4. \E f : Rec(f, m)
    BY <2>2, <2>3
  <2> HIDE DEF Rec
  <2> QED
    BY <2>4, Zenon
<1> HIDE DEF started
<1>5. started[0] = t /\ \A i \in 1..m : started[i] = Step(started[i - 1], i)
  <2>1. \A i \in 0..m : started[i] = IF i = 0 THEN t ELSE Step(started[i - 1], i)
    BY <1>4
  <2> HIDE DEF m
  <2>2. 0 \in 0..m /\ \A i \in 1..m : i \in 0..m /\ i # 0
    BY <1>0
  <2> QED
    BY <2>1, <2>2
<1> QED
  BY <1>1, <1>5, Zenon DEF Step, Starting

\* What a stack trace leaves, whatever scopes there are.
Same(u, t, F) == Shaped(u, F) /\ SameRun(u, t)

LEMMA StartFramesKeeps ==
  ASSUME NEW F, NEW t, Shaped(t, F), NEW new \in Seq(F), NEW dur \in Int,
         NEW internal \in BOOLEAN, NEW filtered
  PROVE  Same(StartFrames(t, new, dur, internal, filtered), t, F)
<1> DEFINE m == Len(new)
<1>1. m \in Nat /\ \A i \in 1..m : new[i] \in F
  OBVIOUS
<1>2. PICK f : Starting(f, t, new, dur, internal, filtered)
  BY <1>1, StartFramesUnfolds
<1> HIDE DEF m
<1> DEFINE good == {k \in Nat : k <= m => Same(f[k], t, F)}
<1>3. 0 \in good
  BY <1>2 DEF Starting, Same, SameRun
<1>4. ASSUME NEW k \in 1..m, k - 1 \in good PROVE k \in good
  <2>1. k \in Nat /\ k - 1 <= m
    BY <1>1
  <2>2. Same(f[k - 1], t, F)
    BY <1>4, <2>1
  <2>3. ParentOfNew(f[k - 1], k, filtered) \in 0..Len(f[k - 1].spans)
    BY <2>2, ParentIs DEF Same
  <2> DEFINE over == internal /\ k = m
             p == ParentOfNew(f[k - 1], k, filtered)
  <2>4. over \in BOOLEAN /\ new[k] \in F /\ p \in 0..Len(f[k - 1].spans)
    BY <1>1, <2>3
  <2>5. f[k] = StartFrame(f[k - 1], new[k], p, dur, over)
    BY <1>2 DEF Starting, m
  <2> HIDE DEF p, over
  <2>6. NewFrame(f[k], f[k - 1], new[k], p, dur, over, F)
    BY <2>2, <2>4, <2>5, StartFrameIs DEF Same
  <2>7. Same(f[k], t, F)
    BY <2>2, <2>6 DEF NewFrame, Same, SameRun
  <2> QED
    BY <2>1, <2>7
<1>5. m \in good
  <2>1. good \in SUBSET Nat /\ m \in 0..m
    BY <1>1
  <2> HIDE DEF good
  <2> QED
    BY <1>1, <1>3, <1>4, <2>1, UpTo
<1>6. Same(f[m], t, F)
  BY <1>1, <1>5
<1> QED
  BY <1>2, <1>6 DEF Starting, m

LEMMA StartFramesSound ==
  ASSUME NEW F, NEW t, NEW r \in 0..1, NEW begin, Between(t, r, begin, F), NEW new \in Seq(F),
         NEW dur \in Int, begin = t.now - dur, NEW internal \in BOOLEAN, NEW filtered
  PROVE  Sound(StartFrames(t, new, dur, internal, filtered), r, 0, F)
<1> DEFINE m == Len(new)
           Fine(u) == Between(u, r, begin, F) /\ u.now = t.now
<1>1. m \in Nat /\ \A i \in 1..m : new[i] \in F
  OBVIOUS
<1>2. PICK f : Starting(f, t, new, dur, internal, filtered)
  BY <1>1, StartFramesUnfolds
<1> HIDE DEF m
<1> DEFINE good == {k \in Nat : k < m \/ (k = m /\ ~internal) => Fine(f[k])}
           over(k) == internal /\ k = m
<1>3. ASSUME NEW k \in 1..m, Fine(f[k - 1])
      PROVE  NewFrame(f[k], f[k - 1], new[k], Current(f[k - 1]), dur, over(k), F)
             /\ over(k) \in BOOLEAN /\ new[k] \in F
  <2>1. Shaped(f[k - 1], F) /\ Lined(f[k - 1], r, 0)
    BY <1>3 DEF Between
  <2>2. ParentOfNew(f[k - 1], k, filtered) = Current(f[k - 1])
        /\ Current(f[k - 1]) \in 0..Len(f[k - 1].spans)
    BY <2>1, ParentIsCurrent, CurrentIs
  <2>3. f[k] = StartFrame(f[k - 1], new[k], Current(f[k - 1]), dur, over(k))
    BY <1>2, <2>2 DEF Starting, m
  <2>4. over(k) \in BOOLEAN /\ new[k] \in F
    BY <1>1
  <2> HIDE DEF over
  <2> QED
    BY <2>1, <2>2, <2>3, <2>4, StartFrameIs
<1>4. 0 \in good
  BY <1>2 DEF Starting
<1>5. ASSUME NEW k \in 1..m, k - 1 \in good PROVE k \in good
  <2> SUFFICES ASSUME k < m \/ (k = m /\ ~internal) PROVE Fine(f[k])
    BY <1>1
  <2>1. k \in Nat /\ k - 1 < m /\ k - 1 \in Nat
    BY <1>1
  <2>2. Fine(f[k - 1])
    BY <1>5, <2>1
  <2>3. over(k) = FALSE
    BY <1>1
  <2>4. NewFrame(f[k], f[k - 1], new[k], Current(f[k - 1]), dur, FALSE, F) /\ new[k] \in F
    BY <1>3, <2>2, <2>3
  <2>5. begin = f[k - 1].now - dur
    BY <2>2
  <2>6. Between(f[k], r, begin, F)
    BY <2>2, <2>4, <2>5, FrameStarts
  <2>7. f[k].now = t.now
    BY <2>2, <2>4 DEF NewFrame, SameRun
  <2> QED
    BY <2>6, <2>7
<1>6. 0..m \subseteq good
  <2>1. good \in SUBSET Nat
    OBVIOUS
  <2> HIDE DEF good
  <2> QED
    BY <1>1, <1>4, <1>5, <2>1, UpTo
<1>7. Sound(f[m], r, 0, F)
  <2>1. CASE m = 0 \/ ~internal
    <3>1. m \in good /\ m \in Nat
      BY <1>1, <1>6
    <3>2. Fine(f[m])
      <4>1. CASE ~internal
        BY <3>1, <4>1
      <4>2. CASE m = 0
        BY <1>2, <4>2 DEF Starting
      <4> QED
        BY <2>1, <4>1, <4>2
    <3> QED
      BY <3>2, BetweenIsSound
  <2>2. CASE m # 0 /\ internal
    <3>1. m - 1 \in 0..m /\ m - 1 < m /\ m \in 1..m
      BY <1>1, <2>2
    <3>2. Fine(f[m - 1])
      BY <1>6, <3>1
    <3>3. over(m) = TRUE
      BY <2>2
    <3>4. NewFrame(f[m], f[m - 1], new[m], Current(f[m - 1]), dur, TRUE, F) /\ new[m] \in F
      BY <1>3, <3>1, <3>2, <3>3
    <3>5. begin = f[m - 1].now - dur
      BY <3>2
    <3> QED
      BY <3>2, <3>4, <3>5, FrameStartsEnded
  <2> QED
    BY <2>1, <2>2
<1> QED
  BY <1>2, <1>7 DEF Starting, m


-----------------------------------------------------------------------------
(* A stack trace.                                                          *)

LEMMA SubSeqIs ==
  ASSUME NEW F, NEW s \in Seq(F), NEW n \in 0..Len(s)
  PROVE  SubSeq(s, n + 1, Len(s)) \in Seq(F)
<1>1. n + 1 \in 1..Len(s) + 1 /\ Len(s) \in n..Len(s)
  OBVIOUS
<1> QED
  BY <1>1, SubSeqProperties

LEMMA IdenticalIs ==
  ASSUME NEW F, NEW s \in Seq(F), NEW u \in Seq(F)
  PROVE  Identical(s, u) \in 0..Len(s) /\ Identical(s, u) <= Len(u)
<1> DEFINE same == {n \in 0..Len(s) : n <= Len(u) /\ SubSeq(s, 1, n) = SubSeq(u, 1, n)}
<1>1. Len(s) \in Nat /\ Len(u) \in Nat
  OBVIOUS
<1>2. 0 \in same
  <2>1. SubSeq(s, 1, 0) = << >> /\ SubSeq(u, 1, 0) = << >>
    OBVIOUS
  <2> QED
    BY <1>1, <2>1
<1>3. same \in SUBSET (0..Len(s)) /\ same # {}
  BY <1>2
<1>4. \A n \in same : n \in 0..Len(s) /\ n <= Len(u)
  OBVIOUS
<1>5. Identical(s, u) = CHOOSE n \in same : \A k \in same : k <= n
  BY DEF Identical
<1> HIDE DEF same
<1>6. \E n \in same : \A k \in same : k <= n
  BY <1>1, <1>3, LargestOf
<1>7. Identical(s, u) \in same
  BY <1>5, <1>6, Zenon
<1> QED
  BY <1>4, <1>7

\* How many frames a stack trace ends, and which it starts.
Parts(t, calls, dur, internal, filtered, old, new, F) ==
  /\ old \in 0..Len(t.last) /\ new \in Seq(F)
  /\ calls = << >> => old = Len(t.last) /\ new = << >>
  /\ CompareStackTraces(t, calls, dur, internal, filtered)
       = StartFrames(EndFrames([t EXCEPT !.trace = @ + 1], old,
                               IF internal THEN t.now - dur ELSE NoTime),
                     new, dur, internal, filtered)

LEMMA CompareHasParts ==
  ASSUME NEW F, NEW t, Shaped(t, F), NEW calls \in Seq(F), NEW dur, NEW internal, NEW filtered
  PROVE  \E old, new : Parts(t, calls, dur, internal, filtered, old, new, F)
<1> DEFINE fns == [i \in DOMAIN t.last |-> t.last[i].fn]
           known == Reverse(fns)
           L == Len(t.last)
           same == Identical(known, calls)
           new == SubSeq(calls, same + 1, Len(calls))
<1>1. /\ L \in Nat /\ DOMAIN t.last = 1..L /\ Len(calls) \in Nat
      /\ \A i \in 1..L : t.last[i].fn \in F
  <2>1. t.last \in Seq(TracedFrame(F))
    BY ShapedTypes
  <2>2. \A i \in 1..L : t.last[i] \in TracedFrame(F)
    BY <2>1
  <2> QED
    BY <2>1, <2>2 DEF TracedFrame
<1>2. fns \in Seq(F) /\ Len(fns) = L
  BY <1>1
<1>3. known \in Seq(F) /\ Len(known) = L
  <2>1. known = [i \in 1..L |-> fns[(L - i) + 1]]
    BY <1>2 DEF Reverse
  <2>2. \A i \in 1..L : fns[(L - i) + 1] \in F
    <3>1. \A i \in 1..L : (L - i) + 1 \in 1..L
      <4> HIDE DEF L
      <4> QED
        BY <1>1
    <3> QED
      BY <1>2, <3>1
  <2> HIDE DEF known, fns, L
  <2>3. known \in [1..L -> F] /\ DOMAIN known = 1..L
    BY <2>1, <2>2, Zenon
  <2> QED
    BY <1>1, <2>3
<1> HIDE DEF known
<1>4. same \in 0..L /\ same \in 0..Len(calls)
  BY <1>1, <1>3, IdenticalIs
<1>5. CompareStackTraces(t, calls, dur, internal, filtered)
        = StartFrames(EndFrames([t EXCEPT !.trace = @ + 1], Len(known) - same,
                                IF internal THEN t.now - dur ELSE NoTime),
                      new, dur, internal, filtered)
  BY DEF CompareStackTraces, known
<1> HIDE DEF same
<1>6. new \in Seq(F)
  BY <1>4, SubSeqIs
<1>7. ASSUME calls = << >> PROVE same = 0 /\ new = << >>
  <2>1. same = 0
    BY <1>4, <1>7
  <2>2. Len(new) = 0
    BY <1>7, <2>1
  <2> HIDE DEF new
  <2> QED
    BY <1>6, <2>1, <2>2
<1> HIDE DEF new
<1>8. L - same \in 0..L /\ (same = 0 => L - same = L)
  <2> HIDE DEF L
  <2> QED
    BY <1>1, <1>4
<1>9. Parts(t, calls, dur, internal, filtered, L - same, new, F)
  BY <1>3, <1>5, <1>6, <1>7, <1>8 DEF Parts
<1> QED
  BY <1>9

\* u is t but for the time, the number of the stack trace and what has no scope.
Altered(u, t, F) ==
  /\ u \in Tracing(F)
  /\ u.scopes = t.scopes /\ u.spans = t.spans /\ u.last = t.last
  /\ u.reduction = t.reduction /\ u.minDuration = t.minDuration

LEMMA TraceAltered ==
  ASSUME NEW F, NEW t, Shaped(t, F)
  PROVE  LET u == [t EXCEPT !.trace = @ + 1] IN
         Altered(u, t, F) /\ u.trace = t.trace + 1 /\ u.now = t.now /\ u.shutdown = t.shutdown
<1>1. t \in Tracing(F) /\ t.trace + 1 \in Nat
  BY ShapedTypes DEF Shaped
<1> QED
  BY <1>1 DEF Tracing, Altered

LEMMA AlteredShaped ==
  ASSUME NEW F, NEW t, Shaped(t, F), NEW u, Altered(u, t, F)
  PROVE  Shaped(u, F)
BY DEF Altered, Shaped

\* What of Sound is about spans, scopes and frames alone.
Tree(t, r, h) ==
  /\ Lined(t, r, h) /\ Attached(t) /\ Chained(t) /\ InOrder(t)
  /\ Rooted(t, 1..Len(t.last)) /\ Distinct(t)

LEMMA AlteredTree ==
  ASSUME NEW F, NEW t, NEW r, NEW h, Tree(t, r, h), NEW u, Altered(u, t, F)
  PROVE  Tree(u, r, h)
<1> USE DEF Altered
<1>1. Lined(u, r, h)
  BY DEF Tree, Lined
<1>2. Attached(u) /\ Chained(u)
  BY DEF Tree, Attached, Chained
<1>3. InOrder(u)
  BY DEF Tree, InOrder, FromOf
<1>4. Rooted(u, 1..Len(u.last))
  BY DEF Tree, Rooted, Kept, Hangs, Keeper
<1>5. Distinct(u)
  BY DEF Tree, Distinct, EndedFrame
<1> QED
  BY <1>1, <1>2, <1>3, <1>4, <1>5 DEF Tree

\* A stack trace that comes in.
LEMMA TraceIsReady ==
  ASSUME NEW F, NEW t, Shaped(t, F), NEW r, Tree(t, r, 0), NEW past \in Int, Before(t, past),
         \A i \in 1..Len(t.last) : t.last[i].trace <= t.trace,
         NEW begin \in Int, past < begin, begin <= t.now
  PROVE  Ready([t EXCEPT !.trace = @ + 1], r, past, begin, F)
<1> DEFINE u == [t EXCEPT !.trace = @ + 1]
<1>1. Altered(u, t, F) /\ u.trace = t.trace + 1 /\ u.now = t.now
  BY TraceAltered
<1> HIDE DEF u
<1>2. Shaped(u, F) /\ Tree(u, r, 0)
  BY <1>1, AlteredShaped, AlteredTree
<1>3. Before(u, past)
  BY <1>1 DEF Altered, Before
<1>4. ASSUME NEW i \in 1..Len(u.last) PROVE u.last[i].trace < u.trace
  <2>1. i \in 1..Len(t.last) /\ u.last[i] = t.last[i]
    BY <1>1 DEF Altered
  <2>2. t.last[i].trace \in Nat /\ t.trace \in Nat /\ t.last[i].trace <= t.trace
    BY <2>1, ShapedTypes
  <2> QED
    BY <1>1, <2>1, <2>2
<1> QED
  BY <1>1, <1>2, <1>3, <1>4 DEF Ready, Tree, u

LEMMA CompareSound ==
  ASSUME NEW F, NEW t, Shaped(t, F), NEW r \in 0..1, Tree(t, r, 0),
         NEW past \in Int, Before(t, past),
         \A i \in 1..Len(t.last) : t.last[i].trace <= t.trace,
         NEW dur \in Nat, past < t.now - dur,
         NEW calls \in Seq(F), NEW internal \in BOOLEAN, NEW filtered
  PROVE  Sound(CompareStackTraces(t, calls, dur, internal, filtered), r, 0, F)
<1> DEFINE v == [t EXCEPT !.trace = @ + 1]
           begin == t.now - dur
           until == IF internal THEN begin ELSE NoTime
<1>1. PICK old, new : Parts(t, calls, dur, internal, filtered, old, new, F)
  BY CompareHasParts
<1>2. t.now \in Nat /\ begin \in Int /\ past < begin /\ begin <= t.now
      /\ until \in Int /\ (until = NoTime \/ until = begin)
  BY ShapedTypes DEF NoTime
<1>3. v.now = t.now /\ v.last = t.last
  BY TraceAltered DEF Altered
<1> HIDE DEF begin, until
<1>4. Ready(v, r, past, begin, F)
  BY <1>2, TraceIsReady
<1> DEFINE e == EndFrames(v, old, until)
<1> HIDE DEF v
<1>5. old \in 0..Len(v.last) /\ new \in Seq(F)
  BY <1>1, <1>3 DEF Parts
<1>6. FramesEnded(e, v, old, until, F)
  BY <1>2, <1>4, <1>5, EndFramesIs DEF Ready
<1> HIDE DEF e
<1>7. Between(e, r, begin, F)
  BY <1>2, <1>4, <1>5, <1>6, EndFramesSound
<1>8. begin = e.now - dur
  BY <1>3, <1>6 DEF FramesEnded, SameRun, begin
<1>9. Sound(StartFrames(e, new, dur, internal, filtered), r, 0, F)
  BY <1>5, <1>7, <1>8, StartFramesSound
<1> QED
  BY <1>1, <1>9 DEF Parts, e, v, until, begin

\* What a stack trace leaves alone, whatever scopes there are.
Compared(u, t, F) ==
  /\ Shaped(u, F) /\ u.now = t.now /\ u.shutdown = t.shutdown
  /\ u.reduction = t.reduction /\ u.minDuration = t.minDuration

LEMMA CompareKeeps ==
  ASSUME NEW F, NEW t, Shaped(t, F), NEW dur \in Nat,
         NEW calls \in Seq(F), NEW internal \in BOOLEAN, NEW filtered
  PROVE  Compared(CompareStackTraces(t, calls, dur, internal, filtered), t, F)
<1> DEFINE v == [t EXCEPT !.trace = @ + 1]
           until == IF internal THEN t.now - dur ELSE NoTime
<1>1. PICK old, new : Parts(t, calls, dur, internal, filtered, old, new, F)
  BY CompareHasParts
<1>2. until \in Int
  BY ShapedTypes DEF NoTime
<1>3. /\ Altered(v, t, F) /\ v.now = t.now /\ v.last = t.last /\ v.shutdown = t.shutdown
  BY TraceAltered DEF Altered
<1> HIDE DEF until
<1> DEFINE e == EndFrames(v, old, until)
<1> HIDE DEF v
<1>4. Shaped(v, F)
  BY <1>3, AlteredShaped
<1>5. old \in 0..Len(v.last) /\ new \in Seq(F)
  BY <1>1, <1>3 DEF Parts
<1>6. Shaped(e, F) /\ SameRun(e, v)
  BY <1>2, <1>4, <1>5, EndFramesKeeps
<1> HIDE DEF e
<1>7. Same(StartFrames(e, new, dur, internal, filtered), e, F)
  BY <1>5, <1>6, StartFramesKeeps
<1> DEFINE u == StartFrames(e, new, dur, internal, filtered)
<1>8. u = CompareStackTraces(t, calls, dur, internal, filtered)
  BY <1>1 DEF Parts, e, v, until
<1> HIDE DEF u
<1>9. Compared(u, t, F)
  BY <1>3, <1>6, <1>7 DEF u, Same, SameRun, Compared, Altered
<1> QED
  BY <1>8, <1>9

\* The empty stack trace ends all frames.
LEMMA CompareEmpty ==
  ASSUME NEW F, NEW t, Shaped(t, F), NEW r \in 0..1, Tree(t, r, 0), NEW dur \in Nat,
         NEW internal \in BOOLEAN, NEW filtered
  PROVE  CompareStackTraces(t, << >>, dur, internal, filtered).last = << >>
<1> DEFINE v == [t EXCEPT !.trace = @ + 1]
           until == IF internal THEN t.now - dur ELSE NoTime
<1>0. << >> \in Seq(F)
  OBVIOUS
<1>1. PICK old, new : Parts(t, << >>, dur, internal, filtered, old, new, F)
  BY <1>0, CompareHasParts
<1>2. until \in Int
  BY ShapedTypes DEF NoTime
<1>3. Altered(v, t, F)
  BY TraceAltered
<1> HIDE DEF until
<1> DEFINE e == EndFrames(v, old, until)
<1> HIDE DEF v
<1>4. Shaped(v, F) /\ Tree(v, r, 0)
  BY <1>3, AlteredShaped, AlteredTree
<1>5. old \in 0..Len(v.last) /\ old = Len(v.last) /\ new = << >>
  BY <1>1, <1>3 DEF Parts, Altered
<1>6. FramesEnded(e, v, old, until, F)
  BY <1>2, <1>4, <1>5, EndFramesIs DEF Tree
<1> HIDE DEF e
<1>7. e.last = << >>
  <2>1. Len(e.last) = 0 /\ e.last \in Seq(TracedFrame(F))
    BY <1>4, <1>5, <1>6, ShapedTypes DEF FramesEnded
  <2> QED
    BY <2>1
<1>8. Len(new) = 0 /\ Len(new) \in Nat
  BY <1>5
<1>9. StartFrames(e, new, dur, internal, filtered) = e
  <2>1. PICK f : Starting(f, e, new, dur, internal, filtered)
    BY <1>8, StartFramesUnfolds
  <2> QED
    BY <1>8, <2>1 DEF Starting
<1> QED
  BY <1>1, <1>7, <1>9 DEF Parts, e, v, until


-----------------------------------------------------------------------------
(* The spans of hooks and the root span: one that starts goes on top, and  *)
(* the one on top ends.                                                    *)

LEMMA SpanStarts ==
  ASSUME NEW F, NEW t, NEW r, NEW h, Sound(t, r, h, F), NEW kind \in {"root", "hook"},
         NEW fn, NEW from \in Int, from <= t.now,
         NEW u, Started(u, t, kind, fn, Current(t), from, F),
         NEW r2, NEW h2, Lined(u, r2, h2)
  PROVE  Sound(u, r2, h2, F)
<1> DEFINE S == Len(t.scopes)
           N == Len(t.spans)
           n == N + 1
<1>1. /\ S \in Nat /\ N \in Nat /\ n \in Nat /\ t.now \in Nat
      /\ Shaped(t, F) /\ Attached(t) /\ Chained(t)
  BY ShapedTypes DEF Sound
<1>2. /\ Shaped(u, F) /\ Len(u.spans) = n /\ u.last = t.last /\ Len(u.scopes) = S + 1
      /\ u.trace = t.trace /\ u.now = t.now /\ u.reduction = t.reduction
      /\ u.minDuration = t.minDuration
      /\ \A s \in 1..N : u.spans[s] = t.spans[s]
      /\ \A k \in 1..S : u.scopes[k] = t.scopes[k]
      /\ u.scopes[S + 1] = n
      /\ u.spans[n].kind = kind /\ u.spans[n].parent = Current(t)
      /\ u.spans[n].from = from /\ u.spans[n].until = NoTime /\ u.spans[n].state = "open"
  <2>1. /\ Shaped(u, F) /\ Len(u.spans) = n /\ u.last = t.last /\ Len(u.scopes) = S + 1
        /\ SameRun(u, t) /\ Untouched(u, t, n)
        /\ \A k \in 1..S : u.scopes[k] = t.scopes[k]
        /\ u.scopes[S + 1] = n
    BY DEF Started
  <2>2. u.spans[n] = [kind |-> kind, fn |-> fn, parent |-> Current(t), from |-> from,
                      until |-> NoTime, state |-> "open"]
    BY DEF Started
  <2>3. \A s \in 1..N : u.spans[s] = t.spans[s]
    <3>1. \A s \in 1..N : s # n
      BY <1>1
    <3> QED
      BY <2>1, <3>1 DEF Untouched
  <2>4. /\ u.spans[n].kind = kind /\ u.spans[n].parent = Current(t)
        /\ u.spans[n].from = from /\ u.spans[n].until = NoTime /\ u.spans[n].state = "open"
    BY <2>2
  <2>5. /\ u.trace = t.trace /\ u.now = t.now /\ u.reduction = t.reduction
        /\ u.minDuration = t.minDuration
    BY <2>1 DEF SameRun
  <2> QED
    BY <2>1, <2>3, <2>4, <2>5, Zenon
<1>3. ASSUME NEW k \in 1..S
      PROVE  /\ u.scopes[k] = t.scopes[k] /\ t.scopes[k] \in 1..N
             /\ u.spans[t.scopes[k]] = t.spans[t.scopes[k]]
  <2>1. t.scopes[k] \in 1..N
    BY <1>1 DEF Shaped
  <2> QED
    BY <1>2, <2>1
<1>4. ASSUME NEW i \in 1..Len(t.last)
      PROVE  u.spans[t.last[i].span] = t.spans[t.last[i].span] /\ FromOf(u, i) = FromOf(t, i)
  <2>1. t.last[i].span \in 1..N
    BY <1>1 DEF Shaped
  <2> QED
    BY <1>2, <2>1 DEF FromOf
<1>5. Attached(u)
  <2>1. ASSUME NEW k \in 1..S + 1 PROVE u.spans[u.scopes[k]].state = "open"
    <3>1. k \in 1..S \/ k = S + 1
      BY <1>1
    <3>2. k \in 1..S => t.spans[t.scopes[k]].state = "open"
      BY <1>1 DEF Attached
    <3> QED
      BY <1>2, <1>3, <3>1, <3>2
  <2>2. ASSUME NEW s \in 1..n, u.spans[s].state = "open"
        PROVE  u.spans[s].until = NoTime /\ \E k \in 1..S + 1 : u.scopes[k] = s
    <3>1. CASE s = n
      <4>1. S + 1 \in 1..S + 1
        BY <1>1
      <4> QED
        BY <1>2, <3>1, <4>1
    <3>2. CASE s # n
      <4>1. s \in 1..N
        BY <1>1, <3>2
      <4>2. u.spans[s] = t.spans[s]
        BY <1>2, <4>1
      <4>3. t.spans[s].until = NoTime /\ \E k \in 1..S : t.scopes[k] = s
        BY <1>1, <2>2, <4>1, <4>2 DEF Attached
      <4>4. PICK k \in 1..S : t.scopes[k] = s
        BY <4>3
      <4>5. k \in 1..S + 1
        <5>1. k \in 1..S
          OBVIOUS
        <5> HIDE DEF S
        <5> QED
          BY <1>1, <5>1
      <4> QED
        BY <1>2, <4>2, <4>3, <4>4, <4>5
    <3> QED
      BY <3>1, <3>2
  <2> QED
    BY <1>2, <2>1, <2>2 DEF Attached
<1>6. Chained(u)
  <2> SUFFICES ASSUME NEW k \in 1..S + 1
               PROVE  u.spans[u.scopes[k]].parent = IF k = 1 THEN NoSpan ELSE u.scopes[k - 1]
    BY <1>2 DEF Chained
  <2>1. k \in 1..S \/ k = S + 1
    BY <1>1
  <2>2. CASE k \in 1..S
    <3>1. t.spans[t.scopes[k]].parent = IF k = 1 THEN NoSpan ELSE t.scopes[k - 1]
      BY <1>1, <2>2 DEF Chained
    <3>2. k # 1 => k - 1 \in 1..S
      <4> HIDE DEF S
      <4> QED
        BY <1>1, <2>2
    <3> QED
      BY <1>2, <1>3, <2>2, <3>1, <3>2
  <2>3. CASE k = S + 1
    <3>1. u.spans[u.scopes[k]].parent = Current(t)
      BY <1>2, <2>3
    <3>2. Current(t) = IF S = 0 THEN NoSpan ELSE t.scopes[S]
      BY <1>1, CurrentIs
    <3>3. (S # 0 => S \in 1..S) /\ k - 1 = S /\ (k = 1 <=> S = 0)
      BY <1>1, <2>3
    <3> QED
      BY <1>2, <3>1, <3>2, <3>3
  <2> QED
    BY <2>1, <2>2, <2>3
<1>7. Before(u, u.now)
  <2> SUFFICES ASSUME NEW s \in 1..n PROVE u.spans[s].from <= t.now /\ u.spans[s].until <= t.now
    BY <1>2 DEF Before
  <2>1. s \in 1..N \/ s = n
    BY <1>1
  <2>2. s \in 1..N => t.spans[s].from <= t.now /\ t.spans[s].until <= t.now
    BY DEF Sound, Before
  <2>3. NoTime <= t.now
    BY <1>1 DEF NoTime
  <2> HIDE DEF n
  <2> QED
    BY <1>2, <2>1, <2>2, <2>3
<1>8. InOrder(u)
  BY <1>2, <1>4 DEF InOrder, Sound
<1>9. \A i \in 1..Len(u.last) : u.last[i].trace <= u.trace
  BY <1>2 DEF Sound
<1>10. Rooted(u, 1..Len(u.last))
  <2> SUFFICES ASSUME NEW s \in 1..n, Kept(u, s) PROVE Hangs(u, s, 1..Len(t.last))
    BY <1>2 DEF Rooted
  <2>1. s # n
    BY <1>2 DEF Kept
  <2>2. s \in 1..N
    BY <1>1, <2>1
  <2> DEFINE p == t.spans[s].parent
  <2>3. u.spans[s] = t.spans[s]
    BY <1>2, <2>2
  <2>4. Hangs(t, s, 1..Len(t.last))
    BY <1>2, <2>2, <2>3 DEF Kept, Sound, Rooted
  <2>5. p = NoSpan \/ u.spans[p] = t.spans[p]
    <3>1. p \in Nat /\ p < s
      BY <1>1, <2>2, ShapedTypes DEF Shaped
    <3>2. p = NoSpan \/ p \in 1..N
      <4> HIDE DEF p
      <4> QED
        BY <1>1, <2>2, <3>1 DEF NoSpan
    <3> QED
      BY <1>2, <3>2
  <2> QED
    BY <1>2, <2>3, <2>4, <2>5 DEF Hangs, Keeper
<1>11. Distinct(u)
  <2> SUFFICES ASSUME t.reduction, NEW s \in 1..n, NEW x \in 1..n,
                      EndedFrame(u, s), EndedFrame(u, x), s # x
               PROVE  u.spans[s].from # u.spans[x].from \/ u.spans[s].until # u.spans[x].until
    BY <1>2 DEF Distinct
  <2>1. s # n /\ x # n
    BY <1>2 DEF EndedFrame
  <2>2. s \in 1..N /\ x \in 1..N
    BY <1>1, <2>1
  <2>3. u.spans[s] = t.spans[s] /\ u.spans[x] = t.spans[x]
    BY <1>2, <2>2
  <2> QED
    BY <2>2, <2>3 DEF EndedFrame, Sound, Distinct
<1> QED
  BY <1>2, <1>5, <1>6, <1>7, <1>8, <1>9, <1>10, <1>11 DEF Sound

LEMMA HookStarts ==
  ASSUME NEW F, NEW t, NEW r \in 0..1, NEW h \in Nat, Sound(t, r, h, F), NEW fn \in F
  PROVE  Sound(StartSpan(t, "hook", fn, Current(t), t.now), r, h + 1, F)
<1> DEFINE u == StartSpan(t, "hook", fn, Current(t), t.now)
           S == Len(t.scopes)
           L == Len(t.last)
           n == Len(t.spans) + 1
<1>1. /\ Shaped(t, F) /\ Lined(t, r, h) /\ S \in Nat /\ L \in Nat /\ t.now \in Nat
      /\ S = r + L + h /\ Len(t.spans) \in Nat
  BY ShapedTypes DEF Sound, Lined
<1>2. Started(u, t, "hook", fn, Current(t), t.now, F)
  BY <1>1, CurrentIs, StartSpanIs
<1> HIDE DEF u
<1>3. /\ u.last = t.last /\ Len(u.scopes) = S + 1 /\ u.scopes[S + 1] = n
      /\ u.spans[n].kind = "hook"
      /\ \A s \in 1..Len(t.spans) : u.spans[s] = t.spans[s]
      /\ \A k \in 1..S : u.scopes[k] = t.scopes[k] /\ t.scopes[k] \in 1..Len(t.spans)
      /\ \A i \in 1..L : t.last[i].span \in 1..Len(t.spans)
  <2>1. \A s \in 1..Len(t.spans) : s # n
    BY <1>1
  <2>2. \A s \in 1..Len(t.spans) : u.spans[s] = t.spans[s]
    BY <1>2, <2>1 DEF Started, Untouched
  <2>3. u.spans[n].kind = "hook"
    BY <1>2 DEF Started
  <2> QED
    BY <1>1, <1>2, <2>2, <2>3 DEF Started, Shaped
<1>4. Lined(u, r, h + 1)
  <2>1. r = 1 => u.spans[u.scopes[1]].kind = "root"
    <3>1. r = 1 => 1 \in 1..S
      BY <1>1
    <3> QED
      BY <1>1, <1>3, <3>1 DEF Lined
  <2>2. ASSUME NEW i \in 1..L
        PROVE  /\ u.scopes[r + L + 1 - i] = t.last[i].span
               /\ u.spans[t.last[i].span].kind = "inferred"
    <3>1. r + L + 1 - i \in 1..S
      <4>1. i \in 1..L
        OBVIOUS
      <4> HIDE DEF L, S
      <4> QED
        BY <1>1, <4>1
    <3> QED
      BY <1>1, <1>3, <3>1 DEF Lined
  <2>3. ASSUME NEW k \in r + L + 1..S + 1 PROVE u.spans[u.scopes[k]].kind = "hook"
    <3>1. k = S + 1 \/ (k \in r + L + 1..S /\ k \in 1..S)
      <4>1. k \in r + L + 1..S + 1
        OBVIOUS
      <4> HIDE DEF L, S
      <4> QED
        BY <1>1, <4>1
    <3>2. k \in r + L + 1..S => t.spans[t.scopes[k]].kind = "hook"
      BY <1>1 DEF Lined
    <3> QED
      BY <1>3, <3>1, <3>2
  <2>4. S + 1 = r + L + (h + 1)
    <3> HIDE DEF S, L
    <3> QED
      BY <1>1
  <2> QED
    BY <1>3, <2>1, <2>2, <2>3, <2>4 DEF Lined
<1>5. t.now \in Int /\ t.now <= t.now
  BY <1>1
<1>6. Sound(u, r, h + 1, F)
  BY <1>2, <1>4, <1>5, SpanStarts
<1> QED
  BY <1>6 DEF u


\* What the newest scope and its span become.
TopEnded(u, t, F) ==
  LET id == t.scopes[Len(t.scopes)] IN
  /\ id \in 1..Len(t.spans)
  /\ Shaped(u, F) /\ Alike(u, t)
  /\ Len(u.scopes) = Len(t.scopes) - 1
  /\ \A k \in 1..Len(t.scopes) - 1 : u.scopes[k] = t.scopes[k]
  /\ Untouched(u, t, id)
  /\ u.spans[id] = IF t.spans[id].state = "open"
                   THEN EndedSpan(t, t.spans[id], NoTime) ELSE t.spans[id]

LEMMA TopEnds ==
  ASSUME NEW F, NEW t, Shaped(t, F), t.scopes # << >>
  PROVE  TopEnded(EndTop(t), t, F)
<1> DEFINE u == EndTop(t)
           id == Current(t)
<1>1. /\ id \in 1..Len(t.spans) /\ id = t.scopes[Len(t.scopes)]
      /\ Shaped(u, F) /\ Alike(u, t)
      /\ Len(u.scopes) = Len(t.scopes) - 1
      /\ \A k \in 1..Len(t.scopes) - 1 : u.scopes[k] = t.scopes[k]
      /\ Untouched(u, t, id)
      /\ u.spans[id] = IF t.spans[id].state = "open"
                       THEN EndedSpan(t, t.spans[id], NoTime) ELSE t.spans[id]
  BY EndTopIs
<1> HIDE DEF u, id
<1> QED
  BY <1>1 DEF TopEnded, u

\* Above the frame on top there are only scopes of hooks.
LEMMA BelowTop ==
  ASSUME NEW F, NEW t, Shaped(t, F), NEW r \in 0..1, NEW h \in Nat, Lined(t, r, h),
         Len(t.scopes) # 0, t.spans[t.scopes[Len(t.scopes)]].kind # "inferred",
         Len(t.scopes) # 1
  PROVE  LET p == t.scopes[Len(t.scopes) - 1] IN
         /\ h # 0 /\ t.spans[t.scopes[Len(t.scopes)]].kind = "hook"
         /\ \/ t.spans[p].kind # "inferred"
            \/ Len(t.last) # 0 /\ p = t.last[1].span
<1> DEFINE S == Len(t.scopes)
           L == Len(t.last)
           p == t.scopes[S - 1]
<1>1. S \in Nat /\ L \in Nat /\ S = r + L + h /\ S > 1
  <2>1. S \in Nat /\ L \in Nat /\ S = r + L + h
    BY ShapedTypes DEF Lined
  <2> QED
    BY <2>1
<1>2. h # 0
  <2> SUFFICES ASSUME h = 0 PROVE FALSE
    OBVIOUS
  <2>1. L # 0
    BY <1>1
  <2>2. 1 \in 1..L /\ r + L + 1 - 1 = S
    BY <1>1, <2>1
  <2>3. t.scopes[r + L + 1 - 1] = t.last[1].span /\ t.spans[t.last[1].span].kind = "inferred"
    BY <2>2 DEF Lined
  <2> QED
    BY <2>2, <2>3
<1>3. t.spans[t.scopes[S]].kind = "hook"
  <2>1. S \in r + L + 1..S
    BY <1>1, <1>2
  <2> QED
    BY <2>1 DEF Lined
<1>4. CASE S - 1 \in r + L + 1..S
  BY <1>2, <1>3, <1>4 DEF Lined
<1>5. CASE h = 1 /\ L # 0
  <2>1. 1 \in 1..L /\ r + L + 1 - 1 = S - 1
    BY <1>1, <1>5
  <2>2. t.scopes[r + L + 1 - 1] = t.last[1].span
    BY <2>1 DEF Lined
  <2> QED
    BY <1>2, <1>3, <1>5, <2>1, <2>2
<1>6. CASE h = 1 /\ L = 0
  <2>1. r = 1 /\ S - 1 = 1
    BY <1>1, <1>6
  <2>2. t.spans[t.scopes[1]].kind = "root"
    BY <2>1 DEF Lined
  <2> QED
    BY <1>2, <1>3, <2>1, <2>2
<1> QED
  <2>1. h = 1 \/ S - 1 \in r + L + 1..S
    BY <1>1, <1>2
  <2> QED
    BY <1>4, <1>5, <1>6, <2>1

LEMMA SpanEnds ==
  ASSUME NEW F, NEW t, NEW r \in 0..1, NEW h \in Nat, Sound(t, r, h, F), Len(t.scopes) # 0,
         t.spans[t.scopes[Len(t.scopes)]].kind # "inferred",
         NEW u, TopEnded(u, t, F),
         NEW r2, NEW h2, Lined(u, r2, h2)
  PROVE  Sound(u, r2, h2, F)
<1> DEFINE S == Len(t.scopes)
           N == Len(t.spans)
           id == t.scopes[S]
<1>1. /\ S \in Nat /\ N \in Nat /\ S - 1 \in Nat /\ t.now \in Nat /\ t.minDuration \in Nat
      /\ S \in 1..S
      /\ Shaped(t, F) /\ Lined(t, r, h) /\ Attached(t) /\ Chained(t)
  <2>1. /\ S \in Nat /\ N \in Nat /\ t.now \in Nat /\ t.minDuration \in Nat
        /\ Shaped(t, F) /\ Lined(t, r, h) /\ Attached(t) /\ Chained(t)
    BY ShapedTypes DEF Sound
  <2> QED
    BY <2>1
<1>2. /\ id \in 1..N /\ Shaped(u, F) /\ Len(u.spans) = N /\ u.last = t.last
      /\ Len(u.scopes) = S - 1 /\ u.trace = t.trace /\ u.now = t.now
      /\ u.reduction = t.reduction /\ u.minDuration = t.minDuration
      /\ \A s \in 1..N : s # id => u.spans[s] = t.spans[s]
      /\ \A k \in 1..S - 1 : u.scopes[k] = t.scopes[k]
  BY DEF TopEnded, Alike, Untouched
<1>3. /\ u.spans[id].state = "ended" /\ u.spans[id].until = t.now
      /\ u.spans[id].kind = t.spans[id].kind /\ u.spans[id].parent = t.spans[id].parent
      /\ u.spans[id].from = t.spans[id].from
  <2>1. t.spans[id].state = "open"
    BY <1>1 DEF Attached
  <2>2. u.spans[id] = EndedSpan(t, t.spans[id], NoTime)
    BY <2>1 DEF TopEnded
  <2>3. t.spans[id] \in Span(F)
    BY <1>1, <1>2, ShapedTypes
  <2> HIDE DEF id
  <2> QED
    BY <2>2, <2>3 DEF EndedSpan, EndTime, Span
<1> HIDE DEF S, N
<1>4. ASSUME NEW k \in 1..S - 1
      PROVE  /\ k \in 1..S /\ u.scopes[k] = t.scopes[k] /\ t.scopes[k] \in 1..N
             /\ t.scopes[k] # id /\ u.spans[t.scopes[k]] = t.spans[t.scopes[k]]
  <2>1. k \in 1..S /\ k # S
    BY <1>1
  <2>2. t.scopes[k] \in 1..N
    BY <1>1, <2>1 DEF Shaped, S, N
  <2>3. t.scopes[k] # id
    BY <1>1, <2>1, ScopesApart DEF S
  <2> QED
    BY <1>2, <2>1, <2>2, <2>3
<1>5. ASSUME NEW i \in 1..Len(t.last)
      PROVE  u.spans[t.last[i].span] = t.spans[t.last[i].span] /\ FromOf(u, i) = FromOf(t, i)
  <2>1. t.last[i].span \in 1..N
    BY <1>1 DEF Shaped, N
  <2>2. t.last[i].span # id
    BY <1>1 DEF Lined, S
  <2> QED
    BY <1>2, <2>1, <2>2 DEF FromOf
<1>6. Attached(u)
  <2>1. ASSUME NEW k \in 1..S - 1 PROVE u.spans[u.scopes[k]].state = "open"
    <3>1. k \in 1..S /\ u.spans[u.scopes[k]] = t.spans[t.scopes[k]]
      BY <1>4
    <3>2. t.spans[t.scopes[k]].state = "open"
      BY <1>1, <3>1 DEF Attached, S
    <3> QED
      BY <3>1, <3>2
  <2>2. ASSUME NEW s \in 1..N, u.spans[s].state = "open"
        PROVE  u.spans[s].until = NoTime /\ \E k \in 1..S - 1 : u.scopes[k] = s
    <3>1. s # id
      BY <1>3, <2>2
    <3>2. u.spans[s] = t.spans[s]
      BY <1>2, <3>1
    <3>3. t.spans[s].until = NoTime /\ \E k \in 1..S : t.scopes[k] = s
      BY <1>1, <2>2, <3>2 DEF Attached, S, N
    <3>4. PICK k \in 1..S : t.scopes[k] = s
      BY <3>3
    <3>5. k \in 1..S - 1
      <4>1. k # S
        BY <3>1, <3>4
      <4> QED
        BY <1>1, <4>1
    <3> QED
      BY <1>2, <3>2, <3>3, <3>4, <3>5
  <2> QED
    BY <1>2, <2>1, <2>2 DEF Attached
<1>7. Chained(u)
  <2> SUFFICES ASSUME NEW k \in 1..S - 1
               PROVE  u.spans[u.scopes[k]].parent = IF k = 1 THEN NoSpan ELSE u.scopes[k - 1]
    BY <1>2 DEF Chained
  <2>1. t.spans[t.scopes[k]].parent = IF k = 1 THEN NoSpan ELSE t.scopes[k - 1]
    BY <1>1, <1>4 DEF Chained, S
  <2>2. k # 1 => k - 1 \in 1..S - 1
    BY <1>1
  <2> QED
    BY <1>2, <1>4, <2>1, <2>2
<1>8. Before(u, u.now)
  <2> SUFFICES ASSUME NEW s \in 1..N PROVE u.spans[s].from <= t.now /\ u.spans[s].until <= t.now
    BY <1>2 DEF Before
  <2>1. t.spans[s].from <= t.now /\ t.spans[s].until <= t.now
    BY DEF Sound, Before, N
  <2>2. t.now <= t.now
    BY <1>1
  <2> QED
    BY <1>2, <1>3, <2>1, <2>2
<1>9. InOrder(u)
  BY <1>2, <1>5 DEF InOrder, Sound
<1>10. \A i \in 1..Len(u.last) : u.last[i].trace <= u.trace
  BY <1>2 DEF Sound
<1>11. Kept(u, id) => Hangs(u, id, 1..Len(t.last))
  <2> SUFFICES ASSUME Kept(u, id) PROVE Hangs(u, id, 1..Len(t.last))
    OBVIOUS
  <2>1. u.spans[id].parent = IF S = 1 THEN NoSpan ELSE t.scopes[S - 1]
    BY <1>1, <1>3 DEF Chained, S
  <2>2. CASE S = 1
    BY <2>1, <2>2 DEF Hangs
  <2>3. CASE S # 1
    <3> DEFINE p == t.scopes[S - 1]
    <3>1. S - 1 \in 1..S - 1
      BY <1>1, <2>3
    <3>2. p \in 1..N /\ u.spans[p] = t.spans[p] /\ t.spans[p].state = "open"
      BY <1>1, <1>4, <3>1 DEF Attached, S
    <3>3. /\ t.spans[id].kind = "hook"
          /\ t.spans[p].kind # "inferred" \/ (Len(t.last) # 0 /\ p = t.last[1].span)
      BY <1>1, <2>3, BelowTop DEF S
    <3>4. ~(t.minDuration > 0)
      BY <1>2, <1>3, <3>3 DEF Kept
    <3>5. Len(t.last) # 0 => 1 \in 1..Len(t.last) /\ Keeper(u, 1)
      <4>1. Len(t.last) \in Nat
        BY <1>1, ShapedTypes
      <4> QED
        BY <4>1 DEF Keeper
    <3> QED
      BY <1>2, <2>1, <2>3, <3>2, <3>3, <3>4, <3>5 DEF Hangs
  <2> QED
    BY <2>2, <2>3
<1>12. Rooted(u, 1..Len(u.last))
  <2> SUFFICES ASSUME NEW s \in 1..N, Kept(u, s), s # id PROVE Hangs(u, s, 1..Len(t.last))
    BY <1>2, <1>11 DEF Rooted
  <2> DEFINE p == t.spans[s].parent
  <2>1. u.spans[s] = t.spans[s]
    BY <1>2
  <2>2. Hangs(t, s, 1..Len(t.last))
    BY <1>2, <2>1 DEF Kept, Sound, Rooted, N
  <2>3. p = NoSpan \/ p \in 1..N
    <3>1. p \in Nat /\ p < s
      BY <1>1, ShapedTypes DEF Shaped, N
    <3> HIDE DEF p
    <3> QED
      BY <1>1, <3>1 DEF NoSpan
  <2>4. CASE p = id
    BY <1>3, <2>1, <2>4 DEF Hangs
  <2>5. CASE p # id
    <3>1. p = NoSpan \/ u.spans[p] = t.spans[p]
      BY <1>2, <2>3, <2>5
    <3> QED
      BY <1>2, <2>1, <2>2, <3>1 DEF Hangs, Keeper
  <2> QED
    BY <2>4, <2>5
<1>13. Distinct(u)
  <2> SUFFICES ASSUME t.reduction, NEW s \in 1..N, NEW x \in 1..N,
                      EndedFrame(u, s), EndedFrame(u, x), s # x
               PROVE  u.spans[s].from # u.spans[x].from \/ u.spans[s].until # u.spans[x].until
    BY <1>2 DEF Distinct
  <2>1. t.spans[id].kind # "inferred"
    BY DEF S
  <2>2. s # id /\ x # id
    BY <1>3, <2>1 DEF EndedFrame
  <2>3. u.spans[s] = t.spans[s] /\ u.spans[x] = t.spans[x]
    BY <1>2, <2>2
  <2> QED
    BY <2>3 DEF EndedFrame, Sound, Distinct, N
<1> QED
  BY <1>2, <1>6, <1>7, <1>8, <1>9, <1>10, <1>12, <1>13 DEF Sound


LEMMA HookEnds ==
  ASSUME NEW F, NEW t, NEW r \in 0..1, NEW h \in Nat, h # 0, Sound(t, r, h, F)
  PROVE  t.scopes # << >> /\ Sound(EndTop(t), r, h - 1, F)
<1> DEFINE S == Len(t.scopes)
           L == Len(t.last)
           N == Len(t.spans)
           id == t.scopes[S]
           u == EndTop(t)
<1>1. /\ S \in Nat /\ L \in Nat /\ S = r + L + h /\ S # 0 /\ t.scopes # << >>
      /\ Shaped(t, F) /\ Lined(t, r, h)
  <2>1. Shaped(t, F) /\ Lined(t, r, h)
    BY DEF Sound
  <2>2. S \in Nat /\ L \in Nat /\ S = r + L + h /\ t.scopes \in Seq(Nat)
    BY <2>1, ShapedTypes DEF Lined
  <2> QED
    BY <2>1, <2>2
<1>2. TopEnded(u, t, F)
  BY <1>1, TopEnds
<1> HIDE DEF u
<1>3. /\ id \in 1..N /\ u.last = t.last /\ Len(u.scopes) = S - 1
      /\ \A s \in 1..N : s # id => u.spans[s] = t.spans[s]
      /\ \A k \in 1..S - 1 : u.scopes[k] = t.scopes[k]
  BY <1>2 DEF TopEnded, Alike, Untouched
<1>4. t.spans[id].kind = "hook"
  <2>1. S \in r + L + 1..S
    <3> HIDE DEF S, L
    <3> QED
      BY <1>1
  <2> QED
    BY <1>1, <2>1 DEF Lined
<1> HIDE DEF S, L
<1>5. ASSUME NEW k \in 1..S - 1
      PROVE  /\ k \in 1..S /\ u.scopes[k] = t.scopes[k] /\ t.scopes[k] \in 1..N
             /\ u.spans[t.scopes[k]] = t.spans[t.scopes[k]]
  <2>1. k \in 1..S /\ k # S /\ S \in 1..S
    BY <1>1
  <2>2. t.scopes[k] \in 1..N
    BY <1>1, <2>1 DEF Shaped, S
  <2>3. t.scopes[k] # id
    BY <1>1, <2>1, ScopesApart DEF S
  <2> QED
    BY <1>3, <2>1, <2>2, <2>3
<1>6. Lined(u, r, h - 1)
  <2>1. r = 1 => u.spans[u.scopes[1]].kind = "root"
    <3>1. r = 1 => 1 \in 1..S - 1
      BY <1>1
    <3>2. r = 1 => t.spans[t.scopes[1]].kind = "root"
      BY <1>1 DEF Lined
    <3> QED
      BY <1>5, <3>1, <3>2
  <2>2. ASSUME NEW i \in 1..L
        PROVE  /\ u.scopes[r + L + 1 - i] = t.last[i].span
               /\ u.spans[t.last[i].span].kind = "inferred"
    <3>1. r + L + 1 - i \in 1..S - 1
      BY <1>1
    <3>2. t.scopes[r + L + 1 - i] = t.last[i].span /\ t.spans[t.last[i].span].kind = "inferred"
      BY <1>1 DEF Lined, L
    <3>3. u.scopes[r + L + 1 - i] = t.scopes[r + L + 1 - i]
          /\ u.spans[t.scopes[r + L + 1 - i]] = t.spans[t.scopes[r + L + 1 - i]]
      BY <1>5, <3>1
    <3> QED
      BY <3>2, <3>3
  <2>3. ASSUME NEW k \in r + L + 1..S - 1 PROVE u.spans[u.scopes[k]].kind = "hook"
    <3>1. k \in r + L + 1..S /\ k \in 1..S - 1
      BY <1>1
    <3>2. t.spans[t.scopes[k]].kind = "hook"
      BY <1>1, <3>1 DEF Lined, S, L
    <3> QED
      BY <1>5, <3>1, <3>2
  <2>4. S - 1 = r + L + (h - 1)
    BY <1>1
  <2> QED
    BY <1>3, <2>1, <2>2, <2>3, <2>4 DEF Lined, L
<1>7. Sound(u, r, h - 1, F)
  BY <1>1, <1>2, <1>4, <1>6, SpanEnds DEF S
<1> QED
  BY <1>1, <1>7 DEF u

\* The root span starts in a tracing state that is empty.
Blank(t, F) ==
  /\ t \in Tracing(F) /\ t.scopes = << >> /\ t.spans = << >> /\ t.last = << >>

LEMMA BlankIsSound ==
  ASSUME NEW F, NEW t, Blank(t, F)
  PROVE  Sound(t, 0, 0, F)
<1>1. Len(t.scopes) = 0 /\ Len(t.spans) = 0 /\ Len(t.last) = 0
  BY DEF Blank
<1>2. Shaped(t, F)
  BY <1>1 DEF Blank, Shaped, Increasing
<1>3. Lined(t, 0, 0) /\ Attached(t) /\ Chained(t)
  BY <1>1 DEF Lined, Attached, Chained
<1>4. Before(t, t.now) /\ InOrder(t) /\ \A i \in 1..Len(t.last) : t.last[i].trace <= t.trace
  BY <1>1 DEF Before, InOrder
<1>5. Rooted(t, 1..Len(t.last)) /\ Distinct(t)
  BY <1>1 DEF Rooted, Distinct
<1> QED
  BY <1>2, <1>3, <1>4, <1>5 DEF Sound

LEMMA RootStarts ==
  ASSUME NEW F, NEW t, Blank(t, F), NEW fn \in F
  PROVE  Sound(StartSpan(t, "root", fn, NoSpan, 0), 1, 0, F)
<1> DEFINE u == StartSpan(t, "root", fn, NoSpan, 0)
<1>1. Sound(t, 0, 0, F)
  BY BlankIsSound
<1>2. Shaped(t, F) /\ t.now \in Nat
  BY <1>1, ShapedTypes DEF Sound
<1>3. Current(t) = NoSpan /\ NoSpan \in 0..Len(t.spans)
  BY DEF Blank, Current, NoSpan
<1>4. Started(u, t, "root", fn, Current(t), 0, F)
  BY <1>2, <1>3, StartSpanIs
<1> HIDE DEF u
<1>5. Lined(u, 1, 0)
  <2>1. Len(u.scopes) = 1 /\ u.scopes[1] = 1 /\ u.spans[1].kind = "root" /\ Len(u.last) = 0
    BY <1>4 DEF Started, Blank
  <2> QED
    BY <2>1 DEF Lined
<1>6. 0 \in Int /\ 0 <= t.now
  BY <1>2
<1>7. Sound(u, 1, 0, F)
  BY <1>1, <1>4, <1>5, <1>6, SpanStarts
<1> QED
  BY <1>7 DEF u

\* It ends when nothing else is open, and leaves no scope.
LEMMA RootEndsLast ==
  ASSUME NEW F, NEW t, Sound(t, 1, 0, F), t.last = << >>
  PROVE  /\ t.scopes # << >> /\ Sound(EndTop(t), 0, 0, F)
         /\ EndTop(t).last = << >>
<1> DEFINE u == EndTop(t)
<1>1. /\ Shaped(t, F) /\ Lined(t, 1, 0) /\ Len(t.last) = 0 /\ Len(t.scopes) = 1
      /\ t.scopes # << >>
  <2>1. Shaped(t, F) /\ Lined(t, 1, 0) /\ Len(t.last) = 0
    BY DEF Sound
  <2>2. Len(t.scopes) = 1
    BY <2>1 DEF Lined
  <2>3. t.scopes # << >>
    <3>1. Len(t.scopes) # 0
      BY <2>2
    <3> QED
      BY <2>1, <3>1, CurrentIs, Zenon
  <2> QED
    BY <2>1, <2>2, <2>3, Zenon
<1>2. TopEnded(u, t, F)
  BY <1>1, TopEnds
<1> HIDE DEF u
<1>3. Len(u.scopes) = 0 /\ u.last = t.last
  BY <1>1, <1>2 DEF TopEnded, Alike
<1>4. Lined(u, 0, 0)
  BY <1>1, <1>3 DEF Lined
<1>5. t.spans[t.scopes[Len(t.scopes)]].kind # "inferred"
  BY <1>1 DEF Lined
<1>6. 1 \in 0..1 /\ 0 \in Nat /\ Len(t.scopes) # 0
  BY <1>1
<1>7. Sound(u, 0, 0, F)
  BY <1>2, <1>4, <1>5, <1>6, SpanEnds
<1>8. u.last = << >>
  BY <1>3
<1> QED
  BY <1>1, <1>7, <1>8 DEF u

-----------------------------------------------------------------------------
(* What a request does to a tracing state that it may find in any shape.   *)

LEMMA TraceCaptured ==
  ASSUME NEW F, NEW t, Shaped(t, F), NEW calls \in Seq(F), NEW dur \in 0..1,
         NEW internal \in BOOLEAN, NEW filtered
  PROVE  LET u == CaptureStackTrace(t, calls, dur, internal, filtered) IN
         /\ Shaped(u, F) /\ u.shutdown = t.shutdown /\ u.reduction = t.reduction
         /\ u.minDuration = t.minDuration
         /\ t.shutdown => u = t
<1> DEFINE v == [t EXCEPT !.now = @ + 2]
<1>1. CASE t.shutdown
  BY <1>1 DEF CaptureStackTrace
<1>2. CASE ~t.shutdown
  <2>1. Altered(v, t, F) /\ v.shutdown = t.shutdown
    <3>1. t \in Tracing(F) /\ t.now + 2 \in Nat
      BY ShapedTypes DEF Shaped
    <3> QED
      BY <3>1 DEF Tracing, Altered
  <2> HIDE DEF v
  <2>2. Shaped(v, F) /\ dur \in Nat
    BY <2>1, AlteredShaped
  <2>3. Compared(CompareStackTraces(v, calls, dur, internal, filtered), v, F)
    BY <2>2, CompareKeeps
  <2>4. CaptureStackTrace(t, calls, dur, internal, filtered)
          = CompareStackTraces(v, calls, dur, internal, filtered)
    BY <1>2 DEF CaptureStackTrace, v
  <2> QED
    BY <1>2, <2>1, <2>3, <2>4 DEF Compared, Altered
<1> QED
  BY <1>1, <1>2

LEMMA CapturedSound ==
  ASSUME NEW F, NEW t, NEW r \in 0..1, Sound(t, r, 0, F), NEW calls \in Seq(F), NEW dur \in 0..1,
         NEW internal \in BOOLEAN, NEW filtered
  PROVE  Sound(CaptureStackTrace(t, calls, dur, internal, filtered), r, 0, F)
<1> DEFINE v == [t EXCEPT !.now = @ + 2]
<1>1. CASE t.shutdown
  BY <1>1 DEF CaptureStackTrace
<1>2. CASE ~t.shutdown
  <2>1. Altered(v, t, F) /\ v.trace = t.trace /\ v.now = t.now + 2
    <3>1. t \in Tracing(F) /\ t.now + 2 \in Nat
      BY ShapedTypes DEF Shaped, Sound
    <3> QED
      BY <3>1 DEF Tracing, Altered
  <2> HIDE DEF v
  <2>2. Tree(t, r, 0) /\ Shaped(t, F) /\ t.now \in Nat
    BY ShapedTypes DEF Sound, Tree
  <2>3. Shaped(v, F) /\ Tree(v, r, 0) /\ dur \in Nat
    BY <2>1, <2>2, AlteredShaped, AlteredTree
  <2>4. Before(v, t.now) /\ t.now \in Int /\ t.now < v.now - dur
    BY <2>1, <2>2 DEF Before, Altered, Sound
  <2>5. \A i \in 1..Len(v.last) : v.last[i].trace <= v.trace
    BY <2>1 DEF Altered, Sound
  <2>6. Sound(CompareStackTraces(v, calls, dur, internal, filtered), r, 0, F)
    BY <2>3, <2>4, <2>5, CompareSound
  <2> QED
    BY <1>2, <2>6 DEF CaptureStackTrace, v
<1> QED
  BY <1>1, <1>2

LEMMA ShutdownKeeps ==
  ASSUME NEW F, NEW t, Shaped(t, F)
  PROVE  Shaped(Shutdown(t), F) /\ Shutdown(t).minDuration = t.minDuration
         /\ Shutdown(t).reduction = t.reduction
<1> DEFINE v == [t EXCEPT !.shutdown = TRUE, !.now = @ + 1]
<1>1. Altered(v, t, F)
  <2>1. t \in Tracing(F) /\ t.now + 1 \in Nat
    BY ShapedTypes DEF Shaped
  <2> QED
    BY <2>1 DEF Tracing, Altered
<1> HIDE DEF v
<1>2. Shaped(v, F) /\ 0 \in Nat /\ << >> \in Seq(F) /\ FALSE \in BOOLEAN
  BY <1>1, AlteredShaped
<1>3. Compared(CompareStackTraces(v, << >>, 0, FALSE, FALSE), v, F)
  BY <1>2, CompareKeeps
<1> QED
  BY <1>1, <1>3 DEF Compared, Shutdown, v, Altered

LEMMA ShutdownSound ==
  ASSUME NEW F, NEW t, NEW r \in 0..1, Sound(t, r, 0, F)
  PROVE  Sound(Shutdown(t), r, 0, F) /\ Shutdown(t).last = << >>
<1> DEFINE v == [t EXCEPT !.shutdown = TRUE, !.now = @ + 1]
<1>1. Altered(v, t, F) /\ v.trace = t.trace /\ v.now = t.now + 1
  <2>1. t \in Tracing(F) /\ t.now + 1 \in Nat
    BY ShapedTypes DEF Shaped, Sound
  <2> QED
    BY <2>1 DEF Tracing, Altered
<1> HIDE DEF v
<1>2. Tree(t, r, 0) /\ Shaped(t, F) /\ t.now \in Nat
  BY ShapedTypes DEF Sound, Tree
<1>3. Shaped(v, F) /\ Tree(v, r, 0) /\ 0 \in Nat /\ << >> \in Seq(F) /\ FALSE \in BOOLEAN
  BY <1>1, <1>2, AlteredShaped, AlteredTree
<1>4. Before(v, t.now) /\ t.now \in Int /\ t.now < v.now - 0
  BY <1>1, <1>2 DEF Before, Altered, Sound
<1>5. \A i \in 1..Len(v.last) : v.last[i].trace <= v.trace
  BY <1>1 DEF Altered, Sound
<1>6. Sound(CompareStackTraces(v, << >>, 0, FALSE, FALSE), r, 0, F)
  BY <1>3, <1>4, <1>5, CompareSound
<1>7. CompareStackTraces(v, << >>, 0, FALSE, FALSE).last = << >>
  BY <1>3, CompareEmpty
<1> QED
  BY <1>6, <1>7 DEF Shutdown, v

\* PHP collects the spans that have been detached.
LEMMA CollectedAltered ==
  ASSUME NEW F, NEW t, Shaped(t, F), NEW collected \in BOOLEAN
  PROVE  LET u == [t EXCEPT !.garbage = IF collected THEN {} ELSE @] IN
         /\ Shaped(u, F) /\ u.shutdown = t.shutdown /\ u.last = t.last /\ u.scopes = t.scopes
         /\ u.minDuration = t.minDuration /\ u.reduction = t.reduction
         /\ \A r, h : Sound(t, r, h, F) => Sound(u, r, h, F)
<1> DEFINE g == IF collected THEN {} ELSE t.garbage
           u == [t EXCEPT !.garbage = g]
<1>1. t \in Tracing(F) /\ g \in SUBSET Nat
  BY ShapedTypes DEF Shaped
<1> HIDE DEF g
<1>2. Altered(u, t, F) /\ u.now = t.now /\ u.trace = t.trace /\ u.shutdown = t.shutdown
  BY <1>1 DEF Tracing, Altered
<1>3. u = [t EXCEPT !.garbage = IF collected THEN {} ELSE @]
  BY DEF g
<1> HIDE DEF u
<1>4. Shaped(u, F)
  BY <1>2, AlteredShaped
<1>5. ASSUME NEW r, NEW h, Sound(t, r, h, F) PROVE Sound(u, r, h, F)
  <2>1. Tree(t, r, h)
    BY <1>5 DEF Sound, Tree
  <2>2. Tree(u, r, h)
    BY <1>2, <2>1, AlteredTree
  <2>3. Before(u, u.now) /\ \A i \in 1..Len(u.last) : u.last[i].trace <= u.trace
    BY <1>2, <1>5 DEF Sound, Before, Altered
  <2> QED
    BY <1>4, <2>2, <2>3 DEF Sound, Tree
<1> QED
  BY <1>2, <1>3, <1>4, <1>5 DEF Altered

=============================================================================
