-------------------------- MODULE InferredSpansPhp --------------------------
(***************************************************************************)
(* How the PHP part turns stack traces into spans (InferredSpans.php).  A  *)
(* tracing state holds the spans of a request, the scopes that the OTel    *)
(* context storage has attached, and the frames of the last stack trace.   *)
(* A frame refers to its span weakly: once the scope is detached, the span *)
(* lives on only until PHP collects its garbage.                           *)
(*                                                                         *)
(* Time runs two ticks from one stack trace to the next.  A trace is taken *)
(* 0 or 1 ticks after the interrupt was requested.                         *)
(***************************************************************************)
EXTENDS Integers, Sequences, SequencesExt

NoSpan == 0
NoTime == -1

NoTracing == [scopes  |-> << >>,  \* spans whose scopes are attached, newest last
              spans   |-> << >>,  \* every span of the request, as it was started
              last    |-> << >>,  \* lastStackTrace, the top of the stack first
              garbage |-> {},     \* spans detached and not yet collected
              trace   |-> 0,      \* stackTraceId
              now     |-> 0,
              shutdown |-> TRUE,  \* or there is no InferredSpans at all
              reduction |-> FALSE, minDuration |-> 0]

Current(t) == IF t.scopes = << >> THEN NoSpan ELSE Last(t.scopes)

(* A span is started in a parent and its scope attached. *)
StartSpan(t, kind, fn, parent, from) ==
  [t EXCEPT !.spans = Append(@, [kind |-> kind, fn |-> fn, parent |-> parent,
                                 from |-> from, until |-> NoTime, state |-> "open"]),
            !.scopes = Append(@, Len(t.spans) + 1)]

(* Its scope is taken out of the list, wherever it is. *)
Without(scopes, id) ==
  IF id \in ToSet(scopes)
  THEN RemoveAt(scopes, CHOOSE i \in DOMAIN scopes : scopes[i] = id)
  ELSE scopes

Detach(t, id) ==
  [t EXCEPT !.scopes = Without(@, id), !.garbage = @ \cup {id}]

(* A span ends once; later calls change nothing. *)
EndSpan(t, id, until) ==
  IF t.spans[id].state = "open"
  THEN [t EXCEPT !.spans[id].state = "ended",
                 !.spans[id].until = IF until = NoTime THEN t.now ELSE until]
  ELSE t

(* What the hooks of functions and the root span do when they end. *)
EndTop(t) == EndSpan(Detach(t, Current(t)), Current(t), NoTime)

Alive(t, id) == id \in ToSet(t.scopes) \cup t.garbage

-----------------------------------------------------------------------------

TooShort(t, id, until) ==
  LET span == t.spans[id]
      end == IF until # NoTime THEN until
             ELSE IF span.until # NoTime THEN span.until ELSE t.now
  IN t.minDuration > 0 /\ end - span.from < t.minDuration

\* Mutant of EndFrameSpan: the scope of a dropped frame stays.
EndFrameSpanLeaking(t, frame, drop, until) ==
  CASE ~Alive(t, frame.span) -> t
    [] Alive(t, frame.span) /\ (drop \/ TooShort(t, frame.span, until))
         -> [t EXCEPT !.spans[frame.span].state = IF @ = "open" THEN "dropped" ELSE @]
    [] OTHER
         -> IF t.scopes = << >> THEN t
            ELSE EndSpan(Detach(t, Current(t)), frame.span, until)

(* A dropped frame takes its own scope away.  One that ends takes away the *)
(* newest scope there is, which should be its own.  The early return is    *)
(* here for a span that PHP has collected; in a request that is not        *)
(* sampled it is taken for the live spans too, which do not record.        *)
EndFrameSpan(t, frame, drop, until) ==
  CASE ~Alive(t, frame.span) -> t
    [] Alive(t, frame.span) /\ (drop \/ TooShort(t, frame.span, until))
         -> [Detach(t, frame.span) EXCEPT
               !.spans[frame.span].state = IF @ = "open" THEN "dropped" ELSE @]
    [] OTHER
         -> IF t.scopes = << >> THEN t
            ELSE EndSpan(Detach(t, Current(t)), frame.span, until)

(* The frames below frame i that came with the same stack trace. *)
SameInterval(t, i, old) ==
  {j \in i + 1..old : \A k \in i + 1..j :
     /\ t.last[k].trace = t.last[i].trace
     /\ Alive(t, t.last[k].span)}

\* Mutant of Reduces: only neighbours of different traces are reduced.
ReducesOthers(t, i) ==
  t.reduction /\ i > 1 /\ t.last[i - 1].trace # t.last[i].trace

(* A frame below one of the same stack trace has the same times. *)
Reduces(t, i) ==
  t.reduction /\ i > 1 /\ t.last[i - 1].trace = t.last[i].trace

\* Mutant of Lowest: the search stops at the first frame.
Nearest(below) == CHOOSE j \in below : \A k \in below : j <= k

Lowest(below) == CHOOSE j \in below : \A k \in below : k <= j

(* The frame that is kept gets the parent of the last one that is not. *)
ChangeParent(t, i, old) ==
  LET below == SameInterval(t, i, old) IN
  IF t.reduction /\ ~Reduces(t, i) /\ below # {} /\ Alive(t, t.last[i].span)
  THEN [t EXCEPT !.spans[t.last[i].span].parent =
                    t.spans[t.last[Lowest(below)].span].parent]
  ELSE t

(* The first old frames end, from the top down: ended[i] is what the first *)
(* i of them leave.                                                        *)
EndFrames(t, old, until) ==
  LET ended[i \in 0..old] ==
        IF i = 0 THEN t
        ELSE EndFrameSpan(ChangeParent(ended[i - 1], i, old), t.last[i], Reduces(t, i), until)
  IN [ended[old] EXCEPT !.last = SubSeq(@, old + 1, Len(@))]

StartFrame(t, fn, parent, dur, ended) ==
  LET started == StartSpan(t, "inferred", fn, parent, t.now - dur)
      frame == [fn |-> fn, span |-> Len(started.spans), trace |-> t.trace]
  IN IF ended
     THEN EndFrameSpan(started, frame, FALSE, NoTime)
     ELSE [started EXCEPT !.last = <<frame>> \o @]

(* New frames from the bottom up; an internal function on top has ended.   *)
(* Where frames of a hook were cut off, the first new frame goes below the *)
(* last frame known rather than below the current scope.                   *)
ParentOfNew(t, i, filtered) ==
  IF i = 1 /\ filtered /\ t.last # << >> /\ Alive(t, t.last[1].span)
  THEN t.last[1].span ELSE Current(t)

StartFrames(t, new, dur, internal, filtered) ==
  LET started[i \in 0..Len(new)] ==
        IF i = 0 THEN t
        ELSE StartFrame(started[i - 1], new[i], ParentOfNew(started[i - 1], i, filtered),
                        dur, internal /\ i = Len(new))
  IN started[Len(new)]

\* The longest common beginning of two sequences.
Identical(s, u) ==
  LET same == {n \in 0..Len(s) : n <= Len(u) /\ SubSeq(s, 1, n) = SubSeq(u, 1, n)}
  IN CHOOSE n \in same : \A k \in same : k <= n

(* calls: the functions of the stack trace, the outermost first. *)
CompareStackTraces(t, calls, dur, internal, filtered) ==
  LET known == Reverse([i \in DOMAIN t.last |-> t.last[i].fn])
      same == Identical(known, calls)
      ended == EndFrames([t EXCEPT !.trace = @ + 1], Len(known) - same,
                         IF internal THEN t.now - dur ELSE NoTime)
  IN StartFrames(ended, SubSeq(calls, same + 1, Len(calls)), dur, internal, filtered)

CaptureStackTrace(t, calls, dur, internal, filtered) ==
  IF t.shutdown
  THEN t
  ELSE CompareStackTraces([t EXCEPT !.now = @ + 2], calls, dur, internal, filtered)

(* What is open when the root span ends is ended first. *)
Shutdown(t) ==
  CompareStackTraces([t EXCEPT !.shutdown = TRUE, !.now = @ + 1], << >>, 0, FALSE, FALSE)
=============================================================================
