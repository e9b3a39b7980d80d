--------------------------- MODULE PhpRequestProofs ---------------------------
(***************************************************************************)
(* Machine-checked proofs about PhpRequest, for any functions, any way     *)
(* they inherit from one another, any hooks and any depth of calls: with   *)
(* scripts, hooks and stack traces in them, requests are still those of    *)
(* RequestScope; functions are called as FunctionHooks says; and the spans *)
(* of hooks, of stack frames and the root make the tree they should.       *)
(***************************************************************************)
EXTENDS PhpRequest, RequestScopeProofs, InferredSpansPhpProofs, FiniteSetTheorems

-----------------------------------------------------------------------------
(* Calls and hooks.                                                        *)

Sides == {"pre", "post"}

Frames == [fn : Internal \cup User, handled : SUBSET Sides,
           stage : {"pre", "body", "post", "done"}, next : Nat, pres : Nat, ran : BOOLEAN]

\* The types of HooksTypeOK in the detail the proofs need; a function that has
\* our handler has its original under its own name; a body that is under way
\* or has been left has run.
HInv ==
  /\ replaced \subseteq originals
  /\ originals \subseteq Internal
  /\ hooks \in [Keys -> Seq(SpanHooks \cup PostHooks)]
  /\ observer \in [User -> (SUBSET Sides) \cup {Nothing}]
  /\ stack \in Seq(Frames)
  /\ Len(stack) <= MaxDepth
  /\ \A i \in 1..Len(stack) :
       /\ i < Len(stack) => stack[i].stage = "body"
       /\ stack[i].stage = "body" => stack[i].ran /\ stack[i].next = 1
       /\ stack[i].stage \in Sides => stack[i].next \in 1..Len(HooksOf(stack[i])) + 1
       /\ stack[i].stage \in {"post", "done"} =>
            stack[i].ran \/ (stack[i].fn \in Internal /\ Declared[stack[i].fn] # stack[i].fn)

LEMMA HInvTypes == HInv => HooksTypeOK /\ CalledRuns
<1> SUFFICES ASSUME HInv PROVE HooksTypeOK /\ CalledRuns
  OBVIOUS
<1>1. stack \in Seq(Frames) /\ DOMAIN stack = 1..Len(stack)
  BY DEF HInv
<1>2. \A i \in DOMAIN stack : stack[i].fn \in Internal \cup User
  <2>1. \A i \in DOMAIN stack : stack[i] \in Frames
    BY <1>1
  <2> QED
    BY <2>1 DEF Frames
<1>3. HooksTypeOK
  <2>1. \A i \in DOMAIN stack :
          /\ i < Len(stack) => stack[i].stage = "body"
          /\ stack[i].stage \in {"pre", "post"} =>
               stack[i].next \in 1..Len(HooksOf(stack[i])) + 1
    BY <1>1 DEF HInv, Sides
  <2>2. replaced \subseteq Internal
    BY DEF HInv
  <2> QED
    BY <1>2, <2>1, <2>2 DEF HInv, HooksTypeOK
<1>4. CalledRuns
  BY <1>1 DEF HInv, CalledRuns
<1> QED
  BY <1>3, <1>4

-----------------------------------------------------------------------------
(* Lemmas about keys, lists of hooks and the stack.                        *)

LEMMA KeyType == ASSUME NEW f \in Internal \cup User PROVE KeyOf(f) \in Keys
BY HooksAssumption DEF KeyOf, Keys

\* The hooks that a call finds: those of its function or of its interface.
LEMMA ObservedType ==
  ASSUME HInv, NEW f \in User
  PROVE  /\ hooks[f] \in Seq(SpanHooks \cup PostHooks)
         /\ Observed(f) \in Seq(SpanHooks \cup PostHooks)
         /\ Len(hooks[f]) <= Len(Observed(f))
<1>1. f \in Keys /\ hooks[f] \in Seq(SpanHooks \cup PostHooks)
  BY DEF Keys, HInv
<1>2. CASE hooks[f] = << >> /\ Implements[f] # Nothing
  <2>1. Implements[f] \in Keys
    BY <1>2, HooksAssumption DEF Keys
  <2> QED
    BY <1>1, <1>2, <2>1 DEF Observed, HInv
<1>3. CASE ~(hooks[f] = << >> /\ Implements[f] # Nothing)
  BY <1>1, <1>3 DEF Observed
<1> QED
  BY <1>2, <1>3

\* The newest call, and the calls below it.
LEMMA TopType ==
  ASSUME HInv, stack # << >>
  PROVE  /\ Len(stack) \in Nat \ {0}
         /\ TopCall = stack[Len(stack)] /\ TopCall \in Frames
         /\ Front(stack) \in Seq(Frames) /\ Len(Front(stack)) = Len(stack) - 1
         /\ \A i \in 1..Len(stack) - 1 : Front(stack)[i] = stack[i]
<1>1. stack \in Seq(Frames) /\ Len(stack) \in Nat \ {0}
  BY DEF HInv
<1>2. TopCall = stack[Len(stack)] /\ TopCall \in Frames
  BY <1>1 DEF TopCall, Last
<1>3. Front(stack) = [i \in 1..Len(stack) - 1 |-> stack[i]]
  BY <1>1 DEF Front
<1>4. Front(stack) \in Seq(Frames) /\ Len(Front(stack)) = Len(stack) - 1
  BY <1>1, <1>3
<1> QED
  BY <1>1, <1>2, <1>3, <1>4

\* Replacing the newest call by one that is as it should be keeps the rest.
LEMMA SetTopKeeps ==
  ASSUME HInv, stack # << >>, OnlyStack, NEW frame \in Frames, SetTop(frame),
         frame.stage = "body" => frame.ran /\ frame.next = 1,
         frame.stage \in Sides => frame.next \in 1..Len(HooksOf(frame)) + 1,
         frame.stage \in {"post", "done"} =>
           frame.ran \/ (frame.fn \in Internal /\ Declared[frame.fn] # frame.fn)
  PROVE  HInv'
<1>1. /\ Len(stack) \in Nat \ {0} /\ Front(stack) \in Seq(Frames)
      /\ Len(Front(stack)) = Len(stack) - 1
      /\ \A i \in 1..Len(stack) - 1 : Front(stack)[i] = stack[i]
  BY TopType
<1>2. stack' = Append(Front(stack), frame)
  BY DEF SetTop
<1>3. /\ stack' \in Seq(Frames) /\ Len(stack') = Len(stack)
      /\ stack'[Len(stack')] = frame
      /\ \A i \in 1..Len(stack') - 1 : stack'[i] = stack[i]
  BY <1>1, <1>2
<1>4. ASSUME NEW i \in 1..Len(stack')
      PROVE  /\ i < Len(stack') => stack'[i].stage = "body"
             /\ stack'[i].stage = "body" => stack'[i].ran /\ stack'[i].next = 1
             /\ stack'[i].stage \in Sides => stack'[i].next \in 1..Len(HooksOf(stack[i])') + 1
             /\ stack'[i].stage \in {"post", "done"} =>
                  stack'[i].ran
                    \/ (stack'[i].fn \in Internal /\ Declared[stack'[i].fn] # stack'[i].fn)
  <2>1. CASE i = Len(stack')
    BY <1>3, <2>1 DEF OnlyStack, HooksOf
  <2>2. CASE i # Len(stack')
    <3>1. i \in 1..Len(stack) - 1 /\ stack'[i] = stack[i] /\ i < Len(stack)
      BY <1>1, <1>3, <2>2
    <3>2. i \in 1..Len(stack)
      BY <1>1, <3>1
    <3> QED
      BY <3>1, <3>2 DEF HInv, OnlyStack, HooksOf, Sides
  <2> QED
    BY <2>1, <2>2
<1> QED
  BY <1>3, <1>4 DEF HInv, OnlyStack

\* A new call on top of one whose body is under way.
LEMMA PushKeeps ==
  ASSUME HInv, NEW frame \in Frames, Push(frame),
         UNCHANGED <<replaced, originals>>,
         hooks' \in [Keys -> Seq(SpanHooks \cup PostHooks)],
         \A k \in Keys : Len(hooks[k]) <= Len(hooks'[k]),
         observer' \in [User -> (SUBSET Sides) \cup {Nothing}],
         frame.stage = "body" => frame.ran /\ frame.next = 1,
         frame.next = 1,
         frame.stage \in {"post", "done"} =>
           frame.ran \/ (frame.fn \in Internal /\ Declared[frame.fn] # frame.fn)
  PROVE  HInv'
<1>1. /\ stack \in Seq(Frames) /\ Len(stack) \in Nat /\ Len(stack) < MaxDepth
      /\ stack' = Append(stack, frame)
  BY DEF Push, HInv
<1>2. /\ stack' \in Seq(Frames) /\ Len(stack') = Len(stack) + 1
      /\ stack'[Len(stack')] = frame
      /\ \A i \in 1..Len(stack) : stack'[i] = stack[i]
  BY <1>1
<1>3. ASSUME NEW i \in 1..Len(stack) PROVE stack[i].stage = "body"
  <2>1. stack # << >>
    BY <1>1
  <2>2. stack[Len(stack)].stage = "body"
    BY <2>1 DEF Push, Last
  <2>3. i < Len(stack) => stack[i].stage = "body"
    BY DEF HInv
  <2> QED
    BY <1>1, <2>2, <2>3
<1>4. KeyOf(frame.fn) \in Keys
  BY KeyType DEF Frames
<1>5. frame.stage \in Sides => frame.next \in 1..Len(HooksOf(frame)') + 1
  BY <1>4 DEF HooksOf
<1>6. Len(stack') <= MaxDepth
  BY <1>1, <1>2, HooksAssumption
<1>7. \A i \in 1..Len(stack') :
        /\ i < Len(stack') => stack'[i].stage = "body"
        /\ stack'[i].stage = "body" => stack'[i].ran /\ stack'[i].next = 1
        /\ stack'[i].stage \in Sides => stack'[i].next \in 1..Len(HooksOf(stack[i])') + 1
        /\ stack'[i].stage \in {"post", "done"} =>
             stack'[i].ran \/ (stack'[i].fn \in Internal /\ Declared[stack'[i].fn] # stack'[i].fn)
  <2> SUFFICES ASSUME NEW i \in 1..Len(stack')
      PROVE  /\ i < Len(stack') => stack'[i].stage = "body"
             /\ stack'[i].stage = "body" => stack'[i].ran /\ stack'[i].next = 1
             /\ stack'[i].stage \in Sides => stack'[i].next \in 1..Len(HooksOf(stack[i])') + 1
             /\ stack'[i].stage \in {"post", "done"} =>
                  stack'[i].ran
                    \/ (stack'[i].fn \in Internal /\ Declared[stack'[i].fn] # stack'[i].fn)
    OBVIOUS
  <2>1. CASE i = Len(stack')
    BY <1>2, <1>5, <2>1
  <2>2. CASE i # Len(stack')
    <3>1. i \in 1..Len(stack) /\ stack'[i] = stack[i] /\ stack[i].stage = "body"
      BY <1>1, <1>2, <1>3, <2>2
    <3>2. stack[i].ran /\ stack[i].next = 1
      BY <3>1 DEF HInv
    <3> QED
      BY <3>1, <3>2 DEF Sides
  <2> QED
    BY <2>1, <2>2
<1> QED
  BY <1>2, <1>6, <1>7 DEF HInv

-----------------------------------------------------------------------------
(* The initial states and the steps.                                       *)

LEMMA HInvInit == HooksInit => HInv
<1> SUFFICES ASSUME HooksInit PROVE HInv
  OBVIOUS
<1>1. stack \in Seq(Frames) /\ Len(stack) = 0 /\ Len(stack) <= MaxDepth
  BY HooksAssumption DEF HooksInit
<1>2. hooks \in [Keys -> Seq(SpanHooks \cup PostHooks)]
  BY DEF HooksInit
<1>3. 1..Len(stack) = {}
  BY <1>1
<1>4. observer \in [User -> (SUBSET Sides) \cup {Nothing}]
  BY DEF HooksInit
<1>5. replaced \subseteq originals /\ originals \subseteq Internal
  BY DEF HooksInit
<1> QED
  BY <1>1, <1>2, <1>3, <1>4, <1>5 DEF HInv

\* A process or a request that starts has no hooks and no calls.
LEMMA ClearKeeps ==
  ASSUME HInv, stack' = << >>, hooks' = [k \in Keys |-> << >>],
         observer' = [f \in User |-> Nothing],
         UNCHANGED <<replaced, originals>> \/ (replaced' = {} /\ originals' = {})
  PROVE  HInv'
<1>1. stack' \in Seq(Frames) /\ Len(stack') = 0 /\ Len(stack') <= MaxDepth
  BY HooksAssumption
<1>2. hooks' \in [Keys -> Seq(SpanHooks \cup PostHooks)]
  OBVIOUS
<1>3. replaced' \subseteq originals' /\ originals' \subseteq Internal
  BY DEF HInv
<1>4. 1..Len(stack') = {}
  BY <1>1
<1>5. observer' \in [User -> (SUBSET Sides) \cup {Nothing}]
  OBVIOUS
<1> QED
  BY <1>1, <1>2, <1>3, <1>4, <1>5 DEF HInv

LEMMA InstrumentKeeps ==
  ASSUME HInv, NEW k \in Keys, NEW h \in SpanHooks \cup PostHooks, InstrumentFunction(k, h)
  PROVE  HInv'
<1>1. /\ hooks' = [hooks EXCEPT ![k] = Append(@, h)]
      /\ UNCHANGED <<observer, stack>>
      /\ replaced' \subseteq originals' /\ originals' \subseteq Internal
  BY DEF InstrumentFunction, HInv
<1>2. /\ hooks' \in [Keys -> Seq(SpanHooks \cup PostHooks)]
      /\ \A j \in Keys : Len(hooks[j]) \in Nat /\ Len(hooks'[j]) \in Nat
                        /\ Len(hooks[j]) <= Len(hooks'[j])
  BY <1>1 DEF HInv
<1>3. ASSUME NEW i \in 1..Len(stack), stack[i].stage \in Sides
      PROVE  stack[i].next \in 1..Len(HooksOf(stack[i])') + 1
  <2>1. stack[i] \in Frames /\ stack[i].fn \in Internal \cup User
    <3>1. stack[i] \in Frames
      BY DEF HInv
    <3> QED
      BY <3>1 DEF Frames
  <2>2. KeyOf(stack[i].fn) \in Keys
    BY <2>1, KeyType
  <2>3. HooksOf(stack[i])' = hooks'[KeyOf(stack[i].fn)]
    BY <1>1 DEF HooksOf, KeyOf
  <2> QED
    BY <1>2, <1>3, <2>1, <2>2, <2>3 DEF HInv, HooksOf
<1> QED
  BY <1>1, <1>2, <1>3 DEF HInv

LEMMA CallInternalKeeps ==
  ASSUME HInv, NEW f \in Internal, NEW instrumented \in BOOLEAN, CallInternal(f, instrumented)
  PROVE  HInv'
<1>1. PICK frame : /\ Push(frame)
                   /\ \/ frame = Frame(f, {}, "body")
                      \/ f \in replaced /\ KeyOf(f) \notin originals /\ frame = Frame(f, {}, "done")
                      \/ frame = Frame(f, {"pre", "post"}, "pre")
  BY DEF CallInternal
<1>2. UNCHANGED <<replaced, originals, hooks, observer>>
  BY DEF CallInternal
<1>3. frame \in Frames /\ frame.next = 1 /\ frame.fn = f
      /\ (frame.stage = "body" => frame.ran)
      /\ frame.stage # "post"
  <2>1. {} \in SUBSET Sides /\ {"pre", "post"} \in SUBSET Sides
    BY DEF Sides
  <2>2. \A handled \in SUBSET Sides, stage \in {"pre", "body", "done"} :
          Frame(f, handled, stage) \in Frames
    BY DEF Frame, Frames
  <2>3. PICK handled \in SUBSET Sides, stage \in {"pre", "body", "done"} :
          frame = Frame(f, handled, stage)
    BY <1>1, <2>1
  <2>4. frame \in Frames
    BY <2>2, <2>3
  <2> QED
    BY <2>3, <2>4 DEF Frame
<1>4. frame.stage = "done" => Declared[f] # f
  BY <1>1 DEF Frame, KeyOf, HInv
<1>5. /\ hooks' \in [Keys -> Seq(SpanHooks \cup PostHooks)]
      /\ observer' \in [User -> (SUBSET Sides) \cup {Nothing}]
      /\ \A k \in Keys : Len(hooks[k]) <= Len(hooks'[k])
  BY <1>2 DEF HInv
<1> QED
  BY <1>1, <1>2, <1>3, <1>4, <1>5, PushKeeps

LEMMA CallUserKeeps ==
  ASSUME HInv, NEW f \in User, CallUser(f)
  PROVE  HInv'
<1> DEFINE handled == IF observer[f] = Nothing THEN Handlers(Observed(f)) ELSE observer[f]
           frame == Frame(f, handled, IF "pre" \in handled THEN "pre" ELSE "body")
<1>1. /\ Push(frame)
      /\ observer' = [observer EXCEPT ![f] = handled]
      /\ hooks' = IF observer[f] = Nothing THEN [hooks EXCEPT ![f] = Observed(f)] ELSE hooks
      /\ UNCHANGED <<replaced, originals>>
  BY DEF CallUser
<1>2. handled \in SUBSET Sides
  <2>1. Handlers(Observed(f)) \in SUBSET Sides
    BY DEF Handlers, Sides
  <2>2. observer[f] \in (SUBSET Sides) \cup {Nothing}
    BY DEF HInv
  <2>3. handled = Handlers(Observed(f)) \/ (handled = observer[f] /\ observer[f] # Nothing)
    OBVIOUS
  <2> HIDE DEF handled
  <2> QED
    BY <2>1, <2>2, <2>3
<1>3. /\ frame \in Frames /\ frame.next = 1 /\ (frame.stage = "body" => frame.ran)
      /\ frame.stage \notin {"post", "done"}
  BY <1>2 DEF Frame, Frames
<1>4. /\ hooks' \in [Keys -> Seq(SpanHooks \cup PostHooks)]
      /\ \A k \in Keys : Len(hooks[k]) <= Len(hooks'[k])
  <2>1. hooks \in [Keys -> Seq(SpanHooks \cup PostHooks)] /\ f \in Keys
        /\ \A k \in Keys : Len(hooks[k]) \in Nat
    BY DEF HInv, Keys
  <2> QED
    BY <1>1, <2>1, ObservedType
<1>5. observer' \in [User -> (SUBSET Sides) \cup {Nothing}]
  BY <1>1, <1>2 DEF HInv
<1> HIDE DEF frame
<1> QED
  BY <1>1, <1>3, <1>4, <1>5, PushKeeps

\* A call goes through its hooks and its body.
LEMMA CallKeeps ==
  ASSUME HInv, PreHook \/ Enter \/ Return \/ PostHook
  PROVE  HInv'
<1>1. /\ stack # << >> /\ OnlyStack /\ TopCall \in Frames
      /\ Len(HooksOf(TopCall)) \in Nat
      /\ TopCall.stage = "body" => TopCall.ran /\ TopCall.next = 1
      /\ TopCall.stage \in Sides => TopCall.next \in 1..Len(HooksOf(TopCall)) + 1
      /\ TopCall.stage = "post" =>
           TopCall.ran \/ (TopCall.fn \in Internal /\ Declared[TopCall.fn] # TopCall.fn)
  <2>1. stack # << >> /\ OnlyStack
    BY DEF PreHook, Enter, Return, PostHook
  <2>2. /\ TopCall = stack[Len(stack)] /\ TopCall \in Frames
        /\ Len(stack) \in 1..Len(stack)
    BY <2>1, TopType
  <2>3. KeyOf(TopCall.fn) \in Keys
    BY <2>2, KeyType DEF Frames
  <2>4. Len(HooksOf(TopCall)) \in Nat
    BY <2>3 DEF HInv, HooksOf
  <2> QED
    BY <2>1, <2>2, <2>4 DEF HInv
<1>2. CASE PreHook \/ PostHook
  <2> DEFINE frame == [TopCall EXCEPT !.next = @ + 1]
  <2>1. SetTop(frame) /\ TopCall.stage \in Sides /\ TopCall.next <= Len(HooksOf(TopCall))
        /\ (TopCall.stage = "pre" \/ TopCall.stage = "post")
    BY <1>2 DEF PreHook, PostHook, Sides
  <2>2. /\ frame \in Frames /\ frame.stage = TopCall.stage /\ frame.fn = TopCall.fn
        /\ frame.ran = TopCall.ran /\ frame.next = TopCall.next + 1
    BY <1>1 DEF Frames
  <2>3. frame.next \in 1..Len(HooksOf(frame)) + 1
    BY <1>1, <2>1, <2>2 DEF HooksOf, Frames
  <2> HIDE DEF frame
  <2> QED
    BY <1>1, <2>1, <2>2, <2>3, SetTopKeeps DEF Sides
<1>3. CASE Enter
  <2> DEFINE frame == [TopCall EXCEPT !.stage = "body", !.ran = TRUE, !.next = 1,
                                      !.pres = Len(HooksOf(TopCall))]
  <2>1. SetTop(frame)
    BY <1>3 DEF Enter
  <2>2. frame \in Frames /\ frame.stage = "body" /\ frame.ran /\ frame.next = 1
    BY <1>1 DEF Frames
  <2> HIDE DEF frame
  <2> QED
    BY <1>1, <2>1, <2>2, SetTopKeeps DEF Sides
<1>4. CASE Return
  <2> DEFINE frame == [TopCall EXCEPT !.stage = IF "post" \in TopCall.handled THEN "post" ELSE "done"]
  <2>1. SetTop(frame) /\ TopCall.ran /\ TopCall.next = 1
    BY <1>1, <1>4 DEF Return
  <2>2. /\ frame \in Frames /\ frame.stage \in {"post", "done"} /\ frame.ran
        /\ frame.fn = TopCall.fn /\ frame.next = 1
    BY <1>1, <2>1 DEF Frames
  <2>3. frame.next \in 1..Len(HooksOf(frame)) + 1
    BY <1>1, <2>2 DEF HooksOf
  <2> HIDE DEF frame
  <2> QED
    BY <1>1, <2>1, <2>2, <2>3, SetTopKeeps DEF Sides
<1> QED
  BY <1>2, <1>3, <1>4

\* A call ends: below it a body is under way.
LEMMA LeaveKeeps == ASSUME HInv, Leave PROVE HInv'
<1>1. /\ stack # << >> /\ stack' = Front(stack)
      /\ UNCHANGED <<replaced, originals, hooks, observer>>
  BY DEF Leave, OnlyStack
<1>2. /\ Len(stack) \in Nat \ {0} /\ stack' \in Seq(Frames) /\ Len(stack') = Len(stack) - 1
      /\ \A i \in 1..Len(stack') : stack'[i] = stack[i]
  BY <1>1, TopType
<1>3. Len(stack') <= MaxDepth
  BY <1>2, HooksAssumption DEF HInv
<1>4. ASSUME NEW i \in 1..Len(stack')
      PROVE  stack'[i].stage = "body" /\ stack'[i].ran /\ stack'[i].next = 1
  <2>1. i \in 1..Len(stack) /\ i < Len(stack) /\ stack'[i] = stack[i]
    BY <1>2
  <2> QED
    BY <2>1 DEF HInv
<1> QED
  BY <1>1, <1>2, <1>3, <1>4 DEF HInv, Sides

\* Calls whose bodies are under way, all but the newest perhaps, keep the
\* invariant whichever of them a fatal error leaves.
LEMMA BailoutStoppedKeeps ==
  ASSUME HInv, NEW k, BailoutStopped(k)
  PROVE  HInv'
<1>1. /\ stack # << >> /\ k \in 1..Len(stack) /\ TopCall.stage = "body"
      /\ stack' = Append(SubSeq(stack, 1, k - 1), [stack[k] EXCEPT !.stage = "done"])
      /\ UNCHANGED <<replaced, originals, hooks, observer>>
  BY DEF BailoutStopped, OnlyStack, HInv
<1>2. /\ stack \in Seq(Frames) /\ Len(stack) \in Nat \ {0} /\ TopCall = stack[Len(stack)]
  BY <1>1, TopType DEF HInv
<1>3. stack[k] \in Frames /\ stack[k].stage = "body" /\ stack[k].ran
  BY <1>1, <1>2 DEF HInv
<1> DEFINE frame == [stack[k] EXCEPT !.stage = "done"]
<1>4. frame \in Frames /\ frame.stage = "done" /\ frame.ran
  BY <1>3 DEF Frames
<1> HIDE DEF frame
<1>5. /\ SubSeq(stack, 1, k - 1) \in Seq(Frames) /\ Len(SubSeq(stack, 1, k - 1)) = k - 1
      /\ \A i \in 1..k - 1 : SubSeq(stack, 1, k - 1)[i] = stack[i]
  <2>1. SubSeq(stack, 1, k - 1) = [i \in 1..k - 1 |-> stack[i]]
    BY <1>1, <1>2
  <2> QED
    BY <1>1, <1>2, <2>1
<1>6. /\ stack' \in Seq(Frames) /\ Len(stack') = k /\ stack'[k] = frame
      /\ \A i \in 1..k - 1 : stack'[i] = stack[i]
  BY <1>1, <1>2, <1>4, <1>5 DEF frame
<1>7. Len(stack') <= MaxDepth
  BY <1>1, <1>2, <1>6, HooksAssumption DEF HInv
<1>8. ASSUME NEW i \in 1..Len(stack')
      PROVE  /\ i < Len(stack') => stack'[i].stage = "body"
             /\ stack'[i].ran
             /\ stack'[i].stage = "body" => stack'[i].next = 1
             /\ stack'[i].stage \in {"body", "done"}
  <2>1. CASE i = k
    BY <1>4, <1>6, <2>1
  <2>2. CASE i # k
    <3>1. i \in 1..Len(stack) /\ i < Len(stack) /\ stack'[i] = stack[i]
      BY <1>1, <1>2, <1>6, <2>2
    <3> QED
      BY <3>1 DEF HInv
  <2> QED
    BY <2>1, <2>2
<1> QED
  BY <1>1, <1>6, <1>7, <1>8 DEF HInv, Sides

LEMMA BailoutKeeps == ASSUME HInv, Bailout PROVE HInv'
<1> DEFINE users == {i \in DOMAIN stack : stack[i].fn \in User}
           left == 1..Cardinality(users)
<1>1. /\ stack # << >> /\ TopCall.stage = "body"
      /\ UNCHANGED <<replaced, originals, hooks, observer>>
  BY DEF Bailout, OnlyStack
<1>2. PICK position \in [left -> users] : stack' = [i \in left |-> stack[position[i]]]
  BY DEF Bailout
<1>3. /\ stack \in Seq(Frames) /\ Len(stack) \in Nat \ {0} /\ TopCall = stack[Len(stack)]
  BY <1>1, TopType DEF HInv
<1>4. Cardinality(users) \in Nat /\ Cardinality(users) <= Len(stack)
  <2>1. IsFiniteSet(1..Len(stack)) /\ Cardinality(1..Len(stack)) = Len(stack)
    BY <1>3, FS_Interval
  <2>2. users \subseteq 1..Len(stack)
    BY <1>3
  <2> HIDE DEF users
  <2>3. IsFiniteSet(users) /\ Cardinality(users) <= Cardinality(1..Len(stack))
    BY <2>1, <2>2, FS_Subset, Zenon
  <2> QED
    BY <2>1, <2>3, FS_CardinalityType
<1>5. \A i \in 1..Len(stack) : stack[i] \in Frames /\ stack[i].stage = "body" /\ stack[i].ran
                             /\ stack[i].next = 1
  BY <1>1, <1>3 DEF HInv
<1>6. \A i \in left : stack'[i] \in Frames /\ stack'[i].stage = "body" /\ stack'[i].ran
                    /\ stack'[i].next = 1
  BY <1>2, <1>3, <1>5
<1> HIDE DEF users
<1>7. stack' \in Seq(Frames) /\ Len(stack') = Cardinality(users) /\ Len(stack') <= MaxDepth
  <2>1. stack' \in Seq(Frames) /\ Len(stack') = Cardinality(users)
    BY <1>2, <1>4, <1>6
  <2> QED
    BY <1>3, <1>4, <2>1, HooksAssumption DEF HInv
<1> QED
  BY <1>1, <1>6, <1>7 DEF HInv, Sides

-----------------------------------------------------------------------------
(* Refinement of RequestScope.                                             *)

LEMMA PhpSteps ==
  ASSUME Traced \in Workers, [PhpNext]_<<requestVars, phpVars>>
  PROVE  [RequestScopeNext]_requestVars
<1>0. Traced \in Procs
  BY DEF Procs
<1>1. CASE PhpRequestInit \/ PhpPostDeactivate \/ PhpRequestShutdown
  BY <1>0, <1>1 DEF PhpRequestInit, PhpPostDeactivate, PhpRequestShutdown, RequestScopeNext, RequestNext
<1>2. CASE \E spans, complete \in BOOLEAN : PhpBootstrapped(spans, complete)
  BY <1>0, <1>2 DEF PhpBootstrapped, RequestScopeNext, RequestNext
<1>3. CASE PhpGone
  BY <1>3 DEF PhpGone, RequestScopeNext
<1>4. CASE Elsewhere
  BY <1>0, <1>4 DEF Elsewhere, RequestScopeNext, RequestNext
<1>5. CASE Script \/ UNCHANGED <<requestVars, phpVars>>
  BY <1>5 DEF Script
<1> QED
  BY <1>1, <1>2, <1>3, <1>4, <1>5 DEF PhpNext

(* A script, its hooks and its stack traces do nothing to a request that   *)
(* RequestScope does not say, so what is proved there holds of every       *)
(* worker that runs PHP code.                                              *)
THEOREM PhpImplementsRequestScope ==
  ASSUME Traced \in Workers PROVE PhpSpec => RequestScopeSpec
<1>1. PhpInit => RequestScopeInit
  BY DEF PhpInit
<1>2. [PhpNext]_<<requestVars, phpVars>> => [RequestScopeNext]_requestVars
  BY PhpSteps
<1> QED
  BY <1>1, <1>2, PTL DEF PhpSpec, RequestScopeSpec

-----------------------------------------------------------------------------
(* Refinement of the protocol of calls.                                    *)

LEMMA PhpKeepsHooks ==
  ASSUME HInv, [PhpNext]_<<requestVars, phpVars>>, functional[Traced] \in BOOLEAN
  PROVE  HInv'
<1> USE DEF hookVars, phpVars
<1>0. ASSUME UNCHANGED hookVars PROVE HInv'
  BY <1>0 DEF HInv, HooksOf
<1>1. CASE PhpRequestInit
  BY <1>1, ClearKeeps DEF PhpRequestInit, ClearHooks
<1>2. CASE PhpGone
  BY <1>2, ClearKeeps DEF PhpGone
<1>3. CASE \/ \E spans, complete \in BOOLEAN : PhpBootstrapped(spans, complete)
           \/ PhpRequestShutdown \/ PhpPostDeactivate \/ Elsewhere
  BY <1>0, <1>3 DEF PhpBootstrapped, PhpRequestShutdown, PhpPostDeactivate, Elsewhere
<1>4. CASE Script
  <2>1. ASSUME NEW k \in Keys, NEW h \in SpanHooks \cup PostHooks, ScriptHooks(k, h) PROVE HInv'
    BY <2>1, InstrumentKeeps DEF ScriptHooks
  <2>2. ASSUME NEW f \in Internal \cup User, ScriptCalls(f) PROVE HInv'
    BY <2>2, CallInternalKeeps, CallUserKeeps DEF ScriptCalls
  <2>3. CASE ScriptPreHook \/ ScriptPostHook \/ ScriptSteps
    BY <2>3, CallKeeps, LeaveKeeps DEF ScriptPreHook, ScriptPostHook, ScriptSteps
  <2>4. CASE ScriptBailsOut
    BY <2>4, BailoutStoppedKeeps, BailoutKeeps DEF ScriptBailsOut
  <2>5. CASE \/ \E dur \in 0..1, internal, filtered, collected \in BOOLEAN :
                  ScriptIsTraced(dur, internal, filtered, collected)
             \/ EndRootSpan
    BY <1>0, <2>5 DEF ScriptIsTraced, EndRootSpan
  <2> QED
    BY <1>4, <2>1, <2>2, <2>3, <2>4, <2>5 DEF Script
<1>5. CASE UNCHANGED <<requestVars, phpVars>>
  BY <1>0, <1>5
<1> QED
  BY <1>1, <1>2, <1>3, <1>4, <1>5 DEF PhpNext

(* Whatever is hooked, in this request or an earlier one, and whatever     *)
(* fatal errors cut short, a function that is called runs.                 *)
THEOREM CalledFunctionsRun ==
  ASSUME Traced \in Workers PROVE PhpSpec => []CalledRuns
<1>1. PhpInit => HInv
  BY HInvInit DEF PhpInit
<1>2. RInv => functional[Traced] \in BOOLEAN
  BY DEF RInv, Requests, RequestTypes, Procs
<1>3. HInv /\ RInv /\ [PhpNext]_<<requestVars, phpVars>> => HInv'
  BY <1>2, PhpKeepsHooks
<1>4. HInv => CalledRuns
  BY HInvTypes
<1>5. PhpSpec => []RInv
  BY PhpImplementsRequestScope, RInvHolds, PTL
<1> QED
  BY <1>1, <1>3, <1>4, <1>5, PTL DEF PhpSpec

(* The types of the hooks and calls, and where a call is in its hooks.     *)
THEOREM HooksTypes ==
  ASSUME Traced \in Workers PROVE PhpSpec => []HooksTypeOK
<1>1. PhpInit => HInv
  BY HInvInit DEF PhpInit
<1>2. RInv => functional[Traced] \in BOOLEAN
  BY DEF RInv, Requests, RequestTypes, Procs
<1>3. HInv /\ RInv /\ [PhpNext]_<<requestVars, phpVars>> => HInv'
  BY <1>2, PhpKeepsHooks
<1>4. HInv => HooksTypeOK
  BY HInvTypes
<1>5. PhpSpec => []RInv
  BY PhpImplementsRequestScope, RInvHolds, PTL
<1> QED
  BY <1>1, <1>3, <1>4, <1>5, PTL DEF PhpSpec

-----------------------------------------------------------------------------
(* The spans that hooks have open.                                         *)

\* Pre hook j of a call has opened a span that its post hook has yet to end.
IsOpen(frame, list, j) ==
  /\ j \in 1..Len(list) /\ list[j] \in SpanHooks
  /\ \/ frame.stage = "pre" /\ j < frame.next
     \/ frame.stage = "body" /\ j <= frame.pres
     \/ frame.stage = "post" /\ frame.next <= j /\ j <= frame.pres

OpenAt(i, j) == i \in 1..Len(stack) /\ IsOpen(stack[i], HooksOf(stack[i]), j)

OpenPairs == {pair \in Nat \X Nat : OpenAt(pair[1], pair[2])}

\* A call that runs its pre hooks will run its post hooks.
Whole(handled) == "pre" \in handled => "post" \in handled

CallOK(frame, list) ==
  /\ frame.pres <= Len(list)
  /\ Whole(frame.handled)
  /\ frame.pres # 0 \/ frame.stage = "pre" => "pre" \in frame.handled

Calls ==
  /\ \A i \in 1..Len(stack) : CallOK(stack[i], HooksOf(stack[i]))
  /\ \A f \in User : observer[f] # Nothing => Whole(observer[f])

CInv == HInv /\ Calls

LEMMA StackIs ==
  ASSUME HInv
  PROVE  /\ Len(stack) \in Nat
         /\ \A i \in 1..Len(stack) :
              /\ stack[i] \in Frames /\ stack[i].fn \in Internal \cup User
              /\ stack[i].next \in Nat /\ stack[i].pres \in Nat
              /\ KeyOf(stack[i].fn) \in Keys
              /\ HooksOf(stack[i]) \in Seq(SpanHooks \cup PostHooks)
              /\ Len(HooksOf(stack[i])) \in Nat
<1>1. stack \in Seq(Frames) /\ hooks \in [Keys -> Seq(SpanHooks \cup PostHooks)]
  BY DEF HInv
<1>2. ASSUME NEW i \in 1..Len(stack)
      PROVE  /\ stack[i] \in Frames /\ stack[i].fn \in Internal \cup User
             /\ stack[i].next \in Nat /\ stack[i].pres \in Nat
             /\ KeyOf(stack[i].fn) \in Keys
             /\ HooksOf(stack[i]) \in Seq(SpanHooks \cup PostHooks)
             /\ Len(HooksOf(stack[i])) \in Nat
  <2>1. stack[i] \in Frames
    BY <1>1
  <2>2. stack[i].fn \in Internal \cup User /\ stack[i].next \in Nat /\ stack[i].pres \in Nat
    BY <2>1 DEF Frames
  <2>3. KeyOf(stack[i].fn) \in Keys
    BY <2>2, KeyType
  <2>4. HooksOf(stack[i]) \in Seq(SpanHooks \cup PostHooks)
    BY <1>1, <2>3 DEF HooksOf
  <2> QED
    BY <2>1, <2>2, <2>3, <2>4
<1> QED
  BY <1>1, <1>2

LEMMA SamePairs ==
  ASSUME \A i, j \in Nat : OpenAt(i, j)' <=> OpenAt(i, j)
  PROVE  OpenPairs' = OpenPairs
<1>1. \A pair \in Nat \X Nat : pair[1] \in Nat /\ pair[2] \in Nat
  OBVIOUS
<1>2. \A pair \in Nat \X Nat : OpenAt(pair[1], pair[2])' <=> OpenAt(pair[1], pair[2])
  BY <1>1
<1>3. OpenPairs' = {pair \in Nat \X Nat : OpenAt(pair[1], pair[2])'}
  BY DEF OpenPairs
<1> HIDE DEF OpenAt
<1> QED
  BY <1>2, <1>3 DEF OpenPairs

\* Hooks that are registered later are of no concern to a call under way: it has
\* opened no span for them.
LEMMA ListGrows ==
  ASSUME NEW frame \in Frames,
         NEW list \in Seq(SpanHooks \cup PostHooks), NEW more \in Seq(SpanHooks \cup PostHooks),
         Len(list) <= Len(more), \A j \in 1..Len(list) : more[j] = list[j],
         CallOK(frame, list), frame.stage \in Sides => frame.next \in 1..Len(list) + 1
  PROVE  CallOK(frame, more) /\ \A j \in Nat : IsOpen(frame, more, j) <=> IsOpen(frame, list, j)
<1>1. /\ Len(list) \in Nat /\ Len(more) \in Nat /\ frame.pres \in Nat /\ frame.next \in Nat
      /\ frame.pres <= Len(list)
  BY DEF Frames, CallOK
<1>2. CallOK(frame, more)
  BY <1>1 DEF CallOK
<1>3. ASSUME NEW j \in Nat PROVE IsOpen(frame, more, j) <=> IsOpen(frame, list, j)
  <2>1. CASE j \in 1..Len(list)
    <3>1. j \in 1..Len(more) /\ more[j] = list[j]
      BY <1>1, <2>1
    <3> QED
      BY <2>1, <3>1 DEF IsOpen
  <2>2. CASE j \notin 1..Len(list)
    <3>1. ~IsOpen(frame, list, j)
      BY <2>2 DEF IsOpen
    <3>2. j \in 1..Len(more) => ~(j <= Len(list)) /\ ~(j <= frame.pres)
      BY <1>1, <2>2
    <3>3. j \in 1..Len(more) /\ frame.stage = "pre" => ~(j < frame.next)
      <4>1. frame.stage = "pre" => frame.next <= Len(list) + 1
        BY <1>1 DEF Sides
      <4> QED
        BY <1>1, <3>2, <4>1
    <3> QED
      BY <3>1, <3>2, <3>3 DEF IsOpen
  <2> QED
    BY <2>1, <2>2
<1> QED
  BY <1>2, <1>3

Grown ==
  /\ hooks' \in [Keys -> Seq(SpanHooks \cup PostHooks)]
  /\ \A k \in Keys : /\ Len(hooks[k]) <= Len(hooks'[k])
                     /\ \A j \in 1..Len(hooks[k]) : hooks'[k][j] = hooks[k][j]

\* The calls that are under way, while hooks are registered or a call is added.
LEMMA CallsGrow ==
  ASSUME CInv, Grown, NEW i \in 1..Len(stack)
  PROVE  /\ CallOK(stack[i], hooks'[KeyOf(stack[i].fn)])
         /\ \A j \in Nat : IsOpen(stack[i], hooks'[KeyOf(stack[i].fn)], j)
                             <=> IsOpen(stack[i], HooksOf(stack[i]), j)
<1>1. HInv /\ CallOK(stack[i], HooksOf(stack[i]))
  BY DEF CInv, Calls
<1>2. /\ stack[i] \in Frames /\ KeyOf(stack[i].fn) \in Keys
      /\ HooksOf(stack[i]) \in Seq(SpanHooks \cup PostHooks)
  BY <1>1, StackIs
<1>3. stack[i].stage \in Sides => stack[i].next \in 1..Len(HooksOf(stack[i])) + 1
  BY <1>1 DEF HInv
<1> DEFINE list == HooksOf(stack[i])
           more == hooks'[KeyOf(stack[i].fn)]
<1>4. /\ more \in Seq(SpanHooks \cup PostHooks) /\ Len(list) <= Len(more)
      /\ \A j \in 1..Len(list) : more[j] = list[j]
  BY <1>2 DEF Grown, HooksOf
<1>5. CallOK(stack[i], list) /\ (stack[i].stage \in Sides => stack[i].next \in 1..Len(list) + 1)
      /\ list \in Seq(SpanHooks \cup PostHooks)
  BY <1>1, <1>2, <1>3
<1> HIDE DEF list, more
<1>6. CallOK(stack[i], more) /\ \A j \in Nat : IsOpen(stack[i], more, j) <=> IsOpen(stack[i], list, j)
  BY <1>2, <1>4, <1>5, ListGrows
<1> QED
  BY <1>6 DEF list, more

LEMMA InstrumentOpens ==
  ASSUME CInv, NEW k \in Keys, NEW h \in SpanHooks \cup PostHooks, InstrumentFunction(k, h)
  PROVE  Calls' /\ OpenPairs' = OpenPairs
<1>1. hooks' = [hooks EXCEPT ![k] = Append(@, h)] /\ UNCHANGED <<observer, stack>>
  BY DEF InstrumentFunction
<1>2. HInv /\ Calls /\ hooks \in [Keys -> Seq(SpanHooks \cup PostHooks)]
  BY DEF CInv, HInv
<1>3. Grown
  BY <1>1, <1>2 DEF Grown
<1>4. \A i \in 1..Len(stack) :
        /\ CallOK(stack[i], HooksOf(stack[i])')
        /\ \A j \in Nat : IsOpen(stack[i], HooksOf(stack[i])', j)
                            <=> IsOpen(stack[i], HooksOf(stack[i]), j)
  BY <1>1, <1>3, CallsGrow DEF HooksOf, KeyOf
<1>5. \A i, j \in Nat : OpenAt(i, j)' <=> OpenAt(i, j)
  BY <1>1, <1>4 DEF OpenAt, IsOpen
<1>6. Calls'
  BY <1>1, <1>2, <1>4 DEF Calls, CallOK
<1> QED
  BY <1>5, <1>6, SamePairs

\* A call that starts has opened nothing.
LEMMA PushOpens ==
  ASSUME CInv, NEW frame \in Frames, Push(frame), Grown, frame.pres = 0, frame.next = 1,
         frame.stage \in {"pre", "body", "done"}, Whole(frame.handled),
         frame.stage = "pre" => "pre" \in frame.handled,
         \A f \in User : observer'[f] # Nothing => Whole(observer'[f])
  PROVE  Calls' /\ OpenPairs' = OpenPairs
<1>1. HInv /\ stack' = Append(stack, frame) /\ stack \in Seq(Frames) /\ Len(stack) \in Nat
  BY DEF CInv, HInv, Push
<1>2. /\ Len(stack') = Len(stack) + 1 /\ stack'[Len(stack) + 1] = frame
      /\ \A i \in 1..Len(stack) : stack'[i] = stack[i]
  BY <1>1
<1> DEFINE new == hooks'[KeyOf(frame.fn)]
<1>3. new \in Seq(SpanHooks \cup PostHooks) /\ Len(new) \in Nat
  <2>1. KeyOf(frame.fn) \in Keys
    BY KeyType DEF Frames
  <2> QED
    BY <2>1 DEF Grown
<1>4. CallOK(frame, new) /\ \A j \in Nat : ~IsOpen(frame, new, j)
  BY <1>3 DEF CallOK, IsOpen
<1>5. \A i \in 1..Len(stack) :
        /\ CallOK(stack[i], hooks'[KeyOf(stack[i].fn)])
        /\ \A j \in Nat : IsOpen(stack[i], hooks'[KeyOf(stack[i].fn)], j)
                            <=> IsOpen(stack[i], HooksOf(stack[i]), j)
  BY CallsGrow
<1>6. \A i \in 1..Len(stack') : HooksOf(stack[i])' = hooks'[KeyOf(stack'[i].fn)]
  BY DEF HooksOf, KeyOf
<1>7. ASSUME NEW i \in 1..Len(stack') PROVE CallOK(stack[i], HooksOf(stack[i]))'
  <2>1. CASE i = Len(stack) + 1
    BY <1>2, <1>4, <1>6, <2>1 DEF CallOK
  <2>2. CASE i # Len(stack) + 1
    <3>1. i \in 1..Len(stack)
      BY <1>1, <1>2, <2>2
    <3> QED
      BY <1>2, <1>5, <1>6, <3>1 DEF CallOK
  <2> QED
    BY <2>1, <2>2
<1>8. ASSUME NEW i \in Nat, NEW j \in Nat PROVE OpenAt(i, j)' <=> OpenAt(i, j)
  <2>1. CASE i = Len(stack) + 1
    <3>1. ~OpenAt(i, j)
      BY <1>1, <2>1 DEF OpenAt
    <3>2. ~OpenAt(i, j)'
      BY <1>1, <1>2, <1>4, <1>6, <2>1 DEF OpenAt, IsOpen
    <3> QED
      BY <3>1, <3>2
  <2>2. CASE i \in 1..Len(stack)
    <3>1. i \in 1..Len(stack')
      BY <1>1, <1>2, <2>2
    <3> QED
      BY <1>2, <1>5, <1>6, <2>2, <3>1 DEF OpenAt, IsOpen
  <2>3. CASE i \notin 1..Len(stack) /\ i # Len(stack) + 1
    BY <1>1, <1>2, <2>3 DEF OpenAt
  <2> QED
    BY <2>1, <2>2, <2>3
<1>9. Calls'
  BY <1>7 DEF Calls
<1>10. \A i, j \in Nat : OpenAt(i, j)' <=> OpenAt(i, j)
  BY <1>8
<1> QED
  BY <1>9, <1>10, SamePairs

LEMMA CallInternalOpens ==
  ASSUME CInv, NEW f \in Internal, NEW instrumented \in BOOLEAN, CallInternal(f, instrumented)
  PROVE  Calls' /\ OpenPairs' = OpenPairs
<1>1. PICK frame : Push(frame) /\ frame \in {Frame(f, {}, "body"), Frame(f, {}, "done"),
                                           Frame(f, {"pre", "post"}, "pre")}
  BY DEF CallInternal
<1>2. UNCHANGED <<hooks, observer>> /\ HInv /\ Calls
  BY DEF CallInternal, CInv
<1>3. {} \in SUBSET Sides /\ {"pre", "post"} \in SUBSET Sides
  BY DEF Sides
<1>4. /\ frame \in Frames /\ frame.pres = 0 /\ frame.next = 1
      /\ frame.stage \in {"pre", "body", "done"} /\ Whole(frame.handled)
      /\ frame.stage = "pre" => "pre" \in frame.handled
  <2>1. CASE frame = Frame(f, {}, "body")
    BY <1>3, <2>1 DEF Frame, Frames, Whole
  <2>2. CASE frame = Frame(f, {}, "done")
    BY <1>3, <2>2 DEF Frame, Frames, Whole
  <2>3. CASE frame = Frame(f, {"pre", "post"}, "pre")
    BY <1>3, <2>3 DEF Frame, Frames, Whole
  <2> QED
    BY <1>1, <2>1, <2>2, <2>3
<1>5. Grown
  BY <1>2 DEF Grown, HInv
<1>6. \A g \in User : observer'[g] # Nothing => Whole(observer'[g])
  BY <1>2 DEF Calls
<1> QED
  BY <1>1, <1>4, <1>5, <1>6, PushOpens

LEMMA CallUserOpens ==
  ASSUME CInv, NEW f \in User, CallUser(f)
  PROVE  Calls' /\ OpenPairs' = OpenPairs
<1> DEFINE handled == IF observer[f] = Nothing THEN Handlers(Observed(f)) ELSE observer[f]
           frame == Frame(f, handled, IF "pre" \in handled THEN "pre" ELSE "body")
<1>1. /\ Push(frame)
      /\ observer' = [observer EXCEPT ![f] = handled]
      /\ hooks' = IF observer[f] = Nothing THEN [hooks EXCEPT ![f] = Observed(f)] ELSE hooks
  BY DEF CallUser
<1>2. HInv /\ Calls
  BY DEF CInv
<1>3. handled \in SUBSET Sides /\ Whole(handled)
  <2>1. Handlers(Observed(f)) \in SUBSET Sides /\ Whole(Handlers(Observed(f)))
    BY DEF Handlers, Sides, Whole
  <2>2. /\ observer[f] \in (SUBSET Sides) \cup {Nothing}
        /\ observer[f] # Nothing => Whole(observer[f])
    BY <1>2 DEF HInv, Calls
  <2>3. handled = Handlers(Observed(f)) \/ (handled = observer[f] /\ observer[f] # Nothing)
    OBVIOUS
  <2> HIDE DEF handled
  <2> QED
    BY <2>1, <2>2, <2>3
<1>4. Grown
  <2>1. hooks \in [Keys -> Seq(SpanHooks \cup PostHooks)] /\ f \in Keys
        /\ \A k \in Keys : Len(hooks[k]) \in Nat
    BY <1>2 DEF HInv, Keys
  <2>2. Observed(f) \in Seq(SpanHooks \cup PostHooks) /\ Len(hooks[f]) <= Len(Observed(f))
    BY <1>2, ObservedType
  <2>3. \A j \in 1..Len(hooks[f]) : Observed(f)[j] = hooks[f][j]
    <3>1. hooks[f] = << >> => Len(hooks[f]) = 0
      OBVIOUS
    <3> QED
      BY <3>1 DEF Observed
  <2> QED
    BY <1>1, <2>1, <2>2, <2>3 DEF Grown
<1>5. \A g \in User : observer'[g] # Nothing => Whole(observer'[g])
  <2>1. observer'[f] = handled /\ \A g \in User : g # f => observer'[g] = observer[g]
    BY <1>1, <1>2 DEF HInv
  <2> HIDE DEF handled
  <2> QED
    BY <1>2, <1>3, <2>1 DEF Calls
<1> HIDE DEF handled
<1>6. /\ frame \in Frames /\ frame.pres = 0 /\ frame.next = 1
      /\ frame.stage \in {"pre", "body", "done"} /\ Whole(frame.handled)
      /\ frame.stage = "pre" => "pre" \in frame.handled
  BY <1>3 DEF Frame, Frames
<1> HIDE DEF frame
<1> QED
  BY <1>1, <1>4, <1>5, <1>6, PushOpens

\* The newest call moves on: the spans of the others are as they were.
LEMMA TopMoves ==
  ASSUME CInv, stack # << >>, OnlyStack, NEW frame \in Frames, SetTop(frame),
         frame.fn = TopCall.fn, CallOK(frame, HooksOf(TopCall))
  PROVE  /\ Calls'
         /\ \A i, j \in Nat : OpenAt(i, j)' <=> IF i = Len(stack)
                                               THEN IsOpen(frame, HooksOf(TopCall), j)
                                               ELSE OpenAt(i, j)
<1>1. /\ HInv /\ Calls /\ Len(stack) \in Nat \ {0} /\ Front(stack) \in Seq(Frames)
      /\ Len(Front(stack)) = Len(stack) - 1
      /\ \A i \in 1..Len(stack) - 1 : Front(stack)[i] = stack[i]
  BY TopType DEF CInv
<1>2. stack' = Append(Front(stack), frame) /\ hooks' = hooks /\ observer' = observer
  BY DEF SetTop, OnlyStack
<1>3. /\ Len(stack') = Len(stack) /\ stack'[Len(stack)] = frame
      /\ \A i \in 1..Len(stack) - 1 : stack'[i] = stack[i]
  BY <1>1, <1>2
<1>4. \A i \in 1..Len(stack) :
        HooksOf(stack[i])' = IF i = Len(stack) THEN HooksOf(TopCall) ELSE HooksOf(stack[i])
  BY <1>1, <1>2, <1>3 DEF HooksOf, KeyOf
<1>5. ASSUME NEW i \in 1..Len(stack) PROVE CallOK(stack[i], HooksOf(stack[i]))'
  <2>1. CASE i = Len(stack)
    BY <1>3, <1>4, <2>1 DEF CallOK
  <2>2. CASE i # Len(stack)
    <3>1. i \in 1..Len(stack) - 1 /\ CallOK(stack[i], HooksOf(stack[i]))
      BY <1>1, <2>2 DEF Calls
    <3> QED
      BY <1>3, <1>4, <2>2, <3>1 DEF CallOK
  <2> QED
    BY <2>1, <2>2
<1>6. Calls'
  BY <1>1, <1>2, <1>3, <1>5 DEF Calls
<1>7. ASSUME NEW i \in Nat, NEW j \in Nat
      PROVE  OpenAt(i, j)' <=> IF i = Len(stack) THEN IsOpen(frame, HooksOf(TopCall), j)
                                                ELSE OpenAt(i, j)
  <2>1. CASE i = Len(stack)
    <3>1. i \in 1..Len(stack)
      BY <1>1, <2>1
    <3> QED
      BY <1>3, <1>4, <2>1, <3>1 DEF OpenAt, IsOpen
  <2>2. CASE i # Len(stack)
    <3>1. i \in 1..Len(stack) => i \in 1..Len(stack) - 1
      BY <1>1, <2>2
    <3> QED
      BY <1>3, <1>4, <2>2, <3>1 DEF OpenAt, IsOpen
  <2> QED
    BY <2>1, <2>2
<1> QED
  BY <1>6, <1>7

\* Where the newest call is in its hooks.
LEMMA TopIs ==
  ASSUME CInv, stack # << >>
  PROVE  /\ Len(stack) \in Nat \ {0} /\ TopCall = stack[Len(stack)] /\ TopCall \in Frames
         /\ TopCall.next \in Nat /\ TopCall.pres \in Nat
         /\ HooksOf(TopCall) \in Seq(SpanHooks \cup PostHooks) /\ Len(HooksOf(TopCall)) \in Nat
         /\ CallOK(TopCall, HooksOf(TopCall))
         /\ TopCall.stage = "body" => TopCall.next = 1
         /\ TopCall.stage \in Sides => TopCall.next \in 1..Len(HooksOf(TopCall)) + 1
         /\ \A j \in Nat : OpenAt(Len(stack), j) <=> IsOpen(TopCall, HooksOf(TopCall), j)
<1>1. HInv /\ Calls
  BY DEF CInv
<1>2. Len(stack) \in Nat \ {0} /\ TopCall = stack[Len(stack)] /\ TopCall \in Frames
  BY <1>1, TopType
<1>3. Len(stack) \in 1..Len(stack)
  BY <1>2
<1>4. /\ TopCall.next \in Nat /\ TopCall.pres \in Nat
      /\ HooksOf(TopCall) \in Seq(SpanHooks \cup PostHooks) /\ Len(HooksOf(TopCall)) \in Nat
  BY <1>1, <1>2, <1>3, StackIs
<1>5. /\ CallOK(TopCall, HooksOf(TopCall))
      /\ TopCall.stage = "body" => TopCall.next = 1
      /\ TopCall.stage \in Sides => TopCall.next \in 1..Len(HooksOf(TopCall)) + 1
  BY <1>1, <1>2, <1>3 DEF Calls, HInv
<1>6. \A j \in Nat : OpenAt(Len(stack), j) <=> IsOpen(TopCall, HooksOf(TopCall), j)
  BY <1>2, <1>3 DEF OpenAt
<1> QED
  BY <1>2, <1>4, <1>5, <1>6

LEMMA EnterOpens == ASSUME CInv, Enter PROVE Calls' /\ OpenPairs' = OpenPairs
<1> DEFINE list == HooksOf(TopCall)
           frame == [TopCall EXCEPT !.stage = "body", !.ran = TRUE, !.next = 1, !.pres = Len(list)]
<1>1. /\ stack # << >> /\ OnlyStack /\ SetTop(frame) /\ TopCall.stage = "pre"
      /\ TopCall.next > Len(list)
  BY DEF Enter
<1>2. /\ TopCall \in Frames /\ Len(list) \in Nat /\ TopCall.next \in 1..Len(list) + 1
      /\ CallOK(TopCall, list) /\ Len(stack) \in Nat
      /\ \A j \in Nat : OpenAt(Len(stack), j) <=> IsOpen(TopCall, list, j)
  BY <1>1, TopIs DEF Sides
<1> HIDE DEF list
<1>3. /\ frame \in Frames /\ frame.stage = "body" /\ frame.pres = Len(list)
      /\ frame.fn = TopCall.fn /\ frame.handled = TopCall.handled
  BY <1>2 DEF Frames
<1> HIDE DEF frame
<1>4. CallOK(frame, list)
  BY <1>1, <1>2, <1>3 DEF CallOK
<1>5. \A j \in Nat : IsOpen(frame, list, j) <=> IsOpen(TopCall, list, j)
  BY <1>1, <1>2, <1>3 DEF IsOpen
<1>6. /\ Calls'
      /\ \A i, j \in Nat : OpenAt(i, j)' <=> IF i = Len(stack) THEN IsOpen(frame, list, j)
                                            ELSE OpenAt(i, j)
  BY <1>1, <1>3, <1>4, TopMoves DEF list
<1>7. \A i, j \in Nat : OpenAt(i, j)' <=> OpenAt(i, j)
  BY <1>2, <1>5, <1>6
<1> QED
  BY <1>6, <1>7, SamePairs

LEMMA ReturnOpens == ASSUME CInv, Return PROVE Calls' /\ OpenPairs' = OpenPairs
<1> DEFINE list == HooksOf(TopCall)
           frame == [TopCall EXCEPT !.stage = IF "post" \in TopCall.handled THEN "post" ELSE "done"]
<1>1. stack # << >> /\ OnlyStack /\ SetTop(frame) /\ TopCall.stage = "body"
  BY DEF Return
<1>2. /\ TopCall \in Frames /\ Len(list) \in Nat /\ TopCall.next = 1 /\ TopCall.pres \in Nat
      /\ CallOK(TopCall, list) /\ Len(stack) \in Nat
      /\ \A j \in Nat : OpenAt(Len(stack), j) <=> IsOpen(TopCall, list, j)
  BY <1>1, TopIs
<1> HIDE DEF list
<1>3. /\ frame \in Frames /\ frame.pres = TopCall.pres /\ frame.next = 1
      /\ frame.fn = TopCall.fn /\ frame.handled = TopCall.handled
      /\ frame.stage = IF "post" \in TopCall.handled THEN "post" ELSE "done"
  BY <1>2 DEF Frames
<1> HIDE DEF frame
<1>4. CallOK(frame, list)
  BY <1>1, <1>2, <1>3 DEF CallOK
<1>5. \A j \in Nat : IsOpen(frame, list, j) <=> IsOpen(TopCall, list, j)
  <2>1. TopCall.pres # 0 => "post" \in TopCall.handled
    BY <1>2 DEF CallOK, Whole
  <2> QED
    BY <1>1, <1>2, <1>3, <2>1 DEF IsOpen
<1>6. /\ Calls'
      /\ \A i, j \in Nat : OpenAt(i, j)' <=> IF i = Len(stack) THEN IsOpen(frame, list, j)
                                            ELSE OpenAt(i, j)
  BY <1>1, <1>3, <1>4, TopMoves DEF list
<1>7. \A i, j \in Nat : OpenAt(i, j)' <=> OpenAt(i, j)
  BY <1>2, <1>5, <1>6
<1> QED
  BY <1>6, <1>7, SamePairs

LEMMA LeaveOpens == ASSUME CInv, Leave PROVE Calls' /\ OpenPairs' = OpenPairs
<1> DEFINE list == HooksOf(TopCall)
<1>1. /\ stack # << >> /\ stack' = Front(stack) /\ hooks' = hooks /\ observer' = observer
      /\ TopCall.stage = "done" \/ (TopCall.stage = "post" /\ TopCall.next > Len(list))
  BY DEF Leave, OnlyStack
<1>2. /\ TopCall \in Frames /\ Len(list) \in Nat /\ TopCall.next \in Nat /\ TopCall.pres \in Nat
      /\ CallOK(TopCall, list)
      /\ \A j \in Nat : OpenAt(Len(stack), j) <=> IsOpen(TopCall, list, j)
  BY <1>1, TopIs
<1>3. /\ HInv /\ Calls /\ Len(stack) \in Nat \ {0} /\ Len(stack') = Len(stack) - 1
      /\ \A i \in 1..Len(stack) - 1 : stack'[i] = stack[i]
  BY <1>1, TopType DEF CInv
<1> HIDE DEF list
<1>4. \A j \in Nat : ~OpenAt(Len(stack), j)
  BY <1>1, <1>2 DEF CallOK, IsOpen
<1>5. \A i \in 1..Len(stack) - 1 : HooksOf(stack[i])' = HooksOf(stack[i])
  BY <1>1, <1>3 DEF HooksOf, KeyOf
<1>6. Calls'
  BY <1>1, <1>3, <1>5, SMTT(30) DEF Calls, CallOK
<1>7. ASSUME NEW i \in Nat, NEW j \in Nat PROVE OpenAt(i, j)' <=> OpenAt(i, j)
  <2>1. CASE i = Len(stack)
    BY <1>3, <1>4, <2>1 DEF OpenAt
  <2>2. CASE i # Len(stack)
    <3>1. i \in 1..Len(stack) <=> i \in 1..Len(stack) - 1
      BY <1>3, <2>2
    <3> QED
      BY <1>3, <1>5, <3>1 DEF OpenAt, IsOpen
  <2> QED
    BY <2>1, <2>2
<1>8. \A i, j \in Nat : OpenAt(i, j)' <=> OpenAt(i, j)
  BY <1>7
<1> QED
  BY <1>6, <1>8, SamePairs

\* A hook runs: the call has one less before it.
LEMMA HookMoves ==
  ASSUME CInv, PreHook \/ PostHook
  PROVE  /\ Calls'
         /\ \A i, j \in Nat : OpenAt(i, j)' <=>
              IF i = Len(stack)
              THEN IsOpen([TopCall EXCEPT !.next = @ + 1], HooksOf(TopCall), j)
              ELSE OpenAt(i, j)
<1> DEFINE frame == [TopCall EXCEPT !.next = @ + 1]
<1>1. stack # << >> /\ OnlyStack /\ SetTop(frame)
  BY DEF PreHook, PostHook
<1>2. TopCall \in Frames /\ TopCall.next \in Nat /\ CallOK(TopCall, HooksOf(TopCall))
  BY <1>1, TopIs
<1>3. /\ frame \in Frames /\ frame.pres = TopCall.pres /\ frame.stage = TopCall.stage
      /\ frame.fn = TopCall.fn /\ frame.handled = TopCall.handled
  BY <1>2 DEF Frames
<1> HIDE DEF frame
<1>4. CallOK(frame, HooksOf(TopCall))
  BY <1>2, <1>3 DEF CallOK
<1>5. /\ Calls'
      /\ \A i, j \in Nat : OpenAt(i, j)' <=> IF i = Len(stack)
                                            THEN IsOpen(frame, HooksOf(TopCall), j)
                                            ELSE OpenAt(i, j)
  BY <1>1, <1>3, <1>4, TopMoves
<1> QED
  BY <1>5 DEF frame

\* A pre hook that opens a span: one more is open.
LEMMA PreHookOpens ==
  ASSUME CInv, PreHook
  PROVE  /\ Calls'
         /\ HookNow \in SpanHooks => /\ <<Len(stack), TopCall.next>> \notin OpenPairs
                                     /\ OpenPairs' = OpenPairs \cup {<<Len(stack), TopCall.next>>}
         /\ HookNow \notin SpanHooks => OpenPairs' = OpenPairs
<1> DEFINE list == HooksOf(TopCall)
           n == TopCall.next
           top == Len(stack)
<1>1. stack # << >> /\ TopCall.stage = "pre" /\ n <= Len(list)
  BY DEF PreHook
<1>2. /\ TopCall \in Frames /\ Len(list) \in Nat /\ n \in 1..Len(list) /\ n \in Nat /\ top \in Nat
      /\ \A j \in Nat : OpenAt(top, j) <=> IsOpen(TopCall, list, j)
  BY <1>1, TopIs DEF Sides
<1> DEFINE frame == [TopCall EXCEPT !.next = @ + 1]
<1>3. /\ Calls'
      /\ \A i, j \in Nat : OpenAt(i, j)' <=> IF i = top THEN IsOpen(frame, list, j)
                                            ELSE OpenAt(i, j)
  BY HookMoves
<1>4. frame.next = n + 1 /\ frame.stage = "pre"
  BY <1>1, <1>2 DEF Frames
<1>5. HookNow = list[n]
  BY DEF HookNow
<1> HIDE DEF frame, list, n, top
<1>6. ASSUME NEW j \in Nat
      PROVE  IsOpen(frame, list, j) <=> IsOpen(TopCall, list, j) \/ (j = n /\ list[n] \in SpanHooks)
  BY <1>1, <1>2, <1>4 DEF IsOpen, n
<1>7. ~OpenAt(top, n)
  BY <1>1, <1>2 DEF IsOpen, n
<1>8. \A i, j \in Nat : OpenAt(i, j)' <=> OpenAt(i, j) \/ (i = top /\ j = n /\ list[n] \in SpanHooks)
  BY <1>2, <1>3, <1>6
<1>9. ASSUME list[n] \in SpanHooks
      PROVE  <<top, n>> \notin OpenPairs /\ OpenPairs' = OpenPairs \cup {<<top, n>>}
  <2>1. <<top, n>> \in Nat \X Nat /\ <<top, n>>[1] = top /\ <<top, n>>[2] = n
    BY <1>2
  <2>2. <<top, n>> \notin OpenPairs
    BY <1>7, <2>1 DEF OpenPairs
  <2>3. ASSUME NEW pair \in Nat \X Nat
        PROVE  pair \in OpenPairs' <=> pair \in OpenPairs \/ pair = <<top, n>>
    <3>1. pair[1] \in Nat /\ pair[2] \in Nat /\ pair = <<pair[1], pair[2]>>
      OBVIOUS
    <3>2. pair \in OpenPairs' <=> OpenAt(pair[1], pair[2])'
      BY DEF OpenPairs
    <3>3. pair \in OpenPairs <=> OpenAt(pair[1], pair[2])
      BY DEF OpenPairs
    <3>4. pair = <<top, n>> <=> pair[1] = top /\ pair[2] = n
      BY <3>1
    <3> QED
      BY <1>8, <1>9, <3>1, <3>2, <3>3, <3>4
  <2>4. OpenPairs' \subseteq Nat \X Nat /\ OpenPairs \subseteq Nat \X Nat
    BY DEF OpenPairs
  <2> QED
    BY <2>1, <2>2, <2>3, <2>4
<1>10. ASSUME list[n] \notin SpanHooks PROVE OpenPairs' = OpenPairs
  BY <1>8, <1>10, SamePairs
<1> QED
  BY <1>3, <1>5, <1>9, <1>10 DEF top, n

\* A post hook that ends a span ends one that its pre hook has opened; there is
\* none if the hook was registered after the call began.
LEMMA PostHookOpens ==
  ASSUME CInv, PostHook
  PROVE  /\ Calls' /\ TopCall.next \in Nat /\ TopCall.pres \in Nat
         /\ HookNow \in SpanHooks /\ TopCall.next <= TopCall.pres =>
              /\ <<Len(stack), TopCall.next>> \in OpenPairs
              /\ OpenPairs' = OpenPairs \ {<<Len(stack), TopCall.next>>}
         /\ ~(HookNow \in SpanHooks /\ TopCall.next <= TopCall.pres) => OpenPairs' = OpenPairs
<1> DEFINE list == HooksOf(TopCall)
           n == TopCall.next
           top == Len(stack)
<1>1. stack # << >> /\ TopCall.stage = "post" /\ n <= Len(list)
  BY DEF PostHook
<1>2. /\ TopCall \in Frames /\ Len(list) \in Nat /\ n \in 1..Len(list) /\ n \in Nat
      /\ top \in Nat /\ TopCall.pres \in Nat
      /\ \A j \in Nat : OpenAt(top, j) <=> IsOpen(TopCall, list, j)
  BY <1>1, TopIs DEF Sides
<1> DEFINE frame == [TopCall EXCEPT !.next = @ + 1]
<1>3. /\ Calls'
      /\ \A i, j \in Nat : OpenAt(i, j)' <=> IF i = top THEN IsOpen(frame, list, j)
                                            ELSE OpenAt(i, j)
  BY HookMoves
<1>4. frame.next = n + 1 /\ frame.stage = "post" /\ frame.pres = TopCall.pres
  BY <1>1, <1>2 DEF Frames
<1>5. HookNow = list[n]
  BY DEF HookNow
<1> DEFINE ends == list[n] \in SpanHooks /\ n <= TopCall.pres
<1> HIDE DEF frame, list, n, top
<1>6. ASSUME NEW j \in Nat
      PROVE  IsOpen(frame, list, j) <=> IsOpen(TopCall, list, j) /\ j # n
  BY <1>1, <1>2, <1>4 DEF IsOpen, n
<1>7. OpenAt(top, n) <=> ends
  BY <1>1, <1>2 DEF IsOpen, n
<1>8. \A i, j \in Nat : OpenAt(i, j)' <=> OpenAt(i, j) /\ ~(i = top /\ j = n)
  BY <1>2, <1>3, <1>6
<1>9. ASSUME ends
      PROVE  <<top, n>> \in OpenPairs /\ OpenPairs' = OpenPairs \ {<<top, n>>}
  <2>1. <<top, n>> \in Nat \X Nat /\ <<top, n>>[1] = top /\ <<top, n>>[2] = n
    BY <1>2
  <2>2. <<top, n>> \in OpenPairs
    BY <1>7, <1>9, <2>1 DEF OpenPairs
  <2>3. ASSUME NEW pair \in Nat \X Nat
        PROVE  pair \in OpenPairs' <=> pair \in OpenPairs /\ pair # <<top, n>>
    <3>1. pair[1] \in Nat /\ pair[2] \in Nat /\ pair = <<pair[1], pair[2]>>
      OBVIOUS
    <3>2. pair \in OpenPairs' <=> OpenAt(pair[1], pair[2])'
      BY DEF OpenPairs
    <3>3. pair \in OpenPairs <=> OpenAt(pair[1], pair[2])
      BY DEF OpenPairs
    <3>4. pair = <<top, n>> <=> pair[1] = top /\ pair[2] = n
      BY <3>1
    <3> QED
      BY <1>8, <3>1, <3>2, <3>3, <3>4
  <2>4. OpenPairs' \subseteq Nat \X Nat /\ OpenPairs \subseteq Nat \X Nat
    BY DEF OpenPairs
  <2> QED
    BY <2>1, <2>2, <2>3, <2>4
<1>10. ASSUME ~ends PROVE OpenPairs' = OpenPairs
  <2>1. \A i, j \in Nat : OpenAt(i, j)' <=> OpenAt(i, j)
    BY <1>7, <1>8, <1>10
  <2> QED
    BY <2>1, SamePairs
<1> QED
  BY <1>2, <1>3, <1>5, <1>9, <1>10 DEF top, n

\* With no call under way nothing is open.
LEMMA NoCalls ==
  /\ stack = << >> => OpenPairs = {}
  /\ stack' = << >> => OpenPairs' = {}
<1>1. stack = << >> => 1..Len(stack) = {}
  OBVIOUS
<1>2. stack' = << >> => 1..Len(stack') = {}
  OBVIOUS
<1> QED
  BY <1>1, <1>2 DEF OpenPairs, OpenAt

LEMMA ClearOpens ==
  ASSUME stack' = << >>, observer' = [f \in User |-> Nothing]
  PROVE  Calls'
<1>1. 1..Len(stack') = {}
  OBVIOUS
<1> QED
  BY <1>1 DEF Calls

\* After a fatal error no span is open that was not before.
LEMMA BailoutStoppedOpens ==
  ASSUME CInv, NEW k, BailoutStopped(k)
  PROVE  Calls' /\ (OpenPairs = {} => OpenPairs' = {})
<1>1. /\ k \in 1..Len(stack) /\ hooks' = hooks /\ observer' = observer
      /\ stack' = Append(SubSeq(stack, 1, k - 1), [stack[k] EXCEPT !.stage = "done"])
  BY DEF BailoutStopped, OnlyStack, CInv, HInv
<1>2. HInv /\ Calls /\ stack \in Seq(Frames) /\ Len(stack) \in Nat /\ k \in Nat
  BY <1>1 DEF CInv, HInv
<1>3. /\ stack[k] \in Frames /\ CallOK(stack[k], HooksOf(stack[k]))
      /\ stack[k].stage = "body" \/ stack[k].stage # "body"
  BY <1>1, <1>2 DEF Calls
<1> DEFINE frame == [stack[k] EXCEPT !.stage = "done"]
<1>4. /\ frame \in Frames /\ frame.stage = "done" /\ frame.fn = stack[k].fn
      /\ frame.pres = stack[k].pres /\ frame.handled = stack[k].handled
  BY <1>3 DEF Frames
<1> HIDE DEF frame
<1>5. /\ SubSeq(stack, 1, k - 1) \in Seq(Frames) /\ Len(SubSeq(stack, 1, k - 1)) = k - 1
      /\ \A i \in 1..k - 1 : SubSeq(stack, 1, k - 1)[i] = stack[i]
  <2>1. SubSeq(stack, 1, k - 1) = [i \in 1..k - 1 |-> stack[i]]
    BY <1>1, <1>2
  <2> QED
    BY <1>1, <1>2, <2>1
<1>6. /\ Len(stack') = k /\ stack'[k] = frame
      /\ \A i \in 1..k - 1 : stack'[i] = stack[i] /\ i \in 1..Len(stack)
  BY <1>1, <1>2, <1>4, <1>5 DEF frame
<1>7. \A i \in 1..k : HooksOf(stack[i])' = HooksOf(stack[i])
  <2>1. \A i \in 1..k : stack'[i].fn = stack[i].fn
    BY <1>2, <1>4, <1>6
  <2> QED
    BY <1>1, <2>1 DEF HooksOf, KeyOf
<1>8. ASSUME NEW i \in 1..Len(stack') PROVE CallOK(stack[i], HooksOf(stack[i]))'
  <2>1. CASE i = k
    <3>1. frame.pres # 0 \/ frame.stage = "pre" => "pre" \in frame.handled
      BY <1>3, <1>4 DEF CallOK
    <3> QED
      BY <1>2, <1>3, <1>4, <1>6, <1>7, <2>1, <3>1 DEF CallOK
  <2>2. CASE i # k
    <3>1. i \in 1..k - 1
      BY <1>2, <1>6, <2>2
    <3>2. CallOK(stack[i], HooksOf(stack[i])) /\ i \in 1..k
      BY <1>2, <1>6, <3>1 DEF Calls
    <3> QED
      BY <1>6, <1>7, <3>1, <3>2 DEF CallOK
  <2> QED
    BY <2>1, <2>2
<1>9. ASSUME NEW i \in Nat, NEW j \in Nat, OpenAt(i, j)' PROVE OpenAt(i, j)
  <2>1. CASE i = k
    BY <1>4, <1>6, <1>9, <2>1 DEF OpenAt, IsOpen
  <2>2. CASE i # k
    <3>1. i \in 1..k - 1 /\ i \in 1..k
      BY <1>2, <1>6, <1>9, <2>2 DEF OpenAt
    <3> QED
      BY <1>6, <1>7, <1>9, <3>1 DEF OpenAt, IsOpen
  <2> QED
    BY <2>1, <2>2
<1>10. OpenPairs' \subseteq OpenPairs
  <2>1. \A pair \in Nat \X Nat : pair[1] \in Nat /\ pair[2] \in Nat
    OBVIOUS
  <2>2. OpenPairs' = {pair \in Nat \X Nat : OpenAt(pair[1], pair[2])'}
    BY DEF OpenPairs
  <2> HIDE DEF OpenAt
  <2> QED
    BY <1>9, <2>1, <2>2 DEF OpenPairs
<1>11. Calls'
  BY <1>1, <1>2, <1>8 DEF Calls
<1> QED
  BY <1>10, <1>11

LEMMA BailoutOpens ==
  ASSUME CInv, Bailout
  PROVE  Calls' /\ (OpenPairs = {} => OpenPairs' = {})
<1> DEFINE users == {i \in DOMAIN stack : stack[i].fn \in User}
           left == 1..Cardinality(users)
<1>1. hooks' = hooks /\ observer' = observer /\ HInv /\ Calls
  BY DEF Bailout, OnlyStack, CInv
<1>2. PICK position \in [left -> users] : stack' = [i \in left |-> stack[position[i]]]
  BY DEF Bailout
<1>3. /\ stack \in Seq(Frames) /\ Len(stack) \in Nat /\ DOMAIN stack = 1..Len(stack)
      /\ IsFiniteSet(1..Len(stack)) /\ users \subseteq 1..Len(stack)
  BY <1>1, FS_Interval DEF HInv
<1>4. Cardinality(users) \in Nat
  <2> HIDE DEF users
  <2> QED
    BY <1>3, FS_Subset, FS_CardinalityType, Zenon
<1>5. \A i \in left : position[i] \in 1..Len(stack)
  BY <1>2, <1>3
<1> HIDE DEF users
<1>6. Len(stack') = Cardinality(users) /\ \A i \in left : stack'[i] = stack[position[i]]
  BY <1>2, <1>4
<1>7. \A i \in left : HooksOf(stack[i])' = HooksOf(stack[position[i]])
  BY <1>1, <1>6 DEF HooksOf, KeyOf
<1>8. ASSUME NEW i \in 1..Len(stack') PROVE CallOK(stack[i], HooksOf(stack[i]))'
  <2>1. i \in left /\ CallOK(stack[position[i]], HooksOf(stack[position[i]]))
    BY <1>1, <1>5, <1>6 DEF Calls
  <2> QED
    BY <1>6, <1>7, <2>1 DEF CallOK
<1>9. ASSUME NEW i \in Nat, NEW j \in Nat, OpenAt(i, j)' PROVE <<position[i], j>> \in OpenPairs
  <2>1. i \in left /\ position[i] \in 1..Len(stack) /\ position[i] \in Nat
    BY <1>3, <1>5, <1>6, <1>9 DEF OpenAt
  <2>2. OpenAt(position[i], j)
    BY <1>6, <1>7, <1>9, <2>1 DEF OpenAt, IsOpen
  <2> QED
    BY <2>1, <2>2 DEF OpenPairs
<1>10. OpenPairs = {} => OpenPairs' = {}
  <2>1. \A pair \in Nat \X Nat : pair[1] \in Nat /\ pair[2] \in Nat
    OBVIOUS
  <2>2. OpenPairs' = {pair \in Nat \X Nat : OpenAt(pair[1], pair[2])'}
    BY DEF OpenPairs
  <2> HIDE DEF OpenAt
  <2> QED
    BY <1>9, <2>1, <2>2
<1>11. Calls'
  BY <1>1, <1>8 DEF Calls
<1> QED
  BY <1>10, <1>11

LEMMA CInvNext ==
  ASSUME CInv, [PhpNext]_<<requestVars, phpVars>>, functional[Traced] \in BOOLEAN
  PROVE  CInv'
<1> USE DEF hookVars, phpVars
<1>0. HInv /\ HInv'
  BY PhpKeepsHooks DEF CInv
<1> SUFFICES Calls'
  BY <1>0 DEF CInv
<1>1. ASSUME UNCHANGED hookVars PROVE Calls'
  BY <1>1 DEF Calls, CInv, HooksOf
<1>2. CASE PhpRequestInit \/ PhpGone
  BY <1>2, ClearOpens DEF PhpRequestInit, ClearHooks, PhpGone
<1>3. CASE \/ \E spans, complete \in BOOLEAN : PhpBootstrapped(spans, complete)
           \/ PhpRequestShutdown \/ PhpPostDeactivate \/ Elsewhere
  BY <1>1, <1>3 DEF PhpBootstrapped, PhpRequestShutdown, PhpPostDeactivate, Elsewhere
<1>4. CASE Script
  <2>1. ASSUME NEW k \in Keys, NEW h \in SpanHooks \cup PostHooks, ScriptHooks(k, h) PROVE Calls'
    BY <2>1, InstrumentOpens DEF ScriptHooks
  <2>2. ASSUME NEW f \in Internal \cup User, ScriptCalls(f) PROVE Calls'
    BY <2>2, CallInternalOpens, CallUserOpens DEF ScriptCalls
  <2>3. CASE ScriptPreHook \/ ScriptPostHook
    BY <2>3, PreHookOpens, PostHookOpens DEF ScriptPreHook, ScriptPostHook
  <2>4. CASE ScriptSteps
    BY <2>4, EnterOpens, ReturnOpens, LeaveOpens DEF ScriptSteps
  <2>5. CASE ScriptBailsOut
    BY <2>5, BailoutStoppedOpens, BailoutOpens DEF ScriptBailsOut
  <2>6. CASE \/ \E dur \in 0..1, internal, filtered, collected \in BOOLEAN :
                  ScriptIsTraced(dur, internal, filtered, collected)
             \/ EndRootSpan
    BY <1>1, <2>6 DEF ScriptIsTraced, EndRootSpan
  <2> QED
    BY <1>4, <2>1, <2>2, <2>3, <2>4, <2>5, <2>6 DEF Script
<1>5. CASE UNCHANGED <<requestVars, phpVars>>
  BY <1>1, <1>5
<1> QED
  BY <1>2, <1>3, <1>4, <1>5 DEF PhpNext

LEMMA CInvInit == PhpInit => CInv
<1> SUFFICES ASSUME PhpInit PROVE CInv
  OBVIOUS
<1>1. HInv /\ stack = << >> /\ observer = [f \in User |-> Nothing]
  BY HInvInit DEF PhpInit, HooksInit
<1>2. 1..Len(stack) = {}
  BY <1>1
<1> QED
  BY <1>1, <1>2 DEF CInv, Calls

-----------------------------------------------------------------------------
(* The spans of a request.                                                 *)

\* What spans name: the root span is none of a function.
Fns == Internal \cup User \cup {Nothing}

Roots(state) == IF state = "open" THEN 1 ELSE 0

\* The scopes are those of the root, the frames, and the hooks under way.
Tidy(t, state, pairs) ==
  /\ IsFiniteSet(pairs) /\ Sound(t, Roots(state), Cardinality(pairs), Fns)
  /\ t.shutdown \/ state = "over" => t.last = << >>

SpansOK ==
  /\ root \in {"none", "open", "over"}
  /\ crossed \in BOOLEAN
  /\ Shaped(tracing, Fns)
  /\ ~crossed => Tidy(tracing, root, OpenPairs)

\* Calls are under way while the script runs.
StackOK ==
  /\ at[Traced] # "serving" => stack = << >>
  /\ root = "over" => stack = << >>

SInv == SpansOK /\ StackOK

LEMMA RootsAre == ASSUME NEW state PROVE Roots(state) \in 0..1
BY DEF Roots

LEMMA NonePairs == IsFiniteSet({}) /\ Cardinality({}) = 0
BY FS_EmptySet

LEMMA NoTracingIs ==
  ASSUME NEW off \in BOOLEAN, NEW reduces \in BOOLEAN, NEW least \in Nat
  PROVE  /\ Blank(NoTracing, Fns) /\ NoTracing.shutdown
         /\ Blank([NoTracing EXCEPT !.shutdown = off, !.reduction = reduces,
                                    !.minDuration = least], Fns)
<1>1. << >> \in Seq(Nat) /\ << >> \in Seq(Span(Fns)) /\ << >> \in Seq(TracedFrame(Fns))
  OBVIOUS
<1> QED
  BY <1>1 DEF NoTracing, Blank, Tracing

\* A process without a request, or a request before its root span.
LEMMA ForgottenIsOK ==
  ASSUME tracing' = NoTracing, root' = "none", crossed' = FALSE, stack' = << >>
  PROVE  SInv'
<1>1. Blank(NoTracing, Fns) /\ NoTracing.shutdown
  BY NoTracingIs, 0 \in Nat, Zenon
<1>2. Sound(NoTracing, 0, 0, Fns) /\ NoTracing.last = << >>
  BY <1>1, BlankIsSound DEF Blank
<1>3. Shaped(NoTracing, Fns)
  BY <1>2 DEF Sound
<1>4. Tidy(NoTracing, "none", {})
  BY <1>2, NonePairs DEF Tidy, Roots
<1>5. OpenPairs' = {}
  BY NoCalls
<1>6. SpansOK'
  BY <1>3, <1>4, <1>5 DEF SpansOK
<1> QED
  BY <1>6 DEF SInv, StackOK

\* The root span is started in what is blank otherwise.
LEMMA BootstrappedIsOK ==
  ASSUME SInv, start \in Starts, NEW spans \in BOOLEAN, NEW complete \in BOOLEAN,
         PhpBootstrapped(spans, complete)
  PROVE  SInv'
<1> DEFINE off == ~(complete /\ conf[Traced].snapshot.infer)
           inferred == [NoTracing EXCEPT !.shutdown = off, !.reduction = start.php.reduction,
                                         !.minDuration = start.php.minDuration]
<1>1. /\ at[Traced] = "boot" /\ stack' = stack /\ crossed' = crossed
      /\ tracing' = IF spans THEN StartSpan(inferred, "root", Nothing, NoSpan, 0) ELSE inferred
      /\ root' = IF spans THEN "open" ELSE "none"
  BY DEF PhpBootstrapped, Bootstrapped, Goto, hookVars
<1>2. stack = << >> /\ stack' = << >> /\ crossed \in BOOLEAN
  BY <1>1 DEF SInv, StackOK, SpansOK
<1>3. OpenPairs' = {}
  BY <1>2, NoCalls
<1>4. Blank(inferred, Fns)
  <2>1. off \in BOOLEAN
    OBVIOUS
  <2>2. start.php.reduction \in BOOLEAN /\ start.php.minDuration \in Nat
    BY PhpStartsAssumption
  <2> HIDE DEF off
  <2> QED
    BY <2>1, <2>2, NoTracingIs
<1> HIDE DEF inferred
<1>5. Nothing \in Fns /\ inferred.last = << >>
  BY <1>4 DEF Fns, Blank
<1>6. Tidy(inferred, "none", {})
  <2>1. Sound(inferred, 0, 0, Fns)
    BY <1>4, BlankIsSound
  <2> QED
    BY <1>5, <2>1, NonePairs DEF Tidy, Roots
<1> DEFINE u == StartSpan(inferred, "root", Nothing, NoSpan, 0)
<1>7. Tidy(u, "open", {})
  <2>1. Sound(u, 1, 0, Fns)
    BY <1>4, <1>5, RootStarts
  <2>2. u.last = << >>
    <3>1. inferred \in Tracing(Fns)
      BY <1>4 DEF Blank
    <3> QED
      BY <1>5, <3>1 DEF StartSpan, Tracing
  <2> HIDE DEF u
  <2> QED
    BY <2>1, <2>2, NonePairs DEF Tidy, Roots
<1> HIDE DEF u
<1>8. Tidy(tracing', root', {})
  BY <1>1, <1>6, <1>7 DEF u
<1>9. Shaped(tracing', Fns)
  BY <1>8 DEF Tidy, Sound
<1>10. SpansOK'
  BY <1>1, <1>2, <1>3, <1>8, <1>9 DEF SpansOK
<1> QED
  BY <1>1, <1>2, <1>10 DEF SInv, StackOK

\* Nothing else moves a worker out of a request.
LEMMA ServingStays ==
  ASSUME Traced \in Workers, at \in [Procs -> Place], at[Traced] = "serving", Elsewhere
  PROVE  at'[Traced] = "serving"
<1>1. Traced # Master /\ Traced \in Procs
  BY DistributionAssumption DEF Procs
<1>2. CASE Coordinator \/ Trigger(Traced)
  BY <1>2 DEF Coordinator, Trigger
<1>3. CASE MinitDone
  BY <1>1, <1>3 DEF MinitDone, Goto
<1>4. CASE \E p \in Procs \ {Traced} : RequestNext(p)
  BY <1>1, <1>4 DEF RequestNext, RequestInit, Trigger, Configured, OneTimeTaskRead,
    OneTimeTaskClaim, NotBootstrapped, Bootstrapped, EntryPointRefused, RequestShutdown,
    PostDeactivate, Goto
<1>5. CASE \E w \in Workers : ForkWorker(w)
  BY <1>1, <1>5 DEF ForkWorker, Goto
<1>6. CASE \E w \in Workers \ {Traced} : WorkerExits(w) \/ WorkerKilled(w)
  BY <1>1, <1>6 DEF WorkerExits, WorkerKilled, Gone
<1>7. CASE \/ Configured(Traced) \/ OneTimeTaskRead(Traced) \/ OneTimeTaskClaim(Traced)
           \/ NotBootstrapped(Traced) \/ EntryPointRefused(Traced)
  BY <1>7 DEF Configured, OneTimeTaskRead, OneTimeTaskClaim, NotBootstrapped,
    EntryPointRefused, Goto
<1> QED
  BY <1>2, <1>3, <1>4, <1>5, <1>6, <1>7 DEF Elsewhere

LEMMA UntouchedIsOK ==
  ASSUME SpansOK, UNCHANGED spanVars, OpenPairs' = OpenPairs
  PROVE  SpansOK'
BY DEF SpansOK, spanVars

LEMMA SameCalls == ASSUME UNCHANGED hookVars PROVE OpenPairs' = OpenPairs
BY DEF hookVars, OpenPairs, OpenAt, HooksOf, KeyOf

\* The newest call names a function.
LEMMA TopFn == ASSUME CInv, stack # << >> PROVE TopCall.fn \in Fns
<1>1. TopCall \in Frames
  BY TopIs
<1> QED
  BY <1>1 DEF Frames, Fns

\* The span of a pre hook goes on top of all there is.
LEMMA PreHookIsOK ==
  ASSUME CInv, SpansOK, ScriptPreHook
  PROVE  SpansOK'
<1>1. PreHook /\ UNCHANGED <<root, crossed>> /\ stack # << >>
  BY DEF ScriptPreHook, PreHook
<1>2. CASE HookNow \notin SpanHooks
  <2>1. OpenPairs' = OpenPairs /\ UNCHANGED spanVars
    BY <1>1, <1>2, PreHookOpens DEF ScriptPreHook, spanVars
  <2> QED
    BY <2>1, UntouchedIsOK
<1>3. CASE HookNow \in SpanHooks
  <2> DEFINE fn == TopCall.fn
             u == StartSpan(tracing, "hook", fn, Current(tracing), tracing.now)
             pair == <<Len(stack), TopCall.next>>
             h == Cardinality(OpenPairs)
  <2>1. tracing' = u
    BY <1>3 DEF ScriptPreHook
  <2>2. pair \notin OpenPairs /\ OpenPairs' = OpenPairs \cup {pair}
    BY <1>1, <1>3, PreHookOpens
  <2>3. fn \in Fns /\ Shaped(tracing, Fns)
    BY <1>1, TopFn DEF SpansOK
  <2> HIDE DEF fn, pair
  <2>4. Started(u, tracing, "hook", fn, Current(tracing), tracing.now, Fns)
    <3>1. tracing.now \in Int /\ Current(tracing) \in 0..Len(tracing.spans)
      <4>1. tracing.now \in Nat
        BY <2>3, ShapedTypes
      <4> QED
        BY <2>3, <4>1, CurrentIs
    <3> QED
      BY <2>3, <3>1, StartSpanIs
  <2>5. Shaped(u, Fns) /\ u.last = tracing.last /\ u.shutdown = tracing.shutdown
    BY <2>4 DEF Started, SameRun
  <2>6. ASSUME ~crossed PROVE Tidy(u, root, OpenPairs \cup {pair})
    <3>1. /\ IsFiniteSet(OpenPairs) /\ Sound(tracing, Roots(root), h, Fns)
          /\ tracing.shutdown \/ root = "over" => tracing.last = << >>
      BY <2>6 DEF SpansOK, Tidy
    <3>2. /\ h \in Nat /\ IsFiniteSet(OpenPairs \cup {pair})
          /\ Cardinality(OpenPairs \cup {pair}) = h + 1
      BY <2>2, <3>1, FS_AddElement, FS_CardinalityType
    <3> HIDE DEF h
    <3>3. Sound(u, Roots(root), h + 1, Fns)
      BY <2>3, <3>1, <3>2, RootsAre, HookStarts
    <3> HIDE DEF u
    <3> QED
      BY <2>5, <3>1, <3>2, <3>3 DEF Tidy
  <2> HIDE DEF u
  <2> QED
    BY <1>1, <2>1, <2>2, <2>5, <2>6 DEF SpansOK
<1> QED
  BY <1>2, <1>3

\* That of a post hook is the newest, unless the hook came after its call.
LEMMA PostHookIsOK ==
  ASSUME CInv, SpansOK, ScriptPostHook
  PROVE  SpansOK'
<1>1. PostHook /\ UNCHANGED root
  BY DEF ScriptPostHook
<1>2. TopCall.next \in Nat /\ TopCall.pres \in Nat /\ Shaped(tracing, Fns) /\ crossed \in BOOLEAN
  BY <1>1, PostHookOpens DEF SpansOK
<1> DEFINE ends == HookNow \in SpanHooks /\ TopCall.next <= TopCall.pres
           found == HookNow \in SpanHooks /\ tracing.scopes # << >>
           pair == <<Len(stack), TopCall.next>>
           h == Cardinality(OpenPairs)
<1>3. found => tracing' = EndTop(tracing)
                /\ crossed' = (crossed \/ TopCall.next > TopCall.pres)
  BY DEF ScriptPostHook
<1>4. ~found => UNCHANGED <<tracing, crossed>>
  BY DEF ScriptPostHook
<1>5. /\ ends => pair \in OpenPairs /\ OpenPairs' = OpenPairs \ {pair}
      /\ ~ends => OpenPairs' = OpenPairs
  BY <1>1, PostHookOpens
<1>6. found => Shaped(EndTop(tracing), Fns) /\ Alike(EndTop(tracing), tracing)
  BY <1>2, TopEnds DEF TopEnded
<1>7. ASSUME ends, ~crossed PROVE found /\ Tidy(EndTop(tracing), root, OpenPairs \ {pair})
  <2>1. /\ IsFiniteSet(OpenPairs) /\ Sound(tracing, Roots(root), h, Fns)
        /\ tracing.shutdown \/ root = "over" => tracing.last = << >>
    BY <1>7 DEF SpansOK, Tidy
  <2>2. /\ h \in Nat /\ h # 0 /\ IsFiniteSet(OpenPairs \ {pair})
        /\ Cardinality(OpenPairs \ {pair}) = h - 1
    <3>1. pair \in OpenPairs
      BY <1>5, <1>7
    <3> HIDE DEF pair, ends
    <3>2. h \in Nat /\ h # 0
      BY <2>1, <3>1, FS_EmptySet, FS_CardinalityType
    <3>3. IsFiniteSet(OpenPairs \ {pair}) /\ Cardinality(OpenPairs \ {pair}) = h - 1
      BY <2>1, <3>1, FS_RemoveElement
    <3> QED
      BY <3>2, <3>3
  <2> HIDE DEF h
  <2>3. tracing.scopes # << >> /\ Sound(EndTop(tracing), Roots(root), h - 1, Fns)
    BY <2>1, <2>2, RootsAre, HookEnds
  <2>4. found
    BY <1>7, <2>3
  <2>5. EndTop(tracing).last = tracing.last /\ EndTop(tracing).shutdown = tracing.shutdown
    BY <1>6, <2>4 DEF Alike
  <2> QED
    BY <2>1, <2>2, <2>3, <2>4, <2>5 DEF Tidy
<1>8. ~ends /\ ~crossed' => ~found
  <2>1. found => crossed' \/ ~(TopCall.next > TopCall.pres)
    BY <1>3
  <2>2. ~(TopCall.next > TopCall.pres) => TopCall.next <= TopCall.pres
    BY <1>2
  <2> QED
    BY <2>1, <2>2
<1> HIDE DEF pair, h
<1>9. Shaped(tracing', Fns) /\ crossed' \in BOOLEAN
  BY <1>2, <1>3, <1>4, <1>6
<1>10. ASSUME ~crossed' PROVE Tidy(tracing', root, OpenPairs')
  <2>1. ~crossed
    BY <1>2, <1>3, <1>4, <1>10
  <2>2. CASE ends
    BY <1>3, <1>5, <1>7, <2>1, <2>2
  <2>3. CASE ~ends
    <3>1. tracing' = tracing /\ OpenPairs' = OpenPairs
      BY <1>4, <1>5, <1>8, <1>10, <2>3
    <3> QED
      BY <2>1, <3>1 DEF SpansOK
  <2> QED
    BY <2>2, <2>3
<1> QED
  BY <1>1, <1>9, <1>10 DEF SpansOK

\* A step that happens with no span of a hook open, or gives up.
LEMMA NoHookOpen ==
  ASSUME SpansOK, crossed' = (crossed \/ HookScopes # {}), ~crossed'
  PROVE  ~crossed /\ OpenPairs = {} /\ Sound(tracing, Roots(root), 0, Fns)
<1>1. ~crossed /\ HookScopes = {}
  OBVIOUS
<1> DEFINE r == Roots(root)
           h == Cardinality(OpenPairs)
           k == r + Len(tracing.last) + 1
<1>2. IsFiniteSet(OpenPairs) /\ Sound(tracing, r, h, Fns)
  BY <1>1 DEF SpansOK, Tidy
<1>3. h \in Nat /\ r \in 0..1
  BY <1>2, RootsAre, FS_CardinalityType
<1>4. Shaped(tracing, Fns) /\ Lined(tracing, r, h)
  BY <1>2 DEF Sound
<1>5. Len(tracing.scopes) \in Nat /\ Len(tracing.last) \in Nat /\ tracing.scopes \in Seq(Nat)
  BY <1>4, ShapedTypes
<1> HIDE DEF r, h
<1>6. ASSUME h # 0 PROVE FALSE
  <2>1. k \in k..Len(tracing.scopes) /\ k \in 1..Len(tracing.scopes)
    BY <1>3, <1>4, <1>5, <1>6 DEF Lined
  <2>2. tracing.spans[tracing.scopes[k]].kind = "hook"
    BY <1>4, <2>1 DEF Lined
  <2>3. tracing.scopes[k] \in ToSet(tracing.scopes)
    BY <1>5, <2>1 DEF ToSet
  <2> QED
    BY <1>1, <2>2, <2>3 DEF HookScopes
<1>7. h = 0
  BY <1>6
<1>8. OpenPairs = {}
  BY <1>2, <1>7, FS_EmptySet DEF h
<1> QED
  BY <1>1, <1>2, <1>7, <1>8 DEF r

LEMMA BailsOutIsOK ==
  ASSUME CInv, SpansOK, ScriptBailsOut
  PROVE  SpansOK'
<1>1. /\ OpenPairs = {} => OpenPairs' = {}
      /\ UNCHANGED <<tracing, root>>
      /\ crossed' = (crossed \/ HookScopes # {})
  BY BailoutStoppedOpens, BailoutOpens DEF ScriptBailsOut
<1>2. crossed' \in BOOLEAN
  BY <1>1
<1>3. ASSUME ~crossed' PROVE Tidy(tracing', root', OpenPairs')
  <2>1. ~crossed /\ OpenPairs = {}
    BY <1>1, <1>3, NoHookOpen
  <2> QED
    BY <1>1, <2>1 DEF SpansOK
<1> QED
  BY <1>1, <1>2, <1>3 DEF SpansOK

\* The functions of a stack trace.
LEMMA TracedCalls ==
  ASSUME HInv
  PROVE  [i \in DOMAIN stack |-> stack[i].fn] \in Seq(Fns)
<1>1. stack \in Seq(Frames) /\ Len(stack) \in Nat /\ DOMAIN stack = 1..Len(stack)
  BY DEF HInv
<1>2. \A i \in DOMAIN stack : stack[i].fn \in Fns
  BY <1>1, StackIs DEF Fns
<1> QED
  BY <1>1, <1>2

LEMMA TracedIsOK ==
  ASSUME CInv, SpansOK, root # "over", NEW dur \in 0..1, NEW internal \in BOOLEAN,
         NEW filtered \in BOOLEAN, NEW collected \in BOOLEAN,
         ScriptIsTraced(dur, internal, filtered, collected)
  PROVE  SpansOK'
<1> DEFINE t == [tracing EXCEPT !.garbage = IF collected THEN {} ELSE @]
           calls == [i \in DOMAIN stack |-> stack[i].fn]
           u == CaptureStackTrace(t, calls, dur, internal, filtered)
<1>1. /\ tracing' = u /\ crossed' = (crossed \/ HookScopes # {})
      /\ UNCHANGED hookVars /\ UNCHANGED root
  BY DEF ScriptIsTraced
<1>2. OpenPairs' = OpenPairs /\ calls \in Seq(Fns) /\ Shaped(tracing, Fns)
  BY <1>1, SameCalls, TracedCalls DEF CInv, SpansOK
<1>3. /\ Shaped(t, Fns) /\ t.shutdown = tracing.shutdown /\ t.last = tracing.last
      /\ \A r, h : Sound(tracing, r, h, Fns) => Sound(t, r, h, Fns)
  BY <1>2, CollectedAltered, Zenon
<1> HIDE DEF t, calls
<1>4. Shaped(u, Fns) /\ u.shutdown = t.shutdown /\ (t.shutdown => u = t)
  <2>1. Shaped(t, Fns) /\ calls \in Seq(Fns)
    BY <1>2, <1>3
  <2> QED
    BY <2>1, TraceCaptured
<1>5. ASSUME ~crossed' PROVE Tidy(u, root, OpenPairs)
  <2>1. ~crossed /\ OpenPairs = {} /\ Sound(tracing, Roots(root), 0, Fns)
    BY <1>1, <1>5, NoHookOpen
  <2>2. Sound(t, Roots(root), 0, Fns)
    BY <1>3, <2>1
  <2>3. Sound(u, Roots(root), 0, Fns)
    BY <1>2, <2>2, RootsAre, CapturedSound
  <2>4. tracing.shutdown => tracing.last = << >>
    BY <2>1 DEF SpansOK, Tidy
  <2>5. u.shutdown \/ root = "over" => u.last = << >>
    BY <1>3, <1>4, <2>4
  <2> HIDE DEF u
  <2> QED
    BY <2>1, <2>3, <2>5, NonePairs DEF Tidy
<1> HIDE DEF u
<1>6. crossed' \in BOOLEAN
  BY <1>1
<1> QED
  BY <1>1, <1>2, <1>4, <1>5, <1>6 DEF SpansOK

\* The root span ends last, and what stack traces left open before it.
LEMMA EndRootIsOK ==
  ASSUME SpansOK, EndRootSpan
  PROVE  SpansOK'
<1> DEFINE t == IF tracing.shutdown THEN tracing ELSE Shutdown(tracing)
<1>1. /\ root = "open" /\ stack = << >> /\ root' = "over" /\ crossed' = crossed
      /\ UNCHANGED hookVars
      /\ tracing' = IF t.scopes = << >> THEN t ELSE EndTop(t)
  BY DEF EndRootSpan
<1>2. OpenPairs' = {} /\ OpenPairs = {} /\ Shaped(tracing, Fns)
  BY <1>1, NoCalls, SameCalls DEF SpansOK
<1>3. Shaped(t, Fns)
  BY <1>2, ShutdownKeeps
<1>4. ASSUME ~crossed PROVE Sound(t, 1, 0, Fns) /\ t.last = << >>
  <2>1. Sound(tracing, 1, 0, Fns) /\ (tracing.shutdown => tracing.last = << >>)
    BY <1>1, <1>2, <1>4, NonePairs DEF SpansOK, Tidy, Roots
  <2>2. Sound(Shutdown(tracing), 1, 0, Fns) /\ Shutdown(tracing).last = << >>
    BY <2>1, 1 \in 0..1, ShutdownSound
  <2> QED
    BY <2>1, <2>2
<1> HIDE DEF t
<1>5. Shaped(tracing', Fns)
  <2>1. t.scopes # << >> => Shaped(EndTop(t), Fns)
    BY <1>3, TopEnds DEF TopEnded
  <2> QED
    BY <1>1, <1>3, <2>1
<1>6. ASSUME ~crossed PROVE Tidy(tracing', "over", {})
  <2>1. Sound(tracing', 0, 0, Fns) /\ tracing'.last = << >>
    BY <1>1, <1>4, <1>6, RootEndsLast
  <2> QED
    BY <2>1, NonePairs DEF Tidy, Roots
<1> QED
  BY <1>1, <1>2, <1>5, <1>6 DEF SpansOK

LEMMA ScriptIsOK ==
  ASSUME CInv, SInv, Script, functional[Traced] \in BOOLEAN
  PROVE  SInv'
<1> USE DEF spanVars
<1>0. /\ Running /\ SpansOK /\ at' = at /\ at[Traced] = "serving" /\ root # "over"
  BY DEF Script, Running, SInv, requestVars
<1>1. ASSUME NEW k \in Keys, NEW h \in SpanHooks \cup PostHooks, ScriptHooks(k, h) PROVE SpansOK'
  BY <1>0, <1>1, InstrumentOpens, UntouchedIsOK DEF ScriptHooks
<1>2. ASSUME NEW f \in Internal \cup User, ScriptCalls(f) PROVE SpansOK'
  <2>1. OpenPairs' = OpenPairs
    BY <1>2, CallInternalOpens, CallUserOpens DEF ScriptCalls
  <2> QED
    BY <1>0, <1>2, <2>1, UntouchedIsOK DEF ScriptCalls
<1>3. ASSUME ScriptSteps PROVE SpansOK'
  <2>1. OpenPairs' = OpenPairs
    BY <1>3, EnterOpens, ReturnOpens, LeaveOpens DEF ScriptSteps
  <2> QED
    BY <1>0, <1>3, <2>1, UntouchedIsOK DEF ScriptSteps
<1>4. ASSUME ScriptPreHook \/ ScriptPostHook \/ ScriptBailsOut PROVE SpansOK'
  BY <1>0, <1>4, PreHookIsOK, PostHookIsOK, BailsOutIsOK
<1>5. ASSUME NEW dur \in 0..1, NEW internal \in BOOLEAN, NEW filtered \in BOOLEAN,
             NEW collected \in BOOLEAN, ScriptIsTraced(dur, internal, filtered, collected)
      PROVE  SpansOK'
  BY <1>0, <1>5, TracedIsOK
<1>6. ASSUME EndRootSpan PROVE SpansOK'
  BY <1>0, <1>6, EndRootIsOK
<1>7. SpansOK'
  BY <1>1, <1>2, <1>3, <1>4, <1>5, <1>6 DEF Script
<1>8. root' = "over" => stack' = << >>
  <2>1. CASE EndRootSpan
    BY <2>1 DEF EndRootSpan, hookVars
  <2>2. CASE ~EndRootSpan
    BY <1>0, <2>2 DEF Script, ScriptHooks, ScriptCalls, ScriptPreHook, ScriptPostHook,
      ScriptSteps, ScriptBailsOut, ScriptIsTraced
  <2> QED
    BY <2>1, <2>2
<1> QED
  BY <1>0, <1>7, <1>8 DEF SInv, StackOK

LEMMA SInvNext ==
  ASSUME Traced \in Workers, RInv, CInv, SInv, [PhpNext]_<<requestVars, phpVars>>
  PROVE  SInv'
<1>1. /\ start \in Starts /\ at \in [Procs -> Place] /\ functional[Traced] \in BOOLEAN
  BY DEF RInv, Requests, RequestTypes, Procs
<1>2. ASSUME UNCHANGED phpVars PROVE SpansOK'
  <2>1. UNCHANGED hookVars /\ UNCHANGED spanVars
    BY <1>2 DEF phpVars
  <2> QED
    BY <2>1, SameCalls, UntouchedIsOK DEF SInv
<1>3. CASE PhpRequestInit \/ PhpGone
  BY <1>3, ForgottenIsOK DEF PhpRequestInit, ClearHooks, PhpGone, Forget
<1>4. CASE PhpPostDeactivate
  <2>1. stack' = << >>
    BY <1>4 DEF PhpPostDeactivate, PostDeactivate, Goto, SInv, StackOK, hookVars
  <2> QED
    BY <1>4, <2>1, ForgottenIsOK DEF PhpPostDeactivate, Forget
<1>5. CASE \E spans, complete \in BOOLEAN : PhpBootstrapped(spans, complete)
  BY <1>1, <1>5, BootstrappedIsOK
<1>6. CASE PhpRequestShutdown
  <2>1. UNCHANGED phpVars /\ stack = << >> /\ stack' = stack
    BY <1>6 DEF PhpRequestShutdown, phpVars, hookVars
  <2> QED
    BY <1>2, <2>1 DEF SInv, StackOK
<1>7. CASE Elsewhere
  <2>1. UNCHANGED phpVars /\ stack' = stack /\ root' = root
    BY <1>7 DEF Elsewhere, phpVars, hookVars, spanVars
  <2>2. at[Traced] = "serving" => at'[Traced] = "serving"
    BY <1>1, <1>7, ServingStays
  <2> QED
    BY <1>2, <2>1, <2>2 DEF SInv, StackOK
<1>8. CASE Script
  BY <1>1, <1>8, ScriptIsOK
<1>9. CASE UNCHANGED <<requestVars, phpVars>>
  <2>1. UNCHANGED phpVars /\ stack' = stack /\ root' = root /\ at' = at
    BY <1>9 DEF requestVars, phpVars, hookVars, spanVars
  <2> QED
    BY <1>2, <2>1 DEF SInv, StackOK
<1> QED
  BY <1>3, <1>4, <1>5, <1>6, <1>7, <1>8, <1>9 DEF PhpNext

LEMMA SInvInit == PhpInit => SInv
<1> SUFFICES ASSUME PhpInit PROVE SInv
  OBVIOUS
<1>1. stack = << >> /\ tracing = NoTracing /\ root = "none" /\ crossed = FALSE
  BY DEF PhpInit, HooksInit
<1>2. Blank(NoTracing, Fns)
  BY NoTracingIs, 0 \in Nat, Zenon
<1>3. Sound(NoTracing, 0, 0, Fns) /\ NoTracing.last = << >>
  BY <1>2, BlankIsSound DEF Blank
<1>4. Shaped(NoTracing, Fns)
  BY <1>3 DEF Sound
<1>5. Tidy(NoTracing, "none", {})
  BY <1>3, NonePairs DEF Tidy, Roots
<1> QED
  BY <1>1, <1>4, <1>5, NoCalls DEF SInv, SpansOK, StackOK

-----------------------------------------------------------------------------
(* The budget of a request.                                                *)

Kinds == {"calls", "hooks", "traces"}

BudgetOK ==
  /\ Kinds \subseteq DOMAIN budget
  /\ \A what \in Kinds : budget[what] \in 0..start.php[what]

LEMMA FullBudget ==
  ASSUME start \in Starts
  PROVE  Kinds \subseteq DOMAIN start.php /\ \A what \in Kinds : start.php[what] \in 0..start.php[what]
BY PhpStartsAssumption DEF Kinds

LEMMA SpendKeeps ==
  ASSUME BudgetOK, start \in Starts, start' = start, NEW what \in Kinds, Spend(what)
  PROVE  BudgetOK'
<1>1. budget[what] > 0 /\ budget' = [budget EXCEPT ![what] = @ - 1]
  BY DEF Spend
<1>2. \A k \in Kinds : start.php[k] \in Nat
  BY PhpStartsAssumption DEF Kinds
<1>3. Kinds \subseteq DOMAIN budget'
  BY <1>1 DEF BudgetOK
<1>4. ASSUME NEW k \in Kinds PROVE budget'[k] \in 0..start.php[k]
  <2>1. budget[k] \in 0..start.php[k] /\ k \in DOMAIN budget /\ start.php[k] \in Nat
    BY <1>2 DEF BudgetOK
  <2> QED
    BY <1>1, <2>1
<1> QED
  BY <1>3, <1>4 DEF BudgetOK

LEMMA BudgetNext ==
  ASSUME Traced \in Workers, RInv, BudgetOK, [PhpNext]_<<requestVars, phpVars>>
  PROVE  BudgetOK'
<1>1. start \in Starts /\ start' = start
  <2>1. start \in Starts
    BY DEF RInv, Requests, RequestTypes
  <2>2. [RequestScopeNext]_requestVars
    BY PhpSteps
  <2>3. start' = start
    BY <2>2 DEF RequestScopeNext, RequestNext, Coordinator, MinitDone, RequestInit, Trigger,
      Configured, OneTimeTaskRead, OneTimeTaskClaim, NotBootstrapped, Bootstrapped,
      EntryPointRefused, RequestShutdown, PostDeactivate, ForkWorker, WorkerExits,
      WorkerKilled, Gone, sharedVars, requestVars
  <2> QED
    BY <2>1, <2>3
<1>2. ASSUME budget' = budget PROVE BudgetOK'
  BY <1>1, <1>2 DEF BudgetOK
<1>3. CASE PhpRequestInit \/ PhpGone \/ PhpPostDeactivate
  BY <1>1, <1>3, FullBudget DEF PhpRequestInit, PhpGone, PhpPostDeactivate, Forget, BudgetOK
<1>4. CASE \/ \E spans, complete \in BOOLEAN : PhpBootstrapped(spans, complete)
           \/ PhpRequestShutdown \/ Elsewhere \/ UNCHANGED <<requestVars, phpVars>>
  BY <1>2, <1>4 DEF PhpBootstrapped, PhpRequestShutdown, Elsewhere, phpVars
<1>5. CASE Script
  <2>1. CASE \E what \in Kinds : Spend(what)
    BY <1>1, <2>1, SpendKeeps
  <2>2. CASE budget' = [budget EXCEPT !["calls"] = 0, !["hooks"] = 0, !["traces"] = 0]
    BY <1>1, <2>2, PhpStartsAssumption DEF BudgetOK, Kinds
  <2>3. (\E what \in Kinds : Spend(what)) \/ budget' = budget
          \/ budget' = [budget EXCEPT !["calls"] = 0, !["hooks"] = 0, !["traces"] = 0]
    BY <1>5 DEF Script, ScriptHooks, ScriptCalls, ScriptPreHook, ScriptPostHook, ScriptSteps,
      ScriptBailsOut, ScriptIsTraced, EndRootSpan, Kinds
  <2> QED
    BY <1>2, <2>1, <2>2, <2>3
<1> QED
  BY <1>3, <1>4, <1>5 DEF PhpNext

LEMMA BudgetInit == PhpInit => BudgetOK
BY FullBudget DEF PhpInit, RequestScopeInit, BudgetOK

-----------------------------------------------------------------------------
(* What follows for every request.                                         *)

PInv == RInv /\ CInv /\ SInv /\ BudgetOK

LEMMA PInvHolds == ASSUME Traced \in Workers PROVE PhpSpec => []PInv
<1>1. PhpInit => RInv /\ CInv /\ SInv /\ BudgetOK
  BY RInvInit, CInvInit, SInvInit, BudgetInit DEF PhpInit
<1>2. RInv => functional[Traced] \in BOOLEAN
  BY DEF RInv, Requests, RequestTypes, Procs
<1>3. RInv /\ CInv /\ SInv /\ BudgetOK /\ [PhpNext]_<<requestVars, phpVars>>
        => CInv' /\ SInv' /\ BudgetOK'
  BY <1>2, CInvNext, SInvNext, BudgetNext
<1>4. PhpSpec => []RInv
  BY PhpImplementsRequestScope, RInvHolds, PTL
<1> QED
  BY <1>1, <1>3, <1>4, PTL DEF PhpSpec, PInv

\* The scopes that are there are of open spans, those of kind "inferred" are
\* those of the frames.
ScopesMatch(t) ==
  /\ \A s \in ToSet(t.scopes) : t.spans[s].state = "open"
  /\ {s \in ToSet(t.scopes) : t.spans[s].kind = "inferred"}
       = {t.last[i].span : i \in DOMAIN t.last}

LEMMA SoundScopes ==
  ASSUME NEW F, NEW t, NEW r \in 0..1, NEW h \in Nat, Sound(t, r, h, F)
  PROVE  ScopesMatch(t)
<1>1. Shaped(t, F) /\ Lined(t, r, h) /\ Attached(t)
  BY DEF Sound
<1> DEFINE S == Len(t.scopes)
           L == Len(t.last)
<1>2. S \in Nat /\ L \in Nat /\ DOMAIN t.scopes = 1..S /\ DOMAIN t.last = 1..L /\ S = r + L + h
  BY <1>1, ShapedTypes DEF Lined
<1>3. \A s : s \in ToSet(t.scopes) <=> \E k \in 1..S : s = t.scopes[k]
  BY <1>2 DEF ToSet
<1>4. \A s \in ToSet(t.scopes) : t.spans[s].state = "open"
  BY <1>1, <1>3 DEF Attached
<1>5. \A i \in 1..L : /\ t.scopes[r + L + 1 - i] = t.last[i].span
                      /\ t.spans[t.last[i].span].kind = "inferred"
  BY <1>1 DEF Lined
<1>6. r = 1 => t.spans[t.scopes[1]].kind = "root"
  BY <1>1 DEF Lined
<1>7. \A k \in r + L + 1..S : t.spans[t.scopes[k]].kind = "hook"
  BY <1>1 DEF Lined
<1> HIDE DEF S, L
<1>8. ASSUME NEW i \in 1..L
      PROVE  t.last[i].span \in ToSet(t.scopes) /\ t.spans[t.last[i].span].kind = "inferred"
  <2>1. r + L + 1 - i \in 1..S
    BY <1>2
  <2> QED
    BY <1>3, <1>5, <2>1
<1>9. ASSUME NEW s \in ToSet(t.scopes), t.spans[s].kind = "inferred"
      PROVE  \E i \in 1..L : s = t.last[i].span
  <2>1. PICK k \in 1..S : s = t.scopes[k]
    BY <1>3
  <2>2. k > r
    <3>1. r = 1 => k # 1
      BY <1>6, <1>9, <2>1
    <3> QED
      BY <1>2, <3>1
  <2>3. k <= r + L
    <3>1. k \notin r + L + 1..S
      BY <1>7, <1>9, <2>1
    <3> QED
      BY <1>2, <3>1
  <2> DEFINE i == r + L + 1 - k
  <2>4. i \in 1..L /\ r + L + 1 - i = k
    BY <1>2, <2>2, <2>3
  <2> QED
    BY <1>5, <2>1, <2>4
<1>10. {s \in ToSet(t.scopes) : t.spans[s].kind = "inferred"} = {t.last[i].span : i \in 1..L}
  BY <1>8, <1>9
<1> QED
  BY <1>2, <1>4, <1>10 DEF ScopesMatch

LEMMA ShapedOrders ==
  ASSUME NEW F, NEW t, Shaped(t, F)
  PROVE  /\ \A s \in DOMAIN t.spans : t.spans[s].parent \in 0..s - 1
         /\ \A i, j \in DOMAIN t.scopes : i < j => t.scopes[i] < t.scopes[j]
         /\ \A i, j \in DOMAIN t.last : i < j => t.last[j].span < t.last[i].span
<1>1. /\ DOMAIN t.spans = 1..Len(t.spans) /\ DOMAIN t.scopes = 1..Len(t.scopes)
      /\ DOMAIN t.last = 1..Len(t.last) /\ Len(t.spans) \in Nat
  BY ShapedTypes
<1>2. \A s \in 1..Len(t.spans) : t.spans[s].parent \in Nat /\ t.spans[s].parent < s
  BY ShapedTypes DEF Shaped
<1>3. \A s \in 1..Len(t.spans) : t.spans[s].parent \in 0..s - 1
  BY <1>1, <1>2
<1> QED
  BY <1>1, <1>3 DEF Shaped, Increasing

LEMMA TidyNow ==
  ASSUME PInv, ~crossed
  PROVE  /\ Cardinality(OpenPairs) \in Nat /\ Roots(root) \in 0..1
         /\ Sound(tracing, Roots(root), Cardinality(OpenPairs), Fns)
<1>1. Tidy(tracing, root, OpenPairs)
  BY DEF PInv, SInv, SpansOK
<1> QED
  BY <1>1, RootsAre, FS_CardinalityType DEF Tidy

(* The types, and how the scopes of the root, of hooks and of stack frames *)
(* lie on each other: whatever functions are called, hooked and traced,    *)
(* the frames of the last stack trace are those whose scopes are attached, *)
(* in their order, and spans on a scope are open.                          *)
THEOREM PhpTypes == ASSUME Traced \in Workers PROVE PhpSpec => []PhpTypeOK
<1>1. ASSUME PInv PROVE PhpTypeOK
  <2>1. HooksTypeOK /\ root \in {"none", "open", "over"} /\ Shaped(tracing, Fns)
    BY <1>1, HInvTypes DEF PInv, CInv, SInv, SpansOK
  <2>2. \A what \in {"calls", "hooks", "traces"} : budget[what] \in 0..start.php[what]
    BY <1>1 DEF PInv, BudgetOK, Kinds
  <2>3. /\ \A s \in DOMAIN tracing.spans : tracing.spans[s].parent \in 0..s - 1
        /\ \A i, j \in DOMAIN tracing.scopes :
             i < j => tracing.scopes[i] < tracing.scopes[j]
        /\ \A i, j \in DOMAIN tracing.last :
             i < j => tracing.last[j].span < tracing.last[i].span
    BY <2>1, ShapedOrders, Zenon
  <2>4. ~crossed =>
          /\ \A s \in ToSet(tracing.scopes) : tracing.spans[s].state = "open"
          /\ {s \in ToSet(tracing.scopes) : tracing.spans[s].kind = "inferred"}
               = {tracing.last[i].span : i \in DOMAIN tracing.last}
    <3>1. ~crossed => ScopesMatch(tracing)
      <4> SUFFICES ASSUME ~crossed PROVE ScopesMatch(tracing)
        OBVIOUS
      <4>1. PICK r \in 0..1, h \in Nat : Sound(tracing, r, h, Fns)
        BY <1>1, TidyNow
      <4> QED
        BY <4>1, SoundScopes
    <3> QED
      BY <3>1 DEF ScopesMatch
  <2> QED
    BY <2>1, <2>2, <2>3, <2>4 DEF PhpTypeOK
<1> QED
  BY <1>1, PInvHolds, PTL

\* After its last handler a request is sound with nothing left open.
LEMMA OverIsEmpty ==
  ASSUME PInv, AfterScript, ~crossed
  PROVE  Sound(tracing, 0, 0, Fns) /\ tracing.last = << >>
<1>1. Tidy(tracing, root, OpenPairs) /\ root = "over" /\ stack = << >>
  BY DEF PInv, SInv, SpansOK, StackOK, AfterScript
<1>2. OpenPairs = {}
  BY <1>1, NoCalls
<1> QED
  BY <1>1, <1>2, NonePairs DEF Tidy, Roots

LEMMA EmptyIsEnded ==
  ASSUME NEW F, NEW t, Sound(t, 0, 0, F), t.last = << >>
  PROVE  /\ t.scopes = << >>
         /\ \A s \in 1..Len(t.spans) : t.spans[s].state # "open"
<1>1. Shaped(t, F) /\ Lined(t, 0, 0) /\ Attached(t) /\ Len(t.last) = 0
  BY DEF Sound
<1>2. Len(t.scopes) = 0 /\ t.scopes \in Seq(Nat)
  BY <1>1, ShapedTypes DEF Lined
<1>3. t.scopes = << >>
  BY <1>2
<1>4. \A s \in 1..Len(t.spans) : t.spans[s].state # "open"
  BY <1>1, <1>2 DEF Attached
<1> QED
  BY <1>3, <1>4

(* When the root span is over, every span of the request has been ended or *)
(* dropped and no scope is left, for any scripts, hooks, stack traces and  *)
(* times between them, as long as no scope was ended by another owner.     *)
THEOREM SpansAllEnd == ASSUME Traced \in Workers PROVE PhpSpec => []SpansEnded
<1>1. ASSUME PInv PROVE SpansEnded
  <2> SUFFICES ASSUME AfterScript, ~crossed
      PROVE  /\ tracing.scopes = << >>
             /\ \A s \in DOMAIN tracing.spans : tracing.spans[s].state # "open"
    BY DEF SpansEnded
  <2>1. Sound(tracing, 0, 0, Fns) /\ tracing.last = << >>
    BY <1>1, OverIsEmpty
  <2>2. /\ tracing.scopes = << >>
        /\ \A s \in 1..Len(tracing.spans) : tracing.spans[s].state # "open"
    BY <2>1, EmptyIsEnded
  <2>3. DOMAIN tracing.spans = 1..Len(tracing.spans)
    BY <2>1, ShapedTypes DEF Sound
  <2> QED
    BY <2>2, <2>3
<1> QED
  BY <1>1, PInvHolds, PTL

(* No exported span hangs below one that was dropped, for the reduction    *)
(* and the least duration drop no span that another one was moved to.      *)
THEOREM NoSpanOrphaned == ASSUME Traced \in Workers PROVE PhpSpec => []NoOrphan
<1>1. ASSUME PInv PROVE NoOrphan
  <2> SUFFICES ASSUME AfterScript, ~crossed, NEW s \in Exported
      PROVE  LET parent == tracing.spans[s].parent IN
             \/ parent = NoSpan
             \/ parent \in Exported
             \/ tracing.minDuration > 0 /\ tracing.spans[s].kind = "hook"
    BY DEF NoOrphan
  <2> DEFINE parent == tracing.spans[s].parent
  <2>1. Sound(tracing, 0, 0, Fns) /\ tracing.last = << >>
    BY <1>1, OverIsEmpty
  <2>2. Shaped(tracing, Fns) /\ Rooted(tracing, 1..Len(tracing.last)) /\ 1..Len(tracing.last) = {}
    BY <2>1 DEF Sound
  <2>3. DOMAIN tracing.spans = 1..Len(tracing.spans) /\ Len(tracing.spans) \in Nat
    BY <2>2, ShapedTypes
  <2>4. s \in 1..Len(tracing.spans) /\ tracing.spans[s].state = "ended"
    BY <2>3 DEF Exported
  <2>5. parent \in Nat /\ parent < s
    BY <2>2, <2>4, ShapedTypes DEF Shaped
  <2>6. parent # NoSpan => parent \in 1..Len(tracing.spans)
    BY <2>3, <2>4, <2>5 DEF NoSpan
  <2>7. parent # NoSpan => tracing.spans[parent].state # "open"
    BY <2>1, <2>6, EmptyIsEnded
  <2>8. Kept(tracing, s) => parent = NoSpan \/ tracing.spans[parent].state = "ended"
    BY <2>2, <2>4, <2>7 DEF Rooted, Hangs
  <2> HIDE DEF parent
  <2>9. ~Kept(tracing, s) => tracing.minDuration > 0 /\ tracing.spans[s].kind = "hook"
    BY <2>4 DEF Kept
  <2>10. tracing.spans[parent].state = "ended" /\ parent # NoSpan => parent \in Exported
    BY <2>3, <2>6 DEF Exported
  <2>11. \/ parent = NoSpan \/ parent \in Exported
         \/ tracing.minDuration > 0 /\ tracing.spans[s].kind = "hook"
    BY <2>8, <2>9, <2>10
  <2> QED
    BY <2>11 DEF parent
<1> QED
  BY <1>1, PInvHolds, PTL

(* No two exported spans of stack frames have the same times, when the     *)
(* reduction is on.                                                        *)
THEOREM ReducedSpansDiffer == ASSUME Traced \in Workers PROVE PhpSpec => []Reduced
<1>1. ASSUME PInv PROVE Reduced
  <2> SUFFICES ASSUME AfterScript, ~crossed, tracing.reduction,
                      NEW s \in Exported, NEW u \in Exported,
                      tracing.spans[s].kind = "inferred", tracing.spans[u].kind = "inferred",
                      s # u
      PROVE  \/ tracing.spans[s].from # tracing.spans[u].from
             \/ tracing.spans[s].until # tracing.spans[u].until
    BY DEF Reduced
  <2>1. Shaped(tracing, Fns) /\ Distinct(tracing)
    BY <1>1, OverIsEmpty DEF Sound
  <2>2. DOMAIN tracing.spans = 1..Len(tracing.spans)
    BY <2>1, ShapedTypes
  <2>3. EndedFrame(tracing, s) /\ EndedFrame(tracing, u)
    BY DEF Exported, EndedFrame
  <2>4. s \in 1..Len(tracing.spans) /\ u \in 1..Len(tracing.spans)
    BY <2>2 DEF Exported
  <2> QED
    BY <2>1, <2>3, <2>4 DEF Distinct
<1> QED
  BY <1>1, PInvHolds, PTL

=============================================================================
