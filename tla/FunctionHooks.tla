---------------------------- MODULE FunctionHooks ----------------------------
(***************************************************************************)
(* How functions are instrumented in one PHP process                       *)
(* (InternalFunctionInstrumentation.cpp): pre and post hooks are stored    *)
(* under a key made of class and function, and live for a request.  The    *)
(* handler of an internal function is replaced for the life of the         *)
(* process.  A user function is looked up once in a request, when it is    *)
(* first called, and its observer is fixed from then on.                   *)
(***************************************************************************)
EXTENDS Naturals, Sequences, FiniteSets, SequencesExt

CONSTANTS
  Internal, User,    \* the functions that scripts call
  Interfaces,        \* methods of interfaces, which can be hooked as well
  Declared,          \* the function that an internal method is inherited from,
                     \* or itself
  Implements,        \* the interface method of a user function, or Nothing
  SpanHooks,         \* pairs of hooks: pre opens a span, post ends it
  PostHooks,         \* post hooks alone, which open and end nothing
  Nothing,
  MaxDepth           \* bound: calls under way

ASSUME HooksAssumption ==
  /\ Declared \in [Internal -> Internal]
  /\ Implements \in [User -> Interfaces \cup {Nothing}]
  /\ MaxDepth \in Nat

VARIABLES
  replaced,   \* internal functions that have our handler
  originals,  \* keys with an original handler (InternalStorage_t)
  hooks,      \* the hooks of each key, in the order they were registered
  observer,   \* what the engine was told of each user function, or Nothing
  stack       \* the calls under way

hookVars == <<replaced, originals, hooks, observer, stack>>

Keys == Internal \cup User \cup Interfaces

HooksInit ==
  /\ replaced = {}
  /\ originals = {}
  /\ hooks = [k \in Keys |-> << >>]
  /\ observer = [f \in User |-> Nothing]
  /\ stack = << >>

(* getClassAndFunctionHashFromExecuteData: the class that declares it. *)
KeyOf(f) == IF f \in Internal THEN Declared[f] ELSE f

\* Mutant of ClearHooks: the original handlers go with the hooks.
ClearHooksAndHandlers ==
  /\ hooks' = [k \in Keys |-> << >>]
  /\ observer' = [f \in User |-> Nothing]
  /\ stack' = << >>
  /\ originals' = {}
  /\ UNCHANGED replaced

(* A request starts; the engine's run-time caches start empty as well. *)
ClearHooks ==
  /\ hooks' = [k \in Keys |-> << >>]
  /\ observer' = [f \in User |-> Nothing]
  /\ stack' = << >>
  /\ UNCHANGED <<replaced, originals>>

(* instrumentFunction: the original handler is kept under the key of the   *)
(* class that the hook names, which a call of an inherited method does not *)
(* look under.                                                             *)
InstrumentFunction(k, h) ==
  /\ hooks' = [hooks EXCEPT ![k] = Append(@, h)]
  /\ IF k \in Internal \ replaced
     THEN replaced' = replaced \cup {k} /\ originals' = originals \cup {k}
     ELSE UNCHANGED <<replaced, originals>>
  /\ UNCHANGED <<observer, stack>>

(* A call: handled is what runs of its hooks, pres how many pre hooks did. *)
Frame(f, handled, stage) ==
  [fn |-> f, handled |-> handled, stage |-> stage, next |-> 1, pres |-> 0,
   ran |-> stage = "body"]

Push(frame) ==
  /\ Len(stack) < MaxDepth
  /\ stack # << >> => Last(stack).stage = "body"
  /\ stack' = Append(stack, frame)

(* internal_function_handler, where it is installed. *)
CallInternal(f, functional) ==
  /\ Push(CASE f \notin replaced                            -> Frame(f, {}, "body")
            [] f \in replaced /\ KeyOf(f) \notin originals  -> Frame(f, {}, "done")
            [] f \in replaced /\ KeyOf(f) \in originals
                 -> IF functional /\ hooks[KeyOf(f)] # << >>
                    THEN Frame(f, {"pre", "post"}, "pre")
                    ELSE Frame(f, {}, "body"))
  /\ UNCHANGED <<replaced, originals, hooks, observer>>

(* elasticRegisterObserver at the first call: the hooks of an interface    *)
(* are copied to the implementation, unless it has hooks of its own.       *)
Observed(f) ==
  IF hooks[f] = << >> /\ Implements[f] # Nothing
  THEN hooks[Implements[f]]
  ELSE hooks[f]

Handlers(list) ==
  {s \in {"pre", "post"} :
     list # << >> /\ (s = "pre" => ToSet(list) \cap SpanHooks # {})}

CallUser(f) ==
  LET handled == IF observer[f] = Nothing THEN Handlers(Observed(f)) ELSE observer[f]
  IN
  /\ Push(Frame(f, handled, IF "pre" \in handled THEN "pre" ELSE "body"))
  /\ observer' = [observer EXCEPT ![f] = handled]
  /\ hooks' = IF observer[f] = Nothing
              THEN [hooks EXCEPT ![f] = Observed(f)]
              ELSE hooks
  /\ UNCHANGED <<replaced, originals>>

TopCall == Last(stack)
HooksOf(frame) == hooks[KeyOf(frame.fn)]
SetTop(frame) == stack' = Append(Front(stack), frame)

OnlyStack == UNCHANGED <<replaced, originals, hooks, observer>>

(* The next pre hook of the call. *)
PreHook ==
  /\ stack # << >>
  /\ TopCall.stage = "pre"
  /\ TopCall.next <= Len(HooksOf(TopCall))
  /\ SetTop([TopCall EXCEPT !.next = @ + 1])
  /\ OnlyStack

(* They have all run, and the function itself is entered. *)
Enter ==
  /\ stack # << >>
  /\ TopCall.stage = "pre"
  /\ TopCall.next > Len(HooksOf(TopCall))
  /\ SetTop([TopCall EXCEPT !.stage = "body", !.ran = TRUE, !.next = 1,
                            !.pres = Len(HooksOf(TopCall))])
  /\ OnlyStack

(* The function is over, by an exception too. *)
Return ==
  /\ stack # << >>
  /\ TopCall.stage = "body"
  /\ SetTop([TopCall EXCEPT !.stage = IF "post" \in TopCall.handled THEN "post" ELSE "done"])
  /\ OnlyStack

(* The next post hook, in the order of the pre hooks.  The list is read as *)
(* it is now: it may have grown during the call.                           *)
PostHook ==
  /\ stack # << >>
  /\ TopCall.stage = "post"
  /\ TopCall.next <= Len(HooksOf(TopCall))
  /\ SetTop([TopCall EXCEPT !.next = @ + 1])
  /\ OnlyStack

(* The call is over, hooks included: control goes back to the caller. *)
Leave ==
  /\ stack # << >>
  /\ \/ TopCall.stage = "done"
     \/ TopCall.stage = "post" /\ TopCall.next > Len(HooksOf(TopCall))
  /\ stack' = Front(stack)
  /\ OnlyStack

(* A fatal error.  elastic_execute_internal, where it is installed, stops  *)
(* it at the innermost internal function and lets the script go on; the    *)
(* handler has passed it on, so no post hook of that function runs.        *)
BailoutStopped(i) ==
  /\ i \in DOMAIN stack
  /\ stack[i].fn \in Internal
  /\ \A j \in i + 1..Len(stack) : stack[j].fn \in User
  /\ TopCall.stage = "body"
  /\ stack' = Append(SubSeq(stack, 1, i - 1), [stack[i] EXCEPT !.stage = "done"])
  /\ OnlyStack

(* Nothing stops it: the script is over, and the engine runs what is left  *)
(* of the post hooks of user functions.                                    *)
Bailout ==
  LET users == {i \in DOMAIN stack : stack[i].fn \in User}
      left == 1..Cardinality(users)
  IN
  /\ stack # << >>
  /\ TopCall.stage = "body"
  /\ \E place \in [left -> users] :
        /\ \A i, j \in left : i < j => place[i] < place[j]
        /\ stack' = [i \in left |-> stack[place[i]]]
  /\ OnlyStack

-----------------------------------------------------------------------------
(* Properties.                                                             *)

HooksTypeOK ==
  /\ replaced \subseteq Internal
  /\ originals \subseteq Internal
  /\ hooks \in [Keys -> Seq(SpanHooks \cup PostHooks)]
  /\ Len(stack) <= MaxDepth
  /\ \A i \in DOMAIN stack :
       /\ stack[i].fn \in Internal \cup User
       /\ i < Len(stack) => stack[i].stage = "body"
       /\ stack[i].stage \in {"pre", "post"} =>
            stack[i].next \in 1..Len(HooksOf(stack[i])) + 1

(* A function that is called runs, whatever was hooked, in this request or *)
(* in an earlier one of the process, and whether or not the request is     *)
(* instrumented.  The exception is an internal method that was hooked by   *)
(* the name of a class that only inherits it.                              *)
CalledRuns ==
  \A i \in DOMAIN stack :
    LET f == stack[i].fn IN
    stack[i].stage \in {"post", "done"} =>
      stack[i].ran \/ (f \in Internal /\ Declared[f] # f)
=============================================================================
