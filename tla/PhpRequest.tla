----------------------------- MODULE PhpRequest -----------------------------
(***************************************************************************)
(* RequestScope with the PHP code that one worker, Traced, runs: scripts   *)
(* that call functions, the hooks of those functions, the stack traces     *)
(* that inferred spans are made of, and the root span around it all.  The  *)
(* traces of these requests are sampled: what the spans of a request do    *)
(* that the sampler of the SDK refuses is left out.                        *)
(***************************************************************************)
EXTENDS RequestScope, FunctionHooks, InferredSpansPhp

CONSTANTS
  Traced       \* the worker whose scripts are modelled
               \* an element of Starts has a field php as well: the budget of
               \* a request and the options, [calls, hooks, traces, reduction,
               \* minDuration]

ASSUME PhpStartsAssumption ==
  \A s \in Starts :
    /\ {"calls", "hooks", "traces"} \subseteq DOMAIN s.php
    /\ \A what \in {"calls", "hooks", "traces"} : s.php[what] \in Nat
    /\ s.php.reduction \in BOOLEAN
    /\ s.php.minDuration \in Nat

VARIABLES
  tracing,
  root,        \* the root span: "none", "open" or "over"
  crossed,     \* history: a scope may have been ended by another owner
  budget       \* bound: calls, hooks and traces left in this request

spanVars == <<tracing, root, crossed>>
phpVars == <<hookVars, spanVars, budget>>

PhpInit ==
  /\ RequestScopeInit
  /\ HooksInit
  /\ tracing = NoTracing
  /\ root = "none"
  /\ crossed = FALSE
  /\ budget = start.php

Forget ==
  /\ tracing' = NoTracing
  /\ root' = "none"
  /\ crossed' = FALSE
  /\ budget' = start.php

-----------------------------------------------------------------------------
(* The hooks of a request that concern PHP code.                           *)

PhpRequestInit == RequestInit(Traced) /\ ClearHooks /\ Forget

(* The bootstrap sequence: the root span, if it is enabled and the URL is  *)
(* not excluded, and then InferredSpans, if it is on by now.               *)
PhpBootstrapped(spans, complete) ==
  /\ Bootstrapped(Traced)
  /\ complete \/ ~spans
  /\ LET inferred == [NoTracing EXCEPT
           !.shutdown = ~(complete /\ conf[Traced].snapshot.infer),
           !.reduction = start.php.reduction, !.minDuration = start.php.minDuration]
     IN tracing' = IF spans THEN StartSpan(inferred, "root", Nothing, NoSpan, 0)
                   ELSE inferred
  /\ root' = IF spans THEN "open" ELSE "none"
  /\ UNCHANGED <<hookVars, crossed, budget>>

(* The script is over, its shutdown functions included. *)
PhpRequestShutdown ==
  /\ stack = << >>
  /\ root # "open"
  /\ RequestShutdown(Traced)
  /\ UNCHANGED phpVars

(* The statics of PHP classes go, and with them everything traced. *)
PhpPostDeactivate ==
  /\ PostDeactivate(Traced)
  /\ Forget
  /\ UNCHANGED hookVars

(* A process that ends takes its handlers along. *)
PhpGone ==
  /\ WorkerExits(Traced) \/ WorkerKilled(Traced)
  /\ replaced' = {}
  /\ originals' = {}
  /\ hooks' = [k \in Keys |-> << >>]
  /\ observer' = [f \in User |-> Nothing]
  /\ stack' = << >>
  /\ Forget

Elsewhere ==
  /\ \/ Coordinator
     \/ MinitDone
     \/ \E p \in Procs \ {Traced} : RequestNext(p)
     \/ \E w \in Workers : ForkWorker(w)
     \/ \E w \in Workers \ {Traced} : WorkerExits(w) \/ WorkerKilled(w)
     \/ Trigger(Traced)
     \/ Configured(Traced)
     \/ OneTimeTaskRead(Traced)
     \/ OneTimeTaskClaim(Traced)
     \/ NotBootstrapped(Traced)
     \/ EntryPointRefused(Traced)
  /\ UNCHANGED phpVars

-----------------------------------------------------------------------------
(* The script.                                                             *)

Running == at[Traced] = "serving" /\ root # "over"

Spend(what) ==
  /\ budget[what] > 0
  /\ budget' = [budget EXCEPT ![what] = @ - 1]

InScript == stack # << >> => TopCall.stage = "body"

ScriptHooks(k, h) ==
  /\ functional[Traced]
  /\ InScript
  /\ InstrumentFunction(k, h)
  /\ Spend("hooks")
  /\ UNCHANGED spanVars

ScriptCalls(f) ==
  /\ IF f \in Internal THEN CallInternal(f, functional[Traced]) ELSE CallUser(f)
  /\ Spend("calls")
  /\ UNCHANGED spanVars

HookNow == HooksOf(TopCall)[TopCall.next]

(* debugPreHook, and the pre hooks of instrumentations. *)
ScriptPreHook ==
  /\ PreHook
  /\ tracing' = IF HookNow \in SpanHooks
                THEN StartSpan(tracing, "hook", TopCall.fn, Current(tracing), tracing.now)
                ELSE tracing
  /\ UNCHANGED <<root, crossed, budget>>

(* debugPostHook, and the post hooks of instrumentations: they end the     *)
(* span of the newest scope, taking it for the one of their pre hook.      *)
ScriptPostHook ==
  /\ PostHook
  /\ IF HookNow \in SpanHooks /\ tracing.scopes # << >>
     THEN /\ tracing' = EndTop(tracing)
          /\ crossed' = (crossed \/ TopCall.next > TopCall.pres)
     ELSE UNCHANGED <<tracing, crossed>>
  /\ UNCHANGED <<root, budget>>

ScriptSteps == (Enter \/ Return \/ Leave) /\ UNCHANGED <<spanVars, budget>>

HookScopes == {s \in ToSet(tracing.scopes) : tracing.spans[s].kind = "hook"}

(* After a fatal error that is not stopped, no code of the script runs. *)
ScriptBailsOut ==
  /\ \/ /\ LocalInfer
        /\ \E i \in DOMAIN stack : BailoutStopped(i)
        /\ UNCHANGED budget
     \/ /\ LocalInfer => \A i \in DOMAIN stack : stack[i].fn \in User
        /\ Bailout
        /\ budget' = [budget EXCEPT !["calls"] = 0, !["hooks"] = 0, !["traces"] = 0]
  /\ crossed' = (crossed \/ HookScopes # {})
  /\ UNCHANGED <<tracing, root>>

(* Whose code is interrupted: an internal function that has just returned, *)
(* in a script or in a hook; PHP code of a script, or of a hook, in the    *)
(* closure itself or in what it calls.                                     *)
Interrupted(internal, filtered) ==
  CASE stack = << >>              -> ~internal /\ ~filtered
    [] TopCall.stage = "done"     -> TopCall.fn \in Internal /\ internal /\ ~filtered
    [] TopCall.stage = "body"     -> TopCall.fn \in User /\ ~internal /\ ~filtered
    [] OTHER                      -> internal => filtered

(* The hooks of the engine are there when the option was set at MINIT. *)
ScriptIsTraced(dur, internal, filtered, collected) ==
  /\ LocalInfer
  /\ resumed[Traced]
  /\ Interrupted(internal, filtered)
  /\ Spend("traces")
  /\ tracing' = CaptureStackTrace(
                  [tracing EXCEPT !.garbage = IF collected THEN {} ELSE @],
                  [i \in DOMAIN stack |-> stack[i].fn], dur, internal, filtered)
  /\ crossed' = (crossed \/ HookScopes # {})
  /\ UNCHANGED <<hookVars, root>>

\* Mutant of EndRootSpan: notifySpanEnded is not called.
EndRootSpanAlone ==
  /\ root = "open"
  /\ stack = << >>
  /\ root' = "over"
  /\ tracing' = IF tracing.scopes = << >> THEN tracing ELSE EndTop(tracing)
  /\ UNCHANGED <<hookVars, crossed, budget>>

(* shutdownHandler, after notifySpanEnded. *)
EndRootSpan ==
  /\ root = "open"
  /\ stack = << >>
  /\ root' = "over"
  /\ LET t == IF tracing.shutdown THEN tracing ELSE Shutdown(tracing)
     IN tracing' = IF t.scopes = << >> THEN t ELSE EndTop(t)
  /\ UNCHANGED <<hookVars, crossed, budget>>

Script ==
  /\ Running
  /\ \/ \E k \in Keys, h \in SpanHooks \cup PostHooks : ScriptHooks(k, h)
     \/ \E f \in Internal \cup User : ScriptCalls(f)
     \/ ScriptPreHook
     \/ ScriptPostHook
     \/ ScriptSteps
     \/ ScriptBailsOut
     \/ \E dur \in 0..1, internal, filtered, collected \in BOOLEAN :
           ScriptIsTraced(dur, internal, filtered, collected)
     \/ EndRootSpan
  /\ UNCHANGED requestVars

PhpNext ==
  \/ PhpRequestInit
  \/ \E spans, complete \in BOOLEAN : PhpBootstrapped(spans, complete)
  \/ PhpRequestShutdown
  \/ PhpPostDeactivate
  \/ PhpGone
  \/ Elsewhere
  \/ Script

(* Fairness is that of RequestScope. *)
PhpSpec ==
  /\ PhpInit
  /\ [][PhpNext]_<<requestVars, phpVars>>
  /\ \A p \in Procs : WF_requestVars(Trigger(p))
  /\ WF_requestVars(Coordinator /\ (StoreLock \/ StoreConfigFiles \/ StoreThrows))

-----------------------------------------------------------------------------
(* Properties.                                                             *)

(* The types, and how the parts lie on each other: the scopes are those of *)
(* the root, of hooks under way, and of the last stack trace in its order; *)
(* spans on a scope are open.                                              *)
PhpTypeOK ==
  /\ HooksTypeOK
  /\ root \in {"none", "open", "over"}
  /\ \A what \in {"calls", "hooks", "traces"} : budget[what] \in 0..start.php[what]
  /\ \A s \in DOMAIN tracing.spans : tracing.spans[s].parent \in 0..s - 1
  /\ ~crossed =>
       /\ \A s \in ToSet(tracing.scopes) : tracing.spans[s].state = "open"
       /\ {s \in ToSet(tracing.scopes) : tracing.spans[s].kind = "inferred"}
            = {tracing.last[i].span : i \in DOMAIN tracing.last}
       /\ \A i, j \in DOMAIN tracing.scopes :
            i < j => tracing.scopes[i] < tracing.scopes[j]
       /\ \A i, j \in DOMAIN tracing.last :
            i < j => tracing.last[j].span < tracing.last[i].span

AfterScript == at[Traced] \in {"serving", "closing"} /\ root = "over"

(* When the root span of a sampled request is over, every span of the      *)
(* request has been ended or dropped, and no scope is left, unless a stack *)
(* trace was taken or an error met while the span of a hook was open, or a *)
(* post hook ran without its pre hook.  Of a request that is not sampled   *)
(* it would be false: its spans do not record, endFrameSpan returns at its *)
(* test of their class (InferredSpans.php:407-410), and the scopes of the  *)
(* frames stay attached.                                                   *)
SpansEnded ==
  AfterScript /\ ~crossed =>
    /\ tracing.scopes = << >>
    /\ \A s \in DOMAIN tracing.spans : tracing.spans[s].state # "open"

Exported == {s \in DOMAIN tracing.spans : tracing.spans[s].state = "ended"}

(* No exported span hangs below one that was dropped, for the reduction    *)
(* moves the spans it keeps and a span too short has none in it but those  *)
(* of hooks.                                                               *)
NoOrphan ==
  AfterScript /\ ~crossed =>
    \A s \in Exported :
      LET parent == tracing.spans[s].parent IN
      \/ parent = NoSpan
      \/ parent \in Exported
      \/ tracing.minDuration > 0 /\ tracing.spans[s].kind = "hook"

(* "reduces the number of spans by eliminating preceding frames with the   *)
(* same execution time".                                                   *)
Reduced ==
  AfterScript /\ ~crossed /\ tracing.reduction =>
    \A s, u \in Exported :
      LET a == tracing.spans[s]
          b == tracing.spans[u]
      IN a.kind = "inferred" /\ b.kind = "inferred" /\ s # u =>
           a.from # b.from \/ a.until # b.until

(* Every request has its root span, whatever happened within it: when the  *)
(* handler that ends it has run, it has ended.                             *)
RootEnds ==
  AfterScript => \A s \in DOMAIN tracing.spans :
    tracing.spans[s].kind = "root" => tracing.spans[s].state = "ended"
=============================================================================
