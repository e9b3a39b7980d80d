--------------------------- MODULE MCPhpRequest ---------------------------
(***************************************************************************)
(* PhpRequest for TLC: a master, two workers, the configurations that tell *)
(* the paths apart, and scripts of a few calls.                            *)
(***************************************************************************)
EXTENDS PhpRequest

CONSTANTS w1, w2, query, inherited, action, handle

Bool(text) == Value("bool", text)
Str(text) == Value("string", text)

(* A rate, inferred spans, and another file beside; everything off and a   *)
(* rate out of range; a word that infer_spans does not accept; a file that *)
(* cannot be parsed; an empty one; no file.                                *)
Sampled == [infer_spans |-> Bool("true"), sampling_rate |-> Value("number", "0.5"),
            logging_level |-> Str("warn"), send_traces |-> Bool("true")]
Off == [send_logs |-> Bool("false"), send_metrics |-> Str("off"),
        infer_spans |-> Str("false"), sampling_rate |-> Value("number", "2"),
        deactivate_all_instrumentations |-> Bool("true")]

Refused == [infer_spans |-> Str("on"), logging_level |-> Str("debug")]

Both == [elastic |-> Sampled, other |-> Empty]
OnlyOff == [elastic |-> Off]
OnlyRefused == [elastic |-> Refused]
Broken == [elastic |-> Malformed]
Blank == [elastic |-> Empty]

MCConfigs == {Both, OnlyOff, OnlyRefused, Broken, Blank, NoFiles}

(* Every two configurations in turn, equal ones included; and a refused    *)
(* word, which debug logging tells apart, after and before another file.   *)
Pairs == {<<c, d>> : c, d \in MCConfigs \ {OnlyRefused}}
RefusedPairs == {<<OnlyOff, OnlyRefused>>, <<OnlyRefused, Both>>}

Plain == [v \in Variables |-> Unset]

Fixed == [Plain EXCEPT !["sampler"] = "always_on", !["logs"] = None]
ByFile == [Plain EXCEPT !["config_file"] = "otel.yaml"]

Php(calls, hooked, traces, reduction, min) ==
  [calls |-> calls, hooks |-> hooked, traces |-> traces,
   reduction |-> reduction, minDuration |-> min]
NoScript == Php(0, 0, 0, FALSE, 0)

Start(preloads, local, configs, workers, deaths, php) ==
  [preload |-> preloads, env |-> local, debug |-> FALSE, script |-> configs,
   workers |-> workers, kills |-> deaths, php |-> php]

(* A refused word, with debug messages logged or not. *)
RefusedStarts ==
  {[Start(FALSE, Plain, pair, {w1}, 0, NoScript) EXCEPT !.debug = logged] :
      pair \in RefusedPairs, logged \in BOOLEAN}

(* One worker through every pair of configurations, with a death where the *)
(* first one sets something; two workers through the one that sets most.   *)
ConfigStarts ==
  {Start(TRUE, Plain, pair, {w1}, IF pair[1] = Both THEN 1 ELSE 0, NoScript) : pair \in Pairs}
    \cup {Start(FALSE, local, <<Both, OnlyOff>>, {w1}, 1, NoScript) : local \in {Fixed, ByFile}}
    \cup {Start(TRUE, Plain, <<Both>>, {w1, w2}, 0, NoScript)}
    \cup RefusedStarts

(* Scripts with hooks, with stack traces, and with both. *)
Scripted == {Php(2, 2, 0, TRUE, 0), Php(3, 0, 2, TRUE, 0), Php(2, 0, 2, FALSE, 3),
             Php(2, 1, 1, TRUE, 2)}

PhpStarts == {Start(FALSE, Plain, << >>, {w1}, 0, php) : php \in Scripted}

(* One hook, one call, no inferred spans. *)
HookedStarts == {Start(FALSE, Plain, << >>, {w1}, 0, Php(1, 1, 0, FALSE, 0))}

MCStarts == ConfigStarts \cup PhpStarts

MCScripts == {s.script : s \in MCStarts \cup HookedStarts}

MCDeclared == [f \in {query, inherited} |-> query]
MCImplements == [f \in {action} |-> handle]
=============================================================================
