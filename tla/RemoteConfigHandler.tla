------------------------- MODULE RemoteConfigHandler -------------------------
(***************************************************************************)
(* RemoteConfigHandler.php: what the PHP part does, once per request, with *)
(* the options of the remote configuration file.  An option's value is a   *)
(* JSON value [type, text]; an environment maps the variables that the     *)
(* OTel SDK reads to values or to Unset.                                   *)
(***************************************************************************)
EXTENDS FiniteSets

Unset == "unset"
Ratio == "parentbased_traceidratio"
None  == "none"

Value(type, text) == [type |-> type, text |-> text]

IsString(v) == v.type = "string"

(* is_numeric and floatval; the rates are written in one way each. *)
Rates == {"0", "0.5", "1"}
IsRate(v) == v.type \in {"number", "string"} /\ v.text \in Rates

(* BoolUtil::parseValue, and a JSON boolean. *)
TrueWords == {"true", "yes", "on", "1"}
FalseWords == {"false", "no", "off", "0"}
SaysTrue(v) == v.type \in {"string", "bool"} /\ v.text \in TrueWords
SaysFalse(v) == v.type \in {"string", "bool"} /\ v.text \in FalseWords

Given(options, name) == name \in DOMAIN options

-----------------------------------------------------------------------------

LevelOf(word) ==
  CASE word \in {"trace", "debug"} -> "debug"
    [] word = "warn"               -> "warning"
    [] word = "fatal"              -> "critical"
    [] word = "off"                -> None
    [] OTHER                       -> word

LoggingLevels == {"trace", "debug", "info", "warn", "error", "fatal", "off"}

ApplyLoggingLevel(env, options) ==
  IF /\ Given(options, "logging_level")
     /\ IsString(options["logging_level"])
     /\ options["logging_level"].text \in LoggingLevels
  THEN [env EXCEPT !["level"] = LevelOf(options["logging_level"].text)]
  ELSE env

\* Mutant of ApplySamplingRate: whatever the local sampler is.
ApplySamplingRateAnySampler(env, options) ==
  IF Given(options, "sampling_rate") /\ IsRate(options["sampling_rate"])
  THEN [env EXCEPT !["sampler"] = Ratio,
                   !["rate"] = options["sampling_rate"].text]
  ELSE env

(* Only with the sampler that the rate is an argument of. *)
ApplySamplingRate(env, options) ==
  IF /\ Given(options, "sampling_rate")
     /\ IsRate(options["sampling_rate"])
     /\ env["sampler"] \in {Unset, Ratio}
  THEN [env EXCEPT !["sampler"] = Ratio,
                   !["rate"] = options["sampling_rate"].text]
  ELSE env

SignalOf == [send_logs |-> "logs", send_metrics |-> "metrics", send_traces |-> "traces"]

(* Sending can only be turned off. *)
ApplySendSignal(env, options) ==
  [v \in DOMAIN env |->
     IF \E name \in DOMAIN SignalOf :
           /\ SignalOf[name] = v
           /\ Given(options, name)
           /\ SaysFalse(options[name])
     THEN None
     ELSE env[v]]

(* The list is read from the key of the other option, and what is set is   *)
(* the remote list without the local one.                                  *)
ApplyDeactivateInstrumentations(env, options) ==
  LET allKey == "deactivate_all_instrumentations" IN
  IF Given(options, allKey) /\ SaysTrue(options[allKey])
  THEN [env EXCEPT !["disabled"] = "all"]
  ELSE IF /\ Given(options, "deactivate_instrumentations")
          /\ Given(options, allKey)
          /\ IsString(options[allKey])
          /\ options[allKey].text # ""
       THEN [env EXCEPT !["disabled"] = options[allKey].text]
       ELSE env

(* The options concern different variables, so their order is immaterial. *)
ParseAndApply(env, options) ==
  ApplyDeactivateInstrumentations(
    ApplySendSignal(
      ApplySamplingRate(
        ApplyLoggingLevel(env, options), options), options), options)
=============================================================================
