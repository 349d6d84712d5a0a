--------------------------- MODULE LayerSettings ---------------------------
(***************************************************************************)
(* The settings of the timeout and retry layers: the checks a SET passes   *)
(* (duckdb_opendalfs_extension.cpp) and                                    *)
(* OpenDALLayerOptions::FromSettings (opendal_layer_options.cpp), which    *)
(* reads them one at a time while other connections may change them with   *)
(* SET GLOBAL.                                                             *)
(*                                                                         *)
(* retry_factor and retry_jitter are left out: no property tells their     *)
(* values apart.                                                           *)
(***************************************************************************)
EXTENDS Naturals, Sequences

CONSTANTS
  Calls,          \* calls of FromSettings
  MaxWord,        \* the largest uint64_t
  NanosPerMilli,  \* 1000000: OpenDAL counts durations in nanoseconds
  Default         \* the DEFAULT_ constants of opendal_config.hpp

Layers == {"timeout", "retry"}
Milliseconds == {"timeout_ms", "io_timeout_ms", "min_delay_ms", "max_delay_ms"}
Numbers == Milliseconds \cup {"max_times"}

LayerOf(name) ==
  IF name \in {"timeout_ms", "io_timeout_ms"} THEN "timeout" ELSE "retry"

\* MAX_OPENDAL_LAYER_MILLISECONDS
MaxMilliseconds == MaxWord \div NanosPerMilli

\* Faulty variant of Accepted: only zero is refused.
AcceptedPositive(name) == 1 .. MaxWord

\* ValidatePositiveMilliseconds and ValidateRetryMaxTimes: what a SET may store.
Accepted(name) ==
  1 .. (IF name \in Milliseconds THEN MaxMilliseconds ELSE MaxWord)

Options == [enabled : [Layers -> BOOLEAN], value : [Numbers -> 1 .. MaxWord]]

DelaysAgree(options) == options.value["min_delay_ms"] <= options.value["max_delay_ms"]

ASSUME SettingsAssumption ==
  /\ MaxWord \in Nat
  /\ NanosPerMilli \in Nat \ {0}
  /\ Default \in Options
  /\ \A name \in Milliseconds : Default.value[name] * NanosPerMilli <= MaxWord
  /\ DelaysAgree(Default)

VARIABLES
  setting,  \* the values in force
  call      \* how far each call has come

vars == <<setting, call>>

(***************************************************************************)
(* A call: whether it has an opener_p, the number of the setting it reads  *)
(* next, the result so far, and two history fields: quiet, no SET since it *)
(* began; steady, the settings agreed when it began and after every SET,   *)
(* and none lowered max_delay_ms.                                          *)
(***************************************************************************)
CallState ==
  [phase : {"idle", "reading", "built", "threw"}, opener : BOOLEAN,
   next : 1 .. 8, result : Options, quiet : BOOLEAN, steady : BOOLEAN]

TypeOK ==
  /\ setting \in Options
  /\ \A name \in Milliseconds : setting.value[name] * NanosPerMilli <= MaxWord
  /\ call \in [Calls -> CallState]

Init ==
  /\ setting = Default
  /\ call \in [Calls -> {[phase |-> "idle", opener |-> o, next |-> 1,
                          result |-> Default, quiet |-> TRUE, steady |-> TRUE] :
                           o \in BOOLEAN}]

-----------------------------------------------------------------------------
\* The calls, and what they have seen, once the settings are new.
Watching(new) ==
  [c \in Calls |->
     [call[c] EXCEPT
        !.quiet = FALSE,
        !.steady = @ /\ DelaysAgree(new)
                     /\ setting.value["max_delay_ms"] <= new.value["max_delay_ms"]]]

Change(new) == setting' = new /\ call' = Watching(new)

\* SET of a layer's switch.
Switch(layer, on) == Change([setting EXCEPT !.enabled[layer] = on])

\* SET of a number that its check lets pass; the checks look at no other setting.
Set(name, n) == n \in Accepted(name) /\ Change([setting EXCEPT !.value[name] = n])

Start(c) ==
  /\ call[c].phase = "idle"
  /\ call' = [call EXCEPT ![c].phase = "reading", ![c].quiet = TRUE,
                          ![c].steady = DelaysAgree(setting)]
  /\ UNCHANGED setting

\* Faulty variant of ReadOrder: the greater delay is read before the smaller.
ReadMaxFirst ==
  <<"timeout", "timeout_ms", "io_timeout_ms",
    "retry", "max_times", "max_delay_ms", "min_delay_ms">>

ReadOrder ==
  <<"timeout", "timeout_ms", "io_timeout_ms",
    "retry", "max_times", "min_delay_ms", "max_delay_ms">>

Reads(c, name) ==
  /\ call[c].phase = "reading"
  /\ call[c].next <= 7
  /\ name = ReadOrder[call[c].next]

\* Without an opener_p the default stays.
InForce(c) == IF call[c].opener THEN setting ELSE call[c].result

ReadSwitch(c) ==
  \E layer \in Layers :
    /\ Reads(c, layer)
    /\ call' = [call EXCEPT ![c].next = @ + 1,
                            ![c].result.enabled[layer] = InForce(c).enabled[layer]]
    /\ UNCHANGED setting

\* Faulty variant of ReadNumber: both timeouts are read from one setting.
ReadTimeoutTwice(c) ==
  \E name \in Numbers :
    LET from == IF name = "io_timeout_ms" THEN "timeout_ms" ELSE name IN
    /\ Reads(c, name)
    /\ call[c].result.enabled[LayerOf(name)]
    /\ call' = [call EXCEPT ![c].next = @ + 1,
                            ![c].result.value[name] = InForce(c).value[from]]
    /\ UNCHANGED setting

ReadNumber(c) ==
  \E name \in Numbers :
    /\ Reads(c, name)
    /\ call[c].result.enabled[LayerOf(name)]
    /\ call' = [call EXCEPT ![c].next = @ + 1,
                            ![c].result.value[name] = InForce(c).value[name]]
    /\ UNCHANGED setting

\* The settings of a layer that is off are not read.
SkipNumber(c) ==
  \E name \in Numbers :
    /\ Reads(c, name)
    /\ ~call[c].result.enabled[LayerOf(name)]
    /\ call' = [call EXCEPT ![c].next = @ + 1]
    /\ UNCHANGED setting

\* Faulty variant of Conflict: the delays are not compared.
NeverConflict(options) == FALSE

Conflict(options) == options.enabled["retry"] /\ ~DelaysAgree(options)

Return(c) ==
  /\ call[c].phase = "reading"
  /\ call[c].next = 8
  /\ call' = [call EXCEPT
                ![c].phase = IF Conflict(call[c].result) THEN "threw" ELSE "built"]
  /\ UNCHANGED setting

Next ==
  \/ \E layer \in Layers, on \in BOOLEAN : Switch(layer, on)
  \/ \E name \in Numbers, n \in 0 .. MaxWord : Set(name, n)
  \/ \E c \in Calls :
       \/ Start(c)
       \/ ReadSwitch(c) \/ ReadNumber(c) \/ SkipNumber(c)
       \/ Return(c)

Spec == Init /\ [][Next]_vars

-----------------------------------------------------------------------------
Usable(options) ==
  /\ options.enabled["timeout"] =>
       \A name \in {"timeout_ms", "io_timeout_ms"} :
         options.value[name] * NanosPerMilli \in 1 .. MaxWord
  /\ options.enabled["retry"] =>
       /\ DelaysAgree(options)
       /\ \A name \in {"min_delay_ms", "max_delay_ms"} :
            options.value[name] * NanosPerMilli \in 1 .. MaxWord

\* However SETs and reads interleave, and though two SETs may leave delays that
\* disagree, no operator is given a timeout of zero, a duration whose nanoseconds
\* overflow, or a smallest delay above the greatest.
BuiltIsUsable == \A c \in Calls : call[c].phase = "built" => Usable(call[c].result)

\* What FromSettings returns if nobody changes a setting meanwhile.
Snapshot(options) ==
  [enabled |-> options.enabled,
   value |-> [name \in Numbers |->
                IF options.enabled[LayerOf(name)] THEN options.value[name]
                ELSE Default.value[name]]]

\* A call no SET came between returns the settings in force, and throws only if
\* they conflict; without an opener_p it returns the defaults.
QuietCallExact ==
  \A c \in Calls :
    LET given == IF call[c].opener THEN Snapshot(setting) ELSE Default IN
    call[c].quiet =>
      /\ call[c].phase = "built" => call[c].result = given
      /\ call[c].phase = "threw" => Conflict(given)

\* The delays are read one after the other, so that a call may see a pair that was
\* never in force.  It does not fail for that while max_delay_ms is only raised:
\* the smaller delay is read first.
SteadyCallSucceeds == \A c \in Calls : call[c].steady => call[c].phase # "threw"
=============================================================================
