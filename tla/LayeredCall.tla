---------------------------- MODULE LayeredCall ----------------------------
(***************************************************************************)
(* One call of an operator through the layers that                         *)
(* OpenDALLayerOptions::ToOperatorOptions (opendal_layer_options.cpp)      *)
(* lists, each around those listed before it: which attempts are made, how *)
(* long they may take, and that the call ends though the service may never *)
(* answer.  Time is counted in ticks.                                      *)
(***************************************************************************)
EXTENDS Naturals, Sequences

CONSTANTS
  Options,  \* results of FromSettings, as LayerSettings builds them
  Horizon   \* bound: time is not counted further

Operations == {"control", "io"}

ASSUME CallAssumption ==
  /\ \A o \in Options :
       /\ o.enabled \in [{"timeout", "retry"} -> BOOLEAN]
       /\ \A name \in {"timeout_ms", "io_timeout_ms", "max_times",
                       "min_delay_ms", "max_delay_ms"} : o.value[name] \in Nat \ {0}
       /\ o.value["min_delay_ms"] <= o.value["max_delay_ms"]
  /\ Horizon \in Nat

VARIABLES
  options,  \* what the operator was built with
  call      \* the call

vars == <<options, call>>

(***************************************************************************)
(* A call: the operation it asks for, the attempts made, the ticks of the  *)
(* present attempt or delay, the length of that delay, and the ticks of    *)
(* all.                                                                    *)
(***************************************************************************)
Init ==
  /\ options \in Options
  /\ call \in [phase : {"idle"}, operation : Operations, attempts : {0},
               clock : {0}, delay : {0}, total : {0}]

-----------------------------------------------------------------------------
TimeoutLayer(o) ==
  IF o.enabled["timeout"]
  THEN <<[layer |-> "timeout", control |-> o.value["timeout_ms"],
          io |-> o.value["io_timeout_ms"]]>>
  ELSE <<>>

RetryLayer(o) ==
  IF o.enabled["retry"]
  THEN <<[layer |-> "retry", max_times |-> o.value["max_times"],
          min_delay |-> o.value["min_delay_ms"],
          max_delay |-> o.value["max_delay_ms"]]>>
  ELSE <<>>

\* Faulty variants of ToOperatorOptions: the retry layer comes first; the two
\* timeouts are swapped; max_times is passed as a count of attempts; the timeout
\* layer comes with the retry layer only.
RetryFirst(o) == RetryLayer(o) \o TimeoutLayer(o)

TimeoutsSwapped(o) ==
  [i \in DOMAIN TimeoutLayer(o) |->
     [TimeoutLayer(o)[i] EXCEPT !.control = o.value["io_timeout_ms"],
                                !.io = o.value["timeout_ms"]]] \o RetryLayer(o)

OneMoreAttempt(o) ==
  TimeoutLayer(o) \o
  [i \in DOMAIN RetryLayer(o) |-> [RetryLayer(o)[i] EXCEPT !.max_times = @ + 1]]

TimeoutWithRetry(o) ==
  IF o.enabled["retry"] THEN TimeoutLayer(o) \o RetryLayer(o) ELSE <<>>

ToOperatorOptions(o) == TimeoutLayer(o) \o RetryLayer(o)

-----------------------------------------------------------------------------
(* OpenDAL: what its layers do in their order. *)
Layers == ToOperatorOptions(options)

\* The positions of a layer: none or one.
At(layer) == {i \in DOMAIN Layers : Layers[i].layer = layer}

\* The ticks a timeout layer has counted: those of the attempt, or, around a retry
\* layer, those of the whole call.
Counted(i) ==
  IF \E j \in At("retry") : j < i THEN call.total
  ELSE IF call.phase = "attempt" THEN call.clock ELSE 0

Allowed(i) == IF call.operation = "io" THEN Layers[i].io ELSE Layers[i].control

Due(i) == call.phase \in {"attempt", "delay"} /\ Counted(i) >= Allowed(i)

\* The delays grow from min_delay to max_delay, and jitter adds up to min_delay.
Delays(i) == Layers[i].min_delay .. Layers[i].max_delay + Layers[i].min_delay

\* The attempt failed with an error worth another attempt.
FailedForNow ==
  IF \E i \in At("retry") : call.attempts <= Layers[i].max_times
  THEN \E i \in At("retry") : \E d \in Delays(i) :
         call' = [call EXCEPT !.phase = "delay", !.clock = 0, !.delay = d]
  ELSE call' = [call EXCEPT !.phase = "gave up"]

Start ==
  /\ call.phase = "idle"
  /\ call' = [call EXCEPT !.phase = "attempt", !.attempts = 1]
  /\ UNCHANGED options

\* The service answers, or with an error that is not temporary.
Answer ==
  /\ call.phase = "attempt"
  /\ \E phase \in {"returned", "threw"} : call' = [call EXCEPT !.phase = phase]
  /\ UNCHANGED options

\* The service answers with a temporary error.
AnswerTemporaryError ==
  /\ call.phase = "attempt"
  /\ FailedForNow
  /\ UNCHANGED options

\* A timeout passes, which is a temporary error of what it is around.
Expire ==
  /\ \E i \in At("timeout") :
       /\ Due(i)
       /\ IF \E j \in At("retry") : j < i
          THEN call' = [call EXCEPT !.phase = "gave up"]
          ELSE FailedForNow
  /\ UNCHANGED options

\* The delay is over.
Retry ==
  /\ call.phase = "delay"
  /\ call.clock = call.delay
  /\ call' = [call EXCEPT !.phase = "attempt", !.attempts = @ + 1, !.clock = 0]
  /\ UNCHANGED options

\* Time passes until a timer is due.
Tick ==
  /\ call.phase \in {"attempt", "delay"}
  /\ ~\E i \in At("timeout") : Due(i)
  /\ call.phase = "delay" => call.clock < call.delay
  /\ call.total < Horizon
  /\ call' = [call EXCEPT !.clock = @ + 1, !.total = @ + 1]
  /\ UNCHANGED options

Next == Start \/ Answer \/ AnswerTemporaryError \/ Expire \/ Retry \/ Tick

Spec == Init /\ [][Next]_vars

\* Time passes and timers fire; the service need not answer.
FairSpec == Spec /\ WF_vars(Expire) /\ WF_vars(Retry) /\ WF_vars(Tick)

-----------------------------------------------------------------------------
Ended == call.phase \in {"returned", "threw", "gave up"}

\* What the settings promise for an operation of this kind.
Timeout == options.value[IF call.operation = "io" THEN "io_timeout_ms" ELSE "timeout_ms"]

Attempts == IF options.enabled["retry"] THEN options.value["max_times"] + 1 ELSE 1

\* retry_max_times counts the delays: one more attempt is made, and never two.
TypeOK ==
  /\ options \in Options
  /\ call \in [phase : {"idle", "attempt", "delay", "returned", "threw", "gave up"},
               operation : Operations, attempts : 0 .. Attempts,
               clock : 0 .. Horizon, delay : Nat, total : 0 .. Horizon]

\* A call gives up over errors that are temporary only after all its attempts: a
\* slow attempt does not use up the time of the next.
GivesUpLast == call.phase = "gave up" => call.attempts = Attempts

\* With the timeout layer on, a call takes no longer than its attempts, each with
\* the timeout of its kind of operation, and the delays between them.
ElapsedBounded ==
  options.enabled["timeout"] =>
    call.total <= Attempts * Timeout
                    + (Attempts - 1) * (options.value["max_delay_ms"]
                                          + options.value["min_delay_ms"])

\* With the timeout layer on, a call that was started ends, though the service
\* answer nothing, ever.
CallEnds == options.enabled["timeout"] /\ call.phase = "attempt" ~> Ended
=============================================================================
