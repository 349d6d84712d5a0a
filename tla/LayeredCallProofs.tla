-------------------------- MODULE LayeredCallProofs --------------------------
(***************************************************************************)
(* LayeredCall for every set of options that its assumption allows and     *)
(* any horizon: how many attempts a call makes, and how long it takes.     *)
(***************************************************************************)
EXTENDS LayeredCall, TLAPS

Names == {"timeout_ms", "io_timeout_ms", "max_times", "min_delay_ms", "max_delay_ms"}

\* The longest delay between two attempts.
Pause == options.value["max_delay_ms"] + options.value["min_delay_ms"]

\* The ticks of n attempts of at most t and m delays of at most p.
Budget(n, m, t, p) == n * t + m * p

-----------------------------------------------------------------------------
(* The layers *)

LEMMA OptionsTyped ==
  ASSUME options \in Options
  PROVE  /\ options.enabled["timeout"] \in BOOLEAN /\ options.enabled["retry"] \in BOOLEAN
         /\ \A name \in Names : options.value[name] \in Nat /\ options.value[name] >= 1
         /\ Timeout \in Nat /\ Pause \in Nat /\ Attempts \in Nat /\ Attempts >= 1
         /\ options.value["min_delay_ms"] <= options.value["max_delay_ms"]
<1>1. /\ options.enabled \in [{"timeout", "retry"} -> BOOLEAN]
      /\ \A name \in Names : options.value[name] \in Nat \ {0}
      /\ options.value["min_delay_ms"] <= options.value["max_delay_ms"]
  BY CallAssumption DEF Names
<1>2. \A name \in Names : options.value[name] \in Nat /\ options.value[name] >= 1
  BY <1>1
<1>3. Timeout \in Nat /\ Pause \in Nat /\ Attempts \in Nat /\ Attempts >= 1
  BY <1>2 DEF Names, Timeout, Pause, Attempts
<1> QED BY <1>1, <1>2, <1>3

\* The timeout layer is the first, and the retry layer, which comes last, is around it.
LEMMA LayersAre ==
  ASSUME options \in Options
  PROVE  /\ \A i \in At("timeout") :
              /\ i = 1 /\ options.enabled["timeout"]
              /\ Layers[i].control = options.value["timeout_ms"]
              /\ Layers[i].io = options.value["io_timeout_ms"]
         /\ options.enabled["timeout"] => 1 \in At("timeout")
         /\ \A i \in At("retry") :
              /\ options.enabled["retry"] /\ i \in Nat
              /\ i < 2 => ~options.enabled["timeout"]
              /\ i >= 1
              /\ Layers[i].max_times = options.value["max_times"]
              /\ Layers[i].min_delay = options.value["min_delay_ms"]
              /\ Layers[i].max_delay = options.value["max_delay_ms"]
         /\ options.enabled["retry"] => At("retry") # {}
<1> DEFINE t == [layer |-> "timeout", control |-> options.value["timeout_ms"],
                 io |-> options.value["io_timeout_ms"]]
           r == [layer |-> "retry", max_times |-> options.value["max_times"],
                 min_delay |-> options.value["min_delay_ms"],
                 max_delay |-> options.value["max_delay_ms"]]
<1>1. /\ t.layer = "timeout" /\ t.control = options.value["timeout_ms"]
      /\ t.io = options.value["io_timeout_ms"]
      /\ r.layer = "retry" /\ r.max_times = options.value["max_times"]
      /\ r.min_delay = options.value["min_delay_ms"]
      /\ r.max_delay = options.value["max_delay_ms"]
  OBVIOUS
<1>2. Layers = (IF options.enabled["timeout"] THEN <<t>> ELSE <<>>)
                 \o (IF options.enabled["retry"] THEN <<r>> ELSE <<>>)
  BY DEF Layers, ToOperatorOptions, TimeoutLayer, RetryLayer
<1> HIDE DEF t, r
<1>3. CASE options.enabled["timeout"] /\ options.enabled["retry"]
  <2>1. Layers = <<t>> \o <<r>> /\ <<t>> \in Seq({t, r}) /\ <<r>> \in Seq({t, r})
    BY <1>2, <1>3
  <2>2. Len(<<t>>) = 1 /\ <<t>>[1] = t /\ Len(<<r>>) = 1 /\ <<r>>[1] = r
    OBVIOUS
  <2>3. Len(Layers) = 2 /\ Layers \in Seq({t, r}) /\ Layers[1] = t /\ Layers[2] = r
    BY <2>1, <2>2
  <2>4. DOMAIN Layers = {1, 2} /\ Layers[1] = t /\ Layers[2] = r
    BY <2>3
  <2> QED BY <1>1, <1>3, <2>4 DEF At
<1>4. CASE options.enabled["timeout"] /\ ~options.enabled["retry"]
  <2>1. Layers = <<t>>
    BY <1>2, <1>4
  <2>2. DOMAIN Layers = {1} /\ Layers[1] = t
    BY <2>1
  <2> QED BY <1>1, <1>4, <2>2 DEF At
<1>5. CASE ~options.enabled["timeout"] /\ options.enabled["retry"]
  <2>1. Layers = <<r>>
    BY <1>2, <1>5
  <2>2. DOMAIN Layers = {1} /\ Layers[1] = r
    BY <2>1
  <2> QED BY <1>1, <1>5, <2>2 DEF At
<1>6. CASE ~options.enabled["timeout"] /\ ~options.enabled["retry"]
  <2>1. DOMAIN Layers = {}
    BY <1>2, <1>6
  <2> QED BY <1>6, <2>1 DEF At
<1> QED BY <1>3, <1>4, <1>5, <1>6

-----------------------------------------------------------------------------
(* The time attempts and delays may take *)

LEMMA Times == \A a, b, c \in Nat : a <= b => a * c <= b * c
OBVIOUS

LEMMA Budgets ==
  ASSUME NEW n \in Nat, NEW m \in Nat, NEW t \in Nat, NEW p \in Nat
  PROVE  /\ Budget(n, m, t, p) \in Nat
         /\ Budget(0, 0, t, p) = 0
         /\ Budget(n + 1, m, t, p) = Budget(n, m, t, p) + t
         /\ Budget(n, m + 1, t, p) = Budget(n, m, t, p) + p
         /\ \A k, l \in Nat :
              n <= k /\ m <= l => Budget(n, m, t, p) <= Budget(k, l, t, p)
<1>1. n * t \in Nat /\ m * p \in Nat /\ 0 * t + 0 * p = 0
  OBVIOUS
<1>2. (n + 1) * t = n * t + t /\ (m + 1) * p = m * p + p
  OBVIOUS
<1>3. ASSUME NEW k \in Nat, NEW l \in Nat, n <= k, m <= l
      PROVE  n * t + m * p <= k * t + l * p
  <2>1. n * t <= k * t /\ m * p <= l * p
    BY <1>3, Times
  <2>2. k * t \in Nat /\ l * p \in Nat
    OBVIOUS
  <2> QED BY <1>1, <2>1, <2>2
<1> QED BY <1>1, <1>2, <1>3 DEF Budget

-----------------------------------------------------------------------------
(* The invariant *)

\* What a call has done so far, in each phase.
AttemptsCounted ==
  /\ call.attempts <= Attempts
  /\ call.phase = "idle" <=> call.attempts = 0
  /\ call.phase = "delay" =>
       options.enabled["retry"] /\ call.attempts <= options.value["max_times"]
  /\ call.phase = "gave up" => call.attempts = Attempts

\* And how long it has taken, if attempts are timed: an attempt never longer than
\* its timeout, a delay never longer than it was chosen.
TimeCounted ==
  /\ call.phase = "idle" => call.total = 0
  /\ call.phase = "attempt" =>
       /\ call.clock <= Timeout
       /\ call.total <= Budget(call.attempts - 1, call.attempts - 1, Timeout, Pause) + call.clock
  /\ call.phase = "delay" =>
       /\ call.clock <= call.delay /\ call.delay <= Pause
       /\ call.total <= Budget(call.attempts, call.attempts - 1, Timeout, Pause) + call.clock
  /\ Ended => call.total <= Budget(call.attempts, call.attempts - 1, Timeout, Pause)

IInv ==
  /\ TypeOK
  /\ call.clock <= call.total
  /\ AttemptsCounted
  /\ options.enabled["timeout"] => TimeCounted

\* The calls TypeOK speaks of, with their attempts unbounded.
CallRecord ==
  [phase : {"idle", "attempt", "delay", "returned", "threw", "gave up"},
   operation : Operations, attempts : Nat, clock : 0 .. Horizon, delay : Nat,
   total : 0 .. Horizon]

LEMMA Counters ==
  ASSUME options \in Options, call \in CallRecord
  PROVE  /\ call.attempts \in Nat /\ call.clock \in Nat /\ call.total \in Nat
         /\ call.delay \in Nat /\ Horizon \in Nat
         /\ Timeout \in Nat /\ Pause \in Nat /\ Attempts \in Nat /\ Attempts >= 1
         /\ options.value["max_times"] \in Nat
<1>1. Horizon \in Nat
  BY CallAssumption
<1>2. options.value["max_times"] \in Nat
  BY OptionsTyped DEF Names
<1>3. /\ call.attempts \in Nat /\ call.clock \in 0 .. Horizon
      /\ call.total \in 0 .. Horizon /\ call.delay \in Nat
  BY DEF CallRecord
<1>4. call.clock \in Nat /\ call.total \in Nat
  BY <1>1, <1>3
<1>5. Timeout \in Nat /\ Pause \in Nat /\ Attempts \in Nat /\ Attempts >= 1
  BY OptionsTyped
<1> QED BY <1>1, <1>2, <1>3, <1>4, <1>5

\* What an invariant call is.
LEMMA TypedCall ==
  ASSUME IInv
  PROVE  options \in Options /\ call \in CallRecord /\ call.attempts <= Attempts
<1>1. options \in Options
  BY DEF IInv, TypeOK
<1>2. Attempts \in Nat
  BY <1>1, OptionsTyped
<1>3. 0 .. Attempts \subseteq Nat /\ \A n \in 0 .. Attempts : n <= Attempts
  BY <1>2
<1>4. call.attempts \in 0 .. Attempts
  BY DEF IInv, TypeOK
<1>5. call \in CallRecord
  BY <1>3 DEF IInv, TypeOK, CallRecord
<1> QED BY <1>1, <1>3, <1>4, <1>5

\* What a step that leaves the options alone leaves alone.
LEMMA SameOptions ==
  ASSUME UNCHANGED options, call'.operation = call.operation
  PROVE  Attempts' = Attempts /\ Timeout' = Timeout /\ Pause' = Pause
BY DEF Attempts, Timeout, Pause

LEMMA NextTyped ==
  ASSUME options \in Options, UNCHANGED options, call'.operation = call.operation,
         call' \in CallRecord, call'.attempts <= Attempts
  PROVE  TypeOK'
<1>1. Attempts' = Attempts /\ Attempts \in Nat
  BY SameOptions, OptionsTyped
<1>2. call'.attempts \in Nat
  BY DEF CallRecord
<1>3. call'.attempts \in 0 .. Attempts
  BY <1>1, <1>2
<1> QED BY <1>1, <1>3 DEF TypeOK, CallRecord

LEMMA InitInv == Init => IInv
<1> SUFFICES ASSUME Init PROVE IInv
  OBVIOUS
<1>1. /\ options \in Options /\ call.phase = "idle" /\ call.attempts = 0
      /\ call.clock = 0 /\ call.total = 0
  BY DEF Init
<1>2. Attempts \in Nat /\ Horizon \in Nat
  BY <1>1, OptionsTyped, CallAssumption
<1>3. 0 \in 0 .. Attempts /\ 0 \in 0 .. Horizon /\ call.attempts <= Attempts
  BY <1>1, <1>2
<1>4. TypeOK
  <2>1. call \in [phase : {"idle"}, operation : Operations, attempts : {0},
                 clock : {0}, delay : {0}, total : {0}]
    BY DEF Init
  <2>2. /\ {0} \subseteq 0 .. Attempts /\ {0} \subseteq 0 .. Horizon /\ {0} \subseteq Nat
        /\ "idle" \in {"idle", "attempt", "delay", "returned", "threw", "gave up"}
    BY <1>3
  <2>3. call \in [phase : {"idle", "attempt", "delay", "returned", "threw", "gave up"},
                  operation : Operations, attempts : 0 .. Attempts,
                  clock : 0 .. Horizon, delay : Nat, total : 0 .. Horizon]
    BY <2>1, <2>2
  <2> QED BY <1>1, <2>3 DEF TypeOK
<1> QED BY <1>1, <1>3, <1>4 DEF IInv, AttemptsCounted, TimeCounted, Ended

-----------------------------------------------------------------------------
(* Steps.  An attempt is made: how long the call has taken until it ends. *)

\* The budget of n attempts and n - 1 delays, once one of them has ended.
LEMMA AttemptWithin ==
  ASSUME IInv, call.phase = "attempt", options.enabled["timeout"]
  PROVE  call.total <= Budget(call.attempts, call.attempts - 1, Timeout, Pause)
<1> DEFINE n == call.attempts - 1
<1>1. /\ options \in Options /\ call \in CallRecord
      /\ AttemptsCounted /\ TimeCounted
  BY TypedCall DEF IInv
<1>2. /\ call.total \in Nat /\ call.clock \in Nat /\ call.attempts \in Nat
      /\ Timeout \in Nat /\ Pause \in Nat
  BY <1>1, Counters
<1>3. call.clock <= Timeout /\ call.total <= Budget(n, n, Timeout, Pause) + call.clock
  BY <1>1 DEF TimeCounted
<1>4. n \in Nat /\ call.attempts = n + 1
  BY <1>1, <1>2 DEF AttemptsCounted
<1> HIDE DEF n
<1>5. /\ Budget(n, n, Timeout, Pause) \in Nat
      /\ Budget(n + 1, n, Timeout, Pause) = Budget(n, n, Timeout, Pause) + Timeout
  BY <1>2, <1>4, Budgets
<1>6. call.total <= Budget(n + 1, n, Timeout, Pause)
  BY <1>2, <1>3, <1>5
<1> QED BY <1>4, <1>6 DEF n

\* And once the delay after them has ended.
LEMMA DelayWithin ==
  ASSUME IInv, call.phase = "delay", options.enabled["timeout"]
  PROVE  call.total <= Budget(call.attempts, call.attempts, Timeout, Pause)
<1> DEFINE n == call.attempts - 1
<1>1. /\ options \in Options /\ call \in CallRecord
      /\ AttemptsCounted /\ TimeCounted
  BY TypedCall DEF IInv
<1>2. /\ call.total \in Nat /\ call.clock \in Nat /\ call.attempts \in Nat
      /\ call.delay \in Nat /\ Timeout \in Nat /\ Pause \in Nat
  BY <1>1, Counters
<1>3. /\ call.clock <= call.delay /\ call.delay <= Pause
      /\ call.total <= Budget(call.attempts, n, Timeout, Pause) + call.clock
  BY <1>1 DEF TimeCounted
<1>4. n \in Nat /\ call.attempts = n + 1
  BY <1>1, <1>2 DEF AttemptsCounted
<1> HIDE DEF n
<1>5. /\ Budget(call.attempts, n, Timeout, Pause) \in Nat
      /\ Budget(call.attempts, n + 1, Timeout, Pause)
           = Budget(call.attempts, n, Timeout, Pause) + Pause
  BY <1>2, <1>4, Budgets
<1>6. call.total <= Budget(call.attempts, n + 1, Timeout, Pause)
  BY <1>2, <1>3, <1>5
<1> QED BY <1>4, <1>6

LEMMA StartInv == ASSUME IInv, Start PROVE IInv'
<1>1. /\ options \in Options /\ call \in CallRecord /\ call.attempts = 0
      /\ call.clock <= call.total
      /\ options.enabled["timeout"] => call.total = 0
  BY TypedCall DEF IInv, Start, AttemptsCounted, TimeCounted
<1>2. /\ options' = options /\ call' \in CallRecord
      /\ call'.operation = call.operation
      /\ call'.phase = "attempt" /\ call'.attempts = 1 /\ call'.total = call.total
      /\ call'.clock = call.clock
  BY <1>1 DEF Start, CallRecord
<1>3. /\ Attempts >= 1 /\ Attempts \in Nat /\ Timeout \in Nat /\ Pause \in Nat
      /\ Attempts' = Attempts /\ Timeout' = Timeout /\ Pause' = Pause
      /\ call.clock \in Nat
  BY <1>1, <1>2, Counters, SameOptions
<1>4. TypeOK'
  BY <1>1, <1>2, <1>3, NextTyped
<1>5. AttemptsCounted'
  BY <1>2, <1>3 DEF AttemptsCounted
<1>6. ASSUME options'.enabled["timeout"] PROVE TimeCounted'
  <2>1. call.total = 0 /\ call.clock = 0
    BY <1>1, <1>2, <1>3, <1>6
  <2>2. Budget(0, 0, Timeout, Pause) = 0
    BY <1>3, Budgets
  <2>3. /\ call'.clock <= Timeout'
        /\ call'.total <= Budget(call'.attempts - 1, call'.attempts - 1, Timeout', Pause')
                            + call'.clock
    BY <1>2, <1>3, <2>1, <2>2
  <2> QED BY <1>2, <2>3 DEF TimeCounted, Ended
<1> QED BY <1>1, <1>2, <1>4, <1>5, <1>6 DEF IInv

\* An attempt ends, and the call with it.
LEMMA EndInv ==
  ASSUME IInv, UNCHANGED options, NEW phase \in {"returned", "threw", "gave up"},
         call.phase = "attempt", call' = [call EXCEPT !.phase = phase],
         phase = "gave up" => call.attempts = Attempts
  PROVE  IInv'
<1>1. /\ options \in Options /\ call \in CallRecord /\ call.attempts <= Attempts
      /\ call.attempts # 0 /\ call.clock <= call.total
  BY TypedCall DEF IInv, AttemptsCounted
<1>2. /\ call' \in CallRecord /\ call'.operation = call.operation
      /\ call'.phase = phase /\ call'.attempts = call.attempts
      /\ call'.total = call.total /\ call'.clock = call.clock
  BY <1>1 DEF CallRecord
<1>3. Attempts' = Attempts /\ Timeout' = Timeout /\ Pause' = Pause
  BY <1>2, SameOptions
<1>4. TypeOK'
  BY <1>1, <1>2, NextTyped
<1>5. AttemptsCounted'
  BY <1>1, <1>2, <1>3 DEF AttemptsCounted
<1>6. ASSUME options'.enabled["timeout"] PROVE TimeCounted'
  <2>1. call.total <= Budget(call.attempts, call.attempts - 1, Timeout, Pause)
    BY <1>6, AttemptWithin
  <2> QED BY <1>2, <1>3, <2>1 DEF TimeCounted
<1> QED BY <1>1, <1>2, <1>4, <1>5, <1>6 DEF IInv

\* An attempt failed, and a delay of d ticks follows.
LEMMA DelayInv ==
  ASSUME IInv, UNCHANGED options, call.phase = "attempt", options.enabled["retry"],
         call.attempts <= options.value["max_times"],
         NEW d \in Nat, d <= Pause,
         call' = [call EXCEPT !.phase = "delay", !.clock = 0, !.delay = d]
  PROVE  IInv'
<1>1. /\ options \in Options /\ call \in CallRecord /\ call.attempts <= Attempts
      /\ call.attempts # 0
  BY TypedCall DEF IInv, AttemptsCounted
<1>2. call.total \in Nat /\ Horizon \in Nat
  BY <1>1, Counters
<1>3. /\ call' \in CallRecord /\ call'.operation = call.operation
      /\ call'.phase = "delay" /\ call'.attempts = call.attempts
      /\ call'.total = call.total /\ call'.clock = 0 /\ call'.delay = d
  <2>1. 0 \in 0 .. Horizon
    BY <1>2
  <2> QED BY <1>1, <2>1 DEF CallRecord
<1>4. Attempts' = Attempts /\ Timeout' = Timeout /\ Pause' = Pause
  BY <1>3, SameOptions
<1>5. TypeOK'
  BY <1>1, <1>3, NextTyped
<1>6. AttemptsCounted'
  BY <1>1, <1>3, <1>4 DEF AttemptsCounted
<1>7. ASSUME options'.enabled["timeout"] PROVE TimeCounted'
  <2> DEFINE within == Budget(call.attempts, call.attempts - 1, Timeout, Pause)
  <2>1. call.total <= within
    BY <1>7, AttemptWithin
  <2>2. within \in Nat
    <3>1. call.attempts \in Nat /\ call.attempts - 1 \in Nat /\ Timeout \in Nat /\ Pause \in Nat
      BY <1>1, Counters
    <3> QED BY <3>1, Budgets
  <2>3. call'.total <= within + call'.clock
    BY <1>2, <1>3, <2>1, <2>2
  <2>4. call'.clock <= call'.delay /\ call'.delay <= Pause'
    BY <1>3, <1>4
  <2> QED BY <1>3, <1>4, <2>3, <2>4 DEF TimeCounted, Ended
<1>8. call'.clock <= call'.total
  BY <1>2, <1>3
<1> QED BY <1>5, <1>6, <1>7, <1>8 DEF IInv

\* An attempt that failed for now is followed by a delay, or was the last.
LEMMA FailedForNowInv ==
  ASSUME IInv, UNCHANGED options, call.phase = "attempt", FailedForNow
  PROVE  IInv'
<1>1. options \in Options /\ call \in CallRecord /\ call.attempts <= Attempts
      /\ call.attempts # 0
  BY TypedCall DEF IInv, AttemptsCounted
<1>2. CASE \E i \in At("retry") : call.attempts <= Layers[i].max_times
  <2>1. PICK i \in At("retry") :
          \E d \in Delays(i) :
            call' = [call EXCEPT !.phase = "delay", !.clock = 0, !.delay = d]
    BY <1>2 DEF FailedForNow
  <2>2. PICK d \in Delays(i) :
          call' = [call EXCEPT !.phase = "delay", !.clock = 0, !.delay = d]
    BY <2>1
  <2>3. options.enabled["retry"] /\ call.attempts <= options.value["max_times"]
    BY <1>1, <1>2, LayersAre
  <2>4. d \in Nat /\ d <= Pause
    <3>1. d \in options.value["min_delay_ms"]
                  .. (options.value["max_delay_ms"] + options.value["min_delay_ms"])
      BY <1>1, LayersAre DEF Delays
    <3>2. options.value["min_delay_ms"] \in Nat /\ options.value["max_delay_ms"] \in Nat
      BY <1>1, OptionsTyped DEF Names
    <3> QED BY <3>1, <3>2 DEF Pause
  <2> QED BY <2>2, <2>3, <2>4, DelayInv
<1>3. CASE ~\E i \in At("retry") : call.attempts <= Layers[i].max_times
  <2>1. call' = [call EXCEPT !.phase = "gave up"]
    BY <1>3 DEF FailedForNow
  <2>2. call.attempts = Attempts
    <3>1. call.attempts \in Nat /\ options.value["max_times"] \in Nat
      BY <1>1, Counters
    <3>2. options.enabled["retry"] => ~(call.attempts <= options.value["max_times"])
      BY <1>1, <1>3, LayersAre
    <3> QED BY <1>1, <3>1, <3>2 DEF Attempts
  <2> QED BY <2>1, <2>2, EndInv
<1> QED BY <1>2, <1>3

LEMMA AnswerInv == ASSUME IInv, Answer PROVE IInv'
BY EndInv DEF Answer

LEMMA AnswerTemporaryErrorInv == ASSUME IInv, AnswerTemporaryError PROVE IInv'
BY FailedForNowInv DEF AnswerTemporaryError

\* The timeout layer times attempts, as the retry layer is around it: a timeout that
\* passes is one of an attempt.
LEMMA ExpireInv == ASSUME IInv, Expire PROVE IInv'
<1>1. PICK i \in At("timeout") :
        /\ Due(i)
        /\ IF \E j \in At("retry") : j < i
           THEN call' = [call EXCEPT !.phase = "gave up"]
           ELSE FailedForNow
  BY DEF Expire
<1>2. options \in Options /\ UNCHANGED options /\ call \in CallRecord
  BY TypedCall DEF Expire
<1>3. ~\E j \in At("retry") : j < i
  BY <1>2, LayersAre
<1>4. call.phase = "attempt"
  <2>1. Counted(i) >= Allowed(i) /\ call.phase \in {"attempt", "delay"}
    BY <1>1 DEF Due
  <2>2. Allowed(i) = Timeout
    BY <1>2, LayersAre DEF Allowed, Timeout
  <2>3. Timeout \in Nat /\ Timeout >= 1
    BY <1>2, OptionsTyped DEF Timeout, Names
  <2>4. call.phase # "attempt" => Counted(i) = 0
    BY <1>3 DEF Counted
  <2> QED BY <2>1, <2>2, <2>3, <2>4
<1> QED BY <1>1, <1>2, <1>3, <1>4, FailedForNowInv

LEMMA RetryInv == ASSUME IInv, Retry PROVE IInv'
<1>1. /\ options \in Options /\ call \in CallRecord /\ call.attempts # 0
      /\ call.phase = "delay" /\ options' = options
      /\ call.attempts <= options.value["max_times"] /\ options.enabled["retry"]
      /\ call' = [call EXCEPT !.phase = "attempt", !.attempts = @ + 1, !.clock = 0]
  BY TypedCall DEF IInv, AttemptsCounted, Retry
<1>2. /\ call.attempts \in Nat /\ call.total \in Nat /\ Horizon \in Nat
      /\ options.value["max_times"] \in Nat /\ Timeout \in Nat /\ Pause \in Nat
  BY <1>1, Counters
<1>3. /\ call' \in CallRecord /\ call'.operation = call.operation
      /\ call'.phase = "attempt" /\ call'.attempts = call.attempts + 1
      /\ call'.total = call.total /\ call'.clock = 0
  <2>1. 0 \in 0 .. Horizon /\ call.attempts + 1 \in Nat
    BY <1>2
  <2> QED BY <1>1, <2>1 DEF CallRecord
<1>4. /\ Attempts' = Attempts /\ Timeout' = Timeout /\ Pause' = Pause
      /\ call'.attempts <= Attempts
  BY <1>1, <1>2, <1>3, SameOptions DEF Attempts
<1>5. TypeOK'
  BY <1>1, <1>3, <1>4, NextTyped
<1>6. AttemptsCounted'
  BY <1>1, <1>2, <1>3, <1>4 DEF AttemptsCounted
<1>7. ASSUME options'.enabled["timeout"] PROVE TimeCounted'
  <2> DEFINE within == Budget(call.attempts, call.attempts, Timeout, Pause)
  <2>1. call.total <= within
    BY <1>1, <1>7, DelayWithin
  <2>2. within \in Nat
    BY <1>2, Budgets
  <2>3. call'.total <= within + call'.clock
    BY <1>2, <1>3, <2>1, <2>2
  <2>4. call'.attempts - 1 = call.attempts /\ call'.clock <= Timeout'
    BY <1>2, <1>3, <1>4
  <2> QED BY <1>3, <1>4, <2>3, <2>4 DEF TimeCounted, Ended
<1>8. call'.clock <= call'.total
  BY <1>2, <1>3
<1> QED BY <1>5, <1>6, <1>7, <1>8 DEF IInv

LEMMA TickInv == ASSUME IInv, Tick PROVE IInv'
<1>1. /\ options \in Options /\ call \in CallRecord /\ call.attempts <= Attempts
      /\ options' = options /\ call.phase \in {"attempt", "delay"}
      /\ call.clock <= call.total /\ call.total < Horizon
      /\ call.phase = "delay" => call.clock < call.delay
      /\ call' = [call EXCEPT !.clock = @ + 1, !.total = @ + 1]
      /\ AttemptsCounted
  BY TypedCall DEF IInv, Tick
<1>2. /\ call.clock \in Nat /\ call.total \in Nat /\ call.delay \in Nat
      /\ call.attempts \in Nat /\ Horizon \in Nat /\ Timeout \in Nat /\ Pause \in Nat
  BY <1>1, Counters
<1>3. /\ call' \in CallRecord /\ call'.operation = call.operation
      /\ call'.phase = call.phase /\ call'.attempts = call.attempts
      /\ call'.total = call.total + 1 /\ call'.clock = call.clock + 1
      /\ call'.delay = call.delay
  <2>1. call.clock + 1 \in 0 .. Horizon /\ call.total + 1 \in 0 .. Horizon
    BY <1>1, <1>2
  <2> QED BY <1>1, <2>1 DEF CallRecord
<1>4. Attempts' = Attempts /\ Timeout' = Timeout /\ Pause' = Pause
  BY <1>1, <1>3, SameOptions
<1>5. TypeOK'
  BY <1>1, <1>3, NextTyped
<1>6. AttemptsCounted'
  BY <1>1, <1>3, <1>4 DEF AttemptsCounted
<1>7. ASSUME options'.enabled["timeout"] PROVE TimeCounted'
  <2>1. TimeCounted
    BY <1>1, <1>7 DEF IInv
  <2>2. call.attempts - 1 \in Nat
    <3>1. call.attempts # 0
      BY <1>1 DEF AttemptsCounted
    <3> QED BY <1>2, <3>1
  <2>3. CASE call.phase = "attempt"
    <3> DEFINE before == Budget(call.attempts - 1, call.attempts - 1, Timeout, Pause)
    <3>1. call.clock < Timeout
      <4>1. 1 \in At("timeout") /\ ~Due(1)
        BY <1>1, <1>7, LayersAre DEF Tick
      <4>2. Allowed(1) = Timeout
        BY <1>1, <4>1, LayersAre DEF Allowed, Timeout
      <4>3. ~\E j \in At("retry") : j < 1
        BY <1>1, LayersAre
      <4>4. Counted(1) = call.clock
        BY <2>3, <4>3 DEF Counted
      <4> QED BY <1>2, <2>3, <4>1, <4>2, <4>4 DEF Due
    <3>2. call.total <= before + call.clock
      BY <2>1, <2>3 DEF TimeCounted
    <3>3. before \in Nat
      BY <1>2, <2>2, Budgets
    <3> HIDE DEF before
    <3>4. call'.total <= before + call'.clock /\ call'.clock <= Timeout'
      BY <1>2, <1>3, <1>4, <3>1, <3>2, <3>3
    <3> QED BY <1>3, <1>4, <2>3, <3>4 DEF TimeCounted, Ended, before
  <2>4. CASE call.phase = "delay"
    <3> DEFINE before == Budget(call.attempts, call.attempts - 1, Timeout, Pause)
    <3>1. call.total <= before + call.clock /\ call.delay <= Pause
      BY <2>1, <2>4 DEF TimeCounted
    <3>2. before \in Nat
      BY <1>2, <2>2, Budgets
    <3> HIDE DEF before
    <3>3. /\ call'.total <= before + call'.clock
          /\ call'.clock <= call'.delay /\ call'.delay <= Pause'
      BY <1>1, <1>2, <1>3, <1>4, <2>4, <3>1, <3>2
    <3> QED BY <1>3, <1>4, <2>4, <3>3 DEF TimeCounted, Ended, before
  <2> QED BY <1>1, <2>3, <2>4
<1>8. call'.clock <= call'.total
  BY <1>1, <1>2, <1>3
<1> QED BY <1>5, <1>6, <1>7, <1>8 DEF IInv

LEMMA Invariant == Spec => []IInv
<1>1. IInv /\ [Next]_vars => IInv'
  <2> SUFFICES ASSUME IInv, [Next]_vars PROVE IInv'
    OBVIOUS
  <2>1. CASE UNCHANGED vars
    BY <2>1 DEF vars, IInv, TypeOK, AttemptsCounted, TimeCounted, Ended, Attempts,
                Timeout, Pause, Budget
  <2> QED BY <2>1, StartInv, AnswerInv, AnswerTemporaryErrorInv, ExpireInv, RetryInv,
             TickInv DEF Next
<1> QED BY <1>1, InitInv, PTL DEF Spec

-----------------------------------------------------------------------------
\* For any settings, retry_max_times means one attempt more than it says: no call of
\* the service is attempted again after that.
THEOREM TypeCorrect == Spec => []TypeOK
<1>1. IInv => TypeOK
  BY DEF IInv
<1> QED BY <1>1, Invariant, PTL

\* For any settings, a call that the layers give up over temporary errors has made
\* all its attempts: timeouts are of attempts, as the timeout layer is the inner one.
THEOREM GivesUpAfterAll == Spec => []GivesUpLast
<1>1. IInv => GivesUpLast
  BY DEF IInv, AttemptsCounted, GivesUpLast
<1> QED BY <1>1, Invariant, PTL

\* For any settings, a call under the timeout layer takes at most its attempts, as
\* long as their timeouts, and the delays between them.
THEOREM TimeBounded == Spec => []ElapsedBounded
<1>1. IInv => ElapsedBounded
  <2> SUFFICES ASSUME IInv, options.enabled["timeout"]
               PROVE  call.total <= Budget(Attempts, Attempts - 1, Timeout, Pause)
    BY DEF ElapsedBounded, Budget, Pause
  <2>1. /\ options \in Options /\ call \in CallRecord /\ call.attempts <= Attempts
        /\ TimeCounted /\ AttemptsCounted
    BY TypedCall DEF IInv
  <2>2. /\ call.total \in Nat /\ call.attempts \in Nat /\ Timeout \in Nat
        /\ Pause \in Nat /\ Attempts \in Nat /\ Attempts - 1 \in Nat
        /\ options.value["max_times"] \in Nat
    BY <2>1, Counters
  <2>3. Budget(Attempts, Attempts - 1, Timeout, Pause) \in Nat
    BY <2>2, Budgets
  <2>4. ASSUME NEW n \in Nat, NEW m \in Nat, n <= Attempts, m <= Attempts - 1,
               call.total <= Budget(n, m, Timeout, Pause)
        PROVE  call.total <= Budget(Attempts, Attempts - 1, Timeout, Pause)
    <3>1. Budget(n, m, Timeout, Pause) <= Budget(Attempts, Attempts - 1, Timeout, Pause)
      BY <2>2, <2>4, Budgets
    <3>2. Budget(n, m, Timeout, Pause) \in Nat
      BY <2>2, Budgets
    <3> QED BY <2>2, <2>3, <2>4, <3>1, <3>2
  <2>5. CASE call.phase = "idle"
    BY <2>1, <2>2, <2>3, <2>5 DEF TimeCounted
  <2>6. CASE call.phase = "delay"
    <3>1. call.attempts <= Attempts - 1
      BY <2>1, <2>2, <2>6 DEF AttemptsCounted, Attempts
    <3>2. call.total <= Budget(call.attempts, call.attempts, Timeout, Pause)
      BY <2>6, DelayWithin
    <3> QED BY <2>1, <2>2, <2>4, <3>1, <3>2
  <2>7. CASE call.phase = "attempt" \/ Ended
    <3>1. call.total <= Budget(call.attempts, call.attempts - 1, Timeout, Pause)
      BY <2>1, <2>7, AttemptWithin DEF TimeCounted
    <3>2. call.attempts # 0
      BY <2>1, <2>7 DEF AttemptsCounted, Ended
    <3>3. call.attempts - 1 \in Nat /\ call.attempts - 1 <= Attempts - 1
      BY <2>1, <2>2, <3>2
    <3> QED BY <2>1, <2>2, <2>4, <3>1, <3>3
  <2> QED BY <2>1, <2>5, <2>6, <2>7 DEF CallRecord, Ended
<1> QED BY <1>1, Invariant, PTL
=============================================================================
