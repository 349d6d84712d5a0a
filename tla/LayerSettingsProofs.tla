------------------------ MODULE LayerSettingsProofs ------------------------
(***************************************************************************)
(* LayerSettings for every word size, every set of calls and any defaults  *)
(* that its assumption allows.                                             *)
(***************************************************************************)
EXTENDS LayerSettings, TLAPS

\* Durations whose nanoseconds fit a word, in the settings or in a result.
Fits(options) ==
  \A name \in Milliseconds : options.value[name] * NanosPerMilli <= MaxWord

\* What a call that is steady will find when it compares the delays: the smaller
\* one it has read is bounded by the greater one it has not.
Agreeing(c) ==
  /\ DelaysAgree(setting)
  /\ (call[c].next >= 7 /\ call[c].opener /\ call[c].result.enabled["retry"]) =>
       call[c].result.value["min_delay_ms"] <= setting.value["max_delay_ms"]
  /\ (call[c].next = 8 /\ call[c].opener /\ call[c].result.enabled["retry"]) =>
       DelaysAgree(call[c].result)

CallSound(c) ==
  /\ call[c].phase = "idle" => call[c].next = 1
  /\ Fits(call[c].result)
  /\ ~call[c].opener => call[c].result.value = Default.value
  /\ call[c].phase = "built" => ~Conflict(call[c].result)
  /\ call[c].phase = "reading" /\ call[c].steady => Agreeing(c)
  /\ call[c].phase = "threw" => ~call[c].steady

IInv == TypeOK /\ \A c \in Calls : CallSound(c)

-----------------------------------------------------------------------------
\* A SET that passes its check stores a duration whose nanoseconds fit a word:
\* the bound MAX_OPENDAL_LAYER_MILLISECONDS is right for every word size.
LEMMA AcceptedFits ==
  ASSUME NEW name \in Milliseconds, NEW n \in Accepted(name)
  PROVE  n \in 1 .. MaxWord /\ n * NanosPerMilli <= MaxWord
<1> DEFINE q == MaxWord \div NanosPerMilli
<1>1. /\ MaxWord \in Nat
      /\ NanosPerMilli \in Nat
      /\ NanosPerMilli >= 1
  BY SettingsAssumption
<1>2. q \in Nat /\ q * NanosPerMilli <= MaxWord
  BY <1>1, Z3
<1>3. n \in Nat /\ n >= 1 /\ n <= q
  BY <1>2 DEF Accepted, MaxMilliseconds
<1> HIDE DEF q
<1>4. n * NanosPerMilli <= q * NanosPerMilli
  BY <1>1, <1>2, <1>3, Z3
<1>5. n <= n * NanosPerMilli
  BY <1>1, <1>3, Z3
<1>6. n * NanosPerMilli \in Nat /\ q * NanosPerMilli \in Nat
  BY <1>1, <1>2, <1>3
<1> QED
  BY <1>1, <1>2, <1>3, <1>4, <1>5, <1>6

\* What every check lets pass is a word, and not zero.
LEMMA AcceptedTyped ==
  ASSUME NEW name \in Numbers, NEW n \in Accepted(name)
  PROVE  n \in 1 .. MaxWord
<1>1. CASE name \in Milliseconds
  BY <1>1, AcceptedFits
<1>2. CASE name \notin Milliseconds
  BY <1>2 DEF Accepted
<1> QED
  BY <1>1, <1>2

LEMMA InitInv == Init => IInv
<1> SUFFICES ASSUME Init PROVE IInv
  OBVIOUS
<1>1. /\ Default \in Options
      /\ Fits(Default)
  BY SettingsAssumption DEF Fits
<1>2. /\ setting = Default
      /\ call \in [Calls -> CallState]
      /\ \A c \in Calls :
           call[c].phase = "idle" /\ call[c].next = 1 /\ call[c].result = Default
  <2> DEFINE Idle(o) == [phase |-> "idle", opener |-> o, next |-> 1,
                         result |-> Default, quiet |-> TRUE, steady |-> TRUE]
  <2>1. /\ setting = Default
        /\ call \in [Calls -> {Idle(o) : o \in BOOLEAN}]
    BY DEF Init
  <2>2. \A o \in BOOLEAN : Idle(o) \in CallState
    BY <1>1 DEF CallState
  <2>3. \A c \in Calls : \E o \in BOOLEAN : call[c] = Idle(o)
    BY <2>1
  <2> QED
    BY <2>1, <2>2, <2>3
<1>3. TypeOK
  BY <1>1, <1>2 DEF TypeOK, Fits
<1>4. \A c \in Calls : CallSound(c)
  <2> SUFFICES ASSUME NEW c \in Calls PROVE CallSound(c)
    OBVIOUS
  <2>1. call[c].phase = "idle" /\ call[c].next = 1 /\ call[c].result = Default
    BY <1>2
  <2> QED
    BY <1>1, <2>1 DEF CallSound
<1> QED
  BY <1>3, <1>4 DEF IInv

-----------------------------------------------------------------------------
\* A change of the settings that keeps them typed and in range keeps the invariant.
LEMMA ChangeInv ==
  ASSUME IInv, NEW new \in Options, Fits(new), Change(new)
  PROVE  IInv'
<1> USE DEF IInv
<1>1. TypeOK'
  <2>1. setting' = new /\ call' = Watching(new)
    BY DEF Change
  <2>2. ASSUME NEW c \in Calls, NEW steady \in BOOLEAN
        PROVE  [call[c] EXCEPT !.quiet = FALSE, !.steady = steady] \in CallState
    <3>1. call[c] \in CallState
      BY DEF TypeOK
    <3> QED BY <3>1 DEF CallState
  <2>3. \A c \in Calls : call[c].steady \in BOOLEAN
    BY DEF TypeOK, CallState
  <2>4. Watching(new) \in [Calls -> CallState]
    BY <2>2, <2>3 DEF Watching
  <2> QED BY <2>1, <2>4 DEF TypeOK, Fits
<1>2. ASSUME NEW c \in Calls PROVE CallSound(c)'
  <2>1. /\ call'[c] = [call[c] EXCEPT
             !.quiet = FALSE,
             !.steady = @ /\ DelaysAgree(new)
                          /\ setting.value["max_delay_ms"] <= new.value["max_delay_ms"]]
        /\ call[c] \in CallState
        /\ setting' = new
        /\ setting \in Options
    BY DEF TypeOK, Change, Watching
  <2>2. /\ call'[c].phase = call[c].phase
        /\ call'[c].next = call[c].next
        /\ call'[c].opener = call[c].opener
        /\ call'[c].result = call[c].result
        /\ call'[c].steady = (/\ call[c].steady
                              /\ DelaysAgree(new)
                              /\ setting.value["max_delay_ms"] <= new.value["max_delay_ms"])
    BY <2>1 DEF CallState
  <2>3. /\ setting.value["max_delay_ms"] \in Nat
        /\ new.value["max_delay_ms"] \in Nat
        /\ call[c].result.value["min_delay_ms"] \in Nat
    BY <2>1, SettingsAssumption DEF Options, CallState, Numbers, Milliseconds
  <2>4. CallSound(c)
    OBVIOUS
  <2>5. ASSUME call'[c].phase = "reading", call'[c].steady PROVE Agreeing(c)'
    <3>1. /\ Agreeing(c)
          /\ DelaysAgree(new)
          /\ setting.value["max_delay_ms"] <= new.value["max_delay_ms"]
      BY <2>2, <2>4, <2>5 DEF CallSound
    <3>2. DelaysAgree(setting)'
      BY <2>1, <3>1 DEF DelaysAgree
    <3>3. call[c].result.value["min_delay_ms"] <= setting.value["max_delay_ms"] =>
            call[c].result.value["min_delay_ms"] <= setting'.value["max_delay_ms"]
      BY <2>1, <2>3, <3>1
    <3> QED
      BY <2>2, <3>1, <3>2, <3>3 DEF Agreeing, DelaysAgree
  <2> QED
    BY <2>2, <2>4, <2>5 DEF CallSound, Fits, Conflict, DelaysAgree
<1> QED
  BY <1>1, <1>2

LEMMA SwitchInv ==
  ASSUME IInv, NEW layer \in Layers, NEW on \in BOOLEAN, Switch(layer, on)
  PROVE  IInv'
<1> DEFINE new == [setting EXCEPT !.enabled[layer] = on]
<1>1. new \in Options /\ Fits(new)
  BY DEF IInv, TypeOK, Options, Fits
<1>2. Change(new)
  BY DEF Switch
<1> HIDE DEF new
<1> QED
  BY <1>1, <1>2, ChangeInv

LEMMA SetInv ==
  ASSUME IInv, NEW name \in Numbers, NEW n \in 0 .. MaxWord, Set(name, n)
  PROVE  IInv'
<1> DEFINE new == [setting EXCEPT !.value[name] = n]
<1>1. n \in 1 .. MaxWord
  BY AcceptedTyped DEF Set
<1>2. name \in Milliseconds => n * NanosPerMilli <= MaxWord
  BY AcceptedFits DEF Set
<1>3. new \in Options /\ Fits(new)
  BY <1>1, <1>2 DEF IInv, TypeOK, Options, Fits, Numbers
<1>4. Change(new)
  BY DEF Set
<1> HIDE DEF new
<1> QED
  BY <1>3, <1>4, ChangeInv

-----------------------------------------------------------------------------
\* A step of one call keeps the invariant if it keeps that call sound.
LEMMA CallInv ==
  ASSUME IInv, UNCHANGED setting, NEW c \in Calls,
         call' \in [Calls -> CallState],
         \A d \in Calls \ {c} : call'[d] = call[d],
         CallSound(c)'
  PROVE  IInv'
<1>1. TypeOK'
  BY DEF IInv, TypeOK
<1>2. ASSUME NEW d \in Calls, d # c PROVE CallSound(d)'
  <2>1. call'[d] = call[d]
    BY <1>2
  <2> QED
    BY <2>1 DEF IInv, CallSound, Agreeing, DelaysAgree, Fits, Conflict
<1> QED
  BY <1>1, <1>2 DEF IInv

LEMMA StartInv == ASSUME IInv, NEW c \in Calls, Start(c) PROVE IInv'
<1>1. /\ call[c] \in CallState /\ call[c].phase = "idle"
      /\ call[c].next = 1 /\ CallSound(c)
      /\ UNCHANGED setting
  BY DEF IInv, TypeOK, Start, CallSound
<1>a. DelaysAgree(setting) \in BOOLEAN
  BY DEF DelaysAgree
<1>b. \A d \in Calls : call[d] \in CallState
  BY DEF IInv, TypeOK
<1>2. /\ call' \in [Calls -> CallState]
      /\ \A d \in Calls \ {c} : call'[d] = call[d]
  <2> DEFINE s == [call[c] EXCEPT !.phase = "reading", !.quiet = TRUE,
                                  !.steady = DelaysAgree(setting)]
  <2>1. call' = [d \in Calls |-> IF d = c THEN s ELSE call[d]]
    BY DEF Start, IInv, TypeOK
  <2>2. s \in CallState
    BY <1>a, <1>b DEF CallState
  <2> QED
    BY <1>b, <2>1, <2>2
<1>3. /\ call'[c].phase = "reading" /\ call'[c].steady = DelaysAgree(setting)
      /\ call'[c].next = 1 /\ call'[c].opener = call[c].opener
      /\ call'[c].result = call[c].result
  BY <1>1 DEF IInv, TypeOK, Start, CallState
<1>4. Agreeing(c)' <=> DelaysAgree(setting)
  BY <1>1, <1>3 DEF Agreeing, DelaysAgree
<1>5. CallSound(c)'
  BY <1>1, <1>3, <1>4 DEF CallSound, Fits
<1> QED
  BY <1>1, <1>2, <1>5, CallInv

\* When each switch and each delay is read.
LEMMA Order ==
  ASSUME NEW i \in 1 .. 7
  PROVE  /\ ReadOrder[i] \in Layers => i <= 4
         /\ ReadOrder[i] = "min_delay_ms" <=> i = 6
         /\ ReadOrder[i] = "max_delay_ms" <=> i = 7
BY DEF ReadOrder, Layers

\* A call goes on to its next setting with the result r.
Advance(c, r) ==
  call' = [d \in Calls |->
             IF d = c THEN [call[c] EXCEPT !.next = @ + 1, !.result = r]
             ELSE call[d]]

LEMMA AdvanceInv ==
  ASSUME IInv, UNCHANGED setting, NEW c \in Calls, NEW r \in Options,
         call[c].phase = "reading", call[c].next <= 7,
         Advance(c, r),
         Fits(r), ~call[c].opener => r.value = Default.value,
         call[c].steady =>
           /\ call[c].next = 6 /\ call[c].opener /\ r.enabled["retry"] =>
                r.value["min_delay_ms"] <= setting.value["max_delay_ms"]
           /\ call[c].next = 7 /\ call[c].opener /\ r.enabled["retry"] =>
                /\ DelaysAgree(r)
                /\ r.value["min_delay_ms"] <= setting.value["max_delay_ms"]
  PROVE  IInv'
<1> DEFINE s == [call[c] EXCEPT !.next = @ + 1, !.result = r]
<1>1. \A d \in Calls : call[d] \in CallState /\ CallSound(d)
  BY DEF IInv, TypeOK
<1>2. s \in CallState
  <2>1. call[c] \in CallState /\ call[c].next + 1 \in 1 .. 8
    BY <1>1 DEF CallState
  <2> QED
    BY <2>1 DEF CallState
<1>3. call' = [d \in Calls |-> IF d = c THEN s ELSE call[d]]
  BY DEF Advance
<1>4. /\ call'[c].phase = "reading" /\ call'[c].steady = call[c].steady
      /\ call'[c].opener = call[c].opener
      /\ call'[c].next = call[c].next + 1
      /\ call'[c].result = r
  BY <1>1, <1>3 DEF CallState
<1>5. call[c].next \in Nat
  BY <1>1 DEF CallState
<1>6. ASSUME call[c].steady PROVE Agreeing(c)'
  <2>1. Agreeing(c)
    BY <1>1, <1>6 DEF CallSound
  <2> QED
    BY <1>4, <1>5, <1>6, <2>1 DEF Agreeing, DelaysAgree
<1>7. CallSound(c)'
  BY <1>4, <1>6 DEF CallSound, Fits
<1>8. /\ call' \in [Calls -> CallState]
      /\ \A d \in Calls \ {c} : call'[d] = call[d]
  BY <1>1, <1>2, <1>3
<1> QED
  BY <1>7, <1>8, CallInv

LEMMA ReadSwitchInv == ASSUME IInv, NEW c \in Calls, ReadSwitch(c) PROVE IInv'
<1>1. PICK layer \in Layers :
        /\ Reads(c, layer)
        /\ call' = [call EXCEPT ![c].next = @ + 1,
                                ![c].result.enabled[layer] = InForce(c).enabled[layer]]
        /\ UNCHANGED setting
  BY DEF ReadSwitch
<1> DEFINE r == [call[c].result EXCEPT !.enabled[layer] = InForce(c).enabled[layer]]
<1>2. /\ call[c] \in CallState /\ CallSound(c)
      /\ setting \in Options
      /\ call[c].result \in Options
  BY DEF IInv, TypeOK, CallState
<1>3. call[c].next \in 1 .. 7 /\ call[c].phase = "reading" /\ call[c].next <= 4
  BY <1>1, <1>2, Order DEF Reads, CallState
<1>4. r \in Options /\ r.value = call[c].result.value
  BY <1>2 DEF Options, InForce
<1>5. Advance(c, r)
  <2>1. call' = [d \in Calls |->
          IF d = c
          THEN [call[c] EXCEPT !.next = @ + 1,
                               !.result.enabled[layer] = InForce(c).enabled[layer]]
          ELSE call[d]]
    BY <1>1 DEF IInv, TypeOK
  <2>2. [call[c] EXCEPT !.next = @ + 1,
                        !.result.enabled[layer] = InForce(c).enabled[layer]]
          = [call[c] EXCEPT !.next = @ + 1, !.result = r]
    BY <1>2 DEF CallState
  <2> QED
    BY <2>1, <2>2 DEF Advance
<1>6. Fits(r) /\ (~call[c].opener => r.value = Default.value)
  BY <1>2, <1>4 DEF CallSound, Fits
<1> HIDE DEF r
<1> QED
  BY <1>1, <1>3, <1>4, <1>5, <1>6, AdvanceInv

LEMMA ReadNumberInv == ASSUME IInv, NEW c \in Calls, ReadNumber(c) PROVE IInv'
<1>1. PICK name \in Numbers :
        /\ Reads(c, name)
        /\ call' = [call EXCEPT ![c].next = @ + 1,
                                ![c].result.value[name] = InForce(c).value[name]]
        /\ UNCHANGED setting
  BY DEF ReadNumber
<1> DEFINE r == [call[c].result EXCEPT !.value[name] = InForce(c).value[name]]
<1>2. /\ call[c] \in CallState /\ CallSound(c)
      /\ setting \in Options /\ Fits(setting)
      /\ call[c].result \in Options
  BY DEF IInv, TypeOK, CallState, Fits
<1>3. call[c].next \in 1 .. 7 /\ call[c].phase = "reading"
  BY <1>1, <1>2 DEF Reads, CallState
<1>4. r \in Options /\ r.enabled = call[c].result.enabled
  BY <1>2 DEF Options, InForce
<1>5. /\ r.value[name] = InForce(c).value[name]
      /\ \A n \in Numbers \ {name} : r.value[n] = call[c].result.value[n]
  BY <1>2 DEF Options
<1>6. Advance(c, r)
  <2>1. call' = [d \in Calls |->
          IF d = c
          THEN [call[c] EXCEPT !.next = @ + 1,
                               !.result.value[name] = InForce(c).value[name]]
          ELSE call[d]]
    BY <1>1 DEF IInv, TypeOK
  <2>2. [call[c] EXCEPT !.next = @ + 1,
                        !.result.value[name] = InForce(c).value[name]]
          = [call[c] EXCEPT !.next = @ + 1, !.result = r]
    BY <1>2 DEF CallState
  <2> QED
    BY <2>1, <2>2 DEF Advance
<1>7. Fits(r)
  BY <1>2, <1>5 DEF CallSound, Fits, InForce, Numbers
<1>8. ~call[c].opener => r.value = Default.value
  BY <1>2, <1>4, <1>5 DEF CallSound, InForce, Options
<1>9. ASSUME call[c].steady, call[c].opener, r.enabled["retry"]
      PROVE  /\ call[c].next = 6 =>
                  r.value["min_delay_ms"] <= setting.value["max_delay_ms"]
             /\ call[c].next = 7 =>
                  /\ DelaysAgree(r)
                  /\ r.value["min_delay_ms"] <= setting.value["max_delay_ms"]
  <2>1. Agreeing(c)
    BY <1>2, <1>3, <1>9 DEF CallSound
  <2>2. name = "min_delay_ms" <=> call[c].next = 6
    BY <1>1, <1>3, Order DEF Reads
  <2>3. name = "max_delay_ms" <=> call[c].next = 7
    BY <1>1, <1>3, Order DEF Reads
  <2> HIDE DEF r
  <2>4. ASSUME call[c].next = 6
        PROVE  r.value["min_delay_ms"] <= setting.value["max_delay_ms"]
    BY <1>5, <1>9, <2>1, <2>2, <2>4 DEF InForce, Agreeing, DelaysAgree
  <2>5. ASSUME call[c].next = 7
        PROVE  /\ DelaysAgree(r)
               /\ r.value["min_delay_ms"] <= setting.value["max_delay_ms"]
    BY <1>4, <1>5, <1>9, <2>1, <2>3, <2>5
    DEF InForce, Agreeing, DelaysAgree, Numbers, Milliseconds
  <2> QED
    BY <2>4, <2>5
<1> HIDE DEF r
<1> QED
  BY <1>1, <1>3, <1>4, <1>6, <1>7, <1>8, <1>9, AdvanceInv

LEMMA SkipNumberInv == ASSUME IInv, NEW c \in Calls, SkipNumber(c) PROVE IInv'
<1>1. PICK name \in Numbers :
        /\ Reads(c, name)
        /\ ~call[c].result.enabled[LayerOf(name)]
        /\ call' = [call EXCEPT ![c].next = @ + 1]
        /\ UNCHANGED setting
  BY DEF SkipNumber
<1> DEFINE r == call[c].result
<1>2. /\ call[c] \in CallState /\ CallSound(c)
      /\ r \in Options
  BY DEF IInv, TypeOK, CallState
<1>3. call[c].next \in 1 .. 7 /\ call[c].phase = "reading"
  BY <1>1, <1>2 DEF Reads, CallState
<1>4. Advance(c, r)
  <2>1. call' = [d \in Calls |->
          IF d = c THEN [call[c] EXCEPT !.next = @ + 1] ELSE call[d]]
    BY <1>1 DEF IInv, TypeOK
  <2>2. [call[c] EXCEPT !.next = @ + 1]
          = [call[c] EXCEPT !.next = @ + 1, !.result = r]
    BY <1>2 DEF CallState
  <2> QED
    BY <2>1, <2>2 DEF Advance
<1>5. call[c].next >= 6 => ~r.enabled["retry"]
  BY <1>1, <1>3, Order DEF Reads, LayerOf
<1>6. Fits(r) /\ (~call[c].opener => r.value = Default.value)
  BY <1>2 DEF CallSound
<1> HIDE DEF r
<1> QED
  BY <1>1, <1>2, <1>3, <1>4, <1>5, <1>6, AdvanceInv

LEMMA ReturnInv == ASSUME IInv, NEW c \in Calls, Return(c) PROVE IInv'
<1> DEFINE phase == IF Conflict(call[c].result) THEN "threw" ELSE "built"
           s == [call[c] EXCEPT !.phase = phase]
<1>1. /\ \A d \in Calls : call[d] \in CallState
      /\ CallSound(c)
      /\ call[c].phase = "reading" /\ call[c].next = 8
      /\ UNCHANGED setting
  BY DEF Return, IInv, TypeOK
<1>2. call' = [d \in Calls |-> IF d = c THEN s ELSE call[d]]
  BY DEF Return, IInv, TypeOK
<1>3. s \in CallState
  BY <1>1 DEF CallState
<1>4. /\ call'[c].phase = phase /\ call'[c].result = call[c].result
      /\ call'[c].opener = call[c].opener /\ call'[c].steady = call[c].steady
  BY <1>1, <1>2 DEF CallState
<1>5. ASSUME call[c].steady PROVE ~Conflict(call[c].result)
  <2>1. Agreeing(c)
    BY <1>1, <1>5 DEF CallSound
  <2>2. CASE call[c].opener
    BY <1>1, <2>1, <2>2 DEF Agreeing, Conflict
  <2>3. CASE ~call[c].opener
    BY <1>1, <2>3, SettingsAssumption DEF CallSound, Conflict, DelaysAgree
  <2> QED
    BY <2>2, <2>3
<1>6. CallSound(c)'
  BY <1>1, <1>4, <1>5 DEF CallSound, Fits, Conflict, DelaysAgree
<1>7. /\ call' \in [Calls -> CallState]
      /\ \A d \in Calls \ {c} : call'[d] = call[d]
  BY <1>1, <1>2, <1>3
<1> QED
  BY <1>1, <1>6, <1>7, CallInv

LEMMA NextInv == IInv /\ [Next]_vars => IInv'
<1> SUFFICES ASSUME IInv, [Next]_vars PROVE IInv'
  OBVIOUS
<1>1. ASSUME NEW layer \in Layers, NEW on \in BOOLEAN, Switch(layer, on)
      PROVE  IInv'
  BY <1>1, SwitchInv
<1>2. ASSUME NEW name \in Numbers, NEW n \in 0 .. MaxWord, Set(name, n)
      PROVE  IInv'
  BY <1>2, SetInv
<1>3. ASSUME NEW c \in Calls, Start(c) PROVE IInv'
  BY <1>3, StartInv
<1>4. ASSUME NEW c \in Calls, ReadSwitch(c) PROVE IInv'
  BY <1>4, ReadSwitchInv
<1>5. ASSUME NEW c \in Calls, ReadNumber(c) PROVE IInv'
  BY <1>5, ReadNumberInv
<1>6. ASSUME NEW c \in Calls, SkipNumber(c) PROVE IInv'
  BY <1>6, SkipNumberInv
<1>7. ASSUME NEW c \in Calls, Return(c) PROVE IInv'
  BY <1>7, ReturnInv
<1>8. CASE UNCHANGED vars
  BY <1>8 DEF vars, IInv, TypeOK, CallSound, Agreeing, Fits, DelaysAgree, Conflict
<1> QED
  BY <1>1, <1>2, <1>3, <1>4, <1>5, <1>6, <1>7, <1>8 DEF Next

LEMMA Invariant == Spec => []IInv
BY InitInv, NextInv, PTL DEF Spec

-----------------------------------------------------------------------------
(* What a call finds that no SET comes between. *)

\* Where a setting comes in ReadOrder.
Place ==
  [timeout |-> 1, timeout_ms |-> 2, io_timeout_ms |-> 3,
   retry |-> 4, max_times |-> 5, min_delay_ms |-> 6, max_delay_ms |-> 7]

\* The result once n - 1 settings are read: those, and the defaults of the others.
SoFar(result, n) ==
  /\ \A layer \in Layers :
       result.enabled[layer] =
         IF Place[layer] < n THEN setting.enabled[layer] ELSE Default.enabled[layer]
  /\ \A name \in Numbers :
       result.value[name] =
         IF Place[name] < n /\ setting.enabled[LayerOf(name)] THEN setting.value[name]
         ELSE Default.value[name]

QuietSound(c) ==
  /\ call[c].phase = "idle" => call[c].next = 1 /\ call[c].result = Default
  /\ ~call[c].opener => call[c].result = Default
  /\ call[c].opener /\ call[c].quiet =>
       /\ call[c].phase = "reading" => SoFar(call[c].result, call[c].next)
       /\ call[c].phase \in {"built", "threw"} => call[c].result = Snapshot(setting)
  /\ call[c].phase = "threw" => Conflict(call[c].result)

QInv == \A c \in Calls : QuietSound(c)

\* The order of the reads: a number comes after the switch of its layer.
LEMMA Places ==
  /\ \A i \in 1 .. 7 : Place[ReadOrder[i]] = i
  /\ \A name \in Layers \cup Numbers : Place[name] \in 1 .. 7 /\ ReadOrder[Place[name]] = name
  /\ \A name \in Numbers : Place[LayerOf(name)] < Place[name]
BY DEF Place, ReadOrder, Layers, Numbers, Milliseconds, LayerOf

LEMMA InitQuiet == Init => QInv
<1> SUFFICES ASSUME Init, NEW c \in Calls PROVE QuietSound(c)
  BY DEF QInv
<1>1. /\ call[c].phase = "idle" /\ call[c].next = 1 /\ call[c].result = Default
  BY DEF Init
<1> QED BY <1>1 DEF QuietSound

\* A SET comes between every call, and changes no result.
LEMMA ChangeQuiet == ASSUME IInv, QInv, NEW new, Change(new) PROVE QInv'
<1> SUFFICES ASSUME NEW c \in Calls PROVE QuietSound(c)'
  BY DEF QInv
<1>1. call[c] \in CallState /\ QuietSound(c)
  BY DEF IInv, TypeOK, QInv
<1>2. /\ call'[c].phase = call[c].phase /\ call'[c].next = call[c].next
      /\ call'[c].opener = call[c].opener /\ call'[c].result = call[c].result
      /\ call'[c].quiet = FALSE
  BY <1>1 DEF Change, Watching, CallState
<1> QED BY <1>1, <1>2 DEF QuietSound, Conflict, DelaysAgree

LEMMA StepQuiet ==
  ASSUME QInv, UNCHANGED setting, NEW c \in Calls,
         \A d \in Calls \ {c} : call'[d] = call[d], QuietSound(c)'
  PROVE  QInv'
<1> SUFFICES ASSUME NEW d \in Calls, d # c PROVE QuietSound(d)'
  BY DEF QInv
<1>1. call'[d] = call[d] /\ QuietSound(d)
  BY DEF QInv
<1> QED BY <1>1 DEF QuietSound, SoFar, Snapshot, Conflict, DelaysAgree

LEMMA StartQuiet == ASSUME IInv, QInv, NEW c \in Calls, Start(c) PROVE QInv'
<1>1. /\ call[c] \in CallState /\ QuietSound(c) /\ call[c].phase = "idle"
      /\ call[c].next = 1 /\ call[c].result = Default
  BY DEF IInv, TypeOK, QInv, QuietSound, Start
<1>2. /\ call'[c].phase = "reading" /\ call'[c].next = 1
      /\ call'[c].opener = call[c].opener /\ call'[c].result = Default
      /\ UNCHANGED setting
      /\ \A d \in Calls \ {c} : call'[d] = call[d]
  BY <1>1 DEF Start, IInv, TypeOK, CallState
<1>3. SoFar(Default, 1)'
  BY Places, <1>2 DEF SoFar
<1>4. QuietSound(c)'
  BY <1>2, <1>3 DEF QuietSound
<1> QED BY <1>2, <1>4, StepQuiet

\* A call goes on with the result r.
LEMMA AdvanceQuiet ==
  ASSUME IInv, QInv, UNCHANGED setting, NEW c \in Calls, NEW r,
         call[c].phase = "reading", Advance(c, r),
         ~call[c].opener => r = Default,
         call[c].opener /\ call[c].quiet => SoFar(r, call[c].next + 1)
  PROVE  QInv'
<1>1. call[c] \in CallState
  BY DEF IInv, TypeOK
<1>2. /\ call'[c].phase = "reading" /\ call'[c].next = call[c].next + 1
      /\ call'[c].opener = call[c].opener /\ call'[c].quiet = call[c].quiet
      /\ call'[c].result = r
      /\ \A d \in Calls \ {c} : call'[d] = call[d]
  BY <1>1 DEF Advance, CallState
<1>3. SoFar(r, call[c].next + 1) => SoFar(call[c].result, call[c].next)'
  BY <1>2 DEF SoFar
<1>4. QuietSound(c)'
  BY <1>2, <1>3 DEF QuietSound
<1> QED BY <1>2, <1>4, StepQuiet

LEMMA ReadSwitchQuiet == ASSUME IInv, QInv, NEW c \in Calls, ReadSwitch(c) PROVE QInv'
<1>1. PICK layer \in Layers :
        /\ Reads(c, layer)
        /\ call' = [call EXCEPT ![c].next = @ + 1,
                                ![c].result.enabled[layer] = InForce(c).enabled[layer]]
        /\ UNCHANGED setting
  BY DEF ReadSwitch
<1> DEFINE r == [call[c].result EXCEPT !.enabled[layer] = InForce(c).enabled[layer]]
<1>2. /\ call[c] \in CallState /\ QuietSound(c) /\ setting \in Options
      /\ call[c].result \in Options /\ Default \in Options
  BY SettingsAssumption DEF IInv, TypeOK, CallState, QInv
<1>3. call[c].phase = "reading" /\ call[c].next \in 1 .. 7 /\ Place[layer] = call[c].next
  BY <1>1, <1>2, Places DEF Reads, CallState
<1>4. Advance(c, r)
  <2>1. call' = [d \in Calls |->
          IF d = c
          THEN [call[c] EXCEPT !.next = @ + 1,
                               !.result.enabled[layer] = InForce(c).enabled[layer]]
          ELSE call[d]]
    BY <1>1 DEF IInv, TypeOK
  <2>2. [call[c] EXCEPT !.next = @ + 1,
                        !.result.enabled[layer] = InForce(c).enabled[layer]]
          = [call[c] EXCEPT !.next = @ + 1, !.result = r]
    BY <1>2 DEF CallState
  <2> QED BY <2>1, <2>2 DEF Advance
<1>5. ASSUME ~call[c].opener PROVE r = Default
  BY <1>2, <1>5 DEF QuietSound, InForce, Options
<1>6. ASSUME call[c].opener, call[c].quiet PROVE SoFar(r, call[c].next + 1)
  <2>1. SoFar(call[c].result, call[c].next)
    BY <1>2, <1>3, <1>6 DEF QuietSound
  <2>2. /\ r.enabled[layer] = setting.enabled[layer]
        /\ \A l \in Layers \ {layer} : r.enabled[l] = call[c].result.enabled[l]
        /\ r.value = call[c].result.value
    BY <1>2, <1>6 DEF InForce, Options
  <2>3. /\ \A l \in Layers \ {layer} : Place[l] < call[c].next + 1 <=> Place[l] < call[c].next
        /\ \A n \in Numbers : Place[n] < call[c].next + 1 <=> Place[n] < call[c].next
    BY <1>3, Places DEF Layers, Numbers, Milliseconds
  <2> HIDE DEF r
  <2> QED BY <1>3, <2>1, <2>2, <2>3 DEF SoFar
<1> HIDE DEF r
<1> QED BY <1>1, <1>3, <1>4, <1>5, <1>6, AdvanceQuiet

LEMMA ReadNumberQuiet == ASSUME IInv, QInv, NEW c \in Calls, ReadNumber(c) PROVE QInv'
<1>1. PICK name \in Numbers :
        /\ Reads(c, name)
        /\ call[c].result.enabled[LayerOf(name)]
        /\ call' = [call EXCEPT ![c].next = @ + 1,
                                ![c].result.value[name] = InForce(c).value[name]]
        /\ UNCHANGED setting
  BY DEF ReadNumber
<1> DEFINE r == [call[c].result EXCEPT !.value[name] = InForce(c).value[name]]
<1>2. /\ call[c] \in CallState /\ QuietSound(c) /\ setting \in Options
      /\ call[c].result \in Options /\ Default \in Options
  BY SettingsAssumption DEF IInv, TypeOK, CallState, QInv
<1>3. call[c].phase = "reading" /\ call[c].next \in 1 .. 7 /\ Place[name] = call[c].next
  BY <1>1, <1>2, Places DEF Reads, CallState
<1>4. Advance(c, r)
  <2>1. call' = [d \in Calls |->
          IF d = c
          THEN [call[c] EXCEPT !.next = @ + 1,
                               !.result.value[name] = InForce(c).value[name]]
          ELSE call[d]]
    BY <1>1 DEF IInv, TypeOK
  <2>2. [call[c] EXCEPT !.next = @ + 1,
                        !.result.value[name] = InForce(c).value[name]]
          = [call[c] EXCEPT !.next = @ + 1, !.result = r]
    BY <1>2 DEF CallState
  <2> QED BY <2>1, <2>2 DEF Advance
<1>5. ASSUME ~call[c].opener PROVE r = Default
  BY <1>2, <1>5 DEF QuietSound, InForce, Options
<1>6. ASSUME call[c].opener, call[c].quiet PROVE SoFar(r, call[c].next + 1)
  <2>1. SoFar(call[c].result, call[c].next)
    BY <1>2, <1>3, <1>6 DEF QuietSound
  <2>2. /\ r.value[name] = setting.value[name]
        /\ \A n \in Numbers \ {name} : r.value[n] = call[c].result.value[n]
        /\ r.enabled = call[c].result.enabled
    BY <1>2, <1>6 DEF InForce, Options
  <2>3. /\ \A n \in Numbers \ {name} : Place[n] < call[c].next + 1 <=> Place[n] < call[c].next
        /\ \A l \in Layers : Place[l] < call[c].next + 1 <=> Place[l] < call[c].next
    BY <1>3, Places DEF Layers, Numbers, Milliseconds
  <2>4. setting.enabled[LayerOf(name)]
    BY <1>1, <1>3, <2>1, Places DEF SoFar, LayerOf, Layers
  <2> HIDE DEF r
  <2> QED BY <1>3, <2>1, <2>2, <2>3, <2>4 DEF SoFar
<1> HIDE DEF r
<1> QED BY <1>1, <1>3, <1>4, <1>5, <1>6, AdvanceQuiet

LEMMA SkipNumberQuiet == ASSUME IInv, QInv, NEW c \in Calls, SkipNumber(c) PROVE QInv'
<1>1. PICK name \in Numbers :
        /\ Reads(c, name)
        /\ ~call[c].result.enabled[LayerOf(name)]
        /\ call' = [call EXCEPT ![c].next = @ + 1]
        /\ UNCHANGED setting
  BY DEF SkipNumber
<1> DEFINE r == call[c].result
<1>2. call[c] \in CallState /\ QuietSound(c)
  BY DEF IInv, TypeOK, QInv
<1>3. call[c].phase = "reading" /\ call[c].next \in 1 .. 7 /\ Place[name] = call[c].next
  BY <1>1, <1>2, Places DEF Reads, CallState
<1>4. Advance(c, r)
  <2>1. call' = [d \in Calls |->
          IF d = c THEN [call[c] EXCEPT !.next = @ + 1] ELSE call[d]]
    BY <1>1 DEF IInv, TypeOK
  <2>2. [call[c] EXCEPT !.next = @ + 1] = [call[c] EXCEPT !.next = @ + 1, !.result = r]
    BY <1>2 DEF CallState
  <2> QED BY <2>1, <2>2 DEF Advance
<1>5. ~call[c].opener => r = Default
  BY <1>2 DEF QuietSound
<1>6. ASSUME call[c].opener, call[c].quiet PROVE SoFar(r, call[c].next + 1)
  <2>1. SoFar(r, call[c].next)
    BY <1>2, <1>3, <1>6 DEF QuietSound
  <2>2. /\ \A n \in Numbers \ {name} : Place[n] < call[c].next + 1 <=> Place[n] < call[c].next
        /\ \A l \in Layers : Place[l] < call[c].next + 1 <=> Place[l] < call[c].next
    BY <1>3, Places DEF Layers, Numbers, Milliseconds
  <2>3. ~setting.enabled[LayerOf(name)]
    BY <1>1, <1>3, <2>1, Places DEF SoFar, LayerOf, Layers
  <2> HIDE DEF r
  <2> QED BY <1>3, <2>1, <2>2, <2>3 DEF SoFar
<1> HIDE DEF r
<1> QED BY <1>1, <1>3, <1>4, <1>5, <1>6, AdvanceQuiet

LEMMA ReturnQuiet == ASSUME IInv, QInv, NEW c \in Calls, Return(c) PROVE QInv'
<1>1. /\ call[c] \in CallState /\ QuietSound(c)
      /\ call[c].phase = "reading" /\ call[c].next = 8
      /\ UNCHANGED setting /\ setting \in Options /\ call[c].result \in Options
      /\ Default \in Options
  BY SettingsAssumption DEF Return, IInv, TypeOK, QInv, CallState
<1>2. /\ call'[c].phase = IF Conflict(call[c].result) THEN "threw" ELSE "built"
      /\ call'[c].result = call[c].result
      /\ call'[c].opener = call[c].opener /\ call'[c].quiet = call[c].quiet
      /\ \A d \in Calls \ {c} : call'[d] = call[d]
  BY <1>1 DEF Return, IInv, TypeOK, CallState
<1>3. ASSUME call[c].opener, call[c].quiet PROVE call[c].result = Snapshot(setting)
  <2>1. SoFar(call[c].result, 8)
    BY <1>1, <1>3 DEF QuietSound
  <2>4. /\ \A layer \in Layers : Place[layer] < 8
        /\ \A name \in Numbers : Place[name] < 8
    BY Places
  <2>5. /\ call[c].result.enabled \in [Layers -> BOOLEAN]
        /\ setting.enabled \in [Layers -> BOOLEAN]
        /\ call[c].result.value \in [Numbers -> 1 .. MaxWord]
        /\ Default.value \in [Numbers -> 1 .. MaxWord]
    BY <1>1 DEF Options
  <2>6. \A layer \in Layers : call[c].result.enabled[layer] = setting.enabled[layer]
    BY <2>1, <2>4 DEF SoFar
  <2>2. call[c].result.enabled = setting.enabled
    <3> HIDE DEF Layers
    <3> QED BY <2>5, <2>6
  <2>7. \A name \in Numbers :
          call[c].result.value[name] = Snapshot(setting).value[name]
    BY <2>1, <2>4 DEF SoFar, Snapshot
  <2>3. call[c].result.value = Snapshot(setting).value
    <3>1. Snapshot(setting).value =
            [name \in Numbers |-> Snapshot(setting).value[name]]
      BY DEF Snapshot
    <3> QED BY <2>5, <2>7, <3>1
  <2> QED BY <1>1, <2>2, <2>3 DEF Options, Snapshot
<1>4. Snapshot(setting)' = Snapshot(setting)
  BY <1>1 DEF Snapshot
<1>5. QuietSound(c)'
  BY <1>1, <1>2, <1>3, <1>4 DEF QuietSound, Conflict, DelaysAgree
<1> QED BY <1>1, <1>2, <1>5, StepQuiet

LEMMA NextQuiet == IInv /\ QInv /\ [Next]_vars => QInv'
<1> SUFFICES ASSUME IInv, QInv, [Next]_vars PROVE QInv'
  OBVIOUS
<1>1. ASSUME NEW layer \in Layers, NEW on \in BOOLEAN, Switch(layer, on) PROVE QInv'
  BY <1>1, ChangeQuiet DEF Switch
<1>2. ASSUME NEW name \in Numbers, NEW n \in 0 .. MaxWord, Set(name, n) PROVE QInv'
  BY <1>2, ChangeQuiet DEF Set
<1>3. ASSUME NEW c \in Calls, Start(c) PROVE QInv'
  BY <1>3, StartQuiet
<1>4. ASSUME NEW c \in Calls, ReadSwitch(c) PROVE QInv'
  BY <1>4, ReadSwitchQuiet
<1>5. ASSUME NEW c \in Calls, ReadNumber(c) PROVE QInv'
  BY <1>5, ReadNumberQuiet
<1>6. ASSUME NEW c \in Calls, SkipNumber(c) PROVE QInv'
  BY <1>6, SkipNumberQuiet
<1>7. ASSUME NEW c \in Calls, Return(c) PROVE QInv'
  BY <1>7, ReturnQuiet
<1>8. CASE UNCHANGED vars
  BY <1>8 DEF vars, QInv, QuietSound, SoFar, Snapshot, Conflict, DelaysAgree
<1> QED BY <1>1, <1>2, <1>3, <1>4, <1>5, <1>6, <1>7, <1>8 DEF Next

-----------------------------------------------------------------------------
\* Whatever is SET, in whatever order, the settings in force and the results of
\* calls are typed, and the nanoseconds of every duration in force fit a word.
THEOREM TypeCorrect == Spec => []TypeOK
<1>1. IInv => TypeOK
  BY DEF IInv
<1> QED
  BY <1>1, Invariant, PTL

\* No operator is built with a timeout of zero, a duration that overflows, or
\* delays that disagree, for every interleaving of SETs and reads.
THEOREM Usability == Spec => []BuiltIsUsable
<1>1. IInv => BuiltIsUsable
  <2> SUFFICES ASSUME IInv, NEW c \in Calls, call[c].phase = "built"
               PROVE  Usable(call[c].result)
    BY DEF BuiltIsUsable
  <2> DEFINE r == call[c].result
  <2>1. Fits(r) /\ ~Conflict(r) /\ r \in Options
    BY DEF IInv, TypeOK, CallState, CallSound
  <2>2. MaxWord \in Nat /\ NanosPerMilli \in Nat /\ NanosPerMilli >= 1
    BY SettingsAssumption
  <2> HIDE DEF r
  <2>3. ASSUME NEW name \in Milliseconds
        PROVE  r.value[name] * NanosPerMilli \in 1 .. MaxWord
    <3> DEFINE n == r.value[name]
    <3>1. n \in Nat /\ n >= 1 /\ n * NanosPerMilli <= MaxWord
      BY <2>1, <2>2 DEF Fits, Options, Numbers
    <3> HIDE DEF n
    <3>2. n * NanosPerMilli \in Nat /\ n * NanosPerMilli >= 1
      BY <2>2, <3>1, Z3
    <3>3. n * NanosPerMilli \in 1 .. MaxWord
      BY <2>2, <3>1, <3>2
    <3> QED
      BY <3>3 DEF n
  <2>4. Usable(r)
    BY <2>1, <2>3 DEF Usable, Conflict, Milliseconds
  <2> QED
    BY <2>4 DEF r
<1> QED
  BY <1>1, Invariant, PTL

\* A call that reads its settings while others SET them does not throw for a pair
\* of delays that was never in force, as long as max_delay_ms is only raised.
THEOREM SteadySuccess == Spec => []SteadyCallSucceeds
<1>1. IInv => SteadyCallSucceeds
  BY DEF IInv, CallSound, SteadyCallSucceeds
<1> QED
  BY <1>1, Invariant, PTL

\* For any defaults and any word, FromSettings without a SET between returns what is
\* in force, every default of a layer that is off included, and throws only if the
\* delays in force conflict.
THEOREM QuietExact == Spec => []QuietCallExact
<1>1. QInv => QuietCallExact
  BY DEF QInv, QuietSound, QuietCallExact
<1>2. Spec => []QInv
  BY InitQuiet, NextQuiet, Invariant, PTL DEF Spec
<1> QED BY <1>1, <1>2, PTL
=============================================================================
