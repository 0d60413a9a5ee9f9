------------------------ MODULE CircuitBreakerProofs ------------------------
(***************************************************************************)
(* Safety of CircuitBreaker for any finite set of calls and any            *)
(* configuration that CircuitBreakerConfig accepts.                        *)
(*                                                                         *)
(* TypeOK and OutageBookkeeping are inductive together.  NoLeakedSlot is   *)
(* not: a cancelled call takes itself out of probes and a slot out of the  *)
(* counter, and that keeps the order of the two numbers only because the   *)
(* calls in probes are calls that are running.  ProbesRun says so, and     *)
(* IInv is the conjunction.                                                *)
(***************************************************************************)
EXTENDS CircuitBreaker, FiniteSetTheorems, TLAPS

\* The calls in probes are running, and there are some only while HALF_OPEN.
ProbesRun ==
    /\ \A c \in probes : Running(c)
    /\ breaker.state # "HALF_OPEN" => probes = {}

IInv == TypeOK /\ OutageBookkeeping /\ ProbesRun /\ NoLeakedSlot

USE BreakerConfigAssumption, CallsAssumption DEF BreakerConfigAssumption, CallsAssumption

-----------------------------------------------------------------------------
\* _transition keeps the fields in range and reaches the state it is given.
LEMMA TransitionFields ==
    ASSUME NEW b \in Breaker
    PROVE  /\ \A new \in CircuitState :
                 Transition(b, new) \in Breaker /\ Transition(b, new).state = new
           /\ b.state # "HALF_OPEN" =>
                 Transition(b, "HALF_OPEN").half_open_calls_in_flight = 0
<1> DEFINE opened == [b EXCEPT !.state = "OPEN", !.opened_for = 0]
           closed == [b EXCEPT !.state = "CLOSED", !.failure_count = 0,
                               !.opened_for = NotOpened]
           halved == [b EXCEPT !.state = "HALF_OPEN", !.half_open_calls_in_flight = 0]
<1>1. opened \in Breaker /\ opened.state = "OPEN"
  <2> DEFINE x == [b EXCEPT !.state = "OPEN"]
  <2>1. x \in Breaker /\ x.state = "OPEN"
    BY DEF Breaker, CircuitState
  <2>2. opened = [x EXCEPT !.opened_for = 0]
    OBVIOUS
  <2> HIDE DEF opened, x
  <2> QED BY <2>1, <2>2 DEF Breaker
<1>2. closed \in Breaker /\ closed.state = "CLOSED"
  <2> DEFINE x == [b EXCEPT !.state = "CLOSED"]
             y == [x EXCEPT !.failure_count = 0]
  <2>1. x \in Breaker /\ x.state = "CLOSED"
    BY DEF Breaker, CircuitState
  <2>2. closed = [y EXCEPT !.opened_for = NotOpened]
    OBVIOUS
  <2>3. y \in Breaker /\ y.state = "CLOSED"
    <3> HIDE DEF x
    <3> QED BY <2>1 DEF Breaker
  <2> HIDE DEF closed, y
  <2> QED BY <2>2, <2>3 DEF Breaker
<1>3. /\ halved \in Breaker /\ halved.state = "HALF_OPEN"
      /\ halved.half_open_calls_in_flight = 0
  <2> DEFINE x == [b EXCEPT !.state = "HALF_OPEN"]
  <2>1. x \in Breaker /\ x.state = "HALF_OPEN"
    BY DEF Breaker, CircuitState
  <2>2. halved = [x EXCEPT !.half_open_calls_in_flight = 0]
    OBVIOUS
  <2> HIDE DEF halved, x
  <2> QED BY <2>1, <2>2 DEF Breaker
<1>4. Transition(b, "OPEN") = IF b.state = "OPEN" THEN b ELSE opened
  BY DEF Transition
<1>5. Transition(b, "CLOSED") = IF b.state = "CLOSED" THEN b ELSE closed
  BY DEF Transition
<1>6. Transition(b, "HALF_OPEN") = IF b.state = "HALF_OPEN" THEN b ELSE halved
  BY DEF Transition
<1> HIDE DEF opened, closed, halved
<1> QED BY <1>1, <1>2, <1>3, <1>4, <1>5, <1>6 DEF CircuitState

\* Every method of the breaker keeps its fields in range; _before_call only
\* for a call it admits, or the probe counter would pass its limit.
LEMMA BreakerStepTypes ==
    ASSUME NEW b \in Breaker
    PROVE  /\ Admits(b) => BeforeCall(b) \in Breaker
           /\ OnSuccess(b) \in Breaker
           /\ OnFailure(b) \in Breaker
           /\ OnAbandoned(b) \in Breaker
           /\ Elapse(b) \in Breaker
<1>1. Admits(b) => BeforeCall(b) \in Breaker
  <2> DEFINE entered == IF b.state = "OPEN" THEN Transition(b, "HALF_OPEN") ELSE b
  <2> SUFFICES ASSUME Admits(b) PROVE BeforeCall(b) \in Breaker
    OBVIOUS
  <2>1. entered \in Breaker
    BY TransitionFields DEF CircuitState
  <2>2. entered.state = "HALF_OPEN" =>
          entered.half_open_calls_in_flight < HalfOpenMaxCalls
    BY TransitionFields DEF Admits
  <2>3. [entered EXCEPT !.half_open_calls_in_flight = @ + 1] \in Breaker
          \/ entered.state # "HALF_OPEN"
    <3> HIDE DEF entered
    <3> QED BY <2>1, <2>2 DEF Breaker
  <2> QED BY <2>1, <2>3 DEF BeforeCall
<1>2. OnSuccess(b) \in Breaker
  <2>1. [b EXCEPT !.failure_count = 0] \in Breaker
    BY DEF Breaker
  <2> QED BY <2>1, TransitionFields DEF OnSuccess, CircuitState
<1>3. OnFailure(b) \in Breaker
  <2> DEFINE count == IF b.failure_count < MaxFailureCount
                      THEN b.failure_count + 1 ELSE MaxFailureCount
             counted == [b EXCEPT !.failure_count = count]
  <2>1. counted \in Breaker
    BY DEF Breaker
  <2>2. Transition(counted, "OPEN") \in Breaker
    <3> HIDE DEF counted
    <3> QED BY <2>1, TransitionFields DEF CircuitState
  <2>3. Transition(b, "OPEN") \in Breaker
    BY TransitionFields DEF CircuitState
  <2>4. OnFailure(b) \in {Transition(b, "OPEN"), Transition(counted, "OPEN"), counted}
    BY Zenon DEF OnFailure
  <2> QED BY <2>1, <2>2, <2>3, <2>4
<1>4. OnAbandoned(b) \in Breaker
  BY DEF OnAbandoned, Breaker
<1>5. Elapse(b) \in Breaker
  BY DEF Elapse, Breaker, NotOpened
<1> QED BY <1>1, <1>2, <1>3, <1>4, <1>5

\* What OutageBookkeeping says of one breaker record.
Kept(b) ==
    /\ b.state = "CLOSED" =>
          b.failure_count < FailureThreshold /\ b.opened_for = NotOpened
    /\ b.state # "CLOSED" =>
          b.failure_count >= FailureThreshold /\ b.opened_for # NotOpened
    /\ b.state = "HALF_OPEN" => b.opened_for = RecoveryTimeout

\* Every method of the breaker keeps the count and the opening time in step
\* with the state.
LEMMA BreakerStepKeeps ==
    ASSUME NEW b \in Breaker, Kept(b)
    PROVE  /\ Admits(b) => Kept(BeforeCall(b))
           /\ Kept(OnSuccess(b))
           /\ Kept(OnFailure(b))
           /\ Kept(OnAbandoned(b))
           /\ Kept(Elapse(b))
<1> USE DEF Breaker, CircuitState, NotOpened, Transition, Kept
<1>1. Admits(b) => Kept(BeforeCall(b))
  <2>1. CASE b.state = "OPEN"
    <3>1. Transition(b, "HALF_OPEN") =
            [b EXCEPT !.state = "HALF_OPEN", !.half_open_calls_in_flight = 0]
      BY <2>1
    <3>2. BeforeCall(b) =
            [Transition(b, "HALF_OPEN") EXCEPT !.half_open_calls_in_flight = @ + 1]
      BY <2>1, TransitionFields DEF BeforeCall
    <3>3. Admits(b) => b.opened_for = RecoveryTimeout
      BY <2>1 DEF Admits, AllowsCalls
    <3> QED BY <2>1, <3>1, <3>2, <3>3
  <2>2. CASE b.state # "OPEN"
    BY <2>2 DEF BeforeCall
  <2> QED BY <2>1, <2>2
<1>2. Kept(OnSuccess(b))
  BY DEF OnSuccess
<1>3. Kept(OnFailure(b))
  BY DEF OnFailure
<1>4. Kept(OnAbandoned(b))
  BY DEF OnAbandoned
<1>5. Kept(Elapse(b))
  BY DEF Elapse
<1> QED BY <1>1, <1>2, <1>3, <1>4, <1>5

\* What _before_call does to the probe counter, by the state it meets.
LEMMA BeforeCallSlots ==
    ASSUME NEW b \in Breaker, Admits(b)
    PROVE  /\ b.state = "CLOSED" => BeforeCall(b) = b
           /\ b.state = "OPEN" =>
                /\ BeforeCall(b).state = "HALF_OPEN"
                /\ BeforeCall(b).half_open_calls_in_flight = 1
           /\ b.state = "HALF_OPEN" =>
                /\ BeforeCall(b).state = "HALF_OPEN"
                /\ BeforeCall(b).half_open_calls_in_flight =
                       b.half_open_calls_in_flight + 1
<1>1. CASE b.state = "OPEN"
  <2> DEFINE entered == Transition(b, "HALF_OPEN")
  <2>1. /\ entered \in Breaker /\ entered.state = "HALF_OPEN"
        /\ entered.half_open_calls_in_flight = 0
    BY <1>1, TransitionFields DEF CircuitState
  <2>2. BeforeCall(b) = [entered EXCEPT !.half_open_calls_in_flight = @ + 1]
    BY <1>1, <2>1 DEF BeforeCall
  <2> HIDE DEF entered
  <2> QED BY <1>1, <2>1, <2>2 DEF Breaker
<1>2. CASE b.state # "OPEN"
  BY <1>2 DEF BeforeCall, Breaker
<1> QED BY <1>1, <1>2

\* What the three ways of reporting back do to the state: a HALF_OPEN breaker
\* leaves on every report but an abandoned call, and no report enters HALF_OPEN.
LEMMA ReportStates ==
    ASSUME NEW b \in Breaker
    PROVE  /\ OnSuccess(b).state # "HALF_OPEN"
           /\ OnFailure(b).state # "HALF_OPEN"
           /\ OnAbandoned(b).state = b.state
           /\ OnAbandoned(b).half_open_calls_in_flight =
                 IF b.state = "HALF_OPEN" /\ b.half_open_calls_in_flight > 0
                 THEN b.half_open_calls_in_flight - 1
                 ELSE b.half_open_calls_in_flight
<1>1. OnSuccess(b).state # "HALF_OPEN"
  BY TransitionFields DEF OnSuccess, Breaker, CircuitState
<1>2. OnFailure(b).state # "HALF_OPEN"
  <2> DEFINE count == IF b.failure_count < MaxFailureCount
                      THEN b.failure_count + 1 ELSE MaxFailureCount
             counted == [b EXCEPT !.failure_count = count]
  <2>1. counted \in Breaker /\ counted.state = b.state
    BY DEF Breaker
  <2>2. OnFailure(b) \in {Transition(b, "OPEN"), Transition(counted, "OPEN"), counted}
    BY Zenon DEF OnFailure
  <2>3. OnFailure(b) = counted => b.state # "HALF_OPEN"
          \/ OnFailure(b) = Transition(b, "OPEN")
    BY DEF OnFailure
  <2>4. /\ Transition(b, "OPEN").state = "OPEN"
        /\ Transition(counted, "OPEN").state = "OPEN"
    <3> HIDE DEF counted
    <3> QED BY <2>1, TransitionFields DEF CircuitState
  <2> HIDE DEF counted
  <2> QED BY <2>1, <2>2, <2>3, <2>4
<1>3. /\ OnAbandoned(b).state = b.state
      /\ OnAbandoned(b).half_open_calls_in_flight =
            IF b.state = "HALF_OPEN" /\ b.half_open_calls_in_flight > 0
            THEN b.half_open_calls_in_flight - 1
            ELSE b.half_open_calls_in_flight
  BY DEF OnAbandoned, Breaker
<1> QED BY <1>1, <1>2, <1>3

-----------------------------------------------------------------------------
LEMMA InitEstablishes == Init => IInv
<1> SUFFICES ASSUME Init PROVE IInv
  OBVIOUS
<1>1. TypeOK
  BY DEF Init, TypeOK, InitBreaker, Breaker, CircuitState, NotOpened, FailureTypes
<1>2. OutageBookkeeping /\ ProbesRun /\ NoLeakedSlot
  BY DEF Init, OutageBookkeeping, ProbesRun, NoLeakedSlot, InitBreaker
<1> QED BY <1>1, <1>2 DEF IInv

\* An admitted call: it takes a slot and joins probes in the same step.
LEMMA EnterPreserves ==
    ASSUME IInv, NEW c \in Calls, NEW failure_types \in FailureTypes,
           Enter(c, failure_types)
    PROVE  IInv'
<1>1. /\ breaker \in Breaker /\ Admits(breaker) /\ breaker' = BeforeCall(breaker)
      /\ breaker' \in Breaker
  BY BreakerStepTypes DEF IInv, TypeOK, Enter
<1>2. TypeOK'
  BY <1>1 DEF IInv, TypeOK, Enter, FailureTypes
<1>3. OutageBookkeeping'
  BY <1>1, BreakerStepKeeps DEF IInv, OutageBookkeeping, Kept
<1>4. c \notin probes
  BY DEF IInv, ProbesRun, Enter
<1>5. ProbesRun'
  <2>1. Running(c)' /\ \A d \in Calls : Running(d) => Running(d)'
    BY DEF IInv, TypeOK, Enter, Running, FailureTypes
  <2>2. probes' \subseteq probes \cup {c}
    BY DEF Enter
  <2>3. breaker'.state # "HALF_OPEN" => probes' = {}
    BY <1>1, BeforeCallSlots DEF IInv, ProbesRun, Enter, Breaker, CircuitState
  <2> QED BY <2>1, <2>2, <2>3 DEF IInv, TypeOK, ProbesRun
<1>6. NoLeakedSlot'
  <2>1. IsFiniteSet(probes)
    BY FS_Subset DEF IInv, TypeOK
  <2>2. CASE breaker.state = "OPEN"
    <3>1. probes' = {c} /\ breaker'.half_open_calls_in_flight = 1
      BY <1>1, <2>2, BeforeCallSlots DEF Enter
    <3> QED BY <3>1, FS_Singleton DEF NoLeakedSlot
  <2>3. CASE breaker.state = "HALF_OPEN"
    <3>1. /\ probes' = probes \cup {c}
          /\ breaker'.half_open_calls_in_flight =
                 breaker.half_open_calls_in_flight + 1
      BY <1>1, <2>3, BeforeCallSlots DEF Enter
    <3>2. Cardinality(probes') = Cardinality(probes) + 1
      BY <1>4, <2>1, <3>1, FS_AddElement
    <3>3. /\ Cardinality(probes) \in Nat
          /\ breaker.half_open_calls_in_flight \in Nat
          /\ breaker.half_open_calls_in_flight <= Cardinality(probes)
      BY <1>1, <2>1, <2>3, FS_CardinalityType DEF IInv, NoLeakedSlot, Breaker
    <3> QED BY <3>1, <3>2, <3>3 DEF NoLeakedSlot
  <2>4. CASE breaker.state = "CLOSED"
    BY <1>1, <2>4, BeforeCallSlots DEF NoLeakedSlot
  <2> QED BY <1>1, <2>2, <2>3, <2>4 DEF Breaker, CircuitState
<1> QED BY <1>2, <1>3, <1>5, <1>6 DEF IInv

\* The facts about a report that do not depend on what was reported.
LEMMA ReportPreserves ==
    ASSUME IInv, NEW c \in Calls, NEW next \in Breaker, Kept(next), Report(c, next),
           next.state # "HALF_OPEN"
             \/ /\ next.state = breaker.state
                /\ next.half_open_calls_in_flight <= Cardinality(probes \ {c})
    PROVE  IInv'
<1>1. TypeOK'
  BY DEF IInv, TypeOK, Report
<1>2. OutageBookkeeping'
  BY DEF Report, OutageBookkeeping, Kept
<1>3. ProbesRun'
  <2>1. \A d \in Calls \ {c} : Running(d) => Running(d)'
    BY DEF IInv, TypeOK, Report, Running
  <2>2. probes' \subseteq probes \ {c} /\ (breaker'.state # "HALF_OPEN" => probes' = {})
    BY DEF Report
  <2> QED BY <2>1, <2>2 DEF IInv, TypeOK, ProbesRun
<1>4. NoLeakedSlot'
  BY DEF Report, NoLeakedSlot
<1> QED BY <1>1, <1>2, <1>3, <1>4 DEF IInv

\* A cancelled call that gives back a slot leaves no more taken slots than
\* running probes, whether it was one of them or not.
LEMMA AbandonedSlots ==
    ASSUME IInv, NEW c \in Calls, breaker.state = "HALF_OPEN"
    PROVE  OnAbandoned(breaker).half_open_calls_in_flight <= Cardinality(probes \ {c})
<1>1. IsFiniteSet(probes) /\ IsFiniteSet(probes \ {c})
  BY FS_Subset DEF IInv, TypeOK
<1>2. Cardinality(probes \ {c}) =
         IF c \in probes THEN Cardinality(probes) - 1 ELSE Cardinality(probes)
  BY <1>1, FS_RemoveElement
<1>3. /\ Cardinality(probes) \in Nat /\ Cardinality(probes \ {c}) \in Nat
      /\ breaker.half_open_calls_in_flight \in Nat
      /\ breaker.half_open_calls_in_flight <= Cardinality(probes)
  BY <1>1, FS_CardinalityType DEF IInv, TypeOK, NoLeakedSlot, Breaker
<1>4. OnAbandoned(breaker).half_open_calls_in_flight =
         IF breaker.half_open_calls_in_flight > 0
         THEN breaker.half_open_calls_in_flight - 1
         ELSE breaker.half_open_calls_in_flight
  BY ReportStates DEF IInv, TypeOK
<1> QED BY <1>2, <1>3, <1>4

LEMMA NextPreserves == IInv /\ [Next]_vars => IInv'
<1> SUFFICES ASSUME IInv, [Next]_vars PROVE IInv'
  OBVIOUS
<1>1. /\ breaker \in Breaker
      /\ Kept(breaker)
  BY DEF IInv, TypeOK, OutageBookkeeping, Kept
<1>2. ASSUME NEW c \in Calls, NEW failure_types \in FailureTypes,
             Enter(c, failure_types)
      PROVE  IInv'
  BY <1>2, EnterPreserves
<1>3. ASSUME NEW c \in Calls, Succeed(c) PROVE IInv'
  BY <1>1, <1>3, BreakerStepTypes, BreakerStepKeeps, ReportStates, ReportPreserves
     DEF Succeed
<1>4. ASSUME NEW c \in Calls, FailInfra(c) PROVE IInv'
  BY <1>1, <1>4, BreakerStepTypes, BreakerStepKeeps, ReportStates, ReportPreserves
     DEF FailInfra
<1>5. ASSUME NEW c \in Calls, FailOther(c) PROVE IInv'
  <2>1. Report(c, OnFailure(breaker)) \/ Report(c, OnSuccess(breaker))
    BY <1>5 DEF FailOther
  <2> QED BY <1>1, <2>1, BreakerStepTypes, BreakerStepKeeps, ReportStates,
             ReportPreserves
<1>6. ASSUME NEW c \in Calls, Abandon(c) PROVE IInv'
  <2>1. Report(c, OnAbandoned(breaker))
    BY <1>6 DEF Abandon
  <2>2. OnAbandoned(breaker) \in Breaker /\ Kept(OnAbandoned(breaker))
    BY <1>1, BreakerStepTypes, BreakerStepKeeps
  <2>3. OnAbandoned(breaker).state = breaker.state
    BY <1>1, ReportStates
  <2> QED BY <1>1, <2>1, <2>2, <2>3, AbandonedSlots, ReportPreserves
<1>7. CASE Tick
  <2>1. breaker' \in Breaker /\ Kept(breaker')
    BY <1>1, <1>7, BreakerStepTypes, BreakerStepKeeps DEF Tick
  <2>2. /\ breaker'.state = breaker.state
        /\ breaker'.half_open_calls_in_flight = breaker.half_open_calls_in_flight
    BY <1>1, <1>7 DEF Tick, Elapse, Breaker
  <2> QED BY <1>7, <2>1, <2>2
       DEF IInv, Tick, TypeOK, OutageBookkeeping, Kept, ProbesRun, NoLeakedSlot, Running
<1>8. CASE UNCHANGED vars
  BY <1>8 DEF IInv, TypeOK, OutageBookkeeping, ProbesRun, NoLeakedSlot, Running, vars
<1>9. ASSUME NEW c \in Calls, Reject(c) PROVE IInv'
  BY <1>8, <1>9 DEF Reject
<1> QED BY <1>2, <1>3, <1>4, <1>5, <1>6, <1>7, <1>8, <1>9 DEF Next

\* The strengthening of the three invariants below holds in every reachable
\* state.
THEOREM Inductive == Spec => []IInv
<1>1. Init => IInv
  BY InitEstablishes
<1>2. IInv /\ [Next]_vars => IInv'
  BY NextPreserves
<1> QED BY <1>1, <1>2, PTL DEF Spec

\* The breaker's fields stay in their ranges; in particular the probe counter
\* never leaves 0..half_open_max_calls, whatever calls _on_abandoned takes for
\* probes.
THEOREM TypeCorrect == Spec => []TypeOK
<1>1. IInv => TypeOK
  BY DEF IInv
<1> QED BY <1>1, Inductive, PTL

\* The failure count and _opened_at agree with the state, so the two asserts
\* on _opened_at never fail.
THEOREM BookkeepingHolds == Spec => []OutageBookkeeping
<1>1. IInv => OutageBookkeeping
  BY DEF IInv
<1> QED BY <1>1, Inductive, PTL

\* A taken probe slot always belongs to a probe that is still running.
THEOREM SlotsNeverLeak == Spec => []NoLeakedSlot
<1>1. IInv => NoLeakedSlot
  BY DEF IInv
<1> QED BY <1>1, Inductive, PTL

-----------------------------------------------------------------------------
\* One step of the documented state machine that restarts no outage.
Documented(b, next) ==
    /\ next.state # b.state =>
          <<b.state, next.state>> \in
              { <<"CLOSED", "OPEN">>, <<"OPEN", "HALF_OPEN">>,
                <<"HALF_OPEN", "CLOSED">>, <<"HALF_OPEN", "OPEN">> }
    /\ b.state = "OPEN" /\ next.state = "OPEN" => next.opened_for >= b.opened_for

LEMMA BreakerStepDocumented ==
    ASSUME NEW b \in Breaker
    PROVE  /\ Admits(b) => Documented(b, BeforeCall(b))
           /\ Documented(b, OnSuccess(b))
           /\ Documented(b, OnFailure(b))
           /\ Documented(b, OnAbandoned(b))
           /\ Documented(b, Elapse(b))
           /\ Documented(b, b)
<1>1. Admits(b) => Documented(b, BeforeCall(b))
  BY BeforeCallSlots DEF Documented, Breaker, CircuitState
<1>2. Documented(b, OnSuccess(b))
  BY TransitionFields DEF Documented, OnSuccess, Breaker, CircuitState, NotOpened
<1>3. Documented(b, OnFailure(b))
  <2> DEFINE count == IF b.failure_count < MaxFailureCount
                      THEN b.failure_count + 1 ELSE MaxFailureCount
             counted == [b EXCEPT !.failure_count = count]
  <2>1. /\ counted \in Breaker /\ counted.state = b.state
        /\ counted.opened_for = b.opened_for
    BY DEF Breaker
  <2>2. CASE b.state = "HALF_OPEN"
    BY <2>2, TransitionFields DEF OnFailure, Documented, CircuitState
  <2>3. CASE b.state # "HALF_OPEN"
    <3>1. OnFailure(b) \in {Transition(counted, "OPEN"), counted}
      BY <2>3 DEF OnFailure
    <3>2. /\ Transition(counted, "OPEN").state = "OPEN"
          /\ counted.state = "OPEN" => Transition(counted, "OPEN") = counted
      <4>1. Transition(counted, "OPEN").state = "OPEN"
        <5> HIDE DEF counted
        <5> QED BY <2>1, TransitionFields DEF CircuitState
      <4>2. counted.state = "OPEN" => Transition(counted, "OPEN") = counted
        BY DEF Transition
      <4> QED BY <4>1, <4>2
    <3> HIDE DEF counted
    <3>3. b.state \in {"CLOSED", "OPEN"} /\ b.opened_for \in Int
      BY <2>3 DEF Breaker, CircuitState, NotOpened
    <3> QED BY <2>1, <3>1, <3>2, <3>3 DEF Documented
  <2> QED BY <2>2, <2>3
<1>4. Documented(b, OnAbandoned(b))
  BY DEF Documented, OnAbandoned, Breaker, NotOpened
<1>5. Documented(b, Elapse(b))
  BY DEF Documented, Elapse, Breaker, NotOpened
<1>6. Documented(b, b)
  BY DEF Documented, Breaker, NotOpened
<1> QED BY <1>1, <1>2, <1>3, <1>4, <1>5, <1>6

LEMMA NextDocumented ==
    ASSUME TypeOK, [Next]_vars
    PROVE  Documented(breaker, breaker')
<1>1. breaker \in Breaker
  BY DEF TypeOK
<1>2. \/ Admits(breaker) /\ breaker' = BeforeCall(breaker)
      \/ breaker' \in {OnSuccess(breaker), OnFailure(breaker), OnAbandoned(breaker),
                        Elapse(breaker), breaker}
  BY DEF Next, vars, Enter, Reject, Succeed, FailInfra, FailOther, Abandon, Tick, Report
<1> QED BY <1>1, <1>2, BreakerStepDocumented

\* The breaker follows the docstring's state machine under any interleaving of
\* late reports: no late success closes an open breaker.
THEOREM FollowsStateMachine == Spec => DocumentedTransitions
<1>1. TypeOK /\ [Next]_vars =>
        [ breaker'.state # breaker.state =>
            <<breaker.state, breaker'.state>> \in
                { <<"CLOSED", "OPEN">>, <<"OPEN", "HALF_OPEN">>,
                  <<"HALF_OPEN", "CLOSED">>, <<"HALF_OPEN", "OPEN">> } ]_vars
  BY NextDocumented DEF Documented
<1> QED BY <1>1, TypeCorrect, PTL DEF Spec, DocumentedTransitions

\* However many stragglers fail during an outage, the recovery timeout still
\* counts from the moment the breaker opened.
THEOREM OutageStaysBounded == Spec => OutageNotExtended
<1>1. TypeOK /\ [Next]_vars =>
        [ breaker.state = "OPEN" /\ breaker'.state = "OPEN" =>
            breaker'.opened_for >= breaker.opened_for ]_vars
  BY NextDocumented DEF Documented
<1> QED BY <1>1, TypeCorrect, PTL DEF Spec, OutageNotExtended

=============================================================================
