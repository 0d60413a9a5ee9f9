--------------------------- MODULE CircuitBreaker ---------------------------
(***************************************************************************)
(* One CircuitBreaker shared by concurrent guarded calls: what guard() and *)
(* call() do around the block they protect.  A call is admitted in one     *)
(* step, runs for as long as it likes, and reports back in one step, so    *)
(* the report may reach a breaker that has changed state since (a          *)
(* "straggler").  The caller chooses failure_types, as the adapters do:    *)
(* "any" is guard() without it (call(), pings, health checks) and "infra"  *)
(* is guard(failure_types=INFRASTRUCTURE_FAILURES) (acquire()).            *)
(*                                                                         *)
(* probes is a history variable: the calls admitted by the breaker since   *)
(* it last became HALF_OPEN that have not reported yet.  The code keeps    *)
(* only a counter of them.                                                 *)
(***************************************************************************)
EXTENDS BreakerState, FiniteSets

CONSTANT Calls   \* the calls that may be in flight at the same time

ASSUME CallsAssumption == IsFiniteSet(Calls)

VARIABLES
    breaker,   \* the breaker's fields
    guard,     \* guard[c]: "idle", or the failure_types of the running call c
    probes     \* history: unreported calls admitted in this half-open period

vars == <<breaker, guard, probes>>

FailureTypes == {"any", "infra"}

TypeOK ==
    /\ breaker \in Breaker
    /\ guard \in [Calls -> {"idle"} \cup FailureTypes]
    /\ probes \subseteq Calls

Init ==
    /\ breaker = InitBreaker
    /\ guard = [c \in Calls |-> "idle"]
    /\ probes = {}

Running(c) == guard[c] # "idle"

-----------------------------------------------------------------------------
\* guard(): the call passes _before_call and its block starts.
Enter(c, failure_types) ==
    /\ ~Running(c)
    /\ Admits(breaker)
    /\ breaker' = BeforeCall(breaker)
    /\ guard' = [guard EXCEPT ![c] = failure_types]
    /\ probes' = IF breaker'.state # "HALF_OPEN" THEN probes
                 ELSE IF breaker.state = "HALF_OPEN" THEN probes \cup {c}
                 ELSE {c}

\* guard(): _before_call raises CircuitBreakerOpenError and changes nothing.
Reject(c) ==
    /\ ~Running(c)
    /\ ~Admits(breaker)
    /\ UNCHANGED vars

\* The block of c ended and the breaker recorded it as next.
Report(c, next) ==
    /\ Running(c)
    /\ breaker' = next
    /\ guard' = [guard EXCEPT ![c] = "idle"]
    /\ probes' = IF breaker'.state = "HALF_OPEN" THEN probes \ {c} ELSE {}

\* The block returned.
Succeed(c) == Report(c, OnSuccess(breaker))

\* The block raised one of INFRASTRUCTURE_FAILURES.
FailInfra(c) == Report(c, OnFailure(breaker))

\* The block raised another exception: with failure_types given, the backend
\* has answered and that is a success.
FailOther(c) ==
    Report(c, IF guard[c] = "any" THEN OnFailure(breaker)
              ELSE OnSuccess(breaker))

\* The block was cancelled (a BaseException that is no Exception).
Abandon(c) == Report(c, OnAbandoned(breaker))

\* Time passes.
Tick ==
    /\ breaker' = Elapse(breaker)
    /\ UNCHANGED <<guard, probes>>

End(c) == Succeed(c) \/ FailInfra(c) \/ FailOther(c) \/ Abandon(c)

EnterSome == \E c \in Calls, failure_types \in FailureTypes : Enter(c, failure_types)

Next ==
    \/ \E c \in Calls, failure_types \in FailureTypes : Enter(c, failure_types)
    \/ \E c \in Calls : Reject(c)
    \/ \E c \in Calls : Succeed(c)
    \/ \E c \in Calls : FailInfra(c)
    \/ \E c \in Calls : FailOther(c)
    \/ \E c \in Calls : Abandon(c)
    \/ Tick

\* Time passes, every guarded block ends one way or another, and callers keep
\* arriving: as long as some call could be admitted, one eventually tries.
Fairness ==
    /\ WF_vars(Tick)
    /\ WF_vars(EnterSome)
    /\ \A c \in Calls : WF_vars(End(c))

Spec == Init /\ [][Next]_vars

FairSpec == Spec /\ Fairness

-----------------------------------------------------------------------------
\* While HALF_OPEN, every probe slot that is taken belongs to a call that is
\* still running and was admitted in this half-open period, so the breaker
\* cannot stay at its probe limit for a call that is already gone (the hazard
\* _on_abandoned is written for).
NoLeakedSlot ==
    breaker.state = "HALF_OPEN" =>
        breaker.half_open_calls_in_flight <= Cardinality(probes)

\* The failure count and _opened_at agree with the state however late the
\* reports come in: a closed breaker is below its threshold and has no
\* opening time, an open or half-open one reached the threshold and has one
\* (what the asserts in allows_calls and _before_call rely on), and probing
\* never starts before the recovery timeout is over.
OutageBookkeeping ==
    /\ breaker.state = "CLOSED" =>
          breaker.failure_count < FailureThreshold /\ breaker.opened_for = NotOpened
    /\ breaker.state # "CLOSED" =>
          breaker.failure_count >= FailureThreshold /\ breaker.opened_for # NotOpened
    /\ breaker.state = "HALF_OPEN" => breaker.opened_for = RecoveryTimeout

\* The module docstring's state machine, CLOSED -> OPEN -> HALF_OPEN ->
\* CLOSED | OPEN.  A late success must not close an open breaker, and a late
\* failure must not push a closed one anywhere but to OPEN.
DocumentedTransitions ==
    [][ breaker'.state # breaker.state =>
          <<breaker.state, breaker'.state>> \in
              { <<"CLOSED", "OPEN">>, <<"OPEN", "HALF_OPEN">>,
                <<"HALF_OPEN", "CLOSED">>, <<"HALF_OPEN", "OPEN">> } ]_vars

\* A straggler that fails while the breaker is OPEN does not restart the
\* recovery timeout: only _transition into OPEN stamps _opened_at.
OutageNotExtended ==
    [][ breaker.state = "OPEN" /\ breaker'.state = "OPEN" =>
          breaker'.opened_for >= breaker.opened_for ]_vars

\* A breaker that turns calls away eventually admits one again: OPEN ends
\* when the timeout is over, and every probe slot comes back even when the
\* probes are cancelled.
NeverStuck == ~Admits(breaker) ~> Admits(breaker)

\* Recovery: when from some point on no call fails for the breaker and calls
\* keep succeeding, the breaker ends up CLOSED for good, whatever stragglers
\* and cancellations it saw before.
FailureRecorded ==
    \E c \in Calls : FailInfra(c) \/ (guard[c] = "any" /\ FailOther(c))

Recovers ==
    (<>[][~FailureRecorded]_vars /\ []<><<\E c \in Calls : Succeed(c)>>_vars)
        => <>[](breaker.state = "CLOSED")

\* "half-open and at its probe limit" (the message _before_call raises): at
\* most HalfOpenMaxCalls probes of a half-open period run at the same time.
\* The code does not keep it: a call admitted before the outage that is
\* cancelled gives back a slot it never took.
ProbeLimit == Cardinality(probes) <= HalfOpenMaxCalls

=============================================================================
