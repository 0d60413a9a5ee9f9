---------------------------- MODULE BreakerState ----------------------------
(***************************************************************************)
(* The state one CircuitBreaker object keeps and what each of its methods  *)
(* does to it.  A method of the class takes the breaker's asyncio.Lock and *)
(* never suspends while holding it, so on one event loop each of them is a *)
(* single step: here, a function from a breaker record to the next one.    *)
(* CircuitBreaker.tla runs these steps for concurrent guarded calls.       *)
(*                                                                         *)
(* Time is discrete.  opened_for is time.monotonic() - _opened_at, counted *)
(* up to RecoveryTimeout, beyond which the code cannot tell two values     *)
(* apart; NotOpened stands for _opened_at = None.                          *)
(***************************************************************************)
EXTENDS Integers

CONSTANTS
    FailureThreshold,   \* CircuitBreakerConfig.failure_threshold
    RecoveryTimeout,    \* CircuitBreakerConfig.recovery_timeout_seconds
    HalfOpenMaxCalls,   \* CircuitBreakerConfig.half_open_max_calls
    MaxFailureCount     \* where _failure_count stops being counted

\* The field constraints of CircuitBreakerConfig.  The code only compares
\* _failure_count with the threshold, so counting on past MaxFailureCount
\* would change nothing.
ASSUME BreakerConfigAssumption ==
    /\ FailureThreshold \in Nat \ {0}
    /\ RecoveryTimeout \in Nat \ {0}
    /\ HalfOpenMaxCalls \in Nat \ {0}
    /\ MaxFailureCount \in Nat
    /\ MaxFailureCount >= FailureThreshold

NotOpened == -1

CircuitState == {"CLOSED", "OPEN", "HALF_OPEN"}

Breaker ==
    [ state                      : CircuitState,
      failure_count              : 0..MaxFailureCount,
      opened_for                 : {NotOpened} \cup 0..RecoveryTimeout,
      half_open_calls_in_flight  : 0..HalfOpenMaxCalls ]

InitBreaker ==
    [ state |-> "CLOSED", failure_count |-> 0, opened_for |-> NotOpened,
      half_open_calls_in_flight |-> 0 ]

-----------------------------------------------------------------------------
\* Bugs a change to _transition could introduce: the early return for an
\* unchanged state lost, the failure count or the probe counter not reset.
TransitionAlwaysStamps(b, new) ==
    CASE new = "OPEN"      -> [b EXCEPT !.state = new, !.opened_for = 0]
      [] new = "CLOSED"    -> [b EXCEPT !.state = new, !.failure_count = 0,
                                        !.opened_for = NotOpened]
      [] new = "HALF_OPEN" -> [b EXCEPT !.state = new,
                                        !.half_open_calls_in_flight = 0]

TransitionKeepsCount(b, new) ==
    IF new = "CLOSED" /\ b.state # "CLOSED"
    THEN [b EXCEPT !.state = new, !.opened_for = NotOpened]
    ELSE IF new = b.state THEN b ELSE TransitionAlwaysStamps(b, new)

TransitionKeepsSlots(b, new) ==
    IF new = "HALF_OPEN" /\ b.state # "HALF_OPEN"
    THEN [b EXCEPT !.state = new]
    ELSE IF new = b.state THEN b ELSE TransitionAlwaysStamps(b, new)

\* _transition: entering a state resets what that state counts; "entering"
\* the state the breaker is already in does nothing.
Transition(b, new) ==
    IF new = b.state THEN b
    ELSE CASE new = "OPEN" ->
                [b EXCEPT !.state = "OPEN", !.opened_for = 0]
           [] new = "CLOSED" ->
                [b EXCEPT !.state = "CLOSED", !.failure_count = 0,
                          !.opened_for = NotOpened]
           [] new = "HALF_OPEN" ->
                [b EXCEPT !.state = "HALF_OPEN", !.half_open_calls_in_flight = 0]

-----------------------------------------------------------------------------
\* allows_calls: the lock-free hint that read routing uses.
AllowsCalls(b) == b.state = "OPEN" => b.opened_for >= RecoveryTimeout

\* A probe limit that is not enforced.
AdmitsEveryProbe(b) == AllowsCalls(b)

\* _before_call does not raise CircuitBreakerOpenError.
Admits(b) ==
    /\ AllowsCalls(b)
    /\ b.state = "HALF_OPEN" => b.half_open_calls_in_flight < HalfOpenMaxCalls

\* _before_call of an admitted call.  The first one after the recovery
\* timeout moves the breaker to HALF_OPEN and is itself a probe.
BeforeCall(b) ==
    LET entered == IF b.state = "OPEN" THEN Transition(b, "HALF_OPEN") ELSE b
    IN  IF entered.state = "HALF_OPEN"
        THEN [entered EXCEPT !.half_open_calls_in_flight = @ + 1]
        ELSE entered

\* A success that closes the breaker from OPEN as well as from HALF_OPEN.
OnSuccessFromAnyState(b) ==
    IF b.state = "CLOSED" THEN [b EXCEPT !.failure_count = 0]
    ELSE Transition(b, "CLOSED")

\* A successful probe that only gives back its slot.
OnSuccessFreesSlot(b) ==
    CASE b.state = "HALF_OPEN" ->
            [b EXCEPT !.half_open_calls_in_flight =
                IF @ > 0 THEN @ - 1 ELSE @]
      [] b.state = "CLOSED" -> [b EXCEPT !.failure_count = 0]
      [] OTHER -> b

OnSuccess(b) ==
    CASE b.state = "HALF_OPEN" -> Transition(b, "CLOSED")
      [] b.state = "CLOSED"    -> [b EXCEPT !.failure_count = 0]
      [] OTHER                 -> b

\* A failed probe reopens at once; any other failure is counted, also the
\* ones that arrive while the breaker is OPEN.
OnFailure(b) ==
    LET count   == IF b.failure_count < MaxFailureCount
                   THEN b.failure_count + 1 ELSE MaxFailureCount
        counted == [b EXCEPT !.failure_count = count]
    IN  CASE b.state = "HALF_OPEN" -> Transition(b, "OPEN")
          [] b.state # "HALF_OPEN" /\ count >= FailureThreshold ->
                Transition(counted, "OPEN")
          [] OTHER -> counted

\* A cancelled call that keeps its probe slot.
OnAbandonedKeepsSlot(b) == b

\* A cancelled call gives back a probe slot, whether or not it held one.
OnAbandoned(b) ==
    IF b.state = "HALF_OPEN" /\ b.half_open_calls_in_flight > 0
    THEN [b EXCEPT !.half_open_calls_in_flight = @ - 1]
    ELSE b

\* One unit of time passes on the monotonic clock.
Elapse(b) ==
    [b EXCEPT !.opened_for = IF @ \in 0..(RecoveryTimeout - 1) THEN @ + 1 ELSE @]

=============================================================================
