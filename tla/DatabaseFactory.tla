--------------------------- MODULE DatabaseFactory ---------------------------
(***************************************************************************)
(* DatabaseFactory used as "async with factory": one task connects every   *)
(* configured adapter or none, runs the application and disconnects them,  *)
(* while other tasks look adapters up, keep them, and call them (also when *)
(* the factory has let go of them), and one asks for the health of all.    *)
(* The factory's _adapters is filled in the order of its configurations,   *)
(* so it is the number of connections registered.                          *)
(***************************************************************************)
EXTENDS Adapters, FiniteSets

CONSTANT MaxTasks   \* bounds the tasks beside the one of the block

ASSUME FactoryAssumption == MaxTasks \in Nat /\ IsFiniteSet(Callers)

VARIABLES
    registered,   \* Len(_adapters): the first registered names of Order
    main,         \* the task of the async with block
    monitor       \* a task in health_check_all

vars == <<adapterVars, registered, main, monitor>>

\* at is an index into Order, node an index into the nodes of that adapter,
\* attempt counts the pings of connect().
Main ==
    [ pc : {"connect", "ping", "release", "disconnect", "connected", "ended"},
      at : 1..(Len(Order) + 1), node : Nat, attempt : 0..MaxAttempts,
      error : Errors \cup {NoError, Cancelled} ]

HealthStatus == {"HEALTHY", "DEGRADED", "UNHEALTHY"}

\* size is the size of _adapters when the iteration over it began.
Monitor ==
    [ pc : {"idle", "next", "ping", "replica", "done"}, size : 0..Len(Order),
      at : 0..Len(Order), node : Nat, down : BOOLEAN,
      report : Seq(HealthStatus), error : {NoError, "RuntimeError", Cancelled} ]

\* The fields of the records stay in range.
TypeOK ==
    /\ AdaptersTypeOK
    /\ registered \in 0..Len(Order)
    /\ main \in Main
    /\ monitor \in Monitor

Init ==
    /\ AdaptersInit
    /\ registered = 0
    /\ main = [ pc |-> "connect", at |-> 1, node |-> 0, attempt |-> 0,
                error |-> NoError ]
    /\ monitor = [ pc |-> "idle", size |-> 0, at |-> 0, node |-> 0,
                   down |-> FALSE, report |-> <<>>, error |-> NoError ]

-----------------------------------------------------------------------------
(* connect_all *)

Keep == UNCHANGED <<call, registered, monitor>>

\* The next disconnection of connect_all's or __aexit__'s disconnect_all.
ToDisconnectAll(error) ==
    main' = [main EXCEPT !.pc = IF registered = 0 THEN "ended" ELSE "disconnect",
                         !.at = 1, !.node = 1, !.error = error]

\* The driver of the next adapter is not installed: no adapter is made.
ResolveFails ==
    /\ main.pc = "connect"
    /\ main.at <= Len(Order)
    /\ Fails
    /\ ToDisconnectAll("ConfigurationError")
    /\ UNCHANGED <<adapter, pool>> /\ Keep

\* adapter.connect() up to its first await: engines and breakers are there, the
\* breaker of the master lets the first ping through.
BeginConnect ==
    LET n == Order[main.at]
        k == Master[n]
    IN  /\ main.pc = "connect"
        /\ main.at <= Len(Order)
        /\ adapter' = [adapter EXCEPT ![n].ready = TRUE,
                                      ![n].breaker[k] = BeforeCall(@)]
        /\ CheckOut(n, k)
        /\ main' = [main EXCEPT !.pc = "ping", !.attempt = 1]
        /\ UNCHANGED faults /\ Keep

\* MongoDBAdapter.connect() with a DSN that names no database: the client has
\* been made already, and _database stays None.
NoDefaultDatabase ==
    LET n == Order[main.at]
    IN  /\ main.pc = "connect"
        /\ main.at <= Len(Order)
        /\ Kind[n] = "document"
        /\ Fails
        /\ CheckOut(n, Master[n])
        /\ main' = [main EXCEPT !.pc = "release", !.node = 1,
                                !.error = "ConfigurationError"]
        /\ UNCHANGED adapter /\ Keep

\* The ping's own block translates driver errors, but for the relational one.
PingError(n, error) ==
    IF Kind[n] = "relational" THEN error ELSE Translated(error)

\* breaker.call counts every exception.
AllExceptions == {"Exception"}

\* The adapter is connected and registered.
PingOk ==
    LET n == Order[main.at]
    IN  /\ main.pc = "ping"
        /\ adapter' = [adapter EXCEPT ![n].breaker[Master[n]] = OnSuccess(@)]
        /\ registered' = main.at
        /\ main' = [main EXCEPT !.at = @ + 1, !.attempt = 0,
               !.pc = IF main.at = Len(Order) THEN "connected" ELSE "connect"]
        /\ UNCHANGED <<pool, call, faults, monitor>>

\* An adapter that failed to connect is forgotten without being released.
ConnectFailsUnreleased(error) == ToDisconnectAll(error)

\* The adapter that failed to connect is released first.
ConnectFails(error) ==
    main' = [main EXCEPT !.pc = "release", !.node = 1, !.error = error]

PingRaises ==
    LET n == Order[main.at]
    IN  /\ main.pc = "ping"
        /\ Fails
        /\ \E raw \in Raises[Kind[n]] :
               IF Retries(PingError(n, raw), main.attempt)
               THEN /\ main' = [main EXCEPT !.attempt = @ + 1]
                    /\ UNCHANGED adapter
               ELSE /\ ConnectFails(PingError(n, raw))
                    /\ adapter' = [adapter EXCEPT ![n].breaker[Master[n]] =
                           Reported(@, PingError(n, raw), AllExceptions)]
        /\ UNCHANGED pool /\ Keep

\* The task of the block is cancelled while it waits for a ping.
CancelPing ==
    LET n == Order[main.at]
    IN  /\ main.pc = "ping"
        /\ Fails
        /\ ConnectFails(Cancelled)
        /\ adapter' = [adapter EXCEPT ![n].breaker[Master[n]] = OnAbandoned(@)]
        /\ UNCHANGED pool /\ Keep

-----------------------------------------------------------------------------
(* disconnect_all and _disconnect_quietly *)

\* __aexit__: the block ends, normally or not.
Exit ==
    /\ main.pc = "connected"
    /\ ToDisconnectAll(NoError)
    /\ UNCHANGED adapterVars /\ UNCHANGED <<registered, monitor>>

\* What follows when disconnect() of the current adapter is over.  Errors of
\* it are logged; disconnect_all clears _adapters only at its end.
AfterDisconnect ==
    IF main.pc = "release"
    THEN ToDisconnectAll(main.error) /\ UNCHANGED registered
    ELSE IF main.at < registered
         THEN /\ main' = [main EXCEPT !.at = @ + 1, !.node = 1]
              /\ UNCHANGED registered
         ELSE /\ main' = [main EXCEPT !.pc = "ended"]
              /\ registered' = 0

\* disconnect() that leaves _master_key or _client set.
DisconnectForgets(a) == a

\* The end of disconnect(): the engines or the client are let go.
Disconnected(a) == [a EXCEPT !.ready = FALSE]

DisposeOk ==
    LET n == Order[main.at]
        k == Nodes[n][main.node].key
        last == main.node = Len(Nodes[n])
    IN  /\ main.pc \in {"release", "disconnect"}
        /\ pool' = [pool EXCEPT ![n][k] = "closed"]
        /\ IF last
           THEN /\ adapter' = [adapter EXCEPT ![n] = Disconnected(@)]
                /\ AfterDisconnect
           ELSE /\ main' = [main EXCEPT !.node = @ + 1]
                /\ UNCHANGED <<adapter, registered>>
        /\ UNCHANGED <<call, faults, monitor>>

\* What is not disposed of yet stays so.
Abandoned(n) ==
    [k \in Keys[n] |-> IF pool[n][k] = "closed" THEN "closed" ELSE "abandoned"]

\* A disposal raises: disconnect() leaves the other engines, and the fields,
\* as they are.  Closing a MongoDB client does not wait, so it does not fail.
DisposeRaises ==
    LET n == Order[main.at]
    IN  /\ main.pc \in {"release", "disconnect"}
        /\ Kind[n] # "document"
        /\ Fails
        /\ pool' = [pool EXCEPT ![n] = Abandoned(n)]
        /\ AfterDisconnect
        /\ UNCHANGED <<adapter, call, monitor>>

\* The task is cancelled in a disposal.  _disconnect_quietly passes that on to
\* connect_all, which still disconnects the rest; disconnect_all just ends.
CancelDispose ==
    LET n == Order[main.at]
    IN  /\ main.pc \in {"release", "disconnect"}
        /\ Kind[n] # "document"
        /\ Fails
        /\ \/ /\ main.pc = "release"
              /\ pool' = [pool EXCEPT ![n] = Abandoned(n)]
              /\ ToDisconnectAll(Cancelled)
           \/ /\ main.pc = "disconnect"
              /\ pool' = [p \in Names |->
                     IF \E i \in main.at..registered : Order[i] = p
                     THEN Abandoned(p) ELSE pool[p]]
              /\ main' = [main EXCEPT !.pc = "ended", !.error = Cancelled]
        /\ UNCHANGED <<adapter, call, registered, monitor>>

-----------------------------------------------------------------------------
(* get: a task looks an adapter up, and keeps it. *)

MayStart ==
    Cardinality({c \in Callers : call[c].pc # "idle"})
        + (IF monitor.pc = "idle" THEN 0 ELSE 1) < MaxTasks

Get(c, n) ==
    LET found == \E i \in 1..registered : Order[i] = n
    IN  /\ call[c].pc = "idle"
        /\ MayStart
        /\ call' = [call EXCEPT ![c] =
               IF found THEN [@ EXCEPT !.pc = "enter", !.on = n]
               ELSE Done(@, "ConfigurationError")]
        /\ UNCHANGED <<adapter, pool, faults, registered, main, monitor>>

-----------------------------------------------------------------------------
(* health_check_all and the adapters' health_check *)

HealthKeep == UNCHANGED <<call, registered, main>>

HealthStart ==
    /\ monitor.pc = "idle"
    /\ MayStart
    /\ monitor' = [monitor EXCEPT !.pc = "next", !.size = registered]
    /\ UNCHANGED <<adapter, pool, faults>> /\ HealthKeep

\* An iteration over a copy of _adapters.
IterationBreaksNever == FALSE

\* A dictionary iterator raises RuntimeError when the size has changed, at its
\* end too.
IterationBreaks == monitor.size # registered

Answer(status) ==
    [monitor EXCEPT !.pc = "next", !.report = Append(@, status), !.node = 0,
                    !.down = FALSE]

\* health_check_all returns or raises.
Asked(error) ==
    [monitor EXCEPT !.pc = "done", !.error = error, !.size = 0, !.at = 0,
                    !.node = 0, !.down = FALSE]

\* The iterator's next step and the adapter's health_check up to its first
\* await, for which it takes a connection.  A relational one goes through the
\* master's breaker.
HealthNext ==
    LET n == Order[monitor.at + 1]
        k == Master[n]
        pings == Kind[n] # "relational" \/ Admits(adapter[n].breaker[k])
    IN  /\ monitor.pc = "next"
        /\ \/ /\ IterationBreaks
              /\ monitor' = Asked("RuntimeError")
              /\ UNCHANGED <<adapter, pool>>
           \/ /\ ~IterationBreaks
              /\ monitor.at = monitor.size
              /\ monitor' = Asked(NoError)
              /\ UNCHANGED <<adapter, pool>>
           \/ /\ ~IterationBreaks
              /\ monitor.at < monitor.size
              /\ ~(adapter[n].ready /\ pings)
              /\ monitor' = [Answer("UNHEALTHY") EXCEPT !.at = @ + 1]
              /\ UNCHANGED <<adapter, pool>>
           \/ /\ ~IterationBreaks
              /\ monitor.at < monitor.size
              /\ adapter[n].ready
              /\ pings
              /\ monitor' = [monitor EXCEPT !.pc = "ping", !.at = @ + 1]
              /\ CheckOut(n, k)
              /\ IF Kind[n] = "relational"
                 THEN adapter' = [adapter EXCEPT ![n].breaker[k] = BeforeCall(@)]
                 ELSE UNCHANGED adapter
        /\ UNCHANGED faults /\ HealthKeep

Checked == Order[monitor.at]

Reports(error) ==
    IF Kind[Checked] = "relational"
    THEN adapter' = [adapter EXCEPT ![Checked].breaker[Master[Checked]] =
             Reported(@, error, AllExceptions)]
    ELSE UNCHANGED adapter

\* The nodes that are pinged after the master, one by one.
NextReplicaFrom(i) ==
    LET n == Checked
        rest == {j \in DOMAIN Nodes[n] : j > i /\ Nodes[n][j].key # Master[n]}
    IN  IF rest = {} THEN 0 ELSE First(rest)

\* A replica is pinged without its breaker.
PingReplica(i, down) ==
    /\ monitor' = [monitor EXCEPT !.pc = "replica", !.node = i, !.down = down]
    /\ CheckOut(Checked, Nodes[Checked][i].key)

\* After a disconnect() there is no engine left to list.
AfterMasterPing ==
    IF adapter[Checked].ready /\ NextReplicaFrom(0) # 0
    THEN PingReplica(NextReplicaFrom(0), FALSE)
    ELSE monitor' = Answer("HEALTHY") /\ UNCHANGED pool

\* An engine that was listed and is gone is a KeyError, so one more that is
\* unreachable; the master's too, since _master_key is None by then.
AfterReplicaPing(down) ==
    LET i == monitor.node
        gone == ~adapter[Checked].ready /\ i < Len(Nodes[Checked])
    IN  IF adapter[Checked].ready /\ NextReplicaFrom(i) # 0
        THEN PingReplica(NextReplicaFrom(i), down)
        ELSE /\ monitor' = Answer(IF down \/ gone THEN "DEGRADED" ELSE "HEALTHY")
             /\ UNCHANGED pool

HealthPingOk ==
    /\ monitor.pc = "ping"
    /\ Reports(NoError)
    /\ AfterMasterPing
    /\ UNCHANGED faults /\ HealthKeep

\* The relational ping retries too, but no driver error is retryable.
HealthPingRaises ==
    /\ monitor.pc = "ping"
    /\ Fails
    /\ \E raw \in Raises[Kind[Checked]] : Reports(PingError(Checked, raw))
    /\ monitor' = Answer("UNHEALTHY")
    /\ UNCHANGED pool /\ HealthKeep

HealthReplica ==
    /\ monitor.pc = "replica"
    /\ \/ AfterReplicaPing(monitor.down) /\ UNCHANGED faults
       \/ AfterReplicaPing(TRUE) /\ Fails
    /\ UNCHANGED adapter /\ HealthKeep

CancelHealth ==
    /\ monitor.pc \in {"ping", "replica"}
    /\ Fails
    /\ IF monitor.pc = "ping" THEN Reports(Cancelled) ELSE UNCHANGED adapter
    /\ monitor' = Asked(Cancelled)
    /\ UNCHANGED pool /\ HealthKeep

-----------------------------------------------------------------------------
ConnectStep == ResolveFails \/ BeginConnect \/ NoDefaultDatabase \/ PingOk
                   \/ PingRaises \/ CancelPing
DisconnectStep == Exit \/ DisposeOk \/ DisposeRaises \/ CancelDispose
HealthStep == HealthStart \/ HealthNext \/ HealthPingOk \/ HealthPingRaises
                   \/ HealthReplica \/ CancelHealth

Next ==
    \/ ConnectStep
    \/ DisconnectStep
    \/ HealthStep
    \/ \E c \in Callers, n \in Names : Get(c, n)
    \/ /\ \/ \E c \in Callers : CallStep(c)
          \/ Tick
       /\ UNCHANGED <<registered, main, monitor>>

Spec == Init /\ [][Next]_vars

-----------------------------------------------------------------------------
(* Properties *)

\* When the block is over (connect_all raised, or disconnect_all returned), no
\* pool is left that nobody disposed of, except where a disposal itself failed
\* or was cancelled.  A disposed pool may have been opened again by a call or a
\* ping before the end of that adapter's disconnect(), and connections that
\* calls in flight hold at the disposal are not part of the claim.  "Connect
\* every configured adapter, or none of them" (db_factory.py:88).
PoolsReleased ==
    main.pc = "ended" =>
        \A n \in Names : \A k \in Keys[n] : pool[n][k] # "open"

\* Once the block is over, no call or ping opens a pool again that was disposed
\* of: an adapter object somebody kept refuses, also in the middle of a retry.
\* The exception is an adapter whose disconnect() failed or was cancelled
\* half-way, which goes on serving calls.
StaysClosed ==
    [][ main.pc = "ended" =>
        \A n \in Names : \A k \in Keys[n] :
            /\ pool[n][k] = "closed"
            /\ \A k1 \in Keys[n] : pool[n][k1] # "abandoned"
            => pool'[n][k] = "closed" ]_vars

\* with_retry and run_read: another attempt only of a read outside a Unit of
\* Work, and only after a transient failure; a write reaches a node at most
\* once; a read that ends with a transient failure has used its attempts.
RetryDiscipline ==
    \A c \in Callers :
        LET r == call[c]
            transient == IsInstance(r.error,
                             {"ConnectionError_", "TimeoutError_", "DeadlockDetectedError"})
        IN  /\ r.attempt > 1 => r.kind = "read"
            /\ r.pc = "backoff" => transient
            /\ r.pc = "done" /\ r.kind = "read" /\ transient =>
                   r.attempt = MaxAttempts

\* An attempt of c ends in this step.
AttemptEnds(c) ==
    call[c].pc \in {"body", "close"} /\ call'[c].pc \in {"backoff", "done"}

\* The breaker "counts only infrastructure failures (lost connections,
\* timeouts)" (base.py:7): an attempt that met an outage counts as a failure,
\* and nothing else does.  There are two exceptions.  An Unrecognized outage is
\* mapped to a QueryError and recorded as a success: a node that only answers
\* so never opens its breaker.  And a rollback or close that fails after the
\* outage replaces its error; of such an attempt nothing is claimed.
OutageCounted ==
    [][ \A c \in Callers :
        AttemptEnds(c) /\ ~call'[c].masked =>
            LET b  == adapter[call[c].on].breaker[call[c].key]
                b1 == adapter'[call[c].on].breaker[call[c].key]
            IN  b1 = IF call'[c].hit THEN OnFailure(b) ELSE OnSuccess(b) ]_vars

\* A call is refused (CircuitBreakerOpenError) only if the master cannot take it
\* either, or if it is a read, the replica whose turn it was is half-open, and
\* another call is probing that replica at this moment.
RefusalsExplained ==
    [][ \A c \in Callers :
        call[c].pc \in {"enter", "backoff"}
            /\ call'[c].error = "CircuitBreakerOpenError" =>
                LET n == call[c].on
                    k == SelectKey(n, "read")
                IN  \/ ~Admits(adapter[n].breaker[Master[n]])
                    \/ /\ call'[c].kind = "read"
                       /\ adapter[n].breaker[k].state = "HALF_OPEN"
                       /\ \E d \in Callers \ {c} :
                              InFlight(d) /\ call[d].on = n /\ call[d].key = k ]_vars

\* health_check_all answers for exactly the adapters that are registered when
\* it answers, or raises because they changed while it asked; a failing node
\* never makes it raise.
HealthReportComplete ==
    [][ monitor.pc # "done" /\ monitor'.pc = "done" =>
        CASE monitor'.error = NoError -> Len(monitor'.report) = registered
          [] monitor'.error = "RuntimeError" -> monitor.size # registered
          [] OTHER -> monitor'.error = Cancelled ]_vars

\* The ping of connect() goes "through retry + circuit breaker" (base.py:11): an
\* adapter gives up on a node that cannot be reached only after max_attempts.
PingIsRetried ==
    [][ main.pc = "ping" /\ main'.pc = "release" /\ main'.error # Cancelled
            /\ Translated(main'.error) \in INFRASTRUCTURE_FAILURES =>
        main.attempt = MaxAttempts ]_vars

=============================================================================
