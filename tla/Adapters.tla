------------------------------ MODULE Adapters ------------------------------
(***************************************************************************)
(* The database adapters and the calls that go through them: choosing a    *)
(* node, entering its circuit breaker, running a statement, ending the     *)
(* transaction and retrying a read.  Every "await" of the code is a place  *)
(* where another task runs, so each action ends at one.                    *)
(*                                                                         *)
(* A relational adapter (SQLAlchemyAdapter) has one engine and one breaker *)
(* per node; its reads go to a replica unless that one's breaker is open.  *)
(* A document or vector adapter (MongoDBAdapter, QdrantAdapter) has one    *)
(* client and one breaker, and its calls have no transaction.              *)
(*                                                                         *)
(* Connecting and disconnecting are in DatabaseFactory.tla.                *)
(***************************************************************************)
EXTENDS BreakerState, Exceptions

CONSTANTS
    Order,         \* the names of the configured connections, in order
    Kind,          \* Kind[n]: "relational", "document" or "vector"
    Nodes,         \* Nodes[n]: the nodes [key, role, weight] it connects to
    Callers,
    Raises,        \* Raises[kind]: the driver errors a statement may raise
    MaxAttempts,   \* RetryConfig.max_attempts
    MaxFaults,     \* bounds the driver errors and cancellations
    NoKey

Names == {Order[i] : i \in DOMAIN Order}
Keys == [n \in Names |-> {Nodes[n][i].key : i \in DOMAIN Nodes[n]}]
AllKeys == UNION {Keys[n] : n \in Names}

Kinds == {"relational", "document", "vector"}

\* There is something to connect to.  ConnectionConfig accepts only configurations
\* with a master node; the key of a node contains its index.  A document or
\* vector adapter connects to the first master node only.
ASSUME AdaptersAssumption ==
    /\ Order \in Seq(STRING) /\ Order # <<>>
    /\ \A i, j \in DOMAIN Order : Order[i] = Order[j] => i = j
    /\ Kind \in [Names -> Kinds]
    /\ \A n \in Names :
        /\ Nodes[n] \in Seq([ key : AllKeys, role : {"MASTER", "REPLICA"},
                              weight : Nat \ {0} ])
        /\ \E i \in DOMAIN Nodes[n] : Nodes[n][i].role = "MASTER"
        /\ \A i, j \in DOMAIN Nodes[n] : Nodes[n][i].key = Nodes[n][j].key => i = j
        /\ Kind[n] # "relational" => Len(Nodes[n]) = 1
    /\ Raises \in [Kinds -> SUBSET DriverErrors]
    /\ MaxAttempts \in Nat \ {0}
    /\ MaxFaults \in Nat
    /\ NoKey \notin AllKeys

WithRole(n, role) == {i \in DOMAIN Nodes[n] : Nodes[n][i].role = role}

First(indices) == CHOOSE i \in indices : \A j \in indices : i <= j

\* The first master node is the one that is used.
Master == [n \in Names |-> Nodes[n][First(WithRole(n, "MASTER"))].key]

Replicas == [n \in Names |-> WithRole(n, "REPLICA")]

\* LoadBalancer: a cycle in which each replica occurs weight times in a row.  A
\* turn is the i-th node's, for the w-th time.
Turns(n) ==
    IF Replicas[n] = {} THEN {<<0, 0>>}
    ELSE UNION {{i} \X (1..Nodes[n][i].weight) : i \in Replicas[n]}

FirstTurn(n) ==
    IF Replicas[n] = {} THEN <<0, 0>> ELSE <<First(Replicas[n]), 1>>

\* A cycle that never gets to the next replica.
NextTurnStays(n, turn) == <<turn[1], turn[2] + 1>>

NextTurn(n, turn) ==
    LET later == {j \in Replicas[n] : j > turn[1]}
    IN  IF turn[2] < Nodes[n][turn[1]].weight THEN <<turn[1], turn[2] + 1>>
        ELSE <<First(IF later = {} THEN Replicas[n] ELSE later), 1>>

VARIABLES
    adapter,   \* adapter[n]: the fields of an adapter object
    pool,      \* pool[n][k]: the connections to a node, and what became of them
    call,      \* call[c]: a repository call in progress
    faults     \* driver errors and cancellations so far

adapterVars == <<adapter, pool, call, faults>>

\* ready: _master_key (relational), _database (document) or _client (vector)
\* is set.  turn is the position in the replicas' weighted cycle.
Adapter(n) ==
    [ ready : BOOLEAN, breaker : [Keys[n] -> Breaker], turn : Turns(n) ]

\* "open" may hold connections, "closed" was disposed of, "reopened" was used
\* after that, "abandoned" is one whose disposal failed or was cut short.
PoolState == {"unused", "open", "closed", "reopened", "abandoned"}

\* hit and masked are history of the current attempt: an outage the mappers know
\* of struck the statement or the commit, and a failed clean-up after it.
Call ==
    [ pc : {"idle", "enter", "body", "commit", "rollback", "close", "backoff",
            "done"},
      kind : {"none", "read", "boundRead", "write"},
      on : Names, key : AllKeys \cup {NoKey}, attempt : 0..MaxAttempts,
      error : Errors \cup {NoError, Cancelled}, hit : BOOLEAN, masked : BOOLEAN ]

AdaptersTypeOK ==
    /\ DOMAIN adapter = Names
    /\ \A n \in Names : adapter[n] \in Adapter(n)
    /\ DOMAIN pool = Names
    /\ \A n \in Names : pool[n] \in [Keys[n] -> PoolState]
    /\ call \in [Callers -> Call]
    /\ faults \in 0..MaxFaults

NewAdapter(n) ==
    [ ready |-> FALSE, breaker |-> [k \in Keys[n] |-> InitBreaker],
      turn |-> FirstTurn(n) ]

NoCall ==
    [ pc |-> "idle", kind |-> "none", on |-> Order[1], key |-> NoKey,
      attempt |-> 0, error |-> NoError, hit |-> FALSE, masked |-> FALSE ]

AdaptersInit ==
    /\ adapter = [n \in Names |-> NewAdapter(n)]
    /\ pool = [n \in Names |-> [k \in Keys[n] |-> "unused"]]
    /\ call = [c \in Callers |-> NoCall]
    /\ faults = 0

-----------------------------------------------------------------------------
(* Choosing a node. *)

\* Only a relational adapter routes, and only reads outside a Unit of Work.
ReadsReplicas(n, kind) ==
    Kind[n] = "relational" /\ kind = "read" /\ Replicas[n] # {}

\* A replica that is used whatever its breaker says.
SelectKeyBlindly(n, kind) ==
    IF ~ReadsReplicas(n, kind) THEN Master[n]
    ELSE Nodes[n][adapter[n].turn[1]].key

\* _select_key of a connected adapter.  It looks at the replica's breaker only
\* through allows_calls, which says nothing of the probe limit.
SelectKey(n, kind) ==
    IF ~ReadsReplicas(n, kind) THEN Master[n]
    ELSE LET replica == Nodes[n][adapter[n].turn[1]].key
         IN  IF AllowsCalls(adapter[n].breaker[replica]) THEN replica
             ELSE Master[n]

\* The position after the draw.
Drawn(n, kind) ==
    IF ReadsReplicas(n, kind) THEN NextTurn(n, adapter[n].turn) ELSE adapter[n].turn

-----------------------------------------------------------------------------
(* Breakers and retries. *)

INFRASTRUCTURE_FAILURES ==
    {"ConnectionError_", "ConnectionTimeoutError", "TimeoutError_"}

RETRYABLE_EXCEPTIONS ==
    {"ConnectionError_", "ConnectionTimeoutError", "TimeoutError_",
     "DeadlockDetectedError"}

\* What guard() reports when its block ends with error.
Reported(b, error, failureTypes) ==
    CASE error = NoError   -> OnSuccess(b)
      [] error = Cancelled -> OnAbandoned(b)
      [] OTHER -> IF IsInstance(error, failureTypes) THEN OnFailure(b)
                  ELSE OnSuccess(b)

\* tenacity retrying on every KrossDBError.
RetriesEverything(error, attempt) ==
    attempt < MaxAttempts /\ IsInstance(error, {"KrossDBError"})

\* with_retry makes another attempt after this one failed.
Retries(error, attempt) ==
    /\ attempt < MaxAttempts
    /\ IsInstance(error, RETRYABLE_EXCEPTIONS)

\* A call that is over keeps what its caller sees, and its history.
Done(r, error) ==
    [r EXCEPT !.pc = "done", !.error = error, !.on = Order[1], !.key = NoKey]

\* run_read of a task that is inside a Unit of Work does not retry, and writes
\* never go through run_read.
AfterAttempt(r, error) ==
    IF r.kind = "read" /\ Retries(error, r.attempt)
    THEN [r EXCEPT !.pc = "backoff", !.error = error, !.key = NoKey]
    ELSE Done(r, error)

-----------------------------------------------------------------------------
(* The steps of one call. *)

\* A connection is taken from the pool of a node.
CheckOut(n, k) ==
    pool' = [pool EXCEPT ![n][k] =
                CASE @ = "unused" -> "open" [] @ = "closed" -> "reopened"
                  [] OTHER -> @]

Fails == faults < MaxFaults /\ faults' = faults + 1

\* acquire() up to the first statement.  Neither choosing the node nor entering
\* its breaker suspends.  A call inside a Unit of Work uses the session of
\* that block, which is pinned to the master.
Acquire(c, kind) ==
    LET n == call[c].on
        k == SelectKey(n, kind)
        b == adapter[n].breaker[k]
        r == [call[c] EXCEPT !.kind = kind, !.attempt = @ + 1, !.key = k,
                             !.error = NoError, !.hit = FALSE, !.masked = FALSE]
    IN  /\ UNCHANGED faults
        /\ \/ /\ ~adapter[n].ready
              /\ call' = [call EXCEPT ![c] = AfterAttempt(r, "ConfigurationError")]
              /\ UNCHANGED <<adapter, pool>>
           \/ /\ adapter[n].ready
              /\ Admits(b)
              /\ adapter' = [adapter EXCEPT ![n].breaker[k] = BeforeCall(b),
                                            ![n].turn = Drawn(n, kind)]
              /\ call' = [call EXCEPT ![c] = [r EXCEPT !.pc = "body"]]
              /\ CheckOut(n, k)
           \/ /\ adapter[n].ready
              /\ ~Admits(b)
              /\ adapter' = [adapter EXCEPT ![n].turn = Drawn(n, kind)]
              /\ call' = [call EXCEPT ![c] =
                     AfterAttempt(r, "CircuitBreakerOpenError")]
              /\ UNCHANGED pool

\* A repository method on an adapter the caller has: get, find and count are
\* reads, inside a Unit of Work bound ones; everything else is a write.
Enter(c) ==
    /\ call[c].pc = "enter"
    /\ \E kind \in {"read", "boundRead", "write"} :
           /\ kind = "boundRead" => Kind[call[c].on] = "relational"
           /\ Acquire(c, kind)

\* The next attempt of a read, after the wait between attempts.
Retry(c) == call[c].pc = "backoff" /\ Acquire(c, "read")

\* The guarded block of c ends with error: the breaker hears of it in the step
\* in which the last await returns.
Leave(c, r, error) ==
    LET n == call[c].on
        k == call[c].key
    IN  /\ adapter' = [adapter EXCEPT ![n].breaker[k] =
               Reported(@, error, INFRASTRUCTURE_FAILURES)]
        /\ call' = [call EXCEPT ![c] = AfterAttempt(r, error)]
        /\ UNCHANGED pool

Move(c, r) == call' = [call EXCEPT ![c] = r] /\ UNCHANGED <<adapter, pool>>

\* acquire() owns a session and its transaction.
OwnsSession(r) == Kind[r.on] = "relational" /\ r.kind # "boundRead"

\* The driver errors that say a node cannot be reached or does not answer.
Outages ==
    {"OSError", "gaierror", "TimeoutError", "ConnectionError",
     "ConnectionRefusedError", "SA_DBAPIError", "SA_OperationalError",
     "SA_InterfaceError", "SA_TimeoutError", "PG_PostgresConnectionError",
     "PG_TooManyConnectionsError", "PG_CannotConnectNowError",
     "PM_ServerSelectionTimeoutError", "PM_ConnectionFailure", "PM_NetworkTimeout",
     "QD_UnexpectedResponse_503", "QD_ResponseHandlingException",
     "RD_ConnectionError", "RD_TimeoutError"}

\* The outages for which no mapper has a test of its own: asyncio's connect
\* raises a plain OSError when every address of a host fails, a name lookup
\* raises gaierror, and SQLAlchemy wraps what asyncpg says of a lost connection
\* in a plain DBAPIError.  They become QueryErrors, as an error in a query does.
Unrecognized ==
    {"OSError", "gaierror", "SA_DBAPIError", "PG_PostgresConnectionError",
     "QD_UnexpectedResponse_503"}

Recognized == Outages \ Unrecognized

BodyOk(c) ==
    /\ call[c].pc = "body"
    /\ IF OwnsSession(call[c]) THEN Move(c, [call[c] EXCEPT !.pc = "commit"])
       ELSE Leave(c, call[c], NoError)
    /\ UNCHANGED faults

\* The driver's error would reach the guard as it is.
RaisedUntranslated(error) == error

\* translate_exceptions is inside the guard.
Raised(error) == Translated(error)

BodyRaises(c) ==
    \E error \in Raises[Kind[call[c].on]] :
        LET r == [call[c] EXCEPT !.hit = error \in Recognized]
        IN  /\ call[c].pc = "body"
            /\ Fails
            /\ IF OwnsSession(r)
               THEN Move(c, [r EXCEPT !.pc = "rollback", !.error = Raised(error)])
               ELSE Leave(c, r, Raised(error))

CommitOk(c) ==
    /\ call[c].pc = "commit"
    /\ Move(c, [call[c] EXCEPT !.pc = "close"])
    /\ UNCHANGED faults

\* A commit that fails is not rolled back, only closed.
CommitRaises(c) ==
    \E error \in Raises["relational"] :
        /\ call[c].pc = "commit"
        /\ Fails
        /\ Move(c, [call[c] EXCEPT !.pc = "close", !.error = Raised(error),
                                   !.hit = error \in Recognized])

RollbackOk(c) ==
    /\ call[c].pc = "rollback"
    /\ Move(c, [call[c] EXCEPT !.pc = "close"])
    /\ UNCHANGED faults

\* session.rollback() is outside translate_exceptions: its error replaces the
\* statement's and stays a driver error.
RollbackRaises(c) ==
    \E error \in Raises["relational"] \cap Outages :
        /\ call[c].pc = "rollback"
        /\ Fails
        /\ Move(c, [call[c] EXCEPT !.pc = "close", !.error = error,
                                   !.masked = TRUE])

CloseOk(c) ==
    /\ call[c].pc = "close"
    /\ Leave(c, call[c], call[c].error)
    /\ UNCHANGED faults

CloseRaises(c) ==
    \E error \in Raises["relational"] \cap Outages :
        /\ call[c].pc = "close"
        /\ Fails
        /\ Leave(c, [call[c] EXCEPT !.masked = TRUE], error)

\* The caller's task is cancelled at the await it is in.  "except Exception"
\* does not see a cancellation: no rollback, but the session is closed.
CancelCall(c) ==
    /\ Fails
    /\ \/ /\ call[c].pc \in {"body", "close"}
          /\ call[c].pc = "close" \/ ~OwnsSession(call[c])
          /\ Leave(c, [call[c] EXCEPT !.masked = TRUE], Cancelled)
       \/ /\ call[c].pc \in {"body", "commit", "rollback"}
          /\ OwnsSession(call[c])
          /\ Move(c, [call[c] EXCEPT !.pc = "close", !.error = Cancelled,
                                     !.masked = TRUE])
       \/ /\ call[c].pc = "backoff"
          /\ Move(c, Done(call[c], Cancelled))

CallStep(c) ==
    \/ Enter(c) \/ Retry(c)
    \/ BodyOk(c) \/ BodyRaises(c)
    \/ CommitOk(c) \/ CommitRaises(c)
    \/ RollbackOk(c) \/ RollbackRaises(c)
    \/ CloseOk(c) \/ CloseRaises(c)
    \/ CancelCall(c)

\* One unit of time passes for every breaker.
Tick ==
    /\ \E n \in Names : \E k \in Keys[n] :
           adapter[n].breaker[k].opened_for \in 0..(RecoveryTimeout - 1)
    /\ adapter' = [n \in Names |-> [adapter[n] EXCEPT !.breaker =
                     [k \in Keys[n] |-> Elapse(adapter[n].breaker[k])]]]
    /\ UNCHANGED <<pool, call, faults>>

InFlight(c) == call[c].pc \in {"body", "commit", "rollback", "close"}

=============================================================================
