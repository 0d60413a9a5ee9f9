---------------------------- MODULE Idempotency ----------------------------
(***************************************************************************)
(* IdempotencyManager.run by concurrent calls over one shared cache.       *)
(*                                                                         *)
(* A manager serializes its calls on a key with an asyncio.Lock it keeps   *)
(* in a WeakValueDictionary: the entry lives as long as some call refers   *)
(* to the lock.  Calls suspend at the lock, at the cache and in the        *)
(* operation.  The cache may fail, may lose the reply of a set that it     *)
(* performed, and drops entries when their TTL is over.  An operation that *)
(* raises or is cancelled may have had its effect.                         *)
(*                                                                         *)
(* A result is named by the call whose operation produced it, a lock by    *)
(* the call that created it, and a fingerprint by the payload it is of.    *)
(***************************************************************************)
EXTENDS Naturals, FiniteSets

CONSTANTS
    Calls,         \* each is one call of run(); a client's retry is another
    Managers,      \* IdempotencyManager objects (one per process)
    Keys,
    Payloads,
    MaxExpiries,   \* bounds how often a cache entry expires, per key
    None

ASSUME IdempotencyAssumption ==
    /\ IsFiniteSet(Calls)
    /\ None \notin Calls \cup Managers \cup Keys \cup Payloads
    /\ MaxExpiries \in Nat

VARIABLES
    call,       \* call[c]: where the call is, its arguments and what it holds
    locks,      \* locks[m][k]: manager m's WeakValueDictionary
    holder,     \* holder[l]: the call inside `async with` of lock l
    cache,      \* cache[k]: the stored envelope
    executed,   \* the calls whose operation returned
    expiries    \* history: how often the entry of a key has expired

vars == <<call, locks, holder, cache, executed, expiries>>

PC == {"idle", "wait", "get", "operation", "set", "returned", "raised"}

Call ==
    [ pc : PC, manager : Managers \cup {None}, key : Keys \cup {None},
      payload : Payloads \cup {None}, lock : Calls \cup {None},
      result : Calls \cup {None} ]

Envelope == [fingerprint : Payloads, result : Calls]
Empty == [fingerprint |-> None, result |-> None]

TypeOK ==
    /\ call \in [Calls -> Call]
    /\ locks \in [Managers -> [Keys -> Calls \cup {None}]]
    /\ holder \in [Calls -> Calls \cup {None}]
    /\ cache \in [Keys -> Envelope \cup {Empty}]
    /\ executed \subseteq Calls
    /\ expiries \in [Keys -> 0..MaxExpiries]

Init ==
    /\ call = [c \in Calls |-> [pc |-> "idle", manager |-> None, key |-> None,
                                payload |-> None, lock |-> None, result |-> None]]
    /\ locks = [m \in Managers |-> [k \in Keys |-> None]]
    /\ holder = [l \in Calls |-> None]
    /\ cache = [k \in Keys |-> Empty]
    /\ executed = {}
    /\ expiries = [k \in Keys |-> 0]

-----------------------------------------------------------------------------
\* run() up to its first suspension: the call finds or creates the lock.
Begin(c, m, k, p) ==
    /\ call[c].pc = "idle"
    /\ LET l == IF locks[m][k] = None THEN c ELSE locks[m][k] IN
       /\ locks' = [locks EXCEPT ![m][k] = l]
       /\ call' = [call EXCEPT ![c] = [@ EXCEPT !.pc = "wait", !.manager = m, !.key = k,
                                                !.payload = p, !.lock = l]]
    /\ UNCHANGED <<holder, cache, executed, expiries>>

\* `async with lock` lets c in.
Acquire(c) ==
    /\ call[c].pc = "wait"
    /\ holder[call[c].lock] = None
    /\ holder' = [holder EXCEPT ![call[c].lock] = c]
    /\ call' = [call EXCEPT ![c].pc = "get"]
    /\ UNCHANGED <<locks, cache, executed, expiries>>

\* The calls that refer to a lock.
Referring(l) == {c \in Calls : call[c].lock = l}

\* A dictionary whose entry the first call to end removes, waiters or not.
EntryPopped(c) ==
    [locks EXCEPT ![call[c].manager][call[c].key] = None]

\* The dictionary's entry after c let go of its lock: it goes with the last
\* reference.
EntryAfter(c) ==
    IF Referring(call[c].lock) = {c}
    THEN [locks EXCEPT ![call[c].manager][call[c].key] = None]
    ELSE locks

\* An end that leaves the lock taken.
FinishHolding(c, pc, result) ==
    /\ call' = [call EXCEPT ![c] = [@ EXCEPT !.pc = pc, !.lock = None, !.result = result]]
    /\ locks' = EntryAfter(c)
    /\ UNCHANGED <<holder, expiries>>

\* The call ends, and leaves the lock if it was inside.
Finish(c, pc, result) ==
    /\ call' = [call EXCEPT ![c] = [@ EXCEPT !.pc = pc, !.lock = None, !.result = result]]
    /\ holder' = IF holder[call[c].lock] = c
                 THEN [holder EXCEPT ![call[c].lock] = None] ELSE holder
    /\ locks' = EntryAfter(c)
    /\ UNCHANGED expiries

\* A cancelled wait for the lock.
CancelWait(c) ==
    /\ call[c].pc = "wait"
    /\ Finish(c, "raised", None)
    /\ UNCHANGED <<cache, executed>>

\* A replay that does not compare the fingerprint.
GetHitAny(c) ==
    /\ call[c].pc = "get"
    /\ cache[call[c].key] # Empty
    /\ Finish(c, "returned", cache[call[c].key].result)
    /\ UNCHANGED <<cache, executed>>

\* cache.get finds an envelope: its result, or IdempotencyConflictError.
GetHit(c) ==
    /\ call[c].pc = "get"
    /\ cache[call[c].key] # Empty
    /\ IF cache[call[c].key].fingerprint = call[c].payload
       THEN Finish(c, "returned", cache[call[c].key].result)
       ELSE Finish(c, "raised", None)
    /\ UNCHANGED <<cache, executed>>

\* A conflict that is taken for a miss.
GetMissOrConflict(c) ==
    /\ call[c].pc = "get"
    /\ cache[call[c].key].fingerprint # call[c].payload
    /\ call' = [call EXCEPT ![c].pc = "operation"]
    /\ UNCHANGED <<locks, holder, cache, executed, expiries>>

\* cache.get finds nothing: the operation starts.
GetMiss(c) ==
    /\ call[c].pc = "get"
    /\ cache[call[c].key] = Empty
    /\ call' = [call EXCEPT ![c].pc = "operation"]
    /\ UNCHANGED <<locks, holder, cache, executed, expiries>>

\* cache.get raises.
GetFails(c) ==
    /\ call[c].pc = "get"
    /\ Finish(c, "raised", None)
    /\ UNCHANGED <<cache, executed>>

\* operation() returns.
OperationOk(c) ==
    /\ call[c].pc = "operation"
    /\ executed' = executed \cup {c}
    /\ call' = [call EXCEPT ![c].pc = "set"]
    /\ UNCHANGED <<locks, holder, cache, expiries>>

\* operation() raises.
OperationFails(c) ==
    /\ call[c].pc = "operation"
    /\ Finish(c, "raised", None)
    /\ UNCHANGED <<cache, executed>>

\* An envelope written without its result.
StoredBare(c) ==
    [cache EXCEPT ![call[c].key] = [fingerprint |-> call[c].payload, result |-> None]]

Stored(c) ==
    [cache EXCEPT ![call[c].key] = [fingerprint |-> call[c].payload, result |-> c]]

\* A result returned although the cache did not take it.
SetOptional(c) ==
    /\ call[c].pc = "set"
    /\ \E stored \in BOOLEAN : cache' = IF stored THEN Stored(c) ELSE cache
    /\ Finish(c, "returned", c)
    /\ UNCHANGED executed

\* cache.set returns, and so does run().
SetOk(c) ==
    /\ call[c].pc = "set"
    /\ cache' = Stored(c)
    /\ Finish(c, "returned", c)
    /\ UNCHANGED executed

\* cache.set raises; the entry may have been written.
SetFails(c) ==
    /\ call[c].pc = "set"
    /\ \E stored \in BOOLEAN : cache' = IF stored THEN Stored(c) ELSE cache
    /\ Finish(c, "raised", None)
    /\ UNCHANGED executed

\* ttl_seconds are over, or the cache evicts the entry.
Expire(k) ==
    /\ cache[k] # Empty
    /\ expiries[k] < MaxExpiries
    /\ cache' = [cache EXCEPT ![k] = Empty]
    /\ expiries' = [expiries EXCEPT ![k] = @ + 1]
    /\ UNCHANGED <<call, locks, holder, executed>>

Proceed(c) ==
    \/ Acquire(c) \/ GetHit(c) \/ GetMiss(c) \/ GetFails(c)
    \/ OperationOk(c) \/ OperationFails(c) \/ SetOk(c) \/ SetFails(c)

Next ==
    \/ \E c \in Calls, m \in Managers, k \in Keys, p \in Payloads : Begin(c, m, k, p)
    \/ \E c \in Calls : Acquire(c)
    \/ \E c \in Calls : CancelWait(c)
    \/ \E c \in Calls : GetHit(c)
    \/ \E c \in Calls : GetMiss(c)
    \/ \E c \in Calls : GetFails(c)
    \/ \E c \in Calls : OperationOk(c)
    \/ \E c \in Calls : OperationFails(c)
    \/ \E c \in Calls : SetOk(c)
    \/ \E c \in Calls : SetFails(c)
    \/ \E k \in Keys : Expire(k)

Spec == Init /\ [][Next]_vars

\* Every await ends: the cache and the operation answer or fail, and a lock
\* that stays free lets the waiting call in.
FairSpec == Spec /\ \A c \in Calls : WF_vars(Proceed(c))

-----------------------------------------------------------------------------
Inside(c) == call[c].pc \in {"get", "operation", "set"}

\* Calls of one manager on one key look up, execute and store one at a time,
\* although the lock's dictionary entry comes and goes with the calls.
SerializedPerKey ==
    \A c, d \in Calls :
        c # d /\ Inside(c) /\ Inside(d) /\ call[c].manager = call[d].manager
            => call[c].key # call[d].key

\* A call never returns the result of another request's payload, however many
\* managers share the cache.
NoForeignResult ==
    \A c \in Calls : call[c].pc = "returned" =>
        /\ call[c].result \in executed
        /\ call[call[c].result].key = call[c].key
        /\ call[call[c].result].payload = call[c].payload

ReturnedFor(k) == {call[c].result : c \in {d \in Calls : call[d].pc = "returned" /\ call[d].key = k}}

ResultsOf(m, k) ==
    {r \in Calls : /\ call[r].manager = m
                   /\ \E c \in Calls : /\ call[c].pc = "returned" /\ call[c].key = k
                                       /\ call[c].result = r}

\* "replaying the same idempotency key returns the original result": of the
\* results that calls of one manager produce for a key, calls (of any manager)
\* return one, and another only after the entry has expired.  Nothing is said of
\* results that two managers produce: without a common lock both may find no
\* entry, execute, and return a result of their own.
ReplaysAgree ==
    \A m \in Managers, k \in Keys : Cardinality(ResultsOf(m, k)) <= 1 + expiries[k]

ExecutionsOf(m, k) == {c \in executed : call[c].manager = m /\ call[c].key = k}

\* A manager executes an operation again only if the entry expired or an
\* execution had to be reported as failed because it could not be stored.
ExecutionsAccounted ==
    \A m \in Managers, k \in Keys :
        Cardinality(ExecutionsOf(m, k)) <=
            1 + expiries[k]
              + Cardinality({c \in ExecutionsOf(m, k) : call[c].pc = "raised"})

\* No call waits forever: whatever a call ran into, it let go of its lock.
EveryCallEnds ==
    \A c \in Calls : call[c].pc # "idle" ~> call[c].pc \in {"returned", "raised"}

\* "Run operation at most once per idempotency_key" (the docstring of run).
\* Does not hold: when cache.set fails after the operation, nothing remembers
\* the execution and the client's retry executes again.
AtMostOnce ==
    \A m \in Managers, k \in Keys : Cardinality(ExecutionsOf(m, k)) <= 1

=============================================================================
