---------------------------- MODULE OutboxRelay ----------------------------
(***************************************************************************)
(* OutboxRelay.run over the two outbox stores: relays that fetch a batch,  *)
(* hand it to publish record by record, mark what was published, count a   *)
(* failed attempt for the rest, and start over.                            *)
(*                                                                         *)
(* With store = "sql" (SQLAlchemyOutboxStore) a batch is one transaction:  *)
(* SELECT ... FOR UPDATE SKIP LOCKED takes row locks, and nothing a relay  *)
(* writes is seen before it commits.  The relay can lose its connection,   *)
(* and with it the locks, without noticing before its next statement.      *)
(* With store = "memory" (InMemoryOutboxStore) claim() is the default of   *)
(* AbstractOutboxStore, which locks nothing and is meant for one relay.    *)
(*                                                                         *)
(* A record is its created_at, a number; it may be committed later than a  *)
(* younger one.  What is marked in a batch is one step, since a failure    *)
(* in the middle rolls all of it back (sql) or cannot happen (memory).     *)
(***************************************************************************)
EXTENDS Naturals, FiniteSets

CONSTANTS
    Relays,
    Records,       \* a finite set of numbers, the records' created_at
    BatchSize,     \* batch_size
    MaxAttempts,   \* max_attempts
    MaxFaults      \* bounds the crashes, lost connections and failed batches

ASSUME RelayAssumption ==
    /\ Records \subseteq Nat /\ IsFiniteSet(Records)
    /\ BatchSize \in Nat \ {0}
    /\ MaxAttempts \in Nat \ {0}
    /\ MaxFaults \in Nat

VARIABLES
    store,      \* the kind of store, fixed
    outbox,     \* the committed records: published_at is set, attempts, position
    relay,      \* relay[r]: where run() is, and its batch
    stop,       \* stop[r]: the stop event given to run() is set
    delivered,  \* history: how often a record reached the consumers
    raised,     \* history: how often publish raised for a record
    faults      \* history: crashes, lost connections and failed batches so far

vars == <<store, outbox, relay, stop, delivered, raised, faults>>

RelayPC == {"down", "poll", "publish", "commit", "sleep", "stopped"}

\* todo, published and failed split the records a batch fetched; locked are the
\* rows its transaction has locked; lost says its connection is gone.  hot is
\* history: the records whose publish failed since the relay last slept.
Relay ==
    [ pc : RelayPC, todo : SUBSET Records, published : SUBSET Records,
      failed : SUBSET Records, locked : SUBSET Records, lost : BOOLEAN,
      hot : SUBSET Records ]

\* position orders an InMemoryOutboxStore's dictionary: 0 is "not saved".
Row ==
    [ position : 0..Cardinality(Records), published : BOOLEAN,
      attempts : 0..MaxAttempts ]

MaxDeliveries == 1 + MaxAttempts + MaxFaults

TypeOK ==
    /\ store \in {"sql", "memory"}
    /\ outbox \in [Records -> Row]
    /\ relay \in [Relays -> Relay]
    /\ stop \in [Relays -> BOOLEAN]
    /\ delivered \in [Records -> 0..MaxDeliveries]
    /\ raised \in [Records -> 0..MaxDeliveries]
    /\ faults \in 0..MaxFaults

NoBatch(pc, hot) ==
    [ pc |-> pc, todo |-> {}, published |-> {}, failed |-> {}, locked |-> {},
      lost |-> FALSE, hot |-> hot ]

Init ==
    /\ store \in {"sql", "memory"}
    /\ outbox = [rec \in Records |-> [position |-> 0, published |-> FALSE, attempts |-> 0]]
    /\ relay = [r \in Relays |-> NoBatch("down", {})]
    /\ stop = [r \in Relays |-> FALSE]
    /\ delivered = [rec \in Records |-> 0]
    /\ raised = [rec \in Records |-> 0]
    /\ faults = 0

Saved == {rec \in Records : outbox[rec].position > 0}

InBatch(r) == relay[r].pc \in {"publish", "commit"}

-----------------------------------------------------------------------------
\* A producer's record becomes visible: save() and the commit around it.
Save(rec) ==
    /\ rec \notin Saved
    /\ outbox' = [outbox EXCEPT ![rec].position = Cardinality(Saved) + 1]
    /\ UNCHANGED <<store, relay, stop, delivered, raised, faults>>

\* A fetch without SKIP LOCKED, and one that does not look at attempts.
EligibleLocked(r) ==
    {rec \in Saved : ~outbox[rec].published /\ outbox[rec].attempts < MaxAttempts}

EligibleExhausted(r) ==
    {rec \in Saved :
        /\ ~outbox[rec].published
        /\ store = "sql" => \A q \in Relays \ {r} : rec \notin relay[q].locked}

\* fetch_unpublished before its limit: unpublished, attempts left, and not
\* locked by another transaction.
Eligible(r) ==
    {rec \in Saved :
        /\ ~outbox[rec].published
        /\ outbox[rec].attempts < MaxAttempts
        /\ store = "sql" => \A q \in Relays \ {r} : rec \notin relay[q].locked}

\* ORDER BY created_at, or the order of the dictionary.
Before(a, b) ==
    IF store = "sql" THEN a < b ELSE outbox[a].position < outbox[b].position

\* The first n of a set of records in fetch order.
FirstOf(n, recs) ==
    {rec \in recs : Cardinality({x \in recs : Before(x, rec)}) < n}

\* run() is called, or its process is started again.  The default claim() is
\* only safe with a single relay.
Start(r) ==
    /\ relay[r].pc = "down"
    /\ store = "memory" => \A q \in Relays \ {r} : relay[q].pc \in {"down", "stopped"}
    /\ relay' = [relay EXCEPT ![r] = NoBatch("poll", {})]
    /\ UNCHANGED <<store, outbox, stop, delivered, raised, faults>>

\* A loop that does not look at stop between batches.
FetchBatchAnyway(r) ==
    /\ relay[r].pc = "poll"
    /\ LET batch == FirstOf(BatchSize, Eligible(r)) IN
       relay' = [relay EXCEPT ![r] =
                    [@ EXCEPT !.pc = "publish", !.todo = batch,
                              !.locked = IF store = "sql" THEN batch ELSE {}]]
    /\ UNCHANGED <<store, outbox, stop, delivered, raised, faults>>

\* run_once up to the first publish: claim() opens and the batch is fetched.
FetchBatch(r) ==
    /\ relay[r].pc = "poll" /\ ~stop[r]
    /\ LET batch == FirstOf(BatchSize, Eligible(r)) IN
       relay' = [relay EXCEPT ![r] =
                    [@ EXCEPT !.pc = "publish", !.todo = batch,
                              !.locked = IF store = "sql" THEN batch ELSE {}]]
    /\ UNCHANGED <<store, outbox, stop, delivered, raised, faults>>

IsNext(r, rec) ==
    /\ relay[r].pc = "publish"
    /\ rec \in relay[r].todo
    /\ \A x \in relay[r].todo \ {rec} : Before(rec, x)

\* publish(record) returns.
PublishOk(r, rec) ==
    /\ IsNext(r, rec)
    /\ delivered' = [delivered EXCEPT ![rec] = @ + 1]
    /\ relay' = [relay EXCEPT ![r].todo = @ \ {rec},
                              ![r].published = @ \cup {rec}]
    /\ UNCHANGED <<store, outbox, stop, raised, faults>>

\* An exception of publish that is logged and forgotten.
PublishSwallows(r, rec) ==
    /\ IsNext(r, rec)
    /\ raised' = [raised EXCEPT ![rec] = @ + 1]
    /\ relay' = [relay EXCEPT ![r].todo = @ \ {rec},
                              ![r].published = @ \cup {rec}]
    /\ UNCHANGED <<store, outbox, stop, delivered, faults>>

\* publish(record) raises; the record may have reached the consumers all the
\* same.
PublishRaises(r, rec) ==
    /\ IsNext(r, rec)
    /\ \E reached \in {0, 1} : delivered' = [delivered EXCEPT ![rec] = @ + reached]
    /\ raised' = [raised EXCEPT ![rec] = @ + 1]
    /\ relay' = [relay EXCEPT ![r].todo = @ \ {rec},
                              ![r].failed = @ \cup {rec},
                              ![r].hot = @ \cup {rec}]
    /\ UNCHANGED <<store, outbox, stop, faults>>

-----------------------------------------------------------------------------
\* A batch that counts a failed attempt for every record it fetched.
MarkedCountsAll(published, failed) ==
    [rec \in Records |->
        IF rec \in published \cup failed
        THEN [outbox[rec] EXCEPT !.published = rec \in published,
                                 !.attempts = IF @ < MaxAttempts THEN @ + 1 ELSE @]
        ELSE outbox[rec]]

\* mark_published and record_failed_attempts on the records of a batch.
Marked(published, failed) ==
    [rec \in Records |->
        IF rec \in published THEN [outbox[rec] EXCEPT !.published = TRUE]
        ELSE IF rec \in failed THEN [outbox[rec] EXCEPT !.attempts = @ + 1]
        ELSE outbox[rec]]

\* A loop that drains on when the batch it fetched was full.
AfterBatchFetched(r) ==
    NoBatch(IF Cardinality(relay[r].published \cup relay[r].failed) >= BatchSize
            THEN "poll" ELSE "sleep", relay[r].hot)

\* run() after run_once returned: it drains on while whole batches publish.
AfterBatch(r) ==
    NoBatch(IF Cardinality(relay[r].published) >= BatchSize THEN "poll" ELSE "sleep",
            relay[r].hot)

\* The end of a batch's loop: the marks are applied (memory), or written in
\* the transaction, to be seen when it commits (sql).
Mark(r) ==
    /\ relay[r].pc = "publish" /\ relay[r].todo = {} /\ ~relay[r].lost
    /\ IF store = "sql"
       THEN relay' = [relay EXCEPT ![r].pc = "commit"] /\ outbox' = outbox
       ELSE /\ outbox' = Marked(relay[r].published, relay[r].failed)
            /\ relay' = [relay EXCEPT ![r] = AfterBatch(r)]
    /\ UNCHANGED <<store, stop, delivered, raised, faults>>

\* claim() ends: the Unit of Work commits and the locks are released.
Commit(r) ==
    /\ relay[r].pc = "commit" /\ ~relay[r].lost
    /\ outbox' = Marked(relay[r].published, relay[r].failed)
    /\ relay' = [relay EXCEPT ![r] = AfterBatch(r)]
    /\ UNCHANGED <<store, stop, delivered, raised, faults>>

\* A run() that ends when a batch raises.
AfterFailureEnds(r) == NoBatch("stopped", relay[r].hot)

\* run() after a batch raised: logged, and tried again after the poll interval.
AfterFailure(r) == NoBatch("sleep", relay[r].hot)

\* The batch raises: a statement or the commit fails and all is rolled back,
\* or only the commit's reply is lost.
BatchFails(r) ==
    /\ store = "sql" /\ faults < MaxFaults
    /\ InBatch(r) \/ (relay[r].pc = "poll" /\ ~stop[r])
    /\ \E applied \in {FALSE, relay[r].pc = "commit" /\ ~relay[r].lost} :
          outbox' = IF applied THEN Marked(relay[r].published, relay[r].failed)
                    ELSE outbox
    /\ faults' = faults + 1
    /\ relay' = [relay EXCEPT ![r] = AfterFailure(r)]
    /\ UNCHANGED <<store, stop, delivered, raised>>

\* The connection of r's transaction breaks: the database rolls back and
\* releases the locks while r goes on publishing.
LoseConnection(r) ==
    /\ store = "sql" /\ faults < MaxFaults
    /\ InBatch(r) /\ ~relay[r].lost
    /\ faults' = faults + 1
    /\ relay' = [relay EXCEPT ![r] = [@ EXCEPT !.lost = TRUE, !.locked = {}]]
    /\ UNCHANGED <<store, outbox, stop, delivered, raised>>

\* r comes to its next statement and finds the connection gone.
NoticeLoss(r) ==
    /\ relay[r].lost
    /\ relay[r].pc = "commit" \/ relay[r].todo = {}
    /\ relay' = [relay EXCEPT ![r] = AfterFailure(r)]
    /\ UNCHANGED <<store, outbox, stop, delivered, raised, faults>>

\* The process dies, or the task running run() is cancelled, at any point.
Crash(r) ==
    /\ faults < MaxFaults
    /\ relay[r].pc \notin {"down", "stopped"}
    /\ faults' = faults + 1
    /\ relay' = [relay EXCEPT ![r] = NoBatch("down", {})]
    /\ UNCHANGED <<store, outbox, stop, delivered, raised>>

-----------------------------------------------------------------------------
\* The wait for stop ends, because it is set or by the poll interval.
Wake(r) ==
    /\ relay[r].pc = "sleep"
    /\ relay' = [relay EXCEPT ![r] = NoBatch("poll", {})]
    /\ UNCHANGED <<store, outbox, stop, delivered, raised, faults>>

SetStop(r) ==
    /\ ~stop[r]
    /\ stop' = [stop EXCEPT ![r] = TRUE]
    /\ UNCHANGED <<store, outbox, relay, delivered, raised, faults>>

\* `while not stop.is_set()` ends.
Halt(r) ==
    /\ relay[r].pc = "poll" /\ stop[r]
    /\ relay' = [relay EXCEPT ![r] = NoBatch("stopped", {})]
    /\ UNCHANGED <<store, outbox, stop, delivered, raised, faults>>

Publish(r) == \E rec \in Records : PublishOk(r, rec) \/ PublishRaises(r, rec)

Next ==
    \/ \E rec \in Records : Save(rec)
    \/ \E r \in Relays : Start(r)
    \/ \E r \in Relays : FetchBatch(r)
    \/ \E r \in Relays, rec \in Records : PublishOk(r, rec)
    \/ \E r \in Relays, rec \in Records : PublishRaises(r, rec)
    \/ \E r \in Relays : Mark(r)
    \/ \E r \in Relays : Commit(r)
    \/ \E r \in Relays : BatchFails(r)
    \/ \E r \in Relays : LoseConnection(r)
    \/ \E r \in Relays : NoticeLoss(r)
    \/ \E r \in Relays : Crash(r)
    \/ \E r \in Relays : Wake(r)
    \/ \E r \in Relays : SetStop(r)
    \/ \E r \in Relays : Halt(r)

\* What the event loop runs by itself: a started relay never stands still
\* between two awaits, every await ends (publish and the database answer or
\* fail), and a relay that died is started again.  Faults, stopping and saving
\* are up to the environment.
RelayStep(r) ==
    \/ Start(r) \/ FetchBatch(r) \/ Publish(r) \/ Mark(r) \/ Commit(r)
    \/ NoticeLoss(r) \/ Wake(r) \/ Halt(r)

Spec == Init /\ [][Next]_vars

FairSpec == Spec /\ \A r \in Relays : WF_vars(RelayStep(r))

-----------------------------------------------------------------------------
\* At least once: a record marked published has reached the consumers, and no
\* attempt is counted against a record unless its publish raised, whatever
\* part of a batch failed, was repeated by another relay or lost its reply.
HonestMarks ==
    \A rec \in Records :
        /\ outbox[rec].published => delivered[rec] > 0
        /\ outbox[rec].attempts <= raised[rec]

\* Duplicates have a cause: beyond the first delivery, a record reaches the
\* consumers again only for an attempt counted against it or for a fault that
\* kept a batch from committing.  Two relays without faults never hand out the
\* same record twice (the disjoint claims that outbox.py promises).
DuplicatesAccounted ==
    \A rec \in Records : delivered[rec] <= 1 + outbox[rec].attempts + faults

\* "a broken publisher isn't retried in a tight loop" (run): between two
\* publishes of a failing record the relay sleeps.
NoTightRetry ==
    \A r \in Relays : relay[r].hot \cap relay[r].todo = {}

\* Every committed record is published in the end, or has used up its
\* attempts and stays in the store for an operator, unless every relay is told
\* to stop: faults and failing neighbours only delay it.
Settled(rec) == outbox[rec].published \/ outbox[rec].attempts = MaxAttempts

EverySavedSettles ==
    \A rec \in Records : rec \in Saved ~> (Settled(rec) \/ \A r \in Relays : stop[r])

\* A relay whose stop event is set ends, also while it drains a backlog.
StopEndsRun ==
    \A r \in Relays : stop[r] ~> relay[r].pc \in {"stopped", "down"}

=============================================================================
