------------------------- MODULE OutboxRelayProofs -------------------------
(***************************************************************************)
(* Safety of OutboxRelay for any relays, any finite set of records, both   *)
(* stores and any batch size, number of attempts and number of faults.     *)
(*                                                                         *)
(* BatchKept says what a batch is between the fetch and its end; that it   *)
(* never exceeds batch_size is what keeps a failing record out of the next *)
(* fetch (NoTightRetry).  ClaimsDisjoint is the promise of SKIP LOCKED, or *)
(* of the single relay over the memory store.  DeliveriesPaid is the       *)
(* account behind DuplicatesAccounted: a relay whose connection is gone    *)
(* owes a delivery for every record that it is still going to publish, and *)
(* the fault that cost it the connection has paid for it beforehand.       *)
(***************************************************************************)
EXTENDS OutboxRelay, FiniteSetTheorems, TLAPS

\* The records of r's batch, and those of them that were handed to publish.
Batch(r) == relay[r].todo \cup relay[r].published \cup relay[r].failed
Handled(r) == relay[r].published \cup relay[r].failed

Up(r) == relay[r].pc \notin {"down", "stopped"}

\* The positions of the memory store's dictionary are distinct.
PositionsKept ==
    \A a \in Saved :
        /\ outbox[a].position <= Cardinality(Saved)
        /\ \A b \in Saved : a # b => outbox[a].position # outbox[b].position

\* One batch, from its fetch to its end.
BatchOf(r) ==
    /\ ~InBatch(r) => Batch(r) = {} /\ relay[r].locked = {} /\ ~relay[r].lost
    /\ relay[r].todo \cap Handled(r) = {}
    /\ relay[r].published \cap relay[r].failed = {}
    /\ relay[r].pc = "commit" => relay[r].todo = {}
    /\ InBatch(r) => relay[r].hot = relay[r].failed
    /\ relay[r].pc = "poll" => relay[r].hot = {}
    /\ Cardinality(Batch(r)) <= BatchSize
    /\ relay[r].lost => store = "sql" /\ relay[r].locked = {}
    /\ store = "sql" /\ ~relay[r].lost => relay[r].locked = Batch(r)
    /\ store = "memory" => relay[r].locked = {}

BatchKept == \A r \in Relays : BatchOf(r)

\* Only one relay runs over the memory store, no two transactions hold the
\* same record, and a record that is held is unpublished with attempts left.
ClaimsDisjoint ==
    /\ store = "memory" => \A q, r \in Relays : q # r => ~Up(q) \/ ~Up(r)
    /\ \A q, r \in Relays : q # r /\ ~relay[q].lost /\ ~relay[r].lost =>
            Batch(q) \cap Batch(r) = {}
    /\ \A r \in Relays : ~relay[r].lost =>
            \A rec \in Batch(r) : /\ ~outbox[rec].published
                                  /\ outbox[rec].attempts < MaxAttempts

\* What is marked was delivered or raised, also what is about to be marked.
MarksHonest ==
    /\ HonestMarks
    /\ \A r \in Relays :
        /\ \A rec \in relay[r].published : delivered[rec] > 0
        /\ ~relay[r].lost =>
              \A rec \in relay[r].failed : outbox[rec].attempts < raised[rec]

\* The relays that go on publishing rec although their claim is gone.
Owing(rec) == {r \in Relays : relay[r].lost /\ rec \in relay[r].todo}

\* A transaction that may still commit has handed rec to publish, or seen it
\* raise.
Handed(rec) == \E r \in Relays : ~relay[r].lost /\ rec \in Handled(r)
Failing(rec) == \E r \in Relays : ~relay[r].lost /\ rec \in relay[r].failed

\* The account of one record.
PaidFor(rec) ==
    LET owed == Cardinality(Owing(rec))
        paid == outbox[rec].attempts + faults
    IN
    /\ IsFiniteSet(Owing(rec))
    /\ delivered[rec] + owed <= 1 + paid
    /\ ~outbox[rec].published /\ ~Handed(rec) => delivered[rec] + owed <= paid
    /\ raised[rec] + owed <= 1 + paid
    /\ ~Failing(rec) => raised[rec] + owed <= paid

DeliveriesPaid == \A rec \in Records : PaidFor(rec)

\* TypeOK but for the bounds of the two histories, which DeliveriesPaid gives.
Types ==
    /\ store \in {"sql", "memory"}
    /\ outbox \in [Records -> Row]
    /\ relay \in [Relays -> Relay]
    /\ stop \in [Relays -> BOOLEAN]
    /\ delivered \in [Records -> Nat]
    /\ raised \in [Records -> Nat]
    /\ faults \in 0..MaxFaults

IInv ==
    /\ Types
    /\ PositionsKept
    /\ BatchKept
    /\ ClaimsDisjoint
    /\ MarksHonest
    /\ DeliveriesPaid

USE RelayAssumption DEF RelayAssumption

-----------------------------------------------------------------------------
\* Saved and every batch are finite; counting them stays within Nat.
LEMMA RecordsFinite ==
    ASSUME NEW S \in SUBSET Records
    PROVE  /\ IsFiniteSet(S)
           /\ Cardinality(S) \in Nat
           /\ Cardinality(S) <= Cardinality(Records)
BY FS_Subset, FS_CardinalityType

\* Fetch order is a strict total order of the saved records: created_at is
\* unique in the model, and so are the positions.
LEMMA BeforeTotal ==
    ASSUME Types, PositionsKept, NEW a \in Saved, NEW b \in Saved
    PROVE  /\ a # b => Before(a, b) \/ Before(b, a)
           /\ ~Before(a, a)
           /\ \A c \in Saved : Before(a, b) /\ Before(b, c) => Before(a, c)
<1>1. \A x \in Saved : x \in Nat /\ outbox[x].position \in Nat
  <2>1. ASSUME NEW x \in Saved PROVE x \in Nat /\ outbox[x].position \in Nat
    <3>1. x \in Records /\ outbox[x] \in Row
      BY DEF Saved, Types
    <3>2. Cardinality(Records) \in Nat
      BY FS_CardinalityType
    <3> QED BY <3>1, <3>2 DEF Row
  <2> QED BY <2>1
<1>2. a # b => outbox[a].position # outbox[b].position
  BY DEF PositionsKept
<1>3. CASE store = "sql"
  BY <1>1, <1>3 DEF Before
<1>4. CASE store # "sql"
  BY <1>1, <1>2, <1>4 DEF Before
<1> QED BY <1>3, <1>4

\* LIMIT n: FirstOf takes at most n of the records.  Two of them with equally
\* many predecessors would be each other's predecessor.
LEMMA FirstOfBound ==
    ASSUME Types, PositionsKept, NEW n \in Nat, NEW recs \in SUBSET Saved
    PROVE  /\ FirstOf(n, recs) \subseteq recs
           /\ Cardinality(FirstOf(n, recs)) <= n
<1> DEFINE Earlier(rec) == {x \in recs : Before(x, rec)}
           S == FirstOf(n, recs)
           f == [rec \in S |-> Cardinality(Earlier(rec))]
<1>1. S \subseteq recs /\ recs \subseteq Records
  BY DEF FirstOf, Saved
<1>2. IsFiniteSet(S) /\ Cardinality(S) \in Nat
  <2> HIDE DEF S
  <2> QED BY <1>1, RecordsFinite
<1>3. \A rec \in recs : /\ IsFiniteSet(Earlier(rec))
                        /\ Cardinality(Earlier(rec)) \in Nat
  <2>1. \A rec \in recs : Earlier(rec) \in SUBSET Records
    BY <1>1
  <2> HIDE DEF Earlier
  <2> QED BY <2>1, RecordsFinite
<1>4. \A rec \in S : Cardinality(Earlier(rec)) < n
  BY DEF FirstOf
<1>5. f \in [S -> 0..(n - 1)]
  <2> HIDE DEF Earlier, S
  <2> QED BY <1>1, <1>3, <1>4
<1>6. IsFiniteSet(0..(n - 1)) /\ Cardinality(0..(n - 1)) = n
  BY FS_Interval
<1>7. ASSUME NEW a \in S, NEW b \in S, Before(a, b)
      PROVE  f[a] < f[b]
  <2>1. a \in Saved /\ b \in Saved /\ a \in recs /\ b \in recs
    BY <1>1
  <2>2. Earlier(a) \subseteq Earlier(b)
    BY <1>7, <2>1, BeforeTotal
  <2>3. a \in Earlier(b) /\ a \notin Earlier(a)
    BY <1>7, <2>1, BeforeTotal
  <2>4. /\ IsFiniteSet(Earlier(b)) /\ Cardinality(Earlier(b)) \in Nat
        /\ Cardinality(Earlier(a)) \in Nat
    BY <1>3, <2>1
  <2>5. Cardinality(Earlier(a)) < Cardinality(Earlier(b))
    <3> HIDE DEF Earlier
    <3> QED BY <2>2, <2>3, <2>4, FS_Subset
  <2>6. f[a] = Cardinality(Earlier(a)) /\ f[b] = Cardinality(Earlier(b))
    OBVIOUS
  <2> QED BY <2>5, <2>6
<1>8. ASSUME NEW a \in S, NEW b \in S, a # b
      PROVE  f[a] # f[b]
  <2>1. a \in Saved /\ b \in Saved
    BY <1>1
  <2>2. Before(a, b) \/ Before(b, a)
    BY <1>8, <2>1, BeforeTotal
  <2>3. f[a] \in Int /\ f[b] \in Int
    BY <1>5
  <2> HIDE DEF f, S
  <2> QED BY <1>7, <2>2, <2>3
<1> HIDE DEF f, S
<1>9. ~(n < Cardinality(S))
  BY <1>2, <1>5, <1>6, <1>8, FS_PigeonHole
<1> QED BY <1>1, <1>2, <1>9 DEF S

-----------------------------------------------------------------------------
\* A relay without a batch.
LEMMA NoBatchFields ==
    ASSUME NEW pc \in RelayPC, NEW hot \in SUBSET Records
    PROVE  LET b == NoBatch(pc, hot) IN
           /\ b \in Relay /\ b.pc = pc /\ b.hot = hot /\ ~b.lost
           /\ b.todo = {} /\ b.published = {} /\ b.failed = {} /\ b.locked = {}
BY DEF NoBatch, Relay

\* The initial states satisfy the inductive invariant.
LEMMA InitIInv == Init => IInv
<1> SUFFICES ASSUME Init PROVE IInv
  OBVIOUS
<1>1. \A rec \in Records : /\ outbox[rec].position = 0 /\ ~outbox[rec].published
                           /\ outbox[rec].attempts = 0
                           /\ delivered[rec] = 0 /\ raised[rec] = 0
  BY DEF Init
<1>2. \A r \in Relays : /\ relay[r] \in Relay /\ relay[r].pc = "down"
                        /\ relay[r].hot = {} /\ ~relay[r].lost
                        /\ relay[r].todo = {} /\ relay[r].published = {}
                        /\ relay[r].failed = {} /\ relay[r].locked = {}
  <2>1. \A r \in Relays : relay[r] = NoBatch("down", {})
    BY DEF Init
  <2> QED BY <2>1, NoBatchFields DEF RelayPC
<1>3. Saved = {}
  BY <1>1 DEF Saved
<1>4. Types
  <2>1. outbox \in [Records -> Row]
    <3>1. 0 \in 0..Cardinality(Records)
      BY FS_CardinalityType
    <3>2. [position |-> 0, published |-> FALSE, attempts |-> 0] \in Row
      BY <3>1 DEF Row
    <3> QED BY <3>2 DEF Init
  <2>2. relay \in [Relays -> Relay]
    BY <1>2 DEF Init
  <2> QED BY <2>1, <2>2 DEF Init, Types
<1>5. PositionsKept
  BY <1>3 DEF PositionsKept
<1>6. BatchKept
  <2> SUFFICES ASSUME NEW r \in Relays PROVE BatchOf(r)
    BY DEF BatchKept
  <2>1. Batch(r) = {} /\ Handled(r) = {} /\ ~InBatch(r)
    BY <1>2 DEF Batch, Handled, InBatch
  <2>2. Cardinality(Batch(r)) = 0
    BY <2>1, FS_EmptySet
  <2> QED BY <1>2, <2>1, <2>2 DEF BatchOf
<1>7. ClaimsDisjoint
  BY <1>2 DEF ClaimsDisjoint, Batch, Up
<1>8. MarksHonest
  BY <1>1, <1>2 DEF MarksHonest, HonestMarks
<1>9. ASSUME NEW rec \in Records PROVE PaidFor(rec)
  <2>1. Owing(rec) = {}
    BY <1>2 DEF Owing
  <2>2. IsFiniteSet(Owing(rec)) /\ Cardinality(Owing(rec)) = 0
    BY <2>1, FS_EmptySet
  <2>3. faults = 0
    BY DEF Init
  <2> QED BY <1>1, <2>2, <2>3 DEF PaidFor
<1> QED BY <1>4, <1>5, <1>6, <1>7, <1>8, <1>9 DEF IInv, DeliveriesPaid

\* What a step does to one relay; the others stay as they are.
Only(r, new) == relay' = [relay EXCEPT ![r] = new]

\* A relay that drops its batch, or has none, and goes to pc.
LEMMA ResetEffect ==
    ASSUME Types, NEW r \in Relays, NEW pc \in RelayPC, NEW hot \in SUBSET Records,
           Only(r, NoBatch(pc, hot))
    PROVE  /\ relay' \in [Relays -> Relay]
           /\ \A q \in Relays : q # r => relay'[q] = relay[q]
           /\ relay'[r].pc = pc /\ relay'[r].hot = hot /\ ~relay'[r].lost
           /\ relay'[r].todo = {} /\ relay'[r].published = {}
           /\ relay'[r].failed = {} /\ relay'[r].locked = {}
<1>1. NoBatch(pc, hot) \in Relay
  BY NoBatchFields
<1> DEFINE new == NoBatch(pc, hot)
<1>2. relay' = [relay EXCEPT ![r] = new]
  BY DEF Only
<1>3. relay'[r] = new /\ \A q \in Relays : q # r => relay'[q] = relay[q]
  <2> HIDE DEF new
  <2> QED BY <1>2 DEF Types
<1>4. relay' \in [Relays -> Relay]
  <2> HIDE DEF new
  <2> QED BY <1>1, <1>2 DEF Types, new
<1> QED BY <1>3, <1>4, NoBatchFields

\* The store's rows keep their positions.
LEMMA PositionsStay ==
    ASSUME Types, PositionsKept,
           \A rec \in Records : outbox'[rec].position = outbox[rec].position
    PROVE  PositionsKept' /\ Saved' = Saved
<1>1. Saved' = Saved
  BY DEF Saved
<1>2. \A rec \in Saved : rec \in Records
  BY DEF Saved
<1>3. \A a \in Saved : outbox'[a].position = outbox[a].position
  BY <1>2
<1>4. \A a \in Saved :
        /\ outbox'[a].position <= Cardinality(Saved)
        /\ \A b \in Saved : a # b => outbox'[a].position # outbox'[b].position
  BY <1>3 DEF PositionsKept
<1>5. Cardinality(Saved)' = Cardinality(Saved)
  BY <1>1
<1> QED BY <1>1, <1>4, <1>5 DEF PositionsKept

\* A record's account stays balanced when nothing is published, the attempts,
\* the faults and what is owed move in the relays' favour, and what was in
\* flight is either marked, still in flight, or paid for by another fault or
\* attempt.
LEMMA AccountStays ==
    ASSUME Types, Types', NEW rec \in Records, PaidFor(rec),
           delivered'[rec] = delivered[rec], raised'[rec] = raised[rec],
           outbox'[rec].attempts + faults' >= outbox[rec].attempts + faults,
           Owing(rec)' \subseteq Owing(rec),
           \/ outbox'[rec].attempts + faults' > outbox[rec].attempts + faults
           \/ /\ ~outbox'[rec].published /\ ~Handed(rec)' =>
                     ~outbox[rec].published /\ ~Handed(rec)
              /\ ~Failing(rec)' => ~Failing(rec)
    PROVE  PaidFor(rec)'
<1> DEFINE owed == Cardinality(Owing(rec))
           left == Cardinality(Owing(rec)')
           paid == outbox[rec].attempts + faults
           next == outbox'[rec].attempts + faults'
<1>1. /\ IsFiniteSet(Owing(rec)) /\ owed \in Nat
      /\ IsFiniteSet(Owing(rec)') /\ left \in Nat /\ left <= owed
  BY FS_Subset, FS_CardinalityType DEF PaidFor
<1>2. /\ delivered[rec] \in Nat /\ raised[rec] \in Nat
      /\ paid \in Nat /\ next \in Nat
  <2>1. outbox[rec] \in Row /\ outbox'[rec] \in Row
    BY DEF Types
  <2> QED BY <2>1 DEF Types, Row
<1>3. /\ delivered[rec] + owed <= 1 + paid
      /\ ~outbox[rec].published /\ ~Handed(rec) => delivered[rec] + owed <= paid
      /\ raised[rec] + owed <= 1 + paid
      /\ ~Failing(rec) => raised[rec] + owed <= paid
  BY DEF PaidFor
<1>4. next >= paid
  OBVIOUS
<1>5. \/ next > paid
      \/ /\ ~outbox'[rec].published /\ ~Handed(rec)' =>
                ~outbox[rec].published /\ ~Handed(rec)
         /\ ~Failing(rec)' => ~Failing(rec)
  OBVIOUS
<1>6. /\ delivered'[rec] + left <= 1 + next
      /\ ~outbox'[rec].published /\ ~Handed(rec)' => delivered'[rec] + left <= next
      /\ raised'[rec] + left <= 1 + next
      /\ ~Failing(rec)' => raised'[rec] + left <= next
  <2> HIDE DEF owed, left, paid, next
  <2>1. CASE next > paid
    BY <1>1, <1>2, <1>3, <2>1
  <2>2. CASE /\ ~outbox'[rec].published /\ ~Handed(rec)' =>
                    ~outbox[rec].published /\ ~Handed(rec)
             /\ ~Failing(rec)' => ~Failing(rec)
    BY <1>1, <1>2, <1>3, <1>4, <2>2
  <2> QED BY <1>5, <2>1, <2>2
<1> QED BY <1>1, <1>6 DEF PaidFor

\* What mark_published and record_failed_attempts write for a batch that is
\* still held: no attempt passes max_attempts.
LEMMA MarkedFields ==
    ASSUME IInv, NEW r \in Relays, ~relay[r].lost
    PROVE  LET marked == Marked(relay[r].published, relay[r].failed) IN
           /\ marked \in [Records -> Row]
           /\ \A rec \in Records :
                /\ marked[rec].position = outbox[rec].position
                /\ marked[rec].published <=>
                     outbox[rec].published \/ rec \in relay[r].published
                /\ marked[rec].attempts =
                     IF rec \in relay[r].failed THEN outbox[rec].attempts + 1
                     ELSE outbox[rec].attempts
<1> DEFINE marked == Marked(relay[r].published, relay[r].failed)
<1>1. /\ relay[r].published \subseteq Records /\ relay[r].failed \subseteq Records
      /\ relay[r].published \cap relay[r].failed = {}
  BY DEF IInv, Types, Relay, BatchKept, BatchOf
<1>2. \A rec \in relay[r].failed : outbox[rec].attempts < MaxAttempts
  BY DEF IInv, ClaimsDisjoint, Batch
<1>3. ASSUME NEW rec \in Records
      PROVE  /\ marked[rec] \in Row
             /\ marked[rec].position = outbox[rec].position
             /\ marked[rec].published <=>
                  outbox[rec].published \/ rec \in relay[r].published
             /\ marked[rec].attempts =
                  IF rec \in relay[r].failed THEN outbox[rec].attempts + 1
                  ELSE outbox[rec].attempts
  <2> DEFINE row == outbox[rec]
  <2>1. row \in Row
    BY DEF IInv, Types
  <2>2. marked[rec] = IF rec \in relay[r].published THEN [row EXCEPT !.published = TRUE]
                      ELSE IF rec \in relay[r].failed
                           THEN [row EXCEPT !.attempts = @ + 1] ELSE row
    BY DEF Marked
  <2>3. rec \in relay[r].failed => row.attempts < MaxAttempts
    BY <1>2
  <2> HIDE DEF row, marked
  <2>4. CASE rec \in relay[r].published
    <3>1. marked[rec] = [row EXCEPT !.published = TRUE] /\ rec \notin relay[r].failed
      BY <1>1, <2>2, <2>4
    <3> QED BY <2>1, <2>4, <3>1 DEF Row, row
  <2>5. CASE rec \in relay[r].failed /\ rec \notin relay[r].published
    <3>1. marked[rec] = [row EXCEPT !.attempts = @ + 1]
      BY <2>2, <2>5
    <3>2. /\ marked[rec] \in Row /\ marked[rec].attempts = row.attempts + 1
          /\ marked[rec].position = row.position
          /\ marked[rec].published = row.published
      BY <2>1, <2>3, <2>5, <3>1 DEF Row
    <3> QED BY <2>5, <3>2 DEF row
  <2>6. CASE rec \notin relay[r].failed /\ rec \notin relay[r].published
    BY <2>1, <2>2, <2>6 DEF row
  <2> QED BY <2>4, <2>5, <2>6
<1>4. marked = [rec \in Records |-> marked[rec]]
  BY DEF Marked
<1>5. marked \in [Records -> Row]
  <2> HIDE DEF marked
  <2> QED BY <1>3, <1>4
<1> QED BY <1>3, <1>5

-----------------------------------------------------------------------------
\* Everything that takes the batch from a relay: the end of the batch with its
\* marks applied or not, the notice of a lost connection, a crash, and the
\* steps of a relay that has no batch.  Without the marks it costs a fault,
\* unless there was nothing left in flight.
LEMMA ResetKeeps ==
    ASSUME IInv, NEW r \in Relays, NEW pc \in RelayPC \ {"publish", "commit"},
           NEW hot \in SUBSET Records, pc = "poll" => hot = {},
           Only(r, NoBatch(pc, hot)),
           NEW applied \in BOOLEAN,
           applied => ~relay[r].lost /\ relay[r].todo = {},
           outbox' = IF applied THEN Marked(relay[r].published, relay[r].failed)
                     ELSE outbox,
           UNCHANGED <<store, stop, delivered, raised>>,
           faults' \in 0..MaxFaults,
           \/ faults' = faults + 1
           \/ /\ faults' = faults
              /\ applied \/ relay[r].lost \/ Batch(r) = {},
           store = "memory" /\ pc \notin {"down", "stopped"} /\ ~Up(r) =>
               \A q \in Relays : q # r => ~Up(q)
    PROVE  IInv'
<1>1. /\ relay' \in [Relays -> Relay]
      /\ \A q \in Relays : q # r => relay'[q] = relay[q]
      /\ relay'[r].pc = pc /\ relay'[r].hot = hot /\ ~relay'[r].lost
      /\ relay'[r].todo = {} /\ relay'[r].published = {}
      /\ relay'[r].failed = {} /\ relay'[r].locked = {}
  BY ResetEffect DEF IInv
<1>2. /\ outbox' \in [Records -> Row]
      /\ \A rec \in Records :
           /\ outbox'[rec].position = outbox[rec].position
           /\ outbox'[rec].published <=>
                outbox[rec].published \/ (applied /\ rec \in relay[r].published)
           /\ outbox'[rec].attempts =
                IF applied /\ rec \in relay[r].failed THEN outbox[rec].attempts + 1
                ELSE outbox[rec].attempts
  <2>1. CASE applied
    BY <2>1, MarkedFields
  <2>2. CASE ~applied
    BY <2>2 DEF IInv, Types
  <2> QED BY <2>1, <2>2
<1>3. Types'
  BY <1>1, <1>2 DEF IInv, Types
<1>4. PositionsKept'
  BY <1>2, PositionsStay DEF IInv
<1>5. BatchKept'
  <2>1. BatchOf(r)'
    <3>1. Batch(r)' = {} /\ Handled(r)' = {} /\ ~InBatch(r)'
      BY <1>1 DEF Batch, Handled, InBatch
    <3>2. Cardinality(Batch(r)') = 0
      BY <3>1, FS_EmptySet
    <3> QED BY <1>1, <3>1, <3>2 DEF BatchOf
  <2>2. ASSUME NEW q \in Relays, q # r PROVE BatchOf(q)'
    <3>1. BatchOf(q)
      BY DEF IInv, BatchKept
    <3> QED BY <1>1, <2>2, <3>1 DEF BatchOf, Batch, Handled, InBatch
  <2> QED BY <2>1, <2>2 DEF BatchKept
<1>6. ClaimsDisjoint'
  <2>1. \A q \in Relays : q # r => Batch(q)' = Batch(q) /\ (Up(q)' <=> Up(q))
    BY <1>1 DEF Batch, Up
  <2>2. Batch(r)' = {} /\ (Up(r)' <=> pc \notin {"down", "stopped"})
    BY <1>1 DEF Batch, Up
  <2>3. ASSUME NEW q \in Relays, ~relay'[q].lost, NEW rec \in Batch(q)'
        PROVE  ~outbox'[rec].published /\ outbox'[rec].attempts < MaxAttempts
    <3>1. q # r /\ ~relay[q].lost /\ rec \in Batch(q)
      BY <1>1, <2>1, <2>2, <2>3
    <3>2. rec \in Records
      BY <3>1 DEF Batch, IInv, Types, Relay
    <3>3. ~outbox[rec].published /\ outbox[rec].attempts < MaxAttempts
      BY <3>1 DEF IInv, ClaimsDisjoint
    <3>4. applied => rec \notin Batch(r)
      BY <3>1 DEF IInv, ClaimsDisjoint
    <3> QED BY <1>2, <3>2, <3>3, <3>4 DEF Batch
  <2>4. store' = "memory" => \A p, q \in Relays : p # q => ~Up(p)' \/ ~Up(q)'
    BY <2>1, <2>2 DEF IInv, ClaimsDisjoint
  <2>5. \A p, q \in Relays : p # q /\ ~relay'[p].lost /\ ~relay'[q].lost =>
            Batch(p)' \cap Batch(q)' = {}
    BY <1>1, <2>1, <2>2 DEF IInv, ClaimsDisjoint
  <2> QED BY <2>3, <2>4, <2>5 DEF ClaimsDisjoint
<1>7. MarksHonest'
  <2>1. ASSUME NEW rec \in Records
        PROVE  /\ outbox'[rec].published => delivered'[rec] > 0
               /\ outbox'[rec].attempts <= raised'[rec]
    <3>1. /\ outbox[rec].published => delivered[rec] > 0
          /\ outbox[rec].attempts <= raised[rec]
          /\ rec \in relay[r].published => delivered[rec] > 0
          /\ applied /\ rec \in relay[r].failed => outbox[rec].attempts < raised[rec]
      BY DEF IInv, MarksHonest, HonestMarks
    <3>2. outbox[rec] \in Row /\ raised[rec] \in Nat
      BY DEF IInv, Types
    <3> QED BY <1>2, <3>1, <3>2 DEF Row
  <2>2. ASSUME NEW q \in Relays
        PROVE  /\ \A rec \in relay'[q].published : delivered'[rec] > 0
               /\ ~relay'[q].lost =>
                     \A rec \in relay'[q].failed : outbox'[rec].attempts < raised'[rec]
    <3>1. CASE q = r
      BY <1>1, <3>1
    <3>2. CASE q # r
      <4>1. /\ \A rec \in relay[q].published : delivered[rec] > 0
            /\ ~relay[q].lost =>
                  \A rec \in relay[q].failed : outbox[rec].attempts < raised[rec]
        BY DEF IInv, MarksHonest
      <4>2. ASSUME ~relay[q].lost, NEW rec \in relay[q].failed
            PROVE  outbox'[rec].attempts = outbox[rec].attempts
        <5>1. rec \in Records
          BY DEF IInv, Types, Relay
        <5>2. applied => rec \notin relay[r].failed
          BY <3>2, <4>2 DEF IInv, ClaimsDisjoint, Batch
        <5> QED BY <1>2, <5>1, <5>2
      <4> QED BY <1>1, <3>2, <4>1, <4>2
    <3> QED BY <3>1, <3>2
  <2> QED BY <2>1, <2>2 DEF MarksHonest, HonestMarks
<1>8. ASSUME NEW rec \in Records PROVE PaidFor(rec)'
  <2>1. PaidFor(rec)
    BY DEF IInv, DeliveriesPaid
  <2>2. Owing(rec)' \subseteq Owing(rec)
    BY <1>1 DEF Owing
  <2>3. outbox[rec].attempts \in Nat /\ faults \in Nat
    <3>1. outbox[rec] \in Row
      BY DEF IInv, Types
    <3> QED BY <3>1 DEF IInv, Types, Row
  <2>4. /\ outbox'[rec].attempts + faults' >= outbox[rec].attempts + faults
        /\ faults' = faults + 1 \/ (applied /\ rec \in relay[r].failed) =>
             outbox'[rec].attempts + faults' > outbox[rec].attempts + faults
    BY <1>2, <2>3
  <2>5. ASSUME faults' = faults, ~(applied /\ rec \in relay[r].failed)
        PROVE  /\ ~outbox'[rec].published /\ ~Handed(rec)' =>
                     ~outbox[rec].published /\ ~Handed(rec)
               /\ ~Failing(rec)' => ~Failing(rec)
    <3>1. applied \/ relay[r].lost \/ Batch(r) = {}
      BY <2>3, <2>5
    <3>2. \A q \in Relays : q # r => Handled(q)' = Handled(q)
      BY <1>1 DEF Handled
    <3>3. ~outbox'[rec].published /\ ~relay[r].lost => rec \notin Handled(r)
      BY <1>2, <2>5, <3>1 DEF Handled, Batch
    <3>4. ~relay[r].lost => rec \notin relay[r].failed
      BY <2>5, <3>1 DEF Batch
    <3>5. ASSUME ~outbox'[rec].published, NEW q \in Relays, ~relay[q].lost,
                 rec \in Handled(q)
          PROVE  Handed(rec)'
      <4>1. q # r
        BY <3>3, <3>5
      <4> QED BY <1>1, <3>2, <3>5, <4>1 DEF Handed
    <3>6. ASSUME NEW q \in Relays, ~relay[q].lost, rec \in relay[q].failed
          PROVE  Failing(rec)'
      <4>1. q # r
        BY <3>4, <3>6
      <4> QED BY <1>1, <3>6, <4>1 DEF Failing
    <3>7. ~outbox'[rec].published => ~outbox[rec].published
      BY <1>2
    <3> QED BY <3>5, <3>6, <3>7 DEF Handed, Failing
  <2> QED BY <1>3, <2>1, <2>2, <2>4, <2>5, AccountStays DEF IInv
<1> QED BY <1>3, <1>4, <1>5, <1>6, <1>7, <1>8 DEF IInv, DeliveriesPaid

\* run() drains on only after a whole batch was published, so a relay that
\* polls at once has no failing record behind it.
LEMMA DrainsOnlyClean ==
    ASSUME IInv, NEW r \in Relays, InBatch(r)
    PROVE  \E pc \in {"poll", "sleep"}, hot \in SUBSET Records :
               /\ AfterBatch(r) = NoBatch(pc, hot)
               /\ pc = "poll" => hot = {}
<1> DEFINE pc == IF Cardinality(relay[r].published) >= BatchSize THEN "poll" ELSE "sleep"
<1>1. relay[r] \in Relay /\ relay[r].hot \in SUBSET Records
  BY DEF IInv, Types, Relay
<1>2. AfterBatch(r) = NoBatch(pc, relay[r].hot)
  BY DEF AfterBatch
<1>3. ASSUME Cardinality(relay[r].published) >= BatchSize
      PROVE  relay[r].hot = {}
  <2>1. /\ Batch(r) \in SUBSET Records /\ relay[r].published \subseteq Batch(r)
        /\ relay[r].failed \subseteq Batch(r)
    BY <1>1 DEF Batch, Relay
  <2>2. /\ relay[r].published \cap relay[r].failed = {}
        /\ relay[r].hot = relay[r].failed
        /\ Cardinality(Batch(r)) <= BatchSize
    BY DEF IInv, BatchKept, BatchOf
  <2>3. /\ IsFiniteSet(Batch(r)) /\ Cardinality(Batch(r)) \in Nat
        /\ Cardinality(relay[r].published) \in Nat
        /\ Cardinality(relay[r].published) <= Cardinality(Batch(r))
    BY <2>1, RecordsFinite, FS_Subset
  <2>4. Cardinality(Batch(r)) = Cardinality(relay[r].published)
    BY <1>3, <2>2, <2>3
  <2>5. relay[r].published = Batch(r)
    BY <2>1, <2>3, <2>4, FS_Subset
  <2> QED BY <2>1, <2>2, <2>5
<1> QED BY <1>1, <1>2, <1>3

\* run() starts: with the memory store no other relay is up.
LEMMA StartKeeps == ASSUME IInv, NEW r \in Relays, Start(r) PROVE IInv'
<1>1. Batch(r) = {}
  BY DEF Start, IInv, BatchKept, BatchOf, InBatch
<1>2. store = "memory" => \A q \in Relays : q # r => ~Up(q)
  BY DEF Start, Up
<1> QED BY <1>1, <1>2, ResetKeeps DEF Start, Only, RelayPC, IInv, Types

\* The poll interval is over, or stop is set.
LEMMA WakeKeeps == ASSUME IInv, NEW r \in Relays, Wake(r) PROVE IInv'
<1>1. Batch(r) = {} /\ Up(r)
  BY DEF Wake, IInv, BatchKept, BatchOf, InBatch, Up
<1> QED BY <1>1, ResetKeeps DEF Wake, Only, RelayPC, IInv, Types

\* run() returns.
LEMMA HaltKeeps == ASSUME IInv, NEW r \in Relays, Halt(r) PROVE IInv'
<1>1. Batch(r) = {}
  BY DEF Halt, IInv, BatchKept, BatchOf, InBatch
<1> QED BY <1>1, ResetKeeps DEF Halt, Only, RelayPC, IInv, Types

\* The process dies with its batch.
LEMMA CrashKeeps == ASSUME IInv, NEW r \in Relays, Crash(r) PROVE IInv'
<1>1. faults' = faults + 1 /\ faults' \in 0..MaxFaults
  BY DEF Crash, IInv, Types
<1>2. /\ Only(r, NoBatch("down", {}))
      /\ outbox' = IF FALSE THEN Marked(relay[r].published, relay[r].failed) ELSE outbox
      /\ UNCHANGED <<store, stop, delivered, raised>>
  BY DEF Crash, Only
<1>3. "down" \in RelayPC \ {"publish", "commit"} /\ {} \in SUBSET Records
  BY DEF RelayPC
<1>4. ~(store = "memory" /\ "down" \notin {"down", "stopped"} /\ ~Up(r))
  OBVIOUS
<1> QED BY <1>1, <1>2, <1>3, <1>4, ResetKeeps

\* A relay that finds its connection gone has nothing in flight to lose.
LEMMA NoticeLossKeeps == ASSUME IInv, NEW r \in Relays, NoticeLoss(r) PROVE IInv'
<1>1. relay[r].hot \in SUBSET Records
  BY DEF IInv, Types, Relay
<1>2. relay[r].lost /\ Up(r)
  BY DEF NoticeLoss, IInv, BatchKept, BatchOf, InBatch, Up
<1> QED
  BY <1>1, <1>2, ResetKeeps DEF NoticeLoss, AfterFailure, Only, RelayPC, IInv, Types

\* A batch that raises: rolled back, or committed with its reply lost.
LEMMA BatchFailsKeeps == ASSUME IInv, NEW r \in Relays, BatchFails(r) PROVE IInv'
<1>1. relay[r].hot \in SUBSET Records
  BY DEF IInv, Types, Relay
<1>2. faults' = faults + 1 /\ faults' \in 0..MaxFaults
  BY DEF BatchFails, IInv, Types
<1>3. PICK applied \in BOOLEAN :
        /\ outbox' = IF applied THEN Marked(relay[r].published, relay[r].failed)
                     ELSE outbox
        /\ applied => relay[r].pc = "commit" /\ ~relay[r].lost
  BY DEF BatchFails
<1>4. applied => relay[r].todo = {} /\ ~relay[r].lost
  BY <1>3 DEF IInv, BatchKept, BatchOf
<1>5. Only(r, NoBatch("sleep", relay[r].hot)) /\ store # "memory"
  BY DEF BatchFails, AfterFailure, Only
<1>6. UNCHANGED <<store, stop, delivered, raised>>
  BY DEF BatchFails
<1> QED BY <1>1, <1>2, <1>3, <1>4, <1>5, <1>6, ResetKeeps DEF RelayPC

\* The marks of a batch are seen: claim() ends over the memory store, or the
\* transaction commits.
LEMMA MarksKeep ==
    ASSUME IInv, NEW r \in Relays, InBatch(r), ~relay[r].lost, relay[r].todo = {},
           outbox' = Marked(relay[r].published, relay[r].failed),
           Only(r, AfterBatch(r)),
           UNCHANGED <<store, stop, delivered, raised, faults>>
    PROVE  IInv'
<1>1. PICK pc \in {"poll", "sleep"}, hot \in SUBSET Records :
        AfterBatch(r) = NoBatch(pc, hot) /\ (pc = "poll" => hot = {})
  BY DrainsOnlyClean
<1>2. Up(r) /\ faults' \in 0..MaxFaults
  BY DEF InBatch, Up, IInv, Types
<1>3. Only(r, NoBatch(pc, hot))
  BY <1>1
<1>4. outbox' = IF TRUE THEN Marked(relay[r].published, relay[r].failed) ELSE outbox
  OBVIOUS
<1>5. pc \in RelayPC \ {"publish", "commit"}
  BY DEF RelayPC
<1> QED BY <1>1, <1>2, <1>3, <1>4, <1>5, ResetKeeps

\* The Unit of Work around a batch commits.
LEMMA CommitKeeps == ASSUME IInv, NEW r \in Relays, Commit(r) PROVE IInv'
<1>1. relay[r].todo = {} /\ InBatch(r)
  BY DEF Commit, IInv, BatchKept, BatchOf, InBatch
<1> QED BY <1>1, MarksKeep DEF Commit, Only

-----------------------------------------------------------------------------
\* A producer's record gets the next position, which no saved record has.
LEMMA SaveKeeps == ASSUME IInv, NEW rec \in Records, Save(rec) PROVE IInv'
<1> DEFINE n == Cardinality(Saved)
           row == [outbox[rec] EXCEPT !.position = n + 1]
<1>1. /\ rec \notin Saved /\ Saved \in SUBSET Records
      /\ UNCHANGED <<store, relay, stop, delivered, raised, faults>>
  BY DEF Save, Saved
<1>2. n \in Nat /\ n + 1 <= Cardinality(Records) /\ Cardinality(Records) \in Nat
  <2>1. IsFiniteSet(Saved) /\ n \in Nat
    BY <1>1, RecordsFinite
  <2>2. Cardinality(Saved \cup {rec}) = n + 1
    BY <1>1, <2>1, FS_AddElement
  <2>3. Cardinality(Saved \cup {rec}) <= Cardinality(Records)
    <3>1. Saved \cup {rec} \in SUBSET Records
      BY <1>1
    <3> QED BY <3>1, RecordsFinite
  <2>4. Cardinality(Records) \in Nat
    BY FS_CardinalityType
  <2> QED BY <2>1, <2>2, <2>3, <2>4
<1>3. /\ row \in Row /\ row.position = n + 1
      /\ row.published = outbox[rec].published /\ row.attempts = outbox[rec].attempts
  <2>1. outbox[rec] \in Row
    BY DEF IInv, Types
  <2> HIDE DEF n
  <2> QED BY <1>2, <2>1 DEF Row
<1>4. outbox' = [outbox EXCEPT ![rec] = row]
  BY DEF Save
<1> HIDE DEF row
<1>5. /\ outbox' \in [Records -> Row]
      /\ outbox'[rec] = row
      /\ \A a \in Records : a # rec => outbox'[a] = outbox[a]
  BY <1>3, <1>4 DEF IInv, Types
<1>6. \A a \in Records : /\ outbox'[a].published = outbox[a].published
                         /\ outbox'[a].attempts = outbox[a].attempts
  BY <1>3, <1>5
<1>7. Types'
  BY <1>1, <1>5 DEF IInv, Types
<1>8. PositionsKept'
  <2>1. Saved' = Saved \cup {rec}
    <3>1. outbox'[rec].position > 0
      <4> HIDE DEF n
      <4> QED BY <1>2, <1>3, <1>5
    <3> HIDE DEF n
    <3> QED BY <1>5, <3>1 DEF Saved
  <2>2. Cardinality(Saved)' = n + 1
    <3>1. IsFiniteSet(Saved)
      BY <1>1, RecordsFinite
    <3> QED BY <1>1, <2>1, <3>1, FS_AddElement
  <2>3. \A a \in Saved : /\ outbox'[a].position = outbox[a].position
                         /\ outbox[a].position \in Nat
                         /\ outbox[a].position <= n
                         /\ \A b \in Saved : a # b =>
                                outbox[a].position # outbox[b].position
    <3>1. ASSUME NEW a \in Saved PROVE outbox[a].position \in Nat
      <4>1. outbox[a] \in Row
        BY DEF Saved, IInv, Types
      <4> QED BY <1>2, <4>1 DEF Row
    <3> QED BY <1>1, <1>5, <3>1 DEF IInv, PositionsKept
  <2> HIDE DEF n
  <2> QED BY <1>2, <1>3, <1>5, <2>1, <2>2, <2>3 DEF PositionsKept
<1>9. BatchKept'
  BY <1>1 DEF IInv, BatchKept, BatchOf, Batch, Handled, InBatch
<1>10. ClaimsDisjoint'
  <2>1. \A r \in Relays : Batch(r) \subseteq Records
    BY DEF Batch, IInv, Types, Relay
  <2> QED BY <1>1, <1>6, <2>1 DEF IInv, ClaimsDisjoint, Batch, Up
<1>11. MarksHonest'
  <2>1. \A r \in Relays : relay[r].failed \subseteq Records
    BY DEF IInv, Types, Relay
  <2> QED BY <1>1, <1>6, <2>1 DEF IInv, MarksHonest, HonestMarks
<1>12. DeliveriesPaid'
  BY <1>1, <1>6 DEF IInv, DeliveriesPaid, PaidFor, Owing, Handed, Failing, Handled
<1> QED BY <1>7, <1>8, <1>9, <1>10, <1>11, <1>12 DEF IInv

\* What the other invariants see of a step that leaves the store alone: the
\* positions stay.
LEMMA StoreStays ==
    ASSUME IInv, UNCHANGED outbox
    PROVE  PositionsKept'
BY PositionsStay DEF IInv

\* The records a batch takes are held by nobody, saved, unpublished and have
\* attempts left, and they are no more than batch_size.
LEMMA FetchedRecords ==
    ASSUME IInv, NEW r \in Relays
    PROVE  LET batch == FirstOf(BatchSize, Eligible(r)) IN
           /\ batch \in SUBSET Records
           /\ Cardinality(batch) <= BatchSize
           /\ \A rec \in batch :
                /\ ~outbox[rec].published /\ outbox[rec].attempts < MaxAttempts
                /\ store = "sql" => \A q \in Relays : q # r => rec \notin relay[q].locked
<1>1. Eligible(r) \in SUBSET Saved /\ Saved \in SUBSET Records
  BY DEF Eligible, Saved
<1>2. /\ FirstOf(BatchSize, Eligible(r)) \subseteq Eligible(r)
      /\ Cardinality(FirstOf(BatchSize, Eligible(r))) <= BatchSize
  BY <1>1, FirstOfBound DEF IInv
<1> QED BY <1>1, <1>2 DEF Eligible

\* A fetch: SKIP LOCKED, or being the only relay, keeps the claims disjoint.
LEMMA FetchKeeps == ASSUME IInv, NEW r \in Relays, FetchBatch(r) PROVE IInv'
<1> DEFINE batch == FirstOf(BatchSize, Eligible(r))
           locks == IF store = "sql" THEN batch ELSE {}
           new == [relay[r] EXCEPT !.pc = "publish", !.todo = batch, !.locked = locks]
<1>1. /\ batch \in SUBSET Records
      /\ Cardinality(batch) <= BatchSize
      /\ \A rec \in batch :
           /\ ~outbox[rec].published /\ outbox[rec].attempts < MaxAttempts
           /\ store = "sql" => \A q \in Relays : q # r => rec \notin relay[q].locked
  BY FetchedRecords
<1>2. relay' = [relay EXCEPT ![r] = new]
  BY DEF FetchBatch
<1>3. UNCHANGED <<store, outbox, stop, delivered, raised, faults>>
  BY DEF FetchBatch
<1>4. /\ relay[r] \in Relay /\ relay[r].pc = "poll" /\ relay[r].hot = {}
      /\ Batch(r) = {} /\ ~relay[r].lost
  BY DEF FetchBatch, IInv, Types, BatchKept, BatchOf, InBatch
<1> HIDE DEF batch
<1>5. locks \in SUBSET Records
  BY <1>1
<1>6. /\ new \in Relay /\ new.pc = "publish" /\ new.todo = batch /\ new.locked = locks
      /\ new.published = relay[r].published /\ new.failed = relay[r].failed
      /\ new.lost = relay[r].lost /\ new.hot = relay[r].hot
  <2> HIDE DEF locks
  <2> QED BY <1>1, <1>4, <1>5 DEF Relay, RelayPC
<1> HIDE DEF new
<1>7. /\ relay' \in [Relays -> Relay]
      /\ \A q \in Relays : q # r => relay'[q] = relay[q]
      /\ relay'[r].pc = "publish" /\ relay'[r].todo = batch /\ relay'[r].locked = locks
      /\ relay'[r].published = {} /\ relay'[r].failed = {}
      /\ ~relay'[r].lost /\ relay'[r].hot = {}
  BY <1>2, <1>4, <1>6 DEF IInv, Types, Batch
<1>8. Types'
  BY <1>3, <1>7 DEF IInv, Types
<1>9. PositionsKept'
  BY <1>3, StoreStays
<1>10. Batch(r)' = batch /\ Handled(r)' = {} /\ Up(r)' /\ Up(r)
  BY <1>4, <1>7 DEF Batch, Handled, Up
<1>11. \A q \in Relays : q # r => Batch(q)' = Batch(q) /\ (Up(q)' <=> Up(q))
  BY <1>7 DEF Batch, Up
<1>12. BatchKept'
  <2>1. BatchOf(r)'
    BY <1>1, <1>3, <1>7, <1>10 DEF BatchOf, InBatch
  <2>2. ASSUME NEW q \in Relays, q # r PROVE BatchOf(q)'
    <3>1. BatchOf(q)
      BY DEF IInv, BatchKept
    <3> QED BY <1>3, <1>7, <2>2, <3>1 DEF BatchOf, Batch, Handled, InBatch
  <2> QED BY <2>1, <2>2 DEF BatchKept
<1>13. ClaimsDisjoint'
  <2>1. ASSUME NEW q \in Relays, q # r, ~relay[q].lost
        PROVE  Batch(q) \cap batch = {}
    <3>1. CASE store = "sql"
      <4>1. relay[q].locked = Batch(q)
        BY <2>1, <3>1 DEF IInv, BatchKept, BatchOf
      <4> QED BY <1>1, <2>1, <3>1, <4>1
    <3>2. CASE store = "memory"
      <4>1. ~Up(q)
        BY <1>10, <2>1, <3>2 DEF IInv, ClaimsDisjoint
      <4>2. Batch(q) = {}
        BY <4>1 DEF Up, InBatch, IInv, BatchKept, BatchOf
      <4> QED BY <4>2
    <3> QED BY <3>1, <3>2 DEF IInv, Types
  <2>2. \A p, q \in Relays : p # q /\ ~relay'[p].lost /\ ~relay'[q].lost =>
            Batch(p)' \cap Batch(q)' = {}
    BY <1>7, <1>10, <1>11, <2>1 DEF IInv, ClaimsDisjoint
  <2>3. store' = "memory" => \A p, q \in Relays : p # q => ~Up(p)' \/ ~Up(q)'
    BY <1>3, <1>10, <1>11 DEF IInv, ClaimsDisjoint
  <2>4. \A q \in Relays : ~relay'[q].lost =>
            \A rec \in Batch(q)' : /\ ~outbox'[rec].published
                                   /\ outbox'[rec].attempts < MaxAttempts
    BY <1>1, <1>3, <1>7, <1>10, <1>11 DEF IInv, ClaimsDisjoint
  <2> QED BY <2>2, <2>3, <2>4 DEF ClaimsDisjoint
<1>14. MarksHonest'
  BY <1>3, <1>7 DEF IInv, MarksHonest, HonestMarks
<1>15. ASSUME NEW rec \in Records PROVE PaidFor(rec)'
  <2>1. Owing(rec)' \subseteq Owing(rec)
    BY <1>7 DEF Owing
  <2>2. \A q \in Relays : Handled(q)' = Handled(q) /\ relay'[q].failed = relay[q].failed
                          /\ relay'[q].lost = relay[q].lost
    BY <1>4, <1>7 DEF Handled, Batch, IInv, Types, Relay
  <2>3. (Handed(rec)' <=> Handed(rec)) /\ (Failing(rec)' <=> Failing(rec))
    BY <2>2 DEF Handed, Failing
  <2>4. outbox[rec].attempts + faults \in Nat
    <3>1. outbox[rec] \in Row
      BY DEF IInv, Types
    <3> QED BY <3>1 DEF IInv, Types, Row
  <2>5. outbox'[rec].attempts + faults' >= outbox[rec].attempts + faults
    BY <1>3, <2>4
  <2>6. Types /\ PaidFor(rec)
    BY DEF IInv, DeliveriesPaid
  <2> QED BY <1>3, <1>8, <2>1, <2>3, <2>5, <2>6, AccountStays
<1> QED BY <1>8, <1>9, <1>12, <1>13, <1>14, <1>15 DEF IInv, DeliveriesPaid

-----------------------------------------------------------------------------
\* publish(rec) returned or raised: rec leaves the batch's todo for published
\* (it was delivered) or for failed (it may have been).
HandedOver(r, rec, reached, refused) ==
    /\ IsNext(r, rec)
    /\ delivered' = [delivered EXCEPT ![rec] = @ + reached]
    /\ raised' = [raised EXCEPT ![rec] = @ + refused]
    /\ UNCHANGED <<store, outbox, stop, faults>>
    /\ relay' \in [Relays -> Relay]
    /\ \A q \in Relays : q # r => relay'[q] = relay[q]
    /\ relay'[r].pc = "publish"
    /\ relay'[r].todo = relay[r].todo \ {rec}
    /\ relay'[r].locked = relay[r].locked /\ relay'[r].lost = relay[r].lost
    /\ \/ /\ reached = 1 /\ refused = 0
          /\ relay'[r].published = relay[r].published \cup {rec}
          /\ relay'[r].failed = relay[r].failed /\ relay'[r].hot = relay[r].hot
       \/ /\ refused = 1
          /\ relay'[r].published = relay[r].published
          /\ relay'[r].failed = relay[r].failed \cup {rec}
          /\ relay'[r].hot = relay[r].hot \cup {rec}

\* Both outcomes of publish are of that form.
LEMMA PublishEffect ==
    ASSUME Types, NEW r \in Relays, NEW rec \in Records,
           PublishOk(r, rec) \/ PublishRaises(r, rec)
    PROVE  \E reached \in {0, 1}, refused \in {0, 1} : HandedOver(r, rec, reached, refused)
<1>1. relay[r] \in Relay
  BY DEF Types
<1>2. ASSUME PublishOk(r, rec)
      PROVE  HandedOver(r, rec, 1, 0)
  <2> DEFINE new == [relay[r] EXCEPT !.todo = @ \ {rec}, !.published = @ \cup {rec}]
  <2>1. /\ new \in Relay /\ new.pc = relay[r].pc /\ new.todo = relay[r].todo \ {rec}
        /\ new.published = relay[r].published \cup {rec}
        /\ new.failed = relay[r].failed /\ new.hot = relay[r].hot
        /\ new.locked = relay[r].locked /\ new.lost = relay[r].lost
    BY <1>1 DEF Relay
  <2>2. relay' = [relay EXCEPT ![r] = new]
    BY <1>2 DEF PublishOk
  <2> HIDE DEF new
  <2>3. relay' \in [Relays -> Relay] /\ relay'[r] = new
        /\ \A q \in Relays : q # r => relay'[q] = relay[q]
    BY <2>1, <2>2 DEF Types
  <2>4. raised' = [raised EXCEPT ![rec] = @ + 0]
    <3>1. raised \in [Records -> Nat] /\ raised' = raised
      BY <1>2 DEF PublishOk, Types
    <3>2. raised = [raised EXCEPT ![rec] = raised[rec]]
      BY <3>1
    <3>3. raised[rec] + 0 = raised[rec]
      BY <3>1
    <3> QED BY <3>1, <3>2, <3>3
  <2>5. /\ IsNext(r, rec) /\ relay[r].pc = "publish"
        /\ delivered' = [delivered EXCEPT ![rec] = @ + 1]
        /\ UNCHANGED <<store, outbox, stop, faults>>
    BY <1>2 DEF PublishOk, IsNext
  <2> QED BY <2>1, <2>3, <2>4, <2>5 DEF HandedOver
<1>3. ASSUME PublishRaises(r, rec)
      PROVE  \E reached \in {0, 1} : HandedOver(r, rec, reached, 1)
  <2> DEFINE new == [relay[r] EXCEPT !.todo = @ \ {rec}, !.failed = @ \cup {rec},
                                     !.hot = @ \cup {rec}]
  <2>1. /\ new \in Relay /\ new.pc = relay[r].pc /\ new.todo = relay[r].todo \ {rec}
        /\ new.published = relay[r].published
        /\ new.failed = relay[r].failed \cup {rec} /\ new.hot = relay[r].hot \cup {rec}
        /\ new.locked = relay[r].locked /\ new.lost = relay[r].lost
    BY <1>1 DEF Relay
  <2>2. relay' = [relay EXCEPT ![r] = new]
    BY <1>3 DEF PublishRaises
  <2> HIDE DEF new
  <2>3. relay' \in [Relays -> Relay] /\ relay'[r] = new
        /\ \A q \in Relays : q # r => relay'[q] = relay[q]
    BY <2>1, <2>2 DEF Types
  <2>4. PICK reached \in {0, 1} : delivered' = [delivered EXCEPT ![rec] = @ + reached]
    BY <1>3 DEF PublishRaises
  <2>5. /\ IsNext(r, rec) /\ relay[r].pc = "publish"
        /\ raised' = [raised EXCEPT ![rec] = @ + 1]
        /\ UNCHANGED <<store, outbox, stop, faults>>
    BY <1>3 DEF PublishRaises, IsNext
  <2> QED BY <2>1, <2>3, <2>4, <2>5 DEF HandedOver
<1> QED BY <1>2, <1>3

\* The account of the record that was just handed to publish: a relay without
\* its claim pays with what it owed, one with its claim is now in flight.
LEMMA PublishPaid ==
    ASSUME IInv, NEW r \in Relays, NEW rec \in Records,
           NEW reached \in {0, 1}, NEW refused \in {0, 1},
           HandedOver(r, rec, reached, refused)
    PROVE  PaidFor(rec)'
<1> DEFINE owed == Cardinality(Owing(rec))
           left == Cardinality(Owing(rec)')
           paid == outbox[rec].attempts + faults
<1>1. /\ IsFiniteSet(Owing(rec)) /\ owed \in Nat
      /\ delivered[rec] + owed <= 1 + paid
      /\ ~outbox[rec].published /\ ~Handed(rec) => delivered[rec] + owed <= paid
      /\ raised[rec] + owed <= 1 + paid
      /\ ~Failing(rec) => raised[rec] + owed <= paid
  BY FS_CardinalityType DEF IInv, DeliveriesPaid, PaidFor
<1>2. /\ delivered[rec] \in Nat /\ raised[rec] \in Nat /\ paid \in Nat
      /\ delivered'[rec] = delivered[rec] + reached
      /\ raised'[rec] = raised[rec] + refused
      /\ outbox' = outbox /\ faults' = faults
  <2>1. outbox[rec] \in Row
    BY DEF IInv, Types
  <2> QED BY <2>1 DEF IInv, Types, Row, HandedOver
<1>3. /\ rec \in relay[r].todo /\ rec \notin Handled(r) /\ rec \notin relay'[r].todo
      /\ relay'[r].lost = relay[r].lost /\ rec \in Handled(r)'
      /\ refused = 1 => rec \in relay'[r].failed
      /\ refused = 0 => relay'[r].failed = relay[r].failed
      /\ \A q \in Relays : q # r => relay'[q] = relay[q]
  BY DEF HandedOver, IsNext, IInv, BatchKept, BatchOf, Handled
<1>4. CASE relay[r].lost
  <2>1. Owing(rec)' = Owing(rec) \ {r} /\ r \in Owing(rec)
    BY <1>3, <1>4 DEF Owing
  <2>2. IsFiniteSet(Owing(rec)') /\ left = owed - 1
    BY <1>1, <2>1, FS_RemoveElement
  <2>3. (Handed(rec)' <=> Handed(rec)) /\ (Failing(rec)' <=> Failing(rec))
    <3>1. \A q \in Relays : q # r => Handled(q)' = Handled(q)
      BY <1>3 DEF Handled
    <3> QED BY <1>3, <1>4, <3>1 DEF Handed, Failing
  <2>4. left \in Nat
    BY <2>2, FS_CardinalityType
  <2>5. /\ delivered'[rec] + left <= 1 + paid
        /\ ~outbox[rec].published /\ ~Handed(rec) => delivered'[rec] + left <= paid
        /\ raised'[rec] + left <= 1 + paid
        /\ ~Failing(rec) => raised'[rec] + left <= paid
    <3> HIDE DEF owed, left, paid
    <3> QED BY <1>1, <1>2, <2>2, <2>4
  <2> QED BY <1>2, <2>2, <2>3, <2>5 DEF PaidFor
<1>5. CASE ~relay[r].lost
  <2>1. Owing(rec)' = Owing(rec)
    BY <1>3, <1>5 DEF Owing
  <2>2. ~outbox[rec].published
    BY <1>3, <1>5 DEF IInv, ClaimsDisjoint, Batch
  <2>3. \A q \in Relays : q # r /\ ~relay[q].lost => rec \notin Batch(q)
    BY <1>3, <1>5 DEF IInv, ClaimsDisjoint, Batch
  <2>4. ~Handed(rec) /\ ~Failing(rec)
    BY <1>3, <2>3 DEF Handed, Failing, Handled, Batch
  <2>5. Handed(rec)'
    BY <1>3, <1>5 DEF Handed
  <2>6. refused = 1 => Failing(rec)'
    BY <1>3, <1>5 DEF Failing
  <2>7. /\ delivered'[rec] + owed <= 1 + paid
        /\ raised'[rec] + owed <= 1 + paid
        /\ refused = 0 => raised'[rec] + owed <= paid
    <3> HIDE DEF owed, paid
    <3> QED BY <1>1, <1>2, <2>2, <2>4
  <2> QED BY <1>1, <1>2, <2>1, <2>5, <2>6, <2>7 DEF PaidFor
<1> QED BY <1>4, <1>5

\* A record handed to publish moves within its batch.
LEMMA PublishKeeps ==
    ASSUME IInv, NEW r \in Relays, NEW rec \in Records,
           PublishOk(r, rec) \/ PublishRaises(r, rec)
    PROVE  IInv'
<1>1. PICK reached \in {0, 1}, refused \in {0, 1} : HandedOver(r, rec, reached, refused)
  BY PublishEffect DEF IInv
<1>2. /\ UNCHANGED <<store, outbox, stop, faults>>
      /\ relay' \in [Relays -> Relay]
      /\ \A q \in Relays : q # r => relay'[q] = relay[q]
      /\ relay[r].pc = "publish" /\ relay'[r].pc = "publish"
      /\ rec \in relay[r].todo /\ relay'[r].todo = relay[r].todo \ {rec}
      /\ relay'[r].locked = relay[r].locked /\ relay'[r].lost = relay[r].lost
      /\ \/ /\ reached = 1 /\ refused = 0
            /\ relay'[r].published = relay[r].published \cup {rec}
            /\ relay'[r].failed = relay[r].failed /\ relay'[r].hot = relay[r].hot
         \/ /\ refused = 1
            /\ relay'[r].published = relay[r].published
            /\ relay'[r].failed = relay[r].failed \cup {rec}
            /\ relay'[r].hot = relay[r].hot \cup {rec}
  BY <1>1 DEF HandedOver, IsNext
<1>3. /\ delivered' \in [Records -> Nat] /\ raised' \in [Records -> Nat]
      /\ delivered'[rec] = delivered[rec] + reached
      /\ raised'[rec] = raised[rec] + refused
      /\ \A a \in Records : a # rec => delivered'[a] = delivered[a] /\ raised'[a] = raised[a]
  BY <1>1 DEF HandedOver, IInv, Types
<1>4. \A a \in Records : delivered[a] \in Nat /\ raised[a] \in Nat
  BY DEF IInv, Types
<1>5. Types'
  BY <1>2, <1>3 DEF IInv, Types
<1>6. PositionsKept'
  BY <1>2, StoreStays
<1>7. BatchOf(r) /\ InBatch(r)
  BY <1>2 DEF IInv, BatchKept, InBatch
<1>8. /\ \A q \in Relays : Batch(q)' = Batch(q) /\ (Up(q)' <=> Up(q))
      /\ \A q \in Relays : relay'[q].lost = relay[q].lost
      /\ InBatch(r)' /\ Handled(r)' = Handled(r) \cup {rec} /\ rec \notin Handled(r)
  BY <1>2, <1>7 DEF Batch, Up, InBatch, Handled, BatchOf
<1>9. BatchKept'
  <2>1. BatchOf(r)'
    <3>1. relay'[r].todo \cap Handled(r)' = {}
      BY <1>2, <1>7, <1>8 DEF BatchOf
    <3>2. relay'[r].published \cap relay'[r].failed = {}
      BY <1>2, <1>7, <1>8 DEF BatchOf, Handled
    <3>3. relay'[r].hot = relay'[r].failed
      BY <1>2, <1>7 DEF BatchOf
    <3>4. Cardinality(Batch(r))' <= BatchSize
      BY <1>7, <1>8 DEF BatchOf
    <3>5. /\ relay'[r].lost => store' = "sql" /\ relay'[r].locked = {}
          /\ store' = "sql" /\ ~relay'[r].lost => relay'[r].locked = Batch(r)'
          /\ store' = "memory" => relay'[r].locked = {}
      BY <1>2, <1>7, <1>8 DEF BatchOf
    <3> QED BY <1>2, <1>8, <3>1, <3>2, <3>3, <3>4, <3>5 DEF BatchOf
  <2>2. ASSUME NEW q \in Relays, q # r PROVE BatchOf(q)'
    <3>1. BatchOf(q)
      BY DEF IInv, BatchKept
    <3> QED BY <1>2, <2>2, <3>1 DEF BatchOf, Batch, Handled, InBatch
  <2> QED BY <2>1, <2>2 DEF BatchKept
<1>10. ClaimsDisjoint'
  BY <1>2, <1>8 DEF IInv, ClaimsDisjoint
<1>11. MarksHonest'
  <2>1. \A a \in Records : /\ outbox[a].published => delivered'[a] > 0
                           /\ outbox[a].attempts <= raised'[a]
    <3>1. ASSUME NEW a \in Records
          PROVE  /\ outbox[a].published => delivered'[a] > 0
                 /\ outbox[a].attempts <= raised'[a]
      <4>1. delivered'[a] >= delivered[a] /\ raised'[a] >= raised[a]
        BY <1>3, <1>4
      <4>2. /\ outbox[a].published => delivered[a] > 0
            /\ outbox[a].attempts <= raised[a]
        BY DEF IInv, MarksHonest, HonestMarks
      <4>3. outbox[a].attempts \in Nat
        <5>1. outbox[a] \in Row
          BY DEF IInv, Types
        <5> QED BY <5>1 DEF Row
      <4>4. delivered'[a] \in Nat /\ raised'[a] \in Nat
        BY <1>3
      <4>5. ASSUME outbox[a].published PROVE delivered'[a] > 0
        <5>1. delivered[a] > 0 /\ delivered[a] \in Nat
          BY <1>4, <4>2, <4>5
        <5> QED BY <4>1, <4>4, <5>1
      <4>6. outbox[a].attempts <= raised'[a]
        <5>1. outbox[a].attempts <= raised[a]
          BY <4>2
        <5>2. raised[a] \in Nat
          BY <1>4
        <5> QED BY <4>1, <4>3, <4>4, <5>1, <5>2
      <4> QED BY <4>5, <4>6
    <3> QED BY <3>1
  <2>2. ASSUME NEW q \in Relays, NEW a \in relay'[q].published PROVE delivered'[a] > 0
    <3>1. a \in Records
      BY <1>2 DEF Relay
    <3>2. CASE a \in relay[q].published
      <4>1. delivered[a] > 0
        BY <3>2 DEF IInv, MarksHonest
      <4> QED BY <1>3, <1>4, <3>1, <4>1
    <3>3. CASE a \notin relay[q].published
      <4>1. a = rec /\ reached = 1
        BY <1>2, <2>2, <3>3
      <4> QED BY <1>3, <1>4, <4>1
    <3> QED BY <3>2, <3>3
  <2>3. ASSUME NEW q \in Relays, ~relay'[q].lost, NEW a \in relay'[q].failed
        PROVE  outbox[a].attempts < raised'[a]
    <3>1. a \in Records /\ ~relay[q].lost
      BY <1>2, <1>8, <2>3 DEF Relay
    <3>2. outbox[a].attempts \in Nat /\ outbox[a].attempts <= raised[a]
      <4>1. outbox[a] \in Row
        BY <3>1 DEF IInv, Types
      <4> QED BY <3>1, <4>1 DEF Row, IInv, MarksHonest, HonestMarks
    <3>3. CASE a \in relay[q].failed
      <4>1. outbox[a].attempts < raised[a]
        BY <3>1, <3>3 DEF IInv, MarksHonest
      <4> QED BY <1>3, <1>4, <3>1, <3>2, <4>1
    <3>4. CASE a \notin relay[q].failed
      <4>1. a = rec /\ refused = 1
        BY <1>2, <2>3, <3>4
      <4> QED BY <1>3, <1>4, <3>2, <4>1
    <3> QED BY <3>3, <3>4
  <2> QED BY <1>2, <2>1, <2>2, <2>3 DEF MarksHonest, HonestMarks
<1>12. ASSUME NEW a \in Records, a # rec PROVE PaidFor(a)'
  <2>1. /\ \A q \in Relays : /\ a \in relay'[q].todo <=> a \in relay[q].todo
                             /\ a \in Handled(q)' <=> a \in Handled(q)
                             /\ a \in relay'[q].failed <=> a \in relay[q].failed
    BY <1>2, <1>8, <1>12 DEF Handled
  <2>2. /\ Owing(a)' \subseteq Owing(a) /\ (Handed(a)' <=> Handed(a))
        /\ (Failing(a)' <=> Failing(a))
    BY <1>8, <2>1 DEF Owing, Handed, Failing
  <2>3. outbox'[a].attempts + faults' >= outbox[a].attempts + faults
    <3>1. outbox[a] \in Row
      BY DEF IInv, Types
    <3>2. outbox[a].attempts + faults \in Nat
      BY <3>1 DEF IInv, Types, Row
    <3> QED BY <1>2, <3>2
  <2>4. Types /\ PaidFor(a)
    BY DEF IInv, DeliveriesPaid
  <2>5. delivered'[a] = delivered[a] /\ raised'[a] = raised[a] /\ outbox' = outbox
    BY <1>2, <1>3, <1>12
  <2> QED BY <1>5, <2>2, <2>3, <2>4, <2>5, AccountStays
<1>13. PaidFor(rec)'
  BY <1>1, PublishPaid
<1> QED BY <1>5, <1>6, <1>9, <1>10, <1>11, <1>12, <1>13 DEF IInv, DeliveriesPaid

\* The end of a batch's loop.
LEMMA MarkKeeps == ASSUME IInv, NEW r \in Relays, Mark(r) PROVE IInv'
<1>1. relay[r].pc = "publish" /\ relay[r].todo = {} /\ ~relay[r].lost /\ InBatch(r)
  BY DEF Mark, InBatch
<1>2. CASE store # "sql"
  BY <1>1, <1>2, MarksKeep DEF Mark, Only
<1>3. CASE store = "sql"
  <2> DEFINE new == [relay[r] EXCEPT !.pc = "commit"]
  <2>1. relay' = [relay EXCEPT ![r] = new]
    BY <1>3 DEF Mark
  <2>2. UNCHANGED <<store, outbox, stop, delivered, raised, faults>>
    BY <1>3 DEF Mark
  <2>3. relay[r] \in Relay
    BY DEF IInv, Types
  <2>4. /\ new \in Relay /\ new.pc = "commit" /\ new.todo = relay[r].todo
        /\ new.published = relay[r].published /\ new.failed = relay[r].failed
        /\ new.locked = relay[r].locked /\ new.lost = relay[r].lost
        /\ new.hot = relay[r].hot
    BY <2>3 DEF Relay, RelayPC
  <2> HIDE DEF new
  <2>5. /\ relay' \in [Relays -> Relay] /\ relay'[r].pc = "commit"
        /\ \A q \in Relays :
             /\ q # r => relay'[q].pc = relay[q].pc
             /\ relay'[q].todo = relay[q].todo
             /\ relay'[q].published = relay[q].published
             /\ relay'[q].failed = relay[q].failed
             /\ relay'[q].locked = relay[q].locked
             /\ relay'[q].lost = relay[q].lost /\ relay'[q].hot = relay[q].hot
    BY <2>1, <2>4 DEF IInv, Types
  <2>6. \A q \in Relays : /\ Batch(q)' = Batch(q) /\ Handled(q)' = Handled(q)
                          /\ (Up(q)' <=> Up(q)) /\ (InBatch(q)' <=> InBatch(q))
    BY <1>1, <2>5 DEF Batch, Handled, Up, InBatch
  <2>7. Types'
    BY <2>2, <2>5 DEF IInv, Types
  <2>8. PositionsKept'
    BY <2>2, StoreStays
  <2>9. BatchKept'
    <3>1. ASSUME NEW q \in Relays PROVE BatchOf(q)'
      <4>1. BatchOf(q)
        BY DEF IInv, BatchKept
      <4>2. relay'[q].pc = "commit" => relay'[q].todo = {}
        BY <1>1, <2>5, <4>1 DEF BatchOf
      <4>3. relay'[q].pc = "poll" => relay'[q].hot = {}
        BY <2>5, <4>1 DEF BatchOf
      <4> QED BY <2>2, <2>5, <2>6, <4>1, <4>2, <4>3 DEF BatchOf
    <3> QED BY <3>1 DEF BatchKept
  <2>10. ClaimsDisjoint'
    BY <2>2, <2>5, <2>6 DEF IInv, ClaimsDisjoint
  <2>11. MarksHonest'
    BY <2>2, <2>5 DEF IInv, MarksHonest, HonestMarks
  <2>12. DeliveriesPaid'
    <3>1. ASSUME NEW rec \in Records PROVE PaidFor(rec)'
      <4>1. Owing(rec)' = Owing(rec) /\ (Handed(rec)' <=> Handed(rec))
            /\ (Failing(rec)' <=> Failing(rec))
        BY <2>5, <2>6 DEF Owing, Handed, Failing
      <4>2. PaidFor(rec)
        BY DEF IInv, DeliveriesPaid
      <4> QED BY <2>2, <4>1, <4>2 DEF PaidFor
    <3> QED BY <3>1 DEF DeliveriesPaid
  <2> QED BY <2>7, <2>8, <2>9, <2>10, <2>11, <2>12 DEF IInv
<1> QED BY <1>2, <1>3

\* The connection breaks: the claim is gone, and the fault pays in advance for
\* the records that the relay still has to hand to publish.
LEMMA LoseConnectionKeeps ==
    ASSUME IInv, NEW r \in Relays, LoseConnection(r) PROVE IInv'
<1> DEFINE new == [relay[r] EXCEPT !.lost = TRUE, !.locked = {}]
<1>1. /\ relay' = [relay EXCEPT ![r] = new] /\ InBatch(r) /\ ~relay[r].lost
      /\ store = "sql" /\ faults' = faults + 1 /\ faults < MaxFaults
      /\ UNCHANGED <<store, outbox, stop, delivered, raised>>
  BY DEF LoseConnection
<1>2. relay[r] \in Relay
  BY DEF IInv, Types
<1>3. /\ new \in Relay /\ new.lost = TRUE /\ new.locked = {} /\ new.pc = relay[r].pc
      /\ new.todo = relay[r].todo /\ new.hot = relay[r].hot
      /\ new.published = relay[r].published /\ new.failed = relay[r].failed
  BY <1>2 DEF Relay
<1> HIDE DEF new
<1>4. /\ relay' \in [Relays -> Relay] /\ relay'[r].lost /\ relay'[r].locked = {}
      /\ \A q \in Relays :
           /\ relay'[q].pc = relay[q].pc /\ relay'[q].todo = relay[q].todo
           /\ relay'[q].published = relay[q].published
           /\ relay'[q].failed = relay[q].failed /\ relay'[q].hot = relay[q].hot
           /\ q # r => relay'[q].lost = relay[q].lost /\ relay'[q].locked = relay[q].locked
  BY <1>1, <1>3 DEF IInv, Types
<1>5. \A q \in Relays : /\ Batch(q)' = Batch(q) /\ Handled(q)' = Handled(q)
                        /\ (Up(q)' <=> Up(q)) /\ (InBatch(q)' <=> InBatch(q))
  BY <1>4 DEF Batch, Handled, Up, InBatch
<1>6. Types'
  BY <1>1, <1>4 DEF IInv, Types
<1>7. PositionsKept'
  BY <1>1, StoreStays
<1>8. BatchKept'
  <2>1. ASSUME NEW q \in Relays PROVE BatchOf(q)'
    <3>1. BatchOf(q)
      BY DEF IInv, BatchKept
    <3>2. CASE q = r
      BY <1>1, <1>4, <1>5, <3>1, <3>2 DEF BatchOf
    <3>3. CASE q # r
      BY <1>1, <1>4, <1>5, <3>1, <3>3 DEF BatchOf
    <3> QED BY <3>2, <3>3
  <2> QED BY <2>1 DEF BatchKept
<1>9. ClaimsDisjoint'
  BY <1>1, <1>4, <1>5 DEF IInv, ClaimsDisjoint
<1>10. MarksHonest'
  BY <1>1, <1>4 DEF IInv, MarksHonest, HonestMarks
<1>11. ASSUME NEW rec \in Records PROVE PaidFor(rec)'
  <2>1. outbox[rec].attempts \in Nat /\ faults \in Nat /\ delivered[rec] \in Nat
        /\ raised[rec] \in Nat
    <3>1. outbox[rec] \in Row
      BY DEF IInv, Types
    <3> QED BY <3>1 DEF IInv, Types, Row
  <2>2. CASE rec \notin relay[r].todo
    <3>1. Owing(rec)' \subseteq Owing(rec)
      BY <1>4, <2>2 DEF Owing
    <3>2. outbox'[rec].attempts + faults' > outbox[rec].attempts + faults
      BY <1>1, <2>1
    <3>3. outbox'[rec].attempts + faults' >= outbox[rec].attempts + faults
      BY <1>1, <2>1
    <3>4. Types /\ PaidFor(rec) /\ delivered' = delivered /\ raised' = raised
      BY <1>1 DEF IInv, DeliveriesPaid
    <3> QED BY <1>6, <3>1, <3>2, <3>3, <3>4, AccountStays
  <2>3. CASE rec \in relay[r].todo
    <3> DEFINE owed == Cardinality(Owing(rec))
               paid == outbox[rec].attempts + faults
    <3>1. Owing(rec)' = Owing(rec) \cup {r} /\ r \notin Owing(rec)
      BY <1>1, <1>4, <2>3 DEF Owing
    <3>2. PaidFor(rec)
      BY DEF IInv, DeliveriesPaid
    <3>3. /\ IsFiniteSet(Owing(rec)) /\ owed \in Nat
          /\ IsFiniteSet(Owing(rec)') /\ Cardinality(Owing(rec)') = owed + 1
      BY <3>1, <3>2, FS_AddElement, FS_CardinalityType DEF PaidFor
    <3>4. ~outbox[rec].published
      BY <1>1, <2>3 DEF IInv, ClaimsDisjoint, Batch
    <3>5. ~Handed(rec) /\ ~Failing(rec)
      <4>1. rec \notin Handled(r) /\ rec \in Batch(r)
        BY <2>3 DEF IInv, BatchKept, BatchOf, Batch
      <4>2. \A q \in Relays : q # r /\ ~relay[q].lost => rec \notin Batch(q)
        BY <1>1, <4>1 DEF IInv, ClaimsDisjoint
      <4> QED BY <4>1, <4>2 DEF Handed, Failing, Batch, Handled
    <3>6. delivered[rec] + owed <= paid /\ raised[rec] + owed <= paid
      BY <3>2, <3>4, <3>5 DEF PaidFor
    <3>7. outbox'[rec].attempts + faults' = paid + 1 /\ paid \in Nat
      BY <1>1, <2>1
    <3>8. /\ delivered[rec] + (owed + 1) <= paid + 1
          /\ delivered[rec] + (owed + 1) <= 1 + (paid + 1)
          /\ raised[rec] + (owed + 1) <= paid + 1
          /\ raised[rec] + (owed + 1) <= 1 + (paid + 1)
      <4> HIDE DEF owed, paid
      <4> QED BY <2>1, <3>3, <3>6, <3>7
    <3> HIDE DEF owed, paid
    <3> QED BY <1>1, <3>3, <3>7, <3>8 DEF PaidFor
  <2> QED BY <2>2, <2>3
<1> QED BY <1>6, <1>7, <1>8, <1>9, <1>10, <1>11 DEF IInv, DeliveriesPaid

\* The stop event is set.
LEMMA SetStopKeeps == ASSUME IInv, NEW r \in Relays, SetStop(r) PROVE IInv'
<1>1. /\ UNCHANGED <<store, outbox, relay, delivered, raised, faults>>
      /\ stop' = [stop EXCEPT ![r] = TRUE]
  BY DEF SetStop
<1>2. Types'
  BY <1>1 DEF IInv, Types
<1>3. PositionsKept'
  BY <1>1, StoreStays
<1>4. BatchKept' /\ ClaimsDisjoint' /\ MarksHonest'
  <2>1. BatchKept'
    BY <1>1 DEF IInv, BatchKept, BatchOf, Batch, Handled, InBatch
  <2>2. ClaimsDisjoint'
    BY <1>1 DEF IInv, ClaimsDisjoint, Batch, Handled, Up
  <2>3. MarksHonest'
    BY <1>1 DEF IInv, MarksHonest, HonestMarks
  <2> QED BY <2>1, <2>2, <2>3
<1>5. DeliveriesPaid'
  BY <1>1 DEF IInv, DeliveriesPaid, PaidFor, Owing, Handed, Failing, Handled
<1> QED BY <1>2, <1>3, <1>4, <1>5 DEF IInv

\* A stuttering step.
LEMMA StutterKeeps == ASSUME IInv, UNCHANGED vars PROVE IInv'
<1>1. /\ UNCHANGED <<store, outbox, relay, stop, delivered, raised, faults>>
  BY DEF vars
<1>2. Types'
  BY <1>1 DEF IInv, Types
<1>3. PositionsKept'
  BY <1>1, StoreStays
<1>4. BatchKept' /\ ClaimsDisjoint' /\ MarksHonest'
  BY <1>1 DEF IInv, BatchKept, BatchOf, Batch, Handled, InBatch, ClaimsDisjoint, Up,
              MarksHonest, HonestMarks
<1>5. DeliveriesPaid'
  BY <1>1 DEF IInv, DeliveriesPaid, PaidFor, Owing, Handed, Failing, Handled
<1> QED BY <1>2, <1>3, <1>4, <1>5 DEF IInv

-----------------------------------------------------------------------------
\* IInv is an inductive invariant of the specification.
THEOREM Inductive == Spec => []IInv
<1>1. IInv /\ [Next]_vars => IInv'
  BY SaveKeeps, StartKeeps, FetchKeeps, PublishKeeps, MarkKeeps, CommitKeeps,
     BatchFailsKeeps, LoseConnectionKeeps, NoticeLossKeeps, CrashKeeps, WakeKeeps,
     SetStopKeeps, HaltKeeps, StutterKeeps DEF Next
<1> QED BY InitIInv, <1>1, PTL DEF Spec

\* At most one delivery of a record has no attempt and no fault to show for it:
\* two relays without faults never hand out the same record twice.
LEMMA PaidDeliveries == IInv => DuplicatesAccounted
<1> SUFFICES ASSUME IInv, NEW rec \in Records
             PROVE  delivered[rec] <= 1 + outbox[rec].attempts + faults
  BY DEF DuplicatesAccounted
<1> DEFINE owed == Cardinality(Owing(rec))
<1>1. owed \in Nat /\ delivered[rec] + owed <= 1 + (outbox[rec].attempts + faults)
  BY FS_CardinalityType DEF IInv, DeliveriesPaid, PaidFor
<1>2. delivered[rec] \in Nat /\ outbox[rec].attempts \in Nat /\ faults \in Nat
  <2>1. outbox[rec] \in Row
    BY DEF IInv, Types
  <2> QED BY <2>1 DEF IInv, Types, Row
<1> HIDE DEF owed
<1> QED BY <1>1, <1>2

\* The relays' variables stay in their types: a record's attempts never pass
\* max_attempts, and its deliveries never what the faults can explain.
THEOREM TypeCorrect == Spec => []TypeOK
<1>1. IInv => TypeOK
  <2> SUFFICES ASSUME IInv PROVE TypeOK
    OBVIOUS
  <2>1. ASSUME NEW rec \in Records
        PROVE  delivered[rec] \in 0..MaxDeliveries /\ raised[rec] \in 0..MaxDeliveries
    <3> DEFINE owed == Cardinality(Owing(rec))
    <3>1. owed \in Nat /\ raised[rec] + owed <= 1 + (outbox[rec].attempts + faults)
      BY FS_CardinalityType DEF IInv, DeliveriesPaid, PaidFor
    <3>2. delivered[rec] <= 1 + outbox[rec].attempts + faults
      BY PaidDeliveries DEF DuplicatesAccounted
    <3>3. /\ delivered[rec] \in Nat /\ raised[rec] \in Nat
          /\ outbox[rec].attempts \in 0..MaxAttempts /\ faults \in 0..MaxFaults
      <4>1. outbox[rec] \in Row
        BY DEF IInv, Types
      <4> QED BY <4>1 DEF IInv, Types, Row
    <3> HIDE DEF owed
    <3> QED BY <3>1, <3>2, <3>3 DEF MaxDeliveries
  <2>2. /\ delivered \in [Records -> 0..MaxDeliveries]
        /\ raised \in [Records -> 0..MaxDeliveries]
    BY <2>1 DEF IInv, Types
  <2> QED BY <2>2 DEF IInv, Types, TypeOK
<1> QED BY <1>1, Inductive, PTL

\* A record marked published was delivered, and every attempt counted against
\* a record is a publish that raised.
THEOREM Honest == Spec => []HonestMarks
<1>1. IInv => HonestMarks
  BY DEF IInv, MarksHonest
<1> QED BY <1>1, Inductive, PTL

\* A record is delivered again only for a counted attempt or a fault.
THEOREM Duplicates == Spec => []DuplicatesAccounted
BY PaidDeliveries, Inductive, PTL

\* A relay sleeps between two publishes of a record that fails.
THEOREM Paced == Spec => []NoTightRetry
<1>1. IInv => NoTightRetry
  <2> SUFFICES ASSUME IInv, NEW r \in Relays
               PROVE  relay[r].hot \cap relay[r].todo = {}
    BY DEF NoTightRetry
  <2>1. BatchOf(r)
    BY DEF IInv, BatchKept
  <2>2. CASE InBatch(r)
    BY <2>1, <2>2 DEF BatchOf, Handled
  <2>3. CASE ~InBatch(r)
    BY <2>1, <2>3 DEF BatchOf, Batch
  <2> QED BY <2>2, <2>3
<1> QED BY <1>1, Inductive, PTL
=============================================================================
