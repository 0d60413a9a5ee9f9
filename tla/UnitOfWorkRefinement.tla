------------------------ MODULE UnitOfWorkRefinement ------------------------
(***************************************************************************)
(* The steps of the Unit of Work implement TransactionalOutbox: each one   *)
(* is a step of the abstract specification, or changes nothing it can see. *)
(* Bodies make no call on a Unit of Work whose transaction is over.        *)
(***************************************************************************)
EXTENDS UnitOfWorkProofs

\* What the abstract specification sees of session s.
MappedRows(s) == OpenRows(s) \cap Writes
MappedEvents(s) == (OpenRows(s) \cap Events) \cup PendingOf(s)

\* A session the factory has not given out yet has no rows.
UnusedEmpty ==
    \A s \in Sessions : session[s].outcome = "unused" => session[s].rows = {}

RInv == IInv /\ UnusedEmpty

USE UowAssumption DEF UowAssumption

-----------------------------------------------------------------------------
\* No step puts a row into a session nobody was given.
LEMMA UnusedEmptyStep ==
    TypeOK /\ Transactions /\ References /\ UnusedEmpty /\ [Next]_vars => UnusedEmpty'
<1> SUFFICES ASSUME TypeOK, Transactions, References, UnusedEmpty, [Next]_vars
             PROVE  UnusedEmpty'
  OBVIOUS
<1> USE DEF UnusedEmpty
<1>a. \A t \in Tasks : ctx[t] # None => session[ctx[t]].outcome # "unused"
  BY Ranges DEF References, Refers
<1>1. ASSUME session' = session
      PROVE  UnusedEmpty'
  BY <1>1
<1>2. ASSUME NEW t \in Tasks, NEW w \in Writes, WriteBound(t, w)
      PROVE  UnusedEmpty'
  BY <1>2, <1>a, WriteEffect DEF WriteBound
<1>3. ASSUME NEW t \in Tasks, Flush(t)
      PROVE  UnusedEmpty'
  <2>1. PICK u \in Uows : u = block[t] /\ Save(t, uow[u].saving)
    BY <1>3, CallEffect DEF Suspends
  <2>2. CASE ctx[t] = None
    BY <1>1, <2>1, <2>2 DEF Save
  <2>3. CASE ctx[t] # None
    <3> DEFINE events == uow[u].saving
    <3>1. Save(t, events)
      BY <2>1
    <3> HIDE DEF events
    <3>2. \A s \in Sessions :
             /\ session'[s].outcome = session[s].outcome
             /\ session'[s].rows = IF s = ctx[t] THEN session[s].rows \cup events
                                   ELSE session[s].rows
      BY <2>3, <3>1, SaveRows
    <3> QED BY <1>a, <2>3, <3>2
  <2> QED BY <2>2, <2>3
<1>4. ASSUME NEW t \in Tasks, NEW u \in Uows, NEW s \in Sessions, Enter(t, u, s)
      PROVE  UnusedEmpty'
  BY <1>4, EnterEffect
<1>5. ASSUME NEW t \in Tasks, NEW ok \in BOOLEAN, NEW applied \in BOOLEAN,
             Ends(t, ok, applied)
      PROVE  UnusedEmpty'
  <2> DEFINE s == uow[block[t]].session
  <2>1. /\ \A x \in Sessions \ {s} : session'[x] = session[x]
        /\ session'[s].rows = {}
    BY <1>5, EndTransactionEffect DEF Ends
  <2> HIDE DEF s
  <2> QED BY <2>1
<1>6. ASSUME NEW t \in Tasks, NEW s \in Sessions \cup {None}, NEW raised \in BOOLEAN,
             Returns(t, s, raised)
      PROVE  UnusedEmpty'
  BY <1>6, ReturnsEffect, ReturnsRows
<1>7. CASE UNCHANGED vars
  BY <1>1, <1>7 DEF vars
<1>8. CASE Next
  <2>1. ASSUME NEW t \in Tasks, NEW u \in Uows, NEW e \in Events, RegisterEvent(t, u, e)
        PROVE  UnusedEmpty'
    BY <1>1, <2>1 DEF RegisterEvent
  <2>2. ASSUME NEW t \in Tasks, NEW w \in Writes,
               WriteAutocommit(t, w)
        PROVE  UnusedEmpty'
    BY <1>1, <2>2 DEF WriteAutocommit
  <2>3. ASSUME NEW t \in Tasks, NEW k \in Children, Spawn(t, k)
        PROVE  UnusedEmpty'
    BY <1>1, <2>3 DEF Spawn
  <2>4. ASSUME NEW t \in Tasks,
               CommitCall(t) \/ FlushFails(t) \/ RollbackCall(t) \/ Exit(t)
        PROVE  UnusedEmpty'
    BY <1>1, <2>4 DEF CommitCall, FlushFails, RollbackCall, Exit
  <2>5. ASSUME NEW t \in Tasks,
               SessionCommit(t) \/ SessionCommitFails(t) \/ SessionRollback(t)
                 \/ Close(t) \/ NoSession(t)
        PROVE  UnusedEmpty'
    BY <1>5, <1>6, <2>5, EndingSteps
  <2> QED BY <1>2, <1>3, <1>4, <1>8, <2>1, <2>2, <2>3, <2>4, <2>5 DEF Next
<1> QED BY <1>7, <1>8

-----------------------------------------------------------------------------
\* What the abstract specification sees is told session by session.
SameMapped(s) ==
    /\ session'[s].outcome = session[s].outcome
    /\ MappedRows(s)' = MappedRows(s)
    /\ MappedEvents(s)' = MappedEvents(s)

\* The abstract actions, in the terms of what a step does to each session.
LEMMA MapsToStutter ==
    ASSUME durable' = durable, \A s \in Sessions : SameMapped(s)
    PROVE  UNCHANGED Outbox!vars
  BY DEF SameMapped, MappedRows, MappedEvents, Outbox!vars

\* A session whose transaction begins with nothing in it.
LEMMA MapsToBegin ==
    ASSUME NEW x \in Sessions, session[x].outcome = "unused",
           session'[x].outcome = "open", MappedRows(x)' = MappedRows(x),
           MappedEvents(x)' = MappedEvents(x), durable' = durable,
           \A s \in Sessions \ {x} : SameMapped(s)
    PROVE  Outbox!Next
<1>1. Outbox!Begin(x)
  BY DEF SameMapped, MappedRows, MappedEvents, Outbox!Begin
<1> QED BY <1>1 DEF Outbox!Next

\* One row more in an open transaction.
LEMMA MapsToWrite ==
    ASSUME NEW x \in Sessions, NEW w \in Writes, session[x].outcome = "open",
           session'[x].outcome = "open", MappedRows(x)' = MappedRows(x) \cup {w},
           MappedEvents(x)' = MappedEvents(x), durable' = durable,
           \A s \in Sessions \ {x} : SameMapped(s)
    PROVE  Outbox!Next
<1>1. Outbox!Write(x, w)
  BY DEF SameMapped, MappedRows, MappedEvents, Outbox!Write
<1> QED BY <1>1 DEF Outbox!Next

\* One event more in an open transaction.
LEMMA MapsToRegister ==
    ASSUME NEW x \in Sessions, NEW e \in Events, session[x].outcome = "open",
           session'[x].outcome = "open", MappedRows(x)' = MappedRows(x),
           MappedEvents(x)' = MappedEvents(x) \cup {e}, durable' = durable,
           \A s \in Sessions \ {x} : SameMapped(s)
    PROVE  Outbox!Next
<1>1. Outbox!Register(x, e)
  BY DEF SameMapped, MappedRows, MappedEvents, Outbox!Register
<1> QED BY <1>1 DEF Outbox!Next

\* An open transaction ends, and takes all it has with it.
LEMMA MapsToFinish ==
    ASSUME NEW x \in Sessions, NEW applied \in BOOLEAN, session[x].outcome = "open",
           session'[x].outcome = IF applied THEN "committed" ELSE "aborted",
           MappedRows(x)' = {}, MappedEvents(x)' = {},
           durable' = IF applied THEN durable \cup MappedRows(x) \cup MappedEvents(x)
                      ELSE durable,
           \A s \in Sessions \ {x} : SameMapped(s)
    PROVE  Outbox!Next
<1>1. Outbox!Finish(x, applied)
  BY DEF SameMapped, MappedRows, MappedEvents, Outbox!Finish
<1> QED BY <1>1 DEF Outbox!Next

\* A row becomes durable by itself.
LEMMA MapsToAutocommit ==
    ASSUME NEW w \in Writes, durable' = durable \cup {w},
           \A s \in Sessions : SameMapped(s)
    PROVE  Outbox!Next
<1>1. Outbox!Autocommit(w)
  BY DEF SameMapped, MappedRows, MappedEvents, Outbox!Autocommit
<1> QED BY <1>1 DEF Outbox!Next

-----------------------------------------------------------------------------
\* The pending events of a session are its own among those of the one open
\* block that has it.
LEMMA PendingOfHolder ==
    ASSUME Transactions, NEW u \in Uows, Holds(u)
    PROVE  \A s : s = uow[u].session => PendingOf(s) = uow[u].pending \cap EventsOf(s)
<1> SUFFICES ASSUME NEW s, s = uow[u].session
             PROVE  PendingOf(s) = uow[u].pending \cap EventsOf(s)
  OBVIOUS
<1>1. \A w \in Uows : Holds(w) /\ uow[w].session = uow[u].session => w = u
  BY DEF Transactions
<1>2. {w \in Uows : Holds(w) /\ uow[w].session = s} = {u}
  BY <1>1
<1> QED BY <1>2 DEF PendingOf, EventsOf

\* The same after a step.
LEMMA PendingOfHolderAfter ==
    ASSUME Transactions', NEW u \in Uows, Holds(u)'
    PROVE  \A s : s = uow'[u].session =>
              PendingOf(s)' = uow'[u].pending \cap EventsOf(s)'
<1> SUFFICES ASSUME NEW s, s = uow'[u].session
             PROVE  PendingOf(s)' = uow'[u].pending \cap EventsOf(s)'
  OBVIOUS
<1>1. \A w \in Uows : Holds(w)' /\ uow'[w].session = uow'[u].session => w = u
  BY DEF Transactions
<1>2. {w \in Uows : Holds(w)' /\ uow'[w].session = s} = {u}
  BY <1>1
<1> QED BY <1>2 DEF PendingOf, EventsOf

\* A session no open block has has no pending events.
LEMMA NoPending ==
    ASSUME NEW s
    PROVE  /\ (\A u \in Uows : Holds(u) => uow[u].session # s) => PendingOf(s) = {}
           /\ (\A u \in Uows : Holds(u)' => uow'[u].session # s) => PendingOf(s)' = {}
<1>1. ASSUME \A u \in Uows : Holds(u) => uow[u].session # s PROVE PendingOf(s) = {}
  <2>1. {u \in Uows : Holds(u) /\ uow[u].session = s} = {}
    BY <1>1
  <2> QED BY <2>1 DEF PendingOf
<1>2. ASSUME \A u \in Uows : Holds(u)' => uow'[u].session # s PROVE PendingOf(s)' = {}
  <2>1. {u \in Uows : Holds(u)' /\ uow'[u].session = s} = {}
    BY <1>2
  <2> QED BY <2>1 DEF PendingOf
<1> QED BY <1>1, <1>2

\* A step that leaves the pending events of the open blocks of s alone.
LEMMA PendingStays ==
    ASSUME NEW s, EventsOf(s)' = EventsOf(s),
           \A u \in Uows :
              (Holds(u) /\ uow[u].session = s) <=> (Holds(u)' /\ uow'[u].session = s),
           \A u \in Uows :
              Holds(u) /\ uow[u].session = s => uow'[u].pending = uow[u].pending
    PROVE  PendingOf(s)' = PendingOf(s)
<1>1. PendingOf(s) = {e \in EventsOf(s) : \E u \in Uows :
                 (Holds(u) /\ uow[u].session = s) /\ e \in uow[u].pending}
  BY DEF PendingOf, EventsOf
<1>2. PendingOf(s)' = {e \in EventsOf(s)' : \E u \in Uows :
                 (Holds(u)' /\ uow'[u].session = s) /\ e \in uow'[u].pending}
  BY DEF PendingOf, EventsOf
<1> QED BY <1>1, <1>2

\* The step leaves the session of every event alone.
LEMMA SameEvents == origin' = origin => \A s : EventsOf(s)' = EventsOf(s)
  BY DEF EventsOf

\* A session that is not touched looks the same, once its pending events do.
LEMMA Untouched ==
    ASSUME NEW s, session'[s].outcome = session[s].outcome,
           session'[s].rows = session[s].rows, PendingOf(s)' = PendingOf(s)
    PROVE  SameMapped(s)
  BY DEF SameMapped, MappedRows, MappedEvents, OpenRows

\* The session an object still has after it was unbound is not open any more.
LEMMA OverWhenUnbound ==
    ASSUME TypeOK, Transactions, NoOrphanTransaction, NEW u \in Uows,
           uow[u].session # None, ~Holds(u)
    PROVE  session[uow[u].session].outcome # "open"
<1> SUFFICES ASSUME session[uow[u].session].outcome = "open" PROVE FALSE
  OBVIOUS
<1>1. uow[u].session \in Sessions
  BY Ranges
<1>2. PICK w \in Uows : Holds(w) /\ uow[w].session = uow[u].session
  BY <1>1 DEF NoOrphanTransaction
<1> QED BY <1>1, <1>2 DEF Transactions

\* Every step is an abstract step or leaves the abstract state alone.
LEMMA RefinementStep ==
    ASSUME LateCalls = FALSE
    PROVE  RInv /\ RInv' /\ [Next]_vars => [Outbox!Next]_Outbox!vars
<1> DEFINE Simulated == Outbox!Next \/ UNCHANGED Outbox!vars
<1> SUFFICES ASSUME RInv, RInv', [Next]_vars PROVE Simulated
  OBVIOUS
<1>a. /\ TypeOK /\ Blocks /\ Transactions /\ References /\ Levels /\ NoOrphanTransaction
      /\ Calls /\ EventsKept /\ CommitInProgress /\ UnusedEmpty /\ Transactions'
  BY DEF RInv, IInv
<1>b. \A u, w \in Uows : Holds(u) /\ u # w => uow[w].session # uow[u].session
  BY <1>a DEF Transactions
<1> HIDE DEF Simulated
\* Entering a block begins its transaction.
<1>1. ASSUME NEW t \in Tasks, NEW u \in Uows, NEW s \in Sessions, Enter(t, u, s)
      PROVE  Simulated
  <2>1. /\ \A w \in Uows \ {u} : uow'[w] = uow[w]
        /\ uow'[u].session = s /\ uow'[u].pending = {} /\ ~uow[u].active
        /\ session[s].outcome = "unused" /\ session'[s].outcome = "open"
        /\ session'[s].rows = session[s].rows
        /\ \A x \in Sessions \ {s} : session'[x] = session[x]
        /\ UNCHANGED <<durable, origin>>
    BY <1>1, <1>a, EnterEffect
  <2>2. /\ ~Holds(u) /\ session[s].rows = {}
        /\ \A w \in Uows : Holds(w) => uow[w].session # s
    BY <1>a, <2>1 DEF Transactions, UnusedEmpty
  <2>3. PendingOf(s) = {}
    BY <2>2, NoPending
  <2>4. PendingOf(s)' = {}
    <3>1. \A w \in Uows : Holds(w)' /\ uow'[w].session = s => w = u
      BY <2>1, <2>2 DEF Holds
    <3> QED BY <2>1, <3>1 DEF PendingOf
  <2>5. MappedRows(s) = {} /\ MappedRows(s)' = {}
    BY <2>1, <2>2 DEF MappedRows, OpenRows
  <2>6. MappedEvents(s) = {} /\ MappedEvents(s)' = {}
    BY <2>1, <2>2, <2>3, <2>4 DEF MappedEvents, OpenRows
  <2>7. ASSUME NEW x \in Sessions \ {s}
        PROVE  SameMapped(x)
    <3>1. EventsOf(x)' = EventsOf(x)
      BY <2>1, SameEvents
    <3>2. PendingOf(x)' = PendingOf(x)
      BY <2>1, <2>2, <3>1, PendingStays DEF Holds
    <3> QED BY <2>1, <3>2, Untouched
  <2> QED BY <2>1, <2>5, <2>6, <2>7, MapsToBegin DEF Simulated
\* An event counts from register_event() on, if a transaction has to take it.
<1>2. ASSUME NEW t \in Tasks, NEW u \in Uows, NEW e \in Events, RegisterEvent(t, u, e)
      PROVE  Simulated
  <2>1. /\ \A w \in Uows \ {u} : uow'[w] = uow[w]
        /\ uow'[u].pending = uow[u].pending \cup {e} /\ origin[e] = NoToken
        /\ UNCHANGED <<session, durable>>
    BY <1>2, <1>a, RegisterEffect
  <2>2. \A x \in Events : origin'[x] = IF x = e THEN Recipient(u) ELSE origin[x]
    BY <1>2, <1>a, RegisterEffect
  <2>3. /\ \A w \in Uows : uow'[w].session = uow[w].session /\ (Holds(w)' <=> Holds(w))
    BY <1>2, <1>a, QuietSteps DEF Quiet, Holds
  <2>4. \A x \in Sessions : e \notin EventsOf(x)
    BY <2>1 DEF EventsOf
  <2>5. \A x \in Sessions : Recipient(u) # x => EventsOf(x)' = EventsOf(x)
    BY <2>1, <2>2 DEF EventsOf
  <2>6. ASSUME NEW x \in Sessions, Recipient(u) # x
        PROVE  SameMapped(x)
    <3>1. EventsOf(x)' = EventsOf(x) /\ e \notin EventsOf(x)
      BY <2>4, <2>5, <2>6
    <3>2. PendingOf(x) = {y \in EventsOf(x) : \E w \in Uows :
                            (Holds(w) /\ uow[w].session = x) /\ y \in uow[w].pending}
      BY DEF PendingOf, EventsOf
    <3>3. PendingOf(x)' = {y \in EventsOf(x)' : \E w \in Uows :
                            (Holds(w)' /\ uow'[w].session = x) /\ y \in uow'[w].pending}
      BY DEF PendingOf, EventsOf
    <3>4. \A y \in EventsOf(x), w \in Uows : y \in uow'[w].pending <=> y \in uow[w].pending
      BY <2>1, <3>1
    <3>5. PendingOf(x)' = PendingOf(x)
      BY <2>3, <3>1, <3>2, <3>3, <3>4
    <3> QED BY <2>1, <3>5, Untouched
  <2>7. CASE Recipient(u) \notin Sessions
    BY <2>1, <2>6, <2>7, MapsToStutter DEF Simulated
  <2>8. CASE Recipient(u) \in Sessions
    <3>1. PICK s \in Sessions : s = Recipient(u)
      BY <2>8
    <3>2. Holds(u) /\ uow[u].session = s /\ session[s].outcome = "open"
      BY <1>a, <3>1 DEF Recipient, Transactions, Holds
    <3>3. EventsOf(s)' = EventsOf(s) \cup {e}
      BY <2>2, <3>1 DEF EventsOf
    <3>4. PendingOf(s) = uow[u].pending \cap EventsOf(s)
      BY <1>a, <3>2, PendingOfHolder
    <3>5. PendingOf(s)' = uow'[u].pending \cap EventsOf(s)'
      BY <1>a, <2>3, <3>2, PendingOfHolderAfter
    <3>6. PendingOf(s)' = PendingOf(s) \cup {e}
      BY <2>1, <2>4, <3>3, <3>4, <3>5
    <3>7. MappedEvents(s)' = MappedEvents(s) \cup {e} /\ MappedRows(s)' = MappedRows(s)
      BY <2>1, <3>6 DEF MappedEvents, MappedRows, OpenRows
    <3> QED BY <2>1, <2>6, <3>1, <3>2, <3>7, MapsToRegister DEF Simulated
  <2> QED BY <2>7, <2>8
\* A row goes to the session that is bound; one that is over takes it unseen.
<1>3. ASSUME NEW t \in Tasks, NEW w \in Writes, WriteBound(t, w)
      PROVE  Simulated
  <2>1. /\ UNCHANGED <<uow, origin, durable>> /\ ctx[t] # None
        /\ \A x \in Sessions :
              /\ session'[x].outcome = session[x].outcome
              /\ session'[x].rows = IF x = ctx[t] THEN session[x].rows \cup {w}
                                    ELSE session[x].rows
    BY <1>3, <1>a, WriteEffect DEF WriteBound
  <2>2. PICK s \in Sessions : s = ctx[t]
    BY <1>a, <2>1, Ranges
  <2>3. \A x : PendingOf(x)' = PendingOf(x)
    BY <2>1 DEF PendingOf, Holds
  <2>4. \A x \in Sessions \ {s} : SameMapped(x)
    BY <2>1, <2>2, <2>3, Untouched
  <2>5. CASE session[s].outcome = "open"
    <3>1. MappedRows(s)' = MappedRows(s) \cup {w}
      BY <2>1, <2>2, <2>5 DEF MappedRows, OpenRows
    <3>2. MappedEvents(s)' = MappedEvents(s)
      BY ZenonT(60), <2>1, <2>2, <2>3, <2>5 DEF MappedEvents, OpenRows
    <3> QED BY <2>1, <2>4, <2>5, <3>1, <3>2, MapsToWrite DEF Simulated
  <2>6. CASE session[s].outcome # "open"
    <3>1. SameMapped(s)
      BY <2>1, <2>3, <2>6 DEF SameMapped, MappedRows, MappedEvents, OpenRows
    <3> QED BY <2>1, <2>4, <3>1, MapsToStutter DEF Simulated
  <2> QED BY <2>5, <2>6
<1>4. ASSUME NEW t \in Tasks, NEW w \in Writes,
             WriteAutocommit(t, w)
      PROVE  Simulated
  <2>1. UNCHANGED <<uow, origin, session>> /\ durable' = durable \cup {w}
    BY <1>4 DEF WriteAutocommit
  <2>2. \A x : PendingOf(x)' = PendingOf(x)
    BY <2>1 DEF PendingOf, Holds
  <2>3. \A x \in Sessions : SameMapped(x)
    BY <2>1, <2>2, Untouched
  <2> QED BY <2>1, <2>3, MapsToAutocommit DEF Simulated
\* The calls that move nothing but where the object's code is.
<1>5. ASSUME UNCHANGED <<session, durable, origin>>,
             \A u \in Uows : /\ uow'[u].session = uow[u].session
                             /\ Holds(u)' <=> Holds(u)
                             /\ Holds(u) => uow'[u].pending = uow[u].pending
      PROVE  Simulated
  <2>1. \A x : PendingOf(x)' = PendingOf(x)
    BY <1>5, SameEvents, PendingStays
  <2>2. \A x \in Sessions : SameMapped(x)
    BY <1>5, <2>1, Untouched
  <2> QED BY <1>5, <2>2, MapsToStutter DEF Simulated
<1>6. ASSUME NEW t \in Tasks,
             CommitCall(t) \/ FlushFails(t) \/ RollbackCall(t)
               \/ (Exit(t) /\ ~uow[block[t]].finished)
      PROVE  Simulated
  <2>1. PICK u \in Uows : u = block[t]
    BY <1>6, <1>a, CallEffect DEF Suspends
  <2>2. /\ \A w \in Uows \ {u} : uow'[w] = uow[w]
        /\ uow'[u].pending = uow[u].pending /\ UNCHANGED <<session, durable, origin>>
    BY <1>6, <1>a, <2>1, CallEffect DEF Suspends
  <2>3. \A w \in Uows : uow'[w].session = uow[w].session /\ (Holds(w)' <=> Holds(w))
    BY <1>6, <1>a, QuietSteps DEF Quiet, Holds
  <2> QED BY <1>5, <2>2, <2>3
<1>7. ASSUME NEW t \in Tasks, Leaves(t)
      PROVE  Simulated
  <2>1. PICK u \in Uows : u = block[t]
    BY <1>7, <1>a, LeavesEffect DEF Left
  <2>2. /\ \A w \in Uows \ {u} : uow'[w] = uow[w]
        /\ uow'[u] = [uow[u] EXCEPT !.active = FALSE]
        /\ UNCHANGED <<session, durable, origin>>
    BY <1>7, <1>a, <2>1, LeavesEffect DEF Left, Keeps
  <2>3. /\ uow'[u].session = uow[u].session /\ uow'[u].token = uow[u].token
        /\ uow'[u].pending = uow[u].pending
    BY <1>a, <2>2 DEF TypeOK, Uow
  <2> QED BY <1>5, <2>2, <2>3 DEF Holds
\* _flush_events moves the pending events into the session of the same block.
<1>8. ASSUME NEW t \in Tasks, Flush(t)
      PROVE  Simulated
  <2>1. PICK u \in Uows : u = block[t]
    BY <1>8, <1>a, CallEffect DEF Suspends
  <2>2. /\ \A w \in Uows \ {u} : uow'[w] = uow[w]
        /\ uow'[u].pending = {} /\ uow[u].step = "flush" /\ Save(t, uow[u].saving)
        /\ origin' = origin
    BY <1>8, <1>a, <2>1, CallEffect DEF Suspends
  <2>3. Holds(u)
    BY <1>a, <2>2 DEF CommitInProgress
  <2>4. \A w \in Uows : uow'[w].session = uow[w].session /\ (Holds(w)' <=> Holds(w))
    BY <1>8, <1>a, QuietSteps DEF Quiet, Holds
  <2>5. PICK s \in Sessions : s = uow[u].session /\ session[s].outcome = "open"
    BY <1>a, <2>3, Ranges DEF Transactions
  <2>6. ctx[t] = s /\ ctx[t] # None
    BY <1>a, <2>1, <2>3, <2>5, InnermostBound
  <2>7. PICK events \in SUBSET Events : events = uow[u].saving
    BY <1>a, Ranges
  <2>8. /\ durable' = durable
        /\ \A x \in Sessions :
             /\ session'[x].outcome = session[x].outcome
             /\ session'[x].rows = IF x = s THEN session[x].rows \cup events
                                   ELSE session[x].rows
    BY <1>a, <2>2, <2>6, <2>7, SaveRows
  <2>9. PendingOf(s) = events
    <3>1. PendingOf(s) = uow[u].pending \cap EventsOf(s)
      BY <1>a, <2>3, <2>5, PendingOfHolder
    <3>2. uow[u].pending \cap EventsOf(s) = Waiting(u) /\ Waiting(u) = events
      BY <1>a, <2>2, <2>3, <2>5, <2>7 DEF EventsKept, Kept, Waiting
    <3> QED BY <3>1, <3>2
  <2>10. PendingOf(s)' = {}
    BY <1>a, <2>2, <2>3, <2>4, <2>5, PendingOfHolderAfter
  <2>11. SameMapped(s)
    <3>1. MappedRows(s)' = MappedRows(s)
      BY <2>5, <2>7, <2>8 DEF MappedRows, OpenRows
    <3>2. MappedEvents(s)' = MappedEvents(s)
      BY <2>5, <2>7, <2>8, <2>9, <2>10 DEF MappedEvents, OpenRows
    <3> QED BY <2>8, <3>1, <3>2 DEF SameMapped
  <2>12. ASSUME NEW x \in Sessions \ {s}
         PROVE  SameMapped(x)
    <3>1. PendingOf(x)' = PendingOf(x)
      BY <2>2, <2>4, <2>5, SameEvents, PendingStays
    <3> QED BY <2>8, <3>1, Untouched
  <2> QED BY <2>8, <2>11, <2>12, MapsToStutter DEF Simulated
\* The end of a transaction: with its commit everything becomes durable.
<1>9. ASSUME NEW t \in Tasks, NEW ok \in BOOLEAN, NEW applied \in BOOLEAN,
             Ends(t, ok, applied), applied => At(t, "commit")
      PROVE  Simulated
  <2>1. PICK u \in Uows : u = block[t]
    BY <1>9, <1>a, EndTransactionEffect DEF Ends
  <2>2. PICK s \in Sessions : s = uow[u].session
    BY <1>9, <1>a, <2>1, EndTransactionEffect DEF Ends
  <2>3. /\ \A w \in Uows \ {u} : uow'[w] = uow[w]
        /\ uow'[u].token = NoToken
        /\ \A x \in Sessions \ {s} : session'[x] = session[x]
        /\ session'[s].outcome = IF session[s].outcome # "open" THEN session[s].outcome
                                 ELSE IF applied THEN "committed" ELSE "aborted"
        /\ durable' = IF applied THEN durable \cup session[s].rows ELSE durable
        /\ origin' = origin
    BY <1>9, <1>a, <2>1, <2>2, EndTransactionEffect DEF Ends, Keeps
  <2>4. applied => Holds(u) /\ uow[u].step = "commit"
    BY <1>9, <1>a, <2>1 DEF At, CommitInProgress
  <2>5. \A w \in Uows : Holds(w)' => w # u /\ Holds(w)
    BY <2>3 DEF Holds
  <2>6. ASSUME NEW x \in Sessions \ {s}
        PROVE  SameMapped(x)
    <3>1. PendingOf(x)' = PendingOf(x)
      BY <2>2, <2>3, <2>5, SameEvents, PendingStays DEF Holds
    <3> QED BY <2>3, <3>1, Untouched
  <2>7. CASE Holds(u)
    <3>1. session[s].outcome = "open"
      BY <1>a, <2>2, <2>7 DEF Transactions
    <3>2. PendingOf(s)' = {}
      <4>1. \A w \in Uows : Holds(w)' => uow'[w].session # s
        BY <1>b, <2>2, <2>3, <2>5, <2>7
      <4> QED BY <4>1, NoPending
    <3>3. applied => PendingOf(s) = {}
      <4>1. PendingOf(s) = uow[u].pending \cap EventsOf(s)
        BY <1>a, <2>2, <2>7, PendingOfHolder
      <4>2. applied => uow[u].pending \cap EventsOf(s) = {}
        BY <1>a, <2>2, <2>4, <2>7 DEF EventsKept, Kept, Waiting
      <4> QED BY <4>1, <4>2
    <3>4. MappedRows(s)' = {} /\ MappedEvents(s)' = {}
      BY <2>3, <3>1, <3>2 DEF MappedRows, MappedEvents, OpenRows
    <3>5. durable' = IF applied THEN durable \cup MappedRows(s) \cup MappedEvents(s)
                     ELSE durable
      <4>1. session[s].rows \subseteq Writes \cup Events
        BY <1>a, Ranges
      <4>2. applied => MappedRows(s) \cup MappedEvents(s) = session[s].rows
        BY <2>4, <3>1, <3>3, <4>1 DEF MappedRows, MappedEvents, OpenRows
      <4> QED BY <2>3, <4>2
    <3>6. session'[s].outcome = IF applied THEN "committed" ELSE "aborted"
      BY <2>3, <3>1
    <3> QED BY <2>6, <3>1, <3>4, <3>5, <3>6, MapsToFinish DEF Simulated
  <2>8. CASE ~Holds(u)
    <3>1. session[s].outcome # "open" /\ ~applied
      BY <1>a, <2>2, <2>4, <2>8, OverWhenUnbound
    <3>2. PendingOf(s)' = PendingOf(s)
      BY <2>3, <2>5, <2>8, SameEvents, PendingStays DEF Holds
    <3>3. SameMapped(s)
      BY <2>3, <3>1, <3>2 DEF SameMapped, MappedRows, MappedEvents, OpenRows
    <3> QED BY <2>3, <2>6, <3>1, <3>3, MapsToStutter DEF Simulated
  <2> QED BY <2>7, <2>8
\* The end of a call: its session is over already.
<1>10. ASSUME NEW t \in Tasks, NEW r \in Sessions \cup {None}, NEW raised \in BOOLEAN,
              Returns(t, r, raised)
       PROVE  Simulated
  <2>1. PICK u \in Uows : u = block[t]
    BY <1>10, <1>a, ReturnsEffect
  <2>2. /\ \A w \in Uows \ {u} : uow'[w] = uow[w]
        /\ ~Holds(u) /\ uow'[u].token = NoToken
        /\ \A x \in Sessions : session'[x].outcome = session[x].outcome
        /\ \A x \in Sessions : x # uow[u].session => session'[x] = session[x]
        /\ UNCHANGED <<durable, origin>>
    BY <1>10, <1>a, <2>1, ReturnsEffect DEF Keeps
  <2>3. \A x : PendingOf(x)' = PendingOf(x)
    <3> SUFFICES ASSUME NEW x PROVE PendingOf(x)' = PendingOf(x)
      OBVIOUS
    <3>1. \A w \in Uows : (Holds(w) \/ Holds(w)') => uow'[w] = uow[w]
      BY <2>2 DEF Holds
    <3>2. \A w \in Uows :
             (Holds(w) /\ uow[w].session = x) <=> (Holds(w)' /\ uow'[w].session = x)
      BY <2>2, <3>1 DEF Holds
    <3> QED BY <2>2, <3>1, <3>2, SameEvents, PendingStays
  <2>4. ASSUME NEW x \in Sessions
        PROVE  SameMapped(x)
    <3>1. CASE x = uow[u].session
      <4>1. session[x].outcome # "open"
        BY <1>a, <2>2, <3>1, OverWhenUnbound
      <4> QED BY <2>2, <2>3, <4>1 DEF SameMapped, MappedRows, MappedEvents, OpenRows
    <3>2. CASE x # uow[u].session
      BY <2>2, <2>3, <3>2, Untouched
    <3> QED BY <3>1, <3>2
  <2> QED BY <2>2, <2>4, MapsToStutter DEF Simulated
<1>11. CASE UNCHANGED vars
  BY <1>5, <1>11 DEF vars, Holds
<1>12. CASE Next
  <2>1. ASSUME NEW t \in Tasks,
               SessionCommit(t) \/ SessionCommitFails(t) \/ SessionRollback(t)
        PROVE  Simulated
    <3>1. CASE SessionCommit(t) \/ SessionCommitFails(t)
      BY <1>9, <3>1 DEF SessionCommit, SessionCommitFails, At, Ends
    <3>2. CASE SessionRollback(t)
      <4>1. PICK ok \in BOOLEAN :
               block[t] # None
                 /\ EndTransaction(t, ok /\ uow[block[t]].caller # "commit", FALSE)
        BY <3>2 DEF SessionRollback, At
      <4>2. (ok /\ uow[block[t]].caller # "commit") \in BOOLEAN
        OBVIOUS
      <4> QED BY <1>9, <4>1, <4>2 DEF Ends
    <3> QED BY <2>1, <3>1, <3>2
  <2>2. ASSUME NEW t \in Tasks, Close(t) \/ NoSession(t)
        PROVE  Simulated
    BY <1>10, <1>a, <2>2, EndingCalls
  <2>3. ASSUME NEW t \in Tasks, NEW k \in Children, Spawn(t, k)
        PROVE  Simulated
    BY <1>5, <2>3 DEF Spawn, Holds
  <2>4. ASSUME NEW t \in Tasks, Exit(t)
        PROVE  Simulated
    BY <1>6, <1>7, <2>4 DEF Leaves
  <2> QED BY <1>1, <1>2, <1>3, <1>4, <1>6, <1>8, <1>12, <2>1, <2>2, <2>3, <2>4 DEF Next
<1> QED BY <1>11, <1>12

-----------------------------------------------------------------------------
\* No transaction has begun in the initial state.
LEMMA InitMaps == Init => Outbox!Init
<1> SUFFICES ASSUME Init PROVE Outbox!Init
  OBVIOUS
<1>1. /\ durable = {} /\ \A s \in Sessions : session[s].outcome = "unused"
      /\ \A u \in Uows : ~Holds(u)
  BY DEF Init, NewUow, Holds
<1>2. \A s \in Sessions : PendingOf(s) = {} /\ OpenRows(s) = {}
  BY <1>1, NoPending DEF OpenRows
<1> QED BY <1>1, <1>2 DEF Outbox!Init

\* The invariants the simulation needs hold in every reachable state.
LEMMA RInvHolds == Spec => []RInv
<1>1. Init => RInv
  BY InitIInv DEF RInv, UnusedEmpty, Init
<1>2. RInv /\ [Next]_vars => RInv'
  BY StepIInv, UnusedEmptyStep DEF RInv, IInv
<1> QED BY <1>1, <1>2, PTL DEF Spec

\* Business rows and events become durable together or not at all: every
\* behaviour of the Unit of Work is one of TransactionalOutbox, whatever fails
\* in commit(), rollback() and __aexit__, when bodies make no late calls.  An
\* event that a task registers while commit() is suspended is not seen there:
\* commit() drops it.
THEOREM ImplementsOutbox == LateCalls = FALSE /\ Spec => AtomicOutbox
<1>1. LateCalls = FALSE /\ [Next]_vars => (LateCalls = FALSE)'
  OBVIOUS
<1>2. LateCalls = FALSE /\ RInv /\ RInv' /\ [Next]_vars => [Outbox!Next]_Outbox!vars
  BY RefinementStep
<1> QED BY <1>1, <1>2, InitMaps, RInvHolds, PTL DEF Spec, AtomicOutbox, Outbox!Spec

=============================================================================
