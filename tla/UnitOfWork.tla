----------------------------- MODULE UnitOfWork -----------------------------
(***************************************************************************)
(* AbstractUnitOfWork and SQLAlchemyUnitOfWork with the part of            *)
(* SQLAlchemyAdapter they work through: the task-local session override    *)
(* (a ContextVar) and acquire().                                           *)
(*                                                                         *)
(* asyncio tasks run blocks `async with uow:`, possibly nested on one      *)
(* adapter, and inside or outside of them make repository calls.  commit() *)
(* and rollback() suspend at the outbox insert, at the session's commit or *)
(* rollback and at its close, so each of those is a step of its own, which *)
(* may fail: an exception and a cancellation take the same path there.     *)
(* What happens between two suspensions is one step.                       *)
(*                                                                         *)
(* The body of a block is the library's user: it may catch what a call     *)
(* raises and go on, or leave the block.  LateCalls says whether it may    *)
(* also go on using the Unit of Work after the block's transaction is      *)
(* over.  Children are tasks created by another task (create_task,         *)
(* gather): Python copies the creator's context, override included.        *)
(* register_event() is a plain append: any task that has the object may    *)
(* call it at any time, in the middle of another task's commit() too.      *)
(*                                                                         *)
(* The Unit of Work takes any AbstractOutboxStore.  The store modelled is  *)
(* SQLAlchemyOutboxStore on the same adapter; with one that does not go    *)
(* through acquire(), InMemoryOutboxStore for one, events are no part of   *)
(* the transaction, and nothing said of them here holds (SaveAlone).       *)
(***************************************************************************)
EXTENDS Naturals, FiniteSets

CONSTANTS
    Roots,       \* tasks that start with an empty context
    Children,    \* tasks that another task may create
    Uows,        \* Unit of Work objects, each reusable after its block
    Sessions,    \* sessions the factory can hand out: bounds the blocks entered
    Writes,      \* repository writes, each made at most once
    Events,      \* domain events, each registered at most once
    LateCalls,   \* BOOLEAN, see above
    None,        \* Python's None
    NoToken      \* _bind_token is None: the override is not (or no longer) set

Tasks == Roots \cup Children

ASSUME UowAssumption ==
    /\ None \notin Sessions \cup Uows \cup Tasks
    /\ NoToken \notin Sessions \cup {None}
    /\ Roots \cap Children = {}
    /\ Writes \cap Events = {}
    /\ LateCalls \in BOOLEAN

VARIABLES
    ctx,       \* ctx[t]: _active_session as task t sees it
    block,     \* block[t]: the Unit of Work of the innermost block t is in
    uow,       \* uow[u]: the object's fields and how far its current call got
    session,   \* session[s]: a session and the database transaction behind it
    durable,   \* rows and events committed in the database
    family,    \* family[t]: the root task t descends from; None: not created
    written,   \* history: the writes that were made
    origin     \* history: the session an event was registered under

vars == <<ctx, block, uow, session, durable, family, written, origin>>

Step == {"ready", "flush", "commit", "rollback", "close"}
Caller == {"nobody", "commit", "rollback", "exit"}

\* saving is the list of events that save() was given.  txn is history: the
\* session of the latest block, kept after session is None.
Uow ==
    [ active : BOOLEAN, finished : BOOLEAN, committed : BOOLEAN,
      pending : SUBSET Events, saving : SUBSET Events, session : Sessions \cup {None},
      token : Sessions \cup {None, NoToken}, step : Step, caller : Caller,
      ok : BOOLEAN, task : Tasks \cup {None}, enclosing : Uows \cup {None},
      txn : Sessions \cup {None} ]

Session ==
    [ outcome : {"unused", "open", "committed", "aborted"},
      rows : SUBSET (Writes \cup Events) ]

TypeOK ==
    /\ ctx \in [Tasks -> Sessions \cup {None}]
    /\ block \in [Tasks -> Uows \cup {None}]
    /\ uow \in [Uows -> Uow]
    /\ session \in [Sessions -> Session]
    /\ durable \subseteq Writes \cup Events
    /\ family \in [Tasks -> Roots \cup {None}]
    /\ written \subseteq Writes
    /\ origin \in [Events -> Sessions \cup {None, NoToken}]

\* AbstractUnitOfWork.__init__ and SQLAlchemyUnitOfWork.__init__.
NewUow ==
    [ active |-> FALSE, finished |-> FALSE, committed |-> FALSE, pending |-> {},
      saving |-> {}, session |-> None, token |-> NoToken, step |-> "ready", caller |-> "nobody",
      ok |-> TRUE, task |-> None, enclosing |-> None, txn |-> None ]

Init ==
    /\ ctx = [t \in Tasks |-> None]
    /\ block = [t \in Tasks |-> None]
    /\ uow = [u \in Uows |-> NewUow]
    /\ session = [s \in Sessions |-> [outcome |-> "unused", rows |-> {}]]
    /\ durable = {}
    /\ family = [t \in Tasks |-> IF t \in Roots THEN t ELSE None]
    /\ written = {}
    /\ origin = [e \in Events |-> NoToken]

Alive(t) == family[t] # None

\* t runs body code, so it is not suspended in a call on its innermost block.
InBody(t) ==
    /\ Alive(t)
    /\ block[t] # None => uow[block[t]].step = "ready"

\* t is suspended at the given step of a call on its innermost block.
At(t, step) == block[t] # None /\ uow[block[t]].step = step

\* The body of t's innermost block may make a call on the Unit of Work; after
\* the block's transaction is over only a LateCalls body does.
MayCall(t) ==
    /\ InBody(t) /\ block[t] # None
    /\ LateCalls \/ uow[block[t]].token # NoToken

-----------------------------------------------------------------------------
\* bind_session and unbind_session with what could go wrong in them: one
\* override for all tasks, a reset that forgets the override it replaced, a
\* reset with no token.
BindEveryTask(t, s) == [x \in Tasks |-> s]

Bind(t, s) == [ctx EXCEPT ![t] = s]

UnbindToNone(t, token) ==
    IF token = NoToken THEN ctx ELSE [ctx EXCEPT ![t] = None]

UnbindUnchecked(t, token) == [ctx EXCEPT ![t] = token]

Unbind(t, token) == IF token = NoToken THEN ctx ELSE [ctx EXCEPT ![t] = token]

\* u after _begin in task t: it has a session of the factory, and the token
\* that restores what t had bound.
Begun(t, s) ==
    [NewUow EXCEPT !.session = s, !.txn = s, !.token = ctx[t], !.task = t]

\* __aenter__ of u by task t: the session's transaction begins and is bound,
\* and the object's fields are reset.
Enter(t, u, s) ==
    /\ InBody(t)
    /\ ~uow[u].active
    /\ session[s].outcome = "unused"
    /\ session' = [session EXCEPT ![s].outcome = "open"]
    /\ ctx' = Bind(t, s)
    /\ block' = [block EXCEPT ![t] = u]
    /\ uow' = [uow EXCEPT ![u] =
                  [Begun(t, s) EXCEPT !.active = TRUE, !.enclosing = block[t]]]
    /\ UNCHANGED <<durable, family, written, origin>>

\* The transaction that has to take an event registered now: None if none is
\* open in u, or if a commit() of u is suspended and has its list of events.
Recipient(u) ==
    IF uow[u].token = NoToken \/ uow[u].caller = "commit" THEN None ELSE uow[u].session

\* register_event, by any task t that is running, in whatever state u is.
RegisterEvent(t, u, e) ==
    /\ InBody(t)
    /\ origin[e] = NoToken
    /\ uow' = [uow EXCEPT ![u].pending = @ \cup {e}]
    /\ origin' = [origin EXCEPT ![e] = Recipient(u)]
    /\ UNCHANGED <<ctx, block, session, durable, family, written>>

\* A repository write while a session is bound: acquire() yields that session
\* and leaves the transaction to the Unit of Work.  A session in the middle of
\* a call refuses to be used by another task.  A session that was closed takes
\* the row all the same and begins a transaction of its own accord.
WriteBound(t, w) ==
    /\ InBody(t)
    /\ ctx[t] # None
    /\ w \notin written
    /\ \A u \in Uows : uow[u].session = ctx[t] => uow[u].step = "ready"
    /\ session' = [session EXCEPT ![ctx[t]].rows = @ \cup {w}]
    /\ written' = written \cup {w}
    /\ UNCHANGED <<ctx, block, uow, durable, family, origin>>

\* A repository write with no session bound: acquire() commits it by itself.
WriteAutocommit(t, w) ==
    /\ InBody(t)
    /\ ctx[t] = None
    /\ w \notin written
    /\ durable' = durable \cup {w}
    /\ written' = written \cup {w}
    /\ UNCHANGED <<ctx, block, uow, session, family, origin>>

\* A task created inside t: it starts with a copy of t's context.
Spawn(t, k) ==
    /\ InBody(t)
    /\ k \in Children /\ ~Alive(k)
    /\ family' = [family EXCEPT ![k] = family[t]]
    /\ ctx' = [ctx EXCEPT ![k] = ctx[t]]
    /\ UNCHANGED <<block, uow, session, durable, written, origin>>

-----------------------------------------------------------------------------
\* commit() up to its first suspension: the events come first.
CommitCall(t) ==
    /\ MayCall(t)
    /\ LET u == block[t] IN
       uow' = [uow EXCEPT ![u] =
                  [@ EXCEPT !.caller = "commit", !.saving = uow[u].pending,
                            !.step = IF uow[u].pending = {} THEN "commit" ELSE "flush"]]
    /\ UNCHANGED <<ctx, block, session, durable, family, written, origin>>

\* An outbox store that does not go through acquire().
SaveAlone(t, events) ==
    /\ durable' = durable \cup events
    /\ session' = session

\* SQLAlchemyOutboxStore.save(): one acquire() for all the records, so they go
\* into the session t has bound, or into a transaction of their own.
Save(t, events) ==
    IF ctx[t] = None
    THEN /\ durable' = durable \cup events
         /\ session' = session
    ELSE /\ session' = [session EXCEPT ![ctx[t]].rows = @ \cup events]
         /\ durable' = durable

\* _flush_events: the events that were pending when it began are saved, then
\* all that are pending now are forgotten.
Flush(t) ==
    /\ At(t, "flush")
    /\ Save(t, uow[block[t]].saving)
    /\ uow' = [uow EXCEPT ![block[t]] =
                  [@ EXCEPT !.pending = {}, !.saving = {}, !.step = "commit"]]
    /\ UNCHANGED <<ctx, block, family, written, origin>>

\* _flush_events raised: commit() goes on to _rollback and will re-raise.
FlushFails(t) ==
    /\ At(t, "flush")
    /\ uow' = [uow EXCEPT ![block[t]] = [@ EXCEPT !.saving = {}, !.step = "rollback"]]
    /\ UNCHANGED <<ctx, block, session, durable, family, written, origin>>

\* The session's commit or rollback is over and _teardown has unbound it: ok
\* says whether it returned, applied whether the database committed.
EndTransaction(t, ok, applied) ==
    LET u == block[t]
        s == uow[u].session
        outcome == IF session[s].outcome # "open" THEN session[s].outcome
                   ELSE IF applied THEN "committed" ELSE "aborted"
    IN  /\ s # None
        /\ session' = [session EXCEPT ![s] = [@ EXCEPT !.outcome = outcome, !.rows = {}]]
        /\ durable' = IF applied THEN durable \cup session[s].rows ELSE durable
        /\ ctx' = Unbind(t, uow[u].token)
        /\ uow' = [uow EXCEPT ![u] = [@ EXCEPT !.token = NoToken, !.step = "close",
                                               !.ok = ok]]
        /\ UNCHANGED <<block, family, written, origin>>

\* _commit: the session's commit returns.
SessionCommit(t) == At(t, "commit") /\ EndTransaction(t, TRUE, TRUE)

\* _commit: it raises; the database may have committed before the connection
\* was lost.
SessionCommitFails(t) ==
    /\ At(t, "commit")
    /\ \E applied \in BOOLEAN : EndTransaction(t, FALSE, applied)

\* _rollback: whether it returns or raises, the database keeps nothing.
SessionRollback(t) ==
    /\ At(t, "rollback")
    /\ \E ok \in BOOLEAN :
          EndTransaction(t, ok /\ uow[block[t]].caller # "commit", FALSE)

\* A commit() that counts as done whatever its calls raised.
AfterCallAlwaysCommitted(r, raised) ==
    [r EXCEPT !.step = "ready", !.caller = "nobody", !.ok = TRUE,
              !.finished = TRUE,
              !.pending = {},
              !.committed = @ \/ r.caller = "commit",
              !.active = r.caller # "exit"]

\* The fields after commit(), rollback() or __aexit__ returned or raised.
\* commit() finishes the block either way, rollback() only when it returns,
\* and __aexit__ always ends the block.
AfterCall(r, raised) ==
    LET finishes == r.caller = "commit" \/ ~raised
    IN  [r EXCEPT !.step = "ready", !.caller = "nobody", !.ok = TRUE,
                  !.finished = @ \/ finishes,
                  !.pending = IF finishes THEN {} ELSE @,
                  !.committed = @ \/ (r.caller = "commit" /\ ~raised),
                  !.active = r.caller # "exit"]

Return(t, r, raised) ==
    /\ uow' = [uow EXCEPT ![block[t]] = AfterCall(r, raised)]
    /\ block' = IF r.caller = "exit" THEN [block EXCEPT ![t] = r.enclosing] ELSE block

\* _teardown: the session's close ends, perhaps with an exception, and then
\* the object keeps the session.
Close(t) ==
    /\ At(t, "close")
    /\ \E closes \in BOOLEAN :
       LET r == uow[block[t]] IN
       /\ session' = [session EXCEPT ![r.session].rows = {}]
       /\ Return(t, [r EXCEPT !.session = IF closes THEN None ELSE @], ~(r.ok /\ closes))
    /\ UNCHANGED <<ctx, durable, family, written, origin>>

\* `assert self.session is not None` fails in _commit or _rollback.
NoSession(t) ==
    /\ At(t, "commit") \/ At(t, "rollback")
    /\ uow[block[t]].session = None
    /\ Return(t, uow[block[t]], TRUE)
    /\ UNCHANGED <<ctx, session, durable, family, written, origin>>

\* rollback() called by the body.
RollbackCall(t) ==
    /\ InBody(t) /\ block[t] # None
    /\ uow' = [uow EXCEPT ![block[t]] = [@ EXCEPT !.caller = "rollback", !.step = "rollback"]]
    /\ UNCHANGED <<ctx, block, session, durable, family, written, origin>>

\* An __aexit__ that leaves it to the body to roll back.
ExitWithoutRollback(t) ==
    /\ InBody(t) /\ block[t] # None
    /\ Return(t, [uow[block[t]] EXCEPT !.caller = "exit"], FALSE)
    /\ UNCHANGED <<ctx, session, durable, family, written, origin>>

\* __aexit__: a block that neither committed nor rolled back is rolled back.
Exit(t) ==
    /\ InBody(t) /\ block[t] # None
    /\ LET u == block[t] IN
       IF uow[u].finished
       THEN /\ uow' = [uow EXCEPT ![u].active = FALSE]
            /\ block' = [block EXCEPT ![t] = uow[u].enclosing]
       ELSE /\ uow' = [uow EXCEPT ![u] = [@ EXCEPT !.caller = "exit", !.step = "rollback"]]
            /\ UNCHANGED block
    /\ UNCHANGED <<ctx, session, durable, family, written, origin>>

Next ==
    \/ \E t \in Tasks, u \in Uows, s \in Sessions : Enter(t, u, s)
    \/ \E t \in Tasks, u \in Uows, e \in Events : RegisterEvent(t, u, e)
    \/ \E t \in Tasks, w \in Writes : WriteBound(t, w)
    \/ \E t \in Tasks, w \in Writes : WriteAutocommit(t, w)
    \/ \E t \in Tasks, k \in Children : Spawn(t, k)
    \/ \E t \in Tasks : CommitCall(t)
    \/ \E t \in Tasks : Flush(t)
    \/ \E t \in Tasks : FlushFails(t)
    \/ \E t \in Tasks : SessionCommit(t)
    \/ \E t \in Tasks : SessionCommitFails(t)
    \/ \E t \in Tasks : SessionRollback(t)
    \/ \E t \in Tasks : Close(t)
    \/ \E t \in Tasks : NoSession(t)
    \/ \E t \in Tasks : RollbackCall(t)
    \/ \E t \in Tasks : Exit(t)

Spec == Init /\ [][Next]_vars

-----------------------------------------------------------------------------
Holds(u) == uow[u].token # NoToken   \* u's block has its session bound

\* A repository call of a root task goes to the block it is written in: while
\* the transaction of the innermost block is open the task is bound to exactly
\* that session, and a bound session is always the one of an open block of the
\* task itself.  Ending an inner block has to restore the outer one's session.
OwnSession ==
    \A t \in Roots :
        /\ block[t] # None /\ Holds(block[t]) => ctx[t] = uow[block[t]].session
        /\ ctx[t] # None =>
             \E u \in Uows : /\ uow[u].task = t /\ uow[u].active /\ Holds(u)
                             /\ uow[u].session = ctx[t]

\* "concurrent requests using the same adapter never see each other's session"
\* (sqlalchemy_uow.py): tasks share one only if one created the other.
SessionIsolation ==
    \A t1, t2 \in Tasks :
        ctx[t1] = ctx[t2] /\ ctx[t1] # None => family[t1] = family[t2]

\* An open transaction, with its row locks, belongs to a block somebody is
\* still in: however a block is left, its transaction is not left behind.
NoOrphanTransaction ==
    \A s \in Sessions : session[s].outcome = "open" =>
        \E t \in Tasks, u \in Uows :
            /\ uow[u].task = t /\ uow[u].active /\ uow[u].session = s /\ Holds(u)

\* A commit() that returned has made the block's transaction durable together
\* with every event registered in it before commit() was called ("never
\* silently discard registered events", unit_of_work.py).  An event that some
\* task registers while commit() is suspended is the exception: it was not in
\* the list save() got, and is cleared with the rest when commit() goes on.
\* That one is dropped without a word, like one registered with no transaction
\* open; neither becomes durable later, in a transaction that is not its own.
CommitKeepsPromise ==
    /\ \A u \in Uows : uow[u].committed =>
        /\ session[uow[u].txn].outcome = "committed"
        /\ {e \in Events : origin[e] = uow[u].txn} \subseteq durable
    /\ {e \in Events : origin[e] = None} \cap durable = {}

\* Business rows and events become durable together or not at all: the steps
\* of commit(), rollback() and __aexit__, failing anywhere, implement
\* TransactionalOutbox.  An event counts from register_event() on, while it is
\* still in _pending_events; one registered while commit() is suspended does not
\* count, since commit() drops it.
PendingOf(s) ==
    {e \in Events :
        /\ origin[e] = s
        /\ \E u \in Uows : Holds(u) /\ uow[u].session = s /\ e \in uow[u].pending}

OpenRows(s) == IF session[s].outcome = "open" THEN session[s].rows ELSE {}

Outbox == INSTANCE TransactionalOutbox WITH
    Transactions <- Sessions,
    outcome <- [s \in Sessions |-> session[s].outcome],
    rows <- [s \in Sessions |-> OpenRows(s) \cap Writes],
    events <- [s \in Sessions |-> (OpenRows(s) \cap Events) \cup PendingOf(s)]

AtomicOutbox == Outbox!Spec

-----------------------------------------------------------------------------
\* "events are flushed to the outbox exactly once, only if commit succeeded"
\* (unit_of_work.py): a durable event was registered in a block whose commit
\* took effect.  Does not hold for a body that goes on calling the Unit of Work
\* when its transaction is over (LateCalls): commit() looks at _active, not at
\* _finished, and the outbox insert finds no session bound and commits alone.
OutboxOnlyWithCommit ==
    \A e \in Events \cap durable :
        origin[e] # None /\ session[origin[e]].outcome = "committed"

\* "Outside a Unit of Work, each acquire() owns its own transaction"
\* (relational/base.py): the row of a repository call that returned is not left
\* in a session whose transaction is over and that nobody will commit.  Does
\* not hold for a task created inside a block that outlives it.
NoStrayWrites ==
    \A s \in Sessions :
        session[s].outcome \in {"committed", "aborted"} => session[s].rows = {}

=============================================================================
