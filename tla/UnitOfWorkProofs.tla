-------------------------- MODULE UnitOfWorkProofs --------------------------
(***************************************************************************)
(* Theorems about UnitOfWork.tla, for any number of tasks, Unit of Work    *)
(* objects, sessions, rows and events, and blocks nested to any depth.     *)
(* The invariants first, then what each action does to the fields they     *)
(* speak of, one lemma per invariant that every step keeps it, and the     *)
(* theorems at the end.                                                    *)
(***************************************************************************)
EXTENDS UnitOfWork, TLAPS

-----------------------------------------------------------------------------
\* The blocks a task is in form a chain: block[t] is the innermost one, and
\* enclosing leads outwards through active blocks of the same task.  No two
\* pointers lead to the same block.
Blocks ==
    /\ \A t \in Tasks : block[t] # None =>
          uow[block[t]].active /\ uow[block[t]].task = t /\ Alive(t)
    /\ \A u \in Uows : uow[u].active /\ uow[u].enclosing # None =>
          /\ uow[u].enclosing # u
          /\ uow[uow[u].enclosing].active
          /\ uow[uow[u].enclosing].task = uow[u].task
          /\ \A t \in Tasks : block[t] # uow[u].enclosing
          /\ \A w \in Uows : uow[w].active /\ w # u =>
                uow[w].enclosing # uow[u].enclosing

\* A session that is bound belongs to an open transaction of an active block,
\* and no two objects ever share one.
Transactions ==
    \A u \in Uows :
        /\ uow[u].session # None => uow[u].session = uow[u].txn
        /\ Holds(u) =>
              /\ uow[u].active /\ ~uow[u].finished /\ uow[u].step # "close"
              /\ uow[u].session # None /\ uow[u].task \in Tasks
              /\ session[uow[u].session].outcome = "open"
        /\ uow[u].txn # None =>
              /\ session[uow[u].txn].outcome # "unused"
              /\ \A w \in Uows : w # u => uow[w].txn # uow[u].txn

\* Task t sees session s, or will see it again when one of its blocks ends.
Refers(t, s) ==
    \/ ctx[t] = s
    \/ \E u \in Uows : uow[u].task = t /\ uow[u].token = s

References ==
    /\ \A t \in Tasks, s \in Sessions :
          Refers(t, s) => session[s].outcome # "unused" /\ Alive(t)
    /\ \A t1, t2 \in Tasks, s \in Sessions :
          Refers(t1, s) /\ Refers(t2, s) => family[t1] = family[t2]

\* What the task has bound at the level of each of its blocks: the block's own
\* session while that is open, afterwards what was bound around the block.
IsLevel(level) ==
    /\ \A t \in Tasks : block[t] # None => ctx[t] = level[block[t]]
    /\ \A u \in Uows : uow[u].active =>
          /\ Holds(u) => level[u] = uow[u].session
          /\ uow[u].enclosing # None =>
                level[uow[u].enclosing] = IF Holds(u) THEN uow[u].token ELSE level[u]

Levels == \E level \in [Uows -> Sessions \cup {None}] : IsLevel(level)

\* u is an open block of task t, and s is its session.
OpenBlock(u, t, s) ==
    uow[u].task = t /\ uow[u].active /\ Holds(u) /\ uow[u].session = s

\* A root task starts with nothing bound, so what it has bound, and what its
\* open blocks will restore, are sessions of open blocks of its own, each
\* session once.
RootStacks ==
    \A t \in Roots :
        /\ ctx[t] # None => \E w \in Uows : OpenBlock(w, t, ctx[t])
        /\ \A u \in Uows : Holds(u) /\ uow[u].task = t /\ uow[u].token # None =>
              /\ \E w \in Uows : OpenBlock(w, t, uow[u].token)
              /\ uow[u].token # ctx[t]
              /\ \A w \in Uows : Holds(w) /\ uow[w].task = t /\ w # u =>
                    uow[w].token # uow[u].token

EventsOf(s) == {e \in Events : origin[e] = s}

\* A commit() in progress is what is suspended at the outbox insert or at the
\* session's commit, and no call is where the body runs.
Calls ==
    \A u \in Uows :
        /\ uow[u].step = "ready" => uow[u].caller # "commit"
        /\ uow[u].step \in {"flush", "commit"} => uow[u].caller = "commit"

\* The events the object has still to save: those save() was given while it
\* runs, none when it is done.
Waiting(u) ==
    CASE uow[u].step = "flush"  -> uow[u].saving
      [] uow[u].step = "commit" -> {}
      [] OTHER                  -> uow[u].pending

\* The events of u's open block wait in the object or are in its session.  What
\* is pending belongs to the block, but for what was registered since commit()
\* was called.
Kept(u) ==
    LET s == uow[u].session
    IN  /\ EventsOf(s) \subseteq Waiting(u) \cup session[s].rows
        /\ uow[u].caller # "commit" => uow[u].pending \subseteq EventsOf(s)
        /\ uow[u].step \in {"flush", "commit"} =>
              uow[u].pending \cap EventsOf(s) = Waiting(u)

\* A session has no events before its block is entered.
EventsKept ==
    /\ \A u \in Uows : Holds(u) => Kept(u)
    /\ \A s \in Sessions : session[s].outcome = "unused" => EventsOf(s) = {}

\* The transaction of u's latest block is committed, events included.
Done(u) ==
    /\ uow[u].txn # None
    /\ session[uow[u].txn].outcome = "committed"
    /\ EventsOf(uow[u].txn) \subseteq durable

\* How far a commit() got, when bodies make no late calls.
CommitInProgress ==
    \A u \in Uows :
        /\ uow[u].step \in {"flush", "commit"} => Holds(u)
        /\ uow[u].step = "close" /\ uow[u].caller = "commit" /\ uow[u].ok => Done(u)
        /\ uow[u].committed => Done(u)

\* Without late calls an event that no transaction has to take is never saved.
Stored(e) == e \in durable \/ \E s \in Sessions : e \in session[s].rows

Unclaimed == \A e \in Events : origin[e] \notin Sessions => ~Stored(e)

IInv ==
    /\ TypeOK /\ Blocks /\ Transactions /\ References /\ Levels /\ RootStacks
    /\ NoOrphanTransaction /\ Calls /\ EventsKept
    /\ LateCalls = FALSE => CommitInProgress /\ Unclaimed

USE UowAssumption DEF UowAssumption

\* Each field of an object may be set to any value of its range.
LEMMA SetField ==
    ASSUME NEW r \in Uow
    PROVE  /\ \A x \in BOOLEAN :
                /\ [r EXCEPT !.active = x] \in Uow
                /\ [r EXCEPT !.finished = x] \in Uow
                /\ [r EXCEPT !.committed = x] \in Uow
                /\ [r EXCEPT !.ok = x] \in Uow
           /\ \A x \in SUBSET Events :
                /\ [r EXCEPT !.pending = x] \in Uow
                /\ [r EXCEPT !.saving = x] \in Uow
           /\ \A x \in Sessions \cup {None} :
                /\ [r EXCEPT !.session = x] \in Uow
                /\ [r EXCEPT !.txn = x] \in Uow
           /\ \A x \in Sessions \cup {None, NoToken} : [r EXCEPT !.token = x] \in Uow
           /\ \A x \in Step : [r EXCEPT !.step = x] \in Uow
           /\ \A x \in Caller : [r EXCEPT !.caller = x] \in Uow
           /\ \A x \in Tasks \cup {None} : [r EXCEPT !.task = x] \in Uow
           /\ \A x \in Uows \cup {None} : [r EXCEPT !.enclosing = x] \in Uow
  BY DEF Uow

\* A new object's fields are in range.
LEMMA NewUowType == NewUow \in Uow
  BY DEF NewUow, Uow, Step, Caller

\* The initial state is well typed.
LEMMA InitType == Init => TypeOK
<1> SUFFICES ASSUME Init PROVE TypeOK
  OBVIOUS
<1>1. uow \in [Uows -> Uow]
  BY NewUowType DEF Init
<1>2. session \in [Sessions -> Session]
  BY DEF Init, Session
<1> QED BY <1>1, <1>2 DEF Init, TypeOK

\* The fields _begin and __aenter__ leave are in range.
LEMMA BegunType ==
    ASSUME TypeOK, NEW t \in Tasks, NEW u \in Uows, NEW s \in Sessions
    PROVE  /\ [Begun(t, s) EXCEPT !.active = TRUE, !.enclosing = block[t]] \in Uow
           /\ Begun(t, s) \in Uow
<1> DEFINE a == [NewUow EXCEPT !.session = s]
           b == [a EXCEPT !.txn = s]
           c == [b EXCEPT !.token = ctx[t]]
           d == [c EXCEPT !.task = t]
<1>1. a \in Uow
  BY NewUowType, SetField
<1>2. b \in Uow
  <2> HIDE DEF a
  <2> QED BY <1>1, SetField
<1>3. c \in Uow
  <2> HIDE DEF b
  <2> QED BY <1>2, SetField DEF TypeOK
<1>4. d \in Uow
  <2> HIDE DEF c
  <2> QED BY <1>3, SetField
<1>5. Begun(t, s) = d
  BY DEF Begun
<1> HIDE DEF d
<1> DEFINE e == [Begun(t, s) EXCEPT !.active = TRUE]
<1>6. e \in Uow
  BY <1>4, <1>5, SetField
<1>7. [e EXCEPT !.enclosing = block[t]] \in Uow
  <2> HIDE DEF e
  <2> QED BY <1>6, SetField DEF TypeOK
<1> QED BY <1>4, <1>5, <1>7

\* So are the fields of a session, set one at a time.
LEMMA SessionType ==
    ASSUME NEW x \in Session
    PROVE  /\ \A o \in {"unused", "open", "committed", "aborted"} :
                 [x EXCEPT !.outcome = o] \in Session
           /\ \A rows \in SUBSET (Writes \cup Events) : [x EXCEPT !.rows = rows] \in Session
  BY DEF Session

\* EndTransaction keeps the fields in range.
LEMMA EndTransactionType ==
    ASSUME TypeOK, NEW t \in Tasks, block[t] # None, NEW ok \in BOOLEAN,
           NEW applied \in BOOLEAN, EndTransaction(t, ok, applied)
    PROVE  TypeOK'
<1> DEFINE u == block[t]
           s == uow[u].session
<1> USE DEF TypeOK
<1>1. u \in Uows /\ s \in Sessions
  BY DEF EndTransaction, Uow
<1>2. uow' \in [Uows -> Uow]
  <2> DEFINE a == [uow[u] EXCEPT !.token = NoToken]
             b == [a EXCEPT !.step = "close"]
  <2>1. a \in Uow
    BY <1>1, SetField
  <2>2. b \in Uow
    <3> HIDE DEF a
    <3> QED BY <2>1, SetField DEF Step
  <2>3. [b EXCEPT !.ok = ok] \in Uow
    <3> HIDE DEF b
    <3> QED BY <2>2, SetField
  <2>4. uow' = [uow EXCEPT ![u] = [b EXCEPT !.ok = ok]]
    BY DEF EndTransaction
  <2> HIDE DEF b
  <2> QED BY <2>3, <2>4
<1>3. session' \in [Sessions -> Session]
  <2> DEFINE o == IF session[s].outcome # "open" THEN session[s].outcome
                  ELSE IF applied THEN "committed" ELSE "aborted"
             x == [session[s] EXCEPT !.outcome = o]
  <2>1. o \in {"unused", "open", "committed", "aborted"}
    BY <1>1 DEF Session
  <2>2. x \in Session
    <3> HIDE DEF o
    <3> QED BY <1>1, <2>1, SessionType
  <2>3. [x EXCEPT !.rows = {}] \in Session
    <3> HIDE DEF x
    <3> QED BY <2>2, SessionType
  <2>4. session' = [session EXCEPT ![s] = [x EXCEPT !.rows = {}]]
    BY DEF EndTransaction
  <2> HIDE DEF x
  <2> QED BY <2>3, <2>4
<1>4. ctx' \in [Tasks -> Sessions \cup {None}]
  <2>1. uow[u].token \in Sessions \cup {None, NoToken}
    BY <1>1 DEF Uow
  <2> QED BY <2>1 DEF EndTransaction, Unbind
<1>5. durable' \subseteq Writes \cup Events
  BY <1>1 DEF EndTransaction, Session
<1>6. UNCHANGED <<block, family, written, origin>>
  BY DEF EndTransaction
<1> QED BY <1>2, <1>3, <1>4, <1>5, <1>6

\* The end of a call keeps the fields in range.
LEMMA ReturnType ==
    ASSUME TypeOK, NEW t \in Tasks, block[t] # None, NEW r \in Uow,
           NEW raised \in BOOLEAN, Return(t, r, raised)
    PROVE  uow' \in [Uows -> Uow] /\ block' \in [Tasks -> Uows \cup {None}]
<1> DEFINE finishes == r.caller = "commit" \/ ~raised
           a == [r EXCEPT !.step = "ready"]
           b == [a EXCEPT !.caller = "nobody"]
           c == [b EXCEPT !.ok = TRUE]
           d == [c EXCEPT !.finished = r.finished \/ finishes]
           e == [d EXCEPT !.pending = IF finishes THEN {} ELSE r.pending]
           f == [e EXCEPT !.committed = r.committed \/ (r.caller = "commit" /\ ~raised)]
<1>1. a \in Uow
  BY SetField DEF Step
<1>2. b \in Uow
  <2> HIDE DEF a
  <2> QED BY <1>1, SetField DEF Caller
<1>3. c \in Uow
  <2> HIDE DEF b
  <2> QED BY <1>2, SetField
<1>4. d \in Uow
  <2>1. (r.finished \/ finishes) \in BOOLEAN
    OBVIOUS
  <2> HIDE DEF c, finishes
  <2> QED BY <1>3, <2>1, SetField
<1>5. e \in Uow
  <2>1. (IF finishes THEN {} ELSE r.pending) \in SUBSET Events
    BY DEF Uow
  <2> HIDE DEF d, finishes
  <2> QED BY <1>4, <2>1, SetField
<1>6. f \in Uow
  <2>1. (r.committed \/ (r.caller = "commit" /\ ~raised)) \in BOOLEAN
    OBVIOUS
  <2> HIDE DEF e
  <2> QED BY <1>5, <2>1, SetField
<1>7. [f EXCEPT !.active = r.caller # "exit"] \in Uow
  <2>1. (r.caller # "exit") \in BOOLEAN
    OBVIOUS
  <2> HIDE DEF f
  <2> QED BY <1>6, <2>1, SetField
<1>8. AfterCall(r, raised) = [f EXCEPT !.active = r.caller # "exit"]
  BY DEF AfterCall
<1>9. uow' \in [Uows -> Uow]
  <2> HIDE DEF f
  <2> QED BY <1>7, <1>8 DEF Return, TypeOK
<1>10. block' \in [Tasks -> Uows \cup {None}]
  BY DEF Return, TypeOK, Uow
<1> QED BY <1>9, <1>10


\* Every step keeps the fields in range.
LEMMA TypeStep == TypeOK /\ [Next]_vars => TypeOK'
<1> SUFFICES ASSUME TypeOK, [Next]_vars PROVE TypeOK'
  OBVIOUS
<1> USE DEF TypeOK
<1>1. ASSUME NEW t \in Tasks, NEW u \in Uows, NEW s \in Sessions, Enter(t, u, s)
      PROVE  TypeOK'
  <2>1. [Begun(t, s) EXCEPT !.active = TRUE, !.enclosing = block[t]] \in Uow
    BY ZenonT(60), BegunType
  <2>2. uow' \in [Uows -> Uow]
    BY <1>1, <2>1 DEF Enter
  <2>3. session' \in [Sessions -> Session]
    BY <1>1, SessionType DEF Enter
  <2>4. ctx' \in [Tasks -> Sessions \cup {None}]
    BY <1>1 DEF Enter, Bind
  <2>5. block' \in [Tasks -> Uows \cup {None}]
    BY <1>1 DEF Enter
  <2> QED BY <1>1, <2>2, <2>3, <2>4, <2>5 DEF Enter
<1>2. ASSUME NEW t \in Tasks, NEW u \in Uows, NEW e \in Events, RegisterEvent(t, u, e)
      PROVE  TypeOK'
  <2>2. uow[u].pending \cup {e} \in SUBSET Events
    BY DEF Uow
  <2>3. uow' = [uow EXCEPT ![u] = [uow[u] EXCEPT !.pending = uow[u].pending \cup {e}]]
    BY <1>2 DEF RegisterEvent
  <2>4. uow' \in [Uows -> Uow]
    BY <2>2, <2>3, SetField
  <2>5. origin' \in [Events -> Sessions \cup {None, NoToken}]
    BY <1>2 DEF RegisterEvent, Recipient, Uow
  <2> QED BY <1>2, <2>4, <2>5 DEF RegisterEvent
<1>3. ASSUME NEW t \in Tasks, NEW w \in Writes, WriteBound(t, w)
      PROVE  TypeOK'
  <2>1. ctx[t] \in Sessions
    BY <1>3 DEF WriteBound
  <2>2. session[ctx[t]].rows \cup {w} \in SUBSET (Writes \cup Events)
    BY <2>1 DEF Session
  <2>3. session' = [session EXCEPT ![ctx[t]] =
                      [session[ctx[t]] EXCEPT !.rows = session[ctx[t]].rows \cup {w}]]
    BY <1>3 DEF WriteBound
  <2>4. session' \in [Sessions -> Session]
    BY <2>1, <2>2, <2>3, SessionType
  <2> QED BY <1>3, <2>4 DEF WriteBound
<1>4. ASSUME NEW t \in Tasks, NEW w \in Writes,
             WriteAutocommit(t, w)
      PROVE  TypeOK'
  BY <1>4 DEF WriteAutocommit
<1>5. ASSUME NEW t \in Tasks, NEW k \in Children, Spawn(t, k)
      PROVE  TypeOK'
  BY <1>5 DEF Spawn, Tasks
<1>6. ASSUME NEW t \in Tasks, CommitCall(t)
      PROVE  TypeOK'
  <2> DEFINE u == block[t]
             c == [uow[u] EXCEPT !.caller = "commit"]
             a == [c EXCEPT !.saving = uow[u].pending]
             next == IF uow[u].pending = {} THEN "commit" ELSE "flush"
  <2>1. u \in Uows
    BY <1>6 DEF CommitCall, MayCall
  <2>2. a \in Uow
    <3>1. uow[u].pending \in SUBSET Events
      BY <2>1 DEF Uow
    <3>2. "commit" \in Caller
      BY DEF Caller
    <3>3. c \in Uow
      BY <2>1, <3>2, SetField
    <3> HIDE DEF c
    <3> QED BY <3>1, <3>3, SetField
  <2>3. next \in Step
    BY DEF Step
  <2>4. [a EXCEPT !.step = next] \in Uow
    <3> HIDE DEF a, next
    <3> QED BY <2>2, <2>3, SetField
  <2>5. uow' = [uow EXCEPT ![u] = [a EXCEPT !.step = next]]
    BY <1>6 DEF CommitCall
  <2>6. UNCHANGED <<ctx, block, session, durable, family, written, origin>>
    BY <1>6 DEF CommitCall
  <2> HIDE DEF a, next
  <2> QED BY <2>4, <2>5, <2>6
<1>7. ASSUME NEW t \in Tasks, Flush(t)
      PROVE  TypeOK'
  <2> DEFINE u == block[t]
             c == [uow[u] EXCEPT !.pending = {}]
             a == [c EXCEPT !.saving = {}]
  <2>1. u \in Uows
    BY <1>7 DEF Flush, At
  <2>2. a \in Uow
    <3>1. c \in Uow
      BY <2>1, SetField
    <3> HIDE DEF c
    <3> QED BY <3>1, SetField
  <2>3. [a EXCEPT !.step = "commit"] \in Uow
    <3> HIDE DEF a
    <3> QED BY <2>2, SetField DEF Step
  <2>4. uow' = [uow EXCEPT ![u] = [a EXCEPT !.step = "commit"]]
    BY <1>7 DEF Flush
  <2>5. uow' \in [Uows -> Uow]
    <3> HIDE DEF a
    <3> QED BY <2>3, <2>4
  <2>6. uow[u].saving \subseteq Events
    BY <2>1 DEF Uow
  <2>7. Save(t, uow[u].saving)
    BY <1>7 DEF Flush
  <2>8. session' \in [Sessions -> Session] /\ durable' \subseteq Writes \cup Events
    <3>1. CASE ctx[t] = None
      BY <2>6, <2>7, <3>1 DEF Save
    <3>2. CASE ctx[t] # None
      <4> DEFINE rows == session[ctx[t]].rows \cup uow[u].saving
      <4>1. ctx[t] \in Sessions
        BY <3>2
      <4>2. rows \in SUBSET (Writes \cup Events)
        BY <2>6, <4>1 DEF Session
      <4>3. session' = [session EXCEPT ![ctx[t]] = [session[ctx[t]] EXCEPT !.rows = rows]]
        BY <2>7, <3>2 DEF Save
      <4>4. durable' = durable
        BY <2>7, <3>2 DEF Save
      <4> HIDE DEF rows
      <4> QED BY <4>1, <4>2, <4>3, <4>4, SessionType
    <3> QED BY <3>1, <3>2
  <2>9. UNCHANGED <<ctx, block, family, written, origin>>
    BY <1>7 DEF Flush
  <2> QED BY <2>5, <2>8, <2>9
<1>8. ASSUME NEW t \in Tasks, FlushFails(t)
      PROVE  TypeOK'
  <2> DEFINE u == block[t]
             a == [uow[u] EXCEPT !.saving = {}]
  <2>1. u \in Uows
    BY <1>8 DEF FlushFails, At
  <2>2. a \in Uow
    BY <2>1, SetField
  <2>3. [a EXCEPT !.step = "rollback"] \in Uow
    <3> HIDE DEF a
    <3> QED BY <2>2, SetField DEF Step
  <2>4. uow' = [uow EXCEPT ![u] = [a EXCEPT !.step = "rollback"]]
    BY <1>8 DEF FlushFails
  <2>5. uow' \in [Uows -> Uow]
    <3> HIDE DEF a
    <3> QED BY <2>3, <2>4
  <2>6. UNCHANGED <<ctx, block, session, durable, family, written, origin>>
    BY <1>8 DEF FlushFails
  <2> HIDE DEF a
  <2> QED BY <2>5, <2>6
<1>9. ASSUME NEW t \in Tasks, SessionCommit(t)
      PROVE  TypeOK'
  <2>1. PICK done \in BOOLEAN : block[t] # None /\ EndTransaction(t, done, done)
    BY Zenon, <1>9 DEF SessionCommit, At
  <2> HIDE DEF TypeOK
  <2> QED BY <2>1, EndTransactionType
<1>10. ASSUME NEW t \in Tasks, SessionCommitFails(t)
       PROVE  TypeOK'
  <2>1. PICK applied \in BOOLEAN : block[t] # None /\ EndTransaction(t, FALSE, applied)
    BY <1>10 DEF SessionCommitFails, At
  <2> QED BY ZenonT(60), <2>1, EndTransactionType
<1>11. ASSUME NEW t \in Tasks, SessionRollback(t)
       PROVE  TypeOK'
  <2>1. PICK ok \in BOOLEAN :
           block[t] # None /\ EndTransaction(t, ok /\ uow[block[t]].caller # "commit", FALSE)
    BY <1>11 DEF SessionRollback, At
  <2>2. (ok /\ uow[block[t]].caller # "commit") \in BOOLEAN
    OBVIOUS
  <2> QED BY <2>1, <2>2, EndTransactionType
<1>12. ASSUME NEW t \in Tasks, Close(t)
       PROVE  TypeOK'
  <2> DEFINE r == uow[block[t]]
  <2>1. block[t] \in Uows /\ r \in Uow
    BY <1>12 DEF Close, At
  <2>2. PICK closes \in BOOLEAN :
          /\ session' = [session EXCEPT ![r.session].rows = {}]
          /\ Return(t, [r EXCEPT !.session = IF closes THEN None ELSE r.session],
                    ~(r.ok /\ closes))
    BY <1>12 DEF Close
  <2> DEFINE kept == IF closes THEN None ELSE r.session
             x == [r EXCEPT !.session = kept]
  <2>3. kept \in Sessions \cup {None}
    BY <2>1 DEF Uow
  <2>4. x \in Uow
    <3> HIDE DEF r, kept
    <3> QED BY <2>1, <2>3, SetField
  <2>5. (~(r.ok /\ closes)) \in BOOLEAN
    OBVIOUS
  <2>6. uow' \in [Uows -> Uow] /\ block' \in [Tasks -> Uows \cup {None}]
    <3>1. \E raised \in BOOLEAN : Return(t, x, raised)
      BY <2>2, <2>5
    <3>2. block[t] # None
      BY <2>1
    <3> HIDE DEF x
    <3> QED BY <2>4, <3>1, <3>2, ReturnType
  <2>7. session' \in [Sessions -> Session]
    BY <2>2, SessionType
  <2>8. UNCHANGED <<ctx, durable, family, written, origin>>
    BY <1>12 DEF Close
  <2> QED BY <2>6, <2>7, <2>8
<1>13. ASSUME NEW t \in Tasks, NoSession(t)
       PROVE  TypeOK'
  <2>1. block[t] \in Uows /\ Return(t, uow[block[t]], TRUE)
    BY <1>13 DEF NoSession, At
  <2>2. uow' \in [Uows -> Uow] /\ block' \in [Tasks -> Uows \cup {None}]
    BY <2>1, ReturnType
  <2> QED BY <1>13, <2>2 DEF NoSession
<1>14. ASSUME NEW t \in Tasks, RollbackCall(t)
       PROVE  TypeOK'
  <2> DEFINE u == block[t]
             a == [uow[u] EXCEPT !.caller = "rollback"]
  <2>1. a \in Uow
    BY <1>14, SetField DEF RollbackCall, Caller
  <2>2. [a EXCEPT !.step = "rollback"] \in Uow
    <3> HIDE DEF a
    <3> QED BY <2>1, SetField DEF Step
  <2>3. uow' = [uow EXCEPT ![u] = [a EXCEPT !.step = "rollback"]]
    BY <1>14 DEF RollbackCall
  <2> HIDE DEF a
  <2> QED BY <1>14, <2>2, <2>3 DEF RollbackCall
<1>15. ASSUME NEW t \in Tasks, Exit(t)
       PROVE  TypeOK'
  <2> DEFINE u == block[t]
             a == [uow[u] EXCEPT !.caller = "exit"]
  <2>1. u \in Uows
    BY <1>15 DEF Exit
  <2>2. a \in Uow /\ [uow[u] EXCEPT !.active = FALSE] \in Uow
    BY <2>1, SetField DEF Caller
  <2>3. [a EXCEPT !.step = "rollback"] \in Uow
    <3> HIDE DEF a
    <3> QED BY <2>2, SetField DEF Step
  <2>4. \/ uow' = [uow EXCEPT ![u] = [uow[u] EXCEPT !.active = FALSE]]
        \/ uow' = [uow EXCEPT ![u] = [a EXCEPT !.step = "rollback"]]
    BY <1>15 DEF Exit
  <2>5. uow' \in [Uows -> Uow]
    <3> HIDE DEF a
    <3> QED BY <2>2, <2>3, <2>4
  <2>6. block' \in [Tasks -> Uows \cup {None}]
    BY <1>15, <2>1 DEF Exit, Uow
  <2> QED BY <1>15, <2>5, <2>6 DEF Exit
<1>16. CASE UNCHANGED vars
  BY <1>16 DEF vars
<1> QED
  BY <1>1, <1>2, <1>3, <1>4, <1>5, <1>6, <1>7, <1>8, <1>9, <1>10, <1>11, <1>12,
     <1>13, <1>14, <1>15, <1>16 DEF Next


-----------------------------------------------------------------------------
\* The fields the invariants look at, after each kind of step on u == block[t].

\* Objects other than u are left alone, and u keeps what ties it to its block.
Keeps(u) ==
    /\ \A w \in Uows \ {u} : uow'[w] = uow[w]
    /\ uow'[u].task = uow[u].task
    /\ uow'[u].enclosing = uow[u].enclosing
    /\ uow'[u].txn = uow[u].txn

\* What commit(), rollback() or __aexit__ leaves when it is over.
LEMMA ReturnEffect ==
    ASSUME TypeOK, NEW t \in Tasks, block[t] # None, NEW raised \in BOOLEAN,
           NEW s \in Sessions \cup {None},
           Return(t, [uow[block[t]] EXCEPT !.session = s], raised)
    PROVE  LET u == block[t]
               finishes == uow[u].caller = "commit" \/ ~raised
           IN  /\ u \in Uows /\ Keeps(u)
               /\ uow'[u].session = s
               /\ uow'[u].token = uow[u].token
               /\ uow'[u].step = "ready" /\ uow'[u].caller = "nobody"
               /\ uow'[u].finished = (uow[u].finished \/ finishes)
               /\ uow'[u].committed = (uow[u].committed \/ (uow[u].caller = "commit" /\ ~raised))
               /\ uow'[u].pending = IF finishes THEN {} ELSE uow[u].pending
               /\ uow'[u].active = (uow[u].caller # "exit")
               /\ block' = IF uow[u].caller = "exit"
                           THEN [block EXCEPT ![t] = uow[u].enclosing] ELSE block
  BY DEF TypeOK, Uow, Return, AfterCall, Keeps

\* What the end of the session's commit or rollback, and the unbinding, leave.
LEMMA EndTransactionEffect ==
    ASSUME TypeOK, NEW t \in Tasks, block[t] # None, NEW ok \in BOOLEAN,
           NEW applied \in BOOLEAN, EndTransaction(t, ok, applied)
    PROVE  LET u == block[t]
               s == uow[u].session
           IN  /\ u \in Uows /\ s \in Sessions /\ Keeps(u)
               /\ uow'[u].session = s
               /\ uow'[u].token = NoToken
               /\ uow'[u].step = "close"
               /\ uow'[u].ok = ok
               /\ uow'[u].caller = uow[u].caller
               /\ uow'[u].finished = uow[u].finished
               /\ uow'[u].committed = uow[u].committed
               /\ uow'[u].pending = uow[u].pending
               /\ uow'[u].active = uow[u].active
               /\ \A x \in Sessions \ {s} : session'[x] = session[x]
               /\ session'[s].rows = {}
               /\ session'[s].outcome =
                     IF session[s].outcome # "open" THEN session[s].outcome
                     ELSE IF applied THEN "committed" ELSE "aborted"
               /\ durable' = IF applied THEN durable \cup session[s].rows ELSE durable
               /\ ctx' = IF uow[u].token = NoToken THEN ctx
                         ELSE [ctx EXCEPT ![t] = uow[u].token]
               /\ UNCHANGED <<block, family, written, origin>>
  BY DEF TypeOK, Uow, Session, EndTransaction, Unbind, Keeps

\* What the session's close leaves.
LEMMA CloseEffect ==
    ASSUME TypeOK, NEW t \in Tasks, Close(t)
    PROVE  LET u == block[t]
           IN  /\ u \in Uows /\ uow[u].step = "close"
               /\ \E closes \in BOOLEAN :
                    Return(t, [uow[u] EXCEPT !.session = IF closes THEN None ELSE uow[u].session],
                           ~(uow[u].ok /\ closes))
               /\ session' = [session EXCEPT ![uow[u].session].rows = {}]
               /\ UNCHANGED <<ctx, durable, family, written, origin>>
  BY DEF TypeOK, Close, At

\* A step that moves no block, session or binding: a call starts, an event or
\* a row is written, the outbox is filled.
Quiet ==
    /\ UNCHANGED <<ctx, block, family>>
    /\ \A s \in Sessions : session'[s].outcome = session[s].outcome
    /\ \A u \in Uows :
          /\ uow'[u].active = uow[u].active
          /\ uow'[u].finished = uow[u].finished
          /\ uow'[u].session = uow[u].session
          /\ uow'[u].token = uow[u].token
          /\ uow'[u].task = uow[u].task
          /\ uow'[u].enclosing = uow[u].enclosing
          /\ uow'[u].txn = uow[u].txn
          /\ uow'[u].step = "close" => uow[u].step = "close"

\* The session's commit or rollback of t's block ended.
Ends(t, ok, applied) == block[t] # None /\ EndTransaction(t, ok, applied)

\* A call on t's block came to its end, with s left in the object.
Returns(t, s, raised) ==
    /\ block[t] # None
    /\ Return(t, [uow[block[t]] EXCEPT !.session = s], raised)
    /\ \/ Close(t) /\ s \in {None, uow[block[t]].session}
       \/ NoSession(t) /\ s = None /\ raised

\* t left a block whose transaction was over.
Leaves(t) == Exit(t) /\ uow[block[t]].finished

\* The actions that are quiet.
LEMMA QuietSteps ==
    ASSUME TypeOK, NEW t \in Tasks
    PROVE  /\ \A u \in Uows, e \in Events : RegisterEvent(t, u, e) => Quiet
           /\ \A w \in Writes : WriteBound(t, w) => Quiet
           /\ \A w \in Writes : WriteAutocommit(t, w) => Quiet
           /\ CommitCall(t) => Quiet
           /\ Flush(t) => Quiet
           /\ FlushFails(t) => Quiet
           /\ RollbackCall(t) => Quiet
           /\ Exit(t) /\ ~uow[block[t]].finished => Quiet
<1> USE DEF TypeOK, Quiet, Uow, Session
<1>1. \A u \in Uows, e \in Events : RegisterEvent(t, u, e) => Quiet
  BY DEF RegisterEvent
<1>2. \A w \in Writes : WriteBound(t, w) => Quiet
  BY DEF WriteBound
<1>3. \A w \in Writes : WriteAutocommit(t, w) => Quiet
  BY DEF WriteAutocommit
<1>4. CommitCall(t) => Quiet
  BY DEF CommitCall
<1>5. Flush(t) => Quiet
  <2> SUFFICES ASSUME Flush(t) PROVE Quiet
    OBVIOUS
  <2>1. Save(t, uow[block[t]].saving) /\ block[t] \in Uows
    BY DEF Flush, At
  <2>2. \A s \in Sessions : session'[s].outcome = session[s].outcome
    BY <2>1 DEF Save
  <2> QED BY <2>1, <2>2 DEF Flush
<1>6. FlushFails(t) => Quiet
  BY DEF FlushFails, At
<1>7. RollbackCall(t) => Quiet
  BY DEF RollbackCall
<1>8. Exit(t) /\ ~uow[block[t]].finished => Quiet
  <2> SUFFICES ASSUME Exit(t), ~uow[block[t]].finished PROVE Quiet
    OBVIOUS
  <2>1. /\ block[t] \in Uows
        /\ uow' = [uow EXCEPT ![block[t]] = [uow[block[t]] EXCEPT !.caller = "exit",
                                                               !.step = "rollback"]]
        /\ UNCHANGED <<ctx, block, session, durable, family, written, origin>>
    BY DEF Exit
  <2> QED BY <2>1
<1> QED BY <1>1, <1>2, <1>3, <1>4, <1>5, <1>6, <1>7, <1>8

\* A call ends with the session's close, or because there was no session.
LEMMA EndingCalls ==
    ASSUME TypeOK, NEW t \in Tasks, Close(t) \/ NoSession(t)
    PROVE  \E s \in Sessions \cup {None}, raised \in BOOLEAN :
              Returns(t, s, raised) /\ (~raised => At(t, "close") /\ uow[block[t]].ok)
<1>1. ASSUME Close(t)
      PROVE  \E s \in Sessions \cup {None}, raised \in BOOLEAN :
                Returns(t, s, raised) /\ (~raised => At(t, "close") /\ uow[block[t]].ok)
  <2> DEFINE r == uow[block[t]]
  <2>1. block[t] \in Uows /\ r.session \in Sessions \cup {None}
    BY <1>1 DEF Close, At, TypeOK, Uow
  <2>2. PICK closes \in BOOLEAN :
          Return(t, [r EXCEPT !.session = IF closes THEN None ELSE r.session],
                 ~(r.ok /\ closes))
    BY <1>1 DEF Close
  <2> DEFINE s == IF closes THEN None ELSE r.session
  <2>3. s \in Sessions \cup {None} /\ s \in {None, r.session}
    BY <2>1
  <2>4. (~(r.ok /\ closes)) \in BOOLEAN
    OBVIOUS
  <2>5. block[t] # None
    BY <2>1
  <2>6. Returns(t, s, ~(r.ok /\ closes))
    BY <1>1, <2>2, <2>3, <2>5 DEF Returns
  <2>7. At(t, "close")
    BY <1>1 DEF Close
  <2> HIDE DEF s
  <2> QED BY <2>3, <2>4, <2>6, <2>7
<1>2. ASSUME NoSession(t)
      PROVE  \E s \in Sessions \cup {None}, raised \in BOOLEAN :
                Returns(t, s, raised) /\ (~raised => At(t, "close") /\ uow[block[t]].ok)
  <2>1. block[t] \in Uows /\ uow[block[t]].session = None /\ Return(t, uow[block[t]], TRUE)
    BY <1>2 DEF NoSession, At, TypeOK
  <2>2. [uow[block[t]] EXCEPT !.session = None] = uow[block[t]]
    BY <2>1 DEF TypeOK, Uow
  <2>3. Returns(t, None, TRUE)
    BY <1>2, <2>1, <2>2 DEF Returns
  <2> QED BY <2>3
<1> QED BY <1>1, <1>2

\* The steps in which a transaction or a call comes to its end.
LEMMA EndingSteps ==
    ASSUME TypeOK, NEW t \in Tasks,
           SessionCommit(t) \/ SessionCommitFails(t) \/ SessionRollback(t)
             \/ Close(t) \/ NoSession(t)
    PROVE  \/ \E ok \in BOOLEAN, applied \in BOOLEAN : Ends(t, ok, applied)
           \/ \E s \in Sessions \cup {None}, raised \in BOOLEAN : Returns(t, s, raised)
<1>1. ASSUME SessionCommit(t)
      PROVE  \E ok \in BOOLEAN, applied \in BOOLEAN : Ends(t, ok, applied)
  BY <1>1 DEF SessionCommit, At, Ends
<1>2. ASSUME SessionCommitFails(t)
      PROVE  \E ok \in BOOLEAN, applied \in BOOLEAN : Ends(t, ok, applied)
  BY <1>2 DEF SessionCommitFails, At, Ends
<1>3. ASSUME SessionRollback(t)
      PROVE  \E ok \in BOOLEAN, applied \in BOOLEAN : Ends(t, ok, applied)
  <2>1. PICK ok \in BOOLEAN :
           block[t] # None /\ EndTransaction(t, ok /\ uow[block[t]].caller # "commit", FALSE)
    BY <1>3 DEF SessionRollback, At
  <2>2. (ok /\ uow[block[t]].caller # "commit") \in BOOLEAN
    OBVIOUS
  <2> QED BY <2>1, <2>2 DEF Ends
<1> QED BY <1>1, <1>2, <1>3, EndingCalls

\* Every step is of one of six kinds.
LEMMA StepKinds ==
    ASSUME TypeOK, [Next]_vars
    PROVE  \/ Quiet
           \/ \E t \in Tasks, u \in Uows, s \in Sessions : Enter(t, u, s)
           \/ \E t \in Tasks, k \in Children : Spawn(t, k)
           \/ \E t \in Tasks, ok \in BOOLEAN, applied \in BOOLEAN : Ends(t, ok, applied)
           \/ \E t \in Tasks, s \in Sessions \cup {None}, raised \in BOOLEAN :
                 Returns(t, s, raised)
           \/ \E t \in Tasks : Leaves(t)
<1>1. ASSUME NEW t \in Tasks, Exit(t)
      PROVE  Quiet \/ Leaves(t)
  BY <1>1, QuietSteps DEF Leaves
<1>2. CASE UNCHANGED vars
  BY <1>2 DEF vars, Quiet
<1>3. CASE Next
  BY <1>1, <1>3, EndingSteps, QuietSteps DEF Next
<1> QED BY <1>2, <1>3

-----------------------------------------------------------------------------

\* What the lemmas below need of the types.
LEMMA Ranges ==
    ASSUME TypeOK
    PROVE  /\ \A t \in Tasks : block[t] \in Uows \cup {None}
           /\ \A t \in Tasks : ctx[t] \in Sessions \cup {None}
           /\ \A u \in Uows :
                /\ uow[u].enclosing \in Uows \cup {None}
                /\ uow[u].session \in Sessions \cup {None}
                /\ uow[u].txn \in Sessions \cup {None}
                /\ uow[u].token \in Sessions \cup {None, NoToken}
                /\ uow[u].task \in Tasks \cup {None}
                /\ uow[u].active \in BOOLEAN
                /\ uow[u].finished \in BOOLEAN
                /\ uow[u].committed \in BOOLEAN
                /\ uow[u].pending \subseteq Events
                /\ uow[u].saving \subseteq Events
           /\ \A s \in Sessions : session[s].rows \subseteq Writes \cup Events
  BY DEF TypeOK, Uow, Session

\* Entering a block.
LEMMA EnterEffect ==
    ASSUME TypeOK, NEW t \in Tasks, NEW u \in Uows, NEW s \in Sessions, Enter(t, u, s)
    PROVE  /\ \A w \in Uows \ {u} : uow'[w] = uow[w]
           /\ uow'[u].active /\ ~uow'[u].finished /\ ~uow'[u].committed
           /\ uow'[u].task = t /\ uow'[u].enclosing = block[t]
           /\ uow'[u].session = s /\ uow'[u].txn = s /\ uow'[u].token = ctx[t]
           /\ uow'[u].step = "ready" /\ uow'[u].caller = "nobody" /\ uow'[u].pending = {}
           /\ ~uow[u].active /\ Alive(t)
           /\ session[s].outcome = "unused"
           /\ session'[s].outcome = "open" /\ session'[s].rows = session[s].rows
           /\ \A x \in Sessions \ {s} : session'[x] = session[x]
           /\ \A x \in Tasks : ctx'[x] = IF x = t THEN s ELSE ctx[x]
           /\ \A x \in Tasks : block'[x] = IF x = t THEN u ELSE block[x]
           /\ block[t] # None => uow[block[t]].step = "ready"
           /\ UNCHANGED <<durable, family, written, origin>>
<1>1. uow' = [uow EXCEPT ![u] = [Begun(t, s) EXCEPT !.active = TRUE, !.enclosing = block[t]]]
  BY DEF Enter
<1>2. uow'[u] = [Begun(t, s) EXCEPT !.active = TRUE, !.enclosing = block[t]]
  BY <1>1 DEF TypeOK
<1>3. /\ uow'[u].active /\ ~uow'[u].finished /\ ~uow'[u].committed
      /\ uow'[u].task = t /\ uow'[u].enclosing = block[t]
      /\ uow'[u].session = s /\ uow'[u].txn = s /\ uow'[u].token = ctx[t]
      /\ uow'[u].step = "ready" /\ uow'[u].caller = "nobody" /\ uow'[u].pending = {}
  BY <1>2 DEF Begun, NewUow
<1>4. \A w \in Uows \ {u} : uow'[w] = uow[w]
  BY <1>1 DEF TypeOK
<1>5. /\ session[s].outcome = "unused"
      /\ session'[s].outcome = "open" /\ session'[s].rows = session[s].rows
      /\ \A x \in Sessions \ {s} : session'[x] = session[x]
  BY DEF Enter, TypeOK, Session
<1>6. /\ \A x \in Tasks : ctx'[x] = IF x = t THEN s ELSE ctx[x]
      /\ \A x \in Tasks : block'[x] = IF x = t THEN u ELSE block[x]
  BY DEF Enter, Bind, TypeOK
<1>7. /\ ~uow[u].active /\ Alive(t)
      /\ block[t] # None => uow[block[t]].step = "ready"
      /\ UNCHANGED <<durable, family, written, origin>>
  BY DEF Enter, InBody
<1> QED BY <1>3, <1>4, <1>5, <1>6, <1>7

\* Leaving a block: through Return or because its transaction was over.
Left(t) ==
    LET u == block[t]
    IN  /\ u \in Uows /\ Keeps(u)
        /\ ~uow'[u].active
        /\ \A x \in Tasks : block'[x] = IF x = t THEN uow[u].enclosing ELSE block[x]
        /\ family' = family

\* A step that moves no block.
Stays ==
    /\ UNCHANGED <<block, family>>
    /\ \A u \in Uows :
          /\ uow'[u].active = uow[u].active
          /\ uow'[u].task = uow[u].task
          /\ uow'[u].enclosing = uow[u].enclosing

\* Leaving a block whose transaction is over.
LEMMA LeavesEffect ==
    ASSUME TypeOK, NEW t \in Tasks, Leaves(t)
    PROVE  /\ Left(t)
           /\ uow'[block[t]] = [uow[block[t]] EXCEPT !.active = FALSE]
           /\ uow[block[t]].finished
           /\ UNCHANGED <<ctx, session, durable, family, written, origin>>
<1> DEFINE u == block[t]
<1>1. /\ u \in Uows /\ uow[u].finished
      /\ uow' = [uow EXCEPT ![u].active = FALSE]
      /\ block' = [block EXCEPT ![t] = uow[u].enclosing]
      /\ UNCHANGED <<ctx, session, durable, family, written, origin>>
  BY DEF Leaves, Exit, TypeOK
<1>2. uow'[u] = [uow[u] EXCEPT !.active = FALSE]
  BY <1>1 DEF TypeOK
<1>3. Keeps(u) /\ ~uow'[u].active
  BY <1>1, <1>2 DEF Keeps, TypeOK, Uow
<1>4. \A x \in Tasks : block'[x] = IF x = t THEN uow[u].enclosing ELSE block[x]
  BY <1>1 DEF TypeOK
<1> QED BY <1>1, <1>2, <1>3, <1>4 DEF Left

\* When the innermost block ends, the task's chain begins one block further out.
LEMMA BlocksLeft ==
    ASSUME TypeOK, Blocks, NEW t \in Tasks, Left(t)
    PROVE  Blocks'
<1> DEFINE u == block[t]
           v == uow[u].enclosing
<1>1. /\ u \in Uows /\ v \in Uows \cup {None} /\ uow[u].active /\ uow[u].task = t
      /\ v # None => v # u /\ uow[v].active /\ uow[v].task = t
  BY Ranges DEF Left, Blocks
<1>2. \A w \in Uows \ {u} : uow'[w] = uow[w] /\ (uow[w].active => uow[w].enclosing # u)
  <2>1. \A w \in Uows \ {u} : uow'[w] = uow[w]
    BY DEF Left, Keeps
  <2>2. \A w \in Uows : uow[w].active => uow[w].enclosing # u
    <3>1. u # None
      BY <1>1
    <3> QED BY <3>1 DEF Blocks
  <2> QED BY <2>1, <2>2
<1>3. \A x \in Tasks : block'[x] # None =>
        uow'[block'[x]].active /\ uow'[block'[x]].task = x /\ Alive(x)'
  <2> SUFFICES ASSUME NEW x \in Tasks, block'[x] # None
               PROVE  uow'[block'[x]].active /\ uow'[block'[x]].task = x /\ Alive(x)'
    OBVIOUS
  <2>1. CASE x = t
    BY <1>1, <1>2, <2>1 DEF Left, Blocks, Alive
  <2>2. CASE x # t
    <3>1. block'[x] = block[x] /\ block[x] \in Uows /\ uow[block[x]].task = x
      BY <2>2, Ranges DEF Left, Blocks
    <3> QED BY <1>1, <1>2, <2>2, <3>1 DEF Left, Blocks, Alive
  <2> QED BY <2>1, <2>2
<1>4. ASSUME NEW w \in Uows, uow'[w].active, uow'[w].enclosing # None
      PROVE  /\ uow'[w].enclosing # w
             /\ uow'[uow'[w].enclosing].active
             /\ uow'[uow'[w].enclosing].task = uow'[w].task
             /\ \A x \in Tasks : block'[x] # uow'[w].enclosing
             /\ \A y \in Uows : uow'[y].active /\ y # w =>
                   uow'[y].enclosing # uow'[w].enclosing
  <2>1. w # u /\ uow'[w] = uow[w]
    BY <1>2, <1>4 DEF Left
  <2> DEFINE z == uow[w].enclosing
  <2>2. z \in Uows /\ z # u /\ z # w /\ z # v /\ uow'[z] = uow[z]
    BY <1>1, <1>2, <1>4, <2>1, Ranges DEF Blocks
  <2>3. \A x \in Tasks : block'[x] # z
    BY <1>4, <2>1, <2>2 DEF Left, Blocks
  <2>4. \A y \in Uows : uow'[y].active /\ y # w => uow'[y].enclosing # z
    BY <1>2, <1>4, <2>1, <2>2 DEF Left, Blocks
  <2> QED BY <1>4, <2>1, <2>2, <2>3, <2>4 DEF Blocks
<1> HIDE DEF u, v
<1> QED BY <1>3, <1>4 DEF Blocks

\* A step that moves no block keeps the chains.
LEMMA BlocksStay ==
    ASSUME TypeOK, Blocks, Stays
    PROVE  Blocks'
  BY Ranges DEF Stays, Blocks, Alive

\* The chains of blocks survive every step.
LEMMA BlocksStep == TypeOK /\ Blocks /\ Transactions /\ [Next]_vars => Blocks'
<1> SUFFICES ASSUME TypeOK, Blocks, Transactions, [Next]_vars PROVE Blocks'
  OBVIOUS
<1>1. CASE Quiet
  BY <1>1, BlocksStay DEF Quiet, Stays
<1>2. ASSUME NEW t \in Tasks, NEW u \in Uows, NEW s \in Sessions, Enter(t, u, s)
      PROVE  Blocks'
  BY <1>2, EnterEffect, Ranges DEF Blocks, Alive
<1>3. ASSUME NEW t \in Tasks, NEW k \in Children, Spawn(t, k)
      PROVE  Blocks'
  BY <1>3, Ranges DEF Spawn, Blocks, Alive, Tasks, InBody, TypeOK
<1>4. ASSUME NEW t \in Tasks, NEW ok \in BOOLEAN, NEW applied \in BOOLEAN,
             Ends(t, ok, applied)
      PROVE  Blocks'
  BY <1>4, EndTransactionEffect, BlocksStay DEF Ends, Keeps, Stays
<1>5. ASSUME NEW t \in Tasks, NEW s \in Sessions \cup {None}, NEW raised \in BOOLEAN,
             Returns(t, s, raised)
      PROVE  Blocks'
  <2> DEFINE u == block[t]
  <2>1. /\ u \in Uows /\ Keeps(u)
        /\ uow'[u].active = (uow[u].caller # "exit")
        /\ block' = IF uow[u].caller = "exit"
                    THEN [block EXCEPT ![t] = uow[u].enclosing] ELSE block
    BY <1>5, ReturnEffect DEF Returns
  <2>2. family' = family
    BY <1>5 DEF Returns, Close, NoSession
  <2>3. CASE uow[u].caller = "exit"
    <3>1. Left(t)
      BY <2>1, <2>2, <2>3 DEF Left, TypeOK
    <3> QED BY <3>1, BlocksLeft
  <2>4. CASE uow[u].caller # "exit"
    <3>1. uow[u].active
      BY <2>1 DEF Blocks
    <3>2. Stays
      BY <2>1, <2>2, <2>4, <3>1 DEF Keeps, Stays
    <3> QED BY <3>2, BlocksStay
  <2> QED BY <2>3, <2>4
<1>6. ASSUME NEW t \in Tasks, Leaves(t)
      PROVE  Blocks'
  BY <1>6, LeavesEffect, BlocksLeft
<1> QED BY <1>1, <1>2, <1>3, <1>4, <1>5, <1>6, StepKinds

-----------------------------------------------------------------------------
\* The end of a call: what is left of the session, and who still holds it.
LEMMA ReturnsEffect ==
    ASSUME TypeOK, Transactions, NEW t \in Tasks, NEW s \in Sessions \cup {None},
           NEW raised \in BOOLEAN, Returns(t, s, raised)
    PROVE  LET u == block[t]
           IN  /\ u \in Uows /\ Keeps(u)
               /\ s \in {None, uow[u].session}
               /\ uow'[u].session = s
               /\ ~Holds(u) /\ uow'[u].token = NoToken
               /\ uow'[u].step = "ready" /\ uow'[u].caller = "nobody"
               /\ \A x \in Sessions : session'[x].outcome = session[x].outcome
               /\ \A x \in Sessions : x # uow[u].session => session'[x] = session[x]
               /\ UNCHANGED <<ctx, durable, family, written, origin>>
<1> DEFINE u == block[t]
<1>1. /\ u \in Uows /\ Keeps(u)
      /\ uow'[u].session = s /\ uow'[u].token = uow[u].token
      /\ uow'[u].step = "ready" /\ uow'[u].caller = "nobody"
  BY ReturnEffect DEF Returns
<1>2. CASE Close(t) /\ s \in {None, uow[u].session}
  <2>1. uow[u].step = "close" /\ session' = [session EXCEPT ![uow[u].session].rows = {}]
    BY <1>2, CloseEffect
  <2>2. ~Holds(u)
    BY <1>1, <2>1 DEF Transactions
  <2>3. /\ \A x \in Sessions : session'[x].outcome = session[x].outcome
        /\ \A x \in Sessions : x # uow[u].session => session'[x] = session[x]
    BY <2>1 DEF TypeOK, Session
  <2>4. UNCHANGED <<ctx, durable, family, written, origin>>
    BY <1>2 DEF Close
  <2> QED BY <1>1, <1>2, <2>2, <2>3, <2>4 DEF Holds
<1>3. CASE NoSession(t) /\ s = None
  <2>1. uow[u].session = None
    BY <1>3 DEF NoSession
  <2>2. ~Holds(u)
    BY <1>1, <2>1 DEF Transactions
  <2>3. UNCHANGED <<ctx, session, durable, family, written, origin>>
    BY <1>3 DEF NoSession
  <2> QED BY <1>1, <1>3, <2>1, <2>2, <2>3 DEF Holds
<1> QED BY <1>2, <1>3 DEF Returns

\* A bound session goes on belonging to an open transaction of one block.
LEMMA TransactionsStep ==
    TypeOK /\ Blocks /\ Transactions /\ [Next]_vars => Transactions'
<1> SUFFICES ASSUME TypeOK, Blocks, Transactions, [Next]_vars PROVE Transactions'
  OBVIOUS
<1>1. CASE Quiet
  BY <1>1, Ranges DEF Quiet, Transactions, Holds
<1>2. ASSUME NEW t \in Tasks, NEW u \in Uows, NEW s \in Sessions, Enter(t, u, s)
      PROVE  Transactions'
  <2>1. \A w \in Uows : uow[w].txn # s
    BY <1>2, EnterEffect, Ranges DEF Transactions
  <2>2. /\ \A w \in Uows \ {u} : uow'[w] = uow[w]
        /\ uow'[u].active /\ ~uow'[u].finished /\ uow'[u].task = t
        /\ uow'[u].session = s /\ uow'[u].txn = s /\ uow'[u].step = "ready"
        /\ session'[s].outcome = "open"
        /\ \A x \in Sessions \ {s} : session'[x] = session[x]
    BY <1>2, EnterEffect
  <2> DEFINE P(w) ==
        /\ uow'[w].session # None => uow'[w].session = uow'[w].txn
        /\ Holds(w)' =>
              /\ uow'[w].active /\ ~uow'[w].finished /\ uow'[w].step # "close"
              /\ uow'[w].session # None /\ uow'[w].task \in Tasks
              /\ session'[uow'[w].session].outcome = "open"
        /\ uow'[w].txn # None =>
              /\ session'[uow'[w].txn].outcome # "unused"
              /\ \A x \in Uows : x # w => uow'[x].txn # uow'[w].txn
  <2>4. P(u)
    BY <2>1, <2>2
  <2>5. ASSUME NEW w \in Uows, w # u
        PROVE  P(w)
    <3>1. uow'[w] = uow[w] /\ uow[w].txn # s /\ uow[w].session # s
      BY <2>1, <2>2, <2>5 DEF Transactions
    <3> QED BY <2>2, <2>5, <3>1, Ranges DEF Transactions, Holds
  <2> QED BY <2>4, <2>5 DEF Transactions
<1>3. ASSUME NEW t \in Tasks, NEW k \in Children, Spawn(t, k)
      PROVE  Transactions'
  BY <1>3 DEF Spawn, Transactions, Holds
<1>4. ASSUME NEW t \in Tasks, NEW ok \in BOOLEAN, NEW applied \in BOOLEAN,
             Ends(t, ok, applied)
      PROVE  Transactions'
  <2> DEFINE u == block[t]
  <2>1. /\ u \in Uows /\ Keeps(u) /\ uow[u].session = uow[u].txn
        /\ uow'[u].session = uow[u].session /\ uow'[u].token = NoToken
        /\ \A x \in Sessions \ {uow[u].session} : session'[x] = session[x]
        /\ session[uow[u].session].outcome # "unused" =>
              session'[uow[u].session].outcome # "unused"
    BY <1>4, EndTransactionEffect, Ranges DEF Ends, Transactions
  <2> HIDE DEF u
  <2> QED BY <2>1, Ranges DEF Keeps, Transactions, Holds
<1>5. ASSUME NEW t \in Tasks, NEW s \in Sessions \cup {None}, NEW raised \in BOOLEAN,
             Returns(t, s, raised)
      PROVE  Transactions'
  BY <1>5, ReturnsEffect, Ranges DEF Keeps, Transactions, Holds
<1>6. ASSUME NEW t \in Tasks, Leaves(t)
      PROVE  Transactions'
  <2> DEFINE u == block[t]
  <2>1. /\ u \in Uows /\ Keeps(u) /\ uow[u].finished
        /\ uow'[u].session = uow[u].session /\ uow'[u].token = uow[u].token
        /\ uow'[u].txn = uow[u].txn
        /\ session' = session
    <3>1. Left(t) /\ session' = session /\ uow[u].finished
      BY <1>6, LeavesEffect
    <3>2. u \in Uows /\ uow'[u] = [uow[u] EXCEPT !.active = FALSE]
      BY <1>6, <3>1, LeavesEffect DEF Left
    <3>3. uow[u] \in Uow
      BY <3>2 DEF TypeOK
    <3> HIDE DEF u
    <3>4. /\ uow'[u].session = uow[u].session /\ uow'[u].token = uow[u].token
          /\ uow'[u].txn = uow[u].txn
      BY <3>2, <3>3 DEF Uow
    <3> QED BY <3>1, <3>2, <3>4 DEF Left, u
  <2> HIDE DEF u
  <2> QED BY <2>1, Ranges DEF Keeps, Transactions, Holds
<1> QED BY <1>1, <1>2, <1>3, <1>4, <1>5, <1>6, StepKinds

\* No step leaves an open transaction behind: the end of a block ends its own.
LEMMA NoOrphanStep ==
    TypeOK /\ Blocks /\ Transactions /\ NoOrphanTransaction /\ [Next]_vars
        => NoOrphanTransaction'
<1> SUFFICES ASSUME TypeOK, Blocks, Transactions, NoOrphanTransaction, [Next]_vars
             PROVE  NoOrphanTransaction'
  OBVIOUS
<1> USE DEF NoOrphanTransaction, Holds
<1>1. CASE Quiet
  BY <1>1 DEF Quiet
<1>2. ASSUME NEW t \in Tasks, NEW u \in Uows, NEW s \in Sessions, Enter(t, u, s)
      PROVE  NoOrphanTransaction'
  BY <1>2, EnterEffect, Ranges
<1>3. ASSUME NEW t \in Tasks, NEW k \in Children, Spawn(t, k)
      PROVE  NoOrphanTransaction'
  BY <1>3 DEF Spawn
<1>4. ASSUME NEW t \in Tasks, NEW ok \in BOOLEAN, NEW applied \in BOOLEAN,
             Ends(t, ok, applied)
      PROVE  NoOrphanTransaction'
  <2> DEFINE u == block[t]
  <2>1. /\ u \in Uows /\ Keeps(u)
        /\ \A x \in Sessions \ {uow[u].session} : session'[x] = session[x]
        /\ session'[uow[u].session].outcome # "open"
    BY <1>4, EndTransactionEffect DEF Ends
  <2> HIDE DEF u
  <2> QED BY <2>1 DEF Keeps
<1>5. ASSUME NEW t \in Tasks, NEW s \in Sessions \cup {None}, NEW raised \in BOOLEAN,
             Returns(t, s, raised)
      PROVE  NoOrphanTransaction'
  BY <1>5, ReturnsEffect DEF Keeps
<1>6. ASSUME NEW t \in Tasks, Leaves(t)
      PROVE  NoOrphanTransaction'
  <2> DEFINE u == block[t]
  <2>1. u \in Uows /\ Keeps(u) /\ uow[u].finished /\ session' = session
    BY <1>6, LeavesEffect DEF Left
  <2>2. ~Holds(u)
    BY <2>1 DEF Transactions
  <2> HIDE DEF u
  <2> QED BY <2>1, <2>2 DEF Keeps
<1> QED BY <1>1, <1>2, <1>3, <1>4, <1>5, <1>6, StepKinds

-----------------------------------------------------------------------------
\* A step after which no task refers to a session it did not refer to before.
LEMMA ReferencesShrink ==
    ASSUME References, family' = family,
           \A x \in Sessions :
              session[x].outcome # "unused" => session'[x].outcome # "unused",
           \A t \in Tasks, x \in Sessions : Refers(t, x)' => Refers(t, x)
    PROVE  References'
  BY DEF References, Alive

\* A step gives a task a reference only to a session of its own family: by
\* __aenter__ to a fresh one, by the copy of a context to its parent's.
LEMMA ReferencesStep ==
    TypeOK /\ Blocks /\ Transactions /\ References /\ [Next]_vars => References'
<1> SUFFICES ASSUME TypeOK, Blocks, Transactions, References, [Next]_vars
             PROVE  References'
  OBVIOUS
<1>1. CASE Quiet
  <2>1. \A t \in Tasks, x \in Sessions : Refers(t, x)' => Refers(t, x)
    BY <1>1 DEF Quiet, Refers
  <2> QED BY <1>1, <2>1, ReferencesShrink DEF Quiet
<1>2. ASSUME NEW t \in Tasks, NEW u \in Uows, NEW s \in Sessions, Enter(t, u, s)
      PROVE  References'
  <2>1. \A x \in Tasks : ~Refers(x, s)
    BY <1>2, EnterEffect DEF References
  <2>2. ASSUME NEW x \in Tasks, NEW y \in Sessions, Refers(x, y)'
        PROVE  Refers(x, y) \/ (x = t /\ y = s)
    <3>1. CASE ctx'[x] = y
      BY <1>2, <3>1, EnterEffect DEF Refers
    <3>2. CASE \E w \in Uows : uow'[w].task = x /\ uow'[w].token = y
      BY <1>2, <3>2, EnterEffect DEF Refers
    <3> QED BY <2>2, <3>1, <3>2 DEF Refers
  <2>3. /\ family' = family /\ Alive(t) /\ session'[s].outcome = "open"
        /\ \A x \in Sessions \ {s} : session'[x] = session[x]
    BY <1>2, EnterEffect
  <2> QED BY <2>1, <2>2, <2>3 DEF References, Alive
<1>3. ASSUME NEW t \in Tasks, NEW k \in Children, Spawn(t, k)
      PROVE  References'
  <2>1. /\ k \in Tasks /\ ~Alive(k) /\ Alive(t) /\ k # t
        /\ \A x \in Tasks : ctx'[x] = IF x = k THEN ctx[t] ELSE ctx[x]
        /\ \A x \in Tasks : family'[x] = IF x = k THEN family[t] ELSE family[x]
        /\ uow' = uow /\ session' = session
    BY <1>3 DEF Spawn, InBody, Tasks, TypeOK
  <2>2. \A x \in Sessions : ~Refers(k, x)
    BY <2>1 DEF References
  <2>3. \A x \in Tasks, y \in Sessions :
          Refers(x, y)' => IF x = k THEN ctx[t] = y ELSE Refers(x, y)
    BY <2>1, <2>2 DEF Refers
  <2>4. \A y \in Sessions : ctx[t] = y => Refers(t, y)
    BY DEF Refers
  <2> QED BY <2>1, <2>3, <2>4 DEF References, Alive
<1>4. ASSUME NEW t \in Tasks, NEW ok \in BOOLEAN, NEW applied \in BOOLEAN,
             Ends(t, ok, applied)
      PROVE  References'
  <2> DEFINE u == block[t]
  <2>1. /\ u \in Uows /\ Keeps(u) /\ uow'[u].token = NoToken
        /\ ctx' = IF uow[u].token = NoToken THEN ctx ELSE [ctx EXCEPT ![t] = uow[u].token]
        /\ family' = family
        /\ \A x \in Sessions \ {uow[u].session} : session'[x] = session[x]
        /\ session[uow[u].session].outcome # "unused" =>
              session'[uow[u].session].outcome # "unused"
    BY <1>4, EndTransactionEffect DEF Ends
  <2>2. uow[u].task = t
    BY <1>4, <2>1 DEF Blocks, Ends
  <2>3. \A x \in Tasks : ctx'[x] = ctx[x] \/ (x = t /\ ctx'[x] = uow[u].token)
    BY <2>1 DEF TypeOK
  <2> HIDE DEF u
  <2>4. \A x \in Tasks, y \in Sessions : Refers(x, y)' => Refers(x, y)
    BY <2>1, <2>2, <2>3 DEF Keeps, Refers
  <2> QED BY <2>1, <2>4, ReferencesShrink
<1>5. ASSUME NEW t \in Tasks, NEW s \in Sessions \cup {None}, NEW raised \in BOOLEAN,
             Returns(t, s, raised)
      PROVE  References'
  <2> DEFINE u == block[t]
  <2>1. /\ u \in Uows /\ Keeps(u) /\ uow'[u].token = NoToken /\ ctx' = ctx
        /\ family' = family
        /\ \A x \in Sessions : session'[x].outcome = session[x].outcome
    BY <1>5, ReturnsEffect
  <2> HIDE DEF u
  <2>2. \A x \in Tasks, y \in Sessions : Refers(x, y)' => Refers(x, y)
    BY <2>1 DEF Keeps, Refers
  <2> QED BY <2>1, <2>2, ReferencesShrink
<1>6. ASSUME NEW t \in Tasks, Leaves(t)
      PROVE  References'
  <2> DEFINE u == block[t]
  <2>1. u \in Uows /\ Keeps(u) /\ UNCHANGED <<ctx, session, family>>
    BY <1>6, LeavesEffect DEF Left
  <2>2. uow'[u] = [uow[u] EXCEPT !.active = FALSE]
    BY <1>6, LeavesEffect
  <2>3. uow'[u].token = uow[u].token
    BY <2>1, <2>2 DEF TypeOK, Uow
  <2> HIDE DEF u
  <2>4. \A x \in Tasks, y \in Sessions : Refers(x, y)' => Refers(x, y)
    BY <2>1, <2>3 DEF Keeps, Refers
  <2> QED BY <2>1, <2>4, ReferencesShrink
<1> QED BY <1>1, <1>2, <1>3, <1>4, <1>5, <1>6, StepKinds

-----------------------------------------------------------------------------
\* bind_session and unbind_session keep what is bound at each level of the
\* blocks, in whatever order their calls end.
LEMMA LevelsStep ==
    TypeOK /\ Blocks /\ Transactions /\ Levels /\ [Next]_vars => Levels'
<1> SUFFICES ASSUME TypeOK, Blocks, Transactions, [Next]_vars,
                    NEW level \in [Uows -> Sessions \cup {None}], IsLevel(level)
             PROVE  Levels'
  BY DEF Levels
<1>1. CASE Quiet
  <2>1. IsLevel(level)'
    BY <1>1 DEF Quiet, IsLevel, Holds
  <2> QED BY <2>1 DEF Levels
<1>2. ASSUME NEW t \in Tasks, NEW u \in Uows, NEW s \in Sessions, Enter(t, u, s)
      PROVE  Levels'
  <2> DEFINE new == [level EXCEPT ![u] = s]
  <2>1. new \in [Uows -> Sessions \cup {None}]
    OBVIOUS
  <2>2. /\ new[u] = s /\ \A w \in Uows \ {u} : new[w] = level[w]
    OBVIOUS
  <2> HIDE DEF new
  <2>3. /\ \A w \in Uows \ {u} : uow'[w] = uow[w]
        /\ uow'[u].enclosing = block[t] /\ uow'[u].session = s
        /\ uow'[u].token = ctx[t] /\ ~uow[u].active
        /\ \A x \in Tasks : ctx'[x] = IF x = t THEN s ELSE ctx[x]
        /\ \A x \in Tasks : block'[x] = IF x = t THEN u ELSE block[x]
    BY <1>2, EnterEffect
  <2>4. \A x \in Tasks : block'[x] # None => ctx'[x] = new[block'[x]]
    BY <2>2, <2>3, Ranges DEF IsLevel, Blocks
  <2>5. ASSUME NEW w \in Uows, uow'[w].active
        PROVE  /\ Holds(w)' => new[w] = uow'[w].session
               /\ uow'[w].enclosing # None =>
                     new[uow'[w].enclosing] = IF Holds(w)' THEN uow'[w].token ELSE new[w]
    <3>1. CASE w = u
      <4>1. block[t] # None => block[t] \in Uows /\ block[t] # u /\ ctx[t] = level[block[t]]
        BY <2>3, Ranges DEF IsLevel, Blocks
      <4>2. Holds(u)'
        BY <2>3, Ranges DEF Holds
      <4> QED BY <2>2, <2>3, <3>1, <4>1, <4>2
    <3>2. CASE w # u
      <4>1. uow'[w] = uow[w] /\ uow[w].active
        BY <2>3, <2>5, <3>2
      <4>2. uow[w].enclosing # None =>
               uow[w].enclosing \in Uows /\ uow[w].enclosing # u
        BY <2>3, <4>1, Ranges DEF Blocks
      <4> QED BY <2>2, <3>2, <4>1, <4>2 DEF IsLevel, Holds
    <3> QED BY <3>1, <3>2
  <2> QED BY <2>1, <2>4, <2>5 DEF Levels, IsLevel
<1>3. ASSUME NEW t \in Tasks, NEW k \in Children, Spawn(t, k)
      PROVE  Levels'
  <2>1. /\ block[k] = None
        /\ \A x \in Tasks : x # k => ctx'[x] = ctx[x]
        /\ UNCHANGED <<block, uow>>
    BY <1>3 DEF Spawn, TypeOK, Tasks, Blocks
  <2>2. IsLevel(level)'
    BY <2>1 DEF IsLevel, Holds
  <2> QED BY <2>2 DEF Levels
<1>4. ASSUME NEW t \in Tasks, NEW ok \in BOOLEAN, NEW applied \in BOOLEAN,
             Ends(t, ok, applied)
      PROVE  Levels'
  <2> DEFINE u == block[t]
             new == IF Holds(u) THEN [level EXCEPT ![u] = uow[u].token] ELSE level
  <2>1. /\ u \in Uows /\ Keeps(u) /\ uow'[u].token = NoToken
        /\ uow'[u].active = uow[u].active
        /\ ctx' = IF uow[u].token = NoToken THEN ctx ELSE [ctx EXCEPT ![t] = uow[u].token]
        /\ block' = block
    BY <1>4, EndTransactionEffect DEF Ends
  <2>2. new \in [Uows -> Sessions \cup {None}]
    BY <2>1, Ranges DEF Holds
  <2>3. /\ new[u] = IF Holds(u) THEN uow[u].token ELSE level[u]
        /\ \A w \in Uows \ {u} : new[w] = level[w]
    BY <2>1
  <2>4. /\ uow[u].task = t /\ uow[u].active
        /\ \A x \in Tasks : x # t => block[x] # u
        /\ \A w \in Uows : uow[w].active => uow[w].enclosing # u
    <3>1. u # None
      BY <2>1
    <3> QED BY <3>1 DEF Blocks
  <2>6. \A x \in Tasks : ctx'[x] = IF x = t /\ Holds(u) THEN uow[u].token ELSE ctx[x]
    BY <2>1 DEF TypeOK, Holds
  <2> HIDE DEF new
  <2>7. \A x \in Tasks : block'[x] # None => ctx'[x] = new[block'[x]]
    BY <2>1, <2>3, <2>4, <2>6, Ranges DEF IsLevel
  <2>8. ASSUME NEW w \in Uows, uow'[w].active
        PROVE  /\ Holds(w)' => new[w] = uow'[w].session
               /\ uow'[w].enclosing # None =>
                     new[uow'[w].enclosing] = IF Holds(w)' THEN uow'[w].token ELSE new[w]
    <3>1. CASE w = u
      <4>1. uow[u].enclosing # None =>
              /\ uow[u].enclosing \in Uows \ {u}
              /\ level[uow[u].enclosing] = IF Holds(u) THEN uow[u].token ELSE level[u]
        BY <2>1, <2>4, Ranges DEF IsLevel
      <4>2. uow'[u].enclosing = uow[u].enclosing
        BY <2>1 DEF Keeps
      <4>3. ~Holds(w)'
        BY <2>1, <3>1 DEF Holds
      <4> QED BY <2>3, <3>1, <4>1, <4>2, <4>3
    <3>2. CASE w # u
      <4>1. uow'[w] = uow[w] /\ uow[w].active
        BY <2>1, <2>8, <3>2 DEF Keeps
      <4>2. uow[w].enclosing # None => uow[w].enclosing \in Uows \ {u}
        BY <2>4, <4>1, Ranges
      <4> QED BY <2>3, <3>2, <4>1, <4>2 DEF IsLevel, Holds
    <3> QED BY <3>1, <3>2
  <2> QED BY <2>2, <2>7, <2>8 DEF Levels, IsLevel
<1>5. ASSUME NEW t \in Tasks, Left(t), ~Holds(block[t]), ctx' = ctx
      PROVE  Levels'
  <2> DEFINE u == block[t]
  <2>1. /\ \A w \in Uows \ {u} : uow'[w] = uow[w]
        /\ u \in Uows /\ ~uow'[u].active /\ uow[u].active
        /\ \A x \in Tasks : block'[x] = IF x = t THEN uow[u].enclosing ELSE block[x]
        /\ ~Holds(u)
    BY <1>5 DEF Left, Keeps, Blocks
  <2>2. \A x \in Tasks : block'[x] # None => ctx'[x] = level[block'[x]]
    BY <1>5, <2>1 DEF IsLevel
  <2>3. \A w \in Uows : uow'[w].active => w # u /\ uow'[w] = uow[w]
    BY <2>1
  <2>4. IsLevel(level)'
    BY <2>2, <2>3 DEF IsLevel, Holds
  <2> QED BY <2>4 DEF Levels
<1>6. ASSUME NEW t \in Tasks, NEW s \in Sessions \cup {None}, NEW raised \in BOOLEAN,
             Returns(t, s, raised)
      PROVE  Levels'
  <2> DEFINE u == block[t]
  <2>1. /\ u \in Uows /\ Keeps(u) /\ ~Holds(u) /\ uow'[u].token = NoToken
        /\ ctx' = ctx /\ family' = family
    BY <1>6, ReturnsEffect
  <2>2. /\ uow'[u].active = (uow[u].caller # "exit")
        /\ block' = IF uow[u].caller = "exit"
                    THEN [block EXCEPT ![t] = uow[u].enclosing] ELSE block
    BY <1>6, ReturnEffect DEF Returns
  <2>3. CASE uow[u].caller = "exit"
    <3>1. Left(t)
      BY <2>1, <2>2, <2>3 DEF Left, TypeOK
    <3> QED BY <1>5, <2>1, <3>1
  <2>4. CASE uow[u].caller # "exit"
    <3>1. uow[u].active /\ block' = block
      BY <2>1, <2>2, <2>4 DEF Blocks
    <3>2. \A x \in Tasks : block'[x] # None => ctx'[x] = level[block'[x]]
      BY <2>1, <3>1 DEF IsLevel
    <3>3. \A w \in Uows : uow'[w].active =>
            /\ uow[w].active /\ Holds(w)' = Holds(w)
            /\ uow'[w].enclosing = uow[w].enclosing
            /\ Holds(w) => uow'[w] = uow[w]
      <4> HIDE DEF u
      <4> QED BY <2>1, <3>1 DEF Holds, Keeps
    <3>4. IsLevel(level)'
      BY <3>2, <3>3 DEF IsLevel
    <3> QED BY <3>4 DEF Levels
  <2> QED BY <2>3, <2>4
<1>7. ASSUME NEW t \in Tasks, Leaves(t)
      PROVE  Levels'
  <2>1. Left(t) /\ ctx' = ctx /\ uow[block[t]].finished /\ block[t] \in Uows
    BY <1>7, LeavesEffect DEF Left
  <2>2. ~Holds(block[t])
    BY <2>1 DEF Transactions
  <2> QED BY <1>5, <2>1, <2>2
<1> QED BY <1>1, <1>2, <1>3, <1>4, <1>6, <1>7, StepKinds

-----------------------------------------------------------------------------
\* The session of the innermost block, while it is open, is what its task sees.
LEMMA InnermostBound ==
    ASSUME TypeOK, Blocks, Levels, NEW t \in Tasks, block[t] # None, Holds(block[t])
    PROVE  ctx[t] = uow[block[t]].session
<1>1. PICK level \in [Uows -> Sessions \cup {None}] : IsLevel(level)
  BY DEF Levels
<1>2. block[t] \in Uows /\ uow[block[t]].active
  BY Ranges DEF Blocks
<1> QED BY <1>1, <1>2 DEF IsLevel

\* A step on an object whose session is not bound disturbs no stack.
LEMMA RootStacksStay ==
    ASSUME RootStacks, ctx' = ctx, NEW u \in Uows, Keeps(u), ~Holds(u),
           uow'[u].token = NoToken
    PROVE  RootStacks'
<1>1. \A w \in Uows : (Holds(w) \/ Holds(w)') => w # u /\ uow'[w] = uow[w]
  BY DEF Holds, Keeps
<1>2. \A w \in Uows, t \in Roots, s \in Sessions \cup {None} :
        OpenBlock(w, t, s) => OpenBlock(w, t, s)'
  BY <1>1 DEF OpenBlock, Holds
<1>3. ASSUME NEW t \in Roots
      PROVE  (ctx[t] # None => \E w \in Uows : OpenBlock(w, t, ctx[t]))'
  BY <1>1 DEF RootStacks, OpenBlock, Holds
<1>4. ASSUME NEW t \in Roots, NEW w \in Uows, Holds(w)', uow'[w].task = t,
             uow'[w].token # None
      PROVE  /\ (\E x \in Uows : OpenBlock(x, t, uow[w].token))'
             /\ uow'[w].token # ctx'[t]
             /\ \A x \in Uows : Holds(x)' /\ uow'[x].task = t /\ x # w =>
                    uow'[x].token # uow'[w].token
  <2>1. uow'[w] = uow[w] /\ Holds(w)
    BY <1>1, <1>4 DEF Holds
  <2>2. PICK x \in Uows : OpenBlock(x, t, uow[w].token)
    BY <1>4, <2>1 DEF RootStacks
  <2>3. OpenBlock(x, t, uow[w].token)'
    BY <1>1, <2>1, <2>2 DEF OpenBlock, Holds
  <2>4. uow'[w].token # ctx'[t]
    BY <1>4, <2>1 DEF RootStacks
  <2>5. \A y \in Uows : Holds(y)' /\ uow'[y].task = t /\ y # w =>
                    uow'[y].token # uow'[w].token
    <3> SUFFICES ASSUME NEW y \in Uows, Holds(y)', uow'[y].task = t, y # w
                 PROVE  uow'[y].token # uow'[w].token
      OBVIOUS
    <3>1. uow'[y] = uow[y] /\ Holds(y)
      BY <1>1 DEF Holds
    <3> QED BY <1>4, <2>1, <3>1 DEF RootStacks
  <2> QED BY <2>3, <2>4, <2>5
<1> QED BY <1>3, <1>4 DEF RootStacks

\* What a root task has bound, and will restore, stays its own.
LEMMA RootStacksStep ==
    TypeOK /\ Blocks /\ Transactions /\ References /\ Levels /\ RootStacks /\ [Next]_vars
        => RootStacks'
<1> SUFFICES ASSUME TypeOK, Blocks, Transactions, References, Levels, RootStacks,
                    [Next]_vars
             PROVE  RootStacks'
  OBVIOUS
<1>1. CASE Quiet
  BY <1>1 DEF Quiet, RootStacks, OpenBlock, Holds
<1>2. ASSUME NEW t \in Tasks, NEW u \in Uows, NEW s \in Sessions, Enter(t, u, s)
      PROVE  RootStacks'
  <2>1. /\ \A w \in Uows \ {u} : uow'[w] = uow[w]
        /\ uow'[u].active /\ uow'[u].task = t
        /\ uow'[u].session = s /\ uow'[u].token = ctx[t] /\ ~uow[u].active
        /\ \A x \in Tasks : ctx'[x] = IF x = t THEN s ELSE ctx[x]
        /\ session[s].outcome = "unused"
    BY <1>2, EnterEffect
  <2>2. Holds(u)' /\ ~Holds(u)
    BY <2>1, Ranges DEF Holds, Transactions
  <2>3. \A w \in Uows, x \in Tasks, y \in Sessions : OpenBlock(w, x, y) =>
          w # u /\ OpenBlock(w, x, y)'
    BY <2>1 DEF OpenBlock, Holds
  <2>4. \A x \in Tasks : ~Refers(x, s)
    BY <2>1 DEF References
  <2>5. \A w \in Uows : Holds(w) => w # u /\ uow[w].task \in Tasks /\ uow[w].token # s
    BY <2>2, <2>4 DEF Transactions, Refers
  <2>6. ASSUME NEW x \in Roots
        PROVE  (ctx[x] # None => \E w \in Uows : OpenBlock(w, x, ctx[x]))'
    <3>1. CASE x = t
      BY <2>1, <2>2, <3>1 DEF OpenBlock
    <3>2. CASE x # t
      BY <2>1, <2>3, <3>2, Ranges DEF RootStacks, Tasks
    <3> QED BY <3>1, <3>2
  <2>7. ASSUME NEW x \in Roots, NEW w \in Uows, Holds(w)', uow'[w].task = x,
               uow'[w].token # None
        PROVE  /\ (\E y \in Uows : OpenBlock(y, x, uow[w].token))'
               /\ uow'[w].token # ctx'[x]
               /\ \A y \in Uows : Holds(y)' /\ uow'[y].task = x /\ y # w =>
                      uow'[y].token # uow'[w].token
    <3>1. \A y \in Uows \ {u} : uow'[y] = uow[y] /\ Holds(y)' = Holds(y)
      BY <2>1 DEF Holds
    <3>2. CASE w = u
      <4>1. x = t /\ ctx[t] \in Sessions /\ ctx[t] # s /\ uow'[w].token = ctx[t]
        BY <2>1, <2>4, <2>7, <3>2, Ranges DEF Refers
      <4>2. PICK y \in Uows : OpenBlock(y, t, ctx[t])
        BY <4>1 DEF RootStacks
      <4>3. OpenBlock(y, t, uow[w].token)'
        BY <2>1, <2>3, <3>2, <4>1, <4>2 DEF OpenBlock
      <4>4. \A z \in Uows : Holds(z)' /\ uow'[z].task = t /\ z # u => uow'[z].token # ctx[t]
        BY <3>1, <4>1 DEF RootStacks
      <4> QED BY <2>1, <3>2, <4>1, <4>3, <4>4
    <3>3. CASE w # u
      <4>1. /\ uow'[w] = uow[w] /\ Holds(w) /\ uow[w].task = x
            /\ uow[w].token \in Sessions /\ uow[w].token # s
            /\ uow[w].token # ctx[x]
        BY <2>1, <2>5, <2>7, <3>1, <3>3, Ranges DEF RootStacks, Holds
      <4>2. PICK y \in Uows : OpenBlock(y, x, uow[w].token)
        BY <4>1 DEF RootStacks
      <4>3. OpenBlock(y, x, uow[w].token)'
        BY <2>1, <2>3, <4>1, <4>2 DEF OpenBlock, Tasks
      <4>4. uow'[w].token # ctx'[x]
        BY <2>1, <4>1 DEF Tasks
      <4>5. \A z \in Uows : Holds(z)' /\ uow'[z].task = x /\ z # w =>
              uow'[z].token # uow'[w].token
        <5> SUFFICES ASSUME NEW z \in Uows, Holds(z)', uow'[z].task = x, z # w
                     PROVE  uow'[z].token # uow'[w].token
          OBVIOUS
        <5>1. CASE z = u
          BY <2>1, <4>1, <5>1
        <5>2. CASE z # u
          BY <3>1, <4>1, <5>2 DEF RootStacks
        <5> QED BY <5>1, <5>2
      <4> QED BY <4>3, <4>4, <4>5
    <3> QED BY <3>2, <3>3
  <2> QED BY <2>6, <2>7 DEF RootStacks
<1>3. ASSUME NEW t \in Tasks, NEW k \in Children, Spawn(t, k)
      PROVE  RootStacks'
  <2>1. uow' = uow /\ \A x \in Roots : ctx'[x] = ctx[x]
    BY <1>3 DEF Spawn, TypeOK, Tasks
  <2> QED BY <2>1 DEF RootStacks, OpenBlock, Holds
<1>4. ASSUME NEW t \in Tasks, NEW ok \in BOOLEAN, NEW applied \in BOOLEAN,
             Ends(t, ok, applied)
      PROVE  RootStacks'
  <2> DEFINE u == block[t]
  <2>1. /\ u \in Uows /\ Keeps(u) /\ uow'[u].token = NoToken
        /\ ctx' = IF uow[u].token = NoToken THEN ctx ELSE [ctx EXCEPT ![t] = uow[u].token]
        /\ u # None
    BY <1>4, EndTransactionEffect DEF Ends
  <2>2. uow[u].task = t
    BY <2>1 DEF Blocks
  <2>3. CASE ~Holds(u)
    <3>1. ctx' = ctx
      BY <2>1, <2>3 DEF Holds
    <3> HIDE DEF u
    <3> QED BY <2>1, <2>3, <3>1, RootStacksStay
  <2>4. CASE Holds(u)
    <3>1. ctx[t] = uow[u].session
      BY <2>1, <2>4, InnermostBound
    <3>2. \A x \in Tasks : ctx'[x] = IF x = t THEN uow[u].token ELSE ctx[x]
      BY <2>1, <2>4 DEF TypeOK, Holds
    <3>3. /\ \A w \in Uows \ {u} : uow'[w] = uow[w] /\ Holds(w)' = Holds(w)
          /\ \A w \in Uows : Holds(w)' => w # u /\ Holds(w) /\ uow'[w] = uow[w]
      <4> HIDE DEF u
      <4> QED BY <2>1 DEF Keeps, Holds
    <3> HIDE DEF u
    <3>4. \A w \in Uows, x \in Tasks, y \in Sessions :
            OpenBlock(w, x, y) /\ (x # t \/ y # ctx[t]) => OpenBlock(w, x, y)'
      BY <2>2, <3>1, <3>3 DEF OpenBlock, Holds
    <3>5. ASSUME NEW x \in Roots
          PROVE  (ctx[x] # None => \E w \in Uows : OpenBlock(w, x, ctx[x]))'
      <4> SUFFICES ASSUME ctx'[x] # None
                   PROVE  \E w \in Uows : OpenBlock(w, x, ctx[x])'
        BY <2>4
      <4>1. CASE x = t
        <5>1. /\ ctx'[x] = uow[u].token /\ uow[u].token \in Sessions
              /\ uow[u].token # ctx[t]
          BY <2>1, <2>2, <2>4, <3>2, <4>1, Ranges DEF RootStacks, Holds, Tasks
        <5>2. PICK w \in Uows : OpenBlock(w, t, uow[u].token)
          BY <2>1, <2>2, <2>4, <4>1, <5>1 DEF RootStacks
        <5>3. OpenBlock(w, t, uow[u].token) /\ OpenBlock(w, x, ctx[x])'
          BY <3>3, <4>1, <5>1, <5>2, <3>1 DEF OpenBlock, Holds
        <5> QED BY <5>3
      <4>2. CASE x # t
        <5>1. ctx'[x] = ctx[x] /\ ctx[x] \in Sessions
          BY <3>2, <4>2, Ranges DEF Tasks
        <5>2. PICK w \in Uows : OpenBlock(w, x, ctx[x])
          BY <5>1 DEF RootStacks
        <5>3. OpenBlock(w, x, ctx[x])'
          BY <2>2, <3>3, <4>2, <5>1, <5>2 DEF OpenBlock, Holds
        <5> QED BY <5>3
      <4> QED BY <4>1, <4>2
    <3>6. ASSUME NEW x \in Roots, NEW w \in Uows, Holds(w)', uow'[w].task = x,
                 uow'[w].token # None
          PROVE  /\ (\E y \in Uows : OpenBlock(y, x, uow[w].token))'
                 /\ uow'[w].token # ctx'[x]
                 /\ \A y \in Uows : Holds(y)' /\ uow'[y].task = x /\ y # w =>
                        uow'[y].token # uow'[w].token
      <4>1. /\ w # u /\ uow'[w] = uow[w] /\ Holds(w) /\ uow[w].task = x
            /\ uow[w].token \in Sessions /\ uow[w].token # ctx[x]
        BY <3>3, <3>6, Ranges DEF RootStacks, Holds
      <4>2. PICK y \in Uows : OpenBlock(y, x, uow[w].token)
        BY <4>1 DEF RootStacks
      <4>3. y # u
        BY <2>2, <3>1, <4>1, <4>2 DEF OpenBlock
      <4>4. OpenBlock(y, x, uow[w].token)'
        BY <3>3, <4>1, <4>2, <4>3 DEF OpenBlock
      <4>5. uow'[w].token # ctx'[x]
        <5>1. CASE x = t
          BY <2>1, <2>2, <2>4, <3>2, <4>1, <5>1 DEF RootStacks, Tasks
        <5>2. CASE x # t
          BY <3>2, <4>1, <5>2 DEF Tasks
        <5> QED BY <5>1, <5>2
      <4>6. \A z \in Uows : Holds(z)' /\ uow'[z].task = x /\ z # w =>
              uow'[z].token # uow'[w].token
        <5> SUFFICES ASSUME NEW z \in Uows, Holds(z)', uow'[z].task = x, z # w
                     PROVE  uow'[z].token # uow'[w].token
          OBVIOUS
        <5>1. Holds(z) /\ uow'[z] = uow[z]
          BY <3>3
        <5> QED BY <3>6, <4>1, <5>1 DEF RootStacks
      <4> QED BY <4>4, <4>5, <4>6
    <3> QED BY <3>5, <3>6 DEF RootStacks
  <2> QED BY <2>3, <2>4
<1>5. ASSUME NEW t \in Tasks, NEW s \in Sessions \cup {None}, NEW raised \in BOOLEAN,
             Returns(t, s, raised)
      PROVE  RootStacks'
  <2> DEFINE u == block[t]
  <2>1. /\ u \in Uows /\ Keeps(u) /\ ~Holds(u) /\ uow'[u].token = NoToken /\ ctx' = ctx
    BY <1>5, ReturnsEffect
  <2> HIDE DEF u
  <2> QED BY <2>1, RootStacksStay
<1>6. ASSUME NEW t \in Tasks, Leaves(t)
      PROVE  RootStacks'
  <2> DEFINE u == block[t]
  <2>1. /\ u \in Uows /\ Keeps(u) /\ uow[u].finished /\ ctx' = ctx
        /\ uow'[u] = [uow[u] EXCEPT !.active = FALSE]
    BY <1>6, LeavesEffect DEF Left
  <2>2. ~Holds(u)
    BY <2>1 DEF Transactions
  <2>3. uow'[u].token = NoToken
    BY <2>1, <2>2 DEF Holds, TypeOK, Uow
  <2> HIDE DEF u
  <2> QED BY <2>1, <2>2, <2>3, RootStacksStay
<1> QED BY <1>1, <1>2, <1>3, <1>4, <1>5, <1>6, StepKinds

-----------------------------------------------------------------------------
\* What the calls of a block's body do to the object and to its session.
LEMMA RegisterEffect ==
    ASSUME TypeOK, NEW t \in Tasks, NEW u \in Uows, NEW e \in Events,
           RegisterEvent(t, u, e)
    PROVE  /\ \A w \in Uows \ {u} : uow'[w] = uow[w]
           /\ uow'[u].session = uow[u].session /\ uow'[u].token = uow[u].token
           /\ uow'[u].step = uow[u].step /\ uow'[u].caller = uow[u].caller
           /\ uow'[u].ok = uow[u].ok /\ uow'[u].txn = uow[u].txn
           /\ uow'[u].committed = uow[u].committed
           /\ uow'[u].saving = uow[u].saving
           /\ uow'[u].pending = uow[u].pending \cup {e}
           /\ origin[e] = NoToken
           /\ \A x \in Events : origin'[x] = IF x = e THEN Recipient(u) ELSE origin[x]
           /\ UNCHANGED <<session, durable>>
<1>1. /\ uow' = [uow EXCEPT ![u].pending = uow[u].pending \cup {e}]
      /\ origin' = [origin EXCEPT ![e] = Recipient(u)]
      /\ origin[e] = NoToken
      /\ UNCHANGED <<session, durable>>
  BY DEF RegisterEvent
<1>2. uow'[u] = [uow[u] EXCEPT !.pending = uow[u].pending \cup {e}]
  BY <1>1 DEF TypeOK
<1>3. /\ uow'[u].session = uow[u].session /\ uow'[u].token = uow[u].token
      /\ uow'[u].step = uow[u].step /\ uow'[u].caller = uow[u].caller
      /\ uow'[u].ok = uow[u].ok /\ uow'[u].txn = uow[u].txn
      /\ uow'[u].committed = uow[u].committed
      /\ uow'[u].saving = uow[u].saving
      /\ uow'[u].pending = uow[u].pending \cup {e}
  BY <1>2 DEF TypeOK, Uow
<1>4. /\ \A w \in Uows \ {u} : uow'[w] = uow[w]
      /\ \A x \in Events : origin'[x] = IF x = e THEN Recipient(u) ELSE origin[x]
  BY <1>1 DEF TypeOK
<1> QED BY <1>1, <1>2, <1>3, <1>4

\* A call on t's block suspends at step for the first time, or goes on there.
Suspends(t, step) ==
    LET u == block[t]
    IN  /\ u \in Uows /\ \A w \in Uows \ {u} : uow'[w] = uow[w]
        /\ uow'[u].step = step
        /\ uow'[u].txn = uow[u].txn
        /\ uow'[u].committed = uow[u].committed
        /\ origin' = origin

\* The fields after a step inside commit(), rollback() or __aexit__.
LEMMA CallEffect ==
    ASSUME TypeOK, NEW t \in Tasks
    PROVE  LET u == block[t]
           IN  /\ CommitCall(t) =>
                    /\ Suspends(t, IF uow[u].pending = {} THEN "commit" ELSE "flush")
                    /\ uow[u].step = "ready" /\ uow'[u].caller = "commit"
                    /\ uow'[u].pending = uow[u].pending
                    /\ uow'[u].saving = uow[u].pending
                    /\ LateCalls \/ Holds(u)
                    /\ UNCHANGED <<session, durable>>
               /\ FlushFails(t) =>
                    /\ Suspends(t, "rollback")
                    /\ uow[u].step = "flush" /\ uow'[u].caller = uow[u].caller
                    /\ uow'[u].pending = uow[u].pending
                    /\ UNCHANGED <<session, durable>>
               /\ RollbackCall(t) \/ (Exit(t) /\ ~uow[u].finished) =>
                    /\ Suspends(t, "rollback")
                    /\ uow[u].step = "ready" /\ uow'[u].caller # "commit"
                    /\ uow'[u].pending = uow[u].pending
                    /\ UNCHANGED <<session, durable>>
               /\ Flush(t) =>
                    /\ Suspends(t, "commit")
                    /\ uow[u].step = "flush" /\ uow'[u].caller = uow[u].caller
                    /\ uow'[u].pending = {}
                    /\ Save(t, uow[u].saving)
<1> USE DEF TypeOK, Uow, Suspends
<1> DEFINE u == block[t]
<1>1. ASSUME CommitCall(t)
      PROVE  /\ Suspends(t, IF uow[u].pending = {} THEN "commit" ELSE "flush")
             /\ uow[u].step = "ready" /\ uow'[u].caller = "commit"
             /\ uow'[u].pending = uow[u].pending
             /\ uow'[u].saving = uow[u].pending
             /\ LateCalls \/ Holds(u)
             /\ UNCHANGED <<session, durable>>
  BY <1>1 DEF CommitCall, MayCall, InBody, Holds
<1>2. ASSUME FlushFails(t)
      PROVE  /\ Suspends(t, "rollback")
             /\ uow[u].step = "flush" /\ uow'[u].caller = uow[u].caller
             /\ uow'[u].pending = uow[u].pending
             /\ UNCHANGED <<session, durable>>
  BY <1>2 DEF FlushFails, At
<1>3. ASSUME RollbackCall(t)
      PROVE  /\ Suspends(t, "rollback")
             /\ uow[u].step = "ready" /\ uow'[u].caller # "commit"
             /\ uow'[u].pending = uow[u].pending
             /\ UNCHANGED <<session, durable>>
  BY <1>3 DEF RollbackCall, InBody
<1>4. ASSUME Exit(t), ~uow[u].finished
      PROVE  /\ Suspends(t, "rollback")
             /\ uow[u].step = "ready" /\ uow'[u].caller # "commit"
             /\ uow'[u].pending = uow[u].pending
             /\ UNCHANGED <<session, durable>>
  <2>1. /\ u \in Uows /\ uow[u].step = "ready"
        /\ uow' = [uow EXCEPT ![u] = [uow[u] EXCEPT !.caller = "exit", !.step = "rollback"]]
        /\ UNCHANGED <<session, durable, origin>>
    BY <1>4 DEF Exit, InBody
  <2> QED BY <2>1
<1>5. ASSUME Flush(t)
      PROVE  /\ Suspends(t, "commit")
             /\ uow[u].step = "flush" /\ uow'[u].caller = uow[u].caller
             /\ uow'[u].pending = {}
             /\ Save(t, uow[u].saving)
  BY <1>5 DEF Flush, At
<1> QED BY <1>1, <1>2, <1>3, <1>4, <1>5

\* save() loses no row, and with a session bound keeps the events there.
LEMMA SaveEffect ==
    ASSUME TypeOK, NEW t \in Tasks, NEW events \in SUBSET Events, Save(t, events)
    PROVE  /\ \A s \in Sessions :
                /\ session'[s].outcome = session[s].outcome
                /\ session[s].rows \subseteq session'[s].rows
           /\ durable \subseteq durable'
           /\ ctx[t] # None => events \subseteq session'[ctx[t]].rows /\ durable' = durable
<1>1. CASE ctx[t] = None
  BY <1>1 DEF Save
<1>2. CASE ctx[t] # None
  <2>1. ctx[t] \in Sessions
    BY <1>2, Ranges
  <2>2. /\ durable' = durable
        /\ session' = [session EXCEPT ![ctx[t]].rows = session[ctx[t]].rows \cup events]
    BY <1>2 DEF Save
  <2>3. session'[ctx[t]] = [session[ctx[t]] EXCEPT !.rows = session[ctx[t]].rows \cup events]
    BY <2>1, <2>2 DEF TypeOK
  <2>4. \A s \in Sessions \ {ctx[t]} : session'[s] = session[s]
    BY <2>2 DEF TypeOK
  <2>5. /\ session'[ctx[t]].outcome = session[ctx[t]].outcome
        /\ session'[ctx[t]].rows = session[ctx[t]].rows \cup events
    BY <2>1, <2>3 DEF TypeOK, Session
  <2> QED BY <2>1, <2>2, <2>4, <2>5
<1> QED BY <1>1, <1>2

\* A row goes to the bound session and nowhere else.
LEMMA WriteEffect ==
    ASSUME TypeOK, NEW t \in Tasks, NEW w \in Writes, WriteBound(t, w)
    PROVE  /\ \A s \in Sessions :
                /\ session'[s].outcome = session[s].outcome
                /\ session'[s].rows = IF s = ctx[t] THEN session[s].rows \cup {w}
                                      ELSE session[s].rows
           /\ UNCHANGED <<uow, origin, durable>>
<1>1. /\ ctx[t] \in Sessions
      /\ session' = [session EXCEPT ![ctx[t]].rows = session[ctx[t]].rows \cup {w}]
      /\ UNCHANGED <<uow, origin, durable>>
  BY Ranges DEF WriteBound
<1>2. session'[ctx[t]] = [session[ctx[t]] EXCEPT !.rows = session[ctx[t]].rows \cup {w}]
  BY <1>1 DEF TypeOK
<1>3. \A s \in Sessions \ {ctx[t]} : session'[s] = session[s]
  BY <1>1 DEF TypeOK
<1>4. /\ session'[ctx[t]].outcome = session[ctx[t]].outcome
      /\ session'[ctx[t]].rows = session[ctx[t]].rows \cup {w}
  BY <1>1, <1>2 DEF TypeOK, Session
<1> QED BY <1>1, <1>3, <1>4

\* save() changes the rows of the session that is bound, and no others.
LEMMA SaveRows ==
    ASSUME TypeOK, NEW t \in Tasks, NEW events, ctx[t] # None, Save(t, events)
    PROVE  /\ durable' = durable
           /\ \A s \in Sessions :
                /\ session'[s].outcome = session[s].outcome
                /\ session'[s].rows = IF s = ctx[t] THEN session[s].rows \cup events
                                      ELSE session[s].rows
<1>1. /\ ctx[t] \in Sessions /\ durable' = durable
      /\ session' = [session EXCEPT ![ctx[t]].rows = session[ctx[t]].rows \cup events]
  BY Ranges DEF Save
<1>2. session'[ctx[t]] = [session[ctx[t]] EXCEPT !.rows = session[ctx[t]].rows \cup events]
  BY <1>1 DEF TypeOK
<1>3. \A s \in Sessions \ {ctx[t]} : session'[s] = session[s]
  BY <1>1 DEF TypeOK
<1>4. /\ session'[ctx[t]].outcome = session[ctx[t]].outcome
      /\ session'[ctx[t]].rows = session[ctx[t]].rows \cup events
  BY <1>1, <1>2 DEF TypeOK, Session
<1>5. ASSUME NEW s \in Sessions, s # ctx[t]
      PROVE  session'[s].outcome = session[s].outcome /\ session'[s].rows = session[s].rows
  BY <1>3, <1>5
<1> HIDE DEF TypeOK
<1> QED BY <1>1, <1>4, <1>5

\* The end of a call empties the session the object still has.
LEMMA ReturnsRows ==
    ASSUME TypeOK, Transactions, NEW t \in Tasks, NEW s \in Sessions \cup {None},
           NEW raised \in BOOLEAN, Returns(t, s, raised)
    PROVE  \A x \in Sessions :
              session'[x].rows = session[x].rows \/ session'[x].rows = {}
<1>1. CASE Close(t)
  <2>1. session' = [session EXCEPT ![uow[block[t]].session].rows = {}]
    BY <1>1, CloseEffect
  <2>2. ASSUME NEW x \in Sessions, x = uow[block[t]].session
        PROVE  session'[x].rows = {}
    <3>1. session'[x] = [session[x] EXCEPT !.rows = {}]
      BY <2>1, <2>2 DEF TypeOK
    <3> QED BY <3>1 DEF TypeOK, Session
  <2> QED BY <2>2, ReturnsEffect
<1>2. CASE NoSession(t)
  BY <1>2 DEF NoSession
<1> QED BY <1>1, <1>2 DEF Returns

\* What Calls says of one object.
InCall(u) ==
    /\ uow[u].step = "ready" => uow[u].caller # "commit"
    /\ uow[u].step \in {"flush", "commit"} => uow[u].caller = "commit"

\* commit() alone gets to the outbox insert and to the session's commit.
LEMMA CallsStep == TypeOK /\ Transactions /\ Calls /\ [Next]_vars => Calls'
<1> SUFFICES ASSUME TypeOK, Transactions, Calls, [Next]_vars PROVE Calls'
  OBVIOUS
<1>1. ASSUME NEW u \in Uows, \A w \in Uows \ {u} : uow'[w] = uow[w], InCall(u)'
      PROVE  Calls'
  BY <1>1 DEF Calls, InCall
<1>2. ASSUME uow' = uow
      PROVE  Calls'
  BY <1>2 DEF Calls
<1>3. ASSUME NEW t \in Tasks, NEW u \in Uows, NEW s \in Sessions, Enter(t, u, s)
      PROVE  Calls'
  BY <1>1, <1>3, EnterEffect DEF InCall
<1>4. ASSUME NEW t \in Tasks, NEW u \in Uows, NEW e \in Events, RegisterEvent(t, u, e)
      PROVE  Calls'
  <2>1. /\ \A w \in Uows \ {u} : uow'[w] = uow[w]
        /\ uow'[u].step = uow[u].step /\ uow'[u].caller = uow[u].caller
    BY <1>4, RegisterEffect
  <2> QED BY <1>1, <2>1 DEF InCall, Calls
<1>5. ASSUME NEW t \in Tasks,
             CommitCall(t) \/ Flush(t) \/ FlushFails(t) \/ RollbackCall(t)
               \/ (Exit(t) /\ ~uow[block[t]].finished)
      PROVE  Calls'
  <2>1. PICK u \in Uows : u = block[t]
    BY <1>5, CallEffect DEF Suspends
  <2>2. /\ \A w \in Uows \ {u} : uow'[w] = uow[w]
        /\ InCall(u)'
    BY <1>5, <2>1, CallEffect DEF Suspends, InCall, Calls
  <2> QED BY <1>1, <2>2
<1>6. ASSUME NEW t \in Tasks, NEW ok \in BOOLEAN, NEW applied \in BOOLEAN,
             Ends(t, ok, applied)
      PROVE  Calls'
  <2>1. PICK u \in Uows : u = block[t]
    BY <1>6, EndTransactionEffect DEF Ends
  <2>2. (\A w \in Uows \ {u} : uow'[w] = uow[w]) /\ uow'[u].step = "close"
    BY <1>6, <2>1, EndTransactionEffect DEF Ends, Keeps
  <2> QED BY <1>1, <2>2 DEF InCall
<1>7. ASSUME NEW t \in Tasks, NEW s \in Sessions \cup {None}, NEW raised \in BOOLEAN,
             Returns(t, s, raised)
      PROVE  Calls'
  <2>1. PICK u \in Uows : u = block[t]
    BY <1>7, ReturnsEffect
  <2>2. /\ \A w \in Uows \ {u} : uow'[w] = uow[w]
        /\ uow'[u].step = "ready" /\ uow'[u].caller = "nobody"
    BY <1>7, <2>1, ReturnsEffect DEF Keeps
  <2> QED BY <1>1, <2>2 DEF InCall
<1>8. ASSUME NEW t \in Tasks, Leaves(t)
      PROVE  Calls'
  <2>1. PICK u \in Uows : u = block[t]
    BY <1>8, LeavesEffect DEF Left
  <2>2. /\ \A w \in Uows \ {u} : uow'[w] = uow[w]
        /\ uow'[u] = [uow[u] EXCEPT !.active = FALSE]
    BY <1>8, <2>1, LeavesEffect DEF Left, Keeps
  <2>3. uow'[u].step = uow[u].step /\ uow'[u].caller = uow[u].caller
    BY <2>2 DEF TypeOK, Uow
  <2> QED BY <1>1, <2>2, <2>3 DEF InCall, Calls
<1>9. CASE UNCHANGED vars
  BY <1>2, <1>9 DEF vars
<1>10. CASE Next
  <2>1. ASSUME NEW t \in Tasks, NEW w \in Writes, WriteBound(t, w) PROVE Calls'
    BY <1>2, <2>1 DEF WriteBound
  <2>2. ASSUME NEW t \in Tasks, NEW w \in Writes,
               WriteAutocommit(t, w)
        PROVE  Calls'
    BY <1>2, <2>2 DEF WriteAutocommit
  <2>3. ASSUME NEW t \in Tasks, NEW k \in Children, Spawn(t, k) PROVE Calls'
    BY <1>2, <2>3 DEF Spawn
  <2>4. ASSUME NEW t \in Tasks, Exit(t) PROVE Calls'
    BY <1>5, <1>8, <2>4 DEF Leaves
  <2>5. ASSUME NEW t \in Tasks,
               SessionCommit(t) \/ SessionCommitFails(t) \/ SessionRollback(t)
                 \/ Close(t) \/ NoSession(t)
        PROVE  Calls'
    BY <1>6, <1>7, <2>5, EndingSteps
  <2> QED BY <1>3, <1>4, <1>5, <1>10, <2>1, <2>2, <2>3, <2>4, <2>5 DEF Next
<1> QED BY <1>9, <1>10

\* A step after which what is said of the events of each open block has been
\* shown, or of which the block saw nothing and lost no row.
LEMMA EventsStay ==
    ASSUME TypeOK, EventsKept, origin' = origin,
           \A s \in Sessions :
              session'[s].outcome = "unused" => session[s].outcome = "unused",
           \A u \in Uows : Holds(u)' =>
              \/ Kept(u)'
              \/ /\ Holds(u) /\ uow'[u] = uow[u]
                 /\ session[uow[u].session].rows \subseteq session'[uow[u].session].rows
    PROVE  EventsKept'
<1>1. \A s : EventsOf(s)' = EventsOf(s)
  BY DEF EventsOf
<1>2. ASSUME NEW u \in Uows, Holds(u)'
      PROVE  Kept(u)'
  <2>1. CASE /\ Holds(u) /\ uow'[u] = uow[u]
             /\ session[uow[u].session].rows \subseteq session'[uow[u].session].rows
    <3>1. Kept(u) /\ Waiting(u)' = Waiting(u)
      BY <2>1 DEF EventsKept, Waiting
    <3> QED BY <1>1, <2>1, <3>1 DEF Kept
  <2> QED BY <1>2, <2>1
<1> QED BY <1>1, <1>2 DEF EventsKept

\* register_event() and _flush_events lose no event of an open block that was
\* there when commit() was called.
LEMMA EventsKeptStep ==
    TypeOK /\ Blocks /\ Transactions /\ Levels /\ Calls /\ EventsKept /\ [Next]_vars
        => EventsKept'
<1> SUFFICES ASSUME TypeOK, Blocks, Transactions, Levels, Calls, EventsKept, [Next]_vars
             PROVE  EventsKept'
  OBVIOUS
<1>a. \A u, w \in Uows : u # w /\ uow[u].session # None =>
         uow[u].session # uow[w].session
  BY DEF Transactions
<1>b. \A u \in Uows : Holds(u) => uow[u].session \in Sessions
  BY Ranges DEF Transactions
<1>1. ASSUME NEW t \in Tasks, NEW u \in Uows, NEW s \in Sessions, Enter(t, u, s)
      PROVE  EventsKept'
  <2>1. /\ \A w \in Uows \ {u} : uow'[w] = uow[w]
        /\ uow'[u].session = s /\ session[s].outcome = "unused"
        /\ uow'[u].step = "ready" /\ uow'[u].pending = {}
        /\ session'[s].outcome = "open"
        /\ \A x \in Sessions \ {s} : session'[x] = session[x]
        /\ origin' = origin
    BY <1>1, EnterEffect
  <2>2. EventsOf(s)' = {}
    BY <2>1 DEF EventsKept, EventsOf
  <2>3. Kept(u)'
    BY <2>1, <2>2 DEF Kept, Waiting
  <2>4. \A w \in Uows \ {u} : Holds(w)' =>
           Holds(w) /\ uow[w].session \in Sessions \ {s}
    BY <1>b, <2>1 DEF Holds, Transactions
  <2> QED BY <2>1, <2>3, <2>4, EventsStay
<1>2. ASSUME NEW t \in Tasks, NEW u \in Uows, NEW e \in Events, RegisterEvent(t, u, e)
      PROVE  EventsKept'
  <2>1. /\ \A w \in Uows \ {u} : uow'[w] = uow[w]
        /\ uow'[u].session = uow[u].session /\ uow'[u].token = uow[u].token
        /\ uow'[u].step = uow[u].step /\ uow'[u].caller = uow[u].caller
        /\ uow'[u].saving = uow[u].saving
        /\ uow'[u].pending = uow[u].pending \cup {e}
        /\ origin[e] = NoToken /\ session' = session
    BY <1>2, RegisterEffect
  <2>a. \A x \in Events : origin'[x] = IF x = e THEN Recipient(u) ELSE origin[x]
    BY <1>2, RegisterEffect
  <2>2. \A s \in Sessions : EventsOf(s)' =
           IF Recipient(u) = s THEN EventsOf(s) \cup {e} ELSE EventsOf(s)
    <3> SUFFICES ASSUME NEW s \in Sessions
                 PROVE  EventsOf(s)' =
                          IF Recipient(u) = s THEN EventsOf(s) \cup {e} ELSE EventsOf(s)
      OBVIOUS
    <3>1. \A x \in Events : x \in EventsOf(s) <=> origin[x] = s
      BY DEF EventsOf
    <3>2. \A x \in Events : x \in EventsOf(s)' <=> origin'[x] = s
      BY DEF EventsOf
    <3>3. EventsOf(s) \subseteq Events /\ EventsOf(s)' \subseteq Events
      BY DEF EventsOf
    <3>4. CASE Recipient(u) = s
      <4>1. \A x : x \in EventsOf(s)' <=> x \in EventsOf(s) \cup {e}
        BY <2>a, <3>1, <3>2, <3>3, <3>4
      <4> QED BY <3>4, <4>1
    <3>5. CASE Recipient(u) # s
      <4>1. \A x : x \in EventsOf(s)' <=> x \in EventsOf(s)
        BY <2>1, <2>a, <3>1, <3>2, <3>3, <3>5
      <4> QED BY <3>5, <4>1
    <3> QED BY <3>4, <3>5
  <2>3. \A w \in Uows : Holds(w)' <=> Holds(w)
    BY <2>1 DEF Holds
  <2>4. ASSUME NEW w \in Uows \ {u}, Holds(w)
        PROVE  Kept(w)'
    <3>1. uow'[w] = uow[w] /\ uow[w].session \in Sessions /\ Recipient(u) # uow[w].session
      BY <1>a, <1>b, <2>1, <2>4 DEF Recipient, Transactions
    <3>2. EventsOf(uow[w].session)' = EventsOf(uow[w].session)
      BY <2>2, <3>1
    <3>3. Kept(w) /\ Waiting(w)' = Waiting(w)
      BY <2>4, <3>1 DEF EventsKept, Waiting
    <3> QED BY <2>1, <3>1, <3>2, <3>3 DEF Kept
  <2>5. ASSUME Holds(u)
        PROVE  Kept(u)'
    <3>1. PICK s \in Sessions : s = uow[u].session
      BY <1>b, <2>5
    <3>4. Kept(u) /\ uow'[u].session = s
      BY <2>1, <2>5, <3>1 DEF EventsKept
    <3>2. CASE uow[u].caller = "commit"
      <4>1. Recipient(u) # s
        BY <3>2 DEF Recipient
      <4>2. EventsOf(s)' = EventsOf(s)
        BY <2>2, <4>1
      <4>3. e \notin EventsOf(s)
        BY <2>1 DEF EventsOf
      <4>4. Waiting(u) \subseteq Waiting(u)'
        BY <2>1 DEF Waiting
      <4>5. uow[u].step \in {"flush", "commit"} => Waiting(u)' = Waiting(u)
        BY <2>1 DEF Waiting
      <4> QED BY <2>1, <3>1, <3>2, <3>4, <4>2, <4>3, <4>4, <4>5 DEF Kept
    <3>3. CASE uow[u].caller # "commit"
      <4>1. Recipient(u) = s
        BY <2>5, <3>1, <3>3 DEF Recipient, Holds
      <4>2. EventsOf(s)' = EventsOf(s) \cup {e}
        BY <2>2, <4>1
      <4>3. uow[u].step \notin {"flush", "commit"}
        BY <3>3 DEF Calls
      <4>4. Waiting(u) = uow[u].pending /\ Waiting(u)' = uow[u].pending \cup {e}
        BY <2>1, <4>3 DEF Waiting
      <4> QED BY <2>1, <3>1, <3>3, <3>4, <4>2, <4>3, <4>4 DEF Kept
    <3> QED BY <3>2, <3>3
  <2>6. ASSUME NEW s \in Sessions, session'[s].outcome = "unused"
        PROVE  EventsOf(s)' = {}
    <3>1. Recipient(u) # s
      BY <2>1, <2>6 DEF Recipient, Transactions, Holds
    <3> QED BY <2>1, <2>2, <2>6, <3>1 DEF EventsKept
  <2> QED BY <2>3, <2>4, <2>5, <2>6 DEF EventsKept
<1>3. ASSUME NEW t \in Tasks, NEW w \in Writes, WriteBound(t, w)
      PROVE  EventsKept'
  <2>1. /\ \A s \in Sessions : /\ session'[s].outcome = session[s].outcome
                               /\ session[s].rows \subseteq session'[s].rows
        /\ UNCHANGED <<uow, origin>>
    BY ZenonT(60), <1>3, WriteEffect
  <2> QED BY <1>b, <2>1, EventsStay DEF Holds
<1>4. ASSUME NEW t \in Tasks, NEW w \in Writes,
             WriteAutocommit(t, w)
      PROVE  EventsKept'
  BY <1>4, EventsStay DEF WriteAutocommit, Holds
<1>5. ASSUME NEW t \in Tasks, NEW k \in Children, Spawn(t, k)
      PROVE  EventsKept'
  BY <1>5, EventsStay DEF Spawn, Holds
<1>6. ASSUME NEW t \in Tasks, CommitCall(t) \/ FlushFails(t) \/ RollbackCall(t)
                                \/ (Exit(t) /\ ~uow[block[t]].finished)
      PROVE  EventsKept'
  <2>1. PICK u \in Uows : u = block[t]
    BY <1>6, CallEffect DEF Suspends
  <2>2. /\ \A w \in Uows \ {u} : uow'[w] = uow[w]
        /\ uow'[u].pending = uow[u].pending /\ UNCHANGED <<origin, session>>
    BY <1>6, <2>1, CallEffect DEF Suspends
  <2>3. uow'[u].session = uow[u].session /\ uow'[u].token = uow[u].token
    BY <1>6, <2>1, QuietSteps DEF Quiet
  <2>4. \A s : EventsOf(s)' = EventsOf(s)
    BY <2>2 DEF EventsOf
  <2>5. ASSUME Holds(u)'
        PROVE  Kept(u)'
    <3>1. Kept(u)
      BY <2>3, <2>5 DEF Holds, EventsKept
    <3>2. CASE CommitCall(t)
      <4>1. /\ uow'[u].step = IF uow[u].pending = {} THEN "commit" ELSE "flush"
            /\ uow[u].step = "ready" /\ uow'[u].caller = "commit"
            /\ uow'[u].saving = uow[u].pending
        BY <2>1, <3>2, CallEffect DEF Suspends
      <4>2. uow[u].caller # "commit" /\ Waiting(u) = uow[u].pending
        BY <4>1 DEF Calls, Waiting
      <4>3. Waiting(u)' = uow[u].pending
        BY <4>1 DEF Waiting
      <4> QED BY <2>2, <2>3, <2>4, <3>1, <4>1, <4>2, <4>3 DEF Kept
    <3>3. CASE FlushFails(t)
      <4>1. /\ uow'[u].step = "rollback" /\ uow[u].step = "flush"
            /\ uow'[u].caller = uow[u].caller
        BY <2>1, <3>3, CallEffect DEF Suspends
      <4>2. uow[u].caller = "commit" /\ Waiting(u)' = uow[u].pending
        BY <2>2, <4>1 DEF Calls, Waiting
      <4> QED BY <2>2, <2>3, <2>4, <3>1, <4>1, <4>2 DEF Kept
    <3>4. CASE RollbackCall(t) \/ (Exit(t) /\ ~uow[block[t]].finished)
      <4>1. /\ uow'[u].step = "rollback" /\ uow[u].step = "ready"
            /\ uow'[u].caller # "commit"
        BY <2>1, <3>4, CallEffect DEF Suspends
      <4>2. /\ uow[u].caller # "commit" /\ Waiting(u) = uow[u].pending
            /\ Waiting(u)' = uow[u].pending
        BY <2>2, <4>1 DEF Calls, Waiting
      <4> QED BY <2>2, <2>3, <2>4, <3>1, <4>1, <4>2 DEF Kept
    <3> QED BY <1>6, <3>2, <3>3, <3>4
  <2> QED BY <2>2, <2>5, EventsStay DEF Holds
<1>7. ASSUME NEW t \in Tasks, Flush(t)
      PROVE  EventsKept'
  <2>0. block[t] # None
    BY <1>7 DEF Flush, At
  <2>1. PICK u \in Uows : u = block[t]
    BY <1>7, CallEffect DEF Suspends
  <2>2. /\ \A w \in Uows \ {u} : uow'[w] = uow[w]
        /\ uow[u].step = "flush" /\ uow'[u].step = "commit"
        /\ uow'[u].caller = uow[u].caller /\ uow'[u].pending = {}
        /\ origin' = origin /\ Save(t, uow[u].saving)
    BY <1>7, <2>1, CallEffect DEF Suspends
  <2>3. uow'[u].session = uow[u].session /\ uow'[u].token = uow[u].token
    BY <1>7, <2>1, QuietSteps DEF Quiet
  <2>4. /\ \A s \in Sessions :
              /\ session'[s].outcome = session[s].outcome
              /\ session[s].rows \subseteq session'[s].rows
        /\ ctx[t] # None => uow[u].saving \subseteq session'[ctx[t]].rows
    BY <2>2, SaveEffect, Ranges
  <2>5. Holds(u) => ctx[t] = uow[u].session
    BY <2>0, <2>1, InnermostBound
  <2>6. \A s : EventsOf(s)' = EventsOf(s)
    BY <2>2 DEF EventsOf
  <2>7. ASSUME Holds(u)'
        PROVE  Kept(u)'
    <3>1. Kept(u) /\ uow[u].session \in Sessions /\ ctx[t] = uow[u].session
      BY <1>b, <2>3, <2>5, <2>7 DEF Holds, EventsKept
    <3>2. uow[u].saving \subseteq session'[uow[u].session].rows
      BY <2>4, <3>1
    <3>3. Waiting(u) = uow[u].saving /\ Waiting(u)' = {}
      BY <2>2 DEF Waiting
    <3>4. uow[u].caller = "commit"
      BY <2>2 DEF Calls
    <3> QED BY <2>2, <2>3, <2>4, <2>6, <3>1, <3>2, <3>3, <3>4 DEF Kept
  <2> QED BY <1>b, <2>2, <2>4, <2>7, EventsStay DEF Holds
<1>8. ASSUME NEW t \in Tasks, NEW ok \in BOOLEAN, NEW applied \in BOOLEAN,
             Ends(t, ok, applied)
      PROVE  EventsKept'
  <2> DEFINE u == block[t]
  <2>1. /\ u \in Uows /\ \A w \in Uows \ {u} : uow'[w] = uow[w]
        /\ uow[u].session \in Sessions
        /\ uow'[u].token = NoToken /\ origin' = origin
        /\ \A x \in Sessions \ {uow[u].session} : session'[x] = session[x]
        /\ session'[uow[u].session].outcome = "unused" =>
              session[uow[u].session].outcome = "unused"
    BY <1>8, EndTransactionEffect DEF Ends, Keeps
  <2> HIDE DEF u
  <2>2. \A w \in Uows : Holds(w)' => w # u /\ Holds(w)
    BY <2>1 DEF Holds
  <2>3. \A w \in Uows : Holds(w)' => uow[w].session \in Sessions \ {uow[u].session}
    BY <1>a, <2>1, <2>2, Ranges DEF Transactions
  <2> QED BY <2>1, <2>2, <2>3, EventsStay
<1>9. ASSUME NEW t \in Tasks, NEW s \in Sessions \cup {None}, NEW raised \in BOOLEAN,
             Returns(t, s, raised)
      PROVE  EventsKept'
  <2> DEFINE u == block[t]
  <2>1. /\ u \in Uows /\ \A w \in Uows \ {u} : uow'[w] = uow[w]
        /\ uow'[u].token = NoToken /\ origin' = origin
        /\ \A x \in Sessions : session'[x].outcome = session[x].outcome
        /\ \A x \in Sessions : x # uow[u].session => session'[x] = session[x]
    BY <1>9, ReturnsEffect DEF Keeps
  <2> HIDE DEF u
  <2>2. \A w \in Uows : Holds(w)' => w # u /\ Holds(w)
    BY <2>1 DEF Holds
  <2>3. \A w \in Uows : Holds(w)' =>
          uow[w].session \in Sessions /\ uow[w].session # uow[u].session
    BY <1>a, <2>1, <2>2, Ranges DEF Transactions
  <2> QED BY <2>1, <2>2, <2>3, EventsStay
<1>10. ASSUME NEW t \in Tasks, Leaves(t)
       PROVE  EventsKept'
  <2> DEFINE u == block[t]
  <2>1. /\ u \in Uows /\ \A w \in Uows \ {u} : uow'[w] = uow[w]
        /\ uow[u].finished /\ UNCHANGED <<origin, session>>
        /\ uow'[u] = [uow[u] EXCEPT !.active = FALSE]
    BY <1>10, LeavesEffect DEF Left, Keeps
  <2>2. ~Holds(u) /\ uow'[u].token = uow[u].token
    BY <2>1 DEF Transactions, TypeOK, Uow
  <2> HIDE DEF u
  <2>3. \A w \in Uows : Holds(w)' => w # u /\ Holds(w)
    BY <2>1, <2>2 DEF Holds
  <2> QED BY <2>1, <2>3, EventsStay
<1>11. CASE UNCHANGED vars
  BY <1>11, EventsStay DEF vars, Holds
<1> QED
  <2>1. CASE Next
    <3>1. ASSUME NEW t \in Tasks, Exit(t) PROVE EventsKept'
      BY <1>6, <1>10, <3>1 DEF Leaves
    <3>2. ASSUME NEW t \in Tasks,
                 SessionCommit(t) \/ SessionCommitFails(t) \/ SessionRollback(t)
                   \/ Close(t) \/ NoSession(t)
          PROVE  EventsKept'
      BY <1>8, <1>9, <3>2, EndingSteps
    <3> QED BY <2>1, <3>1, <3>2, <1>1, <1>2, <1>3, <1>4, <1>5, <1>6, <1>7 DEF Next
  <2> QED BY <1>11, <2>1

-----------------------------------------------------------------------------
\* What a finished commit achieved is never undone.
LEMMA DoneStays ==
    ASSUME TypeOK, NEW u \in Uows, Done(u), uow'[u].txn = uow[u].txn,
           durable \subseteq durable',
           \A s \in Sessions :
              session[s].outcome = "committed" => session'[s].outcome = "committed",
           \A e \in Events :
              origin'[e] \in Sessions /\ origin'[e] # origin[e] =>
                 session[origin'[e]].outcome = "open"
    PROVE  Done(u)'
<1>1. uow[u].txn \in Sessions
  BY Ranges DEF Done
<1>2. EventsOf(uow[u].txn)' \subseteq EventsOf(uow[u].txn)
  BY <1>1 DEF EventsOf, Done
<1> QED BY <1>1, <1>2 DEF Done

\* What CommitInProgress says of one object.
InProgress(u) ==
    /\ uow[u].step \in {"flush", "commit"} => Holds(u)
    /\ uow[u].step = "close" /\ uow[u].caller = "commit" /\ uow[u].ok => Done(u)
    /\ uow[u].committed => Done(u)

\* A step that touches only object u and undoes nothing that is done.
LEMMA OnlyOneMoves ==
    ASSUME TypeOK, CommitInProgress, NEW u \in Uows,
           \A w \in Uows \ {u} : uow'[w] = uow[w],
           durable \subseteq durable',
           \A s \in Sessions :
              session[s].outcome = "committed" => session'[s].outcome = "committed",
           \A e \in Events :
              origin'[e] \in Sessions /\ origin'[e] # origin[e] =>
                 session[origin'[e]].outcome = "open",
           (uow'[u].txn = uow[u].txn => (Done(u) => Done(u)')) => InProgress(u)'
    PROVE  CommitInProgress'
<1>1. \A w \in Uows : Done(w) /\ uow'[w].txn = uow[w].txn => Done(w)'
  BY DoneStays
<1>2. ASSUME NEW w \in Uows \ {u}
      PROVE  InProgress(w)'
  <2>1. uow'[w] = uow[w] /\ (Done(w) => Done(w)')
    BY <1>1
  <2> QED BY <2>1 DEF CommitInProgress, InProgress, Holds
<1>3. InProgress(u)'
  BY <1>1
<1> QED BY <1>2, <1>3 DEF CommitInProgress, InProgress

\* Without late calls a commit() that gets to its end has flushed and committed
\* the transaction of its own block.
LEMMA CommitInProgressStep ==
    ASSUME LateCalls = FALSE
    PROVE  TypeOK /\ Blocks /\ Transactions /\ Calls /\ EventsKept /\ CommitInProgress
               /\ [Next]_vars => CommitInProgress'
<1> SUFFICES ASSUME TypeOK, Blocks, Transactions, Calls, EventsKept, CommitInProgress,
                    [Next]_vars
             PROVE  CommitInProgress'
  OBVIOUS
<1>1. ASSUME NEW t \in Tasks, NEW u \in Uows, NEW s \in Sessions, Enter(t, u, s)
      PROVE  CommitInProgress'
  <2>1. /\ \A w \in Uows \ {u} : uow'[w] = uow[w]
        /\ uow'[u].step = "ready" /\ ~uow'[u].committed
        /\ \A x \in Sessions : session[x].outcome = "committed" =>
              session'[x].outcome = "committed"
        /\ UNCHANGED <<durable, origin>>
    BY <1>1, EnterEffect
  <2>2. InProgress(u)'
    BY <2>1 DEF InProgress
  <2> QED BY <2>1, <2>2, OnlyOneMoves
<1>2. ASSUME NEW t \in Tasks, NEW u \in Uows, NEW e \in Events, RegisterEvent(t, u, e)
      PROVE  CommitInProgress'
  <2>1. /\ \A w \in Uows \ {u} : uow'[w] = uow[w]
        /\ uow'[u].step = uow[u].step /\ uow'[u].caller = uow[u].caller
        /\ uow'[u].ok = uow[u].ok /\ uow'[u].txn = uow[u].txn
        /\ uow'[u].committed = uow[u].committed /\ uow'[u].token = uow[u].token
        /\ UNCHANGED <<session, durable>>
    BY <1>2, RegisterEffect
  <2>2. \A x \in Events : origin'[x] = IF x = e THEN Recipient(u) ELSE origin[x]
    BY <1>2, RegisterEffect
  <2>3. Recipient(u) \in Sessions => session[Recipient(u)].outcome = "open"
    BY DEF Recipient, Transactions, Holds
  <2>4. \A x \in Events : origin'[x] \in Sessions /\ origin'[x] # origin[x] =>
           session[origin'[x]].outcome = "open"
    BY <2>2, <2>3
  <2>5. (uow'[u].txn = uow[u].txn => (Done(u) => Done(u)')) => InProgress(u)'
    BY <2>1 DEF InProgress, CommitInProgress, Holds
  <2> QED BY <2>1, <2>4, <2>5, OnlyOneMoves
<1>3. ASSUME UNCHANGED <<uow, origin>>, durable \subseteq durable',
             \A s \in Sessions : session'[s].outcome = session[s].outcome
      PROVE  CommitInProgress'
  <2>1. \A u \in Uows : Done(u) => Done(u)'
    BY <1>3, DoneStays
  <2> QED BY <1>3, <2>1 DEF CommitInProgress, Holds
<1>4. ASSUME NEW t \in Tasks, CommitCall(t)
      PROVE  CommitInProgress'
  <2>1. PICK u \in Uows : u = block[t]
    BY <1>4, CallEffect DEF Suspends
  <2>2. /\ \A w \in Uows \ {u} : uow'[w] = uow[w]
        /\ uow'[u].step = IF uow[u].pending = {} THEN "commit" ELSE "flush"
        /\ uow'[u].committed = uow[u].committed /\ uow'[u].txn = uow[u].txn
        /\ Holds(u) /\ UNCHANGED <<session, durable, origin>>
    BY <1>4, <2>1, CallEffect DEF Suspends
  <2>3. Holds(u)'
    BY <1>4, QuietSteps, <2>2 DEF Quiet, Holds
  <2>4. (uow'[u].txn = uow[u].txn => (Done(u) => Done(u)')) => InProgress(u)'
    BY <2>2, <2>3 DEF InProgress, CommitInProgress
  <2> QED BY <2>2, <2>4, OnlyOneMoves
<1>5. ASSUME NEW t \in Tasks, FlushFails(t) \/ RollbackCall(t)
                                \/ (Exit(t) /\ ~uow[block[t]].finished)
      PROVE  CommitInProgress'
  <2>1. PICK u \in Uows : u = block[t]
    BY <1>5, CallEffect DEF Suspends
  <2>2. /\ \A w \in Uows \ {u} : uow'[w] = uow[w]
        /\ uow'[u].step = "rollback" /\ uow'[u].committed = uow[u].committed
        /\ uow'[u].txn = uow[u].txn
        /\ UNCHANGED <<session, durable, origin>>
    BY <1>5, <2>1, CallEffect DEF Suspends
  <2>3. (uow'[u].txn = uow[u].txn => (Done(u) => Done(u)')) => InProgress(u)'
    BY <2>2 DEF InProgress, CommitInProgress
  <2> QED BY <2>2, <2>3, OnlyOneMoves
<1>6. ASSUME NEW t \in Tasks, Flush(t)
      PROVE  CommitInProgress'
  <2>1. PICK u \in Uows : u = block[t]
    BY <1>6, CallEffect DEF Suspends
  <2>2. /\ \A w \in Uows \ {u} : uow'[w] = uow[w]
        /\ uow'[u].step = "commit" /\ uow[u].step = "flush"
        /\ uow'[u].committed = uow[u].committed /\ Save(t, uow[u].saving)
        /\ uow'[u].txn = uow[u].txn
        /\ origin' = origin
    BY <1>6, <2>1, CallEffect DEF Suspends
  <2>3. /\ durable \subseteq durable'
        /\ \A s \in Sessions : session'[s].outcome = session[s].outcome
    BY <2>2, SaveEffect, Ranges
  <2>4. Holds(u)'
    BY <1>6, QuietSteps, <2>2 DEF Quiet, Holds, CommitInProgress
  <2>5. (uow'[u].txn = uow[u].txn => (Done(u) => Done(u)')) => InProgress(u)'
    BY <2>2, <2>4 DEF InProgress, CommitInProgress
  <2> QED BY <2>2, <2>3, <2>5, OnlyOneMoves
<1>7. ASSUME NEW t \in Tasks, NEW ok \in BOOLEAN, NEW applied \in BOOLEAN,
             Ends(t, ok, applied),
             ok /\ uow[block[t]].caller = "commit" => applied /\ At(t, "commit")
      PROVE  CommitInProgress'
  <2>1. PICK u \in Uows : u = block[t]
    BY <1>7, EndTransactionEffect DEF Ends
  <2> DEFINE s == uow[u].session
  <2>2. /\ s \in Sessions /\ \A w \in Uows \ {u} : uow'[w] = uow[w]
        /\ uow'[u].session = s /\ uow'[u].txn = uow[u].txn
        /\ uow'[u].step = "close" /\ uow'[u].ok = ok
        /\ uow'[u].caller = uow[u].caller /\ uow'[u].committed = uow[u].committed
        /\ \A x \in Sessions \ {s} : session'[x] = session[x]
        /\ session'[s].outcome = IF session[s].outcome # "open" THEN session[s].outcome
                                 ELSE IF applied THEN "committed" ELSE "aborted"
        /\ durable' = IF applied THEN durable \cup session[s].rows ELSE durable
        /\ origin' = origin
    BY <1>7, <2>1, EndTransactionEffect DEF Ends, Keeps
  <2>3. s = uow[u].txn
    BY <2>2 DEF Transactions
  <2>4. ASSUME ok, uow[u].caller = "commit"
        PROVE  Done(u)'
    <3>1. applied /\ uow[u].step = "commit"
      BY <1>7, <2>1, <2>4 DEF At
    <3>2. Holds(u) /\ Waiting(u) = {}
      BY <3>1 DEF CommitInProgress, Waiting
    <3>3. session[s].outcome = "open" /\ EventsOf(s) \subseteq session[s].rows
      BY <3>2 DEF Transactions, EventsKept, Kept
    <3>4. EventsOf(uow[u].txn)' = EventsOf(s)
      BY <2>2, <2>3 DEF EventsOf
    <3> QED BY <2>2, <2>3, <3>1, <3>3, <3>4 DEF Done
  <2>5. (uow'[u].txn = uow[u].txn => (Done(u) => Done(u)')) => InProgress(u)'
    BY <2>2, <2>4 DEF InProgress, CommitInProgress
  <2>6. /\ durable \subseteq durable'
        /\ \A x \in Sessions : session[x].outcome = "committed" =>
              session'[x].outcome = "committed"
    BY <2>2
  <2> QED BY <2>2, <2>5, <2>6, OnlyOneMoves
<1>8. ASSUME NEW t \in Tasks, NEW s \in Sessions \cup {None}, NEW raised \in BOOLEAN,
             Returns(t, s, raised),
             ~raised => At(t, "close") /\ uow[block[t]].ok
      PROVE  CommitInProgress'
  <2>1. PICK u \in Uows : u = block[t]
    BY <1>8, ReturnsEffect
  <2>2. /\ \A w \in Uows \ {u} : uow'[w] = uow[w]
        /\ uow'[u].txn = uow[u].txn /\ uow'[u].step = "ready"
        /\ uow'[u].committed = (uow[u].committed \/ (uow[u].caller = "commit" /\ ~raised))
    BY <1>8, <2>1, ReturnEffect DEF Returns, Keeps
  <2>3. /\ \A x \in Sessions : session'[x].outcome = session[x].outcome
        /\ UNCHANGED <<durable, origin>>
    BY <1>8, ReturnsEffect
  <2>4. uow'[u].committed => Done(u)
    BY <1>8, <2>1, <2>2 DEF CommitInProgress, At
  <2>5. (uow'[u].txn = uow[u].txn => (Done(u) => Done(u)')) => InProgress(u)'
    BY <2>2, <2>4 DEF InProgress
  <2> QED BY <2>2, <2>3, <2>5, OnlyOneMoves
<1>9. ASSUME NEW t \in Tasks, Leaves(t)
      PROVE  CommitInProgress'
  <2>1. PICK u \in Uows : u = block[t]
    BY <1>9, LeavesEffect DEF Left
  <2>2. /\ \A w \in Uows \ {u} : uow'[w] = uow[w]
        /\ uow'[u] = [uow[u] EXCEPT !.active = FALSE]
        /\ UNCHANGED <<session, durable, origin>>
    BY <1>9, <2>1, LeavesEffect DEF Left, Keeps
  <2>3. uow[u].step = "ready"
    BY <1>9, <2>1 DEF Leaves, Exit, InBody
  <2>4. /\ uow'[u].step = "ready" /\ uow'[u].committed = uow[u].committed
        /\ uow'[u].txn = uow[u].txn
    BY <2>2, <2>3 DEF TypeOK, Uow
  <2>5. (uow'[u].txn = uow[u].txn => (Done(u) => Done(u)')) => InProgress(u)'
    BY <2>4 DEF InProgress, CommitInProgress
  <2> QED BY <2>2, <2>5, OnlyOneMoves
<1>10. ASSUME NEW t \in Tasks,
              SessionCommit(t) \/ SessionCommitFails(t) \/ SessionRollback(t)
       PROVE  CommitInProgress'
  <2>1. CASE SessionCommit(t)
    BY <1>7, <2>1 DEF SessionCommit, At, Ends
  <2>2. CASE SessionCommitFails(t)
    BY <1>7, <2>2 DEF SessionCommitFails, At, Ends
  <2>3. CASE SessionRollback(t)
    <3>1. PICK ok \in BOOLEAN :
             block[t] # None /\ EndTransaction(t, ok /\ uow[block[t]].caller # "commit", FALSE)
      BY <2>3 DEF SessionRollback, At
    <3>2. (ok /\ uow[block[t]].caller # "commit") \in BOOLEAN
      OBVIOUS
    <3> QED BY <1>7, <3>1, <3>2 DEF Ends
  <2> QED BY <1>10, <2>1, <2>2, <2>3
<1>11. ASSUME NEW t \in Tasks, Close(t) \/ NoSession(t)
       PROVE  CommitInProgress'
  <2>1. PICK s \in Sessions \cup {None}, raised \in BOOLEAN :
          Returns(t, s, raised) /\ (~raised => At(t, "close") /\ uow[block[t]].ok)
    BY <1>11, EndingCalls
  <2> QED BY <1>8, <2>1
<1>12. CASE UNCHANGED vars
  BY <1>3, <1>12 DEF vars
<1>13. CASE Next
  <2>1. ASSUME NEW t \in Tasks, NEW w \in Writes, WriteBound(t, w)
        PROVE  CommitInProgress'
    BY <1>3, <2>1, WriteEffect
  <2>2. ASSUME NEW t \in Tasks, NEW w \in Writes,
               WriteAutocommit(t, w)
        PROVE  CommitInProgress'
    BY <1>3, <2>2 DEF WriteAutocommit
  <2>3. ASSUME NEW t \in Tasks, NEW k \in Children, Spawn(t, k)
        PROVE  CommitInProgress'
    BY <1>3, <2>3 DEF Spawn
  <2>4. ASSUME NEW t \in Tasks, Exit(t)
        PROVE  CommitInProgress'
    BY <1>5, <1>9, <2>4 DEF Leaves
  <2> QED BY <1>1, <1>2, <1>4, <1>5, <1>6, <1>10, <1>11, <1>13, <2>1, <2>2, <2>3, <2>4
          DEF Next
<1> QED BY <1>12, <1>13

\* A step that stores no event but those some transaction has to take.
LEMMA NothingElseStored ==
    ASSUME Unclaimed,
           \A e \in Events : origin'[e] \notin Sessions => origin[e] \notin Sessions,
           \A e \in Events : Stored(e)' => Stored(e) \/ origin[e] \in Sessions
    PROVE  Unclaimed'
  BY DEF Unclaimed

\* Without late calls only a block's own events are saved, those registered
\* before its commit() was called.
LEMMA UnclaimedStep ==
    ASSUME LateCalls = FALSE
    PROVE  TypeOK /\ Transactions /\ EventsKept /\ CommitInProgress /\ Unclaimed
               /\ [Next]_vars => Unclaimed'
<1> SUFFICES ASSUME TypeOK, Transactions, EventsKept, CommitInProgress, Unclaimed,
                    [Next]_vars
             PROVE  Unclaimed'
  OBVIOUS
<1>1. ASSUME origin' = origin, durable' \cap Events \subseteq durable,
             \A s \in Sessions : session'[s].rows \cap Events \subseteq session[s].rows
      PROVE  Unclaimed'
  <2>1. \A e \in Events : Stored(e)' => Stored(e)
    BY <1>1 DEF Stored
  <2> QED BY <1>1, <2>1, NothingElseStored
<1>2. ASSUME NEW t \in Tasks, NEW u \in Uows, NEW e \in Events, RegisterEvent(t, u, e)
      PROVE  Unclaimed'
  <2>1. UNCHANGED <<session, durable>> /\ origin[e] = NoToken
    BY <1>2, RegisterEffect
  <2>2. \A x \in Events : origin'[x] = IF x = e THEN Recipient(u) ELSE origin[x]
    BY <1>2, RegisterEffect
  <2>3. \A x \in Events : origin'[x] \notin Sessions => origin[x] \notin Sessions
    BY <2>1, <2>2
  <2>4. \A x \in Events : Stored(x)' => Stored(x)
    BY <2>1 DEF Stored
  <2> QED BY <2>3, <2>4, NothingElseStored
<1>3. ASSUME NEW t \in Tasks, Flush(t)
      PROVE  Unclaimed'
  <2>1. PICK u \in Uows : u = block[t]
    BY <1>3, CallEffect DEF Suspends
  <2>2. uow[u].step = "flush" /\ Save(t, uow[u].saving) /\ origin' = origin
    BY <1>3, <2>1, CallEffect DEF Suspends
  <2>3. Holds(u) /\ uow[u].session \in Sessions
    BY <2>2, Ranges DEF CommitInProgress, Transactions
  <2>4. Kept(u) /\ Waiting(u) = uow[u].saving
    BY <2>2, <2>3 DEF EventsKept, Waiting
  <2>5. uow[u].saving \subseteq EventsOf(uow[u].session)
    BY <2>2, <2>4 DEF Kept
  <2>6. PICK events : events = uow[u].saving
    OBVIOUS
  <2>7. Save(t, events) /\ \A e \in events : origin[e] \in Sessions
    BY <2>2, <2>3, <2>5, <2>6 DEF EventsOf
  <2>8. \A e \in Events : Stored(e)' => Stored(e) \/ e \in events
    <3>1. CASE ctx[t] = None
      BY <2>7, <3>1 DEF Save, Stored
    <3>2. CASE ctx[t] # None
      <4>1. /\ durable' = durable
            /\ \A s \in Sessions :
                  session'[s].rows = IF s = ctx[t] THEN session[s].rows \cup events
                                     ELSE session[s].rows
        BY <2>7, <3>2, SaveRows
      <4> QED BY <4>1 DEF Stored
    <3> QED BY <3>1, <3>2
  <2> QED BY <2>2, <2>7, <2>8, NothingElseStored
<1>4. ASSUME NEW t \in Tasks, NEW u \in Uows, NEW s \in Sessions, Enter(t, u, s)
      PROVE  Unclaimed'
  <2>1. /\ session'[s].rows = session[s].rows
        /\ UNCHANGED <<durable, origin>>
    BY <1>4, EnterEffect
  <2>2. \A x \in Sessions \ {s} : session'[x] = session[x]
    BY <1>4, EnterEffect
  <2>3. \A x \in Sessions : session'[x].rows = session[x].rows
    BY <2>1, <2>2
  <2> QED BY <1>1, <2>1, <2>3
<1>5. ASSUME NEW t \in Tasks, NEW w \in Writes, WriteBound(t, w)
      PROVE  Unclaimed'
  <2>0. /\ UNCHANGED <<origin, durable>>
        /\ \A s \in Sessions :
              session'[s].rows = IF s = ctx[t] THEN session[s].rows \cup {w}
                                 ELSE session[s].rows
    BY <1>5, WriteEffect
  <2>1. /\ UNCHANGED <<origin, durable>>
        /\ \A s \in Sessions : session'[s].rows \subseteq session[s].rows \cup {w}
    BY <2>0
  <2>2. w \notin Events
    OBVIOUS
  <2> QED BY <1>1, <2>1, <2>2
<1>6. ASSUME NEW t \in Tasks, NEW w \in Writes,
             WriteAutocommit(t, w)
      PROVE  Unclaimed'
  <2>1. UNCHANGED <<origin, session>> /\ durable' = durable \cup {w} /\ w \notin Events
    BY <1>6 DEF WriteAutocommit
  <2> QED BY <1>1, <2>1
<1>7. ASSUME NEW t \in Tasks, NEW ok \in BOOLEAN, NEW applied \in BOOLEAN,
             Ends(t, ok, applied)
      PROVE  Unclaimed'
  <2>1. PICK s \in Sessions : s = uow[block[t]].session
    BY <1>7, EndTransactionEffect DEF Ends
  <2>2. /\ \A x \in Sessions \ {s} : session'[x] = session[x]
        /\ session'[s].rows = {} /\ origin' = origin
        /\ durable' = IF applied THEN durable \cup session[s].rows ELSE durable
    BY <1>7, <2>1, EndTransactionEffect DEF Ends
  <2>3. \A e \in Events : Stored(e)' => Stored(e)
    BY <2>2 DEF Stored
  <2> QED BY <2>2, <2>3, NothingElseStored
<1>8. ASSUME NEW t \in Tasks, NEW s \in Sessions \cup {None}, NEW raised \in BOOLEAN,
             Returns(t, s, raised)
      PROVE  Unclaimed'
  <2>1. UNCHANGED <<durable, origin>>
    BY <1>8, ReturnsEffect
  <2>2. \A x \in Sessions : session'[x].rows = session[x].rows \/ session'[x].rows = {}
    BY <1>8, ReturnsRows
  <2> QED BY <1>1, <2>1, <2>2
<1>9. ASSUME NEW t \in Tasks,
             CommitCall(t) \/ FlushFails(t) \/ RollbackCall(t) \/ Exit(t)
      PROVE  Unclaimed'
  BY <1>1, <1>9 DEF CommitCall, FlushFails, RollbackCall, Exit
<1>10. CASE UNCHANGED vars
  BY <1>1, <1>10 DEF vars
<1>11. CASE Next
  <2>1. ASSUME NEW t \in Tasks, NEW k \in Children, Spawn(t, k) PROVE Unclaimed'
    BY <1>1, <2>1 DEF Spawn
  <2>2. ASSUME NEW t \in Tasks,
               SessionCommit(t) \/ SessionCommitFails(t) \/ SessionRollback(t)
                 \/ Close(t) \/ NoSession(t)
        PROVE  Unclaimed'
    BY <1>7, <1>8, <2>2, EndingSteps
  <2> QED BY <1>2, <1>3, <1>4, <1>5, <1>6, <1>9, <1>11, <2>1, <2>2 DEF Next
<1> QED BY <1>10, <1>11

-----------------------------------------------------------------------------
\* Before anything happened there is no block, no binding and no event.
LEMMA InitIInv == Init => IInv
<1> SUFFICES ASSUME Init PROVE IInv
  OBVIOUS
<1>1. /\ \A t \in Tasks : block[t] = None /\ ctx[t] = None
      /\ \A u \in Uows : uow[u] = NewUow
      /\ \A s \in Sessions : session[s].outcome = "unused"
      /\ \A e \in Events : origin[e] = NoToken
  BY DEF Init
<1>2. \A u \in Uows :
         /\ ~uow[u].active /\ ~uow[u].committed /\ uow[u].session = None
         /\ uow[u].token = NoToken /\ uow[u].step = "ready" /\ uow[u].txn = None
         /\ uow[u].caller = "nobody" /\ uow[u].task = None
  BY <1>1 DEF NewUow
<1>3. \A u \in Uows : ~Holds(u)
  BY <1>2 DEF Holds
<1>4. Blocks
  BY <1>1, <1>2 DEF Blocks
<1>5. Transactions
  BY <1>2, <1>3 DEF Transactions
<1>6. References
  <2>1. \A t \in Tasks, s \in Sessions : ~Refers(t, s)
    BY <1>1, <1>2 DEF Refers
  <2> QED BY <2>1 DEF References
<1>7. Levels
  <2> DEFINE level == [u \in Uows |-> None]
  <2>1. IsLevel(level)
    BY <1>1, <1>2 DEF IsLevel
  <2>2. level \in [Uows -> Sessions \cup {None}]
    OBVIOUS
  <2> HIDE DEF level
  <2> QED BY <2>1, <2>2 DEF Levels
<1>8. RootStacks
  BY <1>1, <1>3 DEF RootStacks, Tasks
<1>9. NoOrphanTransaction
  BY <1>1 DEF NoOrphanTransaction
<1>10. EventsKept
  <2>1. \A s \in Sessions : EventsOf(s) = {}
    BY <1>1 DEF EventsOf
  <2> QED BY <1>3, <2>1 DEF EventsKept
<1>11. Calls
  BY <1>2 DEF Calls
<1>12. CommitInProgress /\ Unclaimed
  <2>1. \A e \in Events : ~Stored(e)
    BY DEF Init, Stored
  <2> QED BY <1>2, <2>1 DEF CommitInProgress, Unclaimed
<1> QED
  BY <1>4, <1>5, <1>6, <1>7, <1>8, <1>9, <1>10, <1>11, <1>12, InitType DEF IInv

\* Every step of the specification preserves all parts of the invariant.
LEMMA StepIInv == IInv /\ [Next]_vars => IInv'
<1> SUFFICES ASSUME IInv, [Next]_vars PROVE IInv'
  OBVIOUS
<1>1. /\ TypeOK' /\ Blocks' /\ Transactions' /\ References' /\ Levels'
      /\ NoOrphanTransaction'
  BY TypeStep, BlocksStep, TransactionsStep, ReferencesStep, LevelsStep, NoOrphanStep
     DEF IInv
<1>2. RootStacks' /\ Calls' /\ EventsKept'
  BY RootStacksStep, CallsStep, EventsKeptStep DEF IInv
<1>3. LateCalls = FALSE => CommitInProgress' /\ Unclaimed'
  BY CommitInProgressStep, UnclaimedStep DEF IInv
<1> QED BY <1>1, <1>2, <1>3 DEF IInv

\* The inductive invariant holds in every reachable state, for any number of
\* tasks, objects, sessions, rows and events, with or without late calls.
THEOREM Inductive == Spec => []IInv
<1> QED BY InitIInv, StepIInv, PTL DEF Spec

\* The fields of the objects, the sessions and the bindings stay in range.
THEOREM TypeCorrect == Spec => []TypeOK
<1>1. IInv => TypeOK
  BY DEF IInv
<1> QED BY <1>1, Inductive, PTL

\* A repository call of a root task goes to the block it is written in, however
\* deep the blocks are nested and whatever ends them: bind_session and
\* unbind_session bring back the session of the block around.
THEOREM RootsUseTheirBlock == Spec => []OwnSession
<1>1. IInv => OwnSession
  <2> SUFFICES ASSUME IInv, NEW t \in Roots
               PROVE  /\ block[t] # None /\ Holds(block[t]) =>
                            ctx[t] = uow[block[t]].session
                      /\ ctx[t] # None =>
                            \E u \in Uows : /\ uow[u].task = t /\ uow[u].active
                                            /\ Holds(u) /\ uow[u].session = ctx[t]
    BY DEF OwnSession
  <2>1. t \in Tasks
    BY DEF Tasks
  <2>2. block[t] # None /\ Holds(block[t]) => ctx[t] = uow[block[t]].session
    BY <2>1, InnermostBound DEF IInv
  <2>3. ctx[t] # None => \E u \in Uows : OpenBlock(u, t, ctx[t])
    BY DEF IInv, RootStacks
  <2> QED BY <2>2, <2>3 DEF OpenBlock
<1> QED BY <1>1, Inductive, PTL

\* Two tasks see the same session only if one of them was created, directly or
\* not, by the other or by a task that created both.
THEOREM TasksAreIsolated == Spec => []SessionIsolation
<1>1. IInv => SessionIsolation
  <2>1. TypeOK /\ References => SessionIsolation
    BY Ranges DEF References, Refers, SessionIsolation
  <2> QED BY <2>1 DEF IInv
<1> QED BY <1>1, Inductive, PTL

\* Every transaction that is still open belongs to a block a task is in.
THEOREM NothingIsLeftOpen == Spec => []NoOrphanTransaction
<1>1. IInv => NoOrphanTransaction
  BY DEF IInv
<1> QED BY <1>1, Inductive, PTL

\* When bodies make no call on a Unit of Work whose transaction is over, a
\* commit() that returned has made the block's transaction durable with all the
\* events registered in it before commit() was called, from whatever task.  One
\* that came while commit() was suspended, or with no transaction open, never
\* becomes durable.
THEOREM CommittedMeansDurable ==
    Spec => [](LateCalls = FALSE => CommitKeepsPromise)
<1>1. IInv => (LateCalls = FALSE => CommitKeepsPromise)
  <2> SUFFICES ASSUME IInv, LateCalls = FALSE PROVE CommitKeepsPromise
    OBVIOUS
  <2>1. \A u \in Uows : uow[u].committed => Done(u)
    BY DEF IInv, CommitInProgress
  <2>2. \A e \in Events : origin[e] = None => e \notin durable
    BY DEF IInv, Unclaimed, Stored
  <2> QED BY <2>1, <2>2 DEF Done, EventsOf, CommitKeepsPromise
<1> QED BY <1>1, Inductive, PTL

=============================================================================
