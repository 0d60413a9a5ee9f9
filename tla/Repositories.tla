---------------------------- MODULE Repositories ----------------------------
(***************************************************************************)
(* The generic repositories over one table, collection or set of points,   *)
(* and TenantScopedRepository, which wraps any of them.                     *)
(*                                                                         *)
(* Callers run concurrently, and each statement sent to the database is    *)
(* one step.  An operation of several statements (an update and its        *)
(* read-back, a bulk update, a delete that first looks) may find that      *)
(* another caller changed the rows in between; call[c].disturbed says so.  *)
(*                                                                         *)
(* A statement here succeeds, fails without effect, or is cut short by a   *)
(* cancellation; nodes, breakers, retries and transactions are the subject *)
(* of Adapters.tla and UnitOfWork.tla.  The id is a unique key on every    *)
(* backend, which for documents is left to the application to declare.     *)
(***************************************************************************)
EXTENDS Criteria, FiniteSets

CONSTANTS
    Tenants,
    Ids,
    Callers,
    Deployments,    \* records [backend, replica, operations, fields]: where (replica:
                    \* a relational or document database whose reads go to a
                    \* replica), what callers do, and which fields updates change
    Extras,         \* the criteria that updates and deletes are given
    FindCriteria,   \* the criteria that queries are given
    Owners,         \* the tenant_ids that entities and changes are given
    Filters,        \* a sequence of filters to compare the backends on,
    Samples,        \* and the rows to compare them on
    NoRow

Backends == {"relational", "document", "vector"}

Operations == {"get", "find", "create", "update", "delete",
               "bulk_create", "bulk_update", "bulk_delete", "cache_aside"}

TenantIds == Tenants \cup {Null}

\* An entity: its tenant, and a field that an update sets.
Row == [tenant_id : TenantIds, val : {Null, 1}]

ASSUME RepositoriesAssumption ==
    /\ Fields = {"tenant_id", "val"}
    /\ Null \notin Tenants /\ Tenants \subseteq Owners /\ Owners \subseteq TenantIds
    /\ \A d \in Deployments :
        /\ d.backend \in Backends
        /\ d.replica \in BOOLEAN /\ (d.replica => d.backend \in {"relational", "document"})
        /\ d.operations \subseteq Operations
        /\ d.fields \subseteq Fields

ASSUME IdsAssumption == IsFiniteSet(Ids) /\ Ids # {} /\ NoRow \notin Row

\* Criteria are lists of filters.  Those of updates and deletes are ones that the
\* backend takes, and order numbers only: on Qdrant they are checked once more in
\* Python, which raises TypeError otherwise.  Updates and deletes may be given none.
ASSUME CriteriaAssumption ==
    /\ IsCriteria(Filters)
    /\ \A criteria \in FindCriteria : IsCriteria(criteria)
    /\ \A extra \in Extras : IsCriteria(extra)
    /\ \A d \in Deployments, extra \in Extras : Expressible(d.backend, extra)
    /\ \A extra \in Extras : \A i \in DOMAIN extra :
            extra[i].operator \in Ordering => extra[i].field = "val" /\ extra[i].value # Null
    /\ <<>> \in Extras

\* What an update may change: the field, or the tenant.
Changes == [{"val"} -> {1}] \cup [{"tenant_id"} -> Owners]

Updated(row, changes) ==
    [f \in Fields |-> IF f \in DOMAIN changes THEN changes[f] ELSE row[f]]

IdsOf(seq) == {seq[i] : i \in DOMAIN seq}

\* The arguments of a bulk operation.
Batches == {seq \in [1..Cardinality(Ids) -> Ids] : IdsOf(seq) = Ids}

VARIABLES
    deployment,
    store,       \* store[id]: the row, document or point (on the master node)
    replica,     \* replica[id]: what a replica has of it, which may lag behind
    call         \* call[c]: the operation of a caller

repositoryVars == <<deployment, store, replica, call>>

\* "returned" and "raised" are how the last operation ended.
Resting == {"returned", "raised"}

PcOf == Resting \cup
    {"get", "find", "page", "create", "update", "readback",
     "delete", "look", "remove", "check", "retrieve", "owned"}

(* A call is [pc, scope, bulk, ids, criteria, data, total, applied,          *)
(* disturbed].  scope is the active tenant of a scoped repository, Null for  *)
(* a plain one; bulk operations record an item that fails and go on; ids are *)
(* still to be handled; data is the entity or the changes; total is the      *)
(* first half of a page.  applied and disturbed are history: the write       *)
(* matched the row, and another caller changed something the operation works *)
(* on since its first statement.                                             *)

Ended(how) ==
    [ pc |-> how, scope |-> Null, bulk |-> FALSE, ids |-> <<>>, criteria |-> <<>>,
      data |-> Null, total |-> 0, applied |-> FALSE, disturbed |-> FALSE ]

RepositoriesInit ==
    /\ deployment \in Deployments
    /\ store = [id \in Ids |-> NoRow]
    /\ replica = [id \in Ids |-> NoRow]
    /\ call = [c \in Callers |-> Ended("returned")]

backend == deployment.backend

-----------------------------------------------------------------------------
(* TenantScopedRepository.  A scoped operation has an active tenant here:    *)
(* without one, get_tenant_id raises before any statement.  (get_by_id asks  *)
(* it only when the read has found an entity, and raises then.)              *)

\* _tenant_filter
TenantFilter(scope) ==
    IF scope = Null THEN <<>> ELSE << FieldFilter("tenant_id", "EQ", scope) >>

\* Passing extra_criteria on as they are.
CriteriaUnscoped(scope, extra) == extra

\* What a write is restricted to.
WriteCriteria(scope, extra) == TenantFilter(scope) \o extra

\* _scoped_criteria: what a query is restricted to.
ScopedCriteria(scope, criteria) == criteria \o TenantFilter(scope)

\* Returning the entity that was found, whoever owns it.
OwnedUnchecked(scope, row) == row

\* _owned
Owned(scope, row) ==
    IF row # NoRow /\ scope # Null /\ row.tenant_id # scope THEN NoRow ELSE row

\* create: an entity of no tenant, or of the active one, is stamped with it.
Stamped(scope, tenant) == IF scope = Null THEN tenant ELSE scope
MayCreate(scope, tenant) == scope = Null \/ tenant \in {Null, scope}

\* _reject_tenant_id_reassignment
RejectsReassignment(scope, changes) ==
    scope # Null /\ "tenant_id" \in DOMAIN changes /\ changes["tenant_id"] # scope

\* Types; that an operation has ids left to handle until it ends; and that its
\* criteria are those it was given and the filter of its tenant.
RepositoriesTypeOK ==
    /\ deployment \in Deployments
    /\ store \in [Ids -> Row \cup {NoRow}]
    /\ replica \in [Ids -> Row \cup {NoRow}]
    /\ DOMAIN call = Callers
    /\ \A c \in Callers : LET op == call[c]
       IN   /\ op.pc \in PcOf
            /\ op.pc \in Resting => op = Ended(op.pc)
            /\ op.pc \notin Resting \cup {"find", "page"} => op.ids # <<>>
            /\ IdsOf(op.ids) \subseteq Ids
            /\ op.scope \in TenantIds
            /\ op.data \in Row \cup Changes \cup {Null}
            /\ op.total \in 0..Cardinality(Ids)
            /\ {op.bulk, op.applied, op.disturbed} \subseteq BOOLEAN
            /\ CASE op.pc \in Resting \cup {"get", "create"} -> op.criteria = <<>>
                 [] op.pc \in {"find", "page"} ->
                        \E criteria \in FindCriteria :
                            op.criteria = ScopedCriteria(op.scope, criteria)
                 [] OTHER ->
                        \E extra \in Extras : op.criteria = WriteCriteria(op.scope, extra)

-----------------------------------------------------------------------------
(* An operation begins: its arguments are checked, and scoped.               *)

Begin(c, operation, pc, scope, ids, criteria, data) ==
    /\ operation \in deployment.operations
    /\ call[c].pc \in Resting
    /\ call' = [call EXCEPT ![c] =
                    [ pc |-> pc, scope |-> scope,
                      bulk |-> operation \in {"bulk_create", "bulk_update", "bulk_delete"},
                      ids |-> ids, criteria |-> criteria, data |-> data,
                      total |-> 0, applied |-> FALSE, disturbed |-> FALSE ]]
    /\ UNCHANGED <<deployment, store, replica>>

GetById(c, scope, id) == Begin(c, "get", "get", scope, <<id>>, <<>>, Null)

Find(c, scope, criteria) ==
    Begin(c, "find", "find", scope, <<>>, ScopedCriteria(scope, criteria), Null)

Entity(scope, tenant) == [tenant_id |-> Stamped(scope, tenant), val |-> Null]

Create(c, scope, id, tenant) ==
    /\ MayCreate(scope, tenant)
    /\ Begin(c, "create", "create", scope, <<id>>, <<>>, Entity(scope, tenant))

BulkCreate(c, scope, ids, tenant) ==
    /\ MayCreate(scope, tenant)
    /\ Begin(c, "bulk_create", "create", scope, ids, <<>>, Entity(scope, tenant))

Update(c, scope, id, extra, changes) ==
    /\ DOMAIN changes \subseteq deployment.fields
    /\ ~RejectsReassignment(scope, changes)
    /\ Begin(c, "update", "update", scope, <<id>>, WriteCriteria(scope, extra), changes)

BulkUpdate(c, scope, ids, extra, changes) ==
    /\ DOMAIN changes \subseteq deployment.fields
    /\ ~RejectsReassignment(scope, changes)
    /\ Begin(c, "bulk_update", "update", scope, ids, WriteCriteria(scope, extra), changes)

\* Qdrant's delete() first looks the point up.
Delete(c, scope, id, extra) ==
    Begin(c, "delete", IF backend = "vector" THEN "look" ELSE "delete",
          scope, <<id>>, WriteCriteria(scope, extra), Null)

\* With criteria, Qdrant's bulk_delete() first retrieves the points.
BulkDelete(c, scope, ids, extra) ==
    LET criteria == WriteCriteria(scope, extra)
    IN  Begin(c, "bulk_delete",
              IF backend = "vector" /\ criteria # <<>> THEN "retrieve" ELSE "delete",
              scope, ids, criteria, Null)

-----------------------------------------------------------------------------
(* Statements.                                                               *)

\* The ids among these whose rows satisfy these criteria.
Matching(rows, ids, criteria) ==
    {id \in ids : rows[id] # NoRow /\ Matches(backend, rows[id], criteria)}

\* The rows that a write applies to.
Hits(ids, criteria) == Matching(store, ids, criteria)

\* What reads see: a relational repository reads with RoutingRole.REPLICA, and a
\* MongoDB deployment may set readPreference, which all its reads follow.
Readable == IF deployment.replica THEN replica ELSE store

Moves(c, rest) == call' = [call EXCEPT ![c] = rest] /\ UNCHANGED <<deployment, store, replica>>
Returns(c) == Moves(c, Ended("returned"))
Raises(c)  == Moves(c, Ended("raised"))

\* What another caller's operation works on, once it has begun to.
Concerns(d) ==
    CASE call[d].pc = "readback" -> {Head(call[d].ids)}
      [] call[d].pc \in {"remove", "check", "owned"} -> IdsOf(call[d].ids)
      [] call[d].pc = "page" /\ ~deployment.replica -> Ids
      [] OTHER -> {}

\* A statement of c changes the rows of these ids; rows[id] is the new one.
Writes(c, ids, rows, rest) ==
    LET changed == {id \in ids : rows[id] # store[id]}
    IN  /\ store' = [id \in Ids |-> IF id \in ids THEN rows[id] ELSE store[id]]
        /\ call' = [ d \in Callers |->
                       IF d = c THEN rest
                       ELSE [call[d] EXCEPT !.disturbed =
                                @ \/ Concerns(d) \cap changed # {}] ]
        /\ UNCHANGED <<deployment, replica>>

Removes(c, ids, rest) == Writes(c, ids, [id \in ids |-> NoRow], rest)

\* An item ends: a bulk operation goes on to the next one, and returns.
AfterItem(c, how) ==
    LET left == Tail(call[c].ids)
    IN  IF left = <<>> THEN Ended(IF call[c].bulk THEN "returned" ELSE how)
        ELSE [call[c] EXCEPT !.pc = IF @ = "readback" THEN "update" ELSE @,
                             !.ids = left, !.applied = FALSE, !.disturbed = FALSE]

-----------------------------------------------------------------------------
(* Reads.                                                                    *)

\* get_by_id
GetAnswer(c) == Owned(call[c].scope, Readable[Head(call[c].ids)])

Get(c) == call[c].pc = "get" /\ Returns(c)

\* find, count and search
Found(c) == Matching(Readable, Ids, call[c].criteria)

\* Counting the rows of the whole table.
TotalOfTable(c) == Cardinality({id \in Ids : Readable[id] # NoRow})

Total(c) == Cardinality(Found(c))

\* Two statements: SQL and MongoDB count first and then read the page, Qdrant
\* scrolls first and then counts.
FirstOfPage(c) ==
    /\ call[c].pc = "find"
    /\ Moves(c, [call[c] EXCEPT !.pc = "page",
                    !.total = IF backend = "vector" THEN Cardinality(Found(c)) ELSE Total(c)])

RestOfPage(c) == call[c].pc = "page" /\ Returns(c)

-----------------------------------------------------------------------------
(* Creates.                                                                  *)

Absent(ids) == {id \in ids : store[id] = NoRow}

\* One transaction, with a savepoint for each item of a batch: an item that is
\* a duplicate, or fails for another reason, is left out.
RelationalCreate(c) ==
    /\ call[c].pc = "create" /\ backend = "relational"
    /\ \E ids \in SUBSET Absent(IdsOf(call[c].ids)) :
        Writes(c, ids, [id \in ids |-> call[c].data],
               Ended(IF ids = {} /\ ~call[c].bulk THEN "raised" ELSE "returned"))

\* Item by item.
DocumentCreate(c) ==
    /\ call[c].pc = "create" /\ backend = "document"
    /\ LET id == Head(call[c].ids)
       IN  IF store[id] = NoRow
           THEN Writes(c, {id}, [i \in {id} |-> call[c].data], AfterItem(c, "returned"))
           ELSE Moves(c, AfterItem(c, "raised"))

\* An upsert of all points: an existing one is overwritten, whoever owns it.
VectorCreate(c) ==
    /\ call[c].pc = "create" /\ backend = "vector"
    /\ LET ids == IdsOf(call[c].ids)
       IN  Writes(c, ids, [id \in ids |-> call[c].data], Ended("returned"))

-----------------------------------------------------------------------------
(* Updates, each followed by a read-back.                                    *)

WritesChanges(c, hit) ==
    Writes(c, hit, [id \in hit |-> Updated(store[id], call[c].data)],
           [call[c] EXCEPT !.pc = "readback", !.applied = hit # {}])

\* SQL and MongoDB report how many rows matched.
UpdateMatched(c) ==
    /\ call[c].pc = "update" /\ backend \in {"relational", "document"}
    /\ LET hit == Hits({Head(call[c].ids)}, call[c].criteria)
       IN  /\ hit # {}
           /\ WritesChanges(c, hit)

UpdateMissed(c) ==
    /\ call[c].pc = "update" /\ backend \in {"relational", "document"}
    /\ Hits({Head(call[c].ids)}, call[c].criteria) = {}
    /\ Moves(c, AfterItem(c, "raised"))

\* Qdrant does not: set_payload may have been a no-op.
VectorUpdate(c) ==
    /\ call[c].pc = "update" /\ backend = "vector"
    /\ WritesChanges(c, Hits({Head(call[c].ids)}, call[c].criteria))

\* The point is there and satisfies the criteria.
Rechecked(row, criteria) == row # NoRow /\ MatchesCriteria(row, criteria)

\* The answer of an update that reads this back, by id alone.
RelationalAnswer(row, criteria) == IF row = NoRow THEN "RecordNotFoundError" ELSE "entity"
DocumentAnswer(row, criteria)   == IF row = NoRow THEN "AssertionError" ELSE "entity"
VectorAnswer(row, criteria) ==
    IF Rechecked(row, criteria) THEN "entity" ELSE "RecordNotFoundError"

\* Reading back where other reads go.
ReplicaRow(c) == Readable[Head(call[c].ids)]

\* The read-back: SQL's is from the master, MongoDB's is an ordinary get_by_id().
ReadbackRow(c) == (IF backend = "document" THEN Readable ELSE store)[Head(call[c].ids)]

UpdateAnswer(c) ==
    LET row == ReadbackRow(c)
    IN  CASE backend = "relational" -> RelationalAnswer(row, call[c].criteria)
          [] backend = "document"   -> DocumentAnswer(row, call[c].criteria)
          [] backend = "vector"     -> VectorAnswer(row, call[c].criteria)

\* bulk_update records a KrossDBError and goes on; an AssertionError is none.
Readback(c) ==
    /\ call[c].pc = "readback"
    /\ CASE UpdateAnswer(c) = "entity"              -> Moves(c, AfterItem(c, "returned"))
         [] UpdateAnswer(c) = "RecordNotFoundError" -> Moves(c, AfterItem(c, "raised"))
         [] UpdateAnswer(c) = "AssertionError"      -> Raises(c)

-----------------------------------------------------------------------------
(* Deletes.                                                                  *)

\* One statement, on SQL and MongoDB, and on Qdrant for a batch without criteria.
DeleteStatement(c) ==
    /\ call[c].pc = "delete"
    /\ Removes(c, Hits(IdsOf(call[c].ids), call[c].criteria), Ended("returned"))

\* Qdrant's delete() of one point looks, deletes, and looks again.
Look(c) ==
    /\ call[c].pc = "look"
    /\ IF store[Head(call[c].ids)] = NoRow
       THEN Returns(c)
       ELSE Moves(c, [call[c] EXCEPT !.pc = "remove"])

RemovePoint(c) ==
    /\ call[c].pc = "remove"
    /\ LET hit == Hits({Head(call[c].ids)}, call[c].criteria)
       IN  Removes(c, hit, [call[c] EXCEPT !.pc = "check", !.applied = hit # {}])

\* True: a record was removed.
DeleteAnswer(c) == store[Head(call[c].ids)] = NoRow

Check(c) == call[c].pc = "check" /\ Returns(c)

\* Counting every point that was retrieved.
OwnsAny(row, criteria) == row # NoRow

Owns(row, criteria) == row # NoRow /\ MatchesCriteria(row, criteria)

\* Qdrant's bulk_delete() with criteria: the number of points that satisfy them
\* when they are retrieved is the answer, and only those are deleted.
Retrieve(c) ==
    /\ call[c].pc = "retrieve"
    /\ LET points == call[c].ids
           owned[n \in 0..Len(points)] ==
               IF n = 0 THEN <<>>
               ELSE IF Owns(store[points[n]], call[c].criteria)
                    THEN Append(owned[n - 1], points[n]) ELSE owned[n - 1]
           ids == owned[Len(points)]
       IN  IF ids = <<>> THEN Returns(c)
           ELSE Moves(c, [call[c] EXCEPT !.pc = "owned", !.ids = ids])

RemoveOwned(c) ==
    /\ call[c].pc = "owned"
    /\ Removes(c, Hits(IdsOf(call[c].ids), call[c].criteria), Ended("returned"))

-----------------------------------------------------------------------------
\* The replica catches up on a row.
Replicate(id) ==
    /\ deployment.replica
    /\ replica[id] # store[id]
    /\ replica' = [replica EXCEPT ![id] = store[id]]
    /\ call' = [ c \in Callers |->
                   [call[c] EXCEPT !.disturbed = @ \/ call[c].pc = "page"] ]
    /\ UNCHANGED <<deployment, store>>

\* A statement fails without effect: the end of a single operation, and of one
\* item of a bulk update or of a bulk create that goes item by item.
StatementFails(c) ==
    /\ call[c].pc \notin Resting
    /\ IF \/ call[c].pc \in {"update", "readback"}
          \/ call[c].pc = "create" /\ backend = "document"
       THEN Moves(c, AfterItem(c, "raised"))
       ELSE Raises(c)

Cancelled(c) == call[c].pc \notin Resting /\ Raises(c)

BeginStep(c) ==
    /\ call[c].pc \in Resting
    /\ \E scope \in TenantIds :
        \/ \E criteria \in FindCriteria : Find(c, scope, criteria)
        \/ \E id \in Ids :
            \/ GetById(c, scope, id)
            \/ \E tenant \in Owners : Create(c, scope, id, tenant)
            \/ \E extra \in Extras :
                \/ Delete(c, scope, id, extra)
                \/ \E changes \in Changes : Update(c, scope, id, extra, changes)
        \/ \E ids \in Batches :
            \/ \E tenant \in Owners : BulkCreate(c, scope, ids, tenant)
            \/ \E extra \in Extras :
                \/ BulkDelete(c, scope, ids, extra)
                \/ \E changes \in Changes : BulkUpdate(c, scope, ids, extra, changes)

CallStep(c) ==
    \/ Get(c) \/ FirstOfPage(c) \/ RestOfPage(c)
    \/ RelationalCreate(c) \/ DocumentCreate(c) \/ VectorCreate(c)
    \/ UpdateMatched(c) \/ UpdateMissed(c) \/ VectorUpdate(c) \/ Readback(c)
    \/ DeleteStatement(c) \/ Look(c) \/ RemovePoint(c) \/ Check(c)
    \/ Retrieve(c) \/ RemoveOwned(c)
    \/ StatementFails(c) \/ Cancelled(c)

-----------------------------------------------------------------------------
(* Safety.                                                                   *)

\* A change that makes its own criteria false, as in a compare-and-set.
FalsifiesCriteria(c) ==
    \E i \in DOMAIN call[c].criteria : call[c].criteria[i].field \in DOMAIN call[c].data

\* MongoDB's read-back is from a secondary that lags behind on the document.
Lags(c) ==
    LET id == Head(call[c].ids)
    IN  backend = "document" /\ deployment.replica /\ replica[id] # store[id]

\* What update() reports is what it did, or another caller interfered, or MongoDB's
\* read-back is from a lagging secondary.  An entity is returned only if the write
\* matched, and with the changes in it, unless it was changed again or that
\* secondary has not got them, or unless Qdrant's re-check finds a point that was
\* changed to match later, or matches it where the filter does not (a null field
\* under !=).  RecordNotFoundError after a write that matched means that the record
\* was deleted since, or, on Qdrant, that the change itself made the criteria false
\* or that Python and Qdrant differ on them.  The document repository's assertion
\* (document_repository.py:154, "matched_count > 0 guarantees the document exists")
\* fails only if the document was deleted since, or if the secondary has not got
\* it, which takes no other caller.
UpdateExplained ==
    \A c \in Callers : call[c].pc = "readback" =>
        LET differs == Differs(backend, ReadbackRow(c), call[c].criteria)
        IN  CASE UpdateAnswer(c) = "entity" ->
                    \/ /\ call[c].applied
                       /\ \/ call[c].disturbed
                          \/ Lags(c)
                          \/ \A f \in DOMAIN call[c].data : ReadbackRow(c)[f] = call[c].data[f]
                    \/ backend = "vector" /\ (call[c].disturbed \/ (~call[c].applied /\ differs))
              [] UpdateAnswer(c) = "RecordNotFoundError" ->
                    \/ call[c].disturbed
                    \/ /\ backend = "vector"
                       /\ \/ ~call[c].applied
                          \/ FalsifiesCriteria(c)
                          \/ ReadbackRow(c) # NoRow /\ differs
              [] UpdateAnswer(c) = "AssertionError" -> call[c].disturbed \/ Lags(c)

\* What Qdrant's delete() and scoped bulk_delete() report, from reads before and
\* after, is what they did unless another caller interfered: True if and only if
\* the point was removed, and as many as are removed, but for points that only
\* the re-check takes to match.
DeleteExplained ==
    \A c \in Callers :
        /\ call[c].pc = "check" /\ ~call[c].disturbed =>
            (DeleteAnswer(c) <=> call[c].applied)
        /\ call[c].pc = "owned" /\ ~call[c].disturbed =>
            \A id \in IdsOf(call[c].ids) :
                \/ id \in Hits(IdsOf(call[c].ids), call[c].criteria)
                \/ store[id] # NoRow /\ Differs(backend, store[id], call[c].criteria)

\* An operation scoped to a tenant answers with entities of that tenant only,
\* whatever other callers do meanwhile.  The exception is the read-back of an
\* SQL or MongoDB update, which is by id alone: it returns another tenant's
\* record if the updated one was deleted and its id created anew in between, or
\* if a lagging secondary of MongoDB still has the one of a former owner.
ReadsStayInTenant ==
    \A c \in Callers : LET scope == call[c].scope
    IN  scope # Null =>
        /\ call[c].pc = "get" /\ GetAnswer(c) # NoRow => GetAnswer(c).tenant_id = scope
        /\ call[c].pc \in {"find", "page"} =>
            \A id \in Found(c) : Readable[id].tenant_id = scope
        /\ call[c].pc = "readback" /\ UpdateAnswer(c) = "entity" =>
            \/ ReadbackRow(c).tenant_id = scope
            \/ backend # "vector" /\ call[c].disturbed
            \/ Lags(c)

Acts(c) == [call[c] EXCEPT !.disturbed = FALSE] # [call[c] EXCEPT !.disturbed = FALSE]'

\* No step of an operation scoped to a tenant changes, deletes or takes over a
\* record of another tenant, or hands one of its own to another tenant, even if
\* the record changed hands since the operation began.  The exception is an
\* upsert of points, which overwrites whatever has the id.
WritesStayInTenant ==
    [][ \A c \in Callers, id \in Ids :
            LET scope == call[c].scope
            IN  Acts(c) /\ scope # Null /\ store'[id] # store[id] =>
                    /\ \/ store[id] = NoRow \/ store[id].tenant_id = scope
                       \/ backend = "vector" /\ call[c].pc = "create"
                    /\ store'[id] = NoRow \/ store'[id].tenant_id = scope
      ]_repositoryVars

\* find() answers with as many items as the total it reports (the page being
\* large enough), unless another caller wrote, or the replica caught up, between
\* its two statements.
PageExplained ==
    \A c \in Callers :
        call[c].pc = "page" /\ ~call[c].disturbed => call[c].total = Cardinality(Found(c))

\* Lists of up to two filters.
FilterLists == UNION { [1..n -> DOMAIN Filters] : n \in 0..2 }

\* A criteria list selects on each backend the rows that Python, and so the
\* re-checks of the vector repository, takes to satisfy it, also where two
\* filters on one field are merged into one clause; but for the filters that
\* Differs names, which include most texts under CONTAINS on Qdrant.  It does not
\* depend on what is stored, and is looked at before anything is.
CriteriaAgree ==
    /\ \A c \in Callers : call[c] = Ended("returned")
    /\ \A id \in Ids : store[id] = NoRow /\ replica[id] = NoRow
    =>
        \A list \in FilterLists, row \in Samples :
            LET criteria == [i \in DOMAIN list |-> Filters[list[i]]]
            IN  Expressible(backend, criteria) /\ ~Differs(backend, row, criteria)
                    => (Matches(backend, row, criteria) <=> MatchesCriteria(row, criteria))

=============================================================================
