------------------------- MODULE RepositoriesProofs -------------------------
(***************************************************************************)
(* Safety of the repositories and of the cache in front of them.           *)
(***************************************************************************)
EXTENDS CacheAside, CriteriaProofs, FiniteSetTheorems, SequenceTheorems

-----------------------------------------------------------------------------
(* Rows and changes.                                                       *)

\* Applying changes gives a row with the changed field, and else the old one.
LEMMA UpdatedRow ==
    ASSUME NEW row \in Row, NEW changes \in Changes
    PROVE  /\ Updated(row, changes) \in Row
           /\ DOMAIN changes \subseteq Fields
           /\ \A f \in Fields : Updated(row, changes)[f] =
                  IF f \in DOMAIN changes THEN changes[f] ELSE row[f]
           /\ "tenant_id" \in DOMAIN changes => changes["tenant_id"] \in Owners
<1> DEFINE new == Updated(row, changes)
<1>1. Fields = {"tenant_id", "val"} /\ Owners \subseteq TenantIds
  BY RepositoriesAssumption
<1>2. /\ DOMAIN changes \subseteq Fields
      /\ "tenant_id" \in DOMAIN changes => changes["tenant_id"] \in Owners
      /\ "val" \in DOMAIN changes => changes["val"] = 1
  BY <1>1 DEF Changes
<1>3. \A f \in Fields : new[f] = IF f \in DOMAIN changes THEN changes[f] ELSE row[f]
  BY DEF Updated
<1>4. new["tenant_id"] \in TenantIds /\ new["val"] \in {Null, 1}
  BY <1>1, <1>2, <1>3 DEF Row
<1>5. new = [tenant_id |-> new["tenant_id"], val |-> new["val"]]
  BY <1>1 DEF Updated
<1>6. new \in Row
  BY <1>4, <1>5 DEF Row
<1> QED BY <1>2, <1>3, <1>6

-----------------------------------------------------------------------------
(* Lists of criteria.                                                      *)

\* What IsCriteria says, with a set of values for the theorems on sequences.
LEMMA CriteriaSeq ==
    ASSUME NEW criteria, IsCriteria(criteria), NEW S, \A i \in DOMAIN criteria : criteria[i] \in S
    PROVE  /\ criteria \in Seq(S) /\ Len(criteria) \in Nat
           /\ DOMAIN criteria = 1..Len(criteria)
BY DEF IsCriteria

\* Putting two lists of criteria together.
IsConcat(ab, a, b) == ab = a \o b

LEMMA CriteriaConcat ==
    ASSUME NEW a, IsCriteria(a), NEW b, IsCriteria(b), NEW ab, IsConcat(ab, a, b)
    PROVE  /\ IsCriteria(ab)
           /\ \A i \in DOMAIN a : \E j \in DOMAIN ab : ab[j] = a[i]
           /\ \A i \in DOMAIN b : \E j \in DOMAIN ab : ab[j] = b[i]
           /\ \A j \in DOMAIN ab : \/ \E i \in DOMAIN a : ab[j] = a[i]
                                   \/ \E i \in DOMAIN b : ab[j] = b[i]
<1> DEFINE S == {a[i] : i \in DOMAIN a} \cup {b[i] : i \in DOMAIN b}
<1>1. /\ a \in Seq(S) /\ Len(a) \in Nat /\ DOMAIN a = 1..Len(a)
      /\ b \in Seq(S) /\ Len(b) \in Nat /\ DOMAIN b = 1..Len(b)
  BY CriteriaSeq
<1> HIDE DEF S
<1>2. /\ ab \in Seq(S)
      /\ Len(ab) = Len(a) + Len(b)
      /\ \A i \in 1..(Len(a) + Len(b)) :
             ab[i] = IF i <= Len(a) THEN a[i] ELSE b[i - Len(a)]
  BY <1>1, ConcatProperties DEF IsConcat
<1>3. /\ Len(ab) \in Nat /\ DOMAIN ab = 1..Len(ab) /\ ab = [i \in 1..Len(ab) |-> ab[i]]
  BY <1>2, LenProperties
<1>4. \A i \in DOMAIN a : i \in DOMAIN ab /\ ab[i] = a[i]
  BY <1>1, <1>2, <1>3
<1>5. ASSUME NEW i \in DOMAIN b PROVE i + Len(a) \in DOMAIN ab /\ ab[i + Len(a)] = b[i]
  <2>1. i \in 1..Len(b) /\ i + Len(a) \in 1..(Len(a) + Len(b)) /\ ~ (i + Len(a) <= Len(a))
    BY <1>1
  <2>2. (i + Len(a)) - Len(a) = i
    BY <1>1, <2>1
  <2> QED BY <1>2, <1>3, <2>1, <2>2
<1>6. ASSUME NEW j \in DOMAIN ab
      PROVE  \/ \E i \in DOMAIN a : ab[j] = a[i]
             \/ \E i \in DOMAIN b : ab[j] = b[i]
  <2>1. j \in 1..(Len(a) + Len(b))
    BY <1>2, <1>3
  <2>2. CASE j <= Len(a)
    <3>1. j \in DOMAIN a /\ ab[j] = a[j]
      BY <1>1, <1>2, <2>1, <2>2
    <3> QED BY <3>1
  <2>3. CASE ~ (j <= Len(a))
    <3>1. j - Len(a) \in DOMAIN b /\ ab[j] = b[j - Len(a)]
      BY <1>1, <1>2, <2>1, <2>3
    <3> QED BY <3>1
  <2> QED BY <2>2, <2>3
<1>7. \A j \in DOMAIN ab : IsFilter(ab[j])
  BY <1>6 DEF IsCriteria
<1>8. IsCriteria(ab)
  BY <1>3, <1>7 DEF IsCriteria
<1> QED BY <1>4, <1>5, <1>6, <1>8

\* The filter of a tenant.
LEMMA TenantFilterIs ==
    ASSUME NEW scope \in TenantIds
    PROVE  /\ IsCriteria(TenantFilter(scope))
           /\ scope # Null =>
                 \E i \in DOMAIN TenantFilter(scope) :
                     TenantFilter(scope)[i] = FieldFilter("tenant_id", "EQ", scope)
           /\ \A i \in DOMAIN TenantFilter(scope) :
                 scope # Null /\ TenantFilter(scope)[i] = FieldFilter("tenant_id", "EQ", scope)
<1> DEFINE filt == FieldFilter("tenant_id", "EQ", scope)
<1>1. filt.field = "tenant_id" /\ filt.operator = "EQ"
  BY DEF FieldFilter
<1>2. IsFilter(filt)
  BY <1>1, RepositoriesAssumption DEF IsFilter, Operator, Ordering
<1>3. TenantFilter(scope) = IF scope = Null THEN <<>> ELSE <<filt>>
  BY DEF TenantFilter
<1> HIDE DEF filt
<1>4. CASE scope = Null
  BY <1>3, <1>4 DEF IsCriteria
<1>5. CASE scope # Null
  <2>1. TenantFilter(scope) = <<filt>>
    BY <1>3, <1>5
  <2>2. Len(<<filt>>) = 1 /\ DOMAIN <<filt>> = 1..1 /\ <<filt>>[1] = filt
    OBVIOUS
  <2>3. <<filt>> = [i \in 1..1 |-> <<filt>>[i]]
    OBVIOUS
  <2>4. IsCriteria(<<filt>>)
    BY <1>2, <2>2, <2>3 DEF IsCriteria
  <2> QED BY <1>5, <2>1, <2>2, <2>4 DEF filt
<1> QED BY <1>4, <1>5

\* The criteria of a query of a tenant: they demand that the row is the tenant's.
LEMMA ScopedCriteriaIs ==
    ASSUME NEW scope \in TenantIds, NEW criteria \in FindCriteria,
           NEW list, list = ScopedCriteria(scope, criteria)
    PROVE  /\ IsCriteria(list)
           /\ scope # Null =>
                 \E i \in DOMAIN list : list[i] = FieldFilter("tenant_id", "EQ", scope)
<1> DEFINE mine == TenantFilter(scope)
<1>1. IsCriteria(criteria)
  BY CriteriaAssumption
<1>2. /\ IsCriteria(mine)
      /\ scope # Null => \E i \in DOMAIN mine : mine[i] = FieldFilter("tenant_id", "EQ", scope)
  BY TenantFilterIs
<1>3. IsConcat(list, criteria, mine)
  BY DEF ScopedCriteria, IsConcat
<1> HIDE DEF mine
<1>4. IsCriteria(list) /\ \A i \in DOMAIN mine : \E j \in DOMAIN list : list[j] = mine[i]
  BY <1>1, <1>2, <1>3, CriteriaConcat
<1> QED BY <1>2, <1>4

\* The criteria of a write: the row is the tenant's, and Qdrant's client takes them.
LEMMA WriteCriteriaIs ==
    ASSUME NEW scope \in TenantIds, NEW extra \in Extras,
           NEW list, list = WriteCriteria(scope, extra)
    PROVE  /\ IsCriteria(list)
           /\ scope # Null =>
                 \E i \in DOMAIN list : list[i] = FieldFilter("tenant_id", "EQ", scope)
           /\ \A d \in Deployments : Expressible(d.backend, list)
<1> DEFINE mine == TenantFilter(scope)
<1>1. IsCriteria(extra)
  BY CriteriaAssumption
<1>2. /\ IsCriteria(mine)
      /\ scope # Null => \E i \in DOMAIN mine : mine[i] = FieldFilter("tenant_id", "EQ", scope)
      /\ \A i \in DOMAIN mine : scope # Null /\ mine[i] = FieldFilter("tenant_id", "EQ", scope)
  BY TenantFilterIs
<1>3. IsConcat(list, mine, extra)
  BY DEF WriteCriteria, IsConcat
<1> HIDE DEF mine
<1>4. /\ IsCriteria(list)
      /\ \A i \in DOMAIN mine : \E j \in DOMAIN list : list[j] = mine[i]
      /\ \A j \in DOMAIN list : \/ \E i \in DOMAIN mine : list[j] = mine[i]
                                \/ \E i \in DOMAIN extra : list[j] = extra[i]
  BY <1>1, <1>2, <1>3, CriteriaConcat
<1>5. ASSUME NEW d \in Deployments PROVE Expressible(d.backend, list)
  <2>1. SUFFICES ASSUME NEW j \in DOMAIN list PROVE Takes(d.backend, list[j])
    BY DEF Expressible, Takes
  <2>2. CASE \E i \in DOMAIN mine : list[j] = mine[i]
    <3>1. scope # Null /\ list[j] = FieldFilter("tenant_id", "EQ", scope)
      BY <1>2, <2>2
    <3> QED BY <3>1 DEF FieldFilter, Takes, Ordering
  <2>3. CASE \E i \in DOMAIN extra : list[j] = extra[i]
    <3>1. Expressible(d.backend, extra)
      BY CriteriaAssumption
    <3> QED BY <2>3, <3>1 DEF Expressible, Takes
  <2> QED BY <1>4, <2>2, <2>3
<1> QED BY <1>2, <1>4, <1>5

-----------------------------------------------------------------------------
(* The ids of a sequence.                                                    *)

LEMMA HeadIs ==
    ASSUME NEW ids \in Seq(Ids)
    PROVE  /\ IdsOf(ids) \subseteq Ids
           /\ ids # <<>> => /\ Head(ids) \in IdsOf(ids)
                            /\ Tail(ids) \in Seq(Ids)
                            /\ IdsOf(Tail(ids)) \subseteq IdsOf(ids)
<1>1. DOMAIN ids = 1..Len(ids) /\ Len(ids) \in Nat /\ \A i \in 1..Len(ids) : ids[i] \in Ids
  OBVIOUS
<1>2. IdsOf(ids) \subseteq Ids
  BY <1>1 DEF IdsOf
<1>3. ASSUME ids # <<>>
      PROVE  /\ Head(ids) \in IdsOf(ids)
             /\ Tail(ids) \in Seq(Ids)
             /\ IdsOf(Tail(ids)) \subseteq IdsOf(ids)
  <2>1. Head(ids) = ids[1] /\ 1 \in DOMAIN ids
    BY <1>1, <1>3
  <2>2. Tail(ids) \in Seq(Ids) /\ Len(Tail(ids)) = Len(ids) - 1
        /\ \A i \in 1..Len(Tail(ids)) : Tail(ids)[i] = ids[i + 1]
    BY <1>3
  <2>3. ASSUME NEW i \in DOMAIN Tail(ids) PROVE Tail(ids)[i] \in IdsOf(ids)
    <3>1. i \in 1..Len(Tail(ids))
      BY <2>2
    <3>2. Tail(ids)[i] = ids[i + 1] /\ i + 1 \in DOMAIN ids
      BY <1>1, <2>2, <3>1
    <3> QED BY <3>2 DEF IdsOf
  <2> QED BY <2>1, <2>2, <2>3 DEF IdsOf
<1> QED BY <1>2, <1>3

-----------------------------------------------------------------------------
(* The invariant of a call: what its fields hold at each statement, and what *)
(* its history fields say of the rows it works on.  Deployment, call and     *)
(* rows are parameters, so that each fact is about one call at one moment.   *)

\* A call is a record of these fields.
IsCall(op) ==
    op = [ pc |-> op.pc, scope |-> op.scope, bulk |-> op.bulk, ids |-> op.ids,
           criteria |-> op.criteria, data |-> op.data, total |-> op.total,
           applied |-> op.applied, disturbed |-> op.disturbed ]

OfWrites == {"update", "readback", "delete", "look", "remove", "check", "retrieve", "owned"}

CallTyped(op) ==
    /\ IsCall(op)
    /\ op.pc \in PcOf
    /\ op.scope \in TenantIds
    /\ op.bulk \in BOOLEAN /\ op.applied \in BOOLEAN /\ op.disturbed \in BOOLEAN
    /\ op.ids \in Seq(Ids)
    /\ op.data \in Row \cup Changes \cup {Null}
    /\ op.total \in 0..Cardinality(Ids)
    /\ op.pc \in Resting => op = Ended(op.pc)
    /\ op.pc \notin Resting \cup {"find", "page"} => op.ids # <<>>
    /\ op.pc \in Resting \cup {"get", "create"} => op.criteria = <<>>
    /\ op.pc \in {"find", "page"} =>
        \E criteria \in FindCriteria : op.criteria = ScopedCriteria(op.scope, criteria)
    /\ op.pc \in OfWrites =>
        \E extra \in Extras : op.criteria = WriteCriteria(op.scope, extra)

\* What a tenant writes stays the tenant's.
DataKept(op) ==
    /\ op.pc = "create" => op.data \in Row /\ (op.scope # Null => op.data.tenant_id = op.scope)
    /\ op.pc \in {"update", "readback"} =>
        op.data \in Changes /\ ~RejectsReassignment(op.scope, op.data)

\* An update, between its write and its read-back.
UpdateKept(dep, op, st) ==
    op.pc = "readback" =>
        /\ dep.backend # "vector" => op.applied
        /\ ~op.disturbed =>
            LET row == st[Head(op.ids)]
            IN  IF op.applied
                THEN \E old \in Row : /\ Matches(dep.backend, old, op.criteria)
                                      /\ row = Updated(old, op.data)
                ELSE row = NoRow \/ ~Matches(dep.backend, row, op.criteria)

\* A delete of points, between its reads and its writes.
DeleteKept(dep, op, st) ==
    ~op.disturbed =>
        /\ op.pc = "remove" => st[Head(op.ids)] # NoRow
        /\ op.pc = "check" => (st[Head(op.ids)] = NoRow <=> op.applied)
        /\ op.pc = "owned" => \A id \in IdsOf(op.ids) : Owns(st[id], op.criteria)

\* Found(c), of a call.
FoundBy(dep, op, st, rep) ==
    {id \in Ids : LET row == IF dep.replica THEN rep[id] ELSE st[id]
                  IN  row # NoRow /\ Matches(dep.backend, row, op.criteria)}

\* A page, between its two statements.
PageKept(dep, op, st, rep) ==
    op.pc = "page" /\ ~op.disturbed => op.total = Cardinality(FoundBy(dep, op, st, rep))

CallKept(dep, op, st, rep) ==
    /\ CallTyped(op)
    /\ DataKept(op)
    /\ UpdateKept(dep, op, st)
    /\ DeleteKept(dep, op, st)
    /\ PageKept(dep, op, st, rep)

RepositoriesInv ==
    /\ deployment \in Deployments
    /\ store \in [Ids -> Row \cup {NoRow}]
    /\ replica \in [Ids -> Row \cup {NoRow}]
    /\ DOMAIN call = Callers
    /\ \A c \in Callers : CallKept(deployment, call[c], store, replica)

\* What another caller's operation works on: Concerns(d), of a call.
ConcernsOf(dep, op) ==
    CASE op.pc = "readback" -> {Head(op.ids)}
      [] op.pc \in {"remove", "check", "owned"} -> IdsOf(op.ids)
      [] op.pc = "page" /\ ~dep.replica -> Ids
      [] OTHER -> {}

\* What a step of c is for the others: only rows of its ids change, and a caller
\* whose operation works on one of these is disturbed.
StepOf(c) ==
    /\ deployment' = deployment
    /\ replica' = replica
    /\ store' \in [Ids -> Row \cup {NoRow}]
    /\ \A id \in Ids : id \notin IdsOf(call[c].ids) => store'[id] = store[id]
    /\ DOMAIN call' = Callers
    /\ \A d \in Callers : d # c =>
        \E b \in BOOLEAN :
            /\ call'[d] = [call[d] EXCEPT !.disturbed = b]
            /\ call[d].pc \in Resting => ~b
            /\ ~b => /\ ~call[d].disturbed
                     /\ \A id \in ConcernsOf(deployment, call[d]) : store'[id] = store[id]

\* An operation of a tenant touches rows of that tenant only (WritesStayInTenant).
TenantSafe(c) ==
    \A id \in Ids :
        call[c].scope # Null /\ store'[id] # store[id] =>
            /\ \/ store[id] = NoRow \/ store[id].tenant_id = call[c].scope
               \/ backend = "vector" /\ call[c].pc = "create"
            /\ store'[id] = NoRow \/ store'[id].tenant_id = call[c].scope

\* A write goes on as a write of some of the same ids, or it ends.
Onward(c) ==
    /\ call[c].pc = "get" => call'[c].pc \in Resting
    /\ call[c].pc \in {"create"} \cup OfWrites =>
        /\ call'[c].pc \in Resting \cup {"create"} \cup OfWrites
        /\ IdsOf(call'[c].ids) \subseteq IdsOf(call[c].ids)

GoodStep(c) ==
    /\ StepOf(c)
    /\ CallKept(deployment, call'[c], store', replica)
    /\ TenantSafe(c)
    /\ Onward(c)

-----------------------------------------------------------------------------
(* What a step leaves of the other calls.                                    *)

LEMMA SetDisturbed ==
    ASSUME NEW op, IsCall(op), NEW b
    PROVE  [op EXCEPT !.disturbed = b] =
             [ pc |-> op.pc, scope |-> op.scope, bulk |-> op.bulk, ids |-> op.ids,
               criteria |-> op.criteria, data |-> op.data, total |-> op.total,
               applied |-> op.applied, disturbed |-> b ]
<1> DEFINE r == [ pc |-> op.pc, scope |-> op.scope, bulk |-> op.bulk, ids |-> op.ids,
                  criteria |-> op.criteria, data |-> op.data, total |-> op.total,
                  applied |-> op.applied, disturbed |-> op.disturbed ]
<1>1. op = r
  BY DEF IsCall
<1>2. [r EXCEPT !.disturbed = b] =
             [ pc |-> op.pc, scope |-> op.scope, bulk |-> op.bulk, ids |-> op.ids,
               criteria |-> op.criteria, data |-> op.data, total |-> op.total,
               applied |-> op.applied, disturbed |-> b ]
  OBVIOUS
<1> HIDE DEF r
<1> QED BY <1>1, <1>2

\* Calls that differ from another in some fields.
SetFields(op, pc, ids, applied, disturbed) ==
    [op EXCEPT !.pc = pc, !.ids = ids, !.applied = applied, !.disturbed = disturbed]

LEMMA SetFieldsIs ==
    ASSUME NEW op, IsCall(op), NEW pc, NEW ids, NEW applied, NEW disturbed
    PROVE  SetFields(op, pc, ids, applied, disturbed) =
             [ pc |-> pc, scope |-> op.scope, bulk |-> op.bulk, ids |-> ids,
               criteria |-> op.criteria, data |-> op.data, total |-> op.total,
               applied |-> applied, disturbed |-> disturbed ]
<1> DEFINE r0 == [op EXCEPT !.pc = pc]
           r1 == [r0 EXCEPT !.ids = ids]
           r2 == [r1 EXCEPT !.applied = applied]
           r3 == [r2 EXCEPT !.disturbed = disturbed]
<1>1. SetFields(op, pc, ids, applied, disturbed) = r3
  BY DEF SetFields
<1>2. r0 =
             [ pc |-> pc, scope |-> op.scope, bulk |-> op.bulk, ids |-> op.ids,
               criteria |-> op.criteria, data |-> op.data, total |-> op.total,
               applied |-> op.applied, disturbed |-> op.disturbed ]
  BY DEF IsCall
<1> HIDE DEF r0
<1>3. r1 =
             [ pc |-> pc, scope |-> op.scope, bulk |-> op.bulk, ids |-> ids,
               criteria |-> op.criteria, data |-> op.data, total |-> op.total,
               applied |-> op.applied, disturbed |-> op.disturbed ]
  BY <1>2
<1> HIDE DEF r1
<1>4. r2 =
             [ pc |-> pc, scope |-> op.scope, bulk |-> op.bulk, ids |-> ids,
               criteria |-> op.criteria, data |-> op.data, total |-> op.total,
               applied |-> applied, disturbed |-> op.disturbed ]
  BY <1>3
<1> HIDE DEF r2
<1>5. r3 =
             [ pc |-> pc, scope |-> op.scope, bulk |-> op.bulk, ids |-> ids,
               criteria |-> op.criteria, data |-> op.data, total |-> op.total,
               applied |-> applied, disturbed |-> disturbed ]
  BY <1>4
<1> QED BY <1>1, <1>5

SetTotal(op, pc, total) ==
    [op EXCEPT !.pc = pc, !.total = total]

LEMMA SetTotalIs ==
    ASSUME NEW op, IsCall(op), NEW pc, NEW total
    PROVE  SetTotal(op, pc, total) =
             [ pc |-> pc, scope |-> op.scope, bulk |-> op.bulk, ids |-> op.ids,
               criteria |-> op.criteria, data |-> op.data, total |-> total,
               applied |-> op.applied, disturbed |-> op.disturbed ]
<1> DEFINE r0 == [op EXCEPT !.pc = pc]
           r1 == [r0 EXCEPT !.total = total]
<1>1. SetTotal(op, pc, total) = r1
  BY DEF SetTotal
<1>2. r0 =
             [ pc |-> pc, scope |-> op.scope, bulk |-> op.bulk, ids |-> op.ids,
               criteria |-> op.criteria, data |-> op.data, total |-> op.total,
               applied |-> op.applied, disturbed |-> op.disturbed ]
  BY DEF IsCall
<1> HIDE DEF r0
<1>3. r1 =
             [ pc |-> pc, scope |-> op.scope, bulk |-> op.bulk, ids |-> op.ids,
               criteria |-> op.criteria, data |-> op.data, total |-> total,
               applied |-> op.applied, disturbed |-> op.disturbed ]
  BY <1>2
<1> QED BY <1>1, <1>3

SetApplied(op, pc, applied) ==
    [op EXCEPT !.pc = pc, !.applied = applied]

LEMMA SetAppliedIs ==
    ASSUME NEW op, IsCall(op), NEW pc, NEW applied
    PROVE  SetApplied(op, pc, applied) =
             [ pc |-> pc, scope |-> op.scope, bulk |-> op.bulk, ids |-> op.ids,
               criteria |-> op.criteria, data |-> op.data, total |-> op.total,
               applied |-> applied, disturbed |-> op.disturbed ]
<1> DEFINE r0 == [op EXCEPT !.pc = pc]
           r1 == [r0 EXCEPT !.applied = applied]
<1>1. SetApplied(op, pc, applied) = r1
  BY DEF SetApplied
<1>2. r0 =
             [ pc |-> pc, scope |-> op.scope, bulk |-> op.bulk, ids |-> op.ids,
               criteria |-> op.criteria, data |-> op.data, total |-> op.total,
               applied |-> op.applied, disturbed |-> op.disturbed ]
  BY DEF IsCall
<1> HIDE DEF r0
<1>3. r1 =
             [ pc |-> pc, scope |-> op.scope, bulk |-> op.bulk, ids |-> op.ids,
               criteria |-> op.criteria, data |-> op.data, total |-> op.total,
               applied |-> applied, disturbed |-> op.disturbed ]
  BY <1>2
<1> QED BY <1>1, <1>3

SetIds(op, pc, ids) ==
    [op EXCEPT !.pc = pc, !.ids = ids]

LEMMA SetIdsIs ==
    ASSUME NEW op, IsCall(op), NEW pc, NEW ids
    PROVE  SetIds(op, pc, ids) =
             [ pc |-> pc, scope |-> op.scope, bulk |-> op.bulk, ids |-> ids,
               criteria |-> op.criteria, data |-> op.data, total |-> op.total,
               applied |-> op.applied, disturbed |-> op.disturbed ]
<1> DEFINE r0 == [op EXCEPT !.pc = pc]
           r1 == [r0 EXCEPT !.ids = ids]
<1>1. SetIds(op, pc, ids) = r1
  BY DEF SetIds
<1>2. r0 =
             [ pc |-> pc, scope |-> op.scope, bulk |-> op.bulk, ids |-> op.ids,
               criteria |-> op.criteria, data |-> op.data, total |-> op.total,
               applied |-> op.applied, disturbed |-> op.disturbed ]
  BY DEF IsCall
<1> HIDE DEF r0
<1>3. r1 =
             [ pc |-> pc, scope |-> op.scope, bulk |-> op.bulk, ids |-> ids,
               criteria |-> op.criteria, data |-> op.data, total |-> op.total,
               applied |-> op.applied, disturbed |-> op.disturbed ]
  BY <1>2
<1> QED BY <1>1, <1>3

SetPc(op, pc) ==
    [op EXCEPT !.pc = pc]

LEMMA SetPcIs ==
    ASSUME NEW op, IsCall(op), NEW pc
    PROVE  SetPc(op, pc) =
             [ pc |-> pc, scope |-> op.scope, bulk |-> op.bulk, ids |-> op.ids,
               criteria |-> op.criteria, data |-> op.data, total |-> op.total,
               applied |-> op.applied, disturbed |-> op.disturbed ]
<1> DEFINE r0 == [op EXCEPT !.pc = pc]
<1>1. SetPc(op, pc) = r0
  BY DEF SetPc
<1>2. r0 =
             [ pc |-> pc, scope |-> op.scope, bulk |-> op.bulk, ids |-> op.ids,
               criteria |-> op.criteria, data |-> op.data, total |-> op.total,
               applied |-> op.applied, disturbed |-> op.disturbed ]
  BY DEF IsCall
<1> QED BY <1>1, <1>2

\* A call that is disturbed, or whose rows stayed as they were, keeps its invariant.
LEMMA Disturbed ==
    ASSUME NEW dep, NEW op, NEW st, NEW st2, NEW rep, NEW rep2, NEW b \in BOOLEAN, NEW new,
           CallKept(dep, op, st, rep), new = [op EXCEPT !.disturbed = b],
           op.pc \in Resting => ~b,
           ~b => /\ ~op.disturbed
                 /\ \A id \in ConcernsOf(dep, op) : st2[id] = st[id]
                 /\ op.pc = "page" /\ dep.replica => rep2 = rep
    PROVE  /\ CallKept(dep, new, st2, rep2)
           /\ new.pc = op.pc /\ new.ids = op.ids /\ new.scope = op.scope
           /\ new.criteria = op.criteria /\ new.data = op.data
<1>1. new = [ pc |-> op.pc, scope |-> op.scope, bulk |-> op.bulk, ids |-> op.ids,
              criteria |-> op.criteria, data |-> op.data, total |-> op.total,
              applied |-> op.applied, disturbed |-> b ]
  BY SetDisturbed DEF CallKept, CallTyped
<1>2. /\ new.pc = op.pc /\ new.ids = op.ids /\ new.scope = op.scope
      /\ new.criteria = op.criteria /\ new.data = op.data /\ new.bulk = op.bulk
      /\ new.total = op.total /\ new.applied = op.applied /\ new.disturbed = b
  BY <1>1
<1>3. IsCall(new)
  BY <1>1, <1>2 DEF IsCall
<1>4. CallTyped(op) /\ DataKept(op) /\ UpdateKept(dep, op, st)
      /\ DeleteKept(dep, op, st) /\ PageKept(dep, op, st, rep)
  BY DEF CallKept
<1>5. op.pc \in Resting => new = Ended(new.pc)
  <2>1. SUFFICES ASSUME op.pc \in Resting PROVE new = Ended(new.pc)
    OBVIOUS
  <2>2. op = Ended(op.pc) /\ b = FALSE
    BY <1>4, <2>1 DEF CallTyped
  <2>3. PICK how : op = Ended(how)
    BY <2>2
  <2>4. /\ op.pc = how /\ op.scope = Null /\ op.bulk = FALSE /\ op.ids = <<>>
        /\ op.criteria = <<>> /\ op.data = Null /\ op.total = 0 /\ op.applied = FALSE
    BY <2>3 DEF Ended
  <2>5. new = [ pc |-> how, scope |-> Null, bulk |-> FALSE, ids |-> <<>>, criteria |-> <<>>,
                data |-> Null, total |-> 0, applied |-> FALSE, disturbed |-> FALSE ]
    BY <1>1, <2>2, <2>4
  <2> QED BY <1>2, <2>4, <2>5 DEF Ended
<1>6. CallTyped(new)
  BY <1>2, <1>3, <1>4, <1>5 DEF CallTyped
<1>7. DataKept(new)
  BY <1>2, <1>4 DEF DataKept
<1>8. UpdateKept(dep, new, st2)
  <2>1. SUFFICES ASSUME op.pc = "readback"
                 PROVE  UpdateKept(dep, new, st2)
    BY <1>2 DEF UpdateKept
  <2>2. ~b => ~op.disturbed /\ st2[Head(op.ids)] = st[Head(op.ids)]
    BY <2>1 DEF ConcernsOf
  <2> QED BY <1>2, <1>4, <2>1, <2>2 DEF UpdateKept
<1>9. DeleteKept(dep, new, st2)
  <2>1. SUFFICES ASSUME op.pc \in {"remove", "check", "owned"}, ~b
                 PROVE  DeleteKept(dep, new, st2)
    BY <1>2 DEF DeleteKept
  <2>2. \A id \in IdsOf(op.ids) : st2[id] = st[id]
    BY <2>1 DEF ConcernsOf
  <2>3. op.ids \in Seq(Ids) /\ op.ids # <<>>
    BY <1>4, <2>1 DEF CallTyped, Resting
  <2>4. Head(op.ids) \in IdsOf(op.ids)
    BY <2>3, HeadIs
  <2>5. ~op.disturbed
    BY <2>1
  <2> QED BY <1>2, <1>4, <2>1, <2>2, <2>4, <2>5 DEF DeleteKept
<1>10. PageKept(dep, new, st2, rep2)
  <2>1. SUFFICES ASSUME op.pc = "page", ~b
                 PROVE  op.total = Cardinality(FoundBy(dep, new, st2, rep2))
    BY <1>2 DEF PageKept
  <2>2. FoundBy(dep, new, st2, rep2) = FoundBy(dep, op, st, rep)
    <3>1. CASE dep.replica
      BY <1>2, <2>1, <3>1 DEF FoundBy
    <3>2. CASE ~dep.replica
      <4>1. \A id \in Ids : st2[id] = st[id]
        BY <2>1, <3>2 DEF ConcernsOf
      <4> QED BY <1>2, <3>2, <4>1 DEF FoundBy
    <3> QED BY <3>1, <3>2
  <2> QED BY <1>4, <2>1, <2>2 DEF PageKept
<1> QED BY <1>2, <1>6, <1>7, <1>8, <1>9, <1>10 DEF CallKept

\* A statement that changes no row.
LEMMA MovesStep ==
    ASSUME RepositoriesInv, NEW c \in Callers, NEW rest, Moves(c, rest)
    PROVE  StepOf(c) /\ store' = store /\ replica' = replica /\ call'[c] = rest
<1>1. /\ call' = [call EXCEPT ![c] = rest]
      /\ deployment' = deployment /\ store' = store /\ replica' = replica
  BY DEF Moves
<1>2. DOMAIN call = Callers /\ store \in [Ids -> Row \cup {NoRow}]
  BY DEF RepositoriesInv
<1>3. DOMAIN call' = Callers /\ call'[c] = rest
  BY <1>1, <1>2
<1>4. ASSUME NEW d \in Callers, d # c
      PROVE  \E b \in BOOLEAN :
            /\ call'[d] = [call[d] EXCEPT !.disturbed = b]
            /\ call[d].pc \in Resting => ~b
            /\ ~b => /\ ~call[d].disturbed
                     /\ \A id \in ConcernsOf(deployment, call[d]) : store'[id] = store[id]
  <2> DEFINE op == call[d]
  <2>1. CallTyped(op)
    BY DEF RepositoriesInv, CallKept
  <2>2. call'[d] = op
    BY <1>1, <1>2, <1>4
  <2> HIDE DEF op
  <2>3. IsCall(op) /\ op.disturbed \in BOOLEAN
    BY <2>1 DEF CallTyped
  <2>4. op = [op EXCEPT !.disturbed = op.disturbed]
    BY <2>3, SetDisturbed DEF IsCall
  <2>5. op.pc \in Resting => ~op.disturbed
    <3>1. SUFFICES ASSUME op.pc \in Resting PROVE ~op.disturbed
      OBVIOUS
    <3>2. PICK how : op = Ended(how)
      BY <2>1, <3>1 DEF CallTyped
    <3> QED BY <3>2 DEF Ended
  <2>6. op.disturbed \in BOOLEAN /\ call'[d] = [op EXCEPT !.disturbed = op.disturbed]
    BY <2>2, <2>3, <2>4
  <2> QED BY <1>1, <2>5, <2>6 DEF op
<1> QED BY <1>1, <1>2, <1>3, <1>4 DEF StepOf

\* A statement that changes rows of its ids.
LEMMA WritesStep ==
    ASSUME RepositoriesInv, NEW c \in Callers, NEW rest,
           NEW ids \in SUBSET Ids, ids \subseteq IdsOf(call[c].ids),
           NEW rows, \A id \in ids : rows[id] \in Row \cup {NoRow},
           Writes(c, ids, rows, rest)
    PROVE  /\ StepOf(c) /\ replica' = replica /\ call'[c] = rest
           /\ \A id \in Ids : store'[id] = IF id \in ids THEN rows[id] ELSE store[id]
<1> DEFINE changed == {id \in ids : rows[id] # store[id]}
<1>1. /\ store' = [id \in Ids |-> IF id \in ids THEN rows[id] ELSE store[id]]
      /\ call' = [ d \in Callers |->
                     IF d = c THEN rest
                     ELSE [call[d] EXCEPT !.disturbed =
                              @ \/ Concerns(d) \cap changed # {}] ]
      /\ deployment' = deployment /\ replica' = replica
  BY DEF Writes
<1>2. store \in [Ids -> Row \cup {NoRow}]
  BY DEF RepositoriesInv
<1>3. store' \in [Ids -> Row \cup {NoRow}]
  BY <1>1, <1>2
<1>4. \A id \in Ids : store'[id] = IF id \in ids THEN rows[id] ELSE store[id]
  BY <1>1
<1>5. DOMAIN call' = Callers /\ call'[c] = rest
  BY <1>1
<1>6. ASSUME NEW d \in Callers, d # c
      PROVE  \E b \in BOOLEAN :
            /\ call'[d] = [call[d] EXCEPT !.disturbed = b]
            /\ call[d].pc \in Resting => ~b
            /\ ~b => /\ ~call[d].disturbed
                     /\ \A id \in ConcernsOf(deployment, call[d]) : store'[id] = store[id]
  <2> DEFINE b == (call[d].disturbed \/ Concerns(d) \cap changed # {})
  <2>1. CallTyped(call[d])
    BY DEF RepositoriesInv, CallKept
  <2>2. call'[d] = [call[d] EXCEPT !.disturbed = b]
    BY <1>1, <1>6
  <2>3. Concerns(d) = ConcernsOf(deployment, call[d])
    BY DEF Concerns, ConcernsOf
  <2>4. b \in BOOLEAN
    BY <2>1 DEF CallTyped
  <2>5. call[d].pc \in Resting => ~b
    <3>1. SUFFICES ASSUME call[d].pc \in Resting PROVE ~b
      OBVIOUS
    <3>2. PICK how : call[d] = Ended(how)
      BY <2>1, <3>1 DEF CallTyped
    <3>3. ~call[d].disturbed
      BY <3>2 DEF Ended
    <3>4. Concerns(d) = {}
      BY <3>1 DEF Concerns, Resting
    <3> QED BY <3>3, <3>4
  <2>6. ASSUME ~b
        PROVE  /\ ~call[d].disturbed
               /\ \A id \in ConcernsOf(deployment, call[d]) : store'[id] = store[id]
    <3>1. ~call[d].disturbed /\ Concerns(d) \cap changed = {}
      BY <2>6
    <3>2. Concerns(d) \subseteq Ids
      <4>1. call[d].ids \in Seq(Ids)
        BY <2>1 DEF CallTyped
      <4>2. call[d].pc = "readback" => call[d].ids # <<>>
        BY <2>1 DEF CallTyped, Resting
      <4> QED BY <4>1, <4>2, HeadIs DEF Concerns
    <3>3. ASSUME NEW id \in Concerns(d) PROVE store'[id] = store[id]
      <4>1. id \in Ids /\ id \notin changed
        BY <3>1, <3>2
      <4> QED BY <1>4, <4>1
    <3> QED BY <2>3, <3>1, <3>3
  <2> HIDE DEF b
  <2> QED BY <2>2, <2>4, <2>5, <2>6
<1> QED BY <1>1, <1>3, <1>4, <1>5, <1>6 DEF StepOf

\* A good step keeps the invariant of all calls.
LEMMA GoodStepKeeps ==
    ASSUME RepositoriesInv, NEW c \in Callers, StepOf(c),
           CallKept(deployment, call'[c], store', replica)
    PROVE  RepositoriesInv'
<1>1. /\ deployment' = deployment /\ replica' = replica
      /\ store' \in [Ids -> Row \cup {NoRow}] /\ DOMAIN call' = Callers
  BY DEF StepOf
<1>2. ASSUME NEW d \in Callers PROVE CallKept(deployment, call'[d], store', replica)
  <2>1. CASE d = c
    BY <2>1
  <2>2. CASE d # c
    <3>1. PICK b \in BOOLEAN :
            /\ call'[d] = [call[d] EXCEPT !.disturbed = b]
            /\ call[d].pc \in Resting => ~b
            /\ ~b => /\ ~call[d].disturbed
                     /\ \A id \in ConcernsOf(deployment, call[d]) : store'[id] = store[id]
      BY <2>2 DEF StepOf
    <3>2. CallKept(deployment, call[d], store, replica)
      BY DEF RepositoriesInv
    <3> QED BY <3>1, <3>2, Disturbed
  <2> QED BY <2>1, <2>2
<1> QED BY <1>1, <1>2 DEF RepositoriesInv

-----------------------------------------------------------------------------
(* The calls that statements leave.                                          *)

\* An operation that has ended.
LEMMA EndedKept ==
    ASSUME NEW how \in Resting, NEW dep, NEW st, NEW rep
    PROVE  /\ CallKept(dep, Ended(how), st, rep)
           /\ Ended(how).pc \in Resting /\ IdsOf(Ended(how).ids) = {}
<1> DEFINE op == Ended(how)
<1>1. /\ op.pc = how /\ op.scope = Null /\ op.bulk = FALSE /\ op.ids = <<>>
      /\ op.criteria = <<>> /\ op.data = Null /\ op.total = 0
      /\ op.applied = FALSE /\ op.disturbed = FALSE
      /\ op = Ended(op.pc)
  BY DEF Ended
<1>2. IsCall(op)
  BY <1>1 DEF Ended, IsCall
<1>3. Cardinality(Ids) \in Nat
  BY IdsAssumption, FS_CardinalityType
<1>4. <<>> \in Seq(Ids) /\ IdsOf(<<>>) = {}
  BY DEF IdsOf
<1> HIDE DEF op
<1>5. CallTyped(op)
  <2>1. op.pc \in Resting /\ op.pc \in PcOf /\ op.pc \notin {"find", "page"} /\ op.pc \notin OfWrites
    BY <1>1 DEF Resting, PcOf, OfWrites
  <2>2. op.scope \in TenantIds /\ op.data \in Row \cup Changes \cup {Null}
    BY <1>1 DEF TenantIds
  <2>3. op.total \in 0..Cardinality(Ids)
    BY <1>1, <1>3
  <2> QED BY <1>1, <1>2, <1>4, <2>1, <2>2, <2>3 DEF CallTyped
<1>6. /\ DataKept(op) /\ UpdateKept(dep, op, st) /\ DeleteKept(dep, op, st)
      /\ PageKept(dep, op, st, rep)
  BY <1>1 DEF Resting, DataKept, UpdateKept, DeleteKept, PageKept
<1>7. CallKept(dep, op, st, rep)
  BY <1>5, <1>6 DEF CallKept
<1> QED BY <1>1, <1>4, <1>7 DEF op

\* What is known of a call in progress.
LEMMA InProgress ==
    ASSUME RepositoriesInv, NEW c \in Callers, call[c].pc \notin Resting \cup {"find", "page"}
    PROVE  /\ call[c].ids \in Seq(Ids) /\ call[c].ids # <<>>
           /\ Head(call[c].ids) \in Ids
           /\ Head(call[c].ids) \in IdsOf(call[c].ids)
           /\ IdsOf(call[c].ids) \subseteq Ids
           /\ CallKept(deployment, call[c], store, replica)
           /\ CallTyped(call[c])
<1>1. CallKept(deployment, call[c], store, replica) /\ CallTyped(call[c])
  BY DEF RepositoriesInv, CallKept
<1>2. call[c].ids \in Seq(Ids) /\ call[c].ids # <<>>
  BY <1>1 DEF CallTyped
<1> QED BY <1>1, <1>2, HeadIs

\* An item ends.
LEMMA AfterItemKept ==
    ASSUME RepositoriesInv, NEW c \in Callers, call[c].pc \in {"update", "readback", "create"},
           NEW how \in Resting, NEW st, NEW rep, NEW rest, rest = AfterItem(c, how)
    PROVE  /\ CallKept(deployment, rest, st, rep)
           /\ rest.pc \in Resting \cup {"create", "update"}
           /\ IdsOf(rest.ids) \subseteq IdsOf(call[c].ids)
<1> DEFINE op == call[c]
           left == Tail(op.ids)
           pc == IF op.pc = "readback" THEN "update" ELSE op.pc
           no == FALSE
<1>1. op.ids \in Seq(Ids) /\ op.ids # <<>> /\ CallKept(deployment, op, store, replica)
      /\ CallTyped(op) /\ DataKept(op) /\ IsCall(op)
  BY InProgress DEF Resting, CallKept, CallTyped
<1>2. left \in Seq(Ids) /\ IdsOf(left) \subseteq IdsOf(op.ids)
  BY <1>1, HeadIs
<1>3. CASE left = <<>>
  <2>1. PICK h \in Resting : rest = Ended(h)
    BY <1>3 DEF AfterItem, Resting
  <2> QED BY <2>1, EndedKept
<1>4. CASE left # <<>>
  <2>1. rest = SetFields(op, pc, left, no, no)
    BY <1>4 DEF AfterItem, SetFields
  <2> HIDE DEF left, pc, op, no
  <2>2. rest = [ pc |-> pc, scope |-> op.scope, bulk |-> op.bulk, ids |-> left,
                 criteria |-> op.criteria, data |-> op.data, total |-> op.total,
                 applied |-> no, disturbed |-> no ]
    BY <1>1, <2>1, SetFieldsIs
  <2>3. pc \in {"update", "create"} /\ (pc = "create" <=> op.pc = "create")
    BY DEF pc, op
  <2>4. /\ rest.pc = pc /\ rest.scope = op.scope /\ rest.bulk = op.bulk /\ rest.ids = left
        /\ rest.criteria = op.criteria /\ rest.data = op.data /\ rest.total = op.total
        /\ rest.applied = FALSE /\ rest.disturbed = FALSE
    BY <2>2 DEF no
  <2>5. IsCall(rest)
    BY <2>2, <2>4 DEF IsCall
  <2> HIDE DEF op
  <2>6. op.pc \in {"update", "readback", "create"}
    BY DEF op
  <2>7. CallTyped(rest)
    <3>1. /\ rest.pc \in PcOf /\ rest.pc \notin Resting \cup {"get", "find", "page"}
          /\ (rest.pc = "create" <=> op.pc = "create")
          /\ (rest.pc \in OfWrites <=> op.pc \in OfWrites)
      BY <2>3, <2>4, <2>6 DEF PcOf, Resting, OfWrites
    <3> QED BY <1>1, <1>2, <1>4, <2>4, <2>5, <2>6, <3>1 DEF CallTyped, Resting
  <2>8. DataKept(rest)
    BY <1>1, <2>3, <2>4, <2>6 DEF DataKept
  <2>9. UpdateKept(deployment, rest, st) /\ DeleteKept(deployment, rest, st)
        /\ PageKept(deployment, rest, st, rep)
    BY <2>3, <2>4 DEF UpdateKept, DeleteKept, PageKept
  <2> QED BY <1>2, <2>3, <2>4, <2>7, <2>8, <2>9 DEF CallKept, op
<1> QED BY <1>3, <1>4

\* A call that goes on to another statement.
LEMMA NextStatement ==
    ASSUME NEW op, CallTyped(op), DataKept(op), NEW pc, NEW ids, NEW total, NEW applied, NEW rest,
           rest = [ pc |-> pc, scope |-> op.scope, bulk |-> op.bulk, ids |-> ids,
                    criteria |-> op.criteria, data |-> op.data, total |-> total,
                    applied |-> applied, disturbed |-> op.disturbed ],
           \/ op.pc = "find" /\ pc = "page"
           \/ op.pc = "update" /\ pc = "readback"
           \/ op.pc \in {"look", "remove", "retrieve"} /\ pc \in {"remove", "check", "owned"},
           ids \in Seq(Ids), pc # "page" => ids # <<>>,
           total \in 0..Cardinality(Ids), applied \in BOOLEAN
    PROVE  /\ CallTyped(rest) /\ DataKept(rest)
           /\ rest.pc = pc /\ rest.scope = op.scope /\ rest.ids = ids
           /\ rest.criteria = op.criteria /\ rest.data = op.data /\ rest.total = total
           /\ rest.applied = applied /\ rest.disturbed = op.disturbed
<1>1. /\ rest.pc = pc /\ rest.scope = op.scope /\ rest.bulk = op.bulk /\ rest.ids = ids
      /\ rest.criteria = op.criteria /\ rest.data = op.data /\ rest.total = total
      /\ rest.applied = applied /\ rest.disturbed = op.disturbed
  OBVIOUS
<1>2. IsCall(rest)
  BY <1>1 DEF IsCall
<1>3. /\ pc \in PcOf /\ pc \notin Resting \cup {"get", "create", "find"}
      /\ (pc = "page" <=> op.pc = "find")
      /\ op.pc # "page"
      /\ (pc \in OfWrites <=> op.pc \in OfWrites)
  BY DEF PcOf, Resting, OfWrites
<1>4. CallTyped(rest)
  BY <1>1, <1>2, <1>3 DEF CallTyped
<1>5. DataKept(rest)
  BY <1>1, <1>3 DEF DataKept
<1> QED BY <1>1, <1>4, <1>5

-----------------------------------------------------------------------------
(* What the criteria of a call say of a row they match.                      *)

LEMMA CallCriteria ==
    ASSUME NEW op, CallTyped(op), op.pc \in {"find", "page"} \cup OfWrites
    PROVE  /\ IsCriteria(op.criteria)
           /\ op.scope # Null =>
                 \E i \in DOMAIN op.criteria :
                     op.criteria[i] = FieldFilter("tenant_id", "EQ", op.scope)
           /\ op.pc \in OfWrites => \A d \in Deployments : Expressible(d.backend, op.criteria)
<1>1. op.scope \in TenantIds
  BY DEF CallTyped
<1>2. CASE op.pc \in OfWrites
  <2>1. PICK extra \in Extras : op.criteria = WriteCriteria(op.scope, extra)
    BY <1>2 DEF CallTyped
  <2> QED BY <1>1, <2>1, WriteCriteriaIs
<1>3. CASE op.pc \notin OfWrites
  <2>1. PICK criteria \in FindCriteria : op.criteria = ScopedCriteria(op.scope, criteria)
    BY <1>3 DEF CallTyped
  <2> QED BY <1>1, <1>3, <2>1, ScopedCriteriaIs
<1> QED BY <1>2, <1>3

\* A row that a tenant's criteria match, on a backend or in Python, is the tenant's.
LEMMA MatchInTenant ==
    ASSUME NEW op, CallTyped(op), op.pc \in {"find", "page"} \cup OfWrites, op.scope # Null,
           NEW kind \in Backends, NEW row,
           Matches(kind, row, op.criteria) \/ MatchesCriteria(row, op.criteria)
    PROVE  row.tenant_id = op.scope
<1>1. IsCriteria(op.criteria)
  BY CallCriteria
<1>2. PICK i \in DOMAIN op.criteria : op.criteria[i] = FieldFilter("tenant_id", "EQ", op.scope)
  BY CallCriteria
<1>3. /\ op.criteria[i].operator = "EQ" /\ op.criteria[i].field = "tenant_id"
      /\ op.criteria[i].value = op.scope
  BY <1>2 DEF FieldFilter
<1>4. CASE Matches(kind, row, op.criteria)
  <2>1. kind \in {"relational", "document", "vector"}
    BY DEF Backends
  <2> QED BY <1>1, <1>3, <1>4, <2>1, EqualityHolds
<1>5. CASE MatchesCriteria(row, op.criteria)
  <2>1. PythonMatches(row[op.criteria[i].field], op.criteria[i])
    BY <1>5 DEF MatchesCriteria
  <2> QED BY <1>3, <2>1 DEF PythonMatches, Ordering
<1> QED BY <1>4, <1>5

-----------------------------------------------------------------------------
(* Operations begin well.                                                    *)

LEMMA BeginGood ==
    ASSUME RepositoriesInv, NEW c \in Callers, NEW operation, NEW scope \in TenantIds,
           NEW ids \in Seq(Ids), NEW criteria,
           NEW data \in Row \cup Changes \cup {Null},
           NEW pc \in {"get", "find", "create", "update", "delete", "look", "retrieve"},
           Begin(c, operation, pc, scope, ids, criteria, data),
           pc # "find" => ids # <<>>,
           pc \in {"get", "create"} => criteria = <<>>,
           pc = "find" => \E list \in FindCriteria : criteria = ScopedCriteria(scope, list),
           pc \in OfWrites => \E extra \in Extras : criteria = WriteCriteria(scope, extra),
           pc = "create" => data \in Row /\ (scope # Null => data.tenant_id = scope),
           pc = "update" => data \in Changes /\ ~RejectsReassignment(scope, data)
    PROVE  /\ GoodStep(c) /\ store' = store /\ call[c].pc \in Resting
           /\ call'[c].pc = pc /\ call'[c].ids = ids
<1> DEFINE rest == [ pc |-> pc, scope |-> scope,
                     bulk |-> operation \in {"bulk_create", "bulk_update", "bulk_delete"},
                     ids |-> ids, criteria |-> criteria, data |-> data,
                     total |-> 0, applied |-> FALSE, disturbed |-> FALSE ]
<1>1. Moves(c, rest) /\ call[c].pc \in Resting
  BY DEF Begin, Moves
<1>2. /\ rest.pc = pc /\ rest.scope = scope /\ rest.bulk \in BOOLEAN /\ rest.ids = ids
      /\ rest.criteria = criteria /\ rest.data = data /\ rest.total = 0
      /\ rest.applied = FALSE /\ rest.disturbed = FALSE
      /\ IsCall(rest)
  BY DEF IsCall
<1> HIDE DEF rest
<1>3. StepOf(c) /\ store' = store /\ replica' = replica /\ call'[c] = rest
  BY <1>1, MovesStep
<1>4. pc \in PcOf /\ pc \notin Resting \cup {"page"}
  BY DEF PcOf, Resting
<1>5. Cardinality(Ids) \in Nat
  BY IdsAssumption, FS_CardinalityType
<1>6. CallTyped(rest)
  <2>1. rest.total \in 0..Cardinality(Ids)
    BY <1>2, <1>5
  <2>2. pc \in {"get", "create"} \/ pc = "find" \/ pc \in OfWrites
    BY DEF OfWrites
  <2> QED BY <1>2, <1>4, <2>1, <2>2 DEF CallTyped
<1>7. DataKept(rest)
  BY <1>2 DEF DataKept
<1>8. UpdateKept(deployment, rest, store) /\ DeleteKept(deployment, rest, store)
      /\ PageKept(deployment, rest, store, replica)
  BY <1>2 DEF UpdateKept, DeleteKept, PageKept
<1>9. CallKept(deployment, rest, store, replica)
  BY <1>6, <1>7, <1>8 DEF CallKept
<1>10. TenantSafe(c)
  BY <1>3 DEF TenantSafe
<1>11. Onward(c)
  BY <1>1 DEF Onward, Resting, OfWrites
<1> QED BY <1>1, <1>2, <1>3, <1>9, <1>10, <1>11 DEF GoodStep

\* The ids that operations are given.
LEMMA OneId ==
    ASSUME NEW id \in Ids
    PROVE  <<id>> \in Seq(Ids) /\ <<id>> # <<>> /\ IdsOf(<<id>>) = {id}
<1>1. <<id>> \in Seq(Ids) /\ <<id>> # <<>> /\ DOMAIN <<id>> = 1..1 /\ <<id>>[1] = id
  OBVIOUS
<1> QED BY <1>1 DEF IdsOf

LEMMA BatchIs ==
    ASSUME NEW ids \in Batches
    PROVE  ids \in Seq(Ids) /\ ids # <<>>
<1>1. ids \in [1..Cardinality(Ids) -> Ids]
  BY DEF Batches
<1>2. Cardinality(Ids) \in Nat /\ Cardinality(Ids) # 0
  BY IdsAssumption, FS_CardinalityType, FS_EmptySet
<1>3. ids \in Seq(Ids)
  BY <1>1, <1>2, SeqDef
<1>4. 1 \in DOMAIN ids
  BY <1>1, <1>2
<1> QED BY <1>3, <1>4

LEMMA GetByIdGood ==
    ASSUME RepositoriesInv, NEW c \in Callers, NEW scope \in TenantIds, NEW id \in Ids,
           GetById(c, scope, id)
    PROVE  /\ GoodStep(c) /\ store' = store /\ call[c].pc \in Resting
           /\ call'[c].pc = "get" /\ call'[c].ids = <<id>>
<1>1. <<id>> \in Seq(Ids) /\ <<id>> # <<>>
  BY OneId
<1> QED BY <1>1, BeginGood DEF GetById, OfWrites

LEMMA FindGood ==
    ASSUME RepositoriesInv, NEW c \in Callers, NEW scope \in TenantIds,
           NEW criteria \in FindCriteria, Find(c, scope, criteria)
    PROVE  GoodStep(c)
<1>1. <<>> \in Seq(Ids)
  OBVIOUS
<1> QED BY <1>1, BeginGood DEF Find, OfWrites

\* create() and bulk_create().
LEMMA EntityIs ==
    ASSUME NEW scope \in TenantIds, NEW tenant \in TenantIds
    PROVE  /\ Entity(scope, tenant) \in Row
           /\ scope # Null => Entity(scope, tenant).tenant_id = scope
BY DEF Entity, Stamped, Row

LEMMA CreateGood ==
    ASSUME RepositoriesInv, NEW c \in Callers, NEW scope \in TenantIds, NEW ids \in Seq(Ids),
           ids # <<>>, NEW tenant \in TenantIds, NEW operation,
           Begin(c, operation, "create", scope, ids, <<>>, Entity(scope, tenant))
    PROVE  /\ GoodStep(c) /\ store' = store /\ call[c].pc \in Resting
           /\ call'[c].pc = "create" /\ call'[c].ids = ids
BY EntityIs, BeginGood DEF OfWrites

\* update() and bulk_update().
LEMMA UpdateGood ==
    ASSUME RepositoriesInv, NEW c \in Callers, NEW scope \in TenantIds, NEW ids \in Seq(Ids),
           ids # <<>>, NEW extra \in Extras, NEW changes \in Changes, NEW operation,
           ~RejectsReassignment(scope, changes),
           Begin(c, operation, "update", scope, ids, WriteCriteria(scope, extra), changes)
    PROVE  /\ GoodStep(c) /\ store' = store /\ call[c].pc \in Resting
           /\ call'[c].pc = "update" /\ call'[c].ids = ids
BY BeginGood DEF OfWrites

\* delete() and bulk_delete().
LEMMA DeleteGood ==
    ASSUME RepositoriesInv, NEW c \in Callers, NEW scope \in TenantIds, NEW ids \in Seq(Ids),
           ids # <<>>, NEW extra \in Extras, NEW operation,
           NEW pc \in {"delete", "look", "retrieve"},
           Begin(c, operation, pc, scope, ids, WriteCriteria(scope, extra), Null)
    PROVE  /\ GoodStep(c) /\ store' = store /\ call[c].pc \in Resting
           /\ call'[c].pc = pc /\ call'[c].ids = ids
<1> DEFINE criteria == WriteCriteria(scope, extra)
           nothing == Null
<1>1. /\ pc \in {"get", "find", "create", "update", "delete", "look", "retrieve"}
      /\ pc \notin {"get", "find", "create", "update"}
  OBVIOUS
<1>2. nothing \in Row \cup Changes \cup {Null}
  OBVIOUS
<1>3. \E e \in Extras : criteria = WriteCriteria(scope, e)
  OBVIOUS
<1>4. Begin(c, operation, pc, scope, ids, criteria, nothing)
  OBVIOUS
<1> HIDE DEF criteria, nothing
<1> QED BY <1>1, <1>2, <1>3, <1>4, BeginGood

LEMMA BeginStepGood ==
    ASSUME RepositoriesInv, NEW c \in Callers, BeginStep(c)
    PROVE  GoodStep(c)
<1>1. PICK scope \in TenantIds :
        \/ \E criteria \in FindCriteria : Find(c, scope, criteria)
        \/ \E id \in Ids :
            \/ GetById(c, scope, id)
            \/ \E tenant \in Owners : Create(c, scope, id, tenant)
            \/ \E extra \in Extras :
                \/ Delete(c, scope, id, extra)
                \/ \E changes \in Changes : Update(c, scope, id, extra, changes)
        \/ \E ids \in Batches :
            \/ \E tenant \in Owners : BulkCreate(c, scope, ids, tenant)
            \/ \E extra \in Extras :
                \/ BulkDelete(c, scope, ids, extra)
                \/ \E changes \in Changes : BulkUpdate(c, scope, ids, extra, changes)
  BY DEF BeginStep
<1>2. Owners \subseteq TenantIds
  BY RepositoriesAssumption
<1>3. CASE \E criteria \in FindCriteria : Find(c, scope, criteria)
  BY <1>3, FindGood
<1>4. ASSUME NEW id \in Ids, GetById(c, scope, id) PROVE GoodStep(c)
  BY <1>4, GetByIdGood
<1>5. ASSUME NEW id \in Ids, NEW tenant \in Owners, Create(c, scope, id, tenant) PROVE GoodStep(c)
  BY <1>2, <1>5, OneId, CreateGood DEF Create
<1>6. ASSUME NEW id \in Ids, NEW extra \in Extras, Delete(c, scope, id, extra) PROVE GoodStep(c)
  BY <1>6, OneId, DeleteGood DEF Delete
<1>7. ASSUME NEW id \in Ids, NEW extra \in Extras, NEW changes \in Changes,
             Update(c, scope, id, extra, changes)
      PROVE  GoodStep(c)
  BY <1>7, OneId, UpdateGood DEF Update
<1>8. ASSUME NEW ids \in Batches, NEW tenant \in Owners, BulkCreate(c, scope, ids, tenant)
      PROVE  GoodStep(c)
  BY <1>2, <1>8, BatchIs, CreateGood DEF BulkCreate
<1>9. ASSUME NEW ids \in Batches, NEW extra \in Extras, BulkDelete(c, scope, ids, extra)
      PROVE  GoodStep(c)
  BY <1>9, BatchIs, DeleteGood DEF BulkDelete
<1>10. ASSUME NEW ids \in Batches, NEW extra \in Extras, NEW changes \in Changes,
              BulkUpdate(c, scope, ids, extra, changes)
       PROVE  GoodStep(c)
  BY <1>10, BatchIs, UpdateGood DEF BulkUpdate
<1> QED BY <1>1, <1>3, <1>4, <1>5, <1>6, <1>7, <1>8, <1>9, <1>10

-----------------------------------------------------------------------------
(* Statements are good steps.                                                *)

LEMMA RestGood ==
    ASSUME RepositoriesInv, NEW c \in Callers, NEW how \in Resting, Moves(c, Ended(how))
    PROVE  GoodStep(c) /\ store' = store
<1>1. StepOf(c) /\ store' = store /\ replica' = replica /\ call'[c] = Ended(how)
  BY MovesStep
<1>2. CallKept(deployment, call'[c], store', replica)
      /\ call'[c].pc \in Resting /\ IdsOf(call'[c].ids) = {}
  BY <1>1, EndedKept
<1>3. TenantSafe(c)
  BY <1>1 DEF TenantSafe
<1>4. Onward(c)
  BY <1>2 DEF Onward
<1> QED BY <1>1, <1>2, <1>3, <1>4 DEF GoodStep

LEMMA AfterGood ==
    ASSUME RepositoriesInv, NEW c \in Callers, NEW how \in Resting,
           call[c].pc \in {"update", "readback", "create"}, Moves(c, AfterItem(c, how))
    PROVE  GoodStep(c) /\ store' = store
<1>1. StepOf(c) /\ store' = store /\ replica' = replica /\ call'[c] = AfterItem(c, how)
  BY MovesStep
<1>2. /\ CallKept(deployment, call'[c], store', replica)
      /\ call'[c].pc \in Resting \cup {"create", "update"}
      /\ IdsOf(call'[c].ids) \subseteq IdsOf(call[c].ids)
  BY <1>1, AfterItemKept
<1>3. TenantSafe(c)
  BY <1>1 DEF TenantSafe
<1>4. Onward(c)
  BY <1>2 DEF Onward, OfWrites
<1> QED BY <1>1, <1>2, <1>3, <1>4 DEF GoodStep

\* A write of rows of its own ids, within the tenant.
LEMMA WritesGood ==
    ASSUME RepositoriesInv, NEW c \in Callers, call[c].pc \in {"create"} \cup OfWrites,
           NEW ids \in SUBSET IdsOf(call[c].ids), NEW rows, NEW rest,
           \A id \in ids :
               /\ rows[id] \in Row \cup {NoRow}
               /\ call[c].scope # Null =>
                    /\ \/ store[id] = NoRow \/ store[id].tenant_id = call[c].scope
                       \/ backend = "vector" /\ call[c].pc = "create"
                    /\ rows[id] = NoRow \/ rows[id].tenant_id = call[c].scope,
           Writes(c, ids, rows, rest),
           CallKept(deployment, rest, store', replica),
           rest.pc \in Resting \cup {"create"} \cup OfWrites,
           IdsOf(rest.ids) \subseteq IdsOf(call[c].ids)
    PROVE  GoodStep(c)
<1>1. call[c].pc \notin Resting \cup {"get", "find", "page"}
  BY DEF Resting, OfWrites
<1>2. IdsOf(call[c].ids) \subseteq Ids
  BY <1>1, InProgress
<1>3. /\ StepOf(c) /\ call'[c] = rest
      /\ \A id \in Ids : store'[id] = IF id \in ids THEN rows[id] ELSE store[id]
  BY <1>2, WritesStep
<1>4. TenantSafe(c)
  BY <1>3 DEF TenantSafe
<1>5. Onward(c)
  BY <1>1, <1>3 DEF Onward
<1> QED BY <1>3, <1>4, <1>5 DEF GoodStep

LEMMA FirstOfPageGood ==
    ASSUME RepositoriesInv, NEW c \in Callers, FirstOfPage(c)
    PROVE  GoodStep(c)
<1> DEFINE op == call[c]
           total == Cardinality(Found(c))
           rest == SetTotal(op, "page", total)
<1>1. op.pc = "find" /\ Moves(c, rest)
  BY DEF FirstOfPage, Total, SetTotal
<1>2. CallTyped(op) /\ DataKept(op) /\ IsCall(op)
  BY DEF RepositoriesInv, CallKept, CallTyped
<1>3. StepOf(c) /\ store' = store /\ replica' = replica /\ call'[c] = rest
  BY <1>1, MovesStep
<1>4. Found(c) = FoundBy(deployment, op, store, replica)
  BY DEF Found, FoundBy, Matching, Readable, backend
<1>5. total \in 0..Cardinality(Ids)
  <2>1. Found(c) \subseteq Ids
    BY DEF Found, Matching
  <2>2. IsFiniteSet(Found(c)) /\ Cardinality(Found(c)) <= Cardinality(Ids)
    BY <2>1, IdsAssumption, FS_Subset
  <2> QED BY <2>2, IdsAssumption, FS_CardinalityType
<1> HIDE DEF total
<1>6. rest = [ pc |-> "page", scope |-> op.scope, bulk |-> op.bulk, ids |-> op.ids,
               criteria |-> op.criteria, data |-> op.data, total |-> total,
               applied |-> op.applied, disturbed |-> op.disturbed ]
  BY <1>2, SetTotalIs
<1> HIDE DEF op, rest
<1>7. op.ids \in Seq(Ids) /\ op.applied \in BOOLEAN
  BY <1>2 DEF CallTyped
<1>8. /\ CallTyped(rest) /\ DataKept(rest)
      /\ rest.pc = "page" /\ rest.criteria = op.criteria /\ rest.total = total
  BY <1>1, <1>2, <1>5, <1>6, <1>7, NextStatement
<1>9. FoundBy(deployment, rest, store, replica) = FoundBy(deployment, op, store, replica)
  BY <1>8 DEF FoundBy
<1>10. PageKept(deployment, rest, store, replica)
  BY <1>4, <1>8, <1>9 DEF PageKept, total
<1>11. UpdateKept(deployment, rest, store) /\ DeleteKept(deployment, rest, store)
  BY <1>8 DEF UpdateKept, DeleteKept
<1>12. CallKept(deployment, call'[c], store', replica)
  BY <1>3, <1>8, <1>10, <1>11 DEF CallKept
<1>13. TenantSafe(c)
  BY <1>3 DEF TenantSafe
<1>14. Onward(c)
  BY <1>1 DEF Onward, OfWrites, op
<1> QED BY <1>3, <1>12, <1>13, <1>14 DEF GoodStep

\* Creates.
LEMMA CreateStatementGood ==
    ASSUME RepositoriesInv, NEW c \in Callers,
           RelationalCreate(c) \/ DocumentCreate(c) \/ VectorCreate(c)
    PROVE  GoodStep(c)
<1> DEFINE op == call[c]
<1>1. op.pc = "create"
  BY DEF RelationalCreate, DocumentCreate, VectorCreate
<1>2. /\ Head(op.ids) \in IdsOf(op.ids) /\ IdsOf(op.ids) \subseteq Ids
      /\ CallTyped(op) /\ DataKept(op)
  BY <1>1, InProgress DEF Resting, CallKept
<1>3. op.data \in Row /\ (op.scope # Null => op.data.tenant_id = op.scope)
  BY <1>1, <1>2 DEF DataKept
<1>4. ASSUME NEW ids \in SUBSET IdsOf(op.ids), NEW rest,
             \A id \in ids : store[id] = NoRow \/ backend = "vector",
             Writes(c, ids, [id \in ids |-> op.data], rest),
             \/ \E how \in Resting : rest = Ended(how)
             \/ \E how \in Resting : rest = AfterItem(c, how)
      PROVE  GoodStep(c)
  <2> DEFINE rows == [id \in ids |-> op.data]
  <2>1. \A id \in ids : rows[id] = op.data
    OBVIOUS
  <2>2. /\ CallKept(deployment, rest, store', replica)
        /\ rest.pc \in Resting \cup {"create"} \cup OfWrites
        /\ IdsOf(rest.ids) \subseteq IdsOf(op.ids)
    <3>1. CASE \E how \in Resting : rest = Ended(how)
      BY <3>1, EndedKept
    <3>2. CASE \E how \in Resting : rest = AfterItem(c, how)
      BY <1>1, <3>2, AfterItemKept DEF OfWrites
    <3> QED BY <1>4, <3>1, <3>2
  <2>3. Writes(c, ids, rows, rest)
    BY <1>4
  <2> HIDE DEF rows
  <2> QED BY <1>1, <1>3, <1>4, <2>1, <2>2, <2>3, WritesGood
<1>5. CASE RelationalCreate(c)
  <2>1. PICK ids \in SUBSET Absent(IdsOf(op.ids)) :
            Writes(c, ids, [id \in ids |-> op.data],
                   Ended(IF ids = {} /\ ~op.bulk THEN "raised" ELSE "returned"))
    BY <1>5 DEF RelationalCreate
  <2>2. PICK how \in Resting :
            Writes(c, ids, [id \in ids |-> op.data], Ended(how))
    BY <2>1 DEF Resting
  <2>3. ids \in SUBSET IdsOf(op.ids) /\ \A id \in ids : store[id] = NoRow
    BY DEF Absent
  <2> HIDE DEF op
  <2> QED BY <1>4, <2>2, <2>3
<1>6. CASE DocumentCreate(c)
  <2> DEFINE id == Head(op.ids)
  <2>1. CASE store[id] = NoRow
    <3>1. Writes(c, {id}, [i \in {id} |-> op.data], AfterItem(c, "returned"))
      BY <1>6, <2>1 DEF DocumentCreate
    <3>2. {id} \in SUBSET IdsOf(op.ids) /\ \A i \in {id} : store[i] = NoRow
      BY <1>2, <2>1
    <3>3. "returned" \in Resting
      BY DEF Resting
    <3> HIDE DEF op, id
    <3> QED BY <1>4, <3>1, <3>2, <3>3
  <2>2. CASE store[id] # NoRow
    <3>1. Moves(c, AfterItem(c, "raised"))
      BY <1>6, <2>2 DEF DocumentCreate
    <3>2. "raised" \in Resting
      BY DEF Resting
    <3> QED BY <1>1, <3>1, <3>2, AfterGood
  <2> QED BY <2>1, <2>2
<1>7. CASE VectorCreate(c)
  <2> DEFINE ids == IdsOf(op.ids)
  <2>1. Writes(c, ids, [id \in ids |-> op.data], Ended("returned")) /\ backend = "vector"
    BY <1>7 DEF VectorCreate
  <2>2. "returned" \in Resting /\ ids \in SUBSET IdsOf(op.ids)
    BY DEF Resting
  <2> HIDE DEF op, ids
  <2> QED BY <1>4, <2>1, <2>2
<1> QED BY <1>5, <1>6, <1>7

\* Updates.
LEMMA WritesChangesGood ==
    ASSUME RepositoriesInv, NEW c \in Callers, call[c].pc = "update",
           NEW hit, hit = Hits({Head(call[c].ids)}, call[c].criteria),
           hit # {} \/ backend = "vector",
           WritesChanges(c, hit)
    PROVE  GoodStep(c)
<1> DEFINE op == call[c]
           id == Head(op.ids)
           applied == (hit # {})
           rest == SetApplied(op, "readback", applied)
           rows == [i \in hit |-> Updated(store[i], op.data)]
<1>1. op.pc = "update" /\ op.pc \notin Resting \cup {"find", "page"} /\ op.pc \in OfWrites
  BY DEF Resting, OfWrites
<1>2. /\ op.ids \in Seq(Ids) /\ op.ids # <<>> /\ id \in IdsOf(op.ids) /\ id \in Ids
      /\ IdsOf(op.ids) \subseteq Ids /\ CallTyped(op) /\ DataKept(op) /\ IsCall(op)
  BY <1>1, InProgress DEF CallKept, CallTyped
<1>3. op.data \in Changes /\ ~RejectsReassignment(op.scope, op.data)
  BY <1>1, <1>2 DEF DataKept
<1>4. /\ deployment \in Deployments /\ backend \in Backends
      /\ store \in [Ids -> Row \cup {NoRow}]
  BY RepositoriesAssumption DEF RepositoriesInv, backend
<1>5. Writes(c, hit, rows, rest)
  BY DEF WritesChanges, SetApplied
<1>6. /\ hit \subseteq {id}
      /\ \A i \in hit : store[i] # NoRow /\ Matches(backend, store[i], op.criteria)
      /\ hit = {} => store[id] = NoRow \/ ~Matches(backend, store[id], op.criteria)
  BY DEF Hits, Matching
<1>7. \A i \in hit : rows[i] = Updated(store[i], op.data)
  OBVIOUS
<1> HIDE DEF rows
<1>8. \A i \in hit : store[i] \in Row /\ rows[i] \in Row
  <2>1. TAKE i \in hit
  <2>2. store[i] \in Row
    BY <1>2, <1>4, <1>6
  <2>3. Updated(store[i], op.data) \in Row
    BY <1>3, <2>2, UpdatedRow
  <2> QED BY <1>7, <2>2, <2>3
<1>9. ASSUME NEW i \in hit, op.scope # Null
      PROVE  store[i].tenant_id = op.scope /\ rows[i].tenant_id = op.scope
  <2>1. store[i].tenant_id = op.scope
    BY <1>1, <1>2, <1>4, <1>6, <1>9, MatchInTenant
  <2>2. "tenant_id" \in Fields
    BY RepositoriesAssumption
  <2>3. rows[i]["tenant_id"] =
          IF "tenant_id" \in DOMAIN op.data THEN op.data["tenant_id"] ELSE store[i]["tenant_id"]
    <3>1. store[i] \in Row /\ rows[i] = Updated(store[i], op.data)
      BY <1>7, <1>8, <1>9
    <3>2. \A f \in Fields : Updated(store[i], op.data)[f] =
              IF f \in DOMAIN op.data THEN op.data[f] ELSE store[i][f]
      BY <1>3, <3>1, UpdatedRow
    <3> QED BY <2>2, <3>1, <3>2
  <2>4. "tenant_id" \in DOMAIN op.data => op.data["tenant_id"] = op.scope
    BY <1>3, <1>9 DEF RejectsReassignment
  <2> QED BY <2>1, <2>3, <2>4
<1>10. applied \in BOOLEAN
  OBVIOUS
<1> HIDE DEF applied
<1>11. rest = [ pc |-> "readback", scope |-> op.scope, bulk |-> op.bulk, ids |-> op.ids,
                criteria |-> op.criteria, data |-> op.data, total |-> op.total,
                applied |-> applied, disturbed |-> op.disturbed ]
  BY <1>2, SetAppliedIs
<1> HIDE DEF rest
<1>12. /\ CallTyped(rest) /\ DataKept(rest)
       /\ rest.pc = "readback" /\ rest.criteria = op.criteria /\ rest.ids = op.ids
       /\ rest.data = op.data /\ rest.applied = applied /\ rest.disturbed = op.disturbed
  <2>1. op.total \in 0..Cardinality(Ids)
    BY <1>2 DEF CallTyped
  <2> HIDE DEF op
  <2> QED BY <1>1, <1>2, <1>10, <1>11, <2>1, NextStatement
<1>13. hit \in SUBSET Ids /\ hit \subseteq IdsOf(call[c].ids)
  BY <1>2, <1>6
<1>14. \A i \in Ids : store'[i] = IF i \in hit THEN rows[i] ELSE store[i]
  <2>1. \A i \in hit : rows[i] \in Row \cup {NoRow}
    BY <1>8
  <2> QED BY <1>5, <1>13, <2>1, WritesStep
<1>15. UpdateKept(deployment, rest, store')
  <2>1. deployment.backend # "vector" => rest.applied
    BY <1>12 DEF applied, backend
  <2>2. CASE applied
    <3>1. id \in hit
      BY <1>6, <2>2 DEF applied
    <3>2. store'[id] = Updated(store[id], op.data) /\ store[id] \in Row
          /\ Matches(backend, store[id], op.criteria)
      BY <1>2, <1>6, <1>7, <1>8, <1>14, <3>1
    <3> QED BY <1>12, <2>1, <2>2, <3>2 DEF UpdateKept, backend
  <2>3. CASE ~applied
    <3>1. hit = {}
      BY <2>3 DEF applied
    <3>2. store'[id] = store[id]
      BY <1>2, <1>14, <3>1
    <3>3. store[id] = NoRow \/ ~Matches(backend, store[id], op.criteria)
      BY <1>6, <3>1
    <3> QED BY <1>12, <2>1, <2>3, <3>2, <3>3 DEF UpdateKept, backend
  <2> QED BY <2>2, <2>3
<1>16. DeleteKept(deployment, rest, store') /\ PageKept(deployment, rest, store', replica)
  BY <1>12 DEF DeleteKept, PageKept
<1>17. CallKept(deployment, rest, store', replica)
  BY <1>12, <1>15, <1>16 DEF CallKept
<1>18. rest.pc \in Resting \cup {"create"} \cup OfWrites /\ IdsOf(rest.ids) \subseteq IdsOf(op.ids)
  BY <1>12 DEF OfWrites
<1>19. \A i \in hit :
         /\ rows[i] \in Row \cup {NoRow}
         /\ call[c].scope # Null =>
              /\ \/ store[i] = NoRow \/ store[i].tenant_id = call[c].scope
                 \/ backend = "vector" /\ call[c].pc = "create"
              /\ rows[i] = NoRow \/ rows[i].tenant_id = call[c].scope
  BY <1>8, <1>9
<1>20. call[c].pc \in {"create"} \cup OfWrites
  BY <1>1
<1>21. hit \in SUBSET IdsOf(call[c].ids)
  BY <1>13
<1> HIDE DEF op, id
<1> QED BY <1>5, <1>17, <1>18, <1>19, <1>20, <1>21, WritesGood DEF op

LEMMA UpdateStatementGood ==
    ASSUME RepositoriesInv, NEW c \in Callers,
           UpdateMatched(c) \/ UpdateMissed(c) \/ VectorUpdate(c) \/ Readback(c)
    PROVE  GoodStep(c)
<1>1. "returned" \in Resting /\ "raised" \in Resting
  BY DEF Resting
<1>2. CASE UpdateMatched(c)
  BY <1>2, WritesChangesGood DEF UpdateMatched
<1>3. CASE UpdateMissed(c)
  BY <1>1, <1>3, AfterGood DEF UpdateMissed
<1>4. CASE VectorUpdate(c)
  BY <1>4, WritesChangesGood DEF VectorUpdate
<1>5. CASE Readback(c)
  <2>1. call[c].pc = "readback"
    BY <1>5 DEF Readback
  <2>2. deployment.backend \in Backends
    BY RepositoriesAssumption DEF RepositoriesInv
  <2>3. UpdateAnswer(c) \in {"entity", "RecordNotFoundError", "AssertionError"}
    BY <2>2 DEF UpdateAnswer, RelationalAnswer, DocumentAnswer, VectorAnswer, backend, Backends
  <2>4. \/ Moves(c, AfterItem(c, "returned")) \/ Moves(c, AfterItem(c, "raised"))
        \/ Moves(c, Ended("raised"))
    BY <1>5, <2>3 DEF Readback, Raises
  <2> QED BY <1>1, <2>1, <2>4, AfterGood, RestGood
<1> QED BY <1>2, <1>3, <1>4, <1>5

\* Removing rows that match.
LEMMA RemovesGood ==
    ASSUME RepositoriesInv, NEW c \in Callers, call[c].pc \in {"delete", "remove", "owned"},
           NEW hit, NEW from \in SUBSET IdsOf(call[c].ids),
           hit = Hits(from, call[c].criteria),
           NEW rest, Removes(c, hit, rest), CallKept(deployment, rest, store', replica),
           rest.pc \in Resting \cup {"create"} \cup OfWrites,
           IdsOf(rest.ids) \subseteq IdsOf(call[c].ids)
    PROVE  GoodStep(c)
<1> DEFINE op == call[c]
           rows == [i \in hit |-> NoRow]
<1>1. op.pc \in OfWrites /\ op.pc \in {"find", "page"} \cup OfWrites /\ op.pc # "create"
      /\ op.pc \notin Resting \cup {"find", "page"}
  BY DEF OfWrites, Resting
<1>2. CallTyped(op) /\ IdsOf(op.ids) \subseteq Ids
  BY <1>1, InProgress
<1>3. backend \in Backends
  BY RepositoriesAssumption DEF RepositoriesInv, backend
<1>4. Writes(c, hit, rows, rest) /\ \A i \in hit : rows[i] = NoRow
  BY DEF Removes
<1>5. hit \subseteq IdsOf(op.ids) /\ \A i \in hit : Matches(backend, store[i], op.criteria)
  BY DEF Hits, Matching
<1> HIDE DEF rows
<1>6. ASSUME NEW i \in hit, op.scope # Null PROVE store[i].tenant_id = op.scope
  BY <1>1, <1>2, <1>3, <1>5, <1>6, MatchInTenant
<1>7. \A i \in hit :
         /\ rows[i] \in Row \cup {NoRow}
         /\ call[c].scope # Null =>
              /\ \/ store[i] = NoRow \/ store[i].tenant_id = call[c].scope
                 \/ backend = "vector" /\ call[c].pc = "create"
              /\ rows[i] = NoRow \/ rows[i].tenant_id = call[c].scope
  BY <1>4, <1>6
<1>8. call[c].pc \in {"create"} \cup OfWrites /\ hit \in SUBSET IdsOf(call[c].ids)
  BY <1>1, <1>5
<1> HIDE DEF op
<1> QED BY <1>4, <1>7, <1>8, WritesGood

LEMMA RemoveAllGood ==
    ASSUME RepositoriesInv, NEW c \in Callers, DeleteStatement(c) \/ RemoveOwned(c)
    PROVE  GoodStep(c)
<1> DEFINE from == IdsOf(call[c].ids)
           hit == Hits(from, call[c].criteria)
           rest == Ended("returned")
<1>1. call[c].pc \in {"delete", "remove", "owned"} /\ Removes(c, hit, rest)
  BY DEF DeleteStatement, RemoveOwned
<1>2. /\ CallKept(deployment, rest, store', replica)
      /\ rest.pc \in Resting \cup {"create"} \cup OfWrites
      /\ IdsOf(rest.ids) \subseteq IdsOf(call[c].ids)
  <2>1. "returned" \in Resting
    BY DEF Resting
  <2> QED BY <2>1, EndedKept
<1>3. from \in SUBSET IdsOf(call[c].ids) /\ hit = Hits(from, call[c].criteria)
  OBVIOUS
<1> HIDE DEF from, hit, rest
<1> QED BY <1>1, <1>2, <1>3, RemovesGood

LEMMA RemovePointGood ==
    ASSUME RepositoriesInv, NEW c \in Callers, RemovePoint(c)
    PROVE  GoodStep(c)
<1> DEFINE op == call[c]
           id == Head(op.ids)
           hit == Hits({id}, op.criteria)
           applied == (hit # {})
           rest == SetApplied(op, "check", applied)
           rows == [i \in hit |-> NoRow]
<1>1. op.pc = "remove" /\ Removes(c, hit, rest) /\ Writes(c, hit, rows, rest)
  BY DEF RemovePoint, SetApplied, Removes
<1>2. op.pc \notin Resting \cup {"find", "page"}
  BY <1>1 DEF Resting
<1>3. /\ op.ids \in Seq(Ids) /\ op.ids # <<>> /\ id \in IdsOf(op.ids) /\ id \in Ids
      /\ IdsOf(op.ids) \subseteq Ids /\ CallTyped(op) /\ DataKept(op) /\ IsCall(op)
      /\ DeleteKept(deployment, op, store)
  BY <1>2, InProgress DEF CallKept, CallTyped
<1>4. hit \subseteq {id}
  BY DEF Hits, Matching
<1>5. \A i \in Ids : store'[i] = IF i \in hit THEN NoRow ELSE store[i]
  <2>1. \A i \in hit : rows[i] = NoRow
    OBVIOUS
  <2> HIDE DEF rows
  <2>2. /\ hit \in SUBSET Ids /\ hit \subseteq IdsOf(call[c].ids)
        /\ \A i \in hit : rows[i] \in Row \cup {NoRow}
    BY <1>3, <1>4, <2>1
  <2>3. \A i \in Ids : store'[i] = IF i \in hit THEN rows[i] ELSE store[i]
    BY <1>1, <2>2, WritesStep
  <2> QED BY <2>1, <2>3
<1>6. applied \in BOOLEAN
  OBVIOUS
<1> HIDE DEF rows, applied
<1>7. rest = [ pc |-> "check", scope |-> op.scope, bulk |-> op.bulk, ids |-> op.ids,
               criteria |-> op.criteria, data |-> op.data, total |-> op.total,
               applied |-> applied, disturbed |-> op.disturbed ]
  BY <1>3, SetAppliedIs
<1> HIDE DEF rest
<1>8. /\ CallTyped(rest) /\ DataKept(rest) /\ rest.pc = "check" /\ rest.ids = op.ids
      /\ rest.applied = applied /\ rest.disturbed = op.disturbed
  <2>1. op.total \in 0..Cardinality(Ids)
    BY <1>3 DEF CallTyped
  <2> HIDE DEF op
  <2> QED BY <1>1, <1>3, <1>6, <1>7, <2>1, NextStatement
<1>9. DeleteKept(deployment, rest, store')
  <2>1. SUFFICES ASSUME ~op.disturbed PROVE store'[id] = NoRow <=> applied
    BY <1>8 DEF DeleteKept
  <2>2. store[id] # NoRow
    BY <1>1, <1>3, <2>1 DEF DeleteKept
  <2>3. CASE hit = {}
    BY <1>3, <1>5, <2>2, <2>3 DEF applied
  <2>4. CASE hit # {}
    <3>1. id \in hit
      BY <1>4, <2>4
    <3> HIDE DEF hit, id
    <3> QED BY <1>3, <1>5, <2>4, <3>1 DEF applied
  <2> QED BY <2>3, <2>4
<1>10. UpdateKept(deployment, rest, store') /\ PageKept(deployment, rest, store', replica)
  BY <1>8 DEF UpdateKept, PageKept
<1>11. CallKept(deployment, rest, store', replica)
  BY <1>8, <1>9, <1>10 DEF CallKept
<1>12. rest.pc \in Resting \cup {"create"} \cup OfWrites /\ IdsOf(rest.ids) \subseteq IdsOf(call[c].ids)
  BY <1>8 DEF OfWrites
<1>13. {id} \in SUBSET IdsOf(call[c].ids) /\ hit = Hits({id}, call[c].criteria)
  BY <1>3
<1>14. call[c].pc \in {"delete", "remove", "owned"} /\ Removes(c, hit, rest)
  BY <1>1
<1> DEFINE from == {id}
<1>15. from \in SUBSET IdsOf(call[c].ids) /\ hit = Hits(from, call[c].criteria)
  BY <1>13
<1> HIDE DEF from, hit, id, op
<1> QED BY <1>11, <1>12, <1>14, <1>15, RemovesGood

LEMMA LookGood ==
    ASSUME RepositoriesInv, NEW c \in Callers, Look(c)
    PROVE  GoodStep(c)
<1> DEFINE op == call[c]
           id == Head(op.ids)
           rest == SetPc(op, "remove")
<1>1. op.pc = "look"
  BY DEF Look
<1>2. op.pc \notin Resting \cup {"find", "page"}
  BY <1>1 DEF Resting
<1>3. op.ids \in Seq(Ids) /\ op.ids # <<>> /\ CallTyped(op) /\ DataKept(op) /\ IsCall(op)
  BY <1>2, InProgress DEF CallKept, CallTyped
<1>4. CASE store[id] = NoRow
  <2>1. Moves(c, Ended("returned")) /\ "returned" \in Resting
    BY <1>4 DEF Look, Returns, Resting
  <2> QED BY <2>1, RestGood
<1>5. CASE store[id] # NoRow
  <2>1. Moves(c, rest)
    BY <1>5 DEF Look, SetPc
  <2>2. StepOf(c) /\ store' = store /\ replica' = replica /\ call'[c] = rest
    BY <2>1, MovesStep
  <2>3. rest = [ pc |-> "remove", scope |-> op.scope, bulk |-> op.bulk, ids |-> op.ids,
                 criteria |-> op.criteria, data |-> op.data, total |-> op.total,
                 applied |-> op.applied, disturbed |-> op.disturbed ]
    BY <1>3, SetPcIs
  <2> HIDE DEF rest
  <2>4. /\ CallTyped(rest) /\ DataKept(rest) /\ rest.pc = "remove" /\ rest.ids = op.ids
        /\ rest.disturbed = op.disturbed
    <3>1. op.total \in 0..Cardinality(Ids) /\ op.applied \in BOOLEAN
      BY <1>3 DEF CallTyped
    <3> HIDE DEF op
    <3> QED BY <1>1, <1>3, <2>3, <3>1, NextStatement
  <2>5. UpdateKept(deployment, rest, store) /\ PageKept(deployment, rest, store, replica)
        /\ DeleteKept(deployment, rest, store)
    BY <1>5, <2>4 DEF UpdateKept, PageKept, DeleteKept
  <2>6. CallKept(deployment, call'[c], store', replica)
    BY <2>2, <2>4, <2>5 DEF CallKept
  <2>7. TenantSafe(c)
    BY <2>2 DEF TenantSafe
  <2>8. Onward(c)
    BY <1>1, <2>2, <2>4 DEF Onward, OfWrites
  <2> QED BY <2>2, <2>6, <2>7, <2>8 DEF GoodStep
<1> QED BY <1>4, <1>5

\* The loop of Retrieve over the first n points.
Gathers(g, points, rows, criteria, n) ==
    g = [i \in 0..n |->
            IF i = 0 THEN <<>>
            ELSE IF Owns(rows[points[i]], criteria)
                 THEN Append(g[i - 1], points[i]) ELSE g[i - 1]]

LEMMA GathersExists ==
    ASSUME NEW points, NEW rows, NEW criteria, NEW L \in Nat
    PROVE  \E g : Gathers(g, points, rows, criteria, L)
<1> DEFINE G == {n \in 0..L : \E g : Gathers(g, points, rows, criteria, n)}
           More(seq, i) == IF Owns(rows[points[i]], criteria) THEN Append(seq, points[i]) ELSE seq
<1>1. 0 \in G
  <2> DEFINE g == [i \in 0..0 |-> <<>>]
  <2>1. Gathers(g, points, rows, criteria, 0)
    BY DEF Gathers
  <2> QED BY <2>1
<1>2. ASSUME NEW n \in 0..(L - 1), n \in G PROVE n + 1 \in G
  <2>1. PICK g : Gathers(g, points, rows, criteria, n)
    BY <1>2
  <2> DEFINE h == [i \in 0..(n + 1) |-> IF i = n + 1 THEN More(g[n], n + 1) ELSE g[i]]
  <2>2. \A i \in 0..n : h[i] = g[i]
    OBVIOUS
  <2>3. \A i \in 0..n : g[i] = IF i = 0 THEN <<>> ELSE More(g[i - 1], i)
    BY <2>1 DEF Gathers
  <2> HIDE DEF More
  <2>4. h[n + 1] = More(h[n], n + 1)
    OBVIOUS
  <2> DEFINE k == [i \in 0..(n + 1) |-> IF i = 0 THEN <<>> ELSE More(h[i - 1], i)]
  <2>5. ASSUME NEW i \in 0..(n + 1) PROVE h[i] = k[i]
    <3> HIDE DEF h
    <3>1. CASE i = 0
      BY <3>1, <2>2, <2>3
    <3>2. CASE i \in 1..n
      <4>1. i \in 0..n /\ i - 1 \in 0..n /\ i # 0
        BY <3>2
      <4> QED BY <4>1, <2>2, <2>3
    <3>3. CASE i = n + 1
      BY <3>3, <2>4
    <3> QED BY <3>1, <3>2, <3>3
  <2>6. h = k
    BY <2>5
  <2>7. Gathers(h, points, rows, criteria, n + 1)
    BY <2>6 DEF Gathers, More
  <2> QED BY <2>7
<1> HIDE DEF G
<1>3. \A n \in 0..L : n \in G
  BY <1>1, <1>2, InductionUpTo
<1> QED BY <1>3 DEF G

\* It gathers points that it was given, and that satisfy the criteria.
LEMMA GathersOwned ==
    ASSUME NEW points \in Seq(Ids), NEW rows, NEW criteria, NEW g,
           Gathers(g, points, rows, criteria, Len(points))
    PROVE  /\ g[Len(points)] \in Seq(Ids)
           /\ IdsOf(g[Len(points)]) \subseteq IdsOf(points)
           /\ \A id \in IdsOf(g[Len(points)]) : Owns(rows[id], criteria)
<1> DEFINE S == {id \in IdsOf(points) : Owns(rows[id], criteria)}
           L == Len(points)
           G == {n \in 0..L : g[n] \in Seq(S)}
<1>1. L \in Nat /\ DOMAIN points = 1..L /\ IdsOf(points) \subseteq Ids
  BY HeadIs
<1>2. \A i \in 0..L : g[i] = IF i = 0 THEN <<>>
                             ELSE IF Owns(rows[points[i]], criteria)
                                  THEN Append(g[i - 1], points[i]) ELSE g[i - 1]
  BY DEF Gathers
<1> HIDE DEF L, S
<1>3. 0 \in G
  <2>1. 0 \in 0..L /\ g[0] = <<>>
    BY <1>1, <1>2
  <2>2. <<>> \in Seq(S)
    OBVIOUS
  <2> QED BY <2>1, <2>2
<1>4. ASSUME NEW n \in 0..(L - 1), n \in G PROVE n + 1 \in G
  <2>1. n + 1 \in 0..L /\ n + 1 \in DOMAIN points /\ n + 1 # 0 /\ (n + 1) - 1 = n
    BY <1>1
  <2>2. g[n + 1] = IF Owns(rows[points[n + 1]], criteria)
                   THEN Append(g[n], points[n + 1]) ELSE g[n]
    BY <1>2, <2>1
  <2>3. Owns(rows[points[n + 1]], criteria) => points[n + 1] \in S
    BY <2>1 DEF IdsOf, S
  <2>4. g[n] \in Seq(S)
    BY <1>4
  <2>5. g[n + 1] \in Seq(S)
    BY <2>2, <2>3, <2>4
  <2> QED BY <2>1, <2>5
<1> HIDE DEF G
<1>5. \A n \in 0..L : n \in G
  BY <1>1, <1>3, <1>4, InductionUpTo
<1>6. g[L] \in Seq(S)
  BY <1>1, <1>5 DEF G
<1>7. S \subseteq Ids /\ S \subseteq IdsOf(points) /\ \A id \in S : Owns(rows[id], criteria)
  BY <1>1 DEF S
<1>8. g[L] \in Seq(Ids) /\ IdsOf(g[L]) \subseteq S
  BY <1>6, <1>7 DEF IdsOf
<1> QED BY <1>7, <1>8 DEF L

LEMMA RetrieveGood ==
    ASSUME RepositoriesInv, NEW c \in Callers, Retrieve(c)
    PROVE  GoodStep(c)
<1> DEFINE op == call[c]
           points == op.ids
           owned == CHOOSE g : Gathers(g, points, store, op.criteria, Len(points))
           ids == owned[Len(points)]
           rest == SetIds(op, "owned", ids)
<1>1. op.pc = "retrieve"
  BY DEF Retrieve
<1>2. op.pc \notin Resting \cup {"find", "page"}
  BY <1>1 DEF Resting
<1>3. points \in Seq(Ids) /\ CallTyped(op) /\ DataKept(op) /\ IsCall(op)
  BY <1>2, InProgress DEF CallKept, CallTyped
<1>4. Gathers(owned, points, store, op.criteria, Len(points))
  <2>1. Len(points) \in Nat
    BY <1>3
  <2> QED BY <2>1, GathersExists
<1>5. IF ids = <<>> THEN Returns(c) ELSE Moves(c, rest)
  BY DEF Retrieve, Gathers, SetIds
<1> HIDE DEF owned
<1>6. /\ ids \in Seq(Ids) /\ IdsOf(ids) \subseteq IdsOf(points)
      /\ \A id \in IdsOf(ids) : Owns(store[id], op.criteria)
  BY <1>3, <1>4, GathersOwned
<1> HIDE DEF ids
<1>7. CASE ids = <<>>
  <2>1. Moves(c, Ended("returned")) /\ "returned" \in Resting
    BY <1>5, <1>7 DEF Returns, Resting
  <2> QED BY <2>1, RestGood
<1>8. CASE ids # <<>>
  <2>1. StepOf(c) /\ store' = store /\ replica' = replica /\ call'[c] = rest
    BY <1>5, <1>8, MovesStep
  <2>2. rest = [ pc |-> "owned", scope |-> op.scope, bulk |-> op.bulk, ids |-> ids,
                 criteria |-> op.criteria, data |-> op.data, total |-> op.total,
                 applied |-> op.applied, disturbed |-> op.disturbed ]
    BY <1>3, SetIdsIs
  <2> HIDE DEF rest
  <2>3. /\ CallTyped(rest) /\ DataKept(rest) /\ rest.pc = "owned" /\ rest.ids = ids
        /\ rest.criteria = op.criteria /\ rest.disturbed = op.disturbed
    <3>1. op.total \in 0..Cardinality(Ids) /\ op.applied \in BOOLEAN
      BY <1>3 DEF CallTyped
    <3> HIDE DEF op
    <3> QED BY <1>1, <1>3, <1>6, <1>8, <2>2, <3>1, NextStatement
  <2>4. DeleteKept(deployment, rest, store)
    BY <1>6, <2>3 DEF DeleteKept
  <2>5. UpdateKept(deployment, rest, store) /\ PageKept(deployment, rest, store, replica)
    BY <2>3 DEF UpdateKept, PageKept
  <2>6. CallKept(deployment, call'[c], store', replica)
    BY <2>1, <2>3, <2>4, <2>5 DEF CallKept
  <2>7. TenantSafe(c)
    BY <2>1 DEF TenantSafe
  <2>8. Onward(c)
    BY <1>1, <1>6, <2>1, <2>3 DEF Onward, OfWrites
  <2> QED BY <2>1, <2>6, <2>7, <2>8 DEF GoodStep
<1> QED BY <1>7, <1>8

\* Every statement of an operation.
LEMMA CallStepGood ==
    ASSUME RepositoriesInv, NEW c \in Callers, CallStep(c)
    PROVE  GoodStep(c) /\ call[c].pc \notin Resting
<1>1. "returned" \in Resting /\ "raised" \in Resting
  BY DEF Resting
<1>2. call[c].pc \notin Resting
  BY DEF CallStep, Resting, Get, FirstOfPage, RestOfPage, RelationalCreate, DocumentCreate,
         VectorCreate, UpdateMatched, UpdateMissed, VectorUpdate, Readback, DeleteStatement,
         Look, RemovePoint, Check, Retrieve, RemoveOwned, StatementFails, Cancelled
<1> SUFFICES GoodStep(c)
  BY <1>2
<1>3. CASE Get(c) \/ RestOfPage(c) \/ Check(c) \/ Cancelled(c)
  BY <1>1, <1>3, RestGood DEF Get, RestOfPage, Check, Cancelled, Returns, Raises
<1>4. CASE StatementFails(c)
  <2>1. CASE \/ call[c].pc \in {"update", "readback"}
             \/ call[c].pc = "create" /\ backend = "document"
    <3>1. Moves(c, AfterItem(c, "raised"))
      BY <1>4, <2>1 DEF StatementFails
    <3> QED BY <1>1, <2>1, <3>1, AfterGood
  <2>2. CASE ~ ( \/ call[c].pc \in {"update", "readback"}
                 \/ call[c].pc = "create" /\ backend = "document" )
    <3>1. Moves(c, Ended("raised"))
      BY <1>4, <2>2 DEF StatementFails, Raises
    <3> QED BY <1>1, <3>1, RestGood
  <2> QED BY <2>1, <2>2
<1> QED BY <1>2, <1>3, <1>4, FirstOfPageGood, CreateStatementGood, UpdateStatementGood,
           RemoveAllGood, RemovePointGood, LookGood, RetrieveGood DEF CallStep

\* A call that is only disturbed has not acted.
LEMMA DisturbedOnly ==
    ASSUME NEW op, IsCall(op), NEW b
    PROVE  [[op EXCEPT !.disturbed = b] EXCEPT !.disturbed = FALSE] = [op EXCEPT !.disturbed = FALSE]
<1> DEFINE r == [ pc |-> op.pc, scope |-> op.scope, bulk |-> op.bulk, ids |-> op.ids,
                  criteria |-> op.criteria, data |-> op.data, total |-> op.total,
                  applied |-> op.applied, disturbed |-> op.disturbed ]
<1>1. op = r
  BY DEF IsCall
<1>2. [[r EXCEPT !.disturbed = b] EXCEPT !.disturbed = FALSE] = [r EXCEPT !.disturbed = FALSE]
  OBVIOUS
<1> HIDE DEF r
<1> QED BY <1>1, <1>2

\* A replica catching up disturbs the pages being read, and no other call.
LEMMA ReplicateKeeps ==
    ASSUME RepositoriesInv, NEW id \in Ids, Replicate(id)
    PROVE  /\ RepositoriesInv' /\ store' = store /\ deployment' = deployment
           /\ \A c \in Callers : call'[c].pc = call[c].pc /\ call'[c].ids = call[c].ids
           /\ \A c \in Callers : ~Acts(c)
<1>1. /\ replica' = [replica EXCEPT ![id] = store[id]]
      /\ deployment' = deployment /\ store' = store
      /\ DOMAIN call' = Callers
  BY DEF Replicate
<1>2. /\ replica \in [Ids -> Row \cup {NoRow}] /\ store \in [Ids -> Row \cup {NoRow}]
      /\ deployment \in Deployments
  BY DEF RepositoriesInv
<1>3. replica' \in [Ids -> Row \cup {NoRow}]
  BY <1>1, <1>2
<1>4. ASSUME NEW c \in Callers
      PROVE  /\ CallKept(deployment, call'[c], store, replica')
             /\ call'[c].pc = call[c].pc /\ call'[c].ids = call[c].ids
             /\ ~Acts(c)
  <2> DEFINE op == call[c]
             b == (op.disturbed \/ op.pc = "page")
  <2>1. CallKept(deployment, op, store, replica) /\ CallTyped(op)
    BY DEF RepositoriesInv, CallKept
  <2>2. b \in BOOLEAN
    BY <2>1 DEF CallTyped
  <2>3. call'[c] = [op EXCEPT !.disturbed = b]
    BY DEF Replicate
  <2>4. op.pc \in Resting => ~b
    <3>1. SUFFICES ASSUME op.pc \in Resting PROVE ~b
      OBVIOUS
    <3>2. PICK how : op = Ended(how)
      BY <2>1, <3>1 DEF CallTyped
    <3>3. ~op.disturbed
      BY <3>2 DEF Ended
    <3> QED BY <3>1, <3>3 DEF Resting
  <2>5. ~b => ~op.disturbed /\ op.pc # "page"
    OBVIOUS
  <2> HIDE DEF b, op
  <2>6. CallKept(deployment, call'[c], store, replica')
        /\ call'[c].pc = op.pc /\ call'[c].ids = op.ids
    BY <2>1, <2>2, <2>3, <2>4, <2>5, Disturbed
  <2>7. ~Acts(c)
    BY <2>1, <2>3, DisturbedOnly DEF CallTyped, Acts, op
  <2> QED BY <2>6, <2>7 DEF op
<1> QED BY <1>1, <1>2, <1>3, <1>4 DEF RepositoriesInv

-----------------------------------------------------------------------------
(* What the invariant says of the answers.                                   *)

\* A read-back sees what is stored, but for a lagging secondary.
LEMMA ReadbackFrom ==
    ASSUME NEW c \in Callers, ~Lags(c)
    PROVE  ReadbackRow(c) = store[Head(call[c].ids)]
BY DEF ReadbackRow, Readable, Lags

LEMMA UpdatesExplained ==
    ASSUME RepositoriesInv
    PROVE  UpdateExplained
<1> SUFFICES ASSUME NEW c \in Callers, call[c].pc = "readback"
             PROVE  LET differs == Differs(backend, ReadbackRow(c), call[c].criteria)
                    IN  CASE UpdateAnswer(c) = "entity" ->
                                \/ /\ call[c].applied
                                   /\ \/ call[c].disturbed
                                      \/ Lags(c)
                                      \/ \A f \in DOMAIN call[c].data :
                                            ReadbackRow(c)[f] = call[c].data[f]
                                \/ backend = "vector" /\ (call[c].disturbed \/ (~call[c].applied /\ differs))
                          [] UpdateAnswer(c) = "RecordNotFoundError" ->
                                \/ call[c].disturbed
                                \/ /\ backend = "vector"
                                   /\ \/ ~call[c].applied
                                      \/ FalsifiesCriteria(c)
                                      \/ ReadbackRow(c) # NoRow /\ differs
                          [] UpdateAnswer(c) = "AssertionError" -> call[c].disturbed \/ Lags(c)
  BY DEF UpdateExplained
<1> DEFINE op == call[c]
           row == ReadbackRow(c)
           answer == UpdateAnswer(c)
<1>1. /\ CallTyped(op) /\ DataKept(op) /\ UpdateKept(deployment, op, store)
      /\ op.pc = "readback" /\ op.pc \in OfWrites
      /\ backend \in Backends /\ deployment \in Deployments
  BY RepositoriesAssumption DEF RepositoriesInv, CallKept, OfWrites, backend
<1>2. op.data \in Changes /\ (~Lags(c) => row = store[Head(op.ids)])
  BY <1>1, ReadbackFrom DEF DataKept
<1>3. IsCriteria(op.criteria) /\ Expressible(backend, op.criteria)
  BY <1>1, CallCriteria DEF backend
<1>4. backend # "vector" => op.applied
  BY <1>1 DEF UpdateKept, backend
<1>5. ASSUME ~op.disturbed, op.applied, ~Lags(c)
      PROVE  \E old \in Row : /\ Matches(backend, old, op.criteria)
                              /\ row = Updated(old, op.data)
  BY <1>1, <1>2, <1>5 DEF UpdateKept, backend
<1>6. ASSUME ~op.disturbed, ~op.applied, ~Lags(c)
      PROVE  row = NoRow \/ ~Matches(backend, row, op.criteria)
  BY <1>1, <1>2, <1>6 DEF UpdateKept, backend
<1>7. /\ backend = "relational" =>
            answer = IF row = NoRow THEN "RecordNotFoundError" ELSE "entity"
      /\ backend = "document" =>
            answer = IF row = NoRow THEN "AssertionError" ELSE "entity"
      /\ backend = "vector" =>
            answer = IF row # NoRow /\ MatchesCriteria(row, op.criteria)
                     THEN "entity" ELSE "RecordNotFoundError"
  BY DEF UpdateAnswer, RelationalAnswer, DocumentAnswer, VectorAnswer, Rechecked
<1>8. backend = "relational" \/ backend = "document" \/ backend = "vector"
  BY <1>1 DEF Backends
<1>9. ASSUME ~op.disturbed, op.applied, ~Lags(c)
      PROVE  row # NoRow /\ \A f \in DOMAIN op.data : row[f] = op.data[f]
  <2>1. PICK old \in Row : row = Updated(old, op.data)
    BY <1>5, <1>9
  <2>2. row \in Row /\ DOMAIN op.data \subseteq Fields
        /\ \A f \in Fields : row[f] = IF f \in DOMAIN op.data THEN op.data[f] ELSE old[f]
    BY <1>2, <2>1, UpdatedRow
  <2> QED BY <2>2, IdsAssumption
<1>9a. backend = "vector" => ~Lags(c)
  BY DEF Lags
<1> HIDE DEF op, row, answer
<1>10. ASSUME answer = "entity"
       PROVE  \/ /\ op.applied
                 /\ op.disturbed \/ Lags(c) \/ \A f \in DOMAIN op.data : row[f] = op.data[f]
              \/ /\ backend = "vector"
                 /\ op.disturbed \/ (~op.applied /\ Differs(backend, row, op.criteria))
  <2>1. CASE op.applied
    BY <1>9, <2>1
  <2>2. CASE ~op.applied
    <3>1. backend = "vector" /\ row # NoRow /\ MatchesCriteria(row, op.criteria)
      BY <1>4, <1>7, <1>8, <1>10, <2>2
    <3>2. CASE ~op.disturbed
      <4>1. ~Matches("vector", row, op.criteria)
        BY <1>6, <1>9a, <2>2, <3>1, <3>2
      <4>2. Differs("vector", row, op.criteria)
        BY <1>3, <3>1, <4>1, BackendsAgree
      <4> QED BY <2>2, <3>1, <4>2
    <3>3. CASE op.disturbed
      BY <3>1, <3>3
    <3> QED BY <3>2, <3>3
  <2> QED BY <2>1, <2>2
<1>11. ASSUME answer = "RecordNotFoundError"
       PROVE  \/ op.disturbed
              \/ /\ backend = "vector"
                 /\ \/ ~op.applied
                    \/ FalsifiesCriteria(c)
                    \/ row # NoRow /\ Differs(backend, row, op.criteria)
  <2>1. SUFFICES ASSUME ~op.disturbed, op.applied
                 PROVE  /\ backend = "vector"
                        /\ FalsifiesCriteria(c) \/ (row # NoRow /\ Differs(backend, row, op.criteria))
    BY <1>4
  <2>2. backend # "document" /\ row # NoRow
    <3>1. backend # "document"
      BY <1>7, <1>11
    <3>2. ~Lags(c)
      BY <3>1 DEF Lags
    <3> QED BY <1>9, <2>1, <3>1, <3>2
  <2>3. backend = "vector" /\ ~MatchesCriteria(row, op.criteria)
    BY <1>7, <1>8, <1>11, <2>2
  <2>4. PICK old \in Row : Matches("vector", old, op.criteria) /\ row = Updated(old, op.data)
    BY <1>5, <1>9a, <2>1, <2>3
  <2>5. \A i \in DOMAIN op.criteria :
            /\ QdrantMatches(old[op.criteria[i].field], op.criteria[i])
            /\ IsFilter(op.criteria[i]) /\ Takes("vector", op.criteria[i])
    BY <1>3, <2>3, <2>4 DEF Matches, Expressible, Takes, IsCriteria
  <2>6. PICK i \in DOMAIN op.criteria :
            ~PythonMatches(row[op.criteria[i].field], op.criteria[i])
    BY <2>3 DEF MatchesCriteria
  <2>7. op.criteria[i].field \in Fields
    BY <2>5 DEF IsFilter
  <2>8. \A f \in Fields : row[f] = IF f \in DOMAIN op.data THEN op.data[f] ELSE old[f]
    BY <1>2, <2>4, UpdatedRow
  <2>9. CASE op.criteria[i].field \in DOMAIN op.data
    BY <2>3, <2>9 DEF FalsifiesCriteria, op
  <2>10. CASE op.criteria[i].field \notin DOMAIN op.data
    <3>1. row[op.criteria[i].field] = old[op.criteria[i].field]
      BY <2>7, <2>8, <2>10
    <3>2. FilterDiffers("vector", row[op.criteria[i].field], op.criteria[i])
      BY <2>5, <2>6, <3>1, QdrantIsPython
    <3> QED BY <2>2, <2>3, <3>2 DEF Differs
  <2> QED BY <2>9, <2>10
<1>12. ASSUME answer = "AssertionError" PROVE op.disturbed \/ Lags(c)
  <2>1. backend = "document" /\ row = NoRow
    BY <1>7, <1>8, <1>12
  <2> QED BY <1>4, <1>9, <2>1
<1>13. answer \in {"entity", "RecordNotFoundError", "AssertionError"}
  BY <1>7, <1>8
<1> QED BY <1>10, <1>11, <1>12, <1>13 DEF op, row, answer

LEMMA DeletesExplained ==
    ASSUME RepositoriesInv
    PROVE  DeleteExplained
<1> SUFFICES ASSUME NEW c \in Callers
             PROVE  /\ call[c].pc = "check" /\ ~call[c].disturbed =>
                        (DeleteAnswer(c) <=> call[c].applied)
                    /\ call[c].pc = "owned" /\ ~call[c].disturbed =>
                        \A id \in IdsOf(call[c].ids) :
                            \/ id \in Hits(IdsOf(call[c].ids), call[c].criteria)
                            \/ store[id] # NoRow /\ Differs(backend, store[id], call[c].criteria)
  BY DEF DeleteExplained
<1>1. CallTyped(call[c]) /\ DeleteKept(deployment, call[c], store) /\ deployment \in Deployments
  BY DEF RepositoriesInv, CallKept
<1>2. call[c].pc = "check" /\ ~call[c].disturbed => (DeleteAnswer(c) <=> call[c].applied)
  BY <1>1 DEF DeleteKept, DeleteAnswer
<1>3. ASSUME call[c].pc = "owned", ~call[c].disturbed, NEW id \in IdsOf(call[c].ids)
      PROVE  \/ id \in Hits(IdsOf(call[c].ids), call[c].criteria)
             \/ store[id] # NoRow /\ Differs(backend, store[id], call[c].criteria)
  <2>1. store[id] # NoRow /\ MatchesCriteria(store[id], call[c].criteria)
    BY <1>1, <1>3 DEF DeleteKept, Owns
  <2>2. IsCriteria(call[c].criteria) /\ Expressible(backend, call[c].criteria)
    BY <1>1, <1>3, CallCriteria DEF OfWrites, backend
  <2>3. backend \in {"relational", "document", "vector"}
    BY <1>1, RepositoriesAssumption DEF Backends, backend
  <2>4. CASE Differs(backend, store[id], call[c].criteria)
    BY <2>1, <2>4
  <2>5. CASE ~Differs(backend, store[id], call[c].criteria)
    <3>1. Matches(backend, store[id], call[c].criteria)
      BY <2>1, <2>2, <2>3, <2>5, BackendsAgree
    <3> QED BY <2>1, <3>1 DEF Hits, Matching
  <2> QED BY <2>4, <2>5
<1> QED BY <1>2, <1>3

LEMMA ReadsInTenant ==
    ASSUME RepositoriesInv
    PROVE  ReadsStayInTenant
<1> SUFFICES ASSUME NEW c \in Callers, call[c].scope # Null
             PROVE  LET scope == call[c].scope
                    IN  /\ call[c].pc = "get" /\ GetAnswer(c) # NoRow => GetAnswer(c).tenant_id = scope
                        /\ call[c].pc \in {"find", "page"} =>
                            \A id \in Found(c) : Readable[id].tenant_id = scope
                        /\ call[c].pc = "readback" /\ UpdateAnswer(c) = "entity" =>
                            \/ ReadbackRow(c).tenant_id = scope
                            \/ backend # "vector" /\ call[c].disturbed
                            \/ Lags(c)
  BY DEF ReadsStayInTenant
<1> DEFINE op == call[c]
<1>1. /\ CallTyped(op) /\ DataKept(op) /\ UpdateKept(deployment, op, store)
      /\ backend \in Backends
  BY RepositoriesAssumption DEF RepositoriesInv, CallKept, backend
<1>2. op.pc = "get" /\ GetAnswer(c) # NoRow => GetAnswer(c).tenant_id = op.scope
  BY DEF GetAnswer, Owned
<1>3. ASSUME op.pc \in {"find", "page"}, NEW id \in Found(c)
      PROVE  Readable[id].tenant_id = op.scope
  <2>1. Matches(backend, Readable[id], op.criteria)
    BY <1>3 DEF Found, Matching
  <2> QED BY <1>1, <1>3, <2>1, MatchInTenant
<1>4. ASSUME op.pc = "readback", UpdateAnswer(c) = "entity"
      PROVE  \/ ReadbackRow(c).tenant_id = op.scope
             \/ backend # "vector" /\ op.disturbed
             \/ Lags(c)
  <2> DEFINE row == ReadbackRow(c)
  <2>1. op.pc \in {"find", "page"} \cup OfWrites
    BY <1>4 DEF OfWrites
  <2>2. CASE backend = "vector"
    <3>1. MatchesCriteria(row, op.criteria)
      BY <1>4, <2>2 DEF UpdateAnswer, VectorAnswer, Rechecked
    <3> QED BY <1>1, <2>1, <3>1, MatchInTenant
  <2>3. CASE backend # "vector" /\ ~op.disturbed /\ ~Lags(c)
    <3>1. op.applied
      BY <1>1, <1>4, <2>3 DEF UpdateKept, backend
    <3>2. PICK old \in Row : Matches(backend, old, op.criteria) /\ row = Updated(old, op.data)
      BY <1>1, <1>4, <2>3, <3>1, ReadbackFrom DEF UpdateKept, backend
    <3>3. old.tenant_id = op.scope
      BY <1>1, <2>1, <3>2, MatchInTenant
    <3>4. op.data \in Changes /\ ("tenant_id" \in DOMAIN op.data => op.data["tenant_id"] = op.scope)
      BY <1>1, <1>4 DEF DataKept, RejectsReassignment
    <3>5. \A f \in Fields : row[f] = IF f \in DOMAIN op.data THEN op.data[f] ELSE old[f]
      BY <3>2, <3>4, UpdatedRow
    <3>6. "tenant_id" \in Fields
      BY RepositoriesAssumption
    <3> HIDE DEF row
    <3>7. row["tenant_id"] = op.scope
      BY <3>3, <3>4, <3>5, <3>6
    <3> QED BY <3>7 DEF row
  <2> QED BY <2>2, <2>3
<1> QED BY <1>2, <1>3, <1>4

LEMMA PagesExplained ==
    ASSUME RepositoriesInv
    PROVE  PageExplained
<1> SUFFICES ASSUME NEW c \in Callers, call[c].pc = "page", ~call[c].disturbed
             PROVE  call[c].total = Cardinality(Found(c))
  BY DEF PageExplained
<1>1. PageKept(deployment, call[c], store, replica)
  BY DEF RepositoriesInv, CallKept
<1>2. Found(c) = FoundBy(deployment, call[c], store, replica)
  BY DEF Found, FoundBy, Matching, Readable, backend
<1> QED BY <1>1, <1>2 DEF PageKept

\* The backends agree on all lists of these filters (from BackendsAgree).
LEMMA FilterListIs ==
    ASSUME NEW list \in FilterLists, NEW criteria,
           criteria = [i \in DOMAIN list |-> Filters[list[i]]]
    PROVE  IsCriteria(criteria)
<1> DEFINE S == {Filters[k] : k \in DOMAIN Filters}
<1>1. PICK n \in 0..2 : list \in [1..n -> DOMAIN Filters]
  BY DEF FilterLists
<1>2. criteria \in [1..n -> S] /\ n \in Nat
  BY <1>1
<1>3. \A i \in DOMAIN criteria : IsFilter(criteria[i])
  BY <1>1, CriteriaAssumption DEF IsCriteria
<1> HIDE DEF S
<1>4. criteria \in Seq(S)
  BY <1>2, SeqDef
<1>5. Len(criteria) \in Nat /\ DOMAIN criteria = 1..Len(criteria)
  BY <1>4
<1>6. criteria = [i \in 1..Len(criteria) |-> criteria[i]]
  BY <1>2, <1>5
<1> QED BY <1>3, <1>5, <1>6 DEF IsCriteria

LEMMA CriteriaDoAgree ==
    ASSUME RepositoriesInv
    PROVE  CriteriaAgree
<1>1. backend \in {"relational", "document", "vector"}
  BY RepositoriesAssumption DEF RepositoriesInv, Backends, backend
<1>2. ASSUME NEW list \in FilterLists, NEW row \in Samples, NEW criteria,
             criteria = [i \in DOMAIN list |-> Filters[list[i]]],
             Expressible(backend, criteria), ~Differs(backend, row, criteria)
      PROVE  Matches(backend, row, criteria) <=> MatchesCriteria(row, criteria)
  <2>1. IsCriteria(criteria)
    BY <1>2, FilterListIs
  <2> QED BY <1>1, <1>2, <2>1, BackendsAgree
<1> QED BY <1>2 DEF CriteriaAgree

\* After a good step of c no record has left its tenant.
LEMMA GoodStepInTenant ==
    ASSUME RepositoriesInv, NEW c \in Callers, GoodStep(c)
    PROVE  /\ \A d \in Callers : d # c =>
                ~Acts(d) /\ call'[d].pc = call[d].pc /\ call'[d].ids = call[d].ids
           /\ \A d \in Callers, id \in Ids :
                Acts(d) /\ call[d].scope # Null /\ store'[id] # store[id] =>
                    /\ \/ store[id] = NoRow \/ store[id].tenant_id = call[d].scope
                       \/ backend = "vector" /\ call[d].pc = "create"
                    /\ store'[id] = NoRow \/ store'[id].tenant_id = call[d].scope
<1>1. ASSUME NEW d \in Callers, d # c
      PROVE  ~Acts(d) /\ call'[d].pc = call[d].pc /\ call'[d].ids = call[d].ids
  <2> DEFINE op == call[d]
  <2>1. CallTyped(op) /\ IsCall(op)
    BY DEF RepositoriesInv, CallKept, CallTyped
  <2>2. PICK b \in BOOLEAN : call'[d] = [op EXCEPT !.disturbed = b]
    BY <1>1 DEF GoodStep, StepOf
  <2> HIDE DEF op
  <2>3. ~Acts(d)
    BY <2>1, <2>2, DisturbedOnly DEF Acts, op
  <2>4. call'[d].pc = op.pc /\ call'[d].ids = op.ids
    BY <2>1, <2>2, SetDisturbed
  <2> QED BY <2>3, <2>4 DEF op
<1>2. TenantSafe(c)
  BY DEF GoodStep
<1> QED BY <1>1, <1>2 DEF TenantSafe

-----------------------------------------------------------------------------
(* The cache.                                                                *)

\* A caller that uses the cache: what its write works on, and whether what it
\* has loaded is still what is stored.
ClientKept(op, cl, st) ==
    /\ cl \in Client
    /\ cl.pc = "idle" <=> cl = Done
    /\ cl.pc = "loading" => op.pc = "get" /\ op.ids = <<cl.id>>
    /\ cl.pc = "writing" => op.pc \in {"create"} \cup OfWrites /\ IdsOf(op.ids) \subseteq {cl.id}
    /\ cl.pc \in {"setting", "invalidating"} => op.pc \in Resting
    /\ cl.pc # "idle" => cl.id \in Ids
    /\ cl.pc = "setting" => cl.value # NoRow /\ (cl.value # st[cl.id] => cl.straddled)

CacheInv ==
    /\ cache \in [Ids -> Entry \cup {Empty}]
    /\ client \in [Callers -> Client]
    /\ \A c \in Callers : ClientKept(call[c], client[c], store)
    /\ ~UsesCache => \A c \in Callers : client[c] = Done
    /\ ~UsesCache => \A id \in Ids : cache[id] = Empty
    /\ StaleExplained

IInv == RepositoriesInv /\ CacheInv

LEMMA ClientSame ==
    ASSUME NEW op, NEW op2, NEW cl, NEW st, NEW st2, ClientKept(op, cl, st),
           op2.pc = op.pc, op2.ids = op.ids, cl.pc = "setting" => st2[cl.id] = st[cl.id]
    PROVE  ClientKept(op2, cl, st2)
BY DEF ClientKept

LEMMA DoneKept ==
    ASSUME NEW op, NEW st
    PROVE  ClientKept(op, Done, st) /\ Done \in Client /\ Done.pc = "idle"
<1>1. Done \in Client
  BY DEF Done, Client
<1>2. Done.pc = "idle"
  BY DEF Done
<1> QED BY <1>1, <1>2 DEF ClientKept

\* A client that goes on: its record, field by field.
LEMMA ClientIs ==
    ASSUME NEW pc \in {"loading", "setting", "writing", "invalidating"}, NEW id \in Ids,
           NEW value \in Row \cup {NoRow}, NEW straddled \in BOOLEAN, NEW cl,
           cl = [pc |-> pc, id |-> id, value |-> value, straddled |-> straddled]
    PROVE  /\ cl \in Client /\ cl # Done
           /\ cl.pc = pc /\ cl.id = id /\ cl.value = value /\ cl.straddled = straddled
<1>1. cl \in Client /\ cl.pc = pc /\ cl.id = id /\ cl.value = value /\ cl.straddled = straddled
  BY DEF Client
<1> QED BY <1>1 DEF Done

\* A client that begins.
Started(pc, id) == [Done EXCEPT !.pc = pc, !.id = id]

LEMMA StartedIs ==
    ASSUME NEW pc \in {"loading", "writing"}, NEW id \in Ids
    PROVE  /\ Started(pc, id) \in Client /\ Started(pc, id) # Done
           /\ Started(pc, id).pc = pc /\ Started(pc, id).id = id
<1> DEFINE none == Done
           begun == [none EXCEPT !.pc = pc]
           cl == [begun EXCEPT !.id = id]
           value == NoRow
           straddled == FALSE
<1>1. none = [pc |-> "idle", id |-> Null, value |-> value, straddled |-> straddled]
  BY DEF Done
<1>2. Started(pc, id) = cl
  BY DEF Started
<1>3. value \in Row \cup {NoRow} /\ straddled \in BOOLEAN
  OBVIOUS
<1> HIDE DEF none, value, straddled
<1>4. begun = [pc |-> pc, id |-> Null, value |-> value, straddled |-> straddled]
  BY <1>1
<1> HIDE DEF begun
<1>5. cl = [pc |-> pc, id |-> id, value |-> value, straddled |-> straddled]
  BY <1>4
<1> HIDE DEF cl
<1>6. cl \in Client /\ cl # Done /\ cl.pc = pc /\ cl.id = id
  BY <1>3, <1>5, ClientIs
<1> QED BY <1>2, <1>6

\* What stays of the invariant of the cache in a step that sets one client.
LEMMA OneClient ==
    ASSUME CacheInv, NEW c \in Callers, NEW cl, client' = [client EXCEPT ![c] = cl],
           deployment' = deployment,
           cache' \in [Ids -> Entry \cup {Empty}],
           ClientKept(call'[c], cl, store'),
           \A d \in Callers : d # c => call'[d].pc = call[d].pc /\ call'[d].ids = call[d].ids,
           store' = store,
           ~UsesCache => cl = Done,
           ~UsesCache => \A id \in Ids : cache'[id] = Empty,
           \A id \in Ids : cache'[id] # Empty /\ cache'[id].value # store[id] =>
                \/ cache'[id].excused
                \/ cl.pc \in {"writing", "invalidating"} /\ cl.id = id
                \/ /\ cache'[id] = cache[id]
                   /\ client[c].pc \in {"writing", "invalidating"} => client[c].id # id
    PROVE  CacheInv'
<1>1. client \in [Callers -> Client] /\ \A d \in Callers : ClientKept(call[d], client[d], store)
  BY DEF CacheInv
<1>2. client'[c] = cl /\ \A d \in Callers : d # c => client'[d] = client[d]
  BY <1>1
<1>3. cl \in Client
  BY DEF ClientKept
<1>4. client' \in [Callers -> Client]
  BY <1>1, <1>3
<1>5. ASSUME NEW d \in Callers PROVE ClientKept(call'[d], client'[d], store')
  <2>1. CASE d = c
    BY <1>2, <2>1
  <2>2. CASE d # c
    <3>1. client'[d] = client[d] /\ ClientKept(call[d], client[d], store)
          /\ call'[d].pc = call[d].pc /\ call'[d].ids = call[d].ids
      BY <1>1, <1>2, <2>2
    <3> QED BY <3>1, ClientSame
  <2> QED BY <2>1, <2>2
<1>6. UsesCache' <=> UsesCache
  BY DEF UsesCache
<1>7. ~UsesCache => \A d \in Callers : client'[d] = Done
  BY <1>2 DEF CacheInv
<1>8. StaleExplained'
  <2>1. SUFFICES ASSUME NEW id \in Ids, cache'[id] # Empty, cache'[id].value # store'[id]
                 PROVE  \/ cache'[id].excused
                        \/ \E d \in Callers :
                             client'[d].pc \in {"writing", "invalidating"} /\ client'[d].id = id
    BY DEF StaleExplained
  <2>2. CASE cache'[id].excused
    BY <2>2
  <2>3. CASE cl.pc \in {"writing", "invalidating"} /\ cl.id = id
    BY <1>2, <2>3
  <2>4. CASE /\ ~cache'[id].excused /\ cache'[id] = cache[id]
             /\ client[c].pc \in {"writing", "invalidating"} => client[c].id # id
    <3>1. PICK d \in Callers : client[d].pc \in {"writing", "invalidating"} /\ client[d].id = id
      BY <2>1, <2>4 DEF CacheInv, StaleExplained
    <3>2. d # c
      BY <2>4, <3>1
    <3> QED BY <1>2, <3>1, <3>2
  <2> QED BY <2>1, <2>2, <2>3, <2>4
<1> QED BY <1>4, <1>5, <1>6, <1>7, <1>8 DEF CacheInv

LEMMA MissKeeps ==
    ASSUME IInv, NEW c \in Callers, NEW id \in Ids, Miss(c, id)
    PROVE  GoodStep(c) /\ CacheInv'
<1>1. RepositoriesInv /\ CacheInv
  BY DEF IInv
<1>2. /\ UsesCache /\ client[c].pc = "idle" /\ GetById(c, Null, id) /\ cache' = cache
      /\ client' = [client EXCEPT ![c] = [Done EXCEPT !.pc = "loading", !.id = id]]
  BY DEF Miss
<1>3. /\ GoodStep(c) /\ store' = store /\ call'[c].pc = "get" /\ call'[c].ids = <<id>>
  BY <1>1, <1>2, GetByIdGood DEF TenantIds
<1>4. deployment' = deployment
  BY <1>3 DEF GoodStep, StepOf
<1> DEFINE cl == [Done EXCEPT !.pc = "loading", !.id = id]
<1>5. cl = Started("loading", id)
  BY DEF Started
<1>6. client' = [client EXCEPT ![c] = cl]
  BY <1>2
<1> HIDE DEF cl
<1>7. cl \in Client /\ cl # Done /\ cl.pc = "loading" /\ cl.id = id
  BY <1>5, StartedIs
<1>8. ClientKept(call'[c], cl, store')
  BY <1>3, <1>7 DEF ClientKept
<1>9. \A d \in Callers : d # c => call'[d].pc = call[d].pc /\ call'[d].ids = call[d].ids
  BY <1>1, <1>3, GoodStepInTenant
<1>10. cache' \in [Ids -> Entry \cup {Empty}]
  BY <1>1, <1>2 DEF CacheInv
<1>11. CacheInv'
  BY <1>1, <1>2, <1>3, <1>4, <1>6, <1>8, <1>9, <1>10, OneClient
<1> QED BY <1>3, <1>11

LEMMA BeginWriteKeeps ==
    ASSUME IInv, NEW c \in Callers, NEW id \in Ids, BeginWrite(c, id)
    PROVE  GoodStep(c) /\ CacheInv'
<1>1. RepositoriesInv /\ CacheInv
  BY DEF IInv
<1>2. /\ UsesCache /\ client[c].pc = "idle" /\ cache' = cache
      /\ \/ Create(c, Null, id, Null)
         \/ \E changes \in Changes : Update(c, Null, id, <<>>, changes)
         \/ Delete(c, Null, id, <<>>)
      /\ client' = [client EXCEPT ![c] = [Done EXCEPT !.pc = "writing", !.id = id]]
  BY DEF BeginWrite
<1>3. Null \in TenantIds /\ <<>> \in Extras
  BY CriteriaAssumption DEF TenantIds
<1>4. /\ GoodStep(c) /\ store' = store
      /\ call'[c].pc \in {"create"} \cup OfWrites /\ call'[c].ids = <<id>>
  <2>1. CASE Create(c, Null, id, Null)
    BY <1>1, <1>3, <2>1, OneId, CreateGood DEF Create
  <2>2. CASE \E changes \in Changes : Update(c, Null, id, <<>>, changes)
    <3>1. PICK changes \in Changes : Update(c, Null, id, <<>>, changes)
      BY <2>2
    <3>2. "update" \in OfWrites
      BY DEF OfWrites
    <3> QED BY <1>1, <1>3, <3>1, <3>2, OneId, UpdateGood DEF Update
  <2>3. CASE Delete(c, Null, id, <<>>)
    <3>1. "delete" \in OfWrites /\ "look" \in OfWrites
      BY DEF OfWrites
    <3> QED BY ZenonT(60), <1>1, <1>3, <2>3, <3>1, OneId, DeleteGood DEF Delete
  <2> QED BY <1>2, <2>1, <2>2, <2>3
<1>5. deployment' = deployment
  BY <1>4 DEF GoodStep, StepOf
<1> DEFINE cl == [Done EXCEPT !.pc = "writing", !.id = id]
<1>6. cl = Started("writing", id)
  BY DEF Started
<1>7. client' = [client EXCEPT ![c] = cl]
  BY <1>2
<1> HIDE DEF cl
<1>8. cl \in Client /\ cl # Done /\ cl.pc = "writing" /\ cl.id = id
  BY <1>6, StartedIs
<1>9. ClientKept(call'[c], cl, store')
  BY <1>4, <1>8, OneId DEF ClientKept
<1>10. \A d \in Callers : d # c => call'[d].pc = call[d].pc /\ call'[d].ids = call[d].ids
  BY <1>1, <1>4, GoodStepInTenant
<1>11. cache' \in [Ids -> Entry \cup {Empty}]
  BY <1>1, <1>2 DEF CacheInv
<1>12. CacheInv'
  BY <1>1, <1>2, <1>4, <1>5, <1>7, <1>9, <1>10, <1>11, OneClient
<1> QED BY <1>4, <1>12

LEMMA LoadKeeps ==
    ASSUME IInv, NEW c \in Callers, Load(c)
    PROVE  GoodStep(c) /\ CacheInv'
<1> DEFINE id == client[c].id
           answer == GetAnswer(c)
           cl == IF answer = NoRow THEN Done
                 ELSE [client[c] EXCEPT !.pc = "setting", !.value = answer,
                                        !.straddled = (answer # store[id])]
<1>1. RepositoriesInv /\ CacheInv /\ client \in [Callers -> Client]
  BY DEF IInv, CacheInv
<1>2. /\ client[c].pc = "loading" /\ Moves(c, Ended("returned")) /\ cache' = cache
      /\ client' = [client EXCEPT ![c] = cl] /\ call[c].pc = "get"
  BY DEF Load, Get, Returns
<1>3. GoodStep(c) /\ store' = store
  BY <1>1, <1>2, RestGood DEF Resting
<1>4. deployment' = deployment /\ call'[c].pc \in Resting
  BY <1>2, <1>3 DEF GoodStep, StepOf, Onward
<1>5. UsesCache
  BY <1>1, <1>2 DEF CacheInv, Done
<1>6. id \in Ids /\ client[c] \in Client
  BY <1>1, <1>2 DEF CacheInv, ClientKept
<1>7. answer \in Row \cup {NoRow}
  <2>1. Head(call[c].ids) \in Ids
    BY <1>1, <1>2, InProgress DEF Resting
  <2>2. Readable[Head(call[c].ids)] \in Row \cup {NoRow}
    BY <1>1, <2>1 DEF RepositoriesInv, Readable
  <2> QED BY <2>2 DEF GetAnswer, Owned
<1>8. ClientKept(call'[c], cl, store')
  <2>1. CASE answer = NoRow
    BY <2>1, DoneKept
  <2>2. CASE answer # NoRow
    <3> DEFINE straddled == (answer # store[id])
    <3>1. cl = [pc |-> "setting", id |-> id, value |-> answer, straddled |-> straddled]
      BY <1>6, <2>2 DEF Client
    <3>2. straddled \in BOOLEAN /\ (answer # store[id] => straddled)
      OBVIOUS
    <3> HIDE DEF cl, answer, id, straddled
    <3>3. /\ cl \in Client /\ cl # Done /\ cl.pc = "setting" /\ cl.id = id
          /\ cl.value = answer /\ cl.straddled = straddled
      BY <1>6, <1>7, <3>1, <3>2, ClientIs
    <3> QED BY <1>3, <1>4, <1>6, <2>2, <3>2, <3>3 DEF ClientKept
  <2> QED BY <2>1, <2>2
<1> HIDE DEF cl, answer, id
<1>9. \A d \in Callers : d # c => call'[d].pc = call[d].pc /\ call'[d].ids = call[d].ids
  BY <1>1, <1>3, GoodStepInTenant
<1>10. cache' \in [Ids -> Entry \cup {Empty}]
  BY <1>1, <1>2 DEF CacheInv
<1>11. CacheInv'
  BY <1>1, <1>2, <1>3, <1>4, <1>5, <1>8, <1>9, <1>10, OneClient
<1> QED BY <1>3, <1>11

LEMMA LoadRaisesKeeps ==
    ASSUME IInv, NEW c \in Callers, LoadRaises(c)
    PROVE  GoodStep(c) /\ CacheInv'
<1>1. RepositoriesInv /\ CacheInv
  BY DEF IInv
<1>2. /\ client[c].pc = "loading" /\ StatementFails(c) /\ cache' = cache
      /\ client' = [client EXCEPT ![c] = Done]
  BY DEF LoadRaises
<1>3. call[c].pc = "get"
  BY <1>1, <1>2 DEF CacheInv, ClientKept
<1>4. Moves(c, Ended("raised"))
  BY <1>2, <1>3 DEF StatementFails, Raises
<1>5. GoodStep(c) /\ store' = store
  BY <1>1, <1>4, RestGood DEF Resting
<1>6. deployment' = deployment
  BY <1>5 DEF GoodStep, StepOf
<1>7. UsesCache
  BY <1>1, <1>2 DEF CacheInv, Done
<1>8. ClientKept(call'[c], Done, store')
  BY DoneKept
<1>9. \A d \in Callers : d # c => call'[d].pc = call[d].pc /\ call'[d].ids = call[d].ids
  BY <1>1, <1>5, GoodStepInTenant
<1>10. cache' \in [Ids -> Entry \cup {Empty}]
  BY <1>1, <1>2 DEF CacheInv
<1>11. CacheInv'
  BY <1>1, <1>2, <1>5, <1>6, <1>7, <1>8, <1>9, <1>10, OneClient
<1> QED BY <1>5, <1>11

\* The steps of a client between its operations.
LEMMA SetKeeps ==
    ASSUME IInv, NEW c \in Callers, SetEntry(c) \/ SetRaises(c)
    PROVE  CacheInv'
<1>1. CacheInv /\ client \in [Callers -> Client] /\ cache \in [Ids -> Entry \cup {Empty}]
  BY DEF IInv, CacheInv
<1>2. /\ client[c].pc = "setting" /\ client' = [client EXCEPT ![c] = Done]
      /\ deployment' = deployment /\ store' = store /\ call' = call
  BY DEF SetEntry, SetRaises, repositoryVars
<1> DEFINE id == client[c].id
           entry == [value |-> client[c].value, excused |-> client[c].straddled]
<1>3. ClientKept(call[c], client[c], store)
  BY <1>1 DEF CacheInv
<1>4. /\ id \in Ids /\ client[c].value \in Row /\ client[c].straddled \in BOOLEAN
      /\ client[c].value # store[id] => client[c].straddled
  BY <1>2, <1>3 DEF ClientKept, Client
<1>5. UsesCache
  BY <1>1, <1>2 DEF CacheInv, Done
<1>6. cache' = cache \/ cache' = [cache EXCEPT ![id] = entry]
  BY DEF SetEntry, SetRaises
<1>7. entry \in Entry /\ (entry.value # store[id] => entry.excused)
  BY <1>4 DEF Entry
<1> HIDE DEF entry, id
<1>8. cache' \in [Ids -> Entry \cup {Empty}]
  BY <1>1, <1>6, <1>7
<1>9. \A i \in Ids : cache'[i] # Empty /\ cache'[i].value # store[i] =>
            cache'[i].excused \/ cache'[i] = cache[i]
  BY <1>1, <1>4, <1>6, <1>7
<1>10. ClientKept(call'[c], Done, store')
  BY DoneKept
<1>11. \A d \in Callers : d # c => call'[d].pc = call[d].pc /\ call'[d].ids = call[d].ids
  BY <1>2
<1> QED BY <1>1, <1>2, <1>5, <1>8, <1>9, <1>10, <1>11, OneClient

\* Excusing what is stale.
LEMMA ExcuseIs ==
    ASSUME NEW entries \in [Ids -> Entry \cup {Empty}], NEW id \in Ids, NEW new,
           new = Excuse(id, entries)
    PROVE  /\ new \in [Ids -> Entry \cup {Empty}]
           /\ \A i \in Ids : i # id => new[i] = entries[i]
           /\ new[id] # Empty /\ new[id].value # store'[id] => new[id].excused
<1>1. CASE entries[id] = Empty
  BY <1>1 DEF Excuse
<1>2. CASE entries[id] # Empty
  <2> DEFINE b == (entries[id].excused \/ entries[id].value # store'[id])
             entry == [value |-> entries[id].value, excused |-> b]
  <2>1. entries[id] \in Entry
    BY <1>2
  <2>2. new = [entries EXCEPT ![id].excused = b]
    BY <1>2 DEF Excuse
  <2>3. b \in BOOLEAN /\ (entries[id].value # store'[id] => b)
    BY <2>1 DEF Entry
  <2> HIDE DEF b
  <2>4. [entries[id] EXCEPT !.excused = b] = entry /\ entry \in Entry
    BY <2>1, <2>3 DEF Entry
  <2>5. entry.value = entries[id].value /\ entry.excused = b
    OBVIOUS
  <2> HIDE DEF entry
  <2>6. new = [entries EXCEPT ![id] = entry]
    BY <2>2, <2>4
  <2> QED BY <2>3, <2>4, <2>5, <2>6
<1> QED BY <1>1, <1>2

LEMMA InvalidateKeeps ==
    ASSUME IInv, NEW c \in Callers, Invalidate(c) \/ InvalidateRaises(c)
    PROVE  CacheInv'
<1>1. CacheInv /\ client \in [Callers -> Client] /\ cache \in [Ids -> Entry \cup {Empty}]
  BY DEF IInv, CacheInv
<1> DEFINE id == client[c].id
<1>2. /\ client[c].pc = "invalidating" /\ client' = [client EXCEPT ![c] = Done]
      /\ deployment' = deployment /\ store' = store /\ call' = call
      /\ cache' = [cache EXCEPT ![id] = Empty] \/ cache' = Excuse(id, cache)
  BY DEF Invalidate, InvalidateRaises, Deleted, repositoryVars
<1>3. id \in Ids
  BY <1>1, <1>2 DEF CacheInv, ClientKept
<1>4. UsesCache
  BY <1>1, <1>2 DEF CacheInv, Done
<1> HIDE DEF id
<1>5. /\ cache' \in [Ids -> Entry \cup {Empty}]
      /\ \A i \in Ids : i # id => cache'[i] = cache[i]
      /\ cache'[id] # Empty /\ cache'[id].value # store[id] => cache'[id].excused
  <2>1. CASE cache' = [cache EXCEPT ![id] = Empty]
    BY <1>1, <1>3, <2>1
  <2>2. CASE cache' = Excuse(id, cache)
    BY <1>1, <1>2, <1>3, <2>2, ExcuseIs
  <2> QED BY <1>2, <2>1, <2>2
<1>6. \A i \in Ids : cache'[i] # Empty /\ cache'[i].value # store[i] =>
        \/ cache'[i].excused
        \/ Done.pc \in {"writing", "invalidating"} /\ Done.id = i
        \/ /\ cache'[i] = cache[i]
           /\ client[c].pc \in {"writing", "invalidating"} => client[c].id # i
  BY <1>5 DEF id
<1>7. ClientKept(call'[c], Done, store')
  BY DoneKept
<1>8. \A d \in Callers : d # c => call'[d].pc = call[d].pc /\ call'[d].ids = call[d].ids
  BY <1>2
<1> QED BY ZenonT(60), <1>1, <1>2, <1>4, <1>5, <1>6, <1>7, <1>8, OneClient

\* A write goes on, and leaves stale only what it will invalidate or excuses.
LEMMA WriteStepKeeps ==
    ASSUME IInv, NEW c \in Callers, WriteStep(c)
    PROVE  GoodStep(c) /\ CacheInv'
<1> DEFINE id == client[c].id
<1>1. /\ RepositoriesInv /\ CacheInv /\ client \in [Callers -> Client]
      /\ cache \in [Ids -> Entry \cup {Empty}]
  BY DEF IInv, CacheInv
<1>2. /\ client[c].pc = "writing" /\ CallStep(c)
      /\ cache' = IF call'[c].pc = "raised" THEN Excuse(id, cache) ELSE cache
      /\ client' =
            [ d \in Callers |->
                CASE d = c /\ call'[c].pc = "returned" ->
                        [client[c] EXCEPT !.pc = "invalidating"]
                  [] d = c /\ call'[c].pc = "raised" -> Done
                  [] d # c /\ client[d].pc = "setting" /\ client[d].id = id ->
                        [client[d] EXCEPT !.straddled = @ \/ store'[id] # store[id]]
                  [] OTHER -> client[d] ]
  BY DEF WriteStep
<1>3. GoodStep(c)
  BY <1>1, <1>2, CallStepGood
<1>4. /\ deployment' = deployment /\ StepOf(c) /\ Onward(c)
      /\ \A i \in Ids : i \notin IdsOf(call[c].ids) => store'[i] = store[i]
  BY <1>3 DEF GoodStep, StepOf
<1>5. ClientKept(call[c], client[c], store)
  BY <1>1 DEF CacheInv
<1>6. /\ call[c].pc \in {"create"} \cup OfWrites
      /\ IdsOf(call[c].ids) \subseteq {id} /\ id \in Ids
  BY <1>2, <1>5 DEF ClientKept
<1>7. /\ call'[c].pc \in Resting \cup {"create"} \cup OfWrites
      /\ IdsOf(call'[c].ids) \subseteq {id}
  BY <1>4, <1>6 DEF Onward
<1>8. \A i \in Ids : i # id => store'[i] = store[i]
  BY <1>4, <1>6
<1>9. UsesCache /\ UsesCache'
  BY <1>1, <1>2, <1>4 DEF CacheInv, Done, UsesCache
<1>10. \A d \in Callers : d # c => call'[d].pc = call[d].pc /\ call'[d].ids = call[d].ids
  BY <1>1, <1>3, GoodStepInTenant
<1>11. client[c] = [pc |-> "writing", id |-> id, value |-> client[c].value,
                    straddled |-> client[c].straddled]
       /\ client[c].value \in Row \cup {NoRow} /\ client[c].straddled \in BOOLEAN
  BY <1>1, <1>2 DEF Client
<1> HIDE DEF id
\* The client itself.
<1>12. /\ ClientKept(call'[c], client'[c], store')
       /\ call'[c].pc # "raised" =>
            client'[c].pc \in {"writing", "invalidating"} /\ client'[c].id = id
  <2>1. CASE call'[c].pc = "returned"
    <3>1. client'[c] = [client[c] EXCEPT !.pc = "invalidating"]
      BY <1>2, <2>1
    <3>2. client'[c] = [pc |-> "invalidating", id |-> id, value |-> client[c].value,
                        straddled |-> client[c].straddled]
      BY <1>11, <3>1
    <3>3. /\ client'[c] \in Client /\ client'[c] # Done
          /\ client'[c].pc = "invalidating" /\ client'[c].id = id
      BY <1>6, <1>11, <3>2, ClientIs
    <3> QED BY <1>6, <2>1, <3>3 DEF ClientKept, Resting
  <2>2. CASE call'[c].pc = "raised"
    <3>1. client'[c] = Done
      BY <1>2, <2>2
    <3> QED BY <2>2, <3>1, DoneKept
  <2>3. CASE call'[c].pc \notin Resting
    <3>1. client'[c] = client[c]
      BY <1>2, <2>3 DEF Resting
    <3>2. call'[c].pc \in {"create"} \cup OfWrites
      BY <1>7, <2>3
    <3>3. ClientKept(call'[c], client[c], store')
      BY <1>2, <1>5, <1>7, <3>2 DEF ClientKept, id
    <3> QED BY <1>2, <3>1, <3>3 DEF id
  <2> QED BY <2>1, <2>2, <2>3 DEF Resting
\* The others.
<1>13. ASSUME NEW d \in Callers, d # c
       PROVE  /\ ClientKept(call'[d], client'[d], store')
              /\ client[d].pc \in {"writing", "invalidating"} => client'[d] = client[d]
  <2>1. ClientKept(call[d], client[d], store) /\ client[d] \in Client
    BY <1>1 DEF CacheInv
  <2>2. CASE client[d].pc = "setting" /\ client[d].id = id
    <3> DEFINE b == (client[d].straddled \/ store'[id] # store[id])
    <3>1. client'[d] = [client[d] EXCEPT !.straddled = b]
      BY <1>2, <1>13, <2>2
    <3>2. b \in BOOLEAN /\ (client[d].value # store'[id] => b)
      BY <2>1, <2>2 DEF ClientKept, Client
    <3> HIDE DEF b
    <3>3. client'[d] = [pc |-> "setting", id |-> id, value |-> client[d].value, straddled |-> b]
      BY <2>1, <2>2, <3>1 DEF Client
    <3>4. client[d].value \in Row \cup {NoRow} /\ client[d].value # NoRow
      BY <2>1, <2>2 DEF ClientKept, Client
    <3>5. /\ client'[d] \in Client /\ client'[d] # Done
          /\ client'[d].pc = "setting" /\ client'[d].id = id
          /\ client'[d].value = client[d].value /\ client'[d].straddled = b
      BY <1>6, <3>2, <3>3, <3>4, ClientIs
    <3>6. call'[d].pc \in Resting
      BY <1>10, <1>13, <2>1, <2>2 DEF ClientKept
    <3> QED BY <1>6, <2>2, <3>2, <3>4, <3>5, <3>6 DEF ClientKept
  <2>3. CASE ~(client[d].pc = "setting" /\ client[d].id = id)
    <3>1. client'[d] = client[d]
      BY <1>2, <1>13, <2>3
    <3>2. client[d].pc = "setting" => store'[client[d].id] = store[client[d].id]
      BY <1>8, <2>1, <2>3 DEF ClientKept
    <3>3. ClientKept(call'[d], client[d], store')
      BY <1>10, <1>13, <2>1, <3>2, ClientSame
    <3> QED BY <3>1, <3>3
  <2> QED BY <2>2, <2>3
<1>14. \A d \in Callers : ClientKept(call'[d], client'[d], store')
  BY <1>12, <1>13
<1>15. client' \in [Callers -> Client]
  <2>1. DOMAIN client' = Callers /\ client' = [d \in Callers |-> client'[d]]
    BY <1>2
  <2>2. \A d \in Callers : client'[d] \in Client
    BY <1>14 DEF ClientKept
  <2> QED BY <2>1, <2>2
\* The entries.
<1>16. /\ cache' \in [Ids -> Entry \cup {Empty}]
       /\ \A i \in Ids : i # id => cache'[i] = cache[i]
       /\ call'[c].pc = "raised" =>
            (cache'[id] # Empty /\ cache'[id].value # store'[id] => cache'[id].excused)
  <2>1. CASE call'[c].pc = "raised"
    <3>1. cache' = Excuse(id, cache)
      BY <1>2, <2>1
    <3> QED BY <1>1, <1>6, <3>1, ExcuseIs
  <2>2. CASE call'[c].pc # "raised"
    BY <1>1, <1>2, <2>2
  <2> QED BY <2>1, <2>2
<1>17. StaleExplained'
  <2>1. SUFFICES ASSUME NEW i \in Ids, cache'[i] # Empty, cache'[i].value # store'[i],
                        ~cache'[i].excused
                 PROVE  \E d \in Callers :
                            client'[d].pc \in {"writing", "invalidating"} /\ client'[d].id = i
    BY DEF StaleExplained
  <2>2. CASE i = id
    BY <1>12, <1>16, <2>1, <2>2
  <2>3. CASE i # id
    <3>1. cache[i] # Empty /\ cache[i].value # store[i] /\ ~cache[i].excused
      BY <1>8, <1>16, <2>1, <2>3
    <3>2. PICK d \in Callers : client[d].pc \in {"writing", "invalidating"} /\ client[d].id = i
      BY <1>1, <3>1 DEF CacheInv, StaleExplained
    <3>3. d # c
      BY <2>3, <3>2 DEF id
    <3> QED BY <1>13, <3>2, <3>3
  <2> QED BY <2>2, <2>3
<1>18. CacheInv'
  BY <1>9, <1>14, <1>15, <1>16, <1>17 DEF CacheInv
<1> QED BY <1>3, <1>18

LEMMA ExpireKeeps ==
    ASSUME IInv, NEW id \in Ids, Expire(id)
    PROVE  IInv'
<1>1. /\ cache' = [cache EXCEPT ![id] = Empty]
      /\ client' = client /\ deployment' = deployment /\ store' = store
      /\ replica' = replica /\ call' = call
  BY DEF Expire, repositoryVars
<1>2. RepositoriesInv'
  BY <1>1 DEF IInv, RepositoriesInv
<1>3. cache' \in [Ids -> Entry \cup {Empty}] /\ \A i \in Ids : cache'[i] \in {cache[i], Empty}
  BY <1>1 DEF IInv, CacheInv
<1>4. StaleExplained'
  BY <1>1, <1>3 DEF IInv, CacheInv, StaleExplained
<1>5. CacheInv'
  BY <1>1, <1>3, <1>4 DEF IInv, CacheInv, UsesCache
<1> QED BY <1>2, <1>5 DEF IInv

\* Without a cache there is nothing to keep.
LEMMA NoCacheKeeps ==
    ASSUME IInv, NEW c \in Callers, ~UsesCache, GoodStep(c), UNCHANGED <<cache, client>>
    PROVE  CacheInv'
<1>1. /\ CacheInv /\ client \in [Callers -> Client]
      /\ cache' = cache /\ client' = client /\ deployment' = deployment
  BY DEF IInv, CacheInv, GoodStep, StepOf
<1>2. (\A d \in Callers : client[d] = Done) /\ (\A id \in Ids : cache[id] = Empty)
  BY <1>1 DEF CacheInv
<1>3. \A d \in Callers : ClientKept(call'[d], client'[d], store')
  BY <1>1, <1>2, DoneKept
<1>4. StaleExplained'
  BY <1>1, <1>2 DEF StaleExplained
<1>5. ~UsesCache'
  BY <1>1 DEF UsesCache
<1>6. cache' \in [Ids -> Entry \cup {Empty}]
  BY <1>1 DEF CacheInv
<1>7. (\A d \in Callers : client'[d] = Done) /\ (\A id \in Ids : cache'[id] = Empty)
  BY <1>1, <1>2
<1> QED BY <1>1, <1>3, <1>4, <1>5, <1>6, <1>7 DEF CacheInv

LEMMA ReplicaStepKeeps ==
    ASSUME IInv, NEW id \in Ids, ReplicaStep(id)
    PROVE  IInv' /\ \A c \in Callers : ~Acts(c)
<1>1. /\ RepositoriesInv' /\ store' = store /\ deployment' = deployment
      /\ \A c \in Callers : call'[c].pc = call[c].pc /\ call'[c].ids = call[c].ids
      /\ \A c \in Callers : ~Acts(c)
      /\ cache' = cache /\ client' = client /\ CacheInv
  BY ReplicateKeeps DEF IInv, ReplicaStep
<1>2. \A c \in Callers : ClientKept(call'[c], client[c], store)
  BY <1>1, ClientSame DEF CacheInv
<1>3. CacheInv'
  BY <1>1, <1>2 DEF CacheInv, UsesCache, StaleExplained
<1> QED BY <1>1, <1>3 DEF IInv

-----------------------------------------------------------------------------
(* The inductive invariant, and what follows from it.                        *)

LEMMA InitIInv == Init => IInv
<1> SUFFICES ASSUME Init PROVE IInv
  OBVIOUS
<1>1. /\ deployment \in Deployments
      /\ store = [id \in Ids |-> NoRow] /\ replica = [id \in Ids |-> NoRow]
      /\ call = [c \in Callers |-> Ended("returned")]
      /\ cache = [id \in Ids |-> Empty] /\ client = [c \in Callers |-> Done]
  BY DEF Init, RepositoriesInit
<1>2. \A c \in Callers : CallKept(deployment, call[c], store, replica)
  BY <1>1, EndedKept DEF Resting
<1>3. RepositoriesInv
  BY <1>1, <1>2 DEF RepositoriesInv
<1>4. \A c \in Callers : ClientKept(call[c], client[c], store)
  BY <1>1, DoneKept
<1>5. client \in [Callers -> Client]
  BY <1>1, DoneKept
<1>6. StaleExplained
  BY <1>1 DEF StaleExplained
<1>7. CacheInv
  BY <1>1, <1>4, <1>5, <1>6 DEF CacheInv
<1> QED BY <1>3, <1>7 DEF IInv

\* WritesStayInTenant, of one step.
InTenantStep ==
    \A c \in Callers, id \in Ids :
        LET scope == call[c].scope
        IN  Acts(c) /\ scope # Null /\ store'[id] # store[id] =>
                /\ \/ store[id] = NoRow \/ store[id].tenant_id = scope
                   \/ backend = "vector" /\ call[c].pc = "create"
                /\ store'[id] = NoRow \/ store'[id].tenant_id = scope

LEMMA GoodStepKeepsAll ==
    ASSUME IInv, NEW c \in Callers, GoodStep(c), CacheInv'
    PROVE  IInv' /\ InTenantStep
<1>1. RepositoriesInv
  BY DEF IInv
<1>2. RepositoriesInv'
  BY <1>1, GoodStepKeeps DEF GoodStep
<1>3. InTenantStep
  BY <1>1, GoodStepInTenant DEF InTenantStep
<1> QED BY <1>2, <1>3 DEF IInv

\* A step that leaves the repositories as they are.
LEMMA RepositoriesRest ==
    ASSUME IInv, UNCHANGED repositoryVars
    PROVE  RepositoriesInv' /\ InTenantStep
<1>1. /\ deployment' = deployment /\ store' = store /\ replica' = replica /\ call' = call
  BY DEF repositoryVars
<1> QED BY <1>1 DEF IInv, RepositoriesInv, InTenantStep

LEMMA NextKeeps ==
    ASSUME IInv, Next
    PROVE  IInv' /\ InTenantStep
<1>1. ASSUME NEW c \in Callers, PlainStep(c) PROVE IInv' /\ InTenantStep
  <2>1. GoodStep(c)
    BY <1>1, BeginStepGood, CallStepGood DEF PlainStep, IInv
  <2>2. CacheInv'
    BY <1>1, <2>1, NoCacheKeeps DEF PlainStep
  <2> QED BY <2>1, <2>2, GoodStepKeepsAll
<1>2. ASSUME NEW c \in Callers, CacheStep(c) PROVE IInv' /\ InTenantStep
  <2>1. CASE \E id \in Ids : Miss(c, id) \/ BeginWrite(c, id)
    BY <2>1, MissKeeps, BeginWriteKeeps, GoodStepKeepsAll
  <2>2. CASE Load(c) \/ LoadRaises(c)
    BY <2>2, LoadKeeps, LoadRaisesKeeps, GoodStepKeepsAll
  <2>3. CASE WriteStep(c)
    BY <2>3, WriteStepKeeps, GoodStepKeepsAll
  <2>4. CASE SetEntry(c) \/ SetRaises(c)
    <3>1. UNCHANGED repositoryVars
      BY <2>4 DEF SetEntry, SetRaises
    <3> QED BY <2>4, <3>1, SetKeeps, RepositoriesRest DEF IInv
  <2>5. CASE Invalidate(c) \/ InvalidateRaises(c)
    <3>1. UNCHANGED repositoryVars
      BY <2>5 DEF Invalidate, InvalidateRaises
    <3> QED BY <2>5, <3>1, InvalidateKeeps, RepositoriesRest DEF IInv
  <2> QED BY <1>2, <2>1, <2>2, <2>3, <2>4, <2>5 DEF CacheStep
<1>3. ASSUME NEW id \in Ids, Expire(id) PROVE IInv' /\ InTenantStep
  <2>1. UNCHANGED repositoryVars
    BY <1>3 DEF Expire
  <2> QED BY <1>3, <2>1, ExpireKeeps, RepositoriesRest
<1>4. ASSUME NEW id \in Ids, ReplicaStep(id) PROVE IInv' /\ InTenantStep
  BY <1>4, ReplicaStepKeeps DEF InTenantStep
<1> QED BY <1>1, <1>2, <1>3, <1>4 DEF Next

LEMMA StutterKeeps ==
    ASSUME IInv, UNCHANGED vars
    PROVE  IInv' /\ UNCHANGED repositoryVars
<1>1. /\ UNCHANGED repositoryVars /\ cache' = cache /\ client' = client
      /\ deployment' = deployment /\ store' = store /\ call' = call
  BY DEF vars, repositoryVars
<1>2. RepositoriesInv'
  BY <1>1, RepositoriesRest
<1>3. CacheInv'
  BY <1>1 DEF IInv, CacheInv, UsesCache, StaleExplained
<1> QED BY <1>1, <1>2, <1>3 DEF IInv

\* IInv is an inductive invariant of the specification.
THEOREM Inductive == Spec => []IInv
<1>1. IInv /\ [Next]_vars => IInv'
  BY NextKeeps, StutterKeeps
<1> QED BY InitIInv, <1>1, PTL DEF Spec

\* The variables stay in their types, and an operation has the ids, the criteria
\* and the data that its statements need.
THEOREM TypeCorrect == Spec => []TypeOK
<1>1. IInv => TypeOK
  <2> SUFFICES ASSUME IInv PROVE TypeOK
    OBVIOUS
  <2>1. RepositoriesTypeOK
    <3>1. ASSUME NEW c \in Callers
          PROVE  LET op == call[c]
                 IN   /\ op.pc \in PcOf
                      /\ op.pc \in Resting => op = Ended(op.pc)
                      /\ op.pc \notin Resting \cup {"find", "page"} => op.ids # <<>>
                      /\ IdsOf(op.ids) \subseteq Ids
                      /\ op.scope \in TenantIds
                      /\ op.data \in Row \cup Changes \cup {Null}
                      /\ op.total \in 0..Cardinality(Ids)
                      /\ {op.bulk, op.applied, op.disturbed} \subseteq BOOLEAN
                      /\ CASE op.pc \in Resting \cup {"get", "create"} -> op.criteria = <<>>
                           [] op.pc \in {"find", "page"} ->
                                  \E criteria \in FindCriteria :
                                      op.criteria = ScopedCriteria(op.scope, criteria)
                           [] OTHER ->
                                  \E extra \in Extras : op.criteria = WriteCriteria(op.scope, extra)
      <4> DEFINE op == call[c]
      <4>1. CallTyped(op)
        BY DEF IInv, RepositoriesInv, CallKept
      <4> HIDE DEF op
      <4>2. IdsOf(op.ids) \subseteq Ids
        BY <4>1, HeadIs DEF CallTyped
      <4>3. op.pc \in Resting \cup {"get", "create"} => op.pc \notin {"find", "page"}
        BY DEF Resting
      <4>4. op.pc \notin Resting \cup {"get", "create"} /\ op.pc \notin {"find", "page"}
                => op.pc \in OfWrites
        BY <4>1 DEF CallTyped, PcOf, OfWrites
      <4>5. CASE op.pc \in Resting \cup {"get", "create"}
        BY <4>1, <4>2, <4>3, <4>5 DEF CallTyped, op
      <4>6. CASE op.pc \in {"find", "page"}
        BY <4>1, <4>2, <4>3, <4>6 DEF CallTyped, op
      <4>7. CASE op.pc \in OfWrites
        <5>1. op.pc \notin Resting \cup {"get", "create"} /\ op.pc \notin {"find", "page"}
          BY <4>7 DEF OfWrites, Resting
        <5> QED BY <4>1, <4>2, <4>7, <5>1 DEF CallTyped, op
      <4> QED BY <4>4, <4>5, <4>6, <4>7
    <3> QED BY <3>1 DEF IInv, RepositoriesInv, RepositoriesTypeOK
  <2>2. CacheInv
    BY DEF IInv
  <2>3. ASSUME NEW c \in Callers
        PROVE  /\ client[c].pc = "idle" <=> client[c] = Done
               /\ client[c].pc = "loading" => call[c].pc = "get" /\ call[c].ids = <<client[c].id>>
               /\ client[c].pc = "writing" => call[c].pc \notin Resting \cup {"get", "find", "page"}
               /\ client[c].pc \in {"setting", "invalidating"} => call[c].pc \in Resting
               /\ client[c].pc = "setting" => client[c].value # NoRow
    BY <2>2 DEF CacheInv, ClientKept, OfWrites, Resting
  <2> QED BY <2>1, <2>2, <2>3 DEF TypeOK, CacheInv
<1> QED BY <1>1, Inductive, PTL

\* update() reports what it did, or another caller interfered, or MongoDB's read-back
\* is from a lagging secondary, or the filters are ones on which Qdrant and Python
\* differ: on every backend, with any number of callers, ids and criteria.
THEOREM UpdatesReport == Spec => []UpdateExplained
<1>1. IInv => UpdateExplained
  BY UpdatesExplained DEF IInv
<1> QED BY <1>1, Inductive, PTL

\* Qdrant's delete() and bulk_delete() report what they did.
THEOREM DeletesReport == Spec => []DeleteExplained
<1>1. IInv => DeleteExplained
  BY DeletesExplained DEF IInv
<1> QED BY <1>1, Inductive, PTL

\* Operations scoped to a tenant answer with entities of that tenant, but for SQL and
\* MongoDB read-backs of a record that was replaced since, or that a lagging
\* secondary has of a former owner.
THEOREM TenantReads == Spec => []ReadsStayInTenant
<1>1. IInv => ReadsStayInTenant
  BY ReadsInTenant DEF IInv
<1> QED BY <1>1, Inductive, PTL

\* Operations scoped to a tenant change records of that tenant only.
THEOREM TenantWrites == Spec => WritesStayInTenant
<1>1. IInv /\ [Next]_vars => [InTenantStep]_repositoryVars
  BY NextKeeps, StutterKeeps
<1> QED BY <1>1, Inductive, PTL DEF Spec, WritesStayInTenant, InTenantStep

\* A page and its total agree unless another caller wrote in between.
THEOREM PagesAgree == Spec => []PageExplained
<1>1. IInv => PageExplained
  BY PagesExplained DEF IInv
<1> QED BY <1>1, Inductive, PTL

\* Criteria select on each backend what Python takes to satisfy them, but for the
\* filters and fields that Differs names.
THEOREM BackendsSelect == Spec => []CriteriaAgree
<1>1. IInv => CriteriaAgree
  BY CriteriaDoAgree DEF IInv
<1> QED BY <1>1, Inductive, PTL

\* The cache is stale only for a write that has yet to invalidate, that loading
\* straddled, or that was not followed by its invalidation.
THEOREM CacheFresh == Spec => []StaleExplained
<1>1. IInv => StaleExplained
  BY DEF IInv, CacheInv
<1> QED BY <1>1, Inductive, PTL
=============================================================================
