--------------------------- MODULE CriteriaProofs ---------------------------
(***************************************************************************)
(* Criteria lists of any length mean the same on every backend.            *)
(*                                                                         *)
(* For SQL and Qdrant a list is a conjunction, and this is a matter of one *)
(* filter at a time.  The MongoDB query is built in a loop that merges     *)
(* clauses: CriteriaToQuery is a recursive function, and what it computes  *)
(* is proved by induction over the prefixes of the list.  The induction    *)
(* comes from the fact that the natural numbers are well-founded, stated   *)
(* for sets (LeastNumber), since an operator cannot be passed to a theorem *)
(* here.                                                                   *)
(***************************************************************************)
EXTENDS Criteria, WellFoundedInduction, TLAPS

-----------------------------------------------------------------------------
(* Induction.                                                              *)

\* The order of the natural numbers as a well-founded relation.
LEMMA NatOrder ==
    \E R : IsWellFoundedOn(R, Nat) /\ \A m, n \in Nat : <<m, n>> \in R <=> m < n
<1>1. \A m, n \in Nat : <<m, n>> \in OpToRel(<, Nat) <=> m < n
  BY Zenon DEF OpToRel
<1>2. IsWellFoundedOn(OpToRel(<, Nat), Nat)
  BY Zenon, NatLessThanWellFounded
<1> QED BY Zenon, <1>1, <1>2

\* A set of natural numbers that is not empty has a least element.
LEMMA LeastNumber ==
    ASSUME NEW T \in SUBSET Nat, T # {}
    PROVE  \E n \in T : \A m \in T : n <= m
<1>1. PICK R : IsWellFoundedOn(R, Nat) /\ \A m, n \in Nat : <<m, n>> \in R <=> m < n
  BY NatOrder
<1>2. IsWellFoundedOn(R, Nat) /\ T \subseteq Nat
  BY <1>1
<1>3. PICK n \in T : \A m \in T : ~ (<<m, n>> \in R)
  BY <1>2, WFMin
<1>4. \A m \in T : ~ (m < n)
  BY <1>1, <1>3
<1>5. \A m \in T : n <= m
  <2> TAKE m \in T
  <2>1. m \in Nat /\ n \in Nat
    OBVIOUS
  <2>2. ~ (m < n)
    BY <1>4
  <2> QED BY <2>1, <2>2
<1> QED BY <1>5

\* A set that contains 0, and with a number below L the next one, contains all
\* numbers up to L.
LEMMA InductionUpTo ==
    ASSUME NEW L \in Nat, NEW G, 0 \in G,
           \A n \in 0..(L - 1) : n \in G => n + 1 \in G
    PROVE  \A n \in 0..L : n \in G
<1> DEFINE T == {n \in 0..L : n \notin G}
<1> SUFFICES ASSUME T # {} PROVE FALSE
  OBVIOUS
<1>1. T \in SUBSET Nat
  OBVIOUS
<1> HIDE DEF T
<1>2. PICK n \in T : \A m \in T : n <= m
  BY <1>1, LeastNumber
<1>3. n \in 0..L /\ n \notin G
  BY DEF T
<1>4. n # 0 /\ n - 1 \in 0..(L - 1)
  BY <1>3
<1>5. n - 1 \notin T
  BY <1>2, <1>3, <1>4
<1>6. n - 1 \in G
  BY <1>4, <1>5 DEF T
<1>7. (n - 1) + 1 \in G
  BY <1>4, <1>6
<1> QED BY <1>3, <1>7

-----------------------------------------------------------------------------
(* The MongoDB query.                                                      *)

\* The query of no filters, and the loop's step for one more.
Start == [fields |-> [f \in Fields |-> {}], also |-> {}]

Step(q, filt) ==
    LET f        == filt.field
        clause   == Clause(filt)
        existing == q.fields[f]
    IN  CASE existing = {} -> [q EXCEPT !.fields[f] = clause]
          [] existing # {} /\ Merges(existing, clause) ->
                [q EXCEPT !.fields[f] = Merged(existing, clause)]
          [] OTHER -> [q EXCEPT !.also = @ \cup {<<f, clause>>}]

\* g follows the loop over the first n filters.
Follows(g, criteria, n) ==
    g = [i \in 0..n |-> IF i = 0 THEN Start ELSE Step(g[i - 1], criteria[i])]

\* The loop can be followed to the end.
LEMMA LoopExists ==
    ASSUME NEW criteria, NEW L \in Nat
    PROVE  \E g : Follows(g, criteria, L)
<1> DEFINE G == {n \in 0..L : \E g : Follows(g, criteria, n)}
<1>1. 0 \in G
  <2> DEFINE g == [i \in 0..0 |-> Start]
  <2>1. Follows(g, criteria, 0)
    BY DEF Follows
  <2> QED BY <2>1
<1>2. ASSUME NEW n \in 0..(L - 1), n \in G PROVE n + 1 \in G
  <2>1. PICK g : Follows(g, criteria, n)
    BY <1>2
  <2> DEFINE h == [i \in 0..(n + 1) |->
                     IF i = n + 1 THEN Step(g[n], criteria[n + 1]) ELSE g[i]]
  <2>2. \A i \in 0..n : h[i] = g[i]
    OBVIOUS
  <2>3. \A i \in 0..n : g[i] = IF i = 0 THEN Start ELSE Step(g[i - 1], criteria[i])
    BY <2>1 DEF Follows
  <2>4. h[n + 1] = Step(h[n], criteria[n + 1])
    OBVIOUS
  <2> DEFINE k == [i \in 0..(n + 1) |->
                     IF i = 0 THEN Start ELSE Step(h[i - 1], criteria[i])]
  <2>5. ASSUME NEW i \in 0..(n + 1) PROVE h[i] = k[i]
    <3> HIDE DEF h
    <3>1. CASE i = 0
      BY <3>1, <2>2, <2>3
    <3>2. CASE i \in 1..n
      <4>1. i \in 0..n /\ i - 1 \in 0..n /\ i # 0
        BY <3>2
      <4> QED BY <4>1, <2>2, <2>3
    <3>3. CASE i = n + 1
      BY <3>3, <2>4
    <3> QED BY <3>1, <3>2, <3>3
  <2>6. h = k
    BY <2>5
  <2>7. Follows(h, criteria, n + 1)
    BY <2>6 DEF Follows
  <2> QED BY <2>7
<1> HIDE DEF G
<1>3. \A n \in 0..L : n \in G
  BY <1>1, <1>2, InductionUpTo
<1> QED BY <1>3 DEF G

\* The query is where the loop ends.
LEMMA QueryIsLoop ==
    ASSUME NEW criteria, Len(criteria) \in Nat
    PROVE  \E g : /\ Follows(g, criteria, Len(criteria))
                  /\ CriteriaToQuery(criteria) = g[Len(criteria)]
<1> DEFINE query == CHOOSE g : Follows(g, criteria, Len(criteria))
<1>1. Follows(query, criteria, Len(criteria))
  BY LoopExists
<1>2. CriteriaToQuery(criteria) = query[Len(criteria)]
  BY DEF CriteriaToQuery, Follows, Start, Step
<1> HIDE DEF query
<1> QED BY <1>1, <1>2

-----------------------------------------------------------------------------
(* What the query selects.                                                 *)

\* A query as the loop builds it: one clause per field, and some more.
IsQuery(q) ==
    /\ q = [fields |-> q.fields, also |-> q.also]
    /\ q.fields = [f \in Fields |-> q.fields[f]]

\* The rows that satisfy all clauses of a query; MongoMatches in terms of it.
Satisfies(row, q) ==
    /\ \A f \in Fields : ClauseMatches(row[f], q.fields[f])
    /\ \A pair \in q.also : ClauseMatches(row[pair[1]], pair[2])

\* A clause with the pairs of two clauses demands what both demand.
LEMMA UnionMeans ==
    ASSUME NEW actual, NEW a, NEW b
    PROVE  ClauseMatches(actual, a \cup b) <=> ClauseMatches(actual, a) /\ ClauseMatches(actual, b)
BY Zenon DEF ClauseMatches

\* Merging two clauses that share no operator loses nothing of either.
LEMMA MergedMeans ==
    ASSUME NEW actual, NEW a, NEW b, Merges(a, b)
    PROVE  ClauseMatches(actual, Merged(a, b))
              <=> ClauseMatches(actual, a) /\ ClauseMatches(actual, b)
<1>1. \A pair \in a : pair[1] \notin OperatorsOf(b)
  BY Zenon DEF Merges, OperatorsOf
<1>2. Merged(a, b) = a \cup b
  BY <1>1 DEF Merged
<1> QED BY <1>2, UnionMeans

\* One step of the loop adds one filter to what the query demands.
LEMMA StepMeans ==
    ASSUME NEW q, IsQuery(q), NEW filt, filt.field \in Fields
    PROVE  /\ IsQuery(Step(q, filt))
           /\ \A row : Satisfies(row, Step(q, filt)) <=>
                  Satisfies(row, q) /\ ClauseMatches(row[filt.field], Clause(filt))
<1> DEFINE f        == filt.field
           clause   == Clause(filt)
           existing == q.fields[f]
<1>0. clause = Clause(filt)
  OBVIOUS
<1>1. ASSUME NEW new, Step(q, filt) = [q EXCEPT !.fields[f] = new],
             \A actual : ClauseMatches(actual, new) <=>
                 ClauseMatches(actual, existing) /\ ClauseMatches(actual, clause)
      PROVE  /\ IsQuery(Step(q, filt))
             /\ \A row : Satisfies(row, Step(q, filt)) <=>
                    Satisfies(row, q) /\ ClauseMatches(row[f], clause)
  <2> DEFINE fields == [q.fields EXCEPT ![f] = new]
  <2>1. Step(q, filt) = [fields |-> fields, also |-> q.also]
    BY <1>1 DEF IsQuery
  <2>2. /\ fields = [g \in Fields |-> fields[g]]
        /\ fields[f] = new
        /\ \A g \in Fields \ {f} : fields[g] = q.fields[g]
    BY DEF IsQuery
  <2> HIDE DEF fields, clause
  <2>3. Step(q, filt).fields = fields /\ Step(q, filt).also = q.also
    BY <2>1
  <2>4. IsQuery(Step(q, filt))
    BY <2>1, <2>2, <2>3 DEF IsQuery
  <2>5. ASSUME NEW row
        PROVE  Satisfies(row, Step(q, filt)) <=>
                   Satisfies(row, q) /\ ClauseMatches(row[f], clause)
    <3>1. (\A g \in Fields : ClauseMatches(row[g], fields[g])) <=>
              /\ \A g \in Fields : ClauseMatches(row[g], q.fields[g])
              /\ ClauseMatches(row[f], clause)
      <4>1. (\A g \in Fields : ClauseMatches(row[g], fields[g])) <=>
                /\ \A g \in Fields \ {f} : ClauseMatches(row[g], q.fields[g])
                /\ ClauseMatches(row[f], new)
        BY <2>2
      <4>2. (\A g \in Fields : ClauseMatches(row[g], q.fields[g])) <=>
                /\ \A g \in Fields \ {f} : ClauseMatches(row[g], q.fields[g])
                /\ ClauseMatches(row[f], existing)
        OBVIOUS
      <4>3. ClauseMatches(row[f], new) <=>
                ClauseMatches(row[f], existing) /\ ClauseMatches(row[f], clause)
        BY <1>1
      <4> QED BY <4>1, <4>2, <4>3
    <3> QED BY <2>3, <3>1 DEF Satisfies
  <2> QED BY <2>4, <2>5
<1>2. CASE existing = {}
  <2>1. Step(q, filt) = [q EXCEPT !.fields[f] = clause]
    BY <1>2, Zenon DEF Step
  <2>2. \A actual : ClauseMatches(actual, existing)
    BY <1>2 DEF ClauseMatches
  <2> HIDE DEF clause
  <2> QED BY <1>0, <1>1, <2>1, <2>2
<1>3. CASE existing # {} /\ Merges(existing, clause)
  <2>1. Step(q, filt) = [q EXCEPT !.fields[f] = Merged(existing, clause)]
    BY <1>3, Zenon DEF Step
  <2>2. \A actual : ClauseMatches(actual, Merged(existing, clause)) <=>
            ClauseMatches(actual, existing) /\ ClauseMatches(actual, clause)
    BY <1>3, MergedMeans
  <2> HIDE DEF clause
  <2> QED BY <1>0, <1>1, <2>1, <2>2
<1>4. CASE ~ (existing = {} \/ Merges(existing, clause))
  <2>1. Step(q, filt) = [q EXCEPT !.also = @ \cup {<<f, clause>>}]
    BY <1>4, Zenon DEF Step
  <2> HIDE DEF clause
  <2>2. Step(q, filt) = [fields |-> q.fields, also |-> q.also \cup {<<f, clause>>}]
    BY <2>1 DEF IsQuery
  <2>3. /\ Step(q, filt).fields = q.fields
        /\ Step(q, filt).also = q.also \cup {<<f, clause>>}
    BY <2>2
  <2>4. IsQuery(Step(q, filt))
    BY <2>2, <2>3 DEF IsQuery
  <2>5. ASSUME NEW row
        PROVE  (\A pair \in q.also \cup {<<f, clause>>} : ClauseMatches(row[pair[1]], pair[2]))
                 <=> /\ \A pair \in q.also : ClauseMatches(row[pair[1]], pair[2])
                     /\ ClauseMatches(row[f], clause)
    <3> DEFINE new == <<f, clause>>
    <3>1. new[1] = f /\ new[2] = clause
      OBVIOUS
    <3> HIDE DEF new
    <3>2. (\A pair \in q.also \cup {new} : ClauseMatches(row[pair[1]], pair[2]))
             <=> /\ \A pair \in q.also : ClauseMatches(row[pair[1]], pair[2])
                 /\ ClauseMatches(row[f], clause)
      <4> HIDE DEF f, clause
      <4> QED BY <3>1
    <3> QED BY <3>2 DEF new
  <2> QED BY <1>0, <2>3, <2>4, <2>5 DEF Satisfies
<1> QED BY <1>2, <1>3, <1>4

\* The loop over a list of filters: after n of them the query demands what each
\* of these n demands.
LEMMA LoopMeans ==
    ASSUME NEW criteria, IsCriteria(criteria), NEW g, Follows(g, criteria, Len(criteria)),
           NEW row
    PROVE  Satisfies(row, g[Len(criteria)]) <=>
               \A i \in DOMAIN criteria :
                   ClauseMatches(row[criteria[i].field], Clause(criteria[i]))
<1> DEFINE L == Len(criteria)
           Demands(i) == ClauseMatches(row[criteria[i].field], Clause(criteria[i]))
           G == {n \in 0..L : /\ IsQuery(g[n])
                              /\ Satisfies(row, g[n]) <=> \A i \in 1..n : Demands(i)}
<1>1. L \in Nat /\ DOMAIN criteria = 1..L /\ \A i \in 1..L : IsFilter(criteria[i])
  BY DEF IsCriteria
<1>2. \A n \in 0..L : g[n] = IF n = 0 THEN Start ELSE Step(g[n - 1], criteria[n])
  BY DEF Follows
<1> HIDE DEF L
<1>3. 0 \in G
  <2>1. g[0] = Start
    BY <1>1, <1>2
  <2>2. Start.fields = [f \in Fields |-> {}] /\ Start.also = {}
    BY DEF Start
  <2>3. IsQuery(Start)
    BY <2>2 DEF IsQuery, Start
  <2>4. Satisfies(row, Start)
    BY <2>2 DEF Satisfies, ClauseMatches
  <2> HIDE DEF Demands
  <2>5. \A i \in 1..0 : Demands(i)
    OBVIOUS
  <2> QED BY <1>1, <2>1, <2>3, <2>4, <2>5
<1>4. ASSUME NEW n \in 0..(L - 1), n \in G PROVE n + 1 \in G
  <2>1. n + 1 \in 0..L /\ n + 1 # 0 /\ (n + 1) - 1 = n /\ n + 1 \in 1..L
    BY <1>1
  <2>2. g[n + 1] = Step(g[n], criteria[n + 1])
    BY <1>2, <2>1
  <2>3. criteria[n + 1].field \in Fields
    BY <1>1, <2>1 DEF IsFilter
  <2>4. IsQuery(g[n]) /\ (Satisfies(row, g[n]) <=> \A i \in 1..n : Demands(i))
    BY <1>4
  <2>5. /\ IsQuery(g[n + 1])
        /\ Satisfies(row, g[n + 1]) <=> Satisfies(row, g[n]) /\ Demands(n + 1)
    BY <2>2, <2>3, <2>4, StepMeans
  <2> HIDE DEF Demands
  <2>6. (\A i \in 1..(n + 1) : Demands(i)) <=> (\A i \in 1..n : Demands(i)) /\ Demands(n + 1)
    <3>1. 1..(n + 1) = (1..n) \cup {n + 1}
      OBVIOUS
    <3> QED BY <3>1
  <2> QED BY <2>1, <2>4, <2>5, <2>6
<1> HIDE DEF G
<1>5. \A n \in 0..L : n \in G
  BY <1>1, <1>3, <1>4, InductionUpTo
<1>6. L \in G
  BY <1>1, <1>5
<1> QED BY <1>1, <1>6 DEF G, L

\* On MongoDB too, a list of filters is the conjunction of its filters.
LEMMA MongoIsConjunction ==
    ASSUME NEW criteria, IsCriteria(criteria), NEW row
    PROVE  MongoMatches(row, criteria) <=>
               \A i \in DOMAIN criteria :
                   ClauseMatches(row[criteria[i].field], Clause(criteria[i]))
<1>1. PICK g : /\ Follows(g, criteria, Len(criteria))
               /\ CriteriaToQuery(criteria) = g[Len(criteria)]
  BY QueryIsLoop DEF IsCriteria
<1>2. MongoMatches(row, criteria) <=> Satisfies(row, g[Len(criteria)])
  BY <1>1 DEF MongoMatches, Satisfies
<1> QED BY <1>1, <1>2, LoopMeans

-----------------------------------------------------------------------------
(* One filter on each backend, and in Python.                              *)

\* A MongoDB clause demands what its filter says in Python, of any value, but for
\* an ordering against None and one of something else than a number.
LEMMA ClauseIsPython ==
    ASSUME NEW filt, IsFilter(filt), NEW actual,
           filt.operator \in Ordering => filt.value # Null /\ actual \in Int \cup {Null}
    PROVE  ClauseMatches(actual, Clause(filt)) <=> PythonMatches(actual, filt)
<1> DEFINE value == filt.value
<1>1. CASE filt.operator = "EQ"
  <2> DEFINE pair == <<"$eq", value>>
  <2>1. Clause(filt) = {pair} /\ pair[1] = "$eq" /\ pair[2] = value
    BY <1>1 DEF Clause
  <2>2. PythonMatches(actual, filt) <=> (actual = value)
    BY <1>1 DEF PythonMatches, Ordering
  <2> HIDE DEF pair, value
  <2>3. ClauseMatches(actual, {pair}) <=> (actual = value)
    BY <2>1 DEF ClauseMatches
  <2> QED BY <2>1, <2>2, <2>3
<1>2. CASE filt.operator = "NE"
  <2> DEFINE pair == <<"$ne", value>>
  <2>1. Clause(filt) = {pair} /\ pair[1] = "$ne" /\ pair[2] = value
    BY <1>2 DEF Clause
  <2>2. PythonMatches(actual, filt) <=> (actual # value)
    BY <1>2 DEF PythonMatches, Ordering
  <2> HIDE DEF pair, value
  <2>3. ClauseMatches(actual, {pair}) <=> (actual # value)
    BY <2>1 DEF ClauseMatches
  <2> QED BY <2>1, <2>2, <2>3
<1>3. CASE filt.operator = "GT"
  <2> DEFINE pair == <<"$gt", value>>
  <2>1. Clause(filt) = {pair} /\ pair[1] = "$gt" /\ pair[2] = value
    BY <1>3 DEF Clause
  <2>2. value # Null /\ value \in Int /\ actual \in Int \cup {Null}
    BY <1>3 DEF IsFilter, Ordering
  <2>3. PythonMatches(actual, filt) <=> (actual # Null /\ actual > value)
    BY <1>3, <2>2 DEF PythonMatches, Ordering, Compares
  <2> HIDE DEF pair, value
  <2>4. ClauseMatches(actual, {pair}) <=> (actual # Null /\ actual > value)
    BY <2>1, <2>2 DEF ClauseMatches, Numbers
  <2> QED BY <2>1, <2>3, <2>4
<1>4. CASE filt.operator = "GTE"
  <2> DEFINE pair == <<"$gte", value>>
  <2>1. Clause(filt) = {pair} /\ pair[1] = "$gte" /\ pair[2] = value
    BY <1>4 DEF Clause
  <2>2. value # Null /\ value \in Int /\ actual \in Int \cup {Null}
    BY <1>4 DEF IsFilter, Ordering
  <2>3. PythonMatches(actual, filt) <=> (actual # Null /\ actual >= value)
    BY <1>4, <2>2 DEF PythonMatches, Ordering, Compares
  <2> HIDE DEF pair, value
  <2>4. ClauseMatches(actual, {pair}) <=>
            actual = value \/ (Numbers(actual, value) /\ actual > value)
    BY <2>1 DEF ClauseMatches
  <2>5. actual = value \/ (Numbers(actual, value) /\ actual > value)
            <=> actual # Null /\ actual >= value
    <3>1. CASE actual = Null
      BY <2>2, <3>1 DEF Numbers
    <3>2. CASE actual \in Int
      BY <2>2, <3>2 DEF Numbers
    <3> QED BY <2>2, <3>1, <3>2
  <2> QED BY <2>1, <2>3, <2>4, <2>5
<1>5. CASE filt.operator = "LT"
  <2> DEFINE pair == <<"$lt", value>>
  <2>1. Clause(filt) = {pair} /\ pair[1] = "$lt" /\ pair[2] = value
    BY <1>5 DEF Clause
  <2>2. value # Null /\ value \in Int /\ actual \in Int \cup {Null}
    BY <1>5 DEF IsFilter, Ordering
  <2>3. PythonMatches(actual, filt) <=> (actual # Null /\ actual < value)
    BY <1>5, <2>2 DEF PythonMatches, Ordering, Compares
  <2> HIDE DEF pair, value
  <2>4. ClauseMatches(actual, {pair}) <=> (actual # Null /\ actual < value)
    BY <2>1, <2>2 DEF ClauseMatches, Numbers
  <2> QED BY <2>1, <2>3, <2>4
<1>6. CASE filt.operator = "LTE"
  <2> DEFINE pair == <<"$lte", value>>
  <2>1. Clause(filt) = {pair} /\ pair[1] = "$lte" /\ pair[2] = value
    BY <1>6 DEF Clause
  <2>2. value # Null /\ value \in Int /\ actual \in Int \cup {Null}
    BY <1>6 DEF IsFilter, Ordering
  <2>3. PythonMatches(actual, filt) <=> (actual # Null /\ actual <= value)
    BY <1>6, <2>2 DEF PythonMatches, Ordering, Compares
  <2> HIDE DEF pair, value
  <2>4. ClauseMatches(actual, {pair}) <=>
            actual = value \/ (Numbers(actual, value) /\ actual < value)
    BY <2>1 DEF ClauseMatches
  <2>5. actual = value \/ (Numbers(actual, value) /\ actual < value)
            <=> actual # Null /\ actual <= value
    <3>1. CASE actual = Null
      BY <2>2, <3>1 DEF Numbers
    <3>2. CASE actual \in Int
      BY <2>2, <3>2 DEF Numbers
    <3> QED BY <2>2, <3>1, <3>2
  <2> QED BY <2>1, <2>3, <2>4, <2>5
<1>7. CASE filt.operator = "IN"
  <2> DEFINE pair == <<"$in", value>>
  <2>1. Clause(filt) = {pair} /\ pair[1] = "$in" /\ pair[2] = value
    BY <1>7 DEF Clause
  <2>2. PythonMatches(actual, filt) <=> (actual \in value)
    BY <1>7 DEF PythonMatches, Ordering
  <2> HIDE DEF pair, value
  <2>3. ClauseMatches(actual, {pair}) <=> (actual \in value)
    BY <2>1 DEF ClauseMatches
  <2> QED BY <2>1, <2>2, <2>3
<1>8. CASE filt.operator = "NOT_IN"
  <2> DEFINE pair == <<"$nin", value>>
  <2>1. Clause(filt) = {pair} /\ pair[1] = "$nin" /\ pair[2] = value
    BY <1>8 DEF Clause
  <2>2. PythonMatches(actual, filt) <=> (actual \notin value)
    BY <1>8 DEF PythonMatches, Ordering
  <2> HIDE DEF pair, value
  <2>3. ClauseMatches(actual, {pair}) <=> (actual \notin value)
    BY <2>1 DEF ClauseMatches
  <2> QED BY <2>1, <2>2, <2>3
<1>9. CASE filt.operator = "CONTAINS"
  <2> DEFINE pair == <<"$regex", value>>
  <2>1. Clause(filt) = {pair} /\ pair[1] = "$regex" /\ pair[2] = value
    BY <1>9 DEF Clause
  <2>2. PythonMatches(actual, filt) <=> Contains(actual, value)
    BY <1>9 DEF PythonMatches, Ordering
  <2> HIDE DEF pair, value
  <2>3. ClauseMatches(actual, {pair}) <=> Contains(actual, value)
    BY <2>1 DEF ClauseMatches
  <2> QED BY <2>1, <2>2, <2>3
<1>10. CASE filt.operator = "IS_NULL"
  <2> DEFINE pair == IF value = TRUE THEN <<"$eq", Null>> ELSE <<"$ne", Null>>
  <2>1. Clause(filt) = {pair}
    BY <1>10 DEF Clause
  <2>2. pair[1] = (IF value = TRUE THEN "$eq" ELSE "$ne") /\ pair[2] = Null
    OBVIOUS
  <2>3. PythonMatches(actual, filt) <=> ((actual = Null) <=> (value = TRUE))
    BY <1>10 DEF PythonMatches, Ordering
  <2> HIDE DEF pair, value
  <2>4. ClauseMatches(actual, {pair}) <=> ((actual = Null) <=> (value = TRUE))
    BY <2>2 DEF ClauseMatches
  <2> QED BY <2>1, <2>3, <2>4
<1> QED
  BY <1>1, <1>2, <1>3, <1>4, <1>5, <1>6, <1>7, <1>8, <1>9, <1>10 DEF IsFilter, Operator

\* An SQL condition is true exactly where Python takes the filter to match, but for
\* the cases FilterDiffers names.
LEMMA SqlIsPython ==
    ASSUME NEW filt, IsFilter(filt), NEW actual, ~FilterDiffers("relational", actual, filt)
    PROVE  SqlMatches(actual, filt) <=> PythonMatches(actual, filt)
<1>1. CASE filt.operator = "CONTAINS"
  <2>1. actual # Null => Folded[filt.value] = filt.value /\ Folded[actual] = actual
    BY <1>1 DEF FilterDiffers
  <2> QED BY <1>1, <2>1 DEF SqlMatches, PythonMatches, Ordering, Contains
<1>2. CASE filt.operator \in Ordering
  <2>1. filt.value # Null
    BY <1>2 DEF FilterDiffers
  <2> QED BY <1>2, <2>1 DEF SqlMatches, PythonMatches, Ordering
<1>3. CASE filt.operator \notin Ordering \cup {"CONTAINS"}
  <2>1. /\ ~ (actual = Null /\ filt.operator \in {"NE", "NOT_IN"})
        /\ ~ (filt.operator \in {"IN", "NOT_IN"} /\ Null \in filt.value)
        /\ ~ (filt.operator = "IS_NULL" /\ filt.value = Null)
    BY DEF FilterDiffers
  <2> QED BY <1>3, <2>1 DEF SqlMatches, PythonMatches, IsFilter, Operator, Ordering
<1> QED BY <1>1, <1>2, <1>3

\* What the backend can express, of one filter.
Takes(kind, filt) ==
    /\ kind = "relational" => (filt.operator \in Ordering => filt.value # Null)
    /\ kind = "vector" =>
          /\ filt.operator \in {"EQ", "NE"} => filt.value # Null
          /\ filt.operator \in {"IN", "NOT_IN"} => Null \notin filt.value
          /\ filt.operator = "CONTAINS" => filt.field \in FullText

\* A Qdrant condition likewise, if its client takes the filter.
LEMMA QdrantIsPython ==
    ASSUME NEW filt, IsFilter(filt), NEW actual, Takes("vector", filt),
           ~FilterDiffers("vector", actual, filt)
    PROVE  QdrantMatches(actual, filt) <=> PythonMatches(actual, filt)
<1>1. CASE filt.operator = "CONTAINS"
  <2>1. actual \in {Null, filt.value} /\ filt.value \in Texts
    BY <1>1 DEF FilterDiffers, IsFilter
  <2>2. QdrantMatches(actual, filt) <=> actual # Null
    BY <1>1, <2>1 DEF QdrantMatches, Ordering
  <2>3. PythonMatches(actual, filt) <=> actual # Null
    BY <1>1, <2>1, TextAssumption DEF PythonMatches, Ordering, Contains
  <2> QED BY <2>2, <2>3
<1>2. CASE filt.operator \in Ordering
  <2>1. filt.value # Null
    BY <1>2 DEF FilterDiffers
  <2> QED BY <1>2, <2>1 DEF QdrantMatches, PythonMatches, Ordering
<1>3. CASE filt.operator \notin Ordering \cup {"CONTAINS"}
  <2>1. ~ (actual = Null /\ filt.operator = "NE")
    BY DEF FilterDiffers
  <2> QED
    BY <1>3, <2>1 DEF Takes, QdrantMatches, PythonMatches, IsFilter, Operator, Ordering
<1> QED BY <1>1, <1>2, <1>3

-----------------------------------------------------------------------------
(* Lists of filters.                                                       *)

\* On every backend, a list of filters of any length that the backend can express
\* selects the rows that Python takes to satisfy it, but where Differs names one
\* of the filters as one on which the backend is known to disagree: as for a text
\* that LIKE takes for another, or for most of what Qdrant's MatchText finds.
THEOREM BackendsAgree ==
    ASSUME NEW kind \in {"relational", "document", "vector"},
           NEW criteria, IsCriteria(criteria), NEW row,
           Expressible(kind, criteria), ~ Differs(kind, row, criteria)
    PROVE  Matches(kind, row, criteria) <=> MatchesCriteria(row, criteria)
<1>1. \A i \in DOMAIN criteria :
          IsFilter(criteria[i]) /\ ~FilterDiffers(kind, row[criteria[i].field], criteria[i])
  BY DEF IsCriteria, Differs
<1>2. CASE kind = "relational"
  BY <1>1, <1>2, SqlIsPython DEF Matches, MatchesCriteria
<1>3. CASE kind = "document"
  <2>1. ASSUME NEW i \in DOMAIN criteria
        PROVE  ClauseMatches(row[criteria[i].field], Clause(criteria[i])) <=>
                   PythonMatches(row[criteria[i].field], criteria[i])
    <3>1. criteria[i].operator \in Ordering =>
              criteria[i].value # Null /\ row[criteria[i].field] \in Int \cup {Null}
      BY <1>1 DEF FilterDiffers
    <3> QED BY <1>1, <3>1, ClauseIsPython
  <2>2. Matches(kind, row, criteria) <=> MongoMatches(row, criteria)
    BY <1>3 DEF Matches
  <2> QED BY <2>1, <2>2, MongoIsConjunction DEF MatchesCriteria
<1>4. CASE kind = "vector"
  <2>1. \A i \in DOMAIN criteria : Takes("vector", criteria[i])
    BY <1>4 DEF Expressible, Takes
  <2> QED BY <1>1, <1>4, <2>1, QdrantIsPython DEF Matches, MatchesCriteria
<1> QED BY <1>2, <1>3, <1>4

\* A list that demands the equality of a field with something selects only rows
\* in which the field has that value, on every backend, whatever else it demands.
THEOREM EqualityHolds ==
    ASSUME NEW kind \in {"relational", "document", "vector"},
           NEW criteria, IsCriteria(criteria), NEW row, NEW i \in DOMAIN criteria,
           criteria[i].operator = "EQ", Matches(kind, row, criteria)
    PROVE  row[criteria[i].field] = criteria[i].value
<1>1. CASE kind = "relational"
  BY <1>1 DEF Matches, SqlMatches, Ordering
<1>2. CASE kind = "document"
  <2>1. ClauseMatches(row[criteria[i].field], Clause(criteria[i]))
    BY <1>2, MongoIsConjunction DEF Matches
  <2>2. PythonMatches(row[criteria[i].field], criteria[i])
    BY <2>1, ClauseIsPython DEF IsCriteria, Ordering
  <2> QED BY <2>2 DEF PythonMatches, Ordering
<1>3. CASE kind = "vector"
  BY <1>3 DEF Matches, QdrantMatches, Ordering
<1> QED BY <1>1, <1>2, <1>3
=============================================================================
