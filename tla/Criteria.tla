------------------------------ MODULE Criteria ------------------------------
(***************************************************************************)
(* What a criteria list (a sequence of FieldFilters, all of which must     *)
(* hold) means on each backend: as SQL conditions, as a MongoDB query, as  *)
(* a Qdrant filter, and in Python on an entity that was already fetched.   *)
(*                                                                         *)
(* A filter is [field, operator, value]; the value of IN and NOT_IN is a   *)
(* set.  Null stands for None, an SQL NULL, and a field that is null or    *)
(* missing in a document.                                                  *)
(*                                                                         *)
(* What it is that one text contains another is not the same everywhere:   *)
(* Python and MongoDB look for a substring, SQL's LIKE does too, but may   *)
(* take no notice of letter case, and Qdrant compares tokens.  Equality is *)
(* exact: a column with a collation that ignores case is not modelled.     *)
(***************************************************************************)
EXTENDS Integers, Sequences

CONSTANTS
    Null,
    Fields,       \* the fields of a row
    Texts,        \* the texts there are
    Substring,    \* the pairs <<part, text>> of a text and what it contains
    Folded,       \* Folded[text]: what LIKE compares, the text itself where the
                  \* database's LIKE distinguishes upper and lower case
    Tokens,       \* Tokens[text]: the tokens in the index that Qdrant keeps
    FullText      \* the fields with a full-text index

ASSUME TextAssumption ==
    /\ Null \notin Texts
    /\ Substring \subseteq Texts \X Texts /\ \A text \in Texts : <<text, text>> \in Substring
    /\ Folded \in [Texts -> Texts] /\ DOMAIN Tokens = Texts
    /\ FullText \subseteq Fields

Operator ==
    {"EQ", "NE", "GT", "GTE", "LT", "LTE", "IN", "NOT_IN", "CONTAINS", "IS_NULL"}

FieldFilter(field, operator, value) ==
    [field |-> field, operator |-> operator, value |-> value]

Ordering == {"GT", "GTE", "LT", "LTE"}

\* The filters that are given: IS_NULL takes a bool, or no value at all.
IsFilter(filt) ==
    /\ filt.field \in Fields
    /\ filt.operator \in Operator
    /\ filt.operator = "IS_NULL" => filt.value \in BOOLEAN \cup {Null}
    /\ filt.operator = "CONTAINS" => filt.value \in Texts
    /\ filt.operator \in Ordering => filt.value \in Int \cup {Null}

IsCriteria(criteria) ==
    /\ Len(criteria) \in Nat
    /\ criteria = [i \in 1..Len(criteria) |-> criteria[i]]
    /\ \A i \in DOMAIN criteria : IsFilter(criteria[i])

\* An ordering on numbers.
Compares(operator, actual, value) ==
    CASE operator = "GT"  -> actual > value
      [] operator = "GTE" -> actual >= value
      [] operator = "LT"  -> actual < value
      [] operator = "LTE" -> actual <= value

Contains(actual, value) == actual # Null /\ <<value, actual>> \in Substring

-----------------------------------------------------------------------------
\* _matches_field_filter: Python's equality, in which None differs from
\* everything else.  A comparison with None, or of a text with a number, raises
\* TypeError, so nothing matches.
PythonMatches(actual, filt) ==
    LET value == filt.value
    IN  CASE filt.operator = "EQ"       -> actual = value
          [] filt.operator = "NE"       -> actual # value
          [] filt.operator \in Ordering ->
                actual # Null /\ value # Null /\ Compares(filt.operator, actual, value)
          [] filt.operator = "IN"       -> actual \in value
          [] filt.operator = "NOT_IN"   -> actual \notin value
          [] filt.operator = "CONTAINS" -> Contains(actual, value)
          [] filt.operator = "IS_NULL"  -> (actual = Null) <=> (value = TRUE)

\* _condition_for_filter: a comparison with NULL is not true, unless the value
\* compared with is None, which SQLAlchemy turns into IS [NOT] NULL.
SqlMatches(actual, filt) ==
    LET value == filt.value
    IN  CASE filt.operator = "EQ"       -> actual = value
          [] filt.operator = "NE"       -> actual # Null /\ actual # value
          [] filt.operator \in Ordering ->
                actual # Null /\ Compares(filt.operator, actual, value)
          [] filt.operator = "IN"       -> actual # Null /\ actual \in value
          [] filt.operator = "NOT_IN"   ->
                value = {} \/ (actual # Null /\ actual \notin value /\ Null \notin value)
          [] filt.operator = "CONTAINS" ->
                actual # Null /\ <<Folded[value], Folded[actual]>> \in Substring
          [] filt.operator = "IS_NULL"  ->
                IF value = FALSE THEN actual # Null ELSE actual = Null

\* _add_condition: a condition is false of a null field, and so true of it under
\* must_not (NOT_IN, IS_NULL with a false value).  Range(gt=None) has no bounds,
\* and MatchText asks for all tokens of the value, in any order.
QdrantMatches(actual, filt) ==
    LET value == filt.value
        present == actual # Null
    IN  CASE filt.operator = "EQ"       -> present /\ actual = value
          [] filt.operator = "NE"       -> present /\ actual # value
          [] filt.operator \in Ordering ->
                present /\ (value = Null \/ Compares(filt.operator, actual, value))
          [] filt.operator = "IN"       -> present /\ actual \in value
          [] filt.operator = "NOT_IN"   -> ~(present /\ actual \in value)
          [] filt.operator = "CONTAINS" -> present /\ Tokens[value] \subseteq Tokens[actual]
          [] filt.operator = "IS_NULL"  ->
                IF value = TRUE THEN ~present ELSE present

-----------------------------------------------------------------------------
(* The MongoDB query is a dictionary with one clause per field.  A clause is *)
(* a set of <<operator, value>> pairs; a bare value is the one pair "$eq".   *)

Clause(filt) ==
    CASE filt.operator = "EQ"       -> {<<"$eq", filt.value>>}
      [] filt.operator = "IS_NULL"  ->
            IF filt.value = TRUE THEN {<<"$eq", Null>>} ELSE {<<"$ne", Null>>}
      [] filt.operator = "CONTAINS" -> {<<"$regex", filt.value>>}
      [] filt.operator = "NE"       -> {<<"$ne", filt.value>>}
      [] filt.operator = "GT"       -> {<<"$gt", filt.value>>}
      [] filt.operator = "GTE"      -> {<<"$gte", filt.value>>}
      [] filt.operator = "LT"       -> {<<"$lt", filt.value>>}
      [] filt.operator = "LTE"      -> {<<"$lte", filt.value>>}
      [] filt.operator = "IN"       -> {<<"$in", filt.value>>}
      [] filt.operator = "NOT_IN"   -> {<<"$nin", filt.value>>}

OperatorsOf(clause) == {pair[1] : pair \in clause}

\* Merging any two dictionaries, where the later value of a key wins.
MergesAlways(existing, clause) ==
    "$eq" \notin OperatorsOf(existing) \cup OperatorsOf(clause)

\* Two clauses are merged if both are dictionaries and share no key.
Merges(existing, clause) ==
    /\ "$eq" \notin OperatorsOf(existing) \cup OperatorsOf(clause)
    /\ OperatorsOf(existing) \cap OperatorsOf(clause) = {}

Merged(existing, clause) ==
    {pair \in existing : pair[1] \notin OperatorsOf(clause)} \cup clause

\* _criteria_to_query: fields is the dictionary ({} where a field has no clause
\* yet), also the clauses that are AND-ed in separately.
CriteriaToQuery(criteria) ==
    LET query[i \in 0..Len(criteria)] ==
            IF i = 0 THEN [fields |-> [f \in Fields |-> {}], also |-> {}]
            ELSE LET q        == query[i - 1]
                     f        == criteria[i].field
                     clause   == Clause(criteria[i])
                     existing == q.fields[f]
                 IN  CASE existing = {} -> [q EXCEPT !.fields[f] = clause]
                       [] existing # {} /\ Merges(existing, clause) ->
                            [q EXCEPT !.fields[f] = Merged(existing, clause)]
                       [] OTHER -> [q EXCEPT !.also = @ \cup {<<f, clause>>}]
    IN  query[Len(criteria)]

\* MongoDB: null equals null, and is not ordered with anything else; $ne and $nin
\* are true of a missing field.
Numbers(actual, value) == actual # Null /\ value # Null

ClauseMatches(actual, clause) ==
    \A pair \in clause :
        LET value == pair[2]
        IN  CASE pair[1] = "$eq"    -> actual = value
              [] pair[1] = "$ne"    -> actual # value
              [] pair[1] = "$gt"    -> Numbers(actual, value) /\ actual > value
              [] pair[1] = "$gte"   -> actual = value \/ (Numbers(actual, value) /\ actual > value)
              [] pair[1] = "$lt"    -> Numbers(actual, value) /\ actual < value
              [] pair[1] = "$lte"   -> actual = value \/ (Numbers(actual, value) /\ actual < value)
              [] pair[1] = "$in"    -> actual \in value
              [] pair[1] = "$nin"   -> actual \notin value
              [] pair[1] = "$regex" -> Contains(actual, value)

MongoMatches(row, criteria) ==
    LET query == CriteriaToQuery(criteria)
    IN  /\ \A f \in Fields : ClauseMatches(row[f], query.fields[f])
        /\ \A pair \in query.also : ClauseMatches(row[pair[1]], pair[2])

-----------------------------------------------------------------------------
\* _matches_criteria
MatchesCriteria(row, criteria) ==
    \A i \in DOMAIN criteria : PythonMatches(row[criteria[i].field], criteria[i])

\* The rows a query with these criteria applies to, on a backend.
Matches(backend, row, criteria) ==
    CASE backend = "relational" ->
            \A i \in DOMAIN criteria : SqlMatches(row[criteria[i].field], criteria[i])
      [] backend = "document"   -> MongoMatches(row, criteria)
      [] backend = "vector"     ->
            \A i \in DOMAIN criteria : QdrantMatches(row[criteria[i].field], criteria[i])

\* SQLAlchemy raises for an ordering against None, Qdrant's client for MatchValue,
\* MatchExcept and MatchAny with None, and MatchText requires a full-text index.
Expressible(backend, criteria) ==
    \A i \in DOMAIN criteria :
        LET filt == criteria[i]
        IN  /\ backend = "relational" =>
                  (filt.operator \in Ordering => filt.value # Null)
            /\ backend = "vector" =>
                  /\ filt.operator \in {"EQ", "NE"} => filt.value # Null
                  /\ filt.operator \in {"IN", "NOT_IN"} => Null \notin filt.value
                  /\ filt.operator = "CONTAINS" => filt.field \in FullText

\* Where a filter is known to differ from Python on a backend: orderings against
\* None or of a text, and texts looked for in a number, on all of them; a null
\* field under != and not-in in SQL and under != in Qdrant; in SQL also a list of
\* values with a None, IS_NULL without a value, and texts that LIKE takes for
\* others; in Qdrant every text but the value itself, since it compares tokens.
FilterDiffers(backend, actual, filt) ==
    \/ filt.operator \in Ordering /\ (filt.value = Null \/ actual \notin Int \cup {Null})
    \/ filt.operator = "CONTAINS" /\ actual \notin Texts \cup {Null}
    \/ /\ actual = Null
       /\ \/ backend \in {"relational", "vector"} /\ filt.operator = "NE"
          \/ backend = "relational" /\ filt.operator = "NOT_IN"
    \/ /\ backend = "relational"
       /\ \/ filt.operator \in {"IN", "NOT_IN"} /\ Null \in filt.value
          \/ filt.operator = "IS_NULL" /\ filt.value = Null
          \/ /\ filt.operator = "CONTAINS" /\ actual # Null
             /\ Folded[filt.value] # filt.value \/ Folded[actual] # actual
    \/ /\ backend = "vector" /\ filt.operator = "CONTAINS"
       /\ actual \notin {Null, filt.value}

Differs(backend, row, criteria) ==
    \E i \in DOMAIN criteria : FilterDiffers(backend, row[criteria[i].field], criteria[i])

=============================================================================
