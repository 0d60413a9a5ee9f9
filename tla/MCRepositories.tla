--------------------------- MODULE MCRepositories ---------------------------
(* A small instance of Repositories and CacheAside for TLC: a table, a       *)
(* collection or a set of points with two ids, used by two callers, each     *)
(* with the repository of a tenant or a plain one.  What the callers do is   *)
(* chosen at the start, so that the kinds of use are explored one by one.    *)
EXTENDS CacheAside, TLC

CONSTANTS
    Other,    \* a value that no entity has
    Lower,    \* "cat",
    Upper,    \* "CAT",
    Longer,   \* "concatenate", and
    Phrase    \* "the cat"

MCFields == {"tenant_id", "val"}

Single  == {"get", "create", "update", "delete"}
Queries == {"find", "create", "update"}
Bulk    == {"bulk_create", "bulk_update", "bulk_delete"}
Cached  == {"cache_aside", "get", "create", "update", "delete"}

Deployment(backend_, replica_, operations, fields) ==
    [backend |-> backend_, replica |-> replica_, operations |-> operations, fields |-> fields]

MCDeployments ==
    { Deployment("relational", FALSE, Single,  MCFields),
      Deployment("document",   FALSE, Single,  MCFields),
      Deployment("vector",     FALSE, Single,  MCFields),
      Deployment("relational", TRUE,  Queries, {"val"}),
      Deployment("document",   FALSE, Queries, {"val"}),
      Deployment("document",   TRUE,  {"create", "update"}, {"tenant_id"}),
      Deployment("vector",     FALSE, Queries, {"val"}),
      Deployment("relational", FALSE, Bulk,    {"val"}),
      Deployment("document",   FALSE, Bulk,    {"val"}),
      Deployment("vector",     FALSE, Bulk,    {"val"}),
      Deployment("relational", TRUE,  Cached,  {"val"}) }

IsNull == FieldFilter("val", "IS_NULL", TRUE)

\* With IsNull, an update that sets the field is a compare-and-set; that an entity
\* without a value has another one than Other is true on some backends only.
MCExtras == { <<>>, <<IsNull>>, << FieldFilter("val", "NE", Other) >> }

MCFindCriteria == { <<>>, << FieldFilter("val", "EQ", 1) >> }

\* Some texts, on a database whose LIKE takes no notice of letter case, and with a
\* full-text index.
MCTexts == {Lower, Upper, Longer, Phrase}

MCSubstring == {<<text, text>> : text \in MCTexts} \cup {<<Lower, Longer>>, <<Lower, Phrase>>}

MCFolded == [text \in MCTexts |-> IF text = Upper THEN Lower ELSE text]

\* Lower stands for its token.
MCTokens ==
    [text \in MCTexts |-> CASE text = Longer -> {Longer}
                            [] text = Phrase -> {Other, Lower}
                            [] OTHER -> {Lower}]

MCFullText == {"val"}

MCSamples ==
    { [tenant_id |-> Null, val |-> value] : value \in {Null, 1, 2} \cup MCTexts }

\* Each operator, against numbers, texts and none.
MCFilters ==
    << FieldFilter("val", "EQ", 1),          FieldFilter("val", "EQ", Null),
       FieldFilter("val", "EQ", Lower),      FieldFilter("val", "GT", Null),
       FieldFilter("val", "LTE", Null),      FieldFilter("val", "CONTAINS", Lower),
       FieldFilter("val", "NE", 1),          FieldFilter("val", "NE", Null),
       FieldFilter("val", "GT", 0),          FieldFilter("val", "GT", 1),
       FieldFilter("val", "GTE", 1),         FieldFilter("val", "LT", 1),
       FieldFilter("val", "LTE", 1),         FieldFilter("val", "IN", {1}),
       FieldFilter("val", "IN", {}),         FieldFilter("val", "IN", {1, Null}),
       FieldFilter("val", "NOT_IN", {1}),    FieldFilter("val", "NOT_IN", {}),
       FieldFilter("val", "NOT_IN", {Null}), FieldFilter("val", "CONTAINS", Phrase),
       FieldFilter("val", "IS_NULL", TRUE),  FieldFilter("val", "IS_NULL", FALSE),
       FieldFilter("val", "IS_NULL", Null) >>

Symmetry == Permutations(Tenants) \cup Permutations(Ids) \cup Permutations(Callers)

=============================================================================
