----------------------------- MODULE CacheAside -----------------------------
(***************************************************************************)
(* Reading through a cache (cache_aside over RedisCache), and writing to a *)
(* repository and then invalidating.  The cache is a separate server: each *)
(* of its commands is a step of its own, and may fail.                     *)
(*                                                                         *)
(* The repository is a plain one, and its entities have no tenant.  The    *)
(* loader is the repository's get_by_id_or_raise(); that a write is        *)
(* followed by invalidate(), when it did not raise, is what the two        *)
(* functions leave to the application.                                     *)
(***************************************************************************)
EXTENDS Repositories

CONSTANT Empty

VARIABLES
    cache,     \* cache[id]: the entry of an entity, or Empty
    client     \* client[c]: where a caller is that uses the cache

vars == <<deployment, store, replica, call, cache, client>>

\* excused is history: the entry may be stale because of a write that the loaded
\* value did not have and that came before it was set, or because of a write
\* whose invalidation did not happen.
Entry == [value : Row, excused : BOOLEAN]

\* value: what was loaded; straddled is history: a write happened since, or had
\* happened, and the replica that was read did not have it.
Client == [ pc : {"idle", "loading", "setting", "writing", "invalidating"},
            id : Ids \cup {Null}, value : Row \cup {NoRow}, straddled : BOOLEAN ]

Done == [pc |-> "idle", id |-> Null, value |-> NoRow, straddled |-> FALSE]

\* The types; that a caller is loading or writing only while its operation on
\* the repository is in progress; and that nothing but an entity is cached.
TypeOK ==
    /\ RepositoriesTypeOK
    /\ cache \in [Ids -> Entry \cup {Empty}]
    /\ client \in [Callers -> Client]
    /\ \A c \in Callers :
        /\ client[c].pc = "idle" <=> client[c] = Done
        /\ client[c].pc = "loading" => call[c].pc = "get" /\ call[c].ids = <<client[c].id>>
        /\ client[c].pc = "writing" => call[c].pc \notin Resting \cup {"get", "find", "page"}
        /\ client[c].pc \in {"setting", "invalidating"} => call[c].pc \in Resting
        /\ client[c].pc = "setting" => client[c].value # NoRow

Init ==
    /\ RepositoriesInit
    /\ cache = [id \in Ids |-> Empty]
    /\ client = [c \in Callers |-> Done]

UsesCache == "cache_aside" \in deployment.operations

\* Redis answers: the entry, or a miss.  A hit ends the read at once.
Miss(c, id) ==
    /\ UsesCache /\ client[c].pc = "idle"
    /\ cache[id] = Empty
    /\ GetById(c, Null, id)
    /\ client' = [client EXCEPT ![c] = [Done EXCEPT !.pc = "loading", !.id = id]]
    /\ UNCHANGED cache

\* Loading with get_by_id, which answers None where there is nothing.
LoadNone(c) ==
    /\ client[c].pc = "loading"
    /\ Get(c)
    /\ client' = [client EXCEPT ![c].pc = "setting", ![c].value = GetAnswer(c)]
    /\ UNCHANGED cache

\* get_by_id_or_raise: what is not there is not cached.
Load(c) ==
    /\ client[c].pc = "loading"
    /\ Get(c)
    /\ client' = [client EXCEPT ![c] =
            IF GetAnswer(c) = NoRow THEN Done
            ELSE [@ EXCEPT !.pc = "setting", !.value = GetAnswer(c),
                           !.straddled = GetAnswer(c) # store[client[c].id]]]
    /\ UNCHANGED cache

LoadRaises(c) ==
    /\ client[c].pc = "loading"
    /\ StatementFails(c)
    /\ client' = [client EXCEPT ![c] = Done]
    /\ UNCHANGED cache

\* RedisCache.set
SetEntry(c) ==
    /\ client[c].pc = "setting"
    /\ cache' = [cache EXCEPT ![client[c].id] =
            [value |-> client[c].value, excused |-> client[c].straddled]]
    /\ client' = [client EXCEPT ![c] = Done]
    /\ UNCHANGED repositoryVars

SetRaises(c) ==
    /\ client[c].pc = "setting"
    /\ client' = [client EXCEPT ![c] = Done]
    /\ UNCHANGED <<repositoryVars, cache>>

\* Entries go one by one: a time to live ends, Redis evicts one, or a
\* clear_prefix() gets to it.
Expire(id) ==
    /\ cache[id] # Empty
    /\ cache' = [cache EXCEPT ![id] = Empty]
    /\ UNCHANGED <<repositoryVars, client>>

-----------------------------------------------------------------------------
BeginWrite(c, id) ==
    /\ UsesCache /\ client[c].pc = "idle"
    /\ \/ Create(c, Null, id, Null)
       \/ \E changes \in Changes : Update(c, Null, id, <<>>, changes)
       \/ Delete(c, Null, id, <<>>)
    /\ client' = [client EXCEPT ![c] = [Done EXCEPT !.pc = "writing", !.id = id]]
    /\ UNCHANGED cache

\* The entries that stay although the row they were loaded from has changed.
Excuse(id, entries) ==
    IF entries[id] = Empty THEN entries
    ELSE [entries EXCEPT ![id].excused = @ \/ entries[id].value # store'[id]]

\* A write goes on.  If it returns, the key is invalidated next; if it raises,
\* after it has changed the row or not, it is not.
WriteStep(c) ==
    /\ client[c].pc = "writing"
    /\ CallStep(c)
    /\ LET id == client[c].id
       IN  /\ cache' = IF call'[c].pc = "raised" THEN Excuse(id, cache) ELSE cache
           /\ client' =
                [ d \in Callers |->
                    CASE d = c /\ call'[c].pc = "returned" ->
                            [client[c] EXCEPT !.pc = "invalidating"]
                      [] d = c /\ call'[c].pc = "raised" -> Done
                      [] d # c /\ client[d].pc = "setting" /\ client[d].id = id ->
                            [client[d] EXCEPT !.straddled = @ \/ store'[id] # store[id]]
                      [] OTHER -> client[d] ]

\* Deleting a key that lacks the prefix the entry was stored under.
UnprefixedDeleted(id) == cache

\* RedisCache.delete
Deleted(id) == [cache EXCEPT ![id] = Empty]

Invalidate(c) ==
    /\ client[c].pc = "invalidating"
    /\ cache' = Deleted(client[c].id)
    /\ client' = [client EXCEPT ![c] = Done]
    /\ UNCHANGED repositoryVars

\* Redis is unreachable, or the caller is cancelled.
InvalidateRaises(c) ==
    /\ client[c].pc = "invalidating"
    /\ UNCHANGED repositoryVars
    /\ cache' = Excuse(client[c].id, cache)
    /\ client' = [client EXCEPT ![c] = Done]

-----------------------------------------------------------------------------
\* Callers that do not use the cache.
PlainStep(c) ==
    /\ ~UsesCache
    /\ BeginStep(c) \/ CallStep(c)
    /\ UNCHANGED <<cache, client>>

ReplicaStep(id) == Replicate(id) /\ UNCHANGED <<cache, client>>

CacheStep(c) ==
    \/ \E id \in Ids : Miss(c, id) \/ BeginWrite(c, id)
    \/ Load(c) \/ LoadRaises(c) \/ SetEntry(c) \/ SetRaises(c)
    \/ WriteStep(c) \/ Invalidate(c) \/ InvalidateRaises(c)

Next ==
    \/ \E c \in Callers : PlainStep(c) \/ CacheStep(c)
    \/ \E id \in Ids : Expire(id) \/ ReplicaStep(id)

Spec == Init /\ [][Next]_vars

-----------------------------------------------------------------------------
\* A cached entity differs from the stored one only while a write that changed
\* it has yet to invalidate it, or if the entry was loaded before a write, or
\* from a replica that did not have it yet, and set after it, or if a write was
\* not followed by its invalidation: the write raised after it had changed the
\* row, or Redis was unreachable.  Without one of these the cache is never
\* stale, whatever the order of loads, writes, invalidations and expiries of
\* several callers (interfaces/cache.py).
StaleExplained ==
    \A id \in Ids :
        cache[id] # Empty /\ cache[id].value # store[id] =>
            \/ cache[id].excused
            \/ \E c \in Callers :
                client[c].pc \in {"writing", "invalidating"} /\ client[c].id = id

=============================================================================
