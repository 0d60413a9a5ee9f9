------------------------- MODULE IdempotencyProofs -------------------------
(***************************************************************************)
(* Safety of Idempotency for any finite set of calls and any managers,     *)
(* keys, payloads and number of expiries.                                  *)
(*                                                                         *)
(* LockKept is why a dictionary entry that comes and goes still serializes *)
(* the calls: as long as some call refers to a lock, the entry is that     *)
(* lock.  ResultsKept is why a result is never another payload's: what the *)
(* cache holds was executed under the fingerprint stored with it.          *)
(* VisibleBounded counts the results a manager's clients have seen or may  *)
(* still see in the cache; it is tighter than ReplaysAgree by one while    *)
(* the entry is gone or an operation is under way, which is what pays for  *)
(* the result that this operation is about to store.                       *)
(***************************************************************************)
EXTENDS Idempotency, FiniteSetTheorems, TLAPS

\* A call refers to a lock.
Engaged(c) == call[c].pc \in {"wait", "get", "operation", "set"}

\* The dictionary entry of a call's key is the lock the call refers to, and a
\* call inside holds it.
LockKept ==
    \A c \in Calls :
        /\ Engaged(c) <=> call[c].lock # None
        /\ call[c].pc # "idle" => /\ call[c].manager \in Managers
                                  /\ call[c].key \in Keys
                                  /\ call[c].payload \in Payloads
        /\ Engaged(c) => locks[call[c].manager][call[c].key] = call[c].lock
        /\ Inside(c) => holder[call[c].lock] = c

\* r is a result of key k and payload p.
ResultFor(r, k, p) ==
    /\ r \in executed
    /\ call[r].key = k
    /\ call[r].payload = p

\* What the cache holds and what a call returned was executed for the same
\* key and payload; a call that executed and returned returned its own result.
ResultsKept ==
    /\ \A c \in Calls : call[c].pc = "set" => c \in executed
    /\ \A c \in executed : call[c].pc \in {"set", "returned", "raised"}
    /\ \A c \in executed : call[c].pc = "returned" => call[c].result = c
    /\ \A k \in Keys : cache[k] # Empty =>
            ResultFor(cache[k].result, k, cache[k].fingerprint)
    /\ \A c \in Calls : call[c].pc = "returned" =>
            ResultFor(call[c].result, call[c].key, call[c].payload)

\* The results that m produced and a call returned, or the cache can still give
\* out.
Visible(m, k) ==
    ResultsOf(m, k) \cup {r \in Calls : call[r].manager = m /\ cache[k].result = r}

\* A call of m is about to produce a result for k.
Producing(m, k) ==
    \E c \in Calls : /\ call[c].pc \in {"operation", "set"}
                     /\ call[c].manager = m /\ call[c].key = k

BoundedFor(m, k) ==
    /\ Cardinality(Visible(m, k)) <= 1 + expiries[k]
    /\ cache[k] = Empty \/ Producing(m, k)
            => Cardinality(Visible(m, k)) <= expiries[k]

VisibleBounded == \A m \in Managers, k \in Keys : BoundedFor(m, k)

IInv == TypeOK /\ LockKept /\ ResultsKept /\ VisibleBounded

USE IdempotencyAssumption DEF IdempotencyAssumption

-----------------------------------------------------------------------------
\* Only c's record changes when c begins, and it gets the arguments and a lock.
LEMMA BeginEffect ==
    ASSUME TypeOK, NEW c \in Calls, NEW m \in Managers, NEW k \in Keys,
           NEW p \in Payloads, Begin(c, m, k, p)
    PROVE  /\ call' \in [Calls -> Call]
           /\ \A d \in Calls : d # c => call'[d] = call[d]
           /\ call'[c].pc = "wait" /\ call'[c].manager = m /\ call'[c].key = k
           /\ call'[c].payload = p /\ call'[c].result = call[c].result
           /\ call'[c].lock = IF locks[m][k] = None THEN c ELSE locks[m][k]
<1> DEFINE l == IF locks[m][k] = None THEN c ELSE locks[m][k]
           begun == [call[c] EXCEPT !.pc = "wait", !.manager = m, !.key = k,
                                    !.payload = p, !.lock = l]
<1>1. l \in Calls
  BY DEF TypeOK
<1>2. call' = [call EXCEPT ![c] = begun]
  BY DEF Begin
<1>3. call[c] \in Call
  BY DEF TypeOK
<1>4. /\ begun \in Call /\ begun.pc = "wait" /\ begun.manager = m /\ begun.key = k
      /\ begun.payload = p /\ begun.lock = l /\ begun.result = call[c].result
  <2> HIDE DEF l
  <2> QED BY <1>1, <1>3 DEF Call, PC
<1> HIDE DEF begun
<1> QED BY <1>1, <1>2, <1>4 DEF TypeOK

\* A call that goes on keeps everything but its place.
LEMMA AdvanceEffect ==
    ASSUME TypeOK, NEW c \in Calls, NEW pc \in PC,
           call' = [call EXCEPT ![c].pc = pc]
    PROVE  /\ call' \in [Calls -> Call]
           /\ \A d \in Calls : d # c => call'[d] = call[d]
           /\ call'[c].pc = pc /\ call'[c].lock = call[c].lock
           /\ \A d \in Calls : /\ call'[d].manager = call[d].manager
                               /\ call'[d].key = call[d].key
                               /\ call'[d].payload = call[d].payload
                               /\ call'[d].result = call[d].result
<1> DEFINE next == [call[c] EXCEPT !.pc = pc]
<1>1. call' = [call EXCEPT ![c] = next]
  OBVIOUS
<1>2. call[c] \in Call
  BY DEF TypeOK
<1>3. /\ next \in Call /\ next.pc = pc /\ next.lock = call[c].lock
      /\ next.manager = call[c].manager /\ next.key = call[c].key
      /\ next.payload = call[c].payload /\ next.result = call[c].result
  BY <1>2 DEF Call
<1> HIDE DEF next
<1> QED BY <1>1, <1>3 DEF TypeOK

\* A call that ends drops its lock and keeps its arguments.
LEMMA FinishEffect ==
    ASSUME TypeOK, NEW c \in Calls, NEW pc \in PC, NEW result \in Calls \cup {None},
           Finish(c, pc, result)
    PROVE  /\ call' \in [Calls -> Call]
           /\ \A d \in Calls : d # c => call'[d] = call[d]
           /\ call'[c].pc = pc /\ call'[c].lock = None /\ call'[c].result = result
           /\ \A d \in Calls : /\ call'[d].manager = call[d].manager
                               /\ call'[d].key = call[d].key
                               /\ call'[d].payload = call[d].payload
<1> DEFINE ended == [call[c] EXCEPT !.pc = pc, !.lock = None, !.result = result]
<1>1. call' = [call EXCEPT ![c] = ended]
  BY DEF Finish
<1>2. call[c] \in Call
  BY DEF TypeOK
<1>3. /\ ended \in Call /\ ended.pc = pc /\ ended.lock = None /\ ended.result = result
      /\ ended.manager = call[c].manager /\ ended.key = call[c].key
      /\ ended.payload = call[c].payload
  BY <1>2 DEF Call
<1> HIDE DEF ended
<1> QED BY <1>1, <1>3 DEF TypeOK

-----------------------------------------------------------------------------
\* The initial states satisfy the inductive invariant.
LEMMA InitIInv == Init => IInv
<1> SUFFICES ASSUME Init PROVE IInv
  OBVIOUS
<1>1. \A c \in Calls :
        call[c] = [pc |-> "idle", manager |-> None, key |-> None,
                   payload |-> None, lock |-> None, result |-> None]
  BY DEF Init
<1>2. \A k \in Keys : cache[k] = Empty /\ expiries[k] = 0
  BY DEF Init
<1>3. TypeOK
  <2>1. call \in [Calls -> Call]
    BY DEF Init, Call, PC
  <2> QED BY <2>1 DEF Init, TypeOK
<1>4. LockKept
  BY <1>1 DEF LockKept, Engaged, Inside
<1>5. ResultsKept
  BY <1>1, <1>2 DEF ResultsKept, Init
<1>6. ASSUME NEW m \in Managers, NEW k \in Keys
      PROVE  Cardinality(Visible(m, k)) = 0
  <2>1. Visible(m, k) = {}
    BY <1>1, <1>2 DEF Visible, ResultsOf
  <2> QED BY <2>1, FS_EmptySet
<1>7. VisibleBounded
  BY <1>2, <1>6 DEF VisibleBounded, BoundedFor
<1> QED BY <1>3, <1>4, <1>5, <1>7 DEF IInv

-----------------------------------------------------------------------------
\* Letting go of a lock keeps every other dictionary entry, and c's own too
\* while another call refers to the lock.
LEMMA EntryAfterEffect ==
    ASSUME TypeOK, LockKept, NEW c \in Calls, Engaged(c)
    PROVE  /\ EntryAfter(c) \in [Managers -> [Keys -> Calls \cup {None}]]
           /\ \A d \in Calls : d # c /\ Engaged(d) =>
                EntryAfter(c)[call[d].manager][call[d].key] = call[d].lock
<1> DEFINE m == call[c].manager
           k == call[c].key
           popped == [locks EXCEPT ![m][k] = None]
<1>1. m \in Managers /\ k \in Keys /\ locks[m][k] = call[c].lock
  BY DEF LockKept, Engaged
<1>2. popped \in [Managers -> [Keys -> Calls \cup {None}]]
  BY <1>1 DEF TypeOK
<1>3. ASSUME NEW n \in Managers, NEW j \in Keys, n # m \/ j # k
      PROVE  popped[n][j] = locks[n][j]
  BY <1>1, <1>3 DEF TypeOK
<1>4. ASSUME NEW d \in Calls, d # c, Engaged(d)
      PROVE  EntryAfter(c)[call[d].manager][call[d].key] = call[d].lock
  <2>1. /\ call[d].manager \in Managers /\ call[d].key \in Keys
        /\ locks[call[d].manager][call[d].key] = call[d].lock
    BY <1>4 DEF LockKept, Engaged
  <2>2. CASE Referring(call[c].lock) = {c}
    <3>1. call[d].lock # call[c].lock
      BY <1>4, <2>2 DEF Referring
    <3>2. call[d].manager # m \/ call[d].key # k
      BY <1>1, <2>1, <3>1
    <3>3. EntryAfter(c) = popped
      BY <2>2 DEF EntryAfter
    <3> HIDE DEF popped, m, k
    <3> QED BY <1>3, <2>1, <3>2, <3>3
  <2>3. CASE Referring(call[c].lock) # {c}
    BY <2>1, <2>3 DEF EntryAfter
  <2> QED BY <2>2, <2>3
<1>5. EntryAfter(c) \in {popped, locks}
  BY DEF EntryAfter
<1> HIDE DEF popped
<1> QED BY <1>2, <1>4, <1>5 DEF TypeOK

\* However a call ends, the state stays in its types: what it returns is a
\* call, and the cache is checked with the action.
LEMMA FinishTypes ==
    ASSUME TypeOK, LockKept, NEW c \in Calls, Engaged(c), NEW pc \in PC,
           NEW result \in Calls \cup {None}, Finish(c, pc, result),
           cache' \in [Keys -> Envelope \cup {Empty}], UNCHANGED executed
    PROVE  TypeOK'
<1>1. call' \in [Calls -> Call]
  BY FinishEffect
<1>2. locks' \in [Managers -> [Keys -> Calls \cup {None}]]
  BY EntryAfterEffect DEF Finish
<1>3. holder' \in [Calls -> Calls \cup {None}]
  BY DEF Finish, TypeOK
<1> QED BY <1>1, <1>2, <1>3 DEF Finish, TypeOK

\* However a call ends, the locks of the others stay as they were.
LEMMA FinishKeepsLocks ==
    ASSUME TypeOK, LockKept, NEW c \in Calls, Engaged(c),
           NEW pc \in {"returned", "raised"},
           NEW result \in Calls \cup {None}, Finish(c, pc, result)
    PROVE  LockKept'
<1>1. /\ \A d \in Calls : d # c => call'[d] = call[d]
      /\ call'[c].pc = pc /\ call'[c].lock = None
      /\ call'[c].manager = call[c].manager /\ call'[c].key = call[c].key
      /\ call'[c].payload = call[c].payload
  BY FinishEffect DEF PC
<1>2. \A d \in Calls : d # c /\ Engaged(d) =>
        locks'[call[d].manager][call[d].key] = call[d].lock
  BY EntryAfterEffect DEF Finish
<1>3. ASSUME NEW d \in Calls, d # c, Inside(d) PROVE holder'[call[d].lock] = d
  <2>1. holder[call[d].lock] = d /\ call[d].lock \in Calls
    BY <1>3 DEF LockKept, Engaged, Inside, TypeOK, Call
  <2>2. CASE holder[call[c].lock] = c
    <3>1. call[d].lock # call[c].lock
      BY <1>3, <2>1, <2>2
    <3>2. holder' = [holder EXCEPT ![call[c].lock] = None]
      BY <2>2 DEF Finish
    <3> QED BY <2>1, <3>1, <3>2 DEF TypeOK
  <2>3. CASE holder[call[c].lock] # c
    BY <2>1, <2>3 DEF Finish
  <2> QED BY <2>2, <2>3
<1>4. ASSUME NEW d \in Calls, d # c
      PROVE  /\ Engaged(d)' <=> call'[d].lock # None
             /\ call'[d].pc # "idle" => /\ call'[d].manager \in Managers
                                        /\ call'[d].key \in Keys
                                        /\ call'[d].payload \in Payloads
             /\ Engaged(d)' => locks'[call'[d].manager][call'[d].key] = call'[d].lock
             /\ Inside(d)' => holder'[call'[d].lock] = d
  BY <1>1, <1>2, <1>3, <1>4 DEF LockKept, Engaged, Inside
<1>5. /\ ~Engaged(c)' /\ call'[c].lock = None /\ ~Inside(c)'
      /\ call'[c].manager \in Managers
      /\ call'[c].key \in Keys
      /\ call'[c].payload \in Payloads
  BY <1>1 DEF LockKept, Engaged, Inside
<1> QED BY <1>4, <1>5 DEF LockKept

\* The cache after a set, and after a set whose failure may hide the write.
LEMMA StoredEffect ==
    ASSUME TypeOK, LockKept, NEW c \in Calls, call[c].pc = "set"
    PROVE  /\ Stored(c) \in [Keys -> Envelope \cup {Empty}]
           /\ Stored(c)[call[c].key].result = c
           /\ Stored(c)[call[c].key].fingerprint = call[c].payload
           /\ Stored(c)[call[c].key] # Empty
           /\ \A k \in Keys : k # call[c].key => Stored(c)[k] = cache[k]
<1>1. call[c].key \in Keys /\ call[c].payload \in Payloads
  BY DEF LockKept
<1>2. [fingerprint |-> call[c].payload, result |-> c] \in Envelope
  BY <1>1 DEF Envelope
<1>3. [fingerprint |-> call[c].payload, result |-> c] # Empty
  BY <1>1 DEF Empty
<1> DEFINE e == [fingerprint |-> call[c].payload, result |-> c]
<1> HIDE DEF e
<1>4. Stored(c) = [cache EXCEPT ![call[c].key] = e]
  BY DEF Stored, e
<1>5. e.result = c /\ e.fingerprint = call[c].payload
  BY DEF e
<1>6. e \in Envelope /\ e # Empty
  BY <1>2, <1>3 DEF e
<1> QED BY <1>1, <1>4, <1>5, <1>6 DEF TypeOK

-----------------------------------------------------------------------------
\* How c ended: its place, its result, and what it left in the cache.
EndsWith(c, pc, result, stored) ==
    /\ Finish(c, pc, result)
    /\ cache' = stored
    /\ UNCHANGED executed

\* The ways a call ends, and what each of them returns and stores.
LEMMA EndingSteps ==
    ASSUME TypeOK, LockKept, NEW c \in Calls
    PROVE  /\ CancelWait(c) \/ GetFails(c) \/ OperationFails(c) =>
                Engaged(c) /\ EndsWith(c, "raised", None, cache)
           /\ GetHit(c) =>
                /\ Engaged(c) /\ cache[call[c].key] # Empty
                /\ \/ EndsWith(c, "raised", None, cache)
                   \/ /\ EndsWith(c, "returned", cache[call[c].key].result, cache)
                      /\ cache[call[c].key].fingerprint = call[c].payload
                      /\ cache[call[c].key].result \in Calls
           /\ SetOk(c) => call[c].pc = "set" /\ EndsWith(c, "returned", c, Stored(c))
           /\ SetFails(c) =>
                /\ call[c].pc = "set"
                /\ \/ EndsWith(c, "raised", None, cache)
                   \/ EndsWith(c, "raised", None, Stored(c))
<1>1. CancelWait(c) \/ GetFails(c) \/ OperationFails(c) =>
        Engaged(c) /\ EndsWith(c, "raised", None, cache)
  BY DEF CancelWait, GetFails, OperationFails, Engaged, EndsWith
<1>2. ASSUME GetHit(c)
      PROVE  /\ Engaged(c) /\ cache[call[c].key] # Empty
             /\ \/ EndsWith(c, "raised", None, cache)
                \/ /\ EndsWith(c, "returned", cache[call[c].key].result, cache)
                   /\ cache[call[c].key].fingerprint = call[c].payload
                   /\ cache[call[c].key].result \in Calls
  <2>1. Engaged(c) /\ cache[call[c].key] # Empty
    BY <1>2 DEF GetHit, Engaged
  <2>2. call[c].key \in Keys
    BY <2>1 DEF LockKept, Engaged
  <2>3. cache[call[c].key].result \in Calls
    BY <2>1, <2>2 DEF TypeOK, Envelope
  <2> QED BY <1>2, <2>1, <2>3 DEF GetHit, EndsWith
<1>3. SetOk(c) => call[c].pc = "set" /\ EndsWith(c, "returned", c, Stored(c))
  BY DEF SetOk, EndsWith
<1>4. SetFails(c) =>
        /\ call[c].pc = "set"
        /\ \/ EndsWith(c, "raised", None, cache)
           \/ EndsWith(c, "raised", None, Stored(c))
  BY DEF SetFails, EndsWith
<1> QED BY <1>1, <1>2, <1>3, <1>4

\* Every end of a call keeps the types and the locks.
LEMMA EndKeepsLocks ==
    ASSUME TypeOK, LockKept, NEW c \in Calls,
           \/ CancelWait(c) \/ GetHit(c) \/ GetFails(c)
           \/ OperationFails(c) \/ SetOk(c) \/ SetFails(c)
    PROVE  TypeOK' /\ LockKept'
<1>1. PICK pc \in {"returned", "raised"}, result \in Calls \cup {None},
           stored \in {cache, IF call[c].pc = "set" THEN Stored(c) ELSE cache} :
        EndsWith(c, pc, result, stored)
  <2>1. CASE CancelWait(c) \/ GetFails(c) \/ OperationFails(c)
    BY <2>1, EndingSteps
  <2>2. CASE GetHit(c)
    BY <2>2, EndingSteps
  <2>3. CASE SetOk(c)
    BY <2>3, EndingSteps
  <2>4. CASE SetFails(c)
    BY <2>4, EndingSteps
  <2> QED BY <2>1, <2>2, <2>3, <2>4
<1>2. Engaged(c)
  BY EndingSteps DEF Engaged
<1>3. stored \in [Keys -> Envelope \cup {Empty}]
  <2>1. cache \in [Keys -> Envelope \cup {Empty}]
    BY DEF TypeOK
  <2>2. call[c].pc = "set" => Stored(c) \in [Keys -> Envelope \cup {Empty}]
    BY StoredEffect
  <2> QED BY <2>1, <2>2, Zenon
<1>4. TypeOK'
  BY <1>1, <1>2, <1>3, FinishTypes DEF EndsWith, PC
<1>5. LockKept'
  BY <1>1, <1>2, FinishKeepsLocks DEF EndsWith
<1> QED BY <1>4, <1>5

\* A call that begins joins the lock of its key, or brings the first one.
LEMMA BeginKeepsLocks ==
    ASSUME TypeOK, LockKept, NEW c \in Calls, NEW m \in Managers, NEW k \in Keys,
           NEW p \in Payloads, Begin(c, m, k, p)
    PROVE  TypeOK' /\ LockKept'
<1> DEFINE l == IF locks[m][k] = None THEN c ELSE locks[m][k]
<1>1. /\ call' \in [Calls -> Call]
      /\ \A d \in Calls : d # c => call'[d] = call[d]
      /\ call'[c].pc = "wait" /\ call'[c].manager = m /\ call'[c].key = k
      /\ call'[c].payload = p /\ call'[c].lock = l
  BY BeginEffect
<1>2. l \in Calls /\ l # None
  BY DEF TypeOK
<1>3. locks' = [locks EXCEPT ![m][k] = l]
  BY DEF Begin
<1>4. UNCHANGED <<holder, cache, executed, expiries>>
  BY DEF Begin
<1>5. locks[m][k] # None => l = locks[m][k]
  OBVIOUS
<1> HIDE DEF l
<1>6. /\ locks' \in [Managers -> [Keys -> Calls \cup {None}]]
      /\ locks'[m][k] = l
      /\ \A n \in Managers, j \in Keys : n # m \/ j # k => locks'[n][j] = locks[n][j]
  BY <1>2, <1>3 DEF TypeOK
<1>7. TypeOK'
  BY <1>1, <1>4, <1>6 DEF TypeOK
<1>8. ASSUME NEW d \in Calls, d # c, Engaged(d)
      PROVE  locks'[call[d].manager][call[d].key] = call[d].lock
  <2>1. /\ call[d].manager \in Managers /\ call[d].key \in Keys
        /\ locks[call[d].manager][call[d].key] = call[d].lock
        /\ call[d].lock # None
    BY <1>8 DEF LockKept, Engaged
  <2>2. CASE call[d].manager = m /\ call[d].key = k
    BY <1>5, <1>6, <2>1, <2>2
  <2>3. CASE ~(call[d].manager = m /\ call[d].key = k)
    BY <1>6, <2>1, <2>3
  <2> QED BY <2>2, <2>3
<1>9. LockKept'
  <2>1. ASSUME NEW d \in Calls, d # c
        PROVE  /\ Engaged(d)' <=> call'[d].lock # None
               /\ call'[d].pc # "idle" => /\ call'[d].manager \in Managers
                                          /\ call'[d].key \in Keys
                                          /\ call'[d].payload \in Payloads
               /\ Engaged(d)' => locks'[call'[d].manager][call'[d].key] = call'[d].lock
               /\ Inside(d)' => holder'[call'[d].lock] = d
    BY <1>1, <1>4, <1>8, <2>1 DEF LockKept, Engaged, Inside
  <2>2. /\ Engaged(c)' /\ call'[c].lock # None /\ ~Inside(c)'
        /\ locks'[call'[c].manager][call'[c].key] = call'[c].lock
    BY <1>1, <1>2, <1>6 DEF Engaged, Inside
  <2> QED BY <1>1, <2>1, <2>2 DEF LockKept
<1> QED BY <1>7, <1>9

\* TypeOK and LockKept are inductive together.
LEMMA LocksStep == TypeOK /\ LockKept /\ [Next]_vars => TypeOK' /\ LockKept'
<1> SUFFICES ASSUME TypeOK, LockKept, [Next]_vars
             PROVE  TypeOK' /\ LockKept'
  OBVIOUS
<1>1. ASSUME NEW c \in Calls, NEW m \in Managers, NEW k \in Keys,
             NEW p \in Payloads, Begin(c, m, k, p)
      PROVE  TypeOK' /\ LockKept'
  BY <1>1, BeginKeepsLocks
<1>2. ASSUME NEW c \in Calls, Acquire(c)
      PROVE  TypeOK' /\ LockKept'
  <2>1. /\ call' \in [Calls -> Call]
        /\ \A d \in Calls : d # c => call'[d] = call[d]
        /\ call'[c].pc = "get" /\ call'[c].lock = call[c].lock
        /\ call'[c].manager = call[c].manager /\ call'[c].key = call[c].key
        /\ call'[c].payload = call[c].payload
    BY <1>2, AdvanceEffect DEF Acquire, PC
  <2>2. call[c].pc = "wait" /\ call[c].lock \in Calls
    BY <1>2 DEF Acquire, TypeOK, Call, LockKept, Engaged
  <2>3. /\ holder[call[c].lock] = None
        /\ holder' = [holder EXCEPT ![call[c].lock] = c]
        /\ UNCHANGED <<locks, cache, executed, expiries>>
    BY <1>2 DEF Acquire
  <2>4. TypeOK'
    BY <2>1, <2>2, <2>3 DEF TypeOK
  <2>5. ASSUME NEW d \in Calls, d # c, Inside(d) PROVE holder'[call[d].lock] = d
    BY <2>2, <2>3, <2>5 DEF LockKept, Inside, TypeOK
  <2>6. holder'[call[c].lock] = c
    BY <2>2, <2>3 DEF TypeOK
  <2>7. LockKept'
    BY <2>1, <2>2, <2>3, <2>5, <2>6 DEF LockKept, Engaged, Inside
  <2> QED BY <2>4, <2>7
<1>3. ASSUME NEW c \in Calls, GetMiss(c) \/ OperationOk(c)
      PROVE  TypeOK' /\ LockKept'
  <2>1. PICK pc \in {"operation", "set"} : call' = [call EXCEPT ![c].pc = pc]
    BY <1>3 DEF GetMiss, OperationOk
  <2>2. /\ call' \in [Calls -> Call]
        /\ \A d \in Calls : d # c => call'[d] = call[d]
        /\ call'[c].pc = pc /\ call'[c].lock = call[c].lock
        /\ call'[c].manager = call[c].manager /\ call'[c].key = call[c].key
        /\ call'[c].payload = call[c].payload
    BY <2>1, AdvanceEffect DEF PC
  <2>3. UNCHANGED <<locks, holder, cache, expiries>> /\ Inside(c)
    BY <1>3 DEF GetMiss, OperationOk, Inside
  <2>4. executed' \subseteq Calls
    BY <1>3 DEF GetMiss, OperationOk, TypeOK
  <2>5. TypeOK'
    BY <2>2, <2>3, <2>4 DEF TypeOK
  <2>6. LockKept'
    BY <2>2, <2>3 DEF LockKept, Engaged, Inside
  <2> QED BY <2>5, <2>6
<1>4. ASSUME NEW c \in Calls,
             \/ CancelWait(c) \/ GetHit(c) \/ GetFails(c)
             \/ OperationFails(c) \/ SetOk(c) \/ SetFails(c)
      PROVE  TypeOK' /\ LockKept'
  BY <1>4, EndKeepsLocks
<1>5. ASSUME NEW k \in Keys, Expire(k)
      PROVE  TypeOK' /\ LockKept'
  <2>1. TypeOK'
    BY <1>5 DEF Expire, TypeOK
  <2>2. LockKept'
    BY <1>5 DEF Expire, LockKept, Engaged, Inside
  <2> QED BY <2>1, <2>2
<1>6. CASE UNCHANGED vars
  BY <1>6 DEF vars, TypeOK, LockKept, Engaged, Inside
<1> QED BY <1>1, <1>2, <1>3, <1>4, <1>5, <1>6 DEF Next

-----------------------------------------------------------------------------
\* Two calls inside have different keys, or different managers.
LEMMA LocksSerialize == TypeOK /\ LockKept => SerializedPerKey
<1> SUFFICES ASSUME TypeOK, LockKept, NEW c \in Calls, NEW d \in Calls, c # d,
                    Inside(c), Inside(d), call[c].manager = call[d].manager,
                    call[c].key = call[d].key
             PROVE  FALSE
  BY DEF SerializedPerKey
<1>1. Engaged(c) /\ Engaged(d)
  BY DEF Engaged, Inside
<1>2. call[c].lock = call[d].lock
  BY <1>1 DEF LockKept
<1> QED BY <1>2 DEF LockKept

\* An execution stays recorded, and so do the arguments of the calls that have
\* begun: no call takes other arguments later.
LEMMA ArgumentsStay ==
    ASSUME TypeOK, LockKept, [Next]_vars
    PROVE  /\ executed \subseteq executed'
           /\ \A c \in Calls : call[c].pc # "idle" =>
                /\ call'[c].manager = call[c].manager
                /\ call'[c].key = call[c].key
                /\ call'[c].payload = call[c].payload
<1> DEFINE Stays ==
             /\ executed \subseteq executed'
             /\ \A c \in Calls : call[c].pc # "idle" =>
                  /\ call'[c].manager = call[c].manager
                  /\ call'[c].key = call[c].key
                  /\ call'[c].payload = call[c].payload
<1>1. ASSUME NEW c \in Calls, NEW m \in Managers, NEW k \in Keys,
             NEW p \in Payloads, Begin(c, m, k, p)
      PROVE  Stays
  <2>1. call[c].pc = "idle" /\ executed' = executed
    BY <1>1 DEF Begin
  <2>2. \A d \in Calls : d # c => call'[d] = call[d]
    BY <1>1, BeginEffect
  <2> QED BY <2>1, <2>2
<1>2. ASSUME NEW c \in Calls, Acquire(c) \/ GetMiss(c) \/ OperationOk(c)
      PROVE  Stays
  <2>1. PICK pc \in {"get", "operation", "set"} : call' = [call EXCEPT ![c].pc = pc]
    BY <1>2 DEF Acquire, GetMiss, OperationOk
  <2>2. executed \subseteq executed'
    BY <1>2 DEF Acquire, GetMiss, OperationOk
  <2> QED BY <2>1, <2>2, AdvanceEffect DEF PC
<1>3. ASSUME NEW c \in Calls,
             \/ CancelWait(c) \/ GetHit(c) \/ GetFails(c)
             \/ OperationFails(c) \/ SetOk(c) \/ SetFails(c)
      PROVE  Stays
  <2>1. PICK pc \in {"returned", "raised"}, result \in Calls \cup {None} :
          Finish(c, pc, result) /\ executed' = executed
    BY <1>3, EndingSteps DEF EndsWith
  <2> QED BY <2>1, FinishEffect DEF PC
<1>4. ASSUME NEW k \in Keys, Expire(k)
      PROVE  Stays
  BY <1>4 DEF Expire
<1>5. ASSUME UNCHANGED vars
      PROVE  Stays
  BY <1>5 DEF vars
<1> HIDE DEF Stays
<1>6. Stays
  BY <1>1, <1>2, <1>3, <1>4, <1>5 DEF Next
<1> QED BY <1>6 DEF Stays

\* What was a result of a key and a payload remains one.
LEMMA ResultsStay ==
    ASSUME TypeOK, LockKept, ResultsKept, [Next]_vars, NEW r, NEW k, NEW p,
           ResultFor(r, k, p)
    PROVE  ResultFor(r, k, p)' /\ call'[r].manager = call[r].manager
<1>1. r \in Calls /\ call[r].pc # "idle"
  BY DEF ResultFor, ResultsKept, TypeOK
<1> QED BY <1>1, ArgumentsStay DEF ResultFor

\* However a call ends, ResultsKept holds again if what the call returns and
\* what the cache then holds for its key are results of its key.
LEMMA EndKeepsResults ==
    ASSUME TypeOK, LockKept, ResultsKept, [Next]_vars, NEW c \in Calls,
           NEW pc \in {"returned", "raised"}, NEW result \in Calls \cup {None},
           NEW stored, Engaged(c), EndsWith(c, pc, result, stored),
           pc = "returned" => /\ ResultFor(result, call[c].key, call[c].payload)
                              /\ c \in executed => result = c,
           \A k \in Keys : stored[k] # Empty =>
               ResultFor(stored[k].result, k, stored[k].fingerprint)
    PROVE  ResultsKept'
<1>1. /\ \A d \in Calls : d # c => call'[d] = call[d]
      /\ call'[c].pc = pc /\ call'[c].result = result
      /\ call'[c].key = call[c].key /\ call'[c].payload = call[c].payload
      /\ executed' = executed /\ cache' = stored
  BY FinishEffect DEF EndsWith, PC
<1>2. \A d \in Calls : call'[d].pc = "set" => d \in executed'
  BY <1>1 DEF ResultsKept
<1>3. \A d \in executed' : call'[d].pc \in {"set", "returned", "raised"}
  BY <1>1 DEF ResultsKept, TypeOK
<1>4. \A d \in executed' : call'[d].pc = "returned" => call'[d].result = d
  BY <1>1 DEF ResultsKept, TypeOK
<1>5. \A k \in Keys : cache'[k] # Empty =>
          ResultFor(cache[k].result, k, cache[k].fingerprint)'
  BY <1>1, ResultsStay
<1>6. ASSUME NEW d \in Calls, call'[d].pc = "returned"
      PROVE  ResultFor(call[d].result, call[d].key, call[d].payload)'
  <2>1. CASE d = c
    BY <1>1, <1>6, <2>1, ResultsStay
  <2>2. CASE d # c
    <3>1. ResultFor(call[d].result, call[d].key, call[d].payload)
      BY <1>1, <1>6, <2>2 DEF ResultsKept
    <3> QED BY <1>1, <2>2, <3>1, ResultsStay
  <2> QED BY <2>1, <2>2
<1> QED BY <1>2, <1>3, <1>4, <1>5, <1>6, Zenon DEF ResultsKept

\* ResultsKept is preserved by every step.
LEMMA ResultsStep == TypeOK /\ LockKept /\ ResultsKept /\ [Next]_vars => ResultsKept'
<1> SUFFICES ASSUME TypeOK, LockKept, ResultsKept, [Next]_vars
             PROVE  ResultsKept'
  OBVIOUS
<1>1. ASSUME NEW c \in Calls, NEW m \in Managers, NEW k \in Keys,
             NEW p \in Payloads, Begin(c, m, k, p)
      PROVE  ResultsKept'
  <2>1. /\ call[c].pc = "idle" /\ call'[c].pc = "wait"
        /\ \A d \in Calls : d # c => call'[d] = call[d]
        /\ executed' = executed /\ cache' = cache
    BY <1>1, BeginEffect DEF Begin
  <2>2. c \notin executed
    BY <2>1 DEF ResultsKept
  <2>3. \A r, j, q : ResultFor(r, j, q) => ResultFor(r, j, q)'
    BY ResultsStay
  <2>4. \A d \in Calls : call'[d].pc = "returned" =>
            ResultFor(call[d].result, call[d].key, call[d].payload)'
    BY <2>1, <2>3 DEF ResultsKept
  <2>5. \A j \in Keys : cache'[j] # Empty =>
            ResultFor(cache[j].result, j, cache[j].fingerprint)'
    BY <2>1, <2>3 DEF ResultsKept
  <2> QED BY <2>1, <2>2, <2>4, <2>5 DEF ResultsKept, TypeOK
<1>2. ASSUME NEW c \in Calls, Acquire(c) \/ GetMiss(c) \/ OperationOk(c)
      PROVE  ResultsKept'
  <2>1. PICK pc \in {"get", "operation", "set"} :
          /\ call' = [call EXCEPT ![c].pc = pc]
          /\ pc = "set" <=> OperationOk(c)
          /\ executed' = IF pc = "set" THEN executed \cup {c} ELSE executed
          /\ cache' = cache
          /\ call[c].pc \in {"wait", "get", "operation"}
    BY <1>2 DEF Acquire, GetMiss, OperationOk
  <2>2. /\ \A d \in Calls : d # c => call'[d] = call[d]
        /\ call'[c].pc = pc
    BY <2>1, AdvanceEffect DEF PC
  <2>3. \A r, j, q : ResultFor(r, j, q) => ResultFor(r, j, q)'
    BY ResultsStay
  <2>4. \A d \in Calls : call'[d].pc = "returned" =>
            ResultFor(call[d].result, call[d].key, call[d].payload)'
    BY <2>2, <2>3 DEF ResultsKept
  <2>5. \A j \in Keys : cache'[j] # Empty =>
            ResultFor(cache[j].result, j, cache[j].fingerprint)'
    BY <2>1, <2>3 DEF ResultsKept
  <2>6. c \notin executed
    BY <2>1 DEF ResultsKept
  <2>7. executed \subseteq Calls
    BY DEF TypeOK
  <2>8. /\ \A d \in Calls : call'[d].pc = "set" => d \in executed'
        /\ \A d \in executed' : call'[d].pc \in {"set", "returned", "raised"}
        /\ \A d \in executed' : call'[d].pc = "returned" => call'[d].result = d
    BY <2>1, <2>2, <2>6, <2>7 DEF ResultsKept
  <2> QED BY <2>4, <2>5, <2>8, Zenon DEF ResultsKept
<1>3. ASSUME NEW c \in Calls, CancelWait(c) \/ GetFails(c) \/ OperationFails(c)
      PROVE  ResultsKept'
  <2>1. Engaged(c) /\ EndsWith(c, "raised", None, cache)
    BY <1>3, EndingSteps
  <2>2. \A k \in Keys : cache[k] # Empty =>
            ResultFor(cache[k].result, k, cache[k].fingerprint)
    BY DEF ResultsKept
  <2> QED BY <2>1, <2>2, EndKeepsResults
<1>4. ASSUME NEW c \in Calls, GetHit(c)
      PROVE  ResultsKept'
  <2>1. /\ Engaged(c) /\ cache[call[c].key] # Empty
        /\ \/ EndsWith(c, "raised", None, cache)
           \/ /\ EndsWith(c, "returned", cache[call[c].key].result, cache)
              /\ cache[call[c].key].fingerprint = call[c].payload
              /\ cache[call[c].key].result \in Calls
    BY <1>4, EndingSteps
  <2>2. \A k \in Keys : cache[k] # Empty =>
            ResultFor(cache[k].result, k, cache[k].fingerprint)
    BY DEF ResultsKept
  <2>3. call[c].key \in Keys /\ c \notin executed
    BY <1>4 DEF GetHit, LockKept, ResultsKept
  <2>4. CASE EndsWith(c, "raised", None, cache)
    BY <2>1, <2>2, <2>4, EndKeepsResults
  <2>5. CASE /\ EndsWith(c, "returned", cache[call[c].key].result, cache)
             /\ cache[call[c].key].fingerprint = call[c].payload
             /\ cache[call[c].key].result \in Calls
    BY <2>1, <2>2, <2>3, <2>5, EndKeepsResults
  <2> QED BY <2>1, <2>4, <2>5
<1>5. ASSUME NEW c \in Calls, SetOk(c) \/ SetFails(c)
      PROVE  ResultsKept'
  <2>1. /\ call[c].pc = "set"
        /\ \/ EndsWith(c, "raised", None, cache)
           \/ EndsWith(c, "raised", None, Stored(c))
           \/ EndsWith(c, "returned", c, Stored(c))
    BY <1>5, EndingSteps
  <2>2. \A k \in Keys : cache[k] # Empty =>
            ResultFor(cache[k].result, k, cache[k].fingerprint)
    BY DEF ResultsKept
  <2>3. ResultFor(c, call[c].key, call[c].payload)
    BY <2>1 DEF ResultFor, ResultsKept
  <2>4. \A k \in Keys : Stored(c)[k] # Empty =>
            ResultFor(Stored(c)[k].result, k, Stored(c)[k].fingerprint)
    <3>1. /\ Stored(c)[call[c].key].result = c
          /\ Stored(c)[call[c].key].fingerprint = call[c].payload
          /\ \A k \in Keys : k # call[c].key => Stored(c)[k] = cache[k]
      BY <2>1, StoredEffect
    <3> QED BY <2>2, <2>3, <3>1
  <2>5. Engaged(c)
    BY <2>1 DEF Engaged
  <2>6. CASE EndsWith(c, "raised", None, cache)
    BY <2>2, <2>5, <2>6, EndKeepsResults
  <2>7. CASE EndsWith(c, "raised", None, Stored(c))
    BY <2>4, <2>5, <2>7, EndKeepsResults
  <2>8. CASE EndsWith(c, "returned", c, Stored(c))
    BY <2>3, <2>4, <2>5, <2>8, EndKeepsResults
  <2> QED BY <2>1, <2>6, <2>7, <2>8
<1>6. ASSUME NEW k \in Keys, Expire(k)
      PROVE  ResultsKept'
  <2>1. /\ UNCHANGED <<call, executed>>
        /\ \A j \in Keys : cache'[j] = cache[j] \/ cache'[j] = Empty
    BY <1>6 DEF Expire, TypeOK
  <2> QED BY <2>1 DEF ResultsKept, ResultFor
<1>7. CASE UNCHANGED vars
  BY <1>7 DEF vars, ResultsKept, ResultFor
<1> QED BY <1>1, <1>2, <1>3, <1>4, <1>5, <1>6, <1>7 DEF Next

-----------------------------------------------------------------------------
\* The visible results are calls, so there are finitely many, and a subset
\* has no more of them.
LEMMA VisibleFinite ==
    ASSUME NEW m, NEW k
    PROVE  /\ Visible(m, k) \subseteq Calls /\ IsFiniteSet(Visible(m, k))
           /\ Cardinality(Visible(m, k)) \in Nat
           /\ \A S : S \subseteq Visible(m, k) =>
                IsFiniteSet(S) /\ Cardinality(S) <= Cardinality(Visible(m, k))
<1>1. Visible(m, k) \subseteq Calls
  BY DEF Visible, ResultsOf
<1>2. IsFiniteSet(Visible(m, k))
  BY <1>1, FS_Subset
<1> QED BY <1>1, <1>2, FS_Subset, FS_CardinalityType

\* A step shows no result of m that was not visible before, save those of new:
\* a call that returns takes its result from the cache or from new, and the
\* entry stays, goes, or gets a result of new.
LEMMA VisibleGrows ==
    ASSUME TypeOK, LockKept, ResultsKept, [Next]_vars,
           NEW m \in Managers, NEW k \in Keys, NEW new,
           \A d \in Calls : call'[d].pc = "returned" /\ call'[d].key = k =>
               \/ /\ call[d].pc = "returned" /\ call[d].key = k
                  /\ call[d].result = call'[d].result
               \/ call'[d].result = cache[k].result
               \/ call'[d].result \in new,
           cache'[k] = cache[k] \/ cache'[k] = Empty \/ cache'[k].result \in new
    PROVE  Visible(m, k)' \subseteq
               Visible(m, k) \cup {r \in new : call'[r].manager = m}
<1> SUFFICES ASSUME NEW r \in Visible(m, k)', r \notin new
             PROVE  r \in Visible(m, k)
  BY DEF Visible, ResultsOf
<1>1. r \in Calls /\ call'[r].manager = m /\ r # None
  BY DEF Visible, ResultsOf
<1>2. CASE cache[k].result = r
  <2>1. ResultFor(r, k, cache[k].fingerprint)
    BY <1>1, <1>2 DEF ResultsKept, Empty
  <2>2. call[r].manager = m
    BY <1>1, <2>1, ResultsStay
  <2> QED BY <1>1, <1>2, <2>2 DEF Visible
<1>3. CASE \E d \in Calls : /\ call[d].pc = "returned" /\ call[d].key = k
                            /\ call[d].result = r
  <2>1. PICK d \in Calls : /\ call[d].pc = "returned" /\ call[d].key = k
                           /\ call[d].result = r
    BY <1>3
  <2>2. ResultFor(r, k, call[d].payload)
    BY <2>1 DEF ResultsKept
  <2>3. call[r].manager = m
    BY <1>1, <2>2, ResultsStay
  <2> QED BY <1>1, <2>1, <2>3 DEF Visible, ResultsOf
<1>4. cache[k].result = r \/ \E d \in Calls : /\ call[d].pc = "returned"
                                              /\ call[d].key = k
                                              /\ call[d].result = r
  BY <1>1 DEF Visible, ResultsOf, Empty
<1> QED BY <1>2, <1>3, <1>4

\* When nothing new gets visible, the bound holds again unless the entry has
\* gone without an expiry or an operation has begun over an entry.
LEMMA ShrinkKeepsBound ==
    ASSUME TypeOK, TypeOK', NEW m \in Managers, NEW k \in Keys, BoundedFor(m, k),
           Visible(m, k)' \subseteq Visible(m, k),
           \/ /\ expiries'[k] = expiries[k]
              /\ cache'[k] = Empty \/ Producing(m, k)' =>
                     cache[k] = Empty \/ Producing(m, k)
           \/ expiries'[k] = expiries[k] + 1
    PROVE  BoundedFor(m, k)'
<1> DEFINE n == Cardinality(Visible(m, k))
           o == Cardinality(Visible(m, k)')
<1>1. n \in Nat /\ o \in Nat /\ o <= n
  <2>1. IsFiniteSet(Visible(m, k)') /\ o <= n
    BY VisibleFinite
  <2> QED BY <2>1, VisibleFinite, FS_CardinalityType
<1>2. expiries[k] \in Nat /\ expiries'[k] \in Nat
  BY DEF TypeOK
<1>3. /\ n <= 1 + expiries[k]
      /\ cache[k] = Empty \/ Producing(m, k) => n <= expiries[k]
  BY DEF BoundedFor
<1>4. /\ o <= 1 + expiries'[k]
      /\ cache'[k] = Empty \/ Producing(m, k)' => o <= expiries'[k]
  <2> HIDE DEF n, o
  <2> QED BY <1>1, <1>2, <1>3
<1> QED BY <1>4 DEF BoundedFor

\* A call in its operation is the only one of its manager on its key.
LEMMA OneProducer ==
    ASSUME TypeOK, LockKept, NEW c \in Calls, NEW d \in Calls, Inside(c),
           call[d].pc \in {"operation", "set"},
           call[d].manager = call[c].manager, call[d].key = call[c].key
    PROVE  d = c
BY LocksSerialize DEF SerializedPerKey, Inside

\* A call that ends and stores its own result adds this one to what its key
\* shows; it was counted as under way until then.
LEMMA StoreKeepsBound ==
    ASSUME IInv, TypeOK', [Next]_vars, NEW c \in Calls, call[c].pc = "set",
           NEW pc \in {"returned", "raised"}, NEW result \in {c, None},
           EndsWith(c, pc, result, Stored(c)), pc = "returned" => result = c,
           NEW m \in Managers, NEW k \in Keys
    PROVE  BoundedFor(m, k)'
<1>1. /\ \A d \in Calls : d # c => call'[d] = call[d]
      /\ call'[c].pc = pc /\ call'[c].result = result
      /\ call'[c].manager = call[c].manager /\ call'[c].key = call[c].key
      /\ cache' = Stored(c) /\ UNCHANGED expiries
  BY ZenonT(60), FinishEffect DEF EndsWith, PC, IInv, Finish
<1>2. /\ Stored(c)[call[c].key].result = c /\ Stored(c)[call[c].key] # Empty
      /\ \A j \in Keys : j # call[c].key => Stored(c)[j] = cache[j]
  BY StoredEffect DEF IInv
<1>3. Producing(m, k)' => Producing(m, k)
  BY <1>1 DEF Producing
<1>4. CASE call[c].key # k
  <2>1. Visible(m, k)' \subseteq Visible(m, k) \cup {r \in {} : call'[r].manager = m}
    BY <1>1, <1>2, <1>4, VisibleGrows DEF IInv
  <2> QED
    BY <1>1, <1>2, <1>3, <1>4, <2>1, ShrinkKeepsBound DEF IInv, VisibleBounded
<1>5. CASE call[c].key = k
  <2>1. Visible(m, k)' \subseteq Visible(m, k) \cup {r \in {c} : call'[r].manager = m}
    <3>1. \A d \in Calls : call'[d].pc = "returned" /\ call'[d].key = k =>
            \/ /\ call[d].pc = "returned" /\ call[d].key = k
               /\ call[d].result = call'[d].result
            \/ call'[d].result \in {c}
      BY <1>1
    <3>2. cache'[k].result \in {c}
      BY <1>1, <1>2, <1>5
    <3> QED BY <3>1, <3>2, VisibleGrows DEF IInv
  <2>2. cache'[k] # Empty
    BY <1>1, <1>2, <1>5
  <2>3. CASE call[c].manager # m
    BY <1>1, <1>3, <2>1, <2>2, <2>3, ShrinkKeepsBound DEF IInv, VisibleBounded
  <2>4. CASE call[c].manager = m
    <3> DEFINE n == Cardinality(Visible(m, k))
               o == Cardinality(Visible(m, k)')
    <3>1. Producing(m, k)
      BY <1>5, <2>4 DEF Producing
    <3>2. n <= expiries[k]
      BY <3>1 DEF IInv, VisibleBounded, BoundedFor
    <3>3. ~Producing(m, k)'
      BY <1>1, <1>5, <2>4, OneProducer DEF Producing, Inside, IInv
    <3>4. o \in Nat /\ n \in Nat /\ o <= n + 1
      <4> DEFINE V == Visible(m, k)
      <4>1. IsFiniteSet(V) /\ n \in Nat
        BY VisibleFinite
      <4>2. IsFiniteSet(V \cup {c}) /\ Cardinality(V \cup {c}) \in {n, n + 1}
        <5> HIDE DEF V
        <5> QED BY <4>1, FS_AddElement DEF V
      <4>3. Visible(m, k)' \subseteq V \cup {c}
        BY <2>1
      <4>4. IsFiniteSet(Visible(m, k)') /\ o <= Cardinality(V \cup {c})
        <5> HIDE DEF V
        <5> QED BY <4>2, <4>3, FS_Subset
      <4>5. o \in Nat
        BY <4>4, FS_CardinalityType
      <4> HIDE DEF n, o, V
      <4> QED BY <4>1, <4>2, <4>4, <4>5
    <3>5. expiries[k] \in Nat /\ expiries'[k] = expiries[k]
      BY <1>1 DEF IInv, TypeOK
    <3>6. o <= 1 + expiries'[k]
      <4> HIDE DEF n, o
      <4> QED BY <3>2, <3>4, <3>5
    <3> QED BY <2>2, <3>3, <3>6 DEF BoundedFor
  <2> QED BY <2>3, <2>4
<1> QED BY <1>4, <1>5

\* VisibleBounded is preserved by every step.
LEMMA VisibleStep == IInv /\ TypeOK' /\ [Next]_vars => VisibleBounded'
<1> SUFFICES ASSUME IInv, TypeOK', [Next]_vars, NEW m \in Managers, NEW k \in Keys
             PROVE  BoundedFor(m, k)'
  BY DEF VisibleBounded
<1>1. BoundedFor(m, k) /\ TypeOK /\ LockKept /\ ResultsKept
  BY DEF IInv, VisibleBounded
\* Every step but a store: what calls return comes from what was visible.
<1>2. ASSUME \A d \in Calls : call'[d].pc = "returned" /\ call'[d].key = k =>
                 \/ /\ call[d].pc = "returned" /\ call[d].key = k
                    /\ call[d].result = call'[d].result
                 \/ call'[d].result = cache[k].result,
             cache'[k] = cache[k] \/ cache'[k] = Empty,
             \/ /\ expiries'[k] = expiries[k]
                /\ cache'[k] = Empty \/ Producing(m, k)' =>
                       cache[k] = Empty \/ Producing(m, k)
             \/ expiries'[k] = expiries[k] + 1
      PROVE  BoundedFor(m, k)'
  <2>1. Visible(m, k)' \subseteq Visible(m, k) \cup {r \in {} : call'[r].manager = m}
    BY <1>1, <1>2, VisibleGrows
  <2> QED BY <1>1, <1>2, <2>1, ShrinkKeepsBound
<1>3. ASSUME NEW c \in Calls, NEW n \in Managers, NEW j \in Keys,
             NEW p \in Payloads, Begin(c, n, j, p)
      PROVE  BoundedFor(m, k)'
  <2>1. /\ \A d \in Calls : d # c => call'[d] = call[d]
        /\ call'[c].pc = "wait" /\ UNCHANGED <<cache, expiries>>
    BY <1>1, <1>3, BeginEffect DEF Begin
  <2> QED BY <1>2, <2>1 DEF Producing
<1>4. ASSUME NEW c \in Calls, Acquire(c) \/ GetMiss(c) \/ OperationOk(c)
      PROVE  BoundedFor(m, k)'
  <2>1. PICK pc \in {"get", "operation", "set"} :
          /\ call' = [call EXCEPT ![c].pc = pc]
          /\ pc = "get" \/ cache[call[c].key] = Empty \/ call[c].pc = "operation"
          /\ UNCHANGED <<cache, expiries>>
    BY <1>4 DEF Acquire, GetMiss, OperationOk
  <2>2. /\ \A d \in Calls : d # c => call'[d] = call[d]
        /\ call'[c].pc = pc /\ call'[c].manager = call[c].manager
        /\ call'[c].key = call[c].key
    BY <1>1, <2>1, AdvanceEffect DEF PC
  <2>3. Producing(m, k)' => cache[k] = Empty \/ Producing(m, k)
    BY <2>1, <2>2 DEF Producing
  <2> QED BY <1>2, <2>1, <2>2, <2>3
<1>5. ASSUME NEW c \in Calls, NEW pc \in {"returned", "raised"},
             NEW result \in Calls \cup {None}, EndsWith(c, pc, result, cache),
             pc = "returned" => result = cache[call[c].key].result
      PROVE  BoundedFor(m, k)'
  <2>1. /\ \A d \in Calls : d # c => call'[d] = call[d]
        /\ call'[c].pc = pc /\ call'[c].result = result
        /\ call'[c].key = call[c].key
        /\ UNCHANGED <<cache, expiries>>
    BY <1>1, <1>5, FinishEffect DEF EndsWith, PC, Finish
  <2>2. Producing(m, k)' => Producing(m, k)
    BY <2>1 DEF Producing
  <2>3. \A d \in Calls : call'[d].pc = "returned" /\ call'[d].key = k =>
            \/ /\ call[d].pc = "returned" /\ call[d].key = k
               /\ call[d].result = call'[d].result
            \/ call'[d].result = cache[k].result
    BY <1>5, <2>1
  <2> QED BY <1>2, <2>1, <2>2, <2>3
<1>6. ASSUME NEW c \in Calls,
             \/ CancelWait(c) \/ GetHit(c) \/ GetFails(c) \/ OperationFails(c)
      PROVE  BoundedFor(m, k)'
  BY <1>1, <1>5, <1>6, EndingSteps
<1>7. ASSUME NEW c \in Calls, SetOk(c) \/ SetFails(c)
      PROVE  BoundedFor(m, k)'
  <2>1. /\ call[c].pc = "set"
        /\ \/ EndsWith(c, "raised", None, cache)
           \/ EndsWith(c, "raised", None, Stored(c))
           \/ EndsWith(c, "returned", c, Stored(c))
    BY <1>1, <1>7, EndingSteps
  <2>2. CASE EndsWith(c, "raised", None, cache)
    BY <1>5, <2>2
  <2>3. CASE EndsWith(c, "raised", None, Stored(c))
    BY <2>1, <2>3, StoreKeepsBound
  <2>4. CASE EndsWith(c, "returned", c, Stored(c))
    BY <2>1, <2>4, StoreKeepsBound
  <2> QED BY <2>1, <2>2, <2>3, <2>4
<1>8. ASSUME NEW j \in Keys, Expire(j)
      PROVE  BoundedFor(m, k)'
  <2>1. /\ UNCHANGED call
        /\ \/ cache'[k] = cache[k] /\ expiries'[k] = expiries[k]
           \/ cache'[k] = Empty /\ expiries'[k] = expiries[k] + 1
    BY <1>1, <1>8 DEF Expire, TypeOK
  <2> QED BY <1>2, <2>1 DEF Producing
<1>9. CASE UNCHANGED vars
  BY <1>1, <1>9 DEF vars, BoundedFor, Visible, ResultsOf, Producing
<1> QED BY <1>3, <1>4, <1>6, <1>7, <1>8, <1>9 DEF Next

-----------------------------------------------------------------------------
\* IInv is an inductive invariant of the specification.
THEOREM Inductive == Spec => []IInv
<1>1. IInv /\ [Next]_vars => IInv'
  BY LocksStep, ResultsStep, VisibleStep DEF IInv
<1> QED BY InitIInv, <1>1, PTL DEF Spec

\* The variables of the idempotency manager stay in their types.
THEOREM TypeCorrect == Spec => []TypeOK
<1>1. IInv => TypeOK
  BY DEF IInv
<1> QED BY <1>1, Inductive, PTL

\* Calls of one manager on one key look up, execute and store one at a time.
THEOREM Serialized == Spec => []SerializedPerKey
<1>1. IInv => SerializedPerKey
  BY LocksSerialize DEF IInv
<1> QED BY <1>1, Inductive, PTL

\* A returned result was executed for the same key and payload.
THEOREM ResultsMatch == Spec => []NoForeignResult
<1>1. IInv => NoForeignResult
  BY DEF IInv, ResultsKept, ResultFor, NoForeignResult
<1> QED BY <1>1, Inductive, PTL

\* Of the results that calls of one manager produced for a key, calls return at
\* most one, and one more per expiry.
THEOREM Replays == Spec => []ReplaysAgree
<1>1. IInv => ReplaysAgree
  <2> SUFFICES ASSUME IInv, NEW m \in Managers, NEW k \in Keys
               PROVE  Cardinality(ResultsOf(m, k)) <= 1 + expiries[k]
    BY DEF ReplaysAgree
  <2>1. ResultsOf(m, k) \subseteq Visible(m, k)
    BY DEF Visible
  <2>2. /\ IsFiniteSet(ResultsOf(m, k))
        /\ Cardinality(ResultsOf(m, k)) <= Cardinality(Visible(m, k))
    BY <2>1, VisibleFinite
  <2>3. /\ Cardinality(ResultsOf(m, k)) \in Nat /\ Cardinality(Visible(m, k)) \in Nat
        /\ expiries[k] \in Nat
    BY <2>2, VisibleFinite, FS_CardinalityType DEF IInv, TypeOK
  <2>4. Cardinality(Visible(m, k)) <= 1 + expiries[k]
    BY DEF IInv, VisibleBounded, BoundedFor
  <2> QED BY <2>2, <2>3, <2>4
<1> QED BY <1>1, Inductive, PTL

\* A manager executes again for a key only after an expiry, or beside an
\* execution that it had to report as failed.
THEOREM Executions == Spec => []ExecutionsAccounted
<1>1. IInv => ExecutionsAccounted
  <2> SUFFICES ASSUME IInv, NEW m \in Managers, NEW k \in Keys
               PROVE  Cardinality(ExecutionsOf(m, k)) <=
                          1 + expiries[k] + Cardinality({c \in ExecutionsOf(m, k) :
                                                             call[c].pc = "raised"})
    BY DEF ExecutionsAccounted
  <2> DEFINE failed == {c \in ExecutionsOf(m, k) : call[c].pc = "raised"}
             kept == {c \in ExecutionsOf(m, k) : call[c].pc # "raised"}
             n == Cardinality(Visible(m, k))
  <2>1. \A c \in kept : /\ c \in Calls /\ c \in executed
                        /\ call[c].manager = m /\ call[c].key = k
                        /\ \/ call[c].pc = "set"
                           \/ call[c].pc = "returned" /\ call[c].result = c
    BY DEF ExecutionsOf, IInv, ResultsKept, TypeOK
  <2>2. \A c \in kept : call[c].pc = "set" \/ c \in Visible(m, k)
    BY <2>1 DEF Visible, ResultsOf
  <2>3. IsFiniteSet(Visible(m, k)) /\ n \in Nat
    BY VisibleFinite
  <2>4. expiries[k] \in Nat /\ n <= 1 + expiries[k]
    BY DEF IInv, TypeOK, VisibleBounded, BoundedFor
  <2>5. IsFiniteSet(kept) /\ Cardinality(kept) <= 1 + expiries[k]
    <3>1. CASE \A c \in kept : call[c].pc # "set"
      <4>1. kept \subseteq Visible(m, k)
        BY <2>2, <3>1
      <4>2. IsFiniteSet(kept) /\ Cardinality(kept) <= n
        BY <4>1, VisibleFinite
      <4>3. Cardinality(kept) \in Nat
        BY <4>2, FS_CardinalityType
      <4> HIDE DEF kept, n
      <4> QED BY <2>3, <2>4, <4>2, <4>3
    <3>2. ASSUME NEW s \in kept, call[s].pc = "set"
          PROVE  IsFiniteSet(kept) /\ Cardinality(kept) <= 1 + expiries[k]
      <4>1. n <= expiries[k]
        <5>1. Producing(m, k)
          BY <2>1, <3>2 DEF Producing
        <5> QED BY <5>1 DEF IInv, VisibleBounded, BoundedFor
      <4>2. \A c \in kept : call[c].pc = "set" => c = s
        BY <2>1, <3>2, OneProducer DEF IInv, Inside
      <4>3. kept \subseteq Visible(m, k) \cup {s}
        BY <2>2, <4>2
      <4>4. /\ IsFiniteSet(Visible(m, k) \cup {s})
            /\ Cardinality(Visible(m, k) \cup {s}) \in {n, n + 1}
        BY <2>3, FS_AddElement
      <4>5. /\ IsFiniteSet(kept)
            /\ Cardinality(kept) <= Cardinality(Visible(m, k) \cup {s})
        <5> HIDE DEF kept
        <5> QED BY <4>3, <4>4, FS_Subset
      <4>6. Cardinality(kept) \in Nat
        BY <4>5, FS_CardinalityType
      <4> HIDE DEF kept, n
      <4> QED BY <2>3, <2>4, <4>1, <4>4, <4>5, <4>6
    <3> QED BY <3>1, <3>2
  <2>6. IsFiniteSet(failed)
    <3>1. failed \subseteq Calls
      BY DEF ExecutionsOf, IInv, TypeOK
    <3> QED BY <3>1, FS_Subset
  <2>7. ExecutionsOf(m, k) = kept \cup failed /\ kept \cap failed = {}
    OBVIOUS
  <2>8. Cardinality(ExecutionsOf(m, k)) = Cardinality(kept) + Cardinality(failed)
    <3>1. Cardinality(kept) \in Nat /\ Cardinality(failed) \in Nat
      BY <2>5, <2>6, FS_CardinalityType
    <3>2. Cardinality(kept \cup failed) =
            Cardinality(kept) + Cardinality(failed) - Cardinality(kept \cap failed)
      <4> HIDE DEF kept, failed
      <4> QED BY <2>5, <2>6, FS_Union
    <3>3. Cardinality(kept \cap failed) = 0
      BY <2>7, FS_EmptySet
    <3> HIDE DEF kept, failed
    <3> QED BY <2>7, <3>1, <3>2, <3>3
  <2>9. Cardinality(kept) \in Nat /\ Cardinality(failed) \in Nat
    BY <2>5, <2>6, FS_CardinalityType
  <2> HIDE DEF kept
  <2> QED BY <2>4, <2>5, <2>8, <2>9
<1> QED BY <1>1, Inductive, PTL
=============================================================================
