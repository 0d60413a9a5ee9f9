------------------------ MODULE TransactionalOutbox ------------------------
(***************************************************************************)
(* What the transactional outbox promises, free of how it is done: a       *)
(* transaction collects business rows and domain events, and either all of *)
(* them become durable in one step or none ever does.  A row written       *)
(* outside any transaction commits alone; an event never does.             *)
(* UnitOfWork.tla is checked to implement this.                            *)
(***************************************************************************)
CONSTANTS Transactions, Writes, Events

VARIABLES
    outcome,   \* outcome[x]: "unused", "open", "committed" or "aborted"
    rows,      \* rows[x]: business rows an open transaction has written
    events,    \* events[x]: events registered with an open transaction
    durable    \* everything that has been committed

vars == <<outcome, rows, events, durable>>

Init ==
    /\ outcome = [x \in Transactions |-> "unused"]
    /\ rows = [x \in Transactions |-> {}]
    /\ events = [x \in Transactions |-> {}]
    /\ durable = {}

Begin(x) ==
    /\ outcome[x] = "unused"
    /\ outcome' = [outcome EXCEPT ![x] = "open"]
    /\ UNCHANGED <<rows, events, durable>>

Write(x, w) ==
    /\ outcome[x] = "open"
    /\ rows' = [rows EXCEPT ![x] = @ \cup {w}]
    /\ UNCHANGED <<outcome, events, durable>>

Register(x, e) ==
    /\ outcome[x] = "open"
    /\ events' = [events EXCEPT ![x] = @ \cup {e}]
    /\ UNCHANGED <<outcome, rows, durable>>

\* The end of a transaction: applied says whether the database committed it.
Finish(x, applied) ==
    /\ outcome[x] = "open"
    /\ outcome' = [outcome EXCEPT ![x] = IF applied THEN "committed" ELSE "aborted"]
    /\ durable' = IF applied THEN durable \cup rows[x] \cup events[x] ELSE durable
    /\ rows' = [rows EXCEPT ![x] = {}]
    /\ events' = [events EXCEPT ![x] = {}]

Autocommit(w) ==
    /\ durable' = durable \cup {w}
    /\ UNCHANGED <<outcome, rows, events>>

Next ==
    \/ \E x \in Transactions : Begin(x)
    \/ \E x \in Transactions, w \in Writes : Write(x, w)
    \/ \E x \in Transactions, e \in Events : Register(x, e)
    \/ \E x \in Transactions, applied \in BOOLEAN : Finish(x, applied)
    \/ \E w \in Writes : Autocommit(w)

Spec == Init /\ [][Next]_vars

=============================================================================
