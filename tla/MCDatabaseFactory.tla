-------------------------- MODULE MCDatabaseFactory --------------------------
(* A small instance of DatabaseFactory for TLC: a relational connection with *)
(* a master and a replica, and a document connection.  Callers are             *)
(* interchangeable.                                                          *)
EXTENDS DatabaseFactory, TLC

MCOrder == <<"sql", "docs">>
MCKind == [sql |-> "relational", docs |-> "document"]

Node(key, role, weight) == [key |-> key, role |-> role, weight |-> weight]

MCNodes ==
    [ sql  |-> << Node("m", "MASTER", 1), Node("r", "REPLICA", 1) >>,
      docs |-> << Node("d", "MASTER", 1) >> ]

\* An outage and an error of a healthy node, for each kind, and an outage no
\* mapper recognizes.
MCRaises ==
    [ relational |-> {"SA_OperationalError", "SA_DBAPIError",
                      "SA_IntegrityError_unique"},
      document   |-> {"PM_NetworkTimeout", "PM_OperationFailure_unauthorized"},
      vector     |-> {"QD_ResponseHandlingException", "QD_UnexpectedResponse_404"} ]

Symmetry == Permutations(Callers)

=============================================================================
