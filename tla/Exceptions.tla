----------------------------- MODULE Exceptions -----------------------------
(***************************************************************************)
(* The library's exception classes and the translation of driver errors    *)
(* into them.  An exception is the name of its class; messages, contexts   *)
(* and causes are left out.  What a failure does to a retry or a breaker   *)
(* is decided by isinstance tests on these classes, so the hierarchy and   *)
(* the order in which mappers look at an error are part of the model.      *)
(***************************************************************************)
EXTENDS Naturals, Sequences

\* No exception is being raised.
NoError == "NoError"

\* A task's cancellation: a BaseException, which no "except Exception" sees.
Cancelled == "CancelledError"

-----------------------------------------------------------------------------
\* The classes of core/exceptions.py, each with the class it derives from.
Bases ==
    [ KrossDBError                  |-> "Exception",
      ConnectionError_              |-> "KrossDBError",
      ConnectionTimeoutError        |-> "ConnectionError_",
      CircuitBreakerOpenError       |-> "KrossDBError",
      HealthCheckFailedError        |-> "KrossDBError",
      QueryError                    |-> "KrossDBError",
      IntegrityViolationError       |-> "QueryError",
      DuplicateRecordError          |-> "IntegrityViolationError",
      RecordNotFoundError           |-> "KrossDBError",
      ValidationError_              |-> "KrossDBError",
      SerializationError            |-> "KrossDBError",
      TransactionError              |-> "KrossDBError",
      TransactionAlreadyActiveError |-> "TransactionError",
      NoActiveTransactionError      |-> "TransactionError",
      DeadlockDetectedError         |-> "TransactionError",
      AuthenticationError           |-> "KrossDBError",
      AuthorizationError            |-> "KrossDBError",
      ConfigurationError            |-> "KrossDBError",
      TenantContextMissingError     |-> "KrossDBError",
      CrossTenantAccessError        |-> "KrossDBError",
      TimeoutError_                 |-> "KrossDBError",
      UnsupportedOperationError     |-> "KrossDBError",
      IdempotencyConflictError      |-> "KrossDBError",
      CacheError                    |-> "KrossDBError",
      BulkOperationError            |-> "KrossDBError" ]

\* The kinds of driver errors, with the drivers' own hierarchies: the classes a
\* mapper tests, and those that reach a mapper without being tested (a name
\* that does not resolve, a connection lost below SQLAlchemy, ...).  A class
\* between two of them is left out if no mapper tests it.  An error that a
\* mapper tells apart by its code or message, or that only its code shows to be
\* an outage (a 503 of Qdrant), is a class here.
DriverBases ==
    [ OSError                          |-> "Exception",
      gaierror                         |-> "OSError",
      TimeoutError                     |-> "OSError",
      ConnectionRefusedError           |-> "ConnectionError",
      ConnectionError                  |-> "OSError",
      RuntimeError                     |-> "Exception",
      KeyError                         |-> "Exception",
      SA_DBAPIError                    |-> "Exception",
      SA_IntegrityError                |-> "SA_DBAPIError",
      SA_IntegrityError_unique         |-> "SA_IntegrityError",
      SA_TimeoutError                  |-> "Exception",
      SA_InterfaceError                |-> "SA_DBAPIError",
      SA_OperationalError              |-> "SA_DBAPIError",
      SA_ProgrammingError              |-> "SA_DBAPIError",
      PG_PostgresError                 |-> "Exception",
      PG_UniqueViolationError          |-> "PG_PostgresError",
      PG_ForeignKeyViolationError      |-> "PG_PostgresError",
      PG_CheckViolationError           |-> "PG_PostgresError",
      PG_DeadlockDetectedError         |-> "PG_PostgresError",
      PG_InvalidPasswordError          |-> "PG_InvalidAuthorization",
      PG_InvalidAuthorization          |-> "PG_PostgresError",
      PG_TooManyConnectionsError       |-> "PG_PostgresError",
      PG_CannotConnectNowError         |-> "PG_PostgresError",
      PG_PostgresConnectionError       |-> "PG_PostgresError",
      PyMongoError                     |-> "Exception",
      PM_ConnectionFailure             |-> "PyMongoError",
      PM_ServerSelectionTimeoutError   |-> "PM_ConnectionFailure",
      PM_NetworkTimeout                |-> "PM_ConnectionFailure",
      PM_OperationFailure              |-> "PyMongoError",
      PM_OperationFailure_unauthorized |-> "PM_OperationFailure",
      PM_DuplicateKeyError             |-> "PM_OperationFailure",
      QD_UnexpectedResponse            |-> "Exception",
      QD_UnexpectedResponse_404        |-> "QD_UnexpectedResponse",
      QD_UnexpectedResponse_denied     |-> "QD_UnexpectedResponse",
      QD_UnexpectedResponse_409        |-> "QD_UnexpectedResponse",
      QD_UnexpectedResponse_503        |-> "QD_UnexpectedResponse",
      QD_ResponseHandlingException     |-> "Exception",
      RD_RedisError                    |-> "Exception",
      RD_ConnectionError               |-> "RD_RedisError",
      RD_AuthenticationError           |-> "RD_ConnectionError",
      RD_TimeoutError                  |-> "RD_RedisError" ]

KrossDBErrors == DOMAIN Bases
DriverErrors == DOMAIN DriverBases
Errors == KrossDBErrors \cup DriverErrors

BaseOf(class) ==
    IF class \in KrossDBErrors THEN Bases[class] ELSE DriverBases[class]

\* isinstance(error, class).
mro[class \in Errors \cup {"Exception"}] ==
    IF class = "Exception" THEN {class} ELSE {class} \cup mro[BaseOf(class)]

IsInstance(error, classes) ==
    /\ error \in Errors
    /\ mro[error] \cap classes # {}

-----------------------------------------------------------------------------
\* A mapper is the sequence of its isinstance tests, in order.
When(class, mapped) == [class |-> class, mapped |-> mapped]

GenericMapper ==
    << When("TimeoutError", "TimeoutError_"),
       When("ConnectionError", "ConnectionError_") >>

SQLAlchemyMapper ==
    << When("SA_IntegrityError_unique", "DuplicateRecordError"),
       When("SA_IntegrityError", "IntegrityViolationError"),
       When("SA_TimeoutError", "ConnectionTimeoutError"),
       When("SA_InterfaceError", "ConnectionError_"),
       When("SA_OperationalError", "ConnectionError_") >>

AsyncpgMapper ==
    << When("PG_UniqueViolationError", "DuplicateRecordError"),
       When("PG_ForeignKeyViolationError", "IntegrityViolationError"),
       When("PG_CheckViolationError", "IntegrityViolationError"),
       When("PG_DeadlockDetectedError", "DeadlockDetectedError"),
       When("PG_InvalidAuthorization", "AuthenticationError"),
       When("PG_TooManyConnectionsError", "ConnectionError_"),
       When("PG_CannotConnectNowError", "ConnectionError_"),
       When("PG_PostgresError", "QueryError") >>

PymongoMapper ==
    << When("PM_DuplicateKeyError", "DuplicateRecordError"),
       When("PM_ServerSelectionTimeoutError", "ConnectionTimeoutError"),
       When("PM_NetworkTimeout", "ConnectionTimeoutError"),
       When("PM_ConnectionFailure", "ConnectionError_"),
       When("PM_OperationFailure_unauthorized", "AuthenticationError"),
       When("PM_OperationFailure", "QueryError"),
       When("PyMongoError", "QueryError") >>

QdrantMapper ==
    << When("QD_UnexpectedResponse_404", "RecordNotFoundError"),
       When("QD_UnexpectedResponse_denied", "AuthorizationError"),
       When("QD_UnexpectedResponse_409", "DuplicateRecordError"),
       When("QD_UnexpectedResponse", "QueryError"),
       When("QD_ResponseHandlingException", "ConnectionError_") >>

RedisMapper ==
    << When("RD_AuthenticationError", "AuthenticationError"),
       When("RD_TimeoutError", "ConnectionTimeoutError"),
       When("RD_ConnectionError", "ConnectionError_"),
       When("RD_RedisError", "CacheError") >>

\* The mappers in the order they are registered, each asked in turn.
Registry ==
    GenericMapper \o SQLAlchemyMapper \o AsyncpgMapper \o PymongoMapper
        \o QdrantMapper \o RedisMapper

\* _map_exception: the first test that succeeds decides; an error no mapper
\* recognizes becomes a QueryError.
MapException ==
    [ error \in DriverErrors |->
        LET hits == {i \in DOMAIN Registry : IsInstance(error, {Registry[i].class})}
        IN  IF hits = {} THEN "QueryError"
            ELSE Registry[CHOOSE i \in hits : \A j \in hits : i <= j].mapped ]

\* translate_exceptions around a block that raised error: the library's own
\* errors and cancellations pass unchanged.
Translated(error) ==
    IF error \in DriverErrors THEN MapException[error] ELSE error

=============================================================================
