------------------------ MODULE DatabaseFactoryProofs ------------------------
(***************************************************************************)
(* Safety of DatabaseFactory, and of the Adapters it manages, for any      *)
(* finite set of callers, any connections and nodes that ConnectionConfig  *)
(* accepts, any driver errors, and any limits.                             *)
(*                                                                         *)
(* Each property needs to know more than it says:                          *)
(*   - RetryDiscipline and OutageCounted, what a call carries from one     *)
(*     await to the next (CallKept);                                       *)
(*   - RefusalsExplained, that a probe slot of a replica is held by a call *)
(*     that is still in its block (SlotsHeld);                             *)
(*   - PoolsReleased and StaysClosed, how far each adapter is in its life  *)
(*     (PoolsKept), which follows from where the block's task is           *)
(*     (MainKept);                                                         *)
(*   - HealthReportComplete, how far the report is (MonitorKept).          *)
(* IInv is their conjunction with TypeOK.                                  *)
(***************************************************************************)
EXTENDS DatabaseFactory, FiniteSetTheorems, WellFoundedInduction, TLAPS

-----------------------------------------------------------------------------
(* The exception classes, and what map_exception makes of a driver's error. *)

\* The base class of a class, and the classes an instance of it also is.  No
\* chain of bases is longer than four.
Parent(class) == IF class = "Exception" THEN class ELSE BaseOf(class)
Ancestors(class) ==
    {class, Parent(class), Parent(Parent(class)), Parent(Parent(Parent(class))),
     "Exception"}

\* Every class has a base, and "Exception" is its own.
LEMMA ParentIs ==
    /\ Parent("Exception") = "Exception"
    /\ \A class \in Errors : /\ class # "Exception" /\ Parent(class) = BaseOf(class)
                             /\ Parent(class) \in Errors \cup {"Exception"}
BY SMTT(60)
   DEF Parent, BaseOf, KrossDBErrors, DriverErrors, Errors, Bases, DriverBases

\* The classes one, two and three steps below "Exception".
Tops == {class \in Errors : Parent(class) = "Exception"}
Seconds == {class \in Errors : Parent(class) \in Tops}
Thirds == {class \in Errors : Parent(class) \in Seconds}

\* Only one class is deeper.
LEMMA Deep ==
    /\ "IntegrityViolationError" \in Thirds
    /\ \A class \in Errors :
          class \in Tops \cup Seconds \cup Thirds \cup {"DuplicateRecordError"}
<1>1. {"KrossDBError", "OSError", "SA_DBAPIError", "PG_PostgresError",
       "PyMongoError", "QD_UnexpectedResponse", "RD_RedisError"} \subseteq Tops
  BY SMTT(60)
     DEF Tops, Parent, BaseOf, KrossDBErrors, DriverErrors, Errors, Bases,
         DriverBases
<1>2. {"ConnectionError_", "QueryError", "TransactionError", "ConnectionError",
       "SA_IntegrityError", "PG_InvalidAuthorization", "PM_ConnectionFailure",
       "PM_OperationFailure", "RD_ConnectionError"} \subseteq Seconds
  BY <1>1, SMTT(60)
     DEF Seconds, Parent, BaseOf, KrossDBErrors, DriverErrors, Errors, Bases,
         DriverBases
<1>3. "IntegrityViolationError" \in Thirds
  BY <1>2, SMTT(60)
     DEF Thirds, Parent, BaseOf, KrossDBErrors, DriverErrors, Errors, Bases,
         DriverBases
<1>4. \A class \in Errors :
         \/ class = "DuplicateRecordError"
         \/ Parent(class) \in
               {"Exception", "KrossDBError", "OSError", "SA_DBAPIError",
                "ConnectionError", "SA_IntegrityError", "PG_PostgresError",
                "PyMongoError", "QD_UnexpectedResponse", "RD_RedisError",
                "ConnectionError_", "QueryError", "TransactionError", "PG_InvalidAuthorization",
                "PM_ConnectionFailure", "PM_OperationFailure",
                "RD_ConnectionError"}
  BY SMTT(60)
     DEF Parent, BaseOf, KrossDBErrors, DriverErrors, Errors, Bases, DriverBases
<1> QED BY <1>1, <1>2, <1>3, <1>4 DEF Tops, Seconds, Thirds

\* Four steps up, every class is at "Exception".
LEMMA Rooted ==
    \A class \in Errors : Parent(Parent(Parent(Parent(class)))) = "Exception"
<1>1. /\ Parent("DuplicateRecordError") = "IntegrityViolationError"
      /\ "IntegrityViolationError" \in Thirds
  <2>1. Parent("DuplicateRecordError") = "IntegrityViolationError"
    BY SMTT(60) DEF Parent, BaseOf, KrossDBErrors, Bases
  <2> QED BY <2>1, Deep
<1>2. \A class \in Thirds : Parent(Parent(Parent(class))) = "Exception"
  BY DEF Tops, Seconds, Thirds
<1>3. \A class \in Tops \cup Seconds \cup Thirds :
          Parent(Parent(Parent(class))) = "Exception"
  BY <1>2, ParentIs DEF Tops, Seconds
<1> QED BY <1>1, <1>2, <1>3, Deep, ParentIs

\* The recursive function mro is these classes, written out.
LEMMA MroIs ==
    \A class \in Errors \cup {"Exception"} : mro[class] = Ancestors(class)
<1> DEFINE D == Errors \cup {"Exception"}
          Follows(f) == f = [class \in D |->
                                IF class = "Exception" THEN {class}
                                ELSE {class} \cup f[BaseOf(class)]]
          anc == [class \in D |-> Ancestors(class)]
<1>1. mro = CHOOSE f : Follows(f)
  BY DEF mro
<1>2. Follows(anc)
  <2>1. ASSUME NEW class \in D
        PROVE  Ancestors(class) = IF class = "Exception" THEN {class}
                                  ELSE {class} \cup anc[BaseOf(class)]
    <3>1. CASE class = "Exception"
      BY <3>1, ParentIs DEF Ancestors
    <3>2. CASE class # "Exception"
      <4>1. class \in Errors /\ BaseOf(class) = Parent(class) /\ Parent(class) \in D
        BY <3>2, ParentIs
      <4>2. anc[BaseOf(class)] = Ancestors(Parent(class))
        BY <4>1
      <4>3. Parent(Parent(Parent(Parent(class)))) = "Exception"
        BY <4>1, Rooted
      <4> QED BY <3>2, <4>2, <4>3 DEF Ancestors
    <3> QED BY <3>1, <3>2
  <2> QED BY <2>1
<1> HIDE DEF anc
<1>3. Follows(mro)
  BY <1>1, <1>2
<1>4. \A class \in D : Parent(class) \in D /\ mro[class] = {class} \cup mro[Parent(class)]
  <2>1. mro = [class \in D |-> IF class = "Exception" THEN {class}
                               ELSE {class} \cup mro[BaseOf(class)]]
    BY <1>3
  <2> QED BY <2>1, ParentIs
<1>5. mro["Exception"] = {"Exception"}
  BY <1>3
<1> HIDE DEF Follows, D
<1>6. ASSUME NEW class \in D
      PROVE  mro[class] = Ancestors(class)
  <2>1. Parent(Parent(Parent(Parent(class)))) = "Exception"
    BY <1>6, Rooted, ParentIs DEF D
  <2>2. /\ mro[class] = {class} \cup mro[Parent(class)]
        /\ mro[Parent(class)] = {Parent(class)} \cup mro[Parent(Parent(class))]
        /\ mro[Parent(Parent(class))] =
              {Parent(Parent(class))} \cup mro[Parent(Parent(Parent(class)))]
        /\ mro[Parent(Parent(Parent(class)))] =
              {Parent(Parent(Parent(class)))} \cup mro[Parent(Parent(Parent(Parent(class))))]
    BY <1>4
  <2> QED BY <1>5, <2>1, <2>2 DEF Ancestors
<1> QED BY <1>6 DEF D

\* The two tuples of classes that the code tests errors against.
Infrastructure(e) == IsInstance(e, INFRASTRUCTURE_FAILURES)
Transient == {"ConnectionError_", "TimeoutError_", "DeadlockDetectedError"}

\* isinstance(error, classes), in terms of the ancestors.
LEMMA Instances ==
    \A class \in Errors : \A classes :
        IsInstance(class, classes) <=> Ancestors(class) \cap classes # {}
BY MroIs DEF IsInstance

\* RETRYABLE_EXCEPTIONS names ConnectionTimeoutError beside its base; only the
\* base counts.
LEMMA TransientIs ==
    \A class : IsInstance(class, RETRYABLE_EXCEPTIONS) <=> IsInstance(class, Transient)
<1>1. \A class \in Errors : Parent(class) = "ConnectionTimeoutError" => FALSE
  BY SMTT(60)
     DEF Parent, BaseOf, KrossDBErrors, DriverErrors, Errors, Bases, DriverBases
<1>2. Parent("ConnectionTimeoutError") = "ConnectionError_"
  BY SMTT(60)
     DEF Parent, BaseOf, KrossDBErrors, DriverErrors, Errors, Bases, DriverBases
<1>3. \A class \in Errors :
          "ConnectionTimeoutError" \in Ancestors(class) => class = "ConnectionTimeoutError"
  BY <1>1, ParentIs DEF Ancestors
<1>4. "ConnectionError_" \in Ancestors("ConnectionTimeoutError")
  BY <1>2 DEF Ancestors
<1>5. ASSUME NEW class \in Errors
      PROVE  IsInstance(class, RETRYABLE_EXCEPTIONS) <=> IsInstance(class, Transient)
  BY <1>3, <1>4, Instances DEF RETRYABLE_EXCEPTIONS, Transient
<1> QED BY <1>5 DEF IsInstance

\* The tests of the mappers, in the order in which they are tried.
LEMMA RegistryIs ==
    /\ DOMAIN Registry = 1..31
    /\ Registry[1] = When("TimeoutError", "TimeoutError_")
    /\ Registry[2] = When("ConnectionError", "ConnectionError_")
    /\ Registry[3] = When("SA_IntegrityError_unique", "DuplicateRecordError")
    /\ Registry[4] = When("SA_IntegrityError", "IntegrityViolationError")
    /\ Registry[5] = When("SA_TimeoutError", "ConnectionTimeoutError")
    /\ Registry[6] = When("SA_InterfaceError", "ConnectionError_")
    /\ Registry[7] = When("SA_OperationalError", "ConnectionError_")
    /\ Registry[8] = When("PG_UniqueViolationError", "DuplicateRecordError")
    /\ Registry[9] = When("PG_ForeignKeyViolationError", "IntegrityViolationError")
    /\ Registry[10] = When("PG_CheckViolationError", "IntegrityViolationError")
    /\ Registry[11] = When("PG_DeadlockDetectedError", "DeadlockDetectedError")
    /\ Registry[12] = When("PG_InvalidAuthorization", "AuthenticationError")
    /\ Registry[13] = When("PG_TooManyConnectionsError", "ConnectionError_")
    /\ Registry[14] = When("PG_CannotConnectNowError", "ConnectionError_")
    /\ Registry[15] = When("PG_PostgresError", "QueryError")
    /\ Registry[16] = When("PM_DuplicateKeyError", "DuplicateRecordError")
    /\ Registry[17] = When("PM_ServerSelectionTimeoutError", "ConnectionTimeoutError")
    /\ Registry[18] = When("PM_NetworkTimeout", "ConnectionTimeoutError")
    /\ Registry[19] = When("PM_ConnectionFailure", "ConnectionError_")
    /\ Registry[20] = When("PM_OperationFailure_unauthorized", "AuthenticationError")
    /\ Registry[21] = When("PM_OperationFailure", "QueryError")
    /\ Registry[22] = When("PyMongoError", "QueryError")
    /\ Registry[23] = When("QD_UnexpectedResponse_404", "RecordNotFoundError")
    /\ Registry[24] = When("QD_UnexpectedResponse_denied", "AuthorizationError")
    /\ Registry[25] = When("QD_UnexpectedResponse_409", "DuplicateRecordError")
    /\ Registry[26] = When("QD_UnexpectedResponse", "QueryError")
    /\ Registry[27] = When("QD_ResponseHandlingException", "ConnectionError_")
    /\ Registry[28] = When("RD_AuthenticationError", "AuthenticationError")
    /\ Registry[29] = When("RD_TimeoutError", "ConnectionTimeoutError")
    /\ Registry[30] = When("RD_ConnectionError", "ConnectionError_")
    /\ Registry[31] = When("RD_RedisError", "CacheError")
BY SMTT(60)
   DEF Registry, GenericMapper, SQLAlchemyMapper, AsyncpgMapper, PymongoMapper,
       QdrantMapper, RedisMapper

\* INFRASTRUCTURE_FAILURES holds every subclass of its classes: that an error is
\* an instance of one of them is that it is one of them.
LEMMA InfrastructureIs ==
    \A class \in Errors : Infrastructure(class) <=> class \in INFRASTRUCTURE_FAILURES
<1>1. \A class \in Errors :
          Parent(class) \in INFRASTRUCTURE_FAILURES => class \in INFRASTRUCTURE_FAILURES
  BY SMTT(60)
     DEF INFRASTRUCTURE_FAILURES, Parent, BaseOf, KrossDBErrors, DriverErrors,
         Errors, Bases, DriverBases
<1>2. "Exception" \notin INFRASTRUCTURE_FAILURES
  BY DEF INFRASTRUCTURE_FAILURES
<1> QED BY <1>1, <1>2, Instances, ParentIs DEF Infrastructure, Ancestors

\* The class that the i-th test is about.
Test(i) == Registry[i].class

\* The classes above all tests.
Roots == {"Exception", "OSError", "SA_DBAPIError"}

\* No class is tested twice, and the base of a tested class is tested after it,
\* if at all: a test never hides the more specific ones behind it.
LEMMA TestsOrdered ==
    /\ \A i \in 1..31 : /\ Test(i) \in DriverErrors
                        /\ Test(i) \notin Roots
                        /\ \/ Parent(Test(i)) \in Roots
                           \/ \E k \in (i + 1)..31 : Parent(Test(i)) = Test(k)
    /\ \A i, j \in 1..31 : Test(i) = Test(j) => i = j
<1>1. \A i \in 1..31 : Test(i) \in DriverErrors
  BY RegistryIs, SMTT(60) DEF Test, When, DriverErrors, DriverBases
<1>2. \A i, j \in 1..31 : Test(i) = Test(j) => i = j
  BY RegistryIs, SMTT(60) DEF Test, When
<1>3. \A i \in 1..31 : \/ Parent(Test(i)) \in Roots
                       \/ \E k \in (i + 1)..31 : Parent(Test(i)) = Test(k)
  BY RegistryIs, SMTT(180)
     DEF Test, When, Roots, Parent, BaseOf, KrossDBErrors, DriverErrors, Errors,
         Bases, DriverBases
<1>4. \A i \in 1..31 : Test(i) \notin Roots
  BY RegistryIs, SMTT(60) DEF Test, When, Roots
<1> QED BY <1>1, <1>2, <1>3, <1>4

\* What is above a root is a root.
LEMMA RootsClosed ==
    "Exception" \in Roots /\ \A class \in Roots : Parent(class) \in Roots
BY SMTT(60) DEF Roots, Parent, BaseOf, KrossDBErrors, Bases, DriverBases

\* So an error that is tested for by name passes no earlier test.
LEMMA AncestorsOfTest ==
    ASSUME NEW i \in 1..31
    PROVE  /\ Test(i) \in Ancestors(Test(i))
           /\ \A j \in 1..31 : Test(j) \in Ancestors(Test(i)) => i <= j
<1> DEFINE Later(class, k) == class \in Roots \/ \E j \in k..31 : class = Test(j)
<1>1. \A k \in 1..31 : \A class : Later(class, k) => Later(Parent(class), k)
  <2> TAKE k \in 1..31
  <2> TAKE class
  <2> HAVE Later(class, k)
  <2>1. CASE class \in Roots
    BY <2>1, RootsClosed
  <2>2. CASE \E j \in k..31 : class = Test(j)
    <3>1. PICK j \in k..31 : class = Test(j)
      BY <2>2
    <3>2. j \in 1..31
      OBVIOUS
    <3>3. Parent(Test(j)) \in Roots \/ \E l \in (j + 1)..31 : Parent(Test(j)) = Test(l)
      BY <3>2, TestsOrdered
    <3>4. \A l \in (j + 1)..31 : l \in k..31
      OBVIOUS
    <3> QED BY <3>1, <3>3, <3>4
  <2> QED BY <2>1, <2>2
<1>2. Later(Test(i), i)
  OBVIOUS
<1>3. \A class \in Ancestors(Test(i)) : Later(class, i)
  <2> HIDE DEF Later
  <2>1. Later("Exception", i)
    BY RootsClosed DEF Later
  <2> QED BY <1>1, <1>2, <2>1 DEF Ancestors
<1>4. \A j \in 1..31 : Test(j) \notin Roots
  BY TestsOrdered
<1>5. \A j \in 1..31 : Test(j) \in Ancestors(Test(i)) => i <= j
  <2> TAKE j \in 1..31
  <2> HAVE Test(j) \in Ancestors(Test(i))
  <2>1. PICK k \in i..31 : Test(j) = Test(k)
    BY <1>3, <1>4
  <2>2. k \in 1..31
    OBVIOUS
  <2>3. j = k
    BY <2>1, <2>2, TestsOrdered
  <2> QED BY <2>3
<1> QED BY <1>5 DEF Ancestors

\* The mappers' answer is that of the first test that succeeds.
LEMMA FirstTest ==
    ASSUME NEW error \in DriverErrors, NEW i \in 1..31, Test(i) \in Ancestors(error),
           \A j \in 1..31 : Test(j) \in Ancestors(error) => i <= j
    PROVE  MapException[error] = Registry[i].mapped
<1> DEFINE hits == {j \in DOMAIN Registry : IsInstance(error, {Registry[j].class})}
<1>1. \A j \in 1..31 : j \in hits <=> Test(j) \in Ancestors(error)
  BY RegistryIs, Instances DEF Test, Errors
<1>2. hits \subseteq 1..31
  BY RegistryIs
<1>3. MapException[error] =
        IF hits = {} THEN "QueryError"
        ELSE Registry[CHOOSE k \in hits : \A j \in hits : k <= j].mapped
  BY DEF MapException
<1> HIDE DEF hits
<1>4. i \in hits /\ \A j \in hits : i <= j
  BY <1>1, <1>2
<1>5. \A k \in hits : (\A j \in hits : k <= j) => k = i
  BY <1>2, <1>4
<1>6. (CHOOSE k \in hits : \A j \in hits : k <= j) = i
  BY <1>4, <1>5
<1> QED BY <1>3, <1>4, <1>6

\* An error that no test knows is a QueryError.
LEMMA NoTest ==
    ASSUME NEW error \in DriverErrors, \A j \in 1..31 : Test(j) \notin Ancestors(error)
    PROVE  MapException[error] = "QueryError"
<1> DEFINE hits == {j \in DOMAIN Registry : IsInstance(error, {Registry[j].class})}
<1>1. hits = {}
  BY RegistryIs, Instances DEF Test, Errors
<1>3. MapException[error] =
        IF hits = {} THEN "QueryError"
        ELSE Registry[CHOOSE k \in hits : \A j \in hits : k <= j].mapped
  BY DEF MapException
<1> QED BY <1>1, <1>3

\* The driver errors that are neither tested for nor derived from one that is.
Untested ==
    {"RuntimeError", "KeyError", "OSError", "gaierror", "SA_DBAPIError",
     "SA_ProgrammingError"}

\* The errors a mapper knows by their base class only, with its test.
Derived ==
    [ ConnectionRefusedError     |-> 2,
      PG_InvalidPasswordError    |-> 12,
      PG_PostgresConnectionError |-> 15,
      QD_UnexpectedResponse_503  |-> 26 ]

\* Where each driver error stands to the tests.
LEMMA DriverErrorsAre ==
    \A error \in DriverErrors :
        \/ \E i \in 1..31 : error = Test(i)
        \/ /\ error \in DOMAIN Derived
           /\ Derived[error] \in 1..31
           /\ Parent(error) = Test(Derived[error])
        \/ error \in Untested /\ Parent(error) \in Roots
<1>1. \A i \in 1..31 : Test(i) = Registry[i].class
  BY DEF Test
<1> HIDE DEF Test
<1>2. /\ Test(2) = "ConnectionError" /\ Test(12) = "PG_InvalidAuthorization"
      /\ Test(15) = "PG_PostgresError" /\ Test(26) = "QD_UnexpectedResponse"
  BY <1>1, RegistryIs DEF When
<1>3. /\ Parent("ConnectionRefusedError") = "ConnectionError"
      /\ Parent("PG_InvalidPasswordError") = "PG_InvalidAuthorization"
      /\ Parent("PG_PostgresConnectionError") = "PG_PostgresError"
      /\ Parent("QD_UnexpectedResponse_503") = "QD_UnexpectedResponse"
  BY SMTT(60) DEF Parent, BaseOf, KrossDBErrors, Bases, DriverBases
<1>4. \A e \in DOMAIN Derived :
         Derived[e] \in 1..31 /\ Parent(e) = Test(Derived[e])
  BY <1>2, <1>3 DEF Derived
<1>5. \A e \in Untested : Parent(e) \in Roots
  BY SMTT(60) DEF Untested, Roots, Parent, BaseOf, KrossDBErrors, Bases, DriverBases
<1>6. \A e \in DriverErrors :
         \/ e \in Untested \cup DOMAIN Derived
         \/ \E i \in 1..31 : e = Test(i)
  BY <1>1, RegistryIs, SMTT(60)
     DEF When, Untested, Derived, DriverErrors, DriverBases
<1> QED BY <1>4, <1>5, <1>6

\* map_exception returns a KrossDB error, and one that counts as an
\* infrastructure failure exactly for the outages a mapper knows of, whichever
\* driver raised them.
LEMMA MappedErrors ==
    \A error \in DriverErrors :
        /\ MapException[error] \in KrossDBErrors
        /\ MapException[error] \in INFRASTRUCTURE_FAILURES <=> error \in Recognized
<1>1. \A i \in 1..31 : Test(i) = Registry[i].class
  BY DEF Test
<1> HIDE DEF Test
<1>2. \A i \in 1..31 : /\ Registry[i].mapped \in KrossDBErrors
                       /\ Registry[i].mapped \in INFRASTRUCTURE_FAILURES
                              <=> Test(i) \in Recognized
  BY <1>1, RegistryIs, SMTT(60)
     DEF When, KrossDBErrors, Bases, INFRASTRUCTURE_FAILURES, Recognized, Outages,
         Unrecognized
<1>3. \A i \in 1..31 : MapException[Test(i)] = Registry[i].mapped
  BY AncestorsOfTest, FirstTest, TestsOrdered
<1>4. ASSUME NEW error \in DriverErrors, NEW i \in 1..31, Parent(error) = Test(i),
             \A j \in 1..31 : error # Test(j)
      PROVE  MapException[error] = Registry[i].mapped
  <2>1. \A class \in Ancestors(error) : class \in Ancestors(Test(i)) \/ class = error
    BY <1>4 DEF Ancestors
  <2>2. \A j \in 1..31 : Test(j) \in Ancestors(error) => i <= j
    BY <1>4, <2>1, AncestorsOfTest
  <2>3. Test(i) \in Ancestors(error)
    BY <1>4 DEF Ancestors
  <2> QED BY <2>2, <2>3, FirstTest
<1>5. ASSUME NEW error \in DriverErrors, Parent(error) \in Roots,
             \A j \in 1..31 : error # Test(j)
      PROVE  MapException[error] = "QueryError"
  <2>1. Ancestors(error) \subseteq {error} \cup Roots
    BY <1>5, RootsClosed DEF Ancestors
  <2>2. \A j \in 1..31 : Test(j) \notin Ancestors(error)
    BY <1>5, <2>1, TestsOrdered
  <2> QED BY <2>2, NoTest
<1>6. ASSUME NEW error \in DOMAIN Derived \cup Untested
      PROVE  \A j \in 1..31 : error # Test(j)
  BY <1>1, RegistryIs, SMTT(60) DEF When, Derived, Untested
<1>7. \A error \in DOMAIN Derived :
         Registry[Derived[error]].mapped \in INFRASTRUCTURE_FAILURES
             <=> error \in Recognized
  BY RegistryIs, SMTT(60)
     DEF Derived, When, INFRASTRUCTURE_FAILURES, Recognized, Outages, Unrecognized
<1>8. ASSUME NEW error \in DriverErrors
      PROVE  /\ MapException[error] \in KrossDBErrors
             /\ MapException[error] \in INFRASTRUCTURE_FAILURES <=> error \in Recognized
  <2>1. CASE \E i \in 1..31 : error = Test(i)
    BY <1>2, <1>3, <2>1
  <2>2. CASE /\ error \in DOMAIN Derived
             /\ Derived[error] \in 1..31
             /\ Parent(error) = Test(Derived[error])
    <3>1. MapException[error] = Registry[Derived[error]].mapped
      BY <1>4, <1>6, <2>2
    <3> QED BY <1>2, <1>7, <2>2, <3>1
  <2>3. CASE error \in Untested /\ Parent(error) \in Roots
    <3>1. MapException[error] = "QueryError"
      BY <1>5, <1>6, <2>3
    <3>2. error \notin Recognized /\ "QueryError" \notin INFRASTRUCTURE_FAILURES
          /\ "QueryError" \in KrossDBErrors
      BY <2>3, SMTT(60)
         DEF Recognized, Outages, Unrecognized, INFRASTRUCTURE_FAILURES, Untested,
             KrossDBErrors, Bases
    <3> QED BY <3>1, <3>2
  <2> QED BY <2>1, <2>2, <2>3, DriverErrorsAre
<1> QED BY <1>8

-----------------------------------------------------------------------------
(* The breaker's methods, from the proofs about a single breaker. *)

\* CircuitBreaker's methods are functions of the breaker's record; its variables
\* do not matter here.
Methods == INSTANCE CircuitBreakerProofs
             WITH Calls <- {}, breaker <- InitBreaker, guard <- <<>>, probes <- {}

\* They are the same operators, reached through an instance.
LEMMA SameMethods ==
    /\ Methods!Breaker = Breaker
    /\ \A b : Methods!Admits(b) <=> Admits(b)
    /\ \A b : Methods!BeforeCall(b) = BeforeCall(b)
    /\ \A b : Methods!OnSuccess(b) = OnSuccess(b)
    /\ \A b : Methods!OnFailure(b) = OnFailure(b)
    /\ \A b : Methods!OnAbandoned(b) = OnAbandoned(b)
    /\ \A b : Methods!Elapse(b) = Elapse(b)
BY DEF Breaker, CircuitState, NotOpened, Admits, AllowsCalls, BeforeCall,
   Transition,
       OnSuccess, OnFailure, OnAbandoned, Elapse,
       Methods!Breaker, Methods!CircuitState, Methods!NotOpened, Methods!Admits,
       Methods!AllowsCalls, Methods!BeforeCall, Methods!Transition, Methods!OnSuccess,
       Methods!OnFailure, Methods!OnAbandoned, Methods!Elapse

\* The assumptions of that module hold of the instance.
LEMMA MethodsApply == Methods!BreakerConfigAssumption /\ Methods!CallsAssumption
<1>1. Methods!BreakerConfigAssumption
  BY BreakerConfigAssumption
     DEF Methods!BreakerConfigAssumption, BreakerConfigAssumption
<1>2. Methods!IsFiniteSet({})
  BY FS_EmptySet DEF Methods!IsFiniteSet, IsFiniteSet
<1> QED BY <1>1, <1>2 DEF Methods!CallsAssumption

\* The methods of a breaker return a breaker.
LEMMA BreakerSteps ==
    ASSUME NEW b \in Breaker
    PROVE  /\ Admits(b) => BeforeCall(b) \in Breaker
           /\ OnSuccess(b) \in Breaker
           /\ OnFailure(b) \in Breaker
           /\ OnAbandoned(b) \in Breaker
           /\ Elapse(b) \in Breaker
BY Methods!BreakerStepTypes, SameMethods, MethodsApply
   DEF Methods!BreakerConfigAssumption, Methods!CallsAssumption

\* What each method does with the probe slots.
LEMMA BreakerSlots ==
    ASSUME NEW b \in Breaker
    PROVE  /\ Admits(b) =>
                /\ BeforeCall(b).state = "HALF_OPEN" =>
                      BeforeCall(b).half_open_calls_in_flight =
                        IF b.state = "HALF_OPEN" THEN b.half_open_calls_in_flight + 1 ELSE 1
           /\ OnSuccess(b).state # "HALF_OPEN"
           /\ OnFailure(b).state # "HALF_OPEN"
           /\ OnAbandoned(b).state = b.state
           /\ b.state = "HALF_OPEN" =>
                OnAbandoned(b).half_open_calls_in_flight =
                 IF b.half_open_calls_in_flight > 0
                 THEN b.half_open_calls_in_flight - 1 ELSE b.half_open_calls_in_flight
<1>1. Admits(b) =>
        /\ b.state = "CLOSED" => BeforeCall(b) = b
        /\ b.state = "OPEN" =>
             /\ BeforeCall(b).state = "HALF_OPEN"
             /\ BeforeCall(b).half_open_calls_in_flight = 1
        /\ b.state = "HALF_OPEN" =>
             /\ BeforeCall(b).state = "HALF_OPEN"
             /\ BeforeCall(b).half_open_calls_in_flight =
                    b.half_open_calls_in_flight + 1
  BY Methods!BeforeCallSlots, SameMethods, MethodsApply
   DEF Methods!BreakerConfigAssumption, Methods!CallsAssumption
<1>2. /\ OnSuccess(b).state # "HALF_OPEN"
           /\ OnFailure(b).state # "HALF_OPEN"
           /\ OnAbandoned(b).state = b.state
           /\ OnAbandoned(b).half_open_calls_in_flight =
                 IF b.state = "HALF_OPEN" /\ b.half_open_calls_in_flight > 0
                 THEN b.half_open_calls_in_flight - 1
                 ELSE b.half_open_calls_in_flight
  BY Methods!ReportStates, SameMethods, MethodsApply
   DEF Methods!BreakerConfigAssumption, Methods!CallsAssumption
<1>3. CASE Admits(b)
  <2>1. BeforeCall(b).state = "HALF_OPEN" =>
           BeforeCall(b).half_open_calls_in_flight =
               IF b.state = "HALF_OPEN" THEN b.half_open_calls_in_flight + 1 ELSE 1
    <3>1. CASE b.state = "CLOSED"
      BY <1>1, <1>3, <3>1
    <3>2. CASE b.state = "OPEN"
      BY <1>1, <1>3, <3>2
    <3>3. CASE b.state = "HALF_OPEN"
      BY <1>1, <1>3, <3>3
    <3> QED BY <3>1, <3>2, <3>3 DEF Breaker, CircuitState
  <2> QED BY <1>2, <2>1
<1> QED BY <1>2, <1>3

\* The order of the natural numbers is well-founded.
LEMMA NatOrder ==
    \E R : IsWellFoundedOn(R, Nat) /\ \A m, n \in Nat : <<m, n>> \in R <=> m < n
<1>1. \A m, n \in Nat : <<m, n>> \in OpToRel(<, Nat) <=> m < n
  BY Zenon DEF OpToRel
<1>2. IsWellFoundedOn(OpToRel(<, Nat), Nat)
  BY Zenon, NatLessThanWellFounded
<1> QED BY Zenon, <1>1, <1>2

\* First picks the least of a set of indices.
LEMMA FirstIs ==
    ASSUME NEW T \in SUBSET Nat, T # {}
    PROVE  First(T) \in T /\ \A m \in T : First(T) <= m
<1>1. PICK R : IsWellFoundedOn(R, Nat) /\ \A m, n \in Nat : <<m, n>> \in R <=> m < n
  BY NatOrder
<1>2. IsWellFoundedOn(R, Nat) /\ T \subseteq Nat
  BY <1>1
<1>3. PICK n \in T : \A m \in T : ~ (<<m, n>> \in R)
  BY <1>2, WFMin
<1>4. \A m \in T : ~ (m < n)
  BY <1>1, <1>3
<1>5. \A m \in T : n <= m
  <2> TAKE m \in T
  <2>1. m \in Nat /\ n \in Nat
    OBVIOUS
  <2>2. ~ (m < n)
    BY <1>4
  <2> QED BY <2>1, <2>2
<1> QED BY <1>5 DEF First

\* The nodes of a connection, and its master's key.
LEMMA NodesAre ==
    ASSUME NEW n \in Names
    PROVE  /\ Len(Nodes[n]) \in Nat \ {0}
           /\ DOMAIN Nodes[n] = 1..Len(Nodes[n])
           /\ \A i \in DOMAIN Nodes[n] :
                /\ Nodes[n][i].key \in Keys[n]
                /\ Nodes[n][i].weight \in Nat \ {0}
           /\ \A k \in Keys[n] : \E i \in DOMAIN Nodes[n] : Nodes[n][i].key = k
           /\ \A i, j \in DOMAIN Nodes[n] : Nodes[n][i].key = Nodes[n][j].key => i = j
           /\ Master[n] \in Keys[n]
           /\ Keys[n] \subseteq AllKeys /\ NoKey \notin Keys[n]
           /\ Replicas[n] \subseteq DOMAIN Nodes[n]
<1> DEFINE S == Nodes[n]
<1>1. /\ S \in Seq([ key : AllKeys, role : {"MASTER", "REPLICA"},
                              weight : Nat \ {0} ])
      /\ \E i \in DOMAIN S : S[i].role = "MASTER"
      /\ \A i, j \in DOMAIN S : S[i].key = S[j].key => i = j
      /\ NoKey \notin AllKeys
  BY AdaptersAssumption DEF AdaptersAssumption
<1> HIDE DEF S
<1>2. Len(S) \in Nat /\ DOMAIN S = 1..Len(S)
      /\ \A i \in DOMAIN S : S[i].weight \in Nat \ {0}
  <2> DEFINE R == [ key : AllKeys, role : {"MASTER", "REPLICA"}, weight : Nat \ {0} ]
  <2>1. \A x \in R : x.weight \in Nat \ {0}
    OBVIOUS
  <2>2. S \in Seq(R)
    BY <1>1
  <2> HIDE DEF R
  <2>3. Len(S) \in Nat /\ DOMAIN S = 1..Len(S) /\ \A i \in DOMAIN S : S[i] \in R
    BY <2>2
  <2> QED BY <2>1, <2>3
<1>3. Keys[n] = {S[i].key : i \in DOMAIN S}
  BY DEF Keys, S
<1>4. WithRole(n, "MASTER") \in SUBSET Nat /\ WithRole(n, "MASTER") # {}
      /\ WithRole(n, "MASTER") \subseteq DOMAIN S
  BY <1>1, <1>2 DEF WithRole, S
<1>5. First(WithRole(n, "MASTER")) \in DOMAIN S
  BY <1>4, FirstIs
<1>6. Master[n] = S[First(WithRole(n, "MASTER"))].key
  BY DEF Master, S
<1>7. Keys[n] \subseteq AllKeys
  BY DEF AllKeys
<1>8. Replicas[n] \subseteq DOMAIN S
  BY DEF Replicas, WithRole, S
<1>9. Len(S) # 0
  BY <1>1, <1>2
<1> QED BY <1>1, <1>2, <1>3, <1>5, <1>6, <1>7, <1>8, <1>9 DEF S

\* The balancer's turns are at replicas, and next() goes from a turn to a turn.
LEMMA TurnsAre ==
    ASSUME NEW n \in Names
    PROVE  /\ FirstTurn(n) \in Turns(n)
           /\ \A turn \in Turns(n) : Replicas[n] # {} =>
                 turn[1] \in Replicas[n] /\ NextTurn(n, turn) \in Turns(n)
<1>1. /\ Replicas[n] \in SUBSET Nat
      /\ \A i \in Replicas[n] : Nodes[n][i].weight \in Nat \ {0}
  BY NodesAre
<1>2. CASE Replicas[n] = {}
  BY <1>2 DEF Turns, FirstTurn
<1>3. CASE Replicas[n] # {}
  <2>1. \A i \in Replicas[n] : \A w \in 1..Nodes[n][i].weight : <<i, w>> \in Turns(n)
    BY <1>3 DEF Turns
  <2>2. First(Replicas[n]) \in Replicas[n]
    BY <1>1, <1>3, FirstIs
  <2>3. FirstTurn(n) \in Turns(n)
    BY <1>1, <1>3, <2>1, <2>2 DEF FirstTurn
  <2>4. ASSUME NEW turn \in Turns(n)
        PROVE  turn[1] \in Replicas[n] /\ NextTurn(n, turn) \in Turns(n)
    <3>1. PICK i \in Replicas[n] : turn \in {i} \X (1..Nodes[n][i].weight)
      BY <1>3, <2>4 DEF Turns
    <3>2. turn[1] = i /\ turn[2] \in 1..Nodes[n][i].weight
      BY <3>1
    <3> DEFINE later == {j \in Replicas[n] : j > i}
               from == IF later = {} THEN Replicas[n] ELSE later
    <3>3. from \in SUBSET Nat /\ from # {} /\ from \subseteq Replicas[n]
      BY <1>1, <1>3
    <3> HIDE DEF from
    <3>4. First(from) \in Replicas[n]
      BY <3>3, FirstIs
    <3>5. NextTurn(n, turn) =
             IF turn[2] < Nodes[n][i].weight THEN <<i, turn[2] + 1>> ELSE <<First(from), 1>>
      BY <3>2 DEF NextTurn, from
    <3>6. CASE turn[2] < Nodes[n][i].weight
      <4>1. turn[2] + 1 \in 1..Nodes[n][i].weight
        BY <1>1, <3>2, <3>6
      <4> QED BY <2>1, <3>2, <3>5, <3>6, <4>1
    <3>7. CASE ~(turn[2] < Nodes[n][i].weight)
      <4>1. 1 \in 1..Nodes[n][First(from)].weight
        BY <1>1, <3>4
      <4> QED BY <2>1, <3>2, <3>4, <3>5, <3>7, <4>1
    <3> QED BY <3>6, <3>7
  <2> QED BY <2>3, <2>4
<1> QED BY <1>2, <1>3

(* The inductive invariant. *)

\* What a call carries from one await to the next.
CallKept(r) ==
    /\ r.pc \in {"idle", "enter"} =>
           r.kind = "none" /\ r.attempt = 0 /\ r.error = NoError
    /\ r.pc \in {"body", "commit", "rollback", "close"} =>
           r.key \in Keys[r.on] /\ r.attempt > 0 /\ r.kind # "none"
    /\ r.pc \in {"commit", "rollback", "close"} => OwnsSession(r)
    /\ r.pc \in {"body", "commit"} => r.error = NoError /\ ~r.hit /\ ~r.masked
    /\ r.pc = "rollback" =>
           r.error \in Errors /\ (Infrastructure(r.error) <=> r.hit) /\ ~r.masked
    /\ r.pc = "close" /\ ~r.masked =>
           \/ r.error = NoError /\ ~r.hit
           \/ r.error \in Errors /\ (Infrastructure(r.error) <=> r.hit)
    /\ r.attempt > 1 => r.kind = "read"
    /\ r.pc = "backoff" => r.kind = "read" /\ Retries(r.error, r.attempt)
    /\ r.pc = "done" /\ r.kind = "read" => ~Retries(r.error, r.attempt)

\* The same of every call.
CallsKept == \A c \in Callers : CallKept(call[c])

\* The calls that are in a block guarded by the breaker of node k of n.
Users(n, k) == {c \in Callers : InFlight(c) /\ call[c].on = n /\ call[c].key = k}

\* The probe slots of a breaker that are taken.
Slots(b) == IF b.state = "HALF_OPEN" THEN b.half_open_calls_in_flight ELSE 0

\* A probe slot of a replica is held by a call that is in its block.  (Those of
\* a master are also held by pings.)
SlotsHeld ==
    \A n \in Names : \A k \in Keys[n] \ {Master[n]} :
        Slots(adapter[n].breaker[k]) <= Cardinality(Users(n, k))

\* Where the block's task is.
MainKept ==
    /\ main.pc \in {"connect", "ping", "release"} =>
           main.at <= Len(Order) /\ registered = main.at - 1
    /\ main.pc = "connected" => registered = Len(Order)
    /\ main.pc = "disconnect" => main.at <= registered
    /\ main.pc \in {"release", "disconnect"} =>
           main.node \in DOMAIN Nodes[Order[main.at]]
    /\ main.pc = "ping" => main.attempt > 0

\* The life of an adapter: nothing has been opened; connected; disposed of up to
\* a node; disposed of, or given up half-way.
Untouched(n) == ~adapter[n].ready /\ \A k \in Keys[n] : pool[n][k] = "unused"

\* A call is not in a block of an adapter.
Stranger(c, n) == ~(InFlight(c) /\ call[c].on = n)

\* Nobody has used an adapter, so the breaker of its master is as it was made.
Unused(n) ==
    /\ adapter[n].breaker[Master[n]].state = "CLOSED"
    /\ \A c \in Callers : Stranger(c, n)

\* No pool of the adapter has been disposed of.
Fresh(n) == \A k \in Keys[n] : pool[n][k] \in {"unused", "open"}

\* disconnect() has disposed of the engines of the nodes before this one.
DisposedUpTo(n, node) ==
    \A j \in DOMAIN Nodes[n] :
        pool[n][Nodes[n][j].key] \in
            IF j < node THEN {"closed", "reopened"} ELSE {"unused", "open"}

\* disconnect() of the adapter is over, well or not; if it is still ready, a
\* disposal was cut short.
LetGo(n) ==
    /\ \A k \in Keys[n] : pool[n][k] \in {"closed", "reopened", "abandoned"}
    /\ adapter[n].ready => \E k \in Keys[n] : pool[n][k] = "abandoned"

\* How far the block's task has got with the i-th adapter.
Unreached(i) ==
    \/ main.pc = "connect" /\ main.at <= i
    \/ main.pc \in {"ping", "release"} /\ main.at < i

\* connect() of the i-th adapter is over or pings, and nothing ended it yet.
Connected(i) ==
    \/ main.pc \in {"connect", "release"} /\ i < main.at
    \/ main.pc = "ping" /\ i <= main.at
    \/ main.pc = "connected"
    \/ main.pc = "disconnect" /\ main.at < i /\ i <= registered

\* The task is in the i-th adapter's disconnect().
Disposing(i) == main.pc \in {"release", "disconnect"} /\ i = main.at

\* What that says of the adapter.
LifeKept(i) ==
    /\ Unreached(i) => Untouched(Order[i]) /\ Unused(Order[i])
    /\ Connected(i) => Fresh(Order[i])
    /\ Disposing(i) => DisposedUpTo(Order[i], main.node)
    /\ Unreached(i) \/ Connected(i) \/ Disposing(i)
           \/ Untouched(Order[i]) \/ LetGo(Order[i])

\* The same of every adapter.
PoolsKept == \A i \in DOMAIN Order : LifeKept(i)

\* How far the report is.
MonitorKept ==
    /\ monitor.pc = "idle" => monitor.at = 0 /\ monitor.size = 0
    /\ main.pc \in {"connect", "ping", "release"} => monitor.size <= registered
    /\ monitor.pc \in {"idle", "next"} => Len(monitor.report) = monitor.at
    /\ monitor.pc \in {"ping", "replica"} => monitor.at = Len(monitor.report) + 1
    /\ monitor.at <= monitor.size
    /\ monitor.pc = "replica" => monitor.node \in DOMAIN Nodes[Checked]

\* The inductive invariant.
IInv == TypeOK /\ CallsKept /\ SlotsHeld /\ MainKept /\ PoolsKept /\ MonitorKept

-----------------------------------------------------------------------------
(* What a step does to the adapters and pools. *)

\* The adapters and the pools have their types, entry by entry.
AdaptersTyped == DOMAIN adapter = Names /\ \A n \in Names : adapter[n] \in Adapter(n)
PoolsTyped == DOMAIN pool = Names /\ \A n \in Names : pool[n] \in [Keys[n] -> PoolState]

\* A step that connects and disconnects nobody.
ReadyKept == \A n \in Names : adapter'[n].ready = adapter[n].ready

\* Of the breakers only that of node k of n changes, to b.
OnlyBreaker(n, k, b) ==
    \A m \in Names : \A j \in Keys[m] :
        adapter'[m].breaker[j] = IF m = n /\ j = k THEN b ELSE adapter[m].breaker[j]

\* The parts of an adapter have their types.
LEMMA BreakersTyped ==
    ASSUME AdaptersTyped
    PROVE  \A n \in Names : /\ adapter[n].ready \in BOOLEAN
                            /\ adapter[n].turn \in Turns(n)
                            /\ \A k \in Keys[n] : adapter[n].breaker[k] \in Breaker
<1> SUFFICES ASSUME NEW n \in Names
             PROVE  /\ adapter[n].ready \in BOOLEAN
                    /\ adapter[n].turn \in Turns(n)
                    /\ \A k \in Keys[n] : adapter[n].breaker[k] \in Breaker
  OBVIOUS
<1>1. adapter[n] \in Adapter(n)
  BY DEF AdaptersTyped
<1> QED BY <1>1 DEF Adapter

\* A step sets one breaker.
LEMMA BreakerSet ==
    ASSUME AdaptersTyped, NEW n \in Names, NEW k \in Keys[n], NEW b \in Breaker,
           adapter' = [adapter EXCEPT ![n].breaker[k] = b]
    PROVE  AdaptersTyped' /\ ReadyKept /\ OnlyBreaker(n, k, b)
<1> DEFINE y == [adapter[n] EXCEPT !.breaker[k] = b]
<1>1. adapter[n] \in Adapter(n)
  BY DEF AdaptersTyped
<1>2. /\ y \in Adapter(n) /\ y.ready = adapter[n].ready
      /\ \A j \in Keys[n] : y.breaker[j] = IF j = k THEN b ELSE adapter[n].breaker[j]
  BY <1>1 DEF Adapter
<1>3. DOMAIN adapter' = Names
          /\ \A m \in Names : adapter'[m] = IF m = n THEN y ELSE adapter[m]
  BY DEF AdaptersTyped
<1> QED BY <1>2, <1>3 DEF AdaptersTyped, ReadyKept, OnlyBreaker

\* A step sets one breaker and advances the turn of its adapter.
LEMMA BreakerAndTurnSet ==
    ASSUME AdaptersTyped, NEW n \in Names, NEW k \in Keys[n], NEW b \in Breaker,
           NEW turn \in Turns(n),
           adapter' = [adapter EXCEPT ![n].breaker[k] = b, ![n].turn = turn]
    PROVE  AdaptersTyped' /\ ReadyKept /\ OnlyBreaker(n, k, b)
<1> DEFINE y == [[adapter[n] EXCEPT !.breaker[k] = b] EXCEPT !.turn = turn]
<1>1. adapter[n] \in Adapter(n)
  BY DEF AdaptersTyped
<1>2. /\ y \in Adapter(n) /\ y.ready = adapter[n].ready
      /\ \A j \in Keys[n] : y.breaker[j] = IF j = k THEN b ELSE adapter[n].breaker[j]
  BY <1>1 DEF Adapter
<1>3. DOMAIN adapter' = Names
          /\ \A m \in Names : adapter'[m] = IF m = n THEN y ELSE adapter[m]
  BY DEF AdaptersTyped
<1> QED BY <1>2, <1>3 DEF AdaptersTyped, ReadyKept, OnlyBreaker

\* A step advances the turn of one adapter.
LEMMA TurnSet ==
    ASSUME AdaptersTyped, NEW n \in Names, NEW turn \in Turns(n),
           adapter' = [adapter EXCEPT ![n].turn = turn]
    PROVE  /\ AdaptersTyped' /\ ReadyKept
           /\ \A m \in Names : adapter'[m].breaker = adapter[m].breaker
<1> DEFINE y == [adapter[n] EXCEPT !.turn = turn]
<1>1. adapter[n] \in Adapter(n)
  BY DEF AdaptersTyped
<1>2. y \in Adapter(n) /\ y.ready = adapter[n].ready /\ y.breaker = adapter[n].breaker
  BY <1>1 DEF Adapter
<1>3. DOMAIN adapter' = Names
          /\ \A m \in Names : adapter'[m] = IF m = n THEN y ELSE adapter[m]
  BY DEF AdaptersTyped
<1> QED BY <1>2, <1>3 DEF AdaptersTyped, ReadyKept

\* A connection is taken from a pool only while the adapter is connected.
PoolsStay ==
    \A n \in Names : \A k \in Keys[n] :
        \/ pool'[n][k] = pool[n][k]
        \/ /\ adapter[n].ready
           /\ \/ pool[n][k] = "unused" /\ pool'[n][k] = "open"
              \/ pool[n][k] = "closed" /\ pool'[n][k] = "reopened"

\* What a pool becomes when a connection is taken from it.
Taken(state) ==
    CASE state = "unused" -> "open" [] state = "closed" -> "reopened" [] OTHER -> state

\* It is open or reopened afterwards, or stays as it was.
LEMMA TakenIs ==
    ASSUME NEW state \in PoolState
    PROVE  /\ Taken(state) \in PoolState
           /\ Taken(state) = "open" <=> state \in {"unused", "open"}
           /\ \/ Taken(state) = state
              \/ state = "unused" /\ Taken(state) = "open"
              \/ state = "closed" /\ Taken(state) = "reopened"
BY DEF Taken, PoolState

\* A checkout changes one pool, that way.
LEMMA CheckedOut ==
    ASSUME PoolsTyped, NEW n \in Names, NEW k \in Keys[n], CheckOut(n, k)
    PROVE  /\ PoolsTyped'
           /\ \A m \in Names : \A j \in Keys[m] :
                 pool'[m][j] = IF m = n /\ j = k THEN Taken(pool[n][k]) ELSE pool[m][j]
           /\ adapter[n].ready => PoolsStay
<1> DEFINE s == Taken(pool[n][k])
           y == [pool[n] EXCEPT ![k] = s]
<1>1. pool[n] \in [Keys[n] -> PoolState] /\ pool[n][k] \in PoolState
  BY DEF PoolsTyped
<1>2. pool' = [pool EXCEPT ![n][k] = s]
  BY DEF CheckOut, Taken
<1>3. /\ s \in PoolState
      /\ \/ s = pool[n][k]
         \/ pool[n][k] = "unused" /\ s = "open"
         \/ pool[n][k] = "closed" /\ s = "reopened"
  BY <1>1, TakenIs
<1> HIDE DEF s
<1>4. y \in [Keys[n] -> PoolState]
          /\ \A j \in Keys[n] : y[j] = IF j = k THEN s ELSE pool[n][j]
  BY <1>1, <1>3
<1>5. DOMAIN pool' = Names /\ \A m \in Names : pool'[m] = IF m = n THEN y ELSE pool[m]
  BY <1>2 DEF PoolsTyped
<1> HIDE DEF y
<1>6. PoolsTyped'
  BY <1>4, <1>5 DEF PoolsTyped
<1>7. \A m \in Names : \A j \in Keys[m] :
          pool'[m][j] = IF m = n /\ j = k THEN s ELSE pool[m][j]
  BY <1>4, <1>5
<1>8. adapter[n].ready => PoolsStay
  BY <1>3, <1>7 DEF PoolsStay
<1> QED BY <1>6, <1>7, <1>8 DEF s

\* A method takes at most one slot; reporting an outcome gives one back or all.
LEMMA SlotsAre ==
    ASSUME NEW b \in Breaker
    PROVE  /\ Slots(b) \in Nat
           /\ b.state = "HALF_OPEN" /\ ~Admits(b) => Slots(b) > 0
           /\ Admits(b) => Slots(BeforeCall(b)) <= Slots(b) + 1
           /\ Slots(OnSuccess(b)) = 0
           /\ Slots(OnFailure(b)) = 0
           /\ Slots(OnAbandoned(b)) = 0 \/ Slots(OnAbandoned(b)) = Slots(b) - 1
           /\ Slots(Elapse(b)) = Slots(b)
<1>1. /\ HalfOpenMaxCalls \in Nat \ {0}
      /\ b.half_open_calls_in_flight \in 0..HalfOpenMaxCalls
      /\ b.half_open_calls_in_flight \in Nat
  BY BreakerConfigAssumption DEF BreakerConfigAssumption, Breaker
<1>2. Slots(b) \in Nat
  BY <1>1 DEF Slots
<1>3. b.state = "HALF_OPEN" /\ ~Admits(b) => Slots(b) > 0
  BY <1>1 DEF Slots, Admits, AllowsCalls
<1>4. Admits(b) => Slots(BeforeCall(b)) <= Slots(b) + 1
  BY <1>1, BreakerSlots DEF Slots
<1>5. Slots(OnSuccess(b)) = 0 /\ Slots(OnFailure(b)) = 0
  BY BreakerSlots DEF Slots
<1>6. Slots(OnAbandoned(b)) = 0 \/ Slots(OnAbandoned(b)) = Slots(b) - 1
  BY <1>1, BreakerSlots DEF Slots
<1>7. Slots(Elapse(b)) = Slots(b)
  BY DEF Slots, Elapse, Breaker
<1> QED BY <1>2, <1>3, <1>4, <1>5, <1>6, <1>7

\* There are finitely many users, before a step and after it.
LEMMA UsersFinite ==
    ASSUME NEW n, NEW k
    PROVE  /\ IsFiniteSet(Users(n, k)) /\ Cardinality(Users(n, k)) \in Nat
           /\ IsFiniteSet(Users(n, k)') /\ Cardinality(Users(n, k)') \in Nat
<1>1. Users(n, k) \subseteq Callers /\ Users(n, k)' \subseteq Callers
  BY DEF Users
<1> QED BY <1>1, FactoryAssumption, FS_Subset, FS_CardinalityType
       DEF FactoryAssumption

\* The slots stay held if whoever takes one joins the users, and whoever leaves
\* gives one back.
LEMMA SlotsFollowUsers ==
    ASSUME AdaptersTyped, AdaptersTyped', SlotsHeld, NEW c \in Callers,
           \A d \in Callers \ {c} : call'[d] = call[d],
           NEW n \in Names, NEW k \in Keys[n], k # Master[n],
           \/ /\ c \in Users(n, k)' <=> c \in Users(n, k)
              /\ Slots(adapter'[n].breaker[k]) <= Slots(adapter[n].breaker[k])
           \/ /\ c \in Users(n, k)' /\ c \notin Users(n, k)
              /\ Slots(adapter'[n].breaker[k]) <= Slots(adapter[n].breaker[k]) + 1
           \/ /\ c \notin Users(n, k)' /\ c \in Users(n, k)
              /\ \/ Slots(adapter'[n].breaker[k]) = 0
                 \/ Slots(adapter'[n].breaker[k]) = Slots(adapter[n].breaker[k]) - 1
    PROVE  Slots(adapter'[n].breaker[k]) <= Cardinality(Users(n, k)')
<1> DEFINE U == Users(n, k)
           V == Users(n, k)'
           s == Slots(adapter[n].breaker[k])
           t == Slots(adapter'[n].breaker[k])
<1>1. \A d \in Callers \ {c} : d \in V <=> d \in U
  BY DEF Users, InFlight
<1>2. U \subseteq Callers /\ V \subseteq Callers
  BY DEF Users
<1>3. /\ IsFiniteSet(U) /\ Cardinality(U) \in Nat
      /\ IsFiniteSet(V) /\ Cardinality(V) \in Nat
  BY UsersFinite
<1>4. s <= Cardinality(U)
  BY DEF SlotsHeld
<1>5. adapter[n].breaker[k] \in Breaker /\ adapter'[n].breaker[k] \in Breaker
  <2>1. adapter[n] \in Adapter(n) /\ adapter'[n] \in Adapter(n)
    BY DEF AdaptersTyped
  <2> QED BY <2>1 DEF Adapter
<1>6. s \in Nat /\ t \in Nat
  BY <1>5, SlotsAre
<1>7. \/ (c \in V <=> c \in U) /\ t <= s
      \/ c \in V /\ c \notin U /\ t <= s + 1
      \/ c \notin V /\ c \in U /\ (t = 0 \/ t = s - 1)
  OBVIOUS
<1> HIDE DEF U, V, s, t
<1>8. CASE (c \in V <=> c \in U) /\ t <= s
  <2>1. V = U
    BY <1>1, <1>2, <1>8
  <2> QED BY <1>3, <1>4, <1>6, <1>8, <2>1 DEF V, t
<1>9. CASE c \in V /\ c \notin U /\ t <= s + 1
  <2>1. V = U \cup {c}
    BY <1>1, <1>2, <1>9
  <2>2. Cardinality(V) = Cardinality(U) + 1
    BY <1>3, <1>9, <2>1, FS_AddElement
  <2> QED BY <1>3, <1>4, <1>6, <1>9, <2>2 DEF V, t
<1>10. CASE c \notin V /\ c \in U /\ (t = 0 \/ t = s - 1)
  <2>1. V = U \ {c}
    BY <1>1, <1>2, <1>10
  <2>2. Cardinality(V) = Cardinality(U) - 1
    BY <1>3, <1>10, <2>1, FS_RemoveElement
  <2> QED BY <1>3, <1>4, <1>6, <1>10, <2>2 DEF V, t
<1> QED BY <1>7, <1>8, <1>9, <1>10

\* The steps of the block's task, of the monitor and of time.
LEMMA SlotsKeptWithoutCalls ==
    ASSUME SlotsHeld, UNCHANGED call,
           \A n \in Names : \A k \in Keys[n] \ {Master[n]} :
               Slots(adapter'[n].breaker[k]) = Slots(adapter[n].breaker[k])
    PROVE  SlotsHeld'
<1>1. \A n, k : Users(n, k)' = Users(n, k)
  BY DEF Users, InFlight
<1> QED BY <1>1 DEF SlotsHeld

\* The steps of calls: they take connections from the pools of ready adapters,
\* and use no adapter that is not connected yet.
LEMMA PoolsKeptByCalls ==
    ASSUME PoolsKept, PoolsStay, ReadyKept, UNCHANGED <<main, registered>>,
           \A n \in Names : ~adapter[n].ready /\ Unused(n)
                  /\ (\E i \in DOMAIN Order : Unreached(i) /\ Order[i] = n) => Unused(n)'
    PROVE  PoolsKept'
<1> SUFFICES ASSUME NEW i \in DOMAIN Order
             PROVE  /\ Unreached(i)' => Untouched(Order[i])' /\ Unused(Order[i])'
                    /\ Connected(i)' => Fresh(Order[i])'
                    /\ Disposing(i)' => DisposedUpTo(Order[i], main.node)'
                    /\ Unreached(i)' \/ Connected(i)' \/ Disposing(i)'
                           \/ Untouched(Order[i])' \/ LetGo(Order[i])'
  BY DEF PoolsKept, LifeKept
<1>1. /\ Unreached(i)' <=> Unreached(i)
      /\ Connected(i)' <=> Connected(i)
      /\ Disposing(i)' <=> Disposing(i)
  BY DEF Unreached, Connected, Disposing
<1> DEFINE n == Order[i]
<1>2. n \in Names
  BY DEF Names
<1>3. /\ Unreached(i) => Untouched(n) /\ Unused(n)
      /\ Connected(i) => Fresh(n)
      /\ Disposing(i) => DisposedUpTo(n, main.node)
      /\ Unreached(i) \/ Connected(i) \/ Disposing(i) \/ Untouched(n) \/ LetGo(n)
  BY DEF PoolsKept, LifeKept
<1> HIDE DEF n
<1>4. adapter'[n].ready = adapter[n].ready
  BY <1>2 DEF ReadyKept
<1>5. \A k \in Keys[n] :
        \/ pool'[n][k] = pool[n][k]
        \/ adapter[n].ready /\ pool[n][k] = "unused" /\ pool'[n][k] = "open"
        \/ adapter[n].ready /\ pool[n][k] = "closed" /\ pool'[n][k] = "reopened"
  BY <1>2 DEF PoolsStay
<1>6. Untouched(n) => Untouched(n)'
  BY <1>4, <1>5 DEF Untouched
<1>10. Unreached(i) /\ Unused(n) => Unused(n)'
  <2>1. Unreached(i) /\ Order[i] = n => ~adapter[n].ready
    BY <1>3 DEF Untouched
  <2> QED BY <1>2, <2>1 DEF n
<1>7. Fresh(n) => Fresh(n)'
  BY <1>5 DEF Fresh
<1>8. DisposedUpTo(n, main.node) => DisposedUpTo(n, main.node)'
  <2> SUFFICES ASSUME DisposedUpTo(n, main.node), NEW j \in DOMAIN Nodes[n]
               PROVE  pool'[n][Nodes[n][j].key] \in
                         IF j < main.node THEN {"closed", "reopened"}
                             ELSE {"unused", "open"}
    BY DEF DisposedUpTo
  <2>1. Nodes[n][j].key \in Keys[n]
    BY <1>2, NodesAre
  <2>2. pool[n][Nodes[n][j].key] \in
                         IF j < main.node THEN {"closed", "reopened"}
                             ELSE {"unused", "open"}
    BY DEF DisposedUpTo
  <2> QED BY <1>5, <2>1, <2>2
<1>9. LetGo(n) => LetGo(n)'
  BY <1>4, <1>5 DEF LetGo
<1> QED BY <1>1, <1>3, <1>6, <1>7, <1>8, <1>9, <1>10 DEF n

\* The errors that the package raises by itself.
LEMMA ErrorsAre ==
    /\ {"ConfigurationError", "CircuitBreakerOpenError"} \subseteq KrossDBErrors
    /\ "RuntimeError" \in Errors
    /\ NoError \notin Errors /\ Cancelled \notin Errors /\ NoError # Cancelled
    /\ ~IsInstance("CircuitBreakerOpenError", RETRYABLE_EXCEPTIONS)
    /\ \A error : error \notin Errors => \A attempt : ~Retries(error, attempt)
<1>1. /\ {"ConfigurationError", "CircuitBreakerOpenError"} \subseteq KrossDBErrors
      /\ "RuntimeError" \in Errors
      /\ NoError \notin Errors /\ Cancelled \notin Errors /\ NoError # Cancelled
  BY SMTT(60)
     DEF KrossDBErrors, DriverErrors, Errors, Bases, DriverBases, NoError,
         Cancelled
<1>2. Parent("CircuitBreakerOpenError") = "KrossDBError"
      /\ Parent("KrossDBError") = "Exception"
  BY SMTT(60) DEF Parent, BaseOf, KrossDBErrors, Bases
<1>3. Ancestors("CircuitBreakerOpenError") =
         {"CircuitBreakerOpenError", "KrossDBError", "Exception"}
  BY <1>2, ParentIs DEF Ancestors
<1>4. ~IsInstance("CircuitBreakerOpenError", RETRYABLE_EXCEPTIONS)
  BY <1>1, <1>3, Instances DEF RETRYABLE_EXCEPTIONS, Errors
<1> QED BY <1>1, <1>4 DEF Retries, IsInstance

\* What a driver's error becomes inside a session: an infrastructure failure if
\* and only if it is an outage that a mapper has a test for.
LEMMA RaisedIs ==
    ASSUME NEW error \in DriverErrors
    PROVE  /\ Raised(error) \in Errors
           /\ Infrastructure(Raised(error)) <=> error \in Recognized
<1>1. Raised(error) = MapException[error]
  BY DEF Raised, Translated
<1>2. MapException[error] \in KrossDBErrors
  BY MappedErrors
<1>3. MapException[error] \in Errors
  BY <1>2 DEF Errors
<1> QED BY <1>1, <1>3, MappedErrors, InfrastructureIs

\* Every adapter is of a kind, and each kind's driver raises driver errors.
LEMMA RaisesAre ==
    /\ \A n \in Names : Kind[n] \in Kinds
    /\ \A kind \in Kinds : Raises[kind] \subseteq DriverErrors
    /\ "relational" \in Kinds
BY AdaptersAssumption DEF AdaptersAssumption, Kinds

\* Where a call can be.
CallPc == {"idle", "enter", "body", "commit", "rollback", "close", "backoff", "done"}

\* The fields of a call have their types.
LEMMA CallIs ==
    ASSUME NEW r \in Call
    PROVE  /\ r = [ pc |-> r.pc, kind |-> r.kind, on |-> r.on, key |-> r.key,
                    attempt |-> r.attempt, error |-> r.error, hit |-> r.hit,
                    masked |-> r.masked ]
           /\ r.pc \in CallPc
           /\ r.kind \in {"none", "read", "boundRead", "write"}
           /\ r.on \in Names /\ r.key \in AllKeys \cup {NoKey}
           /\ r.attempt \in 0..MaxAttempts /\ r.attempt \in Nat
           /\ r.error \in Errors \cup {NoError, Cancelled}
           /\ r.hit \in BOOLEAN /\ r.masked \in BOOLEAN
BY DEF Call, CallPc

\* A read that waits for its next attempt.
Waits(r, error) == [r EXCEPT !.pc = "backoff", !.error = error, !.key = NoKey]

\* A call, from its fields.
Made(pc, kind, on, key, attempt, error, hit, masked) ==
    [ pc |-> pc, kind |-> kind, on |-> on, key |-> key, attempt |-> attempt,
      error |-> error, hit |-> hit, masked |-> masked ]

\* The record of a call, field by field.
SetPc(r, x) == [r EXCEPT !.pc = x]
SetKind(r, x) == [r EXCEPT !.kind = x]
SetOn(r, x) == [r EXCEPT !.on = x]
SetKey(r, x) == [r EXCEPT !.key = x]
SetAttempt(r, x) == [r EXCEPT !.attempt = x]
SetError(r, x) == [r EXCEPT !.error = x]
SetHit(r, x) == [r EXCEPT !.hit = x]
SetMasked(r, x) == [r EXCEPT !.masked = x]

\* Setting a field of such a record.
LEMMA Setters ==
    \A a, b, c, d, e, f, g, h, x :
        /\ SetPc(Made(a, b, c, d, e, f, g, h), x) = Made(x, b, c, d, e, f, g, h)
        /\ SetKind(Made(a, b, c, d, e, f, g, h), x) = Made(a, x, c, d, e, f, g, h)
        /\ SetOn(Made(a, b, c, d, e, f, g, h), x) = Made(a, b, x, d, e, f, g, h)
        /\ SetKey(Made(a, b, c, d, e, f, g, h), x) = Made(a, b, c, x, e, f, g, h)
        /\ SetAttempt(Made(a, b, c, d, e, f, g, h), x) = Made(a, b, c, d, x, f, g, h)
        /\ SetError(Made(a, b, c, d, e, f, g, h), x) = Made(a, b, c, d, e, x, g, h)
        /\ SetHit(Made(a, b, c, d, e, f, g, h), x) = Made(a, b, c, d, e, f, x, h)
        /\ SetMasked(Made(a, b, c, d, e, f, g, h), x) = Made(a, b, c, d, e, f, g, x)
<1> TAKE a, b, c, d, e, f, g, h, x
<1>1. SetPc(Made(a, b, c, d, e, f, g, h), x) = Made(x, b, c, d, e, f, g, h)
  BY DEF SetPc, Made
<1>2. SetKind(Made(a, b, c, d, e, f, g, h), x) = Made(a, x, c, d, e, f, g, h)
  BY DEF SetKind, Made
<1>3. SetOn(Made(a, b, c, d, e, f, g, h), x) = Made(a, b, x, d, e, f, g, h)
  BY DEF SetOn, Made
<1>4. SetKey(Made(a, b, c, d, e, f, g, h), x) = Made(a, b, c, x, e, f, g, h)
  BY DEF SetKey, Made
<1>5. SetAttempt(Made(a, b, c, d, e, f, g, h), x) = Made(a, b, c, d, x, f, g, h)
  BY DEF SetAttempt, Made
<1>6. SetError(Made(a, b, c, d, e, f, g, h), x) = Made(a, b, c, d, e, x, g, h)
  BY DEF SetError, Made
<1>7. SetHit(Made(a, b, c, d, e, f, g, h), x) = Made(a, b, c, d, e, f, x, h)
  BY DEF SetHit, Made
<1>8. SetMasked(Made(a, b, c, d, e, f, g, h), x) = Made(a, b, c, d, e, f, g, x)
  BY DEF SetMasked, Made
<1> QED BY <1>1, <1>2, <1>3, <1>4, <1>5, <1>6, <1>7, <1>8

\* Every call is such a record.
LEMMA CallIsMade ==
    ASSUME NEW r \in Call
    PROVE  r = Made(r.pc, r.kind, r.on, r.key, r.attempt, r.error, r.hit, r.masked)
BY CallIs DEF Made

\* What a call that waits, and one that is done, is made of.
LEMMA WaitsIs ==
    ASSUME NEW r \in Call, NEW error
    PROVE  /\ Waits(r, error) =
                 Made("backoff", r.kind, r.on, NoKey, r.attempt, error, r.hit, r.masked)
           /\ Done(r, error) =
                 Made("done", r.kind, Order[1], NoKey, r.attempt, error, r.hit, r.masked)
<1>1. r = Made(r.pc, r.kind, r.on, r.key, r.attempt, r.error, r.hit, r.masked)
  BY CallIsMade
<1>2. Waits(r, error) = SetKey(SetError(SetPc(r, "backoff"), error), NoKey)
  BY DEF Waits, SetKey, SetError, SetPc
<1>3. Done(r, error) = SetKey(SetOn(SetError(SetPc(r, "done"), error), Order[1]), NoKey)
  BY DEF Done, SetKey, SetOn, SetError, SetPc
<1>4. SetKey(SetError(SetPc(r, "backoff"), error), NoKey) =
          Made("backoff", r.kind, r.on, NoKey, r.attempt, error, r.hit, r.masked)
  BY <1>1, Setters
<1>5. SetKey(SetOn(SetError(SetPc(r, "done"), error), Order[1]), NoKey) =
          Made("done", r.kind, Order[1], NoKey, r.attempt, error, r.hit, r.masked)
  BY <1>1, Setters
<1> QED BY <1>2, <1>3, <1>4, <1>5

\* What a call that is over, or waits for its next attempt, is.
LEMMA AfterAttemptIs ==
    ASSUME NEW r \in Call, NEW error \in Errors \cup {NoError, Cancelled},
           r.attempt > 1 => r.kind = "read"
    PROVE  LET s == AfterAttempt(r, error)
           IN  /\ s \in Call /\ CallKept(s)
               /\ s.pc \in {"backoff", "done"}
               /\ s.kind = r.kind /\ s.error = error
               /\ s.hit = r.hit /\ s.masked = r.masked
<1>1. Order[1] \in Names
  BY AdaptersAssumption DEF AdaptersAssumption, Names
<1>4. /\ r.kind \in {"none", "read", "boundRead", "write"}
      /\ r.on \in Names /\ r.attempt \in 0..MaxAttempts
      /\ r.hit \in BOOLEAN /\ r.masked \in BOOLEAN
  BY CallIs
<1>5. "backoff" \in CallPc /\ "done" \in CallPc /\ NoKey \in AllKeys \cup {NoKey}
  BY DEF CallPc
<1>2. CASE r.kind = "read" /\ Retries(error, r.attempt)
  <2> DEFINE s == Waits(r, error)
  <2>1. AfterAttempt(r, error) = s
    BY <1>2 DEF AfterAttempt, Waits
  <2>2. s = Made("backoff", r.kind, r.on, NoKey, r.attempt, error, r.hit, r.masked)
    BY WaitsIs
  <2>3. s \in Call
    BY SMT, <1>4, <1>5, <2>2 DEF Made, Call, CallPc
  <2> HIDE DEF s
  <2>4. CallKept(s)
    BY <1>2, <2>2 DEF CallKept, Made
  <2> QED BY <2>1, <2>2, <2>3, <2>4 DEF Made
<1>3. CASE ~(r.kind = "read" /\ Retries(error, r.attempt))
  <2> DEFINE s == Done(r, error)
  <2>1. AfterAttempt(r, error) = s
    BY <1>3 DEF AfterAttempt
  <2>2. s = Made("done", r.kind, Order[1], NoKey, r.attempt, error, r.hit, r.masked)
    BY WaitsIs
  <2>3. s \in Call
    BY SMT, <1>1, <1>4, <1>5, <2>2 DEF Made, Call, CallPc
  <2> HIDE DEF s
  <2>4. CallKept(s)
    BY <1>3, <2>2 DEF CallKept, Made
  <2> QED BY <2>1, <2>2, <2>3, <2>4 DEF Made
<1> QED BY <1>2, <1>3

\* A call goes in a block of an adapter only when that is connected, and changes
\* only breakers it goes through.
Served(c) ==
    \A n \in Names :
        ~adapter[n].ready /\ Stranger(c, n) =>
            /\ Stranger(c, n)'
            /\ \A k \in Keys[n] : adapter'[n].breaker[k] = adapter[n].breaker[k]

\* What each step of a call establishes, and what it leaves alone.
CallEffect(c) ==
    /\ AdaptersTyped' /\ PoolsTyped'
    /\ call' \in [Callers -> Call]
    /\ faults' \in 0..MaxFaults
    /\ CallsKept'
    /\ SlotsHeld'
    /\ ReadyKept /\ PoolsStay /\ Served(c)
    /\ \A d \in Callers \ {c} : call'[d] = call[d]

\* What a step of a call needs of the types.
CallsTyped ==
    /\ AdaptersTyped /\ PoolsTyped
    /\ call \in [Callers -> Call] /\ faults \in 0..MaxFaults

\* A step writes one call.
LEMMA CallSet ==
    ASSUME CallsTyped, CallsKept, NEW c \in Callers, NEW r \in Call,
           call' = [call EXCEPT ![c] = r], CallKept(r)
    PROVE  /\ call' \in [Callers -> Call] /\ call'[c] = r
           /\ CallsKept'
           /\ \A d \in Callers \ {c} : call'[d] = call[d]
<1>1. call \in [Callers -> Call]
  BY DEF CallsTyped
<1>2. /\ call' \in [Callers -> Call] /\ call'[c] = r
      /\ \A d \in Callers \ {c} : call'[d] = call[d]
  BY <1>1
<1>3. CallsKept'
  BY <1>2 DEF CallsKept
<1> QED BY <1>2, <1>3

\* A step spends at most one fault, and only if one is left.
LEMMA FaultsStay ==
    ASSUME CallsTyped, Fails \/ UNCHANGED faults
    PROVE  faults' \in 0..MaxFaults
BY AdaptersAssumption DEF AdaptersAssumption, CallsTyped, Fails

\* A call goes on inside its block, or ends without having been in one.
LEMMA MoveKeeps ==
    ASSUME CallsTyped, CallsKept, SlotsHeld, NEW c \in Callers, NEW r \in Call,
           Move(c, r), Fails \/ UNCHANGED faults, CallKept(r),
           \/ r.on = call[c].on /\ r.key = call[c].key
           \/ r.pc \in {"backoff", "done"} /\ ~InFlight(c),
           r.pc \in {"body", "commit", "rollback", "close"} <=> InFlight(c)
    PROVE  CallEffect(c)
<1>1. call' = [call EXCEPT ![c] = r] /\ UNCHANGED <<adapter, pool>>
  BY DEF Move
<1>2. /\ call' \in [Callers -> Call] /\ call'[c] = r
      /\ CallsKept'
      /\ \A d \in Callers \ {c} : call'[d] = call[d]
  BY <1>1, CallSet
<1>3. AdaptersTyped' /\ PoolsTyped' /\ ReadyKept /\ PoolsStay
  BY <1>1 DEF CallsTyped, AdaptersTyped, PoolsTyped, ReadyKept, PoolsStay
<1>4. faults' \in 0..MaxFaults
  BY FaultsStay
<1>5. \A n, k : Users(n, k)' = Users(n, k)
  BY <1>2 DEF Users, InFlight
<1>6. SlotsHeld'
  BY <1>1, <1>5 DEF SlotsHeld
<1>7. Served(c)
  BY <1>1, <1>2 DEF Served, Stranger, InFlight
<1> QED BY <1>2, <1>3, <1>4, <1>6, <1>7 DEF CallEffect

\* What guard() reports.
LEMMA ReportedIs ==
    ASSUME NEW b \in Breaker, NEW error \in Errors \cup {NoError, Cancelled}, NEW types
    PROVE  /\ Reported(b, error, types) \in Breaker
           /\ \/ Slots(Reported(b, error, types)) = 0
              \/ Slots(Reported(b, error, types)) = Slots(b) - 1
           /\ error = NoError => Reported(b, error, types) = OnSuccess(b)
           /\ error \in Errors =>
                Reported(b, error, types) =
                   IF IsInstance(error, types) THEN OnFailure(b) ELSE OnSuccess(b)
<1>1. \/ error = NoError /\ Reported(b, error, types) = OnSuccess(b)
      \/ error = Cancelled /\ Reported(b, error, types) = OnAbandoned(b)
      \/ /\ error \in Errors
         /\ Reported(b, error, types) =
              IF IsInstance(error, types) THEN OnFailure(b) ELSE OnSuccess(b)
  BY ErrorsAre DEF Reported
<1> QED BY <1>1, BreakerSteps, SlotsAre, ErrorsAre

\* A call leaves its block.
LEMMA LeaveKeeps ==
    ASSUME CallsTyped, CallsKept, SlotsHeld, NEW c \in Callers, InFlight(c),
           NEW r \in Call, NEW error \in Errors \cup {NoError, Cancelled},
           r.attempt > 1 => r.kind = "read",
           Leave(c, r, error), Fails \/ UNCHANGED faults
    PROVE  /\ CallEffect(c)
           /\ call'[c] = AfterAttempt(r, error)
           /\ adapter'[call[c].on].breaker[call[c].key] =
                Reported(adapter[call[c].on].breaker[call[c].key], error,
                         INFRASTRUCTURE_FAILURES)
<1> DEFINE n == call[c].on
           k == call[c].key
           b == adapter[n].breaker[k]
           b1 == Reported(b, error, INFRASTRUCTURE_FAILURES)
           s == AfterAttempt(r, error)
<1>1. /\ adapter' = [adapter EXCEPT ![n].breaker[k] = b1]
      /\ call' = [call EXCEPT ![c] = s]
      /\ UNCHANGED pool
  BY DEF Leave
<1>2. call[c] \in Call /\ CallKept(call[c])
  BY DEF CallsTyped, CallsKept
<1>3. n \in Names /\ k \in Keys[n]
  BY <1>2, CallIs DEF CallKept, InFlight
<1>4. AdaptersTyped /\ PoolsTyped
  BY DEF CallsTyped
<1>5. b \in Breaker
  BY <1>3, <1>4, BreakersTyped
<1>6. /\ b1 \in Breaker
      /\ Slots(b1) = 0 \/ Slots(b1) = Slots(b) - 1
  BY <1>5, ReportedIs
<1>7. s \in Call /\ CallKept(s) /\ s.pc \in {"backoff", "done"}
  BY AfterAttemptIs
<1> HIDE DEF s, b1
<1>8. /\ call' \in [Callers -> Call] /\ call'[c] = s
      /\ CallsKept'
      /\ \A d \in Callers \ {c} : call'[d] = call[d]
  BY <1>1, <1>7, CallSet
<1> HIDE DEF n, k
<1>9. AdaptersTyped' /\ ReadyKept /\ OnlyBreaker(n, k, b1)
  BY <1>1, <1>3, <1>4, <1>6, BreakerSet
<1>10. PoolsTyped' /\ PoolsStay
  BY <1>1, <1>4 DEF PoolsTyped, PoolsStay
<1>11. faults' \in 0..MaxFaults
  BY FaultsStay
<1>12. SlotsHeld'
  <2> SUFFICES ASSUME NEW m \in Names, NEW j \in Keys[m], j # Master[m]
               PROVE  Slots(adapter'[m].breaker[j]) <= Cardinality(Users(m, j)')
    BY DEF SlotsHeld
  <2>1. c \notin Users(m, j)'
    BY <1>7, <1>8 DEF Users, InFlight
  <2>2. c \in Users(m, j) <=> m = n /\ j = k
    BY DEF Users, n, k
  <2>3. CASE m = n /\ j = k
    <3>1. adapter'[m].breaker[j] = b1
      BY <1>9, <2>3 DEF OnlyBreaker
    <3>2. adapter[m].breaker[j] = b
      BY <2>3
    <3> QED BY <1>4, <1>6, <1>8, <1>9, <2>1, <2>2, <2>3, <3>1, <3>2,
           SlotsFollowUsers
  <2>4. CASE ~(m = n /\ j = k)
    <3>1. adapter'[m].breaker[j] = adapter[m].breaker[j]
      BY <1>9, <2>4 DEF OnlyBreaker
    <3>2. Slots(adapter[m].breaker[j]) \in Nat
      BY <1>4, BreakersTyped, SlotsAre
    <3> QED BY <1>4, <1>8, <1>9, <2>1, <2>2, <2>4, <3>1, <3>2, SlotsFollowUsers
  <2> QED BY <2>3, <2>4
<1>13. CallEffect(c)
  <2>1. ~InFlight(c)'
    BY <1>7, <1>8 DEF InFlight
  <2>2. Served(c)
    BY <1>9, <2>1 DEF Served, Stranger, OnlyBreaker, n
  <2> QED BY <1>8, <1>9, <1>10, <1>11, <1>12, <2>2 DEF CallEffect
<1>14. adapter'[n].breaker[k] = b1
  BY <1>3, <1>9 DEF OnlyBreaker
<1> QED BY <1>8, <1>13, <1>14 DEF n, k, s, b1

\* _select_key answers with a node of the adapter: the master for a write, and
\* else the master or a replica whose breaker allows calls.
LEMMA SelectIs ==
    ASSUME AdaptersTyped, NEW n \in Names, NEW kind
    PROVE  /\ SelectKey(n, kind) \in Keys[n]
           /\ Drawn(n, kind) \in Turns(n)
           /\ kind # "read" => SelectKey(n, kind) = Master[n]
           /\ AllowsCalls(adapter[n].breaker[SelectKey(n, kind)])
                 \/ SelectKey(n, kind) = Master[n]
<1>1. adapter[n].turn \in Turns(n) /\ Master[n] \in Keys[n]
  BY BreakersTyped, NodesAre
<1>2. CASE ~ReadsReplicas(n, kind)
  BY <1>1, <1>2 DEF SelectKey, Drawn
<1>3. CASE ReadsReplicas(n, kind)
  <2>1. Replicas[n] # {} /\ kind = "read"
    BY <1>3 DEF ReadsReplicas
  <2>2. /\ adapter[n].turn[1] \in Replicas[n]
        /\ NextTurn(n, adapter[n].turn) \in Turns(n)
    BY <1>1, <2>1, TurnsAre
  <2>3. Nodes[n][adapter[n].turn[1]].key \in Keys[n]
    BY <2>2, NodesAre
  <2> QED BY <1>1, <1>3, <2>1, <2>2, <2>3 DEF SelectKey, Drawn
<1> QED BY <1>2, <1>3

-----------------------------------------------------------------------------
(* The steps of a call, one by one. *)

\* The call as it enters its next attempt.
Entering(r, kind, k) ==
    [r EXCEPT !.kind = kind, !.attempt = @ + 1, !.key = k,
              !.error = NoError, !.hit = FALSE, !.masked = FALSE]

\* The call as it is at later awaits of its block.
At(r, pc) == [r EXCEPT !.pc = pc]
AtWith(r, pc, error) == [r EXCEPT !.pc = pc, !.error = error]
AtHit(r, pc, error, hit) == [r EXCEPT !.pc = pc, !.error = error, !.hit = hit]
AtMasked(r, pc, error) == [r EXCEPT !.pc = pc, !.error = error, !.masked = TRUE]
Hit(r, hit) == [r EXCEPT !.hit = hit]
Masked(r) == [r EXCEPT !.masked = TRUE]

\* The fields of each.
LEMMA StepsAre ==
    ASSUME NEW r \in Call
    PROVE  /\ \A kind, k : Entering(r, kind, k) =
                    Made(r.pc, kind, r.on, k, r.attempt + 1, NoError, FALSE, FALSE)
           /\ \A pc : At(r, pc) =
                    Made(pc, r.kind, r.on, r.key, r.attempt, r.error, r.hit, r.masked)
           /\ \A pc, e : AtWith(r, pc, e) =
                    Made(pc, r.kind, r.on, r.key, r.attempt, e, r.hit, r.masked)
           /\ \A pc, e, h : AtHit(r, pc, e, h) =
                    Made(pc, r.kind, r.on, r.key, r.attempt, e, h, r.masked)
           /\ \A pc, e : AtMasked(r, pc, e) =
                    Made(pc, r.kind, r.on, r.key, r.attempt, e, r.hit, TRUE)
           /\ \A h : Hit(r, h) =
                    Made(r.pc, r.kind, r.on, r.key, r.attempt, r.error, h, r.masked)
           /\ Masked(r) =
                    Made(r.pc, r.kind, r.on, r.key, r.attempt, r.error, r.hit, TRUE)
<1>1. r = Made(r.pc, r.kind, r.on, r.key, r.attempt, r.error, r.hit, r.masked)
  BY CallIs DEF Made
<1>2. \A kind, k : Entering(r, kind, k) =
        SetMasked(SetHit(SetError(SetKey(SetAttempt(SetKind(r, kind),
            r.attempt + 1), k), NoError), FALSE), FALSE)
  BY DEF Entering, SetMasked, SetHit, SetError, SetKey, SetAttempt, SetKind
<1>3. \A pc : At(r, pc) = SetPc(r, pc)
  BY DEF At, SetPc
<1>4. \A pc, e : AtWith(r, pc, e) = SetError(SetPc(r, pc), e)
  BY DEF AtWith, SetError, SetPc
<1>5. \A pc, e, h : AtHit(r, pc, e, h) = SetHit(SetError(SetPc(r, pc), e), h)
  BY DEF AtHit, SetHit, SetError, SetPc
<1>6. \A pc, e : AtMasked(r, pc, e) = SetMasked(SetError(SetPc(r, pc), e), TRUE)
  BY DEF AtMasked, SetMasked, SetError, SetPc
<1>7. \A h : Hit(r, h) = SetHit(r, h)
  BY DEF Hit, SetHit
<1>8. Masked(r) = SetMasked(r, TRUE)
  BY DEF Masked, SetMasked
<1>9. \A kind, k : Entering(r, kind, k) =
                    Made(r.pc, kind, r.on, k, r.attempt + 1, NoError, FALSE, FALSE)
  <2>1. \A kind, k, h, m :
           SetMasked(SetHit(SetError(SetKey(SetAttempt(SetKind(r, kind),
               r.attempt + 1), k), NoError), h), m) =
                    Made(r.pc, kind, r.on, k, r.attempt + 1, NoError, h, m)
    BY <1>1, Setters
  <2> SUFFICES ASSUME NEW kind, NEW k
               PROVE  Entering(r, kind, k) =
                        Made(r.pc, kind, r.on, k, r.attempt + 1, NoError, FALSE, FALSE)
    BY Zenon
  <2>2. SetMasked(SetHit(SetError(SetKey(SetAttempt(SetKind(r, kind),
               r.attempt + 1), k), NoError), FALSE), FALSE) =
                    Made(r.pc, kind, r.on, k, r.attempt + 1, NoError, FALSE, FALSE)
    BY Zenon, <2>1
  <2>3. Entering(r, kind, k) =
          SetMasked(SetHit(SetError(SetKey(SetAttempt(SetKind(r, kind),
               r.attempt + 1), k), NoError), FALSE), FALSE)
    BY Zenon, <1>2
  <2> QED BY Zenon, <2>2, <2>3
<1>10. \A pc : At(r, pc) =
                    Made(pc, r.kind, r.on, r.key, r.attempt, r.error, r.hit, r.masked)
  BY <1>1, <1>3, Setters
<1>11. \A pc, e : AtWith(r, pc, e) =
                    Made(pc, r.kind, r.on, r.key, r.attempt, e, r.hit, r.masked)
  BY <1>1, <1>4, Setters
<1>12. \A pc, e, h : AtHit(r, pc, e, h) =
                    Made(pc, r.kind, r.on, r.key, r.attempt, e, h, r.masked)
  BY <1>1, <1>5, Setters
<1>13. \A pc, e : AtMasked(r, pc, e) =
                    Made(pc, r.kind, r.on, r.key, r.attempt, e, r.hit, TRUE)
  <2>1. \A pc, e, m : SetMasked(SetError(SetPc(r, pc), e), m) =
                    Made(pc, r.kind, r.on, r.key, r.attempt, e, r.hit, m)
    BY <1>1, Setters
  <2> QED BY Zenon, <1>6, <2>1
<1>14. \A h : Hit(r, h) =
                    Made(r.pc, r.kind, r.on, r.key, r.attempt, r.error, h, r.masked)
  BY <1>1, <1>7, Setters
<1>15. Masked(r) =
                    Made(r.pc, r.kind, r.on, r.key, r.attempt, r.error, r.hit, TRUE)
  <2>1. \A m : SetMasked(r, m) =
                    Made(r.pc, r.kind, r.on, r.key, r.attempt, r.error, r.hit, m)
    BY <1>1, Setters
  <2> QED BY Zenon, <1>8, <2>1
<1> QED BY <1>9, <1>10, <1>11, <1>12, <1>13, <1>14, <1>15

\* A call that enters its next attempt is a call.
LEMMA EnteringMade ==
    ASSUME NEW pc \in CallPc, NEW kind \in {"read", "boundRead", "write"},
           NEW on \in Names, NEW key \in AllKeys \cup {NoKey}, NEW attempt
               \in 0..MaxAttempts
    PROVE  Made(pc, kind, on, key, attempt, NoError, FALSE, FALSE) \in Call
BY SMT DEF Made, Call, CallPc

\* Choosing a node and entering its breaker.
LEMMA AcquireKeeps ==
    ASSUME CallsTyped, CallsKept, SlotsHeld, NEW c \in Callers,
           NEW kind \in {"read", "boundRead", "write"},
           \/ call[c].pc = "enter"
           \/ call[c].pc = "backoff" /\ kind = "read",
           Acquire(c, kind)
    PROVE  /\ CallEffect(c)
           /\ call'[c].pc \in {"body", "backoff", "done"}
           /\ call'[c].kind = kind
           /\ call'[c].error = "CircuitBreakerOpenError" =>
                 ~Admits(adapter[call[c].on].breaker[SelectKey(call[c].on, kind)])
<1> DEFINE n == call[c].on
           k == SelectKey(n, kind)
           b == adapter[n].breaker[k]
           r == Entering(call[c], kind, k)
<1>1. call[c] \in Call /\ CallKept(call[c])
  BY DEF CallsTyped, CallsKept
<1>2. n \in Names
  BY <1>1, CallIs
<1>3. AdaptersTyped /\ PoolsTyped
  BY DEF CallsTyped
<1>4. k \in Keys[n] /\ Drawn(n, kind) \in Turns(n)
  BY <1>2, <1>3, SelectIs
<1>5. b \in Breaker
  BY <1>2, <1>3, <1>4, BreakersTyped
<1>6. /\ call[c].attempt \in Nat /\ call[c].attempt < MaxAttempts
      /\ call[c].attempt + 1 > 1 => kind = "read"
      /\ MaxAttempts \in Nat
  <2>1. call[c].attempt \in Nat /\ MaxAttempts \in Nat \ {0}
    BY <1>1, CallIs, AdaptersAssumption DEF AdaptersAssumption
  <2>2. CASE call[c].pc = "enter"
    BY <1>1, <2>1, <2>2 DEF CallKept
  <2>3. CASE call[c].pc = "backoff" /\ kind = "read"
    BY <1>1, <2>1, <2>3 DEF CallKept, Retries
  <2> QED BY <2>1, <2>2, <2>3
<1>7. r = Made(call[c].pc, kind, n, k, call[c].attempt + 1, NoError, FALSE, FALSE)
  BY <1>1, StepsAre
<1>8. k \in AllKeys \cup {NoKey} /\ call[c].attempt + 1 \in 0..MaxAttempts
  BY <1>2, <1>4, <1>6, NodesAre
<1>9. call[c].pc \in CallPc
  BY <1>1, CallIs
<1>21. "body" \in CallPc
  BY DEF CallPc
<1>10. r \in Call
  BY Zenon, <1>2, <1>7, <1>8, <1>9, EnteringMade
<1>11. ~InFlight(c) /\ \A m, j : c \notin Users(m, j)
  BY DEF InFlight, Users
<1>12. /\ UNCHANGED faults
       /\ \/ /\ call' = [call EXCEPT ![c] = AfterAttempt(r, "ConfigurationError")]
             /\ UNCHANGED <<adapter, pool>>
          \/ /\ adapter[n].ready
             /\ Admits(b)
             /\ adapter' = [adapter EXCEPT ![n].breaker[k] = BeforeCall(b),
                                           ![n].turn = Drawn(n, kind)]
             /\ call' = [call EXCEPT ![c] = At(r, "body")]
             /\ CheckOut(n, k)
          \/ /\ ~Admits(b)
             /\ adapter' = [adapter EXCEPT ![n].turn = Drawn(n, kind)]
             /\ call' = [call EXCEPT ![c] = AfterAttempt(r, "CircuitBreakerOpenError")]
             /\ UNCHANGED pool
  BY DEF Acquire, Entering, At
<1>13. faults' \in 0..MaxFaults
  BY <1>12, FaultsStay
<1>14. r.attempt > 1 => r.kind = "read"
  BY <1>6, <1>7 DEF Made
<1>15. r.kind = kind
  BY <1>7 DEF Made
<1> HIDE DEF r, b, k, n
<1>16. ASSUME NEW error \in Errors,
              call' = [call EXCEPT ![c] = AfterAttempt(r, error)]
       PROVE  /\ call' \in [Callers -> Call] /\ CallsKept'
              /\ \A d \in Callers \ {c} : call'[d] = call[d]
              /\ call'[c].pc \in {"backoff", "done"} /\ call'[c].error = error
              /\ call'[c].kind = kind
              /\ \A m, j : Users(m, j)' = Users(m, j)
  <2> DEFINE s == AfterAttempt(r, error)
  <2>1. /\ s \in Call /\ CallKept(s) /\ s.pc \in {"backoff", "done"}
        /\ s.error = error /\ s.kind = kind
    BY <1>10, <1>14, <1>15, AfterAttemptIs
  <2>2. call' = [call EXCEPT ![c] = s]
    BY <1>16
  <2> HIDE DEF s
  <2>3. /\ call' \in [Callers -> Call] /\ call'[c] = s
        /\ CallsKept'
        /\ \A d \in Callers \ {c} : call'[d] = call[d]
    BY <2>1, <2>2, CallSet
  <2>4. \A m, j : Users(m, j)' = Users(m, j)
    BY <1>11, <2>1, <2>3 DEF Users, InFlight
  <2> QED BY <2>1, <2>3, <2>4
<1>17. CASE /\ call' = [call EXCEPT ![c] = AfterAttempt(r, "ConfigurationError")]
            /\ UNCHANGED <<adapter, pool>>
  <2>1. "ConfigurationError" \in Errors
    BY ErrorsAre DEF Errors
  <2>2. /\ call' \in [Callers -> Call] /\ CallsKept'
        /\ \A d \in Callers \ {c} : call'[d] = call[d]
        /\ call'[c].pc \in {"backoff", "done"} /\ call'[c].error = "ConfigurationError"
        /\ call'[c].kind = kind
        /\ \A m, j : Users(m, j)' = Users(m, j)
    BY <1>16, <1>17, <2>1
  <2>3. AdaptersTyped' /\ PoolsTyped' /\ ReadyKept /\ PoolsStay
    BY <1>3, <1>17 DEF AdaptersTyped, PoolsTyped, ReadyKept, PoolsStay
  <2>4. SlotsHeld'
    BY <1>17, <2>2 DEF SlotsHeld
  <2>5. Served(c)
    BY <1>17, <2>2 DEF Served, Stranger, InFlight
  <2> QED BY <1>13, <2>2, <2>3, <2>4, <2>5 DEF CallEffect
<1>18. CASE /\ ~Admits(b)
            /\ adapter' = [adapter EXCEPT ![n].turn = Drawn(n, kind)]
            /\ call' = [call EXCEPT ![c] = AfterAttempt(r, "CircuitBreakerOpenError")]
            /\ UNCHANGED pool
  <2>1. "CircuitBreakerOpenError" \in Errors
    BY ErrorsAre DEF Errors
  <2>2. /\ call' \in [Callers -> Call] /\ CallsKept'
        /\ \A d \in Callers \ {c} : call'[d] = call[d]
        /\ call'[c].pc \in {"backoff", "done"}
        /\ call'[c].kind = kind
        /\ \A m, j : Users(m, j)' = Users(m, j)
    BY <1>16, <1>18, <2>1
  <2>3. /\ AdaptersTyped' /\ ReadyKept
        /\ \A m \in Names : adapter'[m].breaker = adapter[m].breaker
    BY <1>2, <1>3, <1>4, <1>18, TurnSet
  <2>4. PoolsTyped' /\ PoolsStay
    BY <1>3, <1>18 DEF PoolsTyped, PoolsStay
  <2>5. SlotsHeld'
    BY <2>2, <2>3 DEF SlotsHeld
  <2>6. CallEffect(c)
    <3>1. Served(c)
      BY <2>2, <2>3 DEF Served, Stranger, InFlight
    <3> QED BY <1>13, <2>2, <2>3, <2>4, <2>5, <3>1 DEF CallEffect
  <2> QED BY <1>18, <2>2, <2>6 DEF b, k, n
<1>19. CASE /\ adapter[n].ready
            /\ Admits(b)
            /\ adapter' = [adapter EXCEPT ![n].breaker[k] = BeforeCall(b),
                                          ![n].turn = Drawn(n, kind)]
            /\ call' = [call EXCEPT ![c] = At(r, "body")]
            /\ CheckOut(n, k)
  <2> DEFINE s == At(r, "body")
  <2>1. s = Made("body", kind, n, k, call[c].attempt + 1, NoError, FALSE, FALSE)
    <3>1. s = Made("body", r.kind, r.on, r.key, r.attempt, r.error, r.hit, r.masked)
      BY <1>10, StepsAre
    <3> QED BY <1>7, <3>1 DEF Made
  <2>2. s \in Call
    BY Zenon, <1>2, <1>8, <1>21, <2>1, EnteringMade
  <2> HIDE DEF s
  <2>3. CallKept(s)
    BY <1>4, <1>6, <2>1 DEF CallKept, Made
  <2>4. /\ call' \in [Callers -> Call] /\ call'[c] = s
        /\ CallsKept'
        /\ \A d \in Callers \ {c} : call'[d] = call[d]
    BY <1>19, <2>2, <2>3, CallSet DEF s
  <2>5. BeforeCall(b) \in Breaker /\ Slots(BeforeCall(b)) <= Slots(b) + 1
    BY <1>5, <1>19, BreakerSteps, SlotsAre
  <2>6. AdaptersTyped' /\ ReadyKept /\ OnlyBreaker(n, k, BeforeCall(b))
    BY <1>2, <1>3, <1>4, <1>19, <2>5, BreakerAndTurnSet
  <2>7. PoolsTyped' /\ PoolsStay
    BY <1>2, <1>3, <1>4, <1>19, CheckedOut
  <2>8. SlotsHeld'
    <3> SUFFICES ASSUME NEW m \in Names, NEW j \in Keys[m], j # Master[m]
                 PROVE  Slots(adapter'[m].breaker[j]) <= Cardinality(Users(m, j)')
      BY DEF SlotsHeld
    <3>1. c \in Users(m, j)' <=> m = n /\ j = k
      BY <2>1, <2>4 DEF Users, InFlight, Made
    <3>2. CASE m = n /\ j = k
      <4>1. adapter'[m].breaker[j] = BeforeCall(b)
        BY <2>6, <3>2 DEF OnlyBreaker
      <4>2. adapter[m].breaker[j] = b
        BY <3>2 DEF b
      <4> QED BY <1>3, <1>11, <2>4, <2>5, <2>6, <3>1, <3>2, <4>1, <4>2,
             SlotsFollowUsers
    <3>3. CASE ~(m = n /\ j = k)
      <4>1. adapter'[m].breaker[j] = adapter[m].breaker[j]
        BY <2>6, <3>3 DEF OnlyBreaker
      <4>2. Slots(adapter[m].breaker[j]) \in Nat
        BY <1>3, BreakersTyped, SlotsAre
      <4> QED BY <1>3, <1>11, <2>4, <2>6, <3>1, <3>3, <4>1, <4>2,
             SlotsFollowUsers
    <3> QED BY <3>2, <3>3
  <2>9. CallEffect(c)
    <3>1. call'[c].on = n
      BY <2>1, <2>4 DEF Made
    <3>2. \A m \in Names : ~adapter[m].ready => m # n
      BY <1>19
    <3>3. \A m \in Names : m # n =>
             \A j \in Keys[m] : adapter'[m].breaker[j] = adapter[m].breaker[j]
      BY <2>6 DEF OnlyBreaker
    <3>4. \A m \in Names : m # n => Stranger(c, m)'
      BY <3>1 DEF Stranger
    <3>5. Served(c)
      BY <3>2, <3>3, <3>4 DEF Served
    <3> QED BY <1>13, <2>4, <2>6, <2>7, <2>8, <3>5 DEF CallEffect
  <2>10. call'[c].pc = "body" /\ call'[c].kind = kind /\ call'[c].error = NoError
    BY <2>1, <2>4 DEF Made
  <2>11. "CircuitBreakerOpenError" # NoError
    BY DEF NoError
  <2> QED BY <2>9, <2>10, <2>11
<1> QED BY <1>12, <1>17, <1>18, <1>19

\* OutageCounted and RefusalsExplained, of one call.
Counted(c) ==
    AttemptEnds(c) /\ ~call'[c].masked =>
        LET b  == adapter[call[c].on].breaker[call[c].key]
            b1 == adapter'[call[c].on].breaker[call[c].key]
        IN  b1 = IF call'[c].hit THEN OnFailure(b) ELSE OnSuccess(b)

Explained(c) ==
    call[c].pc \in {"enter", "backoff"}
        /\ call'[c].error = "CircuitBreakerOpenError" =>
            LET n == call[c].on
                k == SelectKey(n, "read")
            IN  \/ ~Admits(adapter[n].breaker[Master[n]])
                \/ /\ call'[c].kind = "read"
                   /\ adapter[n].breaker[k].state = "HALF_OPEN"
                   /\ \E d \in Callers \ {c} :
                          InFlight(d) /\ call[d].on = n /\ call[d].key = k

\* What a step of c establishes.
StepKeeps(c) == CallEffect(c) /\ Counted(c) /\ Explained(c)

\* A refusal of a replica means that a probe slot is taken.
LEMMA RefusalIs ==
    ASSUME CallsTyped, SlotsHeld, NEW c \in Callers, ~InFlight(c),
           NEW n \in Names, NEW kind,
           ~Admits(adapter[n].breaker[SelectKey(n, kind)])
    PROVE  LET k == SelectKey(n, "read")
           IN  \/ ~Admits(adapter[n].breaker[Master[n]])
               \/ /\ kind = "read"
                  /\ adapter[n].breaker[k].state = "HALF_OPEN"
                  /\ \E d \in Callers \ {c} :
                         InFlight(d) /\ call[d].on = n /\ call[d].key = k
<1> DEFINE k == SelectKey(n, "read")
           b == adapter[n].breaker[k]
<1>1. AdaptersTyped
  BY DEF CallsTyped
<1>2. CASE SelectKey(n, kind) = Master[n]
  BY <1>2
<1>3. CASE SelectKey(n, kind) # Master[n]
  <2>1. kind = "read" /\ k \in Keys[n] /\ k # Master[n] /\ AllowsCalls(b)
    BY <1>1, <1>3, SelectIs
  <2>2. b \in Breaker
    BY <1>1, <2>1, BreakersTyped
  <2>3. ~Admits(b)
    BY <2>1
  <2> HIDE DEF k
  <2>4. b.state = "HALF_OPEN"
    BY <2>1, <2>3 DEF Admits
  <2>5. Slots(b) \in Nat /\ Slots(b) > 0
    BY <2>2, <2>3, <2>4, SlotsAre
  <2>6. Slots(b) <= Cardinality(Users(n, k))
    BY <2>1 DEF SlotsHeld
  <2>7. IsFiniteSet(Users(n, k)) /\ Cardinality(Users(n, k)) \in Nat
    BY UsersFinite
  <2>8. Users(n, k) # {}
    BY <2>5, <2>6, <2>7, FS_EmptySet
  <2>9. PICK d : d \in Users(n, k)
    BY <2>8
  <2>10. d \in Callers \ {c} /\ InFlight(d) /\ call[d].on = n /\ call[d].key = k
    BY <2>9 DEF Users
  <2> QED BY <2>1, <2>4, <2>10 DEF k
<1> QED BY <1>2, <1>3

\* acquire() is entered, for the first time or after a wait.
LEMMA EnterKeeps ==
    ASSUME CallsTyped, CallsKept, SlotsHeld, NEW c \in Callers, Enter(c) \/ Retry(c)
    PROVE  StepKeeps(c) /\ call[c].pc # "idle" /\ call'[c].pc # "idle"
<1>1. PICK kind \in {"read", "boundRead", "write"} :
         /\ Acquire(c, kind)
         /\ \/ call[c].pc = "enter"
            \/ call[c].pc = "backoff" /\ kind = "read"
  <2>1. CASE Enter(c)
    <3>1. call[c].pc = "enter"
      BY <2>1 DEF Enter
    <3>2. PICK kind \in {"read", "boundRead", "write"} : Acquire(c, kind)
      BY <2>1 DEF Enter
    <3> QED BY Zenon, <3>1, <3>2
  <2>2. CASE Retry(c)
    <3>1. call[c].pc = "backoff" /\ Acquire(c, "read")
      BY <2>2 DEF Retry
    <3> QED BY Zenon, <3>1
  <2> QED BY <2>1, <2>2
<1>2. /\ CallEffect(c)
      /\ call'[c].pc \in {"body", "backoff", "done"}
      /\ call'[c].kind = kind
      /\ call'[c].error = "CircuitBreakerOpenError" =>
             ~Admits(adapter[call[c].on].breaker[SelectKey(call[c].on, kind)])
  BY <1>1, AcquireKeeps
<1>3. ~InFlight(c) /\ call[c].on \in Names
  <2>1. call[c] \in Call
    BY DEF CallsTyped
  <2> QED BY <1>1, <2>1, CallIs DEF InFlight
<1>4. Counted(c)
  BY <1>1 DEF Counted, AttemptEnds
<1>5. Explained(c)
  BY <1>2, <1>3, RefusalIs DEF Explained
<1> QED BY <1>1, <1>2, <1>4, <1>5 DEF StepKeeps

\* A call in its block, and one that leaves it.
LEMMA InBlock ==
    ASSUME CallsTyped, CallsKept, NEW c \in Callers, InFlight(c)
    PROVE  /\ call[c] \in Call /\ CallKept(call[c])
           /\ call[c].attempt > 1 => call[c].kind = "read"
           /\ call[c].on \in Names /\ call[c].key \in Keys[call[c].on]
           /\ adapter[call[c].on].breaker[call[c].key] \in Breaker
<1>1. call[c] \in Call /\ CallKept(call[c]) /\ AdaptersTyped
  BY DEF CallsTyped, CallsKept
<1>2. call[c].on \in Names /\ call[c].key \in Keys[call[c].on]
  BY <1>1, CallIs DEF CallKept, InFlight
<1> QED BY <1>1, <1>2, BreakersTyped DEF CallKept

\* A call leaves its block with the error it ends in, or none.
LEMMA LeaveSteps ==
    ASSUME CallsTyped, CallsKept, SlotsHeld, NEW c \in Callers, InFlight(c),
           NEW r \in Call, NEW error \in Errors \cup {NoError, Cancelled},
           r.attempt = call[c].attempt, r.kind = call[c].kind,
           Leave(c, r, error), Fails \/ UNCHANGED faults,
           \/ r.masked
           \/ error = NoError /\ ~r.hit
           \/ error \in Errors /\ (Infrastructure(error) <=> r.hit)
    PROVE  StepKeeps(c) /\ call'[c].pc # "idle"
<1>1. /\ call[c].attempt > 1 => call[c].kind = "read"
      /\ adapter[call[c].on].breaker[call[c].key] \in Breaker
  BY InBlock
<1>2. /\ CallEffect(c)
      /\ call'[c] = AfterAttempt(r, error)
      /\ adapter'[call[c].on].breaker[call[c].key] =
           Reported(adapter[call[c].on].breaker[call[c].key], error,
                    INFRASTRUCTURE_FAILURES)
  BY <1>1, LeaveKeeps
<1>3. /\ call'[c].pc \in {"backoff", "done"}
      /\ call'[c].hit = r.hit /\ call'[c].masked = r.masked
  BY <1>1, <1>2, AfterAttemptIs
<1>4. Counted(c)
  <2> DEFINE b == adapter[call[c].on].breaker[call[c].key]
             b1 == adapter'[call[c].on].breaker[call[c].key]
  <2> SUFFICES ASSUME ~r.masked
               PROVE  b1 = IF r.hit THEN OnFailure(b) ELSE OnSuccess(b)
    BY <1>3 DEF Counted
  <2>1. b1 = Reported(b, error, INFRASTRUCTURE_FAILURES) /\ b \in Breaker
    BY <1>1, <1>2
  <2> HIDE DEF b, b1
  <2>2. CASE error = NoError /\ ~r.hit
    <3>1. b1 = OnSuccess(b)
      BY <2>1, <2>2, ReportedIs
    <3> QED BY <2>2, <3>1
  <2>3. CASE error \in Errors /\ (Infrastructure(error) <=> r.hit)
    <3>1. b1 = IF Infrastructure(error) THEN OnFailure(b) ELSE OnSuccess(b)
      BY <2>1, <2>3, ReportedIs DEF Infrastructure
    <3> QED BY <2>3, <3>1
  <2> QED BY <2>2, <2>3
<1>5. Explained(c)
  BY DEF Explained, InFlight
<1> QED BY <1>2, <1>3, <1>4, <1>5 DEF StepKeeps

\* A step inside the block.
LEMMA MoveSteps ==
    ASSUME CallsTyped, CallsKept, SlotsHeld, NEW c \in Callers, InFlight(c),
           NEW r \in Call, Move(c, r), Fails \/ UNCHANGED faults, CallKept(r),
           r.on = call[c].on, r.key = call[c].key,
           r.pc \in {"commit", "rollback", "close"}
    PROVE  StepKeeps(c) /\ call'[c].pc # "idle"
<1>1. CallEffect(c)
  <2>1. r.pc \in {"body", "commit", "rollback", "close"} <=> InFlight(c)
    OBVIOUS
  <2>2. \/ r.on = call[c].on /\ r.key = call[c].key
        \/ r.pc \in {"backoff", "done"} /\ ~InFlight(c)
    OBVIOUS
  <2>3. Fails \/ UNCHANGED faults
    OBVIOUS
  <2> QED BY Zenon, <2>1, <2>2, <2>3, MoveKeeps
<1>2. call'[c] = r
  <2>1. call' = [call EXCEPT ![c] = r]
    BY DEF Move
  <2> QED BY <2>1, CallSet
<1>3. Counted(c) /\ Explained(c)
  BY <1>2 DEF Counted, Explained, AttemptEnds, InFlight
<1> QED BY <1>1, <1>2, <1>3 DEF StepKeeps

\* A call struck by a driver's error.
Struck(r, error) == [r EXCEPT !.hit = error \in Recognized]

\* The fields of such a call.
LEMMA StruckIs ==
    ASSUME NEW r \in Call, NEW error
    PROVE  LET s == Struck(r, error)
           IN  /\ s \in Call
               /\ s.pc = r.pc /\ s.kind = r.kind /\ s.on = r.on /\ s.key = r.key
               /\ s.attempt = r.attempt /\ s.error = r.error /\ s.masked = r.masked
               /\ s.hit <=> error \in Recognized
<1>1. /\ r.error \in Errors \cup {NoError, Cancelled}
      /\ r.masked \in BOOLEAN /\ r.pc \in CallPc
  BY CallIs
<1>2. CASE error \in Recognized
  <2>1. Struck(r, error) = Hit(r, TRUE)
    BY Zenon, <1>2 DEF Struck, Hit
  <2>2. Hit(r, TRUE) = Made(r.pc, r.kind, r.on, r.key, r.attempt, r.error, TRUE, r.masked)
    BY Zenon, StepsAre
  <2>3. Struck(r, error) =
            Made(r.pc, r.kind, r.on, r.key, r.attempt, r.error, TRUE, r.masked)
    BY Zenon, <2>1, <2>2
  <2>4. Struck(r, error) \in Call
    BY SMT, <1>1, <2>3 DEF Made, Call, CallPc
  <2> QED BY <1>2, <2>3, <2>4 DEF Made
<1>3. CASE error \notin Recognized
  <2>5. (error \in Recognized) = FALSE
    BY <1>3
  <2>1. Struck(r, error) = Hit(r, FALSE)
    BY Zenon, <2>5 DEF Struck, Hit
  <2>2. Hit(r, FALSE) = Made(r.pc, r.kind, r.on, r.key, r.attempt, r.error, FALSE, r.masked)
    BY Zenon, StepsAre
  <2>3. Struck(r, error) =
            Made(r.pc, r.kind, r.on, r.key, r.attempt, r.error, FALSE, r.masked)
    BY Zenon, <2>1, <2>2
  <2>4. Struck(r, error) \in Call
    BY SMT, <1>1, <2>3 DEF Made, Call, CallPc
  <2> QED BY <1>3, <2>3, <2>4 DEF Made
<1> QED BY <1>2, <1>3

\* What the steps inside a block make of a call.
LEMMA BlockSteps ==
    ASSUME NEW r \in Call, NEW pc \in {"commit", "rollback", "close"},
           NEW error \in Errors \cup {NoError, Cancelled}
    PROVE  /\ At(r, pc) \in Call
           /\ At(r, pc).pc = pc /\ At(r, pc).kind = r.kind /\ At(r, pc).on = r.on
           /\ At(r, pc).key = r.key /\ At(r, pc).attempt = r.attempt
           /\ At(r, pc).error = r.error /\ At(r, pc).hit = r.hit
           /\ At(r, pc).masked = r.masked
           /\ AtWith(r, pc, error) \in Call
           /\ AtWith(r, pc, error).pc = pc /\ AtWith(r, pc, error).kind = r.kind
           /\ AtWith(r, pc, error).on = r.on /\ AtWith(r, pc, error).key = r.key
           /\ AtWith(r, pc, error).attempt = r.attempt
           /\ AtWith(r, pc, error).error = error /\ AtWith(r, pc, error).hit = r.hit
           /\ AtWith(r, pc, error).masked = r.masked
           /\ AtMasked(r, pc, error) \in Call
           /\ AtMasked(r, pc, error).pc = pc /\ AtMasked(r, pc, error).kind = r.kind
           /\ AtMasked(r, pc, error).on = r.on /\ AtMasked(r, pc, error).key = r.key
           /\ AtMasked(r, pc, error).attempt = r.attempt
           /\ AtMasked(r, pc, error).error = error
           /\ AtMasked(r, pc, error).masked
           /\ Masked(r) \in Call
           /\ Masked(r).attempt = r.attempt /\ Masked(r).kind = r.kind
           /\ Masked(r).masked
<1>1. pc \in CallPc
  BY DEF CallPc
<1>2. /\ r.error \in Errors \cup {NoError, Cancelled} /\ r.hit \in BOOLEAN
      /\ r.masked \in BOOLEAN /\ r.pc \in CallPc
  BY CallIs
<1>3. At(r, pc) = Made(pc, r.kind, r.on, r.key, r.attempt, r.error, r.hit, r.masked)
  BY StepsAre
<1>4. AtWith(r, pc, error) =
          Made(pc, r.kind, r.on, r.key, r.attempt, error, r.hit, r.masked)
  BY StepsAre
<1>5. AtMasked(r, pc, error) =
          Made(pc, r.kind, r.on, r.key, r.attempt, error, r.hit, TRUE)
  BY Zenon, StepsAre
<1>6. Masked(r) = Made(r.pc, r.kind, r.on, r.key, r.attempt, r.error, r.hit, TRUE)
  BY Zenon, StepsAre
<1>7. At(r, pc) \in Call
  BY SMT, <1>1, <1>2, <1>3 DEF Made, Call, CallPc
<1>8. AtWith(r, pc, error) \in Call
  BY SMT, <1>1, <1>2, <1>4 DEF Made, Call, CallPc
<1>9. AtMasked(r, pc, error) \in Call
  BY SMT, <1>1, <1>2, <1>5 DEF Made, Call, CallPc
<1>10. Masked(r) \in Call
  BY SMT, <1>1, <1>2, <1>6 DEF Made, Call, CallPc
<1> QED BY <1>3, <1>4, <1>5, <1>6, <1>7, <1>8, <1>9, <1>10 DEF Made

\* A call at an await of its block is in flight, and typed.
LEMMA Blocked ==
    ASSUME CallsTyped, CallsKept, NEW c \in Callers,
           call[c].pc \in {"body", "commit", "rollback", "close"}
    PROVE  InFlight(c) /\ call[c] \in Call /\ CallKept(call[c])
           /\ call[c].key \in Keys[call[c].on]
           /\ call[c].attempt \in Nat /\ call[c].on \in Names
<1>1. InFlight(c)
  BY DEF InFlight
<1>2. call[c] \in Call
  BY DEF CallsTyped
<1> QED BY <1>1, <1>2, InBlock, CallIs

\* The body returns.
LEMMA BodyOkKeeps ==
    ASSUME CallsTyped, CallsKept, SlotsHeld, NEW c \in Callers, BodyOk(c)
    PROVE  StepKeeps(c) /\ call[c].pc # "idle" /\ call'[c].pc # "idle"
<1>1. call[c].pc = "body" /\ UNCHANGED faults
  BY DEF BodyOk
<1>2. InFlight(c) /\ call[c] \in Call /\ CallKept(call[c])
  BY <1>1, Blocked
<1>3. CASE OwnsSession(call[c]) /\ Move(c, At(call[c], "commit"))
  <2> DEFINE s == At(call[c], "commit")
  <2>1. /\ s \in Call /\ s.pc = "commit" /\ s.kind = call[c].kind /\ s.on = call[c].on
        /\ s.key = call[c].key /\ s.attempt = call[c].attempt
        /\ s.error = call[c].error /\ s.hit = call[c].hit /\ s.masked = call[c].masked
    BY <1>2, BlockSteps
  <2> HIDE DEF s
  <2>2. CallKept(s)
    BY <1>1, <1>2, <1>3, <2>1 DEF CallKept, OwnsSession
  <2>3. Move(c, s)
    BY <1>3 DEF s
  <2> QED BY <1>1, <1>2, <2>1, <2>2, <2>3, MoveSteps
<1>4. CASE Leave(c, call[c], NoError)
  <2>1. ~call[c].hit
    BY <1>1, <1>2 DEF CallKept
  <2> QED BY <1>1, <1>2, <1>4, <2>1, LeaveSteps
<1> QED BY <1>3, <1>4 DEF BodyOk, At

\* The body raises a driver's error.
LEMMA BodyRaisesKeeps ==
    ASSUME CallsTyped, CallsKept, SlotsHeld, NEW c \in Callers, BodyRaises(c)
    PROVE  StepKeeps(c) /\ call[c].pc # "idle" /\ call'[c].pc # "idle"
<1>1. PICK error \in Raises[Kind[call[c].on]] :
         /\ call[c].pc = "body" /\ Fails
         /\ IF OwnsSession(Struck(call[c], error))
            THEN Move(c, AtWith(Struck(call[c], error), "rollback", Raised(error)))
            ELSE Leave(c, Struck(call[c], error), Raised(error))
  BY DEF BodyRaises, Struck, AtWith
<1>2. InFlight(c) /\ call[c] \in Call /\ CallKept(call[c])
      /\ call[c].key \in Keys[call[c].on] /\ call[c].on \in Names
  BY <1>1, Blocked
<1>3. error \in DriverErrors
  BY <1>1, <1>2, RaisesAre
<1>4. Raised(error) \in Errors /\ (Infrastructure(Raised(error)) <=> error \in Recognized)
  BY <1>3, RaisedIs
<1> DEFINE r == Struck(call[c], error)
<1>5. /\ r \in Call
      /\ r.pc = "body" /\ r.kind = call[c].kind /\ r.on = call[c].on /\ r.key = call[c].key
      /\ r.attempt = call[c].attempt /\ r.error = call[c].error
      /\ r.masked = call[c].masked
      /\ r.hit <=> error \in Recognized
  BY <1>1, <1>2, StruckIs
<1>6. CASE OwnsSession(r) /\ Move(c, AtWith(r, "rollback", Raised(error)))
  <2> DEFINE e == Raised(error)
             s == AtWith(r, "rollback", e)
  <2>5. e \in Errors \cup {NoError, Cancelled}
    BY <1>4
  <2> HIDE DEF r, e
  <2>1. /\ s \in Call /\ s.pc = "rollback" /\ s.kind = call[c].kind /\ s.on = call[c].on
        /\ s.key = call[c].key /\ s.attempt = call[c].attempt
        /\ s.error = e /\ s.hit = r.hit /\ s.masked = call[c].masked
    BY <1>5, <2>5, BlockSteps
  <2> HIDE DEF s
  <2>2. CallKept(s)
    <3>1. OwnsSession(s)
      BY <1>5, <1>6, <2>1 DEF OwnsSession
    <3>2. s.error \in Errors /\ (Infrastructure(s.error) <=> s.hit) /\ ~s.masked
      BY <1>1, <1>2, <1>4, <1>5, <2>1 DEF CallKept, e
    <3> QED BY <1>1, <1>2, <2>1, <3>1, <3>2 DEF CallKept
  <2>3. Move(c, s)
    BY <1>6 DEF s, e
  <2>4. Fails \/ UNCHANGED faults
    BY <1>1
  <2> QED BY <1>1, <1>2, <2>1, <2>2, <2>3, <2>4, MoveSteps
<1>7. CASE Leave(c, r, Raised(error))
  <2> HIDE DEF r
  <2>1. Fails \/ UNCHANGED faults
    BY <1>1
  <2>2. Raised(error) \in Errors /\ (Infrastructure(Raised(error)) <=> r.hit)
    BY <1>4, <1>5
  <2> QED BY <1>1, <1>2, <1>5, <1>7, <2>1, <2>2, LeaveSteps
<1> QED BY <1>1, <1>6, <1>7

\* A call that goes on with an error of its own, struck by a driver's error.
StruckAt(r, pc, e, error) ==
    [r EXCEPT !.pc = pc, !.error = e, !.hit = error \in Recognized]

\* The fields of such a call.
LEMMA StruckAtIs ==
    ASSUME NEW r \in Call, NEW pc \in {"commit", "rollback", "close"},
           NEW e \in Errors \cup {NoError, Cancelled}, NEW error
    PROVE  LET s == StruckAt(r, pc, e, error)
           IN  /\ s \in Call
               /\ s.pc = pc /\ s.kind = r.kind /\ s.on = r.on /\ s.key = r.key
               /\ s.attempt = r.attempt /\ s.error = e /\ s.masked = r.masked
               /\ s.hit <=> error \in Recognized
<1>1. r.masked \in BOOLEAN /\ pc \in CallPc
  BY CallIs DEF CallPc
<1>2. CASE error \in Recognized
  <2>1. (error \in Recognized) = TRUE
    BY <1>2
  <2>2. StruckAt(r, pc, e, error) = AtHit(r, pc, e, TRUE)
    BY Zenon, <2>1 DEF StruckAt, AtHit
  <2>3. AtHit(r, pc, e, TRUE) = Made(pc, r.kind, r.on, r.key, r.attempt, e, TRUE, r.masked)
    BY ZenonT(60), StepsAre
  <2>4. StruckAt(r, pc, e, error) =
            Made(pc, r.kind, r.on, r.key, r.attempt, e, TRUE, r.masked)
    BY Zenon, <2>2, <2>3
  <2>5. StruckAt(r, pc, e, error) \in Call
    BY SMT, <1>1, <2>4 DEF Made, Call, CallPc
  <2> QED BY <1>2, <2>4, <2>5 DEF Made
<1>3. CASE error \notin Recognized
  <2>1. (error \in Recognized) = FALSE
    BY <1>3
  <2>2. StruckAt(r, pc, e, error) = AtHit(r, pc, e, FALSE)
    BY Zenon, <2>1 DEF StruckAt, AtHit
  <2>3. AtHit(r, pc, e, FALSE)
            = Made(pc, r.kind, r.on, r.key, r.attempt, e, FALSE, r.masked)
    BY ZenonT(60), StepsAre
  <2>4. StruckAt(r, pc, e, error) =
            Made(pc, r.kind, r.on, r.key, r.attempt, e, FALSE, r.masked)
    BY Zenon, <2>2, <2>3
  <2>5. StruckAt(r, pc, e, error) \in Call
    BY SMT, <1>1, <2>4 DEF Made, Call, CallPc
  <2> QED BY <1>3, <2>4, <2>5 DEF Made
<1> QED BY <1>2, <1>3

\* A session that is closed after its clean-up failed or was cut short.
LEMMA MaskedMoves ==
    ASSUME CallsTyped, CallsKept, SlotsHeld, NEW c \in Callers, InFlight(c),
           OwnsSession(call[c]), NEW error \in Errors \cup {NoError, Cancelled},
           Fails, Move(c, AtMasked(call[c], "close", error))
    PROVE  StepKeeps(c) /\ call'[c].pc # "idle"
<1> DEFINE s == AtMasked(call[c], "close", error)
<1>1. call[c] \in Call /\ CallKept(call[c]) /\ call[c].key \in Keys[call[c].on]
      /\ call[c].attempt \in Nat
  BY Blocked DEF InFlight
<1>2. /\ s \in Call /\ s.pc = "close" /\ s.kind = call[c].kind /\ s.on = call[c].on
      /\ s.key = call[c].key /\ s.attempt = call[c].attempt
      /\ s.error = error /\ s.masked
  BY <1>1, BlockSteps
<1>3. Move(c, s)
  OBVIOUS
<1> HIDE DEF s
<1>4. CallKept(s)
  BY <1>1, <1>2 DEF CallKept, OwnsSession, InFlight
<1>5. Fails \/ UNCHANGED faults
  OBVIOUS
<1> QED BY <1>2, <1>3, <1>4, <1>5, MoveSteps

\* The commit, which may fail; the session is closed after both.
LEMMA CommitKeeps ==
    ASSUME CallsTyped, CallsKept, SlotsHeld, NEW c \in Callers,
           CommitOk(c) \/ CommitRaises(c)
    PROVE  StepKeeps(c) /\ call[c].pc # "idle" /\ call'[c].pc # "idle"
<1>1. call[c].pc = "commit"
  BY DEF CommitOk, CommitRaises
<1>2. InFlight(c) /\ call[c] \in Call /\ CallKept(call[c])
      /\ call[c].key \in Keys[call[c].on] /\ call[c].on \in Names
      /\ OwnsSession(call[c]) /\ ~call[c].masked /\ ~call[c].hit
      /\ call[c].error = NoError
  BY <1>1, Blocked DEF CallKept
<1>3. CASE CommitOk(c)
  <2> DEFINE s == At(call[c], "close")
  <2>1. /\ s \in Call /\ s.pc = "close" /\ s.kind = call[c].kind /\ s.on = call[c].on
        /\ s.key = call[c].key /\ s.attempt = call[c].attempt
        /\ s.error = call[c].error /\ s.hit = call[c].hit /\ s.masked = call[c].masked
    BY <1>2, BlockSteps
  <2>2. Move(c, s) /\ UNCHANGED faults
    BY <1>3 DEF CommitOk, At
  <2> HIDE DEF s
  <2>3. CallKept(s)
    BY <1>1, <1>2, <2>1 DEF CallKept, OwnsSession
  <2> QED BY <1>1, <1>2, <2>1, <2>2, <2>3, MoveSteps
<1>4. CASE CommitRaises(c)
  <2>1. PICK error \in Raises["relational"] :
           Fails /\ Move(c, [call[c] EXCEPT !.pc = "close", !.error = Raised(error),
                                   !.hit = error \in Recognized])
    BY <1>4 DEF CommitRaises
  <2> DEFINE e == Raised(error)
             s == StruckAt(call[c], "close", e, error)
  <2>3. error \in DriverErrors
    BY <2>1, RaisesAre
  <2>4. e \in Errors /\ (Infrastructure(e) <=> error \in Recognized)
    BY <2>3, RaisedIs
  <2>8. Move(c, s)
    BY <2>1 DEF StruckAt
  <2> HIDE DEF e
  <2>6. e \in Errors \cup {NoError, Cancelled}
    BY <2>4
  <2>7. /\ s \in Call /\ s.pc = "close" /\ s.kind = call[c].kind /\ s.on = call[c].on
        /\ s.key = call[c].key /\ s.attempt = call[c].attempt
        /\ s.error = e /\ s.masked = call[c].masked
        /\ s.hit <=> error \in Recognized
    BY <1>2, <2>6, StruckAtIs
  <2> HIDE DEF s
  <2>9. CallKept(s)
    <3>1. OwnsSession(s)
      BY <1>2, <2>7 DEF OwnsSession
    <3>2. s.error \in Errors /\ (Infrastructure(s.error) <=> s.hit)
      BY <2>4, <2>7
    <3> QED BY <1>1, <1>2, <2>7, <3>1, <3>2 DEF CallKept
  <2>10. Fails \/ UNCHANGED faults
    BY <2>1
  <2> QED BY <1>1, <1>2, <2>7, <2>8, <2>9, <2>10, MoveSteps
<1> QED BY <1>3, <1>4

\* The rollback, which may fail and then hides the first error.
LEMMA RollbackKeeps ==
    ASSUME CallsTyped, CallsKept, SlotsHeld, NEW c \in Callers,
           RollbackOk(c) \/ RollbackRaises(c)
    PROVE  StepKeeps(c) /\ call[c].pc # "idle" /\ call'[c].pc # "idle"
<1>1. call[c].pc = "rollback"
  BY DEF RollbackOk, RollbackRaises
<1>2. InFlight(c) /\ call[c] \in Call /\ CallKept(call[c])
      /\ call[c].key \in Keys[call[c].on] /\ call[c].on \in Names
      /\ OwnsSession(call[c])
      /\ call[c].error \in Errors /\ (Infrastructure(call[c].error) <=> call[c].hit)
  BY <1>1, Blocked DEF CallKept
<1>3. CASE RollbackOk(c)
  <2> DEFINE s == At(call[c], "close")
  <2>1. /\ s \in Call /\ s.pc = "close" /\ s.kind = call[c].kind /\ s.on = call[c].on
        /\ s.key = call[c].key /\ s.attempt = call[c].attempt
        /\ s.error = call[c].error /\ s.hit = call[c].hit /\ s.masked = call[c].masked
    BY <1>2, BlockSteps
  <2>2. Move(c, s) /\ UNCHANGED faults
    BY <1>3 DEF RollbackOk, At
  <2> HIDE DEF s
  <2>3. CallKept(s)
    BY <1>1, <1>2, <2>1 DEF CallKept, OwnsSession
  <2> QED BY <1>1, <1>2, <2>1, <2>2, <2>3, MoveSteps
<1>4. CASE RollbackRaises(c)
  <2>1. PICK error \in Raises["relational"] :
           Fails /\ Move(c, AtMasked(call[c], "close", error))
    BY <1>4 DEF RollbackRaises, AtMasked
  <2>2. error \in Errors \cup {NoError, Cancelled}
    BY <2>1, RaisesAre DEF Errors
  <2> QED BY <1>1, <1>2, <2>1, <2>2, MaskedMoves
<1> QED BY <1>3, <1>4

\* The session is closed, or its close fails.
LEMMA CloseKeeps ==
    ASSUME CallsTyped, CallsKept, SlotsHeld, NEW c \in Callers,
           CloseOk(c) \/ CloseRaises(c)
    PROVE  StepKeeps(c) /\ call[c].pc # "idle" /\ call'[c].pc # "idle"
<1>1. call[c].pc = "close"
  BY DEF CloseOk, CloseRaises
<1>2. InFlight(c) /\ call[c] \in Call /\ CallKept(call[c])
      /\ call[c].error \in Errors \cup {NoError, Cancelled}
  BY <1>1, Blocked, CallIs
<1>3. CASE CloseOk(c)
  <2>1. Leave(c, call[c], call[c].error) /\ UNCHANGED faults
    BY <1>3 DEF CloseOk
  <2>2. \/ call[c].masked
        \/ call[c].error = NoError /\ ~call[c].hit
        \/ call[c].error \in Errors /\ (Infrastructure(call[c].error) <=> call[c].hit)
    BY <1>1, <1>2 DEF CallKept
  <2> QED BY <1>1, <1>2, <2>1, <2>2, LeaveSteps
<1>4. CASE CloseRaises(c)
  <2>1. PICK error \in Raises["relational"] :
           Fails /\ Leave(c, Masked(call[c]), error)
    BY <1>4 DEF CloseRaises, Masked
  <2>2. error \in Errors \cup {NoError, Cancelled}
    BY <2>1, RaisesAre DEF Errors
  <2> DEFINE s == Masked(call[c])
  <2>3. s \in Call /\ s.attempt = call[c].attempt /\ s.kind = call[c].kind /\ s.masked
    BY <1>2, BlockSteps
  <2>4. Leave(c, s, error) /\ (Fails \/ UNCHANGED faults)
    BY <2>1
  <2> HIDE DEF s
  <2> QED BY <1>1, <1>2, <2>2, <2>3, <2>4, LeaveSteps
<1> QED BY <1>3, <1>4

\* The call is cancelled at an await of its block, or in its wait.
LEMMA CancelKeeps ==
    ASSUME CallsTyped, CallsKept, SlotsHeld, NEW c \in Callers, CancelCall(c)
    PROVE  StepKeeps(c) /\ call[c].pc # "idle" /\ call'[c].pc # "idle"
<1>1. Fails
  BY DEF CancelCall
<1>2. call[c] \in Call /\ CallKept(call[c])
  BY DEF CallsTyped, CallsKept
<1>3. Cancelled \in Errors \cup {NoError, Cancelled}
  OBVIOUS
<1>4. CASE call[c].pc \in {"body", "close"} /\ Leave(c, Masked(call[c]), Cancelled)
  <2> DEFINE s == Masked(call[c])
  <2>1. s \in Call /\ s.attempt = call[c].attempt /\ s.kind = call[c].kind /\ s.masked
    BY <1>2, <1>3, BlockSteps
  <2>2. Leave(c, s, Cancelled) /\ (Fails \/ UNCHANGED faults) /\ InFlight(c)
    BY <1>1, <1>4 DEF InFlight
  <2> HIDE DEF s
  <2> QED BY <1>3, <1>4, <2>1, <2>2, LeaveSteps
<1>5. CASE /\ call[c].pc \in {"body", "commit", "rollback"} /\ OwnsSession(call[c])
           /\ Move(c, AtMasked(call[c], "close", Cancelled))
  <2>1. InFlight(c)
    BY <1>5 DEF InFlight
  <2> QED BY <1>1, <1>3, <1>5, <2>1, MaskedMoves
<1>6. CASE call[c].pc = "backoff" /\ Move(c, Done(call[c], Cancelled))
  <2> DEFINE s == Done(call[c], Cancelled)
  <2>1. AfterAttempt(call[c], Cancelled) = s
    BY ErrorsAre DEF AfterAttempt
  <2>2. call[c].attempt > 1 => call[c].kind = "read"
    BY <1>2 DEF CallKept
  <2>3. s \in Call /\ CallKept(s) /\ s.pc \in {"backoff", "done"} /\ s.error = Cancelled
    BY <1>2, <1>3, <2>1, <2>2, AfterAttemptIs
  <2>4. Move(c, s)
    BY <1>6
  <2> HIDE DEF s
  <2>5. ~InFlight(c) /\ (s.pc \in {"body", "commit", "rollback", "close"} <=> InFlight(c))
    BY <1>6, <2>3 DEF InFlight
  <2>6. /\ \/ s.on = call[c].on /\ s.key = call[c].key
           \/ s.pc \in {"backoff", "done"} /\ ~InFlight(c)
        /\ Fails \/ UNCHANGED faults
    BY <1>1, <2>3, <2>5
  <2>7. CallEffect(c)
    BY <2>3, <2>4, <2>5, <2>6, MoveKeeps
  <2>8. call'[c] = s
    <3>1. call' = [call EXCEPT ![c] = s]
      BY <2>4 DEF Move
    <3> QED BY <2>3, <3>1, CallSet
  <2>9. "CircuitBreakerOpenError" \in Errors /\ Cancelled \notin Errors
    BY ErrorsAre DEF Errors
  <2>10. Counted(c) /\ Explained(c)
    BY <1>6, <2>3, <2>8, <2>9 DEF Counted, Explained, AttemptEnds
  <2> QED BY <1>6, <2>3, <2>7, <2>8, <2>10 DEF StepKeeps
<1> QED BY <1>4, <1>5, <1>6 DEF CancelCall, Masked, AtMasked

\* Every step of a call.
LEMMA CallStepKeeps ==
    ASSUME CallsTyped, CallsKept, SlotsHeld, NEW c \in Callers, CallStep(c)
    PROVE  StepKeeps(c) /\ call[c].pc # "idle" /\ call'[c].pc # "idle"
BY EnterKeeps, BodyOkKeeps, BodyRaisesKeeps, CommitKeeps, RollbackKeeps,
   CloseKeeps,
   CancelKeeps DEF CallStep

\* The order is not empty, and its members are the names.
LEMMA OrderIs ==
    /\ Len(Order) \in Nat \ {0} /\ DOMAIN Order = 1..Len(Order)
    /\ \A i \in DOMAIN Order : Order[i] \in Names
    /\ \A i, j \in DOMAIN Order : Order[i] = Order[j] => i = j
<1>1. /\ Order \in Seq(STRING) /\ Order # <<>>
      /\ \A i, j \in DOMAIN Order : Order[i] = Order[j] => i = j
  BY AdaptersAssumption DEF AdaptersAssumption
<1>2. Len(Order) \in Nat /\ DOMAIN Order = 1..Len(Order)
  BY <1>1
<1>3. Len(Order) # 0
  BY <1>1, <1>2
<1> QED BY <1>1, <1>2, <1>3 DEF Names

\* The calls and breakers begin as the invariant says.
LEMMA InitCall == NoCall \in Call /\ CallKept(NoCall)
<1>1. Order[1] \in Names
  BY OrderIs
<1>2. MaxAttempts \in Nat \ {0}
  BY AdaptersAssumption DEF AdaptersAssumption
<1>3. NoCall = Made("idle", "none", Order[1], NoKey, 0, NoError, FALSE, FALSE)
  BY DEF NoCall, Made
<1>4. NoCall \in Call
  BY SMT, <1>1, <1>2 DEF NoCall, Call
<1>5. CallKept(NoCall)
  BY <1>2 DEF CallKept, NoCall
<1> QED BY <1>4, <1>5

\* A new breaker is closed and holds no slot.
LEMMA InitBreakerIs == InitBreaker \in Breaker /\ Slots(InitBreaker) = 0
BY BreakerConfigAssumption
   DEF BreakerConfigAssumption, InitBreaker, Breaker, CircuitState, NotOpened,
       Slots

\* The invariant holds at first.
LEMMA InitKeeps == Init => IInv
<1> SUFFICES ASSUME Init PROVE IInv
  OBVIOUS
<1> USE DEF Init, AdaptersInit
<1>1. AdaptersTyped
  <2>1. ASSUME NEW n \in Names
        PROVE  NewAdapter(n) \in Adapter(n)
    BY InitBreakerIs, TurnsAre DEF NewAdapter, Adapter
  <2> QED BY <2>1 DEF AdaptersTyped
<1>2. PoolsTyped
  BY DEF PoolsTyped, PoolState
<1>3. call \in [Callers -> Call] /\ CallsKept
  BY InitCall DEF CallsKept
<1>4. faults \in 0..MaxFaults
  BY AdaptersAssumption DEF AdaptersAssumption
<1>5. registered \in 0..Len(Order) /\ main \in Main
  BY OrderIs, AdaptersAssumption DEF AdaptersAssumption, Main
<1>6. monitor \in Monitor
  BY OrderIs DEF Monitor, HealthStatus
<1>7. TypeOK
  BY <1>1, <1>2, <1>3, <1>4, <1>5, <1>6
     DEF TypeOK, AdaptersTypeOK, AdaptersTyped, PoolsTyped
<1>8. SlotsHeld
  <2>1. \A n \in Names : \A k \in Keys[n] : Slots(adapter[n].breaker[k]) = 0
    BY InitBreakerIs DEF NewAdapter
  <2> QED BY <2>1, UsersFinite DEF SlotsHeld
<1>9. MainKept
  BY OrderIs DEF MainKept
<1>10. PoolsKept
  <2>1. ASSUME NEW i \in DOMAIN Order
        PROVE  Unreached(i) /\ Untouched(Order[i]) /\ Unused(Order[i])
               /\ ~Connected(i) /\ ~Disposing(i)
    <3>1. Unreached(i) /\ ~Connected(i) /\ ~Disposing(i)
      BY OrderIs DEF Unreached, Connected, Disposing
    <3>2. Order[i] \in Names
      BY OrderIs
    <3>3. Untouched(Order[i])
      BY <3>2 DEF Untouched, NewAdapter
    <3>4. adapter[Order[i]].breaker[Master[Order[i]]] = InitBreaker
      BY <3>2, NodesAre DEF NewAdapter
    <3>5. Unused(Order[i])
      BY <3>4 DEF Unused, Stranger, InFlight, NoCall, InitBreaker
    <3> QED BY <3>1, <3>3, <3>5
  <2> QED BY <2>1 DEF PoolsKept, LifeKept
<1>11. MonitorKept
  BY DEF MonitorKept
<1> QED BY <1>3, <1>7, <1>8, <1>9, <1>10, <1>11 DEF IInv

\* IInv, split into what the calls keep and the rest.
LEMMA IInvIs ==
    IInv <=> /\ CallsTyped
             /\ registered \in 0..Len(Order) /\ main \in Main /\ monitor \in Monitor
             /\ CallsKept /\ SlotsHeld /\ MainKept /\ PoolsKept /\ MonitorKept
BY DEF IInv, TypeOK, AdaptersTypeOK, CallsTyped, AdaptersTyped, PoolsTyped

\* The same of the next state.
LEMMA IInvNext ==
    ASSUME CallsTyped', registered' \in 0..Len(Order), main' \in Main, monitor' \in Monitor,
           CallsKept', SlotsHeld', MainKept', PoolsKept', MonitorKept'
    PROVE  IInv'
BY DEF IInv, TypeOK, AdaptersTypeOK, CallsTyped, AdaptersTyped, PoolsTyped

\* A step of a call keeps the invariant.
LEMMA CallsKeep ==
    ASSUME IInv, NEW c \in Callers, CallStep(c), UNCHANGED <<registered, main, monitor>>
    PROVE  IInv'
<1>1. CallsTyped /\ CallsKept /\ SlotsHeld /\ PoolsKept /\ MainKept /\ MonitorKept
      /\ registered \in 0..Len(Order) /\ main \in Main /\ monitor \in Monitor
  BY IInvIs
<1>2. CallEffect(c)
  BY <1>1, CallStepKeeps DEF StepKeeps
<1>3. CallsTyped'
  BY <1>2 DEF CallEffect, CallsTyped
<1>4. MainKept'
  BY <1>1 DEF MainKept
<1>5. MonitorKept'
  BY <1>1 DEF MonitorKept, Checked
<1>6. ASSUME NEW n \in Names, ~adapter[n].ready, Unused(n)
      PROVE  Unused(n)'
  <2>1. /\ Stranger(c, n)'
        /\ \A k \in Keys[n] : adapter'[n].breaker[k] = adapter[n].breaker[k]
    BY <1>2, <1>6 DEF CallEffect, Served, Unused
  <2>2. \A d \in Callers \ {c} : Stranger(d, n)'
    BY <1>2, <1>6 DEF CallEffect, Unused, Stranger, InFlight
  <2> QED BY <1>6, <2>1, <2>2, NodesAre DEF Unused
<1>7. PoolsKept'
  BY <1>1, <1>2, <1>6, PoolsKeptByCalls DEF CallEffect
<1> QED BY <1>1, <1>2, <1>3, <1>4, <1>5, <1>7, IInvNext DEF CallEffect

\* Time passes: only waiting breakers change.
LEMMA TickKeeps ==
    ASSUME IInv, Tick, UNCHANGED <<registered, main, monitor>>
    PROVE  IInv'
<1>1. CallsTyped /\ CallsKept /\ SlotsHeld /\ PoolsKept /\ MainKept /\ MonitorKept
      /\ registered \in 0..Len(Order) /\ main \in Main /\ monitor \in Monitor
  BY IInvIs
<1>2. UNCHANGED <<pool, call, faults>>
  BY DEF Tick
<1>3. DOMAIN adapter' = Names
      /\ \A n \in Names : adapter'[n] = [adapter[n] EXCEPT !.breaker =
                     [k \in Keys[n] |-> Elapse(adapter[n].breaker[k])]]
  BY DEF Tick
<1>4. ASSUME NEW n \in Names
      PROVE  /\ adapter'[n] \in Adapter(n)
             /\ adapter'[n].ready = adapter[n].ready
             /\ \A k \in Keys[n] : adapter'[n].breaker[k] = Elapse(adapter[n].breaker[k])
  <2>1. adapter[n] \in Adapter(n)
    BY <1>1 DEF CallsTyped, AdaptersTyped
  <2>2. \A k \in Keys[n] : Elapse(adapter[n].breaker[k]) \in Breaker
    BY <1>1, BreakersTyped, BreakerSteps DEF CallsTyped
  <2> DEFINE f == [k \in Keys[n] |-> Elapse(adapter[n].breaker[k])]
  <2>3. f \in [Keys[n] -> Breaker]
            /\ \A k \in Keys[n] : f[k] = Elapse(adapter[n].breaker[k])
    BY <2>2
  <2>4. adapter'[n] = [adapter[n] EXCEPT !.breaker = f]
    BY <1>3
  <2> HIDE DEF f
  <2> QED BY <2>1, <2>3, <2>4 DEF Adapter
<1>5. CallsTyped'
  BY <1>1, <1>2, <1>3, <1>4 DEF CallsTyped, AdaptersTyped, PoolsTyped
<1>6. CallsKept' /\ MainKept' /\ MonitorKept'
  BY <1>1, <1>2 DEF CallsKept, MainKept, MonitorKept, Checked
<1>7. ASSUME NEW n \in Names, NEW k \in Keys[n]
      PROVE  /\ Slots(adapter'[n].breaker[k]) = Slots(adapter[n].breaker[k])
             /\ adapter'[n].breaker[k].state = adapter[n].breaker[k].state
  <2>1. adapter[n].breaker[k] \in Breaker
    BY <1>1, BreakersTyped DEF CallsTyped
  <2>2. Elapse(adapter[n].breaker[k]).state = adapter[n].breaker[k].state
    BY <2>1 DEF Elapse, Breaker
  <2> QED BY <1>4, <2>1, <2>2, SlotsAre
<1>8. SlotsHeld'
  BY <1>1, <1>2, <1>7, SlotsKeptWithoutCalls
<1>9. ASSUME NEW n \in Names, Unused(n)
      PROVE  Unused(n)'
  BY <1>2, <1>7, <1>9, NodesAre DEF Unused, Stranger, InFlight
<1>10. ReadyKept /\ PoolsStay
  BY <1>2, <1>4 DEF ReadyKept, PoolsStay
<1>11. PoolsKept'
  BY <1>1, <1>9, <1>10, PoolsKeptByCalls
<1> QED BY <1>1, <1>5, <1>6, <1>8, <1>11, IInvNext

\* factory.get() hands a caller one of the registered adapters.
LEMMA GetKeeps ==
    ASSUME IInv, NEW c \in Callers, NEW n \in Names, Get(c, n)
    PROVE  IInv'
<1>1. CallsTyped /\ CallsKept /\ SlotsHeld /\ PoolsKept /\ MainKept /\ MonitorKept
      /\ registered \in 0..Len(Order) /\ main \in Main /\ monitor \in Monitor
  BY IInvIs
<1>2. UNCHANGED <<adapter, pool, faults, registered, main, monitor>>
  BY DEF Get
<1> DEFINE r == call[c]
           found == Made("enter", r.kind, n, r.key, r.attempt, r.error, r.hit, r.masked)
           missing == Made("done", r.kind, Order[1], NoKey, r.attempt,
                           "ConfigurationError", r.hit, r.masked)
<1>3. r \in Call /\ CallKept(r) /\ r.pc = "idle"
  BY <1>1 DEF CallsTyped, CallsKept, Get
<1>4. r.kind = "none" /\ r.attempt = 0 /\ r.error = NoError
  BY <1>3 DEF CallKept
<1>5. "ConfigurationError" \in Errors
  BY ErrorsAre DEF Errors
<1>6. r.key \in AllKeys \cup {NoKey} /\ r.hit \in BOOLEAN /\ r.masked \in BOOLEAN
      /\ Order[1] \in Names /\ 0 \in 0..MaxAttempts
  BY <1>3, CallIs, OrderIs, AdaptersAssumption DEF AdaptersAssumption
<1>7. found \in Call /\ missing \in Call
  BY SMT, <1>4, <1>5, <1>6 DEF Made, Call
<1>8. CallKept(found) /\ CallKept(missing)
  BY <1>4 DEF Made, CallKept
<1>9. call' = [call EXCEPT ![c] = found] \/ call' = [call EXCEPT ![c] = missing]
  <2>1. Done(r, "ConfigurationError") = missing
    BY <1>3, WaitsIs
  <2>2. SetOn(SetPc(r, "enter"), n) = found
    BY <1>3, CallIsMade, Setters
  <2>3. [r EXCEPT !.pc = "enter", !.on = n] = SetOn(SetPc(r, "enter"), n)
    BY DEF SetOn, SetPc
  <2>4. \/ call' = [call EXCEPT ![c] = [r EXCEPT !.pc = "enter", !.on = n]]
        \/ call' = [call EXCEPT ![c] = Done(r, "ConfigurationError")]
    BY DEF Get
  <2> QED BY <2>1, <2>2, <2>3, <2>4
<1>10. found.pc = "enter" /\ missing.pc = "done"
  BY DEF Made
<1> HIDE DEF r, found, missing
<1>11. /\ call' \in [Callers -> Call] /\ CallsKept'
       /\ call'[c].pc \in {"enter", "done"}
       /\ \A d \in Callers \ {c} : call'[d] = call[d]
  BY <1>1, <1>7, <1>8, <1>9, <1>10, CallSet
<1>12. \A m, k : Users(m, k)' = Users(m, k)
  BY <1>3, <1>11 DEF Users, InFlight, r
<1>13. CallsTyped' /\ MainKept' /\ MonitorKept'
  BY <1>1, <1>2, <1>11
     DEF CallsTyped, AdaptersTyped, PoolsTyped, MainKept, MonitorKept, Checked
<1>14. SlotsHeld'
  BY <1>1, <1>2, <1>12 DEF SlotsHeld
<1>15. ASSUME NEW m \in Names, Unused(m)
       PROVE  Unused(m)'
  BY <1>2, <1>11, <1>15 DEF Unused, Stranger, InFlight
<1>16. PoolsKept'
  <2>1. ReadyKept /\ PoolsStay
    BY <1>2 DEF ReadyKept, PoolsStay
  <2> QED BY <1>1, <1>2, <1>15, <2>1, PoolsKeptByCalls
<1> QED BY <1>1, <1>2, <1>11, <1>13, <1>14, <1>16, IInvNext

\* The block's task is at an adapter.
LEMMA MainIs ==
    ASSUME IInv
    PROVE  /\ main \in Main /\ main.at \in Nat /\ main.node \in Nat
           /\ main.attempt \in 0..MaxAttempts
           /\ main.error \in Errors \cup {NoError, Cancelled}
           /\ registered \in 0..Len(Order) /\ registered \in Nat
           /\ main.at \in 1..(Len(Order) + 1)
           /\ Len(Order) \in Nat \ {0}
           /\ \/ main.pc = "connect" /\ main.at <= Len(Order)
              \/ main.pc \in {"ping", "release", "disconnect"}
              => main.at \in DOMAIN Order /\ Order[main.at] \in Names
<1>1. main \in Main /\ registered \in 0..Len(Order) /\ MainKept
  BY IInvIs
<1>2. Len(Order) \in Nat \ {0}
  BY OrderIs
<1>3. /\ main.at \in 1..(Len(Order) + 1) /\ main.node \in Nat
      /\ main.attempt \in 0..MaxAttempts
      /\ main.error \in Errors \cup {NoError, Cancelled}
  BY <1>1 DEF Main
<1>4. ASSUME \/ main.pc = "connect" /\ main.at <= Len(Order)
             \/ main.pc \in {"ping", "release", "disconnect"}
      PROVE  main.at \in DOMAIN Order
  <2>1. DOMAIN Order = 1..Len(Order)
    BY OrderIs
  <2>2. registered <= Len(Order) /\ registered \in Nat
    BY <1>1, <1>2
  <2>3. main.at <= Len(Order)
    BY <1>1, <1>2, <1>3, <1>4, <2>2 DEF MainKept
  <2> QED BY <1>2, <1>3, <2>1, <2>3
<1> QED BY <1>1, <1>2, <1>3, <1>4, OrderIs

\* Nothing has happened to an adapter that its life would show.
SameLife(n) ==
    /\ adapter'[n].ready = adapter[n].ready
    /\ \A k \in Keys[n] : pool'[n][k] = pool[n][k]

\* Where the task is not, an adapter's life goes on as it was, as long as the
\* task's step agrees about where it is.
LEMMA LifeGoesOn ==
    ASSUME NEW i \in DOMAIN Order, LifeKept(i), SameLife(Order[i]), ~Disposing(i),
           Unreached(i)' => Unreached(i) /\ (Unused(Order[i]) => Unused(Order[i])'),
           Connected(i)' => Connected(i),
           Disposing(i)' => Connected(i) /\ main'.node = 1,
           Connected(i) => Connected(i)' \/ Disposing(i)'
    PROVE  LifeKept(i)'
<1> DEFINE n == Order[i]
<1>1. n \in Names
  BY OrderIs
<1>2. /\ Unreached(i) => Untouched(n) /\ Unused(n)
      /\ Connected(i) => Fresh(n)
      /\ Unreached(i) \/ Connected(i) \/ Untouched(n) \/ LetGo(n)
  BY DEF LifeKept
<1>3. /\ adapter'[n].ready = adapter[n].ready
      /\ \A k \in Keys[n] : pool'[n][k] = pool[n][k]
  BY DEF SameLife
<1> HIDE DEF n
<1>4. Untouched(n) => Untouched(n)'
  BY <1>3 DEF Untouched
<1>5. Fresh(n) => Fresh(n)'
  BY <1>3 DEF Fresh
<1>6. LetGo(n) => LetGo(n)'
  BY <1>3 DEF LetGo
<1>7. Disposing(i)' => DisposedUpTo(n, main.node)'
  <2> SUFFICES ASSUME Disposing(i)', NEW j \in DOMAIN Nodes[n]
               PROVE  pool'[n][Nodes[n][j].key] \in
                        IF j < main'.node THEN {"closed", "reopened"}
                            ELSE {"unused", "open"}
    BY DEF DisposedUpTo
  <2>1. Fresh(n)' /\ main'.node = 1
    BY <1>2, <1>5
  <2>2. Nodes[n][j].key \in Keys[n] /\ j \in Nat /\ ~(j < 1)
    BY <1>1, NodesAre
  <2> QED BY <2>1, <2>2 DEF Fresh
<1> QED BY <1>2, <1>4, <1>5, <1>6, <1>7 DEF LifeKept, n

\* A step of the block's task, but for the lives of the adapters.
LEMMA MainKeeps ==
    ASSUME IInv, AdaptersTyped', PoolsTyped', UNCHANGED <<call, monitor>>,
           Fails \/ UNCHANGED faults,
           main' \in Main, registered' \in 0..Len(Order), MainKept', PoolsKept',
           \A n \in Names : \A k \in Keys[n] \ {Master[n]} :
               adapter'[n].breaker[k] = adapter[n].breaker[k],
           main'.pc \in {"connect", "ping", "release"} =>
               /\ main.pc \in {"connect", "ping", "release"}
               /\ registered <= registered'
    PROVE  IInv'
<1>1. CallsTyped /\ CallsKept /\ SlotsHeld /\ MonitorKept /\ monitor \in Monitor
      /\ registered \in 0..Len(Order)
  BY IInvIs
<1>2. CallsTyped' /\ CallsKept'
  BY <1>1, FaultsStay DEF CallsTyped, CallsKept
<1>3. SlotsHeld'
  BY <1>1, SlotsKeptWithoutCalls
<1>4. MonitorKept'
  <2>1. monitor.size \in Nat /\ registered \in Nat /\ registered' \in Nat
    BY <1>1, OrderIs DEF Monitor
  <2> QED BY <1>1, <2>1 DEF MonitorKept, Checked
<1> QED BY <1>1, <1>2, <1>3, <1>4, IInvNext

\* A step that leaves the adapters and the pools alone.
LEMMA NothingTouched ==
    ASSUME IInv, UNCHANGED <<adapter, pool>>
    PROVE  /\ AdaptersTyped' /\ PoolsTyped'
           /\ \A n \in Names : \A k \in Keys[n] :
                  adapter'[n].breaker[k] = adapter[n].breaker[k]
           /\ \A n : SameLife(n) /\ (UNCHANGED call /\ Unused(n) => Unused(n)')
<1>1. AdaptersTyped /\ PoolsTyped
  BY IInvIs DEF CallsTyped
<1> QED BY <1>1
       DEF AdaptersTyped, PoolsTyped, SameLife, Unused, Stranger, InFlight

\* connect_all gives up, or the block is over: all that is registered is
\* disconnected.
LEMMA DisconnectAllIs ==
    ASSUME IInv, NEW error \in Errors \cup {NoError, Cancelled},
           ToDisconnectAll(error), UNCHANGED registered
    PROVE  /\ main' \in Main /\ MainKept' /\ main'.node = 1
           /\ main'.pc \in {"ended", "disconnect"}
           /\ main'.pc = "ended" <=> registered = 0
           /\ main'.pc = "disconnect" => main'.at = 1
<1> DEFINE pc == IF registered = 0 THEN "ended" ELSE "disconnect"
<1>1. /\ main' = [main EXCEPT !.pc = pc, !.at = 1, !.node = 1, !.error = error]
      /\ main \in Main /\ Len(Order) \in Nat \ {0} /\ registered \in Nat
  BY MainIs DEF ToDisconnectAll
<1>2. /\ main' \in Main /\ main'.node = 1 /\ main'.at = 1
      /\ main'.pc = IF registered = 0 THEN "ended" ELSE "disconnect"
  <2>1. pc \in {"ended", "disconnect"}
    OBVIOUS
  <2>2. 1 \in 1..(Len(Order) + 1)
    BY <1>1
  <2> HIDE DEF pc
  <2>3. main' \in Main /\ main'.node = 1 /\ main'.at = 1 /\ main'.pc = pc
    BY <1>1, <2>1, <2>2 DEF Main
  <2> QED BY <2>3 DEF pc
<1>3. 1 \in DOMAIN Nodes[Order[1]]
  BY OrderIs, NodesAre
<1>4. MainKept'
  BY <1>1, <1>2, <1>3 DEF MainKept
<1> QED BY <1>1, <1>2, <1>4

\* A configuration cannot be resolved: connect_all gives up.
LEMMA ResolveFailsKeeps == ASSUME IInv, ResolveFails PROVE IInv'
<1>1. /\ main.pc = "connect" /\ main.at <= Len(Order)
      /\ Fails /\ ToDisconnectAll("ConfigurationError")
      /\ UNCHANGED <<adapter, pool, call, registered, monitor>>
  BY DEF ResolveFails, Keep
<1>2. "ConfigurationError" \in Errors \cup {NoError, Cancelled}
  BY ErrorsAre DEF Errors
<1>3. /\ main' \in Main /\ MainKept' /\ main'.node = 1
      /\ main'.pc \in {"ended", "disconnect"}
      /\ main'.pc = "ended" <=> registered = 0
      /\ main'.pc = "disconnect" => main'.at = 1
  BY <1>1, <1>2, DisconnectAllIs
<1>4. registered = main.at - 1 /\ main.at \in Nat /\ registered \in 0..Len(Order)
  BY <1>1, MainIs, IInvIs DEF MainKept
<1>5. PoolsKept'
  <2> SUFFICES ASSUME NEW i \in DOMAIN Order PROVE LifeKept(i)'
    BY DEF PoolsKept
  <2>1. LifeKept(i) /\ i \in Nat /\ i >= 1
    BY IInvIs, OrderIs DEF PoolsKept
  <2>2. /\ ~Disposing(i) /\ ~Unreached(i)'
        /\ Connected(i)' => Connected(i)
        /\ Disposing(i)' => Connected(i)
        /\ Connected(i) => Connected(i)' \/ Disposing(i)'
    BY <1>1, <1>3, <1>4, <2>1 DEF Disposing, Unreached, Connected
  <2> QED BY <1>1, <1>3, <2>1, <2>2, NothingTouched, LifeGoesOn
<1> QED BY <1>1, <1>3, <1>4, <1>5, NothingTouched, MainKeeps

\* connect() makes an adapter ready and admits its ping.
LEMMA BreakerAndReadySet ==
    ASSUME AdaptersTyped, NEW n \in Names, NEW k \in Keys[n], NEW b \in Breaker,
           adapter' = [adapter EXCEPT ![n].ready = TRUE, ![n].breaker[k] = b]
    PROVE  AdaptersTyped' /\ OnlyBreaker(n, k, b)
           /\ \A m \in Names : m # n => adapter'[m].ready = adapter[m].ready
<1> DEFINE y == [[adapter[n] EXCEPT !.ready = TRUE] EXCEPT !.breaker[k] = b]
<1>1. adapter[n] \in Adapter(n)
  BY DEF AdaptersTyped
<1>2. /\ y \in Adapter(n)
      /\ \A j \in Keys[n] : y.breaker[j] = IF j = k THEN b ELSE adapter[n].breaker[j]
  BY <1>1 DEF Adapter
<1>3. DOMAIN adapter' = Names
          /\ \A m \in Names : adapter'[m] = IF m = n THEN y ELSE adapter[m]
  BY DEF AdaptersTyped
<1> QED BY <1>2, <1>3 DEF AdaptersTyped, OnlyBreaker

\* A step at one adapter, as the others see it.
LEMMA OthersUnused ==
    ASSUME UNCHANGED call, NEW n \in Names, NEW k \in Keys[n], NEW b, OnlyBreaker(n, k, b)
    PROVE  \A m \in Names : m # n => (Unused(m) => Unused(m)')
BY NodesAre DEF OnlyBreaker, Unused, Stranger, InFlight

\* connect() of the next adapter begins, and ends there if it does not ping.
LEMMA BeginConnectKeeps == ASSUME IInv, BeginConnect PROVE IInv'
<1> DEFINE n == Order[main.at]
           k == Master[n]
           b == adapter[n].breaker[k]
<1>1. /\ main.pc = "connect" /\ main.at <= Len(Order)
      /\ adapter' = [adapter EXCEPT ![n].ready = TRUE, ![n].breaker[k] = BeforeCall(b)]
      /\ CheckOut(n, k)
      /\ main' = [main EXCEPT !.pc = "ping", !.attempt = 1]
      /\ UNCHANGED <<faults, call, registered, monitor>>
  BY DEF BeginConnect, Keep
<1>2. AdaptersTyped /\ PoolsTyped /\ PoolsKept /\ MainKept
  BY IInvIs DEF CallsTyped
<1>3. main.at \in DOMAIN Order /\ n \in Names
  BY <1>1, MainIs
<1>4. k \in Keys[n]
  BY <1>3, NodesAre
<1>5. Unreached(main.at)
  BY <1>1, MainIs DEF Unreached
<1>6. Untouched(n) /\ Unused(n)
  BY <1>2, <1>3, <1>5 DEF PoolsKept, LifeKept
<1>7. b \in Breaker /\ b.state = "CLOSED"
  BY <1>2, <1>3, <1>4, <1>6, BreakersTyped DEF Unused
<1>8. BeforeCall(b) \in Breaker
  BY <1>7, BreakerSteps DEF Admits, AllowsCalls
<1> HIDE DEF n, k, b
<1>9. AdaptersTyped' /\ OnlyBreaker(n, k, BeforeCall(b))
      /\ \A m \in Names : m # n => adapter'[m].ready = adapter[m].ready
  BY <1>1, <1>2, <1>3, <1>4, <1>8, BreakerAndReadySet
<1>10. /\ PoolsTyped'
       /\ \A m \in Names : \A j \in Keys[m] :
             pool'[m][j] = IF m = n /\ j = k THEN Taken(pool[n][k]) ELSE pool[m][j]
  BY <1>1, <1>2, <1>3, <1>4, CheckedOut
<1>11. 1 \in 0..MaxAttempts
  BY AdaptersAssumption DEF AdaptersAssumption
<1>12. main' \in Main /\ main'.pc = "ping" /\ main'.at = main.at /\ main'.attempt = 1
  BY <1>1, <1>11, MainIs DEF Main
<1>13. MainKept'
  BY <1>1, <1>2, <1>12 DEF MainKept
<1>14. PoolsKept'
  <2> SUFFICES ASSUME NEW i \in DOMAIN Order PROVE LifeKept(i)'
    BY DEF PoolsKept
  <2>1. LifeKept(i) /\ i \in Nat /\ Order[i] \in Names
    BY <1>2, OrderIs DEF PoolsKept
  <2>2. CASE i = main.at
    <3>1. Connected(i)' /\ ~Unreached(i)' /\ ~Disposing(i)'
      BY <1>12, <2>1, <2>2 DEF Connected, Unreached, Disposing
    <3>2. Taken(pool[n][k]) = "open"
      <4>1. pool[n][k] = "unused"
        BY <1>4, <1>6 DEF Untouched
      <4> QED BY <4>1 DEF Taken
    <3>3. \A j \in Keys[n] : pool'[n][j] \in {"unused", "open"}
      BY <1>3, <1>6, <1>10, <3>2 DEF Untouched
    <3>4. Fresh(Order[i])'
      BY <2>2, <3>3 DEF Fresh, n
    <3> QED BY <3>1, <3>4 DEF LifeKept
  <2>3. CASE i # main.at
    <3>1. Order[i] # n
      BY <1>3, <2>3, OrderIs DEF n
    <3>2. SameLife(Order[i]) /\ (Unused(Order[i]) => Unused(Order[i])')
      BY <1>1, <1>3, <1>4, <1>9, <1>10, <2>1, <3>1, OthersUnused DEF SameLife
    <3>3. /\ ~Disposing(i) /\ ~Disposing(i)'
          /\ Unreached(i)' => Unreached(i)
          /\ Connected(i)' <=> Connected(i)
      BY <1>1, <1>12, <2>1, <2>3, MainIs DEF Disposing, Unreached, Connected
    <3> QED BY <2>1, <3>2, <3>3, LifeGoesOn
  <2> QED BY <2>2, <2>3
<1>15. \A m \in Names : \A j \in Keys[m] \ {Master[m]} :
          adapter'[m].breaker[j] = adapter[m].breaker[j]
  BY <1>9 DEF OnlyBreaker, k
<1>16. registered \in 0..Len(Order) /\ registered \in Nat
  BY MainIs
<1>17. /\ UNCHANGED <<call, monitor>> /\ UNCHANGED faults
       /\ registered' \in 0..Len(Order) /\ registered <= registered'
       /\ main.pc = "connect"
  BY <1>1, <1>16
<1>18. AdaptersTyped' /\ PoolsTyped' /\ main' \in Main
  BY <1>9, <1>10, <1>12
<1> QED BY <1>13, <1>14, <1>15, <1>17, <1>18, MainKeeps

\* A document adapter without a default database raises after connecting.
LEMMA NoDefaultDatabaseKeeps == ASSUME IInv, NoDefaultDatabase PROVE IInv'
<1> DEFINE n == Order[main.at]
           k == Master[n]
<1>1. /\ main.pc = "connect" /\ main.at <= Len(Order)
      /\ Fails
      /\ CheckOut(n, k)
      /\ main' = [main EXCEPT !.pc = "release", !.node = 1,
                              !.error = "ConfigurationError"]
      /\ UNCHANGED <<adapter, call, registered, monitor>>
  BY DEF NoDefaultDatabase, Keep
<1>2. AdaptersTyped /\ PoolsTyped /\ PoolsKept /\ MainKept
  BY IInvIs DEF CallsTyped
<1>3. main.at \in DOMAIN Order /\ n \in Names
  BY <1>1, MainIs
<1>4. k \in Keys[n] /\ 1 \in DOMAIN Nodes[n]
  <2>1. \A m \in Names : Master[m] \in Keys[m] /\ 1 \in DOMAIN Nodes[m]
    BY NodesAre
  <2> QED BY <1>3, <2>1
<1>5. Unreached(main.at)
  BY <1>1, MainIs DEF Unreached
<1>6. Untouched(n)
  BY <1>2, <1>3, <1>5 DEF PoolsKept, LifeKept
<1> HIDE DEF n, k
<1>7. AdaptersTyped'
  BY <1>1, <1>2 DEF AdaptersTyped
<1>10. /\ PoolsTyped'
       /\ \A m \in Names : \A j \in Keys[m] :
             pool'[m][j] = IF m = n /\ j = k THEN Taken(pool[n][k]) ELSE pool[m][j]
  BY <1>1, <1>2, <1>3, <1>4, CheckedOut
<1>11. "ConfigurationError" \in Errors \cup {NoError, Cancelled}
  BY ErrorsAre DEF Errors
<1>12. main' \in Main /\ main'.pc = "release" /\ main'.at = main.at /\ main'.node = 1
  BY <1>1, <1>11, MainIs DEF Main
<1>13. MainKept'
  BY <1>1, <1>2, <1>4, <1>12 DEF MainKept, n
<1>14. PoolsKept'
  <2> SUFFICES ASSUME NEW i \in DOMAIN Order PROVE LifeKept(i)'
    BY DEF PoolsKept
  <2>1. LifeKept(i) /\ i \in Nat /\ Order[i] \in Names
    BY <1>2, OrderIs DEF PoolsKept
  <2>2. CASE i = main.at
    <3>1. ~Connected(i)' /\ ~Unreached(i)' /\ Disposing(i)'
      BY <1>12, <2>1, <2>2 DEF Connected, Unreached, Disposing
    <3>2. Taken(pool[n][k]) = "open"
      <4>1. pool[n][k] = "unused"
        BY <1>4, <1>6 DEF Untouched
      <4> QED BY <4>1 DEF Taken
    <3>3. \A j \in Keys[n] : pool'[n][j] \in {"unused", "open"}
      BY <1>3, <1>6, <1>10, <3>2 DEF Untouched
    <3>4. DisposedUpTo(Order[i], main.node)'
      <4>1. \A j \in DOMAIN Nodes[n] : Nodes[n][j].key \in Keys[n] /\ ~(j < 1)
        BY <1>3, NodesAre
      <4>2. Order[i] = n
        BY <2>2 DEF n
      <4> QED BY <1>12, <3>3, <4>1, <4>2 DEF DisposedUpTo
    <3> QED BY <3>1, <3>4 DEF LifeKept
  <2>3. CASE i # main.at
    <3>1. Order[i] # n
      BY <1>3, <2>3, OrderIs DEF n
    <3>2. SameLife(Order[i]) /\ (Unused(Order[i]) => Unused(Order[i])')
      BY <1>1, <1>10, <2>1, <3>1 DEF SameLife, Unused, Stranger, InFlight
    <3>3. /\ ~Disposing(i) /\ ~Disposing(i)'
          /\ Unreached(i)' => Unreached(i)
          /\ Connected(i)' <=> Connected(i)
      BY <1>1, <1>12, <2>1, <2>3, MainIs DEF Disposing, Unreached, Connected
    <3> QED BY <2>1, <3>2, <3>3, LifeGoesOn
  <2> QED BY <2>2, <2>3
<1>16. registered \in 0..Len(Order) /\ registered \in Nat
  BY MainIs
<1> QED BY <1>1, <1>7, <1>10, <1>12, <1>13, <1>14, <1>16, MainKeeps

\* Nothing but breakers changes, of the master of a connected adapter.
LEMMA ConnectedBreaker ==
    ASSUME IInv, main.pc = "ping", NEW b \in Breaker,
           \/ UNCHANGED adapter
           \/ adapter'
                  = [adapter EXCEPT ![Order[main.at]].breaker[Master[Order[main.at]]] = b],
           UNCHANGED <<pool, call>>
    PROVE  /\ AdaptersTyped' /\ PoolsTyped'
           /\ \A n \in Names : \A k \in Keys[n] \ {Master[n]} :
                  adapter'[n].breaker[k] = adapter[n].breaker[k]
           /\ \A n \in Names : SameLife(n)
           /\ \A i \in DOMAIN Order : i # main.at /\ Unused(Order[i]) => Unused(Order[i])'
<1> DEFINE n == Order[main.at]
           k == Master[n]
<1>1. AdaptersTyped /\ PoolsTyped
  BY IInvIs DEF CallsTyped
<1>2. main.at \in DOMAIN Order /\ n \in Names /\ k \in Keys[n]
  BY MainIs, NodesAre
<1>3. PoolsTyped'
  BY <1>1 DEF PoolsTyped
<1>4. CASE UNCHANGED adapter
  BY <1>1, <1>3, <1>4, OrderIs, NodesAre
     DEF AdaptersTyped, SameLife, Unused, Stranger, InFlight
<1>5. CASE adapter' = [adapter EXCEPT ![n].breaker[k] = b]
  <2> HIDE DEF n, k
  <2>1. AdaptersTyped' /\ ReadyKept /\ OnlyBreaker(n, k, b)
    BY <1>1, <1>2, <1>5, BreakerSet
  <2>2. \A m \in Names : SameLife(m)
    BY <2>1 DEF ReadyKept, SameLife
  <2>3. \A m \in Names : \A j \in Keys[m] \ {Master[m]} :
                  adapter'[m].breaker[j] = adapter[m].breaker[j]
    BY <2>1 DEF OnlyBreaker, k
  <2>4. \A m \in Names : m # n => (Unused(m) => Unused(m)')
    BY <1>2, <2>1, OthersUnused
  <2>5. \A i \in DOMAIN Order : i # main.at => Order[i] \in Names /\ Order[i] # n
    BY <1>2, OrderIs DEF n
  <2> QED BY <1>3, <2>1, <2>2, <2>3, <2>4, <2>5
<1> QED BY <1>4, <1>5

\* The ping answers: the adapter is registered.
LEMMA PingOkKeeps == ASSUME IInv, PingOk PROVE IInv'
<1> DEFINE n == Order[main.at]
           k == Master[n]
           b == OnSuccess(adapter[n].breaker[k])
           pc == IF main.at = Len(Order) THEN "connected" ELSE "connect"
<1>1. /\ main.pc = "ping"
      /\ adapter' = [adapter EXCEPT ![n].breaker[k] = b]
      /\ registered' = main.at
      /\ main' = [main EXCEPT !.at = main.at + 1, !.attempt = 0, !.pc = pc]
      /\ UNCHANGED <<pool, call, faults, monitor>>
  BY DEF PingOk
<1>2. AdaptersTyped /\ PoolsKept /\ MainKept
  BY IInvIs DEF CallsTyped
<1>3. main.at \in DOMAIN Order /\ n \in Names /\ k \in Keys[n]
  BY <1>1, MainIs, NodesAre
<1>4. b \in Breaker
  BY <1>2, <1>3, BreakersTyped, BreakerSteps
<1>5. /\ AdaptersTyped' /\ PoolsTyped'
      /\ \A m \in Names : \A j \in Keys[m] \ {Master[m]} :
             adapter'[m].breaker[j] = adapter[m].breaker[j]
      /\ \A m \in Names : SameLife(m)
      /\ \A i \in DOMAIN Order : i # main.at /\ Unused(Order[i]) => Unused(Order[i])'
  BY <1>1, <1>4, ConnectedBreaker
<1>6. /\ main.at \in 1..Len(Order) /\ Len(Order) \in Nat /\ main.at \in Nat
      /\ registered = main.at - 1 /\ main \in Main
  BY <1>1, <1>2, <1>3, MainIs, OrderIs DEF MainKept
<1>7. pc \in {"connected", "connect"} /\ main.at + 1 \in 1..(Len(Order) + 1)
      /\ 0 \in 0..MaxAttempts
  BY <1>6, AdaptersAssumption DEF AdaptersAssumption
<1> HIDE DEF pc, b, n, k
<1>8. main' \in Main /\ main'.pc = pc /\ main'.at = main.at + 1
  BY <1>1, <1>6, <1>7 DEF Main
<1>9. pc = "connect" => main.at < Len(Order)
  BY <1>6 DEF pc
<1>10. pc = "connected" => main.at = Len(Order)
  BY DEF pc
<1>11. MainKept'
  BY <1>1, <1>6, <1>7, <1>8, <1>9, <1>10 DEF MainKept
<1>12. PoolsKept'
  <2> SUFFICES ASSUME NEW i \in DOMAIN Order PROVE LifeKept(i)'
    BY DEF PoolsKept
  <2>1. LifeKept(i) /\ i \in Nat /\ Order[i] \in Names /\ i <= Len(Order)
    BY <1>2, OrderIs DEF PoolsKept
  <2>2. /\ ~Disposing(i) /\ ~Disposing(i)'
        /\ Unreached(i)' => Unreached(i) /\ i # main.at
        /\ Connected(i)' <=> Connected(i)
    BY <1>1, <1>6, <1>7, <1>8, <1>10, <2>1 DEF Disposing, Unreached, Connected
  <2> QED BY <1>5, <2>1, <2>2, LifeGoesOn
<1>13. registered' \in 0..Len(Order) /\ registered <= registered'
  BY <1>1, <1>6
<1> QED BY <1>1, <1>5, <1>8, <1>11, <1>12, <1>13, MainKeeps

\* The ping of an adapter that is connecting fails: it is released.
LEMMA ConnectFailsKeeps ==
    ASSUME IInv, main.pc = "ping", NEW error \in Errors \cup {NoError, Cancelled},
           ConnectFails(error), Fails, NEW b \in Breaker,
           adapter' = [adapter EXCEPT ![Order[main.at]].breaker[Master[Order[main.at]]] = b],
           UNCHANGED <<pool, call, registered, monitor>>
    PROVE  IInv'
<1>1. /\ AdaptersTyped' /\ PoolsTyped'
      /\ \A n \in Names : \A k \in Keys[n] \ {Master[n]} :
             adapter'[n].breaker[k] = adapter[n].breaker[k]
      /\ \A n \in Names : SameLife(n)
      /\ \A i \in DOMAIN Order : i # main.at /\ Unused(Order[i]) => Unused(Order[i])'
  BY ConnectedBreaker
<1>2. /\ main' = [main EXCEPT !.pc = "release", !.node = 1, !.error = error]
      /\ main \in Main /\ main.at \in DOMAIN Order /\ Order[main.at] \in Names
      /\ main.at \in Nat /\ registered \in 0..Len(Order) /\ registered \in Nat
  BY MainIs DEF ConnectFails
<1>3. main' \in Main /\ main'.pc = "release" /\ main'.at = main.at /\ main'.node = 1
  BY <1>2 DEF Main
<1>4. MainKept'
  <2>1. MainKept /\ 1 \in DOMAIN Nodes[Order[main.at]]
    BY <1>2, IInvIs, NodesAre
  <2> QED BY <1>3, <2>1 DEF MainKept
<1>5. PoolsKept'
  <2> SUFFICES ASSUME NEW i \in DOMAIN Order PROVE LifeKept(i)'
    BY DEF PoolsKept
  <2>1. LifeKept(i) /\ i \in Nat /\ Order[i] \in Names
    BY IInvIs, OrderIs DEF PoolsKept
  <2>2. /\ ~Disposing(i)
        /\ Unreached(i)' => Unreached(i) /\ i # main.at
        /\ Connected(i)' => Connected(i)
        /\ Disposing(i)' => Connected(i)
        /\ Connected(i) => Connected(i)' \/ Disposing(i)'
    BY <1>2, <1>3, <2>1 DEF Disposing, Unreached, Connected
  <2> QED BY <1>1, <1>3, <2>1, <2>2, LifeGoesOn
<1> QED BY <1>1, <1>2, <1>3, <1>4, <1>5, MainKeeps

\* What a ping raises is an error of the package or of the driver.
LEMMA PingErrorIs ==
    ASSUME NEW n \in Names, NEW raw \in Raises[Kind[n]]
    PROVE  PingError(n, raw) \in Errors
<1>1. raw \in DriverErrors
  BY RaisesAre
<1> QED BY <1>1, RaisedIs DEF PingError, Raised, Errors

\* The ping raises: it is tried again, or the adapter is released.
LEMMA PingRaisesKeeps == ASSUME IInv, PingRaises PROVE IInv'
<1> DEFINE n == Order[main.at]
           k == Master[n]
<1>1. /\ main.pc = "ping" /\ Fails
      /\ UNCHANGED <<pool, call, registered, monitor>>
  BY DEF PingRaises, Keep
<1>2. PICK raw \in Raises[Kind[n]] :
               IF Retries(PingError(n, raw), main.attempt)
               THEN /\ main' = [main EXCEPT !.attempt = @ + 1]
                    /\ UNCHANGED adapter
               ELSE /\ ConnectFails(PingError(n, raw))
                    /\ adapter' = [adapter EXCEPT ![n].breaker[k] =
                           Reported(@, PingError(n, raw), AllExceptions)]
  BY DEF PingRaises
<1>3. main.at \in DOMAIN Order /\ n \in Names
  BY <1>1, MainIs
<1>4. k \in Keys[n]
  BY <1>3, NodesAre
<1>5. PingError(n, raw) \in Errors
  BY <1>3, PingErrorIs
<1> DEFINE error == PingError(n, raw)
           b == Reported(adapter[n].breaker[k], error, AllExceptions)
<1>6. b \in Breaker
  <2>1. adapter[n].breaker[k] \in Breaker
    BY <1>3, <1>4, IInvIs, BreakersTyped DEF CallsTyped
  <2> QED BY <1>5, <2>1, ReportedIs
<1>7. CASE Retries(error, main.attempt)
  <2>1. main' = [main EXCEPT !.attempt = @ + 1] /\ UNCHANGED adapter
    BY <1>2, <1>7
  <2>2. main.attempt + 1 \in 0..MaxAttempts /\ main.attempt \in Nat /\ main \in Main
    BY <1>7, MainIs, AdaptersAssumption DEF Retries, AdaptersAssumption
  <2>3. /\ main' \in Main /\ main'.pc = main.pc /\ main'.at = main.at
        /\ main'.node = main.node /\ main'.attempt = main.attempt + 1
    BY <2>1, <2>2 DEF Main
  <2>4. MainKept'
    BY <1>1, <2>2, <2>3, IInvIs DEF MainKept
  <2>5. PoolsKept'
    <3> SUFFICES ASSUME NEW i \in DOMAIN Order PROVE LifeKept(i)'
      BY DEF PoolsKept
    <3>1. LifeKept(i)
      BY IInvIs DEF PoolsKept
    <3>2. /\ ~Disposing(i) /\ ~Disposing(i)'
          /\ Unreached(i)' <=> Unreached(i)
          /\ Connected(i)' <=> Connected(i)
      BY <1>1, <2>3 DEF Disposing, Unreached, Connected
    <3> QED BY <1>1, <2>1, <3>1, <3>2, NothingTouched, LifeGoesOn
  <2>6. registered \in 0..Len(Order) /\ registered \in Nat
    BY MainIs
  <2> QED BY <1>1, <2>1, <2>3, <2>4, <2>5, <2>6, NothingTouched, MainKeeps
<1>8. CASE ~Retries(error, main.attempt)
  <2>1. /\ ConnectFails(error)
        /\ adapter' = [adapter EXCEPT ![n].breaker[k] = b]
    BY <1>2, <1>8
  <2> QED BY <1>1, <1>5, <1>6, <2>1, ConnectFailsKeeps
<1> QED BY <1>7, <1>8

\* connect_all is cancelled while it pings.
LEMMA CancelPingKeeps == ASSUME IInv, CancelPing PROVE IInv'
<1> DEFINE n == Order[main.at]
           k == Master[n]
           b == OnAbandoned(adapter[n].breaker[k])
<1>1. /\ main.pc = "ping" /\ Fails /\ ConnectFails(Cancelled)
      /\ adapter' = [adapter EXCEPT ![n].breaker[k] = b]
      /\ UNCHANGED <<pool, call, registered, monitor>>
  BY DEF CancelPing, Keep
<1>2. n \in Names
  BY <1>1, MainIs
<1>3. b \in Breaker
  BY <1>2, IInvIs, NodesAre, BreakersTyped, BreakerSteps DEF CallsTyped
<1> QED BY <1>1, <1>3, ConnectFailsKeeps

\* The block ends: disconnect_all begins.
LEMMA ExitKeeps == ASSUME IInv, Exit PROVE IInv'
<1>1. /\ main.pc = "connected" /\ ToDisconnectAll(NoError)
      /\ UNCHANGED <<adapter, pool, call, faults, registered, monitor>>
  BY DEF Exit, adapterVars
<1>2. /\ main' \in Main /\ MainKept' /\ main'.node = 1
      /\ main'.pc \in {"ended", "disconnect"}
      /\ main'.pc = "ended" <=> registered = 0
      /\ main'.pc = "disconnect" => main'.at = 1
  BY <1>1, DisconnectAllIs
<1>3. registered = Len(Order) /\ Len(Order) \in Nat \ {0}
  BY <1>1, MainIs, IInvIs DEF MainKept
<1>4. PoolsKept'
  <2> SUFFICES ASSUME NEW i \in DOMAIN Order PROVE LifeKept(i)'
    BY DEF PoolsKept
  <2>1. LifeKept(i) /\ i \in 1..Len(Order)
    BY IInvIs, OrderIs DEF PoolsKept
  <2>2. /\ ~Disposing(i) /\ ~Unreached(i)'
        /\ Connected(i)' => Connected(i)
        /\ Disposing(i)' => Connected(i)
        /\ Connected(i) => Connected(i)' \/ Disposing(i)'
    BY <1>1, <1>2, <1>3, <2>1 DEF Disposing, Unreached, Connected
  <2> QED BY <1>1, <1>2, <2>1, <2>2, NothingTouched, LifeGoesOn
<1>5. registered' \in 0..Len(Order)
  BY <1>1, MainIs
<1> QED BY <1>1, <1>2, <1>4, <1>5, NothingTouched, MainKeeps

\* disconnect() of the current adapter is over, well or not.
LEMMA LetGoKeeps ==
    ASSUME IInv, main.pc \in {"release", "disconnect"},
           \/ /\ main.pc = "release"
              /\ \E error \in Errors \cup {NoError, Cancelled} : ToDisconnectAll(error)
              /\ UNCHANGED registered
           \/ main.pc = "disconnect" /\ AfterDisconnect,
           AdaptersTyped', PoolsTyped', UNCHANGED <<call, monitor>>,
           Fails \/ UNCHANGED faults,
           \A n \in Names : \A k \in Keys[n] :
               adapter'[n].breaker[k] = adapter[n].breaker[k],
           NEW a \in DOMAIN Order, a = main.at, LetGo(Order[a])',
           \A n \in Names : n # Order[a] => SameLife(n)
    PROVE  IInv'
<1>1. /\ main \in Main /\ main.at \in Nat /\ registered \in 0..Len(Order)
      /\ registered \in Nat /\ Len(Order) \in Nat \ {0} /\ MainKept
      /\ main.at \in 1..(Len(Order) + 1)
  BY MainIs, IInvIs
<1>2. \A n \in Names : Unused(n) => Unused(n)'
  BY NodesAre DEF Unused, Stranger, InFlight
<1>3. ASSUME NEW i \in DOMAIN Order, i # a
      PROVE  LifeKept(i) /\ SameLife(Order[i]) /\ (Unused(Order[i]) => Unused(Order[i])')
             /\ i \in 1..Len(Order) /\ i \in Nat /\ ~Disposing(i)
  BY <1>2, <1>3, IInvIs, OrderIs DEF PoolsKept, Disposing
<1>4. ASSUME ~Unreached(a)', ~Connected(a)', ~Disposing(a)',
             \A i \in DOMAIN Order \ {a} :
                 /\ Unreached(i)' => Unreached(i)
                 /\ Connected(i)' => Connected(i)
                 /\ Disposing(i)' => Connected(i)
                 /\ Connected(i) => Connected(i)' \/ Disposing(i)',
             main'.pc = "disconnect" => main'.node = 1
      PROVE  PoolsKept'
  <2> SUFFICES ASSUME NEW i \in DOMAIN Order PROVE LifeKept(i)'
    BY DEF PoolsKept
  <2>1. CASE i = a
    BY <1>4, <2>1 DEF LifeKept
  <2>2. CASE i # a
    <3>1. Disposing(i)' => main'.node = 1
      <4>1. Disposing(i)' => main'.pc \in {"release", "disconnect"}
        BY DEF Disposing
      <4>2. main'.pc # "release"
        <5>1. ASSUME NEW error, ToDisconnectAll(error) PROVE main'.pc # "release"
          BY <1>1, <5>1 DEF ToDisconnectAll, Main
        <5>2. ASSUME main.pc = "disconnect", AfterDisconnect PROVE main'.pc # "release"
          BY <1>1, <5>2 DEF AfterDisconnect, Main
        <5> QED BY <5>1, <5>2
      <4> QED BY <1>4, <4>1, <4>2
    <3> QED BY <1>3, <1>4, <2>2, <3>1, LifeGoesOn
  <2> QED BY <2>1, <2>2
<1>5. CASE main.pc = "release"
  <2>1. PICK error \in Errors \cup {NoError, Cancelled} : ToDisconnectAll(error)
    BY <1>5
  <2>2. UNCHANGED registered /\ registered = main.at - 1
    BY <1>1, <1>5 DEF MainKept
  <2>3. /\ main' \in Main /\ MainKept' /\ main'.node = 1
        /\ main'.pc \in {"ended", "disconnect"}
        /\ main'.pc = "ended" <=> registered = 0
        /\ main'.pc = "disconnect" => main'.at = 1
    BY <2>1, <2>2, DisconnectAllIs
  <2>4. ~Unreached(a)' /\ ~Connected(a)' /\ ~Disposing(a)'
    BY <1>1, <2>2, <2>3 DEF Unreached, Connected, Disposing
  <2>5. ASSUME NEW i \in DOMAIN Order, i # a
        PROVE  /\ Unreached(i)' => Unreached(i)
               /\ Connected(i)' => Connected(i)
               /\ Disposing(i)' => Connected(i)
               /\ Connected(i) => Connected(i)' \/ Disposing(i)'
    BY <1>1, <1>3, <1>5, <2>2, <2>3, <2>5 DEF Unreached, Connected, Disposing
  <2>6. PoolsKept'
    BY <1>4, <2>3, <2>4, <2>5
  <2>7. registered' \in 0..Len(Order)
    BY <1>1, <2>2
  <2> QED BY <2>3, <2>6, <2>7, MainKeeps
<1>6. CASE main.pc = "disconnect" /\ main.at < registered
  <2>1. main' = [main EXCEPT !.at = main.at + 1, !.node = 1] /\ UNCHANGED registered
    BY <1>6 DEF AfterDisconnect
  <2>2. main.at + 1 \in 1..(Len(Order) + 1) /\ main.at + 1 \in DOMAIN Order
    BY <1>1, <1>6, OrderIs
  <2>3. /\ main' \in Main /\ main'.pc = "disconnect" /\ main'.node = 1
        /\ main'.at = main.at + 1
    BY <1>1, <1>6, <2>1, <2>2 DEF Main
  <2>4. MainKept'
    <3>1. 1 \in DOMAIN Nodes[Order[main.at + 1]]
      BY <2>2, OrderIs, NodesAre
    <3> QED BY <1>1, <1>6, <2>1, <2>3, <3>1 DEF MainKept
  <2>5. ~Unreached(a)' /\ ~Connected(a)' /\ ~Disposing(a)'
    BY <1>1, <2>3 DEF Unreached, Connected, Disposing
  <2>6. ASSUME NEW i \in DOMAIN Order, i # a
        PROVE  /\ Unreached(i)' => Unreached(i)
               /\ Connected(i)' => Connected(i)
               /\ Disposing(i)' => Connected(i)
               /\ Connected(i) => Connected(i)' \/ Disposing(i)'
    BY <1>1, <1>3, <1>6, <2>1, <2>3, <2>6 DEF Unreached, Connected, Disposing
  <2>7. PoolsKept'
    BY <1>4, <2>3, <2>5, <2>6
  <2>8. registered' \in 0..Len(Order)
    BY <1>1, <2>1
  <2> QED BY <2>3, <2>4, <2>7, <2>8, MainKeeps
<1>7. CASE main.pc = "disconnect" /\ ~(main.at < registered)
  <2>1. main' = [main EXCEPT !.pc = "ended"] /\ registered' = 0
    BY <1>7 DEF AfterDisconnect
  <2>2. main' \in Main /\ main'.pc = "ended"
    BY <1>1, <2>1 DEF Main
  <2>3. MainKept'
    BY <2>2 DEF MainKept
  <2>4. main.at = registered
    BY <1>1, <1>7 DEF MainKept
  <2>5. ASSUME NEW i \in DOMAIN Order
        PROVE  ~Unreached(i)' /\ ~Connected(i)' /\ ~Disposing(i)'
    BY <2>2 DEF Unreached, Connected, Disposing
  <2>6. ASSUME NEW i \in DOMAIN Order, i # a
        PROVE  ~Connected(i)
    BY <1>1, <1>3, <1>7, <2>4, <2>6 DEF Connected
  <2>7. PoolsKept'
    BY <1>4, <2>2, <2>5, <2>6
  <2>8. registered' \in 0..Len(Order)
    BY <1>1, <2>1
  <2> QED BY <2>2, <2>3, <2>7, <2>8, MainKeeps
<1> QED BY <1>5, <1>6, <1>7

\* The next thing after a disconnect(), as LetGoKeeps wants it.
LEMMA DisconnectEnds ==
    ASSUME IInv, main.pc \in {"release", "disconnect"}, AfterDisconnect
    PROVE  \/ /\ main.pc = "release"
              /\ \E error \in Errors \cup {NoError, Cancelled} : ToDisconnectAll(error)
              /\ UNCHANGED registered
           \/ main.pc = "disconnect" /\ AfterDisconnect
<1>1. main.error \in Errors \cup {NoError, Cancelled}
  BY MainIs
<1>2. CASE main.pc = "release"
  <2>1. ToDisconnectAll(main.error) /\ UNCHANGED registered
    BY <1>2 DEF AfterDisconnect
  <2> QED BY <1>1, <1>2, <2>1
<1> QED BY <1>2

\* A step sets one pool.
LEMMA PoolsTypedAt ==
    ASSUME PoolsTyped, NEW n \in Names, NEW k \in Keys[n], NEW state \in PoolState,
           pool' = [pool EXCEPT ![n][k] = state]
    PROVE  /\ PoolsTyped'
           /\ \A m \in Names : \A j \in Keys[m] :
                 pool'[m][j] = IF m = n /\ j = k THEN state ELSE pool[m][j]
<1> DEFINE y == [pool[n] EXCEPT ![k] = state]
<1>1. pool[n] \in [Keys[n] -> PoolState]
  BY DEF PoolsTyped
<1>2. y \in [Keys[n] -> PoolState]
      /\ \A j \in Keys[n] : y[j] = IF j = k THEN state ELSE pool[n][j]
  BY <1>1
<1>3. DOMAIN pool' = Names /\ \A m \in Names : pool'[m] = IF m = n THEN y ELSE pool[m]
  BY DEF PoolsTyped
<1> HIDE DEF y
<1> QED BY <1>2, <1>3 DEF PoolsTyped

\* The task disposes of node main.node of the a-th adapter.
LEMMA AtNode ==
    ASSUME IInv, NEW a \in DOMAIN Order, a = main.at,
           main.pc \in {"release", "disconnect"}
    PROVE  /\ Order[a] \in Names /\ main.node \in DOMAIN Nodes[Order[a]]
           /\ main.node \in Nat
           /\ Nodes[Order[a]][main.node].key \in Keys[Order[a]]
           /\ DisposedUpTo(Order[a], main.node)
<1>1. MainKept /\ PoolsKept
  BY IInvIs
<1>2. main.node \in DOMAIN Nodes[Order[a]]
  BY <1>1 DEF MainKept
<1>3. Disposing(a)
  BY DEF Disposing
<1>4. DisposedUpTo(Order[a], main.node)
  BY <1>1, <1>3 DEF PoolsKept, LifeKept
<1> QED BY <1>2, <1>4, OrderIs, NodesAre, MainIs

\* An engine is disposed of; after the last the adapter is no longer ready.
LEMMA DisposeOkKeeps == ASSUME IInv, DisposeOk PROVE IInv'
<1>1. main.pc \in {"release", "disconnect"}
  BY DEF DisposeOk
<1>2. PICK a \in DOMAIN Order : a = main.at
  BY <1>1, MainIs
<1> DEFINE n == Order[a]
           k == Nodes[n][main.node].key
<1>3. /\ n \in Names /\ main.node \in DOMAIN Nodes[n] /\ main.node \in Nat
      /\ k \in Keys[n] /\ DisposedUpTo(n, main.node)
  BY <1>1, <1>2, AtNode
<1>4. /\ pool' = [pool EXCEPT ![n][k] = "closed"]
      /\ UNCHANGED <<call, faults, monitor>>
      /\ IF main.node = Len(Nodes[n])
           THEN /\ adapter' = [adapter EXCEPT ![n] = [@ EXCEPT !.ready = FALSE]]
                /\ AfterDisconnect
           ELSE /\ main' = [main EXCEPT !.node = main.node + 1]
                /\ UNCHANGED <<adapter, registered>>
  BY <1>2 DEF DisposeOk, Disconnected
<1>5. AdaptersTyped /\ PoolsTyped
  BY IInvIs DEF CallsTyped
<1> HIDE DEF n, k
<1>6. "closed" \in PoolState
  BY DEF PoolState
<1>7. /\ PoolsTyped'
      /\ \A m \in Names : \A j \in Keys[m] :
            pool'[m][j] = IF m = n /\ j = k THEN "closed" ELSE pool[m][j]
  <2>1. n \in Names /\ k \in Keys[n]
    BY <1>3
  <2>2. pool' = [pool EXCEPT ![n][k] = "closed"]
    BY <1>4
  <2>3. PoolsTyped
    BY <1>5
  <2> QED BY <1>6, <2>1, <2>2, <2>3, PoolsTypedAt
<1>8. ASSUME NEW j \in DOMAIN Nodes[n]
      PROVE  pool'[n][Nodes[n][j].key] \in
                IF j < main.node + 1 THEN {"closed", "reopened"} ELSE {"unused", "open"}
  <2>1. /\ Nodes[n][j].key \in Keys[n] /\ j \in Nat
        /\ Nodes[n][j].key = k => j = main.node
    BY <1>3, NodesAre DEF k
  <2>2. pool[n][Nodes[n][j].key] \in
                IF j < main.node THEN {"closed", "reopened"} ELSE {"unused", "open"}
    BY <1>3 DEF DisposedUpTo
  <2>3. CASE j = main.node
    <3>1. pool'[n][Nodes[n][j].key] = "closed"
      BY <1>3, <1>7, <2>1, <2>3 DEF k
    <3> QED BY <1>3, <2>3, <3>1
  <2>4. CASE j # main.node
    <3>1. pool'[n][Nodes[n][j].key] = pool[n][Nodes[n][j].key]
      BY <1>3, <1>7, <2>1, <2>4
    <3>2. j < main.node + 1 <=> j < main.node
      BY <1>3, <2>1, <2>4
    <3> QED BY <2>2, <3>1, <3>2
  <2> QED BY <2>3, <2>4
<1>9. CASE main.node = Len(Nodes[n])
  <2>1. adapter' = [adapter EXCEPT ![n] = [@ EXCEPT !.ready = FALSE]] /\ AfterDisconnect
    BY <1>4, <1>9
  <2> DEFINE y == [adapter[n] EXCEPT !.ready = FALSE]
  <2>2. y \in Adapter(n) /\ ~y.ready /\ y.breaker = adapter[n].breaker
    BY <1>3, <1>5 DEF AdaptersTyped, Adapter
  <2>3. DOMAIN adapter' = Names
            /\ \A m \in Names : adapter'[m] = IF m = n THEN y ELSE adapter[m]
    BY <1>5, <2>1 DEF AdaptersTyped
  <2> HIDE DEF y
  <2>4. AdaptersTyped' /\ ~adapter'[n].ready
        /\ \A m \in Names : \A j \in Keys[m] : adapter'[m].breaker[j]
               = adapter[m].breaker[j]
    BY <1>3, <1>5, <2>2, <2>3 DEF AdaptersTyped
  <2>5. ASSUME NEW j \in Keys[n] PROVE pool'[n][j] \in {"closed", "reopened"}
    <3>1. PICK i \in DOMAIN Nodes[n] : Nodes[n][i].key = j
      BY <1>3, NodesAre
    <3>2. i < main.node + 1
      BY <1>3, <1>9, NodesAre
    <3> QED BY <1>8, <3>1, <3>2
  <2>6. LetGo(n)'
    BY <2>4, <2>5 DEF LetGo, n
  <2>7. \A m \in Names : m # n => SameLife(m)
    BY <1>7, <2>3 DEF SameLife
  <2>8. \/ /\ main.pc = "release"
           /\ \E error \in Errors \cup {NoError, Cancelled} : ToDisconnectAll(error)
           /\ UNCHANGED registered
        \/ main.pc = "disconnect" /\ AfterDisconnect
    BY <1>1, <2>1, DisconnectEnds
  <2>9. UNCHANGED <<call, monitor>> /\ UNCHANGED faults
    BY <1>4
  <2> QED BY <1>1, <1>2, <1>7, <2>4, <2>6, <2>7, <2>8, <2>9, LetGoKeeps DEF n
<1>10. CASE main.node # Len(Nodes[n])
  <2>1. main' = [main EXCEPT !.node = main.node + 1] /\ UNCHANGED <<adapter, registered>>
    BY <1>4, <1>10
  <2>2. /\ main' \in Main /\ main'.pc = main.pc /\ main'.at = main.at
        /\ main'.node = main.node + 1
    BY <1>3, <2>1, MainIs DEF Main
  <2>3. main.node + 1 \in DOMAIN Nodes[n]
    BY <1>3, <1>10, NodesAre
  <2>4. MainKept'
    <3>1. MainKept
      BY IInvIs
    <3>2. main.node + 1 \in DOMAIN Nodes[Order[main.at]]
      BY <1>2, <2>3 DEF n
    <3> QED BY <1>1, <2>1, <2>2, <3>1, <3>2 DEF MainKept
  <2>5. PoolsKept'
    <3> SUFFICES ASSUME NEW i \in DOMAIN Order PROVE LifeKept(i)'
      BY DEF PoolsKept
    <3>1. LifeKept(i) /\ Order[i] \in Names /\ i \in Nat
      BY IInvIs, OrderIs DEF PoolsKept
    <3>2. /\ Disposing(i)' <=> Disposing(i)
          /\ Connected(i)' <=> Connected(i)
          /\ Unreached(i)' <=> Unreached(i)
          /\ Disposing(i) <=> i = a
      BY <1>1, <1>2, <2>1, <2>2 DEF Disposing, Connected, Unreached
    <3>3. CASE i = a
      <4>1. DisposedUpTo(Order[i], main.node)'
        BY <1>8, <2>2, <3>3 DEF DisposedUpTo, n
      <4>2. Disposing(i)' /\ ~Connected(i)' /\ ~Unreached(i)'
        BY <1>1, <1>2, <3>2, <3>3, MainIs DEF Disposing, Connected, Unreached
      <4> QED BY <4>1, <4>2 DEF LifeKept
    <3>4. CASE i # a
      <4>1. Order[i] # n
        BY <3>4, OrderIs DEF n
      <4>2. SameLife(Order[i]) /\ (Unused(Order[i]) => Unused(Order[i])')
        BY <1>4, <1>7, <2>1, <3>1, <4>1 DEF SameLife, Unused, Stranger, InFlight
      <4> QED BY <3>1, <3>2, <3>4, <4>2, LifeGoesOn
    <3> QED BY <3>3, <3>4
  <2>6. AdaptersTyped'
    BY <1>5, <2>1 DEF AdaptersTyped
  <2>7. /\ UNCHANGED <<call, monitor>> /\ UNCHANGED faults
        /\ registered' \in 0..Len(Order) /\ registered <= registered'
    BY <1>4, <2>1, MainIs
  <2>8. \A m \in Names : \A j \in Keys[m] : adapter'[m].breaker[j] = adapter[m].breaker[j]
    BY <2>1
  <2>9. main'.pc \in {"connect", "ping", "release"}
            => main.pc \in {"connect", "ping", "release"}
    BY <2>2
  <2> QED BY <1>7, <2>2, <2>4, <2>5, <2>6, <2>7, <2>8, <2>9, MainKeeps
<1> QED BY <1>9, <1>10

\* A disposal that goes wrong leaves something behind.
LEMMA AbandonedIs ==
    ASSUME PoolsTyped, NEW n \in Names
    PROVE  /\ Abandoned(n) \in [Keys[n] -> PoolState]
           /\ \A k \in Keys[n] :
                /\ Abandoned(n)[k] \in {"closed", "abandoned"}
                /\ pool[n][k] # "closed" => Abandoned(n)[k] = "abandoned"
BY DEF Abandoned, PoolState

\* An adapter whose disposal goes wrong is let go.
LEMMA AbandonedLets ==
    ASSUME IInv, NEW a \in DOMAIN Order, pool'[Order[a]] = Abandoned(Order[a]),
           \/ Connected(a)
           \/ a = main.at /\ main.pc \in {"release", "disconnect"}
    PROVE  LetGo(Order[a])'
<1> DEFINE n == Order[a]
<1>1. PoolsTyped /\ PoolsKept /\ n \in Names
  BY IInvIs, OrderIs DEF CallsTyped
<1>2. \A k \in Keys[n] : pool'[n][k] \in {"closed", "abandoned"}
                         /\ (pool[n][k] # "closed" => pool'[n][k] = "abandoned")
  BY <1>1, AbandonedIs
<1>3. \E k \in Keys[n] : pool[n][k] # "closed"
  <2>1. CASE Connected(a)
    <3>1. Fresh(n)
      BY <1>1, <2>1 DEF PoolsKept, LifeKept
    <3>2. Master[n] \in Keys[n]
      BY <1>1, NodesAre
    <3> QED BY <3>1, <3>2 DEF Fresh
  <2>2. CASE a = main.at /\ main.pc \in {"release", "disconnect"}
    <3>1. /\ main.node \in DOMAIN Nodes[n] /\ main.node \in Nat
          /\ Nodes[n][main.node].key \in Keys[n] /\ DisposedUpTo(n, main.node)
      BY <2>2, AtNode
    <3>2. pool[n][Nodes[n][main.node].key] \in {"unused", "open"}
      BY <3>1 DEF DisposedUpTo
    <3> QED BY <3>1, <3>2
  <2> QED BY <2>1, <2>2
<1> HIDE DEF n
<1>4. \E k \in Keys[n] : pool'[n][k] = "abandoned"
  BY <1>2, <1>3
<1> QED BY <1>2, <1>4 DEF LetGo, n

\* A disposal that goes wrong keeps the invariant.
LEMMA AbandonKeeps ==
    ASSUME IInv, main.pc \in {"release", "disconnect"},
           NEW a \in DOMAIN Order, a = main.at,
           pool' = [pool EXCEPT ![Order[a]] = Abandoned(Order[a])],
           \/ /\ main.pc = "release"
              /\ \E error \in Errors \cup {NoError, Cancelled} : ToDisconnectAll(error)
              /\ UNCHANGED registered
           \/ main.pc = "disconnect" /\ AfterDisconnect,
           Fails, UNCHANGED <<adapter, call, monitor>>
    PROVE  IInv'
<1> DEFINE n == Order[a]
<1>1. AdaptersTyped /\ PoolsTyped /\ n \in Names
  BY IInvIs, OrderIs DEF CallsTyped
<1>2. \A m \in Names : pool'[m] = IF m = n THEN Abandoned(n) ELSE pool[m]
  BY <1>1 DEF PoolsTyped
<1>3. PoolsTyped'
  BY <1>1, <1>2, AbandonedIs DEF PoolsTyped
<1>4. AdaptersTyped'
  BY <1>1 DEF AdaptersTyped
<1>5. LetGo(n)'
  BY <1>1, <1>2, AbandonedLets
<1>6. \A m \in Names : m # n => SameLife(m)
  BY <1>2 DEF SameLife
<1> QED BY <1>3, <1>4, <1>5, <1>6, LetGoKeeps

\* dispose() raises.
LEMMA DisposeRaisesKeeps == ASSUME IInv, DisposeRaises PROVE IInv'
<1>1. /\ main.pc \in {"release", "disconnect"} /\ Fails
      /\ pool' = [pool EXCEPT ![Order[main.at]] = Abandoned(Order[main.at])]
      /\ AfterDisconnect
      /\ UNCHANGED <<adapter, call, monitor>>
  BY DEF DisposeRaises
<1>2. PICK a \in DOMAIN Order : a = main.at
  BY <1>1, MainIs
<1> QED BY <1>1, <1>2, DisconnectEnds, AbandonKeeps

\* The task is cancelled while it disposes.
LEMMA CancelDisposeKeeps == ASSUME IInv, CancelDispose PROVE IInv'
<1>1. /\ main.pc \in {"release", "disconnect"} /\ Fails
      /\ UNCHANGED <<adapter, call, registered, monitor>>
  BY DEF CancelDispose
<1>2. PICK a \in DOMAIN Order : a = main.at
  BY <1>1, MainIs
<1>3. CASE /\ main.pc = "release"
           /\ pool' = [pool EXCEPT ![Order[main.at]] = Abandoned(Order[main.at])]
           /\ ToDisconnectAll(Cancelled)
  BY <1>1, <1>2, <1>3, AbandonKeeps
<1>4. CASE /\ main.pc = "disconnect"
           /\ pool' = [p \in Names |->
                  IF \E i \in main.at..registered : Order[i] = p
                  THEN Abandoned(p) ELSE pool[p]]
           /\ main' = [main EXCEPT !.pc = "ended", !.error = Cancelled]
  <2>1. AdaptersTyped /\ PoolsTyped /\ PoolsKept
    BY IInvIs DEF CallsTyped
  <2>2. PoolsTyped'
    BY <1>4, <2>1, AbandonedIs DEF PoolsTyped
  <2>3. main' \in Main /\ main'.pc = "ended"
    BY <1>4, MainIs DEF Main
  <2>4. MainKept'
    BY <2>3 DEF MainKept
  <2>5. registered \in Nat /\ main.at \in Nat /\ main.at <= registered
    BY <1>4, MainIs, IInvIs DEF MainKept
  <2>6. PoolsKept'
    <3> SUFFICES ASSUME NEW i \in DOMAIN Order PROVE LifeKept(i)'
      BY DEF PoolsKept
    <3>1. ~Unreached(i)' /\ ~Connected(i)' /\ ~Disposing(i)'
      BY <2>3 DEF Unreached, Connected, Disposing
    <3>2. LifeKept(i) /\ Order[i] \in Names /\ i \in Nat
      BY <2>1, OrderIs DEF PoolsKept
    <3>3. CASE i \in main.at..registered
      <4>1. pool'[Order[i]] = Abandoned(Order[i])
        BY <1>4, <3>2, <3>3
      <4>2. Connected(i) \/ i = main.at
        BY <1>4, <2>5, <3>2, <3>3 DEF Connected
      <4>3. LetGo(Order[i])'
        BY <1>1, <4>1, <4>2, AbandonedLets
      <4> QED BY <3>1, <4>3 DEF LifeKept
    <3>4. CASE i \notin main.at..registered
      <4>1. \A j \in main.at..registered : Order[j] # Order[i]
        <5>1. main.at..registered \subseteq DOMAIN Order
          BY <2>5, MainIs, OrderIs
        <5> QED BY <3>4, <5>1, OrderIs
      <4>2. SameLife(Order[i])
        BY <1>1, <1>4, <3>2, <4>1 DEF SameLife
      <4>3. ~Connected(i) /\ ~Disposing(i)
        BY <1>4, <2>5, <3>2, <3>4 DEF Connected, Disposing
      <4> QED BY <3>1, <3>2, <4>2, <4>3, LifeGoesOn
    <3> QED BY <3>3, <3>4
  <2>7. AdaptersTyped'
    BY <1>1, <2>1 DEF AdaptersTyped
  <2>8. registered' \in 0..Len(Order)
    BY <1>1, MainIs
  <2> QED BY <1>1, <2>2, <2>3, <2>4, <2>6, <2>7, <2>8, MainKeeps
<1> QED BY <1>3, <1>4 DEF CancelDispose

\* The fields of the monitor have their types.
LEMMA MonitorIs ==
    ASSUME IInv
    PROVE  /\ monitor \in Monitor /\ MonitorKept
           /\ monitor.size \in 0..Len(Order) /\ monitor.at \in 0..Len(Order)
           /\ monitor.size \in Nat /\ monitor.at \in Nat
           /\ monitor.report \in Seq(HealthStatus) /\ Len(monitor.report) \in Nat
           /\ monitor.pc \in {"idle", "next", "ping", "replica", "done"}
           /\ registered \in 0..Len(Order) /\ registered \in Nat /\ Len(Order) \in Nat
           /\ monitor.pc \in {"ping", "replica"} =>
                  /\ monitor.at \in DOMAIN Order
                  /\ Checked \in Names
                  /\ monitor.at <= monitor.size
<1>1. /\ monitor \in Monitor /\ MonitorKept /\ registered \in 0..Len(Order)
      /\ registered \in Nat /\ Len(Order) \in Nat
  BY IInvIs, MainIs
<1>2. /\ monitor.size \in 0..Len(Order) /\ monitor.at \in 0..Len(Order)
      /\ monitor.size \in Nat /\ monitor.at \in Nat
      /\ monitor.report \in Seq(HealthStatus)
      /\ monitor.pc \in {"idle", "next", "ping", "replica", "done"}
  BY <1>1 DEF Monitor
<1>3. Len(monitor.report) \in Nat
  BY <1>2
<1>4. ASSUME monitor.pc \in {"ping", "replica"}
      PROVE  monitor.at \in DOMAIN Order /\ Checked \in Names /\ monitor.at <= monitor.size
  <2>1. monitor.at = Len(monitor.report) + 1 /\ monitor.at <= monitor.size
    BY <1>1, <1>4 DEF MonitorKept
  <2>2. monitor.at \in DOMAIN Order
    BY <1>2, <1>3, <2>1, OrderIs
  <2> QED BY <2>1, <2>2, OrderIs DEF Checked
<1> QED BY <1>1, <1>2, <1>3, <1>4

\* At most one ping begins, on a ready adapter.
Pinged ==
    \/ UNCHANGED pool
    \/ \E n \in Names : \E k \in Keys[n] : adapter[n].ready /\ CheckOut(n, k)

\* What that does to the pools.
LEMMA PingedIs ==
    ASSUME PoolsTyped, Pinged
    PROVE  PoolsTyped' /\ PoolsStay
<1>1. CASE UNCHANGED pool
  BY <1>1 DEF PoolsTyped, PoolsStay
<1>2. CASE \E n \in Names : \E k \in Keys[n] : adapter[n].ready /\ CheckOut(n, k)
  BY <1>2, CheckedOut
<1> QED BY <1>1, <1>2 DEF Pinged

\* A step of the monitor changes at most a pool that it pings and the breaker of
\* the master of an adapter that was registered when it began.
LEMMA HealthKeeps ==
    ASSUME IInv, UNCHANGED <<call, registered, main>>, Fails \/ UNCHANGED faults,
           Pinged, monitor' \in Monitor, MonitorKept',
           \/ UNCHANGED adapter
           \/ \E a \in DOMAIN Order : \E b \in Breaker :
                 /\ a <= monitor.size
                 /\ adapter' = [adapter EXCEPT ![Order[a]].breaker[Master[Order[a]]] = b]
    PROVE  IInv'
<1>1. /\ CallsTyped /\ CallsKept /\ SlotsHeld /\ PoolsKept /\ MainKept /\ MonitorKept
      /\ registered \in 0..Len(Order) /\ main \in Main
  BY IInvIs
<1>2. AdaptersTyped /\ PoolsTyped /\ PoolsTyped' /\ PoolsStay
  BY <1>1, PingedIs DEF CallsTyped
<1>3. /\ AdaptersTyped' /\ ReadyKept
      /\ \A n \in Names : \A k \in Keys[n] \ {Master[n]} :
             adapter'[n].breaker[k] = adapter[n].breaker[k]
      /\ \A i \in DOMAIN Order :
             Unreached(i) =>
                 adapter'[Order[i]].breaker[Master[Order[i]]] =
                     adapter[Order[i]].breaker[Master[Order[i]]]
  <2>1. CASE UNCHANGED adapter
    BY <1>2, <2>1 DEF AdaptersTyped, ReadyKept
  <2>2. CASE \E a \in DOMAIN Order : \E b \in Breaker :
                 /\ a <= monitor.size
                 /\ adapter' = [adapter EXCEPT ![Order[a]].breaker[Master[Order[a]]] = b]
    <3>1. PICK a \in DOMAIN Order, b \in Breaker :
                 /\ a <= monitor.size
                 /\ adapter' = [adapter EXCEPT ![Order[a]].breaker[Master[Order[a]]] = b]
      BY <2>2
    <3> DEFINE n == Order[a]
               k == Master[n]
    <3>2. n \in Names /\ k \in Keys[n]
      BY OrderIs, NodesAre
    <3>3. adapter' = [adapter EXCEPT ![n].breaker[k] = b]
      BY <3>1
    <3> HIDE DEF n, k
    <3>4. AdaptersTyped' /\ ReadyKept /\ OnlyBreaker(n, k, b)
      BY <1>2, <3>2, <3>3, BreakerSet
    <3>5. \A m \in Names : \A j \in Keys[m] \ {Master[m]} :
             adapter'[m].breaker[j] = adapter[m].breaker[j]
      BY <3>4 DEF OnlyBreaker, k
    <3>6. ASSUME NEW i \in DOMAIN Order, Unreached(i)
          PROVE  Order[i] # n
      <4>1. main.pc \in {"connect", "ping", "release"} /\ registered = main.at - 1
        BY <1>1, <3>6 DEF Unreached, MainKept
      <4>2. monitor.size <= registered
        BY <1>1, <4>1 DEF MonitorKept
      <4>3. registered < i
        BY <3>6, <4>1, MainIs, OrderIs DEF Unreached
      <4>4. i # a
        BY <3>1, <4>2, <4>3, MonitorIs, OrderIs
      <4> QED BY <4>4, OrderIs DEF n
    <3>7. \A i \in DOMAIN Order : Unreached(i) =>
             adapter'[Order[i]].breaker[Master[Order[i]]] =
                 adapter[Order[i]].breaker[Master[Order[i]]]
      BY <3>4, <3>6, OrderIs, NodesAre DEF OnlyBreaker
    <3> QED BY <3>4, <3>5, <3>7
  <2> QED BY <2>1, <2>2
<1>4. CallsTyped' /\ CallsKept' /\ MainKept'
  BY <1>1, <1>2, <1>3, FaultsStay DEF CallsTyped, CallsKept, MainKept
<1>5. SlotsHeld'
  BY <1>1, <1>3, SlotsKeptWithoutCalls
<1>6. PoolsKept'
  <2>2. ASSUME NEW n \in Names, Unused(n), NEW i
                   \in DOMAIN Order, Unreached(i), Order[i] = n
        PROVE  Unused(n)'
    BY <1>3, <2>2 DEF Unused, Stranger, InFlight
  <2> QED BY <1>1, <1>2, <1>3, <2>2, PoolsKeptByCalls
<1> QED BY <1>1, <1>4, <1>5, <1>6, IInvNext

\* The parts of a monitor record, as sets.
Steps == {"idle", "next", "ping", "replica", "done"}
Positions == 0..Len(Order)
Report == Seq(HealthStatus)
MonitorErrors == {NoError, "RuntimeError", Cancelled}

\* The records that Monitor is a set of.
LEMMA MonitorSet ==
    Monitor = [ pc : Steps, size : Positions, at : Positions, node : Nat, down : BOOLEAN,
                report : Report, error : MonitorErrors ]
BY DEF Monitor, Steps, Positions, Report, MonitorErrors

\* The monitor when its question is over.
DoneOf(m, error, down) ==
    [m EXCEPT !.pc = "done", !.error = error, !.size = 0, !.at = 0, !.node = 0,
              !.down = down]

\* It is a monitor again.
LEMMA DoneSet ==
    ASSUME NEW m \in Monitor, NEW error \in MonitorErrors, NEW down \in BOOLEAN
    PROVE  LET r == DoneOf(m, error, down)
           IN  /\ r \in Monitor /\ r.pc = "done" /\ r.at = 0 /\ r.size = 0
               /\ r.error = error /\ r.report = m.report
<1>1. 0 \in Positions /\ "done" \in Steps
  BY OrderIs DEF Positions, Steps
<1> QED BY <1>1, MonitorSet DEF DoneOf

\* The monitor with one more answer in the report.
AnswerOf(m, report, down) ==
    [m EXCEPT !.pc = "next", !.report = report, !.node = 0, !.down = down]

\* It is a monitor again.
LEMMA AnswerSet ==
    ASSUME NEW m \in Monitor, NEW report \in Report, NEW down \in BOOLEAN
    PROVE  LET r == AnswerOf(m, report, down)
           IN  /\ r \in Monitor /\ r.pc = "next" /\ r.at = m.at /\ r.size = m.size
               /\ r.report = report
BY MonitorSet DEF Steps, AnswerOf

\* health_check() returns or raises.
LEMMA AskedIs ==
    ASSUME IInv, NEW error \in {NoError, "RuntimeError", Cancelled}, monitor'
        = Asked(error),
           UNCHANGED <<registered, main>>
    PROVE  monitor' \in Monitor /\ MonitorKept' /\ monitor'.pc = "done"
           /\ monitor'.error = error /\ monitor'.report = monitor.report
<1>1. PICK down \in BOOLEAN : Asked(error) = DoneOf(monitor, error, down)
  BY Zenon DEF Asked, DoneOf
<1>2. monitor \in Monitor /\ error \in MonitorErrors
  BY MonitorIs DEF MonitorErrors
<1>3. /\ monitor' \in Monitor /\ monitor'.pc = "done" /\ monitor'.at = 0
      /\ monitor'.size = 0 /\ monitor'.error = error /\ monitor'.report = monitor.report
  BY <1>1, <1>2, DoneSet
<1>4. MonitorKept'
  <2>1. registered' \in Nat
    BY MonitorIs
  <2> QED BY <1>3, <2>1 DEF MonitorKept
<1> QED BY <1>3, <1>4

\* An answer makes the report longer by one.
LEMMA AnswerIs ==
    ASSUME IInv, NEW status \in HealthStatus
    PROVE  LET m == Answer(status)
           IN  /\ m \in Monitor
               /\ m.pc = "next" /\ m.at = monitor.at /\ m.size = monitor.size
               /\ Len(m.report) = Len(monitor.report) + 1
<1> DEFINE r == Append(monitor.report, status)
<1>1. r \in Seq(HealthStatus) /\ Len(r) = Len(monitor.report) + 1
  BY MonitorIs
<1>2. PICK down \in BOOLEAN : Answer(status) = AnswerOf(monitor, r, down)
  BY Zenon DEF Answer, AnswerOf
<1> HIDE DEF r
<1>3. monitor \in Monitor /\ r \in Report
  BY <1>1, MonitorIs DEF Report
<1> QED BY <1>1, <1>2, <1>3, AnswerSet

\* An answer for the adapter that was asked.
LEMMA Answered ==
    ASSUME IInv, monitor.pc \in {"ping", "replica"}, NEW status \in HealthStatus,
           monitor' = Answer(status), UNCHANGED <<registered, main>>
    PROVE  monitor' \in Monitor /\ MonitorKept' /\ monitor'.pc = "next"
<1>1. /\ monitor' \in Monitor /\ monitor'.pc = "next" /\ monitor'.at = monitor.at
      /\ monitor'.size = monitor.size
      /\ Len(monitor'.report) = Len(monitor.report) + 1
  BY AnswerIs
<1>2. MonitorKept /\ monitor.at = Len(monitor.report) + 1
  BY MonitorIs DEF MonitorKept
<1>3. MonitorKept'
  BY <1>1, <1>2 DEF MonitorKept
<1> QED BY <1>1, <1>3

\* health_check() begins to iterate over the adapters.
LEMMA HealthStartKeeps == ASSUME IInv, HealthStart PROVE IInv'
<1>1. /\ monitor.pc = "idle"
      /\ monitor' = [monitor EXCEPT !.pc = "next", !.size = registered]
      /\ UNCHANGED <<adapter, faults>> /\ Pinged /\ UNCHANGED <<call, registered, main>>
  BY DEF HealthStart, HealthKeep, Pinged
<1>2. /\ monitor' \in Monitor /\ monitor'.pc = "next" /\ monitor'.at = monitor.at
      /\ monitor'.size = registered /\ monitor'.report = monitor.report
  BY <1>1, MonitorIs DEF Monitor
<1>3. MonitorKept'
  <2>1. MonitorKept /\ registered \in Nat
    BY MonitorIs
  <2> QED BY <1>1, <1>2, <2>1 DEF MonitorKept
<1> QED BY <1>1, <1>2, <1>3, HealthKeeps

\* The next adapter of the iteration, which may be over or broken.
LEMMA HealthNextKeeps == ASSUME IInv, HealthNext PROVE IInv'
<1> DEFINE n == Order[monitor.at + 1]
           k == Master[n]
           b == BeforeCall(adapter[n].breaker[k])
           pinging == [monitor EXCEPT !.pc = "ping", !.at = monitor.at + 1]
           answered == [Answer("UNHEALTHY") EXCEPT !.at = @ + 1]
<1>1. /\ monitor.pc = "next"
      /\ UNCHANGED faults /\ UNCHANGED <<call, registered, main>>
  BY DEF HealthNext, HealthKeep
<1>2. CASE (monitor' = Asked("RuntimeError") \/ monitor' = Asked(NoError))
           /\ UNCHANGED <<adapter, pool>>
  <2>1. monitor' \in Monitor /\ MonitorKept'
    BY <1>1, <1>2, AskedIs
  <2> QED BY <1>1, <1>2, <2>1, HealthKeeps DEF Pinged
<1>3. CASE /\ monitor.at < monitor.size
           /\ \/ monitor' = answered /\ UNCHANGED <<adapter, pool>>
              \/ /\ monitor' = pinging
                 /\ adapter[n].ready
                 /\ CheckOut(n, k)
                 /\ \/ UNCHANGED adapter
                    \/ /\ Admits(adapter[n].breaker[k])
                       /\ adapter' = [adapter EXCEPT ![n].breaker[k] = b]
  <2>1. MonitorKept /\ Len(monitor.report) = monitor.at
    BY <1>1, MonitorIs DEF MonitorKept
  <2>2. /\ monitor.at + 1 \in DOMAIN Order /\ monitor.at + 1 \in 0..Len(Order)
        /\ monitor.at + 1 <= monitor.size
    <3>1. /\ monitor.at \in Nat /\ monitor.size \in 0..Len(Order) /\ Len(Order) \in Nat
          /\ monitor.at < monitor.size
      BY <1>3, MonitorIs
    <3> QED BY <3>1, OrderIs
  <2>3. monitor \in Monitor
    BY MonitorIs
  <2>4. ASSUME monitor' = pinging
        PROVE  monitor' \in Monitor /\ MonitorKept'
    <3>1. /\ monitor' \in Monitor /\ monitor'.pc = "ping"
          /\ monitor'.at = monitor.at + 1 /\ monitor'.size = monitor.size
          /\ monitor'.report = monitor.report
      BY <2>2, <2>3, <2>4 DEF Monitor
    <3> QED BY <1>1, <2>1, <2>2, <3>1 DEF MonitorKept
  <2>5. ASSUME monitor' = answered
        PROVE  monitor' \in Monitor /\ MonitorKept'
    <3> DEFINE m == Answer("UNHEALTHY")
    <3>1. /\ m \in Monitor /\ m.pc = "next" /\ m.size = monitor.size
          /\ m.at = monitor.at
          /\ Len(m.report) = Len(monitor.report) + 1
      BY AnswerIs DEF HealthStatus
    <3>2. monitor' = [m EXCEPT !.at = monitor.at + 1]
      BY <2>5, <3>1
    <3> HIDE DEF m
    <3>3. /\ monitor' \in Monitor /\ monitor'.pc = "next"
          /\ monitor'.at = monitor.at + 1 /\ monitor'.size = m.size
          /\ monitor'.report = m.report
      BY <2>2, <3>1, <3>2 DEF Monitor
    <3> QED BY <1>1, <2>1, <2>2, <3>1, <3>3 DEF MonitorKept
  <2>6. /\ Pinged
        /\ \/ UNCHANGED adapter
           \/ \E a \in DOMAIN Order : \E x \in Breaker :
                 /\ a <= monitor.size
                 /\ adapter' =
                        [adapter EXCEPT ![Order[a]].breaker[Master[Order[a]]] = x]
    <3>1. n \in Names /\ k \in Keys[n]
      BY <2>2, OrderIs, NodesAre
    <3>2. Admits(adapter[n].breaker[k]) => b \in Breaker
      BY <3>1, IInvIs, BreakersTyped, BreakerSteps DEF CallsTyped
    <3>3. Pinged
      BY <1>3, <3>1 DEF Pinged
    <3> QED BY <1>3, <2>2, <3>2, <3>3
  <2>7. monitor' \in Monitor /\ MonitorKept'
    BY <1>3, <2>4, <2>5
  <2> QED BY <1>1, <2>6, <2>7, HealthKeeps
<1>4. \/ /\ monitor' = Asked("RuntimeError") \/ monitor' = Asked(NoError)
         /\ UNCHANGED <<adapter, pool>>
      \/ /\ monitor.at < monitor.size
         /\ \/ monitor' = answered /\ UNCHANGED <<adapter, pool>>
            \/ /\ monitor' = pinging
               /\ adapter[n].ready
               /\ CheckOut(n, k)
               /\ \/ UNCHANGED adapter
                  \/ /\ Admits(adapter[n].breaker[k])
                     /\ adapter' = [adapter EXCEPT ![n].breaker[k] = b]
  <2>1. \/ monitor' = Asked("RuntimeError") /\ UNCHANGED <<adapter, pool>>
        \/ monitor' = Asked(NoError) /\ UNCHANGED <<adapter, pool>>
        \/ /\ monitor.at < monitor.size
           /\ monitor' = answered
           /\ UNCHANGED <<adapter, pool>>
        \/ /\ monitor.at < monitor.size
           /\ adapter[n].ready
           /\ Kind[n] # "relational" \/ Admits(adapter[n].breaker[k])
           /\ monitor' = pinging
           /\ CheckOut(n, k)
           /\ IF Kind[n] = "relational"
              THEN adapter' = [adapter EXCEPT ![n].breaker[k] = b]
              ELSE UNCHANGED adapter
    BY Zenon DEF HealthNext
  <2> HIDE DEF n, k, b, pinging, answered
  <2> QED BY <2>1
<1> QED BY <1>2, <1>3, <1>4

\* What the guard of the ping reports.
LEMMA ReportsAre ==
    ASSUME IInv, monitor.pc = "ping", NEW error \in Errors \cup {NoError, Cancelled},
           Reports(error)
    PROVE  \/ UNCHANGED adapter
           \/ \E a \in DOMAIN Order : \E b \in Breaker :
                 /\ a <= monitor.size
                 /\ adapter' = [adapter EXCEPT ![Order[a]].breaker[Master[Order[a]]] = b]
<1> DEFINE n == Order[monitor.at]
           k == Master[n]
           b == Reported(adapter[n].breaker[k], error, AllExceptions)
<1>1. monitor.at \in DOMAIN Order /\ n \in Names /\ monitor.at <= monitor.size
  BY MonitorIs, OrderIs
<1>2. adapter[n].breaker[k] \in Breaker
  BY <1>1, IInvIs, NodesAre, BreakersTyped DEF CallsTyped
<1>3. b \in Breaker
  BY <1>2, ReportedIs
<1>4. \/ UNCHANGED adapter
      \/ adapter' = [adapter EXCEPT ![n].breaker[k] = b]
  BY DEF Reports, Checked
<1> QED BY <1>1, <1>3, <1>4

\* The next replica is a node of the adapter that is asked.
LEMMA NextReplicaIs ==
    ASSUME Checked \in Names, NEW i, NextReplicaFrom(i) # 0
    PROVE  NextReplicaFrom(i) \in DOMAIN Nodes[Checked] /\ NextReplicaFrom(i) \in Nat
<1> DEFINE n == Checked
           rest == {j \in DOMAIN Nodes[n] : j > i /\ Nodes[n][j].key # Master[n]}
<1>1. rest \in SUBSET Nat /\ rest \subseteq DOMAIN Nodes[n]
  BY NodesAre
<1>2. NextReplicaFrom(i) = IF rest = {} THEN 0 ELSE First(rest)
  BY DEF NextReplicaFrom
<1> HIDE DEF rest
<1> QED BY <1>1, <1>2, FirstIs

\* The monitor turns to a replica of the same adapter.
LEMMA ReplicaAsked ==
    ASSUME IInv, monitor.pc \in {"ping", "replica"}, NEW i, NEW down \in BOOLEAN,
           adapter[Checked].ready, NextReplicaFrom(i) # 0,
           PingReplica(NextReplicaFrom(i), down),
           UNCHANGED <<registered, main>>
    PROVE  monitor' \in Monitor /\ MonitorKept' /\ Pinged
<1> DEFINE j == NextReplicaFrom(i)
<1>1. j \in DOMAIN Nodes[Checked] /\ j \in Nat /\ Checked \in Names
  BY MonitorIs, NextReplicaIs
<1>2. /\ monitor' = [monitor EXCEPT !.pc = "replica", !.node = j, !.down = down]
      /\ CheckOut(Checked, Nodes[Checked][j].key)
  BY DEF PingReplica
<1> HIDE DEF j
<1>3. /\ monitor' \in Monitor /\ monitor'.pc = "replica" /\ monitor'.at = monitor.at
      /\ monitor'.size = monitor.size /\ monitor'.node = j
      /\ monitor'.report = monitor.report
  BY <1>1, <1>2, MonitorIs DEF Monitor
<1>4. MonitorKept'
  BY <1>1, <1>3, MonitorIs DEF MonitorKept, Checked
<1>5. Nodes[Checked][j].key \in Keys[Checked]
  BY <1>1, NodesAre
<1> QED BY <1>1, <1>2, <1>3, <1>4, <1>5 DEF Pinged

\* The ping of a master answers.
LEMMA HealthPingOkKeeps == ASSUME IInv, HealthPingOk PROVE IInv'
<1>1. /\ monitor.pc = "ping" /\ Reports(NoError) /\ AfterMasterPing
      /\ UNCHANGED faults /\ UNCHANGED <<call, registered, main>>
  BY DEF HealthPingOk, HealthKeep
<1>2. monitor' \in Monitor /\ MonitorKept' /\ Pinged
  <2>1. CASE adapter[Checked].ready /\ NextReplicaFrom(0) # 0
    <3>1. \E down \in BOOLEAN : PingReplica(NextReplicaFrom(0), down)
      BY <1>1, <2>1 DEF AfterMasterPing
    <3> QED BY <1>1, <2>1, <3>1, ReplicaAsked
  <2>2. CASE ~(adapter[Checked].ready /\ NextReplicaFrom(0) # 0)
    <3>1. /\ monitor' = Answer("HEALTHY") /\ UNCHANGED pool
          /\ "HEALTHY" \in HealthStatus
      BY <1>1, <2>2 DEF AfterMasterPing, HealthStatus
    <3> QED BY <1>1, <3>1, Answered DEF Pinged
  <2> QED BY <2>1, <2>2
<1> QED BY <1>1, <1>2, ReportsAre, HealthKeeps

\* The ping of a master raises: it counts as unhealthy.
LEMMA HealthPingRaisesKeeps == ASSUME IInv, HealthPingRaises PROVE IInv'
<1>1. /\ monitor.pc = "ping" /\ Fails /\ monitor' = Answer("UNHEALTHY")
      /\ Pinged /\ UNCHANGED <<call, registered, main>>
  BY DEF HealthPingRaises, HealthKeep, Pinged
<1>2. PICK raw \in Raises[Kind[Checked]] : Reports(PingError(Checked, raw))
  BY DEF HealthPingRaises
<1>3. PingError(Checked, raw) \in Errors
  BY <1>1, MonitorIs, PingErrorIs
<1>4. monitor' \in Monitor /\ MonitorKept'
  BY <1>1, Answered DEF HealthStatus
<1> QED BY <1>1, <1>2, <1>3, <1>4, ReportsAre, HealthKeeps

\* The ping of a replica answers or raises.
LEMMA HealthReplicaKeeps == ASSUME IInv, HealthReplica PROVE IInv'
<1>1. /\ monitor.pc = "replica" /\ UNCHANGED adapter
      /\ UNCHANGED <<call, registered, main>> /\ (Fails \/ UNCHANGED faults)
  BY DEF HealthReplica, HealthKeep
<1>2. monitor.down \in BOOLEAN
  BY MonitorIs DEF Monitor
<1>3. PICK down \in BOOLEAN : AfterReplicaPing(down)
  BY <1>2 DEF HealthReplica
<1>4. monitor' \in Monitor /\ MonitorKept' /\ Pinged
  <2>1. CASE adapter[Checked].ready /\ NextReplicaFrom(monitor.node) # 0
    <3>1. PingReplica(NextReplicaFrom(monitor.node), down)
      BY <1>3, <2>1 DEF AfterReplicaPing
    <3> QED BY <1>1, <2>1, <3>1, ReplicaAsked
  <2>2. CASE ~(adapter[Checked].ready /\ NextReplicaFrom(monitor.node) # 0)
    <3>1. /\ monitor' = Answer("HEALTHY") \/ monitor' = Answer("DEGRADED")
          /\ UNCHANGED pool
      BY <1>3, <2>2 DEF AfterReplicaPing
    <3> QED BY <1>1, <3>1, Answered DEF HealthStatus, Pinged
  <2> QED BY <2>1, <2>2
<1> QED BY <1>1, <1>4, HealthKeeps

\* The task that asks is cancelled.
LEMMA CancelHealthKeeps == ASSUME IInv, CancelHealth PROVE IInv'
<1>1. /\ monitor.pc \in {"ping", "replica"} /\ Fails
      /\ \/ monitor.pc = "ping" /\ Reports(Cancelled)
         \/ UNCHANGED adapter
      /\ monitor' = Asked(Cancelled)
      /\ Pinged /\ UNCHANGED <<call, registered, main>>
  BY DEF CancelHealth, HealthKeep, Pinged
<1>2. monitor' \in Monitor /\ MonitorKept'
  BY <1>1, AskedIs
<1>3. \/ UNCHANGED adapter
      \/ \E a \in DOMAIN Order : \E b \in Breaker :
            /\ a <= monitor.size
            /\ adapter' = [adapter EXCEPT ![Order[a]].breaker[Master[Order[a]]] = b]
  BY <1>1, ReportsAre
<1> QED BY <1>1, <1>2, <1>3, HealthKeeps

\* The steps that are not a call's.
OtherStep ==
    \/ ConnectStep \/ DisconnectStep \/ HealthStep
    \/ \E c \in Callers, n \in Names : Get(c, n)
    \/ Tick /\ UNCHANGED <<registered, main, monitor>>

\* A step is a call's, or another.
LEMMA NextIs ==
    Next <=> \/ OtherStep
             \/ \E c \in Callers : CallStep(c) /\ UNCHANGED <<registered, main, monitor>>
BY Zenon DEF Next, OtherStep

\* Every step keeps the invariant.
LEMMA NextKeeps == ASSUME IInv, Next PROVE IInv'
<1>1. CASE ConnectStep
  BY <1>1, ResolveFailsKeeps, BeginConnectKeeps, NoDefaultDatabaseKeeps,
     PingOkKeeps,
     PingRaisesKeeps, CancelPingKeeps DEF ConnectStep
<1>2. CASE DisconnectStep
  BY <1>2, ExitKeeps, DisposeOkKeeps, DisposeRaisesKeeps, CancelDisposeKeeps
     DEF DisconnectStep
<1>3. CASE HealthStep
  BY <1>3, HealthStartKeeps, HealthNextKeeps, HealthPingOkKeeps,
     HealthPingRaisesKeeps,
     HealthReplicaKeeps, CancelHealthKeeps DEF HealthStep
<1>4. CASE \E c \in Callers, n \in Names : Get(c, n)
  BY <1>4, GetKeeps
<1>5. CASE Tick /\ UNCHANGED <<registered, main, monitor>>
  BY <1>5, TickKeeps
<1>6. CASE \E c \in Callers : CallStep(c) /\ UNCHANGED <<registered, main, monitor>>
  BY <1>6, CallsKeep
<1> QED BY Zenon, <1>1, <1>2, <1>3, <1>4, <1>5, <1>6, NextIs DEF OtherStep

\* A step that changes nothing keeps it.
LEMMA StutterKeeps == ASSUME IInv, UNCHANGED vars PROVE IInv'
<1>1. UNCHANGED <<adapter, pool, call, faults, registered, main, monitor>>
  BY DEF vars, adapterVars
<1>2. /\ CallsTyped /\ CallsKept /\ SlotsHeld /\ MainKept /\ MonitorKept /\ PoolsKept
      /\ registered \in 0..Len(Order) /\ main \in Main /\ monitor \in Monitor
  BY IInvIs
<1>3. CallsTyped' /\ CallsKept' /\ MainKept' /\ MonitorKept'
  BY <1>1, <1>2 DEF CallsTyped, AdaptersTyped, PoolsTyped, CallsKept, MainKept,
     MonitorKept, Checked
<1>4. SlotsHeld'
  BY <1>1, <1>2, SlotsKeptWithoutCalls
<1>5. PoolsKept'
  <2>1. ReadyKept /\ PoolsStay /\ \A n : Unused(n) => Unused(n)'
    BY <1>1 DEF ReadyKept, PoolsStay, Unused, Stranger, InFlight
  <2> QED BY <1>1, <1>2, <2>1, PoolsKeptByCalls
<1> QED BY <1>1, <1>2, <1>3, <1>4, <1>5, IInvNext

-----------------------------------------------------------------------------
(* The theorems. *)

\* The invariant holds always: for any callers, connections, nodes, driver errors
\* and limits that the assumptions allow.
THEOREM Inductive == Spec => []IInv
<1>1. IInv /\ [Next]_vars => IInv'
  BY NextKeeps, StutterKeeps
<1> QED BY InitKeeps, <1>1, PTL DEF Spec

\* The adapters, pools, calls, the block's task and the monitor keep their types:
\* a breaker's counters within its limits, a call's attempts within MaxAttempts,
\* no index beyond the adapters and nodes that exist.
THEOREM TypeCorrect == Spec => []TypeOK
<1>1. IInv => TypeOK
  BY DEF IInv
<1> QED BY Inductive, <1>1, PTL

\* When the async with block of a DatabaseFactory is over, no pool that was used is
\* simply still open (PoolsReleased): each was disposed of, or its disposal
\* failed, however connect_all, the body and disconnect_all ended and whatever
\* calls were in their sessions.
THEOREM Released == Spec => []PoolsReleased
<1>1. IInv => PoolsReleased
  <2> SUFFICES ASSUME IInv, main.pc = "ended", NEW n \in Names, NEW k \in Keys[n]
               PROVE  pool[n][k] # "open"
    BY DEF PoolsReleased
  <2>1. PICK i \in DOMAIN Order : n = Order[i]
    BY DEF Names
  <2>2. LifeKept(i)
    BY IInvIs DEF PoolsKept
  <2>3. ~Unreached(i) /\ ~Connected(i) /\ ~Disposing(i)
    BY DEF Unreached, Connected, Disposing
  <2>4. Untouched(n) \/ LetGo(n)
    BY <2>1, <2>2, <2>3 DEF LifeKept
  <2> QED BY <2>4 DEF Untouched, LetGo
<1> QED BY Inductive, <1>1, PTL

\* with_retry around the reads of the adapters: only a read outside a Unit of Work
\* is tried again, only after a transient error, and a read that ends with one
\* has used all its attempts (RetryDiscipline).
THEOREM RetriesDisciplined == Spec => []RetryDiscipline
<1>1. IInv => RetryDiscipline
  <2> SUFFICES ASSUME IInv, NEW c \in Callers
               PROVE  LET r == call[c]
                          transient == IsInstance(r.error, Transient)
                      IN  /\ r.attempt > 1 => r.kind = "read"
                          /\ r.pc = "backoff" => transient
                          /\ r.pc = "done" /\ r.kind = "read" /\ transient =>
                                 r.attempt = MaxAttempts
    BY DEF RetryDiscipline, Transient
  <2>1. call[c] \in Call /\ CallKept(call[c])
    BY IInvIs DEF CallsTyped, CallsKept
  <2>2. IsInstance(call[c].error, RETRYABLE_EXCEPTIONS)
           <=> IsInstance(call[c].error, Transient)
    BY TransientIs
  <2>3. call[c].attempt \in 0..MaxAttempts /\ MaxAttempts \in Nat
    BY <2>1, CallIs, AdaptersAssumption DEF AdaptersAssumption
  <2>4. ~(call[c].attempt < MaxAttempts) => call[c].attempt = MaxAttempts
    BY <2>3
  <2> QED BY <2>1, <2>2, <2>4 DEF CallKept, Retries
<1> QED BY Inductive, <1>1, PTL

\* A step that is not a call's takes no call past an await.
LEMMA OtherSteps ==
    ASSUME IInv, OtherStep
    PROVE  \A c \in Callers :
               \/ call'[c] = call[c]
               \/ call[c].pc = "idle"
<1>1. CASE ConnectStep
  BY <1>1
     DEF ConnectStep, ResolveFails, BeginConnect, NoDefaultDatabase, PingOk,
     PingRaises, CancelPing, Keep
<1>2. CASE DisconnectStep
  BY <1>2
     DEF DisconnectStep, Exit, adapterVars, DisposeOk, DisposeRaises,
         CancelDispose
<1>3. CASE HealthStep
  BY <1>3
     DEF HealthStep, HealthStart, HealthNext, HealthPingOk, HealthPingRaises,
     HealthReplica, CancelHealth, HealthKeep
<1>4. CASE \E c \in Callers, n \in Names : Get(c, n)
  <2>1. PICK d \in Callers, n \in Names : Get(d, n)
    BY <1>4
  <2>2. PICK r : call' = [call EXCEPT ![d] = r]
    BY <2>1 DEF Get
  <2>3. call \in [Callers -> Call]
    BY IInvIs DEF CallsTyped
  <2>4. \A c \in Callers : c # d => call'[c] = call[c]
    BY <2>2, <2>3
  <2>5. call[d].pc = "idle"
    BY <2>1 DEF Get
  <2> QED BY <2>4, <2>5
<1>5. CASE Tick /\ UNCHANGED <<registered, main, monitor>>
  BY <1>5 DEF Tick
<1> QED BY <1>1, <1>2, <1>3, <1>4, <1>5 DEF OtherStep

\* A call that is not the one that steps.
LEMMA Waiting ==
    ASSUME IInv, NEW c \in Callers, call'[c] = call[c] \/ call[c].pc = "idle"
    PROVE  Counted(c) /\ Explained(c)
<1>1. call[c] \in Call /\ CallKept(call[c])
  BY IInvIs DEF CallsTyped, CallsKept
<1>2. Counted(c)
  BY DEF Counted, AttemptEnds
<1>3. call[c].pc = "enter" => call[c].error # "CircuitBreakerOpenError"
  BY <1>1 DEF CallKept, NoError
<1>4. call[c].pc = "backoff" => call[c].error # "CircuitBreakerOpenError"
  BY <1>1, ErrorsAre DEF CallKept, Retries
<1>5. Explained(c)
  BY <1>3, <1>4 DEF Explained
<1> QED BY <1>2, <1>5

\* Every step counts outages, and explains refusals, of every call.
LEMMA StepsAccounted ==
    ASSUME IInv, [Next]_vars, NEW c \in Callers
    PROVE  Counted(c) /\ Explained(c)
<1>1. CASE OtherStep
  BY <1>1, OtherSteps, Waiting
<1>2. CASE \E d \in Callers : CallStep(d) /\ UNCHANGED <<registered, main, monitor>>
  <2>1. PICK d \in Callers : CallStep(d)
    BY <1>2
  <2>2. StepKeeps(d)
    BY <2>1, IInvIs, CallStepKeeps
  <2>3. CASE c = d
    BY <2>2, <2>3 DEF StepKeeps
  <2>4. CASE c # d
    <3>1. call'[c] = call[c]
      BY <2>2, <2>4 DEF StepKeeps, CallEffect
    <3> QED BY <3>1, Waiting
  <2> QED BY <2>3, <2>4
<1>3. CASE UNCHANGED vars
  <2>1. call'[c] = call[c]
    BY <1>3 DEF vars, adapterVars
  <2> QED BY <2>1, Waiting
<1> QED BY <1>1, <1>2, <1>3, NextIs

\* When an attempt ends, the breaker of its node records a failure exactly if an
\* outage struck it that a mapper has a test for, and a success otherwise, also
\* after an outage no mapper recognizes, unless a failing rollback or close
\* replaced the error (OutageCounted): so it is for every choice among the
\* drivers' errors, that is, neither the order of the mappers' tests nor their
\* class hierarchies hide an outage they are meant to catch.
THEOREM OutagesCounted == Spec => OutageCounted
<1>1. IInv /\ [Next]_vars =>
        [\A c \in Callers :
            AttemptEnds(c) /\ ~call'[c].masked =>
                LET b  == adapter[call[c].on].breaker[call[c].key]
                    b1 == adapter'[call[c].on].breaker[call[c].key]
                IN  b1 = IF call'[c].hit THEN OnFailure(b) ELSE OnSuccess(b)]_vars
  BY StepsAccounted DEF Counted
<1> QED BY Inductive, <1>1, PTL DEF OutageCounted, Spec

\* CircuitBreakerOpenError is raised only if the master's breaker refuses too, or
\* if a read was sent to a replica that another call is probing at this moment
\* (RefusalsExplained): _select_key passes over every replica that is down.
THEOREM Refusals == Spec => RefusalsExplained
<1>1. IInv /\ [Next]_vars =>
        [\A c \in Callers :
            call[c].pc \in {"enter", "backoff"}
                /\ call'[c].error = "CircuitBreakerOpenError" =>
                    LET n == call[c].on
                        k == SelectKey(n, "read")
                    IN  \/ ~Admits(adapter[n].breaker[Master[n]])
                        \/ /\ call'[c].kind = "read"
                           /\ adapter[n].breaker[k].state = "HALF_OPEN"
                           /\ \E d \in Callers \ {c} :
                                  InFlight(d) /\ call[d].on = n /\ call[d].key = k]_vars
  BY StepsAccounted DEF Explained
<1> QED BY Inductive, <1>1, PTL DEF RefusalsExplained, Spec

\* A step of the monitor pings at most one pool.
LEMMA HealthPings ==
    ASSUME IInv, HealthStep
    PROVE  Pinged
<1>1. CASE HealthStart \/ HealthPingRaises \/ CancelHealth
  BY <1>1 DEF HealthStart, HealthPingRaises, CancelHealth, Pinged
<1>2. CASE HealthNext
  <2> DEFINE n == Order[monitor.at + 1]
  <2>1. \/ UNCHANGED pool
        \/ /\ monitor.pc = "next" /\ monitor.at < monitor.size
           /\ adapter[n].ready /\ CheckOut(n, Master[n])
    BY <1>2, Zenon DEF HealthNext
  <2>2. /\ monitor.at \in Nat /\ monitor.size \in 0..Len(Order)
        /\ Len(Order) \in Nat
    BY MonitorIs, OrderIs
  <2>3. monitor.at < monitor.size => monitor.at + 1 \in DOMAIN Order
    BY <2>2, OrderIs
  <2>4. monitor.at < monitor.size => n \in Names /\ Master[n] \in Keys[n]
    BY <2>3, OrderIs, NodesAre
  <2> HIDE DEF n
  <2> QED BY <2>1, <2>4 DEF Pinged
<1>3. ASSUME NEW i, NextReplicaFrom(i) # 0, adapter[Checked].ready,
             monitor.pc \in {"ping", "replica"},
             CheckOut(Checked, Nodes[Checked][NextReplicaFrom(i)].key)
      PROVE  Pinged
  <2>1. Checked \in Names /\ NextReplicaFrom(i) \in DOMAIN Nodes[Checked]
    BY <1>3, MonitorIs, NextReplicaIs
  <2>2. Nodes[Checked][NextReplicaFrom(i)].key \in Keys[Checked]
    BY <2>1, NodesAre
  <2> QED BY <1>3, <2>1, <2>2 DEF Pinged
<1>4. CASE HealthPingOk
  BY <1>3, <1>4 DEF HealthPingOk, AfterMasterPing, PingReplica, Pinged
<1>5. CASE HealthReplica
  BY <1>3, <1>5 DEF HealthReplica, AfterReplicaPing, PingReplica, Pinged
<1> QED BY <1>1, <1>2, <1>4, <1>5 DEF HealthStep

\* Once the block is over only calls and pings use the pools.
LEMMA PoolsAfterEnd ==
    ASSUME IInv, Next, main.pc = "ended"
    PROVE  PoolsStay
<1>1. CASE OtherStep
  <2>1. ~ConnectStep /\ ~DisconnectStep
    BY DEF ConnectStep, ResolveFails, BeginConnect, NoDefaultDatabase, PingOk,
       PingRaises, CancelPing, DisconnectStep, Exit, DisposeOk, DisposeRaises,
       CancelDispose
  <2>2. HealthStep => PoolsStay
    BY IInvIs, HealthPings, PingedIs DEF CallsTyped
  <2>3. CASE UNCHANGED pool
    BY <2>3 DEF PoolsStay
  <2>4. (\E c \in Callers, n \in Names : Get(c, n)) => UNCHANGED pool
    BY DEF Get
  <2>5. Tick => UNCHANGED pool
    BY DEF Tick
  <2> QED BY <1>1, <2>1, <2>2, <2>3, <2>4, <2>5 DEF OtherStep
<1>2. CASE \E c \in Callers : CallStep(c) /\ UNCHANGED <<registered, main, monitor>>
  BY <1>2, IInvIs, CallStepKeeps DEF StepKeeps, CallEffect
<1> QED BY <1>1, <1>2, NextIs

\* After the block no call or ping opens a pool again that was disposed of, except
\* of an adapter whose disconnect() failed half-way (StaysClosed): _select_key refuses
\* once an adapter has no master key.
THEOREM Closed == Spec => StaysClosed
<1>1. IInv /\ [Next]_vars =>
        [main.pc = "ended" =>
         \A n \in Names : \A k \in Keys[n] :
            /\ pool[n][k] = "closed"
            /\ \A k1 \in Keys[n] : pool[n][k1] # "abandoned"
            => pool'[n][k] = "closed"]_vars
  <2> SUFFICES ASSUME IInv, Next, main.pc = "ended", NEW n \in Names, NEW k \in Keys[n],
                      pool[n][k] = "closed",
                      \A k1 \in Keys[n] : pool[n][k1] # "abandoned"
               PROVE  pool'[n][k] = "closed"
    OBVIOUS
  <2>1. PICK i \in DOMAIN Order : n = Order[i]
    BY DEF Names
  <2>2. LifeKept(i)
    BY IInvIs DEF PoolsKept
  <2>3. ~Unreached(i) /\ ~Connected(i) /\ ~Disposing(i)
    BY DEF Unreached, Connected, Disposing
  <2>4. Untouched(n) \/ LetGo(n)
    BY <2>1, <2>2, <2>3 DEF LifeKept
  <2>5. ~adapter[n].ready
    BY <2>4 DEF Untouched, LetGo
  <2> QED BY <2>5, PoolsAfterEnd DEF PoolsStay
<1> QED BY Inductive, <1>1, PTL DEF StaysClosed, Spec

\* With a replica still to be pinged the question is not over.
LEMMA ReplicaNotDone ==
    ASSUME monitor \in Monitor, NEW i, NEW down, PingReplica(i, down)
    PROVE  monitor'.pc # "done"
<1>1. monitor' = [monitor EXCEPT !.pc = "replica", !.node = i, !.down = down]
  BY DEF PingReplica
<1> QED BY <1>1 DEF Monitor

\* Only some steps of the monitor end its question.
LEMMA MonitorEnds ==
    ASSUME IInv, Next, monitor.pc # "done", monitor'.pc = "done"
    PROVE  CASE monitor'.error = NoError -> Len(monitor'.report) = registered
             [] monitor'.error = "RuntimeError" -> monitor.size # registered
             [] OTHER -> monitor'.error = Cancelled
<1>1. CASE UNCHANGED monitor
  BY <1>1
<1>2. CASE HealthStep
  <2>1. UNCHANGED <<registered, main>>
    BY <1>2
       DEF HealthStep, HealthStart, HealthNext, HealthPingOk, HealthPingRaises,
         HealthReplica, CancelHealth, HealthKeep
  <2>2. CASE HealthNext
    <3>1. CASE IterationBreaks /\ monitor' = Asked("RuntimeError")
      <4>1. monitor'.error = "RuntimeError" /\ monitor.size # registered
        BY <2>1, <3>1, AskedIs DEF IterationBreaks
      <4>2. "RuntimeError" # NoError
        BY ErrorsAre
      <4> QED BY <4>1, <4>2
    <3>2. CASE /\ ~IterationBreaks /\ monitor.at = monitor.size
               /\ monitor' = Asked(NoError)
      <4>1. monitor'.error = NoError /\ monitor'.report = monitor.report
        BY <2>1, <3>2, AskedIs
      <4>2. monitor.pc = "next"
        BY <2>2 DEF HealthNext
      <4>3. Len(monitor.report) = monitor.at
        BY <4>2, MonitorIs DEF MonitorKept
      <4>4. monitor.size = registered /\ monitor.at = monitor.size
        BY <3>2 DEF IterationBreaks
      <4>5. Len(monitor'.report) = registered
        BY <4>1, <4>3, <4>4
      <4> QED BY <4>1, <4>5, ErrorsAre
    <3>3. CASE \/ monitor' = [monitor EXCEPT !.pc = "ping", !.at = @ + 1]
               \/ monitor' = [Answer("UNHEALTHY") EXCEPT !.at = @ + 1]
      <4>1. monitor \in Monitor
        BY MonitorIs
      <4>2. Answer("UNHEALTHY") \in Monitor /\ Answer("UNHEALTHY").pc = "next"
        BY AnswerIs DEF HealthStatus
      <4>3. monitor'.pc # "done"
        BY <3>3, <4>1, <4>2 DEF Monitor
      <4> QED BY <4>3
    <3>4. \/ IterationBreaks /\ monitor' = Asked("RuntimeError")
          \/ /\ ~IterationBreaks /\ monitor.at = monitor.size
             /\ monitor' = Asked(NoError)
          \/ monitor' = [monitor EXCEPT !.pc = "ping", !.at = @ + 1]
          \/ monitor' = [Answer("UNHEALTHY") EXCEPT !.at = @ + 1]
      <4> DEFINE n == Order[monitor.at + 1]
                 pinging == [monitor EXCEPT !.pc = "ping", !.at = @ + 1]
                 answered == [Answer("UNHEALTHY") EXCEPT !.at = @ + 1]
      <4>1. \/ IterationBreaks /\ monitor' = Asked("RuntimeError")
            \/ /\ ~IterationBreaks /\ monitor.at = monitor.size
               /\ monitor' = Asked(NoError)
            \/ monitor' = answered
            \/ monitor' = pinging
        BY <2>2, Zenon DEF HealthNext
      <4> QED BY <4>1
    <3> QED BY <3>1, <3>2, <3>3, <3>4
  <2>3. CASE CancelHealth
    <3>1. monitor'.error = Cancelled
      BY <2>1, <2>3, AskedIs DEF CancelHealth
    <3>2. Cancelled # NoError /\ Cancelled # "RuntimeError"
      BY ErrorsAre
    <3> QED BY <3>1, <3>2
  <2>4. ASSUME HealthStart \/ HealthPingOk \/ HealthPingRaises \/ HealthReplica
        PROVE  monitor'.pc # "done"
    <3>1. monitor \in Monitor /\ \A status \in HealthStatus : Answer(status).pc = "next"
      BY MonitorIs, AnswerIs
    <3>2. CASE HealthStart
      BY <3>1, <3>2 DEF HealthStart, Monitor
    <3>3. CASE HealthPingOk
      <4>1. AfterMasterPing
        BY <3>3 DEF HealthPingOk
      <4>2. \/ monitor' = Answer("HEALTHY")
            \/ PingReplica(NextReplicaFrom(0), FALSE)
        BY <4>1 DEF AfterMasterPing
      <4> QED BY <3>1, <4>2, ReplicaNotDone DEF HealthStatus
    <3>4. CASE HealthPingRaises
      BY <3>1, <3>4 DEF HealthPingRaises, HealthStatus
    <3>5. CASE HealthReplica
      <4>1. monitor.pc = "replica" /\ monitor.down \in BOOLEAN
        BY <3>1, <3>5 DEF HealthReplica, Monitor
      <4>2. PICK down \in BOOLEAN : AfterReplicaPing(down)
        BY <3>5, <4>1 DEF HealthReplica
      <4>3. \/ monitor' = Answer("HEALTHY") \/ monitor' = Answer("DEGRADED")
            \/ PingReplica(NextReplicaFrom(monitor.node), down)
        BY <4>2 DEF AfterReplicaPing
      <4> QED BY <3>1, <4>3, ReplicaNotDone DEF HealthStatus
    <3> QED BY <2>4, <3>2, <3>3, <3>4, <3>5
  <2> QED BY <1>2, <2>2, <2>3, <2>4 DEF HealthStep
<1>3. UNCHANGED monitor \/ HealthStep
  <2>1. ConnectStep => UNCHANGED monitor
    BY DEF ConnectStep, ResolveFails, BeginConnect, NoDefaultDatabase, PingOk,
       PingRaises, CancelPing, Keep
  <2>2. DisconnectStep => UNCHANGED monitor
    BY DEF DisconnectStep, Exit, DisposeOk, DisposeRaises, CancelDispose
  <2> QED BY <2>1, <2>2 DEF Next, Get
<1> QED BY <1>1, <1>2, <1>3

\* health_check_all answers for every registered adapter, or raises because the
\* registry changed under its iteration, or was cancelled; no failing node makes
\* it raise (HealthReportComplete).
THEOREM ReportsComplete == Spec => HealthReportComplete
<1>1. IInv /\ [Next]_vars =>
        [monitor.pc # "done" /\ monitor'.pc = "done" =>
         CASE monitor'.error = NoError -> Len(monitor'.report) = registered
           [] monitor'.error = "RuntimeError" -> monitor.size # registered
           [] OTHER -> monitor'.error = Cancelled]_vars
  BY MonitorEnds
<1> QED BY Inductive, <1>1, PTL DEF HealthReportComplete, Spec

=============================================================================
