------------------------------- MODULE MCStmt -------------------------------
(* Drivers for TLC: ODBC 3 drivers that export every function, and ODBC 2  *)
(* drivers, which have neither SQLBulkOperations nor SQLFetchScroll, with  *)
(* and without SQLExtendedFetch.                                           *)
EXTENDS Stmt

Odbc3(converts, commit, rollback) ==
  [exports |-> Calls, converts |-> converts, old |-> FALSE,
   commit |-> commit, rollback |-> rollback]

Odbc2(lacks, behavior) ==
  [exports |-> Calls \ ({"BulkOperations", "FetchScroll"} \cup lacks), converts |-> FALSE,
   old |-> TRUE, commit |-> behavior, rollback |-> behavior]

MCDrivers ==
  {Odbc3(TRUE, "close", "delete"), Odbc3(FALSE, "delete", "delete"),
   Odbc2({}, "close"), Odbc2({"ExtendedFetch"}, "preserve")}
=============================================================================
