----------------------------- MODULE DriverStmt -----------------------------
(***************************************************************************)
(* The driver's half of one ODBC statement.  The driver is a shared        *)
(* library outside the repository: this module is modelled from how the    *)
(* driver manager uses it (the return codes its switches name and the      *)
(* order of calls they rely on), and it is the environment of module Stmt. *)
(*                                                                         *)
(* A driver answers SQL_ERROR to a call that is out of sequence, and a     *)
(* call it has answered SQL_STILL_EXECUTING stays its only running call    *)
(* until that same function is called again and answers something else.    *)
(***************************************************************************)
CONSTANT Catalog     \* the catalog functions in use (SQLTables, SQLColumns, ...)

VARIABLES
  drvAsync,    \* the function the driver is still executing, or NoProc
  drvNeed,     \* the function waiting for data-at-execution values, or NoProc
  drvCursor    \* "idle", "executed" (no result set) or "open" (a result set)

driver == <<drvAsync, drvNeed, drvCursor>>

NoProc == "NullProc"
NoCall == "none"

OKs == {"SUCCESS", "INFO"}                        \* SQL_SUCCEEDED (retcode)
Executors == {"Execute", "ExecDirect"}
Fetchers  == {"Fetch", "ExtendedFetch", "FetchScroll"}
RowCalls  == Fetchers \cup {"GetData", "SetPos", "BulkOperations"}
Suppliers == {"PutData", "ParamData"}
Describers == {"NumParams", "DescribeParam", "NumResultCols", "DescribeCol",
               "ColAttributes"}
Closers   == {"Close", "CloseCursor"}             \* SQL_CLOSE and SQLCloseCursor
Passive   == {"RowCount", "BindCol", "BindParameter", "SetCursorName",
              "GetCursorName", "SetStmtOption", "SetCursorType", "Unbind"}

AsyncCalls == Catalog \cup Executors \cup RowCalls \cup Suppliers \cup Describers
                \cup {"Prepare", "MoreResults"}
Calls == AsyncCalls \cup Closers \cup Passive \cup {"Cancel", "Drop"}

(* The return codes of function f.  An execution, and the SQLParamData     *)
(* that ends it, answer SQL_NO_DATA when a searched update or delete has   *)
(* changed no row (ODBC 3).                                                *)
Codes(f) ==
  OKs \cup {"ERROR"}
    \cup (IF f \in AsyncCalls THEN {"STILL"} ELSE {})
    \cup (IF f \in Executors \cup {"SetPos", "BulkOperations", "ParamData"}
            THEN {"NEED_DATA"} ELSE {})
    \cup (IF f \in Fetchers \cup Executors \cup {"GetData", "MoreResults", "ParamData"}
            THEN {"NO_DATA"} ELSE {})

AllCodes == OKs \cup {"ERROR", "STILL", "NEED_DATA", "NO_DATA"}

(* The driver can run f now: it is neither busy with another call nor out  *)
(* of sequence.                                                            *)
InSequence(f) ==
  /\ drvAsync \in {NoProc, f}
  /\ (f \in Suppliers) <=> (drvNeed # NoProc)
  /\ f \in Catalog \cup Executors \cup {"Prepare"} => drvCursor # "open"
  /\ f \in RowCalls => drvCursor = "open"

(* An execution that has changed no row.                                   *)
NoRow(f, r) == r = "NO_DATA" /\ f \in Executors \cup {"ParamData"}

(* The cursor after f has answered r. *)
CursorAfter(f, r) ==
  IF r \in OKs
  THEN CASE f \in Executors -> {"executed", "open"}
         [] f = "ParamData" -> IF drvNeed \in Executors THEN {"executed", "open"}
                               ELSE {drvCursor}
         [] f \in Catalog -> {"open"}
         [] f = "MoreResults" -> IF drvCursor = "idle" THEN {"idle"}
                                 ELSE {"executed", "open"}
         [] f \in Closers -> {"idle"}
         [] f = "Cancel" -> {drvCursor, "idle"}
         [] OTHER -> {drvCursor}
  ELSE IF f = "MoreResults" /\ r = "NO_DATA" THEN {"idle"}
  ELSE IF NoRow(f, r) THEN {"executed"}
  ELSE {drvCursor}

(* The driver answers r to function f. *)
DriverAnswers(f, r) ==
  /\ r \in Codes(f)
  /\ r # "ERROR" => f = "Cancel" \/ InSequence(f)
  /\ r = "NEED_DATA" => (f = "ParamData" \/ drvNeed = NoProc)
  /\ f = "MoreResults" /\ drvCursor = "idle" => r \in {"ERROR", "NO_DATA"}
  /\ f = "ParamData" /\ r = "NO_DATA" => drvNeed \in Executors
  /\ drvAsync' = IF r = "STILL" THEN f
                 ELSE IF drvAsync = f THEN NoProc ELSE drvAsync
  /\ drvNeed' = IF r = "NEED_DATA" THEN (IF f = "ParamData" THEN drvNeed ELSE f)
                ELSE IF \/ f = "ParamData" /\ r \in OKs \cup {"NO_DATA"}
                        \/ f \in Suppliers /\ r = "ERROR" /\ InSequence(f)
                        \/ f = "Cancel" /\ r \in OKs
                     THEN NoProc ELSE drvNeed
  /\ drvCursor' \in CursorAfter(f, r)

(* What the driver does to the cursor at the end of a transaction: b is    *)
(* "delete", "close" or "preserve".                                        *)
DriverEndsTransaction(b) ==
  /\ drvAsync = NoProc
  /\ drvCursor' = IF b = "preserve" THEN drvCursor ELSE "idle"
  /\ UNCHANGED <<drvAsync, drvNeed>>

(* The answers to the SQLNumResultCols the driver manager asks after an    *)
(* execution: "cols" when there is a result set, "nocols" when not.        *)
ColAnswer(n) ==
  IF drvAsync # NoProc THEN n = "ERROR"
  ELSE n \in {"ERROR", "STILL", IF drvCursor = "open" THEN "cols" ELSE "nocols"}
=============================================================================
