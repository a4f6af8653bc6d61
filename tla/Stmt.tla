-------------------------------- MODULE Stmt --------------------------------
(***************************************************************************)
(* One statement handle of the driver manager (STMT_t of hstmt.h).  A call *)
(* on it has three steps: the driver manager checks the statement's state  *)
(* and enters the driver (Forward) or refuses (Refuse); the driver answers *)
(* (Answer, module DriverStmt); the driver manager applies the answer to   *)
(* the statement's state (one completion action per function).  The global *)
(* lock is not held between ENTER_STMT and LEAVE_STMT, so SQLTransact on   *)
(* the connection, which does not look at stmt_cip, may run between them.  *)
(***************************************************************************)
EXTENDS DriverStmt

CONSTANT
  Drivers    \* the drivers considered: what decides how they are used

Behaviors == {"delete", "close", "preserve"}

(* exports: the functions the driver exports; converts: the application's  *)
(* character width is not the driver's; old: an ODBC 2 driver under an     *)
(* ODBC 3 application; commit, rollback: SQL_CURSOR_COMMIT_BEHAVIOR and    *)
(* SQL_CURSOR_ROLLBACK_BEHAVIOR (pdbc->cb_commit, pdbc->cb_rollback).      *)
DriverKinds == [exports : SUBSET Calls, converts : BOOLEAN, old : BOOLEAN,
                commit : Behaviors, rollback : Behaviors]

ASSUME CatalogAssumption == Catalog \subseteq {"Tables", "Columns", "GetTypeInfo"}
ASSUME DriversAssumption ==
  \A d \in Drivers : d \in DriverKinds /\ "Fetch" \in d.exports

VARIABLES
  drv,           \* the driver of the statement's connection
  live,          \* the handle is allocated (pstmt->type = SQL_HANDLE_STMT)
  state,         \* pstmt->state
  cursor_state,  \* pstmt->cursor_state
  prep_state,    \* pstmt->prep_state
  asyn_on,       \* pstmt->asyn_on: the call the driver is executing
  need_on,       \* pstmt->need_on: the call that returned SQL_NEED_DATA
  params,        \* pstmt->params_inserted: conversion buffers are allocated
  cip,           \* the function in progress (stmt_cip), or NoCall
  answer         \* the driver's answer to it (retcode), or NoCall

core == <<state, cursor_state, prep_state, asyn_on, need_on>>
vars == <<live, core, params, cip, answer, driver, drv>>

Exports == drv.exports
Converts == drv.converts
OldDriver == drv.old
CbCommit == drv.commit
CbRollback == drv.rollback

UpToExecuted == {"allocated", "prepared", "executed_with_info", "executed"}
OpenStates == {"cursoropen", "fetched", "xfetched"}
RowStates  == {"fetched", "xfetched"}
DataStates == {"needdata", "mustput", "canput"}
States == UpToExecuted \cup OpenStates \cup DataStates
CursorStates == {"no", "named", "opened", "fetched", "xfetched"}

TypeOK ==
  /\ drv \in Drivers
  /\ live \in BOOLEAN /\ state \in States /\ cursor_state \in CursorStates
  /\ prep_state \in BOOLEAN /\ params \in BOOLEAN
  /\ asyn_on \in AsyncCalls \cup {NoProc}
  /\ need_on \in Executors \cup {"SetPos", NoProc}
  /\ cip \in Calls \cup {NoCall} /\ answer \in AllCodes \cup {NoCall}
  /\ drvAsync \in AsyncCalls \cup {NoProc}
  /\ drvNeed \in Executors \cup {"SetPos", "BulkOperations", NoProc}
  /\ drvCursor \in {"idle", "executed", "open"}

Init ==
  /\ drv \in Drivers
  /\ live = FALSE /\ params = FALSE /\ cip = NoCall /\ answer = NoCall
  /\ state = "allocated" /\ cursor_state = "no" /\ prep_state = FALSE
  /\ asyn_on = NoProc /\ need_on = NoProc
  /\ drvAsync = NoProc /\ drvNeed = NoProc /\ drvCursor = "idle"

-----------------------------------------------------------------------------
(* The state checks.  Legal(f): the states in which f is let through when  *)
(* no call is suspended.                                                   *)
Legal(f) ==
  CASE f \in Catalog \cup {"Prepare", "ExecDirect"} ->
         UpToExecuted \cup {"cursoropen"}
    [] f = "Execute" ->
         IF prep_state
         THEN (UpToExecuted \ {"allocated"}) \cup {"cursoropen"} ELSE {"prepared"}
    [] f = "Fetch" ->
         {"executed_with_info", "executed", "cursoropen", "fetched"}
    [] f \in {"ExtendedFetch", "FetchScroll"} ->
         {"executed_with_info", "executed", "cursoropen", "xfetched"}
    [] f \in {"GetData", "SetPos"} -> RowStates
    [] f = "MoreResults" -> States \ DataStates
    [] f \in Suppliers -> DataStates
    [] f \in Describers -> States \ (DataStates \cup {"allocated"})
    [] f = "RowCount" -> States \ (DataStates \cup {"allocated", "prepared"})
    [] f = "BindCol" -> States \ {"mustput", "canput"}
    [] f = "SetCursorName" -> {"allocated", "prepared"}
    [] f = "GetCursorName" ->
         IF cursor_state = "no" THEN OpenStates ELSE States \ DataStates
    [] f = "SetCursorType" ->
         IF prep_state THEN {"allocated"} ELSE {"allocated"} \cup DataStates
    [] OTHER -> States \ DataStates

(* The functions with no effective check: SQLCancel has none, that of      *)
(* SQLDescribeCol is compiled out, SQLBindParameter notes the error and    *)
(* goes on, SQLBulkOperations leaves it to a driver that exports it.       *)
Unchecked(f) ==
  \/ f \in {"Cancel", "DescribeCol", "BindParameter"}
  \/ f = "BulkOperations" /\ f \in Exports

(* The function of the driver that f calls. *)
Entry(f) ==
  CASE f = "Fetch" /\ OldDriver /\ "ExtendedFetch" \in Exports -> "ExtendedFetch"
    [] f = "FetchScroll" /\ (OldDriver \/ f \notin Exports) -> "ExtendedFetch"
    [] f = "BulkOperations" /\ f \notin Exports -> "SetPos"
    [] OTHER -> f

(* The function whose name a suspended f leaves in asyn_on. *)
Owner(f) == IF f = "BulkOperations" /\ f \notin Exports THEN "SetPos" ELSE f

(* Mutant: the state check is made whatever call is suspended. *)
AllowedByState(f) == Unchecked(f) \/ state \in Legal(Owner(f))

Allowed(f) ==
  \/ Unchecked(f)
  \/ asyn_on = NoProc /\ state \in Legal(Owner(f))
  \/ asyn_on # NoProc /\ asyn_on = Owner(f)
  \/ f = "SetStmtOption" /\ asyn_on # NoProc /\ prep_state
  \/ f = "SetCursorType" /\ asyn_on # NoProc /\ ~prep_state

(* The mapped SQLFetchScroll checks again, as SQLExtendedFetch: a poll of  *)
(* it is refused inside and takes that refusal for the driver's answer.    *)
LostPoll(f) == f = "FetchScroll" /\ Entry(f) # f /\ asyn_on = f

Reaches(f) == Allowed(f) /\ Entry(f) \in Exports /\ ~LostPoll(f)

TextCalls == Catalog \cup {"Prepare", "ExecDirect", "DescribeCol", "ColAttributes"}

(* ENTER_STMT frees the conversion buffers of the last call. *)
Kept == params /\ asyn_on # NoProc

-----------------------------------------------------------------------------
(* _iodbcdm_do_cursoropen: ask the driver for the number of columns.       *)
DoCursorOpen(n) ==
  /\ ColAnswer(n)
  /\ state' = IF n = "cols" THEN "cursoropen" ELSE "executed"
  /\ cursor_state' = CASE n = "cols" -> "opened" [] n = "nocols" -> "no"
                       [] OTHER -> cursor_state
  /\ asyn_on' = IF n = "STILL" THEN "NumResultCols" ELSE NoProc
  /\ drvAsync' = IF n = "STILL" THEN "NumResultCols" ELSE drvAsync

ColAnswers == {"cols", "nocols", "ERROR", "STILL"}

AllocStmt ==
  /\ ~live
  /\ live' = TRUE /\ state' = "allocated" /\ cursor_state' = "no"
  /\ prep_state' = FALSE /\ asyn_on' = NoProc /\ need_on' = NoProc
  /\ params' = FALSE /\ drvAsync' = NoProc /\ drvNeed' = NoProc
  /\ drvCursor' = "idle"
  /\ UNCHANGED <<cip, answer>>

(* ENTER_STMT and the checks, up to the call of the driver.                *)
Forward(f) ==
  /\ live /\ cip = NoCall /\ Reaches(f)
  /\ cip' = f
  /\ params' = (Kept \/ (Converts /\ f \in TextCalls))
  /\ IF f = "Fetch" /\ asyn_on = NoProc /\ state = "executed_with_info"
     THEN (\E n \in ColAnswers : DoCursorOpen(n))
          /\ UNCHANGED <<prep_state, need_on, drvNeed, drvCursor>>
     ELSE UNCHANGED <<core, driver>>
  /\ UNCHANGED <<live, answer>>

(* The statement is gone: _iodbcdm_dropstmt. *)
Dropped == live' = FALSE /\ params' = FALSE

(* A call that does not reach the driver.  SQLFreeStmt(SQL_DROP) drops the *)
(* statement all the same.                                                 *)
Refuse(f) ==
  /\ live /\ cip = NoCall /\ ~Reaches(f)
  /\ IF f = "Drop" THEN Dropped ELSE params' = Kept /\ UNCHANGED live
  /\ asyn_on' = IF LostPoll(f) THEN NoProc ELSE asyn_on
  /\ UNCHANGED <<state, cursor_state, prep_state, need_on, cip, answer, driver>>

(* A catalog function called with a bad length argument: it skips the      *)
(* state check and frees the conversion buffers.                           *)
BadArgument(f) ==
  /\ live /\ cip = NoCall /\ f \in Catalog
  /\ params' = FALSE
  /\ UNCHANGED <<live, core, cip, answer, driver>>

(* The driver returns from the call in progress. *)
Answer ==
  /\ cip # NoCall /\ answer = NoCall
  /\ \E r \in AllCodes : DriverAnswers(Entry(cip), r) /\ answer' = r
  /\ UNCHANGED <<live, core, params, cip>>

-----------------------------------------------------------------------------
(* The completions: the answer r is applied to the statement's state.      *)

(* The answers that end a suspended call f; any other leaves it suspended  *)
(* and is returned at once.                                                *)
Finishing(f) ==
  CASE f \in {"NumParams", "DescribeParam"} -> {}
    [] f \in Executors \cup {"SetPos"} -> OKs \cup {"ERROR", "NEED_DATA"}
    [] f \in Fetchers \cup {"GetData", "MoreResults"} -> OKs \cup {"ERROR", "NO_DATA"}
    [] OTHER -> OKs \cup {"ERROR"}

(* Mutant: any suspended call is taken for the one that returns. *)
PolledByAnyone(f) == asyn_on # NoProc

Polled(f) == asyn_on = Owner(f)

(* The statement is still suspended on f after the answer. *)
Unfinished(f) == Polled(f) /\ answer \notin Finishing(Owner(f))

Leave(f) ==      \* LEAVE_STMT, after the buffers of a finished text call are freed
  /\ cip = f /\ answer # NoCall
  /\ cip' = NoCall /\ answer' = NoCall
  /\ params' = (params /\ ~(f \in TextCalls /\ answer # "STILL"))

(* Mutant: the end of a polled call is not recorded. *)
AsynKept(f, recorded) ==
  IF answer = "STILL" /\ recorded THEN Owner(f) ELSE asyn_on

(* asyn_on once the answer is in: f is suspended when r is STILL and the   *)
(* state is one in which f records it.                                     *)
AsynAfter(f, recorded) ==
  IF answer = "STILL" /\ recorded THEN Owner(f)
  ELSE IF Polled(f) THEN NoProc ELSE asyn_on

Rest == <<live, driver>>      \* what most completions leave alone

StillSuspended(f) ==
  /\ Leave(f) /\ Unfinished(f)
  /\ UNCHANGED <<core, Rest>>

(* SQLPrepare: a polled call returns before the transition. *)
PrepareReturns ==
  /\ Leave("Prepare") /\ ~Unfinished("Prepare")
  /\ asyn_on' = AsynAfter("Prepare", TRUE)
  /\ IF Polled("Prepare") THEN UNCHANGED <<state, prep_state>>
     ELSE /\ state' = CASE answer \in OKs -> "prepared"
                        [] answer = "ERROR" /\ state \in UpToExecuted -> "allocated"
                        [] OTHER -> state
          /\ prep_state' = CASE answer \in OKs -> TRUE
                        [] answer = "ERROR" /\ state \in UpToExecuted \ {"allocated"} -> FALSE
                        [] OTHER -> prep_state
  /\ UNCHANGED <<cursor_state, need_on, Rest>>

(* SQLExecute: only the states prepared and executed have transitions.     *)
ExecuteReturns ==
  /\ Leave("Execute") /\ ~Unfinished("Execute")
  /\ IF state = "prepared" /\ answer = "SUCCESS"
     THEN /\ \E n \in ColAnswers : DoCursorOpen(n)
          /\ UNCHANGED <<need_on, drvNeed, drvCursor>>
     ELSE /\ state' = CASE state = "prepared" /\ answer = "INFO" -> "executed_with_info"
                        [] state \in {"prepared", "executed"} /\ answer = "NEED_DATA" -> "needdata"
                        [] state = "executed" /\ answer = "ERROR" -> "prepared"
                        [] OTHER -> state
          /\ cursor_state' = IF state = "executed" /\ answer = "ERROR" THEN "no"
                             ELSE cursor_state
          /\ need_on' = IF state \in {"prepared", "executed"} /\ answer = "NEED_DATA"
                        THEN "Execute" ELSE need_on
          /\ asyn_on' = AsynAfter("Execute", state \in {"prepared", "executed"})
          /\ UNCHANGED driver
  /\ UNCHANGED <<prep_state, live>>

(* SQLExecDirect: transitions only in the states up to executed.           *)
ExecDirectReturns ==
  /\ Leave("ExecDirect") /\ ~Unfinished("ExecDirect")
  /\ IF state \in UpToExecuted /\ answer = "SUCCESS"
     THEN /\ \E n \in ColAnswers : DoCursorOpen(n)
          /\ UNCHANGED <<need_on, drvNeed, drvCursor>>
     ELSE /\ state' = IF state \notin UpToExecuted THEN state
                      ELSE CASE answer = "INFO" -> "executed_with_info"
                             [] answer = "NEED_DATA" -> "needdata"
                             [] answer = "ERROR" -> "allocated"
                             [] OTHER -> state
          /\ cursor_state' = IF state \in UpToExecuted /\ answer = "ERROR" THEN "no"
                             ELSE cursor_state
          /\ need_on' = IF state \in UpToExecuted /\ answer = "NEED_DATA"
                        THEN "ExecDirect" ELSE need_on
          /\ asyn_on' = AsynAfter("ExecDirect", state \in UpToExecuted)
          /\ UNCHANGED driver
  /\ prep_state' = CASE state \in UpToExecuted /\ answer \in OKs -> TRUE
                      [] state \in UpToExecuted /\ answer = "ERROR" -> FALSE
                      [] OTHER -> prep_state
  /\ UNCHANGED live

(* _iodbcdm_cata_state_tr. *)
CatalogReturns(f) ==
  /\ f \in Catalog
  /\ Leave(f) /\ ~Unfinished(f)
  /\ state' = IF state \notin UpToExecuted THEN state
              ELSE CASE answer \in OKs -> "cursoropen"
                     [] answer = "ERROR" -> "allocated"
                     [] OTHER -> state
  /\ prep_state' = (prep_state /\ ~(state \in UpToExecuted /\ answer = "ERROR"))
  /\ asyn_on' = AsynAfter(f, state \in UpToExecuted)
  /\ UNCHANGED <<cursor_state, need_on, Rest>>

(* SQLFetch. *)
FetchReturns ==
  /\ Leave("Fetch") /\ ~Unfinished("Fetch")
  /\ LET here == state \in {"cursoropen", "fetched"} IN
     /\ state' = CASE here /\ answer \in OKs -> "fetched"
                   [] here /\ answer = "NO_DATA" ->
                        IF prep_state THEN "fetched" ELSE "allocated"
                   [] OTHER -> state
     /\ cursor_state' = CASE here /\ answer \in OKs -> "fetched"
                          [] here /\ answer = "NO_DATA" -> "no"
                          [] OTHER -> cursor_state
     /\ asyn_on' = AsynAfter("Fetch", here)
  /\ UNCHANGED <<prep_state, need_on, Rest>>

(* SQLExtendedFetch and SQLFetchScroll. *)
ScrollReturns(f) ==
  /\ f \in {"ExtendedFetch", "FetchScroll"}
  /\ Leave(f) /\ ~Unfinished(f)
  /\ LET here == state \in {"cursoropen", "xfetched"}
         row  == here /\ answer \in OKs \cup {"NO_DATA"} IN
     /\ state' = IF row THEN "xfetched" ELSE state
     /\ cursor_state' = IF row THEN "xfetched" ELSE cursor_state
     /\ asyn_on' = AsynAfter(f, here)
  /\ UNCHANGED <<prep_state, need_on, Rest>>

(* SQLGetData. *)
GetDataReturns ==
  /\ Leave("GetData") /\ ~Unfinished("GetData")
  /\ asyn_on' = AsynAfter("GetData", state \in RowStates)
  /\ UNCHANGED <<state, cursor_state, prep_state, need_on, Rest>>

(* SQLMoreResults: the state after SQL_NO_DATA_FOUND or, when nothing was  *)
(* executed, after any answer.                                             *)
NoMoreResults(idle) ==
  IF state \in OpenStates THEN (IF prep_state THEN "prepared" ELSE "allocated")
  ELSE IF prep_state = idle THEN "cursoropen" ELSE "prepared"

MoreResultsReturns ==
  /\ Leave("MoreResults") /\ ~Unfinished("MoreResults")
  /\ LET over == answer = "NO_DATA" IN
     IF state = "executed_with_info"
     THEN \E n \in ColAnswers :
            /\ ColAnswer(n)
            /\ state' = IF over THEN NoMoreResults(FALSE)
                        ELSE IF n = "cols" THEN "cursoropen" ELSE "executed"
            /\ cursor_state' = CASE n = "cols" -> "opened" [] n = "nocols" -> "no"
                                 [] OTHER -> cursor_state
            /\ asyn_on' = IF answer = "STILL" THEN "MoreResults"
                          ELSE IF n = "STILL" THEN "NumResultCols" ELSE NoProc
            /\ drvAsync' = IF n = "STILL" THEN "NumResultCols" ELSE drvAsync
            /\ UNCHANGED <<drvNeed, drvCursor>>
     ELSE /\ state' = IF state \in {"allocated", "prepared"} THEN NoMoreResults(TRUE)
                      ELSE IF over /\ state \notin DataStates THEN NoMoreResults(FALSE)
                      ELSE state
          /\ asyn_on' = AsynAfter("MoreResults", state \in OpenStates \cup {"executed"})
          /\ UNCHANGED <<cursor_state, driver>>
  /\ UNCHANGED <<prep_state, need_on, live>>

(* Mutant: the call that asked for data is not recorded. *)
SetPosForgets(f) ==
  /\ f \in {"SetPos", "BulkOperations"} /\ Entry(f) = "SetPos"
  /\ Leave(f) /\ ~Unfinished(f)
  /\ state' = IF answer = "NEED_DATA" THEN "needdata" ELSE state
  /\ asyn_on' = AsynAfter(f, TRUE)
  /\ UNCHANGED <<need_on, cursor_state, prep_state, Rest>>

(* SQLSetPos, and SQLBulkOperations for a driver that does not export it.  *)
SetPosReturns(f) ==
  /\ f \in {"SetPos", "BulkOperations"} /\ Entry(f) = "SetPos"
  /\ Leave(f) /\ ~Unfinished(f)
  /\ state' = IF answer = "NEED_DATA" THEN "needdata" ELSE state
  /\ need_on' = IF answer = "NEED_DATA" THEN "SetPos" ELSE need_on
  /\ asyn_on' = AsynAfter(f, TRUE)
  /\ UNCHANGED <<cursor_state, prep_state, Rest>>

(* SQLPutData. *)
PutDataReturns ==
  /\ Leave("PutData") /\ ~Unfinished("PutData")
  /\ LET back == answer = "ERROR" /\ (need_on = "Execute" => prep_state) IN
     /\ state' = CASE answer \in OKs -> "canput"
                   [] back /\ need_on = "ExecDirect" -> "allocated"
                   [] back /\ need_on = "Execute" -> "prepared"
                   [] back /\ need_on = "SetPos" -> "xfetched"
                   [] OTHER -> state
     /\ need_on' = IF back /\ need_on # "SetPos" THEN NoProc ELSE need_on
  /\ asyn_on' = AsynAfter("PutData", TRUE)
  /\ UNCHANGED <<cursor_state, prep_state, Rest>>

(* The state in which the data phase of need_on started. *)
BeforeNeed ==
  CASE need_on = "ExecDirect" -> "allocated" [] need_on = "Execute" -> "prepared"
    [] need_on = "SetPos" -> "xfetched" [] OTHER -> state

(* SQLParamData: SQL_STILL_EXECUTING is not recorded. *)
ParamDataReturns ==
  /\ Leave("ParamData") /\ ~Unfinished("ParamData")
  /\ LET done == answer \in OKs /\ state = "canput" IN
     IF state \in DataStates /\ done /\ need_on \in Executors
     THEN /\ \E n \in ColAnswers : DoCursorOpen(n)
          /\ UNCHANGED <<drvNeed, drvCursor>>
     ELSE /\ state' = IF state \notin DataStates THEN state
                      ELSE CASE answer = "ERROR" -> BeforeNeed
                             [] answer \in OKs /\ state = "needdata" -> "mustput"
                             [] done /\ need_on = "SetPos" -> "xfetched"
                             [] answer = "NEED_DATA" -> "mustput"
                             [] OTHER -> state
          /\ cursor_state' = IF state \in DataStates /\ need_on = "SetPos"
                               /\ (answer = "ERROR" \/ done)
                             THEN "xfetched" ELSE cursor_state
          /\ asyn_on' = AsynAfter("ParamData", FALSE)
          /\ UNCHANGED driver
  /\ need_on' = IF state \in DataStates /\ answer \in OKs \cup {"ERROR"} THEN NoProc
                ELSE need_on
  /\ UNCHANGED <<prep_state, live>>

(* The descriptive calls: SQLNumParams, SQLDescribeParam, SQLNumResultCols *)
(* record SQL_STILL_EXECUTING in every state, the others in a few.         *)
DescriberReturns(f) ==
  /\ f \in Describers
  /\ Leave(f) /\ ~Unfinished(f)
  /\ asyn_on' = AsynAfter(f, f \in {"DescribeCol", "ColAttributes"} =>
                               state \in OpenStates \cup {"prepared"})
  /\ UNCHANGED <<state, cursor_state, prep_state, need_on, Rest>>

(* The state after the cursor is closed. *)
Closed == IF state \in {"allocated", "prepared"} \cup DataStates THEN state
          ELSE IF prep_state THEN "prepared" ELSE "allocated"

(* SQLFreeStmt(SQL_CLOSE) and SQLCloseCursor. *)
CloseReturns(f) ==
  /\ f \in Closers
  /\ Leave(f)
  /\ state' = IF answer \in OKs THEN Closed ELSE state
  /\ cursor_state' = IF answer \in OKs THEN "no" ELSE cursor_state
  /\ UNCHANGED <<prep_state, asyn_on, need_on, Rest>>

(* SQLFreeStmt(SQL_DROP): the handle goes whatever the driver answered. *)
DropReturns ==
  /\ cip = "Drop" /\ answer # NoCall
  /\ cip' = NoCall /\ answer' = NoCall /\ Dropped
  /\ UNCHANGED <<core, driver>>

(* SQLCancel. *)
CancelReturns ==
  /\ Leave("Cancel")
  /\ state' = IF answer \notin OKs THEN state
              ELSE IF state \in DataStates THEN BeforeNeed ELSE Closed
  /\ need_on' = IF answer \in OKs /\ state \in DataStates THEN NoProc ELSE need_on
  /\ UNCHANGED <<cursor_state, prep_state, asyn_on, Rest>>

(* The calls that leave the state alone. *)
PassiveReturns(f) ==
  /\ f \in Passive \/ (f = "BulkOperations" /\ Entry(f) = f)
  /\ Leave(f)
  /\ cursor_state' = IF f = "SetCursorName" /\ answer \in OKs THEN "named"
                     ELSE cursor_state
  /\ UNCHANGED <<state, prep_state, asyn_on, need_on, Rest>>

-----------------------------------------------------------------------------
(* SQLTransact / SQLEndTran on the connection, by any thread, at any time: *)
(* b is what the driver does for this completion type.  The driver manager *)
(* applies the stronger of the two behaviours whatever the type.           *)
Either(b) == b \in {CbCommit, CbRollback}

(* Mutant: SQLExtendedFetch's state is not among those a transaction ends. *)
TransactSparesScroll ==
  LET shut == state \in {"executed", "executed_with_info", "cursoropen", "fetched"} IN
  /\ state' = IF ~shut THEN state ELSE IF prep_state THEN "prepared" ELSE "allocated"
  /\ cursor_state' = IF shut THEN "no" ELSE cursor_state
  /\ UNCHANGED prep_state

AfterTransaction ==
  LET deleted == Either("delete") /\ (state = "prepared" \/ prep_state)
      dropped == ~prep_state /\ ~Either("preserve")
      open    == state \in (UpToExecuted \ {"allocated", "prepared"}) \cup OpenStates
      reset   == (state = "prepared" /\ deleted) \/ (open /\ (deleted \/ dropped))
      shut    == open /\ prep_state /\ Either("close")
  IN /\ state' = IF reset THEN "allocated" ELSE IF shut THEN "prepared" ELSE state
     /\ prep_state' = (prep_state /\ ~reset)
     /\ cursor_state' = IF open /\ (reset \/ shut) THEN "no" ELSE cursor_state

Transact(b) ==
  /\ live /\ state \notin DataStates /\ asyn_on = NoProc
  /\ b \in {CbCommit, CbRollback}
  /\ DriverEndsTransaction(b)
  /\ AfterTransaction
  /\ UNCHANGED <<live, asyn_on, need_on, params, cip, answer>>

Returns ==
  \/ \E f \in AsyncCalls : StillSuspended(f)
  \/ PrepareReturns \/ ExecuteReturns \/ ExecDirectReturns
  \/ \E f \in Catalog : CatalogReturns(f)
  \/ FetchReturns \/ GetDataReturns \/ MoreResultsReturns
  \/ \E f \in {"ExtendedFetch", "FetchScroll"} : ScrollReturns(f)
  \/ \E f \in {"SetPos", "BulkOperations"} : SetPosReturns(f)
  \/ PutDataReturns \/ ParamDataReturns
  \/ \E f \in Describers : DescriberReturns(f)
  \/ \E f \in Closers : CloseReturns(f)
  \/ DropReturns \/ CancelReturns
  \/ \E f \in Passive \cup {"BulkOperations"} : PassiveReturns(f)

Step ==
  \/ AllocStmt
  \/ \E f \in Calls : Forward(f) \/ Refuse(f)
  \/ \E f \in Catalog : BadArgument(f)
  \/ Answer
  \/ Returns
  \/ \E b \in Behaviors : Transact(b)

Next == Step /\ UNCHANGED drv

Spec == Init /\ [][Next]_vars

-----------------------------------------------------------------------------
(* Properties.                                                             *)

(* The calls that pass their check whatever call is suspended.             *)
Bystanders == {"Cancel", "DescribeCol", "BindParameter", "BulkOperations",
               "SetStmtOption", "SetCursorType"}

(* The call in progress on a suspended statement is a poll of the          *)
(* suspended call or one of the calls whose check lets everything through; *)
(* SQLFetch alone can suspend the statement before it enters the driver,   *)
(* in the SQLNumResultCols of _iodbcdm_do_cursoropen.                      *)
CallOwner ==
  cip # NoCall /\ asyn_on # NoProc =>
    \/ asyn_on = Owner(cip)
    \/ cip \in Bystanders
    \/ cip = "Fetch" /\ asyn_on = "NumResultCols"
          /\ state \in {"executed", "executed_with_info"}

(* No call is in progress on the statement. *)
Quiet == live /\ cip = NoCall

(* The driver manager waits for a call the driver is not executing: asyn_on *)
(* refuses every other call, and no answer to a poll is on its way.        *)
(* SQLNumParams and SQLDescribeParam are left out: their code never clears *)
(* asyn_on.                                                                *)
Lost ==
  /\ live /\ asyn_on \notin {NoProc, "NumParams", "DescribeParam"}
  /\ answer = NoCall \/ asyn_on # Owner(cip)
  /\ drvAsync # Entry(asyn_on)

(* The driver manager loses track of the driver in one way only: a poll of *)
(* SQLExecute or SQLExecDirect answered SQL_NO_DATA, the code their        *)
(* switches do not name.  Over every other answer, cancel, transaction and *)
(* call let in beside it, a suspended call is one the driver is executing, *)
(* and the loss of one is never handed on to another function.             *)
SuspendedCallIsRunning ==
  [][Lost' => \/ Lost /\ asyn_on' = asyn_on
              \/ cip \in Executors /\ answer = "NO_DATA"]_vars

(* While the driver waits for data-at-execution values and the statement   *)
(* is in its first data state, need_on names the call that asked for them, *)
(* in spite of the stale value SQLPutData leaves after an error in SetPos. *)
NeedOriginates ==
  Quiet /\ state = "needdata" /\ drvNeed # NoProc => need_on = drvNeed

(* When a transaction closes the driver's cursor the statement leaves its  *)
(* cursor states in the same step, for a driver that treats commit and     *)
(* rollback alike.                                                         *)
TransactClosesCursor ==
  [][CbCommit = CbRollback
       /\ drvCursor = "open" /\ drvCursor' = "idle" /\ cip' = cip /\ answer' = answer
     => state' \notin OpenStates]_vars

-----------------------------------------------------------------------------
(* What the statement promises its caller (module StmtPhases). *)
Phases == INSTANCE StmtPhases WITH
  alive <- live,
  call  <- IF cip = NoCall THEN NoCall ELSE Owner(cip),
  owner <- IF live THEN asyn_on ELSE NoProc,
  data  <- live /\ state \in DataStates

PhasesSpec == Phases!Spec
=============================================================================
