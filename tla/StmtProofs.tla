----------------------------- MODULE StmtProofs -----------------------------
(***************************************************************************)
(* Proofs about module Stmt, for every driver: any set of exported         *)
(* functions, any cursor behaviour, any catalog.  They come in four parts: *)
(* types, the owner of a suspended statement and transactions, each with   *)
(* an invariant of its own; the refinement of StmtPhases and the suspended *)
(* call, on IInv; the call that asked for data, on NeedInv and IInv.       *)
(***************************************************************************)
EXTENDS Stmt, TLAPS

-----------------------------------------------------------------------------
(* The function of the driver behind a call is a call.                     *)
LEMMA EntryCall ==
  ASSUME NEW f \in Calls
  PROVE  Entry(f) \in Calls /\ Owner(f) \in Calls
  BY DEF Entry, Owner, Calls, AsyncCalls, RowCalls, Fetchers

LEMMA OwnerAsync ==
  ASSUME NEW f \in AsyncCalls
  PROVE  Owner(f) \in AsyncCalls
  BY DEF Owner, AsyncCalls, RowCalls

(* Only an asynchronous call records itself in asyn_on.                    *)
LEMMA AsynAfterType ==
  ASSUME TypeOK, NEW f \in AsyncCalls, NEW b
  PROVE  AsynAfter(f, b) \in AsyncCalls \cup {NoProc}
  BY OwnerAsync DEF AsynAfter, TypeOK

(* _iodbcdm_do_cursoropen keeps the types of what it sets.                 *)
LEMMA DoCursorOpenType ==
  ASSUME TypeOK, NEW n \in ColAnswers, DoCursorOpen(n)
  PROVE  /\ state' \in States /\ cursor_state' \in CursorStates
         /\ asyn_on' \in AsyncCalls \cup {NoProc}
         /\ drvAsync' \in AsyncCalls \cup {NoProc}
  BY DEF DoCursorOpen, TypeOK, States, UpToExecuted, OpenStates, CursorStates,
         AsyncCalls, Describers

(* The driver's variables keep their types when it answers.                *)
LEMMA DriverAnswersType ==
  ASSUME TypeOK, NEW f \in Calls, NEW r \in AllCodes, DriverAnswers(f, r)
  PROVE  /\ drvAsync' \in AsyncCalls \cup {NoProc}
         /\ drvNeed' \in Executors \cup {"SetPos", "BulkOperations", NoProc}
         /\ drvCursor' \in {"idle", "executed", "open"}
  <1>1. r = "STILL" => f \in AsyncCalls
    BY DEF DriverAnswers, Codes, OKs
  <1>2. r = "NEED_DATA" => f \in Executors \cup {"SetPos", "BulkOperations", "ParamData"}
    BY DEF DriverAnswers, Codes, OKs
  <1>3. CursorAfter(f, r) \subseteq {"idle", "executed", "open"}
    BY DEF CursorAfter, TypeOK
  <1> QED
    BY <1>1, <1>2, <1>3 DEF DriverAnswers, TypeOK

-----------------------------------------------------------------------------
LEMMA TypeInit == Init => TypeOK
  BY DEF Init, TypeOK, States, UpToExecuted, CursorStates

LEMMA TypeForward ==
  ASSUME TypeOK, UNCHANGED drv, NEW f \in Calls, Forward(f)
  PROVE  TypeOK'
  <1>1. params' \in BOOLEAN /\ cip' \in Calls /\ live' = live /\ answer' = answer
    BY DEF Forward
  <1>2. /\ state' \in States /\ cursor_state' \in CursorStates
        /\ asyn_on' \in AsyncCalls \cup {NoProc}
        /\ drvAsync' \in AsyncCalls \cup {NoProc}
    BY DoCursorOpenType DEF Forward, core, driver, TypeOK
  <1>3. prep_state' = prep_state /\ need_on' = need_on /\ drvNeed' = drvNeed
        /\ drvCursor' = drvCursor
    BY DEF Forward, core, driver
  <1> QED BY <1>1, <1>2, <1>3 DEF TypeOK

LEMMA TypeAnswer ==
  ASSUME TypeOK, UNCHANGED drv, Answer
  PROVE  TypeOK'
  <1>1. PICK r \in AllCodes : DriverAnswers(Entry(cip), r) /\ answer' = r
    BY DEF Answer
  <1>2. Entry(cip) \in Calls
    BY EntryCall DEF Answer, TypeOK
  <1>3. /\ drvAsync' \in AsyncCalls \cup {NoProc}
        /\ drvNeed' \in Executors \cup {"SetPos", "BulkOperations", NoProc}
        /\ drvCursor' \in {"idle", "executed", "open"}
    BY <1>1, <1>2, DriverAnswersType
  <1> QED BY <1>1, <1>3 DEF Answer, core, TypeOK

(* A transaction leaves the statement in one of its states.                *)
LEMMA TypeTransact ==
  ASSUME TypeOK, UNCHANGED drv, NEW b \in Behaviors, Transact(b)
  PROVE  TypeOK'
  <1>1. /\ state' \in States /\ cursor_state' \in CursorStates
        /\ prep_state' \in BOOLEAN
    BY DEF Transact, AfterTransaction, TypeOK, States, UpToExecuted, CursorStates
  <1>2. drvCursor' \in {"idle", "executed", "open"}
        /\ drvAsync' = drvAsync /\ drvNeed' = drvNeed
    BY DEF Transact, DriverEndsTransaction, TypeOK
  <1> QED BY <1>1, <1>2 DEF Transact, TypeOK

-----------------------------------------------------------------------------
(* What a completion has to show of the statement's state.                 *)
CoreTypes ==
  /\ state' \in States /\ cursor_state' \in CursorStates
  /\ prep_state' \in BOOLEAN
  /\ asyn_on' \in AsyncCalls \cup {NoProc}
  /\ need_on' \in Executors \cup {"SetPos", NoProc}

LEMMA TypeLeave ==
  ASSUME TypeOK, UNCHANGED drv, NEW f, Leave(f), live' = live, CoreTypes,
         drvAsync' \in AsyncCalls \cup {NoProc},
         drvNeed' = drvNeed, drvCursor' = drvCursor
  PROVE  TypeOK'
  BY DEF Leave, CoreTypes, TypeOK

(* Every completion but that of SQLFreeStmt(SQL_DROP) keeps the types.     *)
LEMMA TypeStill ==
  ASSUME TypeOK, UNCHANGED drv, NEW f \in AsyncCalls, StillSuspended(f)
  PROVE  TypeOK'
  <1>1. CoreTypes
    BY DEF StillSuspended, core, CoreTypes, TypeOK
  <1> QED BY <1>1, TypeLeave DEF StillSuspended, Rest, driver, TypeOK

LEMMA TypePrepare ==
  ASSUME TypeOK, UNCHANGED drv, PrepareReturns
  PROVE  TypeOK'
  <1>1. asyn_on' \in AsyncCalls \cup {NoProc}
    BY AsynAfterType DEF PrepareReturns, AsyncCalls
  <1>2. state' \in States /\ prep_state' \in BOOLEAN
    BY DEF PrepareReturns, TypeOK, States, UpToExecuted
  <1>3. CoreTypes
    BY <1>1, <1>2 DEF PrepareReturns, CoreTypes, TypeOK
  <1> QED BY <1>3, TypeLeave DEF PrepareReturns, Rest, driver, TypeOK

LEMMA TypeExecute ==
  ASSUME TypeOK, UNCHANGED drv, ExecuteReturns
  PROVE  TypeOK'
  <1>1. CASE state = "prepared" /\ answer = "SUCCESS"
    <2>1. CoreTypes /\ drvAsync' \in AsyncCalls \cup {NoProc}
      BY <1>1, DoCursorOpenType DEF ExecuteReturns, CoreTypes, TypeOK
    <2> QED BY <1>1, <2>1, TypeLeave DEF ExecuteReturns
  <1>2. CASE ~(state = "prepared" /\ answer = "SUCCESS")
    <2>1. asyn_on' \in AsyncCalls \cup {NoProc}
      BY <1>2, AsynAfterType DEF ExecuteReturns, AsyncCalls, Executors
    <2>2. /\ state' \in States /\ cursor_state' \in CursorStates
          /\ need_on' \in Executors \cup {"SetPos", NoProc}
      BY <1>2 DEF ExecuteReturns, TypeOK, States, UpToExecuted, DataStates,
                  CursorStates, Executors
    <2>3. CoreTypes
      BY <2>1, <2>2 DEF ExecuteReturns, CoreTypes, TypeOK
    <2> QED BY <1>2, <2>3, TypeLeave DEF ExecuteReturns, driver, TypeOK
  <1> QED BY <1>1, <1>2

LEMMA TypeExecDirect ==
  ASSUME TypeOK, UNCHANGED drv, ExecDirectReturns
  PROVE  TypeOK'
  <1>0. prep_state' \in BOOLEAN
    BY DEF ExecDirectReturns, TypeOK
  <1>1. CASE state \in UpToExecuted /\ answer = "SUCCESS"
    <2>1. CoreTypes /\ drvAsync' \in AsyncCalls \cup {NoProc}
      BY <1>0, <1>1, DoCursorOpenType DEF ExecDirectReturns, CoreTypes, TypeOK
    <2> QED BY <1>1, <2>1, TypeLeave DEF ExecDirectReturns
  <1>2. CASE ~(state \in UpToExecuted /\ answer = "SUCCESS")
    <2>1. asyn_on' \in AsyncCalls \cup {NoProc}
      BY <1>2, AsynAfterType DEF ExecDirectReturns, AsyncCalls, Executors
    <2>2. /\ state' \in States /\ cursor_state' \in CursorStates
          /\ need_on' \in Executors \cup {"SetPos", NoProc}
      BY <1>2 DEF ExecDirectReturns, TypeOK, States, UpToExecuted, DataStates,
                  CursorStates, Executors
    <2>3. CoreTypes
      BY <1>0, <2>1, <2>2 DEF CoreTypes
    <2> QED BY <1>2, <2>3, TypeLeave DEF ExecDirectReturns, driver, TypeOK
  <1> QED BY <1>1, <1>2

LEMMA TypeCatalog ==
  ASSUME TypeOK, UNCHANGED drv, NEW f \in Catalog, CatalogReturns(f)
  PROVE  TypeOK'
  <1>1. asyn_on' \in AsyncCalls \cup {NoProc}
    BY AsynAfterType DEF CatalogReturns, AsyncCalls
  <1>2. state' \in States /\ prep_state' \in BOOLEAN
    BY DEF CatalogReturns, TypeOK, States, UpToExecuted, OpenStates
  <1>3. CoreTypes
    BY <1>1, <1>2 DEF CatalogReturns, CoreTypes, TypeOK
  <1> QED BY <1>3, TypeLeave DEF CatalogReturns, Rest, driver, TypeOK

LEMMA TypeFetch ==
  ASSUME TypeOK, UNCHANGED drv, FetchReturns
  PROVE  TypeOK'
  <1>1. asyn_on' \in AsyncCalls \cup {NoProc}
    BY AsynAfterType DEF FetchReturns, AsyncCalls, RowCalls, Fetchers
  <1>2. state' \in States /\ cursor_state' \in CursorStates
    BY DEF FetchReturns, TypeOK, States, UpToExecuted, OpenStates, CursorStates
  <1>3. CoreTypes
    BY <1>1, <1>2 DEF FetchReturns, CoreTypes, TypeOK
  <1> QED BY <1>3, TypeLeave DEF FetchReturns, Rest, driver, TypeOK

LEMMA TypeScroll ==
  ASSUME TypeOK, UNCHANGED drv, NEW f \in {"ExtendedFetch", "FetchScroll"}, ScrollReturns(f)
  PROVE  TypeOK'
  <1>1. asyn_on' \in AsyncCalls \cup {NoProc}
    BY AsynAfterType DEF ScrollReturns, AsyncCalls, RowCalls, Fetchers
  <1>2. state' \in States /\ cursor_state' \in CursorStates
    BY DEF ScrollReturns, TypeOK, States, OpenStates, CursorStates
  <1>3. CoreTypes
    BY <1>1, <1>2 DEF ScrollReturns, CoreTypes, TypeOK
  <1> QED BY <1>3, TypeLeave DEF ScrollReturns, Rest, driver, TypeOK

LEMMA TypeGetData ==
  ASSUME TypeOK, UNCHANGED drv, GetDataReturns
  PROVE  TypeOK'
  <1>1. asyn_on' \in AsyncCalls \cup {NoProc}
    BY AsynAfterType DEF GetDataReturns, AsyncCalls, RowCalls
  <1>2. CoreTypes
    BY <1>1 DEF GetDataReturns, CoreTypes, TypeOK
  <1> QED BY <1>2, TypeLeave DEF GetDataReturns, Rest, driver, TypeOK

LEMMA TypeMoreResults ==
  ASSUME TypeOK, UNCHANGED drv, MoreResultsReturns
  PROVE  TypeOK'
  <1>0. \A i \in BOOLEAN : NoMoreResults(i) \in States
    BY DEF NoMoreResults, States, UpToExecuted, OpenStates
  <1>1. CASE state = "executed_with_info"
    <2>1. PICK n \in ColAnswers :
            /\ state' = IF answer = "NO_DATA" THEN NoMoreResults(FALSE)
                        ELSE IF n = "cols" THEN "cursoropen" ELSE "executed"
            /\ cursor_state' = CASE n = "cols" -> "opened" [] n = "nocols" -> "no"
                                 [] OTHER -> cursor_state
            /\ asyn_on' = IF answer = "STILL" THEN "MoreResults"
                          ELSE IF n = "STILL" THEN "NumResultCols" ELSE NoProc
            /\ drvAsync' = IF n = "STILL" THEN "NumResultCols" ELSE drvAsync
      BY <1>1 DEF MoreResultsReturns
    <2>2. state' \in States /\ cursor_state' \in CursorStates
      BY <1>0, <2>1 DEF TypeOK, States, UpToExecuted, OpenStates, CursorStates
    <2>3. /\ asyn_on' \in AsyncCalls \cup {NoProc}
          /\ drvAsync' \in AsyncCalls \cup {NoProc}
      BY <2>1 DEF TypeOK, AsyncCalls, Describers
    <2>4. CoreTypes
      BY <2>2, <2>3 DEF MoreResultsReturns, CoreTypes, TypeOK
    <2> QED BY <1>1, <2>3, <2>4, TypeLeave DEF MoreResultsReturns
  <1>2. CASE state # "executed_with_info"
    <2>1. asyn_on' \in AsyncCalls \cup {NoProc}
      BY <1>2, AsynAfterType DEF MoreResultsReturns, AsyncCalls
    <2>2. state' \in States
      BY <1>0, <1>2 DEF MoreResultsReturns, TypeOK
    <2>3. CoreTypes
      BY <1>2, <2>1, <2>2 DEF MoreResultsReturns, CoreTypes, TypeOK
    <2> QED BY <1>2, <2>3, TypeLeave DEF MoreResultsReturns, driver, TypeOK
  <1> QED BY <1>1, <1>2

LEMMA TypeSetPos ==
  ASSUME TypeOK, UNCHANGED drv, NEW f \in {"SetPos", "BulkOperations"}, SetPosReturns(f)
  PROVE  TypeOK'
  <1>1. asyn_on' \in AsyncCalls \cup {NoProc}
    BY AsynAfterType DEF SetPosReturns, AsyncCalls, RowCalls
  <1>2. CoreTypes
    BY <1>1 DEF SetPosReturns, CoreTypes, TypeOK, States, DataStates
  <1> QED BY <1>2, TypeLeave DEF SetPosReturns, Rest, driver, TypeOK

LEMMA TypePutData ==
  ASSUME TypeOK, UNCHANGED drv, PutDataReturns
  PROVE  TypeOK'
  <1>1. asyn_on' \in AsyncCalls \cup {NoProc}
    BY AsynAfterType DEF PutDataReturns, AsyncCalls, Suppliers
  <1>2. state' \in States /\ need_on' \in Executors \cup {"SetPos", NoProc}
    BY DEF PutDataReturns, TypeOK, States, UpToExecuted, OpenStates, DataStates
  <1>3. CoreTypes
    BY <1>1, <1>2 DEF PutDataReturns, CoreTypes, TypeOK
  <1> QED BY <1>3, TypeLeave DEF PutDataReturns, Rest, driver, TypeOK

LEMMA BeforeNeedState ==
  ASSUME TypeOK
  PROVE  BeforeNeed \in States
  BY DEF BeforeNeed, TypeOK, States, UpToExecuted, OpenStates

LEMMA TypeParamData ==
  ASSUME TypeOK, UNCHANGED drv, ParamDataReturns
  PROVE  TypeOK'
  <1>0. need_on' \in Executors \cup {"SetPos", NoProc}
    BY DEF ParamDataReturns, TypeOK
  <1> DEFINE finished == /\ state \in DataStates /\ answer \in OKs
                         /\ state = "canput" /\ need_on \in Executors
  <1>1. CASE finished
    <2>1. CoreTypes /\ drvAsync' \in AsyncCalls \cup {NoProc}
      BY <1>0, <1>1, DoCursorOpenType DEF ParamDataReturns, CoreTypes, TypeOK
    <2> QED BY <1>1, <2>1, TypeLeave DEF ParamDataReturns
  <1>2. CASE ~finished
    <2>1. asyn_on' \in AsyncCalls \cup {NoProc}
      BY <1>2, AsynAfterType DEF ParamDataReturns, AsyncCalls, Suppliers
    <2>2. state' \in States
      BY <1>2, BeforeNeedState DEF ParamDataReturns, TypeOK, States, OpenStates, DataStates
    <2>3. cursor_state' \in CursorStates
      BY <1>2 DEF ParamDataReturns, TypeOK, CursorStates
    <2>4. CoreTypes
      BY <1>0, <2>1, <2>2, <2>3 DEF ParamDataReturns, CoreTypes, TypeOK
    <2> QED BY <1>2, <2>4, TypeLeave DEF ParamDataReturns, driver, TypeOK
  <1> QED BY <1>1, <1>2

LEMMA TypeDescriber ==
  ASSUME TypeOK, UNCHANGED drv, NEW f \in Describers, DescriberReturns(f)
  PROVE  TypeOK'
  <1>1. asyn_on' \in AsyncCalls \cup {NoProc}
    BY AsynAfterType DEF DescriberReturns, AsyncCalls
  <1>2. CoreTypes
    BY <1>1 DEF DescriberReturns, CoreTypes, TypeOK
  <1> QED BY <1>2, TypeLeave DEF DescriberReturns, Rest, driver, TypeOK

LEMMA ClosedState ==
  ASSUME TypeOK
  PROVE  Closed \in States
  BY DEF Closed, TypeOK, States, UpToExecuted

LEMMA TypeClose ==
  ASSUME TypeOK, UNCHANGED drv, NEW f \in Closers, CloseReturns(f)
  PROVE  TypeOK'
  <1>1. state' \in States /\ cursor_state' \in CursorStates
    BY ClosedState DEF CloseReturns, TypeOK, CursorStates
  <1>2. CoreTypes
    BY <1>1 DEF CloseReturns, CoreTypes, TypeOK
  <1> QED BY <1>2, TypeLeave DEF CloseReturns, Rest, driver, TypeOK

LEMMA TypeCancel ==
  ASSUME TypeOK, UNCHANGED drv, CancelReturns
  PROVE  TypeOK'
  <1>1. state' \in States
    BY ClosedState, BeforeNeedState DEF CancelReturns, TypeOK
  <1>2. CoreTypes
    BY <1>1 DEF CancelReturns, CoreTypes, TypeOK
  <1> QED BY <1>2, TypeLeave DEF CancelReturns, Rest, driver, TypeOK

LEMMA TypePassive ==
  ASSUME TypeOK, UNCHANGED drv, NEW f, PassiveReturns(f)
  PROVE  TypeOK'
  <1>1. CoreTypes
    BY DEF PassiveReturns, CoreTypes, TypeOK, CursorStates
  <1> QED BY <1>1, TypeLeave DEF PassiveReturns, Rest, driver, TypeOK

LEMMA TypeReturns ==
  ASSUME TypeOK, UNCHANGED drv, Returns
  PROVE  TypeOK'
  <1>1. CASE DropReturns
    BY <1>1 DEF DropReturns, Dropped, core, driver, TypeOK
  <1> QED
    BY <1>1, TypeStill, TypePrepare, TypeExecute, TypeExecDirect, TypeCatalog,
       TypeFetch, TypeScroll, TypeGetData, TypeMoreResults, TypeSetPos,
       TypePutData, TypeParamData, TypeDescriber, TypeClose, TypeCancel,
       TypePassive DEF Returns

LEMMA TypeStep == TypeOK /\ [Next]_vars => TypeOK'
  <1> SUFFICES ASSUME TypeOK, [Next]_vars PROVE TypeOK'
    OBVIOUS
  <1>0. UNCHANGED drv
    BY DEF Next, vars
  <1>1. CASE AllocStmt
    BY <1>0, <1>1 DEF AllocStmt, TypeOK, States, UpToExecuted, CursorStates
  <1>2. ASSUME NEW f \in Calls, Refuse(f) PROVE TypeOK'
    BY <1>0, <1>2 DEF Refuse, Dropped, Kept, driver, TypeOK
  <1>3. ASSUME NEW f \in Catalog, BadArgument(f) PROVE TypeOK'
    BY <1>0, <1>3 DEF BadArgument, core, driver, TypeOK
  <1>4. CASE UNCHANGED vars
    BY <1>4 DEF vars, core, driver, TypeOK
  <1> QED
    BY <1>0, <1>1, <1>2, <1>3, <1>4, TypeForward, TypeAnswer, TypeReturns, TypeTransact
    DEF Next, Step

(* Every variable of the statement and of its driver keeps its type, for   *)
(* every driver.                                                           *)
THEOREM TypeCorrect == Spec => []TypeOK
  <1>1. Init => TypeOK
    BY TypeInit
  <1>2. TypeOK /\ [Next]_vars => TypeOK'
    BY TypeStep
  <1> QED BY <1>1, <1>2, PTL DEF Spec

-----------------------------------------------------------------------------
(* Every completion takes the call out of the statement.                   *)
LEMMA ReturnsLeave == Returns => cip' = NoCall
  BY DEF Returns, StillSuspended, PrepareReturns, ExecuteReturns,
         ExecDirectReturns, CatalogReturns, FetchReturns, ScrollReturns,
         GetDataReturns, MoreResultsReturns, SetPosReturns, PutDataReturns,
         ParamDataReturns, DescriberReturns, CloseReturns, DropReturns,
         CancelReturns, PassiveReturns, Leave

LEMMA ReturnsAnswered == Returns => answer # NoCall /\ answer' = NoCall
  BY DEF Returns, StillSuspended, PrepareReturns, ExecuteReturns,
         ExecDirectReturns, CatalogReturns, FetchReturns, ScrollReturns,
         GetDataReturns, MoreResultsReturns, SetPosReturns, PutDataReturns,
         ParamDataReturns, DescriberReturns, CloseReturns, DropReturns,
         CancelReturns, PassiveReturns, Leave

(* A call enters a suspended statement only as a poll or as a bystander.   *)
LEMMA OwnerForward ==
  ASSUME NEW f \in Calls, Forward(f), UNCHANGED drv
  PROVE  CallOwner'
  <1>1. cip' = f /\ Allowed(f)
    BY DEF Forward, Reaches
  <1>2. CASE f = "Fetch" /\ asyn_on = NoProc /\ state = "executed_with_info"
    <2>1. PICK n \in ColAnswers : DoCursorOpen(n)
      BY <1>2 DEF Forward
    <2> QED BY <1>1, <1>2, <2>1 DEF DoCursorOpen, CallOwner, ColAnswers, Owner, Exports
  <1>3. CASE ~(f = "Fetch" /\ asyn_on = NoProc /\ state = "executed_with_info")
    <2>1. asyn_on' = asyn_on
      BY <1>3 DEF Forward, core
    <2>2. asyn_on # NoProc => asyn_on = Owner(f) \/ f \in Bystanders
      BY <1>1 DEF Allowed, Unchecked, Bystanders
    <2> QED BY <1>1, <2>1, <2>2 DEF CallOwner, Owner, Exports
  <1> QED BY <1>2, <1>3

LEMMA OwnerStep == CallOwner /\ [Next]_vars => CallOwner'
  <1> SUFFICES ASSUME CallOwner, [Next]_vars PROVE CallOwner'
    OBVIOUS
  <1>0. UNCHANGED drv
    BY DEF Next, vars
  <1>1. CASE AllocStmt
    BY <1>1 DEF AllocStmt, CallOwner
  <1>2. ASSUME NEW f \in Calls, Refuse(f) PROVE CallOwner'
    BY <1>0, <1>2 DEF Refuse, CallOwner, Owner, Exports
  <1>3. ASSUME NEW f \in Catalog, BadArgument(f) PROVE CallOwner'
    BY <1>3 DEF BadArgument, CallOwner
  <1>4. CASE Answer
    BY <1>0, <1>4 DEF Answer, core, CallOwner, Owner, Exports
  <1>5. CASE Returns
    BY <1>5, ReturnsLeave DEF CallOwner
  <1>6. ASSUME NEW b \in Behaviors, Transact(b) PROVE CallOwner'
    BY <1>0, <1>6 DEF Transact, CallOwner, Owner, Exports
  <1>7. CASE UNCHANGED vars
    BY <1>7 DEF vars, core, CallOwner, Owner, Exports
  <1> QED
    BY <1>0, <1>1, <1>2, <1>3, <1>4, <1>5, <1>6, <1>7, OwnerForward DEF Next, Step

(* While a statement is suspended, the only calls let into the driver are  *)
(* polls of the suspended call and the calls whose check ignores it.       *)
THEOREM CallOwnerHolds == Spec => []CallOwner
  <1>1. Init => CallOwner
    BY DEF Init, CallOwner
  <1>2. CallOwner /\ [Next]_vars => CallOwner'
    BY OwnerStep
  <1> QED BY <1>1, <1>2, PTL DEF Spec

-----------------------------------------------------------------------------
(* A transaction that closes the driver's cursor takes the statement out   *)
(* of its cursor states, whatever the behaviour the driver applies to      *)
(* commits and rollbacks alike.                                            *)
LEMMA TransactCloses ==
  ASSUME NEW b \in Behaviors, Transact(b), CbCommit = CbRollback,
         drvCursor = "open", drvCursor' = "idle"
  PROVE  state' \notin OpenStates
<1>1. b = CbCommit /\ b \in {"delete", "close"}
  BY DEF Transact, DriverEndsTransaction, Behaviors
<1>2. Either("delete") \/ Either("close")
  BY <1>1 DEF Either
<1>3. ~Either("preserve")
  BY <1>1 DEF Either
<1> QED BY <1>2, <1>3 DEF Transact, AfterTransaction, OpenStates, UpToExecuted

(* When the driver's cursor goes in a step that is no call's, the          *)
(* statement leaves its cursor states in the same step.                    *)
THEOREM TransactClosesCursorHolds == Spec => TransactClosesCursor
<1>1. ASSUME TypeOK, Next, CbCommit = CbRollback, drvCursor = "open", drvCursor' = "idle",
             cip' = cip, answer' = answer
      PROVE  state' \notin OpenStates
  <2>1. CASE AllocStmt
    BY <2>1 DEF AllocStmt, OpenStates
  <2>2. ASSUME NEW f \in Calls, Forward(f) PROVE FALSE
    BY <1>1, <2>2, CatalogAssumption
    DEF Forward, NoCall, Calls, AsyncCalls, Executors, RowCalls, Fetchers, Suppliers,
        Describers, Closers, Passive
  <2>3. ASSUME NEW f \in Calls, Refuse(f) PROVE FALSE
    BY <1>1, <2>3 DEF Refuse, driver
  <2>4. ASSUME NEW f \in Catalog, BadArgument(f) PROVE FALSE
    BY <1>1, <2>4 DEF BadArgument, driver
  <2>5. ASSUME Answer PROVE FALSE
    BY <1>1, <2>5 DEF Answer, AllCodes, OKs, NoCall
  <2>6. ASSUME Returns PROVE FALSE
    <3>1. answer' = NoCall /\ answer # NoCall
      BY <2>6, ReturnsAnswered
    <3> QED BY <1>1, <3>1
  <2> QED BY <1>1, <2>1, <2>2, <2>3, <2>4, <2>5, <2>6, TransactCloses DEF Next, Step
<1>2. TypeOK /\ [Next]_vars =>
        [CbCommit = CbRollback /\ drvCursor = "open" /\ drvCursor' = "idle"
           /\ cip' = cip /\ answer' = answer => state' \notin OpenStates]_vars
  BY <1>1
<1> QED BY <1>2, TypeCorrect, PTL DEF Spec, TransactClosesCursor

-----------------------------------------------------------------------------
(* A statement implements what StmtPhases promises of it, and asyn_on      *)
(* names a call its driver is still executing.                             *)
(*                                                                         *)
(* Both rest on one invariant, because a suspension that asyn_on has lost  *)
(* or the driver has ended would let a call in that changes the phase: the *)
(* driver is executing the call asyn_on names until it has answered its    *)
(* poll (RunInv), a call answers what its function may answer (CallInv),   *)
(* and only calls for data are inside a statement that collects data       *)
(* (DataInv, SupplyInv).                                                   *)

(* The calls let into a statement that is collecting data.                 *)
DataCalls == Suppliers \cup Bystanders \cup {"BindCol"}

(* Nobody is in a statement that does not exist, and the driver's answer   *)
(* belongs to the call in progress.                                        *)
CallInv ==
  /\ cip # NoCall => live
  /\ cip = NoCall => answer = NoCall
  /\ answer # NoCall => answer \in Codes(Entry(cip))

(* The calls whose suspension asyn_on really follows. *)
Followed == AsyncCalls \ ({"NumParams", "DescribeParam", "ParamData", "BulkOperations"} \cup Executors)

(* The names asyn_on takes, and those it may keep of a call that is over.  *)
Ending == {"NumParams", "DescribeParam", "Execute", "ExecDirect"}
Suspended == Followed \cup Ending \cup {NoProc}

(* The driver is executing the call asyn_on names, until it has answered   *)
(* its poll; and the call it has answered SQL_STILL_EXECUTING to.          *)
RunInv ==
  /\ live => asyn_on \in Suspended
  /\ answer = "STILL" => drvAsync = Entry(cip)
  /\ live /\ asyn_on \in Followed /\ (answer = NoCall \/ asyn_on # Owner(cip)) =>
       drvAsync = Entry(asyn_on)

(* A statement that is collecting data has no call in it but those for     *)
(* data, and only SQLPutData suspended.                                    *)
DataInv ==
  live /\ state \in DataStates =>
    /\ asyn_on \in {NoProc, "PutData"}
    /\ cip \in DataCalls \cup {NoCall}
    /\ cip = "BulkOperations" => cip \in Exports

(* A call for data that is not a poll is in a statement collecting it.     *)
SupplyInv ==
  cip = "PutData" /\ asyn_on # "PutData" => state \in DataStates

(* SQLBulkOperations without the driver's is SQLSetPos to the check.        *)
BulkInv ==
  cip = "BulkOperations" /\ cip \notin Exports => asyn_on \in {NoProc, "SetPos"}

IInv == TypeOK /\ CallOwner /\ CallInv /\ RunInv /\ DataInv /\ SupplyInv /\ BulkInv

Names == {"Tables", "Columns", "GetTypeInfo"}

-----------------------------------------------------------------------------
(* Functions of the driver.                                                *)
LEMMA EntryOfOwner ==
  ASSUME NEW f \in Calls
  PROVE  Entry(Owner(f)) = Entry(f)
BY DEF Entry, Owner

(* A call that is let in beside a suspended one is another function of the *)
(* driver.                                                                 *)
LEMMA EntryApart ==
  ASSUME NEW f \in Calls, NEW o \in Followed \cup Executors, Owner(f) # o,
         f \in Bystanders \/ (f = "Fetch" /\ o = "NumResultCols")
  PROVE  Entry(f) # Entry(o)
<1>1. o \in Names \cup Executors \cup (RowCalls \ {"BulkOperations"}) \cup {"PutData"}
            \cup {"NumResultCols", "DescribeCol", "ColAttributes", "Prepare", "MoreResults"}
  BY CatalogAssumption DEF Followed, AsyncCalls, Suppliers, Describers, Names
<1>2. CASE f = "Fetch"
  BY <1>1, <1>2 DEF Entry, Bystanders
<1>3. CASE f = "BulkOperations"
  BY <1>1, <1>3 DEF Entry, Owner, Names, Executors, RowCalls, Fetchers
<1>4. CASE f \in Bystanders \ {"BulkOperations"}
  BY <1>1, <1>4 DEF Entry, Owner, Bystanders, Names, Executors, RowCalls, Fetchers
<1> QED BY <1>2, <1>3, <1>4

(* The names asyn_on takes that are no followed call.                      *)
LEMMA NoProcApart ==
  /\ NoProc \notin Followed /\ "NumResultCols" \in Followed
  /\ Entry("NumResultCols") = "NumResultCols"
BY CatalogAssumption
DEF Followed, AsyncCalls, NoProc, Executors, RowCalls, Fetchers, Suppliers, Describers, Entry

LEMMA FollowedIs ==
  /\ Followed \subseteq Suspended /\ NoProc \in Suspended
  /\ \A o \in Executors : /\ o \notin Followed /\ o # NoProc /\ o \in Suspended
                          /\ o \notin {"NumParams", "DescribeParam"} /\ Entry(o) = o /\ Owner(o) = o
BY DEF Followed, Suspended, Ending, Executors, NoProc, Entry, Owner

(* The driver finishes nothing with SQL_STILL_EXECUTING, every other       *)
(* answer to a followed call finishes it, and every other answer to an     *)
(* execution but SQL_NO_DATA.                                              *)
LEMMA StillIsUnfinished ==
  ASSUME NEW f \in Calls
  PROVE  "STILL" \notin Finishing(f)
BY DEF Finishing, OKs

LEMMA UnfinishedIsStill ==
  ASSUME NEW f \in Calls, Owner(f) \in Followed,
         NEW r \in Codes(Entry(f)), r \notin Finishing(Owner(f))
  PROVE  r = "STILL"
<1>1. CASE f \in Names
  BY <1>1 DEF Codes, Finishing, Entry, Owner, OKs, Names, Executors, Fetchers
<1>2. CASE f \in Executors \cup RowCalls
  BY <1>2 DEF Codes, Finishing, Entry, Owner, OKs, Executors, RowCalls, Fetchers, Followed
<1>3. CASE f \in {"PutData", "NumResultCols", "DescribeCol", "ColAttributes",
                  "Prepare", "MoreResults"}
  BY <1>3 DEF Codes, Finishing, Entry, Owner, OKs, Executors, Fetchers
<1>4. Owner(f) = f \/ f \in RowCalls
  BY DEF Owner, RowCalls
<1> QED
  BY <1>1, <1>2, <1>3, <1>4, CatalogAssumption
  DEF Followed, AsyncCalls, Suppliers, Describers, Names

LEMMA UnfinishedExecution ==
  ASSUME NEW f \in Calls, Owner(f) \in Executors,
         NEW r \in Codes(Entry(f)), r \notin Finishing(Owner(f))
  PROVE  r = "STILL" \/ NoRow(f, r)
<1>1. f \in Executors
  BY DEF Owner, Executors
<1> QED BY <1>1 DEF Codes, Finishing, Entry, Owner, OKs, Executors, Fetchers, NoRow

-----------------------------------------------------------------------------
(* What the end of a call f leaves of the suspension.                      *)
AsynEnds(f) ==
  /\ live' = live /\ cip = f /\ cip' = NoCall /\ answer' = NoCall
  /\ asyn_on' \in Suspended
  /\ asyn_on' \in Followed => drvAsync' = Entry(asyn_on')
  /\ asyn_on' \in Executors => \/ drvAsync' = asyn_on'
                               \/ asyn_on' = asyn_on /\ (Lost \/ NoRow(f, answer))
  /\ asyn_on \in {NoProc, Owner(f)} => asyn_on' \in {NoProc, Owner(f), "NumResultCols"}
  /\ asyn_on \notin {NoProc, Owner(f)} =>
       asyn_on' = asyn_on \/ (asyn_on \notin Followed /\ asyn_on' = Owner(f))

(* What it leaves of the data phase.                                       *)
DataEnds(f) ==
  /\ state \in DataStates /\ state' \notin DataStates => f \in {"PutData", "ParamData", "Cancel"}
  /\ state \notin DataStates /\ state' \in DataStates =>
       Owner(f) \in {"Execute", "ExecDirect", "SetPos"} \/ (f = "PutData" /\ asyn_on = "PutData")
  /\ state' \in DataStates => asyn_on' \in {NoProc, "PutData"}

Ended(f) == AsynEnds(f) /\ DataEnds(f)

(* The rule most completions follow.                                       *)
LEMMA AsynAfterEnds ==
  ASSUME IInv, NEW f \in AsyncCalls, NEW b, Leave(f), ~Unfinished(f),
         b => Owner(f) \in Suspended,
         asyn_on' = AsynAfter(f, b), UNCHANGED <<drvAsync, live>>
  PROVE  /\ AsynEnds(f)
         /\ asyn_on' \in {NoProc, asyn_on} \/ (b /\ answer = "STILL" /\ asyn_on' = Owner(f))
         /\ asyn_on = Owner(f) => asyn_on' = NoProc
<1>0. live /\ cip = f /\ f \in Calls /\ Owner(f) \in Calls /\ answer # NoCall
  BY EntryCall DEF IInv, CallInv, Leave, Calls, NoCall, AsyncCalls
<1>1. CASE answer = "STILL" /\ b
  <2>1. asyn_on # Owner(f)
    BY <1>0, <1>1, StillIsUnfinished DEF Unfinished, Polled
  <2>2. drvAsync = Entry(Owner(f))
    BY <1>0, <1>1, EntryOfOwner DEF IInv, RunInv
  <2>3. asyn_on \notin Followed
    <3> SUFFICES ASSUME asyn_on \in Followed PROVE FALSE
      OBVIOUS
    <3>1. drvAsync = Entry(asyn_on)
      BY <1>0, <2>1 DEF IInv, RunInv
    <3>2. f \in Bystanders \/ (f = "Fetch" /\ asyn_on = "NumResultCols")
      BY <1>0, <2>1, CatalogAssumption
      DEF IInv, CallOwner, Followed, AsyncCalls, NoProc, NoCall, Executors, RowCalls, Fetchers,
          Suppliers, Describers, Calls
    <3> QED BY <1>0, <2>1, <2>2, <3>1, <3>2, EntryApart, EntryOfOwner
  <2>4. asyn_on' = Owner(f)
    BY <1>1 DEF AsynAfter
  <2>5. asyn_on' \in Executors => drvAsync' = asyn_on'
    BY <2>2, <2>4, FollowedIs, EntryOfOwner
  <2>6. Entry(asyn_on') = drvAsync' /\ asyn_on' \in Suspended
    BY <1>1, <2>2, <2>4
  <2> QED
    BY <1>0, <1>1, <2>1, <2>3, <2>4, <2>5, <2>6 DEF AsynEnds, Leave
<1>2. CASE ~(answer = "STILL" /\ b) /\ Polled(f)
  <2>1. asyn_on' = NoProc /\ asyn_on = Owner(f)
    BY <1>2 DEF AsynAfter, Polled
  <2>2. NoProc \notin Followed /\ NoProc \notin Executors /\ NoProc \in Suspended
    BY NoProcApart, FollowedIs
  <2> QED BY <1>0, <2>1, <2>2 DEF AsynEnds, Leave
<1>3. CASE ~(answer = "STILL" /\ b) /\ ~Polled(f)
  <2>1. asyn_on' = asyn_on /\ asyn_on # Owner(f)
    BY <1>3 DEF AsynAfter, Polled
  <2>2. asyn_on \in Executors => drvAsync = asyn_on \/ Lost
    BY <1>0, <2>1, FollowedIs DEF Lost
  <2> QED BY <1>0, <2>1, <2>2 DEF AsynEnds, Leave, IInv, RunInv
<1> QED BY <1>1, <1>2, <1>3

(* A call that leaves asyn_on alone.                                       *)
LEMMA KeptEnds ==
  ASSUME IInv, NEW f \in Calls, f \notin AsyncCalls \/ Owner(f) = "BulkOperations", Leave(f),
         UNCHANGED <<asyn_on, drvAsync, live>>
  PROVE  AsynEnds(f)
<1>1. live /\ cip = f
  BY DEF IInv, CallInv, Leave, NoCall, Calls
<1>2. asyn_on \in Followed \cup Executors => Owner(f) # asyn_on
  BY DEF Owner, Followed, AsyncCalls, RowCalls, Executors
<1>3. asyn_on \in Executors => drvAsync = asyn_on \/ Lost
  BY <1>1, <1>2, FollowedIs DEF Lost
<1> QED BY <1>1, <1>2, <1>3 DEF AsynEnds, Leave, IInv, RunInv

(* The driver manager asks for the columns after an execution.             *)
LEMMA OpenEnds ==
  ASSUME IInv, NEW f \in {"Execute", "ExecDirect", "ParamData"}, Leave(f),
         NEW n \in ColAnswers, DoCursorOpen(n), UNCHANGED live
  PROVE  AsynEnds(f) /\ state' \notin DataStates
<1>1. live /\ cip = f /\ Owner(f) = f
  BY DEF IInv, CallInv, Leave, NoCall, Owner
<1>2. asyn_on \in {NoProc, f}
  BY <1>1 DEF IInv, CallOwner, Bystanders, NoCall
<1>3. /\ asyn_on' \in {NoProc, "NumResultCols"}
      /\ asyn_on' = "NumResultCols" => drvAsync' = "NumResultCols"
      /\ state' \notin DataStates
  BY DEF DoCursorOpen, DataStates, NoProc
<1>4. NoProc \notin Followed /\ "NumResultCols" \in Followed /\ Entry("NumResultCols") = "NumResultCols"
  BY NoProcApart
<1> QED BY <1>1, <1>2, <1>3, <1>4, FollowedIs DEF AsynEnds, Leave, Executors

LEMMA NoCallApart == NoCall \notin Calls
BY CatalogAssumption
DEF NoCall, Calls, AsyncCalls, Executors, RowCalls, Fetchers, Suppliers, Describers, Closers,
    Passive

(* A call that is not for data is in a statement that collects none.       *)
LEMMA NotCollecting ==
  ASSUME IInv, NEW f \in Calls, cip = f, f \notin DataCalls
  PROVE  live /\ state \notin DataStates
BY NoCallApart DEF IInv, CallInv, DataInv

(* The call in progress is not a bystander: its own name or none is in     *)
(* asyn_on.                                                                *)
LEMMA OwnSuspension ==
  ASSUME IInv, NEW f \in Calls, cip = f, f \notin Bystanders \cup {"Fetch"}
  PROVE  asyn_on \in {NoProc, Owner(f)}
BY NoCallApart DEF IInv, CallOwner

(* A poll that is not over.                                                *)
LEMMA StillEnds ==
  ASSUME IInv, NEW f \in AsyncCalls, StillSuspended(f)
  PROVE  Ended(f)
<1>1. /\ live /\ cip = f /\ f \in Calls /\ answer # NoCall /\ answer \in Codes(Entry(f))
      /\ asyn_on = Owner(f) /\ answer \notin Finishing(Owner(f))
  BY DEF IInv, CallInv, StillSuspended, Leave, Unfinished, Polled, Calls, NoCall, AsyncCalls
<1>2. asyn_on \in Followed => drvAsync = Entry(asyn_on)
  BY <1>1, UnfinishedIsStill, EntryOfOwner DEF IInv, RunInv
<1>3. UNCHANGED <<state, asyn_on, drvAsync, live>>
  BY DEF StillSuspended, core, Rest, driver
<1>e. asyn_on \in Executors => drvAsync = asyn_on \/ NoRow(f, answer)
  <2> SUFFICES ASSUME asyn_on \in Executors PROVE drvAsync = asyn_on \/ NoRow(f, answer)
    OBVIOUS
  <2>1. answer = "STILL" \/ NoRow(f, answer)
    BY <1>1, UnfinishedExecution
  <2>2. answer = "STILL" => drvAsync = Entry(f)
    BY <1>1 DEF IInv, RunInv
  <2>3. Entry(f) = asyn_on
    BY <1>1, FollowedIs, EntryOfOwner
  <2> QED BY <2>1, <2>2, <2>3
<1>4. AsynEnds(f)
  BY <1>1, <1>2, <1>3, <1>e DEF AsynEnds, StillSuspended, Leave, IInv, RunInv
<1>5. DataEnds(f)
  BY <1>1, <1>3 DEF DataEnds, IInv, DataInv
<1> QED BY <1>4, <1>5 DEF Ended

LEMMA PrepareEnds ==
  ASSUME IInv, PrepareReturns
  PROVE  Ended("Prepare")
<1>1. "Prepare" \in AsyncCalls /\ Owner("Prepare") \in Followed /\ "Prepare" \in Calls
  BY DEF AsyncCalls, Followed, Owner, Calls, Executors
<1>2. AsynEnds("Prepare")
  BY <1>1, FollowedIs, AsynAfterEnds DEF PrepareReturns, Rest, driver
<1>3. state \notin DataStates /\ state' \notin DataStates
  BY <1>1, NotCollecting
  DEF PrepareReturns, Leave, DataCalls, Suppliers, Bystanders, DataStates
<1> QED BY <1>2, <1>3 DEF Ended, DataEnds

LEMMA ExecuteEnds ==
  ASSUME IInv, ExecuteReturns
  PROVE  Ended("Execute")
<1>1. /\ "Execute" \in AsyncCalls /\ Owner("Execute") = "Execute" /\ "Execute" \in Suspended
      /\ "Execute" \in Calls /\ cip = "Execute"
  BY DEF AsyncCalls, Suspended, Ending, Owner, Calls, Executors, ExecuteReturns, Leave
<1>2. state \notin DataStates
  BY <1>1, NotCollecting DEF DataCalls, Suppliers, Bystanders
<1>3. CASE state = "prepared" /\ answer = "SUCCESS"
  <2>1. AsynEnds("Execute") /\ state' \notin DataStates
    BY <1>3, OpenEnds DEF ExecuteReturns
  <2> QED BY <1>2, <2>1 DEF Ended, DataEnds
<1>4. CASE ~(state = "prepared" /\ answer = "SUCCESS")
  <2>1. /\ asyn_on' = AsynAfter("Execute", state \in {"prepared", "executed"})
        /\ UNCHANGED <<drvAsync, live>>
        /\ state' \in DataStates => answer = "NEED_DATA"
    BY <1>2, <1>4 DEF ExecuteReturns, driver, DataStates
  <2>2. /\ AsynEnds("Execute")
        /\ answer = "NEED_DATA" => asyn_on' \in {NoProc, asyn_on}
        /\ asyn_on = "Execute" => asyn_on' = NoProc
    BY <1>1, <2>1, FollowedIs, AsynAfterEnds DEF ExecuteReturns
  <2>3. asyn_on \in {NoProc, "Execute"}
    BY <1>1, OwnSuspension DEF Bystanders
  <2> QED BY <1>1, <1>2, <2>1, <2>2, <2>3 DEF Ended, DataEnds
<1> QED BY <1>3, <1>4

LEMMA ExecDirectEnds ==
  ASSUME IInv, ExecDirectReturns
  PROVE  Ended("ExecDirect")
<1>1. /\ "ExecDirect" \in AsyncCalls /\ Owner("ExecDirect") = "ExecDirect"
      /\ "ExecDirect" \in Suspended /\ "ExecDirect" \in Calls /\ cip = "ExecDirect"
  BY DEF AsyncCalls, Suspended, Ending, Owner, Calls, Executors, ExecDirectReturns, Leave
<1>2. state \notin DataStates
  BY <1>1, NotCollecting DEF DataCalls, Suppliers, Bystanders
<1>3. CASE state \in UpToExecuted /\ answer = "SUCCESS"
  <2>1. AsynEnds("ExecDirect") /\ state' \notin DataStates
    BY <1>3, OpenEnds DEF ExecDirectReturns
  <2> QED BY <1>2, <2>1 DEF Ended, DataEnds
<1>4. CASE ~(state \in UpToExecuted /\ answer = "SUCCESS")
  <2>1. /\ asyn_on' = AsynAfter("ExecDirect", state \in UpToExecuted)
        /\ UNCHANGED <<drvAsync, live>>
        /\ state' \in DataStates => answer = "NEED_DATA"
    BY <1>2, <1>4 DEF ExecDirectReturns, driver, DataStates
  <2>2. /\ AsynEnds("ExecDirect")
        /\ answer = "NEED_DATA" => asyn_on' \in {NoProc, asyn_on}
        /\ asyn_on = "ExecDirect" => asyn_on' = NoProc
    BY <1>1, <2>1, FollowedIs, AsynAfterEnds DEF ExecDirectReturns
  <2>3. asyn_on \in {NoProc, "ExecDirect"}
    BY <1>1, OwnSuspension DEF Bystanders
  <2> QED BY <1>1, <1>2, <2>1, <2>2, <2>3 DEF Ended, DataEnds
<1> QED BY <1>3, <1>4

LEMMA CatalogEnds ==
  ASSUME IInv, NEW f \in Catalog, CatalogReturns(f)
  PROVE  Ended(f)
<1>1. f \in AsyncCalls /\ Owner(f) = f /\ f \in Followed /\ f \in Calls /\ f \in Names
  <2>1. f \in Names /\ f \in AsyncCalls /\ f \in Calls
    BY CatalogAssumption DEF AsyncCalls, Calls, Names
  <2>2. f \notin {"NumParams", "DescribeParam", "ParamData", "BulkOperations"} /\ f \notin Executors
    BY <2>1 DEF Names, Executors
  <2> QED BY <2>1, <2>2 DEF Followed, Owner
<1>2. AsynEnds(f)
  BY <1>1, FollowedIs, AsynAfterEnds DEF CatalogReturns, Rest, driver
<1>3. state \notin DataStates /\ state' \notin DataStates
  BY <1>1, NotCollecting
  DEF CatalogReturns, Leave, DataCalls, Suppliers, Bystanders, DataStates, Names
<1> QED BY <1>2, <1>3 DEF Ended, DataEnds

LEMMA FetchEnds ==
  ASSUME IInv, FetchReturns
  PROVE  Ended("Fetch")
<1>1. "Fetch" \in AsyncCalls /\ Owner("Fetch") \in Followed /\ "Fetch" \in Calls
  BY DEF AsyncCalls, Followed, Owner, Calls, RowCalls, Fetchers, Executors
<1>2. AsynEnds("Fetch")
  BY <1>1, FollowedIs, AsynAfterEnds DEF FetchReturns, Rest, driver
<1>3. state \notin DataStates /\ state' \notin DataStates
  BY <1>1, NotCollecting
  DEF FetchReturns, Leave, DataCalls, Suppliers, Bystanders, DataStates
<1> QED BY <1>2, <1>3 DEF Ended, DataEnds

LEMMA ScrollEnds ==
  ASSUME IInv, NEW f \in {"ExtendedFetch", "FetchScroll"}, ScrollReturns(f)
  PROVE  Ended(f)
<1>1. f \in AsyncCalls /\ Owner(f) \in Followed /\ f \in Calls
  BY DEF AsyncCalls, Followed, Owner, Calls, RowCalls, Fetchers, Executors
<1>2. AsynEnds(f)
  BY <1>1, FollowedIs, AsynAfterEnds DEF ScrollReturns, Rest, driver
<1>3. state \notin DataStates /\ state' \notin DataStates
  BY <1>1, NotCollecting
  DEF ScrollReturns, Leave, DataCalls, Suppliers, Bystanders, DataStates
<1> QED BY <1>2, <1>3 DEF Ended, DataEnds

LEMMA GetDataEnds ==
  ASSUME IInv, GetDataReturns
  PROVE  Ended("GetData")
<1>1. "GetData" \in AsyncCalls /\ Owner("GetData") \in Followed /\ "GetData" \in Calls
  BY DEF AsyncCalls, Followed, Owner, Calls, RowCalls, Executors
<1>2. AsynEnds("GetData")
  BY <1>1, FollowedIs, AsynAfterEnds DEF GetDataReturns, Rest, driver
<1>3. state \notin DataStates /\ state' \notin DataStates
  BY <1>1, NotCollecting
  DEF GetDataReturns, Leave, DataCalls, Suppliers, Bystanders, DataStates
<1> QED BY <1>2, <1>3 DEF Ended, DataEnds

LEMMA MoreResultsEnds ==
  ASSUME IInv, MoreResultsReturns
  PROVE  Ended("MoreResults")
<1>1. /\ "MoreResults" \in AsyncCalls /\ Owner("MoreResults") = "MoreResults"
      /\ "MoreResults" \in Followed /\ "MoreResults" \in Calls
      /\ cip = "MoreResults" /\ Entry("MoreResults") = "MoreResults"
  BY DEF AsyncCalls, Followed, Owner, Entry, Calls, MoreResultsReturns, Leave, Executors
<1>2. live /\ state \notin DataStates
  BY <1>1, NotCollecting DEF DataCalls, Suppliers, Bystanders
<1>3. \A idle : NoMoreResults(idle) \notin DataStates
  BY DEF NoMoreResults, DataStates
<1>4. CASE state = "executed_with_info"
  <2>1. PICK n \in ColAnswers :
          /\ ColAnswer(n)
          /\ state' = IF answer = "NO_DATA" THEN NoMoreResults(FALSE)
                      ELSE IF n = "cols" THEN "cursoropen" ELSE "executed"
          /\ asyn_on' = IF answer = "STILL" THEN "MoreResults"
                        ELSE IF n = "STILL" THEN "NumResultCols" ELSE NoProc
          /\ drvAsync' = IF n = "STILL" THEN "NumResultCols" ELSE drvAsync
    BY <1>4 DEF MoreResultsReturns
  <2>2. state' \notin DataStates
    BY <1>3, <2>1 DEF DataStates
  <2>3. answer = "STILL" => drvAsync = "MoreResults" /\ n = "ERROR"
    <3>1. answer = "STILL" => drvAsync = "MoreResults"
      BY <1>1 DEF IInv, RunInv
    <3> QED BY <2>1, <3>1 DEF ColAnswer, NoProc
  <2>4. /\ asyn_on' \in {NoProc, "MoreResults", "NumResultCols"}
        /\ asyn_on' # NoProc => drvAsync' = asyn_on'
    BY <2>1, <2>3 DEF NoProc
  <2>5. asyn_on \in {NoProc, "MoreResults"}
    BY <1>1, OwnSuspension DEF Bystanders
  <2>6. NoProc \notin Followed /\ "NumResultCols" \in Followed
        /\ Entry("NumResultCols") = "NumResultCols"
    BY NoProcApart
  <2>7. AsynEnds("MoreResults")
    BY <1>1, <1>2, <2>4, <2>5, <2>6, FollowedIs DEF AsynEnds, MoreResultsReturns, Leave, Executors
  <2> QED BY <1>2, <2>2, <2>7 DEF Ended, DataEnds
<1>5. CASE state # "executed_with_info"
  <2>1. AsynEnds("MoreResults")
    BY <1>1, <1>5, FollowedIs, AsynAfterEnds DEF MoreResultsReturns, driver
  <2>2. state' \notin DataStates
    BY <1>2, <1>3, <1>5 DEF MoreResultsReturns
  <2> QED BY <1>2, <2>1, <2>2 DEF Ended, DataEnds
<1> QED BY <1>4, <1>5

LEMMA SetPosEnds ==
  ASSUME IInv, NEW f \in {"SetPos", "BulkOperations"}, SetPosReturns(f)
  PROVE  Ended(f)
<1>1. /\ f \in AsyncCalls /\ f \in Calls /\ Owner(f) = "SetPos" /\ Owner(f) \in Followed
      /\ cip = f /\ (f = "BulkOperations" => f \notin Exports)
  BY DEF AsyncCalls, Followed, Owner, Entry, Calls, RowCalls, SetPosReturns, Leave, Executors
<1>2. live /\ state \notin DataStates
  BY <1>1, NoCallApart
  DEF IInv, CallInv, DataInv, DataCalls, Suppliers, Bystanders
<1>3. /\ AsynEnds(f)
      /\ asyn_on' \in {NoProc, asyn_on} \/ (answer = "STILL" /\ asyn_on' = Owner(f))
      /\ asyn_on = Owner(f) => asyn_on' = NoProc
  BY <1>1, FollowedIs, AsynAfterEnds DEF SetPosReturns, Rest, driver
<1>4. asyn_on \in {NoProc, "SetPos"}
  <2>1. CASE f = "SetPos"
    BY <1>1, <2>1, OwnSuspension DEF Bystanders
  <2>2. CASE f = "BulkOperations"
    BY <1>1, <2>2 DEF IInv, BulkInv
  <2> QED BY <2>1, <2>2
<1>5. state' \in DataStates => answer = "NEED_DATA"
  BY <1>2 DEF SetPosReturns
<1> QED BY <1>1, <1>2, <1>3, <1>4, <1>5 DEF Ended, DataEnds

LEMMA PutDataEnds ==
  ASSUME IInv, PutDataReturns
  PROVE  Ended("PutData")
<1>1. /\ "PutData" \in AsyncCalls /\ Owner("PutData") = "PutData" /\ "PutData" \in Followed
      /\ "PutData" \in Calls /\ cip = "PutData"
  BY DEF AsyncCalls, Followed, Owner, Calls, Suppliers, RowCalls, PutDataReturns, Leave, Executors
<1>2. /\ AsynEnds("PutData")
      /\ asyn_on' \in {NoProc, asyn_on, "PutData"}
  BY <1>1, FollowedIs, AsynAfterEnds DEF PutDataReturns, Rest, driver
<1>3. asyn_on \in {NoProc, "PutData"}
  BY <1>1, OwnSuspension DEF Bystanders
<1>4. state \notin DataStates => asyn_on = "PutData"
  BY <1>1 DEF IInv, SupplyInv
<1> QED BY <1>1, <1>2, <1>3, <1>4 DEF Ended, DataEnds

LEMMA ParamDataEnds ==
  ASSUME IInv, ParamDataReturns
  PROVE  Ended("ParamData")
<1>1. /\ "ParamData" \in AsyncCalls /\ Owner("ParamData") = "ParamData" /\ "ParamData" \in Calls
      /\ cip = "ParamData" /\ live
  BY NoCallApart
  DEF AsyncCalls, Owner, Calls, Suppliers, RowCalls, ParamDataReturns, Leave, IInv, CallInv
<1>2. asyn_on = NoProc
  BY <1>1, OwnSuspension DEF Bystanders, IInv, RunInv, Followed, Suspended, Ending
<1> DEFINE finished == /\ state \in DataStates /\ answer \in OKs
                       /\ state = "canput" /\ need_on \in Executors
<1>3. CASE finished
  <2>1. AsynEnds("ParamData") /\ state' \notin DataStates
    BY <1>3, OpenEnds DEF ParamDataReturns
  <2> QED BY <1>1, <2>1 DEF Ended, DataEnds
<1>4. CASE ~finished
  <2>1. /\ asyn_on' = AsynAfter("ParamData", FALSE) /\ UNCHANGED <<drvAsync, live>>
        /\ state \notin DataStates => state' = state
    <3>1. /\ asyn_on' = AsynAfter("ParamData", FALSE)
          /\ state \notin DataStates => state' = state
          /\ UNCHANGED <<driver, live>>
      BY <1>4 DEF ParamDataReturns
    <3> QED BY <3>1 DEF driver
  <2>2. AsynEnds("ParamData") /\ asyn_on' = NoProc
    BY <1>1, <1>2, <2>1, FollowedIs, AsynAfterEnds DEF ParamDataReturns
  <2> QED BY <1>1, <2>1, <2>2 DEF Ended, DataEnds
<1> QED BY <1>3, <1>4

LEMMA DescriberEnds ==
  ASSUME IInv, NEW f \in Describers, DescriberReturns(f)
  PROVE  Ended(f)
<1>1. /\ f \in AsyncCalls /\ Owner(f) = f /\ f \in Calls /\ cip = f /\ live
      /\ f \in Suspended
  BY NoCallApart
  DEF AsyncCalls, Owner, Calls, Describers, Followed, Suspended, Ending, Executors,
      DescriberReturns, Leave, IInv, CallInv
<1> DEFINE b == f \in {"DescribeCol", "ColAttributes"} => state \in OpenStates \cup {"prepared"}
<1>2. /\ AsynEnds(f)
      /\ asyn_on' \in {NoProc, asyn_on} \/ (b /\ asyn_on' = Owner(f))
  BY <1>1, FollowedIs, AsynAfterEnds DEF DescriberReturns, Rest, driver
<1>3. state' = state
  BY DEF DescriberReturns
<1>4. state \in DataStates => f = "DescribeCol" /\ ~b
  BY <1>1, NotCollecting
  DEF DataCalls, Suppliers, Bystanders, Describers, DataStates, OpenStates
<1>5. state \in DataStates => asyn_on \in {NoProc, "PutData"}
  BY <1>1 DEF IInv, DataInv
<1> QED BY <1>1, <1>2, <1>3, <1>4, <1>5 DEF Ended, DataEnds

LEMMA ClosedCollectsNothing ==
  ASSUME state \notin DataStates
  PROVE  Closed \notin DataStates
BY DEF Closed, DataStates

LEMMA CloseEnds ==
  ASSUME IInv, NEW f \in Closers, CloseReturns(f)
  PROVE  Ended(f)
<1>1. f \in Calls /\ f \notin AsyncCalls /\ cip = f
  BY CatalogAssumption
  DEF AsyncCalls, Calls, Closers, CloseReturns, Leave, Executors, RowCalls, Fetchers, Suppliers,
      Describers
<1>2. AsynEnds(f)
  BY <1>1, KeptEnds DEF CloseReturns, Rest, driver
<1>3. state \notin DataStates /\ state' \notin DataStates
  BY <1>1, NotCollecting, ClosedCollectsNothing
  DEF CloseReturns, Closers, DataCalls, Suppliers, Bystanders
<1> QED BY <1>2, <1>3 DEF Ended, DataEnds

LEMMA CancelEnds ==
  ASSUME IInv, CancelReturns
  PROVE  Ended("Cancel")
<1>1. "Cancel" \in Calls /\ "Cancel" \notin AsyncCalls /\ cip = "Cancel" /\ live
  BY CatalogAssumption, NoCallApart
  DEF AsyncCalls, Calls, CancelReturns, Leave, Executors, RowCalls, Fetchers, Suppliers,
      Describers, IInv, CallInv
<1>2. AsynEnds("Cancel") /\ asyn_on' = asyn_on
  BY <1>1, KeptEnds DEF CancelReturns, Rest, driver
<1>3. state \notin DataStates => state' \notin DataStates
  BY ClosedCollectsNothing DEF CancelReturns
<1>4. state \in DataStates => asyn_on \in {NoProc, "PutData"}
  BY <1>1 DEF IInv, DataInv
<1> QED BY <1>1, <1>2, <1>3, <1>4 DEF Ended, DataEnds

LEMMA PassiveEnds ==
  ASSUME IInv, NEW f \in Passive \cup {"BulkOperations"}, PassiveReturns(f)
  PROVE  Ended(f)
<1>1. f \in Calls /\ cip = f /\ (f \notin AsyncCalls \/ Owner(f) = "BulkOperations")
  BY CatalogAssumption
  DEF AsyncCalls, Calls, Passive, PassiveReturns, Leave, Executors, RowCalls, Fetchers,
      Suppliers, Describers, Owner, Entry
<1>2. AsynEnds(f) /\ asyn_on' = asyn_on /\ state' = state
  BY <1>1, KeptEnds DEF PassiveReturns, Rest, driver
<1>3. live
  BY <1>1, NoCallApart DEF IInv, CallInv
<1>4. state \in DataStates => asyn_on \in {NoProc, "PutData"}
  BY <1>3 DEF IInv, DataInv
<1> QED BY <1>2, <1>4 DEF Ended, DataEnds

(* Every completion but that of SQLFreeStmt(SQL_DROP) ends a call.         *)
LEMMA ReturnsEnd ==
  ASSUME IInv, Returns
  PROVE  DropReturns \/ \E f \in Calls : Ended(f)
BY StillEnds, PrepareEnds, ExecuteEnds, ExecDirectEnds, CatalogEnds, FetchEnds, ScrollEnds,
   GetDataEnds, MoreResultsEnds, SetPosEnds, PutDataEnds, ParamDataEnds, DescriberEnds,
   CloseEnds, CancelEnds, PassiveEnds
DEF Returns, Calls, AsyncCalls, Executors, RowCalls, Fetchers, Suppliers, Describers, Closers

-----------------------------------------------------------------------------
(* The invariant.                                                          *)
Proper == CallInv /\ RunInv /\ DataInv /\ SupplyInv /\ BulkInv

LEMMA InvInit == Init => IInv
BY TypeInit
DEF Init, IInv, CallOwner, CallInv, RunInv, DataInv, SupplyInv, BulkInv, NoCall, NoProc

LEMMA ProperEnded ==
  ASSUME IInv, UNCHANGED drv, NEW f \in Calls, Ended(f)
  PROVE  Proper'
<1>1. cip' = NoCall /\ answer' = NoCall /\ NoCall \notin Calls /\ "STILL" # NoCall
  BY NoCallApart DEF Ended, AsynEnds, NoCall
<1>2. CallInv' /\ SupplyInv' /\ BulkInv'
  BY <1>1 DEF CallInv, SupplyInv, BulkInv, NoCall
<1>3. RunInv'
  <2>1. asyn_on' \in Followed => drvAsync' = Entry(asyn_on')
    BY DEF Ended, AsynEnds
  <2>2. Entry(asyn_on)' = Entry(asyn_on')
    BY DEF Entry, Exports, OldDriver
  <2> QED BY <1>1, <2>1, <2>2 DEF RunInv, Ended, AsynEnds
<1>4. DataInv'
  BY <1>1 DEF DataInv, Ended, DataEnds, NoCall
<1> QED BY <1>2, <1>3, <1>4 DEF Proper

(* What a call finds when it enters the driver.                            *)
LEMMA Entering ==
  ASSUME IInv, NEW f \in Calls, Forward(f)
  PROVE  /\ state \in DataStates => f \in DataCalls /\ (f = "BulkOperations" => f \in Exports)
         /\ f = "PutData" /\ asyn_on # "PutData" => state \in DataStates
         /\ f = "BulkOperations" /\ f \notin Exports => asyn_on \in {NoProc, "SetPos"}
<1>1. live /\ Allowed(f)
  BY DEF Forward, Reaches
<1>2. CASE Unchecked(f)
  BY <1>2 DEF Unchecked, DataCalls, Bystanders
<1>3. CASE asyn_on = NoProc /\ state \in Legal(Owner(f))
  <2>1. CASE f = "BulkOperations"
    BY <1>3, <2>1, CatalogAssumption
    DEF Legal, Owner, DataStates, RowStates, DataCalls, Bystanders, Suppliers, Describers
  <2>2. CASE f # "BulkOperations"
    <3>1. Owner(f) = f
      BY <2>2 DEF Owner
    <3>2. state \in DataStates => f \in Suppliers \cup {"BindCol", "SetCursorType"}
      BY <1>3, <3>1
      DEF Legal, DataStates, RowStates, OpenStates, UpToExecuted, States, Suppliers, Describers
    <3>3. f = "PutData" => state \in DataStates
      BY <1>3, <3>1, CatalogAssumption DEF Legal, Suppliers, Describers
    <3> QED BY <2>2, <3>2, <3>3 DEF DataCalls, Bystanders
  <2> QED BY <2>1, <2>2
<1>4. CASE asyn_on # NoProc /\ asyn_on = Owner(f)
  BY <1>1, <1>4 DEF Owner, IInv, DataInv, DataCalls, Suppliers
<1>5. CASE f \in {"SetStmtOption", "SetCursorType"}
  BY <1>5 DEF DataCalls, Bystanders
<1> QED BY <1>1, <1>2, <1>3, <1>4, <1>5 DEF Allowed

LEMMA ProperForward ==
  ASSUME IInv, UNCHANGED drv, NEW f \in Calls, Forward(f)
  PROVE  Proper'
<1>1. /\ live /\ live' /\ cip = NoCall /\ answer = NoCall /\ cip' = f /\ answer' = NoCall
      /\ Exports' = Exports
  BY DEF Forward, IInv, CallInv, Exports
<1>2. CallInv'
  BY <1>1 DEF CallInv
<1>3. Entry(asyn_on)' = Entry(asyn_on')
  BY DEF Entry, Exports, OldDriver
<1>4. CASE f = "Fetch" /\ asyn_on = NoProc /\ state = "executed_with_info"
  <2>1. PICK n \in ColAnswers : DoCursorOpen(n)
    BY <1>4 DEF Forward
  <2>2. /\ state' \notin DataStates
        /\ \/ asyn_on' = NoProc
           \/ asyn_on' = "NumResultCols" /\ drvAsync' = "NumResultCols"
    BY <2>1 DEF DoCursorOpen, DataStates
  <2>3. NoProc \notin Followed /\ "NumResultCols" \in Followed
        /\ Entry("NumResultCols") = "NumResultCols"
    BY NoProcApart
  <2>4. RunInv'
    BY <1>1, <1>3, <2>2, <2>3, FollowedIs DEF RunInv, NoCall
  <2> QED BY <1>1, <1>2, <1>4, <2>2, <2>4 DEF Proper, DataInv, SupplyInv, BulkInv
<1>5. CASE ~(f = "Fetch" /\ asyn_on = NoProc /\ state = "executed_with_info")
  <2>1. UNCHANGED <<state, asyn_on, drvAsync>>
    BY <1>5 DEF Forward, core, driver
  <2>2. RunInv'
    BY <1>1, <1>3, <2>1 DEF RunInv, IInv, NoCall
  <2>3. DataInv' /\ SupplyInv' /\ BulkInv'
    BY <1>1, <2>1, Entering DEF DataInv, SupplyInv, BulkInv, IInv
  <2> QED BY <1>2, <2>2, <2>3 DEF Proper
<1> QED BY <1>4, <1>5

(* The driver's answer to one call leaves a suspended other one running.   *)
LEMMA ProperAnswer ==
  ASSUME IInv, UNCHANGED drv, Answer
  PROVE  Proper'
<1>1. PICK r \in AllCodes : DriverAnswers(Entry(cip), r) /\ answer' = r
  BY DEF Answer
<1>2. /\ live /\ cip \in Calls /\ cip' = cip /\ answer' # NoCall /\ r \in Codes(Entry(cip))
      /\ UNCHANGED <<live, state, asyn_on>>
      /\ Exports' = Exports /\ Entry(cip)' = Entry(cip) /\ Entry(asyn_on)' = Entry(asyn_on)
      /\ Owner(cip)' = Owner(cip)
  BY <1>1 DEF Answer, core, IInv, CallInv, TypeOK, AllCodes, OKs, NoCall, DriverAnswers,
              Exports, Entry, Owner, OldDriver
<1>3. CallInv'
  <2>1. Codes(Entry(cip))' = Codes(Entry(cip))
    BY <1>2 DEF Codes
  <2> QED BY <1>1, <1>2, <2>1, NoCallApart DEF CallInv
<1>4. answer' = "STILL" => drvAsync' = Entry(cip)
  BY <1>1 DEF DriverAnswers
<1>5. ASSUME asyn_on \in Followed, asyn_on # Owner(cip) PROVE drvAsync' = Entry(asyn_on)
  <2>1. drvAsync = Entry(asyn_on)
    BY <1>2, <1>5 DEF IInv, RunInv
  <2>2. NoProc \notin Followed /\ \A o \in Followed : Entry(o) # NoProc
    BY CatalogAssumption
    DEF Followed, AsyncCalls, NoProc, Executors, RowCalls, Fetchers, Suppliers, Describers, Entry
  <2>3. cip \in Bystanders \/ (cip = "Fetch" /\ asyn_on = "NumResultCols")
    BY <1>2, <1>5, <2>2, NoCallApart DEF IInv, CallOwner
  <2>4. Entry(cip) # Entry(asyn_on)
    BY <1>2, <1>5, <2>3, EntryApart
  <2>5. r = "STILL" => InSequence(Entry(cip))
    BY <1>1, <1>2, CatalogAssumption
    DEF DriverAnswers, Codes, AsyncCalls, Executors, RowCalls, Fetchers, Suppliers, Describers,
        OKs
  <2>6. r # "STILL"
    BY <1>5, <2>1, <2>2, <2>4, <2>5 DEF InSequence
  <2> QED BY <1>1, <2>1, <2>4, <2>6 DEF DriverAnswers
<1>6. RunInv'
  BY <1>2, <1>4, <1>5 DEF RunInv, IInv
<1>7. DataInv' /\ SupplyInv' /\ BulkInv'
  BY <1>2 DEF DataInv, SupplyInv, BulkInv, IInv
<1> QED BY <1>3, <1>6, <1>7 DEF Proper

LEMMA ProperTransact ==
  ASSUME IInv, UNCHANGED drv, NEW b \in Behaviors, Transact(b)
  PROVE  Proper' /\ state' \notin DataStates /\ state \notin DataStates
<1>1. /\ live /\ UNCHANGED <<live, asyn_on, cip, answer, drvAsync>>
      /\ state \notin DataStates /\ asyn_on = NoProc
      /\ Exports' = Exports /\ Entry(cip)' = Entry(cip) /\ Entry(asyn_on)' = Entry(asyn_on)
      /\ Owner(cip)' = Owner(cip)
  BY DEF Transact, DriverEndsTransaction, Exports, Entry, Owner, OldDriver
<1>2. state' \notin DataStates
  BY <1>1 DEF Transact, AfterTransaction, DataStates
<1>3. CallInv' /\ RunInv'
  BY <1>1 DEF CallInv, RunInv, IInv, Codes
<1>4. DataInv' /\ SupplyInv' /\ BulkInv'
  BY <1>1, <1>2 DEF DataInv, SupplyInv, BulkInv, IInv, NoProc
<1> QED BY <1>1, <1>2, <1>3, <1>4 DEF Proper

LEMMA InvStep == IInv /\ [Next]_vars => IInv'
<1> SUFFICES ASSUME IInv, [Next]_vars PROVE Proper'
  BY TypeStep, OwnerStep DEF IInv, Proper
<1>0. UNCHANGED drv
  BY DEF Next, vars
<1>2. CASE AllocStmt
  <2>1. cip = NoCall /\ answer = NoCall /\ UNCHANGED <<cip, answer>>
    BY <1>2 DEF AllocStmt, IInv, CallInv
  <2>2. asyn_on' = NoProc /\ state' = "allocated"
    BY <1>2 DEF AllocStmt
  <2>3. NoProc \notin Followed /\ NoProc \in Suspended
    BY NoProcApart, FollowedIs
  <2> QED BY <2>1, <2>2, <2>3
      DEF Proper, CallInv, RunInv, DataInv, SupplyInv, BulkInv, DataStates, NoCall
<1>3. ASSUME NEW f \in Calls, Refuse(f) PROVE Proper'
  <2>1. /\ cip = NoCall /\ answer = NoCall /\ UNCHANGED <<cip, answer, state, drvAsync>>
        /\ live' => live /\ asyn_on' \in {NoProc, asyn_on}
        /\ Entry(asyn_on)' = Entry(asyn_on')
    BY <1>0, <1>3 DEF Refuse, driver, Dropped, IInv, CallInv, Entry, Exports, OldDriver
  <2>2. NoProc \notin Followed /\ NoProc \in Suspended
    BY NoProcApart, FollowedIs
  <2> QED BY <2>1, <2>2
      DEF Proper, IInv, CallInv, RunInv, DataInv, SupplyInv, BulkInv, NoCall
<1>4. ASSUME NEW f \in Catalog, BadArgument(f) PROVE Proper'
  BY <1>0, <1>4
  DEF BadArgument, core, driver, Proper, IInv, CallInv, RunInv, DataInv, SupplyInv, BulkInv,
      Entry, Owner, Exports, OldDriver
<1>5. CASE UNCHANGED vars
  BY <1>0, <1>5
  DEF vars, core, driver, Proper, IInv, CallInv, RunInv, DataInv, SupplyInv, BulkInv,
      Entry, Owner, Exports, OldDriver
<1>6. CASE DropReturns
  BY <1>0, <1>6
  DEF DropReturns, Dropped, Proper, CallInv, RunInv, DataInv, SupplyInv, BulkInv, NoCall
<1>7. CASE Returns
  BY <1>0, <1>6, <1>7, ReturnsEnd, ProperEnded
<1> QED
  BY <1>0, <1>2, <1>3, <1>4, <1>5, <1>7, ProperForward, ProperAnswer, ProperTransact
  DEF Next, Step

LEMMA InvHolds == Spec => []IInv
<1> QED BY InvInit, InvStep, PTL DEF Spec

(* The driver's answer to another call leaves a suspended execution as it  *)
(* was.                                                                    *)
LEMMA LostAnswer ==
  ASSUME IInv, UNCHANGED drv, Answer, asyn_on \in Executors, asyn_on # Owner(cip),
         drvAsync = asyn_on
  PROVE  drvAsync' = asyn_on
<1>1. PICK r \in AllCodes : DriverAnswers(Entry(cip), r) /\ answer' = r
  BY DEF Answer
<1>2. cip \in Calls /\ live /\ asyn_on # NoProc /\ Entry(asyn_on) = asyn_on
  BY FollowedIs DEF Answer, IInv, CallInv, TypeOK
<1>3. cip \in Bystanders \/ (cip = "Fetch" /\ asyn_on = "NumResultCols")
  BY <1>2, NoCallApart DEF IInv, CallOwner
<1>4. Entry(cip) # asyn_on
  BY <1>2, <1>3, EntryApart
<1>5. r = "STILL" => InSequence(Entry(cip))
  BY <1>1, CatalogAssumption
  DEF DriverAnswers, Codes, AsyncCalls, Executors, RowCalls, Fetchers, Suppliers, Describers, OKs
<1>6. r # "STILL"
  BY <1>2, <1>4, <1>5 DEF InSequence
<1> QED BY <1>1, <1>4, <1>6 DEF DriverAnswers

(* A step after which the driver manager waits for nothing.                *)
LEMMA LostStep ==
  ASSUME IInv, [Next]_vars, Lost'
  PROVE  (Lost /\ asyn_on' = asyn_on) \/ (cip \in Executors /\ answer = "NO_DATA")
<1>0. UNCHANGED drv /\ Entry(asyn_on)' = Entry(asyn_on')
  BY DEF Next, vars, Entry, Exports, OldDriver
<1>1. /\ live' /\ asyn_on' \in Executors /\ drvAsync' # asyn_on'
      /\ answer' = NoCall \/ asyn_on' # Owner(cip)'
  <2>1. IInv'
    BY InvStep
  <2>2. /\ live' /\ asyn_on' \notin {NoProc, "NumParams", "DescribeParam"}
        /\ answer' = NoCall \/ asyn_on' # Owner(cip)'
        /\ drvAsync' # Entry(asyn_on')
    BY <1>0 DEF Lost
  <2>3. asyn_on' \in Suspended
    BY <2>1, <2>2 DEF IInv, RunInv
  <2>4. asyn_on' \notin Followed
    BY <1>0, <2>1, <2>2 DEF IInv, RunInv
  <2>5. asyn_on' \in Executors
    BY <2>2, <2>3, <2>4 DEF Suspended, Ending, Executors
  <2> QED BY <2>2, <2>5, FollowedIs
<1>2. ASSUME live, asyn_on' = asyn_on, drvAsync' = drvAsync, answer = NoCall \/ asyn_on # Owner(cip)
      PROVE  Lost
  BY <1>1, <1>2, FollowedIs DEF Lost
<1>3. ~ AllocStmt
  BY <1>1, FollowedIs DEF AllocStmt
<1>4. ASSUME NEW f \in Calls, Forward(f) PROVE Lost /\ asyn_on' = asyn_on
  <2>1. cip = NoCall /\ answer = NoCall /\ live
    BY <1>4 DEF Forward, IInv, CallInv
  <2>2. ~ (f = "Fetch" /\ asyn_on = NoProc /\ state = "executed_with_info")
    <3> SUFFICES ASSUME f = "Fetch", asyn_on = NoProc, state = "executed_with_info" PROVE FALSE
      OBVIOUS
    <3>1. PICK n \in ColAnswers : DoCursorOpen(n)
      BY <1>4 DEF Forward
    <3> QED BY <1>1, <3>1, FollowedIs DEF DoCursorOpen, Executors
  <2>3. UNCHANGED <<asyn_on, drvAsync>>
    BY <1>4, <2>2 DEF Forward, core, driver
  <2> QED BY <1>2, <2>1, <2>3
<1>5. ASSUME NEW f \in Calls, Refuse(f) PROVE Lost /\ asyn_on' = asyn_on
  <2>1. live /\ answer = NoCall /\ asyn_on' \in {asyn_on, NoProc} /\ drvAsync' = drvAsync
    BY <1>5 DEF Refuse, driver, IInv, CallInv
  <2> QED BY <1>1, <1>2, <2>1, FollowedIs
<1>6. ASSUME NEW f \in Catalog, BadArgument(f) PROVE Lost /\ asyn_on' = asyn_on
  BY <1>2, <1>6 DEF BadArgument, core, driver, IInv, CallInv
<1>7. ASSUME Answer PROVE Lost /\ asyn_on' = asyn_on
  <2>1. /\ answer' # NoCall /\ UNCHANGED <<live, asyn_on, cip>> /\ Owner(cip)' = Owner(cip)
    BY <1>0, <1>7 DEF Answer, core, AllCodes, OKs, NoCall, Owner, Exports
  <2>2. drvAsync # asyn_on
    BY <1>0, <1>1, <1>7, <2>1, LostAnswer
  <2> QED BY <1>1, <2>1, <2>2, FollowedIs DEF Lost
<1>8. ASSUME NEW f \in Calls, Ended(f)
      PROVE  (Lost /\ asyn_on' = asyn_on) \/ (cip \in Executors /\ answer = "NO_DATA")
  <2>1. cip = f /\ asyn_on' = asyn_on /\ (Lost \/ NoRow(f, answer))
    BY <1>1, <1>8 DEF Ended, AsynEnds
  <2>2. f # "ParamData"
    BY <1>1, <2>1, FollowedIs DEF IInv, CallOwner, NoCall, Bystanders, Owner, Executors
  <2> QED BY <2>1, <2>2 DEF NoRow
<1>9. ~ DropReturns
  BY <1>1 DEF DropReturns, Dropped
<1>10. ASSUME NEW b \in Behaviors, Transact(b) PROVE FALSE
  BY <1>1, <1>10, FollowedIs DEF Transact
<1>11. ASSUME UNCHANGED vars PROVE Lost /\ asyn_on' = asyn_on
  BY <1>0, <1>11 DEF vars, core, driver, Lost, Owner, Exports
<1> QED
  BY <1>3, <1>4, <1>5, <1>6, <1>7, <1>8, <1>9, <1>10, <1>11, ReturnsEnd DEF Next, Step

(* The call asyn_on names is one the driver is still executing, whatever   *)
(* it exports and in whatever order the application calls, cancels and     *)
(* ends transactions, until a poll of an execution is answered             *)
(* SQL_NO_DATA.                                                            *)
THEOREM SuspendedCallHolds == Spec => SuspendedCallIsRunning
<1>1. IInv /\ [Next]_vars =>
        [Lost' => \/ Lost /\ asyn_on' = asyn_on
                  \/ cip \in Executors /\ answer = "NO_DATA"]_vars
  BY LostStep
<1> QED BY <1>1, InvHolds, PTL DEF Spec, SuspendedCallIsRunning

-----------------------------------------------------------------------------
(* The steps of StmtPhases.                                                *)
CallBar  == IF cip = NoCall THEN NoCall ELSE Owner(cip)
OwnerBar == IF live THEN asyn_on ELSE NoProc
DataBar  == live /\ state \in DataStates

Stutter == UNCHANGED <<live, CallBar, OwnerBar, DataBar>>

LEMMA OwnerIsCall ==
  ASSUME NEW f \in Calls
  PROVE  Owner(f) # NoCall
BY NoCallApart, EntryCall

LEMMA BeginStep ==
  ASSUME IInv, UNCHANGED drv, NEW f \in Calls, Forward(f)
  PROVE  Phases!Next
<1>1. /\ live /\ live' /\ cip = NoCall /\ cip' = f /\ Owner(cip)' = Owner(f)
      /\ CallBar = "none" /\ CallBar' = Owner(f) /\ Owner(f) # "none"
  BY NoCallApart, OwnerIsCall DEF Forward, CallBar, Owner, Exports, NoCall
<1>2. asyn_on # "NullProc" => Owner(f) \in Phases!AnyTime \cup {asyn_on}
  <2>1. asyn_on # "NullProc" => asyn_on = Owner(f) \/ f \in Bystanders
    BY DEF Forward, Reaches, Allowed, Unchecked, Bystanders, NoProc
  <2>2. f = "BulkOperations" /\ f \notin Exports => asyn_on \in {NoProc, "SetPos"}
    BY Entering
  <2> QED BY <2>1, <2>2 DEF Bystanders, Phases!AnyTime, Owner, NoProc
<1>3. state \in DataStates => Owner(f) \in Phases!InData
  BY Entering
  DEF Owner, DataCalls, Suppliers, Bystanders, Phases!InData, Phases!AnyTime, Phases!Finishers
<1>4. /\ asyn_on' = asyn_on \/ (f = "Fetch" /\ asyn_on = "NullProc" /\ asyn_on' = "NumResultCols")
      /\ state' \in DataStates <=> state \in DataStates
  <2>1. CASE f = "Fetch" /\ asyn_on = NoProc /\ state = "executed_with_info"
    <3>1. PICK n \in ColAnswers : DoCursorOpen(n)
      BY <2>1 DEF Forward
    <3> QED BY <2>1, <3>1 DEF DoCursorOpen, DataStates, NoProc
  <2>2. CASE ~(f = "Fetch" /\ asyn_on = NoProc /\ state = "executed_with_info")
    BY <2>2 DEF Forward, core
  <2> QED BY <2>1, <2>2
<1>5. Owner("Fetch") = "Fetch"
  BY DEF Owner
<1>6. Phases!Begin(CallBar')
  BY <1>1, <1>2, <1>3, <1>4, <1>5 DEF Phases!Begin, CallBar, NoProc
<1> QED BY <1>1, <1>6 DEF Phases!Next, CallBar

LEMMA EndStep ==
  ASSUME IInv, NEW f \in Calls, Ended(f)
  PROVE  Phases!Next
<1>1. /\ live /\ live' /\ cip = f /\ f # NoCall /\ cip' = NoCall
      /\ Owner(f) # NoCall /\ CallBar = Owner(f) /\ CallBar' = "none"
  BY NoCallApart, OwnerIsCall DEF Ended, AsynEnds, CallBar, IInv, CallInv, NoCall
<1>2. /\ asyn_on \in {"NullProc", Owner(f)} => asyn_on' \in {"NullProc", Owner(f), "NumResultCols"}
      /\ asyn_on \notin {"NullProc", Owner(f)} =>
           asyn_on' = asyn_on \/ (asyn_on \in Phases!Unended /\ asyn_on' = Owner(f))
  BY <1>1 DEF Ended, AsynEnds, NoProc, IInv, RunInv, Suspended, Ending, Phases!Unended
<1>3. state \in DataStates /\ state' \notin DataStates => Owner(f) \in Phases!Finishers
  BY DEF Ended, DataEnds, Owner, Phases!Finishers
<1>4. state \notin DataStates /\ state' \in DataStates =>
        Owner(f) \in Phases!Requesters \cup (IF asyn_on = Owner(f) THEN {"PutData"} ELSE {})
  BY DEF Ended, DataEnds, Owner, Phases!Requesters
<1>5. Phases!End(CallBar)
  <2>1. CASE asyn_on \in {"NullProc", Owner(f)}
    BY <1>1, <1>2, <1>3, <1>4, <2>1 DEF Phases!End, Phases!Unended, CallBar, NoProc, NoCall
  <2>2. CASE asyn_on \notin {"NullProc", Owner(f)} /\ asyn_on \in Phases!Unended
    BY <1>1, <1>2, <1>3, <1>4, <2>2 DEF Phases!End, CallBar, NoProc, NoCall
  <2>3. CASE asyn_on \notin {"NullProc", Owner(f)} \cup Phases!Unended
    BY <1>1, <1>2, <1>3, <1>4, <2>3 DEF Phases!End, CallBar, NoProc, NoCall
  <2> QED BY <2>1, <2>2, <2>3
<1> QED BY <1>5 DEF Phases!Next, CallBar

LEMMA DropStep ==
  ASSUME IInv, live, cip \in {NoCall, "Drop"}, cip' = NoCall, ~live'
  PROVE  Phases!Next
BY DEF Phases!Next, Phases!Drop, Owner, NoCall, NoProc

LEMMA PhasesStep ==
  ASSUME IInv, [Next]_vars
  PROVE  Phases!Next \/ Stutter
<1>0. UNCHANGED drv
  BY DEF Next, vars
<1>1. CASE AllocStmt
  <2>1. cip = NoCall /\ cip' = NoCall /\ ~live /\ live' /\ asyn_on' = NoProc /\ state' = "allocated"
    BY <1>1 DEF AllocStmt, IInv, CallInv
  <2> QED BY <2>1 DEF Phases!Next, Phases!Alloc, DataStates, NoCall, NoProc
<1>2. ASSUME NEW f \in Calls, Refuse(f) PROVE Phases!Next \/ Stutter
  <2>1. live /\ cip = NoCall /\ cip' = NoCall /\ state' = state
    BY <1>2 DEF Refuse
  <2>2. CASE f = "Drop"
    BY <1>2, <2>1, <2>2, DropStep DEF Refuse, Dropped
  <2>3. CASE f # "Drop" /\ LostPoll(f)
    <3>1. live' /\ asyn_on = "FetchScroll" /\ asyn_on' = "NullProc"
      BY <1>2, <2>1, <2>3 DEF Refuse, LostPoll, NoProc
    <3> QED BY <2>1, <3>1 DEF Phases!Next, Phases!Bounce, NoCall
  <2>4. CASE f # "Drop" /\ ~LostPoll(f)
    BY <1>2, <2>1, <2>4 DEF Refuse, Stutter, CallBar, OwnerBar, DataBar
  <2> QED BY <2>2, <2>3, <2>4
<1>3. ASSUME NEW f \in Catalog, BadArgument(f) PROVE Stutter
  BY <1>3 DEF BadArgument, core, Stutter, CallBar, OwnerBar, DataBar, NoCall
<1>4. CASE Answer
  BY <1>0, <1>4 DEF Answer, core, Stutter, CallBar, OwnerBar, DataBar, Owner, Exports
<1>5. CASE DropReturns
  <2>1. live /\ cip = "Drop" /\ cip' = NoCall /\ ~live'
    BY <1>5 DEF DropReturns, Dropped, IInv, CallInv, NoCall
  <2> QED BY <2>1, DropStep
<1>6. CASE Returns
  BY <1>5, <1>6, ReturnsEnd, EndStep
<1>7. ASSUME NEW b \in Behaviors, Transact(b) PROVE Stutter
  BY <1>0, <1>7, ProperTransact
  DEF Transact, Stutter, CallBar, OwnerBar, DataBar, Owner, Exports
<1>8. CASE UNCHANGED vars
  BY <1>8 DEF vars, core, Stutter, CallBar, OwnerBar, DataBar, Owner, Exports
<1> QED
  BY <1>0, <1>1, <1>2, <1>3, <1>4, <1>6, <1>7, <1>8, BeginStep DEF Next, Step

(* What StmtPhases promises of a statement is what the driver manager's    *)
(* checks and transitions make of it.                                      *)
THEOREM PhasesHold == Spec => PhasesSpec
<1> DEFINE CallB  == IF cip = NoCall THEN NoCall ELSE Owner(cip)
           OwnerB == IF live THEN asyn_on ELSE NoProc
           DataB  == live /\ state \in DataStates
<1>1. Init => Phases!Init
  BY DEF Init, Phases!Init, NoCall, NoProc
<1>2. IInv /\ [Next]_vars => [Phases!Next]_<<live, CallB, OwnerB, DataB>>
  BY PhasesStep DEF Stutter, CallBar, OwnerBar, DataBar
<1> QED BY <1>1, <1>2, InvHolds, PTL DEF Spec, PhasesSpec, Phases!Spec, Phases!pvars

-----------------------------------------------------------------------------
(* The call that asked for data.  In the first data state need_on is the   *)
(* call the driver waits for, unless the driver waits for none; it waits   *)
(* for none when it has just answered the call that ends the data phase,   *)
(* and after a data phase of SQLExecute that ended with the statement      *)
(* still in this state, where no cursor is open and no call can ask again. *)
NeedEnding ==
  \/ cip \in Suppliers /\ answer = "ERROR"
  \/ cip \in {"ParamData", "Cancel"} /\ answer \in OKs

Executed == cip = "ParamData" /\ answer \in OKs

Waiting ==
  /\ need_on # NoProc
  /\ drvNeed \in {NoProc, need_on}
  /\ need_on = "SetPos" => drvNeed # NoProc \/ NeedEnding
  /\ need_on # "SetPos" => drvCursor # "open" \/ Executed

NeedInv ==
  /\ answer = "NEED_DATA" /\ cip # "ParamData" =>
       drvNeed = Entry(cip) /\ (cip \in Executors => drvCursor # "open")
  /\ live /\ state = "needdata" => Waiting

(* What a completion does that ends in the first data state: the call      *)
(* asked for data, or it is one made inside the data phase.                *)
Asks ==
  /\ answer = "NEED_DATA" /\ cip # "ParamData"
  /\ need_on' = Entry(cip) /\ (cip \in Executors \/ need_on' = "SetPos")

Stays ==
  /\ live /\ state = "needdata" /\ need_on' = need_on
  /\ ~Executed /\ (need_on = "SetPos" => ~NeedEnding)

ToNeed == state' = "needdata" => (Asks \/ Stays) /\ UNCHANGED <<drvNeed, drvCursor>>

LEMMA ToNeedStays ==
  ASSUME IInv, Rest' = Rest, state' = state, need_on' = need_on, ~NeedEnding, cip # NoCall
  PROVE  ToNeed
BY DEF ToNeed, Stays, NeedEnding, Executed, Rest, driver, IInv, CallInv

(* The completions of calls that are not let into a data phase.            *)
LEMMA ToNeedOutside ==
  ASSUME IInv, cip \notin DataCalls, cip # NoCall
  PROVE  state \notin DataStates
BY DEF IInv, CallInv, DataInv

LEMMA NeedReturns ==
  ASSUME IInv, NeedInv, UNCHANGED drv, Returns
  PROVE  ~live' \/ ToNeed
<1> USE DEF ToNeed
<1>0. cip # NoCall /\ live /\ cip \in Calls
  <2>1. answer # NoCall
    BY ReturnsAnswered
  <2> QED BY <2>1 DEF IInv, TypeOK, CallInv
<1>1. ASSUME NEW f \in AsyncCalls, StillSuspended(f) PROVE ToNeed
  <2>1. /\ cip = f /\ Unfinished(f) /\ UNCHANGED <<state, need_on, drvNeed, drvCursor>>
    BY <1>1 DEF StillSuspended, Leave, core, Rest, driver
  <2>2. CASE state = "needdata"
    <3>1. asyn_on = Owner(f) /\ answer \notin Finishing(Owner(f))
      BY <2>1 DEF Unfinished, Polled
    <3>2. asyn_on = "PutData"
      <4>1. asyn_on \in {NoProc, "PutData"}
        BY <1>0, <2>2 DEF IInv, DataInv, DataStates
      <4>2. Owner(f) # NoProc
        BY OwnerAsync, CatalogAssumption
        DEF NoProc, AsyncCalls, Executors, RowCalls, Fetchers, Suppliers, Describers
      <4> QED BY <3>1, <4>1, <4>2
    <3>3. f = "PutData"
      BY <3>1, <3>2 DEF Owner
    <3>4. answer \notin OKs \cup {"ERROR"}
      BY <3>1, <3>2 DEF Finishing, Executors, Fetchers, OKs
    <3> QED BY <1>0, <2>1, <2>2, <3>3, <3>4 DEF Stays, Executed, NeedEnding, Suppliers
  <2>3. CASE state # "needdata"
    BY <2>1, <2>3
  <2> QED BY <2>2, <2>3
<1>2. CASE PrepareReturns
  <2>1. cip = "Prepare" /\ state \notin DataStates
    BY <1>0, <1>2, ToNeedOutside DEF PrepareReturns, Leave, DataCalls, Suppliers, Bystanders
  <2> QED BY <1>2, <2>1 DEF PrepareReturns, DataStates
<1>3. CASE ExecuteReturns
  <2>1. cip = "Execute" /\ state \notin DataStates
    BY <1>0, <1>3, ToNeedOutside DEF ExecuteReturns, Leave, DataCalls, Suppliers, Bystanders
  <2>2. CASE state = "prepared" /\ answer = "SUCCESS"
    <3>1. PICK n \in ColAnswers : DoCursorOpen(n)
      BY <1>3, <2>2 DEF ExecuteReturns
    <3> QED BY <3>1 DEF DoCursorOpen
  <2>3. CASE ~(state = "prepared" /\ answer = "SUCCESS")
    <3>1. /\ UNCHANGED <<drvNeed, drvCursor>>
          /\ state' = "needdata" => answer = "NEED_DATA" /\ need_on' = "Execute"
      BY <1>3, <2>1, <2>3 DEF ExecuteReturns, driver, DataStates
    <3>2. Entry("Execute") = "Execute"
      BY DEF Entry
    <3> QED BY <2>1, <3>1, <3>2 DEF Asks, Executors
  <2> QED BY <2>2, <2>3
<1>4. CASE ExecDirectReturns
  <2>1. cip = "ExecDirect" /\ state \notin DataStates
    BY <1>0, <1>4, ToNeedOutside DEF ExecDirectReturns, Leave, DataCalls, Suppliers, Bystanders
  <2>2. CASE state \in UpToExecuted /\ answer = "SUCCESS"
    <3>1. PICK n \in ColAnswers : DoCursorOpen(n)
      BY <1>4, <2>2 DEF ExecDirectReturns
    <3> QED BY <3>1 DEF DoCursorOpen
  <2>3. CASE ~(state \in UpToExecuted /\ answer = "SUCCESS")
    <3>1. /\ UNCHANGED <<drvNeed, drvCursor>>
          /\ state' = "needdata" => answer = "NEED_DATA" /\ need_on' = "ExecDirect"
      BY <1>4, <2>1, <2>3 DEF ExecDirectReturns, driver, DataStates
    <3>2. Entry("ExecDirect") = "ExecDirect"
      BY DEF Entry
    <3> QED BY <2>1, <3>1, <3>2 DEF Asks, Executors
  <2> QED BY <2>2, <2>3
<1>5. ASSUME NEW f \in Catalog, CatalogReturns(f) PROVE ToNeed
  <2>1. cip = f /\ state \notin DataStates
    BY <1>0, <1>5, ToNeedOutside, CatalogAssumption
    DEF CatalogReturns, Leave, DataCalls, Suppliers, Bystanders
  <2> QED BY <1>5, <2>1 DEF CatalogReturns, DataStates
<1>6. CASE FetchReturns
  <2>1. state \notin DataStates
    BY <1>0, <1>6, ToNeedOutside DEF FetchReturns, Leave, DataCalls, Suppliers, Bystanders
  <2> QED BY <1>6, <2>1 DEF FetchReturns, DataStates
<1>7. CASE GetDataReturns
  <2>1. state \notin DataStates
    BY <1>0, <1>7, ToNeedOutside DEF GetDataReturns, Leave, DataCalls, Suppliers, Bystanders
  <2> QED BY <1>7, <2>1 DEF GetDataReturns, DataStates
<1>8. CASE MoreResultsReturns
  <2>1. state \notin DataStates
    BY <1>0, <1>8, ToNeedOutside DEF MoreResultsReturns, Leave, DataCalls, Suppliers, Bystanders
  <2>2. \A idle \in BOOLEAN : NoMoreResults(idle) # "needdata"
    BY DEF NoMoreResults
  <2>3. CASE state = "executed_with_info"
    BY <1>8, <2>2, <2>3 DEF MoreResultsReturns
  <2>4. CASE state # "executed_with_info"
    BY <1>8, <2>1, <2>2, <2>4 DEF MoreResultsReturns, DataStates
  <2> QED BY <2>3, <2>4
<1>9. ASSUME NEW f \in {"ExtendedFetch", "FetchScroll"}, ScrollReturns(f) PROVE ToNeed
  <2>1. state \notin DataStates
    BY <1>0, <1>9, ToNeedOutside DEF ScrollReturns, Leave, DataCalls, Suppliers, Bystanders
  <2> QED BY <1>9, <2>1 DEF ScrollReturns, DataStates
<1>10. ASSUME NEW f \in {"SetPos", "BulkOperations"}, SetPosReturns(f) PROVE ToNeed
  <2>1. cip = f /\ Entry(f) = "SetPos"
    BY <1>10 DEF SetPosReturns, Leave
  <2>2. state \notin DataStates
    <3>1. CASE f = "SetPos"
      BY <1>0, <2>1, <3>1, ToNeedOutside DEF DataCalls, Suppliers, Bystanders
    <3>2. CASE f = "BulkOperations"
      BY <1>0, <2>1, <3>2 DEF IInv, DataInv, Entry
    <3> QED BY <3>1, <3>2
  <2>3. /\ UNCHANGED <<drvNeed, drvCursor>>
        /\ state' = "needdata" => answer = "NEED_DATA" /\ need_on' = "SetPos"
    BY <1>10, <2>2 DEF SetPosReturns, Rest, driver, DataStates
  <2> QED BY <2>1, <2>3 DEF Asks
<1>11. CASE PutDataReturns
  <2>1. cip = "PutData" /\ UNCHANGED <<drvNeed, drvCursor>>
    BY <1>11 DEF PutDataReturns, Leave, Rest, driver
  <2>2. need_on \in Executors \cup {"SetPos", NoProc}
    BY DEF IInv, TypeOK
  <2>3. state' = "needdata" =>
          /\ state = "needdata" /\ answer \notin OKs /\ need_on' = need_on
          /\ need_on = "SetPos" => answer # "ERROR"
    <3>1. state = "needdata" => need_on # NoProc
      BY <1>0 DEF NeedInv, Waiting
    <3>2. CASE answer \in OKs
      BY <1>11, <3>2 DEF PutDataReturns
    <3>3. CASE answer = "ERROR"
      BY <1>11, <2>2, <3>1, <3>3 DEF PutDataReturns, Executors, OKs
    <3>4. CASE answer \notin OKs \cup {"ERROR"}
      BY <1>11, <3>4 DEF PutDataReturns
    <3> QED BY <3>2, <3>3, <3>4
  <2>4. ~Executed /\ (answer # "ERROR" /\ answer \notin OKs => ~NeedEnding)
    BY <2>1 DEF Executed, NeedEnding
  <2>5. ASSUME state' = "needdata" PROVE Stays
    <3>1. state = "needdata" /\ need_on' = need_on /\ (need_on = "SetPos" => ~NeedEnding)
      BY <2>3, <2>4, <2>5
    <3> QED BY <1>0, <2>4, <3>1 DEF Stays
  <2> QED BY <2>1, <2>5
<1>12. CASE ParamDataReturns
  <2>1. cip = "ParamData"
    BY <1>12 DEF ParamDataReturns, Leave
  <2>2. /\ need_on \in Executors \cup {"SetPos", NoProc}
        /\ state = "needdata" => need_on # NoProc /\ BeforeNeed # "needdata"
        /\ state # "needdata" => BeforeNeed # "needdata"
    BY <1>0 DEF IInv, TypeOK, NeedInv, Waiting, BeforeNeed, Executors
  <2>3. CASE state \in DataStates /\ answer \in OKs /\ state = "canput" /\ need_on \in Executors
    <3>1. PICK n \in ColAnswers : DoCursorOpen(n)
      BY <1>12, <2>3 DEF ParamDataReturns
    <3> QED BY <3>1 DEF DoCursorOpen
  <2>4. CASE ~(state \in DataStates /\ answer \in OKs /\ state = "canput" /\ need_on \in Executors)
    <3>1. UNCHANGED <<drvNeed, drvCursor>>
      BY <1>12, <2>4 DEF ParamDataReturns, driver
    <3>2. state' = "needdata" => state = "needdata" /\ answer \notin OKs \cup {"ERROR"}
      BY <1>12, <2>2, <2>4 DEF ParamDataReturns, DataStates, OKs
    <3>3. answer \notin OKs \cup {"ERROR"} => need_on' = need_on
      BY <1>12 DEF ParamDataReturns
    <3> QED BY <1>0, <2>1, <3>1, <3>2, <3>3 DEF Stays, Executed, NeedEnding
  <2> QED BY <2>3, <2>4
<1>13. ASSUME NEW f \in Describers, DescriberReturns(f) PROVE ToNeed
  <2>1. cip = f /\ state' = state /\ need_on' = need_on /\ Rest' = Rest
    BY <1>13 DEF DescriberReturns, Leave
  <2>2. ~NeedEnding
    BY <2>1 DEF NeedEnding, Suppliers, Describers
  <2> QED BY <1>0, <2>1, <2>2, ToNeedStays
<1>14. ASSUME NEW f \in Closers, CloseReturns(f) PROVE ToNeed
  <2>1. state \notin DataStates
    BY <1>0, <1>14, ToNeedOutside DEF CloseReturns, Leave, DataCalls, Suppliers, Bystanders, Closers
  <2> QED BY <1>14, <2>1 DEF CloseReturns, Closed, DataStates
<1>15. CASE DropReturns
  BY <1>15 DEF DropReturns, Dropped
<1>16. CASE CancelReturns
  <2>1. cip = "Cancel" /\ UNCHANGED <<drvNeed, drvCursor>>
    BY <1>16 DEF CancelReturns, Leave, Rest, driver
  <2>2. state = "needdata" => BeforeNeed # "needdata"
    BY <1>0 DEF IInv, TypeOK, NeedInv, Waiting, BeforeNeed, Executors
  <2>3. state # "needdata" => BeforeNeed # "needdata" /\ Closed # "needdata"
    BY DEF BeforeNeed, Closed
  <2>4. state' = "needdata" => state = "needdata" /\ answer \notin OKs
    BY <1>16, <2>2, <2>3 DEF CancelReturns, DataStates
  <2>5. answer \notin OKs => need_on' = need_on
    BY <1>16 DEF CancelReturns
  <2> QED BY <1>0, <2>1, <2>4, <2>5 DEF Stays, Executed, NeedEnding, Suppliers
<1>17. ASSUME NEW f \in Passive \cup {"BulkOperations"}, PassiveReturns(f) PROVE ToNeed
  <2>1. cip = f /\ state' = state /\ need_on' = need_on /\ Rest' = Rest
    BY <1>17 DEF PassiveReturns, Leave
  <2>2. ~NeedEnding
    BY <2>1 DEF NeedEnding, Suppliers, Passive
  <2> QED BY <1>0, <2>1, <2>2, ToNeedStays
<1> QED
  BY <1>1, <1>2, <1>3, <1>4, <1>5, <1>6, <1>7, <1>8, <1>9, <1>10, <1>11, <1>12, <1>13, <1>14,
     <1>15, <1>16, <1>17 DEF Returns

(* The driver's answer: only SQL_NEED_DATA makes it wait, and in a data    *)
(* phase only the driver's own SQLBulkOperations could ask, for which it   *)
(* has no cursor or waits for data already.                                *)
LEMMA NeedAnswer ==
  ASSUME IInv, NeedInv, UNCHANGED drv, Answer
  PROVE  NeedInv'
<1> DEFINE f == Entry(cip)
<1>1. /\ cip # NoCall /\ cip \in Calls /\ answer = NoCall /\ live
      /\ UNCHANGED <<live, state, need_on, cip>>
  BY DEF Answer, core, IInv, TypeOK, CallInv
<1>2. PICK r \in AllCodes : DriverAnswers(f, r) /\ answer' = r
  BY DEF Answer
<1>3. Entry(cip)' = f /\ f \in Calls
  BY <1>1, EntryCall DEF Entry, OldDriver, Exports
<1>4. f \in Suppliers \cup Executors \cup {"Cancel"} => f = cip
  BY DEF Entry, Suppliers, Executors
<1> HIDE DEF f
<1>5. /\ drvNeed' = IF r = "NEED_DATA" THEN (IF f = "ParamData" THEN drvNeed ELSE f)
                    ELSE IF \/ f = "ParamData" /\ r \in OKs \cup {"NO_DATA"}
                            \/ f \in Suppliers /\ r = "ERROR" /\ InSequence(f)
                            \/ f = "Cancel" /\ r \in OKs
                         THEN NoProc ELSE drvNeed
      /\ drvCursor' \in CursorAfter(f, r)
      /\ r # "ERROR" => f = "Cancel" \/ InSequence(f)
      /\ r = "NEED_DATA" => f = "ParamData" \/ drvNeed = NoProc
  BY <1>2 DEF DriverAnswers
<1>n. f = "ParamData" /\ r = "NO_DATA" => drvNeed \in Executors
  BY <1>2 DEF DriverAnswers
<1>6. ASSUME r = "NEED_DATA", cip # "ParamData"
      PROVE  drvNeed' = f /\ (cip \in Executors => drvCursor' # "open")
  <2>0. r \in Codes(f)
    BY <1>2 DEF DriverAnswers
  <2>1. f # "ParamData" /\ f # "Cancel" /\ drvNeed' = f
    <3>1. f # "ParamData"
      BY <1>4, <1>6 DEF Suppliers
    <3>2. f # "Cancel"
      BY <1>6, <2>0 DEF Codes, OKs, Executors, Fetchers
    <3> QED BY <1>5, <1>6, <3>1, <3>2
  <2>2. drvCursor' = drvCursor
    BY <1>5, <1>6 DEF CursorAfter, OKs, NoRow
  <2>3. cip \in Executors => f = cip
    BY DEF f, Entry, Executors
  <2>4. cip \in Executors => drvCursor # "open"
    BY <1>5, <1>6, <2>1, <2>3 DEF InSequence
  <2> QED BY <2>1, <2>2, <2>4
<1>7. ASSUME state = "needdata" PROVE Waiting'
  <2>1. need_on # NoProc /\ drvNeed \in {NoProc, need_on} /\ ~NeedEnding /\ ~Executed
    BY <1>1, <1>7 DEF NeedInv, Waiting, NeedEnding, Executed, NoCall, OKs
  <2>2. /\ need_on = "SetPos" => drvNeed = "SetPos"
        /\ need_on # "SetPos" => drvCursor # "open"
    BY <1>1, <1>7, <2>1 DEF NeedInv, Waiting
  <2>3. cip \in DataCalls /\ (cip = "BulkOperations" => cip \in Exports)
    BY <1>1, <1>7 DEF IInv, DataInv, DataStates
  <2>4. f = cip /\ f \notin Executors \cup Fetchers \cup Catalog \cup {"MoreResults"}
    BY <2>3, CatalogAssumption
    DEF f, Entry, DataCalls, Suppliers, Bystanders, Executors, Fetchers
  <2>5. r = "NEED_DATA" => f = "ParamData"
    <3>1. CASE need_on = "SetPos"
      BY <1>5, <2>2, <3>1 DEF NoProc
    <3>2. CASE need_on # "SetPos"
      <4>1. r = "NEED_DATA" => f \in {"ParamData", "SetPos", "BulkOperations"}
        BY <1>2, <2>4 DEF DriverAnswers, Codes, OKs
      <4>2. f # "SetPos"
        BY <2>3, <2>4 DEF DataCalls, Suppliers, Bystanders
      <4>3. r = "NEED_DATA" => f # "BulkOperations"
        BY <1>5, <2>2, <3>2 DEF InSequence, RowCalls
      <4> QED BY <4>1, <4>2, <4>3
    <3> QED BY <3>1, <3>2
  <2>6. drvNeed' \in {NoProc, need_on}
    BY <1>5, <2>1, <2>5
  <2>7. need_on = "SetPos" => drvNeed' # NoProc \/ NeedEnding'
    <3>1. ASSUME need_on = "SetPos", drvNeed' = NoProc PROVE NeedEnding'
      <4>1. \/ f = "ParamData" /\ r \in OKs
            \/ f \in Suppliers /\ r = "ERROR"
            \/ f = "Cancel" /\ r \in OKs
        <5>1. f = "ParamData" => r # "NO_DATA"
          BY <1>n, <2>2, <3>1 DEF Executors
        <5> QED BY <1>5, <2>2, <2>5, <3>1, <5>1 DEF NoProc
      <4> QED BY <1>1, <1>2, <2>4, <4>1 DEF NeedEnding
    <3> QED BY <3>1
  <2>8. need_on # "SetPos" => drvCursor' # "open" \/ Executed'
    <3>1. ASSUME drvCursor # "open", drvCursor' = "open" PROVE f = "ParamData" /\ r \in OKs
      BY <1>5, <2>4, <3>1 DEF CursorAfter, Closers
    <3> QED BY <1>1, <1>2, <2>2, <2>4, <3>1 DEF Executed
  <2> QED BY <1>1, <2>1, <2>6, <2>7, <2>8 DEF Waiting
<1> QED
  BY <1>1, <1>2, <1>3, <1>6, <1>7 DEF NeedInv

LEMMA InitNeed == Init => NeedInv
BY DEF Init, NeedInv, NoCall

LEMMA StepNeed == IInv /\ NeedInv /\ [Next]_vars => NeedInv'
<1> SUFFICES ASSUME IInv, NeedInv, [Next]_vars PROVE NeedInv'
  OBVIOUS
<1>0. UNCHANGED drv
  BY DEF Next, vars
<1>1. ASSUME answer' # "NEED_DATA", live' => state' # "needdata" PROVE NeedInv'
  BY <1>1 DEF NeedInv
<1>2. ASSUME cip = NoCall, answer' = answer, UNCHANGED <<state, need_on, drvNeed, drvCursor>>,
             live' => live
      PROVE  NeedInv'
  <2>1. answer = NoCall /\ ~NeedEnding /\ ~Executed
    BY <1>2 DEF IInv, CallInv, NeedEnding, Executed, NoCall, OKs
  <2> QED BY <1>2, <2>1 DEF NeedInv, Waiting, NoCall
<1>3. CASE AllocStmt
  <2>1. answer' # "NEED_DATA" /\ state' # "needdata"
    BY <1>3 DEF AllocStmt, IInv, CallInv, NoCall
  <2> QED BY <1>1, <2>1
<1>4. ASSUME NEW f \in Calls, Forward(f) PROVE NeedInv'
  <2>1. cip = NoCall /\ answer = NoCall /\ answer' = NoCall /\ live' = live
    BY <1>4 DEF Forward, IInv, CallInv
  <2>2. CASE f = "Fetch" /\ asyn_on = NoProc /\ state = "executed_with_info"
    <3>1. PICK n \in ColAnswers : DoCursorOpen(n)
      BY <1>4, <2>2 DEF Forward
    <3> QED BY <1>1, <2>1, <3>1 DEF DoCursorOpen, NoCall
  <2>3. CASE ~(f = "Fetch" /\ asyn_on = NoProc /\ state = "executed_with_info")
    BY <1>2, <1>4, <2>1, <2>3 DEF Forward, core, driver
  <2> QED BY <2>2, <2>3
<1>5. ASSUME NEW f \in Calls, Refuse(f) PROVE NeedInv'
  BY <1>2, <1>5 DEF Refuse, driver, Dropped
<1>6. ASSUME NEW f \in Catalog, BadArgument(f) PROVE NeedInv'
  BY <1>2, <1>6 DEF BadArgument, core, driver
<1>7. CASE Answer
  BY <1>0, <1>7, NeedAnswer
<1>8. CASE Returns
  <2>1. answer' = NoCall /\ cip' = NoCall
    BY <1>8, ReturnsLeave, ReturnsAnswered
  <2>2. CASE ~live'
    BY <1>1, <2>1, <2>2 DEF NoCall
  <2>3. CASE ToNeed /\ state' = "needdata"
    <3>1. Waiting'
      <4>1. CASE Asks
        <5>1. drvNeed = Entry(cip) /\ (cip \in Executors => drvCursor # "open")
          BY <4>1 DEF Asks, NeedInv
        <5>2. need_on' = drvNeed /\ UNCHANGED <<drvNeed, drvCursor>>
          BY <2>3, <4>1, <5>1 DEF Asks, ToNeed
        <5>3. cip \in Executors => Entry(cip) = cip
          BY DEF Entry, Executors
        <5>4. need_on' \in Executors \cup {"SetPos"} /\ (need_on' # "SetPos" => drvCursor # "open")
          BY <4>1, <5>1, <5>2, <5>3 DEF Asks
        <5> QED BY <5>2, <5>4 DEF Waiting, NoProc, Executors
      <4>2. CASE Stays
        BY <2>3, <4>2 DEF Stays, ToNeed, NeedInv, Waiting
      <4> QED BY <2>3, <4>1, <4>2 DEF ToNeed
    <3> QED BY <2>1, <3>1 DEF NeedInv, NoCall
  <2>4. CASE state' # "needdata"
    BY <1>1, <2>1, <2>4 DEF NoCall
  <2> QED BY <1>0, <1>8, <2>2, <2>3, <2>4, NeedReturns
<1>9. ASSUME NEW b \in Behaviors, Transact(b) PROVE NeedInv'
  <2>1. /\ state \notin DataStates /\ UNCHANGED <<cip, answer, drvNeed>>
        /\ drvCursor' = drvCursor \/ drvCursor' = "idle"
        /\ state' \in {"allocated", "prepared", state}
    BY <1>9 DEF Transact, DriverEndsTransaction, AfterTransaction
  <2>2. state' # "needdata" /\ Entry(cip)' = Entry(cip)
    BY <1>0, <2>1 DEF DataStates, Entry, OldDriver, Exports
  <2> QED BY <2>1, <2>2 DEF NeedInv
<1>10. CASE UNCHANGED vars
  <2>1. Entry(cip)' = Entry(cip)
    BY <1>0, <1>10 DEF vars, Entry, OldDriver, Exports
  <2> QED BY <1>10, <2>1 DEF vars, core, driver, NeedInv, Waiting, NeedEnding, Executed
<1> QED
  BY <1>3, <1>4, <1>5, <1>6, <1>7, <1>8, <1>9, <1>10 DEF Next, Step

(* While the driver waits for data-at-execution values, need_on names the  *)
(* call that asked for them, for every driver and every order of calls,    *)
(* errors, cancels and transactions: the data phase ends in the state that *)
(* call started in.                                                        *)
THEOREM NeedOriginatesHolds == Spec => []NeedOriginates
<1>1. Init => NeedInv
  BY InitNeed
<1>2. IInv /\ NeedInv /\ [Next]_vars => NeedInv'
  BY StepNeed
<1>3. NeedInv => NeedOriginates
  BY DEF NeedInv, Waiting, NeedOriginates, Quiet
<1> QED BY <1>1, <1>2, <1>3, InvHolds, PTL DEF Spec
=============================================================================
