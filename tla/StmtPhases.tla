----------------------------- MODULE StmtPhases -----------------------------
(***************************************************************************)
(* What a statement handle promises, without its sixteen-odd states: at    *)
(* most one call is inside it, a suspended (asynchronous) call is resumed  *)
(* or ended only by calling that same function again, and the data-at-     *)
(* execution phase is entered by the calls that can ask for data and left  *)
(* by SQLParamData, SQLPutData and SQLCancel only.  Module Stmt implements *)
(* it.                                                                     *)
(***************************************************************************)
VARIABLES
  alive,   \* the handle exists
  call,    \* the function in progress, or "none"
  owner,   \* the suspended function, or "NullProc"
  data     \* the statement is collecting data-at-execution values

pvars == <<alive, call, owner, data>>

Requesters == {"Execute", "ExecDirect", "SetPos"}
Finishers  == {"PutData", "ParamData", "Cancel"}

(* The functions that may be called whatever is suspended, and those that  *)
(* may also be called in the data phase.                                   *)
AnyTime == {"Cancel", "DescribeCol", "BindParameter", "BulkOperations",
            "SetStmtOption", "SetCursorType"}
InData == Finishers \cup AnyTime \cup {"BindCol"}

(* The functions whose end may go unnoticed (always, or when an execution  *)
(* answers SQL_NO_DATA), so that another call may take their place while   *)
(* they still seem suspended.                                              *)
Unended == {"NumParams", "DescribeParam", "Execute", "ExecDirect"}

Init == alive = FALSE /\ call = "none" /\ owner = "NullProc" /\ data = FALSE

Alloc ==
  /\ ~alive /\ alive' = TRUE
  /\ UNCHANGED <<call, owner, data>>

(* A call enters the driver. *)
Begin(f) ==
  /\ alive /\ call = "none" /\ call' = f
  /\ owner # "NullProc" => f \in AnyTime \cup {owner}
  /\ data => f \in InData \cup {owner}
  /\ \/ owner' = owner
     \/ f = "Fetch" /\ owner = "NullProc" /\ owner' = "NumResultCols"
  /\ UNCHANGED <<alive, data>>

(* A poll refused inside the driver manager may end the suspension of its  *)
(* own function.                                                           *)
Bounce ==
  /\ alive /\ call = "none" /\ owner # "NullProc" /\ owner' = "NullProc"
  /\ UNCHANGED <<alive, call, data>>

(* A call returns: only its own suspension changes, and the data phase     *)
(* starts and ends with the calls made for it.                             *)
End(f) ==
  /\ alive /\ call = f /\ f # "none" /\ call' = "none"
  /\ CASE owner \in {"NullProc", f} -> owner' \in {"NullProc", f, "NumResultCols"}
       [] owner \in Unended \ {f} -> owner' \in {owner, f}
       [] OTHER -> owner' = owner
  /\ data /\ ~data' => f \in Finishers
  /\ data' /\ ~data => f \in Requesters \cup (IF owner = f THEN {"PutData"} ELSE {})
  /\ data' \in BOOLEAN
  /\ UNCHANGED alive

(* SQLFreeStmt(SQL_DROP), refused or not. *)
Drop ==
  /\ alive /\ call \in {"none", "Drop"}
  /\ alive' = FALSE /\ call' = "none" /\ owner' = "NullProc" /\ data' = FALSE

Next ==
  \/ Alloc \/ Bounce \/ Drop
  \/ call' # "none" /\ Begin(call')
  \/ End(call)

Spec == Init /\ [][Next]_pvars
=============================================================================
