---------------------------- MODULE HandleCalls ----------------------------
(***************************************************************************)
(* The threads of an application on the handles of one connection.  A call *)
(* enters a handle under the global lock (ENTER_STMT, ENTER_HDBC,          *)
(* ENTER_DESC), is in the driver without the lock, and takes the lock      *)
(* again to leave the handle.  SQLAllocHandle and SQLTransact stay in the  *)
(* driver with the lock held; SQLConnect and SQLDisconnect release it      *)
(* around the driver's connect and disconnect.                             *)
(*                                                                         *)
(* A handle is named by its address: an allocation may return the address  *)
(* of a freed handle.                                                      *)
(***************************************************************************)
EXTENDS FiniteSets

CONSTANTS
  Threads, Stmts, Descs,   \* descriptors are those of SQLAllocHandle
  Conn,                    \* the connection handle
  Nobody,
  ThreadSafe,              \* penv->thread_safe
  Liberties,               \* what a careless application does (see below)
  Careless                 \* bound: the threads of a careless application

Handles == Stmts \cup Descs \cup {Conn}

(* "drop": frees a statement or a descriptor another thread is using;      *)
(* "disconnect": disconnects while other threads use the connection's      *)
(* statements, or allocates and ends transactions during a disconnect;     *)
(* "free": frees a connection that is connected or in use;                 *)
(* "keep": frees a connection whose descriptors it has not freed;          *)
(* "nodialog": asks for a prompt where libiodbcadm is not installed.       *)
AllLiberties == {"drop", "disconnect", "free", "keep", "nodialog"}

ASSUME HandlesAssumption ==
  /\ Conn \notin Stmts /\ Conn \notin Descs /\ Stmts \cap Descs = {}
  /\ Nobody \notin Threads
ASSUME FlagAssumption ==
  ThreadSafe \in BOOLEAN /\ Liberties \subseteq AllLiberties /\ Careless \subseteq Threads

VARIABLES
  lock,      \* the owner of iodbcdm_global_lock
  drvLock,   \* the owner of penv->drv_lock
  op,        \* the call each thread is making, or "none"
  on,        \* the handle it is on
  at,        \* where it is
  valid,     \* the handles that are allocated and linked
  cip,       \* stmt_cip, dbc_cip, desc_cip
  dbc,       \* pdbc->state
  pending,   \* the statements with asyn_on set or in a data state
  drvConn,   \* the driver's connection: "none", "open" or "closed"
  liberties  \* what this application does at will

calls == <<op, on, at>>
vars == <<lock, drvLock, calls, valid, cip, dbc, pending, drvConn, liberties>>

(* The calls that stay in the driver with the lock held; "Elsewhere" is one *)
(* on another connection of the application.                                *)
Locking == {"Alloc", "Transact", "Elsewhere"}
Ops == Locking \cup {"none", "Call", "Free", "Connect", "Disconnect"}
Places == {"out", "dialog", "want", "driver", "back", "more", "failed"}
DbcStates == {"allocated", "needdata", "connected", "hstmt"}

TypeOK ==
  /\ lock \in Threads \cup {Nobody} /\ drvLock \in Threads \cup {Nobody}
  /\ op \in [Threads -> Ops] /\ on \in [Threads -> Handles]
  /\ at \in [Threads -> Places]
  /\ valid \subseteq Handles /\ cip \in [Handles -> BOOLEAN]
  /\ dbc \in DbcStates /\ pending \subseteq Stmts
  /\ drvConn \in {"none", "open", "closed"} /\ liberties \subseteq Liberties

(* The application is careful or takes all the liberties.                  *)
Init ==
  /\ liberties \in {{}, Liberties}
  /\ lock = Nobody /\ drvLock = Nobody
  /\ op = [t \in Threads |-> "none"] /\ on = [t \in Threads |-> Conn]
  /\ at = [t \in Threads |-> "out"]
  /\ valid = {} /\ cip = [h \in Handles |-> FALSE]
  /\ dbc = "allocated" /\ pending = {} /\ drvConn = "none"

-----------------------------------------------------------------------------
(* Thread t is between ENTER and LEAVE on handle h. *)
InCall(t, h) == on[t] = h /\ op[t] \notin Locking \cup {"none"}

InUse(h) == \E t \in Threads : InCall(t, h)
Disconnecting == \E t \in Threads : op[t] = "Disconnect"
May(liberty) == liberty \in liberties

(* Thread t begins a call with the lock free, and is at p on handle h.     *)
Begin(t, o, h, p) ==
  /\ lock = Nobody /\ op[t] = "none"
  /\ op' = [op EXCEPT ![t] = o]
  /\ on' = [on EXCEPT ![t] = h]
  /\ at' = [at EXCEPT ![t] = p]

(* Mutant: the flag is not looked at. *)
EnterBusy(t, o, h, p) ==
  /\ Begin(t, o, h, p)
  /\ h \in valid
  /\ cip' = [cip EXCEPT ![h] = TRUE]
  /\ UNCHANGED <<lock, drvLock, valid, dbc, pending, drvConn>>

(* ENTER: a busy handle is refused with S1010, a freed one with            *)
(* SQL_INVALID_HANDLE, and nothing changes but what Drop and RefuseDesc do.*)
Enter(t, o, h, p) ==
  /\ Begin(t, o, h, p)
  /\ h \in valid /\ ~cip[h]
  /\ cip' = [cip EXCEPT ![h] = TRUE]
  /\ UNCHANGED <<lock, drvLock, valid, dbc, pending, drvConn>>

(* Thread t has nothing more to do. *)
End(t) ==
  /\ op' = [op EXCEPT ![t] = "none"]
  /\ at' = [at EXCEPT ![t] = "out"]
  /\ UNCHANGED on

(* Mutant: an early return skips the clearing of the flag. *)
LeaveBusy(t) ==
  /\ lock = Nobody /\ at[t] \in {"back", "more", "failed"}
  /\ op[t] \notin Locking
  /\ End(t)
  /\ cip' = [cip EXCEPT ![on[t]] = (at[t] = "failed")]
  /\ UNCHANGED <<lock, drvLock>>

(* LEAVE: the lock is taken again and the flag cleared, whatever has become *)
(* of the handle.                                                           *)
Leave(t) ==
  /\ lock = Nobody /\ at[t] \in {"back", "more", "failed"}
  /\ op[t] \notin Locking
  /\ End(t)
  /\ cip' = [cip EXCEPT ![on[t]] = FALSE]
  /\ UNCHANGED <<lock, drvLock>>

-----------------------------------------------------------------------------
(* Allocation.                                                             *)
AllocConnect(t) ==
  /\ lock = Nobody /\ op[t] = "none" /\ Conn \notin valid
  /\ valid' = valid \cup {Conn} /\ cip' = [cip EXCEPT ![Conn] = FALSE]
  /\ dbc' = "allocated" /\ drvConn' = "none"
  /\ UNCHANGED <<lock, drvLock, calls, pending>>

(* SQLAllocHandle of a statement or a descriptor h: it does not look at    *)
(* dbc_cip, and for a descriptor not at the connection's state either.     *)
Alloc(t, h) ==
  /\ Conn \in valid /\ h \notin valid
  /\ h \in Stmts => dbc \in {"connected", "hstmt"}
  /\ h \in Descs => drvConn # "none" /\ (drvConn = "open" \/ May("disconnect"))
  /\ Disconnecting => May("disconnect")
  /\ Begin(t, "Alloc", h, "want")
  /\ lock' = t
  /\ UNCHANGED <<drvLock, valid, cip, dbc, pending, drvConn>>

AllocReturns(t) ==
  /\ op[t] = "Alloc" /\ at[t] \in {"back", "failed"}
  /\ IF at[t] = "back"
     THEN /\ valid' = valid \cup {on[t]} /\ cip' = [cip EXCEPT ![on[t]] = FALSE]
          /\ dbc' = IF on[t] \in Stmts THEN "hstmt" ELSE dbc
     ELSE UNCHANGED <<valid, cip, dbc>>
  /\ lock' = Nobody /\ End(t)
  /\ UNCHANGED <<drvLock, pending, drvConn>>

-----------------------------------------------------------------------------
(* Calls on a statement or a descriptor, and those on the connection that  *)
(* release the lock at once (SQLGetInfo, SQLSetConnectOption, ...).        *)
Call(t, h) ==
  /\ h \in Stmts /\ Disconnecting => May("disconnect")
  /\ Enter(t, "Call", h, IF h = Conn /\ dbc = "allocated" THEN "failed" ELSE "want")

CallReturns(t) ==
  /\ op[t] = "Call" /\ Leave(t)
  /\ UNCHANGED <<valid, dbc, pending, drvConn>>

(* SQLFreeStmt(SQL_DROP), SQLFreeHandle: the driver is not called when the *)
(* statement is suspended or waits for data, and the handle goes anyway.   *)
Free(t, h) ==
  /\ h \in Stmts \cup Descs /\ (InUse(h) => May("drop"))
  /\ h \in Stmts /\ Disconnecting => May("disconnect")
  /\ Enter(t, "Free", h, IF h \in pending THEN "failed" ELSE "want")

FreeReturns(t) ==
  /\ op[t] = "Free" /\ Leave(t)
  /\ valid' = valid \ {on[t]} /\ pending' = pending \ {on[t]}
  /\ UNCHANGED <<dbc, drvConn>>

(* The statement is busy: S1010 is returned and the statement dropped.     *)
FreeBusy(t, h) ==
  /\ lock = Nobody /\ op[t] = "none" /\ May("drop")
  /\ h \in valid \cap (Stmts \cup Descs) /\ cip[h]
  /\ valid' = valid \ {h} /\ pending' = pending \ {h}
  /\ UNCHANGED <<lock, drvLock, calls, cip, dbc, drvConn>>

(* A call on a busy descriptor: LEAVE_DESC clears the flag of the call in  *)
(* progress.                                                               *)
RefuseDesc(t, h) ==
  /\ lock = Nobody /\ op[t] = "none"
  /\ h \in valid \cap Descs /\ cip[h]
  /\ cip' = [cip EXCEPT ![h] = FALSE]
  /\ UNCHANGED <<lock, drvLock, calls, valid, dbc, pending, drvConn>>

-----------------------------------------------------------------------------
(* The connection.  SQLBrowseConnect goes on in the state needdata.        *)
Connect(t) ==
  /\ dbc \in {"allocated", "needdata"}
  /\ Enter(t, "Connect", Conn, "want")

ConnectReturns(t) ==
  /\ op[t] = "Connect" /\ Leave(t)
  /\ dbc' = CASE at[t] = "back" -> "connected" [] at[t] = "more" -> "needdata"
              [] OTHER -> "allocated"
  /\ UNCHANGED <<valid, pending, drvConn>>

(* SQLDriverConnect with a prompt shows the dialog with the lock released. *)
Prompt(t) == dbc = "allocated" /\ Enter(t, "Connect", Conn, "dialog")

(* Mutant: the lock is not taken again after the dialog. *)
AnsweredUnlocked(t) ==
  /\ at[t] = "dialog" /\ lock' = Nobody
  /\ at' = [at EXCEPT ![t] = "want"]
  /\ UNCHANGED <<drvLock, op, on, valid, cip, dbc, pending, drvConn>>

Answered(t) ==
  /\ at[t] = "dialog" /\ lock = Nobody
  /\ \E p \in {"want", "failed"} : at' = [at EXCEPT ![t] = p]
  /\ UNCHANGED <<lock, drvLock, op, on, valid, cip, dbc, pending, drvConn>>

(* Without libiodbcadm, or without a dialog in it, the lock is not taken   *)
(* again, and the next unlock releases it for whoever owns it.             *)
NoDialog(t) ==
  /\ at[t] = "dialog" /\ May("nodialog")
  /\ lock' = Nobody
  /\ \/ at' = [at EXCEPT ![t] = "want"] /\ UNCHANGED <<op, on, cip>>
     \/ End(t) /\ cip' = [cip EXCEPT ![Conn] = FALSE]
  /\ UNCHANGED <<drvLock, valid, dbc, pending, drvConn>>

Disconnect(t) ==
  /\ dbc # "allocated" /\ pending = {}
  /\ (\E s \in Stmts : InUse(s)) => May("disconnect")
  /\ Enter(t, "Disconnect", Conn, "want")

(* Mutant: the state is reset although the driver refused to disconnect. *)
DisconnectReturnsAnyway(t) ==
  /\ op[t] = "Disconnect" /\ Leave(t)
  /\ valid' = (IF at[t] = "back" THEN valid \ Stmts ELSE valid)
  /\ dbc' = "allocated"
  /\ UNCHANGED <<pending, drvConn>>

DisconnectReturns(t) ==
  /\ op[t] = "Disconnect" /\ Leave(t)
  /\ IF at[t] = "back"
     THEN valid' = valid \ Stmts /\ pending' = {} /\ dbc' = "allocated"
     ELSE UNCHANGED <<valid, pending, dbc>>
  /\ UNCHANGED drvConn

(* The driver's connection goes to the pool: no driver call, no unlocking. *)
DisconnectToPool(t) ==
  /\ lock = Nobody /\ op[t] = "none" /\ Conn \in valid /\ ~cip[Conn]
  /\ dbc \in {"connected", "hstmt"} /\ pending = {}
  /\ (\E s \in Stmts : InUse(s)) => May("disconnect")
  /\ valid' = valid \ Stmts /\ dbc' = "allocated" /\ drvConn' = "closed"
  /\ UNCHANGED <<lock, drvLock, calls, cip, pending>>

(* SQLFreeConnect: the memory is freed even when the call is refused.      *)
FreeConnect(t) ==
  /\ lock = Nobody /\ op[t] = "none" /\ Conn \in valid
  /\ (InUse(Conn) \/ dbc # "allocated") => May("free")
  /\ valid \cap Descs # {} => May("keep")
  /\ valid' = valid \ {Conn}
  /\ UNCHANGED <<lock, drvLock, calls, cip, dbc, pending, drvConn>>

(* SQLTransact, SQLEndTran: neither flag is looked at.                     *)
Transact(t) ==
  /\ Conn \in valid /\ dbc = "hstmt" /\ pending = {}
  /\ Disconnecting => May("disconnect")
  /\ Begin(t, "Transact", Conn, "want")
  /\ lock' = t
  /\ UNCHANGED <<drvLock, valid, cip, dbc, pending, drvConn>>

Elsewhere(t) ==
  /\ Begin(t, "Elsewhere", Conn, "want")
  /\ lock' = t
  /\ UNCHANGED <<drvLock, valid, cip, dbc, pending, drvConn>>

(* Mutant: the lock is kept when the driver fails. *)
TransactKeepsLock(t) ==
  /\ op[t] \in {"Transact", "Elsewhere"} /\ at[t] \in {"back", "failed"}
  /\ lock' = (IF at[t] = "failed" THEN t ELSE Nobody) /\ End(t)
  /\ UNCHANGED <<drvLock, valid, cip, dbc, pending, drvConn>>

TransactReturns(t) ==
  /\ op[t] \in {"Transact", "Elsewhere"} /\ at[t] \in {"back", "failed"}
  /\ lock' = Nobody /\ End(t)
  /\ UNCHANGED <<drvLock, valid, cip, dbc, pending, drvConn>>

-----------------------------------------------------------------------------
(* CALL_DRIVER: a driver that is not thread-safe is called by one thread   *)
(* at a time.                                                              *)
EnterDriver(t) ==
  /\ at[t] = "want" /\ (ThreadSafe \/ drvLock = Nobody)
  /\ at' = [at EXCEPT ![t] = "driver"]
  /\ drvLock' = IF ThreadSafe THEN drvLock ELSE t
  /\ UNCHANGED <<lock, op, on, valid, cip, dbc, pending, drvConn>>

(* After a call the statement may be suspended, wait for data, or neither. *)
Suspension(t) ==
  IF op[t] = "Call" /\ on[t] \in Stmts \cap valid
  THEN pending' \in {pending \cup {on[t]}, pending \ {on[t]}}
  ELSE UNCHANGED pending

(* The driver's connection after call o on it, which ended at p.            *)
DriverConn(o, p) ==
  IF o = "Connect" /\ p = "back" THEN "open"
  ELSE IF (o = "Connect" /\ drvConn = "none") \/ (o = "Disconnect" /\ p = "back")
       THEN "closed"
  ELSE drvConn

DriverReturns(t) ==
  /\ at[t] = "driver"
  /\ \E p \in {"back", "failed"} \cup (IF op[t] = "Connect" THEN {"more"} ELSE {}) :
       /\ at' = [at EXCEPT ![t] = p]
       /\ drvConn' = DriverConn(op[t], p)
  /\ Suspension(t)
  /\ drvLock' = IF ThreadSafe THEN drvLock ELSE Nobody
  /\ UNCHANGED <<lock, op, on, valid, cip, dbc>>

Progress(t) ==
  \/ EnterDriver(t) \/ DriverReturns(t)
  \/ AllocReturns(t) \/ CallReturns(t) \/ FreeReturns(t) \/ ConnectReturns(t)
  \/ DisconnectReturns(t) \/ TransactReturns(t)

Request(t) ==
  \/ AllocConnect(t) \/ FreeConnect(t) \/ Transact(t) \/ Elsewhere(t)
  \/ Connect(t) \/ Prompt(t) \/ Answered(t) \/ NoDialog(t)
  \/ Disconnect(t) \/ DisconnectToPool(t)
  \/ \E h \in Stmts \cup Descs : Alloc(t, h) \/ Free(t, h) \/ FreeBusy(t, h)
  \/ \E h \in Handles : Call(t, h)
  \/ \E h \in Descs : RefuseDesc(t, h)

Active == IF liberties = {} THEN Threads ELSE Careless

Next == (\E t \in Active : Progress(t) \/ Request(t)) /\ UNCHANGED liberties

(* A driver returns from its calls, and a thread that may go on does.      *)
Fairness == \A t \in Threads : WF_vars(Progress(t) /\ UNCHANGED liberties)

Spec == Init /\ [][Next]_vars /\ Fairness

-----------------------------------------------------------------------------
(* Properties.                                                             *)

(* What the handles need their application for is stated of careful ones.  *)
Careful == liberties = {}

(* A thread that is in the driver with the global lock owns it: nobody     *)
(* else has released it in the meantime.                                   *)
LockDiscipline == Careful => \A t \in Threads : op[t] \in Locking => lock = t

(* The flag of a live statement or connection is set exactly while some    *)
(* thread's call is in progress on it: no call leaves it set, none loses   *)
(* it to another thread.                                                   *)
CipIsCall == Careful => \A h \in valid \ Descs : cip[h] <=> InUse(h)

(* A connection that is not connected has no statements, whichever threads *)
(* connect, disconnect and allocate at the same time.                      *)
IdleConnectionHasNoStmts ==
  Careful /\ dbc \in {"allocated", "needdata"} => valid \cap Stmts = {}

(* The driver is asked to allocate a handle or to end a transaction only   *)
(* on a connection it has open.                                            *)
DriverCallsOpen == Careful =>
  \A t \in Threads :
    op[t] \in {"Alloc", "Transact"} /\ at[t] \in {"want", "driver"} => drvConn = "open"

(* What a connection's state says holds of it and of the driver.           *)
ConnStateTrue == IdleConnectionHasNoStmts /\ DriverCallsOpen

(* The global lock is released again: a thread that keeps it in the driver *)
(* never waits for one that needs it, whatever liberties are taken.        *)
LockReleased == lock # Nobody ~> lock = Nobody

(* A statement or connection in use belongs to one thread, and no other    *)
(* thread's step takes or destroys it (module HandleLease).  (A careless   *)
(* application keeps no lease.)                                            *)
Lease == INSTANCE HandleLease WITH
  Handles <- Handles \ Descs,
  alive   <- IF Careful THEN valid \ Descs ELSE {},
  holder  <- [h \in Handles \ Descs |->
                IF Careful /\ InUse(h) THEN CHOOSE t \in Threads : InCall(t, h) ELSE Nobody]

LeaseSpec == Lease!Spec
=============================================================================
