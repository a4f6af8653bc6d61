------------------------------- MODULE Diag -------------------------------
(***************************************************************************)
(* The diagnostics of one handle: the driver manager's own list (herr),    *)
(* the records the driver keeps, and the three functions that read them,   *)
(* SQLError, SQLGetDiagRec and SQLGetDiagField, for every combination of   *)
(* an ODBC 2 or 3 application with an ODBC 2 or 3 driver.                  *)
(*                                                                         *)
(* The reading functions do not look whether the handle is busy: another   *)
(* thread may read between the steps of a call.  A call another thread     *)
(* makes on a busy handle is refused with one more record on the list      *)
(* (S1010).                                                                *)
(***************************************************************************)
EXTENDS Naturals, Integers, Sequences, SequencesExt

CONSTANTS
  Cap,        \* 64 in the code: the entry above it overwrites the top one
  MaxCalls,   \* bound: calls of the application on the handle
  MaxPosts,   \* bound: records the driver manager posts in one call
  MaxDriver   \* bound: records a driver posts in one call

ASSUME DiagAssumption ==
  /\ Cap \in Nat \ {0} /\ MaxCalls \in Nat /\ MaxPosts \in Nat /\ MaxDriver \in Nat \ {0}

VARIABLES
  kind,      \* "env", "alone" (a connection without driver), "linked" or "statement"
  odbc_ver,  \* of the application
  dodbc_ver, \* of the driver
  has2,      \* the driver exports SQLError
  herr,      \* the driver manager's records, oldest first
  rc,        \* the handle's return code
  err_rec,   \* the records of the driver SQLError has asked for
  drvErrs,   \* the driver's records for the handle
  busy,      \* a call is in progress on the handle
  call,      \* number of the call in progress or of the last one
  posts,     \* records posted in it
  reached,   \* it has called the driver
  answer     \* what the last reading function answered

setting == <<kind, odbc_ver, dodbc_ver, has2>>
progress == <<busy, call, posts, reached>>
vars == <<setting, herr, rc, err_rec, drvErrs, progress, answer>>

Kinds == {"env", "alone", "linked", "statement"}
Returns == {"SUCCESS", "INFO", "ERROR", "NO_DATA"}
Record(by, n) == <<by, call, n>>
Records == {"dm", "driver"} \X (0 .. MaxCalls) \X (1 .. MaxPosts + MaxDriver)
HasDriver == kind \in {"linked", "statement"}
None == <<"none", 0, 0>>
NoAnswer == [fn |-> "none", rec |-> None, number |-> 0]
Crash == -1

TypeOK ==
  /\ kind \in Kinds /\ odbc_ver \in {2, 3} /\ dodbc_ver \in {2, 3} /\ has2 \in BOOLEAN
  /\ herr \in Seq(Records) /\ rc \in Returns /\ err_rec \in Nat
  /\ drvErrs \in Seq(Records)
  /\ busy \in BOOLEAN /\ call \in 0 .. MaxCalls /\ posts \in 0 .. MaxPosts
  /\ reached \in BOOLEAN
  /\ answer \in [fn : {"none", "Error", "Rec", "Number", "Field"},
                 rec : Records \cup {None}, number : Int]

Init ==
  /\ kind \in Kinds /\ odbc_ver \in {2, 3} /\ dodbc_ver \in {2, 3}
  /\ has2 \in IF dodbc_ver = 2 THEN {TRUE} ELSE BOOLEAN
  /\ herr = <<>> /\ rc = "SUCCESS" /\ err_rec = 0 /\ drvErrs = <<>>
  /\ busy = FALSE /\ call = 0 /\ posts = 0 /\ reached = FALSE
  /\ answer = NoAnswer

-----------------------------------------------------------------------------
(* Mutant: a full list grows. *)
PushUncapped(list, r) == Append(list, r)

(* The list is a stack whose entry Cap is overwritten. *)
Push(list, r) == IF Len(list) >= Cap THEN [list EXCEPT ![Len(list)] = r]
                                     ELSE Append(list, r)

(* Mutant: the oldest entry goes. *)
PopOldest(list) == Tail(list)

Pop(list) == Front(list)

(* Mutant: CLEAR_ERRORS leaves err_rec alone. *)
ClearAllButCount ==
  /\ herr' = <<>> /\ rc' = "SUCCESS" /\ UNCHANGED err_rec

Clear ==
  /\ herr' = <<>> /\ rc' = "SUCCESS" /\ err_rec' = 0

(* SQLGetDiagRec of the driver is asked rather than its SQLError. *)
Asks3 == dodbc_ver = 3 /\ ~(odbc_ver = 2 /\ has2)

(* Driver record n for SQLGetDiagRec, or none. *)
DriverRec(n) == IF n \in 1 .. Len(drvErrs) THEN drvErrs[n] ELSE None

(* The driver's SQLError returns its first record and forgets it.          *)
Consume == drvErrs' = IF drvErrs = <<>> THEN <<>> ELSE Tail(drvErrs)

Answer(fn, r, n) == answer' = [fn |-> fn, rec |-> r, number |-> n]
Code(r) == IF r = None THEN "NO_DATA" ELSE "SUCCESS"
-----------------------------------------------------------------------------
(* ENTER_STMT, ENTER_HDBC, ENTER_HENV: a call begins and clears.           *)
Enter ==
  /\ ~busy /\ call < MaxCalls
  /\ Clear
  /\ busy' = TRUE /\ call' = call + 1 /\ posts' = 0 /\ reached' = FALSE
  /\ answer' = NoAnswer
  /\ UNCHANGED <<setting, drvErrs>>

(* The call posts a record of its own (PUSHSQLERR). *)
Post ==
  /\ busy /\ posts < MaxPosts
  /\ posts' = posts + 1
  /\ herr' = Push(herr, Record("dm", posts + 1))
  /\ UNCHANGED <<setting, rc, err_rec, drvErrs, busy, call, reached, answer>>

(* The driver forgets the records of its last call on the handle, posts    *)
(* those of this one, and its return code is the handle's.                 *)
CallDriver(ret, n) ==
  /\ busy /\ HasDriver /\ ~reached
  /\ (ret = "SUCCESS") = (n = 0)
  /\ reached' = TRUE /\ rc' = ret
  /\ drvErrs' = [i \in 1 .. n |-> Record("driver", i)]
  /\ UNCHANGED <<setting, herr, err_rec, busy, call, posts, answer>>

(* Another thread is refused: its S1010 is pushed while the call posts     *)
(* without the lock, and one of the two records may be lost.               *)
Refused ==
  /\ busy /\ kind # "env" /\ posts < MaxPosts
  /\ posts' = posts + 1
  /\ \/ herr' = Push(herr, Record("dm", posts + 1))
     \/ herr # <<>> /\ herr' = Push(Front(herr), Record("dm", posts + 1))
     \/ UNCHANGED herr
  /\ UNCHANGED <<setting, rc, err_rec, drvErrs, busy, call, reached, answer>>

(* The call returns. *)
Leave ==
  /\ busy
  /\ busy' = FALSE
  /\ UNCHANGED <<setting, herr, rc, err_rec, drvErrs, call, posts, reached, answer>>

-----------------------------------------------------------------------------
(* _iodbcdm_sqlerror with an entry on the list: newest first. *)
ErrorOfList ==
  /\ herr # <<>>
  /\ Answer("Error", Last(herr), 0)
  /\ herr' = Pop(herr)
  /\ UNCHANGED <<err_rec, drvErrs>>

ErrorOfNobody ==
  /\ herr = <<>> /\ ~HasDriver
  /\ Answer("Error", None, 0)
  /\ UNCHANGED <<herr, err_rec, drvErrs>>

(* The versions are read through the connection handle the application     *)
(* gave, which with a statement may be SQL_NULL_HDBC.                      *)
ErrorOfDriver(hdbc) ==
  /\ herr = <<>> /\ HasDriver
  /\ UNCHANGED herr
  /\ IF kind = "statement" /\ hdbc = "null"
     THEN Answer("Error", None, Crash) /\ UNCHANGED <<err_rec, drvErrs>>
     ELSE IF Asks3
     THEN /\ err_rec' = err_rec + 1
          /\ Answer("Error", DriverRec(err_rec + 1), 0)
          /\ UNCHANGED drvErrs
     ELSE /\ Answer("Error", DriverRec(1), 0)
          /\ Consume
          /\ UNCHANGED err_rec

(* SQLError, SQLErrorA, SQLErrorW; an application asks once more than      *)
(* there can be records (err_rec counts on).                               *)
HdbcArgs == {"given", "null"}

SQLError(hdbc) ==
  /\ err_rec <= MaxDriver
  /\ (ErrorOfList \/ ErrorOfNobody \/ ErrorOfDriver(hdbc))
  /\ UNCHANGED <<setting, rc, progress>>

(* Record n is the driver manager's: oldest first. *)
RecOfList(n) ==
  /\ n \in 1 .. Len(herr)
  /\ Answer("Rec", herr[n], n)
  /\ UNCHANGED <<rc, drvErrs>>

(* Record n is the driver's: its answer becomes the handle's return code,  *)
(* and an ODBC 2 driver has one record, which it forgets.                  *)
RecOfDriver(n) ==
  LET k == n - Len(herr) IN
  /\ k >= 1
  /\ IF HasDriver /\ (Asks3 \/ k = 1)
     THEN /\ Answer("Rec", DriverRec(k), n)
          /\ rc' = Code(DriverRec(k))
          /\ IF Asks3 THEN UNCHANGED drvErrs ELSE Consume
     ELSE /\ Answer("Rec", None, n)
          /\ UNCHANGED <<rc, drvErrs>>

SQLGetDiagRec(n) ==
  /\ (RecOfList(n) \/ RecOfDriver(n))
  /\ UNCHANGED <<setting, herr, err_rec, progress>>

(* SQL_DIAG_NUMBER.  Without a driver's SQLGetDiagField the version of the *)
(* driver is read through con->henv, which an unconnected connection lacks.*)
DiagNumber ==
  CASE kind = "env" -> Len(herr)
    [] kind = "alone" -> Crash
    [] HasDriver /\ dodbc_ver = 3 -> Len(drvErrs) + Len(herr)
    [] OTHER -> IF rc = "SUCCESS" THEN 0 ELSE 1

SQLGetDiagNumber ==
  /\ Answer("Number", None, DiagNumber)
  /\ rc' = IF HasDriver /\ dodbc_ver = 3 THEN "SUCCESS" ELSE rc
  /\ UNCHANGED <<setting, herr, err_rec, drvErrs, progress>>

(* One field of record n.  An ODBC 2 driver is asked with SQLError for the *)
(* message, the state, the native code or the origin of its one record.    *)
FieldOfDriver(k) ==
  CASE dodbc_ver = 3 ->
         rc' = Code(DriverRec(k)) /\ Answer("Field", DriverRec(k), 0) /\ UNCHANGED drvErrs
    [] dodbc_ver = 2 /\ k = 1 ->
         rc' = Code(DriverRec(1)) /\ Answer("Field", DriverRec(1), 0) /\ Consume
    [] OTHER -> Answer("Field", None, 0) /\ UNCHANGED <<rc, drvErrs>>

SQLGetDiagField(n) ==
  /\ IF n > Len(herr) /\ HasDriver
     THEN FieldOfDriver(n - Len(herr))
     ELSE Answer("Field", IF n <= Len(herr) THEN herr[n] ELSE None, 0)
          /\ UNCHANGED <<rc, drvErrs>>
  /\ UNCHANGED <<setting, herr, err_rec, progress>>

-----------------------------------------------------------------------------
Next ==
  /\ answer.number # Crash
  /\ \/ Enter \/ Post \/ Refused \/ Leave
     \/ \E ret \in {"SUCCESS", "INFO", "ERROR"}, n \in 0 .. MaxDriver : CallDriver(ret, n)
     \/ \E hdbc \in HdbcArgs : SQLError(hdbc)
     \/ SQLGetDiagNumber
     \/ \E n \in 1 .. Cap + MaxDriver + 1 : SQLGetDiagRec(n) \/ SQLGetDiagField(n)

Spec == Init /\ [][Next]_vars

-----------------------------------------------------------------------------
(* What SQLError has still to return: the list and the driver's records it *)
(* has not been given yet.                                                 *)
Remaining ==
  ToSet(herr) \cup
  (IF ~HasDriver THEN {}
   ELSE {drvErrs[i] : i \in {j \in 1 .. Len(drvErrs) : Asks3 => j > err_rec}})

(* The records SQLGetDiagRec answers for 1, 2, ... *)
Enumerated == herr \o (IF HasDriver THEN drvErrs ELSE <<>>)

(* A loop on SQLError meets each record of the handle exactly once and     *)
(* ends, also while a call posts more: it answers SQL_NO_DATA only when    *)
(* nothing remains, and any other answer takes exactly that record from    *)
(* what remains (_iodbcdm_sqlerror over its three sources, with err_rec    *)
(* counting the driver's records).  A loop on a statement alone comes no   *)
(* further than the driver manager's own records: the next read goes       *)
(* through the connection handle that was not given.                       *)
ErrorLoopReadsAll ==
  [][\A hdbc \in HdbcArgs : SQLError(hdbc) =>
       IF answer'.number = Crash
         THEN /\ hdbc = "null" /\ kind = "statement" /\ herr = <<>>
              /\ Remaining' = Remaining
         ELSE IF answer'.rec = None THEN Remaining = {}
         ELSE answer'.rec \in Remaining /\ Remaining' = Remaining \ {answer'.rec}]_vars

(* What an application is told after a call that reached the driver is     *)
(* about that call, whatever it reads and in what order: neither list may  *)
(* keep a record of an earlier call (CLEAR_ERRORS in ENTER_STMT and        *)
(* ENTER_HDBC, and err_rec with it: all of the driver's records are there  *)
(* to read when the call returns, unless another thread has read before).  *)
OnlyTheLastCall ==
  (reached \/ ~HasDriver) =>
    /\ \A r \in ToSet(Enumerated) : r[2] = call
    /\ busy /\ answer = NoAnswer => Remaining = ToSet(Enumerated)

(* However many calls are refused on a busy handle the list keeps its      *)
(* bound, the records below the top stay in the order they were posted,    *)
(* and the newest is the one SQLError returns first                        *)
(* (_iodbcdm_pushsqlerr: "overwrite the top entry to prevent error stack   *)
(* blow out").                                                             *)
ListKeepsOrder ==
  /\ Len(herr) <= Cap
  /\ \A i, j \in 1 .. Len(herr) : i < j => herr[i][3] < herr[j][3]

=============================================================================
