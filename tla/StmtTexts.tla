------------------------------ MODULE StmtTexts ------------------------------
(***************************************************************************)
(* The texts one statement hands to the driver.  When the application      *)
(* calls the wide entry and the driver is narrow, or the other way round,  *)
(* the driver manager converts every text into a slot of the statement     *)
(* (params[0..7]), hands the slots to the driver, and must keep them as    *)
(* long as the driver executes the call: a suspended call                  *)
(* (SQL_STILL_EXECUTING) reads them until it is polled to its end.         *)
(* SQLDescribeCol and SQLColAttributes use slot 0 for the name the driver  *)
(* writes.                                                                 *)
(*                                                                         *)
(* One action is one call, from ENTER_STMT to LEAVE_STMT.  The states of   *)
(* the statement are those of module Stmt, grouped by what these           *)
(* functions tell apart.                                                   *)
(***************************************************************************)
EXTENDS Naturals, FiniteSets

CONSTANTS
  Width,     \* sizeof(wchar_t)
  MaxOdd     \* bound: kinds of liberties taken with one suspended call

ASSUME WidthAssumption == Width \in Nat \ {0} /\ MaxOdd \in Nat

VARIABLES
  unicode_driver,  \* penv->unicode_driver
  phase,      \* pstmt->state
  asyn_on,    \* pstmt->asyn_on
  params,     \* pstmt->params: the slots
  inside,     \* the call the driver executes, and the slots it was handed
  got,        \* what the driver was handed, if the last step began a call
  lost,       \* slots freed or overwritten since, while it was executing
  odd         \* liberties taken since

vars == <<unicode_driver, phase, asyn_on, params, inside, got, lost, odd>>

NoCall == "none"      \* en_NullProc, and a driver that executes nothing
UpToExecuted == {"allocated", "prepared", "executed"}
Phases == UpToExecuted \cup {"cursoropen", "fetched", "data"}

(* Text t is NULL (0), or t characters long; Room is a block the driver    *)
(* writes.                                                                 *)
Null == 0
Texts == 0 .. 2
Room == 3
Slots == 0 .. 7
Unit(wide) == IF wide THEN Width ELSE 1
NoSlot == [text |-> Null, wide |-> FALSE, length |-> 0]
Slot == [text : 0 .. Room, wide : BOOLEAN, length : 0 .. 3 * Width]

(* The texts of each function, in the order of its parameters, which is    *)
(* that of the slots.                                                      *)
Count ==
  [Prepare |-> 1, ExecDirect |-> 1, GetTypeInfo |-> 0, SpecialColumns |-> 3,
   Statistics |-> 3, Tables |-> 4, ColumnPrivileges |-> 4, Columns |-> 4,
   ForeignKeys |-> 6, PrimaryKeys |-> 3, ProcedureColumns |-> 4,
   Procedures |-> 3, TablePrivileges |-> 3]
Describers == {"DescribeCol", "ColAttributes"}
Functions == DOMAIN Count \cup Describers \cup {"NumResultCols"}

Idle == [fn |-> NoCall, a |-> 0, wide |-> FALSE, reads |-> {}]
Nothing == [given |-> <<>>, handed |-> <<>>]

TypeOK ==
  /\ unicode_driver \in BOOLEAN /\ phase \in Phases
  /\ asyn_on \in Functions \cup {NoCall}
  /\ params \in [Slots -> Slot]
  /\ inside \in [fn : Functions \cup {NoCall}, a : Texts, wide : BOOLEAN, reads : SUBSET Slots]
  /\ lost \subseteq Slots /\ odd \subseteq {"arguments", "unnoted", "polled", "described"}

Init ==
  /\ unicode_driver \in BOOLEAN /\ phase = "allocated" /\ asyn_on = NoCall
  /\ params = [i \in Slots |-> NoSlot]
  /\ inside = Idle /\ got = Nothing /\ lost = {} /\ odd = {}

-----------------------------------------------------------------------------
(* The memory of a call in progress: the slots, and those of the suspended *)
(* call that were lost.                                                    *)
Memory == [slots |-> params, lost |-> IF inside = Idle THEN {} ELSE lost]

(* _iodbcdm_FreeStmtParams, while the driver reads the slots rs. *)
Freed(m, rs) ==
  [slots |-> [i \in Slots |-> NoSlot],
   lost  |-> m.lost \cup {i \in rs : m.slots[i] # NoSlot}]

(* Mutant: ENTER_STMT frees the slots of a suspended call as well. *)
EnterFrees == Freed(Memory, inside.reads)

(* ENTER_STMT. *)
Enter == IF asyn_on = NoCall THEN Freed(Memory, inside.reads) ELSE Memory

(* One slot becomes a block of the given size: kept if it is large enough. *)
Block(s, text, wide, size) ==
  [text |-> text, wide |-> wide,
   length |-> IF s.length >= size THEN s.length ELSE size]

(* _iodbcdm_conv_param_A2W, _iodbcdm_conv_param_W2A. *)
ConvParam(s, t) ==
  IF t = Null THEN NoSlot
  ELSE Block(s, t, unicode_driver, (t + 1) * Unit(unicode_driver))

(* _iodbcdm_alloc_param. *)
AllocParam(s, size) == IF size = 0 THEN NoSlot ELSE Block(s, Room, unicode_driver, size)

(* The slots new after those of m: what the driver had been handed in a    *)
(* block that is replaced or gets another content is lost.                 *)
Becomes(m, new) ==
  [slots |-> new,
   lost  |-> m.lost \cup {i \in inside.reads : m.slots[i] # NoSlot /\ new[i] # m.slots[i]}]

Converts(wide) == wide # unicode_driver
Texts_(f, a) == [i \in 0 .. Count[f] - 1 |-> (a + i) % 3]

(* Mutant: the sixth text of SQLForeignKeys goes to the slot of the fifth. *)
SharedSlot(i) == IF i = 5 THEN 4 ELSE i

(* The slot of the text at position i (SQLForeignKeys has the most). *)
SlotOf(i) == i

(* All texts of the call converted in turn. *)
Converted(m, ts) ==
  Becomes(m, [s \in Slots |->
    LET on == {i \in DOMAIN ts : SlotOf(i) = s} IN
    IF on = {} THEN m.slots[s]
    ELSE ConvParam(m.slots[s], ts[CHOOSE i \in on : \A j \in on : j <= i])])

Handed(m, ts, wide) ==
  [i \in DOMAIN ts |-> IF Converts(wide)
                       THEN <<m.slots[SlotOf(i)].text, unicode_driver>>
                       ELSE <<ts[i], wide>>]

-----------------------------------------------------------------------------
(* A driver executes one call of a statement at a time: another is an      *)
(* error.  Without the function, IM001.                                    *)
Answers(f) ==
  IF inside = Idle THEN {"SUCCESS", "ERROR", "STILL", "IM001"}
  ELSE IF inside.fn = f THEN {"SUCCESS", "ERROR", "STILL"} ELSE {"ERROR"}

Keep == got' = Nothing /\ UNCHANGED <<unicode_driver, inside>>
Remember(m) == params' = m.slots /\ lost' = m.lost
Fresh == inside = Idle

(* The call is refused after ENTER_STMT: nothing reaches the driver. *)
Refused ==
  /\ Remember(Enter)
  /\ odd' = IF Fresh THEN {} ELSE odd
  /\ Keep /\ UNCHANGED <<phase, asyn_on>>

(* Mutant: without the driver's function the slots are left. *)
AnsweredOrMissing(f, a, wide, m, rs, answer, frees) ==
  /\ Remember(IF answer \in {"STILL", "IM001"} \/ ~frees THEN m
              ELSE Freed(m, IF inside.fn \in {NoCall, f} THEN {} ELSE inside.reads))
  /\ inside' = IF answer = "STILL" THEN [fn |-> f, a |-> a, wide |-> wide, reads |-> rs]
               ELSE IF inside.fn \in {NoCall, f} THEN Idle ELSE inside
  /\ odd' = IF Fresh THEN {} ELSE odd

(* The driver has answered call <<f, a, wide>>, which read the slots rs    *)
(* of m; notes: asyn_on tells so if it is suspended.  Frees: the function  *)
(* frees the slots when the call is over.                                  *)
Answered(f, a, wide, m, rs, answer, frees) ==
  LET own   == inside.fn \in {NoCall, f}
      other == inside.fn = f /\ <<inside.a, inside.wide>> # <<a, wide>>
  IN
  /\ Remember(IF answer = "STILL" \/ ~frees THEN m
              ELSE Freed(m, IF own THEN {} ELSE inside.reads))
  /\ inside' = IF ~own THEN inside
               ELSE IF answer = "STILL" THEN [fn |-> f, a |-> a, wide |-> wide, reads |-> rs]
               ELSE Idle
  /\ odd' = (IF Fresh THEN {} ELSE odd)
            \cup (IF other THEN {"polled"} ELSE {})
            \cup (IF ~own THEN {"described"} ELSE {})
            \cup (IF answer = "STILL" /\ asyn_on' # f THEN {"unnoted"} ELSE {})

(* After the state check: convert, call the driver, free.                  *)
Reaches(f, a, wide, answer, frees) ==
  LET ts == Texts_(f, a)
      m  == IF Converts(wide) THEN Converted(Enter, ts) ELSE Enter
  IN
  /\ answer \in Answers(f)
  /\ Answered(f, a, wide, m, IF Converts(wide) THEN DOMAIN ts ELSE {}, answer, frees)
  /\ got' = IF Fresh /\ answer # "IM001"
            THEN [given |-> ts, handed |-> Handed(m, ts, wide)] ELSE Nothing
  /\ UNCHANGED unicode_driver

-----------------------------------------------------------------------------
(* _iodbcdm_cata_state_ok, and the state checks of SQLPrepare and          *)
(* SQLExecDirect.                                                          *)
StateOk(f) ==
  IF asyn_on = NoCall THEN phase \in UpToExecuted \cup {"cursoropen"} ELSE asyn_on = f

(* _iodbcdm_cata_state_tr. *)
CatalogTransition(f, answer) ==
  CASE answer = "STILL" ->
         /\ UNCHANGED phase
         /\ asyn_on' = IF phase \in UpToExecuted THEN f ELSE asyn_on
    [] answer = "IM001" -> UNCHANGED <<phase, asyn_on>>
    [] OTHER ->
         /\ asyn_on' = IF asyn_on = f THEN NoCall ELSE asyn_on
         /\ phase' = IF phase \notin UpToExecuted THEN phase
                     ELSE IF answer = "SUCCESS" THEN "cursoropen" ELSE "allocated"

(* A bad length: the function looks at its arguments before the state, and *)
(* frees the slots, whoever reads them.                                    *)
BadArgument ==
  /\ Remember(Freed(Enter, inside.reads))
  /\ odd' = IF Fresh THEN {} ELSE odd \cup {"arguments"}
  /\ Keep /\ UNCHANGED <<phase, asyn_on>>

(* Any of the catalog functions with texts. *)
Catalog(f, a, wide, answer) ==
  \/ answer = "S1090" /\ BadArgument
  \/ answer # "S1090" /\ ~StateOk(f) /\ Refused
  \/ StateOk(f) /\ CatalogTransition(f, answer) /\ Reaches(f, a, wide, answer, TRUE)

Catalogued == {"SUCCESS", "ERROR", "STILL", "IM001", "S1090"}
AnyCall(Call(_, _, _)) ==
  \E a \in Texts, wide \in BOOLEAN, answer \in Catalogued : Call(a, wide, answer)

SQLGetTypeInfo_Internal(a, wide, answer) ==
  \/ ~StateOk("GetTypeInfo") /\ Refused
  \/ /\ StateOk("GetTypeInfo")
     /\ CatalogTransition("GetTypeInfo", answer)
     /\ Reaches("GetTypeInfo", a, wide, answer, FALSE)
SQLGetTypeInfo == AnyCall(SQLGetTypeInfo_Internal)

SQLSpecialColumns_Internal(a, wide, answer) == Catalog("SpecialColumns", a, wide, answer)
SQLSpecialColumns == AnyCall(SQLSpecialColumns_Internal)

SQLStatistics_Internal(a, wide, answer) == Catalog("Statistics", a, wide, answer)
SQLStatistics == AnyCall(SQLStatistics_Internal)

SQLTables_Internal(a, wide, answer) == Catalog("Tables", a, wide, answer)
SQLTables == AnyCall(SQLTables_Internal)

SQLColumnPrivileges_Internal(a, wide, answer) == Catalog("ColumnPrivileges", a, wide, answer)
SQLColumnPrivileges == AnyCall(SQLColumnPrivileges_Internal)

SQLColumns_Internal(a, wide, answer) == Catalog("Columns", a, wide, answer)
SQLColumns == AnyCall(SQLColumns_Internal)

SQLForeignKeys_Internal(a, wide, answer) == Catalog("ForeignKeys", a, wide, answer)
SQLForeignKeys == AnyCall(SQLForeignKeys_Internal)

SQLPrimaryKeys_Internal(a, wide, answer) == Catalog("PrimaryKeys", a, wide, answer)
SQLPrimaryKeys == AnyCall(SQLPrimaryKeys_Internal)

SQLProcedureColumns_Internal(a, wide, answer) == Catalog("ProcedureColumns", a, wide, answer)
SQLProcedureColumns == AnyCall(SQLProcedureColumns_Internal)

SQLProcedures_Internal(a, wide, answer) == Catalog("Procedures", a, wide, answer)
SQLProcedures == AnyCall(SQLProcedures_Internal)

SQLTablePrivileges_Internal(a, wide, answer) == Catalog("TablePrivileges", a, wide, answer)
SQLTablePrivileges == AnyCall(SQLTablePrivileges_Internal)

-----------------------------------------------------------------------------
Sent(f, a) == Texts_(f, a)[0] # Null

(* A poll leaves the state alone, and a call that begins and fails in      *)
(* cursoropen too.                                                         *)
PrepareTransition(answer) ==
  CASE answer = "STILL" -> asyn_on' = "Prepare" /\ UNCHANGED phase
    [] answer = "IM001" -> UNCHANGED <<phase, asyn_on>>
    [] OTHER ->
         /\ asyn_on' = NoCall
         /\ phase' = IF asyn_on = "Prepare" THEN phase
                     ELSE IF answer = "SUCCESS" THEN "prepared"
                     ELSE IF phase \in {"prepared", "executed"} THEN "allocated" ELSE phase

(* The state first, then the arguments; no path but the driver's answer    *)
(* frees.                                                                  *)
SQLPrepare_Internal(a, wide, answer) ==
  \/ (~StateOk("Prepare") \/ answer = "S1090" \/ ~Sent("Prepare", a)) /\ Refused
  \/ /\ StateOk("Prepare") /\ Sent("Prepare", a)
     /\ PrepareTransition(answer)
     /\ Reaches("Prepare", a, wide, answer, TRUE)
SQLPrepare == AnyCall(SQLPrepare_Internal)

(* Success asks the driver for the number of columns, which may be         *)
(* suspended in its turn; a driver may ask for data.                       *)
ExecDirectTransition(answer) ==
  CASE answer = "STILL" ->
         /\ UNCHANGED phase
         /\ asyn_on' = IF phase \in UpToExecuted THEN "ExecDirect" ELSE asyn_on
    [] answer = "IM001" -> UNCHANGED <<phase, asyn_on>>
    [] OTHER ->
         /\ asyn_on' = IF asyn_on = "ExecDirect" THEN NoCall ELSE asyn_on
         /\ IF phase \notin UpToExecuted THEN UNCHANGED phase
            ELSE IF answer = "SUCCESS" THEN phase' \in {"executed", "cursoropen"}
            ELSE phase' \in {"allocated", "data"}

SQLExecDirect_Internal(a, wide, answer) ==
  \/ (~StateOk("ExecDirect") \/ answer = "S1090" \/ ~Sent("ExecDirect", a)) /\ Refused
  \/ /\ StateOk("ExecDirect") /\ Sent("ExecDirect", a)
     /\ ExecDirectTransition(answer)
     /\ Reaches("ExecDirect", a, wide, answer, TRUE)
SQLExecDirect == AnyCall(SQLExecDirect_Internal)

-----------------------------------------------------------------------------
(* A suspended describer is noted in some states only. *)
DescribeTransition(f, answer) ==
  /\ UNCHANGED phase
  /\ asyn_on' = CASE answer = "STILL" /\ phase \in {"prepared", "cursoropen", "fetched"} -> f
                  [] answer \in {"SUCCESS", "ERROR"} /\ asyn_on = f -> NoCall
                  [] OTHER -> asyn_on

(* Room for a name of n characters in slot 0; a converted call with no     *)
(* room has none.                                                          *)
Describes(f, n, wide, answer) ==
  LET uses == Converts(wide) /\ n > 0
      m    == IF uses
              THEN Becomes(Enter, [Enter.slots EXCEPT
                     ![0] = AllocParam(@, n * Unit(unicode_driver))])
              ELSE Enter
  IN
  /\ answer \in Answers(f)
  /\ DescribeTransition(f, answer)
  /\ Answered(f, n, wide, m, IF uses THEN {0} ELSE {}, answer, TRUE)
  /\ got' = Nothing /\ UNCHANGED unicode_driver

(* Its state check is compiled out (ODBCVER < 0x0300). *)
SQLDescribeCol_Internal(n, wide, answer) ==
  \/ answer = "S1090" /\ Refused
  \/ Describes("DescribeCol", n, wide, answer)
SQLDescribeCol == AnyCall(SQLDescribeCol_Internal)

ColAttributesOk ==
  IF asyn_on = NoCall THEN phase \notin {"allocated", "data"} ELSE asyn_on = "ColAttributes"

SQLColAttributes_Internal(n, wide, answer) ==
  \/ (answer = "S1090" \/ ~ColAttributesOk) /\ Refused
  \/ ColAttributesOk /\ Describes("ColAttributes", n, wide, answer)
SQLColAttributes == AnyCall(SQLColAttributes_Internal)

-----------------------------------------------------------------------------
(* Any function without texts: the driver answers and the state changes,   *)
(* or, while a call is suspended, it is refused or cancels.                *)
OtherCall ==
  /\ Remember(Enter)
  /\ odd' = IF Fresh THEN {} ELSE odd
  /\ phase' \in IF asyn_on = NoCall THEN Phases ELSE {phase, "allocated", "prepared"}
  /\ Keep /\ UNCHANGED asyn_on

Calls ==
  \/ SQLGetTypeInfo \/ SQLSpecialColumns \/ SQLStatistics \/ SQLTables
  \/ SQLColumnPrivileges \/ SQLColumns \/ SQLForeignKeys \/ SQLPrimaryKeys
  \/ SQLProcedureColumns \/ SQLProcedures \/ SQLTablePrivileges
  \/ SQLPrepare \/ SQLExecDirect \/ SQLDescribeCol \/ SQLColAttributes
  \/ OtherCall

Next == Calls /\ Cardinality(odd') <= MaxOdd

Spec == Init /\ [][Next]_vars

-----------------------------------------------------------------------------
(* What the driver was handed stays where it is and as it is as long as    *)
(* the driver executes the call, whatever the application calls meanwhile: *)
(* ENTER_STMT spares the slots of a suspended call, and the call that      *)
(* polls it finds its slots large enough.  It takes a suspension asyn_on   *)
(* does not note, a bad length, another function let through               *)
(* (SQLDescribeCol) or other arguments to break it.                        *)
SuspendedTextKept == odd = {} => lost = {}

(* The driver reads the application's texts in the order they were given   *)
(* and in its own width, NULL for NULL (the conversions of the eleven      *)
(* catalog functions, SQLPrepare and SQLExecDirect).                       *)
TextArrives ==
  got.handed = [i \in DOMAIN got.given |-> <<got.given[i], got.handed[i][2]>>]
  /\ \A i \in DOMAIN got.handed : got.handed[i][2] = unicode_driver

(* A statement on which the driver executes nothing holds no converted     *)
(* text: every path out of a call but suspension frees the slots           *)
(* (_iodbcdm_FreeStmtParams after the driver, and without the function).   *)
NothingHeld == inside = Idle => \A i \in Slots : params[i] = NoSlot
=============================================================================
