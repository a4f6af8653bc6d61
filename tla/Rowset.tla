------------------------------- MODULE Rowset -------------------------------
(***************************************************************************)
(* The rows a statement fetches, as the driver manager keeps track of them *)
(* for a driver without the Unicode functions: the row set size and the    *)
(* binding type (rowset_size, bind_type), the statement attributes it      *)
(* keeps itself for an ODBC 2 driver (row_status_ptr), and the list of     *)
(* columns bound as SQL_C_WCHAR (st_pbinding), whose text it widens in the *)
(* application's buffers after every fetch.                                *)
(*                                                                         *)
(* The state of the cursor is the matter of Stmt; here a cursor is open.   *)
(* What an application may do that the code does not cope with is recorded *)
(* in "ways", so that each property says under which of it it holds.       *)
(*                                                                         *)
(* Its specification is RowsSpec, so that StmtDataProofs can take it       *)
(* beside StmtTexts and StmtAttrs.                                         *)
(***************************************************************************)
EXTENDS Naturals, Sequences, FiniteSets, SequencesExt

CONSTANTS Cols,       \* columns of the result
          Bufs,       \* buffers an application binds, of MaxRows rows each
          Sizes,      \* row set sizes asked for
          MaxRows,    \* rows of a buffer
          MaxWays,    \* ways taken in one behaviour (bounds the model only)
          WideSize,   \* sizeof (wchar_t)
          Spans,      \* rows a text of a row takes when widened (1: its own)
          RowArrayAttr  \* SQL_ATTR_ROW_ARRAY_SIZE, the number (sqlext.h: 27)

ASSUME RowsetAssumption ==
  /\ Sizes \subseteq 1 .. MaxRows /\ MaxRows \in Nat \ {0}
  /\ RowArrayAttr \in Nat /\ RowArrayAttr > MaxRows
  /\ WideSize \in Nat \ {0} /\ Spans \subseteq 1 .. WideSize

VARIABLES
  setting,     \* [app, driver]: the ODBC versions (2, 3)
  drv,         \* the driver's [arr, rows]: SQL_ATTR_ROW_ARRAY_SIZE, SQL_ROWSET_SIZE
  drvBound,    \* the driver's bound columns: column -> Unbound, or [buf, wide, ind]
  drvByRow,    \* does the driver bind by row?
  rowset_size, \* STMT_t.rowset_size
  bind_type,   \* STMT_t.bind_type: "column", "row" (a row's size), or "number"
  status,      \* STMT_t.row_status_ptr: [of |-> "none", "app" or "dm", len |-> entries]
  binds,       \* STMT_t.st_pbinding: sequence of [col, buf, ind]
  cells,       \* what is in a row of a buffer (Forms)
  hurt,        \* what was written beyond its end or not where it belongs
  ways         \* what the application or the driver did so far (Ways)

dm == <<rowset_size, bind_type, status>>
rowsVars == <<setting, drv, drvBound, drvByRow, dm, binds, cells, hurt, ways>>

(* Sized by SQLSetStmtAttr; by SQLSetStmtAttr(SQL_ROWSET_SIZE) or          *)
(* SQLSetScrollOptions; by SQLSetStmtOption; a size the driver refused;    *)
(* bound by row; a wide column bound again as something else; a row set    *)
(* not filled; a fetch that the row set size does not govern; no status    *)
(* array; an array size given after the status array; a smaller size the   *)
(* driver substituted; a wide column bound without an indicator; a text    *)
(* that fits its row until it is widened.                                  *)
Ways == {"byAttr", "byRowsetAttr", "byOption", "refused", "byRow", "rebound",
         "short", "otherFetch", "noStatus", "sizedAfterStatus", "less",
         "noIndicator", "long"}

(* A row of a buffer: nothing yet (taken as cleared), NULL by its           *)
(* indicator, a narrow text and the rows it takes when widened, widened     *)
(* inside its row, widened past it, written over by another row's text,     *)
(* widened twice, or data of another type.                                  *)
Forms == {"empty", "null", "narrow", "wide", "past", "spoilt", "cut", "raw"}
Cell(form) == [form |-> form, rows |-> 1]
Narrow(rows) == [form |-> "narrow", rows |-> rows]

Old == setting.driver = 2
Emulated == Old /\ setting.app = 3      \* an ODBC 3 application, an ODBC 2 driver
NoStatus == [of |-> "none", len |-> 0]
DmStatus(n) == [of |-> "dm", len |-> 2 * n]   \* n SQLUINTEGER hold 2n statuses
Unbound == [buf |-> "none", wide |-> FALSE, ind |-> FALSE]
Bound == {c \in Cols : drvBound[c] # Unbound}

RowsInit ==
  /\ setting \in [app : {2, 3}, driver : {2, 3}]
  /\ drv = [arr |-> 1, rows |-> 1]
  /\ drvBound = [c \in Cols |-> Unbound] /\ drvByRow = FALSE
  /\ rowset_size = 1 /\ bind_type = "column"
  /\ status = IF Emulated THEN DmStatus(1) ELSE NoStatus
  /\ binds = << >>
  /\ cells = [b \in Bufs |-> [r \in 1 .. MaxRows |-> Cell("empty")]]
  /\ hurt = {} /\ ways = {}

(***************************************************************************)
(* Sizes.  "answer" is the driver's: done, a smaller size substituted (SQL *)
(* _SUCCESS_WITH_INFO), or refused.                                        *)
(***************************************************************************)
SizeAnswers == {"done", "less", "refused"}
Taken(n, answer) == IF answer = "less" THEN 1 ELSE n
Did(what, answer) == ways \cup {what} \cup ({answer} \ {"done"})

(* What the driver manager notes after an accepted array size: the number   *)
(* of the attribute, or the size read back when the driver substituted one. *)
Noted(answer, readBack) ==
  rowset_size' = CASE answer = "refused" -> rowset_size
                   [] answer = "done"    -> RowArrayAttr
                   [] answer = "less"    -> readBack

SetRowArraySize3(n, answer) ==
  /\ ~Old
  /\ drv' = IF answer = "refused" THEN drv ELSE [drv EXCEPT !.arr = Taken(n, answer)]
  /\ Noted(answer, drv.rows)
  /\ UNCHANGED status

(* For an ODBC 2 driver the driver manager keeps the array size and a status *)
(* array of its own, before it asks the driver.                              *)
SetRowArraySize2(n, answer) ==
  /\ Old
  /\ status' = DmStatus(n)
  /\ drv' = IF answer = "refused" THEN drv ELSE [drv EXCEPT !.rows = Taken(n, answer)]
  /\ Noted(answer, drv'.rows)

SetRowArraySize ==
  \E n \in Sizes, answer \in SizeAnswers :
    /\ SetRowArraySize3(n, answer) \/ SetRowArraySize2(n, answer)
    /\ ways' = Did("byAttr", answer)
                  \cup (IF Old /\ status.of = "app" THEN {"sizedAfterStatus"} ELSE {})
    /\ UNCHANGED <<setting, drvBound, drvByRow, bind_type, binds, cells, hurt>>

(* SQL_ROWSET_SIZE as a statement attribute: the driver's alone.  *)
SetRowsetAttr ==
  \E n \in Sizes, answer \in SizeAnswers :
    /\ drv' = IF answer = "refused" THEN drv ELSE [drv EXCEPT !.rows = Taken(n, answer)]
    /\ ways' = Did("byRowsetAttr", answer)
    /\ UNCHANGED <<setting, drvBound, drvByRow, dm, binds, cells, hurt>>

(* SQLSetScrollOptions: the driver's own, or for an ODBC 3 driver cursor    *)
(* type, concurrency, key set and row set size one after the other.  Any    *)
(* answer but SQL_SUCCESS ends the sequence and is the call's, so that an   *)
(* SQL_SUCCESS_WITH_INFO for the cursor type leaves the size as it was      *)
(* (cut).  The driver manager's row set size is not touched.                *)
SetScrollOptions(n, answer, cut) ==
  /\ cut => ~Old
  /\ drv' = IF cut \/ answer = "refused" THEN drv ELSE [drv EXCEPT !.rows = Taken(n, answer)]
  /\ ways' = Did("byRowsetAttr", IF cut THEN "refused" ELSE answer)
  /\ UNCHANGED <<setting, drvBound, drvByRow, dm, binds, cells, hurt>>

SQLSetScrollOptions ==
  \E n \in Sizes, answer \in SizeAnswers, cut \in BOOLEAN : SetScrollOptions(n, answer, cut)

(* A mutant: the number of the option is recorded. *)
OptionNotedByNumber(n, answer, readBack) ==
  IF answer = "refused" THEN rowset_size ELSE RowArrayAttr

OptionNoted(n, answer, readBack) ==
  CASE answer = "refused" -> rowset_size
    [] answer = "done"    -> n
    [] answer = "less"    -> readBack

SetRowsetOption ==
  \E n \in Sizes, answer \in SizeAnswers :
    /\ drv' = IF answer = "refused" THEN drv ELSE [drv EXCEPT !.rows = Taken(n, answer)]
    /\ rowset_size' = OptionNoted(n, answer, drv'.rows)
    /\ ways' = Did("byOption", answer)
    /\ UNCHANGED <<setting, drvBound, drvByRow, bind_type, status, binds, cells, hurt>>

SetBindTypeOption ==
  \E byRow \in BOOLEAN :
    /\ drvByRow' = byRow
    /\ bind_type' = IF byRow THEN "row" ELSE "column"
    /\ ways' = ways \cup {"byRow"}
    /\ UNCHANGED <<setting, drv, drvBound, rowset_size, status, binds, cells, hurt>>

(* As an attribute the number of the attribute is kept for the size of a row. *)
SetBindTypeAttr ==
  \E byRow \in BOOLEAN :
    /\ drvByRow' = byRow /\ bind_type' = "number"
    /\ ways' = ways \cup {"byRow"}
    /\ UNCHANGED <<setting, drv, drvBound, rowset_size, status, binds, cells, hurt>>

(* The application's status array has an entry for every row of its buffers. *)
SetRowStatusPtr ==
  \E given \in BOOLEAN :
    /\ IF Old THEN status' = IF given THEN [of |-> "app", len |-> MaxRows] ELSE NoStatus
              ELSE UNCHANGED status
    /\ ways' = IF given \/ ~Old THEN ways ELSE ways \cup {"noStatus"}
    /\ UNCHANGED <<setting, drv, drvBound, drvByRow, rowset_size, bind_type,
                   binds, cells, hurt>>

(* A mutant: the list is not searched for the column. *)
BindColumnAgain(bind) == Append(binds, bind)

(***************************************************************************)
(* Bindings.                                                               *)
(***************************************************************************)
BindColumn(bind) ==
  LET at == {i \in DOMAIN binds : binds[i].col = bind.col} IN
  IF at = {} THEN Append(binds, bind)
             ELSE [binds EXCEPT ![CHOOSE i \in at : TRUE] = bind]

Listed(col) == \E i \in DOMAIN binds : binds[i].col = col

(* The first entry of the column is taken out. *)
UnBindColumn(col) ==
  IF ~Listed(col) THEN binds
  ELSE RemoveAt(binds, CHOOSE i \in DOMAIN binds :
                         binds[i].col = col /\ \A j \in 1 .. i - 1 : binds[j].col # col)

(* What is in a buffer no column is bound to is not followed. *)
Cleared(bufs) ==
  [b \in Bufs |-> IF b \in bufs THEN [r \in 1 .. MaxRows |-> Cell("empty")] ELSE cells[b]]

(* A buffer belongs to one column at a time: the application's own care.    *)
(* Its indicators are optional in ODBC (they matter for a wide column).     *)
BindCol ==
  \E col \in Cols, buf \in Bufs, wide \in BOOLEAN, ind \in BOOLEAN :
    /\ wide \/ ind
    /\ \A c \in Cols \ {col} : drvBound[c].buf # buf
    /\ drvBound' = [drvBound EXCEPT ![col] = [buf |-> buf, wide |-> wide, ind |-> ind]]
    /\ binds' = IF wide THEN BindColumn([col |-> col, buf |-> buf, ind |-> ind]) ELSE binds
    /\ cells' = Cleared({buf, drvBound[col].buf})
    /\ ways' = ways \cup (IF ~wide /\ Listed(col) THEN {"rebound"} ELSE {})
                   \cup (IF wide /\ ~ind THEN {"noIndicator"} ELSE {})
    /\ UNCHANGED <<setting, drv, drvByRow, dm, hurt>>

UnbindCol ==
  \E col \in Bound, wide \in BOOLEAN :
    /\ drvBound' = [drvBound EXCEPT ![col] = Unbound]
    /\ binds' = IF wide THEN UnBindColumn(col) ELSE binds
    /\ cells' = Cleared({drvBound[col].buf})
    /\ ways' = IF ~wide /\ Listed(col) THEN ways \cup {"rebound"} ELSE ways
    /\ UNCHANGED <<setting, drv, drvByRow, dm, hurt>>

(* SQLFreeStmt(SQL_UNBIND): the list goes when the driver agreed. *)
RemoveBind ==
  \E agreed \in BOOLEAN :
    /\ drvBound' = IF agreed THEN [c \in Cols |-> Unbound] ELSE drvBound
    /\ binds' = IF agreed THEN << >> ELSE binds
    /\ cells' = IF agreed THEN Cleared(Bufs) ELSE cells
    /\ UNCHANGED <<setting, drv, drvByRow, dm, hurt, ways>>

(***************************************************************************)
(* Fetches.                                                                *)
(***************************************************************************)
(* The function of the driver a fetch calls: with its own array size, with  *)
(* the row set size and the status array of the statement, or with those    *)
(* the application passes.                                                  *)
FetchCalls == IF Emulated THEN "ExtendedFetch" ELSE "Fetch"
FetchScrollCalls ==
  IF setting.app = 3 /\ ~Old THEN "FetchScroll"
  ELSE IF status.of # "none" THEN "ExtendedFetch" ELSE "none"        \* HYC00

(* Rows the driver fills at most. *)
Filled(function) ==
  CASE function = "Fetch" /\ Old                -> 1
    [] function \in {"Fetch", "FetchScroll"} /\ ~Old -> drv.arr
    [] OTHER                                    -> drv.rows

WideBufs == {drvBound[c].buf : c \in {d \in Bound : drvBound[d].wide}}
ListedBufs == {binds[i].buf : i \in DOMAIN binds}

(* A row of a buffer as the driver leaves it: the driver is told the bytes *)
(* of the row and the type SQL_C_CHAR, so that a text may fill the row.    *)
Written(n, texts, b, r) ==
  IF r > n THEN cells[b][r]
  ELSE IF b \in WideBufs THEN IF texts[b][r] = 0 THEN Cell("null") ELSE Narrow(texts[b][r])
  ELSE IF \E c \in Bound : drvBound[c].buf = b THEN Cell("raw")
  ELSE cells[b][r]

(* A mutant: the loop runs one row too far. *)
ReachedPast == (1 .. rowset_size + 1) \cap (1 .. MaxRows)

(* Rows of a buffer _iodbcdm_ConvBindData reaches at their place. *)
Reached ==
  IF rowset_size = 1 \/ bind_type = (IF drvByRow THEN "row" ELSE "column")
  THEN (1 .. rowset_size) \cap (1 .. MaxRows) ELSE {1}

(* The rows are widened in place one after the other, each text up to its   *)
(* terminator and without regard to the size of its row, so that a long one *)
(* writes over the rows after it, which are widened next: what is there is  *)
(* then no text of their own.                                               *)
WritesOver(spills, row, r) == \E p \in spills : p < r /\ r < p + row[p].rows

Spills(spills, row) ==
  spills = {p \in Reached : /\ row[p].form = "narrow" /\ row[p].rows > 1
                            /\ ~WritesOver(spills, row, p)}

(* A text that is already wide reads as its first character; a buffer that  *)
(* is on the list for two columns is widened twice.                         *)
Widened(cell, again) ==
  CASE cell.form = "narrow" /\ again -> Cell("cut")
    [] cell.form = "narrow" /\ ~again -> Cell(IF cell.rows > 1 THEN "past" ELSE "wide")
    [] cell.form \in {"wide", "past"} -> Cell("cut")
    [] OTHER -> cell

ConvRow(spills, row, again, r) ==
  IF row[r].form = "null" THEN row[r]
  ELSE IF WritesOver(spills, row, r) THEN Cell("spoilt")
  ELSE IF r \in Reached THEN Widened(row[r], again) ELSE row[r]

ListedTwice(b) == \E i, j \in DOMAIN binds : i # j /\ binds[i].buf = b /\ binds[j].buf = b

ConvBindData(written, spills) ==
  [b \in Bufs |-> [r \in 1 .. MaxRows |->
     IF b \in ListedBufs THEN ConvRow(spills[b], written[b], ListedTwice(b), r)
                         ELSE written[b][r]]]

(* By row the indicators are stepped over in units of a whole indicator; a   *)
(* long text of the last rows goes past the buffer, and one of a row's       *)
(* columns into the next; a column listed but not bound is widened where     *)
(* nothing was fetched.                                                      *)
ConvHurt(written, spills) ==
  (IF \/ binds # << >> /\ (rowset_size > MaxRows \/ (bind_type # "column" /\ rowset_size > 1))
      \/ \E b \in ListedBufs : \E p \in spills[b] :
           bind_type # "column" \/ p + written[b][p].rows > MaxRows + 1
   THEN {"cells"} ELSE {})
  \cup (IF \E i \in DOMAIN binds :
             drvBound[binds[i].col] # [buf |-> binds[i].buf, wide |-> TRUE, ind |-> binds[i].ind]
        THEN {"stale"} ELSE {})

(* The indicator is read before it is tested: without one the process ends. *)
NoIndicator == \E i \in DOMAIN binds : ~binds[i].ind

(* The statuses go to the array of the statement unless the application     *)
(* passes one (SQLExtendedFetch).                                           *)
StatusHurt(function, own) ==
  IF function = "ExtendedFetch" /\ ~own /\ status.len < drv.rows THEN {"status"} ELSE {}

WaysOf(function, n, spills) ==
  (IF n \in 1 .. Filled(function) - 1 THEN {"short"} ELSE {})
  \cup (IF n > 0 /\ Filled(function) # rowset_size THEN {"otherFetch"} ELSE {})
  \cup (IF \E b \in ListedBufs : spills[b] # {} THEN {"long"} ELSE {})

(* The driver fills n rows (a text of 0 rows is NULL); nothing is widened   *)
(* when there is none (SQL_NO_DATA_FOUND).                                  *)
Rows(function, own, n, texts) ==
  LET written == [b \in Bufs |-> [r \in 1 .. MaxRows |-> Written(n, texts, b, r)]] IN
  \E spills \in [ListedBufs -> SUBSET Reached] :
    /\ \A b \in ListedBufs : Spills(spills[b], written[b])
    /\ cells' = ConvBindData(written, spills)
    /\ hurt' = hurt \cup ConvHurt(written, spills) \cup StatusHurt(function, own)
    /\ ways' = ways \cup WaysOf(function, n, spills)

Fetching(function, own) ==
  /\ function # "none"
  /\ \/ UNCHANGED <<cells, hurt, ways>>
     \/ \E n \in 1 .. Filled(function) :
          IF NoIndicator THEN hurt' = hurt \cup {"crash"} /\ UNCHANGED <<cells, ways>>
          ELSE \E texts \in [WideBufs -> [1 .. n -> {0} \cup Spans]] : Rows(function, own, n, texts)
  /\ UNCHANGED <<setting, drv, drvBound, drvByRow, dm, binds>>

SQLFetch == Fetching(FetchCalls, FALSE)
SQLFetchScroll == Fetching(FetchScrollCalls, FALSE)
SQLExtendedFetch == Fetching("ExtendedFetch", TRUE)

(* SQL_FETCH_BY_BOOKMARK of a driver with SQLBulkOperations of its own. *)
SQLBulkOperations == ~Old /\ Fetching("FetchScroll", FALSE)

RowsNext ==
  /\ "crash" \notin hurt
  /\ \/ SetRowArraySize \/ SetRowsetAttr \/ SetRowsetOption
     \/ SetBindTypeOption \/ SetBindTypeAttr \/ SetRowStatusPtr
     \/ SQLSetScrollOptions \/ BindCol \/ UnbindCol \/ RemoveBind
     \/ SQLFetch \/ SQLFetchScroll \/ SQLExtendedFetch \/ SQLBulkOperations
  /\ Cardinality(ways') <= MaxWays

RowsSpec == RowsInit /\ [][RowsNext]_rowsVars

RowsTypeOK ==
  /\ setting \in [app : {2, 3}, driver : {2, 3}]
  /\ drv \in [arr : 1 .. MaxRows, rows : 1 .. MaxRows]
  /\ drvBound \in [Cols -> [buf : Bufs, wide : BOOLEAN, ind : BOOLEAN] \cup {Unbound}]
  /\ drvByRow \in BOOLEAN
  /\ rowset_size \in 1 .. MaxRows \cup {RowArrayAttr}
  /\ bind_type \in {"column", "row", "number"}
  /\ status \in [of : {"none", "app", "dm"}, len : 0 .. 2 * MaxRows]
  /\ binds \in Seq([col : Cols, buf : Bufs, ind : BOOLEAN])
  /\ cells \in [Bufs -> [1 .. MaxRows -> [form : Forms, rows : 1 .. WideSize]]]
  /\ hurt \subseteq {"cells", "stale", "status", "crash"}
  /\ ways \subseteq Ways

(***************************************************************************)
(* Properties.                                                             *)
(***************************************************************************)
(* The list of wide columns is the driver's: every column bound as          *)
(* SQL_C_WCHAR is on it once with the buffer and the indicators the driver  *)
(* fills, and nothing else is, as long as no such column is bound again, or *)
(* unbound, under another type (then the old entry stays, and its buffer is *)
(* written at every later fetch).  So a fetch ends the process only for a   *)
(* wide column that is bound without indicators.                            *)
ListIsBound ==
  "rebound" \notin ways =>
    /\ \A i \in DOMAIN binds :
         drvBound[binds[i].col] = [buf |-> binds[i].buf, wide |-> TRUE, ind |-> binds[i].ind]
    /\ \A c \in Bound : drvBound[c].wide => Cardinality({i \in DOMAIN binds : binds[i].col = c}) = 1
    /\ "crash" \in hurt => \E c \in Bound : drvBound[c].wide /\ ~drvBound[c].ind

(* A fetch widens every text it brings exactly once and leaves the rows it  *)
(* did not fill as they were: none is left narrow, none is cut by a second  *)
(* conversion.  Only a text too long for its row when widened does harm     *)
(* (hstmt.c:1399 has no bound), to itself and to the next WideSize - 1      *)
(* rows.  This needs every fetch to fill the rows rowset_size says, sized   *)
(* by SQLSetStmtOption, by column.                                          *)
ConvertedOnce ==
  [][ways' \subseteq {"byOption", "byRowsetAttr", "refused", "less", "noStatus", "noIndicator",
                      "long"} =>
     \A c \in Bound' : LET b == drvBound'[c].buf IN
       cells'[b] # cells[b] =>
         \A r \in 1 .. MaxRows :
           \/ cells'[b][r].form \in {"empty"} \cup IF drvBound'[c].wide THEN {"wide", "null"}
                                                                       ELSE {"raw"}
           \/ r > rowset_size /\ cells'[b][r] = cells[b][r]
           \/ \E p \in 1 .. r : cells'[b][p].form = "past" /\ r - p < WideSize]_rowsVars

(* Nothing is written outside the application's arrays: the widening stays  *)
(* inside the rows it bound, unless the size or the binding type came       *)
(* through SQLSetStmtAttr, it binds by row, or a text of one of the last    *)
(* rows was too long; and the row statuses inside the array the driver is   *)
(* given (the driver manager's own is as long as the driver's row set,      *)
(* unless the driver was sized behind its back or refused a size that was   *)
(* recorded already).                                                       *)
InsideTheRows ==
  /\ ways \cap {"byAttr", "byRow", "long"} = {} => "cells" \notin hurt
  /\ ways \cap {"byRowsetAttr", "byOption", "refused", "noStatus"} = {} => "status" \notin hurt
=============================================================================
