----------------------------- MODULE StmtAttrs ------------------------------
(***************************************************************************)
(* Statement attributes and descriptors: who owns a descriptor, which one  *)
(* a statement uses, and where the value of an attribute is kept, with the *)
(* driver or with the driver manager, for drivers of ODBC 2 and 3.         *)
(*                                                                         *)
(* Its specification is AttrsSpec, so that StmtDataProofs can take it      *)
(* beside StmtTexts.                                                       *)
(*                                                                         *)
(* One connection.  A descriptor is explicit (SQLAllocHandle) or implicit, *)
(* one for each slot of a statement.  Calls do not overlap (HandleCalls    *)
(* has the interleavings).                                                 *)
(***************************************************************************)
EXTENDS Naturals, FiniteSets

CONSTANTS Stmts,      \* statement handles
          Explicit,   \* descriptors of SQLAllocHandle
          Tuned,      \* the statement whose attribute values are followed
          Values,     \* values of an attribute
          None,       \* no handle
          MaxOddities \* bound: the kinds of oddities of one behaviour

ASSUME TunedAssumption == Tuned \in Stmts
ASSUME MaxOdditiesAssumption == MaxOddities \in Nat

DescSlots == {"row", "param"}           \* SQL_ATTR_APP_ROW_DESC, SQL_ATTR_APP_PARAM_DESC
Implicit == Stmts \X DescSlots          \* STMT_t.imp_desc

ASSUME DescAssumption == Explicit \cap Implicit = {} /\ None \notin Explicit \cup Implicit

(* Attributes by the way they take: the driver's in either version; kept by *)
(* the driver manager for an ODBC 2 driver; statement options of ODBC 2;    *)
(* and a driver's own, which are set as an option and read as an attribute. *)
Attrs == {"odbc3", "kept", "option", "own"}
Default == "default"

VARIABLES
  driver,    \* [ver, setOption, attr]: its version, has it SQLSetStmtOption, SQLSet/GetStmtAttr?
  conn,      \* "connected" or "allocated"
  stmt,      \* statement -> "free", "live" or "dropped"
  owner,     \* DESC_t.hstmt of a statement's implicit descriptors
  imp,       \* implicit descriptor -> "none", "live" or "freed"
  desc,      \* STMT_t.desc: statement, slot -> a descriptor, or None
  mem,       \* explicit descriptor -> "none", "live" or "freed"
  hdesc,     \* DBC_t.hdesc: the explicit descriptors of the connection
  dmVal,     \* attribute of Tuned -> the driver manager's value
  drvVal,    \* attribute of Tuned -> the driver's value
  asked,     \* attribute of Tuned -> the last value set with success
  fault,     \* what went wrong in memory
  oddities   \* what the application did (Oddities)

descVars == <<owner, imp, desc, mem, hdesc>>
attrVars == <<dmVal, drvVal, asked>>
allVars == <<driver, conn, stmt, descVars, attrVars, fault, oddities>>

(* A descriptor freed while a statement uses it, an implicit descriptor     *)
(* freed or lent to another statement, a descriptor kept when its           *)
(* connection goes, or asked of a connection without a driver; parameter    *)
(* options of an ODBC 2 driver, or half of them.                            *)
Oddities == {"freedInUse", "freedImplicit", "lentImplicit", "outlived", "unconnected",
             "byFunction", "half"}
Faults == {"staleRead", "doubleFree", "noDriver"}

Live == {s \in Stmts : stmt[s] = "live"}
Alive(d) == IF d \in Implicit THEN imp[d] = "live" ELSE mem[d] = "live"
Everywhere(v) == [a \in Attrs |-> v]

AttrsInit ==
  /\ driver \in [ver : {2, 3}, setOption : BOOLEAN]
  /\ driver.ver = 2 => driver.setOption
  /\ conn = "connected"
  /\ stmt = [s \in Stmts |-> "free"] /\ owner = [s \in Stmts |-> None]
  /\ imp = [i \in Implicit |-> "none"]
  /\ desc = [s \in Stmts |-> [l \in DescSlots |-> None]]
  /\ mem = [d \in Explicit |-> "none"] /\ hdesc = {}
  /\ dmVal = Everywhere(Default) /\ drvVal = Everywhere(Default) /\ asked = Everywhere(Default)
  /\ fault = {} /\ oddities = {}

(***************************************************************************)
(* Handles.                                                                *)
(***************************************************************************)
(* The implicit descriptors of an ODBC 2 driver's statement name the        *)
(* statement; those of an ODBC 3 driver name what the application's         *)
(* variable held before the call.                                           *)
OwnerNoted(s) ==
  IF driver.ver = 2 THEN {s} ELSE {None} \cup {t \in Stmts : stmt[t] # "free"}

SQLAllocStmt(s) ==
  /\ conn = "connected" /\ stmt[s] = "free"
  /\ stmt' = [stmt EXCEPT ![s] = "live"]
  /\ \E o \in OwnerNoted(s) : owner' = [owner EXCEPT ![s] = o]
  /\ imp' = [i \in Implicit |-> IF i[1] = s THEN "live" ELSE imp[i]]
  /\ UNCHANGED <<driver, conn, desc, mem, hdesc, attrVars, fault, oddities>>

(* Mutant: the descriptors in use are freed as well. *)
FreedUsed(gone) ==
  {i \in Implicit : i[1] \in gone} \cup ({desc[s][l] : s \in gone, l \in DescSlots} \ {None})

(* _iodbcdm_dropstmt frees the implicit descriptors, whoever uses them. *)
FreedWith(gone) == {i \in Implicit : i[1] \in gone}

Dropped(gone) ==
  /\ stmt' = [s \in Stmts |-> IF s \in gone THEN "dropped" ELSE stmt[s]]
  /\ imp' = [i \in Implicit |-> IF i \in FreedWith(gone) THEN "freed" ELSE imp[i]]
  /\ mem' = [d \in Explicit |-> IF d \in FreedWith(gone) THEN "freed" ELSE mem[d]]
  /\ desc' = [s \in Stmts |-> IF s \in gone THEN [l \in DescSlots |-> None] ELSE desc[s]]
  /\ fault' = fault \cup (IF \E d \in FreedWith(gone) : ~Alive(d) THEN {"doubleFree"} ELSE {})

SQLFreeStmt(s) ==
  /\ stmt[s] = "live" /\ Dropped({s})
  /\ UNCHANGED <<driver, conn, owner, hdesc, attrVars, oddities>>

(* The state of the connection is not asked: without a driver its           *)
(* environment is read through a null pointer.                              *)
SQLAllocDesc(d) ==
  /\ mem[d] = "none"
  /\ IF conn = "connected"
     THEN /\ driver.ver = 3
          /\ mem' = [mem EXCEPT ![d] = "live"] /\ hdesc' = hdesc \cup {d}
          /\ UNCHANGED <<fault, oddities>>
     ELSE /\ fault' = fault \cup {"noDriver"} /\ oddities' = oddities \cup {"unconnected"}
          /\ UNCHANGED <<mem, hdesc>>
  /\ UNCHANGED <<driver, conn, stmt, owner, imp, desc, attrVars>>

(* IS_VALID_HSTMT of the statement a descriptor names: a dropped statement  *)
(* is read after it was freed, and may still look like one.                 *)
NamesStmt(d) ==
  IF d \notin Implicit \/ owner[d[1]] = None THEN {FALSE}
  ELSE IF stmt[owner[d[1]]] = "live" THEN {TRUE} ELSE BOOLEAN

(* The walk over the descriptors of the connection. *)
Unlisted(d) == hdesc \ {d}

(* SQLFreeHandle frees the memory of the handle whatever the answer was,    *)
(* also when it refused an implicit descriptor or did not find it.          *)
SQLFreeDesc(d) ==
  /\ Alive(d)
  /\ IF d \in Implicit
     THEN imp' = [imp EXCEPT ![d] = "freed"] /\ UNCHANGED <<mem, hdesc>>
     ELSE /\ mem' = [mem EXCEPT ![d] = "freed"] /\ hdesc' = Unlisted(d)
          /\ UNCHANGED imp
  /\ fault' = fault \cup (IF conn # "connected" THEN {"noDriver"} ELSE {})
  /\ oddities' = oddities \cup (IF d \in Implicit THEN {"freedImplicit"} ELSE {})
                \cup (IF \E s \in Live, l \in DescSlots : desc[s][l] = d THEN {"freedInUse"} ELSE {})
  /\ UNCHANGED <<driver, conn, stmt, owner, desc, attrVars>>

(* Disconnecting drops the statements; the descriptors stay. *)
SQLDisconnect ==
  /\ conn = "connected"
  /\ conn' = "allocated" /\ Dropped(Live)
  /\ oddities' = IF hdesc # {} THEN oddities \cup {"outlived"} ELSE oddities
  /\ UNCHANGED <<driver, owner, hdesc, attrVars>>

(* Any call on a descriptor (SQLGetDescField, SQLSetDescRec ...) goes to    *)
(* the driver through the connection.                                       *)
DescCall(d) ==
  /\ d \in Explicit /\ mem[d] = "live"
  /\ fault' = fault \cup (IF conn # "connected" THEN {"noDriver"} ELSE {})
  /\ UNCHANGED <<driver, conn, stmt, descVars, attrVars, oddities>>

(***************************************************************************)
(* SQLSetStmtAttr and SQLGetStmtAttr: descriptors.                         *)
(***************************************************************************)
HasSetAttr == driver.ver = 3

ResetDesc(s, l) ==
  /\ HasSetAttr
  /\ desc' = [desc EXCEPT ![s][l] = None]
  /\ UNCHANGED <<owner, imp, mem, hdesc, fault, oddities>>

(* HY017 when the descriptor is an implicit one of a statement. *)
TakeDesc(s, l, d) ==
  /\ HasSetAttr /\ Alive(d) /\ d # <<s, l>>
  /\ FALSE \in NamesStmt(d)
  /\ desc' = [desc EXCEPT ![s][l] = d]
  /\ oddities' = IF d \in Implicit THEN oddities \cup {"lentImplicit"} ELSE oddities
  /\ UNCHANGED <<owner, imp, mem, hdesc, fault>>

SetDesc ==
  \E s \in Live, l \in DescSlots :
    /\ ResetDesc(s, l) \/ \E d \in Explicit \cup Implicit : TakeDesc(s, l, d)
    /\ UNCHANGED <<driver, conn, stmt, attrVars>>

(* The descriptor answered is the one taken, as long as it looks valid. *)
GetDesc ==
  \E s \in Live, l \in DescSlots :
    /\ fault' = fault \cup
         (IF \/ desc[s][l] # None /\ ~Alive(desc[s][l])
             \/ desc[s][l] = None /\ imp[<<s, l>>] = "freed" THEN {"staleRead"} ELSE {})
    /\ UNCHANGED <<driver, conn, stmt, descVars, attrVars, oddities>>

(***************************************************************************)
(* SQLSetStmtAttr and SQLGetStmtAttr: values.                              *)
(***************************************************************************)
KeepsItself(a) == a = "kept" /\ driver.ver = 2

(* Can the driver take the attribute, with the function the code calls?  *)
Settable(a) ==
  CASE a = "odbc3"  -> driver.ver = 3
    [] a = "kept"   -> TRUE
    [] a = "option" -> TRUE
    [] a = "own"    -> driver.setOption

SetAttr ==
  \E a \in Attrs, v \in Values, accepted \in BOOLEAN :
    /\ Tuned \in Live /\ Settable(a)
    /\ KeepsItself(a) => accepted
    /\ IF ~accepted THEN UNCHANGED attrVars
       ELSE /\ asked' = [asked EXCEPT ![a] = v]
            /\ IF KeepsItself(a)
               THEN dmVal' = [dmVal EXCEPT ![a] = v] /\ UNCHANGED drvVal
               ELSE drvVal' = [drvVal EXCEPT ![a] = v] /\ UNCHANGED dmVal
    /\ UNCHANGED <<driver, conn, stmt, descVars, fault, oddities>>

(* SQLParamOptions: the number of parameter sets and the place of their     *)
(* count, by the driver's own function or, to an ODBC 3 driver, as two      *)
(* attributes, of which the second may be refused (half).  An ODBC 2        *)
(* driver's are the ones the driver manager keeps for SQLSetStmtAttr, and   *)
(* its copy stays as it was.                                                *)
ParamOptions(v, end) ==
  /\ Tuned \in Live /\ (end = "half" => driver.ver = 3)
  /\ drvVal' = IF end = "refused" THEN drvVal ELSE [drvVal EXCEPT !["kept"] = v]
  /\ asked' = IF end = "done" THEN [asked EXCEPT !["kept"] = v] ELSE asked
  /\ oddities' = oddities \cup (IF end = "half" THEN {"half"} ELSE {})
                \cup (IF end = "done" /\ driver.ver = 2 THEN {"byFunction"} ELSE {})
  /\ UNCHANGED <<driver, conn, stmt, descVars, dmVal, fault>>

SQLParamOptions == \E v \in Values, end \in {"done", "half", "refused"} : ParamOptions(v, end)

(* Mutant: the driver manager's copy is read for every driver. *)
ReadCopy(a) == IF a = "kept" THEN dmVal[a] ELSE drvVal[a]

(* What is answered: a driver of ODBC 2 has no SQLGetStmtAttr. *)
Unanswered == "IM001"
Read(a) ==
  CASE KeepsItself(a) -> dmVal[a]
    [] a \in {"odbc3", "own"} /\ driver.ver = 2 -> Unanswered
    [] OTHER -> drvVal[a]

AttrsNext ==
  /\ \/ \E s \in Stmts : SQLAllocStmt(s) \/ SQLFreeStmt(s)
     \/ \E d \in Explicit : SQLAllocDesc(d) \/ DescCall(d)
     \/ \E d \in Explicit \cup Implicit : SQLFreeDesc(d)
     \/ SQLDisconnect \/ SetDesc \/ GetDesc \/ SetAttr \/ SQLParamOptions
  /\ Cardinality(oddities') <= MaxOddities

AttrsSpec == AttrsInit /\ [][AttrsNext]_allVars

AttrsTypeOK ==
  /\ driver \in [ver : {2, 3}, setOption : BOOLEAN]
  /\ conn \in {"connected", "allocated"}
  /\ stmt \in [Stmts -> {"free", "live", "dropped"}]
  /\ owner \in [Stmts -> Stmts \cup {None}]
  /\ imp \in [Implicit -> {"none", "live", "freed"}]
  /\ desc \in [Stmts -> [DescSlots -> Explicit \cup Implicit \cup {None}]]
  /\ mem \in [Explicit -> {"none", "live", "freed"}]
  /\ hdesc \subseteq Explicit
  /\ {dmVal, drvVal, asked} \subseteq [Attrs -> Values \cup {Default}]
  /\ fault \subseteq Faults /\ oddities \subseteq Oddities

(***************************************************************************)
(* Properties.                                                             *)
(***************************************************************************)
(* The list of the connection is the live explicit descriptors, so that     *)
(* freeing one finds it and walks over live ones; and the descriptors a     *)
(* statement uses are live, however statements that share one are dropped:  *)
(* dropping a statement frees its implicit descriptors only, and nobody     *)
(* else uses those unless it was lent one.                                  *)
DescriptorsLive ==
  /\ hdesc = {d \in Explicit : mem[d] = "live"}
  /\ oddities \cap {"freedInUse", "freedImplicit", "lentImplicit"} = {} =>
       /\ \A s \in Live, l \in DescSlots : desc[s][l] # None => Alive(desc[s][l])
       /\ fault \cap {"staleRead", "doubleFree"} = {}

(* What SQLGetStmtAttr answers is what SQLSetStmtAttr or SQLParamOptions    *)
(* last accepted, from whichever of the two copies, unless parameter        *)
(* options went past the copy or were refused half way.                     *)
ReadsWhatWasSet ==
  oddities \cap {"byFunction", "half"} = {} =>
    \A a \in Attrs : asked[a] # Default => Read(a) \in {asked[a], Unanswered}

=============================================================================
