---------------------------- MODULE Environments ----------------------------
(***************************************************************************)
(* What the driver manager keeps for an environment, and for the process.  *)
(*                                                                         *)
(* SQLDataSources and SQLDrivers keep one list and one position for all    *)
(* environments of the process.  The connection pooling asked for is the   *)
(* process's, the one in force that of the environment's allocation.  The  *)
(* version an environment asked for is told to a driver once, when the     *)
(* driver's environment is made, and that one lives as long as a           *)
(* connection, or a pooled one, refers to it: the connection of one handle *)
(* of one environment ("main") is followed, through SQLBrowseConnect with  *)
(* its rounds, SQLConnect, the pool and failed loads.                      *)
(***************************************************************************)
EXTENDS Naturals, FiniteSets, SequencesExt

CONSTANTS
  Main,       \* the environment whose connection is followed
  Others,     \* other environments of the process
  Names,      \* names of data sources, or of drivers; numbers, in their order
  Room,       \* names that fill buffer[4096], into which a section is read
  MaxEntries, \* entries the list has room for (half of MAX_ENTRIES)
  Unset,      \* no version
  MaxPool,    \* bound: connections in the pool
  MaxRefs,    \* bound: references to the driver's environment
  MaxEdits    \* bound: changes another program makes to the files

ASSUME EnvironmentsAssumption ==
  /\ Main \notin Others
  /\ Names \subseteq Nat \ {0} /\ IsFiniteSet(Names) /\ Unset \notin {2, 3}
  /\ Room \in Nat /\ MaxEntries \in Nat
  /\ MaxPool \in Nat /\ MaxRefs \in Nat /\ MaxEdits \in Nat

Genvs == {Main} \cup Others
Scopes == {"user", "system"}
Directions == {"FIRST", "NEXT", "FIRST_USER", "FIRST_SYSTEM"}

VARIABLES
  what,       \* followed: "sources" (SQLDataSources), "drivers" (SQLDrivers)
              \* or the "connection", which share nothing (bounds the model)
  files,      \* scope -> name -> the value of its entry, or "none"
  edits,      \* changes made to them by another program
  list,       \* sect: sequence of <<name, scope>>
  cur_entry,  \* the position in it, -1 before the first call
  loop,       \* the enumeration that is followed (history)
  alive,      \* the environments that are allocated
  pooling,    \* _iodbcdm_attr_connection_pooling # SQL_CP_OFF
  odbc_ver,   \* of Main, Unset after SQLAllocHandle
  pools,      \* Main's connection_pooling, when it was allocated
  state,      \* Main's connection handle
  henv,       \* does it refer to the driver's environment?
  dhdbc,      \* has it a driver connection?
  cp,         \* is that one of the pool?
  pdbc_pool,  \* the free connections of the pool
  refcount,   \* of the driver's environment
  told,       \* the version told to it, Unset if there is none
  kept,       \* a pooled connection or a failed load has kept it (history)
  changed     \* another version was asked for while it was kept (history)

tables == <<what, files, edits, list, cur_entry, loop>>
envs == <<alive, pooling, odbc_ver, pools>>
conn == <<state, henv, dhdbc, cp, pdbc_pool, refcount, told, kept, changed>>
vars == <<tables, envs, conn>>

NoLoop == [due |-> {}, whole |-> FALSE, got |-> <<>>, ended |-> TRUE]
States == {"none", "allocated", "needdata", "connected"}

(* What is left of the name the buffer ends in.                            *)
Cut == 0
Entries == (Names \cup {Cut}) \X Scopes

TypeOK ==
  /\ what \in {"sources", "drivers", "connection"} /\ edits \in 0 .. MaxEdits
  /\ files \in [Scopes -> [Names -> {"none", "Installed", "other"}]]
  /\ list \in Seq(Entries) /\ cur_entry \in {-1} \cup (0 .. Len(list))
  /\ alive \subseteq Genvs /\ pooling \in BOOLEAN /\ odbc_ver \in {2, 3, Unset} /\ pools \in BOOLEAN
  /\ state \in States /\ {henv, dhdbc, cp, kept, changed} \subseteq BOOLEAN
  /\ pdbc_pool \in 0 .. MaxPool /\ refcount \in 0 .. MaxRefs /\ told \in {2, 3, Unset}

Init ==
  /\ what \in {"sources", "drivers", "connection"}
  /\ files \in [Scopes -> [Names -> {"none", "Installed", "other"}]]
  /\ \A s \in Scopes, n \in Names :   \* bounds the model: values where they matter
       /\ what = "connection" => files[s][n] = "none"
       /\ files[s][n] = "other" => what = "drivers" /\ s = "user"
  /\ edits = 0 /\ list = <<>> /\ cur_entry = -1 /\ loop = NoLoop
  /\ alive = {} /\ pooling = FALSE /\ odbc_ver = Unset /\ pools = FALSE
  /\ state = "none" /\ henv = FALSE /\ dhdbc = FALSE /\ cp = FALSE
  /\ pdbc_pool = 0 /\ refcount = 0 /\ told = Unset /\ kept = FALSE /\ changed = FALSE

-----------------------------------------------------------------------------
(* SQLDataSources and SQLDrivers.                                          *)

Section(s) == {n \in Names : files[s][n] # "none"}

(* The first so many of a file's entries; in which order it has them is    *)
(* left open.                                                              *)
FirstOf(entries, room) ==
  {e \in SUBSET entries : Cardinality(e) = Min({room, Cardinality(entries)})}

(* The names read of a section.  When they fill the buffer it has no end:  *)
(* the last of them may be cut, and what follows it on the stack read.     *)
Read(s) ==
  {names \cup end : names \in FirstOf(Section(s), Room),
                    end \in SUBSET (IF Cardinality(Section(s)) < Room THEN {} ELSE {Cut})}

(* SQLDrivers looks for installed drivers.                                 *)
Listed(s, names) ==
  {<<n, s>> : n \in {m \in names : what = "drivers" => m # Cut /\ files[s][m] = "Installed"}}

(* Mutant: an entry of the user does not hide the system's.                *)
Listable(l, entries) == entries

(* The entries of the system's whose names are not in the list.            *)
Lacked(l, entries) == {e \in entries : <<e[1], "user">> \notin l}

(* FIRST reads the user's file, then what it lacks of the system's; a NEXT *)
(* before any other call reads the user's only.  The rest is skipped when  *)
(* the list is full.                                                       *)
Found(fDir) ==
  LET users == UNION {FirstOf(Listed("user", names), MaxEntries) : names \in Read("user")}
      And(l) == UNION {{l \cup e : e \in FirstOf(Lacked(l, Listed("system", names)),
                                               MaxEntries - Cardinality(l))}
                         : names \in Read("system")} IN
  CASE fDir = "FIRST" -> UNION {And(l) : l \in users}
    [] fDir = "FIRST_SYSTEM" -> And({})
    [] OTHER -> users

(* In the order of their names. *)
Sorted(entries) ==
  CHOOSE s \in [1 .. Cardinality(entries) -> entries] :
    IsInjective(s) /\ \A i, j \in DOMAIN s : i < j => s[i][1] <= s[j][1]

Rebuilds(fDir) == fDir # "NEXT" \/ cur_entry = -1

Lists(fDir) ==
  IF Rebuilds(fDir) THEN {Sorted(found) : found \in Found(fDir)} ELSE {list}

StartsAt(fDir) == IF Rebuilds(fDir) THEN 0 ELSE cur_entry

(* What an enumeration is to answer, and whether the buffer takes the      *)
(* names of the files it reads with an end; history for the property.      *)
Due(fDir) ==
  LET In(s) == {e \in Entries : /\ e[2] = s /\ e[1] \in Section(s)
                                /\ what = "drivers" => files[s][e[1]] = "Installed"} IN
  CASE fDir = "FIRST" ->
         {e \in Entries : \/ e \in In("user")
                          \/ e \in In("system") /\ ~ \E f \in In("user") : f[1] = e[1]}
    [] fDir = "FIRST_USER" -> In("user")
    [] fDir = "FIRST_SYSTEM" -> In("system")

Whole(fDir) ==
  \A s \in Scopes : \/ Cardinality(Section(s)) < Room
                    \/ fDir = "FIRST_USER" /\ s = "system"
                    \/ fDir = "FIRST_SYSTEM" /\ s = "user"

(* An enumeration is followed from its FIRST to the end, whichever         *)
(* environments call.                                                      *)
Follow(fDir, l, at) ==
  LET more == IF at < Len(l) THEN <<l[at + 1]>> ELSE <<>> IN
  loop' = CASE fDir # "NEXT" ->
                 [due |-> Due(fDir), whole |-> Whole(fDir), got |-> more, ended |-> more = <<>>]
            [] fDir = "NEXT" /\ ~loop.ended ->
                 [loop EXCEPT !.got = @ \o more, !.ended = more = <<>>]
            [] OTHER -> NoLoop

(* One call: the entry at the position, or at the end SQL_NO_DATA_FOUND,   *)
(* after which a NEXT begins again on the same list.                       *)
Enumerate(fDir) ==
  \E l \in Lists(fDir) :
    /\ list' = l
    /\ cur_entry' = IF StartsAt(fDir) >= Len(l) THEN 0 ELSE StartsAt(fDir) + 1
    /\ Follow(fDir, l, StartsAt(fDir))
    /\ UNCHANGED <<what, files, edits>>

(* There is no memory for a new list: the old one is gone. *)
NoMemory(fDir) ==
  /\ Rebuilds(fDir)
  /\ list' = <<>> /\ cur_entry' = 0 /\ loop' = NoLoop
  /\ UNCHANGED <<what, files, edits>>

SQLDataSources_Internal(fDir) == what = "sources" /\ (Enumerate(fDir) \/ NoMemory(fDir))

SQLDrivers_Internal(fDir) ==
  what = "drivers" /\ fDir \in {"FIRST", "NEXT"} /\ (Enumerate(fDir) \/ NoMemory(fDir))

(* By any environment: none of this is kept by environment.  A wide        *)
(* function whose malloc fails returns without LEAVE_HENV, with the global *)
(* lock: nothing happens in the process after that, and it is left out.    *)
SQLDataSources == alive # {} /\ \E d \in Directions : SQLDataSources_Internal(d)

SQLDrivers == alive # {} /\ \E d \in Directions : SQLDrivers_Internal(d)

(* Another program changes an entry between two calls. *)
Edit ==
  \E s \in Scopes, n \in Names, v \in {"none", "Installed"} :
    /\ what # "connection" /\ edits < MaxEdits /\ edits' = edits + 1
    /\ files' = [files EXCEPT ![s][n] = v]
    /\ UNCHANGED <<what, list, cur_entry, loop>>

-----------------------------------------------------------------------------
(* Environments.                                                           *)

(* SQLAllocEnv asks for version 2; SQLAllocHandle leaves it to             *)
(* SQLSetEnvAttr.                                                          *)
AllocEnv(g, ver) ==
  /\ g \notin alive /\ alive' = alive \cup {g}
  /\ IF g = Main THEN odbc_ver' = ver /\ pools' = pooling
     ELSE UNCHANGED <<odbc_ver, pools>>
  /\ UNCHANGED <<pooling, conn>>

(* The connections of the pool go with the environment. *)
FreeEnv(g) ==
  /\ g \in alive /\ (g = Main => state = "none")
  /\ alive' = alive \ {g}
  /\ IF g # Main THEN UNCHANGED <<odbc_ver, pools, conn>>
     ELSE /\ odbc_ver' = Unset /\ pools' = FALSE
          /\ pdbc_pool' = 0 /\ refcount' = 0 /\ told' = Unset /\ kept' = FALSE /\ changed' = FALSE
          /\ UNCHANGED <<state, henv, dhdbc, cp>>
  /\ UNCHANGED <<pooling>>

(* HY010 while the environment has a connection handle. *)
SetVersion(ver) ==
  /\ Main \in alive /\ state = "none"
  /\ odbc_ver' = ver
  /\ changed' = (changed \/ (kept /\ ver # odbc_ver))
  /\ UNCHANGED <<alive, pooling, pools, state, henv, dhdbc, cp, pdbc_pool, refcount, told, kept>>

(* Of the process, by any environment without a connection handle, or by   *)
(* none.                                                                   *)
SetPooling(on) ==
  /\ pooling' = on
  /\ UNCHANGED <<alive, odbc_ver, pools, conn>>

SQLSetEnvAttr == (\E v \in {2, 3} : SetVersion(v)) \/ (\E on \in BOOLEAN : SetPooling(on))

(* SQLGetEnvAttr answers the process's pooling, whatever is in force.      *)
SQLGetEnvAttr(attr) == IF attr = "version" THEN odbc_ver ELSE pooling

-----------------------------------------------------------------------------
(* The connection.                                                         *)

(* SQLAllocConnect takes an environment without a version for version 2;   *)
(* SQLAllocHandle refuses it.                                              *)
AllocConnect ==
  /\ Main \in alive /\ state = "none" /\ state' = "allocated"
  /\ odbc_ver' = IF odbc_ver = Unset THEN 2 ELSE odbc_ver
  /\ UNCHANGED <<alive, pooling, pools, henv, dhdbc, cp, pdbc_pool, refcount, told, kept, changed>>

(* Mutant: a handle whose connect failed leaves the driver loaded. *)
UnreferencedIfConnected(n) == IF state = "connected" THEN n - 1 ELSE n

(* One reference less; the last one frees the driver's environment. *)
Unreferenced(n) == n - 1

Unloaded ==
  /\ refcount' = Unreferenced(refcount)
  /\ told' = IF refcount' = 0 THEN Unset ELSE told
  /\ dhdbc' = FALSE

FreeConnect ==
  /\ state = "allocated" /\ state' = "none" /\ henv' = FALSE
  /\ IF dhdbc THEN Unloaded ELSE UNCHANGED <<refcount, told, dhdbc>>
  /\ UNCHANGED <<envs, cp, pdbc_pool, kept, changed>>

(* _iodbcdm_driverload.  For a handle that still refers to the driver's    *)
(* environment, from a connect that failed or a connection that was        *)
(* closed, nothing is allocated, counted or told, not even when it has no  *)
(* driver connection.                                                      *)
Load ==
  IF henv THEN UNCHANGED <<henv, dhdbc, refcount, told>>
  ELSE /\ refcount < MaxRefs /\ refcount' = refcount + 1
       /\ henv' = TRUE /\ dhdbc' = TRUE
       /\ told' = IF told = Unset THEN odbc_ver ELSE told

(* The driver's SQLAllocConnect fails: its environment stays, and the      *)
(* handle refers to it.                                                    *)
LoadFails ==
  /\ state = "allocated" /\ ~henv
  /\ henv' = TRUE /\ kept' = TRUE
  /\ told' = IF told = Unset THEN odbc_ver ELSE told
  /\ UNCHANGED <<envs, state, dhdbc, cp, pdbc_pool, refcount, changed>>

Becomes(to) == state' = to /\ UNCHANGED <<envs, cp, pdbc_pool, kept, changed>>

(* The driver's answer.  It is called with its connection, and refuses the *)
(* null handle it is given if there is none.                               *)
Answers == IF dhdbc' THEN {"needdata", "connected", "allocated"} ELSE {"allocated"}

(* SQLBrowseConnect: round after round, until the driver is connected or   *)
(* answers an error, after which the driver stays loaded.                  *)
BrowseConnect ==
  /\ state \in {"allocated", "needdata"}
  /\ IF state = "allocated" THEN Load ELSE UNCHANGED <<henv, dhdbc, refcount, told>>
  /\ \E to \in Answers : Becomes(to)

(* The driver has no SQLBrowseConnect: it is unloaded, and the handle      *)
(* still refers to its environment.                                        *)
NoBrowseConnect ==
  /\ state = "allocated" /\ dhdbc /\ Unloaded
  /\ UNCHANGED henv /\ Becomes("allocated")

SQLConnect ==
  /\ state = "allocated" /\ Load
  /\ \E to \in Answers \ {"needdata"} : Becomes(to)

(* A connection of the pool that matches is copied over the handle: a      *)
(* driver connection left by a connect that failed is forgotten with its   *)
(* reference.                                                              *)
ConnectFromPool ==
  /\ state = "allocated" /\ pools /\ pdbc_pool > 0
  /\ state' = "connected" /\ henv' = TRUE /\ dhdbc' = TRUE /\ cp' = TRUE
  /\ pdbc_pool' = pdbc_pool - 1
  /\ UNCHANGED <<envs, refcount, told, kept, changed>>

(* SQLDisconnect ends the rounds of SQLBrowseConnect too. *)
Disconnect ==
  /\ state \in {"needdata", "connected"}
  /\ state = "connected" => ~cp /\ ~pools
  /\ UNCHANGED <<henv, dhdbc, refcount, told>> /\ Becomes("allocated")

(* The connection goes into the pool with its reference. *)
DisconnectToPool ==
  /\ state = "connected" /\ (cp \/ pools) /\ pdbc_pool < MaxPool
  /\ state' = "allocated" /\ henv' = FALSE /\ dhdbc' = FALSE /\ cp' = FALSE
  /\ pdbc_pool' = pdbc_pool + 1 /\ kept' = TRUE
  /\ UNCHANGED <<envs, refcount, told, changed>>

Connection ==
  /\ what = "connection"
  /\ \/ AllocConnect \/ FreeConnect \/ LoadFails \/ BrowseConnect \/ NoBrowseConnect
     \/ SQLConnect \/ ConnectFromPool \/ Disconnect \/ DisconnectToPool

Environment ==
  (\E g \in Genvs : (\E v \in {2, Unset} : AllocEnv(g, v)) \/ FreeEnv(g)) \/ SQLSetEnvAttr

Next ==
  \/ (SQLDataSources \/ SQLDrivers \/ Edit) /\ UNCHANGED <<envs, conn>>
  \/ (Environment \/ Connection) /\ UNCHANGED tables

Spec == Init /\ [][Next]_vars

-----------------------------------------------------------------------------
(* SQLGetFunctions.  A driver exports the functions of ODBC 2 that ODBC 3  *)
(* kept ("older"), and some of: those only ODBC 3 has, SQLBindParameter,   *)
(* SQLBindParam, SQLGetFunctions, SQLExtendedFetch and SQLSetPos (paging). *)

Exportable == {"newer", "BindParameter", "BindParam", "GetFunctions", "paging"}

(* "own": SQLDataSources, SQLDrivers, SQLGetEnvAttr, SQLSetEnvAttr;        *)
(* "mapped": functions of ODBC 3 the driver manager maps for an ODBC 2     *)
(* driver, "mappedPaging" those it maps to SQLExtendedFetch, SQLSetPos.    *)
Functions == {"own", "mapped", "mappedPaging", "older", "newer", "BindParam", "SetParam"}

(* The scan of the driver's exports, if it has no SQLGetFunctions; an      *)
(* honest driver's answer, if it has.                                      *)
Exported(f, exports) ==
  IF f = "SetParam" THEN "BindParameter" \in exports /\ "GetFunctions" \notin exports
  ELSE f = "older" \/ (IF f \in {"mapped", "mappedPaging"} THEN "newer" ELSE f) \in exports

GetFunctions(ver, f, exports) ==
  CASE f = "own" -> TRUE
    [] ver = 2 /\ f \in {"mapped", "mappedPaging"} -> TRUE
    [] ver = 2 /\ f = "BindParam" -> "BindParameter" \in exports
    [] ver = 2 /\ f = "newer" -> FALSE
    [] OTHER -> Exported(f, exports)

(* The driver's function SQLBindParameter calls: SQLBindParam for an input *)
(* parameter if the driver has it, unless the application is of ODBC 2 and *)
(* SQLBindParameter will do.                                               *)
SQLBindParameter_Internal(app, ver, type, exports) ==
  LET two == app = 2 /\ (ver = 2 \/ "BindParameter" \in exports) IN
  IF type = "input" /\ "BindParam" \in exports /\ ~two THEN "BindParam"
  ELSE IF "BindParameter" \in exports THEN "BindParameter" ELSE "IM001"

SQLBindParam(app, ver, exports) == SQLBindParameter_Internal(app, ver, "input", exports)
SQLSetParam(app, ver, exports) == SQLBindParameter_Internal(app, ver, "inout", exports)

(* Does a call of the function reach the driver (else IM001)? *)
Reaches(app, ver, f, exports) ==
  CASE f = "own" -> TRUE
    [] f = "BindParam" -> SQLBindParam(app, ver, exports) # "IM001"
    [] f = "SetParam" -> SQLSetParam(app, ver, exports) # "IM001"
    [] f = "mapped" /\ ver = 2 -> TRUE
    [] f = "mappedPaging" /\ ver = 2 -> "paging" \in exports
    [] OTHER -> Exported(f, exports)

-----------------------------------------------------------------------------
(* An enumeration begun with one of the FIRST and followed with NEXT to    *)
(* the end answers the entries of the scope it asked for once each, in     *)
(* order, the user's for a name both files have, whatever was left in the  *)
(* list by earlier enumerations and whatever another program does to the   *)
(* files meanwhile (cur_entry and sect of SQLDataSources_Internal and      *)
(* SQLDrivers_Internal).  All of them, if the list has room, or else as    *)
(* many as it has, the user's before the system's.  The position is the    *)
(* process's: what is said of one environment's calls with no others       *)
(* between is said of any environments' that take turns, and answer it     *)
(* together.  It is not so where a file's names fill the buffer they are   *)
(* read into, which loses names in silence and may answer one cut off.     *)
EachEntryOnce ==
  loop.whole =>
    /\ \A i, j \in DOMAIN loop.got : i < j => loop.got[i][1] < loop.got[j][1]
    /\ ToSet(loop.got) \subseteq loop.due
    /\ loop.ended =>
         /\ Len(loop.got) = Min({MaxEntries, Cardinality(loop.due)})
         /\ \A e, f \in loop.due :
              e[2] = "system" /\ f[2] = "user" /\ e \in ToSet(loop.got) => f \in ToSet(loop.got)

(* A connection is served by a driver environment that was told the        *)
(* version its application asks for: the version may change only between   *)
(* connections, and the driver's environment goes with the last of them,   *)
(* also after rounds of SQLBrowseConnect that failed and connects that are *)
(* tried again (SQLSetEnvAttr, _iodbcdm_driverload,                        *)
(* _iodbcdm_driverunload).  The one way to a driver that was told another  *)
(* version is to ask for another while a connection in the pool, or a load *)
(* that failed, keeps the driver's environment.                            *)
VersionTold ==
  state \in {"needdata", "connected"} /\ told # odbc_ver => changed

(* What SQLGetFunctions says is there can be called, for a driver of       *)
(* either version, whatever it exports.  Not claimed: SQLFetchScroll and   *)
(* SQLBulkOperations of an ODBC 2 driver, said to be there although they   *)
(* need functions it may lack.                                             *)
FunctionsReach ==
  \A f \in Functions, exports \in SUBSET Exportable, app, ver \in {2, 3} :
    ~(ver = 2 /\ f = "mappedPaging") /\ GetFunctions(ver, f, exports) =>
      Reaches(app, ver, f, exports)
=============================================================================
