---------------------------- MODULE ConnOptions ----------------------------
(***************************************************************************)
(* The attributes and the transactions of the connections of one           *)
(* environment.  An attribute set before the connection is made is         *)
(* recorded in the handle and given to the driver afterwards; one set      *)
(* later goes to the driver at once, and is recorded only if it is one of  *)
(* two.  SQLDisconnect puts the driver's connection into the pool with     *)
(* what was recorded, and the next SQLConnect compares that with what its  *)
(* own application recorded.  (What makes a pooled connection's data       *)
(* source match, expire or die is in ConnPool.)                            *)
(***************************************************************************)
EXTENDS Naturals, FiniteSets

CONSTANTS
  Handles,     \* connection handles of the application
  Conns,       \* connections of the driver
  NoConn, Nobody,
  Left,        \* the owner of a transaction whose application has disconnected
  Pooled,      \* those to the data source with CPTimeout > 0, pooling being on
  Strict,      \* SQL_CP_STRICT_MATCH
  MaxSets      \* bound: attributes the application sets

(* driver: an attribute of the driver's own (SQL_CONNECT_OPT_DRVR_START).  *)
(* access_mode is treated like autocommit, quiet_mode like                 *)
(* current_qualifier, login_timeout like packet_size.                      *)
Attrs == {"autocommit", "txn_isolation", "current_qualifier", "packet_size", "driver"}
Values == {0, 1}      \* 0 is the default
Default == [a \in Attrs |-> 0]

ASSUME ConnAssumption == NoConn \notin Conns /\ {Nobody, Left} \cap Handles = {}
ASSUME SettingAssumption ==
  Strict \in BOOLEAN /\ Pooled \subseteq Conns /\ MaxSets \in Nat

VARIABLES
  state,    \* pdbc->state: "allocated", "connected" or "hstmt"
  opts,     \* access_mode .. txn_isolation and drvopt of DBC_t
  link,     \* the driver's connection behind dhdbc
  stmts,    \* "none", "idle" or "busy" (needdata or executing)
  cp,       \* cp_pdbc # NULL
  pool,     \* the free connections of pdbc_pool and what they recorded
  val,      \* the driver's attributes of each connection
  tx,       \* whose transaction is open on it
  asked,    \* what the application last set with success
  spoiled,  \* <<connection, attribute>> refused by the driver once, or set
            \* while connected without being recorded
  keeps,    \* the handles with a driver's environment (pdbc->henv # NULL)
  lost,     \* those whose driver attribute was last set without being recorded
  sets,     \* attributes set so far
  last,     \* what SQLTransact was for and did, if that was the last step
  hung      \* a thread that holds the lock is in a loop without end

early == <<keeps, lost>>
optionsVars ==
  <<state, opts, link, stmts, cp, pool, val, tx, asked, spoiled, early, sets, last, hung>>

(* Recorded whatever the state; the others only before the connection is   *)
(* made.                                                                   *)
Always == {"autocommit"}
(* Given again to a pooled connection that recorded another value.         *)
Renewed == {"autocommit", "txn_isolation", "current_qualifier"}

NoTransact == [scope |-> {}, failed |-> {}, ok |-> FALSE]
Entry == [conn : Conns, opts : [Attrs -> Values]]

OptionsTypeOK ==
  /\ state \in [Handles -> {"allocated", "connected", "hstmt"}]
  /\ opts \in [Handles -> [Attrs -> Values]] /\ asked \in [Handles -> [Attrs -> Values]]
  /\ link \in [Handles -> Conns \cup {NoConn}]
  /\ stmts \in [Handles -> {"none", "idle", "busy"}] /\ cp \in [Handles -> BOOLEAN]
  /\ pool \subseteq Entry /\ val \in [Conns -> [Attrs -> Values]]
  /\ tx \in [Conns -> Handles \cup {Nobody, Left}] /\ spoiled \subseteq Conns \X Attrs
  /\ sets \in 0 .. MaxSets /\ hung \in BOOLEAN
  /\ keeps \subseteq Handles /\ lost \subseteq Handles
  /\ last \in [scope : SUBSET Handles, failed : SUBSET Handles, ok : BOOLEAN]

OptionsInit ==
  /\ state = [h \in Handles |-> "allocated"]
  /\ opts = [h \in Handles |-> Default] /\ asked = opts
  /\ link = [h \in Handles |-> NoConn] /\ stmts = [h \in Handles |-> "none"]
  /\ cp = [h \in Handles |-> FALSE] /\ pool = {}
  /\ val = [c \in Conns |-> Default] /\ tx = [c \in Conns |-> Nobody]
  /\ spoiled = {} /\ keeps = {} /\ lost = {}
  /\ sets = 0 /\ last = NoTransact /\ hung = FALSE

-----------------------------------------------------------------------------
Connected(h) == state[h] # "allocated"
Busy(h) == stmts[h] = "busy"
Free(c) == (\A h \in Handles : link[h] # c) /\ (\A p \in pool : p.conn # c)

(* A driver's own attribute is stored for a handle that never had a        *)
(* driver; behind a connection or a failed connect it is not, and the      *)
(* answer is success all the same.                                         *)
Remembers(h, a) ==
  \/ a \in Always
  \/ ~Connected(h) /\ (a = "driver" => h \notin keeps)

(* An attribute set before the connection is made. *)
SetEarly(h, a, v) ==
  /\ ~Connected(h)
  /\ asked' = [asked EXCEPT ![h][a] = v]
  /\ lost' = IF Remembers(h, a) THEN lost ELSE lost \cup {h}
  /\ UNCHANGED <<val, spoiled, tx>>

(* One set on a connection goes to the driver, which may refuse it;        *)
(* switching autocommit on ends the transaction.                           *)
SetOnDriver(h, a, v) ==
  /\ Connected(h) /\ ~Busy(h)
  /\ val' = [val EXCEPT ![link[h]][a] = v]
  /\ asked' = [asked EXCEPT ![h][a] = v]
  /\ spoiled' = IF a \in Always THEN spoiled ELSE spoiled \cup {<<link[h], a>>}
  /\ tx' = IF a = "autocommit" /\ v = 0 THEN [tx EXCEPT ![link[h]] = Nobody] ELSE tx
  /\ UNCHANGED lost

(* _iodbcdm_SetConnectOption, when it does not answer an error.            *)
SetConnectOption(h, a, v) ==
  /\ ~hung /\ sets < MaxSets
  /\ sets' = sets + 1
  /\ (SetEarly(h, a, v) \/ SetOnDriver(h, a, v))
  /\ opts' = IF Remembers(h, a) THEN [opts EXCEPT ![h][a] = v] ELSE opts
  /\ UNCHANGED <<state, link, stmts, cp, pool, keeps, hung>>
  /\ last' = NoTransact

(* _iodbcdm_GetConnectOption: the driver's value, or before the connection *)
(* is made what was recorded, of a few attributes (else 08003).            *)
Readable(h, a) == Connected(h) \/ a \in Always
GetConnectOption(h, a) == IF Connected(h) THEN val[link[h]][a] ELSE opts[h][a]

-----------------------------------------------------------------------------
(* Mutant: a qualifier of the pooled connection the application has not    *)
(* set is no obstacle.                                                     *)
MatchesLoosely(o, p) == Strict => o["packet_size"] = p["packet_size"]

(* _iodbcdm_pool_check_attr_match.                                         *)
Matches(o, p) ==
  /\ Strict => o["packet_size"] = p["packet_size"]
  /\ o["current_qualifier"] = 0 => p["current_qualifier"] = 0

(* _iodbcdm_pool_reset_conn_attrs: what the pooled connection records.     *)
RenewedOpts(o, p) ==
  [a \in Attrs |->
     IF a \in Renewed /\ (a = "current_qualifier" => o[a] # 0) THEN o[a] ELSE p[a]]

(* What the driver is given: what differs, less what it refuses.           *)
Given(v, from, to, refused) ==
  [a \in Attrs |-> IF from[a] # to[a] /\ a \notin refused THEN to[a] ELSE v[a]]

(* Bound: a driver refuses at most one attribute of a connect. *)
Refusals == {{}} \cup {{a} : a \in Attrs}

Link(h, c) ==
  /\ state' = [state EXCEPT ![h] = "connected"]
  /\ link' = [link EXCEPT ![h] = c]
  /\ stmts' = [stmts EXCEPT ![h] = "none"]
  /\ keeps' = keeps \cup {h}

(* A connection of the pool (_iodbcdm_pool_get_conn): its record, with the *)
(* application's values over it, becomes that of the handle.               *)
ConnectFromPool(h, p, refused) ==
  /\ ~hung /\ ~Connected(h)
  /\ p \in pool /\ Matches(opts[h], p.opts)
  /\ refused \subseteq {a \in Renewed : opts[h][a] # p.opts[a]}
  /\ LET new == RenewedOpts(opts[h], p.opts) IN
       /\ opts' = [opts EXCEPT ![h] = new]
       /\ val' = [val EXCEPT ![p.conn] = Given(@, p.opts, new, refused)]
  /\ Link(h, p.conn)
  /\ pool' = pool \ {p} /\ cp' = [cp EXCEPT ![h] = TRUE]
  /\ spoiled' = spoiled \cup ({p.conn} \X refused)
  /\ UNCHANGED <<tx, asked, lost, sets, hung>>
  /\ last' = NoTransact

(* A new connection: the driver's own attributes before it is made         *)
(* (_iodbcdm_driverload), the rest after (_iodbcdm_dbcdelayset).           *)
ConnectFresh(h, c, refused) ==
  /\ ~hung /\ ~Connected(h) /\ Free(c)
  /\ c \in Pooled => \A p \in pool : ~Matches(opts[h], p.opts)
  /\ refused \subseteq {a \in Attrs : opts[h][a] # 0}
  /\ val' = [val EXCEPT ![c] = Given(Default, Default, opts[h], refused)]
  /\ Link(h, c)
  /\ cp' = [cp EXCEPT ![h] = FALSE] /\ tx' = [tx EXCEPT ![c] = Nobody]
  /\ spoiled' = {s \in spoiled : s[1] # c} \cup ({c} \X refused)
  /\ UNCHANGED <<opts, pool, asked, lost, sets, hung>>
  /\ last' = NoTransact

(* The driver is loaded and refuses the connection. *)
ConnectFails(h) ==
  /\ ~hung /\ ~Connected(h)
  /\ keeps' = keeps \cup {h}
  /\ UNCHANGED <<state, opts, link, stmts, cp, pool, val, tx, asked, spoiled, lost, sets, hung>>
  /\ last' = NoTransact

-----------------------------------------------------------------------------
(* The handle after SQLDisconnect: what it recorded is there for the next  *)
(* connection, what was only set on the driver is not.                     *)
Unlink(h, o) ==
  /\ state' = [state EXCEPT ![h] = "allocated"]
  /\ link' = [link EXCEPT ![h] = NoConn]
  /\ stmts' = [stmts EXCEPT ![h] = "none"]
  /\ cp' = [cp EXCEPT ![h] = FALSE]
  /\ opts' = [opts EXCEPT ![h] = o] /\ asked' = [asked EXCEPT ![h] = o]
  /\ lost' = lost \ {h}

(* _iodbcdm_pool_put_conn: current_qualifier, drvopt and the environment   *)
(* go with the driver's connection.                                        *)
PutIntoPool(h) ==
  /\ stmts[h] = "none" /\ link[h] \in Pooled
  /\ pool' = pool \cup {[conn |-> link[h], opts |-> opts[h]]}
  /\ Unlink(h, [opts[h] EXCEPT !["driver"] = 0, !["current_qualifier"] = 0])
  /\ tx' = [tx EXCEPT ![link[h]] = IF @ = Nobody THEN Nobody ELSE Left]
  /\ keeps' = keeps \ {h}
  /\ UNCHANGED hung

(* With a statement left, _iodbcdm_dropstmt looks for it in the list of    *)
(* the handle it was allocated on, which is empty by now, and the loop     *)
(* that drops the pooled connection's statements never ends.               *)
PutHangs(h) ==
  /\ stmts[h] # "none" /\ link[h] \in Pooled
  /\ hung' = TRUE
  /\ UNCHANGED <<state, opts, link, stmts, cp, pool, tx, asked, early>>

(* The driver refuses to disconnect with a transaction open.               *)
DisconnectDriver(h) ==
  /\ link[h] \notin Pooled /\ tx[link[h]] = Nobody
  /\ Unlink(h, opts[h])
  /\ UNCHANGED <<pool, tx, keeps, hung>>

SQLDisconnect(h) ==
  /\ ~hung /\ Connected(h) /\ ~Busy(h)
  /\ (PutIntoPool(h) \/ PutHangs(h) \/ DisconnectDriver(h))
  /\ UNCHANGED <<val, spoiled, sets>>
  /\ last' = NoTransact

-----------------------------------------------------------------------------
AllocStmt(h) ==
  /\ ~hung /\ Connected(h) /\ stmts[h] = "none"
  /\ state' = [state EXCEPT ![h] = "hstmt"]
  /\ stmts' = [stmts EXCEPT ![h] = "idle"]
  /\ UNCHANGED <<opts, link, cp, pool, val, tx, asked, spoiled, early, sets, hung>>
  /\ last' = NoTransact

(* Mutant: the connection forgets it had statements. *)
DropStmtAndState(h) ==
  /\ ~hung /\ stmts[h] = "idle"
  /\ state' = [state EXCEPT ![h] = "connected"]
  /\ stmts' = [stmts EXCEPT ![h] = "none"]
  /\ UNCHANGED <<opts, link, cp, pool, val, tx, asked, spoiled, early, sets, hung>>
  /\ last' = NoTransact

(* _iodbcdm_dropstmt leaves pdbc->state at en_dbc_hstmt.                   *)
DropStmt(h) ==
  /\ ~hung /\ stmts[h] = "idle"
  /\ stmts' = [stmts EXCEPT ![h] = "none"]
  /\ UNCHANGED <<state, opts, link, cp, pool, val, tx, asked, spoiled, early, sets, hung>>
  /\ last' = NoTransact

(* The driver executes: with autocommit off a transaction is open then.    *)
Execute(h) ==
  /\ ~hung /\ stmts[h] # "none"
  /\ stmts' \in {[stmts EXCEPT ![h] = s] : s \in {"idle", "busy"}}
  /\ tx' = IF val[link[h]]["autocommit"] = 1 THEN [tx EXCEPT ![link[h]] = h] ELSE tx
  /\ UNCHANGED <<state, opts, link, cp, pool, val, asked, spoiled, early, sets, hung>>
  /\ last' = NoTransact

(* _iodbcdm_transact asks the driver: not on a connection that never had a *)
(* statement (it answers success), nor with one that is busy (an error).   *)
Asks(h) == state[h] = "hstmt" /\ ~Busy(h)

Refuses(h) == ~Connected(h) \/ Busy(h)

Ends(scope, failing) == {h \in scope \ failing : Asks(h)}

Succeeds(scope, failing) == failing = {} /\ \A h \in scope : ~Refuses(h)

(* One connection (scope = {h}) or all of the environment: every driver is *)
(* asked, whatever the others answer, and one error is the answer for all. *)
SQLTransact(scope, failing) ==
  /\ ~hung
  /\ failing \subseteq {h \in scope : Asks(h)}
  /\ tx' = [c \in Conns |->
              IF \E h \in Ends(scope, failing) : link[h] = c THEN Nobody ELSE tx[c]]
  /\ last' = [scope |-> scope, failed |-> failing \cup {h \in scope : Refuses(h)},
              ok |-> Succeeds(scope, failing)]
  /\ UNCHANGED <<state, opts, link, stmts, cp, pool, val, asked, spoiled, early, sets, hung>>

-----------------------------------------------------------------------------
OptionsNext ==
  \/ \E h \in Handles :
       \/ \E a \in Attrs, v \in Values : SetConnectOption(h, a, v)
       \/ \E r \in Refusals, p \in pool : ConnectFromPool(h, p, r)
       \/ \E r \in Refusals, c \in Conns : ConnectFresh(h, c, r)
       \/ ConnectFails(h) \/ SQLDisconnect(h) \/ AllocStmt(h) \/ DropStmt(h) \/ Execute(h)
  \/ \E scope \in {Handles} \cup {{h} : h \in Handles}, f \in SUBSET Handles :
       SQLTransact(scope, f)

OptionsSpec == OptionsInit /\ [][OptionsNext]_optionsVars

-----------------------------------------------------------------------------
(* An attribute an application can read back has the value it last set     *)
(* with success, whatever connection of the pool it was given and whatever *)
(* an earlier application set on that connection.  Excepted: an attribute  *)
(* the driver refused once or that was set past the record, on a pooled    *)
(* connection the packet size and the driver's own attributes, which       *)
(* nothing gives again (_iodbcdm_pool_check_attr_match,                    *)
(* _iodbcdm_pool_reset_conn_attrs, _iodbcdm_dbcdelayset), and a driver's   *)
(* attribute set between two connections of a handle: the connection has   *)
(* the value recorded before the first (hdbc.c:372).                       *)
AskedIsSet ==
  \A h \in Handles, a \in Attrs :
    (/\ Readable(h, a)
     /\ Connected(h) => (<<link[h], a>> \notin spoiled /\ (cp[h] => a \in Renewed))) =>
      GetConnectOption(h, a) = IF a = "driver" /\ h \in lost THEN opts[h][a] ELSE asked[h][a]

(* After SQLTransact no transaction its application began is open on any   *)
(* connection it was called for, unless that connection's driver failed or *)
(* it could not be asked: not when the application has dropped every       *)
(* statement since (_iodbcdm_transact asks the driver in the state         *)
(* en_dbc_hstmt only), and not when another connection of the environment  *)
(* failed before.  And success is answered of all of them only.            *)
TransactionEnded ==
  \A h \in last.scope :
    Connected(h) /\ (last.ok \/ h \notin last.failed) => tx[link[h]] # h
=============================================================================
