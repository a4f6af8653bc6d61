------------------------------ MODULE ConnPool ------------------------------
(***************************************************************************)
(* The connection pool of an environment handle: SQLConnect and            *)
(* SQLDriverConnect look for a connection in it (_iodbcdm_pool_get_conn),  *)
(* SQLDisconnect and a failed reconnect put one back                       *)
(* (_iodbcdm_pool_put_conn), and connections past their expiry time are    *)
(* dropped by the walk that meets them (_iodbcdm_pool_drop_conn).          *)
(*                                                                         *)
(* Handles are the application's connection handles, with their            *)
(* call-in-progress flag; a thread is named by the handle it is on.  Nodes *)
(* are the addresses of the DBC_t of the pool.  A link is a connection of  *)
(* the driver (dhdbc).  The pool is walked with the global lock held,      *)
(* which is released around every connect and disconnect of the driver.    *)
(*                                                                         *)
(* All data sources use one driver, loaded throughout (module DriverLoad). *)
(* Whether a pooled connection still works is left open: the driver may    *)
(* report a connected link dead or alive.                                  *)
(***************************************************************************)
EXTENDS Integers, FiniteSets, SequencesExt

CONSTANTS
  Handles, Nodes, Links,
  Sources,     \* the connection parameters and attributes that have to match
  Null,
  Idle,        \* the target of a link that is allocated and not connected
  Liberties,   \* what a careless application and a poor driver do
  Asked        \* bound: the sources such an application asks for

(* "adjacent": neighbours in the pool expire before a walk drops the first;*)
(* "walk": threads look for connections while another drops one;           *)
(* "switch": a handle that kept the parameters of a connect that failed, or*)
(* of a closed connection, asks for others;                                *)
(* "noload": the driver fails to load, or to allocate a connection;        *)
(* "silent": the driver does not report an unconnected link as dead.       *)
AllLiberties == {"adjacent", "walk", "switch", "noload", "silent"}

ASSUME PoolAssumption ==
  /\ Null \notin Handles \cup Nodes \cup Links \cup Sources \cup {Idle}
  /\ Handles \cap Nodes = {} /\ Idle \notin Sources
  /\ Liberties \subseteq AllLiberties /\ Asked \subseteq Sources

Conns == Handles \cup Nodes

VARIABLES
  lock,     \* the handle whose thread keeps the global lock, or Null
  valid,    \* the handles that are allocated
  pool,     \* genv->pdbc_pool
  key,      \* cp_dsn, cp_uid, cp_pwd, cp_connstr
  link,     \* dhdbc
  open,     \* state, connected or allocated
  retry,    \* cp_retry_wait: none, in the future, or past
  inUse,    \* cp_in_use
  due,      \* cp_expiry_time is past
  cp,       \* cp_pdbc
  call,     \* where each handle's thread is
  want,     \* the source it is connected or connecting to
  cur,      \* cp_pdbc of the walk
  prev,     \* cp_pdbc_prev of the walk
  target,   \* what the driver's links are connected to
  fault,    \* "freed": freed memory was used; "assert": an assertion failed
  liberties \* what this application and this driver do at will

walk == <<cur, prev>>
nodes == <<inUse, due>>
vars == <<lock, valid, pool, key, link, open, retry, nodes, cp, call, want, walk, target, fault,
          liberties>>

InPool(n) == \E i \in DOMAIN pool : pool[i] = n
May(liberty) == liberty \in liberties

(* The application and the driver take all the liberties or none.          *)
Init ==
  /\ liberties \in {{}, Liberties}
  /\ lock = Null /\ valid = {} /\ pool = <<>>
  /\ key = [c \in Conns |-> Null] /\ link = key
  /\ open = [c \in Conns |-> FALSE] /\ retry = [c \in Conns |-> "no"]
  /\ inUse = [n \in Nodes |-> FALSE] /\ due = inUse
  /\ cp = [h \in Handles |-> Null] /\ want = cp /\ cur = cp /\ prev = cp
  /\ call = [h \in Handles |-> "none"]
  /\ target = [l \in Links |-> Null] /\ fault = "none"

-----------------------------------------------------------------------------
(* Putting a connection into the pool.                                      *)

(* A link that is freed, or that nothing refers to any more.               *)
Gone(l) == IF l = Null THEN target ELSE [target EXCEPT ![l] = Null]

(* Mutant: the link stays with the source too. *)
CopyShares(dst, src, state, wait) ==
  /\ key' = [key EXCEPT ![dst] = key[src], ![src] = Null]
  /\ link' = [link EXCEPT ![dst] = link[src]]
  /\ open' = [open EXCEPT ![dst] = open[src], ![src] = state]
  /\ retry' = [retry EXCEPT ![dst] = wait, ![src] = wait]
  /\ target' = Gone(link[dst])

(* _iodbcdm_pool_copy_conn: the key, link and state of src go to dst, and  *)
(* src is left without a key and a link.  A link dst had is lost.          *)
Copy(dst, src, state, wait) ==
  /\ key' = [key EXCEPT ![dst] = key[src], ![src] = Null]
  /\ link' = [link EXCEPT ![dst] = link[src], ![src] = Null]
  /\ open' = [open EXCEPT ![dst] = open[src], ![src] = state]
  /\ retry' = [retry EXCEPT ![dst] = wait, ![src] = wait]
  /\ target' = Gone(link[dst])

(* A node next to one that is due does not become due before it is dropped,*)
(* for an application without the liberty.                                 *)
MayExpire(n, list) ==
  May("adjacent") \/ \A i \in 1..(Len(list) - 1) :
    /\ list[i] = n => ~due[list[i + 1]]
    /\ list[i + 1] = n => ~due[list[i]]

(* _iodbcdm_pool_put_conn on node n, new or borrowed before.  With a retry *)
(* wait the expiry time is not set: it is what it was, and in a new node   *)
(* it was never set.                                                       *)
Put(h, n, wait) ==
  /\ pool' = IF cp[h] = Null THEN <<n>> \o pool ELSE pool
  /\ Copy(n, h, FALSE, wait)
  /\ inUse' = [inUse EXCEPT ![n] = FALSE]
  /\ \E late \in BOOLEAN :
       /\ due' = [due EXCEPT ![n] = late]
       /\ wait = "no" => ~late
       /\ wait # "no" /\ cp[h] # Null => late = due[n]
       /\ late => MayExpire(n, pool')
  /\ cp' = [cp EXCEPT ![h] = Null]

(* The end: of a connect that failed with a borrowed node. *)
GiveBack(h) == \E wait \in {"waiting", "over"} : Put(h, cp[h], wait)

-----------------------------------------------------------------------------
(* SQLConnect and SQLDriverConnect: the walk.                              *)

Place(n) == CHOOSE i \in DOMAIN pool : pool[i] = n

After(n) == IF Place(n) = Len(pool) THEN Null ELSE pool[Place(n) + 1]

Connect(h, s) ==
  /\ fault = "none" /\ lock = Null
  /\ h \in valid /\ call[h] = "none" /\ ~open[h]
  /\ May("switch") \/ key[h] \in {Null, s}
  /\ May("walk") \/ \A g \in Handles : call[g] # "drop"
  /\ lock' = h /\ call' = [call EXCEPT ![h] = "walk"]
  /\ want' = [want EXCEPT ![h] = s]
  /\ cur' = [cur EXCEPT ![h] = IF pool = <<>> THEN Null ELSE Head(pool)]
  /\ prev' = [prev EXCEPT ![h] = Null]
  /\ UNCHANGED <<valid, pool, key, link, open, retry, nodes, cp, target, fault>>

(* The walk of h is at a node. *)
At(h, n) == /\ fault = "none" /\ lock = h /\ call[h] = "walk"
            /\ cur[h] = n /\ n # Null

(* The walk of h goes on after node n. *)
Onward(h, n) == /\ cur' = [cur EXCEPT ![h] = After(n)]
                /\ prev' = [prev EXCEPT ![h] = n]

(* The walk is over. *)
Stop(h) == /\ cur' = [cur EXCEPT ![h] = Null]
           /\ prev' = [prev EXCEPT ![h] = Null]

(* Mutant: the parameters are not compared. *)
MatchesAny(h, n) == InPool(n) /\ ~inUse[n] /\ ~due[n]

Matches(h, n) == InPool(n) /\ ~inUse[n] /\ ~due[n] /\ key[n] = want[h]

Skip(h, n) ==
  /\ At(h, n) /\ InPool(n)
  /\ inUse[n] \/ (~due[n] /\ key[n] # want[h])
  /\ Onward(h, n)
  /\ UNCHANGED <<lock, valid, pool, key, link, open, retry, nodes, cp, call, want, target, fault>>

(* _iodbcdm_pool_drop_conn; a node without a driver is dropped with the    *)
(* lock held.                                                              *)
Expired(h, n) ==
  /\ At(h, n) /\ InPool(n) /\ ~inUse[n] /\ due[n]
  /\ prev[h] = Null \/ InPool(prev[h])
  /\ pool' = RemoveAt(pool, Place(n))
  /\ Onward(h, n)
  /\ call' = [call EXCEPT ![h] = "drop"]
  /\ lock' = IF link[n] = Null THEN h ELSE Null
  /\ UNCHANGED <<valid, key, link, open, retry, nodes, cp, want, target, fault>>

(* The walk reads a node that another thread freed, or writes to the one   *)
(* it dropped itself just before.                                          *)
TouchFreed(h, n) ==
  /\ At(h, n)
  /\ \/ ~InPool(n)
     \/ ~inUse[n] /\ due[n] /\ prev[h] # Null /\ ~InPool(prev[h])
  /\ fault' = "freed"
  /\ UNCHANGED <<lock, valid, pool, key, link, open, retry, nodes, cp, call, want, walk, target>>

(* The driver disconnected the link and freed it; or it did not, the node  *)
(* is still connected and SQLFreeConnect_Internal refuses it: the node is  *)
(* freed then too, and its link lost.                                      *)
Dropped(h) ==
  LET n == prev[h] IN
  /\ fault = "none" /\ lock \in {h, Null} /\ call[h] = "drop"
  /\ lock' = h /\ call' = [call EXCEPT ![h] = "walk"]
  /\ target' = Gone(link[n])
  /\ key' = [key EXCEPT ![n] = Null] /\ link' = [link EXCEPT ![n] = Null]
  /\ open' = [open EXCEPT ![n] = FALSE] /\ retry' = [retry EXCEPT ![n] = "no"]
  /\ due' = [due EXCEPT ![n] = FALSE]
  /\ UNCHANGED <<valid, pool, inUse, cp, want, walk, fault>>

-----------------------------------------------------------------------------
(* SQLConnect and SQLDriverConnect: what the walk ends with.               *)

(* _iodbcdm_driverload succeeds: the handle has a link, old or new, and    *)
(* the driver's connect is called without the lock.                        *)
Load(h) ==
  /\ \/ link[h] # Null /\ UNCHANGED <<link, target>>
     \/ /\ link[h] = Null
        /\ \E l \in Links : /\ \A c \in Conns : link[c] # l
                            /\ target' = [target EXCEPT ![l] = Idle]
                            /\ link' = [link EXCEPT ![h] = l]
  /\ call' = [call EXCEPT ![h] = "connect"]
  /\ UNCHANGED want

(* It fails: SQLConnect returns at once, SQLDriverConnect puts a borrowed  *)
(* node back.                                                              *)
NoLoad(h) ==
  /\ May("noload")
  /\ call' = [call EXCEPT ![h] = "none"]
  /\ want' = [want EXCEPT ![h] = Null]
  /\ UNCHANGED <<link, target>>

(* The retry wait of a node that matches is not over: 08004, and the       *)
(* handle is put on the node.                                              *)
Refused(h, n) ==
  /\ At(h, n) /\ Matches(h, n) /\ retry[n] = "waiting"
  /\ \E wait \in {"waiting", "over"} :
       /\ Copy(n, h, FALSE, wait) /\ UNCHANGED <<pool, nodes>>
  /\ cp' = [cp EXCEPT ![h] = Null]
  /\ lock' = Null /\ call' = [call EXCEPT ![h] = "none"] /\ Stop(h)
  /\ want' = [want EXCEPT ![h] = Null]
  /\ UNCHANGED <<valid, fault>>

(* _iodbcdm_pool_conn_dead, by the driver's SQL_ATTR_CONNECTION_DEAD. *)
SeemsDead(n) == link[n] # Null /\ (target[link[n]] # Idle \/ ~May("silent"))
SeemsAlive(n) == ~(link[n] # Null /\ target[link[n]] = Idle /\ ~May("silent"))

(* Mutant: a reconnect does not reserve the node. *)
DeadUnreserved(h, n) ==
  /\ At(h, n) /\ Matches(h, n) /\ retry[n] # "waiting" /\ SeemsDead(n)
  /\ retry' = [retry EXCEPT ![n] = "no"]
  /\ cp' = [cp EXCEPT ![h] = n]
  /\ Load(h) /\ lock' = Null /\ Stop(h)
  /\ UNCHANGED <<valid, pool, key, open, nodes, fault>>

Dead(h, n) ==
  /\ At(h, n) /\ Matches(h, n) /\ retry[n] # "waiting" /\ SeemsDead(n)
  /\ retry' = [retry EXCEPT ![n] = "no"]
  /\ cp' = [cp EXCEPT ![h] = n] /\ inUse' = [inUse EXCEPT ![n] = TRUE]
  /\ Load(h) \/ NoLoad(h)
  /\ lock' = Null /\ Stop(h)
  /\ UNCHANGED <<valid, pool, key, open, due, fault>>

Got(h, n) ==
  /\ At(h, n) /\ Matches(h, n) /\ retry[n] # "waiting" /\ SeemsAlive(n)
  /\ key' = [key EXCEPT ![h] = key[n], ![n] = Null]
  /\ link' = [link EXCEPT ![h] = link[n], ![n] = Null]
  /\ open' = [open EXCEPT ![h] = TRUE]
  /\ retry' = [retry EXCEPT ![h] = "no", ![n] = "no"]
  /\ target' = Gone(link[h])
  /\ cp' = [cp EXCEPT ![h] = n] /\ inUse' = [inUse EXCEPT ![n] = TRUE]
  /\ lock' = Null /\ call' = [call EXCEPT ![h] = "none"] /\ Stop(h)
  /\ UNCHANGED <<valid, pool, due, want, fault>>

(* Nothing matches: the parameters are kept, unless the handle still has a *)
(* node borrowed.                                                          *)
Missed(h) ==
  /\ fault = "none" /\ lock = h /\ call[h] = "walk" /\ cur[h] = Null
  /\ key' = IF cp[h] = Null THEN [key EXCEPT ![h] = want[h]] ELSE key
  /\ Load(h) \/ NoLoad(h)
  /\ lock' = Null /\ Stop(h)
  /\ UNCHANGED <<valid, pool, open, retry, nodes, cp, fault>>

-----------------------------------------------------------------------------
(* The driver's connect, and the other calls on a handle.                  *)

Connected(h) ==
  /\ fault = "none" /\ lock = Null /\ call[h] = "connect"
  /\ open' = [open EXCEPT ![h] = TRUE]
  /\ target' = [target EXCEPT ![link[h]] = want[h]]
  /\ call' = [call EXCEPT ![h] = "none"]
  /\ UNCHANGED <<lock, valid, pool, key, link, retry, nodes, cp, want, walk, fault>>

ConnectFails(h) ==
  /\ fault = "none" /\ lock = Null /\ call[h] = "connect"
  /\ call' = [call EXCEPT ![h] = "none"]
  /\ IF cp[h] = Null
       THEN UNCHANGED <<pool, key, link, open, retry, nodes, cp, target>>
       ELSE GiveBack(h)
  /\ want' = [want EXCEPT ![h] = Null]
  /\ UNCHANGED <<lock, valid, walk, fault>>

Dropping == {prev[h] : h \in {g \in Handles : call[g] = "drop"}}

(* SQLDisconnect of a connection that goes to the pool: on the node it was *)
(* borrowed from, or on a new one.                                         *)
DisconnectToPool(h) ==
  /\ fault = "none" /\ lock = Null /\ call[h] = "none" /\ open[h]
  /\ \/ cp[h] # Null /\ Put(h, cp[h], retry[h])
     \/ /\ cp[h] = Null
        /\ \E n \in Nodes : ~InPool(n) /\ n \notin Dropping /\ Put(h, n, retry[h])
  /\ want' = [want EXCEPT ![h] = Null]
  /\ UNCHANGED <<lock, valid, call, walk, fault>>

(* SQLDisconnect of a connection without CPTimeout. *)
Disconnect(h) ==
  /\ fault = "none" /\ lock = Null /\ call[h] = "none" /\ open[h] /\ cp[h] = Null
  /\ call' = [call EXCEPT ![h] = "disconnect"]
  /\ UNCHANGED <<lock, valid, pool, key, link, open, retry, nodes, cp, want, walk, target, fault>>

DisconnectReturns(h) ==
  /\ fault = "none" /\ lock = Null /\ call[h] = "disconnect"
  /\ call' = [call EXCEPT ![h] = "none"]
  /\ \/ UNCHANGED <<open, want, target>>
     \/ /\ open' = [open EXCEPT ![h] = FALSE]
        /\ want' = [want EXCEPT ![h] = Null]
        /\ target' = IF link[h] = Null THEN target
                     ELSE [target EXCEPT ![link[h]] = Idle]
  /\ UNCHANGED <<lock, valid, pool, key, link, retry, nodes, cp, walk, fault>>

AllocConnect(h) ==
  /\ fault = "none" /\ lock = Null /\ h \notin valid
  /\ valid' = valid \cup {h}
  /\ UNCHANGED <<lock, pool, key, link, open, retry, nodes, cp, call, want, walk, target, fault>>

FreeConnect(h) ==
  /\ fault = "none" /\ lock = Null
  /\ h \in valid /\ call[h] = "none" /\ ~open[h]
  /\ valid' = valid \ {h}
  /\ target' = Gone(link[h])
  /\ key' = [key EXCEPT ![h] = Null] /\ link' = [link EXCEPT ![h] = Null]
  /\ retry' = [retry EXCEPT ![h] = "no"]
  /\ cp' = [cp EXCEPT ![h] = Null]
  /\ UNCHANGED <<lock, pool, open, nodes, call, want, walk, fault>>

(* SQLFreeEnv drops what is in the pool, and asserts that it is not in use;*)
(* the driver disconnects or the link is lost.                             *)
FreeEnv ==
  /\ fault = "none" /\ lock = Null /\ valid = {} /\ pool # <<>>
  /\ fault' = IF \E n \in Nodes : InPool(n) /\ inUse[n] THEN "assert" ELSE fault
  /\ pool' = <<>>
  /\ target' = [l \in Links |-> Null]
  /\ key' = [c \in Conns |-> Null] /\ link' = key'
  /\ open' = [c \in Conns |-> FALSE] /\ retry' = [c \in Conns |-> "no"]
  /\ due' = [n \in Nodes |-> FALSE] /\ inUse' = due'
  /\ UNCHANGED <<lock, valid, cp, call, want, walk>>

(* Time.  (A walk compares with the time of its beginning, so no node      *)
(* becomes due for it on the way.)                                         *)
Expire(n) ==
  /\ fault = "none" /\ lock = Null /\ \A h \in Handles : call[h] # "drop"
  /\ InPool(n) /\ ~due[n] /\ MayExpire(n, pool)
  /\ due' = [due EXCEPT ![n] = TRUE]
  /\ UNCHANGED <<lock, valid, pool, key, link, open, retry, inUse, cp, call, want, walk, target, fault>>

RetryWaitOver(c) ==
  /\ fault = "none" /\ lock = Null /\ retry[c] = "waiting"
  /\ retry' = [retry EXCEPT ![c] = "over"]
  /\ UNCHANGED <<lock, valid, pool, key, link, open, nodes, cp, call, want, walk, target, fault>>

Step ==
  \/ \E h \in Handles :
       \/ \E s \in (IF liberties = {} THEN Sources ELSE Asked) : Connect(h, s)
       \/ \E n \in Nodes :
            \/ Skip(h, n) \/ Expired(h, n) \/ TouchFreed(h, n)
            \/ Refused(h, n) \/ Dead(h, n) \/ Got(h, n)
       \/ Dropped(h) \/ Missed(h) \/ Connected(h) \/ ConnectFails(h)
       \/ DisconnectToPool(h) \/ Disconnect(h) \/ DisconnectReturns(h)
       \/ AllocConnect(h) \/ FreeConnect(h)
  \/ FreeEnv
  \/ \E n \in Nodes : Expire(n)
  \/ \E c \in Conns : RetryWaitOver(c)

Next == Step /\ UNCHANGED liberties

Spec == Init /\ [][Next]_vars

-----------------------------------------------------------------------------
(* A driver's connection belongs to one handle or one pooled connection,   *)
(* whatever the application and the driver do.                             *)
OneOwner ==
  \A c, d \in Conns : c # d /\ link[c] # Null => link[c] # link[d]

(* What the pool needs its application for is stated of careful ones.      *)
Careful == liberties = {}

(* A connection handle that is connected is connected to the data source   *)
(* its application asked for, whatever pooled connections, failures and    *)
(* reconnects it went through.                                             *)
ConnectedToAsked ==
  Careful => \A h \in Handles :
    open[h] => link[h] # Null /\ target[link[h]] = want[h]

(* A pooled connection is in use exactly while one handle has borrowed it, *)
(* which is what the assertion of _iodbcdm_pool_drop_conn rests on; no     *)
(* walk of the pool reads or writes one that has been freed, by itself or  *)
(* by another thread while the lock was released, and SQLFreeEnv finds     *)
(* none in use.                                                            *)
BorrowedOnce ==
  Careful =>
    /\ fault = "none"
    /\ \A n \in Nodes : InPool(n) =>
         Cardinality({h \in Handles : cp[h] = n}) = IF inUse[n] THEN 1 ELSE 0
=============================================================================
