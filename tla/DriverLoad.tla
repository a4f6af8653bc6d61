----------------------------- MODULE DriverLoad -----------------------------
(***************************************************************************)
(* The drivers of the connections: the libraries of dlproc.c, counted by   *)
(* path, the environments a driver has in each application environment,    *)
(* counted by connection, and the connection handles that refer to them    *)
(* (_iodbcdm_driverload and _iodbcdm_driverunload).                        *)
(*                                                                         *)
(* Both functions run with the global lock held.  SQLConnect and           *)
(* SQLDisconnect release it around the driver's own connect and            *)
(* disconnect, and ENTER_HDBC keeps other threads off the handle, so the   *)
(* calls of different handles interleave there.                            *)
(***************************************************************************)
EXTENDS Integers, FiniteSets, SequencesExt

CONSTANTS
  Handles, Drivers, Genvs, Envs,   \* Envs: the addresses of ENV_t
  GenvOf,       \* the application environment of each connection handle
  Null,
  MaxFailures,  \* bound: how often DLL_OPEN fails
  MaxRefs,      \* bound: the references of a library
  Liberties,    \* what a careless application does
  Careless,     \* bound: the handles of a careless application
  CarelessDrivers  \* bound: and its drivers

(* "switch": connects a handle to one driver after another;                *)
(* "retry": connects a handle again after its driver could not be loaded.  *)
AllLiberties == {"switch", "retry"}

ASSUME LoadAssumption ==
  /\ GenvOf \in [Handles -> Genvs]
  /\ Null \notin Drivers \cup Envs
  /\ MaxFailures \in Nat /\ MaxRefs \in Nat /\ Liberties \subseteq AllLiberties
  /\ Careless \subseteq Handles /\ CarelessDrivers \subseteq Drivers

VARIABLES
  libRefs,   \* dlproc_t.refcount
  libOpen,   \* the drivers whose dlproc_t.dll is open
  safe,      \* the drivers with safe_unload set
  failed,    \* how often DLL_OPEN failed for a driver
  envList,   \* genv->henv, the driver environments of each application one
  live,      \* the environments not freed
  hdll,      \* penv->hdll
  refcount,  \* penv->refcount
  henv,      \* pdbc->henv
  dhdbc,     \* pdbc->dhdbc, by the driver that allocated it
  state,     \* pdbc->state
  call,      \* what each handle's thread is doing in the driver
  asked,     \* the driver of the data source a handle is connected or connecting to
  fault,     \* "freed": freed memory was used; "loop": a walk without end
  liberties  \* what this application does at will

libs == <<libRefs, libOpen, safe, failed>>
envs == <<envList, live, hdll, refcount>>
handles == <<henv, dhdbc, state, call, asked>>
vars == <<libs, envs, handles, fault, liberties>>

(* The application is careful or takes all the liberties.                  *)
Init ==
  /\ liberties \in {{}, Liberties}
  /\ libRefs = [d \in Drivers |-> 0] /\ failed = libRefs
  /\ libOpen = {} /\ safe = {}
  /\ envList = [g \in Genvs |-> <<>>] /\ live = {}
  /\ hdll = [e \in Envs |-> Null] /\ refcount = [e \in Envs |-> 0]
  /\ henv = [h \in Handles |-> Null] /\ dhdbc = henv /\ asked = henv
  /\ state = [h \in Handles |-> "allocated"]
  /\ call = [h \in Handles |-> "none"] /\ fault = "none"

-----------------------------------------------------------------------------
(* The libraries.                                                          *)

Flagged(d, unloadSafe) == IF unloadSafe THEN safe \cup {d} ELSE safe

(* _iodbcdm_dllopen. *)
OpenLib(d, unloadSafe) ==
  /\ libRefs[d] < MaxRefs
  /\ libRefs' = [libRefs EXCEPT ![d] = @ + 1]
  /\ libOpen' = libOpen \cup {d}
  /\ safe' = Flagged(d, unloadSafe)
  /\ UNCHANGED failed

(* Mutant: the library found open is not closed again. *)
ReopenLibKept(d, unloadSafe) == OpenLib(d, unloadSafe)

(* _iodbcdm_dllopen and _iodbcdm_dllclose: the count is what it was. *)
ReopenLib(d, unloadSafe) ==
  /\ safe' = Flagged(d, unloadSafe)
  /\ libOpen' = IF libRefs[d] = 0 /\ d \in safe' THEN libOpen \ {d}
                                                 ELSE libOpen \cup {d}
  /\ UNCHANGED <<libRefs, failed>>

(* Mutant: the library is unloaded with the first environment freed. *)
CloseLibEarly(d) ==
  /\ libRefs' = [libRefs EXCEPT ![d] = @ - 1]
  /\ libOpen' = IF d \in safe THEN libOpen \ {d} ELSE libOpen
  /\ UNCHANGED <<safe, failed>>

(* _iodbcdm_dllclose. *)
CloseLib(d) ==
  /\ libRefs' = [libRefs EXCEPT ![d] = @ - 1]
  /\ libOpen' = IF libRefs[d] = 1 /\ d \in safe THEN libOpen \ {d} ELSE libOpen
  /\ UNCHANGED <<safe, failed>>

-----------------------------------------------------------------------------
(* The environments.                                                       *)

Place(list, e) == CHOOSE i \in DOMAIN list : list[i] = e

(* Mutant: the head of the list is not unlinked. *)
UnlinkedSecond(list, e) == IF Place(list, e) = 2 THEN RemoveAt(list, 2) ELSE list

(* The walk that unlinks an environment advances with penv->next: it looks *)
(* at the head of the list and then at the successor of the environment    *)
(* itself, again and again.                                                *)
Unlinked(list, e) == IF Place(list, e) <= 2 THEN RemoveAt(list, Place(list, e)) ELSE list
WalksForever(list, e) == Place(list, e) > 2 /\ Place(list, e) < Len(list)

(* Bound: the address of a freed environment that a list still holds is    *)
(* not given out again.                                                    *)
Fresh(e) == e \notin live /\ \A g \in Genvs : e \notin ToSet(envList[g])

(* The environment of the driver on this handle's list, and the walk that  *)
(* finds it, or finds none.                                                *)
Found(h, d) ==
  {e \in live : hdll[e] = d /\ \E i \in DOMAIN envList[GenvOf[h]] : envList[GenvOf[h]][i] = e}
WalkIsSafe(h, d) ==
  \A i \in DOMAIN envList[GenvOf[h]] :
    envList[GenvOf[h]][i] \in live \/ \E j \in 1..(i - 1) : envList[GenvOf[h]][j] \in Found(h, d)

(* Driver's SQLAllocConnect for the handle on environment e. *)
AllocDriverConn(h, d, e) ==
  /\ henv' = [henv EXCEPT ![h] = e]
  /\ dhdbc' = [dhdbc EXCEPT ![h] = d]

(* The environment exists on another handle. *)
Shared(h, d, e, unloadSafe) ==
  /\ ReopenLib(d, unloadSafe)
  /\ AllocDriverConn(h, d, e)
  /\ refcount' = [refcount EXCEPT ![e] = @ + 1]
  /\ UNCHANGED <<envList, live, hdll>>

NewEnv(h, d, e, count) ==
  /\ Fresh(e)
  /\ live' = live \cup {e}
  /\ hdll' = [hdll EXCEPT ![e] = d]
  /\ refcount' = [refcount EXCEPT ![e] = count]
  /\ envList' = [envList EXCEPT ![GenvOf[h]] = <<e>> \o @]

(* The first handle of this application environment on the driver. *)
First(h, d, e, unloadSafe) ==
  /\ OpenLib(d, unloadSafe)
  /\ NewEnv(h, d, e, 1)
  /\ AllocDriverConn(h, d, e)

(* Mutant: the handle is counted before the driver allocates for it. *)
NoDriverConnCounted(h, d, e, unloadSafe) ==
  /\ henv' = [henv EXCEPT ![h] = e] /\ UNCHANGED dhdbc
  /\ Found(h, d) = {} /\ OpenLib(d, unloadSafe) /\ NewEnv(h, d, e, 1)

(* The driver's SQLAllocConnect fails: _iodbcdm_driverunload finds no      *)
(* connection to free, and the environment stays.                          *)
NoDriverConn(h, d, e, unloadSafe) ==
  /\ henv' = [henv EXCEPT ![h] = e] /\ UNCHANGED dhdbc
  /\ \/ e \in Found(h, d) /\ ReopenLib(d, unloadSafe) /\ UNCHANGED envs
     \/ Found(h, d) = {} /\ OpenLib(d, unloadSafe) /\ NewEnv(h, d, e, 0)

(* The driver's SQLAllocEnv fails: the environment is freed and the handle *)
(* goes on pointing to it.                                                 *)
NoDriverEnv(h, d, e, unloadSafe) ==
  /\ Found(h, d) = {} /\ Fresh(e)
  /\ ReopenLib(d, unloadSafe)
  /\ henv' = [henv EXCEPT ![h] = e]
  /\ UNCHANGED <<dhdbc, envs>>

(* _iodbcdm_driverunload of a handle that has a driver connection.         *)
Unload(h) ==
  LET e == henv[h]
      g == GenvOf[h] IN
  /\ dhdbc' = [dhdbc EXCEPT ![h] = Null]
  /\ refcount' = [refcount EXCEPT ![e] = @ - 1]
  /\ IF refcount[e] = 1
       THEN /\ CloseLib(hdll[e])
            /\ envList' = [envList EXCEPT ![g] = Unlinked(@, e)]
            /\ fault' = IF WalksForever(envList[g], e) THEN "loop" ELSE fault
            /\ live' = live \ {e}
            /\ hdll' = [hdll EXCEPT ![e] = Null]
       ELSE UNCHANGED <<libs, envList, live, hdll, fault>>

-----------------------------------------------------------------------------
(* SQLConnect: _iodbcdm_driverload, then the driver's own connect without  *)
(* the lock.                                                               *)

Asks(h, d) ==
  /\ fault = "none" /\ call[h] = "none" /\ state[h] = "allocated"
  /\ UNCHANGED state

Goes(h, d) ==
  /\ call' = [call EXCEPT ![h] = "connect"]
  /\ asked' = [asked EXCEPT ![h] = d]

(* The library cannot be opened; the count stays.  With UnloadSafe the     *)
(* flag goes to some entry whose library is not open.                      *)
OpenFails(h, d) ==
  /\ Asks(h, d)
  /\ d \notin libOpen /\ FoldFunction(+, 0, failed) < MaxFailures
  /\ libRefs' = [libRefs EXCEPT ![d] = @ + 1]
  /\ failed' = [failed EXCEPT ![d] = @ + 1]
  /\ \/ UNCHANGED safe
     \/ \E x \in Drivers \ libOpen : libRefs'[x] > 0 /\ safe' = safe \cup {x}
  /\ UNCHANGED <<libOpen, envs, henv, dhdbc, call, asked, fault>>

LoadFirst(h, d) ==
  /\ Asks(h, d) /\ henv[h] = Null /\ WalkIsSafe(h, d)
  /\ \E unloadSafe \in BOOLEAN, e \in Envs :
       \/ e \in Found(h, d) /\ Shared(h, d, e, unloadSafe)
       \/ Found(h, d) = {} /\ First(h, d, e, unloadSafe)
  /\ Goes(h, d) /\ UNCHANGED fault

LoadFails(h, d) ==
  /\ Asks(h, d) /\ henv[h] = Null /\ WalkIsSafe(h, d)
  /\ \E unloadSafe \in BOOLEAN, e \in Envs :
       NoDriverConn(h, d, e, unloadSafe) \/ NoDriverEnv(h, d, e, unloadSafe)
  /\ UNCHANGED <<call, asked, fault>>

(* The handle still has the driver's environment, from a connect that      *)
(* failed or a connection that was closed: nothing is allocated or counted,*)
(* not even when the handle has no driver connection.                      *)
LoadAgain(h, d) ==
  /\ Asks(h, d) /\ henv[h] \in live /\ hdll[henv[h]] = d
  /\ dhdbc[h] = Null => "retry" \in liberties
  /\ \E unloadSafe \in BOOLEAN : ReopenLib(d, unloadSafe)
  /\ Goes(h, d) /\ UNCHANGED <<envs, henv, dhdbc, fault>>

(* The handle has the environment of another driver, which others use too: *)
(* it is given the new library, and the handle no driver connection.       *)
LoadOther(h, d) ==
  LET e == henv[h] IN
  /\ Asks(h, d) /\ "switch" \in liberties
  /\ e \in live /\ hdll[e] # d
  /\ dhdbc[h] = Null \/ refcount[e] > 1
  /\ refcount' = IF dhdbc[h] = Null THEN refcount ELSE [refcount EXCEPT ![e] = @ - 1]
  /\ dhdbc' = [dhdbc EXCEPT ![h] = Null]
  /\ hdll' = [hdll EXCEPT ![e] = d]
  /\ \E unloadSafe \in BOOLEAN : OpenLib(d, unloadSafe)
  /\ Goes(h, d) /\ UNCHANGED <<envList, live, henv, fault>>

(* _iodbcdm_driverload reads or writes an environment that was freed.      *)
LoadFreed(h, d) ==
  /\ Asks(h, d)
  /\ \/ henv[h] = Null /\ ~WalkIsSafe(h, d)
     \/ henv[h] \in Envs \ live /\ "retry" \in liberties
     \/ /\ henv[h] \in live /\ hdll[henv[h]] # d /\ "switch" \in liberties
        /\ dhdbc[h] # Null /\ refcount[henv[h]] = 1
  /\ fault' = "freed"
  /\ UNCHANGED <<libs, envs, henv, dhdbc, call, asked>>

(* The driver's connect and disconnect; after a connect that failed the    *)
(* driver stays loaded, for its error messages.                            *)
Back(h, from, to) ==
  /\ fault = "none" /\ call[h] = from
  /\ call' = [call EXCEPT ![h] = "none"]
  /\ state' = [state EXCEPT ![h] = to]
  /\ asked' = IF to = "connected" THEN asked ELSE [asked EXCEPT ![h] = Null]
  /\ UNCHANGED <<libs, envs, henv, dhdbc, fault>>

ConnectReturns(h) == \E to \in {"allocated", "connected"} : Back(h, "connect", to)

(* The driver has no SQLConnect. *)
NoConnect(h) ==
  /\ fault = "none" /\ call[h] = "connect" /\ dhdbc[h] # Null
  /\ call' = [call EXCEPT ![h] = "none"]
  /\ Unload(h)
  /\ asked' = [asked EXCEPT ![h] = Null]
  /\ UNCHANGED <<henv, state>>

Disconnect(h) ==
  /\ fault = "none" /\ call[h] = "none" /\ state[h] = "connected"
  /\ call' = [call EXCEPT ![h] = "disconnect"]
  /\ UNCHANGED <<libs, envs, henv, dhdbc, state, asked, fault>>

DisconnectReturns(h) == \E to \in {"allocated", "connected"} : Back(h, "disconnect", to)

(* SQLFreeConnect, and the SQLAllocConnect that gets the handle again. *)
FreeConnect(h) ==
  /\ fault = "none" /\ call[h] = "none" /\ state[h] = "allocated"
  /\ IF dhdbc[h] = Null
       THEN UNCHANGED <<libs, envs, dhdbc, fault>>
       ELSE Unload(h)
  /\ henv' = [henv EXCEPT ![h] = Null]
  /\ UNCHANGED <<state, call, asked>>

Active == IF liberties = {} THEN Handles ELSE Careless
Installed == IF liberties = {} THEN Drivers ELSE CarelessDrivers

Next ==
  /\ UNCHANGED liberties
  /\ \E h \in Active :
    \/ \E d \in Installed :
         \/ OpenFails(h, d) \/ LoadFirst(h, d) \/ LoadFails(h, d)
         \/ LoadAgain(h, d) \/ LoadOther(h, d) \/ LoadFreed(h, d)
    \/ ConnectReturns(h) \/ NoConnect(h)
    \/ Disconnect(h) \/ DisconnectReturns(h) \/ FreeConnect(h)

Spec == Init /\ [][Next]_vars

-----------------------------------------------------------------------------
(* An environment's reference count is the number of handles that have a   *)
(* driver connection on it, over failed loads, shared drivers and unloads, *)
(* whatever the application does.                                          *)
RefsAreHandles ==
  \A e \in live :
    refcount[e] = Cardinality({h \in Handles : henv[h] = e /\ dhdbc[h] # Null})

(* What the driver manager needs its application for is stated of careful  *)
(* ones.                                                                   *)
Careful == liberties = {}

(* A handle that is connected, or in the driver, has a driver connection   *)
(* and an environment of the driver it asked for, and its library has not  *)
(* been unloaded under it by the other handles of the process.             *)
InDriverLoaded ==
  Careful => \A h \in Handles : call[h] # "none" \/ state[h] = "connected" =>
    /\ henv[h] \in live /\ dhdbc[h] \in libOpen
    /\ dhdbc[h] = asked[h] /\ hdll[henv[h]] = asked[h]

(* An environment is freed with the last connection on it and leaves its   *)
(* list only from the first two places: from a later one it stays there    *)
(* freed, the one thing that leads a careful application's calls into      *)
(* freed memory or a walk without end.  Otherwise nothing leaves a list, a *)
(* driver has one environment in each, and each that is not freed is in    *)
(* one.                                                                    *)
EnvsLinked ==
  [][Careful =>
       LET Left(g)  == ToSet(envList[g]) \ ToSet(envList[g])'
           Live(g)  == ToSet(envList[g])' \cap live'
           Ahead(g) == {e \in live \ live' : e \in ToSet(envList[g]) /\ Place(envList[g], e) <= 2} IN
       /\ live' = UNION {Live(g) : g \in Genvs}
       /\ \A g \in Genvs :
            /\ Left(g) = Ahead(g)
            /\ \A e, f \in Live(g) : hdll'[e] = hdll'[f] => e = f
       /\ fault' = fault \/ \E g \in Genvs : ~ (ToSet(envList[g])' \subseteq live')]_vars

(* A library is counted once per environment, and once per DLL_OPEN that   *)
(* failed (those are never given back); a driver with UnloadSafe and none  *)
(* of either is unloaded.                                                  *)
LibraryCounted ==
  Careful => \A d \in Drivers :
    /\ libRefs[d] = Cardinality({e \in live : hdll[e] = d}) + failed[d]
    /\ d \in safe \cap libOpen => libRefs[d] > 0
=============================================================================
