-------------------------- MODULE DriverLoadProofs --------------------------
(***************************************************************************)
(* The counts of module DriverLoad are counts of users, for any number of  *)
(* connection handles, drivers and environments: an environment's of the   *)
(* handles with a driver connection on it, whatever the application does;  *)
(* a library's of the environments of its driver, for a careful            *)
(* application, whose connected handles therefore always find their        *)
(* driver loaded.                                                          *)
(***************************************************************************)
EXTENDS DriverLoad, FiniteSetTheorems, TLAPS

(* The handles with a driver connection, on any environment and on one.    *)
Users == {h \in Handles : dhdbc[h] # Null}
On(e) == {h \in Handles : henv[h] = e /\ dhdbc[h] # Null}

UseTypes ==
  /\ live \subseteq Envs
  /\ refcount \in [Envs -> Int]
  /\ henv \in [Handles -> Envs \cup {Null}]
  /\ dhdbc \in [Handles -> Drivers \cup {Null}]
  /\ hdll \in [Envs -> Drivers \cup {Null}]

(* A handle with a driver connection has an environment that is not freed. *)
UseInv ==
  /\ UseTypes
  /\ IsFiniteSet(Users)
  /\ \A h \in Handles : dhdbc[h] # Null => henv[h] \in live
  /\ \A e \in live : refcount[e] = Cardinality(On(e))

LEMMA OnFinite ==
  ASSUME UseInv, NEW e
  PROVE  IsFiniteSet(On(e)) /\ Cardinality(On(e)) \in Nat
<1>1. On(e) \subseteq Users
  BY DEF On, Users
<1> QED BY <1>1, FS_Subset, FS_CardinalityType DEF UseInv

(* A handle gets a driver connection on an environment, old or new.        *)
LEMMA Joined ==
  ASSUME UseInv, NEW h \in Handles, NEW e \in Envs, NEW d \in Drivers, dhdbc[h] = Null,
         henv' = [henv EXCEPT ![h] = e], dhdbc' = [dhdbc EXCEPT ![h] = d],
         live' = live \cup {e}, hdll' \in [Envs -> Drivers \cup {Null}],
         refcount' = [refcount EXCEPT ![e] = IF e \in live THEN refcount[e] + 1 ELSE 1]
  PROVE  UseInv'
<1>1. UseTypes'
  BY DEF UseInv, UseTypes
<1>2. /\ Users' = Users \cup {h}
      /\ On(e)' = On(e) \cup {h} /\ h \notin On(e)
      /\ e \notin live => On(e) = {}
  BY LoadAssumption DEF UseInv, UseTypes, Users, On
<1>3. IsFiniteSet(Users')
  BY <1>2, FS_AddElement DEF UseInv
<1>4. \A g \in Handles : dhdbc'[g] # Null => henv'[g] \in live'
  BY DEF UseInv, UseTypes
<1>5. ASSUME NEW x \in live' PROVE refcount'[x] = Cardinality(On(x)')
  <2>1. CASE x = e /\ e \in live
    <3>1. Cardinality(On(e)') = Cardinality(On(e)) + 1
      BY <1>2, OnFinite, FS_AddElement
    <3> QED BY <2>1, <3>1 DEF UseInv, UseTypes
  <2>2. CASE x = e /\ e \notin live
    <3>1. Cardinality(On(e)') = 1
      <4>1. On(e)' = {h}
        BY <1>2, <2>2
      <4> QED BY <4>1, FS_Singleton
    <3> QED BY <2>2, <3>1 DEF UseInv, UseTypes
  <2>3. CASE x # e
    <3>1. On(x)' = On(x) /\ x \in live
      BY <2>3, <1>5 DEF UseInv, UseTypes, On
    <3> QED BY <2>3, <3>1 DEF UseInv, UseTypes
  <2> QED BY <2>1, <2>2, <2>3
<1> QED BY <1>1, <1>3, <1>4, <1>5 DEF UseInv

(* A handle gives its driver connection up; the last one's environment may *)
(* be freed.                                                               *)
LEMMA Left ==
  ASSUME UseInv, NEW h \in Handles, dhdbc[h] # Null,
         henv' \in {henv, [henv EXCEPT ![h] = Null]}, dhdbc' = [dhdbc EXCEPT ![h] = Null],
         hdll' \in [Envs -> Drivers \cup {Null}],
         refcount' = [refcount EXCEPT ![henv[h]] = @ - 1],
         live' = live \/ (refcount[henv[h]] = 1 /\ live' = live \ {henv[h]})
  PROVE  UseInv'
<1>0. PICK e \in live : henv[h] = e /\ e \in Envs
  BY DEF UseInv, UseTypes
<1>1. UseTypes'
  BY <1>0 DEF UseInv, UseTypes
<1>2. /\ Users' = Users \ {h}
      /\ On(e)' = On(e) \ {h} /\ h \in On(e)
  BY <1>0, LoadAssumption DEF UseInv, UseTypes, Users, On
<1>3. IsFiniteSet(Users')
  BY <1>2, FS_RemoveElement DEF UseInv
<1>4. ASSUME NEW g \in Handles, dhdbc'[g] # Null PROVE henv'[g] \in live'
  <2>1. g # h /\ dhdbc[g] # Null /\ henv'[g] = henv[g] /\ henv[g] \in live
    BY <1>4 DEF UseInv, UseTypes
  <2>2. CASE live' = live
    BY <2>1, <2>2
  <2>3. CASE refcount[e] = 1
    <3>1. Cardinality(On(e)) = 1 /\ IsFiniteSet(On(e))
      BY <1>0, <2>3, OnFinite DEF UseInv
    <3>2. g \notin On(e)
      BY <1>2, <2>1, <3>1, FS_Singleton
    <3>3. henv[g] # henv[h]
      BY <1>0, <2>1, <3>2 DEF On
    <3> QED BY <2>1, <3>3
  <2> QED BY <1>0, <2>2, <2>3
<1>5. ASSUME NEW x \in live' PROVE refcount'[x] = Cardinality(On(x)')
  <2>1. CASE x = e
    <3>1. Cardinality(On(e)') = Cardinality(On(e)) - 1
      <4>1. IsFiniteSet(On(e))
        BY OnFinite
      <4>2. Cardinality(On(e) \ {h}) = Cardinality(On(e)) - 1
        BY <1>2, <4>1, FS_RemoveElement
      <4> QED BY <1>2, <4>2
    <3> QED BY <1>0, <2>1, <3>1 DEF UseInv, UseTypes
  <2>2. CASE x # e
    <3>1. On(x)' = On(x) /\ x \in live
      BY <1>0, <2>2, <1>5, LoadAssumption DEF UseInv, UseTypes, On
    <3> QED BY <1>0, <2>2, <3>1 DEF UseInv, UseTypes
  <2> QED BY <2>1, <2>2
<1> QED BY <1>1, <1>3, <1>4, <1>5 DEF UseInv

(* A handle without a driver connection is pointed elsewhere; an           *)
(* environment may appear that nobody uses.                                *)
LEMMA Pointed ==
  ASSUME UseInv, NEW h \in Handles, dhdbc[h] = Null, NEW p \in Envs \cup {Null},
         henv' = [henv EXCEPT ![h] = p], UNCHANGED dhdbc,
         hdll' \in [Envs -> Drivers \cup {Null}],
         \/ UNCHANGED <<live, refcount>>
         \/ \E e \in Envs \ live : /\ live' = live \cup {e}
                                   /\ refcount' = [refcount EXCEPT ![e] = 0]
  PROVE  UseInv'
<1>1. UseTypes'
  BY DEF UseInv, UseTypes
<1>2. Users' = Users /\ \A x : On(x)' = On(x)
  BY DEF UseInv, UseTypes, Users, On
<1>3. \A g \in Handles : dhdbc'[g] # Null => henv'[g] \in live'
  BY DEF UseInv, UseTypes
<1>4. CASE UNCHANGED <<live, refcount>>
  BY <1>1, <1>2, <1>3, <1>4 DEF UseInv
<1>5. ASSUME NEW e \in Envs \ live, live' = live \cup {e},
             refcount' = [refcount EXCEPT ![e] = 0]
      PROVE  UseInv'
  <2>1. On(e) = {}
    BY DEF UseInv, On
  <2>2. ASSUME NEW x \in live' PROVE refcount'[x] = Cardinality(On(x)')
    <3>1. On(x)' = On(x)
      BY <1>2
    <3>2. CASE x = e
      <4>1. Cardinality(On(x)') = 0
        BY <2>1, <3>1, <3>2, FS_EmptySet
      <4> QED BY <1>5, <3>2, <4>1 DEF UseInv, UseTypes
    <3>3. CASE x # e
      BY <1>5, <2>2, <3>1, <3>3 DEF UseInv, UseTypes
    <3> QED BY <3>2, <3>3
  <2> QED BY <1>1, <1>2, <1>3, <2>2 DEF UseInv
<1> QED BY <1>4, <1>5

-----------------------------------------------------------------------------
LEMMA UseInit == Init => UseInv
<1> SUFFICES ASSUME Init PROVE UseInv
  OBVIOUS
<1>1. UseTypes
  BY DEF Init, UseTypes
<1>2. Users = {} /\ live = {}
  BY DEF Init, Users
<1> QED BY <1>1, <1>2, FS_EmptySet DEF UseInv, Init

LEMMA UseUnchanged ==
  ASSUME UseInv, UNCHANGED <<live, refcount, henv, dhdbc, hdll>>
  PROVE  UseInv'
BY DEF UseInv, UseTypes, Users, On

(* _iodbcdm_driverload.                                                    *)
LEMMA UseLoad ==
  ASSUME UseInv, NEW h \in Handles, NEW d \in Drivers, LoadFirst(h, d) \/ LoadFails(h, d)
  PROVE  UseInv'
<1>1. /\ dhdbc[h] = Null /\ h \in Handles
      /\ Null \notin Drivers \cup Envs
  BY LoadAssumption DEF LoadFirst, LoadFails, UseInv, UseTypes
<1>2. ASSUME NEW e \in Envs, NEW u, e \in Found(h, d), Shared(h, d, e, u)
      PROVE  UseInv'
  <2>1. e \in live /\ live' = live \cup {e}
    BY <1>2 DEF Found, Shared
  <2> QED BY <1>1, <1>2, <2>1, Joined DEF Shared, AllocDriverConn, UseInv, UseTypes
<1>3. ASSUME NEW e \in Envs, NEW u, First(h, d, e, u)
      PROVE  UseInv'
  BY <1>1, <1>3, Joined DEF First, NewEnv, Fresh, AllocDriverConn, UseInv, UseTypes
<1>4. ASSUME NEW e \in Envs, NEW u, NoDriverConn(h, d, e, u) \/ NoDriverEnv(h, d, e, u)
      PROVE  UseInv'
  <2>1. /\ henv' = [henv EXCEPT ![h] = e] /\ UNCHANGED dhdbc
        /\ hdll' \in [Envs -> Drivers \cup {Null}]
        /\ \/ UNCHANGED <<live, refcount>>
           \/ /\ e \in Envs \ live /\ live' = live \cup {e}
              /\ refcount' = [refcount EXCEPT ![e] = 0]
    BY <1>4 DEF NoDriverConn, NoDriverEnv, NewEnv, Fresh, envs, UseInv, UseTypes
  <2> QED BY <1>1, <2>1, Pointed
<1>5. PICK u \in BOOLEAN, e \in Envs :
        \/ e \in Found(h, d) /\ Shared(h, d, e, u)
        \/ First(h, d, e, u)
        \/ NoDriverConn(h, d, e, u) \/ NoDriverEnv(h, d, e, u)
  BY DEF LoadFirst, LoadFails
<1> QED BY <1>2, <1>3, <1>4, <1>5

(* The handle has an environment already.                                  *)
LEMMA UseLoadOther ==
  ASSUME UseInv, NEW h \in Handles, NEW d \in Drivers, LoadOther(h, d)
  PROVE  UseInv'
<1>1. hdll' \in [Envs -> Drivers \cup {Null}] /\ live' = live /\ henv' = henv
  BY DEF LoadOther, UseInv, UseTypes
<1>2. CASE dhdbc[h] = Null
  <2>1. dhdbc' = dhdbc /\ refcount' = refcount /\ henv' = [henv EXCEPT ![h] = henv[h]]
        /\ henv[h] \in Envs \cup {Null}
    BY <1>2 DEF LoadOther, UseInv, UseTypes
  <2> QED BY <1>1, <1>2, <2>1, Pointed
<1>3. CASE dhdbc[h] # Null
  BY <1>1, <1>3, Left DEF LoadOther
<1> QED BY <1>2, <1>3

(* _iodbcdm_driverunload.                                                  *)
LEMMA UseUnload ==
  ASSUME UseInv, NEW h \in Handles, dhdbc[h] # Null, Unload(h),
         henv' \in {henv, [henv EXCEPT ![h] = Null]}
  PROVE  UseInv'
<1>1. /\ dhdbc' = [dhdbc EXCEPT ![h] = Null]
      /\ refcount' = [refcount EXCEPT ![henv[h]] = @ - 1]
      /\ live' = live \/ (refcount[henv[h]] = 1 /\ live' = live \ {henv[h]})
      /\ hdll' \in [Envs -> Drivers \cup {Null}]
  BY DEF Unload, UseInv, UseTypes
<1> QED BY <1>1, Left

LEMMA UseStep == UseInv /\ [Next]_vars => UseInv'
<1> SUFFICES ASSUME UseInv, [Next]_vars PROVE UseInv'
  OBVIOUS
<1>1. ASSUME NEW h \in Handles, NEW d \in Drivers,
             OpenFails(h, d) \/ LoadAgain(h, d) \/ LoadFreed(h, d)
      PROVE  UseInv'
  BY <1>1, UseUnchanged DEF OpenFails, LoadAgain, LoadFreed, envs
<1>2. ASSUME NEW h \in Handles, NoConnect(h) PROVE UseInv'
  BY <1>2, UseUnload DEF NoConnect
<1>3. ASSUME NEW h \in Handles,
             ConnectReturns(h) \/ Disconnect(h) \/ DisconnectReturns(h)
      PROVE  UseInv'
  BY <1>3, UseUnchanged DEF ConnectReturns, Disconnect, DisconnectReturns, Back, envs
<1>4. ASSUME NEW h \in Handles, FreeConnect(h) PROVE UseInv'
  <2>1. CASE dhdbc[h] = Null
    BY <1>4, <2>1, Pointed DEF FreeConnect, envs, UseInv, UseTypes
  <2>2. CASE dhdbc[h] # Null
    BY <1>4, <2>2, UseUnload DEF FreeConnect
  <2> QED BY <2>1, <2>2
<1>5. CASE UNCHANGED vars
  BY <1>5, UseUnchanged DEF vars, envs, handles
<1>6. Active \subseteq Handles /\ Installed \subseteq Drivers
  BY LoadAssumption DEF Active, Installed
<1> QED BY <1>1, <1>2, <1>3, <1>4, <1>5, <1>6, UseLoad, UseLoadOther DEF Next

LEMMA UseHolds == Spec => []UseInv
<1> QED BY UseInit, UseStep, PTL DEF Spec

(* The reference count of a driver's environment is the number of handles  *)
(* with a driver connection on it, for every application: failed loads,    *)
(* sharing, switching drivers and unloading count right.                   *)
THEOREM RefsAreHandlesHolds == Spec => []RefsAreHandles
<1>1. UseInv => RefsAreHandles
  BY DEF UseInv, RefsAreHandles, On
<1> QED BY <1>1, UseHolds, PTL

-----------------------------------------------------------------------------
(* The libraries, of a careful application.                                *)
Of(d) == {e \in live : hdll[e] = d}

LibTypes == libRefs \in [Drivers -> Int] /\ failed \in [Drivers -> Nat]

(* A library is counted by its environments, and open while it has one.    *)
LibInv ==
  /\ LibTypes
  /\ IsFiniteSet(live)
  /\ \A e \in live : hdll[e] \in Drivers /\ hdll[e] \in libOpen
  /\ \A d \in Drivers : libRefs[d] = Cardinality(Of(d)) + failed[d]
  /\ \A d \in Drivers : d \in safe \cap libOpen => libRefs[d] > 0

(* A driver connection is one of the driver whose environment it is on,    *)
(* and a handle that is connected or in the driver has one of the driver   *)
(* it asked for.                                                           *)
CallInv ==
  /\ asked \in [Handles -> Drivers \cup {Null}]
  /\ call \in [Handles -> {"none", "connect", "disconnect"}]
  /\ state \in [Handles -> {"allocated", "connected"}]
  /\ \A h \in Handles : dhdbc[h] # Null => hdll[henv[h]] = dhdbc[h]
  /\ \A h \in Handles : call[h] = "connect" => state[h] = "allocated"
  /\ \A h \in Handles : call[h] # "none" \/ state[h] = "connected" =>
       dhdbc[h] # Null /\ dhdbc[h] = asked[h]

LEMMA OfFinite ==
  ASSUME LibInv, NEW d
  PROVE  IsFiniteSet(Of(d)) /\ Cardinality(Of(d)) \in Nat
<1>1. Of(d) \subseteq live
  BY DEF Of
<1> QED BY <1>1, FS_Subset, FS_CardinalityType DEF LibInv

LEMMA LibUnchanged ==
  ASSUME LibInv, UNCHANGED <<live, hdll, libs>>
  PROVE  LibInv'
BY DEF LibInv, LibTypes, Of, libs

(* A first environment of the driver opens its library.                    *)
LEMMA LibOpened ==
  ASSUME UseInv, LibInv, NEW d \in Drivers, NEW u, OpenLib(d, u),
         NEW e \in Envs, e \notin live, live' = live \cup {e}, hdll' = [hdll EXCEPT ![e] = d]
  PROVE  LibInv'
<1>1. LibTypes' /\ libRefs' = [libRefs EXCEPT ![d] = @ + 1] /\ failed' = failed
  BY DEF LibInv, LibTypes, OpenLib
<1>2. IsFiniteSet(live')
  BY FS_AddElement DEF LibInv
<1>3. \A f \in live' : hdll'[f] \in Drivers /\ hdll'[f] \in libOpen'
  BY DEF LibInv, OpenLib, UseInv, UseTypes
<1>4. ASSUME NEW x \in Drivers PROVE libRefs'[x] = Cardinality(Of(x)') + failed'[x]
  <2>1. CASE x = d
    <3>1. Of(d)' = Of(d) \cup {e} /\ e \notin Of(d)
      BY DEF Of, UseInv, UseTypes
    <3>2. Cardinality(Of(d)') = Cardinality(Of(d)) + 1
      BY <3>1, OfFinite, FS_AddElement
    <3> QED BY <1>1, <2>1, <3>2, OfFinite DEF LibInv, LibTypes
  <2>2. CASE x # d
    <3>1. Of(x)' = Of(x)
      BY <2>2 DEF Of, UseInv, UseTypes
    <3> QED BY <1>1, <2>2, <3>1 DEF LibInv, LibTypes
  <2> QED BY <2>1, <2>2
<1>5. ASSUME NEW x \in Drivers, x \in safe' \cap libOpen' PROVE libRefs'[x] > 0
  <2>1. CASE x = d
    BY <1>1, <2>1, OfFinite DEF LibInv, LibTypes
  <2>2. CASE x # d
    BY <1>1, <1>5, <2>2 DEF LibInv, LibTypes, OpenLib, Flagged
  <2> QED BY <2>1, <2>2
<1> QED BY <1>1, <1>2, <1>3, <1>4, <1>5 DEF LibInv

(* A library found open is opened and closed again; one that nobody counts *)
(* may be unloaded.                                                        *)
LEMMA LibReopened ==
  ASSUME LibInv, NEW d \in Drivers, NEW u, ReopenLib(d, u), UNCHANGED <<live, hdll>>
  PROVE  LibInv'
<1>1. libRefs' = libRefs /\ failed' = failed /\ Of(d)' = Of(d)
  BY DEF ReopenLib, Of
<1>2. \A x : Of(x)' = Of(x)
  BY DEF Of
<1>3. libRefs[d] = 0 => Of(d) = {}
  <2>1. libRefs[d] = 0 => Cardinality(Of(d)) = 0
    BY OfFinite DEF LibInv, LibTypes
  <2> QED BY <2>1, OfFinite, FS_EmptySet
<1>4. ASSUME NEW f \in live' PROVE hdll'[f] \in Drivers /\ hdll'[f] \in libOpen'
  <2>1. hdll[f] = d => f \in Of(d)
    BY <1>4 DEF Of
  <2> QED BY <1>3, <1>4, <2>1 DEF LibInv, ReopenLib
<1>5. \A x \in Drivers : x \in safe' \cap libOpen' => libRefs'[x] > 0
  <2>1. libRefs[d] = 0 \/ libRefs[d] > 0
    BY OfFinite DEF LibInv, LibTypes
  <2> QED BY <1>1, <2>1 DEF LibInv, ReopenLib, Flagged
<1> QED BY <1>1, <1>2, <1>4, <1>5 DEF LibInv, LibTypes

(* The last connection's environment gives its library up.                 *)
LEMMA LibClosed ==
  ASSUME UseInv, LibInv, NEW e \in live, CloseLib(hdll[e]),
         live' = live \ {e}, hdll' = [hdll EXCEPT ![e] = Null]
  PROVE  LibInv'
<1>0. PICK d \in Drivers : hdll[e] = d /\ CloseLib(d)
  BY DEF LibInv
<1>1. LibTypes' /\ libRefs' = [libRefs EXCEPT ![d] = @ - 1] /\ failed' = failed
  BY <1>0 DEF LibInv, LibTypes, CloseLib
<1>2. IsFiniteSet(live')
  BY FS_RemoveElement DEF LibInv
<1>3. /\ Of(d)' = Of(d) \ {e} /\ e \in Of(d)
      /\ IsFiniteSet(Of(d)) /\ Cardinality(Of(d)) \in Nat
      /\ Cardinality(Of(d)) # 0
  <2>1. Of(d)' = Of(d) \ {e} /\ e \in Of(d)
    BY <1>0, LoadAssumption DEF Of, UseInv, UseTypes
  <2>2. IsFiniteSet(Of(d)) /\ Cardinality(Of(d)) \in Nat
    BY OfFinite
  <2> QED BY <2>1, <2>2, FS_EmptySet
<1>4. Cardinality(Of(d)) = 1 => Of(d) = {e}
  BY <1>3, FS_Singleton
<1>5. libRefs[d] = Cardinality(Of(d)) + failed[d] /\ libRefs[d] > 0 /\ failed[d] \in Nat
  BY <1>3 DEF LibInv, LibTypes
<1>6. ASSUME NEW f \in live' PROVE hdll'[f] \in Drivers /\ hdll'[f] \in libOpen'
  <2>1. f \in live /\ f # e /\ hdll'[f] = hdll[f] /\ hdll[f] \in Drivers \cap libOpen
    BY <1>6 DEF LibInv, UseInv, UseTypes
  <2>2. CASE hdll[f] = d
    <3>1. Of(d) # {e}
      BY <2>1, <2>2 DEF Of
    <3>2. libRefs[d] # 1
      BY <1>3, <1>4, <1>5, <3>1
    <3> QED BY <1>0, <2>1, <3>2 DEF CloseLib
  <2>3. CASE hdll[f] # d
    BY <1>0, <2>1, <2>3 DEF CloseLib
  <2> QED BY <2>2, <2>3
<1>7. ASSUME NEW x \in Drivers PROVE libRefs'[x] = Cardinality(Of(x)') + failed'[x]
  <2>1. CASE x = d
    <3>1. Cardinality(Of(d) \ {e}) = Cardinality(Of(d)) - 1
      BY <1>3, FS_RemoveElement
    <3>2. libRefs'[d] = libRefs[d] - 1 /\ failed'[d] = failed[d]
      BY <1>1 DEF LibInv, LibTypes
    <3>3. PICK c \in Nat : c = Cardinality(Of(d))
      BY <1>3
    <3>4. libRefs'[d] = Cardinality(Of(d) \ {e}) + failed'[d]
      BY <1>5, <3>1, <3>2, <3>3
    <3> QED BY <1>3, <2>1, <3>4
  <2>2. CASE x # d
    <3>1. Of(x)' = Of(x)
      BY <1>0, <1>7, <2>2, LoadAssumption DEF Of, UseInv, UseTypes
    <3> QED BY <1>1, <2>2, <3>1 DEF LibInv, LibTypes
  <2> QED BY <2>1, <2>2
<1>8. ASSUME NEW x \in Drivers, x \in safe' \cap libOpen' PROVE libRefs'[x] > 0
  <2>1. CASE x = d
    <3>1. libRefs[d] # 1
      BY <1>0, <1>8, <2>1 DEF CloseLib
    <3> QED BY <1>1, <1>5, <2>1, <3>1 DEF LibInv, LibTypes
  <2>2. CASE x # d
    BY <1>0, <1>1, <1>8, <2>2 DEF LibInv, LibTypes, CloseLib
  <2> QED BY <2>1, <2>2
<1> QED BY <1>1, <1>2, <1>6, <1>7, <1>8 DEF LibInv

(* A library that cannot be opened is counted all the same.                *)
LEMMA LibFailed ==
  ASSUME LibInv, NEW h \in Handles, NEW d \in Drivers, OpenFails(h, d)
  PROVE  LibInv'
<1>1. /\ UNCHANGED <<live, hdll, libOpen>>
      /\ libRefs' = [libRefs EXCEPT ![d] = @ + 1] /\ failed' = [failed EXCEPT ![d] = @ + 1]
      /\ safe' \cap libOpen = safe \cap libOpen
  BY DEF OpenFails, envs
<1>2. \A x : Of(x)' = Of(x) /\ Cardinality(Of(x)) \in Nat
  BY <1>1, OfFinite DEF Of
<1>3. LibTypes'
  BY <1>1 DEF LibInv, LibTypes
<1>4. \A x \in Drivers : libRefs'[x] = Cardinality(Of(x)') + failed'[x]
  BY <1>1, <1>2 DEF LibInv, LibTypes
<1>5. \A x \in Drivers : x \in safe' \cap libOpen' => libRefs'[x] > 0
  BY <1>1 DEF LibInv, LibTypes
<1> QED BY <1>1, <1>3, <1>4, <1>5 DEF LibInv

-----------------------------------------------------------------------------
LoadInv == UseInv /\ LibInv /\ CallInv

LEMMA LoadInit == Init => LoadInv
<1> SUFFICES ASSUME Init PROVE LoadInv
  OBVIOUS
<1>1. live = {} /\ \A d : Of(d) = {}
  BY DEF Init, Of
<1>2. LibInv
  <2>1. LibTypes /\ safe = {} /\ \A d \in Drivers : libRefs[d] = 0 /\ failed[d] = 0
    BY DEF Init, LibTypes
  <2> QED BY <1>1, <2>1, FS_EmptySet DEF LibInv
<1>3. CallInv
  BY DEF Init, CallInv
<1> QED BY <1>2, <1>3, UseInit DEF LoadInv

LEMMA CallUnchanged ==
  ASSUME LoadInv, UNCHANGED <<henv, dhdbc, hdll, state, call, asked>>
  PROVE  CallInv'
BY DEF LoadInv, CallInv

(* A handle that had no driver connection.                                 *)
LEMMA LibLoad ==
  ASSUME LoadInv, NEW h \in Handles, NEW d \in Drivers, LoadFirst(h, d) \/ LoadFails(h, d)
  PROVE  LibInv'
<1>1. PICK u \in BOOLEAN, e \in Envs :
        \/ e \in Found(h, d) /\ Shared(h, d, e, u)
        \/ First(h, d, e, u)
        \/ NoDriverConn(h, d, e, u) \/ NoDriverEnv(h, d, e, u)
  BY DEF LoadFirst, LoadFails
<1>2. CASE e \in Found(h, d) /\ Shared(h, d, e, u)
  BY <1>2, LibReopened DEF Shared, LoadInv
<1>3. CASE First(h, d, e, u)
  BY <1>3, LibOpened DEF First, NewEnv, Fresh, LoadInv
<1>4. CASE NoDriverConn(h, d, e, u)
  BY <1>4, LibOpened, LibReopened DEF NoDriverConn, NewEnv, Fresh, envs, LoadInv
<1>5. CASE NoDriverEnv(h, d, e, u)
  BY <1>5, LibReopened DEF NoDriverEnv, envs, LoadInv
<1> QED BY <1>1, <1>2, <1>3, <1>4, <1>5

LEMMA CallLoad ==
  ASSUME LoadInv, NEW h \in Handles, NEW d \in Drivers, LoadFirst(h, d) \/ LoadFails(h, d)
  PROVE  CallInv'
<1>1. dhdbc[h] = Null /\ call[h] = "none" /\ state[h] = "allocated" /\ UNCHANGED state
      /\ Null \notin Drivers \cup Envs
  BY LoadAssumption DEF LoadFirst, LoadFails, Asks, LoadInv, UseInv, UseTypes
<1>2. CASE LoadFirst(h, d)
  <2>1. PICK u \in BOOLEAN, e \in Envs :
          \/ e \in Found(h, d) /\ Shared(h, d, e, u)
          \/ First(h, d, e, u)
    BY <1>2 DEF LoadFirst
  <2>2. /\ henv' = [henv EXCEPT ![h] = e] /\ dhdbc' = [dhdbc EXCEPT ![h] = d]
        /\ hdll'[e] = d /\ \A f \in live : hdll'[f] = hdll[f]
    BY <2>1 DEF Found, Shared, First, NewEnv, Fresh, AllocDriverConn, LoadInv, UseInv, UseTypes
  <2>3. /\ call' = [call EXCEPT ![h] = "connect"] /\ asked' = [asked EXCEPT ![h] = d]
    BY <1>2 DEF LoadFirst, Goes
  <2> QED BY <1>1, <2>2, <2>3 DEF CallInv, LoadInv, UseInv, UseTypes
<1>3. CASE LoadFails(h, d)
  <2>1. PICK u \in BOOLEAN, e \in Envs :
          NoDriverConn(h, d, e, u) \/ NoDriverEnv(h, d, e, u)
    BY <1>3 DEF LoadFails
  <2>2. /\ henv' = [henv EXCEPT ![h] = e] /\ UNCHANGED <<dhdbc, call, asked>>
        /\ \A f \in live : hdll'[f] = hdll[f]
    BY <1>3, <2>1 DEF LoadFails, NoDriverConn, NoDriverEnv, NewEnv, Fresh, envs, LoadInv, UseInv, UseTypes
  <2> QED BY <1>1, <2>2 DEF CallInv, LoadInv, UseInv, UseTypes
<1> QED BY <1>2, <1>3

(* A careful application's handle goes back to the driver it had.          *)
LEMMA LoadAgainStep ==
  ASSUME LoadInv, Careful, NEW h \in Handles, NEW d \in Drivers, LoadAgain(h, d)
  PROVE  LibInv' /\ CallInv'
<1>1. dhdbc[h] = d /\ d # Null
  BY LoadAssumption DEF LoadAgain, Careful, LoadInv, CallInv
<1>2. LibInv'
  BY LibReopened DEF LoadAgain, envs, LoadInv
<1>3. CallInv'
  BY <1>1 DEF LoadAgain, Goes, Asks, envs, CallInv, LoadInv
<1> QED BY <1>2, <1>3

LEMMA UnloadStep ==
  ASSUME LoadInv, UseInv', NEW h \in Handles, dhdbc[h] # Null, Unload(h),
         henv' \in {henv, [henv EXCEPT ![h] = Null]}, state[h] = "allocated",
         state' = state, asked' \in {asked, [asked EXCEPT ![h] = Null]},
         call' = [call EXCEPT ![h] = "none"]
  PROVE  LibInv' /\ CallInv'
<1>1. PICK e \in live : henv[h] = e /\ e \in Envs
  BY DEF LoadInv, UseInv, UseTypes
<1>2. CASE refcount[e] = 1
  <2>1. /\ CloseLib(hdll[e]) /\ live' = live \ {e} /\ hdll' = [hdll EXCEPT ![e] = Null]
        /\ dhdbc' = [dhdbc EXCEPT ![h] = Null]
    BY <1>1, <1>2 DEF Unload
  <2>2. LibInv'
    BY <2>1, LibClosed DEF LoadInv
  <2>3. \A g \in Handles : dhdbc'[g] # Null =>
          g # h /\ dhdbc[g] # Null /\ henv'[g] = henv[g] /\ henv[g] # e
    BY <2>1 DEF UseInv, UseTypes, LoadInv
  <2>4. CallInv'
    BY <2>1, <2>3 DEF CallInv, LoadInv, UseInv, UseTypes
  <2> QED BY <2>2, <2>4
<1>3. CASE refcount[e] # 1
  <2>1. UNCHANGED <<libs, live, hdll>> /\ dhdbc' = [dhdbc EXCEPT ![h] = Null]
    BY <1>1, <1>3 DEF Unload
  <2>2. LibInv'
    BY <2>1, LibUnchanged DEF LoadInv
  <2>3. \A g \in Handles : dhdbc'[g] # Null => g # h /\ dhdbc[g] # Null /\ henv'[g] = henv[g]
    BY <2>1 DEF UseInv, UseTypes, LoadInv
  <2>4. CallInv'
    BY <2>1, <2>3 DEF CallInv, LoadInv, UseInv, UseTypes
  <2> QED BY <2>2, <2>4
<1> QED BY <1>2, <1>3

LEMMA LoadStep == LoadInv /\ Careful /\ [Next]_vars => LoadInv' /\ Careful'
<1> SUFFICES ASSUME LoadInv, Careful, [Next]_vars PROVE LibInv' /\ CallInv'
  BY UseStep DEF LoadInv, Careful, Next, vars
<1>0. UseInv'
  BY UseStep DEF LoadInv
<1>1. ASSUME NEW h \in Handles, NEW d \in Drivers, OpenFails(h, d)
      PROVE  LibInv' /\ CallInv'
  BY <1>1, LibFailed, CallUnchanged DEF OpenFails, Asks, envs, LoadInv
<1>2. ASSUME NEW h \in Handles, NEW d \in Drivers, LoadOther(h, d)
      PROVE  FALSE
  BY <1>2 DEF LoadOther, Careful
<1>3. ASSUME NEW h \in Handles, NEW d \in Drivers, LoadFreed(h, d)
      PROVE  LibInv' /\ CallInv'
  BY <1>3, LibUnchanged, CallUnchanged DEF LoadFreed, Asks, envs, LoadInv
<1>4. ASSUME NEW h \in Handles, ConnectReturns(h) \/ DisconnectReturns(h)
      PROVE  LibInv' /\ CallInv'
  <2>1. PICK from \in {"connect", "disconnect"}, to \in {"allocated", "connected"} :
          Back(h, from, to)
    BY <1>4 DEF ConnectReturns, DisconnectReturns
  <2>2. LibInv'
    BY <2>1, LibUnchanged DEF Back, envs, LoadInv
  <2>3. CallInv'
    BY <2>1 DEF Back, envs, CallInv, LoadInv
  <2> QED BY <2>2, <2>3
<1>5. ASSUME NEW h \in Handles, NoConnect(h) PROVE LibInv' /\ CallInv'
  <2>1. state[h] = "allocated"
    BY <1>5 DEF NoConnect, LoadInv, CallInv
  <2> QED BY <1>0, <1>5, <2>1, UnloadStep DEF NoConnect
<1>6. ASSUME NEW h \in Handles, Disconnect(h) PROVE LibInv' /\ CallInv'
  <2>1. LibInv'
    BY <1>6, LibUnchanged DEF Disconnect, envs, LoadInv
  <2>2. CallInv'
    BY <1>6 DEF Disconnect, envs, CallInv, LoadInv
  <2> QED BY <2>1, <2>2
<1>7. ASSUME NEW h \in Handles, FreeConnect(h) PROVE LibInv' /\ CallInv'
  <2>1. CASE dhdbc[h] = Null
    <3>1. LibInv'
      BY <1>7, <2>1, LibUnchanged DEF FreeConnect, envs, LoadInv
    <3>2. CallInv'
      BY <1>7, <2>1 DEF FreeConnect, envs, CallInv, LoadInv, UseInv, UseTypes
    <3> QED BY <3>1, <3>2
  <2>2. CASE dhdbc[h] # Null
    <3>1. call' = [call EXCEPT ![h] = "none"]
      BY <1>7 DEF FreeConnect, LoadInv, CallInv
    <3> QED BY <1>0, <1>7, <2>2, <3>1, UnloadStep DEF FreeConnect
  <2> QED BY <2>1, <2>2
<1>8. CASE UNCHANGED vars
  BY <1>8, LibUnchanged, CallUnchanged DEF vars, envs, handles, LoadInv
<1>9. Active \subseteq Handles /\ Installed \subseteq Drivers
  BY LoadAssumption DEF Active, Installed
<1> QED
  BY <1>1, <1>2, <1>3, <1>4, <1>5, <1>6, <1>7, <1>8, <1>9, LibLoad, CallLoad, LoadAgainStep
  DEF Next

-----------------------------------------------------------------------------
LEMMA LoadHolds == Spec => [](Careful => LoadInv)
<1>1. (Careful => LoadInv) /\ [Next]_vars => (Careful => LoadInv)'
  BY LoadStep DEF Careful, Next, vars
<1>2. Init => (Careful => LoadInv)
  BY LoadInit
<1> QED BY <1>1, <1>2, PTL DEF Spec

(* A library of a careful application is counted once per environment and  *)
(* once per DLL_OPEN that failed, and one that is safe to unload is not    *)
(* left open without a count, for any number of handles and drivers.       *)
THEOREM LibraryCountedHolds == Spec => []LibraryCounted
<1>1. (Careful => LoadInv) => LibraryCounted
  BY DEF LoadInv, LibInv, Of, LibraryCounted
<1> QED BY <1>1, LoadHolds, PTL

(* A handle of a careful application that is connected, or in the driver,  *)
(* has the driver it asked for and that driver's library is open, however  *)
(* the others connect, fail and disconnect.                                *)
THEOREM InDriverLoadedHolds == Spec => []InDriverLoaded
<1>1. (Careful => LoadInv) => InDriverLoaded
  BY DEF LoadInv, UseInv, UseTypes, LibInv, LibTypes, CallInv, InDriverLoaded
<1> QED BY <1>1, LoadHolds, PTL

-----------------------------------------------------------------------------
(* The lists of environments of a careful application: the walk that       *)
(* unlinks one finds the first and the second of a list only.              *)
Held(g) == {envList[g][i] : i \in 1 .. Len(envList[g])}

(* A list holds an environment once, and no other list holds it; none that *)
(* is not freed is missing, and of those each has another driver.          *)
ListInv ==
  /\ envList \in [Genvs -> Seq(Envs)]
  /\ \A g \in Genvs : \A i, j \in 1 .. Len(envList[g]) : envList[g][i] = envList[g][j] => i = j
  /\ \A g \in Genvs : \A x, y \in Held(g) \cap live : hdll[x] = hdll[y] => x = y
  /\ \A f, g \in Genvs : \A x \in Held(f) : x \in Held(g) => f = g
  /\ \A e \in live : \E g \in Genvs : e \in Held(g)

(* A handle with a driver connection is on an environment of its own       *)
(* application environment's list.                                         *)
LinkInv ==
  /\ ListInv
  /\ \A h \in Handles : dhdbc[h] # Null => henv[h] \in Held(GenvOf[h])

(* What the lists lose, and when a walk goes wrong.                        *)
Lost(g) == {e \in live \ live' : e \in Held(g) /\ Place(envList[g], e) <= 2}
Walks ==
  /\ \A g \in Genvs : Held(g) \ Held(g)' = Lost(g)
  /\ fault' = fault \/ \E g \in Genvs : ~ (Held(g)' \subseteq live')

LEMMA TakenOut ==
  ASSUME NEW T, NEW s \in Seq(T), NEW i \in 1 .. Len(s)
  PROVE  /\ RemoveAt(s, i) \in Seq(T) /\ Len(RemoveAt(s, i)) = Len(s) - 1
         /\ \A j \in 1 .. Len(s) - 1 : RemoveAt(s, i)[j] = s[IF j < i THEN j ELSE j + 1]
<1> DEFINE front == SubSeq(s, 1, i - 1)
           back  == SubSeq(s, i + 1, Len(s))
<1>0. Len(s) \in Nat /\ i \in Nat /\ 1 <= i /\ i <= Len(s)
  OBVIOUS
<1>1. front \in Seq(T) /\ Len(front) = i - 1 /\ \A j \in 1 .. i - 1 : front[j] = s[j]
  OBVIOUS
<1>2. back \in Seq(T) /\ Len(back) = Len(s) - i /\ \A j \in 1 .. Len(s) - i : back[j] = s[i + j]
  OBVIOUS
<1> HIDE DEF front, back
<1>3. /\ front \o back \in Seq(T) /\ Len(front \o back) = Len(s) - 1
      /\ \A j \in 1 .. Len(s) - 1 :
           (front \o back)[j] = IF j <= i - 1 THEN front[j] ELSE back[j - (i - 1)]
  <2>1. (i - 1) + (Len(s) - i) = Len(s) - 1
    BY <1>0
  <2> QED BY <1>1, <1>2, <2>1
<1>4. ASSUME NEW j \in 1 .. Len(s) - 1
      PROVE  (front \o back)[j] = s[IF j < i THEN j ELSE j + 1]
  <2>1. CASE j < i
    BY <1>0, <1>1, <1>3, <2>1
  <2>2. CASE ~(j < i)
    <3>1. j - (i - 1) \in 1 .. Len(s) - i /\ i + (j - (i - 1)) = j + 1
      BY <1>0, <2>2
    <3>2. (front \o back)[j] = back[j - (i - 1)]
      BY <1>0, <1>3, <2>2
    <3> QED BY <1>2, <2>2, <3>1, <3>2
  <2> QED BY <2>1, <2>2
<1>5. RemoveAt(s, i) = front \o back
  BY DEF RemoveAt, front, back
<1> QED BY <1>3, <1>4, <1>5

LEMMA LinkInit == Init => LinkInv
<1> SUFFICES ASSUME Init PROVE LinkInv
  OBVIOUS
<1>1. \A g \in Genvs : envList[g] = <<>> /\ Held(g) = {}
  BY DEF Init, Held
<1>2. envList \in [Genvs -> Seq(Envs)] /\ live = {}
  BY DEF Init
<1>3. \A h \in Handles : dhdbc[h] = Null
  BY DEF Init
<1> QED BY <1>1, <1>2, <1>3 DEF LinkInv, ListInv

LEMMA ListsUnchanged ==
  ASSUME ListInv, UNCHANGED <<envList, live, hdll>>
  PROVE  ListInv' /\ \A g \in Genvs : Held(g)' = Held(g)
<1>1. \A g \in Genvs : Held(g)' = Held(g)
  BY DEF Held
<1> QED BY <1>1 DEF ListInv

(* A driver that has no environment in the list gets one.                  *)
LEMMA ListGrows ==
  ASSUME UseInv, ListInv, NEW h \in Handles, NEW d \in Drivers, NEW e \in Envs, NEW count,
         Found(h, d) = {}, NewEnv(h, d, e, count)
  PROVE  ListInv' /\ \A g \in Genvs : Held(g)' = IF g = GenvOf[h] THEN Held(g) \cup {e} ELSE Held(g)
<1> DEFINE g0   == GenvOf[h]
           list == envList[g0]
           new  == <<e>> \o list
<1>0. g0 \in Genvs /\ list \in Seq(Envs) /\ Len(list) \in Nat
  BY LoadAssumption DEF ListInv
<1>1. /\ new \in Seq(Envs) /\ Len(new) = Len(list) + 1
      /\ new[1] = e /\ \A i \in 1 .. Len(new) : i # 1 => i - 1 \in 1 .. Len(list) /\ new[i] = list[i - 1]
  BY <1>0
<1>2. /\ Fresh(e) /\ live' = live \cup {e} /\ hdll' = [hdll EXCEPT ![e] = d]
      /\ envList' = [envList EXCEPT ![g0] = new]
  BY DEF NewEnv
<1> HIDE DEF new
<1>3. /\ envList' \in [Genvs -> Seq(Envs)] /\ envList'[g0] = new
      /\ \A g \in Genvs : g # g0 => envList'[g] = envList[g]
  BY <1>0, <1>1, <1>2 DEF ListInv
<1>4. e \notin live /\ \A g \in Genvs : e \notin Held(g)
  <2>1. \A g \in Genvs : DOMAIN envList[g] = 1 .. Len(envList[g])
    BY DEF ListInv
  <2> QED BY <1>2, <2>1 DEF Fresh, ToSet, Held
<1>5. Held(g0)' = Held(g0) \cup {e}
  <2>1. ASSUME NEW i \in 1 .. Len(list) PROVE i + 1 \in 1 .. Len(new) /\ new[i + 1] = list[i]
    <3>1. i + 1 \in 1 .. Len(new) /\ i + 1 # 1 /\ (i + 1) - 1 = i
      BY <1>0, <1>1
    <3> QED BY <1>1, <3>1
  <2>2. 1 \in 1 .. Len(new)
    BY <1>0, <1>1
  <2>3. \A x \in Held(g0)' : x \in Held(g0) \cup {e}
    BY <1>1, <1>3 DEF Held
  <2>4. \A x \in Held(g0) : x \in Held(g0)'
    BY <1>3, <2>1 DEF Held
  <2>5. e \in Held(g0)'
    BY <1>1, <1>3, <2>2 DEF Held
  <2> QED BY <2>3, <2>4, <2>5
<1>6. \A g \in Genvs : g # g0 => Held(g)' = Held(g)
  BY <1>3 DEF Held
<1>7. \A f \in live : hdll'[f] = hdll[f]
  BY <1>2, <1>4 DEF UseInv, UseTypes
<1>8. hdll'[e] = d
  BY <1>2 DEF UseInv, UseTypes
<1>9. \A x \in Held(g0) \cap live : hdll[x] # d
  <2>1. \A x \in Held(g0) : \E i \in DOMAIN list : list[i] = x
    BY <1>0 DEF Held
  <2> QED BY <2>1 DEF Found
<1>10. ASSUME NEW g \in Genvs, NEW x \in Held(g)' \cap live', NEW y \in Held(g)' \cap live',
              hdll'[x] = hdll'[y]
       PROVE  x = y
  <2>1. CASE g # g0
    BY <1>2, <1>4, <1>6, <1>7, <1>10, <2>1 DEF ListInv
  <2>2. CASE g = g0
    BY <1>2, <1>4, <1>5, <1>7, <1>8, <1>9, <1>10, <2>2 DEF ListInv
  <2> QED BY <2>1, <2>2
<1>11. ASSUME NEW x \in live' PROVE \E g \in Genvs : x \in Held(g)'
  <2>1. CASE x = e
    BY <1>0, <1>5, <2>1
  <2>2. CASE x \in live
    <3>1. PICK g \in Genvs : x \in Held(g)
      BY <2>2 DEF ListInv
    <3>2. x \in Held(g)'
      BY <1>5, <1>6, <3>1
    <3> QED BY <3>2
  <2> QED BY <1>2, <2>1, <2>2
<1>12. \A f, g \in Genvs : \A x \in Held(f)' : x \in Held(g)' => f = g
  BY <1>4, <1>5, <1>6 DEF ListInv
<1>13. ASSUME NEW g \in Genvs, NEW i \in 1 .. Len(envList'[g]), NEW j \in 1 .. Len(envList'[g]),
              envList'[g][i] = envList'[g][j]
       PROVE  i = j
  <2>1. CASE g # g0
    BY <1>3, <1>13, <2>1 DEF ListInv
  <2>2. CASE g = g0
    <3>1. i \in 1 .. Len(new) /\ j \in 1 .. Len(new) /\ new[i] = new[j]
      BY <1>3, <1>13, <2>2
    <3>2. \A k \in 1 .. Len(new) : k # 1 => k - 1 \in 1 .. Len(list) /\ new[k] = list[k - 1] /\ new[k] # e
      BY <1>0, <1>1, <1>4 DEF Held
    <3>3. CASE i = 1 \/ j = 1
      BY <1>1, <3>1, <3>2, <3>3
    <3>4. CASE i # 1 /\ j # 1
      <4>1. i - 1 \in 1 .. Len(list) /\ j - 1 \in 1 .. Len(list) /\ list[i - 1] = list[j - 1]
        BY <3>1, <3>2, <3>4
      <4>2. i - 1 = j - 1
        BY <1>0, <4>1 DEF ListInv
      <4> QED BY <1>0, <1>1, <3>1, <4>2
    <3> QED BY <3>3, <3>4
  <2> QED BY <2>1, <2>2
<1>14. ListInv'
  BY <1>3, <1>10, <1>11, <1>12, <1>13 DEF ListInv
<1> QED BY <1>5, <1>6, <1>14

(* The last connection's environment is freed: from the first two places   *)
(* of its list it is unlinked, from a later one it stays.                  *)
LEMMA ListShrinks ==
  ASSUME UseInv, ListInv, NEW g0 \in Genvs, NEW e \in Held(g0), e \in live,
         envList' = [envList EXCEPT ![g0] = Unlinked(@, e)],
         live' = live \ {e}, hdll' = [hdll EXCEPT ![e] = Null]
  PROVE  /\ ListInv'
         /\ \A g \in Genvs : Held(g) \ Held(g)' = Lost(g)
         /\ \A g \in Genvs : Held(g) \ {e} \subseteq Held(g)'
         /\ WalksForever(envList[g0], e) => e \in Held(g0)'
<1> DEFINE list == envList[g0]
           at   == Place(list, e)
           new  == RemoveAt(list, at)
<1>0. list \in Seq(Envs) /\ Len(list) \in Nat /\ DOMAIN list = 1 .. Len(list)
  BY DEF ListInv
<1>1. at \in 1 .. Len(list) /\ list[at] = e
  <2>1. \E i \in DOMAIN list : list[i] = e
    BY <1>0 DEF Held
  <2> QED BY <1>0, <2>1 DEF Place
<1>2. \A i, j \in 1 .. Len(list) : list[i] = list[j] => i = j
  BY DEF ListInv
<1>3. \A g \in Genvs : g # g0 => e \notin Held(g)
  BY DEF ListInv
<1>4. \A g \in Genvs : g # g0 => envList'[g] = envList[g] /\ Held(g)' = Held(g)
  BY DEF ListInv, Held
<1>5. /\ envList' \in [Genvs -> Seq(Envs)]
      /\ Held(g0)' = IF at <= 2 THEN Held(g0) \ {e} ELSE Held(g0)
      /\ \A i, j \in 1 .. Len(envList'[g0]) : envList'[g0][i] = envList'[g0][j] => i = j
  <2>1. CASE ~ (at <= 2)
    <3>1. envList' = envList
      BY <2>1 DEF Unlinked, ListInv
    <3> QED BY <1>2, <2>1, <3>1 DEF ListInv, Held
  <2>2. CASE at <= 2
    <3>1. /\ new \in Seq(Envs) /\ Len(new) = Len(list) - 1
          /\ \A j \in 1 .. Len(list) - 1 : new[j] = list[IF j < at THEN j ELSE j + 1]
      BY <1>0, <1>1, TakenOut
    <3>2. Unlinked(list, e) = new
      BY <2>2 DEF Unlinked
    <3> HIDE DEF new, at
    <3>3. envList' \in [Genvs -> Seq(Envs)] /\ envList'[g0] = new
      BY <3>1, <3>2 DEF ListInv
    <3>4. \A j \in 1 .. Len(new) :
            \E u \in 1 .. Len(list) : /\ u = (IF j < at THEN j ELSE j + 1)
                                      /\ u # at /\ new[j] = list[u]
      BY <1>0, <1>1, <3>1
    <3>5. Held(g0)' = Held(g0) \ {e}
      <4>1. ASSUME NEW x \in Held(g0)' PROVE x \in Held(g0) \ {e}
        <5>1. PICK j \in 1 .. Len(new) : x = new[j]
          BY <3>3, <4>1 DEF Held
        <5>2. PICK u \in 1 .. Len(list) : u # at /\ x = list[u]
          BY <3>4, <5>1
        <5>3. x # e
          BY <1>1, <1>2, <5>2
        <5> QED BY <5>2, <5>3 DEF Held
      <4>2. ASSUME NEW x \in Held(g0), x # e PROVE x \in Held(g0)'
        <5>1. PICK i \in 1 .. Len(list) : x = list[i]
          BY DEF Held
        <5>2. i # at
          BY <1>1, <4>2, <5>1
        <5>3. PICK j \in 1 .. Len(new) : new[j] = x
          <6>1. CASE i < at
            BY <1>0, <1>1, <3>1, <5>1, <6>1
          <6>2. CASE i > at
            <7>1. i - 1 \in 1 .. Len(list) - 1 /\ ~(i - 1 < at) /\ (i - 1) + 1 = i
              BY <1>0, <1>1, <6>2
            <7> QED BY <3>1, <5>1, <7>1
          <6> QED BY <1>0, <1>1, <5>2, <6>1, <6>2
        <5> QED BY <3>3, <5>3 DEF Held
      <4> QED BY <4>1, <4>2
    <3>6. ASSUME NEW i \in 1 .. Len(new), NEW j \in 1 .. Len(new), new[i] = new[j] PROVE i = j
      <4>1. PICK u \in 1 .. Len(list) : u = (IF i < at THEN i ELSE i + 1) /\ new[i] = list[u]
        BY <3>4
      <4>2. PICK v \in 1 .. Len(list) : v = (IF j < at THEN j ELSE j + 1) /\ new[j] = list[v]
        BY <3>4
      <4>3. u = v
        BY <1>2, <3>6, <4>1, <4>2
      <4> QED BY <1>0, <1>1, <3>1, <4>1, <4>2, <4>3
    <3> QED BY <2>2, <3>3, <3>5, <3>6 DEF at
  <2> QED BY <2>1, <2>2
<1>6. \A f \in live : f # e => hdll'[f] = hdll[f]
  BY DEF UseInv, UseTypes
<1>7. \A g \in Genvs : Held(g)' \subseteq Held(g) /\ Held(g) \ {e} \subseteq Held(g)'
  BY <1>4, <1>5
<1>8. \A g \in Genvs : \A x, y \in Held(g)' \cap live' : hdll'[x] = hdll'[y] => x = y
  BY <1>6, <1>7 DEF ListInv
<1>9. \A x \in live' : \E g \in Genvs : x \in Held(g)'
  BY <1>7 DEF ListInv
<1>10. \A f, g \in Genvs : \A x \in Held(f)' : x \in Held(g)' => f = g
  BY <1>7 DEF ListInv
<1>11. \A g \in Genvs : \A i, j \in 1 .. Len(envList'[g]) : envList'[g][i] = envList'[g][j] => i = j
  BY <1>4, <1>5 DEF ListInv
<1>12. ListInv'
  BY <1>5, <1>8, <1>9, <1>10, <1>11 DEF ListInv
<1>13. ASSUME NEW g \in Genvs PROVE Held(g) \ Held(g)' = Lost(g)
  <2>1. CASE g # g0
    <3>1. Lost(g) = {}
      BY <1>3, <2>1 DEF Lost
    <3> QED BY <1>4, <2>1, <3>1
  <2>2. CASE g = g0
    <3>1. Lost(g0) = IF at <= 2 THEN {e} ELSE {}
      BY DEF Lost
    <3> QED BY <1>5, <2>2, <3>1
  <2> QED BY <2>1, <2>2
<1>14. WalksForever(list, e) => e \in Held(g0)'
  BY <1>0, <1>1, <1>5 DEF WalksForever
<1> QED BY <1>7, <1>12, <1>13, <1>14

-----------------------------------------------------------------------------
LEMMA LinkUnchanged ==
  ASSUME LinkInv, UNCHANGED <<envList, live, hdll, henv, dhdbc>>
  PROVE  LinkInv' /\ \A g \in Genvs : Held(g)' = Held(g)
<1>1. ListInv' /\ \A g \in Genvs : Held(g)' = Held(g)
  BY ListsUnchanged DEF LinkInv
<1>2. \A h \in Handles : GenvOf[h] \in Genvs
  BY LoadAssumption
<1> QED BY <1>1, <1>2 DEF LinkInv

(* Where nothing is freed and no list loses anything, no walk goes wrong.  *)
LEMMA WalksKept ==
  ASSUME live \subseteq live', \A g \in Genvs : Held(g) \subseteq Held(g)',
         UNCHANGED fault
  PROVE  Walks
<1>1. live \ live' = {} /\ \A g \in Genvs : Held(g) \ Held(g)' = {}
  OBVIOUS
<1> QED BY <1>1 DEF Walks, Lost

(* A handle is given an environment of its list, one that may have just    *)
(* been put into it; nothing leaves a list.                                *)
LEMMA LinkGiven ==
  ASSUME UseInv, LinkInv, NEW h \in Handles, dhdbc[h] = Null, NEW e \in Envs,
         ListInv', \A g \in Genvs : Held(g) \subseteq Held(g)',
         henv' = [henv EXCEPT ![h] = e],
         \/ UNCHANGED dhdbc
         \/ e \in Held(GenvOf[h])' /\ \E d \in Drivers : dhdbc' = [dhdbc EXCEPT ![h] = d]
  PROVE  LinkInv'
<1>1. ASSUME NEW x \in Handles, dhdbc'[x] # Null PROVE henv'[x] \in Held(GenvOf[x])'
  <2>1. GenvOf[x] \in Genvs
    BY LoadAssumption
  <2>2. CASE x = h
    BY <1>1, <2>2 DEF UseInv, UseTypes
  <2>3. CASE x # h
    <3>1. dhdbc'[x] = dhdbc[x] /\ henv'[x] = henv[x]
      BY <2>3 DEF UseInv, UseTypes
    <3>2. henv[x] \in Held(GenvOf[x])
      BY <1>1, <3>1 DEF LinkInv
    <3> QED BY <2>1, <3>1, <3>2
  <2> QED BY <2>2, <2>3
<1> QED BY <1>1 DEF LinkInv

LEMMA LinkLoad ==
  ASSUME UseInv, LinkInv, NEW h \in Handles, NEW d \in Drivers, LoadFirst(h, d) \/ LoadFails(h, d)
  PROVE  LinkInv' /\ Walks
<1>1. dhdbc[h] = Null /\ UNCHANGED fault /\ GenvOf[h] \in Genvs
  BY LoadAssumption DEF LoadFirst, LoadFails, UseInv, UseTypes
<1>2. PICK u \in BOOLEAN, e \in Envs :
        \/ e \in Found(h, d) /\ Shared(h, d, e, u)
        \/ Found(h, d) = {} /\ First(h, d, e, u)
        \/ NoDriverConn(h, d, e, u) \/ NoDriverEnv(h, d, e, u)
  BY DEF LoadFirst, LoadFails
<1>3. CASE e \in Found(h, d) /\ Shared(h, d, e, u)
  <2>1. ListInv' /\ \A g \in Genvs : Held(g)' = Held(g)
    BY <1>3, ListsUnchanged DEF Shared, LinkInv
  <2>2. e \in Held(GenvOf[h])
    <3>1. DOMAIN envList[GenvOf[h]] = 1 .. Len(envList[GenvOf[h]])
      BY <1>1 DEF LinkInv, ListInv
    <3> QED BY <1>3, <3>1 DEF Found, Held
  <2>3. henv' = [henv EXCEPT ![h] = e] /\ dhdbc' = [dhdbc EXCEPT ![h] = d]
    BY <1>3 DEF Shared, AllocDriverConn
  <2>4. e \in Held(GenvOf[h])'
    BY <1>1, <2>1, <2>2
  <2>5. LinkInv'
    BY <1>1, <2>1, <2>3, <2>4, LinkGiven
  <2>6. live' = live
    BY <1>3 DEF Shared
  <2> QED BY <1>1, <2>1, <2>5, <2>6, WalksKept
<1>4. CASE Found(h, d) = {} /\ First(h, d, e, u)
  <2>1. /\ ListInv'
        /\ \A g \in Genvs : Held(g)' = IF g = GenvOf[h] THEN Held(g) \cup {e} ELSE Held(g)
    BY <1>4, ListGrows DEF First, LinkInv
  <2>2. henv' = [henv EXCEPT ![h] = e] /\ dhdbc' = [dhdbc EXCEPT ![h] = d]
    BY <1>4 DEF First, AllocDriverConn
  <2>3. e \in Held(GenvOf[h])' /\ \A g \in Genvs : Held(g) \subseteq Held(g)'
    BY <1>1, <2>1
  <2>4. LinkInv'
    BY <1>1, <2>1, <2>2, <2>3, LinkGiven
  <2>5. live' = live \cup {e}
    BY <1>4 DEF First, NewEnv
  <2> QED BY <1>1, <2>3, <2>4, <2>5, WalksKept
<1>5. CASE NoDriverConn(h, d, e, u)
  <2>1. ListInv' /\ \A g \in Genvs : Held(g) \subseteq Held(g)'
    <3>1. CASE UNCHANGED envs
      BY <3>1, ListsUnchanged DEF envs, LinkInv
    <3>2. CASE Found(h, d) = {} /\ NewEnv(h, d, e, 0)
      <4>1. /\ ListInv'
            /\ \A g \in Genvs : Held(g)' = IF g = GenvOf[h] THEN Held(g) \cup {e} ELSE Held(g)
        BY <3>2, ListGrows DEF LinkInv
      <4> QED BY <4>1
    <3> QED BY <1>5, <3>1, <3>2 DEF NoDriverConn
  <2>2. LinkInv'
    BY <1>1, <1>5, <2>1, LinkGiven DEF NoDriverConn
  <2>3. live \subseteq live'
    BY <1>5 DEF NoDriverConn, NewEnv, envs
  <2> QED BY <1>1, <2>1, <2>2, <2>3, WalksKept
<1>6. CASE NoDriverEnv(h, d, e, u)
  <2>1. ListInv' /\ \A g \in Genvs : Held(g)' = Held(g)
    BY <1>6, ListsUnchanged DEF NoDriverEnv, envs, LinkInv
  <2>2. LinkInv'
    BY <1>1, <1>6, <2>1, LinkGiven DEF NoDriverEnv
  <2>3. live' = live
    BY <1>6 DEF NoDriverEnv, envs
  <2> QED BY <1>1, <2>1, <2>2, <2>3, WalksKept
<1> QED BY <1>2, <1>3, <1>4, <1>5, <1>6

LEMMA LinkUnload ==
  ASSUME UseInv, UseInv', LinkInv,
         NEW h \in Handles, dhdbc[h] # Null, Unload(h),
         henv' \in {henv, [henv EXCEPT ![h] = Null]}
  PROVE  LinkInv' /\ Walks
<1>1. /\ henv[h] \in Held(GenvOf[h]) /\ GenvOf[h] \in Genvs /\ henv[h] \in live
      /\ dhdbc' = [dhdbc EXCEPT ![h] = Null]
  BY LoadAssumption DEF LinkInv, Unload, UseInv
<1>2. CASE refcount[henv[h]] = 1
  <2>1. /\ envList' = [envList EXCEPT ![GenvOf[h]] = Unlinked(@, henv[h])]
        /\ fault' = IF WalksForever(envList[GenvOf[h]], henv[h]) THEN "loop" ELSE fault
        /\ live' = live \ {henv[h]} /\ hdll' = [hdll EXCEPT ![henv[h]] = Null]
    BY <1>2 DEF Unload
  <2>2. /\ ListInv'
        /\ \A g \in Genvs : Held(g) \ Held(g)' = Lost(g)
        /\ \A g \in Genvs : Held(g) \ {henv[h]} \subseteq Held(g)'
        /\ WalksForever(envList[GenvOf[h]], henv[h]) => henv[h] \in Held(GenvOf[h])'
    BY <1>1, <2>1, ListShrinks DEF LinkInv
  <2>3. ASSUME NEW x \in Handles, dhdbc'[x] # Null PROVE henv'[x] \in Held(GenvOf[x])'
    <3>1. x # h /\ dhdbc[x] # Null /\ henv'[x] = henv[x] /\ henv'[x] \in live' /\ GenvOf[x] \in Genvs
      BY <1>1, <2>3, LoadAssumption DEF UseInv, UseTypes
    <3>2. henv[x] \in Held(GenvOf[x]) /\ henv[x] # henv[h]
      BY <2>1, <3>1 DEF LinkInv
    <3> QED BY <2>2, <3>1, <3>2
  <2>4. fault' = fault \/ \E g \in Genvs : ~ (Held(g)' \subseteq live')
    BY <1>1, <2>1, <2>2
  <2> QED BY <2>2, <2>3, <2>4 DEF LinkInv, Walks
<1>3. CASE refcount[henv[h]] # 1
  <2>1. UNCHANGED <<envList, live, hdll, fault>>
    BY <1>3 DEF Unload
  <2>2. ListInv' /\ \A g \in Genvs : Held(g)' = Held(g)
    BY <2>1, ListsUnchanged DEF LinkInv
  <2>3. ASSUME NEW x \in Handles, dhdbc'[x] # Null PROVE henv'[x] \in Held(GenvOf[x])'
    <3>1. dhdbc[x] # Null /\ henv'[x] = henv[x] /\ GenvOf[x] \in Genvs
      BY <1>1, <2>3, LoadAssumption DEF UseInv, UseTypes
    <3> QED BY <2>2, <3>1 DEF LinkInv
  <2>4. Walks
    BY <2>1, <2>2, WalksKept
  <2> QED BY <2>2, <2>3, <2>4 DEF LinkInv
<1> QED BY <1>2, <1>3

LEMMA LinkStep ==
  ASSUME LoadInv, Careful, LinkInv, [Next]_vars
  PROVE  LinkInv' /\ Walks
<1>0. UseInv /\ UseInv'
  BY UseStep DEF LoadInv
<1>1. ASSUME UNCHANGED <<envs, henv, dhdbc, fault>> PROVE LinkInv' /\ Walks
  <2>1. LinkInv' /\ (\A g \in Genvs : Held(g)' = Held(g)) /\ live' = live
    BY <1>1, LinkUnchanged DEF envs
  <2> QED BY <1>1, <2>1, WalksKept
<1>2. ASSUME NEW h \in Handles, NEW d \in Drivers, OpenFails(h, d) \/ LoadAgain(h, d)
      PROVE  LinkInv' /\ Walks
  BY <1>1, <1>2 DEF OpenFails, LoadAgain
<1>3. ASSUME NEW h \in Handles, NEW d \in Drivers, LoadOther(h, d) \/ LoadFreed(h, d)
      PROVE  LinkInv' /\ Walks
  <2>1. "switch" \notin liberties /\ "retry" \notin liberties
    BY DEF Careful
  <2>2. ~ WalkIsSafe(h, d) /\ UNCHANGED <<envs, henv, dhdbc>> /\ GenvOf[h] \in Genvs
    BY <1>3, <2>1, LoadAssumption DEF LoadOther, LoadFreed
  <2>3. LinkInv' /\ (\A g \in Genvs : Held(g)' = Held(g)) /\ live' = live
    BY <2>2, LinkUnchanged DEF envs
  <2>4. ~ (Held(GenvOf[h]) \subseteq live)
    <3>1. DOMAIN envList[GenvOf[h]] = 1 .. Len(envList[GenvOf[h]])
      BY <2>2 DEF LinkInv, ListInv
    <3> QED BY <2>2, <3>1 DEF WalkIsSafe, Held
  <2>5. \A g \in Genvs : Held(g) \ Held(g)' = Lost(g)
    <3>1. \A g \in Genvs : Lost(g) = {}
      BY <2>3 DEF Lost
    <3> QED BY <2>3, <3>1
  <2> QED BY <2>2, <2>3, <2>4, <2>5 DEF Walks
<1>4. ASSUME NEW h \in Handles, NoConnect(h) PROVE LinkInv' /\ Walks
  BY <1>0, <1>4, LinkUnload DEF NoConnect
<1>5. ASSUME NEW h \in Handles, FreeConnect(h) PROVE LinkInv' /\ Walks
  <2>1. CASE dhdbc[h] = Null
    <3>1. UNCHANGED <<envList, live, hdll, dhdbc, fault>> /\ henv' = [henv EXCEPT ![h] = Null]
      BY <1>5, <2>1 DEF FreeConnect, envs
    <3>2. ListInv' /\ \A g \in Genvs : Held(g)' = Held(g)
      BY <3>1, ListsUnchanged DEF LinkInv
    <3>3. ASSUME NEW x \in Handles, dhdbc'[x] # Null PROVE henv'[x] \in Held(GenvOf[x])'
      <4>1. dhdbc[x] # Null /\ henv'[x] = henv[x] /\ GenvOf[x] \in Genvs
        BY <1>0, <2>1, <3>1, <3>3, LoadAssumption DEF UseInv, UseTypes
      <4> QED BY <3>2, <4>1 DEF LinkInv
    <3>4. Walks
      BY <3>1, <3>2, WalksKept
    <3> QED BY <3>2, <3>3, <3>4 DEF LinkInv
  <2>2. CASE dhdbc[h] # Null
    BY <1>0, <1>5, <2>2, LinkUnload DEF FreeConnect
  <2> QED BY <2>1, <2>2
<1>6. ASSUME NEW h \in Handles, ConnectReturns(h) \/ Disconnect(h) \/ DisconnectReturns(h)
      PROVE  LinkInv' /\ Walks
  BY <1>1, <1>6 DEF ConnectReturns, Disconnect, DisconnectReturns, Back
<1>7. CASE UNCHANGED vars
  BY <1>1, <1>7 DEF vars, handles
<1>8. Active \subseteq Handles /\ Installed \subseteq Drivers
  BY LoadAssumption DEF Active, Installed
<1> QED BY <1>0, <1>2, <1>3, <1>4, <1>5, <1>6, <1>7, <1>8, LinkLoad DEF Next

(* The lists of environments of a careful application lose an environment  *)
(* only when it is freed, and then only from their first two places; each  *)
(* that is not freed is in one, and a driver has one in each.  No walk of  *)
(* a list meets a freed environment or has no end before one was freed     *)
(* from a later place, for any number of handles, drivers, application     *)
(* environments and calls.                                                 *)
THEOREM EnvsLinkedHolds == Spec => EnvsLinked
<1> DEFINE Good == Careful => LoadInv /\ LinkInv
<1>1. Init => Good
  BY LinkInit, LoadInit
<1>2. Good /\ [Next]_vars => Good'
  <2>1. Careful' /\ [Next]_vars => Careful
    BY DEF Careful, Next, vars
  <2> QED BY <2>1, LinkStep, LoadStep
<1>3. ASSUME ListInv PROVE \A g \in Genvs : ToSet(envList[g]) = Held(g)
  <2>1. \A g \in Genvs : DOMAIN envList[g] = 1 .. Len(envList[g])
    BY <1>3 DEF ListInv
  <2> QED BY <2>1 DEF ToSet, Held
<1>4. ASSUME ListInv' PROVE \A g \in Genvs : ToSet(envList[g])' = Held(g)'
  <2>1. \A g \in Genvs : DOMAIN envList'[g] = 1 .. Len(envList'[g])
    BY <1>4 DEF ListInv
  <2> QED BY <2>1 DEF ToSet, Held
<1> DEFINE Going(g)  == ToSet(envList[g]) \ ToSet(envList[g])'
           Living(g) == ToSet(envList[g])' \cap live'
           Ahead(g)  == {e \in live \ live' : e \in ToSet(envList[g]) /\ Place(envList[g], e) <= 2}
           Linked ==
             /\ live' = UNION {Living(g) : g \in Genvs}
             /\ \A g \in Genvs :
                  /\ Going(g) = Ahead(g)
                  /\ \A e, f \in Living(g) : hdll'[e] = hdll'[f] => e = f
             /\ fault' = fault \/ \E g \in Genvs : ~ (ToSet(envList[g])' \subseteq live')
<1>5. ASSUME Careful, LoadInv, LinkInv, [Next]_vars PROVE Linked
  <2>1. LinkInv' /\ Walks
    BY <1>5, LinkStep
  <2>2. /\ \A g \in Genvs : ToSet(envList[g]) = Held(g)
        /\ \A g \in Genvs : ToSet(envList[g])' = Held(g)'
    BY <1>3, <1>4, <1>5, <2>1 DEF LinkInv
  <2>3. \A g \in Genvs : Ahead(g) = Lost(g)
    BY <2>2 DEF Lost
  <2>4. \A g \in Genvs : Going(g) = Ahead(g)
    <3> HIDE DEF Ahead
    <3> QED BY <2>1, <2>2, <2>3 DEF Walks
  <2>5. live' = UNION {Living(g) : g \in Genvs}
    <3>1. \A x \in live' : \E g \in Genvs : x \in Living(g)
      BY <2>1, <2>2 DEF LinkInv, ListInv
    <3>2. \A g \in Genvs : Living(g) \subseteq live'
      OBVIOUS
    <3> HIDE DEF Living
    <3> QED BY <3>1, <3>2
  <2>6. \A g \in Genvs : \A e, f \in Living(g) : hdll'[e] = hdll'[f] => e = f
    BY <2>1, <2>2 DEF LinkInv, ListInv
  <2>7. fault' = fault \/ \E g \in Genvs : ~ (ToSet(envList[g])' \subseteq live')
    BY <2>1, <2>2 DEF Walks
  <2> HIDE DEF Going, Living, Ahead
  <2> QED BY <2>4, <2>5, <2>6, <2>7
<1>6. Good /\ [Next]_vars => [Careful => Linked]_vars
  BY <1>5
<1> QED BY <1>1, <1>2, <1>6, PTL DEF Spec, EnvsLinked
=============================================================================
