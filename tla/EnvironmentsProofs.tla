------------------------- MODULE EnvironmentsProofs -------------------------
(***************************************************************************)
(* What the driver is told of the application's version, and what          *)
(* SQLGetFunctions promises, and what an enumeration of the data sources   *)
(* or drivers answers, for any number of environments, pool and driver,    *)
(* and files of any size (module Environments).                            *)
(***************************************************************************)
EXTENDS Environments, FiniteSetTheorems, TLAPS

(* A handle that is connecting has a driver connection, one that is not    *)
(* allocated has none, and only an environment with a version has handles. *)
HandleInv ==
  /\ state \in States /\ dhdbc \in BOOLEAN /\ kept \in BOOLEAN /\ changed \in BOOLEAN
  /\ henv \in BOOLEAN
  /\ Main \notin alive => state = "none" /\ ~kept
  /\ state = "none" => ~dhdbc
  /\ state \in {"needdata", "connected"} => dhdbc
  /\ dhdbc => henv
  /\ state # "none" => odbc_ver # Unset

(* The driver's environment is counted by the handle's connection and by   *)
(* those in the pool, and while it is, has been told a version: the one in *)
(* force, or another was asked for while it was kept.                      *)
Mine == IF dhdbc THEN 1 ELSE 0

ToldInv ==
  /\ pdbc_pool \in Nat /\ refcount \in Nat /\ refcount >= pdbc_pool + Mine
  /\ refcount > 0 => told # Unset
  /\ ~changed => told \in {Unset, odbc_ver}
  /\ ~kept => pdbc_pool = 0 /\ refcount = Mine /\ (~dhdbc => told = Unset)

IInv == HandleInv /\ ToldInv

LEMMA InitInv == Init => IInv
<1> SUFFICES ASSUME Init PROVE IInv
  OBVIOUS
<1>1. HandleInv
  BY DEF Init, HandleInv, States
<1>2. pdbc_pool = 0 /\ refcount = 0 /\ Mine = 0 /\ told = Unset
  BY DEF Init, Mine
<1> QED BY <1>1, <1>2 DEF IInv, ToldInv

(* What the environments do to the connection. *)
LEMMA EnvironmentKeeps == ASSUME IInv, Environment PROVE IInv'
<1> USE EnvironmentsAssumption DEF IInv, HandleInv, ToldInv, States, Mine
<1>1. ASSUME NEW g \in Genvs, NEW v \in {2, Unset}, AllocEnv(g, v) PROVE IInv'
  <2>1. CASE g = Main
    BY <1>1, <2>1 DEF AllocEnv, conn
  <2>2. CASE g # Main
    BY <1>1, <2>2 DEF AllocEnv, conn
  <2> QED BY <2>1, <2>2
<1>2. ASSUME NEW g \in Genvs, FreeEnv(g) PROVE IInv'
  <2>1. CASE g = Main
    <3>1. /\ UNCHANGED <<state, henv, dhdbc>> /\ state = "none" /\ kept' = FALSE /\ changed' = FALSE
          /\ pdbc_pool' = 0 /\ refcount' = 0 /\ told' = Unset
      BY <1>2, <2>1 DEF FreeEnv
    <3>2. HandleInv'
      BY <3>1
    <3>3. Mine' = 0
      BY <3>1
    <3> HIDE DEF Mine
    <3> QED BY <3>1, <3>2, <3>3
  <2>2. CASE g # Main
    BY <1>2, <2>2 DEF FreeEnv, conn
  <2> QED BY <2>1, <2>2
<1>3. ASSUME NEW v \in {2, 3}, SetVersion(v) PROVE IInv'
  BY <1>3 DEF SetVersion
<1>4. ASSUME NEW on \in BOOLEAN, SetPooling(on) PROVE IInv'
  BY <1>4 DEF SetPooling, conn
<1> QED BY <1>1, <1>2, <1>3, <1>4 DEF Environment, SQLSetEnvAttr

(* The last connection takes the driver's environment with it. *)
LEMMA UnloadedKeeps ==
  ASSUME ToldInv, dhdbc, Unloaded, UNCHANGED <<odbc_ver, pdbc_pool, kept, changed>>
  PROVE  ToldInv' /\ dhdbc' = FALSE
<1>1. refcount' = refcount - 1 /\ dhdbc' = FALSE /\ told' = IF refcount' = 0 THEN Unset ELSE told
  BY DEF Unloaded, Unreferenced
<1>2. refcount' \in Nat /\ refcount' >= pdbc_pool' + Mine'
  BY <1>1 DEF ToldInv, Mine
<1> QED BY <1>1, <1>2 DEF ToldInv, Mine

(* A load makes one if there is none, and tells it the version. *)
LEMMA LoadKeeps ==
  ASSUME IInv, odbc_ver # Unset, Load, UNCHANGED <<odbc_ver, pdbc_pool, kept, changed>>
  PROVE  ToldInv' /\ dhdbc' \in BOOLEAN /\ henv' \in BOOLEAN /\ (dhdbc' => henv')
<1>1. CASE henv
  BY <1>1 DEF IInv, HandleInv, ToldInv, Mine, Load
<1>2. CASE ~henv
  <2>1. ~dhdbc /\ henv' = TRUE /\ dhdbc' = TRUE /\ refcount' = refcount + 1
        /\ told' = IF told = Unset THEN odbc_ver ELSE told
    BY <1>2 DEF Load, IInv, HandleInv
  <2> QED BY <2>1 DEF IInv, ToldInv, Mine
<1> QED BY <1>1, <1>2

LEMMA ConnectionKeeps == ASSUME IInv, Connection PROVE IInv'
<1> USE EnvironmentsAssumption DEF IInv, HandleInv, States
<1>1. CASE AllocConnect
  BY <1>1 DEF AllocConnect, ToldInv, Mine
<1>2. CASE FreeConnect
  <2>1. CASE dhdbc
    BY <1>2, <2>1, UnloadedKeeps DEF FreeConnect, envs
  <2>2. CASE ~dhdbc
    BY <1>2, <2>2 DEF FreeConnect, ToldInv, Mine, envs
  <2> QED BY <2>1, <2>2
<1>3. CASE LoadFails
  BY <1>3 DEF LoadFails, ToldInv, Mine, envs
<1>4. CASE BrowseConnect
  <2>1. CASE state = "allocated"
    <3>1. /\ Load /\ UNCHANGED <<envs, kept, changed, pdbc_pool>>
          /\ state' \in {"needdata", "connected", "allocated"} /\ (~dhdbc' => state' = "allocated")
      BY <1>4, <2>1 DEF BrowseConnect, Becomes, Answers
    <3> QED BY <2>1, <3>1, LoadKeeps DEF envs
  <2>2. CASE state # "allocated"
    BY <1>4, <2>2 DEF BrowseConnect, Becomes, Answers, ToldInv, Mine, envs
  <2> QED BY <2>1, <2>2
<1>5. CASE NoBrowseConnect
  BY <1>5, UnloadedKeeps DEF NoBrowseConnect, Becomes, envs
<1>6. CASE SQLConnect
  <2>1. /\ Load /\ UNCHANGED <<envs, kept, changed, pdbc_pool>> /\ state = "allocated"
        /\ state' \in {"connected", "allocated"} /\ (~dhdbc' => state' = "allocated")
    BY <1>6 DEF SQLConnect, Becomes, Answers
  <2> QED BY <2>1, LoadKeeps DEF envs
<1>7. CASE ConnectFromPool
  BY <1>7 DEF ConnectFromPool, ToldInv, Mine, envs
<1>8. CASE Disconnect
  BY <1>8 DEF Disconnect, Becomes, ToldInv, Mine, envs
<1>9. CASE DisconnectToPool
  <2>1. /\ dhdbc /\ state' = "allocated" /\ henv' = FALSE /\ dhdbc' = FALSE /\ kept' = TRUE
        /\ pdbc_pool' = pdbc_pool + 1 /\ UNCHANGED <<envs, refcount, told, changed>>
    BY <1>9 DEF DisconnectToPool
  <2>2. HandleInv'
    BY <2>1 DEF envs
  <2>3. Mine = 1 /\ Mine' = 0
    BY <2>1 DEF Mine
  <2>4. ToldInv'
    BY <2>1, <2>3 DEF ToldInv, envs
  <2> QED BY <2>2, <2>4
<1> QED
  BY <1>1, <1>2, <1>3, <1>4, <1>5, <1>6, <1>7, <1>8, <1>9 DEF Connection

LEMMA StepInv == ASSUME IInv, [Next]_vars PROVE IInv'
<1>1. CASE UNCHANGED <<envs, conn>>
  BY <1>1 DEF IInv, HandleInv, ToldInv, Mine, envs, conn
<1>2. CASE Environment
  BY <1>2, EnvironmentKeeps
<1>3. CASE Connection
  BY <1>3, ConnectionKeeps
<1> QED BY <1>1, <1>2, <1>3 DEF Next, vars

(* A connection is served by a driver environment that was told the        *)
(* version its application asks for, over pooled connections, loads that   *)
(* failed and connects tried again, unless another version was asked for   *)
(* while one of the first two kept the environment (_iodbcdm_driverload,   *)
(* _iodbcdm_driverunload, SQLSetEnvAttr).                                  *)
THEOREM VersionToldHolds == Spec => []VersionTold
<1>1. Init => IInv
  BY InitInv
<1>2. IInv /\ [Next]_vars => IInv'
  BY StepInv
<1>3. IInv => VersionTold
  BY DEF IInv, HandleInv, ToldInv, Mine, VersionTold
<1> QED BY <1>1, <1>2, <1>3, PTL DEF Spec

(* What SQLGetFunctions says is there can be called, for every driver,     *)
(* whatever it exports, of either version, and every application           *)
(* (SQLGetFunctions, _iodbcdm_getproc, SQLBindParameter_Internal).         *)
THEOREM SupportedCanBeCalled == FunctionsReach
<1> SUFFICES ASSUME NEW f \in Functions, NEW exports \in SUBSET Exportable,
                    NEW app \in {2, 3}, NEW ver \in {2, 3},
                    ~(ver = 2 /\ f = "mappedPaging"), GetFunctions(ver, f, exports)
             PROVE  Reaches(app, ver, f, exports)
  BY DEF FunctionsReach
<1>1. CASE f = "BindParam"
  BY <1>1 DEF GetFunctions, Reaches, Exported, SQLBindParam, SQLBindParameter_Internal
<1>2. CASE f = "SetParam"
  BY <1>2 DEF GetFunctions, Reaches, Exported, SQLSetParam, SQLBindParameter_Internal
<1>3. CASE f \notin {"BindParam", "SetParam"}
  BY <1>3 DEF GetFunctions, Reaches, Functions
<1> QED BY <1>1, <1>2, <1>3

-----------------------------------------------------------------------------
(* SQLDataSources and SQLDrivers.  A name identifies an entry of a list.   *)
Distinct(entries) == \A e, f \in entries : e[1] = f[1] => e = f

Rising(s) == \A i, j \in DOMAIN s : i < j => s[i][1] < s[j][1]

LEMMA EntryName == \A e \in Entries : e[1] \in Nat
<1>1. \A n \in Names \cup {Cut} : n \in Nat
  BY EnvironmentsAssumption DEF Cut
<1> QED BY <1>1 DEF Entries

(* There is one way to sort a list of distinct names: the place of each is *)
(* the number of names that do not come after it.                          *)
LEMMA SortedExists ==
  ASSUME NEW S \in SUBSET Entries, IsFiniteSet(S), Distinct(S)
  PROVE  \E s \in [1 .. Cardinality(S) -> S] :
           IsInjective(s) /\ \A i, j \in DOMAIN s : i < j => s[i][1] <= s[j][1]
<1> DEFINE n == Cardinality(S)
           Upto(e) == {f \in S : f[1] <= e[1]}
           place == [e \in S |-> Cardinality(Upto(e))]
<1>1. n \in Nat /\ IsFiniteSet(1 .. n) /\ Cardinality(1 .. n) = n
  BY FS_CardinalityType, FS_Interval
<1>2. \A e \in S : e[1] \in Nat
  BY EntryName
<1>3. ASSUME NEW e \in S
      PROVE  /\ Upto(e) \in SUBSET S /\ e \in Upto(e) /\ IsFiniteSet(Upto(e))
             /\ Cardinality(Upto(e)) \in 1 .. n
  <2>1. Upto(e) \in SUBSET S /\ e \in Upto(e)
    BY <1>2
  <2>2. IsFiniteSet(Upto(e)) /\ Cardinality(Upto(e)) <= n
    BY <2>1, FS_Subset
  <2>3. Cardinality(Upto(e)) \in Nat /\ Cardinality(Upto(e)) # 0
    BY <2>1, <2>2, FS_CardinalityType, FS_EmptySet
  <2> HIDE DEF Upto, n
  <2> QED BY <1>1, <2>1, <2>2, <2>3
<1>4. ASSUME NEW e \in S, NEW f \in S, e[1] < f[1] PROVE place[e] < place[f]
  <2>1. Upto(e) \in SUBSET Upto(f) /\ Upto(e) # Upto(f)
    <3>1. f \notin Upto(e)
      BY <1>2, <1>4
    <3>2. Upto(e) \subseteq Upto(f)
      BY <1>2, <1>4
    <3> QED BY <1>3, <3>1, <3>2
  <2>2. Cardinality(Upto(e)) <= Cardinality(Upto(f)) /\ Cardinality(Upto(e)) # Cardinality(Upto(f))
    BY <1>3, <2>1, FS_Subset
  <2>3. Cardinality(Upto(e)) \in Nat /\ Cardinality(Upto(f)) \in Nat
    BY <1>3, FS_CardinalityType
  <2> HIDE DEF Upto
  <2> QED BY <2>2, <2>3
<1>5. place \in [S -> 1 .. n]
  BY <1>3
<1> HIDE DEF place, Upto, n
<1>6. place \in Injection(S, 1 .. n)
  <2>1. ASSUME NEW e \in S, NEW f \in S, place[e] = place[f] PROVE e = f
    <3>1. place[e] \in Nat /\ place[f] \in Nat
      BY <1>1, <1>5
    <3>2. ~(e[1] < f[1]) /\ ~(f[1] < e[1])
      BY <1>4, <2>1, <3>1
    <3> QED BY <1>2, <3>2 DEF Distinct
  <2> QED BY <1>5, <2>1 DEF Injection, IsInjective
<1>7. place \in Surjection(S, 1 .. n)
  BY <1>1, <1>6, FS_Injection DEF n
<1> DEFINE s == [i \in 1 .. n |-> CHOOSE e \in S : place[e] = i]
<1>8. \A i \in 1 .. n : s[i] \in S /\ place[s[i]] = i
  BY <1>7 DEF Surjection
<1>9. s \in [1 .. n -> S] /\ DOMAIN s = 1 .. n
  BY <1>8
<1> HIDE DEF s
<1>10. IsInjective(s)
  BY <1>8, <1>9 DEF IsInjective
<1>11. ASSUME NEW i \in 1 .. n, NEW j \in 1 .. n, i < j PROVE s[i][1] <= s[j][1]
  <2>1. ~(s[j][1] < s[i][1])
    BY <1>1, <1>4, <1>8, <1>11
  <2> QED BY <1>2, <1>8, <2>1
<1> QED BY <1>9, <1>10, <1>11 DEF n

LEMMA SortedIs ==
  ASSUME NEW S \in SUBSET Entries, IsFiniteSet(S), Distinct(S)
  PROVE  /\ Sorted(S) \in Seq(Entries) /\ ToSet(Sorted(S)) = S /\ Rising(Sorted(S))
         /\ Len(Sorted(S)) = Cardinality(S)
<1> DEFINE n == Cardinality(S)
           s == Sorted(S)
<1>1. s \in [1 .. n -> S] /\ IsInjective(s) /\ \A i, j \in DOMAIN s : i < j => s[i][1] <= s[j][1]
  BY SortedExists DEF Sorted
<1>2. n \in Nat /\ IsFiniteSet(1 .. n) /\ Cardinality(1 .. n) = n
  BY FS_CardinalityType, FS_Interval
<1> HIDE DEF s
<1>3. s \in Injection(1 .. n, S)
  BY <1>1 DEF Injection, IsInjective
<1>4. s \in Surjection(1 .. n, S)
  BY <1>2, <1>3, FS_Injection
<1> HIDE DEF n
<1>5. s \in Seq(Entries)
  BY <1>1, <1>2
<1>6. ToSet(s) = S /\ Len(s) = n
  BY <1>1, <1>2, <1>4, <1>5 DEF Surjection, ToSet
<1>7. ASSUME NEW i \in DOMAIN s, NEW j \in DOMAIN s, i < j PROVE s[i][1] < s[j][1]
  <2>1. s[i][1] <= s[j][1] /\ s[i] \in S /\ s[j] \in S /\ i \in 1 .. n /\ j \in 1 .. n
    BY <1>1, <1>7
  <2>2. i # j
    BY <1>2, <1>7, <2>1
  <2>3. s[i] # s[j]
    BY <1>1, <2>2 DEF IsInjective
  <2>4. s[i][1] # s[j][1]
    BY <2>1, <2>3 DEF Distinct
  <2>5. s[i][1] \in Nat /\ s[j][1] \in Nat
    BY <2>1, EntryName
  <2> QED BY <2>1, <2>4, <2>5
<1> QED BY <1>5, <1>6, <1>7 DEF s, n, Rising

LEMMA MinIs ==
  ASSUME NEW a \in Nat, NEW b \in Nat
  PROVE  Min({a, b}) = IF a <= b THEN a ELSE b
<1> DEFINE c == IF a <= b THEN a ELSE b
<1>1. c \in {a, b} /\ \A y \in {a, b} : c <= y
  OBVIOUS
<1>2. \A x \in {a, b} : (\A y \in {a, b} : x <= y) => x = c
  OBVIOUS
<1> QED BY <1>1, <1>2 DEF Min

LEMMA FirstOfIs ==
  ASSUME NEW S, IsFiniteSet(S), NEW k \in Nat, NEW e \in FirstOf(S, k)
  PROVE  /\ e \subseteq S /\ IsFiniteSet(e) /\ Cardinality(S) \in Nat
         /\ Cardinality(e) = IF k <= Cardinality(S) THEN k ELSE Cardinality(S)
         /\ Cardinality(S) <= k => e = S
<1>1. e \subseteq S /\ IsFiniteSet(e) /\ Cardinality(S) \in Nat
  BY FS_Subset, FS_CardinalityType DEF FirstOf
<1>2. Cardinality(e) = Min({k, Cardinality(S)})
  BY DEF FirstOf
<1>3. Cardinality(e) = IF k <= Cardinality(S) THEN k ELSE Cardinality(S)
  BY <1>1, <1>2, MinIs
<1>4. Cardinality(S) <= k => Cardinality(e) = Cardinality(S)
  BY <1>1, <1>3
<1>5. Cardinality(S) <= k => e = S
  BY <1>1, <1>4, FS_Subset
<1> QED BY <1>1, <1>3, <1>5

LEMMA SectionIs == ASSUME NEW s PROVE IsFiniteSet(Section(s)) /\ Section(s) \subseteq Names
BY FS_Subset, EnvironmentsAssumption DEF Section

(* What is read of a section, and wholly if it does not fill the buffer.   *)
LEMMA ReadIs ==
  ASSUME NEW s, NEW names \in Read(s)
  PROVE  /\ names \subseteq Names \cup {Cut} /\ IsFiniteSet(names)
         /\ Cardinality(Section(s)) < Room => names = Section(s)
<1>1. PICK n \in FirstOf(Section(s), Room),
           end \in SUBSET (IF Cardinality(Section(s)) < Room THEN {} ELSE {Cut}) :
        names = n \cup end
  BY DEF Read
<1>2. /\ n \subseteq Section(s) /\ IsFiniteSet(n) /\ Cardinality(Section(s)) \in Nat
      /\ Cardinality(Section(s)) <= Room => n = Section(s)
  BY SectionIs, FirstOfIs, EnvironmentsAssumption
<1>3. IsFiniteSet({Cut})
  BY FS_Singleton
<1>4. end \subseteq {Cut} /\ IsFiniteSet(end)
  BY <1>3, FS_Subset
<1>5. IsFiniteSet(names)
  BY <1>1, <1>2, <1>4, FS_Union
<1> QED BY <1>1, <1>2, <1>4, <1>5, SectionIs, EnvironmentsAssumption

LEMMA ListedIs ==
  ASSUME NEW s \in Scopes, NEW names, names \subseteq Names \cup {Cut}, IsFiniteSet(names)
  PROVE  /\ Listed(s, names) \in SUBSET Entries /\ IsFiniteSet(Listed(s, names))
         /\ \A e \in Listed(s, names) : e = <<e[1], s>> /\ e[2] = s
<1>1. \A e \in Listed(s, names) : \E n \in names : e = <<n, s>>
  BY DEF Listed
<1>2. \A e \in Listed(s, names) : e = <<e[1], s>> /\ e[1] \in names
  BY <1>1
<1> DEFINE name == [e \in Listed(s, names) |-> e[1]]
<1>3. name \in Injection(Listed(s, names), names)
  BY <1>2 DEF Injection, IsInjective
<1>4. IsFiniteSet(Listed(s, names))
  BY <1>3, FS_Injection
<1> QED BY <1>2, <1>4 DEF Entries

(* The entries a file has.                                                 *)
In(s) == {e \in Entries : /\ e[2] = s /\ e[1] \in Section(s)
                          /\ what = "drivers" => files[s][e[1]] = "Installed"}

LEMMA ListedIn == ASSUME NEW s \in Scopes PROVE Listed(s, Section(s)) = In(s)
<1>1. \A n \in Section(s) : n # Cut /\ n \in Names
  BY EnvironmentsAssumption DEF Section, Cut
<1>2. \A e \in Entries : e = <<e[1], e[2]>>
  BY DEF Entries
<1>3. ASSUME NEW e \in Listed(s, Section(s)) PROVE e \in In(s)
  <2>1. PICK n \in Section(s) : e = <<n, s>> /\ (what = "drivers" => files[s][n] = "Installed")
    BY DEF Listed
  <2>2. e[1] = n /\ e[2] = s /\ e \in Entries
    BY <1>1, <2>1 DEF Entries
  <2> QED BY <2>1, <2>2 DEF In
<1>4. ASSUME NEW e \in In(s) PROVE e \in Listed(s, Section(s))
  <2>1. e = <<e[1], s>> /\ e[1] \in Section(s) /\ (what = "drivers" => files[s][e[1]] = "Installed")
    BY <1>2 DEF In
  <2> QED BY <1>1, <2>1 DEF Listed
<1> QED BY <1>3, <1>4

(* What is in the list after each FIRST: the user's entries, and, after    *)
(* them, those the system's file has more.                                 *)
LEMMA FoundIs ==
  ASSUME NEW d, NEW found \in Found(d)
  PROVE  \/ /\ d # "FIRST_SYSTEM"
            /\ \E names \in Read("user") : found \in FirstOf(Listed("user", names), MaxEntries)
         \/ /\ d = "FIRST"
            /\ \E names \in Read("user"), others \in Read("system") :
               \E l \in FirstOf(Listed("user", names), MaxEntries) :
               \E e \in FirstOf(Lacked(l, Listed("system", others)), MaxEntries - Cardinality(l)) :
                 found = l \cup e
         \/ /\ d = "FIRST_SYSTEM"
            /\ \E others \in Read("system") :
               \E e \in FirstOf(Lacked({}, Listed("system", others)), MaxEntries) : found = e
<1>1. CASE d = "FIRST"
  BY <1>1 DEF Found
<1>2. CASE d = "FIRST_SYSTEM"
  <2>1. PICK others \in Read("system") :
          \E e \in FirstOf(Lacked({}, Listed("system", others)), MaxEntries - Cardinality({})) :
            found = {} \cup e
    BY <1>2 DEF Found
  <2>2. MaxEntries - Cardinality({}) = MaxEntries
    BY FS_EmptySet, EnvironmentsAssumption
  <2> QED BY <1>2, <2>1, <2>2
<1>3. CASE d \notin {"FIRST", "FIRST_SYSTEM"}
  BY <1>3 DEF Found
<1> QED BY <1>1, <1>2, <1>3

(* What is put after entries of the user's.                                *)
LEMMA AddedIs ==
  ASSUME NEW others \in Read("system"), NEW l, IsFiniteSet(l), Cardinality(l) \in Nat,
         Cardinality(l) <= MaxEntries,
         NEW e \in FirstOf(Lacked(l, Listed("system", others)), MaxEntries - Cardinality(l))
  PROVE  /\ e \in SUBSET Entries /\ IsFiniteSet(e) /\ \A x \in e : x = <<x[1], "system">> /\ x[2] = "system"
         /\ \A x \in e : <<x[1], "user">> \notin l
         /\ IsFiniteSet(Lacked(l, Listed("system", others)))
<1>1. /\ Listed("system", others) \in SUBSET Entries /\ IsFiniteSet(Listed("system", others))
      /\ \A x \in Listed("system", others) : x = <<x[1], "system">> /\ x[2] = "system"
  BY ReadIs, ListedIs DEF Scopes
<1>2. /\ Lacked(l, Listed("system", others)) \subseteq Listed("system", others)
      /\ \A x \in Lacked(l, Listed("system", others)) : <<x[1], "user">> \notin l
  BY DEF Lacked
<1>3. IsFiniteSet(Lacked(l, Listed("system", others)))
  BY <1>1, <1>2, FS_Subset
<1>4. MaxEntries - Cardinality(l) \in Nat
  BY EnvironmentsAssumption
<1>5. e \subseteq Lacked(l, Listed("system", others)) /\ IsFiniteSet(e)
  BY <1>3, <1>4, FirstOfIs
<1> QED BY <1>1, <1>2, <1>3, <1>5

LEMMA UsersIs ==
  ASSUME NEW names \in Read("user"), NEW l \in FirstOf(Listed("user", names), MaxEntries)
  PROVE  /\ l \in SUBSET Entries /\ IsFiniteSet(l) /\ \A x \in l : x = <<x[1], "user">> /\ x[2] = "user"
         /\ Cardinality(l) \in Nat /\ Cardinality(l) <= MaxEntries
         /\ IsFiniteSet(Listed("user", names))
<1>1. /\ Listed("user", names) \in SUBSET Entries /\ IsFiniteSet(Listed("user", names))
      /\ \A x \in Listed("user", names) : x = <<x[1], "user">> /\ x[2] = "user"
  BY ReadIs, ListedIs DEF Scopes
<1>2. /\ l \subseteq Listed("user", names) /\ IsFiniteSet(l) /\ Cardinality(Listed("user", names)) \in Nat
      /\ Cardinality(l) = IF MaxEntries <= Cardinality(Listed("user", names))
                            THEN MaxEntries ELSE Cardinality(Listed("user", names))
  BY <1>1, FirstOfIs, EnvironmentsAssumption
<1>3. Cardinality(l) \in Nat /\ Cardinality(l) <= MaxEntries
  BY <1>2, EnvironmentsAssumption
<1> QED BY <1>1, <1>2, <1>3

LEMMA FoundDistinct ==
  ASSUME NEW d, NEW found \in Found(d)
  PROVE  found \in SUBSET Entries /\ IsFiniteSet(found) /\ Distinct(found)
<1>1. CASE \E names \in Read("user") : found \in FirstOf(Listed("user", names), MaxEntries)
  BY <1>1, UsersIs DEF Distinct
<1>2. ASSUME NEW names \in Read("user"), NEW others \in Read("system"),
             NEW l \in FirstOf(Listed("user", names), MaxEntries),
             NEW e \in FirstOf(Lacked(l, Listed("system", others)), MaxEntries - Cardinality(l)),
             found = l \cup e
      PROVE  found \in SUBSET Entries /\ IsFiniteSet(found) /\ Distinct(found)
  <2>1. /\ l \in SUBSET Entries /\ IsFiniteSet(l) /\ \A x \in l : x = <<x[1], "user">>
        /\ Cardinality(l) \in Nat /\ Cardinality(l) <= MaxEntries
    BY UsersIs
  <2>2. /\ e \in SUBSET Entries /\ IsFiniteSet(e) /\ \A x \in e : x = <<x[1], "system">>
        /\ \A x \in e : <<x[1], "user">> \notin l
    BY <2>1, AddedIs
  <2>3. IsFiniteSet(found)
    BY <1>2, <2>1, <2>2, FS_Union
  <2>4. ASSUME NEW x \in found, NEW y \in found, x[1] = y[1] PROVE x = y
    <3>1. x \in l \/ x \in e
      BY <1>2
    <3>2. y \in l \/ y \in e
      BY <1>2
    <3> QED BY <2>1, <2>2, <2>4, <3>1, <3>2
  <2> QED BY <1>2, <2>1, <2>2, <2>3, <2>4 DEF Distinct
<1>3. ASSUME NEW others \in Read("system"),
             NEW e \in FirstOf(Lacked({}, Listed("system", others)), MaxEntries), found = e
      PROVE  found \in SUBSET Entries /\ IsFiniteSet(found) /\ Distinct(found)
  <2>1. IsFiniteSet({}) /\ Cardinality({}) = 0 /\ MaxEntries - 0 = MaxEntries /\ 0 <= MaxEntries
    BY FS_EmptySet, EnvironmentsAssumption
  <2>2. /\ e \in SUBSET Entries /\ IsFiniteSet(e) /\ \A x \in e : x = <<x[1], "system">>
    BY <2>1, AddedIs
  <2> QED BY <1>3, <2>2 DEF Distinct
<1> QED BY <1>1, <1>2, <1>3, FoundIs

(* What a list answers of the entries that are due.                        *)
UsersFirst(es, due) ==
  \A e, f \in due : e[2] = "system" /\ f[2] = "user" /\ e \in es => f \in es

Serves(es, n, due) ==
  es \subseteq due /\ n = Min({MaxEntries, Cardinality(due)}) /\ UsersFirst(es, due)

(* One file's entries, wholly read.                                        *)
LEMMA OneFileServes ==
  ASSUME NEW s \in Scopes, NEW found \in FirstOf(In(s), MaxEntries), IsFiniteSet(In(s))
  PROVE  Serves(found, Cardinality(found), In(s))
<1>1. found \subseteq In(s)
  BY DEF FirstOf
<1>2. Cardinality(found) = Min({MaxEntries, Cardinality(In(s))})
  BY DEF FirstOf
<1>3. \A e, f \in In(s) : e[2] = f[2]
  BY DEF In
<1>4. UsersFirst(found, In(s))
  BY <1>3 DEF UsersFirst
<1> QED BY <1>1, <1>2, <1>4 DEF Serves

LEMMA DisjointCount ==
  ASSUME NEW S, IsFiniteSet(S), NEW T, IsFiniteSet(T), S \cap T = {}
  PROVE  Cardinality(S \cup T) = Cardinality(S) + Cardinality(T)
<1>1. Cardinality(S \cup T) = Cardinality(S) + Cardinality(T) - Cardinality(S \cap T)
  BY FS_Union
<1>2. Cardinality(S \cap T) = 0 /\ Cardinality(S) \in Nat /\ Cardinality(T) \in Nat
  BY FS_EmptySet, FS_CardinalityType
<1> QED BY <1>1, <1>2

(* Both files, wholly read.                                                *)
LEMMA BothFilesServe ==
  ASSUME NEW U \in SUBSET Entries, NEW Y \in SUBSET Entries, IsFiniteSet(U), IsFiniteSet(Y),
         \A x \in U : x[2] = "user", \A x \in Y : x[2] = "system",
         NEW l \in FirstOf(U, MaxEntries),
         NEW e \in FirstOf(Lacked(l, Y), MaxEntries - Cardinality(l))
  PROVE  Serves(l \cup e, Cardinality(l \cup e), U \cup Lacked(U, Y))
<1> DEFINE W == Lacked(U, Y)
           due == U \cup W
           M == MaxEntries
<1>1. /\ l \subseteq U /\ IsFiniteSet(l) /\ Cardinality(U) \in Nat /\ M \in Nat
      /\ Cardinality(l) = IF M <= Cardinality(U) THEN M ELSE Cardinality(U)
      /\ Cardinality(U) <= M => l = U
  BY FirstOfIs, EnvironmentsAssumption
<1>2. W \subseteq Y /\ IsFiniteSet(W) /\ Cardinality(W) \in Nat
  BY FS_Subset, FS_CardinalityType DEF Lacked
<1>3. Lacked(l, Y) \subseteq Y /\ IsFiniteSet(Lacked(l, Y))
  BY FS_Subset DEF Lacked
<1>4. M - Cardinality(l) \in Nat
  BY <1>1
<1>5. /\ e \subseteq Lacked(l, Y) /\ IsFiniteSet(e) /\ Cardinality(Lacked(l, Y)) \in Nat
      /\ Cardinality(e) = IF M - Cardinality(l) <= Cardinality(Lacked(l, Y))
                            THEN M - Cardinality(l) ELSE Cardinality(Lacked(l, Y))
  BY <1>3, <1>4, FirstOfIs
<1>6. U \cap W = {} /\ l \cap e = {}
  BY <1>1, <1>2, <1>3, <1>5
<1>7. Cardinality(due) = Cardinality(U) + Cardinality(W)
  BY <1>2, <1>6, DisjointCount
<1>8. Cardinality(l \cup e) = Cardinality(l) + Cardinality(e)
  BY <1>1, <1>5, <1>6, DisjointCount
<1> HIDE DEF W
<1>9. Min({M, Cardinality(due)}) = IF M <= Cardinality(due) THEN M ELSE Cardinality(due)
  <2>1. Cardinality(due) \in Nat /\ M \in Nat
    BY <1>1, <1>2, <1>7
  <2> HIDE DEF due, M
  <2> QED BY <2>1, MinIs
<1>10. \A x \in due : x[2] = "user" <=> x \in U
  BY <1>2
<1>11. CASE Cardinality(U) <= M
  <2>1. l = U /\ Lacked(l, Y) = W
    BY <1>1, <1>11 DEF W
  <2>2. Cardinality(l \cup e) = Min({M, Cardinality(due)})
    BY <1>1, <1>2, <1>5, <1>7, <1>8, <1>9, <2>1
  <2>3. l \cup e \subseteq due /\ U \subseteq l \cup e
    BY <1>5, <2>1
  <2>4. UsersFirst(l \cup e, due)
    BY <1>10, <2>3 DEF UsersFirst
  <2> QED BY <2>2, <2>3, <2>4 DEF Serves, W
<1>12. CASE ~(Cardinality(U) <= M)
  <2>1. Cardinality(l) = M /\ Cardinality(e) = 0
    BY <1>1, <1>5, <1>12
  <2>2. e = {}
    BY <1>5, <2>1, FS_EmptySet
  <2>3. l \cup e = l /\ Cardinality(l \cup e) = M
    BY <2>1, <2>2
  <2>4. Min({M, Cardinality(due)}) = M
    BY <1>1, <1>2, <1>7, <1>9, <1>12
  <2>5. \A x \in l \cup e : x[2] = "user"
    BY <1>1, <2>3
  <2>6. UsersFirst(l \cup e, due)
    BY <2>5 DEF UsersFirst
  <2> QED BY <1>1, <2>3, <2>4, <2>6 DEF Serves, W
<1> QED BY <1>11, <1>12

(* What is put in the list of wholly read files serves what is due.        *)
LEMMA FoundServes ==
  ASSUME NEW d \in Directions \ {"NEXT"}, Whole(d), NEW found \in Found(d)
  PROVE  Serves(found, Cardinality(found), Due(d))
<1>1. ASSUME NEW s \in Scopes, NEW names \in Read(s), Cardinality(Section(s)) < Room
      PROVE  Listed(s, names) = In(s)
  BY <1>1, ReadIs, ListedIn
<1>2. ASSUME NEW s \in Scopes PROVE IsFiniteSet(In(s)) /\ \A x \in In(s) : x[2] = s
  <2>1. IsFiniteSet(Section(s)) /\ Section(s) \subseteq Names \cup {Cut}
    BY SectionIs
  <2>2. IsFiniteSet(Listed(s, Section(s)))
    BY <2>1, ListedIs
  <2> QED BY <2>2, ListedIn DEF In
<1>3. \A s : In(s) \in SUBSET Entries
  BY DEF In
<1>4. \A e \in Entries : e = <<e[1], e[2]>> /\ \A s \in Scopes : <<e[1], s>> \in Entries
  BY DEF Entries
<1>5. CASE d = "FIRST"
  <2>1. Cardinality(Section("user")) < Room /\ Cardinality(Section("system")) < Room
    BY <1>5 DEF Whole, Scopes
  <2>2. PICK names \in Read("user"), others \in Read("system") :
        \E l \in FirstOf(Listed("user", names), MaxEntries) :
        \E e \in FirstOf(Lacked(l, Listed("system", others)), MaxEntries - Cardinality(l)) :
          found = l \cup e
    BY <1>5 DEF Found
  <2>3. Listed("user", names) = In("user") /\ Listed("system", others) = In("system")
    BY <1>1, <2>1 DEF Scopes
  <2>4. Serves(found, Cardinality(found), In("user") \cup Lacked(In("user"), In("system")))
    BY <1>2, <1>3, <2>2, <2>3, BothFilesServe DEF Scopes
  <2>5. ASSUME NEW e \in Entries
        PROVE  <<e[1], "user">> \in In("user") <=> \E f \in In("user") : f[1] = e[1]
    <3>1. ASSUME <<e[1], "user">> \in In("user") PROVE \E f \in In("user") : f[1] = e[1]
      <4>1. <<e[1], "user">>[1] = e[1]
        OBVIOUS
      <4> QED BY <3>1, <4>1
    <3>2. ASSUME NEW f \in In("user"), f[1] = e[1] PROVE <<e[1], "user">> \in In("user")
      <4>1. f = <<e[1], "user">>
        BY <1>4, <3>2 DEF In
      <4> QED BY <4>1
    <3> QED BY <3>1, <3>2
  <2>6. Due(d) = {e \in Entries : \/ e \in In("user")
                                  \/ e \in In("system") /\ ~ \E f \in In("user") : f[1] = e[1]}
    BY <1>5 DEF Due, In
  <2>7. Due(d) = In("user") \cup Lacked(In("user"), In("system"))
    BY <1>3, <2>5, <2>6 DEF Lacked
  <2> QED BY <2>4, <2>7
<1>6. CASE d = "FIRST_USER"
  <2>1. PICK names \in Read("user") : found \in FirstOf(Listed("user", names), MaxEntries)
    BY <1>6 DEF Found
  <2>2. Listed("user", names) = In("user") /\ Due(d) = In("user")
    BY <1>1, <1>6 DEF Whole, Scopes, Due, In
  <2> QED BY <1>2, <2>1, <2>2, OneFileServes DEF Scopes
<1>7. CASE d = "FIRST_SYSTEM"
  <2>1. PICK others \in Read("system") :
        found \in FirstOf(Lacked({}, Listed("system", others)), MaxEntries)
    BY <1>7, FoundIs
  <2>2. Listed("system", others) = In("system") /\ Due(d) = In("system")
    BY <1>1, <1>7 DEF Whole, Scopes, Due, In
  <2>3. Lacked({}, In("system")) = In("system")
    BY DEF Lacked
  <2> QED BY <1>2, <2>1, <2>2, <2>3, OneFileServes DEF Scopes
<1> QED BY <1>5, <1>6, <1>7 DEF Directions

(* The list is in order, and the enumeration that is followed has answered *)
(* it up to the position, or wholly.                                       *)
LoopInv ==
  /\ list \in Seq(Entries) /\ Rising(list)
  /\ cur_entry \in {-1} \cup (0 .. Len(list))
  /\ loop \in [due : SUBSET Entries, whole : BOOLEAN, got : Seq(Entries), ended : BOOLEAN]
  /\ loop # NoLoop =>
       /\ cur_entry # -1
       /\ loop.got = IF loop.ended THEN list ELSE [i \in 1 .. cur_entry |-> list[i]]
       /\ loop.whole => Serves(ToSet(list), Len(list), loop.due)

LEMMA InitLoop == Init => LoopInv
<1> SUFFICES ASSUME Init PROVE LoopInv
  OBVIOUS
<1>1. list = <<>> /\ cur_entry = -1 /\ loop = NoLoop
  BY DEF Init
<1>2. list \in Seq(Entries) /\ DOMAIN list = {}
  BY <1>1
<1> QED BY <1>1, <1>2 DEF LoopInv, Rising, NoLoop

(* The list a call works on, and its position.                             *)
LEMMA ListIs ==
  ASSUME LoopInv, NEW d \in Directions, NEW l \in Lists(d)
  PROVE  /\ l \in Seq(Entries) /\ Rising(l) /\ StartsAt(d) \in 0 .. Len(l)
         /\ d # "NEXT" => StartsAt(d) = 0 /\ (Whole(d) => Serves(ToSet(l), Len(l), Due(d)))
<1>1. CASE Rebuilds(d)
  <2>1. PICK found \in Found(d) : l = Sorted(found)
    BY <1>1 DEF Lists
  <2>2. /\ l \in Seq(Entries) /\ ToSet(l) = found /\ Rising(l) /\ Len(l) = Cardinality(found)
    BY <2>1, FoundDistinct, SortedIs
  <2>3. d # "NEXT" /\ Whole(d) => Serves(ToSet(l), Len(l), Due(d))
    BY <2>2, FoundServes
  <2>4. Len(l) \in Nat /\ StartsAt(d) = 0
    BY <1>1, <2>2 DEF StartsAt
  <2> QED BY <2>2, <2>3, <2>4
<1>2. CASE ~Rebuilds(d)
  BY <1>2 DEF Lists, StartsAt, LoopInv, Rebuilds
<1> QED BY <1>1, <1>2

(* A call goes on with the enumeration that is followed by one entry,      *)
(* begins another one, or gives it up.                                     *)
LEMMA EnumerateKeeps ==
  ASSUME LoopInv, NEW d \in Directions, Enumerate(d)
  PROVE  LoopInv'
<1>0. PICK l \in Lists(d) :
        /\ list' = l
        /\ cur_entry' = IF StartsAt(d) >= Len(l) THEN 0 ELSE StartsAt(d) + 1
        /\ Follow(d, l, StartsAt(d))
  BY DEF Enumerate
<1> DEFINE at == StartsAt(d)
           more == IF at < Len(l) THEN <<l[at + 1]>> ELSE <<>>
<1>1. l \in Seq(Entries) /\ Rising(l) /\ at \in 0 .. Len(l)
  BY ListIs
<1>2. list' = l /\ cur_entry' = (IF at >= Len(l) THEN 0 ELSE at + 1) /\ Follow(d, l, at)
  BY <1>0
<1>4. d # "NEXT" => at = 0 /\ (Whole(d) => Serves(ToSet(l), Len(l), Due(d)))
  BY ListIs
<1>5. loop' = CASE d # "NEXT" -> [due |-> Due(d), whole |-> Whole(d), got |-> more, ended |-> more = <<>>]
                [] d = "NEXT" /\ ~loop.ended ->
                     [loop EXCEPT !.got = @ \o more, !.ended = more = <<>>]
                [] OTHER -> NoLoop
  BY <1>2 DEF Follow
<1>6. ~Rebuilds(d) => l = list /\ at = cur_entry
  BY DEF Lists, StartsAt
<1> HIDE DEF at
<1>7. Len(l) \in Nat /\ at \in Nat /\ at <= Len(l) /\ DOMAIN l = 1 .. Len(l)
  BY <1>1
<1>8. cur_entry' \in 0 .. Len(l)
  BY <1>2, <1>7
<1>9. list' \in Seq(Entries) /\ Rising(list)' /\ cur_entry' \in {-1} \cup (0 .. Len(list'))
  BY <1>1, <1>2, <1>8 DEF Rising
<1>10. ASSUME NEW due \in SUBSET Entries, NEW whole \in BOOLEAN, NEW s \in Seq(Entries), NEW ended \in BOOLEAN,
              loop' = [due |-> due, whole |-> whole, got |-> s, ended |-> ended],
              s = IF ended THEN list' ELSE [i \in 1 .. cur_entry' |-> list'[i]],
              whole => Serves(ToSet(l), Len(l), due)
       PROVE  LoopInv'
  <2>1. loop' \in [due : SUBSET Entries, whole : BOOLEAN, got : Seq(Entries), ended : BOOLEAN]
    BY <1>10
  <2>2. loop'.due = due /\ loop'.whole = whole /\ loop'.got = s /\ loop'.ended = ended
    BY <1>10
  <2>3. loop'.got = IF loop'.ended THEN list' ELSE [i \in 1 .. cur_entry' |-> list'[i]]
    BY <1>10, <2>2
  <2>4. loop'.whole => Serves(ToSet(list'), Len(list'), loop'.due)
    BY <1>2, <1>10, <2>2
  <2>5. cur_entry' # -1
    BY <1>7, <1>8
  <2> QED BY <1>9, <2>1, <2>3, <2>4, <2>5 DEF LoopInv, Serves, UsersFirst
<1>11. \/ at = Len(l) /\ more = <<>>
       \/ at < Len(l) /\ more = <<l[at + 1]>> /\ more # <<>> /\ cur_entry' = at + 1
  <2>1. CASE at = Len(l)
    <3>1. ~(at < Len(l))
      BY <1>7, <2>1
    <3> QED BY <2>1, <3>1
  <2>2. CASE at < Len(l)
    <3>1. more = <<l[at + 1]>>
      BY <2>2
    <3>2. \A x : <<x>> # <<>>
      OBVIOUS
    <3>3. cur_entry' = at + 1
      BY <1>2, <1>7, <2>2
    <3> HIDE DEF more
    <3>4. more # <<>>
      BY <3>1, <3>2, Zenon
    <3> QED BY <2>2, <3>1, <3>3, <3>4, Zenon
  <2>3. at = Len(l) \/ at < Len(l)
    <3>1. at \in Nat /\ Len(l) \in Nat /\ at <= Len(l)
      BY <1>7
    <3> QED BY <3>1, SMT
  <2> HIDE DEF more
  <2> QED BY <2>1, <2>2, <2>3, Zenon
<1> HIDE DEF more
<1>12. ASSUME NEW due \in SUBSET Entries, NEW whole \in BOOLEAN,
              whole => Serves(ToSet(l), Len(l), due),
              loop' = [due |-> due, whole |-> whole, got |-> [i \in 1 .. at |-> l[i]] \o more,
                       ended |-> more = <<>>]
       PROVE  LoopInv'
  <2> DEFINE got == [i \in 1 .. at |-> l[i]] \o more
  <2>1. CASE at = Len(l) /\ more = <<>>
    <3>1. got = l
      BY <1>1, <1>7, <2>1
    <3> HIDE DEF got
    <3>2. loop' = [due |-> due, whole |-> whole, got |-> got, ended |-> TRUE]
      BY <1>12, <2>1 DEF got
    <3> QED BY <1>1, <1>2, <1>10, <1>12, <3>1, <3>2
  <2>2. CASE at < Len(l) /\ more = <<l[at + 1]>> /\ more # <<>> /\ cur_entry' = at + 1
    <3>1. got = [i \in 1 .. at + 1 |-> l[i]] /\ got \in Seq(Entries)
      BY <1>1, <1>7, <2>2
    <3> HIDE DEF got
    <3>2. loop' = [due |-> due, whole |-> whole, got |-> got, ended |-> FALSE]
      BY <1>12, <2>2 DEF got
    <3> QED BY <1>1, <1>2, <1>10, <1>12, <2>2, <3>1, <3>2
  <2> QED BY <1>11, <2>1, <2>2
<1>13. CASE d # "NEXT"
  <2>1. at = 0 /\ (Whole(d) => Serves(ToSet(l), Len(l), Due(d)))
    BY <1>4, <1>13
  <2>2. [i \in 1 .. at |-> l[i]] \o more = more
    BY <1>1, <1>11, <2>1
  <2>3. loop' = [due |-> Due(d), whole |-> Whole(d), got |-> more, ended |-> more = <<>>]
    BY <1>5, <1>13
  <2>4. Due(d) \in SUBSET Entries /\ Whole(d) \in BOOLEAN
    BY <1>13 DEF Due, Whole, Directions
  <2> QED BY <1>12, <2>1, <2>2, <2>3, <2>4
<1>14. CASE d = "NEXT" /\ ~loop.ended
  <2>1. loop' = [loop EXCEPT !.got = @ \o more, !.ended = more = <<>>]
    BY <1>5, <1>14
  <2>2. loop # NoLoop
    BY <1>14 DEF NoLoop
  <2>3. /\ cur_entry # -1 /\ loop.got = [i \in 1 .. cur_entry |-> list[i]]
        /\ loop.whole => Serves(ToSet(list), Len(list), loop.due)
    BY <1>14, <2>2 DEF LoopInv
  <2>4. l = list /\ at = cur_entry
    BY <1>6, <1>14, <2>3 DEF Rebuilds
  <2>5. loop' = [due |-> loop.due, whole |-> loop.whole, got |-> [i \in 1 .. at |-> l[i]] \o more,
                 ended |-> more = <<>>]
    BY <2>1, <2>3, <2>4 DEF LoopInv
  <2>6. loop.due \in SUBSET Entries /\ loop.whole \in BOOLEAN
    BY DEF LoopInv
  <2> QED BY <1>12, <2>3, <2>4, <2>5, <2>6
<1>15. CASE d = "NEXT" /\ loop.ended
  <2>1. loop' = NoLoop
    BY <1>5, <1>15
  <2>2. <<>> \in Seq(Entries)
    OBVIOUS
  <2> QED BY <1>9, <2>1, <2>2 DEF LoopInv, NoLoop
<1> QED BY <1>13, <1>14, <1>15

LEMMA LoopKept ==
  ASSUME LoopInv, UNCHANGED <<list, cur_entry, loop>>
  PROVE  LoopInv'
BY DEF LoopInv, Rising, Serves, UsersFirst

LEMMA StepLoop == ASSUME LoopInv, [Next]_vars PROVE LoopInv'
<1>1. ASSUME NEW d \in Directions, NoMemory(d) PROVE LoopInv'
  <2>1. list' = <<>> /\ cur_entry' = 0 /\ loop' = NoLoop
    BY <1>1 DEF NoMemory
  <2>2. list' \in Seq(Entries) /\ DOMAIN list' = {} /\ Len(list') = 0
    BY <2>1
  <2> QED BY <2>1, <2>2 DEF LoopInv, Rising, NoLoop
<1>2. CASE SQLDataSources \/ SQLDrivers
  <2>1. PICK d \in Directions : Enumerate(d) \/ NoMemory(d)
    BY <1>2 DEF SQLDataSources, SQLDrivers, SQLDataSources_Internal, SQLDrivers_Internal
  <2> QED BY <1>1, <2>1, EnumerateKeeps
<1>3. CASE Edit
  BY <1>3, LoopKept DEF Edit
<1>4. CASE UNCHANGED tables \/ UNCHANGED vars
  BY <1>4, LoopKept DEF vars, tables
<1> QED BY <1>2, <1>3, <1>4 DEF Next

(* Enumerating the data sources or the drivers answers every entry of the  *)
(* scope once, in order, to whichever environments call, for files and a   *)
(* list of any size, whatever the list held before and whatever another    *)
(* program does to the files; when the list is too short, as many as it    *)
(* has room for.  Not claimed for a file whose names fill the buffer they  *)
(* are read into (SQLDataSources_Internal, SQLDrivers_Internal).           *)
THEOREM EachEntryOnceHolds == Spec => []EachEntryOnce
<1>1. LoopInv => EachEntryOnce
  <2> SUFFICES ASSUME LoopInv, loop.whole PROVE EachEntryOnce
    BY DEF EachEntryOnce
  <2>0. loop # NoLoop
    BY DEF NoLoop
  <2>1. Serves(ToSet(list), Len(list), loop.due)
    BY <2>0 DEF LoopInv
  <2>2. CASE loop.ended
    <3>1. loop.got = list
      BY <2>0, <2>2 DEF LoopInv
    <3> QED BY <2>1, <3>1 DEF LoopInv, EachEntryOnce, Rising, Serves, UsersFirst
  <2>3. CASE ~loop.ended
    <3>1. /\ loop.got = [i \in 1 .. cur_entry |-> list[i]]
          /\ 1 .. cur_entry \subseteq DOMAIN list
      BY <2>0, <2>3 DEF LoopInv
    <3>2. ToSet(loop.got) \subseteq ToSet(list)
      BY <3>1 DEF ToSet
    <3>3. \A i, j \in DOMAIN loop.got : i < j => loop.got[i][1] < loop.got[j][1]
      BY <3>1 DEF LoopInv, Rising
    <3> QED BY <2>1, <2>3, <3>2, <3>3 DEF EachEntryOnce, Serves
  <2> QED BY <2>2, <2>3
<1> QED BY InitLoop, StepLoop, <1>1, PTL DEF Spec
=============================================================================
