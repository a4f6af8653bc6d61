--------------------------- MODULE ConnPoolProofs ---------------------------
(***************************************************************************)
(* The pool, for any number of handles, pooled connections and sources:    *)
(*                                                                         *)
(* - a driver's connection has one owner, whatever the application and the *)
(*   driver do (OwnerInv: a connection moves by _iodbcdm_pool_copy_conn,   *)
(*   which takes it from its source, or is allocated by the driver);       *)
(* - a careful application's handle is connected to what it asked for      *)
(*   (AskInv, on OwnerInv);                                                *)
(* - a careful application's pooled connections are borrowed once, and     *)
(*   none is touched after it was freed (PoolInv, on AskInv): there is at  *)
(*   most one walk, even while the lock is released for a drop, and no two *)
(*   neighbours are past their expiry time.                                *)
(***************************************************************************)
EXTENDS ConnPool, SequenceTheorems, FiniteSetTheorems, TLAPS

LinkTypes ==
  /\ link \in [Conns -> Links \cup {Null}]
  /\ cp \in [Handles -> Nodes \cup {Null}]

OwnerInv == LinkTypes /\ OneOwner

(* Nothing is owned twice after Copy, whatever dst owned before it.        *)
LEMMA CopyKeeps ==
  ASSUME OwnerInv, NEW dst \in Conns, NEW src \in Conns, NEW s, NEW wait,
         Copy(dst, src, s, wait)
  PROVE  link' \in [Conns -> Links \cup {Null}] /\ OneOwner'
<1>1. link' = [link EXCEPT ![dst] = link[src], ![src] = Null]
  BY DEF Copy
<1>2. link' \in [Conns -> Links \cup {Null}]
  BY <1>1 DEF OwnerInv, LinkTypes
<1>3. ASSUME NEW c \in Conns, NEW d \in Conns, c # d, link'[c] # Null
      PROVE  link'[c] # link'[d]
  <2>1. /\ link'[c] = IF c = src THEN Null ELSE IF c = dst THEN link[src] ELSE link[c]
        /\ link'[d] = IF d = src THEN Null ELSE IF d = dst THEN link[src] ELSE link[d]
    BY <1>1 DEF OwnerInv, LinkTypes
  <2>2. c # src
    BY <2>1, <1>3
  <2>3. CASE d = src
    BY <2>1, <2>3, <1>3
  <2>4. CASE d # src
    BY <2>1, <2>2, <2>4, <1>3 DEF OwnerInv, OneOwner
  <2> QED
    BY <2>3, <2>4
<1> QED
  BY <1>2, <1>3 DEF OneOwner

(* A connection put into the pool takes its link with it.                  *)
LEMMA PutKeeps ==
  ASSUME OwnerInv, NEW h \in Handles, NEW n \in Nodes, NEW wait, Put(h, n, wait)
  PROVE  OwnerInv'
<1>1. Copy(n, h, FALSE, wait) /\ cp' = [cp EXCEPT ![h] = Null]
  BY DEF Put
<1>2. h \in Conns /\ n \in Conns
  BY DEF Conns
<1>3. link' \in [Conns -> Links \cup {Null}] /\ OneOwner'
  BY <1>1, <1>2, CopyKeeps
<1>4. cp' \in [Handles -> Nodes \cup {Null}]
  BY <1>1 DEF OwnerInv, LinkTypes
<1> QED
  BY <1>3, <1>4 DEF OwnerInv, LinkTypes

(* The driver allocates a connection nobody owns.                          *)
LEMMA LoadKeeps ==
  ASSUME OwnerInv, NEW h \in Handles, Load(h)
  PROVE  link' \in [Conns -> Links \cup {Null}] /\ OneOwner'
<1> h \in Conns
  BY DEF Conns
<1>1. CASE link' = link
  BY <1>1 DEF OwnerInv, LinkTypes, OneOwner
<1>2. CASE link' # link
  <2>1. PICK l \in Links : /\ \A c \in Conns : link[c] # l
                           /\ link' = [link EXCEPT ![h] = l]
    BY <1>2 DEF Load
  <2>2. link' \in [Conns -> Links \cup {Null}]
    BY <2>1 DEF OwnerInv, LinkTypes
  <2>3. ASSUME NEW c \in Conns, NEW d \in Conns, c # d, link'[c] # Null
        PROVE  link'[c] # link'[d]
    BY <2>1, <2>3 DEF OwnerInv, LinkTypes, OneOwner
  <2> QED
    BY <2>2, <2>3 DEF OneOwner
<1> QED
  BY <1>1, <1>2

(* Links that are given up are nobody's.                                   *)
LEMMA DropKeeps ==
  ASSUME OwnerInv, NEW c, link' = [link EXCEPT ![c] = Null]
  PROVE  link' \in [Conns -> Links \cup {Null}] /\ OneOwner'
<1>1. \A d \in Conns : link'[d] = IF d = c THEN Null ELSE link[d]
  BY DEF OwnerInv, LinkTypes
<1> QED
  BY <1>1 DEF OwnerInv, LinkTypes, OneOwner

(* A walk that finds a connection takes its link.                          *)
LEMMA GotKeeps ==
  ASSUME OwnerInv, NEW h \in Handles, NEW n \in Nodes, Got(h, n)
  PROVE  OwnerInv'
<1> USE DEF Conns
<1>1. /\ link' = [link EXCEPT ![h] = link[n], ![n] = Null]
      /\ cp' = [cp EXCEPT ![h] = n]
  BY DEF Got
<1>2. \A c \in Conns :
        link'[c] = IF c = n THEN Null ELSE IF c = h THEN link[n] ELSE link[c]
  BY <1>1 DEF OwnerInv, LinkTypes
<1>3. ASSUME NEW c \in Conns, NEW d \in Conns, c # d, link'[c] # Null
      PROVE  link'[c] # link'[d]
  BY <1>2, <1>3 DEF OwnerInv, OneOwner
<1> QED
  BY <1>1, <1>3 DEF OwnerInv, LinkTypes, OneOwner

LEMMA InitOwner == Init => OwnerInv
<1> SUFFICES ASSUME Init PROVE OwnerInv
  OBVIOUS
<1>1. link = [c \in Conns |-> Null] /\ cp = [h \in Handles |-> Null]
  BY DEF Init
<1> QED
  BY <1>1 DEF OwnerInv, LinkTypes, OneOwner

-----------------------------------------------------------------------------
LEMMA StepOwner == OwnerInv /\ [Next]_vars => OwnerInv'
<1> SUFFICES ASSUME OwnerInv, [Next]_vars PROVE OwnerInv'
  OBVIOUS
<1> USE DEF Conns
<1>0. ASSUME UNCHANGED <<link, cp>> PROVE OwnerInv'
  BY <1>0 DEF OwnerInv, LinkTypes, OneOwner
<1>1. ASSUME NEW h \in Handles, NEW s \in Sources, Connect(h, s) PROVE OwnerInv'
  BY <1>0, <1>1 DEF Connect
<1>2. ASSUME NEW h \in Handles, NEW n \in Nodes, Skip(h, n) PROVE OwnerInv'
  BY <1>0, <1>2 DEF Skip
<1>3. ASSUME NEW h \in Handles, NEW n \in Nodes, Expired(h, n) PROVE OwnerInv'
  BY <1>0, <1>3 DEF Expired
<1>4. ASSUME NEW h \in Handles, NEW n \in Nodes, TouchFreed(h, n) PROVE OwnerInv'
  BY <1>0, <1>4 DEF TouchFreed
<1>5. ASSUME NEW h \in Handles, NEW n \in Nodes, Refused(h, n) PROVE OwnerInv'
  <2>1. /\ \E wait \in {"waiting", "over"} : Copy(n, h, FALSE, wait)
        /\ cp' = [cp EXCEPT ![h] = Null]
    BY <1>5 DEF Refused
  <2>2. link' \in [Conns -> Links \cup {Null}] /\ OneOwner'
    BY <2>1, CopyKeeps
  <2> QED
    BY <2>1, <2>2 DEF OwnerInv, LinkTypes
<1>6. ASSUME NEW h \in Handles, NEW n \in Nodes, Dead(h, n) PROVE OwnerInv'
  <2>1. (Load(h) \/ UNCHANGED link) /\ cp' = [cp EXCEPT ![h] = n]
    BY <1>6 DEF Dead, NoLoad
  <2>2. link' \in [Conns -> Links \cup {Null}] /\ OneOwner'
    <3>1. CASE Load(h)
      BY <3>1, LoadKeeps
    <3>2. CASE UNCHANGED link
      BY <3>2 DEF OwnerInv, LinkTypes, OneOwner
    <3> QED
      BY <2>1, <3>1, <3>2
  <2> QED
    BY <2>1, <2>2 DEF OwnerInv, LinkTypes
<1>7. ASSUME NEW h \in Handles, NEW n \in Nodes, Got(h, n) PROVE OwnerInv'
  BY <1>7, GotKeeps
<1>8. ASSUME NEW h \in Handles, Dropped(h) PROVE OwnerInv'
  <2>1. link' = [link EXCEPT ![prev[h]] = Null] /\ UNCHANGED cp
    BY <1>8 DEF Dropped
  <2> QED
    BY <2>1, DropKeeps DEF OwnerInv, LinkTypes
<1>9. ASSUME NEW h \in Handles, Missed(h) PROVE OwnerInv'
  <2>1. (Load(h) \/ UNCHANGED link) /\ UNCHANGED cp
    BY <1>9 DEF Missed, NoLoad
  <2>2. CASE Load(h)
    BY <2>1, <2>2, LoadKeeps DEF OwnerInv, LinkTypes
  <2>3. CASE UNCHANGED link
    BY <2>1, <2>3, <1>0
  <2> QED
    BY <2>1, <2>2, <2>3
<1>10. ASSUME NEW h \in Handles, Connected(h) PROVE OwnerInv'
  BY <1>0, <1>10 DEF Connected
<1>11. ASSUME NEW h \in Handles, ConnectFails(h) PROVE OwnerInv'
  <2>1. CASE cp[h] = Null
    BY <1>0, <1>11, <2>1 DEF ConnectFails
  <2>2. CASE cp[h] # Null
    <3>1. cp[h] \in Nodes
      BY <2>2 DEF OwnerInv, LinkTypes
    <3>2. \E wait \in {"waiting", "over"} : Put(h, cp[h], wait)
      BY <1>11, <2>2 DEF ConnectFails, GiveBack
    <3> QED
      BY <3>1, <3>2, PutKeeps
  <2> QED
    BY <2>1, <2>2
<1>12. ASSUME NEW h \in Handles, DisconnectToPool(h) PROVE OwnerInv'
  <2>1. \E n \in Nodes : Put(h, n, retry[h])
    BY <1>12 DEF DisconnectToPool, OwnerInv, LinkTypes
  <2> QED
    BY <2>1, PutKeeps
<1>13. ASSUME NEW h \in Handles, Disconnect(h) PROVE OwnerInv'
  BY <1>0, <1>13 DEF Disconnect
<1>14. ASSUME NEW h \in Handles, DisconnectReturns(h) PROVE OwnerInv'
  BY <1>0, <1>14 DEF DisconnectReturns
<1>15. ASSUME NEW h \in Handles, AllocConnect(h) PROVE OwnerInv'
  BY <1>0, <1>15 DEF AllocConnect
<1>16. ASSUME NEW h \in Handles, FreeConnect(h) PROVE OwnerInv'
  <2>1. link' = [link EXCEPT ![h] = Null] /\ cp' = [cp EXCEPT ![h] = Null]
    BY <1>16 DEF FreeConnect
  <2> QED
    BY <2>1, DropKeeps DEF OwnerInv, LinkTypes
<1>17. ASSUME FreeEnv PROVE OwnerInv'
  <2>1. link' = [c \in Conns |-> Null] /\ UNCHANGED cp
    BY <1>17 DEF FreeEnv
  <2> QED
    BY <2>1 DEF OwnerInv, LinkTypes, OneOwner
<1>18. ASSUME NEW n \in Nodes, Expire(n) PROVE OwnerInv'
  BY <1>0, <1>18 DEF Expire
<1>19. ASSUME NEW c \in Conns, RetryWaitOver(c) PROVE OwnerInv'
  BY <1>0, <1>19 DEF RetryWaitOver
<1>20. CASE UNCHANGED vars
  BY <1>0, <1>20 DEF vars
<1> QED
  BY <1>1, <1>2, <1>3, <1>4, <1>5, <1>6, <1>7, <1>8, <1>9, <1>10, <1>11, <1>12,
     <1>13, <1>14, <1>15, <1>16, <1>17, <1>18, <1>19, <1>20, PoolAssumption DEF Next, Step

(* _iodbcdm_pool_copy_conn, _iodbcdm_pool_put_conn and                     *)
(* _iodbcdm_pool_get_conn never leave a driver's connection with two       *)
(* owners, and never hand out one that somebody else has.                  *)
THEOREM OneOwnerHolds == Spec => []OneOwner
<1>1. OwnerInv => OneOwner
  BY DEF OwnerInv
<1> QED
  BY <1>1, InitOwner, StepOwner, PTL DEF Spec

-----------------------------------------------------------------------------
(* What a careful application asks for.  A connection with parameters has  *)
(* a driver connection that is idle or connected to what they name; a      *)
(* handle that is connected is so to what it asked for, and one that is    *)
(* not has no driver connection, or an idle one.                           *)
AskTypes ==
  /\ key \in [Conns -> Sources \cup {Null}]
  /\ open \in [Conns -> BOOLEAN]
  /\ call \in [Handles -> {"none", "walk", "drop", "connect", "disconnect"}]
  /\ want \in [Handles -> Sources \cup {Null}]
  /\ target \in [Links -> Sources \cup {Idle, Null}]
  /\ prev \in [Handles -> Nodes \cup {Null}]
  /\ \A h \in Handles : call[h] = "drop" => prev[h] # Null

KeyTrue(c) == key[c] # Null => link[c] # Null /\ target[link[c]] \in {Idle, key[c]}

AskTrue(h) ==
  /\ call[h] # "none" \/ open[h] =>
       h \in valid /\ want[h] # Null /\ key[h] \in {Null, want[h]}
  /\ call[h] \in {"walk", "drop", "connect"} => ~open[h]
  /\ call[h] = "connect" => link[h] # Null
  /\ call[h] = "disconnect" => open[h]
  /\ open[h] => link[h] # Null /\ target[link[h]] = want[h]
  /\ ~open[h] /\ link[h] # Null => target[link[h]] = Idle

AskInv ==
  /\ OwnerInv /\ AskTypes
  /\ \A c \in Conns : KeyTrue(c)
  /\ \A h \in Handles : AskTrue(h)

LEMMA InitAsk == Init => AskInv
<1> SUFFICES ASSUME Init PROVE AskInv
  OBVIOUS
<1>1. AskTypes
  BY DEF Init, AskTypes, Conns
<1>2. \A c \in Conns : KeyTrue(c)
  BY DEF Init, KeyTrue
<1>3. \A h \in Handles : AskTrue(h)
  BY DEF Init, AskTrue, Conns
<1> QED
  BY <1>1, <1>2, <1>3, InitOwner DEF AskInv

(* The connection is not touched.                                          *)
Untouched(c) ==
  /\ key'[c] = key[c] /\ link'[c] = link[c] /\ open'[c] = open[c]
  /\ link[c] # Null => target'[link[c]] = target[link[c]]

LEMMA KeyKept ==
  ASSUME NEW c, KeyTrue(c), Untouched(c)
  PROVE  KeyTrue(c)'
BY DEF KeyTrue, Untouched

LEMMA AskKept ==
  ASSUME NEW h, AskTrue(h), Untouched(h), call'[h] = call[h], want'[h] = want[h],
         h \in valid => h \in valid'
  PROVE  AskTrue(h)'
BY DEF AskTrue, Untouched

(* A step on handle h touches h, and leaves the others' calls.             *)
OnlyCalls(h) ==
  \A g \in Handles \ {h} :
    call'[g] = call[g] /\ want'[g] = want[g] /\ (g \in valid => g \in valid')

LEMMA OneTouched ==
  ASSUME AskInv, NEW h \in Handles, NEW t \in SUBSET Conns, OnlyCalls(h), h \in t,
         \A c \in Conns \ t : Untouched(c),
         t \subseteq Nodes \cup {h},
         \A c \in t : KeyTrue(c)',
         AskTrue(h)'
  PROVE  (\A c \in Conns : KeyTrue(c)') /\ (\A g \in Handles : AskTrue(g)')
<1>1. ASSUME NEW c \in Conns PROVE KeyTrue(c)'
  BY KeyKept DEF AskInv
<1>2. ASSUME NEW g \in Handles, g # h PROVE AskTrue(g)'
  <2>1. g \in Conns \ t
    BY <1>2, PoolAssumption DEF Conns
  <2> QED
    BY <2>1, <1>2, AskKept DEF AskInv, OnlyCalls
<1> QED
  BY <1>1, <1>2

(* A connection moves between a handle and a node.                         *)
LEMMA CopyTouches ==
  ASSUME AskInv, NEW dst \in Conns, NEW src \in Conns, NEW s \in BOOLEAN, NEW wait,
         dst # src, Copy(dst, src, s, wait)
  PROVE  /\ \A c \in Conns \ {dst, src} : Untouched(c)
         /\ KeyTrue(dst)' /\ KeyTrue(src)'
         /\ key'[src] = Null /\ link'[src] = Null /\ open'[src] = s
         /\ key' \in [Conns -> Sources \cup {Null}] /\ open' \in [Conns -> BOOLEAN]
         /\ target' \in [Links -> Sources \cup {Idle, Null}]
<1> USE DEF AskInv, AskTypes, OwnerInv, LinkTypes, Copy
<1>1. \A c \in Conns : link[c] # Null /\ c # dst => target'[link[c]] = target[link[c]]
  BY DEF OneOwner, Gone
<1>2. ASSUME NEW c \in Conns \ {dst, src} PROVE Untouched(c)
  BY <1>1 DEF Untouched
<1>3. KeyTrue(dst)' /\ KeyTrue(src)'
  BY <1>1 DEF KeyTrue
<1>4. target' \in [Links -> Sources \cup {Idle, Null}]
  BY DEF Gone
<1> QED
  BY <1>2, <1>3, <1>4

LEMMA PutAsked ==
  ASSUME AskInv, NEW h \in Handles, NEW n \in Nodes, NEW wait, Put(h, n, wait),
         call'[h] = "none", OnlyCalls(h),
         call' \in [Handles -> {"none", "walk", "drop", "connect", "disconnect"}],
         want' \in [Handles -> Sources \cup {Null}],
         prev' = prev
  PROVE  AskInv'
<1>1. h \in Conns /\ n \in Conns /\ h # n
  BY PoolAssumption DEF Conns
<1>2. /\ \A c \in Conns \ {n, h} : Untouched(c)
      /\ KeyTrue(n)' /\ KeyTrue(h)'
      /\ key'[h] = Null /\ link'[h] = Null /\ open'[h] = FALSE
      /\ key' \in [Conns -> Sources \cup {Null}] /\ open' \in [Conns -> BOOLEAN]
      /\ target' \in [Links -> Sources \cup {Idle, Null}]
  BY <1>1, CopyTouches DEF Put
<1>3. AskTrue(h)'
  BY <1>2 DEF AskTrue
<1>4. (\A c \in Conns : KeyTrue(c)') /\ (\A g \in Handles : AskTrue(g)')
  <2>1. /\ {n, h} \in SUBSET Conns /\ h \in {n, h} /\ {n, h} \subseteq Nodes \cup {h}
        /\ \A c \in Conns \ {n, h} : Untouched(c)
        /\ \A c \in {n, h} : KeyTrue(c)'
    BY <1>1, <1>2
  <2> QED
    BY <1>3, <2>1, OneTouched
<1>5. AskTypes'
  BY <1>2 DEF AskTypes, AskInv, OnlyCalls
<1> QED
  BY <1>4, <1>5, PutKeeps DEF AskInv

(* The driver is loaded for a handle that is not connected.                *)
LEMMA LoadTouches ==
  ASSUME AskInv, NEW h \in Handles, call[h] = "walk", Load(h), UNCHANGED open,
         key'[h] \in {key[h], want[h]},
         \A c \in Conns \ {h} : key'[c] = key[c]
  PROVE  /\ \A c \in Conns \ {h} : Untouched(c)
         /\ KeyTrue(h)' /\ link'[h] # Null
         /\ ~open[h] /\ target'[link'[h]] = Idle
         /\ target' \in [Links -> Sources \cup {Idle, Null}]
<1> USE DEF AskInv, AskTypes, OwnerInv, LinkTypes, Conns
<1>1. ~open[h] /\ (link[h] # Null => target[link[h]] = Idle)
  BY DEF AskTrue
<1>2. CASE link[h] # Null /\ UNCHANGED <<link, target>>
  BY <1>1, <1>2 DEF Untouched, KeyTrue
<1>3. CASE \E l \in Links : /\ \A c \in Conns : link[c] # l
                            /\ target' = [target EXCEPT ![l] = Idle]
                            /\ link' = [link EXCEPT ![h] = l]
  <2>1. PICK l \in Links : /\ \A c \in Conns : link[c] # l
                           /\ target' = [target EXCEPT ![l] = Idle]
                           /\ link' = [link EXCEPT ![h] = l]
    BY <1>3
  <2>2. link'[h] = l /\ target'[l] = Idle /\ l # Null
    BY <2>1, PoolAssumption
  <2>3. \A c \in Conns \ {h} : Untouched(c)
    BY <2>1 DEF Untouched
  <2>4. target' \in [Links -> Sources \cup {Idle, Null}]
    BY <2>1
  <2> QED
    BY <1>1, <2>2, <2>3, <2>4 DEF KeyTrue
<1> QED
  BY <1>2, <1>3 DEF Load

(* A step that leaves the connections alone.                               *)
LEMMA NothingTouched ==
  ASSUME AskInv, UNCHANGED <<key, link, open, target, cp>>, NEW h \in Handles,
         OnlyCalls(h), AskTrue(h)', AskTypes'
  PROVE  AskInv'
<1>1. \A c \in Conns : Untouched(c)
  BY DEF Untouched
<1>2. \A c \in Conns : KeyTrue(c)'
  BY <1>1, KeyKept DEF AskInv
<1>3. \A g \in Handles \ {h} : AskTrue(g)'
  BY <1>1, AskKept DEF AskInv, OnlyCalls, Conns
<1>4. OwnerInv'
  BY DEF AskInv, OwnerInv, LinkTypes, OneOwner
<1> QED
  BY <1>2, <1>3, <1>4 DEF AskInv

(* The walk of h goes on or begins, or the handle is allocated.            *)
LEMMA QuietStep ==
  ASSUME AskInv, Careful, NEW h \in Handles,
         \/ \E s \in Sources : Connect(h, s)
         \/ \E n \in Nodes : Skip(h, n) \/ Expired(h, n) \/ TouchFreed(h, n)
         \/ Disconnect(h) \/ AllocConnect(h)
  PROVE  AskInv'
<1>1. ASSUME NEW s \in Sources, Connect(h, s) PROVE AskInv'
  <2>1. OnlyCalls(h)
    BY <1>1 DEF Connect, OnlyCalls, AskInv, AskTypes
  <2>2. AskTypes'
    BY <1>1, PoolAssumption DEF Connect, AskInv, AskTypes
  <2>3. AskTrue(h)'
    BY <1>1, PoolAssumption DEF Connect, AskInv, AskTypes, AskTrue, Careful, May
  <2> QED
    BY <1>1, <2>1, <2>2, <2>3, NothingTouched DEF Connect
<1>2. ASSUME NEW n \in Nodes, Skip(h, n) PROVE AskInv'
  <2>1. OnlyCalls(h) /\ AskTypes' /\ AskTrue(h)'
    BY <1>2 DEF Skip, At, Onward, OnlyCalls, AskInv, AskTypes, AskTrue
  <2> QED
    BY <1>2, <2>1, NothingTouched DEF Skip
<1>3. ASSUME NEW n \in Nodes, Expired(h, n) PROVE AskInv'
  <2>1. OnlyCalls(h) /\ AskTrue(h)'
    BY <1>3 DEF Expired, At, OnlyCalls, AskInv, AskTypes, AskTrue
  <2>2. AskTypes'
    BY <1>3, PoolAssumption DEF Expired, At, Onward, AskInv, AskTypes
  <2> QED
    BY <1>3, <2>1, <2>2, NothingTouched DEF Expired
<1>4. ASSUME NEW n \in Nodes, TouchFreed(h, n) PROVE AskInv'
  <2>1. OnlyCalls(h) /\ AskTypes' /\ AskTrue(h)'
    BY <1>4 DEF TouchFreed, walk, OnlyCalls, AskInv, AskTypes, AskTrue
  <2> QED
    BY <1>4, <2>1, NothingTouched DEF TouchFreed
<1>5. ASSUME Disconnect(h) PROVE AskInv'
  <2>1. OnlyCalls(h) /\ AskTypes' /\ AskTrue(h)'
    BY <1>5 DEF Disconnect, walk, OnlyCalls, AskInv, AskTypes, AskTrue
  <2> QED
    BY <1>5, <2>1, NothingTouched DEF Disconnect
<1>6. ASSUME AllocConnect(h) PROVE AskInv'
  <2>1. OnlyCalls(h) /\ AskTypes' /\ AskTrue(h)'
    BY <1>6 DEF AllocConnect, walk, OnlyCalls, AskInv, AskTypes, AskTrue
  <2> QED
    BY <1>6, <2>1, NothingTouched DEF AllocConnect
<1> QED
  BY <1>1, <1>2, <1>3, <1>4, <1>5, <1>6

(* What the walk ends with.                                                *)
LEMMA WalkEnds ==
  ASSUME AskInv, Careful, NEW h \in Handles,
         Missed(h) \/ \E n \in Nodes : Refused(h, n) \/ Dead(h, n) \/ Got(h, n)
  PROVE  AskInv'
<1> USE DEF Conns
<1>0. ASSUME OwnerInv', AskTypes', OnlyCalls(h), AskTrue(h)', KeyTrue(h)',
             \A c \in Conns \ {h} : Untouched(c)
      PROVE  AskInv'
  <2>1. {h} \in SUBSET Conns /\ \A c \in {h} : KeyTrue(c)'
    BY <1>0
  <2> QED
    BY <1>0, <2>1, OneTouched DEF AskInv
<1>1. ASSUME Missed(h) PROVE AskInv'
  <2>1. call[h] = "walk" /\ Load(h) /\ UNCHANGED <<valid, open, want>>
    BY <1>1 DEF Missed, NoLoad, May, Careful, Load
  <2>2. key'[h] \in {key[h], want[h]} /\ \A c \in Conns \ {h} : key'[c] = key[c]
    BY <1>1 DEF Missed, AskInv, AskTypes
  <2>3. /\ \A c \in Conns \ {h} : Untouched(c)
        /\ KeyTrue(h)' /\ link'[h] # Null /\ ~open[h] /\ target'[link'[h]] = Idle
        /\ target' \in [Links -> Sources \cup {Idle, Null}]
    BY <2>1, <2>2, LoadTouches
  <2>4. OwnerInv' /\ AskTypes'
    <3>1. OwnerInv'
      BY <1>1, <2>1, LoadKeeps DEF Missed, AskInv, OwnerInv, LinkTypes
    <3>2. AskTypes'
      BY <1>1, <2>1, <2>3, PoolAssumption DEF Missed, Load, Stop, AskInv, AskTypes
    <3> QED
      BY <3>1, <3>2
  <2>5. OnlyCalls(h) /\ call'[h] = "connect"
    BY <2>1 DEF Load, OnlyCalls, AskInv, AskTypes
  <2>6. AskTrue(h)'
    BY <2>1, <2>2, <2>3, <2>5 DEF AskInv, AskTrue
  <2> QED
    BY <1>0, <2>3, <2>4, <2>5, <2>6
<1>2. ASSUME NEW n \in Nodes, Dead(h, n) PROVE AskInv'
  <2>1. call[h] = "walk" /\ Load(h) /\ UNCHANGED <<valid, open, want, key>>
    BY <1>2 DEF Dead, At, NoLoad, May, Careful, Load
  <2>2. key'[h] \in {key[h], want[h]} /\ \A c \in Conns \ {h} : key'[c] = key[c]
    BY <2>1
  <2>3. /\ \A c \in Conns \ {h} : Untouched(c)
        /\ KeyTrue(h)' /\ link'[h] # Null /\ ~open[h] /\ target'[link'[h]] = Idle
        /\ target' \in [Links -> Sources \cup {Idle, Null}]
    BY <2>1, <2>2, LoadTouches
  <2>4. OwnerInv' /\ AskTypes'
    <3>1. OwnerInv'
      BY <1>2, <2>1, LoadKeeps DEF Dead, AskInv, OwnerInv, LinkTypes
    <3>2. AskTypes'
      BY <1>2, <2>1, <2>3 DEF Dead, Load, Stop, AskInv, AskTypes
    <3> QED
      BY <3>1, <3>2
  <2>5. OnlyCalls(h) /\ call'[h] = "connect"
    BY <2>1 DEF Load, OnlyCalls, AskInv, AskTypes
  <2>6. AskTrue(h)'
    BY <2>1, <2>2, <2>3, <2>5 DEF AskInv, AskTrue
  <2> QED
    BY <1>0, <2>3, <2>4, <2>5, <2>6
<1>3. ASSUME NEW n \in Nodes, Refused(h, n) PROVE AskInv'
  <2>1. PICK wait \in {"waiting", "over"} : Copy(n, h, FALSE, wait)
    BY <1>3 DEF Refused
  <2>2. n \in Conns /\ h \in Conns /\ n # h
    BY PoolAssumption
  <2>3. /\ \A c \in Conns \ {n, h} : Untouched(c)
        /\ KeyTrue(n)' /\ KeyTrue(h)'
        /\ key'[h] = Null /\ link'[h] = Null /\ open'[h] = FALSE
        /\ key' \in [Conns -> Sources \cup {Null}] /\ open' \in [Conns -> BOOLEAN]
        /\ target' \in [Links -> Sources \cup {Idle, Null}]
    BY <2>1, <2>2, CopyTouches
  <2>4. OnlyCalls(h) /\ call'[h] = "none"
    BY <1>3 DEF Refused, OnlyCalls, AskInv, AskTypes
  <2>5. AskTypes'
    BY <1>3, <2>3 DEF Refused, Stop, AskInv, AskTypes
  <2>6. OwnerInv'
    BY <1>3, <2>1, <2>2, CopyKeeps DEF Refused, AskInv, OwnerInv, LinkTypes
  <2>7. AskTrue(h)'
    BY <2>3, <2>4 DEF AskTrue
  <2>8. /\ {n, h} \in SUBSET Conns /\ h \in {n, h} /\ {n, h} \subseteq Nodes \cup {h}
        /\ \A c \in {n, h} : KeyTrue(c)'
    BY <2>2, <2>3
  <2> QED
    BY <2>3, <2>4, <2>5, <2>6, <2>7, <2>8, OneTouched DEF AskInv
<1>4. ASSUME NEW n \in Nodes, Got(h, n) PROVE AskInv'
  <2>0. OwnerInv'
    BY <1>4, GotKeeps DEF AskInv
  <2> USE DEF AskInv, AskTypes, OwnerInv, LinkTypes
  <2>1. n \in Conns /\ h \in Conns /\ n # h /\ valid' = valid /\ want' = want
    BY <1>4, PoolAssumption DEF Got
  <2>2. call[h] = "walk" /\ key[n] = want[h] /\ want[h] # Null /\ h \in valid
    BY <1>4 DEF Got, At, Matches, AskTrue
  <2>3. link[n] # Null /\ target[link[n]] = want[h]
    BY <1>4, <2>1, <2>2 DEF Got, SeemsAlive, May, Careful, KeyTrue
  <2>4. /\ key' = [key EXCEPT ![h] = key[n], ![n] = Null]
        /\ link' = [link EXCEPT ![h] = link[n], ![n] = Null]
        /\ open' = [open EXCEPT ![h] = TRUE]
        /\ target' = Gone(link[h])
    BY <1>4 DEF Got
  <2>5. /\ \A c \in Conns \ {h} : link[c] # Null => target'[link[c]] = target[link[c]]
        /\ target' \in [Links -> Sources \cup {Idle, Null}]
    BY <2>4 DEF Gone, OneOwner
  <2>6. \A c \in Conns \ {n, h} : Untouched(c)
    BY <2>4, <2>5 DEF Untouched
  <2>7. KeyTrue(n)' /\ KeyTrue(h)'
    BY <2>1, <2>2, <2>3, <2>4, <2>5 DEF KeyTrue
  <2>8. OnlyCalls(h) /\ call'[h] = "none"
    BY <1>4 DEF Got, OnlyCalls
  <2>9. AskTrue(h)'
    BY <2>1, <2>2, <2>3, <2>4, <2>5, <2>8 DEF AskTrue
  <2>10. AskTypes'
    BY <1>4, <2>1, <2>4, <2>5 DEF Got, Stop
  <2>11. /\ {n, h} \in SUBSET Conns /\ h \in {n, h} /\ {n, h} \subseteq Nodes \cup {h}
         /\ \A c \in {n, h} : KeyTrue(c)'
    BY <2>1, <2>7
  <2> HIDE DEF AskInv, AskTypes, OwnerInv, LinkTypes
  <2> QED
    BY <2>6, <2>8, <2>9, <2>0, <2>10, <2>11, OneTouched DEF AskInv
<1> QED
  BY <1>1, <1>2, <1>3, <1>4

(* The calls that come back, and the drop of a pooled connection.          *)
LEMMA CallReturns ==
  ASSUME AskInv, NEW h \in Handles,
         \/ Dropped(h) \/ Connected(h) \/ ConnectFails(h) \/ DisconnectToPool(h)
         \/ DisconnectReturns(h) \/ FreeConnect(h),
         OwnerInv'
  PROVE  AskInv'
<1> USE DEF Conns
<1>0. ASSUME AskTypes', OnlyCalls(h), AskTrue(h)', KeyTrue(h)',
             \A c \in Conns \ {h} : Untouched(c)
      PROVE  AskInv'
  <2>1. {h} \in SUBSET Conns /\ \A c \in {h} : KeyTrue(c)'
    BY <1>0
  <2> QED
    BY <1>0, <2>1, OneTouched DEF AskInv
<1>1. ASSUME Dropped(h) PROVE AskInv'
  <2>0. PICK n \in Nodes : n = prev[h]
    BY <1>1 DEF Dropped, AskInv, AskTypes
  <2> USE DEF AskInv, AskTypes, OwnerInv, LinkTypes
  <2>1. h # n /\ call[h] = "drop"
    BY <1>1, PoolAssumption DEF Dropped
  <2>2. /\ key' = [key EXCEPT ![n] = Null] /\ link' = [link EXCEPT ![n] = Null]
        /\ open' = [open EXCEPT ![n] = FALSE] /\ target' = Gone(link[n])
        /\ call' = [call EXCEPT ![h] = "walk"] /\ UNCHANGED <<valid, want, prev>>
    BY <1>1, <2>0 DEF Dropped, walk
  <2>3. /\ \A c \in Conns \ {n} : link[c] # Null => target'[link[c]] = target[link[c]]
        /\ target' \in [Links -> Sources \cup {Idle, Null}]
    BY <2>1, <2>2 DEF Gone, OneOwner
  <2>4. \A c \in Conns \ {n} : Untouched(c)
    BY <2>2, <2>3 DEF Untouched
  <2>5. KeyTrue(n)' /\ KeyTrue(h)'
    BY <2>1, <2>2, <2>4, KeyKept DEF KeyTrue
  <2>6. OnlyCalls(h)
    BY <2>2 DEF OnlyCalls
  <2>7. AskTrue(h)'
    BY <2>1, <2>2, <2>3 DEF AskTrue
  <2>8. AskTypes'
    BY <2>0, <2>2, <2>3
  <2>9. /\ {n, h} \in SUBSET Conns /\ h \in {n, h} /\ {n, h} \subseteq Nodes \cup {h}
        /\ \A c \in {n, h} : KeyTrue(c)'
    BY <2>1, <2>5
  <2> HIDE DEF AskInv, AskTypes, OwnerInv, LinkTypes
  <2> QED
    BY <2>4, <2>6, <2>7, <2>8, <2>9, OneTouched DEF AskInv
<1>2. ASSUME Connected(h) PROVE AskInv'
  <2> USE DEF AskInv, AskTypes, OwnerInv, LinkTypes
  <2>1. /\ open' = [open EXCEPT ![h] = TRUE]
        /\ target' = [target EXCEPT ![link[h]] = want[h]]
        /\ call[h] = "connect" /\ call' = [call EXCEPT ![h] = "none"]
        /\ UNCHANGED <<valid, key, link, want, prev>>
    BY <1>2 DEF Connected, walk
  <2>2. link[h] # Null /\ want[h] # Null /\ key[h] \in {Null, want[h]} /\ h \in valid
    BY <2>1 DEF AskTrue
  <2>3. \A c \in Conns \ {h} : Untouched(c)
    BY <2>1 DEF OneOwner, Untouched
  <2>4. AskTypes' /\ OnlyCalls(h)
    BY <2>1 DEF OnlyCalls
  <2>5. AskTrue(h)' /\ KeyTrue(h)'
    BY <2>1, <2>2 DEF AskTrue, KeyTrue
  <2> HIDE DEF AskInv, AskTypes, OwnerInv, LinkTypes
  <2> QED
    BY <1>0, <2>3, <2>4, <2>5
<1>3. ASSUME ConnectFails(h) PROVE AskInv'
  <2>1. /\ call' = [call EXCEPT ![h] = "none"] /\ want' = [want EXCEPT ![h] = Null]
        /\ call[h] = "connect" /\ UNCHANGED <<valid, prev>>
    BY <1>3 DEF ConnectFails, walk
  <2>2. /\ OnlyCalls(h) /\ call'[h] = "none"
        /\ call' \in [Handles -> {"none", "walk", "drop", "connect", "disconnect"}]
        /\ want' \in [Handles -> Sources \cup {Null}]
    BY <2>1 DEF OnlyCalls, AskInv, AskTypes
  <2>3. CASE cp[h] = Null
    <3>1. UNCHANGED <<key, link, open, target, cp>>
      BY <1>3, <2>3 DEF ConnectFails
    <3>2. AskTypes' /\ AskTrue(h)'
      BY <2>1, <2>2, <3>1 DEF AskInv, AskTypes, AskTrue
    <3> QED
      BY <2>2, <3>1, <3>2, NothingTouched
  <2>4. CASE cp[h] # Null
    <3>1. PICK wait \in {"waiting", "over"} : Put(h, cp[h], wait)
      BY <1>3, <2>4 DEF ConnectFails, GiveBack
    <3>2. cp[h] \in Nodes
      BY <2>4 DEF AskInv, OwnerInv, LinkTypes
    <3> QED
      BY <2>1, <2>2, <3>1, <3>2, PutAsked
  <2> QED
    BY <2>3, <2>4
<1>4. ASSUME DisconnectToPool(h) PROVE AskInv'
  <2>1. PICK n \in Nodes : Put(h, n, retry[h])
    BY <1>4 DEF DisconnectToPool, AskInv, OwnerInv, LinkTypes
  <2>2. /\ want' = [want EXCEPT ![h] = Null] /\ call[h] = "none"
        /\ UNCHANGED <<valid, call, prev>>
    BY <1>4 DEF DisconnectToPool, walk
  <2>3. /\ OnlyCalls(h) /\ call'[h] = "none"
        /\ call' \in [Handles -> {"none", "walk", "drop", "connect", "disconnect"}]
        /\ want' \in [Handles -> Sources \cup {Null}]
    BY <2>2 DEF OnlyCalls, AskInv, AskTypes
  <2> QED
    BY <2>1, <2>2, <2>3, PutAsked
<1>5. ASSUME DisconnectReturns(h) PROVE AskInv'
  <2>1. /\ call' = [call EXCEPT ![h] = "none"] /\ call[h] = "disconnect"
        /\ UNCHANGED <<valid, key, link, cp, prev>>
        /\ \/ UNCHANGED <<open, want, target>>
           \/ /\ open' = [open EXCEPT ![h] = FALSE]
              /\ want' = [want EXCEPT ![h] = Null]
              /\ target' = IF link[h] = Null THEN target
                           ELSE [target EXCEPT ![link[h]] = Idle]
    BY <1>5 DEF DisconnectReturns, walk
  <2>2. CASE UNCHANGED <<open, want, target>>
    <3>1. OnlyCalls(h) /\ AskTypes' /\ AskTrue(h)'
      BY <2>1, <2>2 DEF OnlyCalls, AskInv, AskTypes, AskTrue
    <3> QED
      BY <2>1, <2>2, <3>1, NothingTouched
  <2>3. CASE /\ open' = [open EXCEPT ![h] = FALSE]
             /\ want' = [want EXCEPT ![h] = Null]
             /\ target' = IF link[h] = Null THEN target
                          ELSE [target EXCEPT ![link[h]] = Idle]
    <3> USE DEF AskInv, AskTypes, OwnerInv, LinkTypes
    <3>1. \A c \in Conns \ {h} : Untouched(c)
      BY <2>1, <2>3 DEF OneOwner, Untouched
    <3>2. AskTypes' /\ OnlyCalls(h)
      BY <2>1, <2>3 DEF OnlyCalls
    <3>3. AskTrue(h)' /\ KeyTrue(h)'
      BY <2>1, <2>3 DEF AskTrue, KeyTrue
    <3> HIDE DEF AskInv, AskTypes, OwnerInv, LinkTypes
    <3> QED
      BY <1>0, <3>1, <3>2, <3>3
  <2> QED
    BY <2>1, <2>2, <2>3
<1>6. ASSUME FreeConnect(h) PROVE AskInv'
  <2> USE DEF AskInv, AskTypes, OwnerInv, LinkTypes
  <2>1. /\ call[h] = "none" /\ ~open[h] /\ valid' = valid \ {h}
        /\ target' = Gone(link[h])
        /\ key' = [key EXCEPT ![h] = Null] /\ link' = [link EXCEPT ![h] = Null]
        /\ UNCHANGED <<open, call, want, prev>>
    BY <1>6 DEF FreeConnect, walk
  <2>2. /\ \A c \in Conns \ {h} : Untouched(c)
        /\ target' \in [Links -> Sources \cup {Idle, Null}]
    BY <2>1 DEF OneOwner, Untouched, Gone
  <2>3. AskTypes' /\ OnlyCalls(h)
    BY <2>1, <2>2 DEF OnlyCalls
  <2>4. AskTrue(h)' /\ KeyTrue(h)'
    BY <2>1 DEF AskTrue, KeyTrue
  <2> HIDE DEF AskInv, AskTypes, OwnerInv, LinkTypes
  <2> QED
    BY <1>0, <2>2, <2>3, <2>4
<1> QED
  BY <1>1, <1>2, <1>3, <1>4, <1>5, <1>6

LEMMA AskStep == AskInv /\ Careful /\ [Next]_vars => AskInv' /\ Careful'
<1> SUFFICES ASSUME AskInv, Careful, [Next]_vars PROVE AskInv' /\ Careful'
  OBVIOUS
<1>0. Careful' /\ OwnerInv'
  BY StepOwner DEF Careful, Next, vars, AskInv
<1>1. ASSUME UNCHANGED <<key, link, open, call, want, target, prev, cp, valid>> PROVE AskInv'
  <2>1. AskTypes' /\ (\A c \in Conns : KeyTrue(c)') /\ \A h \in Handles : AskTrue(h)'
    BY <1>1 DEF AskInv, AskTypes, KeyTrue, AskTrue
  <2> QED
    BY <1>0, <2>1 DEF AskInv
<1>2. ASSUME FreeEnv PROVE AskInv'
  <2> USE DEF AskInv, AskTypes, OwnerInv, LinkTypes
  <2>1. /\ valid = {} /\ target' = [l \in Links |-> Null]
        /\ key' = [c \in Conns |-> Null] /\ link' = key' /\ open' = [c \in Conns |-> FALSE]
        /\ UNCHANGED <<valid, call, want, prev>>
    BY <1>2 DEF FreeEnv, walk
  <2>2. AskTypes' /\ \A c \in Conns : KeyTrue(c)'
    BY <2>1 DEF KeyTrue
  <2>3. \A h \in Handles : AskTrue(h)'
    BY <2>1 DEF AskTrue, Conns
  <2> QED
    BY <1>0, <2>2, <2>3
<1>3. ASSUME NEW n \in Nodes, Expire(n) PROVE AskInv'
  BY <1>1, <1>3 DEF Expire, walk
<1>4. ASSUME NEW c \in Conns, RetryWaitOver(c) PROVE AskInv'
  BY <1>1, <1>4 DEF RetryWaitOver, walk
<1>5. CASE UNCHANGED vars
  BY <1>0, <1>1, <1>5 DEF vars, walk
<1>6. CASE \E h \in Handles :
        \/ \E s \in Sources : Connect(h, s)
        \/ \E n \in Nodes : Skip(h, n) \/ Expired(h, n) \/ TouchFreed(h, n)
        \/ Disconnect(h) \/ AllocConnect(h)
  BY <1>0, <1>6, QuietStep
<1>7. CASE \E h \in Handles :
        Missed(h) \/ \E n \in Nodes : Refused(h, n) \/ Dead(h, n) \/ Got(h, n)
  BY <1>0, <1>7, WalkEnds
<1>8. CASE \E h \in Handles :
        \/ Dropped(h) \/ Connected(h) \/ ConnectFails(h) \/ DisconnectToPool(h)
        \/ DisconnectReturns(h) \/ FreeConnect(h)
  BY <1>0, <1>8, CallReturns
<1> QED
  BY <1>0, <1>2, <1>3, <1>4, <1>5, <1>6, <1>7, <1>8, PoolAssumption DEF Next, Step

(* A handle that is connected is connected to the data source its          *)
(* application asked for: neither the pool, nor a connect that failed on a *)
(* pooled connection, nor the walk another thread interrupted gives it     *)
(* another's, for any number of handles, pooled connections and sources.   *)
THEOREM ConnectedToAskedHolds == Spec => []ConnectedToAsked
<1>1. (Careful => AskInv) /\ [Next]_vars => (Careful => AskInv)'
  BY AskStep DEF Careful, Next, vars
<1>2. Init => (Careful => AskInv)
  BY InitAsk
<1>3. (Careful => AskInv) => ConnectedToAsked
  BY DEF AskInv, AskTypes, AskTrue, ConnectedToAsked, Conns
<1> QED
  BY <1>1, <1>2, <1>3, PTL DEF Spec

-----------------------------------------------------------------------------
(* What the pool is while walks, drops and connects interleave: no node is *)
(* in it twice, and no two neighbours are past their expiry time.          *)
PoolTypes ==
  /\ pool \in Seq(Nodes)
  /\ \A i, j \in 1..Len(pool) : pool[i] = pool[j] => i = j
  /\ inUse \in [Nodes -> BOOLEAN] /\ due \in [Nodes -> BOOLEAN]
  /\ cur \in [Handles -> Nodes \cup {Null}]

Apart == \A i \in 1..(Len(pool) - 1) : ~(due[pool[i]] /\ due[pool[i + 1]])

(* What a handle has borrowed is in the pool and in use, and is no other's;*)
(* the handle is connected, or connecting with it.                         *)
Borrows(h) == cp[h] # Null =>
  /\ InPool(cp[h]) /\ inUse[cp[h]]
  /\ h \in valid /\ call[h] \in {"none", "connect"} /\ (call[h] = "none" => open[h])
  /\ \A g \in Handles : cp[g] = cp[h] => g = h

Lent ==
  /\ \A h \in Handles : Borrows(h)
  /\ \A n \in Nodes : InPool(n) /\ inUse[n] => \E h \in Handles : cp[h] = n

(* Nobody else walks, even while the lock is released for a drop; the next *)
(* node is in the pool, and after a drop it is not past its expiry time, so*)
(* that nothing is written to the node that was dropped.                   *)
Walks(h) == call[h] \in {"walk", "drop"} =>
  /\ lock = h \/ (call[h] = "drop" /\ lock = Null)
  /\ \A g \in Handles : call[g] \in {"walk", "drop"} => g = h
  /\ cur[h] # Null => /\ InPool(cur[h])
                      /\ prev[h] # Null /\ ~InPool(prev[h]) => ~due[cur[h]]
  /\ call[h] = "drop" => prev[h] # Null /\ ~InPool(prev[h])

Walking == \A h \in Handles : Walks(h)

PoolInv == PoolTypes /\ Apart /\ Lent /\ Walking /\ fault = "none"

(* The place of a node, and the pool with a node taken out or put in front.*)
LEMMA PlaceOf ==
  ASSUME PoolTypes, NEW n, InPool(n)
  PROVE  Place(n) \in 1..Len(pool) /\ pool[Place(n)] = n
<1>1. DOMAIN pool = 1..Len(pool)
  BY DEF PoolTypes
<1>2. \E i \in DOMAIN pool : pool[i] = n
  BY DEF InPool
<1> QED
  BY <1>1, <1>2 DEF Place

LEMMA TakenOut ==
  ASSUME NEW s \in Seq(Nodes), NEW i \in 1..Len(s)
  PROVE  /\ RemoveAt(s, i) \in Seq(Nodes)
         /\ Len(RemoveAt(s, i)) = Len(s) - 1
         /\ \A j \in 1..(Len(s) - 1) :
              RemoveAt(s, i)[j] = IF j < i THEN s[j] ELSE s[j + 1]
<1> DEFINE front == SubSeq(s, 1, i - 1)
           back  == SubSeq(s, i + 1, Len(s))
<1>0. Len(s) \in Nat /\ i \in Nat
  BY LenProperties
<1>1. /\ front \in Seq(Nodes) /\ Len(front) = i - 1
      /\ \A j \in 1..(i - 1) : front[j] = s[j]
  BY <1>0, SubSeqProperties
<1>2. /\ back \in Seq(Nodes) /\ Len(back) = Len(s) - i
      /\ \A j \in 1..(Len(s) - i) : back[j] = s[i + j]
  <2>1. \A j \in (i + 1)..Len(s) : j \in 1..Len(s)
    BY <1>0
  <2> QED
    BY <1>0, <2>1, SubSeqProperties
<1> HIDE DEF front, back
<1>3. /\ front \o back \in Seq(Nodes)
      /\ Len(front \o back) = Len(front) + Len(back)
      /\ \A j \in 1..(Len(front) + Len(back)) :
           (front \o back)[j] = IF j <= Len(front) THEN front[j] ELSE back[j - Len(front)]
  BY <1>1, <1>2, ConcatProperties
<1>4. RemoveAt(s, i) = front \o back
  BY DEF RemoveAt, front, back
<1>5. ASSUME NEW j \in 1..(Len(s) - 1)
      PROVE  (front \o back)[j] = IF j < i THEN s[j] ELSE s[j + 1]
  <2>1. CASE j < i
    BY <2>1, <1>0, <1>1, <1>2, <1>3
  <2>2. CASE ~(j < i)
    <3>1. (front \o back)[j] = back[j - Len(front)]
      BY <2>2, <1>0, <1>1, <1>2, <1>3
    <3>2. j - (i - 1) \in 1..(Len(s) - i) /\ i + (j - (i - 1)) = j + 1
      BY <2>2, <1>0
    <3> QED
      BY <2>2, <3>1, <3>2, <1>1, <1>2
  <2> QED
    BY <2>1, <2>2
<1>6. Len(front \o back) = Len(s) - 1
  BY <1>0, <1>1, <1>2, <1>3
<1> QED
  BY <1>3, <1>4, <1>5, <1>6

LEMMA PutInFront ==
  ASSUME NEW s \in Seq(Nodes), NEW n \in Nodes
  PROVE  /\ <<n>> \o s \in Seq(Nodes)
         /\ Len(<<n>> \o s) = Len(s) + 1
         /\ (<<n>> \o s)[1] = n
         /\ \A j \in 2..(Len(s) + 1) : (<<n>> \o s)[j] = s[j - 1]
<1> DEFINE front == <<n>>
<1>1. front \in Seq(Nodes) /\ Len(front) = 1 /\ front[1] = n
  OBVIOUS
<1>2. Len(s) \in Nat
  BY LenProperties
<1>3. /\ front \o s \in Seq(Nodes)
      /\ Len(front \o s) = Len(front) + Len(s)
      /\ \A j \in 1..(Len(front) + Len(s)) :
           (front \o s)[j] = IF j <= Len(front) THEN front[j] ELSE s[j - Len(front)]
  BY <1>1, ConcatProperties
<1> HIDE DEF front
<1>4. ASSUME NEW j \in 2..(Len(s) + 1) PROVE (front \o s)[j] = s[j - 1]
  <2>1. j \in 1..(Len(front) + Len(s)) /\ ~(j <= Len(front)) /\ j - Len(front) = j - 1
    BY <1>1, <1>2
  <2> QED
    BY <1>3, <2>1
<1>5. (front \o s)[1] = n
  <2>1. 1 \in 1..(Len(front) + Len(s)) /\ 1 <= Len(front)
    BY <1>1, <1>2
  <2> QED
    BY <1>1, <1>3, <2>1
<1>6. front = <<n>>
  BY DEF front
<1>7. Len(front \o s) = Len(s) + 1
  BY <1>1, <1>2, <1>3
<1> QED
  BY <1>3, <1>4, <1>5, <1>6, <1>7

LEMMA NobodyWalks ==
  ASSUME \A g \in Handles : call'[g] \notin {"walk", "drop"}
  PROVE  Walking'
BY DEF Walking, Walks

LEMMA LentKept ==
  ASSUME Lent, UNCHANGED <<pool, inUse, cp>>,
         \A g \in Handles : cp[g] # Null =>
           g \in valid' /\ call'[g] \in {"none", "connect"} /\ (call'[g] = "none" => open'[g])
  PROVE  Lent'
BY DEF Lent, Borrows, InPool

(* The calls that do not look at the pool run while another thread drops.  *)
LEMMA WalkingKept ==
  ASSUME Walking, UNCHANGED <<lock, cur, prev>>,
         cur \in [Handles -> Nodes \cup {Null}], prev \in [Handles -> Nodes \cup {Null}],
         \A g \in Handles : call'[g] \in {"walk", "drop"} => call'[g] = call[g],
         \A n \in Nodes : InPool(n) => InPool(n)' /\ (due'[n] => due[n]),
         \A g \in Handles : call[g] = "drop" => ~InPool(prev[g])'
  PROVE  Walking'
<1> SUFFICES ASSUME NEW h \in Handles, call'[h] \in {"walk", "drop"}
             PROVE  Walks(h)'
  BY DEF Walking, Walks
<1>1. call[h] = call'[h] /\ Walks(h)
  BY DEF Walking
<1>2. /\ lock' = h \/ (call'[h] = "drop" /\ lock' = Null)
      /\ \A g \in Handles : call'[g] \in {"walk", "drop"} => g = h
      /\ call'[h] = "drop" => prev'[h] # Null /\ ~InPool(prev[h])'
  BY <1>1 DEF Walks
<1>3. ASSUME cur[h] # Null
      PROVE  InPool(cur[h])' /\ (prev[h] # Null /\ ~InPool(prev[h])' => ~due'[cur[h]])
  BY <1>1, <1>3 DEF Walks
<1> QED
  BY <1>1, <1>2, <1>3 DEF Walks

(* A handle in a call of its own: it has borrowed nothing.                 *)
LEMMA NothingBorrowed ==
  ASSUME Lent, NEW h \in Handles,
         call[h] \notin {"none", "connect"} \/ h \notin valid \/ (call[h] = "none" /\ ~open[h])
  PROVE  cp[h] = Null
BY DEF Lent, Borrows

(* A connection that is put back is in the pool, and in use no more.       *)
LEMMA PutPool ==
  ASSUME AskInv, PoolInv, Careful, NEW h \in Handles, NEW n \in Nodes, NEW wait,
         Put(h, n, wait), UNCHANGED <<lock, valid, cur, prev, fault>>,
         cp[h] = n \/ (cp[h] = Null /\ ~InPool(n) /\ n \notin Dropping),
         call[h] \in {"none", "connect"}, call' = [call EXCEPT ![h] = "none"]
  PROVE  PoolInv'
<1> USE DEF PoolInv, PoolTypes
<1>1. /\ inUse' = [inUse EXCEPT ![n] = FALSE] /\ cp' = [cp EXCEPT ![h] = Null]
      /\ open' = [open EXCEPT ![n] = open[h], ![h] = FALSE]
  BY DEF Put, Copy
<1>2. PICK late \in BOOLEAN :
        /\ due' = [due EXCEPT ![n] = late]
        /\ wait = "no" => ~late
        /\ wait # "no" /\ cp[h] # Null => late = due[n]
        /\ late => MayExpire(n, pool')
  BY DEF Put
<1>3. inUse' \in [Nodes -> BOOLEAN] /\ due' \in [Nodes -> BOOLEAN]
  BY <1>1, <1>2
<1>4. /\ call \in [Handles -> {"none", "walk", "drop", "connect", "disconnect"}]
      /\ cp \in [Handles -> Nodes \cup {Null}] /\ open \in [Conns -> BOOLEAN]
      /\ prev \in [Handles -> Nodes \cup {Null}]
      /\ n # Null /\ n # h /\ h # Null /\ Handles \cap Nodes = {}
  BY PoolAssumption DEF AskInv, AskTypes, OwnerInv, LinkTypes
<1>5. ASSUME NEW g \in Handles, cp'[g] # Null
      PROVE  /\ g # h /\ cp'[g] = cp[g] /\ cp[g] # n /\ call'[g] = call[g]
             /\ open'[g] = open[g] /\ Borrows(g)
  <2>1. g # h /\ cp'[g] = cp[g]
    BY <1>1, <1>4, <1>5
  <2>2. cp[g] # n
    BY <2>1, <1>5 DEF Lent, Borrows
  <2>3. open'[g] = open[g] /\ call'[g] = call[g]
    BY <2>1, <1>1, <1>4 DEF Conns
  <2> QED
    BY <2>1, <2>2, <2>3 DEF Lent
<1>6. ASSUME NEW g \in Handles, cp'[g] # Null, \A m \in Nodes : InPool(m) => InPool(m)'
      PROVE  Borrows(g)'
  <2>1. PICK m \in Nodes : cp[g] = m /\ cp'[g] = m
    BY <1>4, <1>5, <1>6
  <2>2. InPool(m) /\ inUse[m] /\ m # n
    BY <2>1, <1>5, <1>6 DEF Borrows
  <2>3. InPool(m)' /\ inUse'[m]
    BY <2>2, <1>6, <1>1
  <2>4. \A k \in Handles : cp'[k] = m => k = g
    BY <2>1, <1>5, <1>6 DEF Borrows
  <2>5. g \in valid' /\ call'[g] \in {"none", "connect"} /\ (call'[g] = "none" => open'[g])
    BY <1>5, <1>6 DEF Borrows
  <2> QED
    BY <2>1, <2>3, <2>4, <2>5 DEF Borrows
<1>7. CASE cp[h] = n
  <2>1. pool' = pool
    BY <1>4, <1>7 DEF Put
  <2>2. \A m \in Nodes : due'[m] => due[m]
    BY <1>2, <1>4, <1>7
  <2>3. Apart'
    <3>1. \A i \in 1..(Len(pool) - 1) : pool[i] \in Nodes /\ pool[i + 1] \in Nodes
      BY ElementOfSeq, LenProperties
    <3> QED
      BY <2>1, <2>2, <3>1 DEF Apart
  <2>4. Lent'
    <3>1. ASSUME NEW g \in Handles, cp'[g] # Null PROVE Borrows(g)'
      BY <3>1, <1>6, <2>1 DEF InPool
    <3>2. ASSUME NEW m \in Nodes, InPool(m)', inUse'[m]
          PROVE  \E g \in Handles : cp'[g] = m
      <4>1. m # n /\ InPool(m) /\ inUse[m]
        BY <3>2, <1>1, <2>1 DEF InPool
      <4>2. PICK g \in Handles : cp[g] = m
        BY <4>1 DEF Lent
      <4>3. cp'[g] = m
        BY <4>1, <4>2, <1>1, <1>4, <1>7
      <4> QED
        BY <4>3
    <3> QED
      BY <3>1, <3>2 DEF Lent, Borrows
  <2>5. Walking'
    <3>1. /\ \A g \in Handles : call'[g] \in {"walk", "drop"} => call'[g] = call[g]
          /\ \A m : InPool(m)' <=> InPool(m)
      BY <1>4, <2>1 DEF InPool
    <3>2. \A g \in Handles : call[g] = "drop" => ~InPool(prev[g])'
      BY <3>1 DEF Walking, Walks
    <3> QED
      BY <1>4, <3>1, <3>2, <2>2, WalkingKept
  <2> QED
    BY <1>3, <2>1, <2>3, <2>4, <2>5
<1>8. CASE cp[h] = Null /\ ~InPool(n) /\ n \notin Dropping
  <2>1. pool' = <<n>> \o pool
    BY <1>8 DEF Put
  <2>2. /\ pool' \in Seq(Nodes) /\ Len(pool') = Len(pool) + 1 /\ Len(pool) \in Nat
        /\ pool'[1] = n /\ \A i \in 2..(Len(pool) + 1) : pool'[i] = pool[i - 1]
    BY <2>1, PutInFront, LenProperties
  <2>3. \A i \in 1..Len(pool) : pool[i] # n /\ pool[i] \in Nodes /\ pool'[i + 1] = pool[i]
    <3>1. DOMAIN pool = 1..Len(pool)
      OBVIOUS
    <3>2. \A i \in 1..Len(pool) : pool[i] # n
      BY <1>8, <3>1 DEF InPool
    <3>3. \A i \in 1..Len(pool) : i + 1 \in 2..(Len(pool) + 1) /\ (i + 1) - 1 = i
      BY <2>2
    <3>4. \A i \in 1..Len(pool) : pool[i] \in Nodes
      BY ElementOfSeq
    <3> QED
      BY <2>2, <3>2, <3>3, <3>4
  <2>4. ASSUME NEW m PROVE InPool(m)' <=> m = n \/ InPool(m)
    <3>1. DOMAIN pool = 1..Len(pool) /\ DOMAIN pool' = 1..(Len(pool) + 1)
      BY <2>2
    <3>2. ASSUME NEW i \in 1..(Len(pool) + 1)
          PROVE  i = 1 \/ (i - 1 \in 1..Len(pool) /\ (i - 1) + 1 = i)
      BY <2>2
    <3>3. 1 \in 1..(Len(pool) + 1) /\ \A i \in 1..Len(pool) : i + 1 \in 1..(Len(pool) + 1)
      BY <2>2
    <3>4. InPool(n)'
      BY <2>2, <3>1, <3>3 DEF InPool
    <3>5. InPool(m) => InPool(m)'
      BY <2>3, <3>1, <3>3 DEF InPool
    <3>6. InPool(m)' => m = n \/ InPool(m)
      <4>1. ASSUME NEW i \in 1..(Len(pool) + 1), pool'[i] = m, m # n PROVE InPool(m)
        <5>1. i - 1 \in 1..Len(pool) /\ pool[i - 1] = m
          BY <4>1, <2>2, <3>2
        <5> QED
          BY <5>1, <3>1 DEF InPool
      <4> QED
        BY <4>1, <3>1 DEF InPool
    <3> QED
      BY <3>4, <3>5, <3>6
  <2>5. \A i, j \in 1..Len(pool') : pool'[i] = pool'[j] => i = j
    <3>1. ASSUME NEW i \in 1..Len(pool')
          PROVE  i = 1 \/ (i - 1 \in 1..Len(pool) /\ pool'[i] = pool[i - 1])
      BY <2>2
    <3>2. ASSUME NEW i \in 1..Len(pool'), NEW j \in 1..Len(pool'), pool'[i] = pool'[j]
          PROVE  i = j
      <4>1. CASE i = 1 \/ j = 1
        <5>1. \A k \in 1..Len(pool') : k # 1 => pool'[k] # n
          BY <3>1, <2>3
        <5> QED
          BY <3>2, <4>1, <5>1, <2>2
      <4>2. CASE i # 1 /\ j # 1
        <5>1. i - 1 = j - 1
          BY <3>1, <3>2, <4>2
        <5> QED
          BY <5>1
      <4> QED
        BY <4>1, <4>2
    <3> QED
      BY <3>2
  <2>6. \A m \in Nodes : InPool(m) => due'[m] = due[m] /\ inUse'[m] = inUse[m]
    BY <1>1, <1>2, <1>8
  <2>7. Apart'
    <3> SUFFICES ASSUME NEW i \in 1..Len(pool)
                 PROVE  ~(due'[pool'[i]] /\ due'[pool'[i + 1]])
      BY <2>2 DEF Apart
    <3>1. CASE i = 1
      <4>1. pool'[1] = n /\ pool'[1 + 1] = pool[1] /\ pool[1] # n /\ pool[1] \in Nodes
        BY <3>1, <2>2, <2>3
      <4>2. due'[n] => ~due[pool'[1 + 1]]
        <5>1. late => \A j \in 1..(Len(pool') - 1) :
                        pool'[j] = n => ~due[pool'[j + 1]]
          BY <1>2 DEF MayExpire, May, Careful
        <5>2. due'[n] = late /\ 1 \in 1..(Len(pool') - 1)
          BY <3>1, <1>2, <2>2
        <5> QED
          BY <5>1, <5>2, <4>1
      <4> QED
        BY <3>1, <4>1, <4>2, <1>2
    <3>2. CASE i # 1
      <4>1. i - 1 \in 1..(Len(pool) - 1) /\ (i - 1) + 1 = i
        BY <3>2, <2>2
      <4>2. pool'[i] = pool[i - 1] /\ pool'[i + 1] = pool[i]
        BY <3>2, <2>2, <2>3
      <4>3. ~(due[pool[i - 1]] /\ due[pool[i]])
        BY <4>1 DEF Apart
      <4>4. pool[i - 1] \in Nodes \ {n} /\ pool[i] \in Nodes \ {n}
        BY <2>2, <2>3, <4>1
      <4>5. due'[pool[i - 1]] = due[pool[i - 1]] /\ due'[pool[i]] = due[pool[i]]
        BY <4>4, <1>2
      <4> QED
        BY <4>2, <4>3, <4>5
    <3> QED
      BY <3>1, <3>2
  <2>8. Lent'
    <3>1. ASSUME NEW g \in Handles, cp'[g] # Null PROVE Borrows(g)'
      BY <3>1, <1>6, <2>4
    <3>2. ASSUME NEW m \in Nodes, InPool(m)', inUse'[m]
          PROVE  \E g \in Handles : cp'[g] = m
      <4>1. m # n /\ InPool(m) /\ inUse[m]
        BY <3>2, <1>1, <2>4
      <4>2. PICK g \in Handles : cp[g] = m
        BY <4>1 DEF Lent
      <4>3. g # h
        BY <4>2, <1>8, PoolAssumption
      <4>4. cp'[g] = m
        BY <4>2, <4>3, <1>1, <1>4
      <4> QED
        BY <4>4
    <3> QED
      BY <3>1, <3>2 DEF Lent, Borrows
  <2>9. Walking'
    <3>1. \A g \in Handles : call'[g] \in {"walk", "drop"} => call'[g] = call[g]
      BY <1>4
    <3>2. \A m \in Nodes : InPool(m) => InPool(m)' /\ (due'[m] => due[m])
      BY <2>4, <2>6
    <3>3. \A g \in Handles : call[g] = "drop" => ~InPool(prev[g])'
      BY <2>4, <1>8 DEF Walking, Walks, Dropping
    <3> QED
      BY <1>4, <3>1, <3>2, <3>3, WalkingKept
  <2> QED
    BY <1>3, <2>2, <2>5, <2>7, <2>8, <2>9
<1> QED
  BY <1>7, <1>8

(* The next node of a walk, and what a drop leaves of the pool.            *)
LEMMA NextNode ==
  ASSUME PoolTypes, NEW n \in Nodes, InPool(n)
  PROVE  After(n) = Null \/ /\ After(n) \in Nodes /\ After(n) # n /\ InPool(After(n))
                            /\ Apart /\ due[n] => ~due[After(n)]
<1>1. Place(n) \in 1..Len(pool) /\ pool[Place(n)] = n
  BY PlaceOf
<1>2. Len(pool) \in Nat /\ DOMAIN pool = 1..Len(pool)
  BY LenProperties DEF PoolTypes
<1>3. CASE Place(n) = Len(pool)
  BY <1>3 DEF After
<1>4. CASE Place(n) # Len(pool)
  <2>1. Place(n) + 1 \in 1..Len(pool) /\ Place(n) \in 1..(Len(pool) - 1)
    BY <1>1, <1>2, <1>4
  <2>2. After(n) = pool[Place(n) + 1] /\ After(n) \in Nodes
    BY <1>4, <2>1, ElementOfSeq DEF After, PoolTypes
  <2>3. Place(n) + 1 # Place(n)
    BY <1>1
  <2>4. After(n) # n
    BY <1>1, <2>1, <2>2, <2>3 DEF PoolTypes
  <2>5. InPool(After(n))
    BY <1>2, <2>1, <2>2 DEF InPool
  <2>6. Apart /\ due[n] => ~due[After(n)]
    BY <1>1, <2>1, <2>2 DEF Apart
  <2> QED
    BY <2>2, <2>4, <2>5, <2>6
<1> QED
  BY <1>3, <1>4

LEMMA DropPool ==
  ASSUME AskInv, PoolInv, NEW h \in Handles, NEW n \in Nodes, Expired(h, n)
  PROVE  PoolInv'
<1> USE DEF PoolInv, PoolTypes
<1> DEFINE i == Place(n)
<1>1. /\ call[h] = "walk" /\ InPool(n) /\ ~inUse[n] /\ due[n]
      /\ pool' = RemoveAt(pool, i)
      /\ cur' = [cur EXCEPT ![h] = After(n)] /\ prev' = [prev EXCEPT ![h] = n]
      /\ call' = [call EXCEPT ![h] = "drop"] /\ lock' \in {h, Null}
      /\ UNCHANGED <<inUse, due, cp, valid, open, fault>>
  BY DEF Expired, At, Onward, nodes
<1>2. /\ call \in [Handles -> {"none", "walk", "drop", "connect", "disconnect"}]
      /\ prev \in [Handles -> Nodes \cup {Null}] /\ n # Null
      /\ cp \in [Handles -> Nodes \cup {Null}]
  BY PoolAssumption DEF AskInv, AskTypes, OwnerInv, LinkTypes
<1>3. i \in 1..Len(pool) /\ pool[i] = n /\ Len(pool) \in Nat
  BY <1>1, PlaceOf, LenProperties
<1> HIDE DEF i
<1>4. /\ pool' \in Seq(Nodes) /\ Len(pool') = Len(pool) - 1
      /\ \A j \in 1..(Len(pool) - 1) : pool'[j] = IF j < i THEN pool[j] ELSE pool[j + 1]
  BY <1>1, <1>3, TakenOut
<1>5. ASSUME NEW j \in 1..Len(pool')
      PROVE  \E k \in 1..Len(pool) : /\ k # i /\ pool'[j] = pool[k]
                                     /\ k = IF j < i THEN j ELSE j + 1
  <2>1. CASE j < i
    BY <2>1, <1>3, <1>4
  <2>2. CASE ~(j < i)
    <3>1. j + 1 \in 1..Len(pool) /\ j + 1 # i /\ pool'[j] = pool[j + 1]
      BY <2>2, <1>3, <1>4
    <3> QED
      BY <2>2, <3>1
  <2> QED
    BY <2>1, <2>2
<1>6. ASSUME NEW j \in 1..Len(pool'), NEW k \in 1..Len(pool'), pool'[j] = pool'[k]
      PROVE  j = k
  <2>1. PICK a \in 1..Len(pool) : pool'[j] = pool[a] /\ a = IF j < i THEN j ELSE j + 1
    BY <1>5
  <2>2. PICK b \in 1..Len(pool) : pool'[k] = pool[b] /\ b = IF k < i THEN k ELSE k + 1
    BY <1>5
  <2>3. a = b
    BY <2>1, <2>2, <1>6
  <2> QED
    BY <2>1, <2>2, <2>3, <1>3, <1>4
<1>7. ASSUME NEW m PROVE InPool(m)' <=> InPool(m) /\ m # n
  <2>1. DOMAIN pool = 1..Len(pool) /\ DOMAIN pool' = 1..Len(pool')
    BY <1>4
  <2>2. InPool(m)' => InPool(m) /\ m # n
    <3> SUFFICES ASSUME NEW j \in 1..Len(pool'), pool'[j] = m
                 PROVE  InPool(m) /\ m # n
      BY <2>1 DEF InPool
    <3>1. PICK k \in 1..Len(pool) : k # i /\ pool'[j] = pool[k]
      BY <1>5
    <3> QED
      BY <2>1, <3>1, <1>3 DEF InPool
  <2>3. InPool(m) /\ m # n => InPool(m)'
    <3> SUFFICES ASSUME NEW k \in 1..Len(pool), pool[k] = m, m # n
                 PROVE  \E j \in 1..Len(pool') : pool'[j] = m
      BY <2>1 DEF InPool
    <3>1. k # i
      BY <1>3
    <3>2. CASE k < i
      <4>1. k \in 1..Len(pool') /\ pool'[k] = m
        BY <3>2, <1>3, <1>4
      <4> QED
        BY <4>1
    <3>3. CASE k > i
      <4>1. k - 1 \in 1..(Len(pool) - 1) /\ ~(k - 1 < i) /\ (k - 1) + 1 = k
        BY <3>3, <1>3
      <4>2. k - 1 \in 1..Len(pool') /\ pool'[k - 1] = m
        BY <4>1, <1>4
      <4> QED
        BY <4>2
    <3> QED
      BY <3>1, <3>2, <3>3, <1>3
  <2> QED
    BY <2>2, <2>3
<1>8. Apart'
  <2> SUFFICES ASSUME NEW j \in 1..(Len(pool) - 2)
               PROVE  ~(due[pool'[j]] /\ due[pool'[j + 1]])
    BY <1>1, <1>3, <1>4 DEF Apart
  <2>1. CASE j + 1 < i
    <3>1. pool'[j] = pool[j] /\ pool'[j + 1] = pool[j + 1] /\ j \in 1..(Len(pool) - 1)
      BY <2>1, <1>3, <1>4
    <3> QED
      BY <3>1 DEF Apart
  <2>2. CASE j + 1 = i
    <3>1. pool'[j] = pool[j] /\ j \in 1..(Len(pool) - 1)
      BY <2>2, <1>3, <1>4
    <3>2. ~due[pool[j]]
      BY <2>2, <3>1, <1>1, <1>3 DEF Apart
    <3> QED
      BY <3>1, <3>2
  <2>3. CASE i <= j
    <3>1. /\ pool'[j] = pool[j + 1] /\ pool'[j + 1] = pool[(j + 1) + 1]
          /\ j + 1 \in 1..(Len(pool) - 1)
      BY <2>3, <1>3, <1>4
    <3> QED
      BY <3>1 DEF Apart
  <2> QED
    BY <2>1, <2>2, <2>3, <1>3
<1>9. Lent'
  <2>1. ASSUME NEW g \in Handles, cp[g] # Null PROVE Borrows(g)'
    <3>1. Borrows(g) /\ cp[g] # n /\ g # h
      BY <2>1, <1>1 DEF Lent, Borrows
    <3>2. InPool(cp[g])'
      BY <2>1, <3>1, <1>1, <1>7 DEF Borrows
    <3>3. call'[g] = call[g]
      BY <3>1, <1>1, <1>2
    <3> QED
      BY <3>1, <3>2, <3>3, <1>1 DEF Borrows
  <2>2. \A m \in Nodes : InPool(m)' /\ inUse'[m] => \E g \in Handles : cp'[g] = m
    BY <1>1, <1>7 DEF Lent
  <2> QED
    BY <2>1, <2>2, <1>1 DEF Lent, Borrows
<1>10. Walking'
  <2>1. After(n) # Null => After(n) # n /\ InPool(After(n)) /\ ~due[After(n)]
    BY <1>1, NextNode
  <2>2. cur'[h] = After(n) /\ prev'[h] = n /\ call'[h] = "drop"
    BY <1>1, <1>2
  <2>3. ASSUME NEW g \in Handles, call'[g] \in {"walk", "drop"} PROVE g = h
    BY <2>3, <1>1, <1>2 DEF Walking, Walks
  <2>4. cur'[h] # Null => InPool(cur[h])' /\ ~due'[cur'[h]]
    BY <2>1, <2>2, <1>1, <1>7
  <2>5. prev'[h] # Null /\ ~InPool(prev[h])'
    BY <2>2, <1>2, <1>7
  <2>6. Walks(h)'
    BY <2>2, <2>3, <2>4, <2>5, <1>1 DEF Walks
  <2> QED
    BY <2>3, <2>6 DEF Walking, Walks
<1>11. cur' \in [Handles -> Nodes \cup {Null}]
  <2>1. After(n) \in Nodes \cup {Null}
    BY <1>1, NextNode
  <2> QED
    BY <2>1, <1>1
<1> QED
  BY <1>1, <1>4, <1>6, <1>8, <1>9, <1>10, <1>11

(* The other steps of a walk.                                              *)
LEMMA WalkPool ==
  ASSUME AskInv, PoolInv, Careful, NEW h \in Handles,
         \/ \E s \in Sources : Connect(h, s)
         \/ \E n \in Nodes : \/ Skip(h, n) \/ TouchFreed(h, n)
                             \/ Refused(h, n) \/ Dead(h, n) \/ Got(h, n)
         \/ Dropped(h) \/ Missed(h)
  PROVE  PoolInv'
<1>0. /\ call \in [Handles -> {"none", "walk", "drop", "connect", "disconnect"}]
      /\ prev \in [Handles -> Nodes \cup {Null}] /\ cur \in [Handles -> Nodes \cup {Null}]
      /\ cp \in [Handles -> Nodes \cup {Null}] /\ open \in [Conns -> BOOLEAN]
      /\ inUse \in [Nodes -> BOOLEAN] /\ due \in [Nodes -> BOOLEAN]
      /\ Null \notin Nodes \cup Handles /\ Handles \cap Nodes = {} /\ Handles \subseteq Conns
  BY PoolAssumption DEF AskInv, AskTypes, OwnerInv, LinkTypes, PoolInv, PoolTypes, Conns
<1>1. ASSUME PoolTypes', UNCHANGED <<pool, due, fault>>, Lent', Walking' PROVE PoolInv'
  BY <1>1 DEF PoolInv, Apart
<1>2. ASSUME PoolTypes, UNCHANGED <<pool, inUse, due>>, cur' \in [Handles -> Nodes \cup {Null}]
      PROVE  PoolTypes'
  BY <1>2 DEF PoolTypes
<1>3. ASSUME call[h] = "walk", \A g \in Handles \ {h} : call'[g] = call[g]
      PROVE  \A g \in Handles \ {h} : call'[g] \notin {"walk", "drop"}
  BY <1>3 DEF PoolInv, Walking, Walks
<1>4. ASSUME NEW s \in Sources, Connect(h, s) PROVE PoolInv'
  <2>1. /\ lock = Null /\ call[h] = "none" /\ ~open[h] /\ lock' = h
        /\ call' = [call EXCEPT ![h] = "walk"]
        /\ cur' = [cur EXCEPT ![h] = IF pool = <<>> THEN Null ELSE Head(pool)]
        /\ prev' = [prev EXCEPT ![h] = Null]
        /\ UNCHANGED <<valid, pool, open, inUse, due, cp, fault>>
    BY <1>4 DEF Connect, nodes
  <2>2. \A g \in Handles : call[g] \notin {"walk", "drop"}
    <3>1. \A g \in Handles : call[g] # "drop"
      BY <1>4 DEF Connect, May, Careful
    <3>2. ASSUME NEW g \in Handles PROVE call[g] # "walk"
      BY <2>1, <1>0 DEF PoolInv, Walking, Walks
    <3> QED
      BY <3>1, <3>2
  <2>3. pool # <<>> => Head(pool) \in Nodes /\ InPool(Head(pool))
    <3> HAVE pool # <<>>
    <3>1. 1 \in 1..Len(pool) /\ Head(pool) = pool[1] /\ DOMAIN pool = 1..Len(pool)
      BY HeadTailProperties, EmptySeq, LenProperties DEF PoolInv, PoolTypes
    <3>2. pool[1] \in Nodes
      BY <3>1, ElementOfSeq DEF PoolInv, PoolTypes
    <3> QED
      BY <3>1, <3>2 DEF InPool
  <2>4. cur' \in [Handles -> Nodes \cup {Null}]
    BY <2>1, <2>3, <1>0
  <2>5. cp[h] = Null
    BY <2>1, NothingBorrowed DEF PoolInv
  <2>6. Lent'
    <3>1. \A g \in Handles : cp[g] # Null => call'[g] = call[g] /\ Borrows(g)
      BY <2>1, <2>5, <1>0 DEF PoolInv, Lent
    <3> QED
      BY <2>1, <3>1, LentKept DEF PoolInv, Borrows
  <2>7. Walking'
    <3>1. \A g \in Handles : call'[g] \in {"walk", "drop"} => g = h
      BY <2>1, <2>2, <1>0
    <3>2. call'[h] = "walk" /\ prev'[h] = Null
      BY <2>1, <1>0
    <3>3. cur'[h] # Null => InPool(cur[h])'
      BY <2>1, <2>3, <1>0 DEF InPool
    <3>4. Walks(h)'
      BY <2>1, <3>1, <3>2, <3>3 DEF Walks
    <3> QED
      BY <3>1, <3>4 DEF Walking, Walks
  <2> QED
    BY <1>1, <1>2, <2>1, <2>4, <2>6, <2>7 DEF PoolInv
<1>5. ASSUME NEW n \in Nodes, Skip(h, n) PROVE PoolInv'
  <2>1. /\ call[h] = "walk" /\ lock = h /\ InPool(n)
        /\ cur' = [cur EXCEPT ![h] = After(n)] /\ prev' = [prev EXCEPT ![h] = n]
        /\ UNCHANGED <<lock, valid, pool, open, inUse, due, cp, call, fault>>
    BY <1>5 DEF Skip, At, Onward, nodes
  <2>2. After(n) = Null \/ (After(n) \in Nodes /\ InPool(After(n)))
    BY <2>1, NextNode DEF PoolInv
  <2>3. cur' \in [Handles -> Nodes \cup {Null}]
    BY <2>1, <2>2, <1>0
  <2>4. Lent'
    BY <2>1, LentKept DEF PoolInv, Lent, Borrows
  <2>5. Walking'
    <3>1. \A g \in Handles : call'[g] \in {"walk", "drop"} => g = h
      BY <2>1, <1>3
    <3>2. cur'[h] # Null => InPool(cur[h])'
      BY <2>1, <2>2, <1>0 DEF InPool
    <3>3. InPool(prev[h])'
      BY <2>1, <1>0 DEF InPool
    <3>4. Walks(h)'
      BY <2>1, <3>1, <3>2, <3>3 DEF Walks
    <3> QED
      BY <3>1, <3>4 DEF Walking, Walks
  <2> QED
    BY <1>1, <1>2, <2>1, <2>3, <2>4, <2>5 DEF PoolInv
<1>6. ASSUME NEW n \in Nodes, TouchFreed(h, n) PROVE FALSE
  BY <1>6 DEF TouchFreed, At, PoolInv, Walking, Walks
<1>7. ASSUME NEW n \in Nodes, Refused(h, n) PROVE PoolInv'
  <2>1. /\ call[h] = "walk" /\ cp' = [cp EXCEPT ![h] = Null]
        /\ call' = [call EXCEPT ![h] = "none"] /\ cur' = [cur EXCEPT ![h] = Null]
        /\ open' = [open EXCEPT ![n] = open[h], ![h] = FALSE]
        /\ UNCHANGED <<valid, pool, inUse, due, fault>>
    BY <1>7 DEF Refused, At, Copy, Stop, nodes
  <2>2. cp[h] = Null
    BY <2>1, NothingBorrowed DEF PoolInv
  <2>3. UNCHANGED cp
    BY <2>1, <2>2, <1>0
  <2>4. Lent'
    <3>1. ASSUME NEW g \in Handles, cp[g] # Null
          PROVE  call'[g] = call[g] /\ open'[g] = open[g] /\ Borrows(g)
      BY <2>1, <2>2, <3>1, <1>0 DEF PoolInv, Lent
    <3> QED
      BY <2>1, <2>3, <3>1, LentKept DEF PoolInv, Borrows
  <2>5. Walking'
    BY <2>1, <1>0, <1>3, NobodyWalks
  <2>6. cur' \in [Handles -> Nodes \cup {Null}]
    BY <2>1, <1>0
  <2> QED
    BY <1>1, <1>2, <2>1, <2>4, <2>5, <2>6 DEF PoolInv
<1>8. ASSUME NEW n \in Nodes, InPool(n), ~inUse[n], call[h] = "walk", h \in valid,
             cp' = [cp EXCEPT ![h] = n], inUse' = [inUse EXCEPT ![n] = TRUE],
             call' = [call EXCEPT ![h] = call'[h]],
             call'[h] = "connect" \/ (call'[h] = "none" /\ open'[h]),
             \A g \in Handles \ {h} : open'[g] = open[g],
             cur' = [cur EXCEPT ![h] = Null],
             UNCHANGED <<valid, pool, due, fault>>
      PROVE  PoolInv'
  <2>0. cp[h] = Null
    BY <1>8, NothingBorrowed DEF PoolInv
  <2>1. \A g \in Handles : cp[g] # n
    BY <1>8, <1>0 DEF PoolInv, Lent, Borrows
  <2>2. \A g \in Handles \ {h} : call'[g] = call[g] /\ cp'[g] = cp[g]
    BY <1>8, <1>0
  <2>3. cp'[h] = n /\ InPool(n)' /\ inUse'[n]
    BY <1>8, <1>0 DEF InPool
  <2>4. ASSUME NEW g \in Handles, g # h, cp'[g] # Null PROVE Borrows(g)'
    <3>1. PICK m \in Nodes : m = cp[g] /\ m = cp'[g] /\ m # n
      BY <2>1, <2>2, <2>4, <1>0
    <3>2. Borrows(g)
      BY DEF PoolInv, Lent
    <3>3. cp[g] # Null
      BY <3>1, <1>0
    <3>4. InPool(m) /\ inUse[m]
      BY <3>1, <3>2, <3>3 DEF Borrows, InPool
    <3>5. ASSUME NEW k \in Handles, cp'[k] = m PROVE k = g
      <4>1. k # h
        BY <3>1, <3>5, <2>3
      <4>2. cp[k] = cp[g]
        BY <4>1, <3>1, <3>5, <2>2
      <4> QED
        BY <4>2, <3>2, <3>3 DEF Borrows
    <3>6. InPool(m)' /\ inUse'[m]
      BY <3>1, <3>4, <1>8, <1>0 DEF InPool
    <3> QED
      BY <3>1, <3>2, <3>3, <3>5, <3>6, <2>2, <2>4, <1>8 DEF Borrows
  <2>5. Borrows(h)'
    BY <2>1, <2>2, <2>3, <1>8 DEF Borrows
  <2>6. ASSUME NEW m \in Nodes, InPool(m)', inUse'[m] PROVE \E g \in Handles : cp'[g] = m
    <3>1. CASE m = n
      BY <3>1, <2>3
    <3>2. CASE m # n
      <4>1. InPool(m) /\ inUse[m]
        BY <3>2, <2>6, <1>8, <1>0 DEF InPool
      <4>2. PICK g \in Handles : cp[g] = m
        BY <4>1 DEF PoolInv, Lent
      <4>3. g # h
        BY <4>2, <2>0, <1>0
      <4> QED
        BY <4>2, <4>3, <2>2
    <3> QED
      BY <3>1, <3>2
  <2>7. Lent'
    BY <2>4, <2>5, <2>6 DEF Lent, Borrows
  <2>8. Walking'
    BY <1>8, <2>2, <1>3, NobodyWalks
  <2>9. PoolTypes'
    BY <1>8, <1>0 DEF PoolInv, PoolTypes
  <2> QED
    BY <1>1, <1>8, <2>7, <2>8, <2>9
<1>9. ASSUME call[h] = "walk" PROVE h \in valid /\ call[h] # "none"
  BY <1>9 DEF AskInv, AskTrue
<1>10. ASSUME NEW n \in Nodes, Dead(h, n) PROVE PoolInv'
  <2>1. /\ call[h] = "walk" /\ InPool(n) /\ ~inUse[n]
        /\ cp' = [cp EXCEPT ![h] = n] /\ inUse' = [inUse EXCEPT ![n] = TRUE]
        /\ cur' = [cur EXCEPT ![h] = Null]
        /\ UNCHANGED <<valid, pool, open, due, fault>>
    BY <1>10 DEF Dead, At, Matches, Stop
  <2>2. call' = [call EXCEPT ![h] = "connect"]
    BY <1>10 DEF Dead, NoLoad, May, Careful, Load
  <2>3. call'[h] = "connect"
    BY <2>2, <1>0
  <2> QED
    BY <1>8, <1>9, <2>1, <2>2, <2>3
<1>11. ASSUME NEW n \in Nodes, Got(h, n) PROVE PoolInv'
  <2>1. /\ call[h] = "walk" /\ InPool(n) /\ ~inUse[n]
        /\ cp' = [cp EXCEPT ![h] = n] /\ inUse' = [inUse EXCEPT ![n] = TRUE]
        /\ call' = [call EXCEPT ![h] = "none"] /\ cur' = [cur EXCEPT ![h] = Null]
        /\ open' = [open EXCEPT ![h] = TRUE]
        /\ UNCHANGED <<valid, pool, due, fault>>
    BY <1>11 DEF Got, At, Matches, Stop
  <2>2. call'[h] = "none" /\ open'[h] /\ \A g \in Handles \ {h} : open'[g] = open[g]
    BY <2>1, <1>0
  <2> QED
    BY <1>8, <1>9, <2>1, <2>2
<1>12. ASSUME Dropped(h) PROVE PoolInv'
  <2>1. PICK n \in Nodes \cup {Null} : n = prev[h]
    BY <1>0
  <2>2. /\ call[h] = "drop" /\ lock' = h /\ call' = [call EXCEPT ![h] = "walk"]
        /\ open' = [open EXCEPT ![n] = FALSE] /\ due' = [due EXCEPT ![n] = FALSE]
        /\ UNCHANGED <<valid, pool, inUse, cp, cur, prev, fault>>
    BY <1>12, <2>1 DEF Dropped, walk
  <2>3. n \in Nodes /\ \A m \in Nodes : due'[m] => due[m]
    BY <2>1, <2>2, <1>0 DEF PoolInv, Walking, Walks
  <2>4. PoolTypes' /\ Apart'
    <3>1. PoolTypes'
      BY <2>2, <1>0 DEF PoolInv, PoolTypes
    <3>2. \A i \in 1..(Len(pool) - 1) : pool[i] \in Nodes /\ pool[i + 1] \in Nodes
      BY ElementOfSeq, LenProperties DEF PoolInv, PoolTypes
    <3> QED
      BY <2>2, <2>3, <3>1, <3>2 DEF PoolInv, Apart
  <2>5. Lent'
    <3>1. ASSUME NEW g \in Handles, cp[g] # Null
          PROVE  call'[g] = call[g] /\ open'[g] = open[g] /\ Borrows(g)
      <4>1. g # h /\ g # n
        BY <2>2, <2>3, <3>1, <1>0, NothingBorrowed DEF PoolInv
      <4> QED
        BY <4>1, <2>2, <1>0 DEF PoolInv, Lent
    <3> QED
      BY <2>2, <3>1, LentKept DEF PoolInv, Borrows
  <2>6. Walking'
    <3>1. Walks(h) /\ call'[h] = "walk"
      BY <2>2, <1>0 DEF PoolInv, Walking
    <3>2. \A g \in Handles : call'[g] \in {"walk", "drop"} => g = h
      BY <2>2, <3>1, <1>0 DEF Walks
    <3>3. cur[h] # Null => InPool(cur[h])' /\ ~due'[cur[h]]
      BY <2>2, <2>3, <3>1, <1>0 DEF Walks, InPool
    <3>4. Walks(h)'
      BY <2>2, <3>1, <3>2, <3>3 DEF Walks
    <3> QED
      BY <3>2, <3>4 DEF Walking, Walks
  <2> QED
    BY <2>2, <2>4, <2>5, <2>6 DEF PoolInv
<1>13. ASSUME Missed(h) PROVE PoolInv'
  <2>1. /\ call[h] = "walk" /\ cur' = [cur EXCEPT ![h] = Null]
        /\ UNCHANGED <<valid, pool, open, inUse, due, cp, fault>>
    BY <1>13 DEF Missed, Stop, nodes
  <2>2. call' = [call EXCEPT ![h] = "connect"]
    BY <1>13 DEF Missed, NoLoad, May, Careful, Load
  <2>3. Lent'
    <3>1. ASSUME NEW g \in Handles, cp[g] # Null PROVE call'[g] = call[g] /\ Borrows(g)
      <4>1. g # h
        BY <2>1, <3>1, NothingBorrowed DEF PoolInv
      <4> QED
        BY <4>1, <2>2, <1>0 DEF PoolInv, Lent
    <3> QED
      BY <2>1, <3>1, LentKept DEF PoolInv, Borrows
  <2>4. Walking'
    BY <2>1, <2>2, <1>0, <1>3, NobodyWalks
  <2>5. cur' \in [Handles -> Nodes \cup {Null}]
    BY <2>1, <1>0
  <2> QED
    BY <1>1, <1>2, <2>1, <2>3, <2>4, <2>5 DEF PoolInv
<1> QED
  BY <1>4, <1>5, <1>6, <1>7, <1>10, <1>11, <1>12, <1>13

(* The steps that are not of a walk.                                       *)
LEMMA OtherPool ==
  ASSUME AskInv, PoolInv, Careful, NEW h \in Handles,
         \/ Connected(h) \/ ConnectFails(h) \/ DisconnectToPool(h) \/ Disconnect(h)
         \/ DisconnectReturns(h) \/ AllocConnect(h) \/ FreeConnect(h)
  PROVE  PoolInv'
<1>0. /\ call \in [Handles -> {"none", "walk", "drop", "connect", "disconnect"}]
      /\ prev \in [Handles -> Nodes \cup {Null}] /\ cur \in [Handles -> Nodes \cup {Null}]
      /\ cp \in [Handles -> Nodes \cup {Null}] /\ open \in [Conns -> BOOLEAN]
      /\ Null \notin Nodes \cup Handles /\ Handles \subseteq Conns
  BY PoolAssumption DEF AskInv, AskTypes, OwnerInv, LinkTypes, PoolInv, PoolTypes, Conns
<1>1. ASSUME UNCHANGED <<lock, pool, inUse, due, cp, cur, prev, fault>>,
             \A g \in Handles : call'[g] \in {"walk", "drop"} => call'[g] = call[g],
             \A g \in Handles : cp[g] # Null =>
               /\ g \in valid' /\ call'[g] \in {"none", "connect"}
               /\ call'[g] = "none" => open'[g]
      PROVE  PoolInv'
  <2>1. PoolTypes' /\ Apart'
    BY <1>1 DEF PoolInv, PoolTypes, Apart
  <2>2. Lent'
    BY <1>1, LentKept DEF PoolInv
  <2>3. /\ \A n \in Nodes : InPool(n) => InPool(n)' /\ (due'[n] => due[n])
        /\ \A g \in Handles : call[g] = "drop" => ~InPool(prev[g])'
    BY <1>1 DEF PoolInv, Walking, Walks, InPool
  <2>4. Walking'
    BY <1>0, <1>1, <2>3, WalkingKept DEF PoolInv
  <2> QED
    BY <1>1, <2>1, <2>2, <2>4 DEF PoolInv
<1>2. ASSUME NEW g \in Handles, cp[g] # Null
      PROVE  g \in valid /\ call[g] \in {"none", "connect"} /\ (call[g] = "none" => open[g])
  BY <1>2 DEF PoolInv, Lent, Borrows
<1>3. ASSUME Connected(h) PROVE PoolInv'
  <2>1. /\ call' = [call EXCEPT ![h] = "none"] /\ open' = [open EXCEPT ![h] = TRUE]
        /\ UNCHANGED <<lock, valid, pool, inUse, due, cp, cur, prev, fault>>
    BY <1>3 DEF Connected, nodes, walk
  <2> QED
    BY <2>1, <1>0, <1>1, <1>2
<1>4. ASSUME ConnectFails(h) PROVE PoolInv'
  <2>1. /\ call[h] = "connect" /\ call' = [call EXCEPT ![h] = "none"]
        /\ UNCHANGED <<lock, valid, cur, prev, fault>>
    BY <1>4 DEF ConnectFails, walk
  <2>2. CASE cp[h] = Null
    <3>1. UNCHANGED <<pool, open, inUse, due, cp>>
      BY <1>4, <2>2 DEF ConnectFails, nodes
    <3> QED
      BY <2>1, <2>2, <3>1, <1>0, <1>1, <1>2
  <2>3. CASE cp[h] # Null
    <3>1. PICK wait \in {"waiting", "over"} : Put(h, cp[h], wait)
      BY <1>4, <2>3 DEF ConnectFails, GiveBack
    <3>2. cp[h] \in Nodes
      BY <2>3, <1>0
    <3> QED
      BY <2>1, <3>1, <3>2, PutPool
  <2> QED
    BY <2>2, <2>3
<1>5. ASSUME DisconnectToPool(h) PROVE PoolInv'
  <2>1. PICK n \in Nodes : /\ Put(h, n, retry[h])
                           /\ cp[h] = n \/ (cp[h] = Null /\ ~InPool(n) /\ n \notin Dropping)
    BY <1>5, <1>0 DEF DisconnectToPool
  <2>2. call[h] = "none" /\ UNCHANGED <<lock, valid, call, cur, prev, fault>>
    BY <1>5 DEF DisconnectToPool, walk
  <2>3. call' = [call EXCEPT ![h] = "none"]
    BY <2>2, <1>0
  <2> QED
    BY <2>1, <2>2, <2>3, PutPool
<1>6. ASSUME Disconnect(h) PROVE PoolInv'
  <2>1. /\ cp[h] = Null /\ call' = [call EXCEPT ![h] = "disconnect"]
        /\ UNCHANGED <<lock, valid, pool, open, inUse, due, cp, cur, prev, fault>>
    BY <1>6 DEF Disconnect, nodes, walk
  <2> QED
    BY <2>1, <1>0, <1>1, <1>2
<1>7. ASSUME DisconnectReturns(h) PROVE PoolInv'
  <2>1. /\ call[h] = "disconnect" /\ call' = [call EXCEPT ![h] = "none"]
        /\ \A g \in Handles \ {h} : open'[g] = open[g]
        /\ UNCHANGED <<lock, valid, pool, inUse, due, cp, cur, prev, fault>>
    BY <1>7, <1>0 DEF DisconnectReturns, nodes, walk
  <2>2. cp[h] = Null
    BY <2>1, <1>2
  <2> QED
    BY <2>1, <2>2, <1>0, <1>1, <1>2
<1>8. ASSUME AllocConnect(h) PROVE PoolInv'
  <2>1. /\ valid' = valid \cup {h}
        /\ UNCHANGED <<lock, pool, open, inUse, due, cp, call, cur, prev, fault>>
    BY <1>8 DEF AllocConnect, nodes, walk
  <2> QED
    BY <2>1, <1>1, <1>2
<1>9. ASSUME FreeConnect(h) PROVE PoolInv'
  <2>1. /\ call[h] = "none" /\ ~open[h]
        /\ valid' = valid \ {h} /\ cp' = [cp EXCEPT ![h] = Null]
        /\ UNCHANGED <<lock, pool, open, inUse, due, call, cur, prev, fault>>
    BY <1>9 DEF FreeConnect, nodes, walk
  <2>2. cp[h] = Null
    BY <2>1, <1>2
  <2>3. UNCHANGED cp
    BY <2>1, <2>2, <1>0
  <2> QED
    BY <2>1, <2>2, <2>3, <1>1, <1>2
<1> QED
  BY <1>3, <1>4, <1>5, <1>6, <1>7, <1>8, <1>9

LEMMA InitPool == Init => PoolInv
<1> SUFFICES ASSUME Init PROVE PoolInv
  OBVIOUS
<1>1. /\ pool = <<>> /\ inUse = [n \in Nodes |-> FALSE] /\ due = [n \in Nodes |-> FALSE]
      /\ cp = [h \in Handles |-> Null] /\ cur = [h \in Handles |-> Null]
      /\ call = [h \in Handles |-> "none"] /\ fault = "none"
  BY DEF Init
<1>2. pool \in Seq(Nodes) /\ Len(pool) = 0 /\ DOMAIN pool = {}
  BY <1>1
<1>3. PoolTypes /\ Apart
  BY <1>1, <1>2 DEF PoolTypes, Apart
<1>4. Lent
  BY <1>1, <1>2 DEF Lent, Borrows, InPool
<1>5. Walking
  BY <1>1 DEF Walking, Walks
<1> QED
  BY <1>1, <1>3, <1>4, <1>5 DEF PoolInv

LEMMA StepPool == AskInv /\ PoolInv /\ Careful /\ [Next]_vars => PoolInv'
<1> SUFFICES ASSUME AskInv, PoolInv, Careful, [Next]_vars PROVE PoolInv'
  OBVIOUS
<1>0. /\ \A h \in Handles : call[h] # "none" => h \in valid
      /\ cp \in [Handles -> Nodes \cup {Null}] /\ Null \notin Nodes
  BY PoolAssumption DEF AskInv, AskTrue, OwnerInv, LinkTypes
<1>1. ASSUME UNCHANGED <<lock, valid, pool, inUse, due, cp, call, open, cur, prev, fault>>
      PROVE  PoolInv'
  <2>1. Walking'
    BY <1>1 DEF PoolInv, Walking, Walks, InPool
  <2>2. Lent'
    BY <1>1 DEF PoolInv, Lent, Borrows, InPool
  <2> QED
    BY <1>1, <2>1, <2>2 DEF PoolInv, PoolTypes, Apart
<1>2. ASSUME FreeEnv PROVE PoolInv'
  <2>1. /\ valid = {} /\ pool' = <<>>
        /\ inUse' = [n \in Nodes |-> FALSE] /\ due' = [n \in Nodes |-> FALSE]
        /\ UNCHANGED <<valid, cp, call, cur>>
    BY <1>2 DEF FreeEnv, walk
  <2>2. \A h \in Handles : cp[h] = Null /\ call[h] = "none"
    BY <2>1, <1>0 DEF PoolInv, Lent, Borrows
  <2>3. fault' = "none"
    <3>1. \A n \in Nodes : ~(InPool(n) /\ inUse[n])
      BY <2>2, <1>0 DEF PoolInv, Lent
    <3> QED
      BY <1>2, <3>1 DEF FreeEnv
  <2>4. pool' \in Seq(Nodes) /\ Len(pool') = 0 /\ DOMAIN pool' = {}
    BY <2>1
  <2>5. PoolTypes' /\ Apart'
    BY <2>1, <2>4 DEF PoolInv, PoolTypes, Apart
  <2>6. Lent'
    BY <2>1, <2>2, <2>4 DEF Lent, Borrows, InPool
  <2>7. Walking'
    BY <2>1, <2>2, NobodyWalks
  <2> QED
    BY <2>3, <2>5, <2>6, <2>7 DEF PoolInv
<1>3. ASSUME NEW n \in Nodes, Expire(n) PROVE PoolInv'
  <2>1. /\ due' = [due EXCEPT ![n] = TRUE] /\ lock = Null
        /\ \A h \in Handles : call[h] # "drop"
        /\ \A i \in 1..(Len(pool) - 1) : /\ pool[i] = n => ~due[pool[i + 1]]
                                         /\ pool[i + 1] = n => ~due[pool[i]]
        /\ UNCHANGED <<valid, pool, inUse, cp, call, open, cur, fault>>
    BY <1>3 DEF Expire, walk, MayExpire, May, Careful
  <2>2. PoolTypes'
    BY <2>1 DEF PoolInv, PoolTypes
  <2>3. Apart'
    <3> SUFFICES ASSUME NEW i \in 1..(Len(pool) - 1)
                 PROVE  ~(due'[pool[i]] /\ due'[pool[i + 1]])
      BY <2>1 DEF Apart
    <3>1. i \in 1..Len(pool) /\ i + 1 \in 1..Len(pool) /\ i # i + 1
      BY LenProperties DEF PoolInv, PoolTypes
    <3>2. pool[i] \in Nodes /\ pool[i + 1] \in Nodes /\ pool[i] # pool[i + 1]
      BY <3>1, ElementOfSeq DEF PoolInv, PoolTypes
    <3>3. \A m \in Nodes \ {n} : due'[m] = due[m]
      BY <2>1 DEF PoolInv, PoolTypes
    <3>4. ~(due[pool[i]] /\ due[pool[i + 1]])
      BY DEF PoolInv, Apart
    <3> QED
      BY <2>1, <3>2, <3>3, <3>4
  <2>4. Lent'
    BY <2>1 DEF PoolInv, Lent, Borrows, InPool
  <2>5. Walking'
    <3>1. \A h \in Handles : call[h] # "walk"
      BY <2>1, PoolAssumption DEF PoolInv, Walking, Walks
    <3> QED
      BY <2>1, <3>1, NobodyWalks
  <2> QED
    BY <2>1, <2>2, <2>3, <2>4, <2>5 DEF PoolInv
<1>4. ASSUME NEW c \in Conns, RetryWaitOver(c) PROVE PoolInv'
  BY <1>1, <1>4 DEF RetryWaitOver, walk, nodes
<1>5. CASE UNCHANGED vars
  BY <1>1, <1>5 DEF vars, walk, nodes
<1>6. CASE \E h \in Handles :
        \/ \E s \in Sources : Connect(h, s)
        \/ \E n \in Nodes : \/ Skip(h, n) \/ TouchFreed(h, n)
                            \/ Refused(h, n) \/ Dead(h, n) \/ Got(h, n)
        \/ Dropped(h) \/ Missed(h)
  BY <1>6, WalkPool
<1>7. CASE \E h \in Handles : \E n \in Nodes : Expired(h, n)
  BY <1>7, DropPool
<1>8. CASE \E h \in Handles :
        \/ Connected(h) \/ ConnectFails(h) \/ DisconnectToPool(h) \/ Disconnect(h)
        \/ DisconnectReturns(h) \/ AllocConnect(h) \/ FreeConnect(h)
  BY <1>8, OtherPool
<1> QED
  BY <1>2, <1>3, <1>4, <1>5, <1>6, <1>7, <1>8, PoolAssumption DEF Next, Step

(* The handles that have borrowed a node, counted.                         *)
LEMMA CountBorrowers ==
  ASSUME AskInv, PoolInv, NEW n \in Nodes, InPool(n)
  PROVE  Cardinality({h \in Handles : cp[h] = n}) = IF inUse[n] THEN 1 ELSE 0
<1>1. CASE inUse[n]
  <2>1. PICK h \in Handles : cp[h] = n
    BY <1>1 DEF PoolInv, Lent
  <2>2. n # Null
    BY PoolAssumption
  <2>3. {g \in Handles : cp[g] = n} = {h}
    BY <2>1, <2>2 DEF PoolInv, Lent, Borrows
  <2> QED
    BY <1>1, <2>3, FS_Singleton
<1>2. CASE ~inUse[n]
  <2>1. n # Null
    BY PoolAssumption
  <2>2. {g \in Handles : cp[g] = n} = {}
    BY <1>2, <2>1 DEF PoolInv, Lent, Borrows
  <2> QED
    BY <1>2, <2>2, FS_EmptySet
<1> QED
  BY <1>1, <1>2

(* However walks, drops, connects that fail and disconnects interleave, a  *)
(* pooled connection is in use exactly while one handle has borrowed it,   *)
(* no walk touches a freed one, and SQLFreeEnv finds none in use.          *)
THEOREM BorrowedOnceHolds == Spec => []BorrowedOnce
<1>1. (Careful => AskInv /\ PoolInv) /\ [Next]_vars => (Careful => AskInv /\ PoolInv)'
  BY AskStep, StepPool DEF Careful, Next, vars
<1>2. Init => (Careful => AskInv /\ PoolInv)
  BY InitAsk, InitPool
<1>3. (Careful => AskInv /\ PoolInv) => BorrowedOnce
  BY CountBorrowers DEF BorrowedOnce, PoolInv
<1> QED
  BY <1>1, <1>2, <1>3, PTL DEF Spec
=============================================================================
