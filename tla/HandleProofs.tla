---------------------------- MODULE HandleProofs ----------------------------
(***************************************************************************)
(* Proofs about module HandleCalls, for any number of threads, statements  *)
(* and descriptors.  They are about careful applications: whether an       *)
(* application is careful never changes, so a step of one is a step of     *)
(* LockPlaceStep to DriverStep, where no liberty is taken.                 *)
(***************************************************************************)
EXTENDS HandleCalls, TLAPS

(* The handles whose flags are kept: LEAVE_DESC loses those of descriptors.*)
Kept == Stmts \cup {Conn}

(* The global lock is owned exactly by the threads in a locking call.      *)
LockOwned == \A t \in Threads : lock = t <=> op[t] \in Locking

(* Where a thread is agrees with what it is doing.                         *)
PlaceOK ==
  \A t \in Threads :
    /\ op[t] = "none" <=> at[t] = "out"
    /\ at[t] = "dialog" => op[t] = "Connect"
    /\ op[t] \in {"Connect", "Disconnect"} => on[t] = Conn
    /\ op[t] = "Alloc" => on[t] \in (Stmts \cup Descs) \ valid
    /\ op[t] = "Free" => on[t] \in Stmts \cup Descs

(* One call at a time on a handle, recorded in its flag, and on a handle   *)
(* that exists.                                                            *)
OneCall ==
  \A h \in Kept : \A t, u \in Threads : InCall(t, h) /\ InCall(u, h) => t = u
FlagsTrue == \A h \in Kept \cap valid : cip[h] <=> InUse(h)
InUseValid == \A h \in Kept : InUse(h) => h \in valid

(* Nothing uses the statements of a connection that is being disconnected. *)
QuietDisconnect == Disconnecting => \A s \in Stmts : ~InUse(s)

UseInv == OneCall /\ FlagsTrue /\ InUseValid /\ QuietDisconnect

(* The connection's state is what the calls in progress found it to be.    *)
ConnInv ==
  /\ Conn \notin valid => dbc = "allocated"
  /\ \A t \in Threads : op[t] = "Connect" => dbc \in {"allocated", "needdata"}
  /\ \A t \in Threads :
       op[t] = "Alloc" /\ on[t] \in Stmts => dbc \in {"connected", "hstmt"}
  /\ IdleConnectionHasNoStmts

(* A connected connection is open in the driver until the driver has       *)
(* disconnected it, which no call that needs it overlaps.                  *)
DriverInv ==
  /\ \A t \in Threads : op[t] \in {"Alloc", "Transact"} => ~Disconnecting
  /\ \/ dbc \in {"allocated", "needdata"}
     \/ drvConn = "open"
     \/ \E t \in Threads : op[t] = "Disconnect" /\ at[t] = "back"
  /\ \A t \in Threads : op[t] = "Connect" /\ at[t] = "back" => drvConn = "open"
  /\ DriverCallsOpen

IInv == TypeOK /\ LockOwned /\ PlaceOK /\ UseInv /\ ConnInv /\ DriverInv

-----------------------------------------------------------------------------
LEMMA InvInit == Init => IInv
  BY HandlesAssumption
  DEF Init, IInv, TypeOK, Handles, Ops, Locking, Places, DbcStates, LockOwned,
      PlaceOK, UseInv, OneCall, FlagsTrue, InUseValid, QuietDisconnect, Kept,
      InCall, InUse, Disconnecting, ConnInv, DriverInv,
      IdleConnectionHasNoStmts, DriverCallsOpen

-----------------------------------------------------------------------------
(* Types.                                                                  *)
LEMMA TypeStep ==
  ASSUME TypeOK, NEW t \in Threads, Progress(t) \/ Request(t), UNCHANGED liberties
  PROVE  TypeOK'
  <1> USE HandlesAssumption DEF TypeOK, Handles, Ops, Locking, Places, DbcStates
  <1>1. CASE AllocConnect(t)
    BY <1>1 DEF AllocConnect, calls
  <1>2. ASSUME NEW h \in Stmts \cup Descs, Alloc(t, h) PROVE TypeOK'
    BY <1>2 DEF Alloc, Begin
  <1>3. CASE AllocReturns(t)
    <2>1. on[t] \in Handles /\ on[t] \in Handles => cip' \in [Handles -> BOOLEAN]
      BY <1>3 DEF AllocReturns
    <2>2. valid' \subseteq Handles /\ dbc' \in DbcStates
      BY <1>3, <2>1 DEF AllocReturns
    <2> QED BY <1>3, <2>1, <2>2 DEF AllocReturns, End
  <1>4. ASSUME NEW h \in Handles, NEW o \in Ops, NEW p \in Places,
               Enter(t, o, h, p)
        PROVE  TypeOK'
    BY <1>4 DEF Enter, Begin
  <1>5. ASSUME NEW h \in Handles, Call(t, h) PROVE TypeOK'
    BY <1>4, <1>5 DEF Call
  <1>6. ASSUME NEW h \in Stmts \cup Descs, Free(t, h) PROVE TypeOK'
    BY <1>4, <1>6 DEF Free
  <1>7. CASE Connect(t) \/ Prompt(t) \/ Disconnect(t)
    BY <1>4, <1>7 DEF Connect, Prompt, Disconnect
  <1>8. CASE CallReturns(t) \/ FreeReturns(t)
    BY <1>8 DEF CallReturns, FreeReturns, Leave, End
  <1>9. CASE ConnectReturns(t)
    BY <1>9 DEF ConnectReturns, Leave, End
  <1>10. CASE DisconnectReturns(t)
    BY <1>10 DEF DisconnectReturns, Leave, End
  <1>11. CASE DisconnectToPool(t) \/ FreeConnect(t)
    BY <1>11 DEF DisconnectToPool, FreeConnect, calls
  <1>12. CASE Transact(t) \/ Elsewhere(t)
    BY <1>12 DEF Transact, Elsewhere, Begin
  <1>13. CASE TransactReturns(t)
    BY <1>13 DEF TransactReturns, End
  <1>14. CASE Answered(t) \/ NoDialog(t)
    BY <1>14 DEF Answered, NoDialog, End
  <1>15. CASE EnterDriver(t)
    BY <1>15 DEF EnterDriver
  <1>16. CASE DriverReturns(t)
    <2>1. at' \in [Threads -> Places] /\ drvConn' \in {"none", "open", "closed"}
      BY <1>16 DEF DriverReturns, DriverConn
    <2>2. pending' \subseteq Stmts
      BY <1>16 DEF DriverReturns, Suspension
    <2> QED BY <1>16, <2>1, <2>2 DEF DriverReturns
  <1>17. ASSUME NEW h \in Stmts \cup Descs, FreeBusy(t, h) PROVE TypeOK'
    BY <1>17 DEF FreeBusy, calls
  <1>18. ASSUME NEW h \in Descs, RefuseDesc(t, h) PROVE TypeOK'
    BY <1>18 DEF RefuseDesc, calls
  <1> QED
    BY <1>1, <1>2, <1>3, <1>5, <1>6, <1>7, <1>8, <1>9, <1>10, <1>11, <1>12,
       <1>13, <1>14, <1>15, <1>16, <1>17, <1>18 DEF Progress, Request

(* A step of the specification is a step of one thread.                    *)
LEMMA StepOfOne ==
  ASSUME Next
  PROVE  \E t \in Threads : (Progress(t) \/ Request(t)) /\ UNCHANGED liberties
  BY FlagAssumption DEF Next, Active

(* Every variable keeps its type, whatever the application does.           *)
THEOREM HandleTypes == Spec => []TypeOK
  <1>1. Init => TypeOK
    BY InvInit DEF IInv
  <1>2. TypeOK /\ [Next]_vars => TypeOK'
    <2>1. ASSUME TypeOK, UNCHANGED vars PROVE TypeOK'
      BY <2>1 DEF vars, calls, TypeOK
    <2> QED BY <2>1, StepOfOne, TypeStep
  <1> QED BY <1>1, <1>2, PTL DEF Spec

-----------------------------------------------------------------------------
(* The invariant.  What a step does to InCall decides what it does to the  *)
(* rest: a call begins, a call ends, or none of the two.                   *)
(* No thread enters or leaves a handle, and no handle in use is freed.     *)
LEMMA UseKept ==
  ASSUME TypeOK, UseInv,
         \A u \in Threads : \A h : InCall(u, h)' <=> InCall(u, h),
         Disconnecting' => Disconnecting,
         \A h \in Kept \cap valid' :
           IF h \in valid THEN cip'[h] = cip[h] ELSE ~cip'[h],
         \A h \in Kept : InUse(h) => h \in valid'
  PROVE  UseInv'
  <1>1. \A h : InUse(h)' <=> InUse(h)
    BY DEF InUse
  <1>2. OneCall'
    BY DEF UseInv, OneCall
  <1>3. FlagsTrue'
    BY <1>1 DEF UseInv, FlagsTrue, InUseValid
  <1>4. InUseValid' /\ QuietDisconnect'
    BY <1>1 DEF UseInv, InUseValid, QuietDisconnect
  <1> QED BY <1>2, <1>3, <1>4 DEF UseInv

(* A thread enters a handle that nobody is using.                          *)
LEMMA UseEnter ==
  ASSUME TypeOK, UseInv, NEW t \in Threads, NEW h \in Handles,
         NEW o \in {"Call", "Free", "Connect", "Disconnect"}, NEW p,
         Enter(t, o, h, p),
         o = "Disconnect" => h = Conn /\ \A s \in Stmts : ~InUse(s),
         h \in Stmts => ~Disconnecting
  PROVE  UseInv'
  <1>1. \A u \in Threads : \A k :
          InCall(u, k)' <=> (u = t /\ k = h) \/ InCall(u, k)
    BY DEF Enter, Begin, InCall, TypeOK, Locking
  <1>2. \A k : InUse(k)' <=> k = h \/ InUse(k)
    BY <1>1 DEF InUse
  <1>3. h \in Kept => ~InUse(h)
    BY DEF Enter, UseInv, FlagsTrue
  <1>4. OneCall'
    <2> SUFFICES ASSUME NEW k \in Kept, NEW u \in Threads, NEW v \in Threads,
                        InCall(u, k)', InCall(v, k)'
                 PROVE  u = v
      BY DEF OneCall
    <2> QED BY <1>1, <1>3 DEF InUse, UseInv, OneCall
  <1>5. FlagsTrue'
    <2> SUFFICES ASSUME NEW k \in Kept, k \in valid PROVE cip'[k] <=> InUse(k)'
      BY DEF FlagsTrue, Enter
    <2>1. k \in Handles
      BY DEF Kept, Handles
    <2>2. CASE k = h
      BY <1>2, <2>1, <2>2 DEF Enter, TypeOK
    <2>3. CASE k # h
      <3>1. cip'[k] = cip[k]
        BY <2>1, <2>3 DEF Enter, TypeOK
      <3> QED BY <1>2, <2>3, <3>1 DEF UseInv, FlagsTrue
    <2> QED BY <2>2, <2>3
  <1>6. InUseValid'
    BY <1>2 DEF Enter, UseInv, InUseValid
  <1>7. QuietDisconnect'
    <2>1. CASE o = "Disconnect"
      BY <1>2, <2>1, HandlesAssumption DEF QuietDisconnect
    <2>2. CASE o # "Disconnect"
      <3>1. Disconnecting' => Disconnecting
        BY <2>2 DEF Enter, Begin, Disconnecting, TypeOK
      <3> QED BY <1>2, <3>1 DEF UseInv, QuietDisconnect
    <2> QED BY <2>1, <2>2
  <1> QED BY <1>4, <1>5, <1>6, <1>7 DEF UseInv

(* A thread leaves the handle it was on; what it frees nobody else uses.   *)
LEMMA UseLeave ==
  ASSUME TypeOK, UseInv, NEW t \in Threads,
         op[t] \notin Locking \cup {"none"}, End(t),
         cip' = [cip EXCEPT ![on[t]] = FALSE],
         valid' \subseteq valid,
         \A u \in Threads \ {t} : \A h \in Kept : InCall(u, h) => h \in valid'
  PROVE  UseInv'
  <1>1. \A u \in Threads : \A k : InCall(u, k)' <=> u # t /\ InCall(u, k)
    BY DEF End, InCall, TypeOK, Locking
  <1>2. InCall(t, on[t])
    BY DEF InCall
  <1>3. \A k : InUse(k)' => InUse(k)
    BY <1>1 DEF InUse
  <1>4. OneCall'
    BY <1>1 DEF UseInv, OneCall
  <1>5. FlagsTrue'
    <2> SUFFICES ASSUME NEW k \in Kept, k \in valid' PROVE cip'[k] <=> InUse(k)'
      BY DEF FlagsTrue
    <2>1. k \in Handles /\ k \in valid
      BY DEF Kept, Handles
    <2>2. CASE k = on[t]
      <3>1. ~InUse(k)'
        BY <1>1, <1>2, <2>2 DEF InUse, UseInv, OneCall
      <3> QED BY <2>1, <2>2, <3>1 DEF TypeOK
    <2>3. CASE k # on[t]
      <3>1. cip'[k] = cip[k]
        BY <2>1, <2>3 DEF TypeOK
      <3>2. InUse(k)' <=> InUse(k)
        BY <1>1, <2>3 DEF InUse, InCall
      <3> QED BY <2>1, <3>1, <3>2 DEF UseInv, FlagsTrue
    <2> QED BY <2>2, <2>3
  <1>6. InUseValid'
    BY <1>1 DEF InUseValid, InUse
  <1>7. QuietDisconnect'
    <2>1. Disconnecting' => Disconnecting
      BY DEF End, Disconnecting, TypeOK
    <2> QED BY <1>3, <2>1 DEF UseInv, QuietDisconnect
  <1> QED BY <1>4, <1>5, <1>6, <1>7 DEF UseInv

-----------------------------------------------------------------------------
(* Locks and places.                                                       *)
LEMMA LockPlaceStep ==
  ASSUME TypeOK, LockOwned, PlaceOK, Careful,
         NEW t \in Threads, Progress(t) \/ Request(t)
  PROVE  LockOwned' /\ PlaceOK'
  <1> USE HandlesAssumption DEF TypeOK, LockOwned, PlaceOK, Locking, Handles
  <1>1. CASE AllocConnect(t) \/ FreeConnect(t) \/ DisconnectToPool(t)
    BY <1>1 DEF AllocConnect, FreeConnect, DisconnectToPool, calls
  <1>2. ASSUME NEW h \in Stmts \cup Descs, Alloc(t, h)
        PROVE  LockOwned' /\ PlaceOK'
    BY <1>2 DEF Alloc, Begin
  <1>3. CASE Transact(t) \/ Elsewhere(t)
    BY <1>3 DEF Transact, Elsewhere, Begin
  <1>4. CASE AllocReturns(t)
    BY <1>4 DEF AllocReturns, End
  <1>5. CASE TransactReturns(t)
    BY <1>5 DEF TransactReturns, End
  <1>6. ASSUME NEW h \in Handles, Call(t, h) PROVE LockOwned' /\ PlaceOK'
    BY <1>6 DEF Call, Enter, Begin
  <1>7. ASSUME NEW h \in Stmts \cup Descs, Free(t, h)
        PROVE  LockOwned' /\ PlaceOK'
    BY <1>7 DEF Free, Enter, Begin
  <1>8. CASE Connect(t) \/ Prompt(t) \/ Disconnect(t)
    BY <1>8 DEF Connect, Prompt, Disconnect, Enter, Begin
  <1>9. CASE CallReturns(t) \/ FreeReturns(t) \/ ConnectReturns(t)
    BY <1>9 DEF CallReturns, FreeReturns, ConnectReturns, Leave, End
  <1>10. CASE DisconnectReturns(t)
    BY <1>10 DEF DisconnectReturns, Leave, End
  <1>11. CASE Answered(t) \/ EnterDriver(t) \/ DriverReturns(t)
    BY <1>11 DEF Answered, EnterDriver, DriverReturns
  <1>12. ASSUME NEW h \in Descs, RefuseDesc(t, h) PROVE LockOwned' /\ PlaceOK'
    BY <1>12 DEF RefuseDesc, calls
  <1>13. ~NoDialog(t) /\ \A h : ~FreeBusy(t, h)
    BY DEF NoDialog, FreeBusy, May, Careful
  <1> QED
    BY <1>1, <1>2, <1>3, <1>4, <1>5, <1>6, <1>7, <1>8, <1>9, <1>10, <1>11,
       <1>12, <1>13 DEF Progress, Request

(* The use of the handles.                                                 *)
LEMMA UseStep ==
  ASSUME TypeOK, LockOwned, PlaceOK, UseInv, Careful,
         NEW t \in Threads, Progress(t) \/ Request(t)
  PROVE  UseInv'
  <1> USE HandlesAssumption
  <1>1. CASE AllocConnect(t) \/ FreeConnect(t)
    <2>1. \A h \in Kept : InUse(h) => h \in valid'
      BY <1>1 DEF AllocConnect, FreeConnect, May, Careful, UseInv, InUseValid
    <2>2. \A u \in Threads : \A h : InCall(u, h)' <=> InCall(u, h)
      BY <1>1 DEF AllocConnect, FreeConnect, calls, InCall
    <2>3. Disconnecting' => Disconnecting
      BY <1>1 DEF AllocConnect, FreeConnect, calls, Disconnecting
    <2>4. \A h \in Kept \cap valid' :
            IF h \in valid THEN cip'[h] = cip[h] ELSE ~cip'[h]
      BY <1>1 DEF AllocConnect, FreeConnect, Kept, Handles, TypeOK
    <2> QED BY <2>1, <2>2, <2>3, <2>4, UseKept
  <1>2. CASE DisconnectToPool(t)
    <2>1. \A h \in Kept : InUse(h) => h \in valid'
      BY <1>2 DEF DisconnectToPool, May, Careful, UseInv, InUseValid, Kept
    <2>2. \A u \in Threads : \A h : InCall(u, h)' <=> InCall(u, h)
      BY <1>2 DEF DisconnectToPool, calls, InCall
    <2>3. Disconnecting' => Disconnecting
      BY <1>2 DEF DisconnectToPool, calls, Disconnecting
    <2>4. \A h \in Kept \cap valid' :
            IF h \in valid THEN cip'[h] = cip[h] ELSE ~cip'[h]
      BY <1>2 DEF DisconnectToPool
    <2> QED BY <2>1, <2>2, <2>3, <2>4, UseKept
  <1>3. ASSUME NEW h \in Handles, NEW o \in Locking, NEW p, Begin(t, o, h, p),
               UNCHANGED <<valid, cip>>
        PROVE  UseInv'
    <2>1. \A u \in Threads : \A k : InCall(u, k)' <=> InCall(u, k)
      BY <1>3 DEF Begin, InCall, TypeOK
    <2>2. Disconnecting' => Disconnecting
      BY <1>3 DEF Begin, Disconnecting, TypeOK, Locking
    <2>3. \A k \in Kept : InUse(k) => k \in valid'
      BY <1>3 DEF UseInv, InUseValid
    <2> QED BY <1>3, <2>1, <2>2, <2>3, UseKept
  <1>4. ASSUME NEW h \in Stmts \cup Descs, Alloc(t, h) PROVE UseInv'
    BY <1>3, <1>4 DEF Alloc, Handles, Locking
  <1>5. CASE Transact(t) \/ Elsewhere(t)
    BY <1>3, <1>5 DEF Transact, Elsewhere, Handles, Locking
  <1>6. CASE AllocReturns(t) \/ TransactReturns(t)
    <2>1. \A u \in Threads : \A k : InCall(u, k)' <=> InCall(u, k)
      BY <1>6 DEF AllocReturns, TransactReturns, End, InCall, TypeOK, Locking
    <2>2. Disconnecting' => Disconnecting
      BY <1>6 DEF AllocReturns, TransactReturns, End, Disconnecting, TypeOK
    <2>3. \A k \in Kept : InUse(k) => k \in valid'
      BY <1>6 DEF AllocReturns, TransactReturns, UseInv, InUseValid
    <2>4. \A k \in Kept \cap valid' :
            IF k \in valid THEN cip'[k] = cip[k] ELSE ~cip'[k]
      BY <1>6 DEF AllocReturns, TransactReturns, PlaceOK, TypeOK
    <2> QED BY <2>1, <2>2, <2>3, <2>4, UseKept
  <1>7. CASE Answered(t) \/ EnterDriver(t) \/ DriverReturns(t)
    <2>1. UNCHANGED <<op, on, valid, cip>>
      BY <1>7 DEF Answered, EnterDriver, DriverReturns
    <2> QED BY <2>1, UseKept DEF InCall, Disconnecting, UseInv, InUseValid
  <1>8. ASSUME NEW h \in Descs, RefuseDesc(t, h) PROVE UseInv'
    <2>1. UNCHANGED <<op, on, valid>> /\ \A k \in Kept : cip'[k] = cip[k]
      BY <1>8 DEF RefuseDesc, calls, Kept, Handles, TypeOK
    <2> QED BY <2>1, UseKept DEF InCall, Disconnecting, UseInv, InUseValid
  <1>9. ASSUME NEW h \in Handles, Call(t, h) PROVE UseInv'
    BY <1>9, UseEnter DEF Call, May, Careful
  <1>10. ASSUME NEW h \in Stmts \cup Descs, Free(t, h) PROVE UseInv'
    BY <1>10, UseEnter DEF Free, May, Careful, Handles
  <1>11. CASE Connect(t) \/ Prompt(t)
    BY <1>11, UseEnter DEF Connect, Prompt, Handles
  <1>12. CASE Disconnect(t)
    BY <1>12, UseEnter DEF Disconnect, May, Careful, Handles
  <1>13. ASSUME Leave(t), valid' \subseteq valid,
                op[t] \in {"Call", "Free", "Connect", "Disconnect"},
                \A u \in Threads \ {t} : \A h \in Kept : InCall(u, h) => h \in valid'
         PROVE  UseInv'
    BY <1>13, UseLeave DEF Leave, Locking
  <1>14. \A u \in Threads : \A h \in Kept : InCall(u, h) => h \in valid
    BY DEF UseInv, InUseValid, InUse
  <1>15. CASE CallReturns(t) \/ ConnectReturns(t)
    <2>1. Leave(t) /\ valid' = valid /\ op[t] \in {"Call", "Connect"}
      BY <1>15 DEF CallReturns, ConnectReturns
    <2> QED BY <1>13, <1>14, <2>1
  <1>16. CASE FreeReturns(t)
    <2>1. InCall(t, on[t])
      BY <1>16 DEF FreeReturns, Leave, InCall
    <2>2. \A u \in Threads \ {t} : \A h \in Kept : InCall(u, h) => h \in valid'
      BY <1>14, <1>16, <2>1 DEF FreeReturns, UseInv, OneCall
    <2> QED BY <1>13, <1>16, <2>2 DEF FreeReturns
  <1>17. CASE DisconnectReturns(t)
    <2>1. \A s \in Stmts : \A u \in Threads : ~InCall(u, s)
      BY <1>17 DEF DisconnectReturns, Disconnecting, UseInv, QuietDisconnect, InUse
    <2>2. \A u \in Threads \ {t} : \A h \in Kept : InCall(u, h) => h \in valid'
      BY <1>14, <1>17, <2>1 DEF DisconnectReturns, Kept
    <2> QED BY <1>13, <1>17, <2>2 DEF DisconnectReturns
  <1>18. ~NoDialog(t) /\ \A h : ~FreeBusy(t, h)
    BY DEF NoDialog, FreeBusy, May, Careful
  <1> QED
    BY <1>1, <1>2, <1>4, <1>5, <1>6, <1>7, <1>8, <1>9, <1>10, <1>11, <1>12,
       <1>15, <1>16, <1>17, <1>18 DEF Progress, Request

(* At most one thread connects or disconnects.                             *)
LEMMA OneConnector ==
  ASSUME PlaceOK, UseInv, NEW t \in Threads, NEW u \in Threads,
         op[t] \in {"Connect", "Disconnect"}, op[u] \in {"Connect", "Disconnect"}
  PROVE  t = u
  <1>1. InCall(t, Conn) /\ InCall(u, Conn)
    BY DEF PlaceOK, InCall, Locking
  <1> QED BY <1>1 DEF UseInv, OneCall, Kept

(* No thread allocates or ends a transaction while the lock is free.       *)
LEMMA FreeLock ==
  ASSUME LockOwned, lock = Nobody
  PROVE  \A u \in Threads : op[u] \notin Locking
  BY HandlesAssumption DEF LockOwned

(* The connection's state.                                                 *)
LEMMA ConnStep ==
  ASSUME TypeOK, LockOwned, PlaceOK, UseInv, ConnInv, Careful,
         NEW t \in Threads, Progress(t) \/ Request(t)
  PROVE  ConnInv'
  <1> USE HandlesAssumption DEF TypeOK, ConnInv, IdleConnectionHasNoStmts
  <1>1. CASE AllocConnect(t)
    BY <1>1 DEF AllocConnect, calls
  <1>2. CASE FreeConnect(t)
    BY <1>2 DEF FreeConnect, calls, May, Careful
  <1>3. CASE DisconnectToPool(t)
    BY <1>3, FreeLock DEF DisconnectToPool, calls, Locking
  <1>4. ASSUME NEW h \in Stmts \cup Descs, Alloc(t, h) PROVE ConnInv'
    BY <1>4 DEF Alloc, Begin
  <1>5. CASE AllocReturns(t)
    <2>1. \A u \in Threads : op'[u] \in {op[u], "none"} /\ on'[u] = on[u]
      BY <1>5 DEF AllocReturns, End
    <2>2. CASE on[t] \in Stmts /\ at[t] = "back"
      <3>1. dbc \in {"connected", "hstmt"} /\ dbc' = "hstmt"
        BY <1>5, <2>2 DEF AllocReturns
      <3>2. \A u \in Threads : op[u] # "Connect"
        BY <3>1
      <3>3. Conn \in valid'
        BY <1>5, <2>2, <3>1 DEF AllocReturns
      <3> QED BY <2>1, <3>1, <3>2, <3>3
    <2>3. CASE on[t] \notin Stmts \/ at[t] # "back"
      <3>1. dbc' = dbc /\ valid' \cap Stmts = valid \cap Stmts /\ valid \subseteq valid'
        BY <1>5, <2>3 DEF AllocReturns
      <3> QED BY <2>1, <3>1
    <2> QED BY <2>2, <2>3
  <1>6. ASSUME NEW h \in Handles, Call(t, h) PROVE ConnInv'
    BY <1>6 DEF Call, Enter, Begin
  <1>7. ASSUME NEW h \in Stmts \cup Descs, Free(t, h) PROVE ConnInv'
    BY <1>7 DEF Free, Enter, Begin
  <1>8. CASE Connect(t) \/ Prompt(t) \/ Disconnect(t)
    BY <1>8 DEF Connect, Prompt, Disconnect, Enter, Begin
  <1>9. CASE CallReturns(t)
    BY <1>9 DEF CallReturns, Leave, End
  <1>10. CASE FreeReturns(t)
    BY <1>10 DEF FreeReturns, Leave, End, PlaceOK
  <1>11. CASE ConnectReturns(t)
    <2>1. \A u \in Threads : op'[u] # "Connect" /\ op'[u] # "Alloc"
      BY <1>11, OneConnector, FreeLock DEF ConnectReturns, Leave, End, Locking
    <2>2. valid' = valid /\ Conn \in valid
      BY <1>11 DEF ConnectReturns, Leave, UseInv, InUseValid, InUse, InCall,
                   PlaceOK, Kept, Locking
    <2>3. valid \cap Stmts = {}
      BY <1>11 DEF ConnectReturns
    <2> QED BY <2>1, <2>2, <2>3
  <1>12. CASE DisconnectReturns(t)
    <2>1. \A u \in Threads : op'[u] # "Alloc" /\ op'[u] # "Connect"
      BY <1>12, OneConnector, FreeLock DEF DisconnectReturns, Leave, End, Locking
    <2> QED BY <1>12, <2>1 DEF DisconnectReturns
  <1>13. CASE Transact(t) \/ Elsewhere(t)
    BY <1>13 DEF Transact, Elsewhere, Begin
  <1>14. CASE TransactReturns(t)
    BY <1>14 DEF TransactReturns, End
  <1>15. CASE Answered(t) \/ EnterDriver(t) \/ DriverReturns(t)
    <2>1. UNCHANGED <<op, on, valid, dbc>>
      BY <1>15 DEF Answered, EnterDriver, DriverReturns
    <2> QED BY <2>1
  <1>16. ASSUME NEW h \in Descs, RefuseDesc(t, h) PROVE ConnInv'
    BY <1>16 DEF RefuseDesc, calls
  <1>17. ~NoDialog(t) /\ \A h : ~FreeBusy(t, h)
    BY DEF NoDialog, FreeBusy, May, Careful
  <1> QED
    BY <1>1, <1>2, <1>3, <1>4, <1>5, <1>6, <1>7, <1>8, <1>9, <1>10, <1>11,
       <1>12, <1>13, <1>14, <1>15, <1>16, <1>17 DEF Progress, Request

(* The driver's connection.                                                *)
LEMMA DriverStep ==
  ASSUME TypeOK, LockOwned, PlaceOK, UseInv, ConnInv, DriverInv, Careful,
         NEW t \in Threads, Progress(t) \/ Request(t)
  PROVE  DriverInv'
  <1> USE HandlesAssumption DEF TypeOK, DriverInv, DriverCallsOpen, Disconnecting
  <1>1. CASE AllocConnect(t)
    <2>1. \A u \in Threads : op[u] # "Connect" /\ op[u] \notin Locking
      BY <1>1, FreeLock DEF AllocConnect, UseInv, InUseValid, InUse, InCall,
                            PlaceOK, Kept, Locking
    <2> QED BY <1>1, <2>1 DEF AllocConnect, calls, Locking
  <1>2. CASE FreeConnect(t)
    BY <1>2 DEF FreeConnect, calls, May, Careful
  <1>3. CASE DisconnectToPool(t)
    <2>1. \A u \in Threads : op[u] # "Connect" /\ op[u] \notin Locking
      BY <1>3, FreeLock DEF DisconnectToPool, ConnInv, Locking
    <2> QED BY <1>3, <2>1 DEF DisconnectToPool, calls, Locking
  <1>4. ASSUME NEW h \in Stmts \cup Descs, Alloc(t, h) PROVE DriverInv'
    <2>1. ~Disconnecting /\ drvConn = "open"
      BY <1>4 DEF Alloc, May, Careful
    <2> QED BY <1>4, <2>1 DEF Alloc, Begin
  <1>5. CASE Transact(t)
    <2>1. ~Disconnecting /\ drvConn = "open"
      BY <1>5 DEF Transact, May, Careful
    <2> QED BY <1>5, <2>1 DEF Transact, Begin
  <1>6. CASE Elsewhere(t)
    BY <1>6 DEF Elsewhere, Begin
  <1>7. CASE AllocReturns(t)
    <2>1. dbc' = dbc \/ dbc \in {"connected", "hstmt"}
      BY <1>7 DEF AllocReturns, ConnInv
    <2>2. \A u \in Threads :
            /\ op'[u] = IF u = t THEN "none" ELSE op[u]
            /\ at'[u] = IF u = t THEN "out" ELSE at[u]
      BY <1>7 DEF AllocReturns, End
    <2> QED BY <1>7, <2>1, <2>2 DEF AllocReturns
  <1>8. CASE TransactReturns(t)
    BY <1>8 DEF TransactReturns, End
  <1>9. ASSUME NEW h \in Handles, Call(t, h) PROVE DriverInv'
    BY <1>9 DEF Call, Enter, Begin
  <1>10. ASSUME NEW h \in Stmts \cup Descs, Free(t, h) PROVE DriverInv'
    BY <1>10 DEF Free, Enter, Begin
  <1>11. CASE Connect(t) \/ Prompt(t)
    BY <1>11 DEF Connect, Prompt, Enter, Begin
  <1>12. CASE Disconnect(t)
    <2>1. \A u \in Threads : op[u] \notin Locking
      BY <1>12, FreeLock DEF Disconnect, Enter, Begin
    <2>2. \A u \in Threads : op'[u] \in {op[u], "Disconnect"}
      BY <1>12 DEF Disconnect, Enter, Begin
    <2> QED BY <1>12, <2>1, <2>2 DEF Disconnect, Enter, Begin, Locking
  <1>13. CASE CallReturns(t) \/ FreeReturns(t)
    BY <1>13 DEF CallReturns, FreeReturns, Leave, End
  <1>14. CASE ConnectReturns(t)
    <2>1. \A u \in Threads : op[u] \notin Locking
      BY <1>14, FreeLock DEF ConnectReturns, Leave
    <2>2. at[t] = "back" => dbc' = "connected" /\ drvConn' = "open"
      BY <1>14 DEF ConnectReturns
    <2>3. at[t] # "back" => dbc' \in {"allocated", "needdata"}
      BY <1>14 DEF ConnectReturns
    <2>4. drvConn' = drvConn /\ \A u \in Threads :
            /\ op'[u] = IF u = t THEN "none" ELSE op[u]
            /\ at'[u] = IF u = t THEN "out" ELSE at[u]
      BY <1>14 DEF ConnectReturns, Leave, End
    <2> QED BY <2>1, <2>2, <2>3, <2>4 DEF Locking
  <1>15. CASE DisconnectReturns(t)
    <2>1. \A u \in Threads : op[u] \in {"Connect", "Disconnect"} => u = t
      BY <1>15, OneConnector DEF DisconnectReturns
    <2>2. at[t] # "back" => dbc' = dbc
      BY <1>15 DEF DisconnectReturns
    <2>3. at[t] = "back" => dbc' = "allocated"
      BY <1>15 DEF DisconnectReturns
    <2>4. drvConn' = drvConn /\ \A u \in Threads :
            /\ op'[u] = IF u = t THEN "none" ELSE op[u]
            /\ at'[u] = IF u = t THEN "out" ELSE at[u]
      BY <1>15 DEF DisconnectReturns, Leave, End
    <2> QED BY <2>1, <2>2, <2>3, <2>4
  <1>16. CASE Answered(t)
    BY <1>16 DEF Answered, PlaceOK
  <1>17. CASE EnterDriver(t)
    BY <1>17 DEF EnterDriver
  <1>18. CASE DriverReturns(t)
    <2>1. UNCHANGED <<op, dbc>> /\ at[t] = "driver" /\ at'[t] # "driver"
          /\ at'[t] # "want" /\ \A u \in Threads : u # t => at'[u] = at[u]
      BY <1>18 DEF DriverReturns
    <2>2. CASE op[t] = "Connect"
      <3>1. drvConn = "open" \/ at'[t] = "back" => drvConn' = "open"
        BY <1>18, <2>2 DEF DriverReturns, DriverConn
      <3>2. dbc \in {"allocated", "needdata"}
        BY <2>2 DEF ConnInv
      <3> QED BY <2>1, <2>2, <3>1, <3>2
    <2>3. CASE op[t] = "Disconnect"
      <3>1. \A u \in Threads :
              op[u] \notin {"Alloc", "Transact"} /\ (op[u] = "Connect" => u = t)
        BY <2>3, OneConnector
      <3>2. drvConn' = drvConn \/ at'[t] = "back"
        BY <1>18, <2>3 DEF DriverReturns, DriverConn
      <3> QED BY <2>1, <2>3, <3>1, <3>2
    <2>4. CASE op[t] \notin {"Connect", "Disconnect"}
      <3>1. drvConn' = drvConn
        BY <1>18, <2>4 DEF DriverReturns, DriverConn
      <3> QED BY <2>1, <2>4, <3>1
    <2> QED BY <2>2, <2>3, <2>4
  <1>19. ASSUME NEW h \in Descs, RefuseDesc(t, h) PROVE DriverInv'
    BY <1>19 DEF RefuseDesc, calls
  <1>20. ~NoDialog(t) /\ \A h : ~FreeBusy(t, h)
    BY DEF NoDialog, FreeBusy, May, Careful
  <1> QED
    BY <1>1, <1>2, <1>3, <1>4, <1>5, <1>6, <1>7, <1>8, <1>9, <1>10, <1>11,
       <1>12, <1>13, <1>14, <1>15, <1>16, <1>17, <1>18, <1>19, <1>20
    DEF Progress, Request

-----------------------------------------------------------------------------
(* The invariant holds, and with it what it was made for.                  *)
LEMMA InvStep ==
  ASSUME Careful => IInv, [Next]_vars, Careful'
  PROVE  IInv'
  <1>0. IInv /\ Careful
    BY DEF Next, vars, Careful
  <1>1. CASE UNCHANGED vars
    BY <1>0, <1>1
    DEF vars, calls, IInv, TypeOK, LockOwned, PlaceOK, UseInv, OneCall, FlagsTrue,
        InUseValid, QuietDisconnect, InCall, InUse, Disconnecting, ConnInv,
        DriverInv, IdleConnectionHasNoStmts, DriverCallsOpen
  <1>2. CASE Next
    <2>1. PICK t \in Threads : (Progress(t) \/ Request(t)) /\ UNCHANGED liberties
      BY <1>2, StepOfOne
    <2> QED
      BY <1>0, <2>1, TypeStep, LockPlaceStep, UseStep, ConnStep, DriverStep DEF IInv
  <1> QED BY <1>1, <1>2

LEMMA InvHolds == Spec => [](Careful => IInv)
  <1>1. (Careful => IInv) /\ [Next]_vars => (Careful => IInv)'
    BY InvStep
  <1>2. Init => (Careful => IInv)
    BY InvInit
  <1> QED BY <1>1, <1>2, PTL DEF Spec

(* A thread that keeps the global lock in the driver owns it throughout.   *)
THEOREM LockDisciplineHolds == Spec => []LockDiscipline
  <1>1. (Careful => IInv) => LockDiscipline
    BY DEF IInv, LockOwned, LockDiscipline
  <1> QED BY <1>1, InvHolds, PTL

(* The call-in-progress flags of statements and connections are true to    *)
(* the calls, for any number of threads.                                   *)
THEOREM CipIsCallHolds == Spec => []CipIsCall
  <1>1. (Careful => IInv) => CipIsCall
    BY DEF IInv, UseInv, FlagsTrue, CipIsCall, TypeOK, Kept, Handles
  <1> QED BY <1>1, InvHolds, PTL

(* No statement is left on a connection that is not connected, and the     *)
(* driver allocates and ends transactions on open connections only.        *)
THEOREM ConnStateHolds == Spec => []ConnStateTrue
  <1>1. (Careful => IInv) => ConnStateTrue
    BY DEF IInv, ConnInv, DriverInv, IdleConnectionHasNoStmts, DriverCallsOpen, ConnStateTrue
  <1> QED BY <1>1, InvHolds, PTL

-----------------------------------------------------------------------------
(* The lease.                                                              *)
Holder(h) ==
  IF InUse(h) THEN CHOOSE t \in Threads : InCall(t, h) ELSE Nobody

(* A thread's step is no step of another thread's calls.                   *)
LEMMA OthersKept ==
  ASSUME TypeOK, NEW t \in Threads, Progress(t) \/ Request(t), Careful
  PROVE  \A u \in Threads \ {t} : \A h : InCall(u, h)' <=> InCall(u, h)
  <1> SUFFICES \A u \in Threads \ {t} : op'[u] = op[u] /\ on'[u] = on[u]
    BY DEF InCall
  <1> USE DEF TypeOK
  <1>1. CASE EnterDriver(t) \/ DriverReturns(t) \/ Answered(t)
    BY <1>1 DEF EnterDriver, DriverReturns, Answered
  <1>2. CASE AllocReturns(t) \/ CallReturns(t) \/ FreeReturns(t) \/ ConnectReturns(t)
             \/ DisconnectReturns(t) \/ TransactReturns(t)
    <2>1. End(t)
      BY <1>2 DEF AllocReturns, CallReturns, FreeReturns, ConnectReturns,
                  DisconnectReturns, TransactReturns, Leave
    <2> QED BY <2>1 DEF End
  <1>3. CASE AllocConnect(t) \/ FreeConnect(t) \/ DisconnectToPool(t)
    BY <1>3 DEF AllocConnect, FreeConnect, DisconnectToPool, calls
  <1>4. ASSUME NEW o, NEW h, NEW p, Begin(t, o, h, p)
        PROVE  \A u \in Threads \ {t} : op'[u] = op[u] /\ on'[u] = on[u]
    BY <1>4 DEF Begin
  <1>5. CASE Transact(t) \/ Elsewhere(t) \/ Connect(t) \/ Prompt(t) \/ Disconnect(t)
    BY <1>4, <1>5 DEF Transact, Elsewhere, Connect, Prompt, Disconnect, Enter
  <1>6. ASSUME NEW h, Alloc(t, h) \/ Free(t, h) \/ Call(t, h)
        PROVE  \A u \in Threads \ {t} : op'[u] = op[u] /\ on'[u] = on[u]
    BY <1>4, <1>6 DEF Alloc, Free, Call, Enter
  <1>7. ASSUME NEW h, RefuseDesc(t, h)
        PROVE  \A u \in Threads \ {t} : op'[u] = op[u] /\ on'[u] = on[u]
    BY <1>7 DEF RefuseDesc, calls
  <1>8. ~NoDialog(t) /\ \A h : ~FreeBusy(t, h)
    BY DEF NoDialog, FreeBusy, May, Careful
  <1> QED BY <1>1, <1>2, <1>3, <1>5, <1>6, <1>7, <1>8 DEF Progress, Request

(* Every step of the handles is a step of the lease, or changes nothing in *)
(* it.                                                                     *)
LEMMA LeaseStep ==
  ASSUME IInv, IInv', Careful, Careful', NEW t \in Threads, Progress(t) \/ Request(t)
  PROVE  Lease!Step(t)
  <1> DEFINE K == Handles \ Descs
  <1>1. K = Kept
    BY HandlesAssumption DEF Kept, Handles
  <1>2. \A h \in K : /\ Holder(h) \in Threads \cup {Nobody}
                     /\ \A u \in Threads : Holder(h) = u <=> InCall(u, h)
    BY <1>1, HandlesAssumption DEF Holder, InUse, IInv, UseInv, OneCall
  <1>3. \A h \in K : /\ Holder(h)' \in Threads \cup {Nobody}
                     /\ \A u \in Threads : Holder(h)' = u <=> InCall(u, h)'
    BY <1>1, HandlesAssumption DEF Holder, InUse, IInv, UseInv, OneCall
  <1>4. \A h \in K : InUse(h) => h \in valid
    BY <1>1 DEF IInv, UseInv, InUseValid
  <1>5. \A h \in K : InUse(h)' => h \in valid'
    BY <1>1 DEF IInv, UseInv, InUseValid
  <1>6. \A u \in Threads \ {t} : \A h : InCall(u, h)' <=> InCall(u, h)
    BY OthersKept DEF IInv
  <1>7. valid' \ Descs \subseteq K
    BY DEF IInv, TypeOK
  <1>8. ASSUME NEW h \in K,
               Holder(h)' # Holder(h) \/ (h \in valid) # (h \in valid')
        PROVE  {Holder(h), Holder(h)'} \subseteq {t, Nobody}
    <2>1. ASSUME NEW u \in Threads \ {t}, Holder(h) = u PROVE FALSE
      <3>1. InCall(u, h) /\ InCall(u, h)'
        BY <1>2, <1>6, <2>1
      <3>2. Holder(h)' = u /\ h \in valid /\ h \in valid'
        BY <1>3, <1>4, <1>5, <3>1 DEF InUse
      <3> QED BY <1>8, <2>1, <3>2
    <2>2. ASSUME NEW u \in Threads \ {t}, Holder(h)' = u PROVE FALSE
      <3>1. InCall(u, h) /\ InCall(u, h)'
        BY <1>3, <1>6, <2>2
      <3> QED BY <1>2, <2>1, <3>1
    <2> QED BY <1>2, <1>3, <2>1, <2>2
  <1>9. ASSUME NEW h \in K, Holder(h)' # Nobody PROVE h \in valid' \ Descs
    BY <1>5, <1>9 DEF Holder
  <1> QED BY <1>3, <1>7, <1>8, <1>9 DEF Lease!Step, Lease!Changed, Holder

(* A statement or connection in use is one thread's, in whatever order the *)
(* threads run.                                                            *)
THEOREM LeaseHolds == Spec => LeaseSpec
  <1> DEFINE Alive == IF Careful THEN valid \ Descs ELSE {}
             Held  == [h \in Handles \ Descs |->
                         IF Careful /\ InUse(h)
                         THEN CHOOSE t \in Threads : InCall(t, h) ELSE Nobody]
  <1>1. Init => Lease!Init
    BY DEF Init, Lease!Init, InUse, InCall, Locking
  <1>2. (Careful => IInv) /\ (Careful => IInv)' /\ [Next]_vars
        => [Lease!Next]_<<Alive, Held>>
    <2>1. CASE UNCHANGED vars
      BY <2>1 DEF vars, calls, InUse, InCall, Careful
    <2>2. ASSUME IInv, IInv', Careful, Careful', Next PROVE Lease!Next
      BY <2>2, StepOfOne, LeaseStep DEF Lease!Next
    <2>3. ASSUME Next PROVE Careful' <=> Careful
      BY <2>3 DEF Next, Careful
    <2>4. ASSUME ~Careful, ~Careful' PROVE UNCHANGED <<Alive, Held>>
      BY <2>4
    <2> QED BY <2>1, <2>2, <2>3, <2>4
  <1> QED BY <1>1, <1>2, InvHolds, PTL DEF Spec, LeaseSpec, Lease!Spec
=============================================================================
