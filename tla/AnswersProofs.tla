--------------------------- MODULE AnswersProofs ---------------------------
(***************************************************************************)
(* What a call leaves the application is true:                             *)
(*                                                                         *)
(* - the diagnostics read are those of the last call, in order and each    *)
(*   once, for lists of any length and any number of calls, records and    *)
(*   refusals (Spec of Diag, DiagInv);                                     *)
(* - a text returned through a buffer stays inside it and arrives whole    *)
(*   when it fits, for rooms, lengths and widths of any size (BuffersSpec  *)
(*   of Buffers, BuffersInv);                                              *)
(* - an attribute of a connection read back is the one that was set, and   *)
(*   SQLTransact ends the transactions it answers for (OptionsSpec of      *)
(*   ConnOptions, OptionsInv).                                             *)
(***************************************************************************)
EXTENDS Diag, Buffers, ConnOptions, SequenceTheorems, TLAPS

AnyRecord == {"dm", "driver"} \X Nat \X Nat

(* Records by one party, in the order they were posted, none above n.      *)
Ordered(list, by, n) ==
  /\ list \in Seq(AnyRecord)
  /\ \A i \in 1 .. Len(list) : list[i][1] = by /\ list[i][3] <= n
  /\ \A i, j \in 1 .. Len(list) : i < j => list[i][3] < list[j][3]

OfCall(list, c) == \A i \in 1 .. Len(list) : list[i][2] = c

(* The list is of the call, and so are the driver's records once the call  *)
(* has reached it; SQLError has asked the driver for none of them where    *)
(* nothing has been read since the call began.                             *)
DiagInv ==
  /\ kind \in Kinds
  /\ call \in Nat /\ posts \in Nat /\ err_rec \in Nat
  /\ busy \in BOOLEAN /\ reached \in BOOLEAN
  /\ Ordered(herr, "dm", posts) /\ OfCall(herr, call) /\ Len(herr) <= Cap
  /\ Ordered(drvErrs, "driver", MaxDriver) /\ (reached => OfCall(drvErrs, call))
  /\ busy /\ answer = NoAnswer => err_rec = 0

LEMMA EmptyOrdered ==
  ASSUME NEW by, NEW n, NEW c
  PROVE  Ordered(<<>>, by, n) /\ OfCall(<<>>, c) /\ Len(<<>>) = 0
<1>1. <<>> \in Seq(AnyRecord) /\ Len(<<>>) = 0
  OBVIOUS
<1>2. 1 .. Len(<<>>) = {}
  BY <1>1
<1> QED
  BY <1>1, <1>2 DEF Ordered, OfCall

LEMMA NumbersAreNat ==
  ASSUME NEW list \in Seq(AnyRecord), NEW i \in 1 .. Len(list)
  PROVE  list[i][3] \in Nat
<1>1. list[i] \in AnyRecord
  OBVIOUS
<1> QED
  BY <1>1 DEF AnyRecord

LEMMA InitDiag == Init => DiagInv
<1> SUFFICES ASSUME Init PROVE DiagInv
  OBVIOUS
<1>1. /\ Ordered(<<>>, "dm", posts) /\ OfCall(<<>>, call) /\ Len(<<>>) = 0
      /\ Ordered(<<>>, "driver", MaxDriver)
  BY EmptyOrdered
<1>2. herr = <<>> /\ drvErrs = <<>>
  BY DEF Init
<1>3. /\ kind \in Kinds /\ call \in Nat /\ posts \in Nat /\ err_rec \in Nat
      /\ busy \in BOOLEAN /\ reached \in BOOLEAN /\ ~reached /\ ~busy
  BY DEF Init
<1> QED
  BY <1>1, <1>2, <1>3, DiagAssumption DEF DiagInv

-----------------------------------------------------------------------------
(* The list.                                                               *)
LEMMA PushList ==
  ASSUME NEW list \in Seq(AnyRecord), Len(list) <= Cap, NEW r \in AnyRecord
  PROVE  \E m \in 1 .. Cap :
           /\ Push(list, r) \in Seq(AnyRecord) /\ Len(Push(list, r)) = m
           /\ Push(list, r)[m] = r
           /\ \A i \in 1 .. m : i # m => i \in 1 .. Len(list) /\ Push(list, r)[i] = list[i]
<1>1. Len(list) \in Nat /\ Cap \in Nat \ {0}
  BY LenProperties, DiagAssumption
<1>2. CASE Len(list) >= Cap
  <2>1. Len(list) \in 1 .. Cap /\ Len(list) \in 1 .. Len(list)
    BY <1>1, <1>2
  <2>2. Push(list, r) = [list EXCEPT ![Len(list)] = r]
    BY <1>2 DEF Push
  <2>3. /\ Push(list, r) \in Seq(AnyRecord) /\ Len(Push(list, r)) = Len(list)
        /\ \A j \in 1 .. Len(list) : Push(list, r)[j] = IF j = Len(list) THEN r ELSE list[j]
    <3> DEFINE new == [list EXCEPT ![Len(list)] = r]
    <3>1. /\ new \in Seq(AnyRecord) /\ Len(new) = Len(list)
          /\ \A j \in 1 .. Len(list) : new[j] = IF j = Len(list) THEN r ELSE list[j]
      BY <2>1, ExceptSeq
    <3> QED
      BY <2>2, <3>1
  <2> QED
    BY <2>1, <2>3
<1>3. CASE Len(list) < Cap
  <2>1. Push(list, r) = Append(list, r)
    BY <1>1, <1>3 DEF Push
  <2>2. /\ Push(list, r) \in Seq(AnyRecord) /\ Len(Push(list, r)) = Len(list) + 1
        /\ \A i \in 1 .. Len(list) : Push(list, r)[i] = list[i]
        /\ Push(list, r)[Len(list) + 1] = r
    <3> DEFINE new == Append(list, r)
    <3>1. /\ new \in Seq(AnyRecord) /\ Len(new) = Len(list) + 1
          /\ \A i \in 1 .. Len(list) : new[i] = list[i]
          /\ new[Len(list) + 1] = r
      BY AppendProperties
    <3> QED
      BY <2>1, <3>1
  <2>3. /\ Len(list) + 1 \in 1 .. Cap
        /\ \A i \in 1 .. Len(list) + 1 : i # Len(list) + 1 => i \in 1 .. Len(list)
    BY <1>1, <1>3
  <2> QED
    BY <2>2, <2>3
<1> QED
  BY <1>1, <1>2, <1>3

LEMMA PushKeeps ==
  ASSUME NEW list, NEW n \in Nat, NEW c \in Nat,
         Ordered(list, "dm", n), OfCall(list, c), Len(list) <= Cap
  PROVE  LET new == Push(list, <<"dm", c, n + 1>>)
         IN  Ordered(new, "dm", n + 1) /\ OfCall(new, c) /\ Len(new) <= Cap
<1> DEFINE r == <<"dm", c, n + 1>>
           new == Push(list, r)
<1>1. r[1] = "dm" /\ r[2] = c /\ r[3] = n + 1
  OBVIOUS
<1>2. r \in AnyRecord
  BY DEF AnyRecord
<1>3. list \in Seq(AnyRecord)
  BY DEF Ordered
<1>4. \A i \in 1 .. Len(list) : list[i][3] \in Nat
  BY <1>3, NumbersAreNat
<1> HIDE DEF r
<1>5. PICK m \in 1 .. Cap :
        /\ new \in Seq(AnyRecord) /\ Len(new) = m /\ new[m] = r
        /\ \A i \in 1 .. m : i # m => i \in 1 .. Len(list) /\ new[i] = list[i]
  BY <1>2, <1>3, PushList
<1> HIDE DEF new
<1>6. \A i \in 1 .. m : new[i][1] = "dm" /\ new[i][2] = c /\ new[i][3] <= n + 1
  <2> SUFFICES ASSUME NEW i \in 1 .. m
               PROVE  new[i][1] = "dm" /\ new[i][2] = c /\ new[i][3] <= n + 1
    OBVIOUS
  <2>1. CASE i = m
    BY <1>1, <1>5, <2>1
  <2>2. CASE i # m
    <3>1. i \in 1 .. Len(list) /\ new[i] = list[i]
      BY <1>5, <2>2
    <3>2. list[i][1] = "dm" /\ list[i][2] = c /\ list[i][3] <= n /\ list[i][3] \in Nat
      BY <1>4, <3>1 DEF Ordered, OfCall
    <3> QED
      BY <3>1, <3>2
  <2> QED
    BY <2>1, <2>2
<1>7. \A i, j \in 1 .. m : i < j => new[i][3] < new[j][3]
  <2> SUFFICES ASSUME NEW i \in 1 .. m, NEW j \in 1 .. m, i < j
               PROVE  new[i][3] < new[j][3]
    OBVIOUS
  <2>0. m \in Nat /\ i # m
    BY DiagAssumption
  <2>1. i \in 1 .. Len(list) /\ new[i] = list[i] /\ list[i][3] \in Nat /\ list[i][3] <= n
    BY <1>4, <1>5, <2>0 DEF Ordered
  <2>2. CASE j = m
    BY <1>1, <1>5, <2>1, <2>2
  <2>3. CASE j # m
    <3>1. j \in 1 .. Len(list) /\ new[j] = list[j]
      BY <1>5, <2>3
    <3>2. list[i][3] < list[j][3]
      BY <2>1, <3>1 DEF Ordered
    <3> QED
      BY <2>1, <3>1, <3>2
  <2> QED
    BY <2>2, <2>3
<1>8. m <= Cap
  BY DiagAssumption
<1>9. Ordered(new, "dm", n + 1) /\ OfCall(new, c) /\ Len(new) <= Cap
  BY <1>5, <1>6, <1>7, <1>8 DEF Ordered, OfCall
<1> QED
  BY <1>9 DEF new, r

LEMMA FrontKeeps ==
  ASSUME NEW list, NEW by, NEW n, NEW c, Ordered(list, by, n), OfCall(list, c), list # <<>>
  PROVE  /\ Ordered(Front(list), by, n) /\ OfCall(Front(list), c)
         /\ Len(Front(list)) = Len(list) - 1
         /\ \A i \in 1 .. Len(list) - 1 : Front(list)[i] = list[i]
<1>1. list \in Seq(AnyRecord) /\ Len(list) \in Nat \ {0}
  BY DEF Ordered
<1>2. /\ Front(list) \in Seq(AnyRecord) /\ Len(Front(list)) = Len(list) - 1
      /\ \A i \in 1 .. Len(list) - 1 : Front(list)[i] = list[i]
  <2>1. \A i \in 1 .. Len(list) - 1 : list[i] \in AnyRecord
    BY <1>1, ElementOfSeq
  <2>2. PICK k \in Nat : Len(list) - 1 = k
    BY <1>1
  <2>3. /\ SubSeq(list, 1, k) \in Seq(AnyRecord)
        /\ Len(SubSeq(list, 1, k)) = IF 1 <= k THEN k - 1 + 1 ELSE 0
        /\ \A i \in 1 .. k - 1 + 1 : SubSeq(list, 1, k)[i] = list[1 + i - 1]
    BY <2>1, <2>2, SubSeqProperties
  <2>4. k - 1 + 1 = k /\ \A i \in 1 .. k : 1 + i - 1 = i
    OBVIOUS
  <2>5. Len(SubSeq(list, 1, k)) = k
    BY <2>3, <2>4
  <2>6. \A i \in 1 .. k : SubSeq(list, 1, k)[i] = list[i]
    BY <2>3, <2>4
  <2> QED
    BY <2>2, <2>3, <2>5, <2>6 DEF Front
<1> QED
  BY <1>1, <1>2 DEF Ordered, OfCall

LEMMA TailKeeps ==
  ASSUME NEW list, NEW by, NEW n, Ordered(list, by, n), list # <<>>
  PROVE  /\ Ordered(Tail(list), by, n)
         /\ \A c : OfCall(list, c) => OfCall(Tail(list), c)
         /\ Len(Tail(list)) = Len(list) - 1
         /\ \A i \in 1 .. Len(list) - 1 : Tail(list)[i] = list[i + 1]
<1>1. /\ Tail(list) \in Seq(AnyRecord) /\ Len(Tail(list)) = Len(list) - 1
      /\ \A i \in 1 .. Len(list) - 1 : Tail(list)[i] = list[i + 1]
  BY DEF Ordered
<1> QED
  BY <1>1 DEF Ordered, OfCall

(* A reading function leaves the driver's records, or takes the first.     *)
LEMMA ConsumeKeeps ==
  ASSUME DiagInv, UNCHANGED drvErrs \/ Consume
  PROVE  /\ Ordered(drvErrs', "driver", MaxDriver)
         /\ reached => OfCall(drvErrs', call)
<1>1. CASE UNCHANGED drvErrs
  BY <1>1 DEF DiagInv
<1>2. CASE Consume /\ drvErrs # <<>>
  BY <1>2, TailKeeps DEF DiagInv, Consume
<1>3. CASE Consume /\ drvErrs = <<>>
  BY <1>3 DEF DiagInv, Consume
<1> QED
  BY <1>1, <1>2, <1>3

-----------------------------------------------------------------------------
LEMMA StepDiag == DiagInv /\ [Next]_vars => DiagInv'
<1> SUFFICES ASSUME DiagInv, [Next]_vars PROVE DiagInv'
  OBVIOUS
<1>1. ASSUME Enter PROVE DiagInv'
  <2>1. /\ herr' = <<>> /\ err_rec' = 0 /\ posts' = 0 /\ call' = call + 1
        /\ busy' = TRUE /\ reached' = FALSE /\ answer' = NoAnswer
        /\ UNCHANGED <<kind, drvErrs>>
    BY <1>1 DEF Enter, Clear, setting
  <2>2. Ordered(herr', "dm", posts') /\ OfCall(herr', call') /\ Len(herr') <= Cap
    <3>1. Ordered(<<>>, "dm", posts') /\ OfCall(<<>>, call') /\ Len(<<>>) = 0
      BY EmptyOrdered
    <3>2. 0 <= Cap
      BY DiagAssumption
    <3> QED
      BY <2>1, <3>1, <3>2, Zenon
  <2>3. kind' \in Kinds /\ call' \in Nat /\ posts' \in Nat /\ err_rec' \in Nat
    BY <2>1 DEF DiagInv
  <2>4. Ordered(drvErrs', "driver", MaxDriver)
    BY <2>1 DEF DiagInv
  <2> QED
    BY <2>1, <2>2, <2>3, <2>4, Zenon DEF DiagInv
<1>2. ASSUME Post PROVE DiagInv'
  <2>1. /\ herr' = Push(herr, <<"dm", call, posts + 1>>) /\ posts' = posts + 1
        /\ UNCHANGED <<kind, err_rec, drvErrs, busy, call, reached, answer>>
    BY <1>2 DEF Post, Record, setting
  <2>2. Ordered(herr', "dm", posts') /\ OfCall(herr', call) /\ Len(herr') <= Cap
    BY <2>1, PushKeeps DEF DiagInv
  <2> QED
    BY <2>1, <2>2 DEF DiagInv
<1>3. ASSUME Refused PROVE DiagInv'
  <2>1. /\ posts' = posts + 1
        /\ UNCHANGED <<kind, err_rec, drvErrs, busy, call, reached, answer>>
    BY <1>3 DEF Refused, setting
  <2>2. Ordered(herr', "dm", posts') /\ OfCall(herr', call) /\ Len(herr') <= Cap
    <3>1. CASE herr' = Push(herr, <<"dm", call, posts + 1>>)
      BY <2>1, <3>1, PushKeeps DEF DiagInv
    <3>2. CASE herr # <<>> /\ herr' = Push(Front(herr), <<"dm", call, posts + 1>>)
      <4>1. Ordered(Front(herr), "dm", posts) /\ OfCall(Front(herr), call)
            /\ Len(Front(herr)) = Len(herr) - 1
        BY <3>2, FrontKeeps DEF DiagInv
      <4>2. Len(Front(herr)) <= Cap
        BY <4>1, DiagAssumption DEF DiagInv, Ordered
      <4> QED
        BY <2>1, <3>2, <4>1, <4>2, PushKeeps DEF DiagInv
    <3>3. CASE UNCHANGED herr
      <4>1. posts \in Nat /\ posts <= posts + 1
        BY DEF DiagInv
      <4>2. Ordered(herr, "dm", posts + 1)
        BY <4>1 DEF DiagInv, Ordered, AnyRecord
      <4> QED
        BY <2>1, <3>3, <4>2 DEF DiagInv
    <3> QED
      BY <1>3, <3>1, <3>2, <3>3 DEF Refused, Record
  <2> QED
    BY <2>1, <2>2 DEF DiagInv
<1>4. ASSUME Leave PROVE DiagInv'
  BY <1>4 DEF Leave, setting, DiagInv
<1>5. ASSUME NEW ret, NEW n \in 0 .. MaxDriver, CallDriver(ret, n) PROVE DiagInv'
  <2>1. /\ drvErrs' = [i \in 1 .. n |-> <<"driver", call, i>>]
        /\ UNCHANGED <<kind, herr, err_rec, busy, call, posts, answer>> /\ reached' = TRUE
    BY <1>5 DEF CallDriver, Record, setting
  <2>2. /\ drvErrs' \in Seq(AnyRecord) /\ Len(drvErrs') = n
        /\ \A i \in 1 .. n : drvErrs'[i] = <<"driver", call, i>>
    BY <2>1, DiagAssumption DEF DiagInv, AnyRecord
  <2>3. Ordered(drvErrs', "driver", MaxDriver) /\ OfCall(drvErrs', call)
    BY <2>2, DiagAssumption DEF Ordered, OfCall
  <2> QED
    BY <2>1, <2>3 DEF DiagInv
<1>6. ASSUME NEW hdbc, SQLError(hdbc) PROVE DiagInv'
  <2>1. answer' # NoAnswer /\ UNCHANGED <<kind, progress>> /\ (UNCHANGED drvErrs \/ Consume)
        /\ err_rec' \in {err_rec, err_rec + 1}
    BY <1>6 DEF SQLError, setting, ErrorOfList, ErrorOfNobody, ErrorOfDriver, Answer, NoAnswer
  <2>2. Ordered(herr', "dm", posts) /\ OfCall(herr', call) /\ Len(herr') <= Cap
    <3>1. CASE UNCHANGED herr
      BY <3>1 DEF DiagInv
    <3>2. CASE herr # <<>> /\ herr' = Front(herr)
      <4>1. /\ Ordered(herr', "dm", posts) /\ OfCall(herr', call)
            /\ Len(herr') = Len(herr) - 1
        BY <3>2, FrontKeeps DEF DiagInv
      <4> QED
        BY <4>1, DiagAssumption DEF DiagInv, Ordered
    <3> QED
      BY <1>6, <3>1, <3>2 DEF SQLError, ErrorOfList, ErrorOfNobody, ErrorOfDriver, Pop
  <2> QED
    BY <2>1, <2>2, ConsumeKeeps DEF DiagInv, progress
<1>7. ASSUME NEW n, SQLGetDiagRec(n) \/ SQLGetDiagField(n) \/ SQLGetDiagNumber
      PROVE  DiagInv'
  <2>1. answer' # NoAnswer /\ UNCHANGED <<kind, herr, err_rec, progress>>
        /\ (UNCHANGED drvErrs \/ Consume)
    BY <1>7 DEF SQLGetDiagRec, SQLGetDiagField, SQLGetDiagNumber, setting,
                RecOfList, RecOfDriver, FieldOfDriver, Answer, NoAnswer
  <2> QED
    BY <2>1, ConsumeKeeps DEF DiagInv, progress
<1>8. CASE UNCHANGED vars
  BY <1>8 DEF vars, setting, progress, DiagInv
<1> QED
  BY <1>1, <1>2, <1>3, <1>4, <1>5, <1>6, <1>7, <1>8 DEF Next

LEMMA DiagHolds == Spec => []DiagInv
BY InitDiag, StepDiag, PTL DEF Spec

(* However many calls are refused on a busy handle, its list keeps its     *)
(* bound and its order, for a list of any size.                            *)
THEOREM ListKeepsOrderHolds == Spec => []ListKeepsOrder
<1>1. DiagInv => ListKeepsOrder
  BY DEF DiagInv, Ordered, ListKeepsOrder
<1> QED
  BY <1>1, DiagHolds, PTL

(* The records of the handle are the list's and then the driver's.         *)
LEMMA EnumeratedIs ==
  ASSUME DiagInv
  PROVE  ToSet(Enumerated) =
           ToSet(herr) \cup (IF HasDriver THEN ToSet(drvErrs) ELSE {})
<1>1. herr \in Seq(AnyRecord) /\ drvErrs \in Seq(AnyRecord) /\ <<>> \in Seq(AnyRecord)
  BY DEF DiagInv, Ordered
<1>2. \A s, t \in Seq(AnyRecord) : ToSet(s \o t) = ToSet(s) \cup ToSet(t)
  <2> SUFFICES ASSUME NEW s \in Seq(AnyRecord), NEW t \in Seq(AnyRecord)
               PROVE  ToSet(s \o t) = ToSet(s) \cup ToSet(t)
    OBVIOUS
  <2>1. /\ Len(s) \in Nat /\ Len(t) \in Nat /\ Len(s \o t) = Len(s) + Len(t)
        /\ \A i \in 1 .. Len(s) + Len(t) :
             (s \o t)[i] = IF i <= Len(s) THEN s[i] ELSE t[i - Len(s)]
        /\ s \o t \in Seq(AnyRecord)
    BY ConcatProperties, LenProperties
  <2>2. /\ ToSet(s) = {s[i] : i \in 1 .. Len(s)}
        /\ ToSet(t) = {t[i] : i \in 1 .. Len(t)}
        /\ ToSet(s \o t) = {(s \o t)[i] : i \in 1 .. Len(s \o t)}
    <3>1. \A u \in Seq(AnyRecord) : ToSet(u) = {u[i] : i \in 1 .. Len(u)}
      BY LenProperties DEF ToSet
    <3> QED
      BY <2>1, <3>1
  <2>3. \A i \in 1 .. Len(s) : i \in 1 .. Len(s \o t) /\ (s \o t)[i] = s[i]
    BY <2>1
  <2>4. \A i \in 1 .. Len(t) :
          i + Len(s) \in 1 .. Len(s \o t) /\ (s \o t)[i + Len(s)] = t[i]
    BY <2>1
  <2>5. \A i \in 1 .. Len(s \o t) :
          \/ i \in 1 .. Len(s)
          \/ i - Len(s) \in 1 .. Len(t) /\ (s \o t)[i] = t[i - Len(s)]
    BY <2>1
  <2>6. ToSet(s \o t) \subseteq ToSet(s) \cup ToSet(t)
    <3> SUFFICES ASSUME NEW i \in 1 .. Len(s \o t)
                 PROVE  (s \o t)[i] \in ToSet(s) \cup ToSet(t)
      BY <2>2, Zenon
    <3> QED
      BY <2>2, <2>3, <2>5
  <2>7. ToSet(s) \cup ToSet(t) \subseteq ToSet(s \o t)
    <3>1. ASSUME NEW i \in 1 .. Len(s) PROVE s[i] \in ToSet(s \o t)
      BY <2>2, <2>3, Zenon
    <3>2. ASSUME NEW i \in 1 .. Len(t) PROVE t[i] \in ToSet(s \o t)
      BY <2>2, <2>4, Zenon
    <3> QED
      BY <2>2, <3>1, <3>2, Zenon
  <2> QED
    BY <2>6, <2>7
<1>3. ToSet(<<>>) = {}
  BY DEF ToSet
<1> QED
  BY <1>1, <1>2, <1>3 DEF Enumerated

(* What a call that reached the driver leaves to read is its own, however  *)
(* many records it posts and whatever was read of the call before.         *)
THEOREM OnlyTheLastCallHolds == Spec => []OnlyTheLastCall
<1>1. DiagInv => OnlyTheLastCall
  <2> SUFFICES ASSUME DiagInv, reached \/ ~HasDriver
               PROVE  /\ \A r \in ToSet(Enumerated) : r[2] = call
                      /\ busy /\ answer = NoAnswer => Remaining = ToSet(Enumerated)
    BY DEF OnlyTheLastCall
  <2>1. \A s \in Seq(AnyRecord) : ToSet(s) = {s[i] : i \in 1 .. Len(s)}
    BY LenProperties DEF ToSet
  <2>2. herr \in Seq(AnyRecord) /\ drvErrs \in Seq(AnyRecord)
    BY DEF DiagInv, Ordered
  <2>3. \A r \in ToSet(herr) : r[2] = call
    BY <2>1, <2>2 DEF DiagInv, OfCall
  <2>4. HasDriver => \A r \in ToSet(drvErrs) : r[2] = call
    BY <2>1, <2>2 DEF DiagInv, OfCall
  <2>5. ASSUME busy, answer = NoAnswer, HasDriver
        PROVE  {drvErrs[i] : i \in {j \in 1 .. Len(drvErrs) : Asks3 => j > err_rec}}
                 = ToSet(drvErrs)
    <3>1. err_rec = 0
      BY <2>5 DEF DiagInv
    <3>2. \A j \in 1 .. Len(drvErrs) : j > err_rec
      BY <2>2, <3>1
    <3> QED
      BY <2>1, <2>2, <3>2
  <2>6. busy /\ answer = NoAnswer => Remaining = ToSet(Enumerated)
    BY <2>5, EnumeratedIs DEF Remaining
  <2> QED
    BY <2>3, <2>4, <2>6, EnumeratedIs
<1> QED
  BY <1>1, DiagHolds, PTL

-----------------------------------------------------------------------------
(* SQLError takes what it answers from what remains.                       *)
LEMMA SetOfOrdered ==
  ASSUME NEW list, NEW by, NEW n, Ordered(list, by, n)
  PROVE  /\ Len(list) \in Nat
         /\ ToSet(list) = {list[i] : i \in 1 .. Len(list)}
         /\ \A i, j \in 1 .. Len(list) : list[i] = list[j] => i = j
         /\ \A i \in 1 .. Len(list) : list[i][1] = by /\ list[i] # None
         /\ list # <<>> => Len(list) > 0
<1>1. list \in Seq(AnyRecord) /\ Len(list) \in Nat
  BY LenProperties DEF Ordered
<1>2. ToSet(list) = {list[i] : i \in 1 .. Len(list)}
  BY <1>1, LenProperties DEF ToSet
<1>3. \A i \in 1 .. Len(list) : list[i] \in AnyRecord
  BY <1>1, ElementOfSeq
<1>4. None \notin AnyRecord
  BY DEF AnyRecord, None
<1>5. ASSUME NEW i \in 1 .. Len(list), NEW j \in 1 .. Len(list), list[i] = list[j]
      PROVE  i = j
  <2>1. list[i][3] \in Nat /\ list[i][3] = list[j][3]
    BY <1>1, <1>5, NumbersAreNat
  <2>2. ~(i < j) /\ ~(j < i)
    BY <2>1 DEF Ordered
  <2> QED
    BY <1>1, <2>2
<1>6. list # <<>> => Len(list) > 0
  BY <1>1, EmptySeq
<1>7. \A i \in 1 .. Len(list) : list[i][1] = by
  BY DEF Ordered
<1> QED
  BY <1>1, <1>2, <1>3, <1>4, <1>5, <1>6, <1>7

(* The driver's records SQLError has still to return. *)
Unread == {drvErrs[i] : i \in {j \in 1 .. Len(drvErrs) : Asks3 => j > err_rec}}

(* Its answer, and what it does to what remains, for each source.          *)
Takes(hdbc) ==
  IF answer'.number = Crash
    THEN hdbc = "null" /\ kind = "statement" /\ herr = <<>> /\ Remaining' = Remaining
    ELSE IF answer'.rec = None THEN Remaining = {}
    ELSE answer'.rec \in Remaining /\ Remaining' = Remaining \ {answer'.rec}

LEMMA ListTakes ==
  ASSUME DiagInv, ErrorOfList, UNCHANGED setting, NEW hdbc
  PROVE  Takes(hdbc)
<1>1. /\ answer'.rec = Last(herr) /\ answer'.number = 0 /\ herr # <<>> /\ herr' = Front(herr)
      /\ UNCHANGED <<kind, odbc_ver, dodbc_ver, has2, err_rec, drvErrs>>
  BY DEF ErrorOfList, Answer, Pop, setting
<1>2. Ordered(herr, "dm", posts) /\ Ordered(herr', "dm", posts)
      /\ Len(herr') = Len(herr) - 1
      /\ \A i \in 1 .. Len(herr) - 1 : herr'[i] = herr[i]
  BY <1>1, FrontKeeps DEF DiagInv
<1>3. Len(herr) \in Nat \ {0} /\ Last(herr) = herr[Len(herr)]
  BY <1>1, <1>2, SetOfOrdered DEF Last
<1>4. Last(herr) \in ToSet(herr) /\ ToSet(herr') = ToSet(herr) \ {Last(herr)}
  <2>1. /\ ToSet(herr) = {herr[i] : i \in 1 .. Len(herr)}
        /\ ToSet(herr') = {herr'[i] : i \in 1 .. Len(herr')}
        /\ \A i, j \in 1 .. Len(herr) : herr[i] = herr[j] => i = j
    BY <1>2, SetOfOrdered
  <2>2. /\ Len(herr) \in 1 .. Len(herr)
        /\ \A i \in 1 .. Len(herr) : (i \in 1 .. Len(herr')) <=> i # Len(herr)
        /\ \A i \in 1 .. Len(herr') : i \in 1 .. Len(herr) /\ herr'[i] = herr[i]
    BY <1>2, <1>3
  <2> QED
    BY <1>3, <2>1, <2>2
<1>5. Last(herr) # None /\ Last(herr) \notin Unread /\ Unread' = Unread
  <2>1. Last(herr) # None /\ Last(herr)[1] = "dm"
    BY <1>2, <1>3, SetOfOrdered
  <2>2. \A i \in 1 .. Len(drvErrs) : drvErrs[i][1] = "driver"
    BY DEF DiagInv, Ordered
  <2>3. Last(herr) \notin Unread
    BY <2>1, <2>2 DEF Unread
  <2> QED
    BY <1>1, <2>1, <2>3 DEF Unread, Asks3
<1> QED
  <2>1. Remaining' = Remaining \ {Last(herr)} /\ Last(herr) \in Remaining
    BY <1>1, <1>4, <1>5, Zenon DEF Remaining, Unread, HasDriver
  <2>2. answer'.number # Crash
    BY <1>1 DEF Crash
  <2> QED
    BY <1>1, <1>5, <2>1, <2>2 DEF Takes

LEMMA DriverTakes ==
  ASSUME DiagInv, NEW hdbc, ErrorOfDriver(hdbc), UNCHANGED setting
  PROVE  Takes(hdbc)
<1>1. /\ herr = <<>> /\ herr' = <<>> /\ HasDriver /\ HasDriver'
      /\ UNCHANGED <<kind, odbc_ver, dodbc_ver, has2>>
  BY DEF ErrorOfDriver, setting, HasDriver
<1>2. ToSet(herr) = {} /\ ToSet(herr') = {}
  BY <1>1 DEF ToSet
<1>3. Remaining = Unread /\ Remaining' = Unread' /\ Asks3' = Asks3
  BY <1>1, <1>2 DEF Remaining, Unread, Asks3
<1>4. /\ Len(drvErrs) \in Nat /\ err_rec \in Nat
      /\ \A i, j \in 1 .. Len(drvErrs) : drvErrs[i] = drvErrs[j] => i = j
      /\ \A i \in 1 .. Len(drvErrs) : drvErrs[i] # None
  BY SetOfOrdered DEF DiagInv
<1>0. CASE kind = "statement" /\ hdbc = "null"
  <2>1. answer'.number = Crash /\ UNCHANGED <<err_rec, drvErrs>>
    BY <1>0 DEF ErrorOfDriver, Answer
  <2>2. Unread' = Unread
    BY <1>1, <1>3, <2>1 DEF Unread
  <2> QED
    BY <1>0, <1>1, <1>3, <2>1, <2>2 DEF Takes
<1> DEFINE Through == ~(kind = "statement" /\ hdbc = "null")
<1>5. CASE Through /\ Asks3
  <2>0. Asks3
    BY <1>5
  <2>1. /\ answer'.rec = DriverRec(err_rec + 1) /\ err_rec' = err_rec + 1 /\ drvErrs' = drvErrs
        /\ answer'.number # Crash
    BY <1>5 DEF ErrorOfDriver, Answer, Crash
  <2>2. /\ Unread = {drvErrs[i] : i \in {j \in 1 .. Len(drvErrs) : j > err_rec}}
        /\ Unread' = {drvErrs[i] : i \in {j \in 1 .. Len(drvErrs) : j > err_rec + 1}}
    BY <1>3, <2>0, <2>1 DEF Unread
  <2>3. CASE err_rec + 1 \in 1 .. Len(drvErrs)
    <3>1. answer'.rec = drvErrs[err_rec + 1] /\ answer'.rec # None
      BY <1>4, <2>1, <2>3 DEF DriverRec
    <3>2. drvErrs[err_rec + 1] \in Unread
      BY <1>4, <2>2, <2>3
    <3>3. \A j \in 1 .. Len(drvErrs) : (j > err_rec + 1) <=> (j > err_rec /\ j # err_rec + 1)
      BY <1>4
    <3>4. Unread' = Unread \ {drvErrs[err_rec + 1]}
      BY <1>4, <2>2, <2>3, <3>3
    <3> QED
      BY <1>3, <2>1, <3>1, <3>2, <3>4 DEF Takes
  <2>4. CASE err_rec + 1 \notin 1 .. Len(drvErrs)
    <3>1. answer'.rec = None
      BY <2>1, <2>4 DEF DriverRec
    <3>2. \A j \in 1 .. Len(drvErrs) : ~(j > err_rec)
      BY <1>4, <2>4
    <3> QED
      BY <1>3, <2>1, <2>2, <3>1, <3>2 DEF Takes
  <2> QED
    BY <2>3, <2>4
<1>6. CASE Through /\ ~Asks3
  <2>1. answer'.rec = DriverRec(1) /\ Consume /\ answer'.number # Crash
    BY <1>6 DEF ErrorOfDriver, Answer, Crash
  <2>2. /\ Unread = {drvErrs[i] : i \in 1 .. Len(drvErrs)}
        /\ Unread' = {drvErrs'[i] : i \in 1 .. Len(drvErrs')}
    BY <1>3, <1>6 DEF Unread
  <2>3. CASE drvErrs = <<>>
    <3>1. answer'.rec = None
      BY <2>1, <2>3 DEF DriverRec
    <3>2. Unread = {}
      BY <2>2, <2>3
    <3> QED
      BY <1>3, <2>1, <3>1, <3>2 DEF Takes
  <2>4. CASE drvErrs # <<>>
    <3>1. Len(drvErrs) > 0 /\ 1 \in 1 .. Len(drvErrs)
      BY <1>4, <2>4, SetOfOrdered DEF DiagInv
    <3>2. answer'.rec = drvErrs[1] /\ answer'.rec # None
      BY <1>4, <2>1, <3>1 DEF DriverRec
    <3>3. /\ drvErrs' = Tail(drvErrs)
          /\ Len(drvErrs') = Len(drvErrs) - 1
          /\ \A i \in 1 .. Len(drvErrs) - 1 : drvErrs'[i] = drvErrs[i + 1]
      BY <2>1, <2>4, TailKeeps DEF DiagInv, Consume
    <3>4. \A i \in 1 .. Len(drvErrs') : /\ i + 1 \in 1 .. Len(drvErrs) /\ i + 1 # 1
                                       /\ drvErrs'[i] = drvErrs[i + 1]
      BY <1>4, <3>3
    <3>5. \A j \in 1 .. Len(drvErrs) :
            j # 1 => j - 1 \in 1 .. Len(drvErrs') /\ drvErrs'[j - 1] = drvErrs[j]
      BY <1>4, <3>3
    <3>6. Unread' \subseteq Unread \ {drvErrs[1]}
      BY <1>4, <2>2, <3>1, <3>4
    <3>7. Unread \ {drvErrs[1]} \subseteq Unread'
      BY <2>2, <3>5
    <3>8. drvErrs[1] \in Unread
      BY <2>2, <3>1
    <3> QED
      BY <1>3, <2>1, <3>2, <3>6, <3>7, <3>8 DEF Takes
  <2> QED
    BY <2>3, <2>4
<1> QED
  BY <1>0, <1>5, <1>6

(* A loop on SQLError meets each record once and ends with the last, for   *)
(* any number of records of either party and whatever was read before; one *)
(* on a statement alone ends the process behind the driver manager's own.  *)
THEOREM ErrorLoopReadsAllHolds == Spec => ErrorLoopReadsAll
<1>1. ASSUME DiagInv, NEW hdbc, SQLError(hdbc) PROVE Takes(hdbc)
  <2>1. UNCHANGED setting
    BY <1>1 DEF SQLError
  <2>2. CASE ErrorOfNobody
    <3>1. answer'.rec = None /\ answer'.number # Crash /\ herr = <<>> /\ ~HasDriver
      BY <2>2 DEF ErrorOfNobody, Answer, Crash
    <3>2. ToSet(herr) = {}
      BY <3>1 DEF ToSet
    <3> QED
      BY <3>1, <3>2 DEF Takes, Remaining
  <2> QED
    BY <1>1, <2>1, <2>2, ListTakes, DriverTakes DEF SQLError
<1> DEFINE Read ==
      \A hdbc \in HdbcArgs : SQLError(hdbc) =>
        IF answer'.number = Crash
          THEN /\ hdbc = "null" /\ kind = "statement" /\ herr = <<>>
               /\ Remaining' = Remaining
          ELSE IF answer'.rec = None THEN Remaining = {}
          ELSE answer'.rec \in Remaining /\ Remaining' = Remaining \ {answer'.rec}
<1>2. ASSUME DiagInv PROVE Read
  BY <1>1, <1>2 DEF Takes
<1>3. DiagInv /\ [Next]_vars => [Read]_vars
  BY <1>2
<1> QED
  BY <1>3, DiagHolds, PTL DEF Spec, ErrorLoopReadsAll

(***************************************************************************)
(* Scaling a length to another width and back.                             *)
(***************************************************************************)
LEMMA Scaling ==
  ASSUME NEW n \in Nat, NEW w \in Nat \ {0}
  PROVE  /\ n \div w \in Nat /\ (n \div w) * w <= n
         /\ n * w \in Nat /\ (n * w) \div w = n
         /\ \A m \in Nat : m <= n * w => m \div w \in Nat /\ m \div w <= n
<1>1. n \div w \in Nat /\ (n \div w) * w <= n
  OBVIOUS
<1>2. n * w \in Nat /\ (n * w) \div w = n
  OBVIOUS
<1>3. ASSUME NEW m \in Nat, m <= n * w PROVE m \div w \in Nat /\ m \div w <= n
  BY <1>3
<1> QED BY <1>1, <1>2, <1>3

LEMMA ByOne == \A n \in Nat : n \div 1 = n /\ n * 1 = n
OBVIOUS

LEMMA Shortened ==
  ASSUME NEW n \in Nat
  PROVE  Short(n) \in Int /\ Short(n) <= n /\ (n <= MaxShort => Short(n) = n)
<1>1. Short(n) \in Int /\ Short(n) <= n
  BY DEF Short, MaxShort
<1>2. ASSUME n <= MaxShort PROVE Short(n) = n
  BY <1>2 DEF Short, MaxShort
<1> QED BY <1>1, <1>2

LEMMA Units == ASSUME NEW wide \in BOOLEAN PROVE Unit(wide) \in Nat \ {0}
BY BufferAssumption DEF Unit

(***************************************************************************)
(* The functions: only one that counts bytes has a SQLSMALLINT to scale or *)
(* has its length scaled back.                                             *)
(***************************************************************************)
AnyFunction ==
  {f \in [bytes : BOOLEAN, short : BOOLEAN, spare : Nat, own : BOOLEAN] :
     (f.short => f.bytes) /\ (f.own => ~f.bytes)}

(* Characters the driver is told it has room for. *)
RoomTold(f, cb, wide) ==
  LET told == Told(f.bytes, f.short, cb, wide)
  IN IF f.bytes THEN told \div Unit(unicode_driver) ELSE told

LEMMA ToldFits ==
  ASSUME unicode_driver \in BOOLEAN, NEW f \in AnyFunction, NEW cb \in Nat, NEW wide \in BOOLEAN,
         f.short => cb <= MaxShort, Told(f.bytes, f.short, cb, wide) >= 0
  PROVE  /\ Told(f.bytes, f.short, cb, wide) \in Nat /\ RoomTold(f, cb, wide) \in Nat
         /\ RoomTold(f, cb, wide) * Unit(wide) <= Bytes(f.bytes, cb, wide)
         /\ "large" \notin Oddities(f, cb, wide) => RoomTold(f, cb, wide) = Room(f.bytes, cb, wide)
<1> DEFINE told == Told(f.bytes, f.short, cb, wide)
           c    == RoomTold(f, cb, wide)
<1>0. f.bytes \in BOOLEAN /\ f.short \in BOOLEAN /\ Width \in Nat \ {0} /\ Unit(wide) \in Nat \ {0}
  BY BufferAssumption, Units DEF AnyFunction
<1>1. CASE ~f.bytes
  <2>1. told = cb /\ c = cb /\ Bytes(f.bytes, cb, wide) = cb * Unit(wide) /\ Room(f.bytes, cb, wide) = cb
    BY <1>1 DEF Told, RoomTold, Bytes, Room
  <2> HIDE DEF told, c
  <2>2. cb * Unit(wide) <= cb * Unit(wide)
    BY <1>0
  <2> QED BY <2>1, <2>2 DEF told, c
<1>2. CASE f.bytes /\ ~Converts(wide)
  <2>1. told = cb /\ c = cb \div Unit(wide) /\ Bytes(f.bytes, cb, wide) = cb
        /\ Room(f.bytes, cb, wide) = cb \div Unit(wide)
    BY <1>2 DEF Told, RoomTold, Bytes, Room, Converts
  <2> HIDE DEF told, c
  <2> QED BY <1>0, <2>1, Scaling DEF told, c
<1>3. CASE f.bytes /\ Converts(wide) /\ wide
  <2>1. Unit(wide) = Width /\ Unit(unicode_driver) = 1 /\ Bytes(f.bytes, cb, wide) = cb
        /\ Room(f.bytes, cb, wide) = cb \div Width
    BY <1>3 DEF Converts, Unit, Bytes, Room
  <2>2. cb \div Width \in Nat /\ (cb \div Width) * Width <= cb /\ cb \div Width <= cb
    <3> DEFINE q == cb \div Width
    <3>1. q \in Nat /\ q * Width <= cb
      BY <1>0, Scaling
    <3> HIDE DEF q
    <3>2. q * Width \in Nat /\ q <= q * Width
      BY <1>0, <3>1
    <3>3. q <= cb
      BY <3>1, <3>2
    <3> QED BY <3>1, <3>3 DEF q
  <2>3. told = cb \div Width
    <3>1. f.short => Short(cb \div Width) = cb \div Width
      BY <2>2, Shortened DEF MaxShort
    <3> QED BY <1>3, <3>1 DEF Told
  <2>4. c = cb \div Width
    BY <1>3, <2>1, <2>2, <2>3, ByOne DEF RoomTold
  <2> HIDE DEF told, c
  <2> QED BY <2>1, <2>2, <2>3, <2>4 DEF told, c
<1>4. CASE f.bytes /\ Converts(wide) /\ ~wide
  <2>1. Unit(wide) = 1 /\ Unit(unicode_driver) = Width /\ Bytes(f.bytes, cb, wide) = cb
        /\ Room(f.bytes, cb, wide) = cb
    BY <1>4, ByOne DEF Converts, Unit, Bytes, Room
  <2>2. told = IF f.short THEN Short(cb * Width) ELSE cb * Width
    BY <1>4 DEF Told
  <2>3. c = told \div Width
    BY <1>4, <2>1 DEF RoomTold
  <2>4. cb * Width \in Nat /\ (cb * Width) \div Width = cb
    BY <1>0, Scaling
  <2>5. told \in Nat /\ told <= cb * Width
    BY <2>2, <2>4, Shortened
  <2>6. "large" \notin Oddities(f, cb, wide) => told = cb * Width
    <3>1. "large" \notin Oddities(f, cb, wide) => ~f.short \/ cb * Width <= MaxShort
      BY <1>4, <2>4 DEF Oddities, MaxShort
    <3> QED BY <2>2, <2>4, <3>1, Shortened
  <2> HIDE DEF told, c
  <2>7. c \in Nat /\ c <= cb
    BY <1>0, <2>3, <2>5, Scaling
  <2>8. c * 1 = c
    BY <2>7
  <2> QED BY <2>1, <2>3, <2>4, <2>5, <2>6, <2>7, <2>8 DEF told, c
<1> QED BY <1>0, <1>1, <1>2, <1>3, <1>4

(***************************************************************************)
(* A call: what it answers, and what it hands over.                        *)
(***************************************************************************)
Exceptions == {"version", "column_zero", "option", "filedsn", "own_buffer", "home", "overrun"}

OutFits(o, oddities) ==
  /\ oddities \cap Exceptions = {} => o.told <= o.block /\ o.copied <= o.buffer
  /\ oddities \subseteq {"list"} =>
       /\ o.got >= Least(o.sure, o.room - 1)
       /\ o.sure = o.text => o.got = Least(o.text, o.room - 1)
  /\ oddities = {} /\ o.text < o.room /\ o.sure = o.text => o.reported = o.text * o.unit

InFits(i, oddities) ==
  oddities = {} =>
    /\ i.times <= 1 /\ i.handed >= i.sure
    /\ i.sure = i.given => i.handed = i.given

BuffersInv == unicode_driver \in BOOLEAN /\ OutFits(out, odd) /\ InFits(in, odd)

LEMMA Fits ==
  ASSUME NEW n \in Nat, NEW c \in Nat
  PROVE  /\ c > 0 => Fitted(n, c) = Least(n, c - 1) /\ Fitted(n, c) \in 0 .. c - 1
         /\ c = 0 => Fitted(n, c) = NotCopied
<1>1. ASSUME c > 0 PROVE Fitted(n, c) = Least(n, c - 1) /\ Least(n, c - 1) \in 0 .. c - 1
  BY <1>1 DEF Fitted, Least
<1>2. ASSUME c = 0 PROVE Fitted(n, c) = NotCopied
  BY <1>2 DEF Fitted
<1> QED BY <1>1, <1>2

(* Texts, and how many characters and bytes stand for one another.         *)
Worded == {t \in [length : Nat, ascii : Nat] : t.ascii <= t.length}

LEMMA Narrowed ==
  ASSUME NEW t \in Worded, NEW k \in Nat
  PROVE  Narrow(t, k) \in Nat /\ Narrow(t, k) >= k /\ (k <= t.ascii => Narrow(t, k) = k)
BY DEF Narrow, Several, Worded

LEMMA WholeCharacters ==
  ASSUME NEW t \in Worded, NEW b \in Nat
  PROVE  WholeIn(t, b) \in Nat /\ WholeIn(t, b) >= Least(t.ascii, b)
         /\ (b <= t.ascii => WholeIn(t, b) = b)
<1>1. t.ascii \in Nat
  BY DEF Worded
<1>2. CASE b <= t.ascii
  BY <1>1, <1>2 DEF WholeIn, Least
<1>3. CASE b > t.ascii
  <2> DEFINE q == (b - t.ascii) \div Several
  <2>1. q \in Nat
    BY <1>1, <1>3 DEF Several
  <2>2. WholeIn(t, b) = t.ascii + q
    BY <1>1, <1>3 DEF WholeIn
  <2> HIDE DEF q
  <2> QED BY <1>1, <1>3, <2>1, <2>2 DEF Least
<1> QED BY <1>1, <1>2, <1>3

LEMMA InUnitsIs ==
  ASSUME NEW t \in Worded, NEW wide \in BOOLEAN
  PROVE  /\ InUnits(t, t.length, wide) \in Nat /\ InUnits(t, t.length, wide) >= t.length
         /\ t.ascii = t.length => InUnits(t, t.length, wide) = t.length
<1>1. t.length \in Nat /\ t.ascii \in Nat
  BY DEF Worded
<1> QED BY <1>1, Narrowed DEF InUnits

(* The leading ASCII characters are converted whatever the locale: e of    *)
(* them, if the source and the result have so many.                        *)
LEMMA ConvertedKeeps ==
  ASSUME NEW t \in Worded, NEW m \in Nat, NEW size \in Nat, NEW wide \in BOOLEAN,
         NEW e \in Int, e <= t.ascii, e <= m, e <= size
  PROVE  /\ Converted(t, m, size, wide) \in Int /\ Converted(t, m, size, wide) >= e
         /\ m <= t.ascii /\ size = m => Converted(t, m, size, wide) = m
<1> DEFINE x == IF wide THEN size ELSE WholeIn(t, size)
           y == IF locale = "C" THEN Least(t.ascii, m) ELSE m
<1>1. t.ascii \in Nat
  BY DEF Worded
<1>2. x \in Nat /\ x >= e /\ (size <= t.ascii => x = size)
  BY <1>1, WholeCharacters DEF Least
<1>3. y \in Nat /\ y >= e /\ (m <= t.ascii => y = m)
  BY <1>1 DEF Least
<1>4. Converted(t, m, size, wide) = Least(x, y)
  BY DEF Converted
<1> HIDE DEF x, y
<1> QED BY <1>1, <1>2, <1>3, <1>4 DEF Least

(* The copy ends where the block does, and inside what the driver was told.*)
LEMMA EndsFit ==
  ASSUME NEW n, NEW c \in Nat, n = NotCopied \/ n \in 0 .. c - 1
  PROVE  /\ CopyEnds(n, c) = NotCopied \/ CopyEnds(n, c) \in 0 .. c - 1
         /\ n # NotCopied /\ c <= MaxShort => CopyEnds(n, c) = n
<1>1. Short(c) \in Int /\ Short(c) <= c /\ (c <= MaxShort => Short(c) = c)
  BY Shortened
<1>2. CASE n = NotCopied
  BY <1>2 DEF CopyEnds
<1>3. CASE n \in 0 .. c - 1
  <2>1. CopyEnds(n, c) = IF Short(c) = 0 THEN NotCopied
                         ELSE IF Short(c) < 0 \/ Short(c) > n THEN n ELSE Short(c) - 1
    BY <1>3 DEF CopyEnds, NotCopied
  <2>2. Short(c) # 0 /\ ~(Short(c) < 0 \/ Short(c) > n) => Short(c) - 1 \in 0 .. c - 1
    BY <1>1, <1>3
  <2> QED BY <1>1, <1>3, <2>1, <2>2
<1> QED BY <1>2, <1>3

LEMMA CopyFits ==
  ASSUME NEW k, NEW c \in Nat, NEW wide \in BOOLEAN, k = NotCopied \/ k \in 0 .. c - 1
  PROVE  Copied(k, wide) \in Nat /\ Copied(k, wide) <= c * Unit(wide)
<1> DEFINE u == Unit(wide)
<1>1. u \in Nat \ {0}
  BY Units
<1>2. CASE k = NotCopied
  <2>1. Copied(k, wide) = 0 /\ c * u \in Nat
    BY <1>1, <1>2 DEF Copied
  <2> QED BY <2>1
<1>3. CASE k \in 0 .. c - 1
  <2>1. k \in 0 .. c - 1 /\ k # NotCopied
    BY <1>3 DEF NotCopied
  <2>2. Copied(k, wide) = (k + 1) * u
    BY <2>1 DEF Copied
  <2> HIDE DEF u
  <2>3. \E d \in Nat : c = (k + 1) + d
    <3>1. c - (k + 1) \in Nat /\ c = (k + 1) + (c - (k + 1))
      BY <2>1
    <3> QED BY <3>1
  <2>4. PICK d \in Nat : c = (k + 1) + d
    BY <2>3
  <2>5. c * u = (k + 1) * u + d * u /\ d * u \in Nat /\ (k + 1) * u \in Nat
    BY <1>1, <2>1, <2>4
  <2>6. (k + 1) * u <= c * u
    BY <2>5
  <2> QED BY <2>2, <2>5, <2>6 DEF u
<1> QED BY <1>2, <1>3

LEMMA AnswerFits ==
  ASSUME unicode_driver \in BOOLEAN, NEW f \in AnyFunction, NEW cb \in Nat, NEW t \in Worded,
         NEW wide \in BOOLEAN, f.short => cb <= MaxShort, Told(f.bytes, f.short, cb, wide) >= 0
  PROVE  OutFits(TextAnswer(f, cb, t, wide), Oddities(f, cb, wide))
<1> DEFINE told  == Told(f.bytes, f.short, cb, wide)
           c     == RoomTold(f, cb, wide)
           whole == InUnits(t, t.length, unicode_driver)
           n     == Fitted(whole, c)
           ends  == IF Converts(wide) THEN CopyEnds(n, c) ELSE n
           here  == IF unicode_driver THEN n ELSE WholeIn(t, n)
           o     == TextAnswer(f, cb, t, wide)
           room  == Room(f.bytes, cb, wide)
           odd1  == Oddities(f, cb, wide)
<1>0. f.bytes \in BOOLEAN /\ f.spare \in Nat /\ f.own \in BOOLEAN /\ (f.own => ~f.bytes)
  BY DEF AnyFunction
<1>1. /\ told \in Nat /\ c \in Nat /\ c * Unit(wide) <= Bytes(f.bytes, cb, wide)
      /\ "large" \notin odd1 => c = room
  BY ToldFits
<1>2. /\ o.text = t.length /\ o.sure = t.ascii /\ o.room = room /\ o.unit = Measure(f, wide)
      /\ o.got = IF ends = NotCopied THEN NotCopied
                 ELSE IF Converts(wide) THEN Converted(t, here, ends, wide) ELSE here
      /\ o.told = Bytes(f.bytes, told, unicode_driver)
      /\ o.block = IF Converts(wide) THEN Bytes(f.bytes, told, unicode_driver) + f.spare
                   ELSE Bytes(f.bytes, cb, wide)
      /\ o.copied = Copied(ends, wide) /\ o.buffer = Bytes(f.bytes, cb, wide)
      /\ o.reported = IF Converts(wide) THEN Reported(f, whole, Short(n), wide)
                      ELSE whole * Measure(f, wide)
  BY DEF TextAnswer, RoomTold
<1>3. o.told <= o.block
  <2>1. Bytes(f.bytes, told, unicode_driver) \in Nat
    BY <1>1, Units DEF Bytes
  <2>2. CASE Converts(wide)
    BY <1>0, <1>2, <2>1, <2>2
  <2>3. CASE ~Converts(wide)
    <3>1. told = cb /\ wide = unicode_driver
      BY <2>3 DEF Told, Converts
    <3> QED BY <1>2, <2>1, <2>3, <3>1
  <2> QED BY <2>2, <2>3
<1>w. /\ whole \in Nat /\ whole >= t.length /\ (t.ascii = t.length => whole = t.length)
      /\ t.ascii \in Nat /\ t.length \in Nat /\ t.ascii <= t.length
  BY InUnitsIs DEF Worded
<1>n. /\ n = NotCopied \/ n \in 0 .. c - 1
      /\ c > 0 => n = Least(whole, c - 1) /\ n \in 0 .. c - 1
  <2> HIDE DEF c, whole
  <2> QED BY <1>1, <1>w, Fits
<1>e. ends = NotCopied \/ ends \in 0 .. c - 1
  <2> HIDE DEF c, n
  <2> QED BY <1>1, <1>n, EndsFit
<1>4. o.copied <= o.buffer
  <2>1. Copied(ends, wide) \in Nat /\ Copied(ends, wide) <= c * Unit(wide) /\ c * Unit(wide) \in Nat
    <3> HIDE DEF c, ends
    <3>1. c \in Nat /\ Unit(wide) \in Nat
      BY <1>1, Units
    <3>2. c * Unit(wide) \in Nat
      BY <3>1
    <3> QED BY <1>e, <3>1, <3>2, CopyFits
  <2>2. Bytes(f.bytes, cb, wide) \in Nat
    BY Units DEF Bytes
  <2> HIDE DEF told, c, ends, o
  <2> QED BY <1>1, <1>2, <2>1, <2>2
<1>5. ASSUME odd1 \subseteq {"list"}
      PROVE  /\ c > 0 /\ c = room /\ n = Least(whole, room - 1) /\ n \in 0 .. c - 1
             /\ ends = n /\ (Converts(wide) => room <= MaxShort)
  <2>1. "large" \notin odd1 /\ "noroom" \notin odd1 /\ "narrowed" \notin odd1
    BY <1>5
  <2>2. c = room /\ room # 0
    <3>1. room # 0
      BY <2>1 DEF Oddities
    <3> QED BY <1>1, <2>1, <3>1
  <2>3. Converts(wide) => ~(room > MaxShort)
    BY <2>1 DEF Oddities
  <2> HIDE DEF c, whole, room, n
  <2>4. c > 0 /\ (Converts(wide) => room <= MaxShort)
    BY <1>1, <2>2, <2>3 DEF MaxShort
  <2>5. n = Least(whole, room - 1) /\ n \in 0 .. c - 1 /\ n # NotCopied
    BY <1>1, <1>n, <2>2, <2>4 DEF NotCopied
  <2>6. Converts(wide) => CopyEnds(n, c) = n
    BY <1>1, <2>2, <2>4, <2>5, EndsFit
  <2> QED BY <2>2, <2>4, <2>5, <2>6
<1>6. ASSUME odd1 \subseteq {"list"}
      PROVE  /\ o.got >= Least(t.ascii, room - 1)
             /\ t.ascii = t.length => o.got = Least(t.length, room - 1)
  <2> DEFINE e == Least(t.ascii, room - 1)
  <2>1. room \in Nat /\ room > 0 /\ n \in Nat /\ n = Least(whole, room - 1) /\ ends = n /\ n # NotCopied
    <3> HIDE DEF c, n, ends, room, odd1
    <3> QED BY <1>1, <1>5, <1>6 DEF NotCopied
  <2>2. e \in Int /\ e <= t.ascii /\ e <= n /\ (t.ascii = t.length => e = n /\ n <= t.ascii)
    <3> HIDE DEF whole, room, n
    <3> QED BY <1>w, <2>1 DEF Least
  <2>3. here \in Nat /\ here >= e /\ (n <= t.ascii => here = n)
    <3>1. WholeIn(t, n) \in Nat /\ WholeIn(t, n) >= Least(t.ascii, n) /\ (n <= t.ascii => WholeIn(t, n) = n)
      <4> HIDE DEF n
      <4> QED BY <2>1, WholeCharacters
    <3> HIDE DEF n, e
    <3> QED BY <1>w, <2>1, <2>2, <3>1 DEF Least
  <2>4. o.got = IF Converts(wide) THEN Converted(t, here, n, wide) ELSE here
    <3> HIDE DEF n, ends, here, o
    <3> QED BY <1>2, <2>1
  <2> HIDE DEF n, e, here, o
  <2>5. Converted(t, here, n, wide) >= e /\ (here <= t.ascii /\ n = here => Converted(t, here, n, wide) = here)
    BY <2>1, <2>2, <2>3, ConvertedKeeps
  <2>6. o.got >= e /\ (t.ascii = t.length => o.got = n)
    BY <2>2, <2>3, <2>4, <2>5
  <2>7. t.ascii = t.length => Least(t.length, room - 1) = n
    <3> HIDE DEF room
    <3> QED BY <2>2 DEF e
  <2> QED BY <2>6, <2>7 DEF e
<1>7. ASSUME odd1 = {}, t.length < room, t.ascii = t.length PROVE o.reported = t.length * o.unit
  <2>1. n = Least(whole, room - 1) /\ room \in Nat /\ (Converts(wide) => room <= MaxShort)
    <3> HIDE DEF c, n, room
    <3> QED BY <1>1, <1>5, <1>7
  <2>2. whole = t.length /\ n = t.length
    <3> HIDE DEF whole, n, room
    <3> QED BY <1>7, <1>w, <2>1 DEF Least
  <2>3. Converts(wide) => Short(n) = n
    <3> HIDE DEF n, room, whole
    <3>1. Converts(wide) => n \in Nat /\ n <= MaxShort
      BY <1>7, <1>w, <2>1, <2>2 DEF MaxShort
    <3> QED BY <3>1, Shortened
  <2>4. f.own => Measure(f, wide) = 1
    BY <1>0 DEF Measure
  <2> HIDE DEF whole, n, o
  <2>5. Converts(wide) => Reported(f, whole, Short(n), wide) = t.length * Measure(f, wide)
    BY <1>w, <2>2, <2>3, <2>4, ByOne DEF Reported
  <2> QED BY <1>2, <2>2, <2>5
<1> HIDE DEF o, c, n, told, room, odd1, ends, here, whole
<1>8. odd1 \subseteq {"list"} =>
        /\ o.got >= Least(o.sure, o.room - 1)
        /\ o.sure = o.text => o.got = Least(o.text, o.room - 1)
  BY <1>2, <1>6
<1>9. odd1 = {} /\ o.text < o.room /\ o.sure = o.text => o.reported = o.text * o.unit
  BY <1>2, <1>7
<1> QED BY <1>3, <1>4, <1>8, <1>9 DEF OutFits, o, odd1

LEMMA NothingFits == ASSUME NEW oddities PROVE OutFits(NoOut, oddities) /\ InFits(NoIn, oddities)
BY DEF OutFits, InFits, NoOut, NoIn, Least

LEMMA IsFunction ==
  ASSUME NEW bytes \in BOOLEAN, NEW short \in BOOLEAN, NEW spare \in Nat, NEW own \in BOOLEAN,
         short => bytes, own => ~bytes
  PROVE  /\ Function(bytes, short, spare, own) \in AnyFunction
         /\ Function(bytes, short, spare, own).short = short
BY DEF Function, AnyFunction

LEMMA ReturnsKeeps ==
  ASSUME BuffersInv, NEW f \in AnyFunction, NEW cb \in Nat, NEW t \in Worded, NEW wide \in BOOLEAN,
         f.short => cb <= MaxShort, ReturnsText(f, cb, t, wide)
  PROVE  BuffersInv'
<1>1. /\ odd' = Oddities(f, cb, wide) /\ in' = NoIn /\ unicode_driver' = unicode_driver
      /\ out' = IF Told(f.bytes, f.short, cb, wide) < 0 THEN NoOut ELSE TextAnswer(f, cb, t, wide)
  BY DEF ReturnsText, host
<1>2. Told(f.bytes, f.short, cb, wide) \in Int
  <2>1. cb \in Int /\ cb \div Width \in Nat /\ cb * Width \in Nat
    BY BufferAssumption, Scaling
  <2> QED BY <2>1, Shortened DEF Told
<1>3. OutFits(out', odd')
  <2>1. CASE Told(f.bytes, f.short, cb, wide) < 0
    BY <1>1, <2>1, NothingFits
  <2>2. CASE ~(Told(f.bytes, f.short, cb, wide) < 0)
    <3>1. Told(f.bytes, f.short, cb, wide) >= 0
      BY <1>2, <2>2
    <3> QED BY <1>1, <2>2, <3>1, AnswerFits DEF BuffersInv
  <2> QED BY <2>1, <2>2
<1> QED BY <1>1, <1>3, NothingFits DEF BuffersInv

(* A call that answers nothing, or of which nothing is claimed.            *)
LEMMA ClaimsNothing ==
  ASSUME BuffersInv, UNCHANGED host, in' = NoIn,
         out' = NoOut \/ (~(odd' \subseteq {"list"}) /\ odd' \cap Exceptions # {})
  PROVE  BuffersInv'
<1>1. InFits(in', odd')
  BY NothingFits
<1>2. OutFits(out', odd')
  BY NothingFits DEF OutFits
<1> QED BY <1>1, <1>2 DEF BuffersInv, host

(***************************************************************************)
(* The functions that answer a text.                                       *)
(***************************************************************************)
LEMMA RoomsAre ==
  /\ Rooms \subseteq Nat /\ Lengths \subseteq Nat /\ ShortRooms \subseteq Nat
  /\ \A cb \in ShortRooms : cb <= MaxShort
  /\ Wordings \subseteq Worded /\ \A n \in Nat : AllAscii(n) \in Worded
<1>1. Rooms \subseteq Nat /\ Lengths \subseteq Nat /\ Leading \subseteq Nat
  BY BufferAssumption
<1>2. ShortRooms \subseteq Nat /\ \A cb \in ShortRooms : cb <= MaxShort
  BY <1>1 DEF ShortRooms
<1>3. \A n \in Nat : AllAscii(n) \in Worded
  BY DEF AllAscii, Text, Worded
<1>4. Wordings \subseteq Worded
  <2>1. ASSUME NEW t \in [length : Lengths, ascii : Leading], t.ascii < t.length PROVE t \in Worded
    <3>1. t \in [length : Nat, ascii : Nat] /\ t.length \in Nat /\ t.ascii \in Nat
      BY <1>1
    <3> QED BY <2>1, <3>1 DEF Worded
  <2>2. \A n \in Lengths : AllAscii(n) \in Worded
    BY <1>1, <1>3
  <2> QED BY <2>1, <2>2 DEF Wordings
<1> QED BY <1>1, <1>2, <1>3, <1>4

LEMMA AnswersKeep ==
  ASSUME BuffersInv,
         SQLGetCursorName \/ SQLDescribeCol \/ SQLColAttributes \/ SQLGetDescField \/ SQLGetDescRec
  PROVE  BuffersInv'
<1> USE RoomsAre
<1>0. Unit(unicode_driver) \in Nat
  BY Units DEF BuffersInv
<1>1. CASE SQLGetCursorName
  BY <1>0, <1>1, ReturnsKeeps, IsFunction DEF SQLGetCursorName, AnyShortText, GetCursorName_Internal
<1>2. CASE SQLDescribeCol
  BY <1>2, ReturnsKeeps, IsFunction DEF SQLDescribeCol, AnyShortText, DescribeCol_Internal
<1>3. CASE SQLColAttributes
  BY <1>3, ReturnsKeeps, IsFunction DEF SQLColAttributes, AnyShortText, ColAttributes_Internal
<1>4. CASE SQLGetDescField
  BY <1>4, ReturnsKeeps, IsFunction DEF SQLGetDescField, AnyText, GetDescField_Internal
<1>5. CASE SQLGetDescRec
  BY <1>5, ReturnsKeeps, IsFunction DEF SQLGetDescRec, AnyShortText, GetDescRec_Internal
<1> QED BY <1>1, <1>2, <1>3, <1>4, <1>5

LEMMA ColAttributeKeeps == ASSUME BuffersInv, SQLColAttribute PROVE BuffersInv'
<1> USE RoomsAre
<1>1. PICK cb \in ShortRooms, t \in Wordings, wide \in BOOLEAN :
        \/ ColAttribute_Internal(cb, t, wide)
        \/ ColAttributeOfOlder(cb, t, wide)
        \/ ColAttributeSuspended(cb, wide)
        \/ ColAttributeOfColumnZero(cb, wide)
  BY DEF SQLColAttribute
<1>2. CASE ColAttribute_Internal(cb, t, wide) \/ ColAttributeOfOlder(cb, t, wide)
  BY <1>2, ReturnsKeeps, IsFunction DEF ColAttribute_Internal, ColAttributeOfOlder, ColumnText
<1>3. CASE ColAttributeSuspended(cb, wide)
  BY <1>3, ClaimsNothing DEF ColAttributeSuspended
<1>4. CASE ColAttributeOfColumnZero(cb, wide)
  BY <1>4, ClaimsNothing DEF ColAttributeOfColumnZero, Exceptions
<1> QED BY <1>1, <1>2, <1>3, <1>4

LEMMA GetConnectAttrKeeps == ASSUME BuffersInv, SQLGetConnectAttr PROVE BuffersInv'
<1> USE RoomsAre
<1>1. PICK cb \in Rooms, t \in Wordings, wide \in BOOLEAN : GetConnectAttr_Internal(cb, t, wide)
  BY DEF SQLGetConnectAttr, AnyText
<1>2. CASE driver3
  BY <1>1, <1>2, ReturnsKeeps, IsFunction DEF GetConnectAttr_Internal
<1>3. CASE ~driver3
  BY <1>1, <1>3, ClaimsNothing DEF GetConnectAttr_Internal, Exceptions
<1> QED BY <1>2, <1>3

(* SQLGetInfo's own texts, where they are the application's width.         *)
OwnText(o, n, cb, wide) ==
  LET k == Fitted(n, Room(TRUE, cb, wide)) IN
  /\ o.text = n /\ o.sure = n /\ o.room = Room(TRUE, cb, wide) /\ o.got = k /\ o.unit = Unit(wide)
  /\ o.reported = IF k = NotCopied THEN 0 ELSE k * Unit(wide)
  /\ o.told = 0 /\ o.block = 0 /\ o.copied = Copied(k, wide) /\ o.buffer = cb

LEMMA OwnTextFits ==
  ASSUME NEW o, NEW n \in Nat, NEW cb \in Nat, NEW wide \in BOOLEAN, OwnText(o, n, cb, wide)
  PROVE  /\ o.told <= o.block /\ o.copied <= o.buffer
         /\ Room(TRUE, cb, wide) > 0 => OutFits(o, {})
<1> DEFINE r == Room(TRUE, cb, wide)
           u == Unit(wide)
           k == Fitted(n, r)
           q == Copied(k, wide)
<1>0. /\ o.text = n /\ o.sure = n /\ o.room = r /\ o.got = k /\ o.unit = u /\ o.told = 0 /\ o.block = 0
      /\ o.reported = IF k = NotCopied THEN 0 ELSE k * u
      /\ o.copied = q /\ o.buffer = cb
  BY DEF OwnText
<1>1. r \in Nat /\ u \in Nat /\ r * u \in Nat /\ r * u <= cb
  BY Units, Scaling DEF Room
<1>2. r > 0 => k = Least(n, r - 1) /\ k # NotCopied
  <2> HIDE DEF r
  <2> QED BY <1>1, Fits DEF NotCopied
<1>3. q \in Nat /\ q <= r * u
  <2> HIDE DEF r
  <2>1. k = NotCopied \/ k \in 0 .. r - 1
    BY <1>1, Fits
  <2> HIDE DEF k
  <2> QED BY <1>1, <2>1, CopyFits
<1>4. n < r => k = n
  <2> HIDE DEF r, k
  <2> QED BY <1>1, <1>2 DEF Least
<1> HIDE DEF r, u, k, q
<1>5. q <= cb
  <2> DEFINE p == r * u
  <2>1. p \in Nat /\ q <= p /\ p <= cb
    BY <1>1, <1>3
  <2> HIDE DEF p
  <2> QED BY <1>3, <2>1
<1>6. o.told <= o.block /\ o.copied <= o.buffer
  BY <1>0, <1>5
<1>7. ASSUME r > 0 PROVE OutFits(o, {})
  <2>1. o.got = Least(o.text, o.room - 1) /\ Least(o.text, o.room - 1) \in Int
    BY <1>0, <1>1, <1>2, <1>7 DEF Least
  <2>2. o.text < o.room => o.reported = o.text * o.unit
    BY <1>0, <1>2, <1>4, <1>7
  <2> QED BY <1>0, <1>6, <2>1, <2>2 DEF OutFits
<1> QED BY <1>6, <1>7 DEF r

LEMMA GetInfoKeeps == ASSUME BuffersInv, SQLGetInfo PROVE BuffersInv'
<1> USE RoomsAre
<1>1. PICK cb \in ShortRooms, wide \in BOOLEAN :
        \/ \E t \in Wordings : GetInfo_Internal(cb, t, wide)
        \/ \E n \in Lengths : GetInfoVersion(cb, n, wide)
        \/ GetInfoMissing(wide) \/ GetInfoDriverVersion(cb, wide)
  BY DEF SQLGetInfo
<1>2. ASSUME NEW t \in Wordings, GetInfo_Internal(cb, t, wide) PROVE BuffersInv'
  BY <1>2, ReturnsKeeps, IsFunction DEF GetInfo_Internal, InfoText
<1>3. CASE GetInfoMissing(wide)
  BY <1>3, ClaimsNothing DEF GetInfoMissing
<1>4. ASSUME NEW n \in Lengths, GetInfoVersion(cb, n, wide) PROVE BuffersInv'
  <2>1. CASE wide \/ cb = 0
    BY <1>4, <2>1, ClaimsNothing DEF GetInfoVersion, Exceptions
  <2>2. CASE ~(wide \/ cb = 0)
    <3>1. Room(TRUE, cb, wide) = cb /\ Unit(wide) = 1 /\ cb \in Nat /\ cb > 0
      BY <2>2, ByOne DEF Room, Unit
    <3>2. Fitted(n, cb) # NotCopied /\ Fitted(n, cb) * 1 = Fitted(n, cb)
      BY <3>1, Fits DEF NotCopied
    <3>3. odd' = {} /\ in' = NoIn /\ UNCHANGED host
      BY <1>4, <2>2 DEF GetInfoVersion
    <3>4. OwnText(out', n, cb, wide)
      BY <1>4, <3>1, <3>2 DEF GetInfoVersion, OwnText
    <3>5. OutFits(out', {})
      BY <3>1, <3>4, OwnTextFits
    <3> QED BY <3>3, <3>5, NothingFits DEF BuffersInv, host
  <2> QED BY <2>1, <2>2
<1>5. CASE GetInfoDriverVersion(cb, wide)
  <2>0. in' = NoIn /\ UNCHANGED host
    BY <1>5 DEF GetInfoDriverVersion
  <2>1. CASE Converts(wide)
    BY <1>5, <2>0, <2>1, ClaimsNothing DEF GetInfoDriverVersion, Exceptions
  <2>2. CASE ~Converts(wide)
    <3> DEFINE r == Room(TRUE, cb, wide)
    <3>1. Told(TRUE, TRUE, cb, wide) = cb /\ (IF wide THEN cb \div Width ELSE cb) = r
      BY <2>2, ByOne DEF Told, Room, Unit
    <3>2. odd' = Oddities(InfoText, cb, wide) /\ OwnText(out', 5, cb, wide)
      BY <1>5, <2>2, <3>1 DEF GetInfoDriverVersion, OwnText
    <3>3. r \in Nat /\ (r = 0 => "noroom" \in odd') /\ (r # 0 => odd' = {})
      <4>1. r \in Nat
        BY Units, Scaling DEF Room
      <4>2. odd' = IF r = 0 THEN {"noroom"} ELSE {}
        BY <2>2, <3>2 DEF Oddities, InfoText, Function
      <4> HIDE DEF r
      <4> QED BY <4>1, <4>2
    <3>4. /\ out'.told <= out'.block /\ out'.copied <= out'.buffer
          /\ r > 0 => OutFits(out', {})
      BY <3>2, OwnTextFits
    <3>5. CASE r > 0
      <4>1. odd' = {}
        <5> HIDE DEF r
        <5> QED BY <3>3, <3>5
      <4> QED BY <2>0, <3>4, <3>5, <4>1, NothingFits DEF BuffersInv, host
    <3>6. CASE r = 0
      <4>1. OutFits(out', odd')
        BY <3>3, <3>4, <3>6 DEF OutFits
      <4> QED BY <2>0, <4>1, NothingFits DEF BuffersInv, host
    <3>7. r = 0 \/ r > 0
      <4> HIDE DEF r
      <4> QED BY <3>3
    <3> QED BY <3>5, <3>6, <3>7
  <2> QED BY <2>1, <2>2
<1> QED BY <1>1, <1>2, <1>3, <1>4, <1>5

(***************************************************************************)
(* The functions that hand a text over, and those that also answer one.    *)
(***************************************************************************)
LEMMA Converting ==
  ASSUME NEW l \in Nat, NEW t \in Worded, l <= t.length, NEW wide \in BOOLEAN,
         NEW size \in Nat, NEW to \in BOOLEAN, size >= l, t.ascii >= l => size = l
  PROVE  /\ Converted(t, t.length, size, to) >= Least(t.ascii, l)
         /\ t.ascii >= l => Converted(t, t.length, size, to) = l
<1> DEFINE e == Least(t.ascii, l)
<1>1. t.ascii \in Nat /\ t.length \in Nat /\ t.ascii <= t.length
  BY DEF Worded
<1>2. e \in Int /\ e <= t.ascii /\ e <= t.length /\ e <= size
  BY <1>1 DEF Least
<1>3. Converted(t, t.length, size, to) >= e
  <2> HIDE DEF e
  <2> QED BY <1>1, <1>2, ConvertedKeeps
<1>4. ASSUME t.ascii >= l PROVE Converted(t, t.length, size, to) = l
  <2>1. size = l /\ (to \/ WholeIn(t, size) = l)
    BY <1>1, <1>4, WholeCharacters
  <2>2. (IF to THEN size ELSE WholeIn(t, size)) = l
    BY <2>1
  <2>3. Least(l, IF locale = "C" THEN Least(t.ascii, t.length) ELSE t.length) = l
    BY <1>1, <1>4 DEF Least
  <2> QED BY <2>2, <2>3 DEF Converted
<1> QED BY <1>3, <1>4

(* The size told to the conversion by a function that looks at the length. *)
LEMMA TakenBack ==
  ASSUME NEW bytes \in BOOLEAN, NEW l \in Nat, NEW t \in Worded, NEW wide \in BOOLEAN
  PROVE  LET s == Taken(bytes, IF bytes THEN InBytes(t, l, wide) ELSE InUnits(t, l, wide), wide)
         IN s \in Nat /\ s >= l /\ (t.ascii >= l => s = l)
<1>1. CASE wide
  <2>1. (l * Width) \div Width = l
    BY Scaling, BufferAssumption
  <2> QED BY <1>1, <2>1 DEF Taken, InBytes, InUnits
<1>2. CASE ~wide
  <2>1. t.ascii \in Nat
    BY DEF Worded
  <2> QED BY <1>2, <2>1, Narrowed DEF Taken, InBytes, InUnits
<1> QED BY <1>1, <1>2

LEMMA LookedHanded ==
  ASSUME NEW bytes \in BOOLEAN, NEW l \in Nat, NEW t \in Worded, l <= t.length,
         NEW wide \in BOOLEAN, NEW times, Hands(bytes, TRUE, l, t, wide, times),
         NEW oddities, times = 1 \/ ~Converts(wide) \/ oddities # {}
  PROVE  InFits(in', oddities)
<1> DEFINE s == Taken(bytes, IF bytes THEN InBytes(t, l, wide) ELSE InUnits(t, l, wide), wide)
           h == Converted(t, t.length, s, ~wide)
<1>1. /\ in'.given = l /\ in'.times = (IF Converts(wide) THEN times ELSE 0)
      /\ in'.sure = Least(t.ascii, l) /\ in'.handed = IF Converts(wide) THEN h ELSE l
  BY DEF Hands
<1>2. s \in Nat /\ s >= l /\ (t.ascii >= l => s = l)
  BY TakenBack
<1> HIDE DEF s
<1>3. h >= Least(t.ascii, l) /\ (t.ascii >= l => h = l)
  BY <1>2, Converting
<1> HIDE DEF h
<1>4. t.ascii \in Nat
  BY DEF Worded
<1> QED BY <1>1, <1>3, <1>4 DEF InFits, Least

(* One that does not takes the whole text.                                 *)
LEMMA WholeHanded ==
  ASSUME NEW l \in Nat, NEW t \in Worded, l <= t.length,
         NEW wide \in BOOLEAN, Hands(FALSE, FALSE, l, t, wide, 1),
         NEW oddities, l # t.length => oddities # {}
  PROVE  InFits(in', oddities)
<1> DEFINE s == InUnits(t, t.length, wide)
           h == Converted(t, t.length, s, ~wide)
<1>1. /\ in'.given = l /\ in'.times = (IF Converts(wide) THEN 1 ELSE 0)
      /\ in'.sure = Least(t.ascii, l) /\ in'.handed = IF Converts(wide) THEN h ELSE l
  BY DEF Hands
<1>2. t.length \in Nat /\ t.ascii \in Nat /\ t.ascii <= t.length
  BY DEF Worded
<1>3. s \in Nat /\ s >= t.length /\ (t.ascii >= t.length => s = t.length)
  BY <1>2, InUnitsIs
<1> HIDE DEF s
<1>4. h >= Least(t.ascii, t.length) /\ (t.ascii >= t.length => h = t.length)
  <2>1. t.length <= t.length /\ (~wide) \in BOOLEAN
    BY <1>2
  <2> QED BY <1>2, <1>3, <2>1, Converting
<1> HIDE DEF h
<1> QED BY <1>1, <1>2, <1>4 DEF InFits, Least

LEMMA GivesKeep ==
  ASSUME BuffersInv, SQLSetCursorName \/ SQLSetDescField \/ SQLSetConnectAttr
  PROVE  BuffersInv'
<1> USE RoomsAre
<1>1. ASSUME InFits(in', odd'), out' = NoOut, UNCHANGED host PROVE BuffersInv'
  BY <1>1, NothingFits DEF BuffersInv, host
<1>2. CASE SQLSetCursorName
  <2>1. PICK l \in Lengths, t \in Wordings, wide \in BOOLEAN : SetCursorName_Internal(l, t, wide)
    BY <1>2 DEF SQLSetCursorName
  <2>2. InFits(in', odd') /\ out' = NoOut /\ UNCHANGED host
    BY <2>1, LookedHanded DEF SetCursorName_Internal, Gives
  <2> QED BY <1>1, <2>2
<1>3. CASE SQLSetDescField
  <2>1. PICK l \in Lengths, t \in Wordings, wide \in BOOLEAN : SetDescField_Internal(l, t, wide)
    BY <1>3 DEF SQLSetDescField
  <2>2. InFits(in', odd') /\ out' = NoOut /\ UNCHANGED host
    BY <2>1, LookedHanded DEF SetDescField_Internal, Gives
  <2> QED BY <1>1, <2>2
<1>4. CASE SQLSetConnectAttr
  <2>1. PICK l \in Lengths, t \in Wordings, wide \in BOOLEAN : SetConnectAttr_Internal(l, t, wide)
    BY <1>4 DEF SQLSetConnectAttr
  <2>2. InFits(in', odd') /\ out' = NoOut /\ UNCHANGED host
    BY <2>1, LookedHanded DEF SetConnectAttr_Internal, Gives
  <2> QED BY <1>1, <2>2
<1> QED BY <1>2, <1>3, <1>4

(* The functions that hand and answer count characters, so that no length  *)
(* told is negative.                                                       *)
LEMMA CharactersFit ==
  ASSUME unicode_driver \in BOOLEAN, NEW spare \in Nat, NEW own \in BOOLEAN, NEW cb \in Nat,
         NEW a \in Worded, NEW wide \in BOOLEAN
  PROVE  OutFits(TextAnswer(Function(FALSE, FALSE, spare, own), cb, a, wide),
                 Oddities(Function(FALSE, FALSE, spare, own), cb, wide))
<1> DEFINE f == Function(FALSE, FALSE, spare, own)
<1>1. f \in AnyFunction /\ f.short = FALSE /\ f.bytes = FALSE
  BY IsFunction DEF Function
<1>2. Told(f.bytes, f.short, cb, wide) = cb
  BY <1>1 DEF Told
<1> HIDE DEF f
<1>3. OutFits(TextAnswer(f, cb, a, wide), Oddities(f, cb, wide))
  BY <1>1, <1>2, AnswerFits
<1> QED BY <1>3 DEF f

LEMMA ExchangesKeep ==
  ASSUME BuffersInv, SQLNativeSql \/ SQLBrowseConnect
  PROVE  BuffersInv'
<1> USE RoomsAre
<1>1. ASSUME NEW spare \in Nat, NEW l \in Lengths, NEW t \in Wordings, NEW cb \in Nat,
             NEW a \in Wordings, NEW wide \in BOOLEAN,
             Exchanges(Function(FALSE, FALSE, spare, TRUE), FALSE, l, t, cb, a, wide)
      PROVE  BuffersInv'
  <2> DEFINE f == Function(FALSE, FALSE, spare, TRUE)
             odd1 == Oddities(f, cb, wide)
  <2>1. /\ Hands(FALSE, FALSE, l, t, wide, 1) /\ UNCHANGED host /\ l <= t.length
        /\ out' = TextAnswer(f, cb, a, wide)
        /\ odd' = odd1 \cup (IF l # t.length THEN {"length"} ELSE {})
    BY <1>1 DEF Exchanges
  <2>2. OutFits(out', odd1)
    BY <2>1, CharactersFit DEF BuffersInv
  <2> HIDE DEF f, odd1
  <2>3. OutFits(out', odd')
    <3>1. odd' \subseteq {"list"} => odd1 \subseteq {"list"}
      BY <2>1
    <3>2. odd' = {} => odd1 = {}
      BY <2>1
    <3>3. odd' \cap Exceptions = {} => odd1 \cap Exceptions = {}
      BY <2>1
    <3> QED BY <2>2, <3>1, <3>2, <3>3, Zenon DEF OutFits
  <2>4. InFits(in', odd')
    <3>1. l # t.length => odd' # {}
      BY <2>1
    <3> QED BY <2>1, <3>1, WholeHanded
  <2> QED BY <2>1, <2>3, <2>4 DEF BuffersInv, host
<1>2. CASE SQLNativeSql
  BY <1>1, <1>2 DEF SQLNativeSql, NativeSql_Internal
<1>3. CASE SQLBrowseConnect
  <2>1. Unit(unicode_driver) \in Nat
    BY Units DEF BuffersInv
  <2> QED BY <1>1, <1>3, <2>1 DEF SQLBrowseConnect, BrowseConnect_Internal
<1> QED BY <1>2, <1>3

LEMMA DriverConnectKeeps == ASSUME BuffersInv, SQLDriverConnect PROVE BuffersInv'
<1> USE RoomsAre
<1> DEFINE f == Function(FALSE, FALSE, 1, FALSE)
<1>2. ASSUME NEW l \in Lengths, NEW t \in Wordings, NEW wide \in BOOLEAN,
             Hands(FALSE, TRUE, l, t, wide, 1), l <= t.length
      PROVE  InFits(in', odd')
  BY <1>2, LookedHanded
<1>3. ASSUME NEW c \in Nat, NEW b \in Worded, NEW wide \in BOOLEAN
      PROVE  LET o == TextAnswer(f, c, b, wide) IN
             /\ OutFits(o, Oddities(f, c, wide))
             /\ o.text = b.length /\ o.sure = b.ascii /\ o.room = c /\ o.buffer = c * Unit(wide)
             /\ o.unit = 1 /\ o.told = c * Unit(unicode_driver)
             /\ DOMAIN o = {"text", "sure", "room", "got", "reported", "unit", "told", "block",
                            "copied", "buffer"}
  <2>1. OutFits(TextAnswer(f, c, b, wide), Oddities(f, c, wide))
    BY <1>3, CharactersFit DEF BuffersInv
  <2> QED BY <2>1 DEF TextAnswer, Function, Told, Room, Bytes, Measure
<1>4. \A c \in Nat, wide \in BOOLEAN :
        /\ Oddities(f, c, wide) \cap Exceptions = {}
        /\ c > 0 /\ c <= MaxShort => Oddities(f, c, wide) = {}
  BY DEF Oddities, Function, Room, Exceptions, MaxShort
<1> HIDE DEF f
<1>5. ASSUME NEW l \in Lengths, NEW t \in Wordings, NEW a \in Wordings, NEW cb \in ShortRooms,
             NEW wide \in BOOLEAN, DriverConnect_Internal(l, t, cb, a, wide)
      PROVE  BuffersInv'
  <2> DEFINE o == TextAnswer(f, cb, a, wide)
  <2>1. /\ Hands(FALSE, TRUE, l, t, wide, 1) /\ l <= t.length /\ odd' = Oddities(f, cb, wide)
        /\ UNCHANGED host
        /\ out' = [o EXCEPT !.reported = InBytes(a, o.got, wide), !.unit = Unit(wide)]
    BY <1>5 DEF DriverConnect_Internal, f
  <2>2. /\ OutFits(o, odd') /\ o.text = a.length /\ o.sure = a.ascii /\ o.room = cb
        /\ DOMAIN o = {"text", "sure", "room", "got", "reported", "unit", "told", "block",
                       "copied", "buffer"}
    BY <1>3, <2>1
  <2> HIDE DEF o
  <2>3. /\ out'.told = o.told /\ out'.block = o.block /\ out'.copied = o.copied
        /\ out'.buffer = o.buffer /\ out'.got = o.got /\ out'.text = a.length /\ out'.room = cb
        /\ out'.sure = a.ascii
        /\ out'.reported = InBytes(a, o.got, wide) /\ out'.unit = Unit(wide)
    BY <2>1, <2>2
  <2>4. ASSUME odd' = {}, a.length < cb, a.ascii = a.length
        PROVE  InBytes(a, o.got, wide) = a.length * Unit(wide)
    <3>1. cb \in Nat /\ a.length \in Nat /\ a \in Worded
      BY DEF Worded
    <3>2. o.got = Least(a.length, cb - 1)
      BY <2>2, <2>4 DEF OutFits
    <3>3. o.got = a.length
      BY <2>4, <3>1, <3>2 DEF Least
    <3>4. Narrow(a, a.length) = a.length /\ a.length * 1 = a.length
      <4>1. a.length <= a.ascii
        BY <2>4, <3>1
      <4> QED BY <3>1, <4>1, Narrowed, ByOne
    <3> QED BY <3>3, <3>4 DEF InBytes, Unit
  <2>5. OutFits(out', odd')
    BY <2>2, <2>3, <2>4 DEF OutFits
  <2> QED BY <1>2, <2>1, <2>5 DEF BuffersInv, host
<1>6. ASSUME NEW l \in Lengths, NEW t \in Wordings, NEW a \in Wordings,
             NEW wide \in BOOLEAN, DriverConnectNoBuffer(l, t, a, wide)
      PROVE  BuffersInv'
  <2> DEFINE told == OwnBuffer * Width
             o    == TextAnswer(f, told, a, wide)
  <2>1. /\ Hands(FALSE, TRUE, l, t, wide, 1) /\ l <= t.length /\ UNCHANGED host
        /\ odd' = IF wide /\ ~Converts(wide) THEN {"own_buffer"} ELSE {}
        /\ out' = [o EXCEPT !.copied = 0, !.reported = 0, !.got = 0, !.text = 0, !.sure = 0, !.buffer = 0,
                            !.block = IF Converts(wide) THEN @ ELSE OwnBuffer * Width]
    BY <1>6 DEF DriverConnectNoBuffer, f
  <2>2. told \in Nat \ {0}
    BY BufferAssumption DEF OwnBuffer
  <2>3. /\ OutFits(o, Oddities(f, told, wide)) /\ o.room = told /\ o.unit = 1
        /\ o.told = told * Unit(unicode_driver)
        /\ DOMAIN o = {"text", "sure", "room", "got", "reported", "unit", "told", "block",
                       "copied", "buffer"}
    BY <1>3, <2>2
  <2>4. o.told <= o.block
    BY <1>4, <2>2, <2>3 DEF OutFits
  <2> HIDE DEF o
  <2>5. /\ out'.told = o.told /\ out'.block = (IF Converts(wide) THEN o.block ELSE told)
        /\ out'.copied = 0 /\ out'.buffer = 0 /\ out'.got = 0 /\ out'.text = 0 /\ out'.sure = 0
        /\ out'.room = told /\ out'.reported = 0 /\ out'.unit = 1
    BY <2>1, <2>3
  <2>6. ~(wide /\ ~Converts(wide)) => out'.told <= out'.block
    <3>1. CASE Converts(wide)
      BY <2>4, <2>5, <3>1
    <3>2. CASE ~Converts(wide) /\ ~wide
      <4>1. Unit(unicode_driver) = 1
        BY <3>2 DEF Converts, Unit
      <4>2. o.told = told
        BY <2>2, <2>3, <4>1, ByOne
      <4> QED BY <2>2, <2>5, <3>2, <4>2
    <3> QED BY <3>1, <3>2
  <2> HIDE DEF told
  <2>7. OutFits(out', odd')
    <3>1. Least(0, told - 1) = 0
      BY <2>2 DEF Least
    <3>2. CASE wide /\ ~Converts(wide)
      BY <2>1, <3>2 DEF OutFits, Exceptions
    <3>3. CASE ~(wide /\ ~Converts(wide))
      <4>1. /\ out'.got = Least(out'.text, out'.room - 1) /\ out'.got = Least(out'.sure, out'.room - 1)
            /\ out'.reported = out'.text * out'.unit /\ out'.got >= out'.got
        BY <2>5, <3>1
      <4>2. out'.told <= out'.block /\ out'.copied <= out'.buffer
        BY <2>5, <2>6, <3>3
      <4> QED BY <4>1, <4>2 DEF OutFits
    <3> QED BY <3>2, <3>3
  <2> QED BY <1>2, <2>1, <2>7 DEF BuffersInv, host
<1>7. ASSUME NEW cb \in ShortRooms, NEW m \in Lengths, NEW n \in Lengths,
             NEW wide \in BOOLEAN, DriverConnectFileDsn(cb, m, n, wide)
      PROVE  BuffersInv'
  <2> DEFINE o == TextAnswer(f, cb, AllAscii(m), wide)
  <2>1. in' = NoIn /\ cb > 0 /\ UNCHANGED host /\ odd' = IF wide THEN {"filedsn"} ELSE {}
    BY <1>7 DEF DriverConnectFileDsn
  <2>2. CASE wide
    BY <2>1, <2>2, ClaimsNothing DEF Exceptions
  <2>3. CASE ~wide
    <3> DEFINE k == Least(o.got + n, cb - 1)
    <3>1. out' = [o EXCEPT !.text = m + n, !.sure = m + n, !.got = k, !.copied = Copied(k, wide),
                           !.reported = k * Unit(wide)]
      BY <1>7, <2>3 DEF DriverConnectFileDsn, f
    <3>2. /\ OutFits(o, Oddities(f, cb, wide)) /\ o.room = cb /\ o.unit = 1
          /\ o.text = m /\ o.sure = m /\ o.buffer = cb * Unit(wide)
          /\ DOMAIN o = {"text", "sure", "room", "got", "reported", "unit", "told", "block",
                         "copied", "buffer"}
      <4>1. AllAscii(m) \in Worded /\ AllAscii(m).length = m /\ AllAscii(m).ascii = m
        BY DEF AllAscii, Text
      <4> QED BY <1>3, <4>1
    <3>3. o.told <= o.block /\ o.got = Least(m, cb - 1) /\ Unit(wide) = 1 /\ o.buffer = cb
      <4>1. Oddities(f, cb, wide) = {}
        BY <1>4, <2>1
      <4>2. o.told <= o.block /\ o.got = Least(o.text, o.room - 1)
        <5>1. OutFits(o, {})
          BY <3>2, <4>1
        <5> HIDE DEF o
        <5> QED BY <3>2, <5>1 DEF OutFits
      <4>3. Unit(wide) = 1 /\ cb * 1 = cb
        BY <2>3, ByOne DEF Unit
      <4> QED BY <3>2, <4>2, <4>3
    <3> HIDE DEF o
    <3>4. k = Least(m + n, cb - 1) /\ k \in 0 .. cb - 1
      <4>1. cb \in Nat /\ m \in Nat /\ n \in Nat /\ cb > 0
        BY <2>1
      <4> QED BY <3>3, <4>1 DEF Least
    <3>5. Copied(k, wide) = k + 1 /\ k * Unit(wide) = k
      BY <3>3, <3>4 DEF Copied, NotCopied
    <3> HIDE DEF k
    <3>6. /\ out'.told = o.told /\ out'.block = o.block /\ out'.copied = k + 1 /\ out'.buffer = cb
          /\ out'.got = k /\ out'.text = m + n /\ out'.sure = m + n /\ out'.room = cb
          /\ out'.reported = k /\ out'.unit = 1
      BY <3>1, <3>2, <3>3, <3>5
    <3>7. out'.copied <= out'.buffer
      <4>1. k \in 0 .. cb - 1 /\ cb \in Nat
        BY <2>1, <3>4
      <4>2. k + 1 <= cb
        BY <4>1
      <4> QED BY <4>2, <3>6
    <3>8. m + n < cb => k = m + n /\ k = (m + n) * 1
      BY <3>4 DEF Least
    <3>9. OutFits(out', odd')
      BY <3>3, <3>4, <3>6, <3>7, <3>8 DEF OutFits
    <3> QED BY <2>1, <3>9, NothingFits DEF BuffersInv, host
  <2> QED BY <2>2, <2>3
<1> QED BY <1>5, <1>6, <1>7 DEF SQLDriverConnect

(***************************************************************************)
(* Every call of the driver manager, for any width of a wide character and *)
(* any lengths.                                                            *)
(***************************************************************************)
LEMMA BuffersAlways == BuffersSpec => []BuffersInv
<1>1. BuffersInit => BuffersInv
  BY NothingFits DEF BuffersInit, BuffersInv
<1>2. ASSUME BuffersInv, DriverCall PROVE BuffersInv'
  BY <1>2, AnswersKeep, ColAttributeKeeps, GetConnectAttrKeeps, GetInfoKeeps, GivesKeep,
     ExchangesKeep, DriverConnectKeeps DEF DriverCall
<1>3. ASSUME BuffersInv, LookedAt PROVE BuffersInv'
  BY <1>3, ClaimsNothing DEF LookedAt
<1>4. ASSUME BuffersInv, UNCHANGED buffersVars PROVE BuffersInv'
  BY <1>4 DEF BuffersInv, buffersVars, host, OutFits, InFits
<1>5. BuffersInv /\ [BuffersNext]_buffersVars => BuffersInv'
  BY <1>2, <1>3, <1>4 DEF BuffersNext
<1> QED BY <1>1, <1>5, PTL DEF BuffersSpec

(* What the driver is told fits its block, and what is copied out fits the *)
(* application's buffer.                                                   *)
THEOREM InsideTheBuffersHolds == BuffersSpec => []InsideTheBuffers
<1>1. BuffersInv => InsideTheBuffers
  BY DEF BuffersInv, OutFits, Exceptions, InsideTheBuffers
<1> QED BY <1>1, BuffersAlways, PTL

(* The application reads as much of a text as its buffer holds: all of an  *)
(* ASCII text, the leading ASCII characters of another (TextAnswer, with   *)
(* the SQLSMALLINT of the copies).                                         *)
THEOREM WholeTextReadHolds == BuffersSpec => []WholeTextRead
<1>1. BuffersInv => WholeTextRead
  BY DEF BuffersInv, OutFits, WholeTextRead
<1> QED BY <1>1, BuffersAlways, PTL

(* The driver is handed the characters the application passed: all of an   *)
(* ASCII text, at least the leading ASCII characters of another (Hands,    *)
(* Converted).                                                             *)
THEOREM TextHandedHolds == BuffersSpec => []TextHanded
<1>1. BuffersInv => TextHanded
  BY DEF BuffersInv, InFits, TextHanded
<1> QED BY <1>1, BuffersAlways, PTL

(* An ASCII text that fits is reported with its length (Reported).         *)
THEOREM LengthReportedHolds == BuffersSpec => []LengthReported
<1>1. BuffersInv => LengthReported
  BY DEF BuffersInv, OutFits, LengthReported
<1> QED BY <1>1, BuffersAlways, PTL

-----------------------------------------------------------------------------
(* The attributes and the transactions of the connections.                  *)

(* A handle has a connection of the driver exactly when it is connected,   *)
(* and had a statement if it has one.                                      *)
Linked ==
  \A h \in Handles :
    /\ Connected(h) <=> link[h] \in Conns
    /\ stmts[h] # "none" => state[h] = "hstmt"

(* A connection of the driver belongs to one handle or to one entry of the *)
(* pool.                                                                   *)
Apart ==
  /\ \A g, h \in Handles : Connected(g) /\ link[g] = link[h] => g = h
  /\ \A h \in Handles, p \in pool : link[h] # p.conn
  /\ \A p, q \in pool : p.conn = q.conn => p = q

(* What is recorded of connection c is what its driver was given.          *)
Recorded(c, o) == \A a \in Attrs : <<c, a>> \notin spoiled => val[c][a] = o[a]

(* What the application set is what handle h records, of the attributes    *)
(* that were given again if the connection came from the pool.             *)
Kept(h) ==
  \A a \in Attrs :
    <<link[h], a>> \notin spoiled /\ (cp[h] => a \in Renewed) =>
      opts[h][a] = asked[h][a] \/ (a = "driver" /\ h \in lost)

(* Before the connection it is that of all attributes, but for one of the  *)
(* driver's that was not recorded.                                         *)
Noted(h) == \A a \in Attrs : opts[h][a] = asked[h][a] \/ (a = "driver" /\ h \in lost)

Settings ==
  /\ \A h \in Handles : IF Connected(h) THEN Recorded(link[h], opts[h]) /\ Kept(h)
                        ELSE Noted(h)
  /\ \A p \in pool : Recorded(p.conn, p.opts)

(* A transaction of an application is open only on its own connection, and *)
(* only once it had a statement there.                                     *)
Opened ==
  /\ \A h \in Handles : state[h] = "connected" => tx[link[h]] # h
  /\ \A p \in pool : tx[p.conn] \notin Handles

OptionsInv == OptionsTypeOK /\ Linked /\ Apart /\ Settings /\ Opened

USE ConnAssumption, SettingAssumption DEF Connected

LEMMA NoTransactTyped ==
  NoTransact \in [scope : SUBSET Handles, failed : SUBSET Handles, ok : BOOLEAN]
BY DEF NoTransact

LEMMA InitOptions == OptionsInit => OptionsInv
<1> SUFFICES ASSUME OptionsInit PROVE OptionsInv
  OBVIOUS
<1> USE DEF OptionsInit
<1>1. Default \in [Attrs -> Values] /\ pool \subseteq Entry /\ sets \in 0 .. MaxSets
  BY DEF Default, Values
<1>2. OptionsTypeOK
  BY <1>1, NoTransactTyped DEF OptionsTypeOK
<1>3. Linked /\ Apart /\ Settings /\ Opened
  BY DEF Linked, Apart, Settings, Noted, Opened
<1> QED BY <1>2, <1>3 DEF OptionsInv

(* An attribute set before the connection is recorded and nothing else;    *)
(* one set later is recorded if it is one of the two, and spoiled if not.  *)
LEMMA SetKeeps ==
  ASSUME OptionsInv, NEW h \in Handles, NEW a \in Attrs, NEW v \in Values,
         SetConnectOption(h, a, v)
  PROVE  OptionsInv'
<1> USE DEF OptionsInv
<1>0. /\ UNCHANGED <<state, link, stmts, cp, pool, keeps, hung>>
      /\ last' = NoTransact /\ sets' = sets + 1 /\ sets < MaxSets
      /\ opts' = IF Remembers(h, a) THEN [opts EXCEPT ![h][a] = v] ELSE opts
      /\ asked' = [asked EXCEPT ![h][a] = v]
  BY DEF SetConnectOption, SetEarly, SetOnDriver
<1>1. CASE SetEarly(h, a, v)
  <2>0. /\ ~Connected(h) /\ UNCHANGED <<val, spoiled, tx>>
        /\ \/ opts' = [opts EXCEPT ![h][a] = v] /\ UNCHANGED lost
           \/ a = "driver" /\ UNCHANGED opts /\ lost' = lost \cup {h}
    BY <1>0, <1>1 DEF SetEarly, Remembers
  <2>1. OptionsTypeOK'
    BY <1>0, <2>0, NoTransactTyped DEF OptionsTypeOK
  <2>2. (Linked /\ Apart /\ Opened)'
    BY <1>0, <2>0 DEF Linked, Apart, Opened
  <2>3. Settings'
    <3>1. ASSUME NEW p \in pool PROVE Recorded(p.conn, p.opts)'
      BY <1>0, <2>0, <3>1 DEF Settings, Recorded
    <3>2. ASSUME NEW g \in Handles, Connected(g)
          PROVE  (Recorded(link[g], opts[g]) /\ Kept(g))'
      <4>1. opts'[g] = opts[g] /\ asked'[g] = asked[g] /\ (g \in lost' <=> g \in lost)
        BY <2>0, <1>0, <3>2 DEF OptionsTypeOK
      <4> QED BY <1>0, <2>0, <3>2, <4>1 DEF Settings, Recorded, Kept
    <3>3. ASSUME NEW g \in Handles, ~Connected(g) PROVE Noted(g)'
      BY <1>0, <2>0, <3>3 DEF Settings, OptionsTypeOK, Noted
    <3> QED BY <1>0, <3>1, <3>2, <3>3 DEF Settings
  <2> QED BY <2>1, <2>2, <2>3
<1>2. CASE SetOnDriver(h, a, v)
  <2>0. /\ Connected(h) /\ link[h] \in Conns
        /\ val' = [val EXCEPT ![link[h]][a] = v]
        /\ spoiled' = IF a \in Always THEN spoiled ELSE spoiled \cup {<<link[h], a>>}
        /\ opts' = IF a \in Always THEN [opts EXCEPT ![h][a] = v] ELSE opts
        /\ UNCHANGED lost
        /\ tx' \in {tx, [tx EXCEPT ![link[h]] = Nobody]}
    BY <1>0, <1>2 DEF SetOnDriver, Remembers, Linked
  <2>1. OptionsTypeOK'
    <3>1. val' \in [Conns -> [Attrs -> Values]] /\ spoiled' \subseteq Conns \X Attrs
      BY <2>0 DEF OptionsTypeOK
    <3>2. asked' \in [Handles -> [Attrs -> Values]] /\ opts' \in [Handles -> [Attrs -> Values]]
      BY <1>0, <2>0 DEF OptionsTypeOK
    <3>3. tx' \in [Conns -> Handles \cup {Nobody, Left}] /\ sets' \in 0 .. MaxSets
      BY <1>0, <2>0 DEF OptionsTypeOK
    <3> QED BY <1>0, <2>0, <3>1, <3>2, <3>3, NoTransactTyped DEF OptionsTypeOK
  <2>2. (Linked /\ Apart)'
    BY <1>0, <2>0 DEF Linked, Apart
  <2>3. Opened'
    BY <1>0, <2>0 DEF Opened, OptionsTypeOK, Linked, Entry
  <2>4. Settings'
    <3>1. ASSUME NEW p \in pool PROVE Recorded(p.conn, p.opts)'
      BY <1>0, <2>0, <3>1 DEF Settings, Recorded, OptionsTypeOK, Apart, Entry
    <3>2. ASSUME NEW g \in Handles, g # h, Connected(g)
          PROVE  (Recorded(link[g], opts[g]) /\ Kept(g))'
      BY <1>0, <2>0, <3>2 DEF Settings, Recorded, Kept, OptionsTypeOK, Apart, Linked
    <3>3. (Recorded(link[h], opts[h]) /\ Kept(h))'
      BY <1>0, <2>0 DEF Settings, Recorded, Kept, OptionsTypeOK, Apart, Linked
    <3>4. ASSUME NEW g \in Handles, ~Connected(g) PROVE Noted(g)'
      BY <1>0, <2>0, <3>4 DEF Settings, OptionsTypeOK, Noted, Linked
    <3> QED BY <1>0, <3>1, <3>2, <3>3, <3>4 DEF Settings
  <2> QED BY <2>1, <2>2, <2>3, <2>4
<1> QED BY <1>1, <1>2 DEF SetConnectOption

(* A connection of the pool: where the driver refuses nothing, its driver  *)
(* has what the entry recorded with the application's values over it.      *)
LEMMA RenewedGiven ==
  ASSUME NEW o \in [Attrs -> Values], NEW p \in [Attrs -> Values],
         Matches(o, p), NEW a \in Attrs
  PROVE  /\ RenewedOpts(o, p) \in [Attrs -> Values]
         /\ a \in Renewed => RenewedOpts(o, p)[a] = o[a]
BY DEF RenewedOpts, Matches, Attrs, Values

LEMMA GivenTyped ==
  ASSUME NEW v \in [Attrs -> Values], NEW from \in [Attrs -> Values],
         NEW to \in [Attrs -> Values], NEW refused
  PROVE  Given(v, from, to, refused) \in [Attrs -> Values]
BY DEF Given

LEMMA PoolKeeps ==
  ASSUME OptionsInv, NEW h \in Handles, NEW p \in pool, NEW refused \in Refusals,
         ConnectFromPool(h, p, refused)
  PROVE  OptionsInv'
<1> USE DEF OptionsInv
<1> DEFINE new == RenewedOpts(opts[h], p.opts)
           c == p.conn
<1>0. /\ ~Connected(h) /\ Matches(opts[h], p.opts)
      /\ opts' = [opts EXCEPT ![h] = new]
      /\ val' = [val EXCEPT ![c] = Given(val[c], p.opts, new, refused)]
      /\ state' = [state EXCEPT ![h] = "connected"] /\ link' = [link EXCEPT ![h] = c]
      /\ stmts' = [stmts EXCEPT ![h] = "none"] /\ keeps' = keeps \cup {h}
      /\ pool' = pool \ {p} /\ cp' = [cp EXCEPT ![h] = TRUE]
      /\ spoiled' = spoiled \cup ({c} \X refused)
      /\ UNCHANGED <<tx, asked, lost, sets, hung>> /\ last' = NoTransact
  BY DEF ConnectFromPool, Link, OptionsTypeOK, Entry
<1>1. p \in Entry /\ c \in Conns /\ p.opts \in [Attrs -> Values] /\ refused \subseteq Attrs
  BY DEF OptionsTypeOK, Entry, Refusals
<1>2. /\ new \in [Attrs -> Values]
      /\ \A a \in Renewed : new[a] = opts[h][a]
  BY <1>0, <1>1, RenewedGiven DEF OptionsTypeOK, Attrs, Renewed
<1>3. Given(val[c], p.opts, new, refused) \in [Attrs -> Values]
  BY <1>1, <1>2, GivenTyped DEF OptionsTypeOK
<1>4. \A a \in Attrs : <<c, a>> \notin spoiled' => Given(val[c], p.opts, new, refused)[a] = new[a]
  BY <1>0, <1>1 DEF Given, Settings, Recorded
<1> HIDE DEF new, c
<1>5. OptionsTypeOK'
  BY <1>0, <1>1, <1>2, <1>3, NoTransactTyped DEF OptionsTypeOK
<1>6. Linked'
  BY <1>0, <1>1 DEF Linked, OptionsTypeOK
<1>7. Apart'
  BY <1>0, <1>1 DEF Apart, OptionsTypeOK, Linked, c
<1>8. Opened'
  BY <1>0, <1>1 DEF Opened, OptionsTypeOK, Linked, Apart, c
<1>9. Settings'
  <2>1. ASSUME NEW q \in pool' PROVE Recorded(q.conn, q.opts)'
    BY <1>0, <1>1, <2>1 DEF Settings, Recorded, OptionsTypeOK, Apart, Entry, c
  <2>2. ASSUME NEW g \in Handles, g # h, Connected(g)
        PROVE  (Recorded(link[g], opts[g]) /\ Kept(g))'
    BY <1>0, <1>1, <2>2 DEF Settings, Recorded, Kept, OptionsTypeOK, Apart, Linked, c
  <2>3. Recorded(link[h], opts[h])'
    BY <1>0, <1>1, <1>4 DEF Recorded, OptionsTypeOK
  <2>4. Kept(h)'
    BY <1>0, <1>1, <1>2 DEF Kept, OptionsTypeOK, Settings, Noted
  <2>5. ASSUME NEW g \in Handles, ~Connected(g), g # h PROVE Noted(g)'
    BY <1>0, <2>5 DEF Settings, OptionsTypeOK, Noted
  <2> QED BY <1>0, <2>1, <2>2, <2>3, <2>4, <2>5 DEF Settings, OptionsTypeOK
<1> QED BY <1>5, <1>6, <1>7, <1>8, <1>9

(* A new connection: nothing is recorded of it but what its own handle     *)
(* recorded, and no transaction is open on it.                             *)
LEMMA FreshKeeps ==
  ASSUME OptionsInv, NEW h \in Handles, NEW c \in Conns, NEW refused \in Refusals,
         ConnectFresh(h, c, refused)
  PROVE  OptionsInv'
<1> USE DEF OptionsInv
<1> DEFINE new == Given(Default, Default, opts[h], refused)
<1>0. /\ ~Connected(h) /\ Free(c)
      /\ val' = [val EXCEPT ![c] = new]
      /\ state' = [state EXCEPT ![h] = "connected"] /\ link' = [link EXCEPT ![h] = c]
      /\ stmts' = [stmts EXCEPT ![h] = "none"] /\ keeps' = keeps \cup {h}
      /\ cp' = [cp EXCEPT ![h] = FALSE] /\ tx' = [tx EXCEPT ![c] = Nobody]
      /\ spoiled' = {s \in spoiled : s[1] # c} \cup ({c} \X refused)
      /\ UNCHANGED <<opts, pool, asked, lost, sets, hung>> /\ last' = NoTransact
  BY DEF ConnectFresh, Link
<1>1. opts[h] \in [Attrs -> Values] /\ Default \in [Attrs -> Values] /\ refused \subseteq Attrs
  BY DEF OptionsTypeOK, Refusals, Default, Values
<1>2. new \in [Attrs -> Values]
  BY <1>1, GivenTyped
<1>3. \A a \in Attrs : <<c, a>> \notin spoiled' => new[a] = opts[h][a]
  BY <1>0, <1>1 DEF Given, Default
<1> HIDE DEF new
<1>4. OptionsTypeOK'
  BY <1>0, <1>1, <1>2, NoTransactTyped DEF OptionsTypeOK
<1>5. Linked'
  BY <1>0 DEF Linked, OptionsTypeOK
<1>6. Apart'
  BY <1>0 DEF Apart, OptionsTypeOK, Linked, Free
<1>7. Opened'
  BY <1>0 DEF Opened, OptionsTypeOK, Linked, Free
<1>8. Settings'
  <2>1. ASSUME NEW q \in pool' PROVE Recorded(q.conn, q.opts)'
    BY <1>0, <2>1 DEF Settings, Recorded, OptionsTypeOK, Free, Entry
  <2>2. ASSUME NEW g \in Handles, g # h, Connected(g)
        PROVE  (Recorded(link[g], opts[g]) /\ Kept(g))'
    BY <1>0, <2>2 DEF Settings, Recorded, Kept, OptionsTypeOK, Free, Linked
  <2>3. Recorded(link[h], opts[h])'
    BY <1>0, <1>3 DEF Recorded, OptionsTypeOK
  <2>4. Kept(h)'
    BY <1>0 DEF Kept, OptionsTypeOK, Settings, Noted
  <2>5. ASSUME NEW g \in Handles, ~Connected(g), g # h PROVE Noted(g)'
    BY <1>0, <2>5 DEF Settings, OptionsTypeOK, Noted
  <2> QED BY <1>0, <2>1, <2>2, <2>3, <2>4, <2>5 DEF Settings, OptionsTypeOK
<1> QED BY <1>4, <1>5, <1>6, <1>7, <1>8

(* What SQLDisconnect leaves in the handle, whatever becomes of the        *)
(* connection.                                                             *)
LEMMA UnlinkTyped ==
  ASSUME OptionsInv, NEW h \in Handles, NEW o \in [Attrs -> Values], Unlink(h, o)
  PROVE  /\ state' \in [Handles -> {"allocated", "connected", "hstmt"}]
         /\ link' \in [Handles -> Conns \cup {NoConn}]
         /\ stmts' \in [Handles -> {"none", "idle", "busy"}] /\ cp' \in [Handles -> BOOLEAN]
         /\ opts' \in [Handles -> [Attrs -> Values]] /\ asked' \in [Handles -> [Attrs -> Values]]
         /\ opts'[h] = o /\ asked'[h] = o
         /\ \A g \in Handles : g # h => (g \in lost' <=> g \in lost)
         /\ lost' \subseteq Handles
         /\ Linked'
BY DEF OptionsInv, OptionsTypeOK, Unlink, Linked

LEMMA DisconnectKeeps ==
  ASSUME OptionsInv, NEW h \in Handles, SQLDisconnect(h)
  PROVE  OptionsInv'
<1> USE DEF OptionsInv
<1>0. Connected(h) /\ UNCHANGED <<val, spoiled, sets>> /\ last' = NoTransact
  BY DEF SQLDisconnect
<1>1. link[h] \in Conns /\ opts[h] \in [Attrs -> Values]
  BY <1>0 DEF Linked, OptionsTypeOK
<1>2. CASE PutIntoPool(h)
  <2> DEFINE entry == [conn |-> link[h], opts |-> opts[h]]
             o == [opts[h] EXCEPT !["driver"] = 0, !["current_qualifier"] = 0]
  <2>0. /\ pool' = pool \cup {entry} /\ Unlink(h, o) /\ UNCHANGED hung
        /\ keeps' = keeps \ {h}
        /\ tx' = [tx EXCEPT ![link[h]] = IF tx[link[h]] = Nobody THEN Nobody ELSE Left]
    BY <1>1, <1>2 DEF PutIntoPool, OptionsTypeOK
  <2>1. entry \in Entry /\ entry.conn = link[h] /\ entry.opts = opts[h]
    BY <1>1 DEF Entry
  <2>2. o \in [Attrs -> Values]
    BY <1>1 DEF Values
  <2> HIDE DEF entry, o
  <2>3. OptionsTypeOK'
    <3>1. pool' \subseteq Entry /\ tx' \in [Conns -> Handles \cup {Nobody, Left}]
      BY <2>0, <2>1, <1>1 DEF OptionsTypeOK
    <3> QED BY <1>0, <2>0, <2>2, <3>1, UnlinkTyped, NoTransactTyped DEF OptionsTypeOK
  <2>4. Linked'
    BY <2>0, <2>2, UnlinkTyped
  <2>5. Apart'
    BY <1>0, <1>1, <2>0, <2>1 DEF Apart, Unlink, OptionsTypeOK, Linked, Entry
  <2>6. Opened'
    BY <1>0, <1>1, <2>0, <2>1 DEF Opened, Apart, Unlink, OptionsTypeOK, Linked, Entry
  <2>7. Settings'
    <3>1. ASSUME NEW q \in pool' PROVE Recorded(q.conn, q.opts)'
      BY <1>0, <2>0, <2>1, <3>1 DEF Settings, Recorded
    <3>2. ASSUME NEW g \in Handles, g # h, Connected(g)
          PROVE  (Recorded(link[g], opts[g]) /\ Kept(g))'
      <4>1. /\ link'[g] = link[g] /\ opts'[g] = opts[g]
            /\ cp'[g] = cp[g] /\ asked'[g] = asked[g] /\ (g \in lost' <=> g \in lost)
        BY <2>0, <3>2 DEF Unlink, OptionsTypeOK
      <4> QED BY <1>0, <3>2, <4>1 DEF Settings, Recorded, Kept
    <3>3. ASSUME NEW g \in Handles, g # h, ~Connected(g) PROVE Noted(g)'
      BY <2>0, <3>3 DEF Settings, Unlink, OptionsTypeOK, Noted
    <3>4. Noted(h)' /\ ~Connected(h)'
      BY <2>0, <2>2, UnlinkTyped DEF Unlink, OptionsTypeOK, Noted
    <3>5. ASSUME NEW g \in Handles, g # h PROVE Connected(g)' <=> Connected(g)
      BY <2>0, <3>5 DEF Unlink, OptionsTypeOK
    <3> QED BY <3>1, <3>2, <3>3, <3>4, <3>5 DEF Settings
  <2> QED BY <2>3, <2>4, <2>5, <2>6, <2>7
<1>3. CASE PutHangs(h)
  <2>0. UNCHANGED <<state, opts, link, stmts, cp, pool, tx, asked, early>> /\ hung' = TRUE
    BY <1>3 DEF PutHangs
  <2>1. OptionsTypeOK'
    BY <1>0, <2>0, NoTransactTyped DEF OptionsTypeOK, early
  <2> QED BY <1>0, <2>0, <2>1 DEF Linked, Apart, Settings, Opened, Recorded, Kept, Noted, early
<1>4. CASE DisconnectDriver(h)
  <2>0. Unlink(h, opts[h]) /\ UNCHANGED <<pool, tx, keeps, hung>>
    BY <1>4 DEF DisconnectDriver
  <2>1. OptionsTypeOK'
    BY <1>0, <1>1, <2>0, UnlinkTyped, NoTransactTyped DEF OptionsTypeOK
  <2>2. Linked'
    BY <1>1, <2>0, UnlinkTyped
  <2>3. Apart' /\ Opened'
    BY <1>0, <1>1, <2>0 DEF Apart, Opened, Unlink, OptionsTypeOK, Linked, Entry
  <2>4. Settings'
    <3>1. ASSUME NEW g \in Handles, g # h, Connected(g)
          PROVE  (Recorded(link[g], opts[g]) /\ Kept(g))'
      <4>1. /\ link'[g] = link[g] /\ opts'[g] = opts[g]
            /\ cp'[g] = cp[g] /\ asked'[g] = asked[g] /\ (g \in lost' <=> g \in lost)
        BY <2>0, <3>1 DEF Unlink, OptionsTypeOK
      <4> QED BY <1>0, <3>1, <4>1 DEF Settings, Recorded, Kept
    <3>2. ASSUME NEW g \in Handles, g # h, ~Connected(g) PROVE Noted(g)'
      BY <2>0, <3>2 DEF Settings, Unlink, OptionsTypeOK, Noted
    <3>3. Noted(h)' /\ ~Connected(h)'
      BY <1>1, <2>0, UnlinkTyped DEF Unlink, OptionsTypeOK, Noted
    <3>4. ASSUME NEW g \in Handles, g # h PROVE Connected(g)' <=> Connected(g)
      BY <2>0, <3>4 DEF Unlink, OptionsTypeOK
    <3>5. ASSUME NEW q \in pool PROVE Recorded(q.conn, q.opts)'
      BY <1>0, <3>5 DEF Settings, Recorded
    <3> QED BY <2>0, <3>1, <3>2, <3>3, <3>4, <3>5 DEF Settings
  <2> QED BY <2>1, <2>2, <2>3, <2>4
<1> QED BY <1>2, <1>3, <1>4 DEF SQLDisconnect

(* The statements of a connection change nothing but what may be open.     *)
LEMMA StatementKeeps ==
  ASSUME OptionsInv, NEW h \in Handles, AllocStmt(h) \/ DropStmt(h) \/ Execute(h)
  PROVE  OptionsInv'
<1> USE DEF OptionsInv
<1>0. /\ UNCHANGED <<opts, link, cp, pool, val, asked, spoiled, early, sets, hung>>
      /\ last' = NoTransact
  BY DEF AllocStmt, DropStmt, Execute
<1>1. Connected(h) /\ link[h] \in Conns
  BY DEF AllocStmt, DropStmt, Execute, Linked, OptionsTypeOK
<1>2. \A g \in Handles : Connected(g)' <=> Connected(g)
  BY <1>1 DEF AllocStmt, DropStmt, Execute, OptionsTypeOK
<1>3. OptionsTypeOK'
  <2>1. state' \in [Handles -> {"allocated", "connected", "hstmt"}]
    BY DEF AllocStmt, DropStmt, Execute, OptionsTypeOK
  <2>2. stmts' \in [Handles -> {"none", "idle", "busy"}]
    <3>1. PICK s \in {"none", "idle", "busy"} : stmts' = [stmts EXCEPT ![h] = s]
      BY DEF AllocStmt, DropStmt, Execute
    <3> QED BY <3>1 DEF OptionsTypeOK
  <2>3. tx' \in [Conns -> Handles \cup {Nobody, Left}]
    BY DEF AllocStmt, DropStmt, Execute, OptionsTypeOK
  <2> QED BY <1>0, <2>1, <2>2, <2>3, NoTransactTyped DEF OptionsTypeOK, early
<1>4. Linked'
  BY <1>0, <1>1, <1>2 DEF AllocStmt, DropStmt, Execute, Linked, OptionsTypeOK
<1>5. Apart' /\ Settings'
  BY <1>0, <1>2 DEF Apart, Settings, Recorded, Kept, Noted, early
<1>6. Opened'
  <2>1. CASE UNCHANGED tx
    BY <1>0, <2>1 DEF AllocStmt, DropStmt, Execute, Opened, OptionsTypeOK
  <2>2. CASE Execute(h)
    <3>1. state[h] = "hstmt" /\ UNCHANGED state
      BY <2>2 DEF Execute, Linked
    <3>2. \A c \in Conns : c # link[h] => tx'[c] = tx[c]
      BY <2>2 DEF Execute, OptionsTypeOK
    <3>3. ASSUME NEW g \in Handles, state[g] = "connected" PROVE tx'[link[g]] # g
      <4>1. link[g] \in Conns /\ link[g] # link[h]
        BY <1>1, <3>1, <3>3 DEF Linked, Apart
      <4> QED BY <3>2, <3>3, <4>1 DEF Opened
    <3>4. ASSUME NEW p \in pool PROVE tx'[p.conn] \notin Handles
      BY <3>2, <3>4 DEF Opened, Apart, OptionsTypeOK, Entry
    <3> QED BY <1>0, <3>1, <3>3, <3>4 DEF Opened
  <2> QED BY <2>1, <2>2 DEF AllocStmt, DropStmt
<1> QED BY <1>3, <1>4, <1>5, <1>6

(* SQLTransact only ends transactions. *)
LEMMA TransactKeeps ==
  ASSUME OptionsInv, NEW scope \in SUBSET Handles, NEW failing \in SUBSET Handles,
         SQLTransact(scope, failing)
  PROVE  OptionsInv'
<1> USE DEF OptionsInv
<1>0. UNCHANGED <<state, opts, link, stmts, cp, pool, val, asked, spoiled, early, sets, hung>>
  BY DEF SQLTransact
<1>1. tx' \in [Conns -> Handles \cup {Nobody, Left}] /\ \A c \in Conns : tx'[c] \in {tx[c], Nobody}
  BY DEF SQLTransact, OptionsTypeOK
<1>2. last' \in [scope : SUBSET Handles, failed : SUBSET Handles, ok : BOOLEAN]
  <2>1. failing \cup {h \in scope : Refuses(h)} \in SUBSET Handles
    OBVIOUS
  <2>2. Succeeds(scope, failing) \in BOOLEAN
    BY DEF Succeeds
  <2> QED BY <2>1, <2>2 DEF SQLTransact
<1>3. OptionsTypeOK'
  BY <1>0, <1>1, <1>2 DEF OptionsTypeOK, early
<1>4. Linked' /\ Apart' /\ Settings'
  BY <1>0 DEF Linked, Apart, Settings, Recorded, Kept, Noted, early
<1>5. Opened'
  BY <1>0, <1>1 DEF Opened, Linked, OptionsTypeOK, Entry
<1> QED BY <1>3, <1>4, <1>5

(* A connect that fails leaves the handle with the driver's environment.   *)
LEMMA FailKeeps ==
  ASSUME OptionsInv, NEW h \in Handles, ConnectFails(h)
  PROVE  OptionsInv'
<1>1. /\ UNCHANGED <<state, opts, link, stmts, cp, pool, val, tx, asked, spoiled, lost, sets, hung>>
      /\ last' = NoTransact /\ keeps' = keeps \cup {h}
  BY DEF ConnectFails
<1>2. OptionsTypeOK'
  BY <1>1, NoTransactTyped DEF OptionsInv, OptionsTypeOK
<1> QED
  BY <1>1, <1>2 DEF OptionsInv, Linked, Apart, Settings, Opened, Recorded, Kept, Noted

LEMMA StepOptions == ASSUME OptionsInv, [OptionsNext]_optionsVars PROVE OptionsInv'
<1>1. CASE UNCHANGED optionsVars
  BY <1>1 DEF optionsVars, OptionsInv, OptionsTypeOK, Linked, Apart, Settings, Opened, Recorded, Kept, Noted, early
<1>2. ASSUME NEW h \in Handles, NEW a \in Attrs, NEW v \in Values, SetConnectOption(h, a, v)
      PROVE  OptionsInv'
  BY <1>2, SetKeeps
<1>3. ASSUME NEW h \in Handles, NEW r \in Refusals, NEW p \in pool, ConnectFromPool(h, p, r)
      PROVE  OptionsInv'
  BY <1>3, PoolKeeps
<1>4. ASSUME NEW h \in Handles, NEW r \in Refusals, NEW c \in Conns, ConnectFresh(h, c, r)
      PROVE  OptionsInv'
  BY <1>4, FreshKeeps
<1>5. ASSUME NEW h \in Handles, SQLDisconnect(h) \/ ConnectFails(h) PROVE OptionsInv'
  BY <1>5, DisconnectKeeps, FailKeeps
<1>6. ASSUME NEW h \in Handles, AllocStmt(h) \/ DropStmt(h) \/ Execute(h) PROVE OptionsInv'
  BY <1>6, StatementKeeps
<1>7. ASSUME NEW scope \in {Handles} \cup {{h} : h \in Handles}, NEW f \in SUBSET Handles,
             SQLTransact(scope, f)
      PROVE  OptionsInv'
  BY <1>7, TransactKeeps
<1> QED BY <1>1, <1>2, <1>3, <1>4, <1>5, <1>6, <1>7 DEF OptionsNext

(* An application that reads an attribute back gets what it last set, for  *)
(* any number of connections, whatever the pool gave it, except what the   *)
(* driver refused or the driver manager does not record or give again; of  *)
(* a driver's attribute it did not record, what it recorded before         *)
(* (_iodbcdm_SetConnectOption, _iodbcdm_GetConnectOption,                  *)
(* _iodbcdm_pool_reset_conn_attrs).                                        *)
THEOREM AskedIsSetHolds == OptionsSpec => []AskedIsSet
<1>1. OptionsInv => AskedIsSet
  <2> SUFFICES ASSUME OptionsInv, NEW h \in Handles, NEW a \in Attrs, Readable(h, a),
                      Connected(h) => (<<link[h], a>> \notin spoiled /\ (cp[h] => a \in Renewed))
               PROVE  GetConnectOption(h, a) =
                        IF a = "driver" /\ h \in lost THEN opts[h][a] ELSE asked[h][a]
    BY DEF AskedIsSet
  <2> QED BY DEF OptionsInv, Settings, Recorded, Kept, Noted, GetConnectOption
<1> QED BY InitOptions, StepOptions, <1>1, PTL DEF OptionsSpec

(* What SQLTransact has answered for is ended. *)
LEMMA TransactEnds ==
  ASSUME OptionsInv, NEW scope \in SUBSET Handles, NEW failing \in SUBSET Handles,
         SQLTransact(scope, failing)
  PROVE  TransactionEnded'
<1> SUFFICES ASSUME NEW h \in scope, Connected(h),
                    Succeeds(scope, failing) \/ h \notin failing \cup {g \in scope : Refuses(g)}
             PROVE  tx'[link[h]] # h
  BY DEF TransactionEnded, SQLTransact
<1>1. ~Refuses(h) /\ h \notin failing
  BY DEF Succeeds
<1>2. link[h] \in Conns
  BY DEF OptionsInv, Linked
<1>3. CASE Asks(h)
  BY <1>1, <1>2, <1>3 DEF SQLTransact, Ends, OptionsInv
<1>4. CASE ~Asks(h)
  <2>1. state[h] = "connected"
    BY <1>1, <1>4 DEF Asks, Refuses, OptionsInv, OptionsTypeOK
  <2> QED BY <1>2, <2>1 DEF SQLTransact, OptionsInv, Opened
<1> QED BY <1>3, <1>4

(* Success of SQLTransact means that no transaction of the connections it  *)
(* was called for is open; with an error the same holds of each connection *)
(* whose own driver did not fail (SQLTransact, _iodbcdm_transact).         *)
THEOREM TransactionEndedHolds == OptionsSpec => []TransactionEnded
<1> DEFINE EndedInv == OptionsInv /\ TransactionEnded
<1>1. OptionsInit => EndedInv
  BY InitOptions DEF OptionsInit, TransactionEnded, NoTransact
<1>2. ASSUME EndedInv, [OptionsNext]_optionsVars PROVE EndedInv'
  <2>1. OptionsInv'
    BY <1>2, StepOptions
  <2>2. TransactionEnded'
    <3>1. CASE UNCHANGED optionsVars
      BY <1>2, <3>1 DEF optionsVars, TransactionEnded
    <3>2. CASE last' = NoTransact
      BY <3>2 DEF TransactionEnded, NoTransact
    <3>3. ASSUME NEW scope \in {Handles} \cup {{h} : h \in Handles}, NEW f \in SUBSET Handles,
                 SQLTransact(scope, f)
          PROVE  TransactionEnded'
      BY <1>2, <3>3, TransactEnds
    <3> QED
      BY <1>2, <3>1, <3>2, <3>3
      DEF OptionsNext, SetConnectOption, ConnectFromPool, ConnectFresh, ConnectFails,
          SQLDisconnect, AllocStmt, DropStmt, Execute
  <2> QED BY <2>1, <2>2
<1> QED BY <1>1, <1>2, PTL DEF OptionsSpec
=============================================================================
