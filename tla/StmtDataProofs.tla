--------------------------- MODULE StmtDataProofs ----------------------------
(***************************************************************************)
(* Proofs about what a statement keeps beside its calls, in three parts:   *)
(* the texts it hands to the driver (Spec of StmtTexts), its descriptors   *)
(* and its attributes (AttrsSpec of StmtAttrs), and its row set and wide   *)
(* columns (RowsSpec of Rowset).  The three modules have no variable in    *)
(* common.  Each part is for any values of the constants and does not use  *)
(* the bound on liberties, oddities or ways.                               *)
(***************************************************************************)
EXTENDS StmtTexts, StmtAttrs, Rowset, FiniteSetTheorems, SequenceTheorems, TLAPS

(* The memory once call <<f, a, wide>> has converted its texts, or made    *)
(* room for a name.                                                        *)
Handing(m, f, a, wide) ==
  IF ~Converts(wide) THEN m
  ELSE IF f \in Describers
  THEN IF a > 0 THEN Becomes(m, [m.slots EXCEPT ![0] = AllocParam(@, a * Unit(unicode_driver))])
       ELSE m
  ELSE Converted(m, Texts_(f, a))

(* The functions that hand texts over. *)
Handers == DOMAIN Count \cup Describers

(* The eight slots. *)
IsSlots(s) == DOMAIN s = Slots /\ s = [i \in Slots |-> s[i]]

Empty == \A i \in Slots : params[i] = NoSlot

(* The driver executes a call of a function of the statement, or none.     *)
InsideInv ==
  /\ unicode_driver \in BOOLEAN /\ IsSlots(params)
  /\ inside = Idle \/ (inside.fn \in Handers /\ inside.a \in Texts)

(* SQLGetTypeInfo has no texts, which is why it need not free them. *)
HeldInv == inside = Idle \/ inside.fn = "GetTypeInfo" => Empty

(* As long as no liberty was taken with it, a suspended call is the one    *)
(* asyn_on names, and converting its texts again would change no slot.     *)
KeptInv ==
  odd = {} =>
    /\ lost = {}
    /\ inside # Idle =>
         /\ asyn_on = inside.fn
         /\ Handing([slots |-> params, lost |-> {}], inside.fn, inside.a, inside.wide).slots = params

TextsInv == InsideInv /\ HeldInv /\ KeptInv /\ TextArrives

LEMMA FunctionNames ==
  /\ DOMAIN Count = {"Prepare", "ExecDirect", "GetTypeInfo", "SpecialColumns", "Statistics",
                     "Tables", "ColumnPrivileges", "Columns", "ForeignKeys", "PrimaryKeys",
                     "ProcedureColumns", "Procedures", "TablePrivileges"}
  /\ NoCall \notin Handers /\ "GetTypeInfo" \notin Describers
  /\ Count["GetTypeInfo"] = 0 /\ \A f \in DOMAIN Count : f \notin Describers /\ Count[f] \in 0 .. 6
<1>1. DOMAIN Count = {"Prepare", "ExecDirect", "GetTypeInfo", "SpecialColumns", "Statistics",
                     "Tables", "ColumnPrivileges", "Columns", "ForeignKeys", "PrimaryKeys",
                     "ProcedureColumns", "Procedures", "TablePrivileges"}
  BY DEF Count
<1> QED BY <1>1 DEF Count, Handers, Describers, NoCall

(* Converting a text into a slot that has it changes nothing: the block is *)
(* large enough.                                                           *)
LEMMA SlotsOnce ==
  ASSUME NEW s, NEW t \in Texts
  PROVE  /\ ConvParam(ConvParam(s, t), t) = ConvParam(s, t)
         /\ ConvParam(s, t).text = t
<1>1. (t + 1) * Unit(unicode_driver) \in Nat
  BY WidthAssumption DEF Unit, Texts
<1> DEFINE size == (t + 1) * Unit(unicode_driver)
           b == Block(s, t, unicode_driver, size)
<1>2. b.length >= size /\ b.text = t /\ b.wide = unicode_driver
  BY <1>1 DEF Block
<1>3. Block(b, t, unicode_driver, size) = b
  BY <1>2 DEF Block
<1> QED BY <1>2, <1>3 DEF ConvParam, NoSlot, Null

LEMMA AllocatedOnce ==
  ASSUME NEW s, NEW n \in Nat
  PROVE  AllocParam(AllocParam(s, n), n) = AllocParam(s, n)
<1> DEFINE b == Block(s, Room, unicode_driver, n)
<1>1. b.length >= n
  BY DEF Block
<1>2. Block(b, Room, unicode_driver, n) = b
  BY <1>1 DEF Block
<1> QED BY <1>2 DEF AllocParam

(* Each text has a slot of its own. *)
LEMMA SlotsConverted ==
  ASSUME NEW m, NEW ts, DOMAIN ts \subseteq Slots
  PROVE  LET r == Converted(m, ts).slots
         IN  /\ IsSlots(r)
             /\ \A s \in Slots :
                  r[s] = IF s \in DOMAIN ts THEN ConvParam(m.slots[s], ts[s]) ELSE m.slots[s]
<1> DEFINE on(s) == {i \in DOMAIN ts : SlotOf(i) = s}
           val(s) == IF on(s) = {} THEN m.slots[s]
                     ELSE ConvParam(m.slots[s], ts[CHOOSE i \in on(s) : \A j \in on(s) : j <= i])
<1>1. ASSUME NEW s \in Slots
      PROVE  val(s) = IF s \in DOMAIN ts THEN ConvParam(m.slots[s], ts[s]) ELSE m.slots[s]
  <2>1. CASE s \in DOMAIN ts
    <3>1. on(s) = {s} /\ s \in Nat
      BY <2>1 DEF SlotOf, Slots
    <3>2. (CHOOSE i \in {s} : \A j \in {s} : j <= i) = s
      BY <3>1
    <3> QED BY <2>1, <3>1, <3>2
  <2>2. CASE s \notin DOMAIN ts
    <3>1. on(s) = {}
      BY <2>2 DEF SlotOf
    <3> QED BY <2>2, <3>1
  <2> QED BY <2>1, <2>2
<1>2. Converted(m, ts).slots = [s \in Slots |-> val(s)]
  BY DEF Converted, Becomes
<1> HIDE DEF val
<1> QED BY <1>1, <1>2 DEF IsSlots

(* The texts of a call, and that the same call made again converts nothing.*)
LEMMA TextsTyped ==
  ASSUME NEW f \in DOMAIN Count, NEW a \in Texts
  PROVE  /\ DOMAIN Texts_(f, a) = 0 .. Count[f] - 1 /\ DOMAIN Texts_(f, a) \subseteq Slots
         /\ \A i \in DOMAIN Texts_(f, a) : Texts_(f, a)[i] \in Texts
<1>1. Count[f] \in 0 .. 6
  BY FunctionNames
<1>2. \A i \in 0 .. Count[f] - 1 : (a + i) % 3 \in Texts
  BY <1>1 DEF Texts
<1> QED BY <1>1, <1>2 DEF Texts_, Slots

LEMMA SameSlots ==
  ASSUME NEW r, NEW s, IsSlots(r), IsSlots(s), \A i \in Slots : r[i] = s[i]
  PROVE  r = s
BY DEF IsSlots

LEMMA SlotSet ==
  ASSUME NEW w, IsSlots(w), NEW u
  PROVE  LET s == [w EXCEPT ![0] = u]
         IN  s[0] = u /\ IsSlots(s)
<1>1. 0 \in Slots
  BY DEF Slots
<1> QED BY <1>1 DEF IsSlots

LEMMA HandedAgain ==
  ASSUME NEW m, IsSlots(m.slots),
         NEW l, NEW f \in Handers, NEW a \in Texts, NEW wide
  PROVE  LET s == Handing(m, f, a, wide).slots
         IN  /\ IsSlots(s)
             /\ Handing([slots |-> s, lost |-> l], f, a, wide).slots = s
<1> DEFINE s == Handing(m, f, a, wide).slots
<1>1. CASE ~Converts(wide)
  BY <1>1 DEF Handing
<1>2. CASE Converts(wide) /\ f \in Describers
  <2>1. CASE a > 0
    <3> DEFINE n == a * Unit(unicode_driver)
               u == AllocParam(m.slots[0], n)
    <3>1. n \in Nat
      BY WidthAssumption DEF Unit, Texts
    <3>2. s = [m.slots EXCEPT ![0] = u]
      BY <1>2, <2>1 DEF Handing, Becomes
    <3>3. AllocParam(u, n) = u
      BY <3>1, AllocatedOnce
    <3> HIDE DEF s
    <3>4. Handing([slots |-> s, lost |-> l], f, a, wide).slots = [s EXCEPT ![0] = AllocParam(s[0], n)]
      BY <1>2, <2>1 DEF Handing, Becomes
    <3> HIDE DEF n, u
    <3>5. s[0] = u /\ IsSlots(s)
      BY <3>2, SlotSet
    <3>6. [s EXCEPT ![0] = AllocParam(s[0], n)] = s
      BY <3>3, <3>5 DEF IsSlots
    <3> QED BY <3>4, <3>5, <3>6 DEF s
  <2>2. CASE ~(a > 0)
    BY <1>2, <2>2 DEF Handing
  <2> QED BY <2>1, <2>2
<1>3. CASE Converts(wide) /\ f \notin Describers
  <2> DEFINE ts == Texts_(f, a)
  <2>1. DOMAIN ts \subseteq Slots /\ \A i \in DOMAIN ts : ts[i] \in Texts
    BY <1>3, TextsTyped DEF Handers
  <2>2. ASSUME NEW q PROVE Handing(q, f, a, wide) = Converted(q, ts)
    BY <1>3 DEF Handing
  <2> HIDE DEF ts
  <2>3. ASSUME NEW q
        PROVE  LET r == Handing(q, f, a, wide).slots
               IN  /\ IsSlots(r)
                   /\ \A i \in Slots :
                        r[i] = IF i \in DOMAIN ts THEN ConvParam(q.slots[i], ts[i]) ELSE q.slots[i]
    <3>1. Handing(q, f, a, wide) = Converted(q, ts)
      BY <2>2
    <3>2. LET r == Converted(q, ts).slots
          IN  /\ IsSlots(r)
              /\ \A i \in Slots :
                   r[i] = IF i \in DOMAIN ts THEN ConvParam(q.slots[i], ts[i]) ELSE q.slots[i]
      BY <2>1, SlotsConverted
    <3> QED BY <3>1, <3>2
  <2> DEFINE again == Handing([slots |-> s, lost |-> l], f, a, wide).slots
  <2>4. /\ IsSlots(s)
        /\ \A i \in Slots : s[i] = IF i \in DOMAIN ts THEN ConvParam(m.slots[i], ts[i]) ELSE m.slots[i]
    BY <2>3
  <2>5. /\ IsSlots(again)
        /\ \A i \in Slots : again[i] = IF i \in DOMAIN ts THEN ConvParam(s[i], ts[i]) ELSE s[i]
    BY <2>3
  <2> HIDE DEF s, again
  <2>6. \A i \in Slots : again[i] = s[i]
    BY <2>1, <2>4, <2>5, SlotsOnce
  <2>7. again = s
    BY <2>4, <2>5, <2>6, SameSlots
  <2> QED BY <2>4, <2>7 DEF s, again
<1> QED BY <1>1, <1>2, <1>3

(* What is done of the slots while the driver executes nothing loses       *)
(* nothing.                                                                *)
LEMMA NothingLost ==
  ASSUME NEW f, NEW a, NEW wide
  PROVE  /\ inside = Idle => Enter.lost = {} /\ Handing(Enter, f, a, wide).lost = {}
         /\ Handing(Enter, f, a, wide).slots = Enter.slots
              => Handing(Enter, f, a, wide).lost = Enter.lost
<1>1. inside = Idle => Enter.lost = {}
  BY DEF Enter, Memory, Freed, Idle
<1>2. ASSUME NEW m, NEW new
      PROVE  /\ Becomes(m, new).slots = new
             /\ inside = Idle => Becomes(m, new).lost = m.lost
             /\ new = m.slots => Becomes(m, new).lost = m.lost
  BY DEF Becomes, Idle
<1>3. \/ Handing(Enter, f, a, wide) = Enter
      \/ \E new : Handing(Enter, f, a, wide) = Becomes(Enter, new)
  BY Zenon DEF Handing, Converted
<1> QED BY <1>1, <1>2, <1>3

LEMMA EnterSlots ==
  /\ Enter.slots = IF asyn_on = NoCall THEN [i \in Slots |-> NoSlot] ELSE params
  /\ asyn_on # NoCall /\ inside # Idle => Enter = [slots |-> params, lost |-> lost]
BY DEF Enter, Memory, Freed

(* The driver's width never changes. *)
LEMMA Steady ==
  ASSUME UNCHANGED unicode_driver
  PROVE  Handing([slots |-> params, lost |-> {}], inside.fn, inside.a, inside.wide).slots'
           = Handing([slots |-> params', lost |-> {}], inside'.fn, inside'.a, inside'.wide).slots
BY DEF Handing, Converts, AllocParam, Block, Becomes, Converted, ConvParam, Unit

(* A call that does not reach the driver. *)
LEMMA RefusedKeeps ==
  ASSUME InsideInv, HeldInv, KeptInv, UNCHANGED <<unicode_driver, inside, asyn_on>>,
         Remember(Enter), odd' = IF Fresh THEN {} ELSE odd
  PROVE  (InsideInv /\ HeldInv /\ KeptInv)'
<1>1. InsideInv'
  BY EnterSlots DEF InsideInv, Remember, IsSlots
<1>2. HeldInv'
  BY EnterSlots DEF HeldInv, InsideInv, Remember, Empty
<1>3. KeptInv'
  <2>1. CASE inside = Idle
    BY <2>1, NothingLost DEF KeptInv, Remember
  <2>2. CASE inside # Idle /\ odd = {}
    <3>1. asyn_on = inside.fn /\ asyn_on # NoCall
      BY <2>2, FunctionNames DEF KeptInv, InsideInv
    <3>2. params' = params /\ lost' = lost
      BY <2>2, <3>1, EnterSlots DEF Remember
    <3>3. odd' = odd
      BY <2>2 DEF Fresh
    <3> QED BY <3>2, <3>3 DEF KeptInv, Handing, Converts, AllocParam, Block, Becomes,
                              Converted, ConvParam, Unit
  <2>3. CASE inside # Idle /\ odd # {}
    BY <2>3 DEF KeptInv, Fresh
  <2> QED BY <2>1, <2>2, <2>3
<1> QED BY <1>1, <1>2, <1>3

(* A bad length frees the slots, and is a liberty if a call reads them.    *)
LEMMA BadArgumentKeeps ==
  ASSUME InsideInv, HeldInv, KeptInv, BadArgument
  PROVE  (InsideInv /\ HeldInv /\ KeptInv)'
<1> USE DEF BadArgument, Remember, Keep
<1>1. params' = [i \in Slots |-> NoSlot] /\ inside' = inside
  BY DEF Freed
<1>2. InsideInv' /\ HeldInv'
  BY <1>1 DEF InsideInv, HeldInv, Empty, IsSlots
<1>3. KeptInv'
  <2>1. CASE inside = Idle
    BY <1>1, <2>1, NothingLost DEF KeptInv, Freed, Idle
  <2>2. CASE inside # Idle
    BY <2>2 DEF KeptInv, Fresh
  <2> QED BY <2>1, <2>2
<1> QED BY <1>2, <1>3

(* A call the driver answers.                                              *)
LEMMA AnsweredKeeps ==
  ASSUME InsideInv, HeldInv, KeptInv, UNCHANGED unicode_driver,
         NEW f \in Handers, NEW a \in Texts, NEW wide, NEW rs, NEW frees \in BOOLEAN,
         NEW answer \in Answers(f),
         Answered(f, a, wide, Handing(Enter, f, a, wide), rs, answer, frees),
         frees \/ f = "GetTypeInfo"
  PROVE  (InsideInv /\ HeldInv /\ KeptInv)'
<1> DEFINE m == Handing(Enter, f, a, wide)
           own == inside.fn \in {NoCall, f}
<1>0. /\ params' = IF answer = "STILL" \/ ~frees THEN m.slots ELSE [i \in Slots |-> NoSlot]
      /\ answer = "STILL" \/ own => lost' = m.lost
      /\ inside' = IF ~own THEN inside
                   ELSE IF answer = "STILL" THEN [fn |-> f, a |-> a, wide |-> wide, reads |-> rs]
                   ELSE Idle
  BY DEF Answered, Remember, Freed
<1>1. IsSlots(Enter.slots)
  BY EnterSlots DEF InsideInv, IsSlots
<1>2. IsSlots(m.slots)
  BY <1>1, HandedAgain
<1>3. f # NoCall /\ (inside # Idle => inside.fn # NoCall) /\ Idle.fn = NoCall
  BY FunctionNames DEF InsideInv, Idle
<1>4. InsideInv'
  BY <1>0, <1>2 DEF InsideInv, IsSlots
<1>5. HeldInv'
  <2>1. CASE answer # "STILL" /\ frees
    BY <1>0, <2>1 DEF HeldInv, Empty
  <2>2. CASE f = "GetTypeInfo" /\ own
    <3>1. Empty
      BY <1>3, <2>2 DEF HeldInv, InsideInv
    <3>2. \A i \in Slots : Enter.slots[i] = NoSlot
      BY <3>1, EnterSlots DEF Empty
    <3>3. \A i \in Slots : m.slots[i] = Enter.slots[i]
      <4>1. CASE ~Converts(wide)
        BY <4>1 DEF Handing
      <4>2. CASE Converts(wide)
        <5>1. m = Converted(Enter, Texts_(f, a)) /\ DOMAIN Texts_(f, a) = {}
          BY <2>2, <4>2, FunctionNames, TextsTyped DEF Handing
        <5> QED BY <5>1, SlotsConverted
      <4> QED BY <4>1, <4>2
    <3> QED BY <1>0, <3>2, <3>3 DEF HeldInv, Empty
  <2>3. CASE f # "GetTypeInfo" /\ answer = "STILL"
    <3>1. own
      BY <1>3, <2>3 DEF Answers
    <3> QED BY <1>0, <1>3, <2>3, <3>1 DEF HeldInv, Idle
  <2>4. CASE ~own /\ f = "GetTypeInfo"
    BY <1>0, <1>3, <2>4 DEF HeldInv, InsideInv
  <2> QED BY <2>1, <2>2, <2>3, <2>4
<1>6. ASSUME odd' = {} PROVE own /\ (answer = "STILL" => asyn_on' = f)
                             /\ (inside # Idle => odd = {} /\ a = inside.a /\ wide = inside.wide)
  BY <1>3, <1>6 DEF Answered, Fresh
<1>7. ASSUME odd' = {} PROVE m.lost = {}
  <2>1. CASE inside = Idle
    BY <2>1, NothingLost
  <2>2. CASE inside # Idle
    <3>1. inside.fn = f /\ asyn_on = f /\ lost = {} /\ Enter = [slots |-> params, lost |-> {}]
      BY <1>3, <1>6, <1>7, <2>2, EnterSlots DEF KeptInv
    <3>2. m.slots = Enter.slots
      BY <1>6, <1>7, <2>2, <3>1 DEF KeptInv
    <3> QED BY <3>1, <3>2, NothingLost
  <2> QED BY <2>1, <2>2
<1>8. KeptInv'
  <2> SUFFICES ASSUME odd' = {}
               PROVE  /\ lost' = {}
                      /\ inside' # Idle =>
                           /\ asyn_on' = inside'.fn
                           /\ (Handing([slots |-> params, lost |-> {}], inside.fn, inside.a,
                                       inside.wide).slots = params)'
    BY DEF KeptInv
  <2>1. lost' = {}
    BY <1>0, <1>6, <1>7
  <2>2. ASSUME inside' # Idle
        PROVE  /\ answer = "STILL" /\ inside'.fn = f /\ inside'.a = a /\ inside'.wide = wide
               /\ params' = m.slots /\ asyn_on' = f
    BY <1>0, <1>6, <2>2
  <2> QED BY <1>1, <2>1, <2>2, HandedAgain, Steady
<1> QED BY <1>4, <1>5, <1>8

(* A call of the statement: refused, or with a bad length, or answered by  *)
(* the driver after its texts were converted.                              *)
Refusal == Remember(Enter) /\ odd' = (IF Fresh THEN {} ELSE odd) /\ Keep /\ UNCHANGED asyn_on

Reaching ==
  \E f \in DOMAIN Count, a \in Texts, wide \in BOOLEAN, answer \in Catalogued, frees \in BOOLEAN :
    Reaches(f, a, wide, answer, frees) /\ (frees \/ f = "GetTypeInfo")

Describing ==
  \E f \in Describers, n \in Texts, wide \in BOOLEAN, answer \in Catalogued :
    Describes(f, n, wide, answer)

LEMMA CallKinds == ASSUME Calls PROVE Refusal \/ BadArgument \/ Reaching \/ Describing
<1>1. Refused => Refusal
  BY DEF Refused, Refusal
<1>2. ASSUME NEW f \in DOMAIN Count, NEW a \in Texts, NEW wide \in BOOLEAN,
             NEW answer \in Catalogued, Catalog(f, a, wide, answer)
      PROVE  Refusal \/ BadArgument \/ Reaching
  BY <1>1, <1>2 DEF Catalog, Reaching
<1>3. CASE SQLGetTypeInfo
  BY <1>1, <1>3, FunctionNames DEF SQLGetTypeInfo, AnyCall, SQLGetTypeInfo_Internal, Reaching
<1>4. CASE SQLPrepare
  BY <1>1, <1>4, FunctionNames DEF SQLPrepare, AnyCall, SQLPrepare_Internal, Reaching
<1>5. CASE SQLExecDirect
  BY <1>1, <1>5, FunctionNames DEF SQLExecDirect, AnyCall, SQLExecDirect_Internal, Reaching
<1>6. CASE SQLDescribeCol \/ SQLColAttributes
  BY <1>1, <1>6
  DEF SQLDescribeCol, SQLColAttributes, AnyCall, SQLDescribeCol_Internal,
      SQLColAttributes_Internal, Describing, Describers
<1>7. CASE OtherCall
  BY <1>7 DEF OtherCall, Refusal
<1>8. CASE SQLSpecialColumns \/ SQLStatistics \/ SQLTables \/ SQLColumnPrivileges \/ SQLColumns
  BY <1>2, <1>8, FunctionNames
  DEF SQLSpecialColumns, SQLStatistics, SQLTables, SQLColumnPrivileges, SQLColumns, AnyCall,
      SQLSpecialColumns_Internal, SQLStatistics_Internal, SQLTables_Internal,
      SQLColumnPrivileges_Internal, SQLColumns_Internal
<1>9. CASE \/ SQLForeignKeys \/ SQLPrimaryKeys \/ SQLProcedureColumns \/ SQLProcedures
           \/ SQLTablePrivileges
  BY <1>2, <1>9, FunctionNames
  DEF SQLForeignKeys, SQLPrimaryKeys, SQLProcedureColumns, SQLProcedures, SQLTablePrivileges,
      AnyCall, SQLForeignKeys_Internal, SQLPrimaryKeys_Internal, SQLProcedureColumns_Internal,
      SQLProcedures_Internal, SQLTablePrivileges_Internal
<1> QED BY <1>3, <1>4, <1>5, <1>6, <1>7, <1>8, <1>9 DEF Calls

(* The texts in the slots are those of the call.                           *)
LEMMA HandedAreGiven ==
  ASSUME NEW f \in DOMAIN Count, NEW a \in Texts, NEW wide \in BOOLEAN,
         unicode_driver \in BOOLEAN, NEW m
  PROVE  LET ts == Texts_(f, a)
             h  == Handed(IF Converts(wide) THEN Converted(m, ts) ELSE m, ts, wide)
         IN  h = [i \in DOMAIN ts |-> <<ts[i], unicode_driver>>]
<1> DEFINE ts == Texts_(f, a)
<1>1. CASE ~Converts(wide)
  BY <1>1 DEF Handed, Converts
<1>2. CASE Converts(wide)
  <2>1. DOMAIN ts \subseteq Slots /\ \A i \in DOMAIN ts : ts[i] \in Texts
    BY TextsTyped
  <2> DEFINE c == Converted(m, ts)
  <2> HIDE DEF ts
  <2>2. \A i \in DOMAIN ts : c.slots[i] = ConvParam(m.slots[i], ts[i])
    BY <2>1, SlotsConverted
  <2>3. \A i \in DOMAIN ts : c.slots[i].text = ts[i]
    BY <2>1, <2>2, SlotsOnce
  <2> HIDE DEF c
  <2>4. Handed(c, ts, wide) = [i \in DOMAIN ts |-> <<c.slots[i].text, unicode_driver>>]
    BY <1>2 DEF Handed, SlotOf
  <2> QED BY <1>2, <2>3, <2>4 DEF ts, c
<1> QED BY <1>1, <1>2

LEMMA NothingArrives == got' = Nothing => TextArrives'
BY DEF Nothing, TextArrives

LEMMA InitTexts == Init => TextsInv
<1> SUFFICES ASSUME Init PROVE TextsInv
  OBVIOUS
<1>1. InsideInv /\ HeldInv
  BY DEF Init, InsideInv, HeldInv, Empty, IsSlots
<1>2. KeptInv /\ TextArrives
  BY DEF Init, KeptInv, TextArrives, Nothing
<1> QED BY <1>1, <1>2 DEF TextsInv

LEMMA StepTexts == ASSUME TextsInv, [Next]_vars PROVE TextsInv'
<1> USE DEF TextsInv
<1>1. CASE UNCHANGED vars
  <2>1. UNCHANGED <<unicode_driver, asyn_on, params, inside, got, lost, odd>>
    BY <1>1 DEF vars
  <2>2. InsideInv' /\ HeldInv' /\ TextArrives'
    BY <2>1 DEF InsideInv, HeldInv, Empty, TextArrives
  <2>3. KeptInv'
    BY <2>1, Steady DEF KeptInv
  <2> QED BY <2>2, <2>3
<1>2. CASE Refusal
  BY <1>2, RefusedKeeps, NothingArrives DEF Refusal, Keep
<1>3. CASE BadArgument
  BY <1>3, BadArgumentKeeps, NothingArrives DEF BadArgument, Keep
<1>4. CASE Reaching
  <2>1. PICK f \in DOMAIN Count, a \in Texts, wide \in BOOLEAN, answer \in Catalogued,
             frees \in BOOLEAN : Reaches(f, a, wide, answer, frees) /\ (frees \/ f = "GetTypeInfo")
    BY <1>4 DEF Reaching
  <2> DEFINE ts == Texts_(f, a)
             m == IF Converts(wide) THEN Converted(Enter, ts) ELSE Enter
             rs == IF Converts(wide) THEN DOMAIN ts ELSE {}
  <2>2. /\ answer \in Answers(f) /\ UNCHANGED unicode_driver
        /\ Answered(f, a, wide, m, rs, answer, frees)
        /\ got' \in {[given |-> ts, handed |-> Handed(m, ts, wide)], Nothing}
    BY <2>1 DEF Reaches
  <2>3. m = Handing(Enter, f, a, wide) /\ f \in Handers
    BY FunctionNames DEF Handing, Handers
  <2>4. (InsideInv /\ HeldInv /\ KeptInv)'
    BY <2>1, <2>2, <2>3, AnsweredKeeps
  <2>5. Handed(m, ts, wide) = [i \in DOMAIN ts |-> <<ts[i], unicode_driver>>]
    BY HandedAreGiven DEF InsideInv
  <2>6. TextArrives'
    <3>1. CASE got' = Nothing
      BY <3>1, NothingArrives
    <3>2. CASE got' = [given |-> ts, handed |-> Handed(m, ts, wide)]
      <4> HIDE DEF ts, m
      <4>1. got'.given = ts /\ got'.handed = [i \in DOMAIN ts |-> <<ts[i], unicode_driver>>]
        BY <2>5, <3>2
      <4> QED BY <2>2, <4>1 DEF TextArrives
    <3> QED BY <2>2, <3>1, <3>2
  <2> QED BY <2>4, <2>6
<1>5. CASE Describing
  <2>1. PICK f \in Describers, n \in Texts, wide \in BOOLEAN, answer \in Catalogued :
             Describes(f, n, wide, answer)
    BY <1>5 DEF Describing
  <2> DEFINE uses == Converts(wide) /\ n > 0
             m == IF uses
                  THEN Becomes(Enter, [Enter.slots EXCEPT
                         ![0] = AllocParam(@, n * Unit(unicode_driver))])
                  ELSE Enter
             rs == IF uses THEN {0} ELSE {}
  <2>2. /\ answer \in Answers(f) /\ UNCHANGED unicode_driver /\ got' = Nothing
        /\ Answered(f, n, wide, m, rs, answer, TRUE)
    BY <2>1 DEF Describes
  <2>3. m = Handing(Enter, f, n, wide) /\ f \in Handers
    BY DEF Handing, Handers
  <2>4. (InsideInv /\ HeldInv /\ KeptInv)'
    BY <2>2, <2>3, AnsweredKeeps
  <2> QED BY <2>2, <2>4, NothingArrives
<1> QED BY <1>1, <1>2, <1>3, <1>4, <1>5, CallKinds DEF Next

(* The slots a suspended call was handed stay as they are until it is      *)
(* over, however the application polls it and whatever else it calls in    *)
(* between, for any width of a wide character: converting the texts of a   *)
(* poll changes no slot (ENTER_STMT, _iodbcdm_conv_param_A2W,              *)
(* _iodbcdm_conv_param_W2A, _iodbcdm_alloc_param).                         *)
THEOREM SuspendedTextKeptHolds == Spec => []SuspendedTextKept
<1>1. TextsInv => SuspendedTextKept
  BY DEF TextsInv, KeptInv, SuspendedTextKept
<1> QED BY InitTexts, StepTexts, <1>1, PTL DEF Spec

(* A driver reads the application's texts, in their order and in its own   *)
(* width (the conversions of the catalog functions, SQLPrepare and         *)
(* SQLExecDirect).                                                         *)
THEOREM TextArrivesHolds == Spec => []TextArrives
<1>1. TextsInv => TextArrives
  BY DEF TextsInv
<1> QED BY InitTexts, StepTexts, <1>1, PTL DEF Spec

(* A statement on which the driver executes nothing holds no converted     *)
(* text (_iodbcdm_FreeStmtParams on every way out but suspension).         *)
THEOREM NothingHeldHolds == Spec => []NothingHeld
<1>1. TextsInv => NothingHeld
  BY DEF TextsInv, HeldInv, Empty, NothingHeld
<1> QED BY InitTexts, StepTexts, <1>1, PTL DEF Spec

-----------------------------------------------------------------------------
(* The variables the theorems are about. *)
DescTypes ==
  /\ stmt \in [Stmts -> {"free", "live", "dropped"}]
  /\ imp \in [Implicit -> {"none", "live", "freed"}]
  /\ desc \in [Stmts -> [DescSlots -> Explicit \cup Implicit \cup {None}]]
  /\ mem \in [Explicit -> {"none", "live", "freed"}]
  /\ hdesc = {d \in Explicit : mem[d] = "live"}
  /\ \A s \in Stmts \ Live, l \in DescSlots : desc[s][l] = None

(* An application that frees neither what a statement uses nor an implicit *)
(* descriptor, and lends none.                                             *)
Owns == oddities \cap {"freedInUse", "freedImplicit", "lentImplicit"} = {}

(* Then a statement uses explicit descriptors, live ones, beside its own,  *)
(* which live as long as it does.                                          *)
UseInv ==
  Owns =>
    /\ \A s \in Live, l \in DescSlots :
         /\ desc[s][l] # None => desc[s][l] \in Explicit /\ mem[desc[s][l]] = "live"
         /\ imp[<<s, l>>] = "live"
    /\ fault \cap {"staleRead", "doubleFree"} = {}

DescInv == DescTypes /\ UseInv

LEMMA ImplicitOf == \A s \in Stmts, l \in DescSlots : <<s, l>> \in Implicit /\ <<s, l>>[1] = s
BY DEF Implicit

LEMMA InitDesc == AttrsInit => DescInv
<1> SUFFICES ASSUME AttrsInit PROVE DescInv
  OBVIOUS
<1>1. DescTypes
  BY DEF AttrsInit, DescTypes, Implicit, Live
<1>2. UseInv
  BY DEF AttrsInit, UseInv, Live
<1> QED
  BY <1>1, <1>2 DEF DescInv

(* Only the descriptors of the statements that go are freed with them.     *)
LEMMA DropKeeps ==
  ASSUME DescInv, NEW gone \in SUBSET Stmts, gone \subseteq Live, Dropped(gone),
         UNCHANGED hdesc, Owns' => Owns
  PROVE  DescInv'
<1> USE DEF DescInv, DescTypes
<1>1. mem' = mem
  <2>1. \A d \in Explicit : d \notin FreedWith(gone)
    BY DescAssumption DEF FreedWith
  <2> QED
    BY <2>1 DEF Dropped
<1>2. DescTypes'
  <2>1. stmt' \in [Stmts -> {"free", "live", "dropped"}]
    BY DEF Dropped
  <2>2. imp' \in [Implicit -> {"none", "live", "freed"}]
    BY DEF Dropped
  <2>3. desc' \in [Stmts -> [DescSlots -> Explicit \cup Implicit \cup {None}]]
    BY DEF Dropped
  <2> QED
    <3>1. \A s \in Stmts \ Live', l \in DescSlots : desc'[s][l] = None
      BY DEF Dropped, Live
    <3> QED
      BY <1>1, <2>1, <2>2, <2>3, <3>1
<1>3. ASSUME Owns' PROVE UseInv'
  <2>1. Live' = Live \ gone
    BY DEF Dropped, Live
  <2>2. ASSUME NEW s \in Live', NEW l \in DescSlots
        PROVE  desc'[s] = desc[s] /\ imp'[<<s, l>>] = imp[<<s, l>>]
    <3>1. s \in Stmts /\ s \notin gone
      BY <2>1 DEF Live
    <3>2. <<s, l>> \in Implicit /\ <<s, l>> \notin FreedWith(gone)
      BY <3>1, ImplicitOf DEF FreedWith
    <3> QED
      BY <3>1, <3>2 DEF Dropped
  <2>3. \A d \in FreedWith(gone) : Alive(d)
    <3>1. ASSUME NEW d \in FreedWith(gone) PROVE imp[d] = "live"
      <4>1. d \in Implicit /\ d[1] \in gone
        BY DEF FreedWith
      <4>2. PICK s \in Stmts, l \in DescSlots : d = <<s, l>>
        BY <4>1 DEF Implicit
      <4> QED
        BY <1>3, <4>1, <4>2 DEF UseInv
    <3> QED
      BY <3>1 DEF Alive, FreedWith
  <2>4. fault' = fault
    BY <2>3 DEF Dropped
  <2> QED
    BY <1>1, <1>3, <2>1, <2>2, <2>4 DEF UseInv
<1> QED
  BY <1>2, <1>3 DEF UseInv, Owns

(* Nothing a statement uses is touched.                                    *)
LEMMA DescKept ==
  ASSUME DescInv, UNCHANGED <<stmt, imp, desc, mem, hdesc>>, Owns' => Owns,
         fault' \cap {"staleRead", "doubleFree"} \subseteq fault
  PROVE  DescInv'
<1>1. Live' = Live
  BY DEF Live
<1> QED
  BY <1>1 DEF DescInv, DescTypes, UseInv

LEMMA StepDesc ==
  ASSUME DescInv, [AttrsNext]_allVars
  PROVE  DescInv'
<1>1. ASSUME NEW s \in Stmts, SQLAllocStmt(s) PROVE DescInv'
  <2>1. DescTypes'
    BY <1>1 DEF SQLAllocStmt, DescInv, DescTypes, Live
  <2>2. UseInv'
    <3> SUFFICES ASSUME Owns PROVE UseInv'
      BY <1>1 DEF SQLAllocStmt, UseInv, Owns
    <3>1. Live' = Live \cup {s}
      BY <1>1 DEF SQLAllocStmt, Live, DescInv, DescTypes
    <3>2. UNCHANGED <<desc, mem, fault, oddities>>
      BY <1>1 DEF SQLAllocStmt
    <3> QED
      <4> SUFFICES ASSUME NEW t \in Live', NEW l \in DescSlots
          PROVE  /\ desc[t][l] # None => desc[t][l] \in Explicit /\ mem[desc[t][l]] = "live"
                 /\ imp'[<<t, l>>] = "live"
        BY <3>2 DEF UseInv, DescInv
      <4>0. t \in Stmts
        BY DEF Live
      <4>1. CASE t = s
        <5>1. imp'[<<t, l>>] = "live"
          BY <1>1, <4>0, <4>1, ImplicitOf DEF SQLAllocStmt
        <5>2. desc[t][l] = None
          BY <1>1, <4>1 DEF SQLAllocStmt, DescInv, DescTypes, Live
        <5> QED
          BY <5>1, <5>2
      <4>2. CASE t # s
        <5>1. t \in Live /\ imp'[<<t, l>>] = imp[<<t, l>>]
          BY <1>1, <3>1, <4>0, <4>2, ImplicitOf DEF SQLAllocStmt
        <5> QED
          BY <5>1 DEF DescInv, UseInv
      <4> QED
        BY <4>1, <4>2
  <2> QED
    BY <2>1, <2>2 DEF DescInv
<1>2. ASSUME NEW s \in Stmts, SQLFreeStmt(s) PROVE DescInv'
  <2>1. Dropped({s}) /\ s \in Live /\ UNCHANGED <<hdesc, oddities>>
    BY <1>2 DEF SQLFreeStmt, Live
  <2> QED
    BY <2>1, DropKeeps DEF Owns
<1>3. ASSUME SQLDisconnect PROVE DescInv'
  <2>1. Dropped(Live) /\ UNCHANGED hdesc /\ oddities \subseteq oddities'
    BY <1>3 DEF SQLDisconnect
  <2> QED
    BY <2>1, DropKeeps DEF Owns, Live
<1>4. ASSUME NEW d \in Explicit, SQLAllocDesc(d) PROVE DescInv'
  <2>1. CASE conn # "connected"
    <3>1. /\ UNCHANGED <<stmt, imp, desc, mem, hdesc>> /\ oddities \subseteq oddities'
          /\ fault' = fault \cup {"noDriver"}
      BY <1>4, <2>1 DEF SQLAllocDesc
    <3> QED
      BY <3>1, DescKept DEF Owns
  <2>2. CASE conn = "connected"
    <3>1. /\ mem[d] = "none" /\ mem' = [mem EXCEPT ![d] = "live"] /\ hdesc' = hdesc \cup {d}
          /\ UNCHANGED <<stmt, imp, desc, fault, oddities>>
      BY <1>4, <2>2 DEF SQLAllocDesc
    <3>2. DescTypes'
      BY <3>1 DEF DescInv, DescTypes, Live
    <3>3. UseInv'
      BY <3>1 DEF DescInv, DescTypes, UseInv, Owns, Live
    <3> QED
      BY <3>2, <3>3 DEF DescInv
  <2> QED
    BY <2>1, <2>2
<1>5. ASSUME NEW d \in Explicit, DescCall(d) PROVE DescInv'
  BY <1>5, DescKept DEF DescCall, descVars, Owns
<1>6. ASSUME NEW d \in Explicit \cup Implicit, SQLFreeDesc(d) PROVE DescInv'
  <2>1. CASE d \in Implicit
    <3>1. "freedImplicit" \in oddities' /\ imp' = [imp EXCEPT ![d] = "freed"]
      BY <1>6, <2>1 DEF SQLFreeDesc
    <3>2. UNCHANGED <<stmt, desc, mem, hdesc>>
      BY <1>6, <2>1 DEF SQLFreeDesc
    <3> QED
      BY <3>1, <3>2 DEF DescInv, DescTypes, UseInv, Owns, Live
  <2>2. CASE d \notin Implicit
    <3>1. /\ mem' = [mem EXCEPT ![d] = "freed"] /\ hdesc' = hdesc \ {d}
          /\ UNCHANGED <<stmt, imp, desc>> /\ oddities \subseteq oddities'
          /\ fault' \subseteq fault \cup {"noDriver"}
          /\ (\E s \in Live, l \in DescSlots : desc[s][l] = d) => "freedInUse" \in oddities'
      BY <1>6, <2>2 DEF SQLFreeDesc, Unlisted
    <3>2. DescTypes'
      BY <3>1, <2>2 DEF DescInv, DescTypes, Live
    <3>3. UseInv'
      BY <3>1 DEF DescInv, DescTypes, UseInv, Owns, Live
    <3> QED
      BY <3>2, <3>3 DEF DescInv
  <2> QED
    BY <2>1, <2>2
<1>7. ASSUME SetDesc PROVE DescInv'
  <2>1. PICK s \in Live, l \in DescSlots :
          ResetDesc(s, l) \/ \E d \in Explicit \cup Implicit : TakeDesc(s, l, d)
    BY <1>7 DEF SetDesc
  <2>2. s \in Stmts /\ UNCHANGED stmt
    BY <1>7 DEF Live, SetDesc
  <2>3. PICK d \in Explicit \cup Implicit \cup {None} :
          /\ desc' = [desc EXCEPT ![s][l] = d]
          /\ d # None => Alive(d)
          /\ oddities' = IF d \in Implicit THEN oddities \cup {"lentImplicit"} ELSE oddities
          /\ UNCHANGED <<imp, mem, hdesc, fault>>
    <3>1. CASE ResetDesc(s, l)
      BY <3>1, DescAssumption DEF ResetDesc
    <3>2. CASE \E d \in Explicit \cup Implicit : TakeDesc(s, l, d)
      BY <3>2 DEF TakeDesc
    <3> QED
      BY <2>1, <3>1, <3>2
  <2>4. DescTypes'
    BY <2>2, <2>3 DEF DescInv, DescTypes, Live
  <2>5. UseInv'
    <3>1. Live' = Live
      BY <2>2 DEF Live
    <3>2. ASSUME Owns' PROVE Owns /\ (d # None => d \in Explicit /\ mem[d] = "live")
      BY <2>3, <3>2 DEF Owns, Alive
    <3>3. ASSUME NEW t \in Live, NEW k \in DescSlots
          PROVE  desc'[t][k] = IF t = s /\ k = l THEN d ELSE desc[t][k]
      BY <2>2, <2>3 DEF DescInv, DescTypes, Live
    <3> QED
      BY <2>3, <3>1, <3>2, <3>3 DEF DescInv, UseInv
  <2> QED
    BY <2>4, <2>5 DEF DescInv
<1>8. ASSUME GetDesc PROVE DescInv'
  <2>1. UNCHANGED <<stmt, imp, desc, mem, hdesc, oddities>>
    BY <1>8 DEF GetDesc, descVars
  <2>2. Owns => fault' = fault
    BY <1>8, DescAssumption DEF GetDesc, DescInv, UseInv, Alive
  <2>3. Live' = Live
    BY <2>1 DEF Live
  <2> QED
    BY <2>1, <2>2, <2>3 DEF DescInv, DescTypes, UseInv, Owns
<1>9. ASSUME SetAttr PROVE DescInv'
  BY <1>9, DescKept DEF SetAttr, descVars, Owns
<1>10. ASSUME SQLParamOptions PROVE DescInv'
  <2>1. UNCHANGED <<stmt, imp, desc, mem, hdesc, fault>> /\ oddities \subseteq oddities'
    BY <1>10 DEF SQLParamOptions, ParamOptions, descVars
  <2> QED
    BY <2>1, DescKept DEF Owns
<1>11. CASE UNCHANGED allVars
  BY <1>11, DescKept DEF allVars, descVars, Owns
<1> QED
  BY <1>1, <1>2, <1>3, <1>4, <1>5, <1>6, <1>7, <1>8, <1>9, <1>10, <1>11 DEF AttrsNext

(* The list of the connection is the live explicit descriptors, and the    *)
(* descriptors statements use are live, however the statements that share  *)
(* them are dropped, for any number of both.                               *)
THEOREM DescriptorsLiveHolds == AttrsSpec => []DescriptorsLive
<1>1. DescInv /\ [AttrsNext]_allVars => DescInv'
  BY StepDesc
<1>2. DescInv => DescriptorsLive
  BY DescAssumption DEF DescInv, DescTypes, UseInv, Owns, Alive, DescriptorsLive
<1> QED
  BY InitDesc, <1>1, <1>2, PTL DEF AttrsSpec

-----------------------------------------------------------------------------
(* The copy that is read is the one that was set.                          *)
CopyInv ==
  /\ {dmVal, drvVal, asked} \subseteq [Attrs -> Values \cup {Default}]
  /\ oddities \cap {"byFunction", "half"} = {} =>
       \A a \in Attrs : asked[a] = IF KeepsItself(a) THEN dmVal[a] ELSE drvVal[a]

LEMMA InitCopy == AttrsInit => CopyInv
BY DEF AttrsInit, CopyInv, Everywhere

LEMMA StepCopy == CopyInv /\ [AttrsNext]_allVars => CopyInv'
<1> SUFFICES ASSUME CopyInv, [AttrsNext]_allVars PROVE CopyInv'
  OBVIOUS
<1>1. ASSUME UNCHANGED <<driver, attrVars>>, oddities \subseteq oddities' PROVE CopyInv'
  BY <1>1 DEF CopyInv, attrVars, KeepsItself
<1>2. ASSUME SetAttr PROVE CopyInv'
  <2>1. PICK a \in Attrs, v \in Values, accepted \in BOOLEAN :
          /\ KeepsItself(a) => accepted
          /\ IF ~accepted THEN UNCHANGED attrVars
             ELSE /\ asked' = [asked EXCEPT ![a] = v]
                  /\ IF KeepsItself(a)
                     THEN dmVal' = [dmVal EXCEPT ![a] = v] /\ UNCHANGED drvVal
                     ELSE drvVal' = [drvVal EXCEPT ![a] = v] /\ UNCHANGED dmVal
          /\ UNCHANGED <<driver, oddities>>
    BY <1>2 DEF SetAttr
  <2>2. CASE ~accepted
    BY <1>1, <2>1, <2>2
  <2>3. CASE accepted
    BY <2>1, <2>3 DEF CopyInv, KeepsItself
  <2> QED
    BY <2>2, <2>3
<1>3. ASSUME SQLParamOptions PROVE CopyInv'
  <2>1. PICK v \in Values, end \in {"done", "half", "refused"} :
          /\ drvVal' = IF end = "refused" THEN drvVal ELSE [drvVal EXCEPT !["kept"] = v]
          /\ asked' = IF end = "done" THEN [asked EXCEPT !["kept"] = v] ELSE asked
          /\ oddities' = oddities \cup (IF end = "half" THEN {"half"} ELSE {})
                        \cup (IF end = "done" /\ driver.ver = 2 THEN {"byFunction"} ELSE {})
          /\ UNCHANGED <<driver, dmVal>>
    BY <1>3 DEF SQLParamOptions, ParamOptions
  <2> QED
    BY <2>1 DEF CopyInv, KeepsItself, Attrs
<1>4. ASSUME NEW s \in Stmts, SQLAllocStmt(s) \/ SQLFreeStmt(s) PROVE CopyInv'
  BY <1>1, <1>4 DEF SQLAllocStmt, SQLFreeStmt
<1>5. ASSUME NEW d \in Explicit, SQLAllocDesc(d) \/ DescCall(d) PROVE CopyInv'
  BY <1>1, <1>5 DEF SQLAllocDesc, DescCall
<1>6. ASSUME NEW d, SQLFreeDesc(d) PROVE CopyInv'
  BY <1>1, <1>6 DEF SQLFreeDesc
<1>7. ASSUME SQLDisconnect \/ GetDesc PROVE CopyInv'
  BY <1>1, <1>7 DEF SQLDisconnect, GetDesc
<1>8. ASSUME SetDesc PROVE CopyInv'
  BY <1>1, <1>8 DEF SetDesc, ResetDesc, TakeDesc
<1>9. CASE UNCHANGED allVars
  BY <1>1, <1>9 DEF allVars
<1> QED
  BY <1>2, <1>3, <1>4, <1>5, <1>6, <1>7, <1>8, <1>9 DEF AttrsNext

(* What SQLGetStmtAttr answers is what was set, from whichever of the two  *)
(* copies the driver's version makes it read.                              *)
THEOREM ReadsWhatWasSetHolds == AttrsSpec => []ReadsWhatWasSet
<1>1. CopyInv => ReadsWhatWasSet
  BY DEF CopyInv, ReadsWhatWasSet, Read, KeepsItself, Attrs
<1> QED
  BY <1>1, InitCopy, StepCopy, PTL DEF AttrsSpec

-----------------------------------------------------------------------------
(***************************************************************************)
(* The row set and the wide columns.  The list has an entry per column.    *)
(***************************************************************************)
OneEach(s) == \A i, j \in DOMAIN s : s[i].col = s[j].col => i = j

Binding == [col : Cols, buf : Bufs, ind : BOOLEAN]

(* The driver's binding of a column on the list.                           *)
Driven(e) == [buf |-> e.buf, wide |-> TRUE, ind |-> e.ind]

(* What the operations of the list do to the set of its entries.           *)
LEMMA Bound1 ==
  ASSUME binds \in Seq(Binding), OneEach(binds), NEW x \in Binding
  PROVE  /\ BindColumn(x) \in Seq(Binding) /\ OneEach(BindColumn(x))
         /\ \A e : e \in ToSet(BindColumn(x)) <=> e = x \/ (e \in ToSet(binds) /\ e.col # x.col)
<1> DEFINE c == x.col
           at == {i \in DOMAIN binds : binds[i].col = c}
<1>1. DOMAIN binds = 1 .. Len(binds) /\ Len(binds) \in Nat
  OBVIOUS
<1>2. CASE at = {}
  <2> DEFINE s == Append(binds, x)
  <2>1. BindColumn(x) = s
    BY <1>2 DEF BindColumn
  <2>2. /\ s \in Seq(Binding) /\ DOMAIN s = 1 .. Len(binds) + 1 /\ s[Len(binds) + 1] = x
        /\ \A i \in DOMAIN binds : s[i] = binds[i]
    <3>1. /\ s \in Seq(Binding) /\ Len(s) = Len(binds) + 1 /\ s[Len(binds) + 1] = x
          /\ \A i \in 1 .. Len(binds) : s[i] = binds[i]
      BY <1>1, AppendProperties
    <3> HIDE DEF s
    <3> QED BY <1>1, <3>1, LenProperties
  <2>3. \A i \in DOMAIN binds : binds[i].col # c
    BY <1>2
  <2> HIDE DEF s
  <2>4. OneEach(s)
    BY <1>1, <2>2, <2>3 DEF OneEach
  <2>5. ASSUME NEW e PROVE e \in ToSet(s) <=> e = x \/ (e \in ToSet(binds) /\ e.col # c)
    BY <1>1, <2>2, <2>3 DEF ToSet
  <2> QED BY <2>1, <2>2, <2>4, <2>5, Zenon
<1>3. CASE at # {}
  <2>1. PICK k \in DOMAIN binds : binds[k].col = c /\ BindColumn(x) = [binds EXCEPT ![k] = x]
    <3>1. (CHOOSE i \in at : TRUE) \in at
      BY <1>3
    <3> QED BY <1>3, <3>1 DEF BindColumn
  <2> DEFINE s == BindColumn(x)
  <2>3. /\ DOMAIN s = DOMAIN binds /\ s[k] = x
        /\ \A i \in DOMAIN binds : i # k => s[i] = binds[i]
    BY <2>1
  <2>4. s \in Seq(Binding)
    <3>1. s = [i \in 1 .. Len(binds) |-> s[i]]
      <4>1. s = [binds EXCEPT ![k] = x]
        BY <2>1
      <4> HIDE DEF s
      <4> QED BY <1>1, <4>1
    <3>2. \A i \in 1 .. Len(binds) : s[i] \in Binding
      BY <1>1, <2>3
    <3> HIDE DEF s
    <3> QED BY <1>1, <3>1, <3>2
  <2> HIDE DEF s
  <2>5. \A i \in DOMAIN binds : i # k => binds[i].col # c
    BY <2>1 DEF OneEach
  <2>6. OneEach(s)
    BY <1>1, <2>1, <2>3 DEF OneEach
  <2>7. ASSUME NEW e PROVE e \in ToSet(s) <=> e = x \/ (e \in ToSet(binds) /\ e.col # c)
    BY <1>1, <2>1, <2>3, <2>5 DEF ToSet
  <2>8. s = BindColumn(x)
    BY DEF s
  <2> QED BY <2>4, <2>6, <2>7, <2>8, Zenon
<1> QED BY <1>2, <1>3

LEMMA TakenOut ==
  ASSUME NEW T, NEW s \in Seq(T), NEW i \in DOMAIN s
  PROVE  /\ RemoveAt(s, i) \in Seq(T) /\ DOMAIN RemoveAt(s, i) = 1 .. Len(s) - 1
         /\ \A j \in 1 .. Len(s) - 1 : RemoveAt(s, i)[j] = s[IF j < i THEN j ELSE j + 1]
<1> DEFINE front == SubSeq(s, 1, i - 1)
           back  == SubSeq(s, i + 1, Len(s))
<1>0. Len(s) \in Nat /\ DOMAIN s = 1 .. Len(s) /\ i \in 1 .. Len(s)
  BY LenProperties
<1>1. /\ front \in Seq(T) /\ Len(front) = i - 1
      /\ \A j \in 1 .. i - 1 : front[j] = s[j]
  BY <1>0, SubSeqProperties
<1>2. /\ back \in Seq(T) /\ Len(back) = Len(s) - i
      /\ \A j \in 1 .. Len(s) - i : back[j] = s[i + j]
  <2>1. \A j \in i + 1 .. Len(s) : j \in 1 .. Len(s)
    BY <1>0
  <2> QED BY <1>0, <2>1, SubSeqProperties
<1> HIDE DEF front, back
<1>3. /\ front \o back \in Seq(T) /\ Len(front \o back) = Len(front) + Len(back)
      /\ \A j \in 1 .. Len(front) + Len(back) :
           (front \o back)[j] = IF j <= Len(front) THEN front[j] ELSE back[j - Len(front)]
  BY <1>1, <1>2, ConcatProperties
<1>4. RemoveAt(s, i) = front \o back
  BY DEF RemoveAt, front, back
<1>5. ASSUME NEW j \in 1 .. Len(s) - 1
      PROVE  (front \o back)[j] = s[IF j < i THEN j ELSE j + 1]
  <2>1. CASE j < i
    BY <1>0, <1>1, <1>2, <1>3, <2>1
  <2>2. CASE ~(j < i)
    <3>1. (front \o back)[j] = back[j - Len(front)]
      BY <1>0, <1>1, <1>2, <1>3, <2>2
    <3>2. j - (i - 1) \in 1 .. Len(s) - i /\ i + (j - (i - 1)) = j + 1
      BY <1>0, <2>2
    <3> QED BY <1>1, <1>2, <2>2, <3>1, <3>2
  <2> QED BY <2>1, <2>2
<1>6. Len(front \o back) = Len(s) - 1
  BY <1>0, <1>1, <1>2, <1>3
<1>7. DOMAIN (front \o back) = 1 .. Len(s) - 1
  BY <1>3, <1>6, LenProperties
<1> QED BY <1>3, <1>4, <1>5, <1>7

LEMMA Unbound1 ==
  ASSUME binds \in Seq(Binding), OneEach(binds), NEW c \in Cols
  PROVE  /\ UnBindColumn(c) \in Seq(Binding) /\ OneEach(UnBindColumn(c))
         /\ \A e : e \in ToSet(UnBindColumn(c)) <=> (e \in ToSet(binds) /\ e.col # c)
<1> DEFINE s == UnBindColumn(c)
<1>1. DOMAIN binds = 1 .. Len(binds) /\ Len(binds) \in Nat
  OBVIOUS
<1>2. CASE ~Listed(c)
  BY <1>2 DEF UnBindColumn, Listed, ToSet
<1>3. CASE Listed(c)
  <2> DEFINE First(i) == binds[i].col = c /\ \A j \in 1 .. i - 1 : binds[j].col # c
             k == CHOOSE i \in DOMAIN binds : First(i)
  <2>1. PICK m \in DOMAIN binds : binds[m].col = c
    BY <1>3 DEF Listed
  <2>2. \A i \in DOMAIN binds : i # m => binds[i].col # c
    BY <2>1 DEF OneEach
  <2>3. First(m)
    BY <1>1, <2>1, <2>2
  <2>4. k = m
    BY <2>2, <2>3
  <2>5. s = RemoveAt(binds, m)
    BY <1>3, <2>4 DEF UnBindColumn
  <2>6. /\ s \in Seq(Binding) /\ DOMAIN s = 1 .. Len(binds) - 1
        /\ \A i \in 1 .. Len(binds) - 1 : s[i] = binds[IF i < m THEN i ELSE i + 1]
    BY <1>1, <2>5, TakenOut
  <2> HIDE DEF s, k, First
  <2>7. \A i \in DOMAIN s : (IF i < m THEN i ELSE i + 1) \in DOMAIN binds /\ (IF i < m THEN i ELSE i + 1) # m
    BY <1>1, <2>6
  <2>8. OneEach(s)
    <3> SUFFICES ASSUME NEW i \in DOMAIN s, NEW j \in DOMAIN s, s[i].col = s[j].col PROVE i = j
      BY DEF OneEach
    <3>1. (IF i < m THEN i ELSE i + 1) = (IF j < m THEN j ELSE j + 1)
      BY <2>6, <2>7 DEF OneEach
    <3> QED BY <1>1, <2>6, <3>1
  <2>9. ASSUME NEW e PROVE e \in ToSet(s) <=> (e \in ToSet(binds) /\ e.col # c)
    <3>1. ASSUME e \in ToSet(s) PROVE e \in ToSet(binds) /\ e.col # c
      BY <2>2, <2>6, <2>7, <3>1 DEF ToSet
    <3>2. ASSUME e \in ToSet(binds), e.col # c PROVE e \in ToSet(s)
      <4>1. PICK i \in DOMAIN binds : binds[i] = e
        BY <3>2 DEF ToSet
      <4>2. i # m
        BY <2>1, <3>2, <4>1
      <4>3. CASE i < m
        BY <1>1, <2>6, <4>1, <4>3 DEF ToSet
      <4>4. CASE i > m
        <5>1. i - 1 \in DOMAIN s /\ s[i - 1] = e
          BY <1>1, <2>6, <4>1, <4>4
        <5> QED BY <5>1 DEF ToSet
      <4> QED BY <1>1, <4>2, <4>3, <4>4
    <3> QED BY <3>1, <3>2
  <2> QED BY <2>6, <2>8, <2>9 DEF s
<1> QED BY <1>2, <1>3

-----------------------------------------------------------------------------
RowsTypes ==
  /\ setting \in [app : {2, 3}, driver : {2, 3}]
  /\ drv \in [arr : 1 .. MaxRows, rows : 1 .. MaxRows]
  /\ drvBound \in [Cols -> [buf : Bufs, wide : BOOLEAN, ind : BOOLEAN] \cup {Unbound}]
  /\ rowset_size \in Nat
  /\ status \in [of : {"none", "app", "dm"}, len : Nat]

(* The list has an entry per column, and, as long as no column is bound    *)
(* again under another type, they are the wide columns and their buffers.  *)
ListInv ==
  /\ binds \in Seq(Binding) /\ OneEach(binds)
  /\ "rebound" \notin ways =>
       \A e \in Binding : e \in ToSet(binds) <=> drvBound[e.col] = Driven(e)

(* A buffer is one column's.                                               *)
BufferInv == \A c, d \in Bound : drvBound[c].buf = drvBound[d].buf => c = d

Sized == ways \cap {"byRowsetAttr", "byOption", "refused", "noStatus"} = {}

(* The row set size is one of a buffer's, and the array of statuses given  *)
(* to the driver as long as the driver's row set.                          *)
SizeInv ==
  /\ "byAttr" \notin ways => rowset_size <= MaxRows
  /\ "byRow" \notin ways => bind_type = "column" /\ ~drvByRow
  /\ ~Old => status.of = "none"
  /\ Sized => /\ Emulated => status.of # "none"
              /\ status.of # "none" => drv.rows <= status.len

(* The process ends for a column the driver has bound.                     *)
CrashInv ==
  "rebound" \notin ways /\ "crash" \in hurt => \E c \in Bound : drvBound[c].wide /\ ~drvBound[c].ind

RowsInv == RowsTypes /\ ListInv /\ BufferInv /\ SizeInv /\ InsideTheRows /\ CrashInv

LEMMA InitRows == RowsInit => RowsInv
<1> SUFFICES ASSUME RowsInit PROVE RowsInv
  OBVIOUS
<1> USE RowsetAssumption
<1>1. binds = << >> /\ ways = {} /\ \A c \in Cols : drvBound[c] = Unbound
  BY DEF RowsInit
<1>2. RowsTypes
  BY DEF RowsInit, RowsTypes, DmStatus, NoStatus
<1>3. ListInv
  BY <1>1 DEF ListInv, OneEach, ToSet, Binding, Unbound, Driven
<1>4. BufferInv
  BY <1>1 DEF BufferInv, Bound
<1>5. SizeInv
  BY DEF RowsInit, SizeInv, DmStatus, NoStatus, Emulated
<1>6. InsideTheRows /\ CrashInv
  BY DEF RowsInit, InsideTheRows, CrashInv
<1> QED BY <1>2, <1>3, <1>4, <1>5, <1>6 DEF RowsInv

(* What is true of the list and the buffers does not depend on the sizes,  *)
(* and neither does what was written already.                              *)
LEMMA SizesApart ==
  ASSUME RowsInv, UNCHANGED <<setting, drvBound, binds, hurt>>, ways \subseteq ways'
  PROVE  ListInv' /\ BufferInv' /\ InsideTheRows' /\ CrashInv'
<1>1. ListInv'
  BY DEF RowsInv, ListInv, OneEach, ToSet
<1>2. BufferInv'
  BY DEF RowsInv, BufferInv, Bound
<1>3. InsideTheRows'
  BY DEF RowsInv, InsideTheRows
<1>4. CrashInv'
  BY DEF RowsInv, CrashInv, Bound
<1> QED BY <1>1, <1>2, <1>3, <1>4

LEMMA TakenIs ==
  ASSUME NEW n \in Sizes, NEW answer \in SizeAnswers
  PROVE  Taken(n, answer) \in 1 .. MaxRows /\ Taken(n, answer) <= 2 * n /\ n \in 1 .. MaxRows
BY RowsetAssumption DEF Taken

Settings ==
  \/ SetRowArraySize \/ SetRowsetAttr \/ SetRowsetOption
  \/ SetBindTypeOption \/ SetBindTypeAttr \/ SetRowStatusPtr \/ SQLSetScrollOptions

LEMMA SettingsKeep == ASSUME RowsInv, Settings PROVE RowsInv'
<1> USE RowsetAssumption
<1>1. RowsTypes /\ SizeInv
  BY DEF RowsInv
<1>2. ASSUME NEW n \in Sizes, NEW answer \in SizeAnswers,
             SetRowArraySize3(n, answer) \/ SetRowArraySize2(n, answer),
             ways' = Did("byAttr", answer) \cup (IF Old /\ status.of = "app" THEN {"sizedAfterStatus"} ELSE {}),
             UNCHANGED <<setting, drvBound, drvByRow, bind_type, binds, cells, hurt>>
      PROVE  RowsInv'
  <2>1. /\ Taken(n, answer) \in 1 .. MaxRows /\ Taken(n, answer) <= 2 * n /\ n \in 1 .. MaxRows
        /\ ways \subseteq ways' /\ "byAttr" \in ways' /\ (answer = "refused" => "refused" \in ways')
    BY <1>2, TakenIs DEF Did
  <2>2. CASE SetRowArraySize3(n, answer)
    <3>1. /\ ~Old /\ UNCHANGED status /\ drv'.rows = drv.rows
          /\ drv' \in [arr : 1 .. MaxRows, rows : 1 .. MaxRows] /\ rowset_size' \in Nat
      BY <1>1, <2>1, <2>2 DEF RowsTypes, SetRowArraySize3, Noted, SizeAnswers
    <3>2. RowsTypes'
      BY <1>1, <1>2, <3>1 DEF RowsTypes
    <3>3. SizeInv'
      BY <1>1, <1>2, <2>1, <3>1 DEF SizeInv, Sized, Old, Emulated
    <3> QED BY <1>2, <2>1, <3>2, <3>3, SizesApart DEF RowsInv
  <2>3. CASE SetRowArraySize2(n, answer)
    <3>1. /\ Old /\ status' = [of |-> "dm", len |-> 2 * n]
          /\ drv' \in [arr : 1 .. MaxRows, rows : 1 .. MaxRows] /\ rowset_size' \in Nat
          /\ answer = "refused" \/ drv'.rows = Taken(n, answer)
      BY <1>1, <2>1, <2>3 DEF RowsTypes, SetRowArraySize2, Noted, SizeAnswers, DmStatus
    <3>2. RowsTypes'
      BY <1>1, <1>2, <2>1, <3>1 DEF RowsTypes
    <3>3. SizeInv'
      BY <1>1, <1>2, <2>1, <3>1 DEF SizeInv, Sized, Old, Emulated
    <3> QED BY <1>2, <2>1, <3>2, <3>3, SizesApart DEF RowsInv
  <2> QED BY <1>2, <2>2, <2>3
<1>3. ASSUME NEW n \in Sizes, NEW answer \in SizeAnswers,
             drv' = drv \/ drv' = [drv EXCEPT !.rows = Taken(n, answer)],
             "byRowsetAttr" \in ways', ways \subseteq ways',
             UNCHANGED <<setting, drvBound, drvByRow, dm, binds, cells, hurt>>
      PROVE  RowsInv'
  <2>1. RowsTypes'
    BY <1>1, <1>3, TakenIs DEF RowsTypes, dm
  <2>2. SizeInv'
    BY <1>1, <1>3 DEF SizeInv, Sized, dm, Old, Emulated
  <2> QED BY <1>3, <2>1, <2>2, SizesApart DEF RowsInv
<1>4. ASSUME NEW n \in Sizes, NEW answer \in SizeAnswers,
             drv' = drv \/ drv' = [drv EXCEPT !.rows = Taken(n, answer)],
             rowset_size' = OptionNoted(n, answer, drv'.rows), ways' = Did("byOption", answer),
             UNCHANGED <<setting, drvBound, drvByRow, bind_type, status, binds, cells, hurt>>
      PROVE  RowsInv'
  <2>1. RowsTypes' /\ (rowset_size' = rowset_size \/ rowset_size' <= MaxRows)
    BY <1>1, <1>4, TakenIs DEF RowsTypes, OptionNoted, SizeAnswers
  <2>2. SizeInv' /\ ways \subseteq ways'
    BY <1>1, <1>4, <2>1 DEF SizeInv, Sized, Did, Old, Emulated
  <2> QED BY <1>4, <2>1, <2>2, SizesApart DEF RowsInv
<1>5. ASSUME "byRow" \in ways', ways \subseteq ways',
             UNCHANGED <<setting, drv, drvBound, rowset_size, status, binds, cells, hurt>>
      PROVE  RowsInv'
  BY <1>1, <1>5, SizesApart DEF RowsInv, RowsTypes, SizeInv, Sized, Old, Emulated
<1>6. CASE SetRowStatusPtr
  <2>1. PICK given \in BOOLEAN :
          /\ status' = IF ~Old THEN status
                       ELSE IF given THEN [of |-> "app", len |-> MaxRows] ELSE NoStatus
          /\ ways' = IF given \/ ~Old THEN ways ELSE ways \cup {"noStatus"}
          /\ UNCHANGED <<setting, drv, drvBound, drvByRow, rowset_size, bind_type, binds, cells, hurt>>
    BY <1>6 DEF SetRowStatusPtr
  <2>2. RowsTypes'
    BY <1>1, <2>1 DEF RowsTypes, NoStatus
  <2>3. SizeInv' /\ ways \subseteq ways'
    <3>1. drv.rows <= MaxRows
      BY <1>1 DEF RowsTypes
    <3>2. CASE ~Old
      BY <1>1, <2>1, <3>1, <3>2 DEF SizeInv, Sized, Old, Emulated
    <3>3. CASE Old /\ given
      BY <1>1, <2>1, <3>1, <3>3 DEF SizeInv, Sized, Old, Emulated
    <3>4. CASE Old /\ ~given
      BY <1>1, <2>1, <3>4 DEF SizeInv, Sized, Old, Emulated
    <3> QED BY <3>2, <3>3, <3>4
  <2> QED BY <2>1, <2>2, <2>3, SizesApart DEF RowsInv
<1>7. CASE SetRowArraySize
  BY <1>2, <1>7 DEF SetRowArraySize
<1>8. CASE SetRowsetAttr
  BY <1>3, <1>8 DEF SetRowsetAttr, Did
<1>9. CASE SQLSetScrollOptions
  BY <1>3, <1>9 DEF SQLSetScrollOptions, SetScrollOptions, Did
<1>10. CASE SetRowsetOption
  BY <1>4, <1>10 DEF SetRowsetOption
<1>11. CASE SetBindTypeOption \/ SetBindTypeAttr
  BY <1>5, <1>11 DEF SetBindTypeOption, SetBindTypeAttr
<1> QED BY <1>6, <1>7, <1>8, <1>9, <1>10, <1>11 DEF Settings

(* A binding is of a buffer that no other column has.                      *)
LEMMA BindColKeeps == ASSUME RowsInv, "crash" \notin hurt, BindCol PROVE RowsInv'
<1>1. PICK c \in Cols, buf \in Bufs, wide \in BOOLEAN, ind \in BOOLEAN :
        /\ \A d \in Cols \ {c} : drvBound[d].buf # buf
        /\ drvBound' = [drvBound EXCEPT ![c] = [buf |-> buf, wide |-> wide, ind |-> ind]]
        /\ binds' = IF wide THEN BindColumn([col |-> c, buf |-> buf, ind |-> ind]) ELSE binds
        /\ ways' = ways \cup (IF ~wide /\ Listed(c) THEN {"rebound"} ELSE {})
                        \cup (IF wide /\ ~ind THEN {"noIndicator"} ELSE {})
        /\ UNCHANGED <<setting, drv, drvByRow, dm, hurt>>
  BY DEF BindCol
<1>2. RowsTypes /\ ListInv
  BY DEF RowsInv
<1>3. /\ drvBound'[c] = [buf |-> buf, wide |-> wide, ind |-> ind]
      /\ \A d \in Cols \ {c} : drvBound'[d] = drvBound[d]
  BY <1>1, <1>2 DEF RowsTypes
<1>4. ways \subseteq ways'
  BY <1>1
<1>5. RowsTypes'
  BY <1>1, <1>2 DEF RowsTypes, dm
<1>6. ListInv'
  <2>1. CASE wide
    <3> DEFINE x == [col |-> c, buf |-> buf, ind |-> ind]
    <3>1. x \in Binding /\ x.col = c
      BY DEF Binding
    <3>2. drvBound'[c] = Driven(x)
      BY <1>3, <2>1 DEF Driven
    <3>3. \A e \in Binding : e.col = c => (e = x <=> Driven(e) = Driven(x))
      <4> SUFFICES ASSUME NEW e \in Binding, e.col = c PROVE e = x <=> Driven(e) = Driven(x)
        OBVIOUS
      <4>1. ASSUME Driven(e) = Driven(x) PROVE e = x
        <5>1. Driven(e).buf = e.buf /\ Driven(e).ind = e.ind /\ Driven(x).buf = buf /\ Driven(x).ind = ind
          BY DEF Driven
        <5> QED BY <4>1, <5>1 DEF Binding
      <4> QED BY <4>1
    <3>4. binds' = BindColumn(x)
      BY <1>1, <2>1
    <3> HIDE DEF x
    <3>5. /\ binds' \in Seq(Binding) /\ OneEach(binds')
          /\ \A e : e \in ToSet(binds') <=> e = x \/ (e \in ToSet(binds) /\ e.col # c)
      BY <1>2, <3>1, <3>4, Bound1 DEF ListInv
    <3>6. ASSUME "rebound" \notin ways, NEW e \in Binding
          PROVE  e \in ToSet(binds') <=> drvBound'[e.col] = Driven(e)
      <4>1. CASE e.col = c
        BY <3>2, <3>3, <3>5, <4>1
      <4>2. CASE e.col # c
        <5>1. e # x /\ e.col \in Cols
          BY <3>1, <4>2 DEF Binding
        <5>2. e \in ToSet(binds') <=> e \in ToSet(binds)
          BY <3>5, <4>2, <5>1, Zenon
        <5>3. e \in ToSet(binds) <=> drvBound[e.col] = Driven(e)
          BY <1>2, <3>6, Zenon DEF ListInv
        <5>4. drvBound'[e.col] = drvBound[e.col]
          BY <1>3, <4>2, <5>1
        <5> QED BY <5>2, <5>3, <5>4
      <4> QED BY <4>1, <4>2
    <3>7. OneEach(binds)' /\ \A e : e \in ToSet(binds)' <=> e \in ToSet(binds')
      BY <3>5 DEF OneEach, ToSet
    <3> QED BY <1>4, <3>5, <3>6, <3>7 DEF ListInv
  <2>2. CASE ~wide
    <3>1. binds' = binds /\ OneEach(binds)' /\ \A e : e \in ToSet(binds)' <=> e \in ToSet(binds)
      BY <1>1, <1>2, <2>2 DEF ListInv, OneEach, ToSet
    <3>2. ASSUME "rebound" \notin ways', NEW e \in Binding
          PROVE  e \in ToSet(binds) <=> drvBound'[e.col] = Driven(e)
      <4>1. ~Listed(c) /\ "rebound" \notin ways
        BY <1>1, <2>2, <3>2
      <4>2. CASE e.col = c
        BY <1>3, <2>2, <4>1, <4>2 DEF Listed, ToSet, Driven
      <4>3. CASE e.col # c
        BY <1>2, <1>3, <4>1, <4>3 DEF ListInv, Binding
      <4> QED BY <4>2, <4>3
    <3> QED BY <1>2, <3>1, <3>2 DEF ListInv
  <2> QED BY <2>1, <2>2
<1>7. BufferInv'
  BY <1>1, <1>3 DEF RowsInv, BufferInv, Bound
<1>8. SizeInv'
  BY <1>1, <1>4 DEF RowsInv, SizeInv, Sized, Old, Emulated, dm
<1>9. InsideTheRows' /\ CrashInv'
  BY <1>1, <1>4 DEF RowsInv, InsideTheRows, CrashInv
<1> QED BY <1>5, <1>6, <1>7, <1>8, <1>9 DEF RowsInv

LEMMA UnbindKeeps == ASSUME RowsInv, "crash" \notin hurt, UnbindCol \/ RemoveBind PROVE RowsInv'
<1>1. RowsTypes /\ ListInv
  BY DEF RowsInv
<1>2. ASSUME UNCHANGED <<setting, drv, drvByRow, dm, hurt>>, ways \subseteq ways',
             drvBound' \in [Cols -> [buf : Bufs, wide : BOOLEAN, ind : BOOLEAN] \cup {Unbound}],
             \A d \in Cols : drvBound'[d] \in {drvBound[d], Unbound},
             ListInv'
      PROVE  RowsInv'
  <2>1. RowsTypes' /\ SizeInv' /\ InsideTheRows' /\ CrashInv'
    BY <1>2 DEF RowsInv, RowsTypes, SizeInv, Sized, InsideTheRows, CrashInv, Old, Emulated, dm
  <2>2. \A d \in Bound' : d \in Bound /\ drvBound'[d] = drvBound[d]
    BY <1>2 DEF Bound
  <2>3. BufferInv'
    BY <1>2, <2>2 DEF RowsInv, BufferInv
  <2> QED BY <1>2, <2>1, <2>3 DEF RowsInv
<1>3. CASE UnbindCol
  <2>1. PICK c \in Bound, wide \in BOOLEAN :
          /\ drvBound' = [drvBound EXCEPT ![c] = Unbound]
          /\ binds' = IF wide THEN UnBindColumn(c) ELSE binds
          /\ ways' = IF ~wide /\ Listed(c) THEN ways \cup {"rebound"} ELSE ways
          /\ UNCHANGED <<setting, drv, drvByRow, dm, hurt>>
    BY <1>3 DEF UnbindCol
  <2>2. /\ c \in Cols /\ drvBound'[c] = Unbound
        /\ \A d \in Cols \ {c} : drvBound'[d] = drvBound[d]
    BY <1>1, <2>1 DEF RowsTypes, Bound
  <2>3. /\ drvBound' \in [Cols -> [buf : Bufs, wide : BOOLEAN, ind : BOOLEAN] \cup {Unbound}]
        /\ ways \subseteq ways'
    BY <1>1, <2>1 DEF RowsTypes
  <2>4. /\ binds' \in Seq(Binding) /\ OneEach(binds')
        /\ "rebound" \notin ways' =>
             \A e : e \in ToSet(binds') <=> (e \in ToSet(binds) /\ e.col # c)
    <3>1. CASE wide
      BY <1>1, <2>1, <2>2, <3>1, Unbound1 DEF ListInv
    <3>2. CASE ~wide
      BY <1>1, <2>1, <3>2 DEF ListInv, Listed, ToSet
    <3> QED BY <3>1, <3>2
  <2>5. ListInv'
    <3>1. OneEach(binds)' /\ \A e : e \in ToSet(binds)' <=> e \in ToSet(binds')
      BY <2>4 DEF OneEach, ToSet
    <3>2. ASSUME "rebound" \notin ways', NEW e \in Binding
          PROVE  e \in ToSet(binds') <=> drvBound'[e.col] = Driven(e)
      <4>1. "rebound" \notin ways /\ e.col \in Cols
        BY <2>3, <3>2 DEF Binding
      <4>2. CASE e.col = c
        BY <2>2, <2>4, <3>2, <4>2 DEF Unbound, Driven
      <4>3. CASE e.col # c
        BY <1>1, <2>2, <2>4, <3>2, <4>1, <4>3 DEF ListInv
      <4> QED BY <4>2, <4>3
    <3> QED BY <2>4, <3>1, <3>2 DEF ListInv
  <2> QED BY <1>2, <2>1, <2>2, <2>3, <2>5
<1>4. CASE RemoveBind
  <2>1. PICK agreed \in BOOLEAN :
          /\ drvBound' = IF agreed THEN [c \in Cols |-> Unbound] ELSE drvBound
          /\ binds' = IF agreed THEN << >> ELSE binds
          /\ UNCHANGED <<setting, drv, drvByRow, dm, hurt, ways>>
    BY <1>4 DEF RemoveBind
  <2>2. ListInv'
    <3>1. CASE agreed
      <4>1. binds' = << >> /\ binds' \in Seq(Binding) /\ \A c \in Cols : drvBound'[c] = Unbound
        BY <2>1, <3>1
      <4> QED BY <4>1 DEF ListInv, OneEach, ToSet, Binding, Unbound, Driven
    <3>2. CASE ~agreed
      BY <1>1, <2>1, <3>2 DEF ListInv, OneEach, ToSet
    <3> QED BY <3>1, <3>2
  <2> QED BY <1>1, <1>2, <2>1, <2>2 DEF RowsTypes
<1> QED BY <1>3, <1>4

(***************************************************************************)
(* A fetch.  Nobody but a wide column's own entry has the buffer of a      *)
(* column, so that when the row set is as long as the driver manager says, *)
(* every row the driver wrote as narrow text is reached once, and no other.*)
(***************************************************************************)
LEMMA EntryIsBound ==
  ASSUME RowsInv, "rebound" \notin ways
  PROVE  /\ \A i \in DOMAIN binds : binds[i] \in Binding /\ drvBound[binds[i].col] = Driven(binds[i])
         /\ \A c \in Bound : drvBound[c].wide =>
              \E i \in DOMAIN binds : binds[i].col = c /\ binds[i].buf = drvBound[c].buf
<1>1. ListInv /\ RowsTypes
  BY DEF RowsInv
<1>2. ASSUME NEW i \in DOMAIN binds
      PROVE  binds[i] \in Binding /\ drvBound[binds[i].col] = Driven(binds[i])
  <2>1. binds[i] \in Binding /\ binds[i] \in ToSet(binds)
    BY <1>1 DEF ListInv, ToSet
  <2> QED BY <1>1, <2>1 DEF ListInv
<1>3. ASSUME NEW c \in Bound, drvBound[c].wide
      PROVE  \E i \in DOMAIN binds : binds[i].col = c /\ binds[i].buf = drvBound[c].buf
  <2> DEFINE e == [col |-> c, buf |-> drvBound[c].buf, ind |-> drvBound[c].ind]
  <2>1. c \in Cols /\ drvBound[c] \in [buf : Bufs, wide : BOOLEAN, ind : BOOLEAN]
    BY <1>1, <1>3 DEF RowsTypes, Bound
  <2>2. drvBound[c] = Driven(e) /\ e \in Binding
    BY <1>3, <2>1 DEF Driven, Binding
  <2>3. e.col = c /\ e.buf = drvBound[c].buf
    OBVIOUS
  <2> HIDE DEF e
  <2>4. e \in ToSet(binds)
    BY <1>1, <2>2, <2>3 DEF ListInv
  <2> QED BY <2>3, <2>4 DEF ToSet
<1> QED BY <1>2, <1>3

(* The buffer of a wide column is on the list once, that of another not.   *)
LEMMA ListedIs ==
  ASSUME RowsInv, "rebound" \notin ways, NEW c \in Bound
  PROVE  /\ drvBound[c].buf \in Bufs
         /\ drvBound[c].wide <=> drvBound[c].buf \in ListedBufs
         /\ drvBound[c].wide <=> drvBound[c].buf \in WideBufs
         /\ ~ListedTwice(drvBound[c].buf)
<1>1. c \in Cols /\ drvBound[c] \in [buf : Bufs, wide : BOOLEAN, ind : BOOLEAN]
  BY DEF RowsInv, RowsTypes, Bound
<1>2. ASSUME NEW i \in DOMAIN binds, binds[i].buf = drvBound[c].buf
      PROVE  binds[i].col = c /\ drvBound[c].wide
  <2>1. binds[i] \in Binding /\ drvBound[binds[i].col] = Driven(binds[i])
    BY EntryIsBound
  <2>2. Driven(binds[i]).buf = binds[i].buf /\ Driven(binds[i]).wide
    BY DEF Driven
  <2>3. binds[i].col \in Cols /\ drvBound[binds[i].col] # Unbound
    BY <2>1, <2>2 DEF Binding, Unbound
  <2> QED BY <1>2, <2>1, <2>2, <2>3 DEF RowsInv, BufferInv, Bound
<1>3. drvBound[c].wide <=> drvBound[c].buf \in ListedBufs
  BY <1>2, EntryIsBound DEF ListedBufs
<1>4. drvBound[c].wide <=> drvBound[c].buf \in WideBufs
  BY DEF WideBufs, RowsInv, BufferInv
<1>5. ~ListedTwice(drvBound[c].buf)
  BY <1>2 DEF ListedTwice, RowsInv, ListInv, OneEach
<1> QED BY <1>1, <1>3, <1>4, <1>5

Told == {"byOption", "byRowsetAttr", "refused", "less", "noStatus", "noIndicator", "long"}

(* What a fetch of n rows leaves in a row of the buffer of a column.       *)
Fetched(new, old, wide, n, r) ==
  \/ new[r].form \in {"empty"} \cup IF wide THEN {"wide", "null"} ELSE {"raw"}
  \/ r > n /\ new[r] = old[r]
  \/ \E p \in 1 .. r : new[p].form = "past" /\ r - p < WideSize

LEMMA FetchFills ==
  ASSUME RowsInv, NEW n \in Nat, n = rowset_size, ways \subseteq Told,
         NEW texts \in [WideBufs -> [1 .. n -> {0} \cup Spans]],
         NEW written, written = [b \in Bufs |-> [r \in 1 .. MaxRows |-> Written(n, texts, b, r)]],
         NEW spills \in [ListedBufs -> SUBSET Reached],
         \A b \in ListedBufs : Spills(spills[b], written[b]),
         NEW c \in Bound, NEW r \in 1 .. MaxRows
  PROVE  LET b == drvBound[c].buf IN
         Fetched(ConvBindData(written, spills)[b], cells[b], drvBound[c].wide, n, r)
<1> DEFINE b == drvBound[c].buf
           row == written[b]
           new == ConvBindData(written, spills)[b]
<1> USE RowsetAssumption
<1>1. /\ b \in Bufs /\ ~ListedTwice(b)
      /\ drvBound[c].wide <=> b \in ListedBufs
      /\ drvBound[c].wide <=> b \in WideBufs
  <2>1. "rebound" \notin ways
    BY DEF Told
  <2> QED BY <2>1, ListedIs
<1>2. Reached = 1 .. n /\ n <= MaxRows /\ MaxRows \in Nat
  <2>1. rowset_size <= MaxRows /\ bind_type = "column" /\ ~drvByRow
    BY DEF RowsInv, SizeInv, Told
  <2>2. Reached = (1 .. n) \cap (1 .. MaxRows)
    BY <2>1 DEF Reached
  <2> QED BY <2>1, <2>2
<1>3. \A q \in 1 .. MaxRows : row[q] = Written(n, texts, b, q)
  BY <1>1
<1>4. \A q \in 1 .. MaxRows :
        new[q] = IF b \in ListedBufs THEN ConvRow(spills[b], row, ListedTwice(b), q) ELSE row[q]
  BY <1>1 DEF ConvBindData
<1> DEFINE old == cells[b]
<1>0. SUFFICES Fetched(new, old, drvBound[c].wide, n, r)
  OBVIOUS
<1> HIDE DEF new, row, old
<1>5. CASE ~drvBound[c].wide
  <2>1. new[r] = Written(n, texts, b, r)
    BY <1>1, <1>3, <1>4, <1>5
  <2>2. \E d \in Bound : drvBound[d].buf = b
    OBVIOUS
  <2>3. CASE r > n
    BY <2>1, <2>3 DEF Written, Fetched, old
  <2>4. CASE ~(r > n)
    <3>1. new[r] = Cell("raw")
      BY <1>1, <1>5, <2>1, <2>2, <2>4 DEF Written
    <3> QED BY <1>5, <3>1 DEF Cell, Fetched
  <2> QED BY <2>3, <2>4
<1>6. CASE drvBound[c].wide
  <2>1. b \in ListedBufs /\ b \in WideBufs /\ Spills(spills[b], row)
    BY <1>1, <1>6 DEF row
  <2> DEFINE S == spills[b]
             k(q) == texts[b][q]
  <2>2. \A q \in 1 .. n : /\ k(q) \in 0 .. WideSize
                          /\ row[q] = IF k(q) = 0 THEN Cell("null") ELSE Narrow(k(q))
    <3>1. \A q \in 1 .. n : k(q) \in {0} \cup Spans
      BY <2>1
    <3>2. \A q \in 1 .. n : row[q] = IF k(q) = 0 THEN Cell("null") ELSE Narrow(k(q))
      BY <1>2, <1>3, <2>1 DEF Written
    <3>3. {0} \cup Spans \subseteq 0 .. WideSize
      OBVIOUS
    <3> HIDE DEF k
    <3> QED BY <3>1, <3>2, <3>3
  <2>3. S \in SUBSET (1 .. n)
    BY <1>2, <2>1
  <2>4. S = {p \in 1 .. n : row[p].form = "narrow" /\ row[p].rows > 1 /\ ~WritesOver(S, row, p)}
    BY <1>2, <2>1 DEF Spills
  <2>5. \A q \in 1 .. MaxRows : new[q] = ConvRow(S, row, FALSE, q)
    <3>1. ListedTwice(b) = FALSE
      BY <1>1 DEF ListedTwice
    <3> QED BY <1>4, <2>1, <3>1
  <2>6. \A q \in 1 .. n : row[q].form = "null" \/ (row[q].form = "narrow" /\ row[q].rows \in 1 .. WideSize)
    <3> HIDE DEF k
    <3> SUFFICES ASSUME NEW q \in 1 .. n
                 PROVE  row[q].form = "null" \/ (row[q].form = "narrow" /\ row[q].rows \in 1 .. WideSize)
      OBVIOUS
    <3>1. CASE k(q) = 0
      BY <2>2, <3>1 DEF Cell
    <3>2. CASE k(q) # 0
      <4>1. row[q] = Narrow(k(q)) /\ k(q) \in 1 .. WideSize
        BY <2>2, <3>2
      <4> QED BY <4>1 DEF Narrow
    <3> QED BY <3>1, <3>2
  <2> HIDE DEF S, k
  <2>7. ASSUME NEW p \in S PROVE p \in 1 .. n /\ new[p].form = "past" /\ row[p].rows \in 1 .. WideSize
    <3>1. p \in 1 .. n /\ p \in 1 .. MaxRows
      BY <1>2, <2>3
    <3>2. row[p].form = "narrow" /\ row[p].rows > 1 /\ ~WritesOver(S, row, p)
      BY <2>4, <2>7
    <3>3. new[p] = Widened(row[p], FALSE)
      BY <1>2, <2>5, <3>1, <3>2 DEF ConvRow
    <3>4. new[p] = Cell("past")
      BY <3>2, <3>3 DEF Widened
    <3> QED BY <2>6, <3>1, <3>2, <3>4 DEF Cell
  <2>8. CASE row[r].form # "null" /\ WritesOver(S, row, r)
    <3>1. PICK p \in S : p < r /\ r < p + row[p].rows
      BY <2>8 DEF WritesOver
    <3>2. p \in 1 .. r /\ new[p].form = "past" /\ r - p < WideSize
      BY <2>7, <3>1
    <3> QED BY <3>2 DEF Fetched
  <2>9. CASE r > n /\ ~(row[r].form # "null" /\ WritesOver(S, row, r))
    <3>1. new[r] = row[r]
      <4>1. r \notin Reached
        BY <1>2, <2>9
      <4>2. CASE row[r].form = "null"
        BY <2>5, <4>2 DEF ConvRow
      <4>3. CASE row[r].form # "null" /\ ~WritesOver(S, row, r)
        BY <2>5, <4>1, <4>3 DEF ConvRow, WritesOver
      <4> QED BY <2>9, <4>2, <4>3
    <3>2. row[r] = old[r]
      BY <1>3, <2>9 DEF Written, old
    <3> QED BY <2>9, <3>1, <3>2 DEF Fetched
  <2>10. CASE r <= n /\ row[r].form = "null"
    <3>1. new[r] = row[r]
      BY <2>5, <2>10 DEF ConvRow
    <3> QED BY <1>6, <2>10, <3>1 DEF Fetched
  <2>11. CASE r <= n /\ row[r].form # "null" /\ ~WritesOver(S, row, r)
    <3>1. r \in 1 .. n /\ row[r].form = "narrow" /\ row[r].rows \in 1 .. WideSize
      BY <2>6, <2>11
    <3>2. CASE row[r].rows > 1
      <4>1. r \in S
        BY <2>4, <2>11, <3>1, <3>2
      <4>2. r \in 1 .. r /\ r - r < WideSize
        OBVIOUS
      <4> QED BY <2>7, <4>1, <4>2 DEF Fetched
    <3>3. CASE ~(row[r].rows > 1)
      <4>1. new[r] = Cell("wide")
        BY <1>2, <2>5, <2>11, <3>1, <3>3 DEF ConvRow, Widened
      <4> QED BY <1>6, <4>1 DEF Fetched, Cell
    <3> QED BY <3>2, <3>3
  <2> QED BY <1>2, <2>8, <2>9, <2>10, <2>11
<1> QED BY <1>5, <1>6

Fetches == SQLFetch \/ SQLFetchScroll \/ SQLExtendedFetch \/ SQLBulkOperations

(* A fetch writes nothing, ends the process, or fills n rows.              *)
LEMMA FetchIs ==
  ASSUME RowsInv, Fetches
  PROVE  \E function \in {"Fetch", "FetchScroll", "ExtendedFetch"}, own \in BOOLEAN :
           /\ function = "ExtendedFetch" /\ ~own => Emulated \/ status.of # "none"
           /\ Fetching(function, own) /\ Filled(function) \in Nat
<1>1. PICK function \in {"Fetch", "FetchScroll", "ExtendedFetch"}, own \in BOOLEAN :
        /\ Fetching(function, own)
        /\ function = "ExtendedFetch" /\ ~own => Emulated \/ status.of # "none"
  BY DEF Fetches, SQLFetch, SQLFetchScroll, SQLExtendedFetch, SQLBulkOperations, FetchCalls, FetchScrollCalls, Fetching
<1>2. Filled(function) \in Nat
  BY DEF RowsInv, RowsTypes, Filled
<1> QED BY <1>1, <1>2

LEMMA FetchKeeps == ASSUME RowsInv, "crash" \notin hurt, Fetches PROVE RowsInv'
<1> USE RowsetAssumption
<1>1. PICK function \in {"Fetch", "FetchScroll", "ExtendedFetch"}, own \in BOOLEAN :
        /\ Fetching(function, own)
        /\ function = "ExtendedFetch" /\ ~own => Emulated \/ status.of # "none"
  BY FetchIs
<1>2. UNCHANGED <<setting, drv, drvBound, drvByRow, dm, binds>>
  BY <1>1 DEF Fetching
<1>3. ASSUME ways \subseteq ways',
             ways' \cap {"byAttr", "byRow", "long"} = {} => "cells" \notin hurt',
             Sized' => "status" \notin hurt', CrashInv'
      PROVE  RowsInv'
  <2>1. RowsTypes'
    BY <1>2 DEF RowsInv, RowsTypes, dm
  <2>2. ListInv' /\ BufferInv'
    BY <1>2, <1>3 DEF RowsInv, ListInv, OneEach, ToSet, BufferInv, Bound
  <2>3. SizeInv'
    BY <1>2, <1>3 DEF RowsInv, SizeInv, Sized, Old, Emulated, dm
  <2>4. InsideTheRows'
    BY <1>3 DEF InsideTheRows, Sized
  <2> QED BY <1>3, <2>1, <2>2, <2>3, <2>4 DEF RowsInv
<1>4. CASE UNCHANGED <<cells, hurt, ways>>
  BY <1>3, <1>4 DEF RowsInv, InsideTheRows, Sized, CrashInv
<1>5. CASE NoIndicator /\ hurt' = hurt \cup {"crash"} /\ UNCHANGED <<cells, ways>>
  <2>1. CrashInv'
    <3> SUFFICES ASSUME "rebound" \notin ways
                 PROVE  \E c \in Bound : drvBound[c].wide /\ ~drvBound[c].ind
      BY <1>2, <1>5 DEF CrashInv, Bound
    <3>1. PICK i \in DOMAIN binds : ~binds[i].ind
      BY <1>5 DEF NoIndicator
    <3>2. binds[i] \in Binding /\ drvBound[binds[i].col] = Driven(binds[i])
      BY EntryIsBound
    <3>3. Driven(binds[i]).wide /\ Driven(binds[i]).ind = binds[i].ind
      BY DEF Driven
    <3>4. binds[i].col \in Bound
      BY <3>2, <3>3 DEF Bound, Binding, Unbound
    <3> QED BY <3>1, <3>2, <3>3, <3>4
  <2> QED BY <1>3, <1>5, <2>1 DEF RowsInv, InsideTheRows, Sized
<1>6. ASSUME NEW n \in 1 .. Filled(function), NEW texts, Rows(function, own, n, texts)
      PROVE  RowsInv'
  <2>1. PICK written : \E spills \in [ListedBufs -> SUBSET Reached] :
          /\ hurt' = hurt \cup ConvHurt(written, spills) \cup StatusHurt(function, own)
          /\ ways' = ways \cup WaysOf(function, n, spills)
    BY <1>6, Zenon DEF Rows
  <2>2. PICK spills \in [ListedBufs -> SUBSET Reached] :
          /\ hurt' = hurt \cup ConvHurt(written, spills) \cup StatusHurt(function, own)
          /\ ways' = ways \cup WaysOf(function, n, spills)
    BY <2>1
  <2>3. ways \subseteq ways' /\ SizeInv /\ rowset_size \in Nat
    BY <2>2 DEF RowsInv, RowsTypes
  <2>4. "status" \notin ConvHurt(written, spills) /\ "crash" \notin ConvHurt(written, spills)
    BY DEF ConvHurt
  <2>5. /\ "cells" \notin StatusHurt(function, own) /\ "crash" \notin StatusHurt(function, own)
        /\ Sized' => "status" \notin StatusHurt(function, own)
    BY <1>1, <2>3 DEF StatusHurt, SizeInv, Sized, RowsInv, RowsTypes
  <2>6. ASSUME ways' \cap {"byAttr", "byRow", "long"} = {} PROVE "cells" \notin ConvHurt(written, spills)
    <3>1. \A b \in ListedBufs : spills[b] = {}
      BY <2>2, <2>6 DEF WaysOf
    <3>2. rowset_size <= MaxRows /\ bind_type = "column"
      BY <2>3, <2>6 DEF SizeInv
    <3> QED BY <2>3, <3>1, <3>2 DEF ConvHurt
  <2>7. CrashInv'
    BY <1>2, <2>2, <2>4, <2>5 DEF CrashInv
  <2>8. ways' \cap {"byAttr", "byRow", "long"} = {} => "cells" \notin hurt'
    BY <2>2, <2>3, <2>5, <2>6 DEF RowsInv, InsideTheRows
  <2>9. Sized' => "status" \notin hurt'
    BY <2>2, <2>3, <2>4, <2>5 DEF RowsInv, InsideTheRows, Sized
  <2> QED BY <1>3, <2>3, <2>7, <2>8, <2>9
<1> QED BY <1>1, <1>4, <1>5, <1>6 DEF Fetching

LEMMA RowsAlways == RowsSpec => []RowsInv
<1>1. ASSUME RowsInv, RowsNext PROVE RowsInv'
  <2>1. "crash" \notin hurt /\ (Settings \/ BindCol \/ UnbindCol \/ RemoveBind \/ Fetches)
    BY <1>1 DEF RowsNext, Settings, Fetches
  <2> QED BY <1>1, <2>1, SettingsKeep, BindColKeeps, UnbindKeeps, FetchKeeps
<1>2. ASSUME RowsInv, UNCHANGED rowsVars PROVE RowsInv'
  <2>1. UNCHANGED <<setting, drvBound, binds, hurt>> /\ ways \subseteq ways'
    BY <1>2 DEF rowsVars
  <2>2. RowsTypes' /\ SizeInv'
    BY <1>2 DEF RowsInv, RowsTypes, SizeInv, Sized, Old, Emulated, rowsVars, dm
  <2> QED BY <1>2, <2>1, <2>2, SizesApart DEF RowsInv
<1> QED BY <1>1, <1>2, InitRows, PTL DEF RowsSpec

(***************************************************************************)
(* The list of wide columns is the driver's, as long as no such column is  *)
(* bound again, or unbound, under another type.                            *)
(***************************************************************************)
THEOREM ListIsBoundHolds == RowsSpec => []ListIsBound
<1>1. ASSUME RowsInv PROVE ListIsBound
  <2> SUFFICES ASSUME "rebound" \notin ways
               PROVE  /\ \A i \in DOMAIN binds :
                           drvBound[binds[i].col] =
                             [buf |-> binds[i].buf, wide |-> TRUE, ind |-> binds[i].ind]
                      /\ \A c \in Bound : drvBound[c].wide =>
                           Cardinality({i \in DOMAIN binds : binds[i].col = c}) = 1
                      /\ "crash" \in hurt => \E c \in Bound : drvBound[c].wide /\ ~drvBound[c].ind
    BY DEF ListIsBound
  <2>1. ASSUME NEW c \in Bound, drvBound[c].wide
        PROVE  Cardinality({i \in DOMAIN binds : binds[i].col = c}) = 1
    <3>1. PICK k \in DOMAIN binds : binds[k].col = c
      BY <1>1, <2>1, EntryIsBound
    <3>2. {i \in DOMAIN binds : binds[i].col = c} = {k}
      BY <1>1, <3>1 DEF RowsInv, ListInv, OneEach
    <3> QED BY <3>2, FS_Singleton
  <2>2. \A i \in DOMAIN binds :
          drvBound[binds[i].col] = [buf |-> binds[i].buf, wide |-> TRUE, ind |-> binds[i].ind]
    BY <1>1, EntryIsBound DEF Driven
  <2> QED BY <1>1, <2>1, <2>2 DEF RowsInv, CrashInv
<1> QED BY <1>1, RowsAlways, PTL

(* What a step leaves in the buffer of a column bound after it.             *)
RowsConverted ==
  ways' \subseteq Told =>
    \A c \in Bound' : LET b == drvBound'[c].buf IN
      cells'[b] # cells[b] =>
        \A r \in 1 .. MaxRows :
          \/ cells'[b][r].form \in {"empty"} \cup IF drvBound'[c].wide THEN {"wide", "null"}
                                                                      ELSE {"raw"}
          \/ r > rowset_size /\ cells'[b][r] = cells[b][r]
          \/ \E p \in 1 .. r : cells'[b][p].form = "past" /\ r - p < WideSize

LEMMA ClearedConverts ==
  ASSUME NEW bufs, cells' = Cleared(bufs), \A c \in Bound' : drvBound'[c].buf \in Bufs
  PROVE  RowsConverted
<1> SUFFICES ASSUME NEW c \in Bound', cells'[drvBound'[c].buf] # cells[drvBound'[c].buf],
                    NEW r \in 1 .. MaxRows
             PROVE  cells'[drvBound'[c].buf][r].form = "empty"
  BY DEF RowsConverted
<1> DEFINE b == drvBound'[c].buf
<1>1. b \in Bufs
  OBVIOUS
<1> HIDE DEF b
<1>2. cells'[b] = IF b \in bufs THEN [q \in 1 .. MaxRows |-> Cell("empty")] ELSE cells[b]
  BY <1>1 DEF Cleared
<1>3. cells'[b] = [q \in 1 .. MaxRows |-> Cell("empty")]
  BY <1>2 DEF b
<1>4. cells'[b][r] = Cell("empty")
  BY <1>3
<1> QED BY <1>4 DEF b, Cell

LEMMA FetchConverts == ASSUME RowsInv, Fetches PROVE RowsConverted
<1>1. PICK function \in {"Fetch", "FetchScroll", "ExtendedFetch"}, own \in BOOLEAN :
        Fetching(function, own) /\ Filled(function) \in Nat
  BY FetchIs
<1>2. UNCHANGED <<setting, drv, drvBound, drvByRow, dm, binds>> /\ Bound' = Bound
  BY <1>1 DEF Fetching, Bound
<1>3. CASE UNCHANGED cells
  BY <1>3 DEF RowsConverted
<1>4. ASSUME NEW n \in 1 .. Filled(function), NEW texts \in [WideBufs -> [1 .. n -> {0} \cup Spans]],
             Rows(function, own, n, texts)
      PROVE  RowsConverted
  <2> DEFINE written == [b \in Bufs |-> [r \in 1 .. MaxRows |-> Written(n, texts, b, r)]]
  <2>1. PICK spills \in [ListedBufs -> SUBSET Reached] :
          /\ \A b \in ListedBufs : Spills(spills[b], written[b])
          /\ cells' = ConvBindData(written, spills)
          /\ ways' = ways \cup WaysOf(function, n, spills)
    BY <1>4 DEF Rows
  <2> SUFFICES ASSUME ways' \subseteq Told, NEW c \in Bound, NEW r \in 1 .. MaxRows
               PROVE  Fetched(cells'[drvBound[c].buf], cells[drvBound[c].buf], drvBound[c].wide,
                              rowset_size, r)
    BY <1>2 DEF RowsConverted, Fetched
  <2>2. n \in Nat /\ n = rowset_size /\ ways \subseteq Told
    <3>1. "short" \notin ways' /\ "otherFetch" \notin ways'
      BY DEF Told
    <3> QED BY <1>1, <2>1, <3>1 DEF WaysOf
  <2>3. \E w : w = written
    OBVIOUS
  <2>4. PICK w : w = written
    BY <2>3
  <2>5. Fetched(ConvBindData(w, spills)[drvBound[c].buf], cells[drvBound[c].buf], drvBound[c].wide, n, r)
    <3>1. \A b \in ListedBufs : Spills(spills[b], w[b])
      BY <2>1, <2>4
    <3> HIDE DEF Fetched
    <3> QED BY <2>2, <2>4, <3>1, FetchFills
  <2>6. cells' = ConvBindData(w, spills)
    BY <2>1, <2>4
  <2> HIDE DEF written
  <2> QED BY <2>2, <2>5, <2>6
<1> QED BY <1>1, <1>3, <1>4 DEF Fetching

(***************************************************************************)
(* A fetch widens every text it brings exactly once; only one too long for *)
(* its row when widened does harm, to itself and the next few rows.        *)
(***************************************************************************)
THEOREM ConvertedOnceHolds == RowsSpec => ConvertedOnce
<1>1. ASSUME RowsInv, RowsInv', RowsNext PROVE RowsConverted
  <2>1. CASE UNCHANGED cells
    BY <2>1 DEF RowsConverted
  <2>2. \A c \in Bound' : drvBound'[c].buf \in Bufs
    BY <1>1 DEF RowsInv, RowsTypes, Bound
  <2>3. CASE Settings
    BY <2>1, <2>3 DEF Settings, SetRowArraySize, SetRowsetAttr, SetRowsetOption, SetBindTypeOption,
       SetBindTypeAttr, SetRowStatusPtr, SQLSetScrollOptions, SetScrollOptions
  <2>4. CASE BindCol \/ UnbindCol \/ RemoveBind
    <3>1. UNCHANGED cells \/ \E bufs : cells' = Cleared(bufs)
      BY <2>4 DEF BindCol, UnbindCol, RemoveBind
    <3> QED BY <2>1, <2>2, <3>1, ClearedConverts
  <2>5. CASE Fetches
    BY <1>1, <2>5, FetchConverts
  <2> QED BY <1>1, <2>3, <2>4, <2>5 DEF RowsNext, Settings, Fetches
<1>2. RowsInv /\ RowsInv' /\ [RowsNext]_rowsVars => [RowsConverted]_rowsVars
  BY <1>1
<1>3. [RowsConverted]_rowsVars =>
        [ways' \subseteq {"byOption", "byRowsetAttr", "refused", "less", "noStatus", "noIndicator",
                          "long"} =>
           \A c \in Bound' : LET b == drvBound'[c].buf IN
             cells'[b] # cells[b] =>
               \A r \in 1 .. MaxRows :
                 \/ cells'[b][r].form \in {"empty"} \cup IF drvBound'[c].wide THEN {"wide", "null"}
                                                                             ELSE {"raw"}
                 \/ r > rowset_size /\ cells'[b][r] = cells[b][r]
                 \/ \E p \in 1 .. r : cells'[b][p].form = "past" /\ r - p < WideSize]_rowsVars
  BY DEF RowsConverted, Told
<1> QED BY <1>2, <1>3, RowsAlways, PTL DEF RowsSpec, ConvertedOnce

(***************************************************************************)
(* The widening stays inside the application's rows, and the row statuses  *)
(* inside the array the driver is given.                                   *)
(***************************************************************************)
THEOREM InsideTheRowsHolds == RowsSpec => []InsideTheRows
<1>1. RowsInv => InsideTheRows
  BY DEF RowsInv
<1> QED BY <1>1, RowsAlways, PTL
=============================================================================
