--------------------------- MODULE InstallerTexts ---------------------------
(***************************************************************************)
(* The wide functions of the installer library: each calls the narrow one  *)
(* with blocks of its own, sized for UTF-8, and copies what the narrow one *)
(* answers to the application.  The functions of the driver manager are    *)
(* in Buffers; the calls of both libraries make the behaviours here.       *)
(*                                                                         *)
(* A text is a sequence of code points, so that the cut of a text that is  *)
(* too long, in bytes or in characters, is where the code makes it.        *)
(***************************************************************************)
EXTENDS Buffers, Sequences, Utf8
LOCAL INSTANCE SequencesExt
LOCAL INSTANCE FiniteSetsExt

CONSTANTS
  Characters,    \* code points of the texts
  Longest,       \* longest text, in characters
  Capacities     \* buffer lengths, in characters

(* What an application may hand, and what the files hold. *)
WideTexts == BoundedSeq(Characters, Longest)
Texts == BoundedSeq({c \in Characters : c < Unicode}, Longest)
Names == Texts \ {<<>>}
NameLists == BoundedSeq({w \in Names : Len(w) <= 2}, 2)

UTF8_MAX_CHAR_LEN == 4
MaxWord == 65536

-----------------------------------------------------------------------------
(* Mutant: the length is told in characters. *)
ScaledNot(word, cb) == cb

(* The length told to the narrow function, a WORD in all functions but     *)
(* those of the profile.                                                   *)
Scaled(word, cb) ==
  IF word THEN (cb * UTF8_MAX_CHAR_LEN) % MaxWord ELSE cb * UTF8_MAX_CHAR_LEN

(* What the narrow function leaves of a text in the room it is told:       *)
(* STRNCPY, one byte short of it.                                          *)
Stored(w, told) == LET b == Encoded(w) IN SubSeq(b, 1, Least(Len(b), told - 1))

(* The narrow function put no terminator: the block is read on past the    *)
(* text, and the length reported is of what is found there.                *)
ReadsOn(terminates, w, told) == ~terminates /\ Len(Encoded(w)) >= told - 1

Large(word, cb) == IF word /\ cb * UTF8_MAX_CHAR_LEN >= MaxWord THEN {"large"} ELSE {}

(* A text w answered to a buffer of cb characters; beyond: characters read *)
(* past a text without a terminator.                                       *)
Utf8Answer(word, terminates, cb, w, beyond) ==
  LET told == Scaled(word, cb)
      b    == Stored(w, told)
      o    == dm_StrCopyOut2_U8toW(b, cb)
  IN [text     |-> Len(w),
      sure     |-> Len(w),
      room     |-> cb,
      got      |-> IF o.wrote /\ o.text = SubSeq(w, 1, Len(o.text)) THEN Len(o.text) ELSE NotCopied,
      reported |-> o.reported + (IF ReadsOn(terminates, w, told) THEN beyond ELSE 0),
      unit     |-> 1,
      told     |-> told,
      block    |-> cb * UTF8_MAX_CHAR_LEN + 1,
      copied   |-> IF o.wrote THEN (Len(o.text) + 1) * Width ELSE 0,
      buffer   |-> cb * Width]

(* The narrow function refuses a buffer of no length; the application's    *)
(* is left alone.                                                          *)
Refuses == out' = NoOut

Utf8Call(word, terminates, cb, w) ==
  /\ IF Scaled(word, cb) = 0 THEN Refuses
     ELSE \E beyond \in 0 .. 1 : out' = Utf8Answer(word, terminates, cb, w, beyond)
  /\ UNCHANGED host

(* Any text in any buffer, with no text handed. *)
Utf8Reads(word, terminates) ==
  \E cb \in Capacities, w \in Texts :
    /\ Utf8Call(word, terminates, cb, w)
    /\ in' = NoIn
    /\ odd' = Large(word, cb)

-----------------------------------------------------------------------------
(* A text handed to a narrow function, the first size characters or up to  *)
(* its terminator: what the bytes say is read back to compare.             *)
Utf8HandsPart(w, size) ==
  LET b     == dm_SQL_WtoU8(w, size)
      given == IF size = SQL_NTS THEN w ELSE SubSeq(w, 1, size)
      read  == dm_SQL_U8toW(b, SQL_NTS)
  IN in' = [given  |-> Len(given), sure |-> Len(given), wide |-> FALSE, times |-> 1,
            handed |-> IF read = given THEN Len(given) ELSE Len(given) + 1]
Utf8Hands(w) == Utf8HandsPart(w, SQL_NTS)

(* Code points UTF-8 has no bytes for. *)
Unencoded(w) == IF \E i \in 1 .. Len(w) : w[i] >= Unicode THEN {"question"} ELSE {}

(* The string of SQLDriverConnect: a narrow one is taken up to its         *)
(* terminator, whatever length was given.                                  *)
_iodbcdm_cfg_parse_str(w, size, wide) ==
  /\ IF wide THEN Utf8HandsPart(w, size)
     ELSE in' = [given |-> size, sure |-> size, handed |-> Len(w), wide |-> FALSE, times |-> 0]
  /\ out' = NoOut
  /\ odd' = Unencoded(w) \cup (IF ~wide /\ size < Len(w) THEN {"length"} ELSE {})
  /\ UNCHANGED host

ParseConnectString ==
  \E w \in WideTexts, wide \in BOOLEAN : \E size \in 0 .. Len(w) :
    _iodbcdm_cfg_parse_str(w, size, wide)

(* A list of names goes through the locale, not through UTF-8, name after  *)
(* name in as many bytes as it has characters.                             *)
AsciiOf(w) == Max({k \in 0 .. Len(w) : \A i \in 1 .. k : w[i] < 128})
ListHands(names) ==
  in' = [given  |-> FoldLeft(LAMBDA n, w : n + Len(w), 0, names),
         sure   |-> FoldLeft(LAMBDA n, w : n + AsciiOf(w), 0, names),
         handed |-> FoldLeft(LAMBDA n, w : n + Converted(Text(Len(w), AsciiOf(w)), Len(w), Len(w), FALSE),
                             0, names),
         wide   |-> FALSE, times |-> 1]

-----------------------------------------------------------------------------
(* A list in a buffer: names with a terminator each, and one more.         *)
InList(names) == FoldLeft(LAMBDA n, w : n + Len(w) + 1, 0, names) + 1

(* The wide functions that answer a list copy name after name, each with   *)
(* the room of the rule (a negative one is read as huge); listed and       *)
(* reported are characters, terminators not counted in reported.           *)
Listing(cb, names, Room1(_, _)) ==
  FoldLeft(LAMBDA s, w :
             LET size == Room1(cb, s.reported)
                 o    == dm_StrCopyOut2_U8toW(Encoded(w), IF size < 0 THEN Len(w) + 1 ELSE size)
             IN [listed |-> s.listed + Len(o.text) + 1, reported |-> s.reported + Len(w)],
           [listed |-> 0, reported |-> 0], names)

ListRest(cb, reported) == cb - reported - 1
ListEach(cb, reported) == cb - 1

(* Lists that do not fit overrun the buffer, or are read back from what it *)
(* held.  (Lists the narrow function cuts itself are not enumerated.)      *)
ListCall(word, cb, names, Room1(_, _)) ==
  LET s == Listing(cb, names, Room1) IN
  /\ Scaled(word, cb) >= InList(names) * UTF8_MAX_CHAR_LEN
  /\ out' = [text |-> InList(names) - 1, sure |-> InList(names) - 1, room |-> cb,
             got |-> s.listed, reported |-> s.reported + 1, unit |-> 1, told |-> Scaled(word, cb), block |-> cb * UTF8_MAX_CHAR_LEN + 1,
             copied |-> (s.listed + 1) * Width, buffer |-> cb * Width]
  /\ in' = NoIn
  /\ odd' = {"list"} \cup (IF InList(names) > cb THEN {"overrun"} ELSE {})
  /\ UNCHANGED host

AnyList(word, Room1(_, _)) ==
  \E cb \in Capacities \ {0}, names \in NameLists : ListCall(word, cb, names, Room1)

-----------------------------------------------------------------------------
(* The value of a key, or the keys of a section or the sections.           *)
SQLGetPrivateProfileStringW ==
  \/ Utf8Reads(FALSE, FALSE)
  \/ AnyList(FALSE, ListRest)

(* A value, its key and section handed.                                    *)
SQLGetKeywordValueW ==
  \E cb \in Capacities, w \in Texts, k \in WideTexts :
    Utf8Call(FALSE, FALSE, cb, w) /\ Utf8Hands(k) /\ odd' = Unencoded(k)

SQLGetAvailableDriversW == AnyList(TRUE, ListEach)

(* The names sorted, the next after the whole length of the one before,    *)
(* cut or not; a single driver is not copied at all, and the buffer looked *)
(* at as it was.  Names are bytes.                                         *)
SQLGetInstalledDrivers_Internal(cb, names, wide) ==
  LET unit == Unit(wide)
      end  == InList(names)
  IN
  /\ names # <<>>
  /\ IF Len(names) = 1
     THEN out' = [NoOut EXCEPT !.text = end - 1, !.sure = end - 1, !.room = cb, !.got = NotCopied, !.unit = unit,
                               !.reported = unit, !.buffer = cb * unit]
     ELSE out' = [text |-> end - 1, sure |-> end - 1, room |-> cb, got |-> Least(end - 1, cb), reported |-> end * unit,
                  unit |-> unit, told |-> 0, block |-> 0, buffer |-> cb * unit,
                  copied |-> (IF wide \/ end > cb THEN end ELSE cb) * unit]
  /\ odd' = {"list"} \cup (IF Len(names) = 1 THEN {"single"} ELSE {})
                     \cup (IF end > cb THEN {"overrun"} ELSE {})
  /\ in' = NoIn
  /\ UNCHANGED host

SQLGetInstalledDrivers ==
  \E cb \in Capacities \ {0}, names \in NameLists, wide \in BOOLEAN :
    SQLGetInstalledDrivers_Internal(cb, names, wide)

(* A dialog answers a name, and its path; a cancelled one writes neither   *)
(* and the block is copied as it was allocated.                            *)
SQLGetTranslatorW == Utf8Reads(TRUE, FALSE)

BlockAsAllocated(word, cb) ==
  /\ \E n \in 0 .. cb - 1, beyond \in 0 .. 1 :
       out' = [NoOut EXCEPT !.room = cb, !.got = n, !.reported = n + beyond,
                            !.told = Scaled(word, cb), !.block = cb * UTF8_MAX_CHAR_LEN + 1,
                            !.copied = (n + 1) * Width, !.buffer = cb * Width]
  /\ odd' = {"unwritten"}
  /\ UNCHANGED host

SmallCapacities == {cb \in Capacities : 0 < cb /\ cb <= Longest}
GetTranslatorCancelled == \E cb \in SmallCapacities : BlockAsAllocated(TRUE, cb) /\ in' = NoIn

(* A string that fills the room told is refused, and not copied.           *)
SQLReadFileDSNW ==
  \E cb \in Capacities, w \in Texts, k \in WideTexts :
    LET told == Scaled(TRUE, cb) IN
    /\ IF told = 0 \/ Len(Stored(w, told)) = told - 1 THEN Refuses
       ELSE out' = Utf8Answer(TRUE, FALSE, cb, w, 0)
    /\ Utf8Hands(k)
    /\ odd' = Large(TRUE, cb) \cup Unencoded(k)
               \cup (IF Len(Stored(w, told)) = told - 1 THEN {"refused"} ELSE {})
    /\ UNCHANGED host

(* The path of the libraries: one that does not fit is refused, but that   *)
(* below $HOME is written whatever room there is.                          *)
InstallDriverPath(cb, path, oddities) ==
  LET told == Scaled(TRUE, cb)
      size == Len(Encoded(path)) + 1
      odd1 == Large(TRUE, cb) \cup oddities
  IN
  /\ \/ /\ told = 0 \/ size > told
        /\ Refuses /\ odd' = odd1 \cup {"refused"}
     \/ /\ told >= size
        /\ out' = Utf8Answer(TRUE, TRUE, cb, path, 0) /\ odd' = odd1
     \/ /\ told > 0
        /\ out' = [Utf8Answer(TRUE, TRUE, cb, path, 0) EXCEPT !.told = size]
        /\ odd' = odd1 \cup {"home"}
  /\ UNCHANGED host

SQLInstallDriverW ==
  \E cb \in Capacities, path \in Names, driver \in WideTexts :
    InstallDriverPath(cb, path, Unencoded(driver)) /\ Utf8Hands(driver)

(* ODBC_INSTALL_INQUIRY asks for the length of the path only, and nothing  *)
(* is written into the block: copied out all the same, it leaves in        *)
(* pcbPathOut the length of what it held.                                  *)
PathInquired(cb, path) ==
  \/ cb \in SmallCapacities /\ BlockAsAllocated(TRUE, cb)
  \/ /\ cb = 0
     /\ out' = [NoOut EXCEPT !.reported = Len(Encoded(path))]
     /\ odd' = {"inquiry"} /\ UNCHANGED host

(* Names, which go through the locale, and a path: those of drivers, of    *)
(* translators.  (Bound: the characters of such a path are all the same.)  *)
Paths == {w \in Names : \A i \in 1 .. Len(w) : w[i] = w[1]}
InstallListed(cb, path, names) ==
  /\ InstallDriverPath(cb, path, {}) \/ PathInquired(cb, path)
  /\ ListHands(names)

SQLInstallDriverExW ==
  \E cb \in Capacities, path \in Paths, names \in NameLists : InstallListed(cb, path, names)
SQLInstallTranslatorExW ==
  \E cb \in Capacities, path \in Paths, names \in NameLists : InstallListed(cb, path, names)

(* A message: cut at the room told, with a terminator, and what was        *)
(* reported then is not its length.  With no more messages (SQL_NO_DATA)   *)
(* the block is copied as it was allocated.                                *)
SQLInstallerErrorW == Utf8Reads(TRUE, TRUE)
NoInstallerError == \E cb \in SmallCapacities : BlockAsAllocated(TRUE, cb) /\ in' = NoIn

InstallerCall ==
  \/ SQLGetPrivateProfileStringW \/ SQLGetKeywordValueW
  \/ SQLGetAvailableDriversW \/ SQLGetInstalledDrivers
  \/ SQLGetTranslatorW \/ GetTranslatorCancelled \/ SQLReadFileDSNW
  \/ SQLInstallDriverW \/ SQLInstallDriverExW \/ SQLInstallTranslatorExW
  \/ SQLInstallerErrorW \/ NoInstallerError \/ ParseConnectString

NextOfBoth == (Calling /\ (DriverCall \/ InstallerCall)) \/ LookedAt

SpecOfBoth == BuffersInit /\ [][NextOfBoth]_buffersVars
=============================================================================
