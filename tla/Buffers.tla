------------------------------- MODULE Buffers -------------------------------
(***************************************************************************)
(* The functions that answer a text through a block of their own, and      *)
(* those that hand the driver a text they convert for one call.  A block   *)
(* is sized in characters or in bytes, of the application's width or of    *)
(* the driver's, and told to the driver in one of the four; the text is    *)
(* copied out into the application's buffer, and its length reported.      *)
(* (The functions that convert into the statement's slots are in           *)
(* StmtTexts; their blocks of SQLDescribeCol and SQLColAttributes are      *)
(* sized here.)                                                            *)
(*                                                                         *)
(* One action is one call.  A text is a number of characters, the leading  *)
(* ones ASCII; each of the others takes several bytes of a narrow text.    *)
(* The C library converts (wcstombs, mbstowcs), into a result whose size   *)
(* unicode.c tells it in characters of the source; where it stops short,   *)
(* what follows in the result is what the memory held before, of which     *)
(* nothing is said here.                                                   *)
(***************************************************************************)
EXTENDS Naturals, Integers, FiniteSets

CONSTANTS
  Width,      \* sizeof(wchar_t)
  Rooms,      \* buffer lengths the application passes
  Lengths,    \* lengths of the texts, in characters
  Leading     \* ASCII characters that a text of others may begin with

MaxShort == 32767
MaxInteger == 2147483647

(* A length in characters fits a SQLINTEGER in bytes, too.                 *)
ASSUME BufferAssumption ==
  /\ Width \in Nat \ {0} /\ Rooms \subseteq Nat /\ Lengths \subseteq Nat
  /\ Leading \subseteq Nat
  /\ \A cb \in Rooms : cb * Width <= MaxInteger

VARIABLES
  unicode_driver,  \* penv->unicode_driver
  locale,          \* "C", where nothing but ASCII is converted, or "utf8"
  driver3,         \* the calls of an ODBC 3 driver are used (SQLGetConnectAttr ..)
  out,             \* the text the last call answered
  in,              \* the text the last call handed to the driver
  odd              \* what the last call relied on

host == <<unicode_driver, driver3, locale>>
buffersVars == <<host, out, in, odd>>

Unit(wide) == IF wide THEN Width ELSE 1
Least(a, b) == IF a < b THEN a ELSE b
Converts(wide) == wide # unicode_driver

(* A text, and those of the calls enumerated. *)
Text(n, ascii) == [length |-> n, ascii |-> ascii]
AllAscii(n) == Text(n, n)
Wordings ==
  {AllAscii(n) : n \in Lengths}
  \cup {t \in [length : Lengths, ascii : Leading] : t.ascii < t.length}

(* Bound: the bytes of a character that is not ASCII. *)
Several == 2

(* Bytes of the first k characters in a narrow text, and the characters    *)
(* that are whole in b bytes.                                              *)
Narrow(t, k) == IF k <= t.ascii THEN k ELSE t.ascii + Several * (k - t.ascii)
WholeIn(t, b) == IF b <= t.ascii THEN b ELSE t.ascii + ((b - t.ascii) \div Several)

InUnits(t, k, wide) == IF wide THEN k ELSE Narrow(t, k)
InBytes(t, k, wide) == IF wide THEN k * Width ELSE Narrow(t, k)

(* OPL_A2W, OPL_W2A: of the first m characters, those converted into size  *)
(* wide characters or bytes.                                               *)
Converted(t, m, size, wide) ==
  Least(IF wide THEN size ELSE WholeIn(t, size),
        IF locale = "C" THEN Least(t.ascii, m) ELSE m)

(* sure: leading characters that every conversion keeps. *)
NotCopied == -1
NoOut == [text |-> 0, sure |-> 0, room |-> 1, got |-> 0, reported |-> 0, unit |-> 1, told |-> 0,
          block |-> 0, copied |-> 0, buffer |-> 0]
NoIn == [given |-> 0, sure |-> 0, handed |-> 0, wide |-> unicode_driver, times |-> 0]

BuffersTypeOK ==
  /\ unicode_driver \in BOOLEAN /\ driver3 \in BOOLEAN /\ locale \in {"C", "utf8"}
  /\ out \in [text : Nat, sure : Nat, room : Nat, got : Int, reported : Int, unit : {1, Width},
              told : Int, block : Nat, copied : Nat, buffer : Nat]
  /\ in \in [given : Nat, sure : Nat, handed : Nat, wide : BOOLEAN, times : 0 .. 2]

BuffersInit ==
  /\ unicode_driver \in BOOLEAN /\ driver3 \in BOOLEAN /\ locale \in {"C", "utf8"}
  /\ out = NoOut /\ in = NoIn /\ odd = {}

-----------------------------------------------------------------------------
(* A value of type SQLSMALLINT. *)
Short(n) == ((n + MaxShort + 1) % (2 * (MaxShort + 1))) - (MaxShort + 1)

(* The length told to the driver: a count of bytes is scaled to its width, *)
(* in the type of the parameter.                                           *)
Told(bytes, short, cb, wide) ==
  IF ~bytes \/ ~Converts(wide) THEN cb
  ELSE LET n == IF wide THEN cb \div Width ELSE cb * Width
       IN IF short THEN Short(n) ELSE n

Bytes(bytes, n, wide) == IF bytes THEN n ELSE n * Unit(wide)

(* What the driver writes of a text of n units into room for c, the        *)
(* terminator not counted: NotCopied if nothing is.                        *)
Fitted(n, c) == IF c > 0 THEN Least(n, c - 1) ELSE NotCopied

(* Where dm_StrCopyOut2_W2A, dm_StrCopyOut2_A2W put the terminator of the  *)
(* n units in the block, their size being a SQLSMALLINT: below 0 it is     *)
(* compared as a size_t, which every text fits.                            *)
CopyEnds(n, c) ==
  LET size == Short(c) IN
  IF n = NotCopied \/ size = 0 THEN NotCopied
  ELSE IF size < 0 \/ size > n THEN n ELSE size - 1

(* Mutant: the unit of the copy is the driver's. *)
CopiedDriver(k, wide) == IF k = NotCopied THEN 0 ELSE (k + 1) * Unit(~wide)

(* Bytes written up to a terminator at k. *)
Copied(k, wide) == IF k = NotCopied THEN 0 ELSE (k + 1) * Unit(wide)

(* The functions differ in bytes: lengths count bytes; short: as           *)
(* SQLSMALLINT; spare: bytes of the block above what is told; own: the     *)
(* length the driver reports is left as it is.                             *)
Function(bytes, short, spare, own) ==
  [bytes |-> bytes, short |-> short, spare |-> spare, own |-> own]

(* What a length the function reports counts. *)
Measure(f, wide) == IF f.bytes THEN Unit(wide) ELSE 1

(* Mutant: a wide length in bytes is reported in characters. *)
ReportedChars(f, n, k, wide) == IF f.own THEN n ELSE k

(* The length reported: the driver's own, n, or that of the block.         *)
Reported(f, n, k, wide) ==
  IF f.own THEN n ELSE k * Measure(f, wide)

Room(bytes, cb, wide) == IF bytes THEN cb \div Unit(wide) ELSE cb

(* The driver answers t to an application that has room for cb. *)
TextAnswer(f, cb, t, wide) ==
  LET told  == Told(f.bytes, f.short, cb, wide)
      c     == IF f.bytes THEN told \div Unit(unicode_driver) ELSE told
      whole == InUnits(t, t.length, unicode_driver)
      n     == Fitted(whole, c)
      ends  == IF Converts(wide) THEN CopyEnds(n, c) ELSE n
      here  == IF unicode_driver THEN n ELSE WholeIn(t, n)
  IN [text     |-> t.length,
      sure     |-> t.ascii,
      room     |-> Room(f.bytes, cb, wide),
      got      |-> IF ends = NotCopied THEN NotCopied
                   ELSE IF Converts(wide) THEN Converted(t, here, ends, wide) ELSE here,
      reported |-> IF Converts(wide) THEN Reported(f, whole, Short(n), wide)
                   ELSE whole * Measure(f, wide),
      unit     |-> Measure(f, wide),
      told     |-> Bytes(f.bytes, told, unicode_driver),
      block    |-> IF Converts(wide) THEN Bytes(f.bytes, told, unicode_driver) + f.spare
                   ELSE Bytes(f.bytes, cb, wide),
      copied   |-> Copied(ends, wide),
      buffer   |-> Bytes(f.bytes, cb, wide)]

(* Arguments for which no claim is made: too little room for one           *)
(* character, a length that leaves SQLSMALLINT when scaled, and one that   *)
(* leaves it on the way to the copy.                                       *)
Oddities(f, cb, wide) ==
  (IF Room(f.bytes, cb, wide) = 0 THEN {"noroom"} ELSE {})
  \cup (IF f.short /\ Converts(wide) /\ ~wide /\ cb * Width > MaxShort THEN {"large"} ELSE {})
  \cup (IF Converts(wide) /\ Room(f.bytes, cb, wide) > MaxShort THEN {"narrowed"} ELSE {})

(* A call with a block of its own. *)
ReturnsText(f, cb, t, wide) ==
  /\ odd' = Oddities(f, cb, wide)
  /\ out' = IF Told(f.bytes, f.short, cb, wide) < 0 THEN NoOut ELSE TextAnswer(f, cb, t, wide)
  /\ in' = NoIn
  /\ UNCHANGED host

AnyText(Call(_, _, _)) ==
  \E cb \in Rooms, t \in Wordings, wide \in BOOLEAN : Call(cb, t, wide)

(* The functions whose length is a SQLSMALLINT. *)
ShortRooms == {cb \in Rooms : cb <= MaxShort}
AnyShortText(Call(_, _, _)) ==
  \E cb \in ShortRooms, t \in Wordings, wide \in BOOLEAN : Call(cb, t, wide)

-----------------------------------------------------------------------------
(* Characters, a block one unit larger. *)
GetCursorName_Internal(cb, t, wide) ==
  ReturnsText(Function(FALSE, FALSE, Unit(unicode_driver), TRUE), cb, t, wide)
SQLGetCursorName == AnyShortText(GetCursorName_Internal)

(* Characters, a slot as large as told. *)
DescribeCol_Internal(cb, t, wide) ==
  ReturnsText(Function(FALSE, FALSE, 0, TRUE), cb, t, wide)
SQLDescribeCol == AnyShortText(DescribeCol_Internal)

(* Bytes in a SQLSMALLINT, a slot as large as told. *)
ColAttributes_Internal(cb, t, wide) ==
  ReturnsText(Function(TRUE, TRUE, 0, FALSE), cb, t, wide)
SQLColAttributes == AnyShortText(ColAttributes_Internal)

(* Bytes in a SQLINTEGER, a byte to spare. *)
GetDescField_Internal(cb, t, wide) ==
  ReturnsText(Function(TRUE, FALSE, 1, FALSE), cb, t, wide)
SQLGetDescField == AnyText(GetDescField_Internal)

(* Characters, a byte to spare, and the length the copy reports. *)
GetDescRec_Internal(cb, t, wide) ==
  ReturnsText(Function(FALSE, FALSE, 1, FALSE), cb, t, wide)
SQLGetDescRec == AnyShortText(GetDescRec_Internal)

-----------------------------------------------------------------------------
(* SQLColAttribute of an ODBC 3 driver.  A suspended call answers nothing, *)
(* and its block is freed while the driver still has it.                   *)
ColumnText == Function(TRUE, TRUE, 1, FALSE)
ColAttribute_Internal(cb, t, wide) ==
  driver3 /\ ReturnsText(ColumnText, cb, t, wide)

(* SQLColAttributes of another driver, with the field's older name. *)
ColAttributeOfOlder(cb, t, wide) ==
  ~driver3 /\ ReturnsText(ColumnText, cb, t, wide)

ColAttributeSuspended(cb, wide) ==
  /\ driver3 /\ Told(TRUE, TRUE, cb, wide) >= 0
  /\ odd' = {} /\ out' = NoOut /\ in' = NoIn
  /\ UNCHANGED host

(* Column 0 of an ODBC 2 driver is answered here: an empty narrow text     *)
(* whatever the application's width, with a length scaled to the driver's. *)
ColAttributeOfColumnZero(cb, wide) ==
  LET told == Told(TRUE, TRUE, cb, wide)
      len1 == IF 0 > told THEN told - 1 ELSE 0
  IN
  /\ ~driver3
  /\ out' = [NoOut EXCEPT !.room = Room(TRUE, cb, wide), !.got = IF wide THEN NotCopied ELSE len1,
                          !.copied = len1 + 1, !.buffer = cb]
  /\ odd' = {"column_zero"} /\ in' = NoIn
  /\ UNCHANGED host

SQLColAttribute ==
  \E cb \in ShortRooms, t \in Wordings, wide \in BOOLEAN :
    \/ ColAttribute_Internal(cb, t, wide)
    \/ ColAttributeOfOlder(cb, t, wide)
    \/ ColAttributeSuspended(cb, wide)
    \/ ColAttributeOfColumnZero(cb, wide)

-----------------------------------------------------------------------------
(* _iodbcdm_GetConnectOption: a block of the most an option may have, and  *)
(* the application's buffer is taken to be as large.                       *)
MaxOption == 256
OptionText(t, wide) ==
  LET c == IF unicode_driver /\ driver3 THEN MaxOption \div Width ELSE MaxOption IN
  TextAnswer(Function(FALSE, FALSE, 0, TRUE), c, t, wide)

(* SQLGetConnectAttr of an ODBC 3 driver, or the option of another, whose  *)
(* length is that of the text found in the application's buffer.           *)
GetConnectAttr_Internal(cb, t, wide) ==
  IF driver3 THEN ReturnsText(Function(TRUE, FALSE, 1, FALSE), cb, t, wide)
  ELSE LET o == OptionText(t, wide) IN
       /\ out' = [o EXCEPT !.room = Room(TRUE, cb, wide), !.buffer = cb,
                           !.reported = InBytes(t, o.got, wide)]
       /\ odd' = {"option"} /\ in' = NoIn
       /\ UNCHANGED host
SQLGetConnectAttr == AnyText(GetConnectAttr_Internal)

-----------------------------------------------------------------------------
(* SQLGetInfo with a text of the driver, or of a driver without it.        *)
InfoText == Function(TRUE, TRUE, 1, FALSE)
GetInfo_Internal(cb, t, wide) == ReturnsText(InfoText, cb, t, wide)

GetInfoMissing(wide) ==
  /\ out' = NoOut /\ in' = NoIn /\ odd' = {}
  /\ UNCHANGED host

(* SQL_ODBC_VER, SQL_DM_VER: the driver manager's own text of n            *)
(* characters, measured in characters against a length in bytes.           *)
GetInfoVersion(cb, n, wide) ==
  LET k == Fitted(n, cb) IN
  /\ out' = [text |-> n, sure |-> n, room |-> Room(TRUE, cb, wide), got |-> k, reported |-> k,
             told |-> 0, block |-> 0, unit |-> Unit(wide), copied |-> Copied(k, wide),
             buffer |-> cb]
  /\ odd' = IF wide \/ cb = 0 THEN {"version"} ELSE {}
  /\ in' = NoIn
  /\ UNCHANGED host

(* SQL_DRIVER_ODBC_VER refused by the driver: "01.00", against the length  *)
(* already scaled to the driver.                                           *)
GetInfoDriverVersion(cb, wide) ==
  LET told == Told(TRUE, TRUE, cb, wide)
      k    == Fitted(5, IF wide THEN told \div Width ELSE told)
  IN
  /\ told >= 0
  /\ out' = [text |-> 5, sure |-> 5, room |-> Room(TRUE, cb, wide), got |-> k,
             reported |-> IF k = NotCopied THEN 0 ELSE k * Unit(wide), told |-> 0, block |-> 0,
             unit |-> Unit(wide), copied |-> Copied(k, wide), buffer |-> cb]
  /\ odd' = IF Converts(wide) THEN {"version"} ELSE Oddities(InfoText, cb, wide)
  /\ in' = NoIn
  /\ UNCHANGED host

SQLGetInfo ==
  \E cb \in ShortRooms, wide \in BOOLEAN :
    \/ \E t \in Wordings : GetInfo_Internal(cb, t, wide)
    \/ \E n \in Lengths : GetInfoVersion(cb, n, wide)
    \/ GetInfoMissing(wide)
    \/ GetInfoDriverVersion(cb, wide)

-----------------------------------------------------------------------------
(* The size told to the conversion of a text whose length is given as      *)
(* passed.                                                                 *)
Taken(bytes, passed, wide) == IF bytes /\ wide THEN passed \div Width ELSE passed

(* The application passes the first l characters of t; looks: the function *)
(* looks at the length it is given (SQL_NTS is taken for all of them);     *)
(* times it is converted.                                                  *)
Hands(bytes, looks, l, t, wide, times) ==
  LET passed == IF bytes THEN InBytes(t, l, wide) ELSE InUnits(t, l, wide)
      size   == IF looks THEN Taken(bytes, passed, wide) ELSE InUnits(t, t.length, wide)
  IN in' = [given |-> l, sure |-> Least(t.ascii, l), wide |-> unicode_driver,
            handed |-> IF Converts(wide) THEN Converted(t, t.length, size, ~wide) ELSE l,
            times |-> IF Converts(wide) THEN times ELSE 0]

(* A call that hands a text and answers none. *)
Gives(bytes, looks, l, t, wide, times) ==
  /\ l <= t.length
  /\ Hands(bytes, looks, l, t, wide, times)
  /\ out' = NoOut
  /\ UNCHANGED host

SetCursorName_Internal(l, t, wide) ==
  /\ Gives(FALSE, TRUE, l, t, wide, 1)
  /\ odd' = {}
SQLSetCursorName ==
  \E l \in Lengths, t \in Wordings, wide \in BOOLEAN : SetCursorName_Internal(l, t, wide)

SetDescField_Internal(l, t, wide) ==
  /\ Gives(TRUE, TRUE, l, t, wide, 1)
  /\ odd' = {}
SQLSetDescField ==
  \E l \in Lengths, t \in Wordings, wide \in BOOLEAN : SetDescField_Internal(l, t, wide)

(* An option of another driver is converted once more                      *)
(* (_iodbcdm_SetConnectOption).                                            *)
SetConnectAttr_Internal(l, t, wide) ==
  /\ Gives(TRUE, TRUE, l, t, wide, IF driver3 THEN 1 ELSE 2)
  /\ odd' = IF ~driver3 /\ Converts(wide) THEN {"option"} ELSE {}
SQLSetConnectAttr ==
  \E l \in Lengths, t \in Wordings, wide \in BOOLEAN : SetConnectAttr_Internal(l, t, wide)

-----------------------------------------------------------------------------
(* A call that hands one text (l characters of t) and answers another (a,  *)
(* room for cb).                                                           *)
Exchanges(f, looks, l, t, cb, a, wide) ==
  /\ l <= t.length
  /\ Hands(FALSE, looks, l, t, wide, 1)
  /\ out' = TextAnswer(f, cb, a, wide)
  /\ odd' = Oddities(f, cb, wide) \cup (IF ~looks /\ l # t.length THEN {"length"} ELSE {})
  /\ UNCHANGED host

(* The input is taken up to its terminator, whatever its length says; the  *)
(* buffer's length is a SQLINTEGER.                                        *)
NativeSql_Internal(l, t, cb, a, wide) ==
  Exchanges(Function(FALSE, FALSE, 1, TRUE), FALSE, l, t, cb, a, wide)
SQLNativeSql ==
  \E l \in Lengths, t, a \in Wordings, cb \in Rooms, wide \in BOOLEAN :
    NativeSql_Internal(l, t, cb, a, wide)

BrowseConnect_Internal(l, t, cb, a, wide) ==
  Exchanges(Function(FALSE, FALSE, Unit(unicode_driver), TRUE), FALSE, l, t, cb, a, wide)
SQLBrowseConnect ==
  \E l \in Lengths, t, a \in Wordings, cb \in ShortRooms, wide \in BOOLEAN :
    BrowseConnect_Internal(l, t, cb, a, wide)

(* The length reported is that of the text in the application's buffer, in *)
(* bytes.                                                                  *)
DriverConnect_Internal(l, t, cb, a, wide) ==
  LET f == Function(FALSE, FALSE, 1, FALSE)
      o == TextAnswer(f, cb, a, wide)
  IN
  /\ l <= t.length
  /\ Hands(FALSE, TRUE, l, t, wide, 1)
  /\ out' = [o EXCEPT !.reported = InBytes(a, o.got, wide), !.unit = Unit(wide)]
  /\ odd' = Oddities(f, cb, wide)
  /\ UNCHANGED host

(* Without a buffer of the application the driver writes into one of the   *)
(* function's, of OwnBuffer wide characters, told as so many bytes: a block*)
(* of that many characters, unless nothing is converted.                   *)
OwnBuffer == 2048
DriverConnectNoBuffer(l, t, a, wide) ==
  LET told == OwnBuffer * Width
      o    == TextAnswer(Function(FALSE, FALSE, 1, FALSE), told, a, wide)
  IN
  /\ l <= t.length
  /\ Hands(FALSE, TRUE, l, t, wide, 1)
  /\ out' = [o EXCEPT !.copied = 0, !.reported = 0, !.got = 0, !.text = 0, !.sure = 0, !.buffer = 0,
                      !.block = IF Converts(wide) THEN @ ELSE OwnBuffer * Width]
  /\ odd' = IF wide /\ ~Converts(wide) THEN {"own_buffer"} ELSE {}
  /\ UNCHANGED host

(* A file data source is appended to the answer, as many characters as the *)
(* buffer has, wherever the answer ends: WCSNCAT, not _iodbcdm_strlcat.    *)
DriverConnectFileDsn(cb, m, extra, wide) ==
  LET o == TextAnswer(Function(FALSE, FALSE, 1, FALSE), cb, AllAscii(m), wide)
      k == IF wide THEN o.got + Least(extra, cb) ELSE Least(o.got + extra, cb - 1)
  IN
  /\ cb > 0
  /\ in' = NoIn
  /\ out' = [o EXCEPT !.text = m + extra, !.sure = m + extra, !.got = k, !.copied = Copied(k, wide),
                      !.reported = k * Unit(wide)]
  /\ odd' = IF wide THEN {"filedsn"} ELSE {}
  /\ UNCHANGED host

SQLDriverConnect ==
  \E wide \in BOOLEAN :
    \/ \E l \in Lengths, t, a \in Wordings :
         \/ \E cb \in ShortRooms : DriverConnect_Internal(l, t, cb, a, wide)
         \/ DriverConnectNoBuffer(l, t, a, wide)
    \/ \E cb \in ShortRooms, m, n \in Lengths : DriverConnectFileDsn(cb, m, n, wide)

DriverCall ==
  \/ SQLGetCursorName \/ SQLDescribeCol \/ SQLColAttributes \/ SQLColAttribute
  \/ SQLGetDescField \/ SQLSetDescField \/ SQLGetDescRec \/ SQLSetCursorName
  \/ SQLGetConnectAttr \/ SQLSetConnectAttr \/ SQLGetInfo
  \/ SQLNativeSql \/ SQLBrowseConnect \/ SQLDriverConnect

(* What a call left is looked at before the next one (no call depends on   *)
(* what an earlier one left).                                              *)
Calling == out = NoOut /\ in = NoIn
LookedAt ==
  /\ ~Calling
  /\ out' = NoOut /\ in' = NoIn /\ odd' = {} /\ UNCHANGED host

BuffersNext == (Calling /\ DriverCall) \/ LookedAt

BuffersSpec == BuffersInit /\ [][BuffersNext]_buffersVars

-----------------------------------------------------------------------------
(* The driver and the driver manager stay inside the memory they were      *)
(* given: what is told to the driver fits the block, with its terminator,  *)
(* and what is copied out fits the application's buffer, whatever measure  *)
(* and width each of them counts in.  Exceptions the code makes: the       *)
(* versions SQLGetInfo answers itself, column 0, options of fixed length,  *)
(* a file data source and a caller without a buffer; in the installer's    *)
(* library, a path below $HOME and a list that does not fit.               *)
InsideTheBuffers ==
  odd \cap {"version", "column_zero", "option", "filedsn", "own_buffer", "home", "overrun"}
    = {} =>
    /\ out.told <= out.block
    /\ out.copied <= out.buffer

(* The application reads as much of the driver's text as its buffer holds, *)
(* with a terminator in its own width: conversion loses no room (the       *)
(* scaled lengths told to the driver and to the copy; a text cut in UTF-8  *)
(* is cut past the last character there is room for).  Of a text that goes *)
(* through the locale that holds for the ASCII characters it begins with,  *)
(* and for all of it when it has no others; and nothing is claimed of a    *)
(* buffer of 32768 characters and more that SQLGetConnectAttr,             *)
(* SQLGetDescField and SQLNativeSql convert for (unicode.c:308, 345).      *)
WholeTextRead ==
  odd \subseteq {"list"} =>
    /\ out.got >= Least(out.sure, out.room - 1)
    /\ out.sure = out.text => out.got = Least(out.text, out.room - 1)

(* The driver is handed the characters the application passed, no more and *)
(* no fewer, and converted once, whatever the length counts: all of them   *)
(* when they are ASCII or go through UTF-8, else at least the ASCII ones   *)
(* before the first other, the locale's conversion being told fewer bytes  *)
(* than it needs (unicode.c:269, 296).  Exceptions the code makes:         *)
(* SQLNativeSql and SQLBrowseConnect take a text up to its terminator, and *)
(* an option is converted twice.                                           *)
TextHanded ==
  odd = {} =>
    /\ in.times <= 1 /\ in.handed >= in.sure
    /\ in.sure = in.given => in.handed = in.given

(* A text of ASCII characters that fits is reported with its length in the *)
(* unit of the function, although the driver reported the length of        *)
(* another text.                                                           *)
LengthReported ==
  (odd = {} /\ out.text < out.room /\ out.sure = out.text) => out.reported = out.text * out.unit
=============================================================================
