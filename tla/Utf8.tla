------------------------------- MODULE Utf8 -------------------------------
(***************************************************************************)
(* The conversions of iodbcinst/unicode.c.  A wide text is a sequence of   *)
(* code points, a UTF-8 text a sequence of bytes; neither holds the        *)
(* terminator.                                                             *)
(***************************************************************************)
EXTENDS Integers, Sequences, FiniteSets
LOCAL INSTANCE SequencesExt
LOCAL INSTANCE FiniteSetsExt

Unicode == 2097152      \* code points below it are encoded
Question == 63

(* Mutant: no code point takes four bytes. *)
LengthOfThree(c) ==
  IF c < 128 THEN 1 ELSE IF c < 2048 THEN 2 ELSE IF c < Unicode THEN 3 ELSE 1

(* Bytes of a code point, as calc_len_for_utf8 counts them. *)
Length(c) ==
  IF c < 128 THEN 1 ELSE IF c < 2048 THEN 2 ELSE IF c < 65536 THEN 3
  ELSE IF c < Unicode THEN 4 ELSE 1

calc_len_for_utf8(w) == FoldLeft(LAMBDA n, c : n + Length(c), 0, w)

(* The bytes wcstoutf8 makes of a code point: what is not Unicode is a '?'.*)
Lead == <<0, 192, 224, 240>>
Encode(c) ==
  LET d == IF c < Unicode THEN c ELSE Question
      n == IF d < 128 THEN 1 ELSE IF d < 2048 THEN 2 ELSE IF d < 65536 THEN 3 ELSE 4
  IN [i \in 1 .. n |-> IF i = 1 THEN Lead[n] + (d \div 64 ^ (n - 1))
                       ELSE 128 + ((d \div 64 ^ (n - i)) % 64)]

Encoded(w) == FoldLeft(LAMBDA b, c : b \o Encode(c), <<>>, w)

(* As many whole code points of w as fit size bytes. *)
wcstoutf8(w, size) ==
  Encoded(SubSeq(w, 1, Max({k \in 0 .. Len(w) : Len(Encoded(SubSeq(w, 1, k))) <= size})))

wcsntoutf8(w, wlen, size) == wcstoutf8(SubSeq(w, 1, wlen), size)

strdup_WtoU8(w) == wcstoutf8(w, calc_len_for_utf8(w))

(* The first size characters of w, or all of it (SQL_NTS). *)
SQL_NTS == -3
dm_SQL_WtoU8(w, size) ==
  IF size = SQL_NTS THEN strdup_WtoU8(w)
  ELSE wcsntoutf8(w, size, calc_len_for_utf8(SubSeq(w, 1, size)))

-----------------------------------------------------------------------------
Continues(b) == b \div 64 = 2

(* Characters of a UTF-8 text: the first byte, and those that continue none*)
utf8_len(b) == Cardinality({i \in 1 .. Len(b) : i = 1 \/ ~Continues(b[i])})

(* UTF8_COMPUTE: bytes a first byte announces, 0 if it is none. *)
Announces(b) ==
  IF b < 128 THEN 1 ELSE IF b \div 32 = 6 THEN 2 ELSE IF b \div 16 = 14 THEN 3
  ELSE IF b \div 8 = 30 THEN 4 ELSE 0

Whole(b, i) ==
  LET n == Announces(b[i]) IN
  n > 0 /\ i + n - 1 <= Len(b) /\ \A j \in 1 .. n - 1 : Continues(b[i + j])

(* The code point at b[i]: the bits of the first byte below its mask, then *)
(* six of each other byte.                                                 *)
Decode(b, i) ==
  LET n == Announces(b[i]) IN
  FoldLeft(LAMBDA c, x : (c * 64) + (x % 64), b[i] - Lead[n], SubSeq(b, i + 1, i + n - 1))

(* The code points of b up to the first that is not whole. *)
Decoded(b) ==
  LET from[i \in 1 .. Len(b) + 1] ==
        IF i > Len(b) \/ ~Whole(b, i) THEN <<>>
        ELSE <<Decode(b, i)>> \o from[i + Announces(b[i])]
  IN from[1]

(* At most size of them. *)
utf8towcs(b, size) ==
  SubSeq(Decoded(b), 1, IF Len(Decoded(b)) < size THEN Len(Decoded(b)) ELSE size)

utf8ntowcs(b, ulen, size) == utf8towcs(SubSeq(b, 1, ulen), size)

strdup_U8toW(b) == utf8towcs(b, utf8_len(b))

dm_SQL_U8toW(b, size) ==
  IF size = SQL_NTS THEN strdup_U8toW(b)
  ELSE utf8ntowcs(b, size, utf8_len(SubSeq(b, 1, size)))

(* Copied out to a buffer of size characters: what is written (nothing is  *)
(* if it has no room for a terminator), and the length reported.           *)
dm_StrCopyOut2_U8toW(b, size) ==
  [wrote    |-> size > 0,
   text     |-> IF size = 0 THEN <<>>
                ELSE utf8towcs(b, IF size >= utf8_len(b) + 1 THEN size ELSE size - 1),
   reported |-> utf8_len(b)]
=============================================================================
