------------------------------- MODULE IniFile -------------------------------
(***************************************************************************)
(* A configuration file in memory (iodbcinst/inifile.c): the table of its  *)
(* lines, the search in it, the changes a caller makes to it, and what is  *)
(* read again of the table once it is written out.                         *)
(*                                                                         *)
(* A line has a section, or a key and a value, or a value that continues   *)
(* the key above, or a comment alone; "block" is a comment that begins     *)
(* with a blank or another ';' and belongs to the section below it, "aside"*)
(* any other.  Names that differ in case only are one name.                *)
(***************************************************************************)
EXTENDS Naturals, Sequences, SequencesExt

CONSTANTS
  Pool,       \* entries of a table when it is first allocated
  Cut,        \* a value with " ;" in it
  Shortened   \* what is left of it when it is read

Null == "-"
Plain == {"r", "t", "lib", "setup", "Installed", "v"}   \* the other values

ASSUME IniAssumption ==
  Pool \in Nat /\ Cut \notin Plain \cup {Null} /\ Shortened \notin {Cut, Null}

NoLine == [section |-> Null, id |-> Null, value |-> Null, comment |-> Null]
SectionLine(s) == [NoLine EXCEPT !.section = s]
Define(k, v) == [NoLine EXCEPT !.id = k, !.value = v]
Continue(v) == [NoLine EXCEPT !.value = v]
Comment(c) == [NoLine EXCEPT !.comment = c]

-----------------------------------------------------------------------------
(* Search. *)

First(S, otherwise) == IF S = {} THEN otherwise ELSE CHOOSE i \in S : \A j \in S : i <= j

SectionAt(lines, s) == First({i \in DOMAIN lines : lines[i].section = s}, 0)

(* The next section, or the place behind the last line. *)
SectionEnd(lines, i) ==
  First({j \in DOMAIN lines : j > i /\ lines[j].section # Null}, Len(lines) + 1)

KeyAt(lines, s, k) ==
  LET i == SectionAt(lines, s) IN
  IF i = 0 THEN 0 ELSE First({j \in i + 1 .. SectionEnd(lines, i) - 1 : lines[j].id = k}, 0)

(* _iodbcdm_cfg_find *)
Find(lines, s, k) ==
  IF KeyAt(lines, s, k) = 0 THEN Null ELSE lines[KeyAt(lines, s, k)].value

(* _iodbcdm_list_entries: the keys of every section of that name. *)
Keys(lines, s) ==
  {lines[j].id : j \in {j \in DOMAIN lines :
     \E i \in 1 .. j - 1 : lines[i].section = s /\ j < SectionEnd(lines, i)}} \ {Null}

-----------------------------------------------------------------------------
(* The table: its lines, the entries allocated, whether it was changed,    *)
(* whether a change went outside its memory, and the changes asked for.    *)

(* __iodbcdm_cfg_poolalloc *)
Grown(max, n) ==
  IF n <= max THEN max ELSE IF max = 0 THEN 1 + Pool ELSE 1 + max + max \div 2
Capacity[n \in Nat] == IF n = 0 THEN 0 ELSE Grown(Capacity[n - 1], n)

Loaded(lines) ==
  [lines |-> lines, max |-> Capacity[Len(lines)], dirty |-> FALSE, damaged |-> FALSE, log |-> <<>>]

(* _iodbcdm_cfg_storeentry *)
Store(t, line) ==
  [t EXCEPT !.lines = Append(@, line), !.max = Grown(@, Len(t.lines) + 1), !.dirty = TRUE]

(* Before line i.  A table that was full is moved: the line goes into the  *)
(* memory just freed, and the new entry at the end is never written (shown *)
(* here as an empty one).  A table this entry fills has its lines moved one*)
(* entry past its end.                                                     *)
Insert(t, i, line) ==
  IF Len(t.lines) = t.max
  THEN [Store(t, NoLine) EXCEPT !.damaged = TRUE]
  ELSE [t EXCEPT !.lines = InsertAt(@, i, line), !.dirty = TRUE,
                 !.damaged = @ \/ Len(t.lines) + 1 = t.max]

(* The first of the block comments directly above line i (the entry in     *)
(* front of the table, which the code looks at too, is no comment).        *)
Above(lines, i) ==
  CHOOSE j \in 1 .. i :
    /\ \A m \in j .. i - 1 : lines[m].comment = "block"
    /\ j = 1 \/ lines[j - 1].comment # "block"

(* Lines from .. to - 1, and the comments above them. *)
Delete(t, from, to) ==
  LET top == Above(t.lines, from) IN
  [t EXCEPT !.lines = SubSeq(@, 1, top - 1) \o SubSeq(@, to, Len(@)), !.dirty = TRUE]

(* Mutant: a key is found only where another line of the section follows.  *)
ChangeShort(t, s, k, v) ==
  LET at == SectionAt(t.lines, s)
      end == SectionEnd(t.lines, at)
      key == KeyAt(t.lines, s, k)
  IN
  IF at = 0 THEN IF k = Null \/ v = Null THEN t ELSE Store(Store(t, SectionLine(s)), Define(k, v))
  ELSE IF k = Null THEN Delete(t, at, Above(t.lines, end))
  ELSE IF v = Null THEN IF key = 0 THEN t ELSE Delete(t, key, key + 1)
  ELSE IF key # 0 /\ key + 1 < end THEN [t EXCEPT !.lines[key].value = v, !.dirty = TRUE]
  ELSE IF end <= Len(t.lines) THEN Insert(t, end, Define(k, v))
  ELSE Store(t, Define(k, v))

(* Mutant: a section is deleted up to and with the line of the next one.   *)
ChangeWhole(t, s, k, v) ==
  LET at == SectionAt(t.lines, s)
      end == SectionEnd(t.lines, at)
      key == KeyAt(t.lines, s, k)
  IN
  IF at = 0 THEN IF k = Null \/ v = Null THEN t ELSE Store(Store(t, SectionLine(s)), Define(k, v))
  ELSE IF k = Null THEN Delete(t, at, IF end <= Len(t.lines) THEN end + 1 ELSE end)
  ELSE IF v = Null THEN IF key = 0 THEN t ELSE Delete(t, key, key + 1)
  ELSE IF key # 0 THEN [t EXCEPT !.lines[key].value = v, !.dirty = TRUE]
  ELSE IF end <= Len(t.lines) THEN Insert(t, end, Define(k, v))
  ELSE Store(t, Define(k, v))

(* _iodbcdm_cfg_write without the log: a section, a key of it or all of it *)
(* (k Null) is written or, without a value, deleted.                       *)
Change(t, s, k, v) ==
  LET at == SectionAt(t.lines, s)
      end == SectionEnd(t.lines, at)
      key == KeyAt(t.lines, s, k)
  IN
  IF at = 0 THEN IF k = Null \/ v = Null THEN t ELSE Store(Store(t, SectionLine(s)), Define(k, v))
  ELSE IF k = Null THEN Delete(t, at, Above(t.lines, end))
  ELSE IF v = Null THEN IF key = 0 THEN t ELSE Delete(t, key, key + 1)
  ELSE IF key # 0 THEN [t EXCEPT !.lines[key].value = v, !.dirty = TRUE]
  ELSE IF end <= Len(t.lines) THEN Insert(t, end, Define(k, v))
  ELSE Store(t, Define(k, v))

Write(t, s, k, v) == [Change(t, s, k, v) EXCEPT !.log = Append(@, <<s, k, v>>)]

(* Several of them, in their order. *)
Written(t, changes) ==
  LET after[n \in 0 .. Len(changes)] ==
        IF n = 0 THEN t ELSE Write(after[n - 1], changes[n][1], changes[n][2], changes[n][3])
  IN after[Len(changes)]

-----------------------------------------------------------------------------
(* A table is written out and read again. *)

(* __iodbcdm_cfg_outputformatted, where an empty entry is an empty line,   *)
(* which is skipped.                                                       *)
Formatted(lines) ==
  LET kept[n \in 0 .. Len(lines)] ==
        IF n = 0 THEN <<>>
        ELSE IF lines[n] = NoLine THEN kept[n - 1] ELSE Append(kept[n - 1], lines[n])
  IN kept[Len(lines)]

(* __iodbcdm_cfg_parse: a value is taken up to the comment in it. *)
Parsed(lines) ==
  [i \in DOMAIN lines |->
     IF lines[i].value = Cut THEN [lines[i] EXCEPT !.value = Shortened, !.comment = "aside"] ELSE lines[i]]

Reread(lines) == Parsed(Formatted(lines))

FirstHalf(lines) == SubSeq(lines, 1, Len(lines) \div 2)

(* A text written over an old one from its first byte: what the old one has*)
(* beyond its length stays.  (Lines are taken to be of one length; a line  *)
(* cut in two is the one that is overwritten.)                             *)
Overwritten(old, new) == new \o SubSeq(old, Len(new) + 1, Len(old))

-----------------------------------------------------------------------------
(* What a file means: the value of each key of each section. *)
Meaning(lines, cells) == [c \in cells |-> Find(lines, c[1], c[2])]

(* What a list of changes makes of it: the last change that speaks of a     *)
(* key, or of its whole section, decides.                                  *)
Speaks(change, c) == change[1] = c[1] /\ change[2] \in {Null, c[2]}

Decided(changes, c, otherwise) ==
  LET speaking == {i \in DOMAIN changes : Speaks(changes[i], c)} IN
  IF speaking = {} THEN otherwise ELSE changes[Max(speaking)][3]

Asked(m, changes) == [c \in DOMAIN m |-> Decided(changes, c, m[c])]

(* No section twice, no key twice in one. *)
Unique(lines) ==
  \A i, j \in DOMAIN lines : i < j =>
    /\ lines[i].section # Null => lines[i].section # lines[j].section
    /\ (lines[i].id # Null /\ lines[i].id = lines[j].id) =>
         \E m \in i .. j : lines[m].section # Null
=============================================================================
