-------------------------- MODULE InstallerProofs --------------------------
(***************************************************************************)
(* Proofs about the configuration files and the installer library.         *)
(***************************************************************************)
EXTENDS Installer, FiniteSetTheorems, SequenceTheorems, WellFoundedInduction, TLAPS

(* Every set of numbers that is not empty has a least element.             *)
LEMMA LeastNumber ==
  ASSUME NEW S, S \subseteq Nat, S # {}
  PROVE  \E n \in S : \A m \in S : n <= m
<1> DEFINE R == OpToRel(<, Nat)
<1>1. PICK x \in S : \A y \in S : ~ (<<y, x>> \in R)
  BY NatLessThanWellFounded, WFMin
<1>2. \A y \in Nat : y < x => <<y, x>> \in R
  BY DEF OpToRel
<1> HIDE DEF R
<1>3. \A y \in S : ~ (y < x)
  BY <1>1, <1>2
<1> QED BY <1>3

(* Induction up to N.                                                      *)
LEMMA UpTo ==
  ASSUME NEW N \in Nat, NEW S, 0 \in S, \A n \in 0 .. N - 1 : n \in S => n + 1 \in S
  PROVE  N \in S
<1> SUFFICES ASSUME N \notin S PROVE FALSE
  OBVIOUS
<1>1. PICK n \in (0 .. N) \ S : \A m \in (0 .. N) \ S : n <= m
  <2>1. (0 .. N) \ S \subseteq Nat /\ (0 .. N) \ S # {}
    OBVIOUS
  <2> QED BY <2>1, LeastNumber
<1>2. n # 0 /\ n - 1 \in 0 .. N - 1 /\ n - 1 \in 0 .. N /\ ~(n <= n - 1) /\ (n - 1) + 1 = n
  BY <1>1
<1>3. n - 1 \in S
  BY <1>1, <1>2
<1> QED BY <1>1, <1>2, <1>3

-----------------------------------------------------------------------------
(* The search in a file (module IniFile). *)

KeyNames == {"d", "Driver", "r", "Setup", "t", "Translator", "k"}
Names == KeyNames \cup {"sources", "Default", "drivers", "translators", "a"}
Values == Plain \cup {Cut, Shortened, Null}

(* A line has a section or a key; a comment of a section below has neither.*)
Line ==
  {l \in [section : Names \cup {Null}, id : KeyNames \cup {Null}, value : Values,
          comment : {Null, "block", "aside"}] :
     (l.section # Null => l.id = Null) /\ (l.comment = "block" => l.section = Null /\ l.id = Null)}

Good(lines) == lines \in Seq(Line) /\ Unique(lines)

(* Line j belongs to section s.                                            *)
Under(lines, s, j) ==
  \E i \in 1 .. j - 1 : lines[i].section = s /\ \A m \in i + 1 .. j : lines[m].section = Null

LEMMA LineIs ==
  ASSUME NEW lines \in Seq(Line)
  PROVE  /\ Len(lines) \in Nat /\ DOMAIN lines = 1 .. Len(lines)
         /\ \A i \in 1 .. Len(lines) :
              /\ lines[i] \in Line
              /\ lines[i].section \in Names \cup {Null} /\ lines[i].id \in KeyNames \cup {Null}
              /\ lines[i].value \in Values /\ lines[i].comment \in {Null, "block", "aside"}
              /\ lines[i].section # Null => lines[i].id = Null /\ lines[i].comment # "block"
              /\ lines[i].id # Null => lines[i].section = Null /\ lines[i].comment # "block"
<1>1. Len(lines) \in Nat /\ DOMAIN lines = 1 .. Len(lines)
  OBVIOUS
<1>2. ASSUME NEW i \in 1 .. Len(lines) PROVE lines[i] \in Line
  OBVIOUS
<1>3. ASSUME NEW l \in Line
      PROVE  /\ l.section \in Names \cup {Null} /\ l.id \in KeyNames \cup {Null}
             /\ l.value \in Values /\ l.comment \in {Null, "block", "aside"}
             /\ l.section # Null => l.id = Null /\ l.comment # "block"
             /\ l.id # Null => l.section = Null /\ l.comment # "block"
  BY DEF Line
<1> QED BY <1>1, <1>2, <1>3

LEMMA FirstIs ==
  ASSUME NEW S, S \subseteq Nat, NEW otherwise
  PROVE  /\ S = {} => First(S, otherwise) = otherwise
         /\ S # {} => First(S, otherwise) \in S /\ \A j \in S : First(S, otherwise) <= j
<1>1. CASE S = {}
  BY <1>1 DEF First
<1>2. CASE S # {}
  <2>1. \E i \in S : \A j \in S : i <= j
    BY <1>2, LeastNumber
  <2> QED BY <1>2, <2>1 DEF First
<1> QED BY <1>1, <1>2

LEMMA SectionAtIs ==
  ASSUME NEW lines \in Seq(Line), NEW s, NEW at, at = SectionAt(lines, s)
  PROVE  /\ at = 0 => \A i \in 1 .. Len(lines) : lines[i].section # s
         /\ at # 0 => /\ at \in 1 .. Len(lines) /\ lines[at].section = s
                      /\ \A i \in 1 .. at - 1 : lines[i].section # s
<1> DEFINE S == {i \in DOMAIN lines : lines[i].section = s}
<1>1. /\ S \subseteq Nat /\ at = First(S, 0)
      /\ \A i : i \in S <=> i \in 1 .. Len(lines) /\ lines[i].section = s
  BY LineIs DEF SectionAt
<1> HIDE DEF S
<1>2. S = {} => at = 0
  BY <1>1, FirstIs
<1>3. S # {} => at \in S /\ \A j \in S : at <= j
  BY <1>1, FirstIs
<1>4. CASE S = {}
  BY <1>1, <1>2, <1>4
<1>5. CASE S # {}
  BY <1>1, <1>3, <1>5
<1> QED BY <1>4, <1>5

LEMMA SectionEndIs ==
  ASSUME NEW lines \in Seq(Line), NEW i \in 1 .. Len(lines), NEW end, end = SectionEnd(lines, i)
  PROVE  /\ end \in i + 1 .. Len(lines) + 1
         /\ \A j \in i + 1 .. end - 1 : lines[j].section = Null
         /\ end <= Len(lines) => lines[end].section # Null
<1> DEFINE S == {j \in DOMAIN lines : j > i /\ lines[j].section # Null}
<1>1. /\ S \subseteq Nat /\ end = First(S, Len(lines) + 1) /\ Len(lines) \in Nat
      /\ \A j : j \in S <=> j \in 1 .. Len(lines) /\ j > i /\ lines[j].section # Null
  BY LineIs DEF SectionEnd
<1> HIDE DEF S
<1>2. CASE S = {}
  <2>1. end = Len(lines) + 1
    BY <1>1, <1>2, FirstIs
  <2> QED BY <1>1, <1>2, <2>1
<1>3. CASE S # {}
  <2>1. end \in S /\ \A j \in S : end <= j
    BY <1>1, <1>3, FirstIs
  <2> QED BY <1>1, <2>1
<1> QED BY <1>2, <1>3

LEMMA KeyAtIs ==
  ASSUME NEW lines \in Seq(Line), NEW s, NEW k, NEW at, at = SectionAt(lines, s),
         NEW end, end = SectionEnd(lines, at), NEW key, key = KeyAt(lines, s, k)
  PROVE  /\ key # 0 => at # 0 /\ key \in at + 1 .. end - 1 /\ lines[key].id = k
         /\ key = 0 /\ at # 0 => \A j \in at + 1 .. end - 1 : lines[j].id # k
<1>1. CASE at = 0
  BY <1>1 DEF KeyAt
<1>2. CASE at # 0
  <2> DEFINE S == {j \in at + 1 .. end - 1 : lines[j].id = k}
  <2>1. at \in 1 .. Len(lines)
    BY <1>2, SectionAtIs
  <2>2. end \in at + 1 .. Len(lines) + 1
    BY <2>1, SectionEndIs
  <2>3. /\ S \subseteq Nat /\ key = First(S, 0) /\ 0 \notin S
        /\ \A j : j \in S <=> j \in at + 1 .. end - 1 /\ lines[j].id = k
    BY <1>2, <2>1, <2>2, LineIs DEF KeyAt
  <2> HIDE DEF S
  <2>4. S = {} => key = 0
    BY <2>3, FirstIs
  <2>5. S # {} => key \in S
    BY <2>3, FirstIs
  <2> QED BY <1>2, <2>3, <2>4, <2>5
<1> QED BY <1>1, <1>2

(* A search finds the key that is under the section.                       *)
LEMMA FindIs ==
  ASSUME NEW lines, Good(lines), NEW s, s # Null, NEW k, k # Null
  PROVE  /\ \A j \in 1 .. Len(lines) :
              lines[j].id = k /\ Under(lines, s, j) => Find(lines, s, k) = lines[j].value
         /\ (\A j \in 1 .. Len(lines) : ~ (lines[j].id = k /\ Under(lines, s, j))) =>
              Find(lines, s, k) = Null
<1> DEFINE at == SectionAt(lines, s)
           end == SectionEnd(lines, at)
           key == KeyAt(lines, s, k)
<1>0. lines \in Seq(Line) /\ Len(lines) \in Nat /\ DOMAIN lines = 1 .. Len(lines)
  BY LineIs DEF Good
<1>1. /\ at = 0 => \A i \in 1 .. Len(lines) : lines[i].section # s
      /\ at # 0 => at \in 1 .. Len(lines) /\ lines[at].section = s
  BY <1>0, SectionAtIs
<1>2. at # 0 => /\ end \in at + 1 .. Len(lines) + 1
                /\ \A j \in at + 1 .. end - 1 : lines[j].section = Null
                /\ end <= Len(lines) => lines[end].section # Null
  BY <1>0, <1>1, SectionEndIs
<1>3. /\ key # 0 => at # 0 /\ key \in at + 1 .. end - 1 /\ lines[key].id = k
      /\ key = 0 /\ at # 0 => \A j \in at + 1 .. end - 1 : lines[j].id # k
  BY <1>0, KeyAtIs
<1>4. Find(lines, s, k) = IF key = 0 THEN Null ELSE lines[key].value
  BY DEF Find
<1> HIDE DEF at, end, key
<1>5. ASSUME NEW j \in 1 .. Len(lines), lines[j].id = k, Under(lines, s, j)
      PROVE  Find(lines, s, k) = lines[j].value
  <2>1. PICK i \in 1 .. j - 1 : lines[i].section = s /\ \A m \in i + 1 .. j : lines[m].section = Null
    BY <1>5 DEF Under
  <2>2. at # 0 /\ at = i
    <3>1. at # 0 /\ i \in 1 .. Len(lines)
      BY <1>0, <1>1, <2>1
    <3>2. ~ (at < i) /\ ~ (i < at)
      BY <1>0, <1>1, <2>1, <3>1 DEF Good, Unique
    <3> QED BY <1>1, <3>1, <3>2
  <2>3. j \in at + 1 .. end - 1
    BY <1>0, <1>2, <2>1, <2>2
  <2>4. key # 0
    BY <1>3, <1>5, <2>2, <2>3
  <2>5. key = j
    <3>1. key \in at + 1 .. end - 1 /\ lines[key].id = k /\ key \in 1 .. Len(lines)
      BY <1>0, <1>1, <1>2, <1>3, <2>4
    <3>2. ~ (key < j)
      <4> SUFFICES ASSUME key < j PROVE FALSE
        OBVIOUS
      <4>1. PICK m \in key .. j : lines[m].section # Null
        BY <1>0, <1>5, <3>1 DEF Good, Unique
      <4>2. m \in at + 1 .. end - 1
        BY <1>1, <1>2, <2>2, <2>3, <3>1
      <4> QED BY <1>2, <2>2, <4>1, <4>2
    <3>3. ~ (j < key)
      <4> SUFFICES ASSUME j < key PROVE FALSE
        OBVIOUS
      <4>1. PICK m \in j .. key : lines[m].section # Null
        BY <1>0, <1>5, <3>1 DEF Good, Unique
      <4>2. m \in at + 1 .. end - 1
        BY <1>1, <1>2, <2>2, <2>3, <3>1
      <4> QED BY <1>2, <2>2, <4>1, <4>2
    <3> QED BY <3>1, <3>2, <3>3
  <2> QED BY <1>4, <2>4, <2>5
<1>6. ASSUME \A j \in 1 .. Len(lines) : ~ (lines[j].id = k /\ Under(lines, s, j))
      PROVE  Find(lines, s, k) = Null
  <2> SUFFICES ASSUME key # 0 PROVE FALSE
    BY <1>4
  <2>1. key \in 1 .. Len(lines) /\ at \in 1 .. key - 1
    BY <1>0, <1>1, <1>2, <1>3
  <2>2. Under(lines, s, key)
    BY <1>1, <1>2, <1>3, <2>1 DEF Under
  <2> QED BY <1>3, <1>6, <2>1, <2>2
<1> QED BY <1>5, <1>6

(* The section line of a key is the last one above it.                     *)
LEMMA OneSection ==
  ASSUME NEW lines, Good(lines), NEW a, a # Null, NEW i \in 1 .. Len(lines), lines[i].section = a,
         NEW j \in 1 .. Len(lines)
  PROVE  Under(lines, a, j) <=> i < j /\ \A m \in i + 1 .. j : lines[m].section = Null
<1>0. lines \in Seq(Line) /\ Len(lines) \in Nat /\ DOMAIN lines = 1 .. Len(lines)
  BY LineIs DEF Good
<1>1. ASSUME Under(lines, a, j) PROVE i < j /\ \A m \in i + 1 .. j : lines[m].section = Null
  <2>1. PICK n \in 1 .. j - 1 : lines[n].section = a /\ \A m \in n + 1 .. j : lines[m].section = Null
    BY <1>1 DEF Under
  <2>2. n \in 1 .. Len(lines)
    BY <1>0, <2>1
  <2>3. ~ (n < i) /\ ~ (i < n)
    BY <1>0, <2>1, <2>2 DEF Good, Unique
  <2>4. n = i
    BY <1>0, <2>2, <2>3
  <2> QED BY <2>1, <2>4
<1>2. ASSUME i < j, \A m \in i + 1 .. j : lines[m].section = Null PROVE Under(lines, a, j)
  BY <1>0, <1>2 DEF Under
<1> QED BY <1>1, <1>2

LEMMA SectionOfKey ==
  ASSUME NEW lines, Good(lines), NEW a, a # Null, NEW b, b # Null, NEW j \in 1 .. Len(lines),
         Under(lines, a, j), Under(lines, b, j)
  PROVE  a = b
<1>0. Len(lines) \in Nat
  BY DEF Good
<1>1. PICK i \in 1 .. j - 1 : lines[i].section = a /\ \A m \in i + 1 .. j : lines[m].section = Null
  BY DEF Under
<1>2. PICK n \in 1 .. j - 1 : lines[n].section = b /\ \A m \in n + 1 .. j : lines[m].section = Null
  BY DEF Under
<1>3. ~ (i < n) /\ ~ (n < i)
  BY <1>0, <1>1, <1>2
<1> QED BY <1>1, <1>2, <1>3

(* The comments above a line are comments only.                            *)
LEMMA AboveIs ==
  ASSUME NEW lines \in Seq(Line), NEW i \in 1 .. Len(lines) + 1, NEW top, top = Above(lines, i)
  PROVE  top \in 1 .. i /\ \A m \in top .. i - 1 : lines[m].comment = "block"
<1> DEFINE S == {j \in 1 .. i : \A m \in j .. i - 1 : lines[m].comment = "block"}
<1>0. Len(lines) \in Nat
  OBVIOUS
<1>1. /\ S \subseteq Nat /\ i \in S
      /\ \A j : j \in S <=> j \in 1 .. i /\ \A m \in j .. i - 1 : lines[m].comment = "block"
  OBVIOUS
<1> HIDE DEF S
<1>2. PICK j \in S : \A m \in S : j <= m
  BY <1>1, LeastNumber
<1>3. j = 1 \/ lines[j - 1].comment # "block"
  <2> SUFFICES ASSUME j # 1, lines[j - 1].comment = "block" PROVE FALSE
    OBVIOUS
  <2>1. j - 1 \in 1 .. i /\ ~ (j <= j - 1)
    BY <1>0, <1>1
  <2>2. \A m \in j - 1 .. i - 1 : m = j - 1 \/ m \in j .. i - 1
    BY <1>0, <1>1
  <2>3. j - 1 \in S
    BY <1>1, <2>1, <2>2
  <2> QED BY <1>2, <2>1, <2>3
<1>4. \E x \in 1 .. i : /\ \A m \in x .. i - 1 : lines[m].comment = "block"
                        /\ x = 1 \/ lines[x - 1].comment # "block"
  BY <1>1, <1>3
<1> QED BY <1>4 DEF Above

-----------------------------------------------------------------------------
(* A file from which lines were taken out: line i of new was line e[i].    *)

Thinned(old, new, e) ==
  /\ e \in [1 .. Len(new) -> 1 .. Len(old)]
  /\ \A i, j \in 1 .. Len(new) : i < j => e[i] < e[j]
  /\ \A i \in 1 .. Len(new) : new[i] = old[e[i]]

Taken(new, e, m) == \A i \in 1 .. Len(new) : e[i] # m

LEMMA ThinnedOrder ==
  ASSUME NEW old \in Seq(Line), NEW new \in Seq(Line), NEW e, Thinned(old, new, e),
         NEW i \in 1 .. Len(new), NEW j \in 1 .. Len(new)
  PROVE  /\ e[i] \in 1 .. Len(old) /\ e[j] \in 1 .. Len(old)
         /\ e[i] < e[j] <=> i < j
         /\ new[i] = old[e[i]] /\ new[j] = old[e[j]]
<1>1. /\ e[i] \in 1 .. Len(old) /\ e[j] \in 1 .. Len(old)
      /\ new[i] = old[e[i]] /\ new[j] = old[e[j]]
      /\ i < j => e[i] < e[j]
      /\ j < i => e[j] < e[i]
  BY DEF Thinned
<1>2. Len(old) \in Nat /\ Len(new) \in Nat
  OBVIOUS
<1> QED BY <1>1, <1>2

(* A section line is taken out with all of its keys.                       *)
Whole(old, new, e) ==
  \A m \in 1 .. Len(old), j \in 1 .. Len(new) :
    Taken(new, e, m) /\ old[m].section # Null /\ m < e[j] /\ new[j].id # Null =>
      \E i \in 1 .. j : m < e[i] /\ new[i].section # Null

LEMMA ThinnedGood ==
  ASSUME NEW old, NEW new \in Seq(Line), NEW e,
         Good(old), Thinned(old, new, e), Whole(old, new, e)
  PROVE  Good(new)
<1>0. old \in Seq(Line) /\ Len(old) \in Nat /\ Len(new) \in Nat
      /\ DOMAIN new = 1 .. Len(new) /\ DOMAIN old = 1 .. Len(old)
  BY LineIs DEF Good
<1> SUFFICES ASSUME NEW i \in 1 .. Len(new), NEW j \in 1 .. Len(new), i < j
             PROVE  /\ new[i].section # Null => new[i].section # new[j].section
                    /\ (new[i].id # Null /\ new[i].id = new[j].id) =>
                         \E m \in i .. j : new[m].section # Null
  BY <1>0 DEF Good, Unique
<1>1. /\ e[i] \in 1 .. Len(old) /\ e[j] \in 1 .. Len(old) /\ e[i] < e[j]
      /\ new[i] = old[e[i]] /\ new[j] = old[e[j]]
  BY DEF Thinned
<1>2. new[i].section # Null => new[i].section # new[j].section
  BY <1>0, <1>1 DEF Good, Unique
<1>3. ASSUME new[i].id # Null, new[i].id = new[j].id
      PROVE  \E m \in i .. j : new[m].section # Null
  <2>1. PICK m \in e[i] .. e[j] : old[m].section # Null
    BY <1>0, <1>1, <1>3 DEF Good, Unique
  <2>2. m \in 1 .. Len(old) /\ e[i] < m /\ m < e[j]
    <3>1. old[e[i]].section = Null /\ old[e[j]].section = Null
      BY <1>0, <1>1, <1>3, LineIs
    <3> QED BY <1>0, <1>1, <2>1, <3>1
  <2>3. CASE Taken(new, e, m)
    <3>1. PICK x \in 1 .. j : m < e[x] /\ new[x].section # Null
      BY <1>3, <2>1, <2>2, <2>3 DEF Whole
    <3>2. i < x
      <4>1. x \in 1 .. Len(new) /\ e[x] \in 1 .. Len(old) /\ e[i] < e[x]
        BY <1>0, <1>1, <2>2, <3>1 DEF Thinned
      <4> QED BY <1>0, <4>1, ThinnedOrder
    <3> QED BY <1>0, <3>1, <3>2
  <2>4. CASE ~ Taken(new, e, m)
    <3>1. PICK x \in 1 .. Len(new) : e[x] = m
      BY <2>4 DEF Taken
    <3>2. i < x /\ x < j
      BY <1>0, <2>2, <3>1, ThinnedOrder
    <3>3. new[x].section # Null
      BY <2>1, <3>1 DEF Thinned
    <3> QED BY <1>0, <3>2, <3>3
  <2> QED BY <2>3, <2>4
<1> QED BY <1>2, <1>3

(* What is under a section after it, was before.                           *)
LEMMA ThinnedUnder ==
  ASSUME NEW old, NEW new \in Seq(Line), NEW e, NEW s, s # Null,
         Good(old), Thinned(old, new, e), Whole(old, new, e),
         NEW j \in 1 .. Len(new), new[j].id # Null, Under(new, s, j)
  PROVE  e[j] \in 1 .. Len(old) /\ new[j] = old[e[j]] /\ Under(old, s, e[j])
<1>0. old \in Seq(Line) /\ Len(old) \in Nat /\ Len(new) \in Nat
  BY LineIs DEF Good
<1>1. PICK i \in 1 .. j - 1 : new[i].section = s /\ \A m \in i + 1 .. j : new[m].section = Null
  BY DEF Under
<1>2. /\ i \in 1 .. Len(new) /\ i < j
      /\ e[i] \in 1 .. Len(old) /\ e[j] \in 1 .. Len(old) /\ e[i] < e[j]
      /\ new[i] = old[e[i]] /\ new[j] = old[e[j]]
  BY <1>0 DEF Thinned
<1>3. ASSUME NEW m \in e[i] + 1 .. e[j], old[m].section # Null PROVE FALSE
  <2>1. m \in 1 .. Len(old) /\ e[i] < m /\ m < e[j]
    <3>1. old[e[j]].section = Null
      BY <1>0, <1>2, LineIs
    <3> QED BY <1>0, <1>2, <1>3, <3>1
  <2>2. CASE Taken(new, e, m)
    <3>1. PICK x \in 1 .. j : m < e[x] /\ new[x].section # Null
      BY <1>3, <2>1, <2>2 DEF Whole
    <3>2. x \in 1 .. Len(new) /\ e[x] \in 1 .. Len(old)
      <4>1. x \in 1 .. Len(new)
        BY <1>0, <3>1
      <4> QED BY <4>1 DEF Thinned
    <3>3. i < x
      <4>1. e[i] < e[x]
        BY <1>0, <1>2, <2>1, <3>1, <3>2
      <4> QED BY <1>0, <1>2, <3>2, <4>1, ThinnedOrder
    <3> QED BY <1>0, <1>1, <3>1, <3>3
  <2>3. CASE ~ Taken(new, e, m)
    <3>1. PICK x \in 1 .. Len(new) : e[x] = m
      BY <2>3 DEF Taken
    <3>2. i < x /\ x < j
      BY <1>0, <1>2, <2>1, <3>1, ThinnedOrder
    <3>3. new[x].section # Null
      BY <1>3, <3>1 DEF Thinned
    <3> QED BY <1>0, <1>1, <3>2, <3>3
  <2> QED BY <2>2, <2>3
<1>4. e[i] \in 1 .. e[j] - 1 /\ old[e[i]].section = s
  BY <1>0, <1>1, <1>2
<1> QED BY <1>2, <1>3, <1>4 DEF Under

(* What was under a section is there after it, if neither was taken out.   *)
LEMMA ThinnedKeeps ==
  ASSUME NEW old, NEW new \in Seq(Line), NEW e, NEW s, s # Null,
         Good(old), Thinned(old, new, e),
         NEW i \in 1 .. Len(new), NEW j \in 1 .. Len(new), old[e[i]].section = s,
         Under(old, s, e[j])
  PROVE  Under(new, s, j) /\ new[j] = old[e[j]]
<1>0. old \in Seq(Line) /\ Len(old) \in Nat /\ Len(new) \in Nat
  BY LineIs DEF Good
<1>1. /\ e[i] \in 1 .. Len(old) /\ e[j] \in 1 .. Len(old)
      /\ new[i] = old[e[i]] /\ new[j] = old[e[j]]
  BY DEF Thinned
<1>1a. e[i] < e[j] /\ \A m \in e[i] + 1 .. e[j] : old[m].section = Null
  BY <1>0, <1>1, OneSection
<1>2. i < j
  BY <1>0, <1>1a, ThinnedOrder
<1>3. ASSUME NEW m \in i + 1 .. j PROVE new[m].section = Null
  <2>1. m \in 1 .. Len(new) /\ i < m /\ (m < j \/ m = j)
    BY <1>0
  <2>2. e[i] < e[m] /\ (e[m] < e[j] \/ e[m] = e[j]) /\ e[m] \in 1 .. Len(old) /\ new[m] = old[e[m]]
    BY <2>1 DEF Thinned
  <2>3. e[m] \in e[i] + 1 .. e[j]
    BY <1>0, <1>1, <2>2
  <2> QED BY <1>1a, <2>2, <2>3
<1>4. i \in 1 .. j - 1 /\ new[i].section = s
  BY <1>0, <1>1, <1>2
<1>5. Under(new, s, j)
  BY <1>3, <1>4 DEF Under
<1> QED BY <1>1, <1>5

-----------------------------------------------------------------------------
(* The changes of a file.                                                  *)

Has(lines, s) == \E i \in 1 .. Len(lines) : lines[i].section = s

(* What the searches find after a change of key k of section s (of all of  *)
(* it if k is Null) is the value v of the change, and what was there of    *)
(* anything else.                                                          *)
Effect(old, new, s, k, v) ==
  \A a, b : a # Null /\ b # Null =>
    Find(new, a, b) = IF a = s /\ k \in {Null, b} THEN v ELSE Find(old, a, b)

OthersStay(old, new, s) == \A a : a \notin {Null, s} => (Has(new, a) <=> Has(old, a))

(* Lines from .. to - 1 are taken out.                                     *)
WithoutLines(old, top, to, new) ==
  /\ new \in Seq(Line) /\ Len(new) = Len(old) - (to - top)
  /\ \A i \in 1 .. Len(new) : new[i] = IF i < top THEN old[i] ELSE old[i + (to - top)]

LEMMA Joined ==
  ASSUME NEW L \in Seq(Line), NEW R \in Seq(Line)
  PROVE  /\ L \o R \in Seq(Line) /\ Len(L \o R) = Len(L) + Len(R)
         /\ \A i \in 1 .. Len(L) + Len(R) : (L \o R)[i] = IF i <= Len(L) THEN L[i] ELSE R[i - Len(L)]
BY ConcatProperties

LEMMA Part ==
  ASSUME NEW old \in Seq(Line), NEW m \in 1 .. Len(old) + 1, NEW n \in m - 1 .. Len(old)
  PROVE  /\ SubSeq(old, m, n) \in Seq(Line) /\ Len(SubSeq(old, m, n)) = n + 1 - m
         /\ \A i \in 1 .. n + 1 - m : SubSeq(old, m, n)[i] = old[m + i - 1]
<1>1. Len(old) \in Nat /\ m \in Int /\ n \in Int /\ 1 <= m /\ m - 1 <= n /\ n <= Len(old)
  OBVIOUS
<1>2. \A i \in m .. n : old[i] \in Line
  BY <1>1
<1> DEFINE part == SubSeq(old, m, n)
<1>3. /\ part \in Seq(Line)
      /\ Len(part) = IF m <= n THEN n - m + 1 ELSE 0
      /\ \A i \in 1 .. n - m + 1 : part[i] = old[m + i - 1]
  BY <1>1, <1>2, SubSeqProperties
<1> HIDE DEF part
<1>4. n - m + 1 = n + 1 - m /\ Len(part) = n + 1 - m
  BY <1>1, <1>3
<1>5. part \in Seq(Line) /\ Len(part) = n + 1 - m /\ \A i \in 1 .. n + 1 - m : part[i] = old[m + i - 1]
  BY <1>3, <1>4
<1> QED BY <1>5 DEF part

LEMMA LinesCut ==
  ASSUME NEW old \in Seq(Line), NEW top \in 1 .. Len(old) + 1, NEW to \in top .. Len(old) + 1
  PROVE  WithoutLines(old, top, to, SubSeq(old, 1, top - 1) \o SubSeq(old, to, Len(old)))
<1>0. Len(old) \in Nat
  OBVIOUS
<1> DEFINE L == SubSeq(old, 1, top - 1)
           R == SubSeq(old, to, Len(old))
<1>1. L \in Seq(Line) /\ Len(L) = top - 1 /\ \A i \in 1 .. top - 1 : L[i] = old[i]
  <2>1. 1 \in 1 .. Len(old) + 1 /\ top - 1 \in 1 - 1 .. Len(old)
    BY <1>0
  <2>2. L \in Seq(Line) /\ Len(L) = (top - 1) + 1 - 1
        /\ \A i \in 1 .. (top - 1) + 1 - 1 : L[i] = old[1 + i - 1]
    BY <2>1, Part
  <2> HIDE DEF L
  <2> QED BY <1>0, <2>2
<1>2. /\ R \in Seq(Line) /\ Len(R) = Len(old) + 1 - to
      /\ \A i \in 1 .. Len(old) + 1 - to : R[i] = old[to + i - 1]
  <2>1. to \in 1 .. Len(old) + 1 /\ Len(old) \in to - 1 .. Len(old)
    BY <1>0
  <2> QED BY <2>1, Part
<1> DEFINE new == L \o R
<1>3. /\ new \in Seq(Line) /\ Len(new) = Len(L) + Len(R)
      /\ \A i \in 1 .. Len(L) + Len(R) : new[i] = IF i <= Len(L) THEN L[i] ELSE R[i - Len(L)]
  BY <1>1, <1>2, Joined
<1>4. WithoutLines(old, top, to, new)
  <2> HIDE DEF L, R, new
  <2>1. Len(new) = Len(old) - (to - top)
    BY <1>0, <1>1, <1>2, <1>3
  <2>2. ASSUME NEW i \in 1 .. Len(new)
        PROVE  new[i] = IF i < top THEN old[i] ELSE old[i + (to - top)]
    <3>1. new[i] = IF i <= Len(L) THEN L[i] ELSE R[i - Len(L)]
      BY <1>3
    <3>2. CASE i < top
      BY <1>0, <1>1, <3>1, <3>2
    <3>3. CASE ~ (i < top)
      <4>1. i - (top - 1) \in 1 .. Len(old) + 1 - to /\ to + (i - (top - 1)) - 1 = i + (to - top)
        BY <1>0, <2>1, <3>3
      <4>2. new[i] = R[i - (top - 1)]
        BY <1>0, <1>1, <2>1, <3>1, <3>3
      <4> QED BY <1>2, <3>3, <4>1, <4>2
    <3> QED BY <3>2, <3>3
  <2> QED BY <1>3, <2>1, <2>2 DEF WithoutLines
<1> QED BY <1>4

LEMMA CutOut ==
  ASSUME NEW old \in Seq(Line), NEW top \in 1 .. Len(old) + 1, NEW to \in top .. Len(old) + 1,
         NEW new, WithoutLines(old, top, to, new)
  PROVE  \E e : /\ Thinned(old, new, e)
               /\ \A m \in 1 .. Len(old) : Taken(new, e, m) <=> m \in top .. to - 1
<1>0. Len(old) \in Nat
  OBVIOUS
<1>3. new \in Seq(Line) /\ Len(new) = Len(old) - (to - top)
  BY DEF WithoutLines
<1>4. ASSUME NEW i \in 1 .. Len(new)
      PROVE  new[i] = IF i < top THEN old[i] ELSE old[i + (to - top)]
  BY DEF WithoutLines
<1> DEFINE e == [i \in 1 .. Len(new) |-> IF i < top THEN i ELSE i + (to - top)]
<1>5. /\ e \in [1 .. Len(new) -> 1 .. Len(old)]
      /\ \A i \in 1 .. Len(new) : e[i] = IF i < top THEN i ELSE i + (to - top)
  BY <1>0, <1>3
<1> HIDE DEF e
<1>6. Thinned(old, new, e)
  <2>1. ASSUME NEW i \in 1 .. Len(new), NEW j \in 1 .. Len(new), i < j PROVE e[i] < e[j]
    BY <1>0, <1>3, <1>5, <2>1
  <2>2. ASSUME NEW i \in 1 .. Len(new) PROVE new[i] = old[e[i]]
    BY <1>4, <1>5
  <2> QED BY <1>5, <2>1, <2>2 DEF Thinned
<1>7. ASSUME NEW m \in 1 .. Len(old) PROVE Taken(new, e, m) <=> m \in top .. to - 1
  <2>1. CASE m < top
    <3>1. m \in 1 .. Len(new)
      BY <1>0, <1>3, <2>1
    <3>2. e[m] = m
      BY <1>5, <2>1, <3>1
    <3> QED BY <2>1, <3>1, <3>2, <1>0 DEF Taken
  <2>2. CASE m >= to
    <3>1. m - (to - top) \in 1 .. Len(new) /\ ~ (m - (to - top) < top)
          /\ (m - (to - top)) + (to - top) = m
      BY <1>0, <1>3, <2>2
    <3>2. e[m - (to - top)] = m
      BY <1>5, <3>1
    <3> QED BY <2>2, <3>1, <3>2, <1>0 DEF Taken
  <2>3. CASE m \in top .. to - 1
    <3>1. ASSUME NEW i \in 1 .. Len(new) PROVE e[i] # m
      BY <1>0, <1>3, <1>5, <2>3
    <3> QED BY <2>3, <3>1 DEF Taken
  <2> QED BY <1>0, <2>1, <2>2, <2>3
<1> QED BY <1>6, <1>7

LEMMA CutHas ==
  ASSUME NEW old \in Seq(Line), NEW top \in 1 .. Len(old) + 1, NEW to \in top .. Len(old) + 1,
         NEW new, WithoutLines(old, top, to, new),
         NEW a, \A m \in 1 .. Len(old) : m \in top .. to - 1 => old[m].section # a
  PROVE  Has(new, a) <=> Has(old, a)
<1>1. PICK e : /\ Thinned(old, new, e)
               /\ \A m \in 1 .. Len(old) : Taken(new, e, m) <=> m \in top .. to - 1
  BY CutOut
<1>2. ASSUME NEW i \in 1 .. Len(new), new[i].section = a PROVE Has(old, a)
  BY <1>1, <1>2 DEF Thinned, Has
<1>3. ASSUME NEW i \in 1 .. Len(old), old[i].section = a PROVE Has(new, a)
  <2>1. ~ Taken(new, e, i)
    BY <1>1, <1>3
  <2> QED BY <1>1, <1>3, <2>1 DEF Thinned, Has, Taken
<1> QED BY <1>2, <1>3 DEF Has

(* A search after lines were taken out finds what it found before, unless  *)
(* the key or the section line it belonged to is among them.               *)
Spares(old, new, e, a, b) ==
  \A i, j \in 1 .. Len(old) :
    old[i].section = a /\ old[j].id = b /\ Under(old, a, j) => ~ Taken(new, e, i) /\ ~ Taken(new, e, j)

LEMMA ThinnedFind ==
  ASSUME NEW old, NEW new \in Seq(Line), NEW e, Good(old), Good(new),
         Thinned(old, new, e), Whole(old, new, e),
         NEW a, a # Null, NEW b, b # Null, Spares(old, new, e, a, b)
  PROVE  Find(new, a, b) = Find(old, a, b)
<1>0. old \in Seq(Line) /\ Len(old) \in Nat /\ Len(new) \in Nat
  BY LineIs DEF Good
<1>1. CASE \E j \in 1 .. Len(new) : new[j].id = b /\ Under(new, a, j)
  <2>1. PICK j \in 1 .. Len(new) : new[j].id = b /\ Under(new, a, j)
    BY <1>1
  <2>2. e[j] \in 1 .. Len(old) /\ new[j] = old[e[j]] /\ Under(old, a, e[j])
    BY <2>1, ThinnedUnder
  <2>3. Find(new, a, b) = new[j].value
    BY <2>1, FindIs
  <2>4. Find(old, a, b) = old[e[j]].value
    BY <2>1, <2>2, FindIs
  <2> QED BY <2>2, <2>3, <2>4
<1>2. CASE ~ \E j \in 1 .. Len(new) : new[j].id = b /\ Under(new, a, j)
  <2>1. Find(new, a, b) = Null
    BY <1>2, FindIs
  <2>2. ASSUME NEW m \in 1 .. Len(old), old[m].id = b, Under(old, a, m) PROVE FALSE
    <3>1. PICK n \in 1 .. m - 1 :
            old[n].section = a /\ \A x \in n + 1 .. m : old[x].section = Null
      BY <2>2 DEF Under
    <3>2. n \in 1 .. Len(old) /\ n < m
      BY <1>0, <3>1
    <3>3. ~ Taken(new, e, n) /\ ~ Taken(new, e, m)
      BY <2>2, <3>1, <3>2 DEF Spares
    <3>4. PICK i \in 1 .. Len(new), j \in 1 .. Len(new) : e[i] = n /\ e[j] = m
      BY <3>3 DEF Taken
    <3>5. old[e[i]].section = a /\ Under(old, a, e[j])
      BY <2>2, <3>1, <3>4
    <3>6. Under(new, a, j) /\ new[j] = old[e[j]]
      BY <3>5, ThinnedKeeps
    <3> QED BY <1>2, <2>2, <3>4, <3>6
  <2>3. Find(old, a, b) = Null
    BY <2>2, FindIs
  <2> QED BY <2>1, <2>3
<1> QED BY <1>1, <1>2

(* A section is deleted with its keys and the comments above it.           *)
LEMMA SectionDeleted ==
  ASSUME NEW old, Good(old), NEW s, s # Null,
         NEW at, at = SectionAt(old, s), at # 0,
         NEW top, top = Above(old, at), NEW to, to = Above(old, SectionEnd(old, at)),
         NEW new, WithoutLines(old, top, to, new)
  PROVE  Good(new) /\ Effect(old, new, s, Null, Null) /\ OthersStay(old, new, s)
<1> DEFINE end == SectionEnd(old, at)
<1>0. old \in Seq(Line) /\ Len(old) \in Nat /\ DOMAIN old = 1 .. Len(old)
  BY LineIs DEF Good
<1>1. at \in 1 .. Len(old) /\ old[at].section = s
  BY <1>0, SectionAtIs
<1>2. /\ end \in at + 1 .. Len(old) + 1
      /\ \A j \in at + 1 .. end - 1 : old[j].section = Null
      /\ end <= Len(old) => old[end].section # Null
  BY <1>0, <1>1, SectionEndIs
<1>3. top \in 1 .. at /\ \A m \in top .. at - 1 : old[m].comment = "block"
  <2>1. at \in 1 .. Len(old) + 1
    BY <1>0, <1>1
  <2> QED BY <1>0, <2>1, AboveIs
<1>4. to \in 1 .. end /\ \A m \in to .. end - 1 : old[m].comment = "block"
  <2>1. end \in 1 .. Len(old) + 1
    BY <1>0, <1>1, <1>2
  <2> QED BY <1>0, <2>1, AboveIs
<1> HIDE DEF end
<1>5. at < to
  <2> SUFFICES ASSUME to <= at PROVE FALSE
    BY <1>1, <1>4
  <2>1. old[at].comment = "block"
    BY <1>0, <1>1, <1>2, <1>4
  <2> QED BY <1>0, <1>1, <2>1, LineIs
<1>6. top \in 1 .. Len(old) + 1 /\ to \in top .. Len(old) + 1
  BY <1>0, <1>1, <1>2, <1>3, <1>4, <1>5
<1>7. new \in Seq(Line) /\ Len(new) \in Nat
  BY DEF WithoutLines
<1>7a. PICK e : /\ Thinned(old, new, e)
                /\ \A m \in 1 .. Len(old) : Taken(new, e, m) <=> m \in top .. to - 1
  BY <1>0, <1>6, CutOut
<1>8. ASSUME NEW m \in 1 .. Len(old), m \in top .. to - 1, m # at PROVE old[m].section = Null
  <2>1. CASE m < at
    <3>1. old[m].comment = "block"
      BY <1>1, <1>3, <1>8, <2>1
    <3> QED BY <1>0, <3>1, LineIs
  <2>2. CASE m > at
    BY <1>0, <1>1, <1>2, <1>4, <1>8, <2>2
  <2> QED BY <1>1, <1>8, <2>1, <2>2
<1>9. ASSUME NEW m \in 1 .. Len(old), old[m].id # Null, m \in top .. to - 1 PROVE Under(old, s, m)
  <2>1. at < m
    <3>1. CASE m < at
      <4>1. old[m].comment = "block"
        BY <1>1, <1>3, <1>9, <3>1
      <4> QED BY <1>0, <1>9, <4>1, LineIs
    <3>2. CASE m = at
      BY <1>0, <1>1, <1>9, <3>2, LineIs
    <3> QED BY <1>1, <3>1, <3>2
  <2>2. \A n \in at + 1 .. m : old[n].section = Null
    BY <1>0, <1>1, <1>2, <1>4, <1>9, <2>1
  <2> QED BY <1>1, <2>1, <2>2, OneSection
<1>10. Whole(old, new, e)
  <2> SUFFICES ASSUME NEW m \in 1 .. Len(old), NEW j \in 1 .. Len(new), Taken(new, e, m),
                      old[m].section # Null, m < e[j], new[j].id # Null
               PROVE  \E i \in 1 .. j : m < e[i] /\ new[i].section # Null
    BY DEF Whole
  <2>1. m = at
    BY <1>7, <1>7a, <1>8
  <2>2. e[j] \in 1 .. Len(old) /\ old[e[j]].id # Null /\ ~ Taken(new, e, e[j])
    BY <1>7, <1>7a DEF Thinned, Taken
  <2>3. e[j] >= to
    BY <1>7, <1>7a, <1>3, <2>1, <2>2
  <2>4. e[j] > end
    <3>1. old[e[j]].comment # "block" /\ old[e[j]].section = Null
      BY <1>0, <2>2, LineIs
    <3>2. ~ (e[j] \in to .. end - 1)
      BY <1>4, <3>1
    <3>3. e[j] # end
      BY <1>0, <1>2, <2>2, <3>1
    <3> QED BY <1>2, <1>4, <2>2, <2>3, <3>2, <3>3
  <2>5. end \in 1 .. Len(old) /\ old[end].section # Null /\ ~ (end \in top .. to - 1)
    BY <1>0, <1>1, <1>2, <1>4, <2>2, <2>4
  <2>6. PICK i \in 1 .. Len(new) : e[i] = end
    BY <1>7, <1>7a, <2>5 DEF Taken
  <2>7. i < j /\ new[i].section # Null
    BY <1>0, <1>7, <1>7a, <2>4, <2>5, <2>6, ThinnedOrder
  <2> QED BY <1>1, <1>2, <2>1, <2>6, <2>7
<1>11. Good(new)
  BY <1>7, <1>7a, <1>10, ThinnedGood
<1>12. ASSUME NEW a, NEW b, a # Null, b # Null
       PROVE  Find(new, a, b) = IF a = s /\ Null \in {Null, b} THEN Null ELSE Find(old, a, b)
  <2>1. CASE a = s
    <3>1. ASSUME NEW j \in 1 .. Len(new), new[j].id = b, Under(new, a, j) PROVE FALSE
      <4>1. PICK i \in 1 .. j - 1 : new[i].section = a
        BY <3>1 DEF Under
      <4>2. i \in 1 .. Len(new)
        OBVIOUS
      <4>3. e[i] \in 1 .. Len(old) /\ old[e[i]].section = s /\ ~ Taken(new, e, e[i])
        BY <1>7, <1>7a, <2>1, <4>1, <4>2 DEF Thinned, Taken
      <4>4. e[i] # at
        BY <1>1, <1>3, <1>5, <1>7, <1>7a, <4>3
      <4> QED BY <1>0, <1>1, <4>3, <4>4 DEF Good, Unique
    <3>2. Find(new, a, b) = Null
      BY <1>11, <1>12, <3>1, FindIs
    <3> QED BY <2>1, <3>2
  <2>2. CASE a # s
    <3>1. ASSUME NEW i \in 1 .. Len(old), NEW j \in 1 .. Len(old),
                 old[i].section = a, old[j].id = b, Under(old, a, j)
          PROVE  ~ Taken(new, e, i) /\ ~ Taken(new, e, j)
      <4>1. ~ (i \in top .. to - 1)
        BY <1>1, <1>8, <1>12, <2>2, <3>1
      <4>2. ~ (j \in top .. to - 1)
        <5> SUFFICES ASSUME j \in top .. to - 1 PROVE FALSE
          OBVIOUS
        <5>1. Under(old, s, j)
          BY <1>9, <1>12, <3>1
        <5> QED BY <1>12, <2>2, <3>1, <5>1, SectionOfKey
      <4> QED BY <1>7, <1>7a, <4>1, <4>2
    <3>2. Spares(old, new, e, a, b)
      BY <3>1 DEF Spares
    <3> QED BY <1>7, <1>7a, <1>10, <1>11, <1>12, <2>2, <3>2, ThinnedFind
  <2> QED BY <2>1, <2>2
<1>13. ASSUME NEW a, a \notin {Null, s} PROVE Has(new, a) <=> Has(old, a)
  <2>1. ASSUME NEW i \in 1 .. Len(new), new[i].section = a PROVE Has(old, a)
    BY <1>7, <1>7a, <2>1 DEF Thinned, Has
  <2>2. ASSUME NEW i \in 1 .. Len(old), old[i].section = a PROVE Has(new, a)
    <3>1. ~ Taken(new, e, i)
      BY <1>1, <1>7, <1>7a, <1>8, <1>13, <2>2
    <3> QED BY <1>7, <1>7a, <2>2, <3>1 DEF Thinned, Has, Taken
  <2> QED BY <2>1, <2>2 DEF Has
<1> QED BY <1>11, <1>12, <1>13 DEF Effect, OthersStay

(* A key is deleted with the comments above it.                            *)
LEMMA KeyDeleted ==
  ASSUME NEW old, Good(old), NEW s, s # Null, NEW k, k # Null,
         NEW key, key = KeyAt(old, s, k), key # 0,
         NEW top, top = Above(old, key), NEW new, WithoutLines(old, top, key + 1, new)
  PROVE  Good(new) /\ Effect(old, new, s, k, Null) /\ OthersStay(old, new, s)
<1> DEFINE at == SectionAt(old, s)
           end == SectionEnd(old, at)
<1>0. old \in Seq(Line) /\ Len(old) \in Nat /\ DOMAIN old = 1 .. Len(old)
  BY LineIs DEF Good
<1>1. at # 0 /\ key \in at + 1 .. end - 1 /\ old[key].id = k
  BY <1>0, KeyAtIs
<1>2. at \in 1 .. Len(old) /\ old[at].section = s
  BY <1>0, <1>1, SectionAtIs
<1>3. end \in at + 1 .. Len(old) + 1 /\ \A j \in at + 1 .. end - 1 : old[j].section = Null
  BY <1>0, <1>2, SectionEndIs
<1> HIDE DEF at, end
<1>4. key \in 1 .. Len(old) /\ key \in 1 .. Len(old) + 1
  BY <1>0, <1>1, <1>2, <1>3
<1>5. Under(old, s, key)
  BY <1>0, <1>1, <1>2, <1>3, <1>4, OneSection
<1>6. top \in 1 .. key /\ \A m \in top .. key - 1 : old[m].comment = "block"
  BY <1>0, <1>4, AboveIs
<1>7. new \in Seq(Line) /\ Len(new) \in Nat
  BY DEF WithoutLines
<1>8. PICK e : /\ Thinned(old, new, e)
               /\ \A m \in 1 .. Len(old) : Taken(new, e, m) <=> m \in top .. key
  <2>1. top \in 1 .. Len(old) + 1 /\ key + 1 \in top .. Len(old) + 1 /\ (key + 1) - 1 = key
    BY <1>0, <1>4, <1>6
  <2> QED BY <1>0, <2>1, CutOut
<1>9. ASSUME NEW m \in 1 .. Len(old), m \in top .. key
      PROVE  old[m].section = Null /\ (m # key => old[m].id = Null)
  <2>1. CASE m = key
    BY <1>0, <1>1, <1>4, <2>1, LineIs
  <2>2. CASE m # key
    <3>1. old[m].comment = "block"
      BY <1>4, <1>6, <1>9, <2>2
    <3> QED BY <1>0, <3>1, LineIs
  <2> QED BY <2>1, <2>2
<1>10. Whole(old, new, e)
  BY <1>8, <1>9 DEF Whole
<1>11. Good(new)
  BY <1>7, <1>8, <1>10, ThinnedGood
<1>12. ASSUME NEW a, NEW b, a # Null, b # Null
       PROVE  Find(new, a, b) = IF a = s /\ k \in {Null, b} THEN Null ELSE Find(old, a, b)
  <2>1. CASE a = s /\ b = k
    <3>1. ASSUME NEW j \in 1 .. Len(new), new[j].id = b, Under(new, a, j) PROVE FALSE
      <4>1. e[j] \in 1 .. Len(old) /\ new[j] = old[e[j]] /\ Under(old, s, e[j])
        <5>1. new[j].id # Null /\ Under(new, s, j) /\ s # Null
          BY <1>12, <2>1, <3>1
        <5>2. Thinned(old, new, e)
          BY <1>8
        <5> QED BY <1>7, <1>10, <5>1, <5>2, ThinnedUnder
      <4>2. /\ at < e[j] /\ \A m \in at + 1 .. e[j] : old[m].section = Null
            /\ at < key /\ \A m \in at + 1 .. key : old[m].section = Null
        <5>1. /\ at < e[j] /\ \A m \in at + 1 .. e[j] : old[m].section = Null
          BY <1>2, <4>1, OneSection
        <5>2. /\ at < key /\ \A m \in at + 1 .. key : old[m].section = Null
          BY <1>2, <1>4, <1>5, OneSection
        <5> QED BY <5>1, <5>2
      <4>3. e[j] = key
        <5>1. old[e[j]].id = k /\ old[key].id = k
          BY <1>1, <2>1, <3>1, <4>1
        <5>2. /\ e[j] \in Nat /\ key \in Nat /\ at \in Nat
              /\ \A m : m \in at + 1 .. e[j] \/ m \in at + 1 .. key => old[m].section = Null
          BY <1>2, <1>4, <4>1, <4>2
        <5>3. ASSUME NEW x \in 1 .. Len(old), NEW y \in 1 .. Len(old), x < y, old[x].id = k, old[y].id = k
              PROVE  \E m \in x .. y : old[m].section # Null
          BY <1>0, <5>3 DEF Good, Unique
        <5>4. ASSUME NEW x \in Nat, at < x, NEW y \in Nat, NEW m \in x .. y
              PROVE  m \in at + 1 .. y
          BY <5>2, <5>4
        <5>5. ~ (e[j] < key)
          <6> SUFFICES ASSUME e[j] < key PROVE FALSE
            OBVIOUS
          <6>1. PICK m \in e[j] .. key : old[m].section # Null
            BY <1>4, <4>1, <5>1, <5>3
          <6> QED BY <4>2, <5>2, <5>4, <6>1
        <5>6. ~ (key < e[j])
          <6> SUFFICES ASSUME key < e[j] PROVE FALSE
            OBVIOUS
          <6>1. PICK m \in key .. e[j] : old[m].section # Null
            BY <1>4, <4>1, <5>1, <5>3
          <6> QED BY <4>2, <5>2, <5>4, <6>1
        <5> QED BY <5>2, <5>5, <5>6
      <4>4. ~ Taken(new, e, key)
        BY <4>3 DEF Taken
      <4> QED BY <1>4, <1>6, <1>8, <4>4
    <3>2. Find(new, a, b) = Null
      BY <1>11, <1>12, <3>1, FindIs
    <3> QED BY <2>1, <3>2
  <2>2. CASE ~ (a = s /\ b = k)
    <3>1. ASSUME NEW i \in 1 .. Len(old), NEW j \in 1 .. Len(old),
                 old[i].section = a, old[j].id = b, Under(old, a, j)
          PROVE  ~ Taken(new, e, i) /\ ~ Taken(new, e, j)
      <4>1. ~ (i \in top .. key)
        BY <1>9, <1>12, <3>1
      <4>2. ~ (j \in top .. key)
        <5> SUFFICES ASSUME j \in top .. key PROVE FALSE
          OBVIOUS
        <5>1. j = key /\ b = k
          BY <1>1, <1>9, <1>12, <3>1
        <5> QED BY <1>4, <1>5, <1>12, <2>2, <3>1, <5>1, SectionOfKey
      <4> QED BY <1>8, <4>1, <4>2
    <3>2. Spares(old, new, e, a, b)
      BY <3>1 DEF Spares
    <3>3. Thinned(old, new, e)
      BY <1>8
    <3>4. Find(new, a, b) = Find(old, a, b)
      BY <1>7, <1>10, <1>11, <1>12, <3>2, <3>3, ThinnedFind
    <3> QED BY <2>2, <3>4
  <2> QED BY <2>1, <2>2
<1>13. ASSUME NEW a, a \notin {Null, s} PROVE Has(new, a) <=> Has(old, a)
  <2>1. ASSUME NEW i \in 1 .. Len(new), new[i].section = a PROVE Has(old, a)
    BY <1>8, <2>1 DEF Thinned, Has
  <2>2. ASSUME NEW i \in 1 .. Len(old), old[i].section = a PROVE Has(new, a)
    <3>1. ~ Taken(new, e, i)
      BY <1>8, <1>9, <1>13, <2>2
    <3> QED BY <1>8, <2>2, <3>1 DEF Thinned, Has, Taken
  <2> QED BY <2>1, <2>2 DEF Has
<1> QED BY <1>11, <1>12, <1>13 DEF Effect, OthersStay

(* A line is put at place p.                                               *)
Put(old, new, p, line) ==
  /\ p \in 1 .. Len(old) + 1 /\ new \in Seq(Line) /\ Len(new) = Len(old) + 1
  /\ \A i \in 1 .. Len(old) + 1 :
       new[i] = IF i < p THEN old[i] ELSE IF i = p THEN line ELSE old[i - 1]

LEMMA AppendPuts ==
  ASSUME NEW old \in Seq(Line), NEW line \in Line
  PROVE  Put(old, Append(old, line), Len(old) + 1, line)
<1>1. Len(old) \in Nat
  OBVIOUS
<1>2. /\ Append(old, line) \in Seq(Line) /\ Len(Append(old, line)) = Len(old) + 1
      /\ \A i \in 1 .. Len(old) : Append(old, line)[i] = old[i]
      /\ Append(old, line)[Len(old) + 1] = line
  BY AppendProperties
<1> QED BY <1>1, <1>2 DEF Put

LEMMA InsertPuts ==
  ASSUME NEW old \in Seq(Line), NEW line \in Line, NEW p \in 1 .. Len(old) + 1
  PROVE  Put(old, InsertAt(old, p, line), p, line)
<1> DEFINE L == SubSeq(old, 1, p - 1)
           M == L \o <<line>>
           R == SubSeq(old, p, Len(old))
<1>0. Len(old) \in Nat
  OBVIOUS
<1>1. L \in Seq(Line) /\ Len(L) = p - 1 /\ \A i \in 1 .. p - 1 : L[i] = old[i]
  <2>1. 1 \in 1 .. Len(old) + 1 /\ p - 1 \in 1 - 1 .. Len(old)
    BY <1>0
  <2>2. L \in Seq(Line) /\ Len(L) = (p - 1) + 1 - 1
        /\ \A i \in 1 .. (p - 1) + 1 - 1 : L[i] = old[1 + i - 1]
    BY <2>1, Part
  <2> HIDE DEF L
  <2> QED BY <1>0, <2>2
<1>2. /\ R \in Seq(Line) /\ Len(R) = Len(old) + 1 - p
      /\ \A i \in 1 .. Len(old) + 1 - p : R[i] = old[p + i - 1]
  <2>1. p \in 1 .. Len(old) + 1 /\ Len(old) \in p - 1 .. Len(old)
    BY <1>0
  <2> QED BY <2>1, Part
<1>3. <<line>> \in Seq(Line) /\ Len(<<line>>) = 1 /\ <<line>>[1] = line
  OBVIOUS
<1> HIDE DEF L, R
<1>4. /\ M \in Seq(Line) /\ Len(M) = p
      /\ \A i \in 1 .. p : M[i] = IF i < p THEN old[i] ELSE line
  <2>1. /\ M \in Seq(Line) /\ Len(M) = Len(L) + 1
        /\ \A i \in 1 .. Len(L) + 1 : M[i] = IF i <= Len(L) THEN L[i] ELSE <<line>>[i - Len(L)]
    BY <1>1, <1>3, Joined
  <2> HIDE DEF M
  <2>2. Len(M) = p
    BY <1>0, <1>1, <2>1
  <2>3. ASSUME NEW i \in 1 .. p PROVE M[i] = IF i < p THEN old[i] ELSE line
    <3>1. CASE i < p
      BY <1>0, <1>1, <2>1, <3>1
    <3>2. CASE i = p
      BY <1>0, <1>1, <1>3, <2>1, <3>2
    <3> QED BY <1>0, <3>1, <3>2
  <2> QED BY <2>1, <2>2, <2>3
<1> HIDE DEF M
<1> DEFINE new == M \o R
<1>5. /\ new \in Seq(Line) /\ Len(new) = Len(M) + Len(R)
      /\ \A i \in 1 .. Len(M) + Len(R) : new[i] = IF i <= Len(M) THEN M[i] ELSE R[i - Len(M)]
  BY <1>2, <1>4, Joined
<1>6. InsertAt(old, p, line) = new
  BY DEF InsertAt, M, L, R
<1> HIDE DEF new
<1>7. Len(new) = Len(old) + 1
  BY <1>0, <1>2, <1>4, <1>5
<1>8. ASSUME NEW i \in 1 .. Len(old) + 1
      PROVE  new[i] = IF i < p THEN old[i] ELSE IF i = p THEN line ELSE old[i - 1]
  <2>1. new[i] = IF i <= p THEN M[i] ELSE R[i - p]
    BY <1>4, <1>5, <1>7
  <2>2. CASE i <= p
    BY <1>0, <1>4, <2>1, <2>2
  <2>3. CASE ~ (i <= p)
    <3>1. i - p \in 1 .. Len(old) + 1 - p /\ p + (i - p) - 1 = i - 1
      BY <1>0, <2>3
    <3>2. R[i - p] = old[p + (i - p) - 1]
      BY <1>2, <3>1
    <3> QED BY <1>0, <2>1, <2>3, <3>1, <3>2
  <2> QED BY <2>2, <2>3
<1> QED BY <1>5, <1>6, <1>7, <1>8 DEF Put

(* Taking it out again gives the file as it was.                           *)
LEMMA PutThinned ==
  ASSUME NEW old \in Seq(Line), NEW new, NEW p, NEW line, Put(old, new, p, line)
  PROVE  \E e : /\ Thinned(new, old, e)
                /\ \A m \in 1 .. Len(new) : Taken(old, e, m) <=> m = p
<1>0. Len(old) \in Nat /\ p \in 1 .. Len(old) + 1 /\ Len(new) = Len(old) + 1
  BY DEF Put
<1>1. \A i \in 1 .. Len(old) + 1 :
        new[i] = IF i < p THEN old[i] ELSE IF i = p THEN line ELSE old[i - 1]
  BY DEF Put
<1> DEFINE e == [i \in 1 .. Len(old) |-> IF i < p THEN i ELSE i + 1]
<1>2. /\ e \in [1 .. Len(old) -> 1 .. Len(new)]
      /\ \A i \in 1 .. Len(old) : e[i] = IF i < p THEN i ELSE i + 1
  BY <1>0
<1> HIDE DEF e
<1>3. ASSUME NEW i \in 1 .. Len(old), NEW j \in 1 .. Len(old), i < j PROVE e[i] < e[j]
  BY <1>0, <1>2, <1>3
<1>4. ASSUME NEW i \in 1 .. Len(old) PROVE old[i] = new[e[i]]
  <2>1. CASE i < p
    BY <1>0, <1>1, <1>2, <2>1
  <2>2. CASE ~ (i < p)
    <3>1. e[i] = i + 1 /\ i + 1 \in 1 .. Len(old) + 1 /\ ~ (i + 1 < p) /\ i + 1 # p /\ (i + 1) - 1 = i
      BY <1>0, <1>2, <2>2
    <3> QED BY <1>1, <3>1
  <2> QED BY <2>1, <2>2
<1>5. ASSUME NEW m \in 1 .. Len(new) PROVE Taken(old, e, m) <=> m = p
  <2>1. CASE m < p
    <3>1. m \in 1 .. Len(old) /\ e[m] = m
      BY <1>0, <1>2, <2>1
    <3> QED BY <1>0, <2>1, <3>1 DEF Taken
  <2>2. CASE m > p
    <3>1. m - 1 \in 1 .. Len(old) /\ ~ (m - 1 < p) /\ (m - 1) + 1 = m
      BY <1>0, <2>2
    <3>2. e[m - 1] = m
      BY <1>2, <3>1
    <3> QED BY <1>0, <2>2, <3>1, <3>2 DEF Taken
  <2>3. CASE m = p
    <3>1. ASSUME NEW i \in 1 .. Len(old) PROVE e[i] # m
      BY <1>0, <1>2, <2>3
    <3> QED BY <2>3, <3>1 DEF Taken
  <2> QED BY <1>0, <2>1, <2>2, <2>3
<1> QED BY <1>2, <1>3, <1>4, <1>5 DEF Thinned

(* A search does not see a line that is neither.                           *)
LEMMA PutUnseen ==
  ASSUME NEW old, Good(old), NEW new, Good(new), NEW p, NEW line, Put(old, new, p, line),
         line.section = Null, NEW a, a # Null, NEW b, b # Null,
         line.id = b => ~ Under(new, a, p)
  PROVE  Find(new, a, b) = Find(old, a, b)
<1>0. old \in Seq(Line) /\ new \in Seq(Line) /\ Len(old) \in Nat /\ Len(new) \in Nat
  BY LineIs DEF Good
<1>1. p \in 1 .. Len(new) /\ new[p] = line
  BY <1>0 DEF Put
<1>2. PICK e : /\ Thinned(new, old, e)
               /\ \A m \in 1 .. Len(new) : Taken(old, e, m) <=> m = p
  BY <1>0, PutThinned
<1>3. Whole(new, old, e)
  BY <1>1, <1>2 DEF Whole
<1>4. Spares(new, old, e, a, b)
  <2> SUFFICES ASSUME NEW i \in 1 .. Len(new), NEW j \in 1 .. Len(new),
                      new[i].section = a, new[j].id = b, Under(new, a, j)
               PROVE  i # p /\ j # p
    BY <1>2 DEF Spares
  <2> QED BY <1>1
<1> QED BY <1>0, <1>2, <1>3, <1>4, ThinnedFind

LEMMA PutHas ==
  ASSUME NEW old \in Seq(Line), NEW new \in Seq(Line), NEW p, NEW line, Put(old, new, p, line),
         NEW a, line.section # a
  PROVE  Has(new, a) <=> Has(old, a)
<1>0. Len(old) \in Nat /\ Len(new) \in Nat
  OBVIOUS
<1>1. p \in 1 .. Len(new) /\ new[p] = line
  BY <1>0 DEF Put
<1>2. PICK e : /\ Thinned(new, old, e)
               /\ \A m \in 1 .. Len(new) : Taken(old, e, m) <=> m = p
  BY <1>0, PutThinned
<1>3. ASSUME NEW i \in 1 .. Len(old), old[i].section = a PROVE Has(new, a)
  BY <1>2, <1>3 DEF Thinned, Has
<1>4. ASSUME NEW i \in 1 .. Len(new), new[i].section = a PROVE Has(old, a)
  <2>1. ~ Taken(old, e, i)
    BY <1>1, <1>2, <1>4
  <2> QED BY <1>2, <1>4, <2>1 DEF Thinned, Has, Taken
<1> QED BY <1>3, <1>4 DEF Has

(* Two lines of a file that had line p put into it.                        *)
LEMMA PutPair ==
  ASSUME NEW old, Good(old), NEW new, NEW p, NEW line, Put(old, new, p, line),
         NEW i \in 1 .. Len(new), NEW j \in 1 .. Len(new), i < j, i # p, j # p
  PROVE  /\ new[i].section # Null => new[i].section # new[j].section
         /\ (new[i].id # Null /\ new[i].id = new[j].id) =>
              \E m \in i .. j : new[m].section # Null
<1>0. old \in Seq(Line) /\ Len(old) \in Nat /\ DOMAIN old = 1 .. Len(old) /\ new \in Seq(Line)
      /\ p \in 1 .. Len(old) + 1 /\ Len(new) = Len(old) + 1
  BY LineIs DEF Good, Put
<1> DEFINE back(n) == IF n < p THEN n ELSE n - 1
<1>1. /\ back(i) \in 1 .. Len(old) /\ back(j) \in 1 .. Len(old) /\ back(i) < back(j)
      /\ new[i] = old[back(i)] /\ new[j] = old[back(j)]
  BY <1>0 DEF Put
<1>2. new[i].section # Null => new[i].section # new[j].section
  BY <1>0, <1>1 DEF Good, Unique
<1>3. ASSUME new[i].id # Null, new[i].id = new[j].id
      PROVE  \E m \in i .. j : new[m].section # Null
  <2>1. PICK m \in back(i) .. back(j) : old[m].section # Null
    <3> HIDE DEF back
    <3> QED BY <1>0, <1>1, <1>3 DEF Good, Unique
  <2>2. CASE m < p
    <3>1. m \in i .. j /\ new[m] = old[m]
      BY <1>0, <1>1, <2>1, <2>2 DEF Put
    <3> QED BY <2>1, <3>1
  <2>3. CASE ~ (m < p)
    <3>1. m + 1 \in i .. j /\ m + 1 \in 1 .. Len(old) + 1 /\ ~ (m + 1 < p) /\ m + 1 # p /\ (m + 1) - 1 = m
      BY <1>0, <1>1, <2>1, <2>3
    <3>2. new[m + 1] = old[m]
      BY <3>1 DEF Put
    <3> QED BY <2>1, <3>1, <3>2
  <2> QED BY <2>2, <2>3
<1> QED BY <1>2, <1>3

(* A key is put at the end of its section, which has none of its name.     *)
LEMMA KeyPut ==
  ASSUME NEW old, Good(old), NEW s, s # Null, NEW k \in KeyNames, k # Null, NEW v \in Values,
         NEW at, at = SectionAt(old, s), at # 0, KeyAt(old, s, k) = 0,
         NEW p, p = SectionEnd(old, at), NEW new, Put(old, new, p, Define(k, v))
  PROVE  Good(new) /\ Effect(old, new, s, k, v) /\ OthersStay(old, new, s)
<1>0. old \in Seq(Line) /\ Len(old) \in Nat /\ DOMAIN old = 1 .. Len(old)
  BY LineIs DEF Good
<1>1. /\ new \in Seq(Line) /\ Len(new) = Len(old) + 1
      /\ \A i \in 1 .. Len(old) + 1 :
           new[i] = IF i < p THEN old[i] ELSE IF i = p THEN Define(k, v) ELSE old[i - 1]
  BY DEF Put
<1>2. at \in 1 .. Len(old) /\ old[at].section = s
  BY <1>0, SectionAtIs
<1>3. /\ p \in at + 1 .. Len(old) + 1
      /\ \A j \in at + 1 .. p - 1 : old[j].section = Null
      /\ p <= Len(old) => old[p].section # Null
  BY <1>0, <1>2, SectionEndIs
<1>4. \A j \in at + 1 .. p - 1 : old[j].id # k
  BY <1>0, KeyAtIs
<1>5. Define(k, v).section = Null /\ Define(k, v).id = k /\ Define(k, v).value = v
  BY DEF Define, NoLine
<1>6. new[at] = old[at] /\ new[p] = Define(k, v) /\ p \in 1 .. Len(new) /\ at \in 1 .. Len(new)
  BY <1>0, <1>1, <1>2, <1>3
<1>7. ASSUME NEW i \in 1 .. Len(new), NEW j \in 1 .. Len(new), i < j
      PROVE  /\ new[i].section # Null => new[i].section # new[j].section
             /\ (new[i].id # Null /\ new[i].id = new[j].id) =>
                  \E m \in i .. j : new[m].section # Null
  <2>1. CASE i # p /\ j # p
    BY <1>7, <2>1, PutPair
  <2>2. CASE i = p
    <3>1. p <= Len(old) /\ p + 1 \in i .. j /\ new[p + 1] = old[p]
      BY <1>0, <1>1, <1>2, <1>3, <1>7, <2>2
    <3>2. new[p + 1].section # Null
      BY <1>3, <3>1
    <3>3. new[i].section = Null
      BY <1>5, <1>6, <2>2
    <3> QED BY <3>1, <3>2, <3>3
  <2>3. CASE j = p
    <3>1. new[i] = old[i] /\ i \in 1 .. Len(old)
      BY <1>0, <1>1, <1>3, <1>7, <2>3
    <3>2. new[i].id = k => i < at
      <4>1. CASE i > at
        BY <1>2, <1>3, <1>4, <1>7, <2>3, <3>1, <4>1
      <4>2. CASE i = at
        BY <1>0, <1>2, <3>1, <4>2, LineIs
      <4> QED BY <1>2, <4>1, <4>2
    <3>3. at \in 1 .. j /\ new[at].section # Null
      BY <1>2, <1>3, <1>6, <2>3
    <3> QED BY <1>5, <1>6, <2>3, <3>2, <3>3
  <2> QED BY <2>1, <2>2, <2>3
<1>8. Good(new)
  BY <1>1, <1>7, LineIs DEF Good, Unique
<1>9. Under(new, s, p)
  <2>1. ASSUME NEW m \in at + 1 .. p PROVE new[m].section = Null
    BY <1>0, <1>1, <1>2, <1>3, <1>5, <1>6
  <2> QED BY <1>2, <1>3, <1>6, <2>1 DEF Under
<1>10. ASSUME NEW a, NEW b, a # Null, b # Null
       PROVE  Find(new, a, b) = IF a = s /\ k \in {Null, b} THEN v ELSE Find(old, a, b)
  <2>1. CASE a = s /\ b = k
    <3>1. Find(new, a, b) = new[p].value
      BY <1>5, <1>6, <1>8, <1>9, <1>10, <2>1, FindIs
    <3> QED BY <1>5, <1>6, <2>1, <3>1
  <2>2. CASE ~ (a = s /\ b = k)
    <3>1. k = b => ~ Under(new, a, p)
      BY <1>6, <1>8, <1>9, <1>10, <2>2, SectionOfKey
    <3>2. Find(new, a, b) = Find(old, a, b)
      BY <1>5, <1>8, <1>10, <3>1, PutUnseen
    <3> QED BY <2>2, <3>2
  <2> QED BY <2>1, <2>2
<1>11. ASSUME NEW a, a \notin {Null, s} PROVE Has(new, a) <=> Has(old, a)
  BY <1>0, <1>1, <1>5, <1>11, PutHas
<1> QED BY <1>8, <1>10, <1>11 DEF Effect, OthersStay

(* A line without a name at the end, and a section of a new name.          *)
LEMMA BlankPut ==
  ASSUME NEW old, Good(old), NEW new, Put(old, new, Len(old) + 1, NoLine)
  PROVE  Good(new) /\ \A a : a # Null => (Has(new, a) <=> Has(old, a))
<1>0. old \in Seq(Line) /\ Len(old) \in Nat /\ new \in Seq(Line) /\ Len(new) = Len(old) + 1
  BY LineIs DEF Good, Put
<1>1. NoLine.section = Null /\ NoLine.id = Null /\ new[Len(old) + 1] = NoLine
  BY <1>0 DEF NoLine, Put
<1>2. ASSUME NEW i \in 1 .. Len(new), NEW j \in 1 .. Len(new), i < j
      PROVE  /\ new[i].section # Null => new[i].section # new[j].section
             /\ (new[i].id # Null /\ new[i].id = new[j].id) =>
                  \E m \in i .. j : new[m].section # Null
  <2>1. CASE j # Len(old) + 1
    <3>1. i # Len(old) + 1
      BY <1>0, <1>2
    <3> QED BY <1>2, <2>1, <3>1, PutPair
  <2>2. CASE j = Len(old) + 1
    BY <1>1, <2>2
  <2> QED BY <2>1, <2>2
<1>3. Good(new)
  BY <1>0, <1>2, LineIs DEF Good, Unique
<1> QED BY <1>1, <1>3, PutHas DEF Good

LEMMA SectionPut ==
  ASSUME NEW old, Good(old), NEW s, s # Null, SectionAt(old, s) = 0,
         NEW new, Put(old, new, Len(old) + 1, SectionLine(s))
  PROVE  /\ Good(new) /\ OthersStay(old, new, s)
         /\ \A a, b : a # Null /\ b # Null => Find(new, a, b) = Find(old, a, b)
         /\ SectionAt(new, s) = Len(old) + 1 /\ SectionEnd(new, Len(old) + 1) = Len(old) + 2
         /\ \A k : KeyAt(new, s, k) = 0
<1> DEFINE n == Len(old) + 1
<1>0. /\ old \in Seq(Line) /\ Len(old) \in Nat /\ new \in Seq(Line) /\ Len(new) = n
      /\ n \in 1 .. n /\ new[n] = SectionLine(s) /\ \A i \in 1 .. Len(old) : new[i] = old[i]
  BY LineIs DEF Good, Put
<1>1. SectionLine(s).section = s /\ SectionLine(s).id = Null
  BY DEF SectionLine, NoLine
<1>2. \A i \in 1 .. Len(old) : old[i].section # s
  BY <1>0, SectionAtIs
<1>3. ASSUME NEW i \in 1 .. Len(new), NEW j \in 1 .. Len(new), i < j
      PROVE  /\ new[i].section # Null => new[i].section # new[j].section
             /\ (new[i].id # Null /\ new[i].id = new[j].id) =>
                  \E m \in i .. j : new[m].section # Null
  <2>1. CASE j # n
    <3>1. i # n
      BY <1>0, <1>3
    <3> QED BY <1>3, <2>1, <3>1, PutPair
  <2>2. CASE j = n
    <3>1. i \in 1 .. Len(old)
      BY <1>0, <1>3, <2>2
    <3> QED BY <1>0, <1>1, <1>2, <2>2, <3>1
  <2> QED BY <2>1, <2>2
<1>4. Good(new)
  BY <1>0, <1>3, LineIs DEF Good, Unique
<1>5. OthersStay(old, new, s)
  BY <1>1, <1>4, PutHas DEF OthersStay, Good
<1>6. SectionAt(new, s) = n
  <2>1. SectionAt(new, s) # 0
    BY <1>0, <1>1, SectionAtIs
  <2>2. SectionAt(new, s) \in 1 .. Len(new) /\ new[SectionAt(new, s)].section = s
    BY <1>0, <2>1, SectionAtIs
  <2>3. ~ (SectionAt(new, s) \in 1 .. Len(old))
    BY <1>0, <1>2, <2>2
  <2> QED BY <1>0, <2>2, <2>3
<1>7. SectionEnd(new, n) = n + 1
  <2>1. SectionEnd(new, n) \in n + 1 .. Len(new) + 1
    BY <1>0, SectionEndIs
  <2> QED BY <1>0, <2>1
<1>8. ASSUME NEW k PROVE KeyAt(new, s, k) = 0
  <2>1. KeyAt(new, s, k) # 0 => KeyAt(new, s, k) \in n + 1 .. (n + 1) - 1
    BY <1>0, <1>6, <1>7, KeyAtIs
  <2> QED BY <1>0, <2>1
<1>9. ASSUME NEW a, NEW b, a # Null, b # Null PROVE Find(new, a, b) = Find(old, a, b)
  <2>1. PICK e : /\ Thinned(new, old, e)
                 /\ \A m \in 1 .. Len(new) : Taken(old, e, m) <=> m = n
    BY <1>0, PutThinned
  <2>2. ASSUME NEW m \in 1 .. Len(new) PROVE m <= n
    BY <1>0
  <2>3. Whole(new, old, e)
    <3> SUFFICES ASSUME NEW j \in 1 .. Len(old), n < e[j] PROVE FALSE
      BY <2>1 DEF Whole
    <3>1. e[j] \in 1 .. Len(new)
      BY <2>1 DEF Thinned
    <3> QED BY <1>0, <3>1
  <2>4. Spares(new, old, e, a, b)
    <3> SUFFICES ASSUME NEW i \in 1 .. Len(new), NEW j \in 1 .. Len(new),
                        new[i].section = a, new[j].id = b, Under(new, a, j)
                 PROVE  i # n /\ j # n
      BY <2>1 DEF Spares
    <3>1. i < j
      BY <1>4, <1>9, OneSection
    <3> QED BY <1>0, <1>1, <1>9, <3>1
  <2> QED BY <1>0, <1>4, <1>9, <2>1, <2>3, <2>4, ThinnedFind
<1> QED BY <1>0, <1>4, <1>5, <1>6, <1>7, <1>8, <1>9

-----------------------------------------------------------------------------
(* Lines with other values, and a file that is written and read again.     *)

Revalued(old, new) ==
  /\ new \in Seq(Line) /\ Len(new) = Len(old)
  /\ \A i \in 1 .. Len(old) : new[i].section = old[i].section /\ new[i].id = old[i].id

LEMMA RevaluedIs ==
  ASSUME NEW old, Good(old), NEW new, Revalued(old, new)
  PROVE  /\ Good(new)
         /\ \A a : Has(new, a) <=> Has(old, a)
         /\ \A a : \A j \in 1 .. Len(old) : Under(new, a, j) <=> Under(old, a, j)
<1>0. /\ old \in Seq(Line) /\ Len(old) \in Nat /\ DOMAIN old = 1 .. Len(old)
      /\ new \in Seq(Line) /\ Len(new) = Len(old) /\ DOMAIN new = 1 .. Len(old)
      /\ \A i \in 1 .. Len(old) : new[i].section = old[i].section /\ new[i].id = old[i].id
  BY LineIs DEF Good, Revalued
<1>1. ASSUME NEW i \in 1 .. Len(old), NEW j \in 1 .. Len(old), i < j
      PROVE  /\ new[i].section # Null => new[i].section # new[j].section
             /\ (new[i].id # Null /\ new[i].id = new[j].id) =>
                  \E m \in i .. j : new[m].section # Null
  <2>1. /\ old[i].section # Null => old[i].section # old[j].section
        /\ (old[i].id # Null /\ old[i].id = old[j].id) =>
             \E m \in i .. j : old[m].section # Null
    BY <1>0, <1>1 DEF Good, Unique
  <2>2. \A m \in i .. j : new[m].section = old[m].section
    BY <1>0
  <2> QED BY <1>0, <2>1, <2>2
<1>2. Good(new)
  BY <1>0, <1>1 DEF Good, Unique
<1>3. ASSUME NEW a PROVE Has(new, a) <=> Has(old, a)
  BY <1>0 DEF Has
<1>4. ASSUME NEW a, NEW j \in 1 .. Len(old) PROVE Under(new, a, j) <=> Under(old, a, j)
  <2>1. \A m \in 1 .. j : new[m].section = old[m].section
    BY <1>0
  <2> QED BY <2>1 DEF Under
<1> QED BY <1>2, <1>3, <1>4

(* A key that is found is given another value.                             *)
LEMMA KeySet ==
  ASSUME NEW old, Good(old), NEW s, s # Null, NEW k, k # Null, NEW v \in Values,
         NEW key, key = KeyAt(old, s, k), key # 0
  PROVE  LET new == [old EXCEPT ![key].value = v] IN
         Good(new) /\ Effect(old, new, s, k, v) /\ OthersStay(old, new, s)
<1> DEFINE at == SectionAt(old, s)
           end == SectionEnd(old, at)
           new == [old EXCEPT ![key].value = v]
<1>0. old \in Seq(Line) /\ Len(old) \in Nat /\ DOMAIN old = 1 .. Len(old)
  BY LineIs DEF Good
<1>1. at # 0 /\ key \in at + 1 .. end - 1 /\ old[key].id = k
  BY <1>0, KeyAtIs
<1>2. at \in 1 .. Len(old) /\ old[at].section = s
  BY <1>0, <1>1, SectionAtIs
<1>3. end \in at + 1 .. Len(old) + 1 /\ \A j \in at + 1 .. end - 1 : old[j].section = Null
  BY <1>0, <1>2, SectionEndIs
<1> HIDE DEF at, end
<1>4. key \in 1 .. Len(old)
  BY <1>0, <1>1, <1>2, <1>3
<1>5. Under(old, s, key)
  BY <1>0, <1>1, <1>2, <1>3, <1>4, OneSection
<1>6. [old[key] EXCEPT !.value = v] \in Line
  BY <1>0, <1>4, LineIs DEF Line
<1>7. /\ new \in Seq(Line) /\ Len(new) = Len(old)
      /\ \A i \in 1 .. Len(old) : i # key => new[i] = old[i]
      /\ new[key] = [old[key] EXCEPT !.value = v]
  BY <1>0, <1>4, <1>6
<1> HIDE DEF new
<1>8. /\ new[key].section = old[key].section /\ new[key].id = old[key].id /\ new[key].value = v
  BY <1>0, <1>4, <1>7, LineIs DEF Line
<1>9. Revalued(old, new)
  BY <1>7, <1>8 DEF Revalued
<1>10. /\ Good(new) /\ \A a : Has(new, a) <=> Has(old, a)
       /\ \A a : \A j \in 1 .. Len(old) : Under(new, a, j) <=> Under(old, a, j)
  BY <1>9, RevaluedIs
<1>11. ASSUME NEW a, NEW b, a # Null, b # Null
       PROVE  Find(new, a, b) = IF a = s /\ k \in {Null, b} THEN v ELSE Find(old, a, b)
  <2>1. CASE a = s /\ b = k
    <3>1. new[key].id = b /\ Under(new, a, key)
      BY <1>1, <1>4, <1>5, <1>8, <1>10, <2>1
    <3>2. key \in 1 .. Len(new) /\ Good(new) /\ a # Null /\ b # Null
      BY <1>4, <1>7, <1>10, <1>11
    <3>3. Find(new, a, b) = new[key].value
      BY <3>1, <3>2, FindIs
    <3> QED BY <1>8, <2>1, <3>3
  <2>2. CASE ~ (a = s /\ b = k)
    <3>1. CASE \E j \in 1 .. Len(old) : old[j].id = b /\ Under(old, a, j)
      <4>1. PICK j \in 1 .. Len(old) : old[j].id = b /\ Under(old, a, j)
        BY <3>1
      <4>2. j # key
        BY <1>1, <1>4, <1>5, <1>11, <2>2, <4>1, SectionOfKey
      <4>3. new[j] = old[j] /\ new[j].id = b /\ Under(new, a, j)
        BY <1>7, <1>10, <4>1, <4>2
      <4>4. Find(new, a, b) = new[j].value
        BY <1>7, <1>10, <1>11, <4>3, FindIs
      <4>5. Find(old, a, b) = old[j].value
        BY <1>11, <4>1, FindIs
      <4> QED BY <2>2, <4>3, <4>4, <4>5
    <3>2. CASE ~ \E j \in 1 .. Len(old) : old[j].id = b /\ Under(old, a, j)
      <4>1. Find(old, a, b) = Null
        BY <1>11, <3>2, FindIs
      <4>2. \A j \in 1 .. Len(new) : ~ (new[j].id = b /\ Under(new, a, j))
        BY <1>7, <1>9, <1>10, <3>2 DEF Revalued
      <4>3. Find(new, a, b) = Null
        BY <1>10, <1>11, <4>2, FindIs
      <4> QED BY <2>2, <4>1, <4>3
    <3> QED BY <3>1, <3>2
  <2> QED BY <2>1, <2>2
<1> QED BY <1>10, <1>11 DEF Effect, OthersStay, new

LEMMA ParsedIs ==
  ASSUME NEW lines, Good(lines)
  PROVE  /\ Good(Parsed(lines))
         /\ \A a : Has(Parsed(lines), a) <=> Has(lines, a)
         /\ \A a, b : a # Null /\ b # Null =>
              Find(Parsed(lines), a, b) = ReadBack(Find(lines, a, b))
<1> DEFINE new == Parsed(lines)
<1>0. lines \in Seq(Line) /\ Len(lines) \in Nat /\ DOMAIN lines = 1 .. Len(lines)
  BY LineIs DEF Good
<1>1. ASSUME NEW l \in Line
      PROVE  /\ [l EXCEPT !.value = Shortened, !.comment = "aside"] \in Line
             /\ [l EXCEPT !.value = Shortened, !.comment = "aside"].section = l.section
             /\ [l EXCEPT !.value = Shortened, !.comment = "aside"].id = l.id
             /\ [l EXCEPT !.value = Shortened, !.comment = "aside"].value = Shortened
  BY DEF Line, Values
<1> DEFINE short(l) == [l EXCEPT !.value = Shortened, !.comment = "aside"]
           g == [i \in 1 .. Len(lines) |-> IF lines[i].value = Cut THEN short(lines[i]) ELSE lines[i]]
<1>2. /\ new \in Seq(Line) /\ Len(new) = Len(lines)
      /\ \A i \in 1 .. Len(lines) :
           new[i] = IF lines[i].value = Cut THEN short(lines[i]) ELSE lines[i]
  <2>1. new = g
    BY <1>0 DEF Parsed
  <2>2. ASSUME NEW i \in 1 .. Len(lines)
        PROVE  (IF lines[i].value = Cut THEN short(lines[i]) ELSE lines[i]) \in Line
    <3>1. lines[i] \in Line
      BY <1>0
    <3> QED BY <1>1, <3>1
  <2> HIDE DEF new, short
  <2>3. g \in [1 .. Len(lines) -> Line]
    BY <2>2
  <2>4. g \in Seq(Line) /\ Len(g) = Len(lines)
    <3> HIDE DEF g
    <3> QED BY <1>0, <2>3
  <2> QED BY <2>1, <2>4
<1>3. ASSUME NEW i \in 1 .. Len(lines)
      PROVE  /\ new[i].section = lines[i].section /\ new[i].id = lines[i].id
             /\ new[i].value = ReadBack(lines[i].value)
  <2> HIDE DEF new, g
  <2>1. lines[i] \in Line
    BY <1>0
  <2>2. CASE lines[i].value = Cut
    <3>1. new[i] = short(lines[i])
      BY <1>2, <2>2
    <3>2. /\ short(lines[i]).section = lines[i].section /\ short(lines[i]).id = lines[i].id
          /\ short(lines[i]).value = Shortened
      BY <1>1, <2>1
    <3> HIDE DEF short
    <3> QED BY <2>2, <3>1, <3>2 DEF ReadBack
  <2>3. CASE lines[i].value # Cut
    <3> HIDE DEF short
    <3>1. new[i] = lines[i]
      BY <1>2, <2>3
    <3> QED BY <2>3, <3>1 DEF ReadBack
  <2> QED BY <2>2, <2>3
<1> HIDE DEF new, g, short
<1>4. Revalued(lines, new)
  BY <1>2, <1>3 DEF Revalued
<1>5. /\ Good(new) /\ \A a : Has(new, a) <=> Has(lines, a)
      /\ \A a : \A j \in 1 .. Len(lines) : Under(new, a, j) <=> Under(lines, a, j)
  BY <1>4, RevaluedIs
<1>6. ASSUME NEW a, NEW b, a # Null, b # Null
      PROVE  Find(new, a, b) = ReadBack(Find(lines, a, b))
  <2>1. CASE \E j \in 1 .. Len(lines) : lines[j].id = b /\ Under(lines, a, j)
    <3>1. PICK j \in 1 .. Len(lines) : lines[j].id = b /\ Under(lines, a, j)
      BY <2>1
    <3>2. j \in 1 .. Len(new) /\ Good(new) /\ new[j].id = b /\ Under(new, a, j)
      BY <1>2, <1>3, <1>5, <3>1
    <3>3. Find(new, a, b) = new[j].value
      BY <1>6, <3>2, FindIs
    <3>4. Find(lines, a, b) = lines[j].value
      BY <1>6, <3>1, FindIs
    <3> QED BY <1>3, <3>3, <3>4
  <2>2. CASE ~ \E j \in 1 .. Len(lines) : lines[j].id = b /\ Under(lines, a, j)
    <3>1. Find(lines, a, b) = Null
      BY <1>6, <2>2, FindIs
    <3>2. \A j \in 1 .. Len(new) : ~ (new[j].id = b /\ Under(new, a, j))
      BY <1>2, <1>3, <1>5, <2>2
    <3>3. Find(new, a, b) = Null
      BY <1>5, <1>6, <3>2, FindIs
    <3> QED BY <3>1, <3>3, IniAssumption DEF ReadBack
  <2> QED BY <2>1, <2>2
<1> QED BY <1>5, <1>6 DEF new

(* What Formatted computes, line by line.                                  *)
Keeps(lines, n, f) ==
  f = [m \in 0 .. n |-> IF m = 0 THEN <<>>
                        ELSE IF lines[m] = NoLine THEN f[m - 1] ELSE Append(f[m - 1], lines[m])]

LEMMA KeepsExists ==
  ASSUME NEW lines, NEW N \in Nat
  PROVE  \E f : Keeps(lines, N, f)
<1> DEFINE S == {n \in 0 .. N : \E f : Keeps(lines, n, f)}
<1>1. 0 \in S
  <2>1. Keeps(lines, 0, [m \in 0 .. 0 |-> <<>>])
    BY DEF Keeps
  <2> QED BY <2>1
<1>2. ASSUME NEW n \in 0 .. N - 1, n \in S PROVE n + 1 \in S
  <2>1. PICK f : Keeps(lines, n, f)
    BY <1>2
  <2> DEFINE last == IF lines[n + 1] = NoLine THEN f[n] ELSE Append(f[n], lines[n + 1])
             g == [m \in 0 .. n + 1 |-> IF m = n + 1 THEN last ELSE f[m]]
  <2>2. ASSUME NEW m \in 0 .. n + 1
        PROVE  g[m] = IF m = 0 THEN <<>>
                      ELSE IF lines[m] = NoLine THEN g[m - 1] ELSE Append(g[m - 1], lines[m])
    <3>1. CASE m = n + 1
      <4>1. m # 0 /\ m - 1 = n /\ m - 1 \in 0 .. n + 1 /\ m - 1 # n + 1
        BY <3>1
      <4>2. g[m] = last /\ g[m - 1] = f[n]
        BY <3>1, <4>1
      <4> QED BY <3>1, <4>1, <4>2
    <3>2. CASE m # n + 1
      <4>1. m \in 0 .. n /\ g[m] = f[m]
        BY <3>2
      <4>2. m # 0 => m - 1 \in 0 .. n + 1 /\ m - 1 # n + 1
        BY <4>1
      <4>3. m # 0 => g[m - 1] = f[m - 1]
        BY <4>2
      <4>4. f[m] = IF m = 0 THEN <<>>
                   ELSE IF lines[m] = NoLine THEN f[m - 1] ELSE Append(f[m - 1], lines[m])
        BY <2>1, <4>1 DEF Keeps
      <4> HIDE DEF g
      <4> QED BY <4>1, <4>3, <4>4
    <3> QED BY <3>1, <3>2
  <2>3. Keeps(lines, n + 1, g)
    <3>1. g = [m \in 0 .. n + 1 |-> g[m]]
      OBVIOUS
    <3> HIDE DEF g
    <3> QED BY <2>2, <3>1 DEF Keeps
  <2>4. n + 1 \in 0 .. N
    OBVIOUS
  <2> QED BY <2>3, <2>4
<1>3. N \in S
  <2> HIDE DEF S
  <2> QED BY <1>1, <1>2, UpTo
<1> QED BY <1>3

(* The empty lines are left out, and no other.                             *)
Kept(lines, n, new, e) ==
  /\ new \in Seq(Line) /\ Thinned(lines, new, e) /\ \A i \in 1 .. Len(new) : e[i] <= n
  /\ \A m \in 1 .. n : Taken(new, e, m) <=> lines[m] = NoLine

LEMMA KeptMore ==
  ASSUME NEW lines \in Seq(Line), NEW n \in Nat, n + 1 \in 1 .. Len(lines), lines[n + 1] # NoLine,
         NEW old, NEW e, Kept(lines, n, old, e)
  PROVE  \E g : Kept(lines, n + 1, Append(old, lines[n + 1]), g)
<1> DEFINE last == Len(old) + 1
           new == Append(old, lines[n + 1])
           g == [i \in 1 .. last |-> IF i = last THEN n + 1 ELSE e[i]]
<1>0. /\ Len(lines) \in Nat /\ lines[n + 1] \in Line /\ old \in Seq(Line) /\ Len(old) \in Nat
      /\ e \in [1 .. Len(old) -> 1 .. Len(lines)]
      /\ \A i, j \in 1 .. Len(old) : i < j => e[i] < e[j]
      /\ \A i \in 1 .. Len(old) : old[i] = lines[e[i]] /\ e[i] <= n
      /\ \A m \in 1 .. n : (\A i \in 1 .. Len(old) : e[i] # m) <=> lines[m] = NoLine
  BY DEF Kept, Thinned, Taken
<1>1. /\ new \in Seq(Line) /\ Len(new) = last
      /\ \A i \in 1 .. Len(old) : new[i] = old[i]
      /\ new[last] = lines[n + 1]
  BY <1>0, AppendProperties
<1>2. /\ g \in [1 .. last -> 1 .. Len(lines)] /\ g[last] = n + 1
      /\ \A i \in 1 .. Len(old) : g[i] = e[i]
  BY <1>0
<1> HIDE DEF new, g
<1>3. \A i \in 1 .. last : i \in 1 .. Len(old) \/ i = last
  BY <1>0
<1>4. \A i, j \in 1 .. last : i < j => g[i] < g[j]
  <2> SUFFICES ASSUME NEW i \in 1 .. last, NEW j \in 1 .. last, i < j PROVE g[i] < g[j]
    OBVIOUS
  <2>1. i \in 1 .. Len(old)
    BY <1>0
  <2>2. g[i] = e[i] /\ e[i] <= n /\ e[i] \in 1 .. Len(lines)
    BY <1>0, <1>2, <2>1
  <2>3. CASE j = last
    BY <1>2, <2>2, <2>3
  <2>4. CASE j # last
    BY <1>0, <1>2, <1>3, <2>1, <2>4
  <2> QED BY <2>3, <2>4
<1>5. Thinned(lines, new, g)
  <2>1. ASSUME NEW i \in 1 .. last PROVE new[i] = lines[g[i]]
    <3>1. CASE i \in 1 .. Len(old)
      <4>1. new[i] = old[i] /\ g[i] = e[i] /\ old[i] = lines[e[i]]
        BY <1>0, <1>1, <1>2, <3>1
      <4> QED BY <4>1
    <3>2. CASE i = last
      BY <1>1, <1>2, <3>2
    <3> QED BY <1>3, <3>1, <3>2
  <2> QED BY <1>1, <1>2, <1>4, <2>1 DEF Thinned
<1>6. ASSUME NEW i \in 1 .. Len(new) PROVE g[i] <= n + 1
  <2>1. CASE i = last
    BY <1>2, <2>1
  <2>2. CASE i # last
    <3>1. i \in 1 .. Len(old)
      BY <1>1, <1>3, <2>2
    <3>2. g[i] = e[i]
      BY <1>2, <3>1
    <3>3. e[i] <= n
      BY <1>0, <3>1
    <3>4. e[i] \in 1 .. Len(lines) /\ Len(lines) \in Nat
      BY <1>0, <3>1
    <3> QED BY <3>2, <3>3, <3>4
  <2> QED BY <2>1, <2>2
<1>7. ASSUME NEW m \in 1 .. n + 1 PROVE Taken(new, g, m) <=> lines[m] = NoLine
  <2>1. CASE m = n + 1
    <3>1. last \in 1 .. Len(new)
      BY <1>0, <1>1
    <3>2. g[last] = m
      BY <1>2, <2>1
    <3>3. lines[m] # NoLine
      BY <2>1
    <3>4. ~ Taken(new, g, m)
      BY <3>1, <3>2 DEF Taken
    <3> QED BY <3>3, <3>4
  <2>2. CASE m # n + 1
    <3>1. m \in 1 .. n /\ g[last] # m
      BY <1>2, <2>2
    <3>2. (\A i \in 1 .. Len(old) : e[i] # m) <=> lines[m] = NoLine
      BY <1>0, <3>1
    <3>3. \A i \in 1 .. Len(old) : i \in 1 .. last
      BY <1>0
    <3>4. (\A i \in 1 .. last : g[i] # m) <=> \A i \in 1 .. Len(old) : e[i] # m
      BY <1>2, <1>3, <3>1, <3>3
    <3> QED BY <1>1, <3>2, <3>4 DEF Taken
  <2> QED BY <2>1, <2>2
<1>8. Kept(lines, n + 1, new, g)
  BY <1>1, <1>5, <1>6, <1>7 DEF Kept
<1> QED BY <1>8 DEF new

LEMMA FormattedIs ==
  ASSUME NEW lines \in Seq(Line)
  PROVE  \E e : Kept(lines, Len(lines), Formatted(lines), e)
<1> DEFINE N == Len(lines)
           f == CHOOSE kept : Keeps(lines, N, kept)
           S == {n \in 0 .. N : \E e : Kept(lines, n, f[n], e)}
<1>0. N \in Nat
  OBVIOUS
<1>1. Formatted(lines) = f[N]
  BY DEF Formatted, Keeps
<1>2. Keeps(lines, N, f)
  BY <1>0, KeepsExists
<1> HIDE DEF f, N
<1>3. ASSUME NEW m \in 0 .. N
      PROVE  f[m] = IF m = 0 THEN <<>>
                    ELSE IF lines[m] = NoLine THEN f[m - 1] ELSE Append(f[m - 1], lines[m])
  BY <1>2 DEF Keeps
<1>4. 0 \in S
  <2>1. f[0] = <<>>
    BY <1>0, <1>3
  <2>2. Kept(lines, 0, <<>>, <<>>)
    BY DEF Kept, Thinned
  <2> QED BY <1>0, <2>1, <2>2
<1>5. ASSUME NEW n \in 0 .. N - 1, n \in S PROVE n + 1 \in S
  <2>1. PICK e : Kept(lines, n, f[n], e)
    BY <1>5
  <2>2. n + 1 \in 0 .. N /\ n + 1 # 0 /\ (n + 1) - 1 = n /\ n \in Nat /\ n + 1 \in 1 .. N
    BY <1>0
  <2>3. f[n + 1] = IF lines[n + 1] = NoLine THEN f[n] ELSE Append(f[n], lines[n + 1])
    BY <1>3, <2>2
  <2>4. CASE lines[n + 1] = NoLine
    <3>1. f[n] \in Seq(Line) /\ Len(f[n]) \in Nat /\ Thinned(lines, f[n], e)
          /\ \A m \in 1 .. n : Taken(f[n], e, m) <=> lines[m] = NoLine
      <4>1. f[n] \in Seq(Line) /\ Thinned(lines, f[n], e)
            /\ \A m \in 1 .. n : Taken(f[n], e, m) <=> lines[m] = NoLine
        BY <2>1, Zenon DEF Kept
      <4>2. Len(f[n]) \in Nat
        BY <4>1
      <4> QED BY <4>1, <4>2, Zenon
    <3>2. \A i \in 1 .. Len(f[n]) : e[i] <= n /\ e[i] \in Nat
      <4>1. \A i \in 1 .. Len(f[n]) : e[i] <= n
        BY <2>1, Zenon DEF Kept
      <4>2. e \in [1 .. Len(f[n]) -> 1 .. Len(lines)]
        BY <3>1, Zenon DEF Thinned
      <4> QED BY <4>1, <4>2
    <3>3. Taken(f[n], e, n + 1) /\ \A i \in 1 .. Len(f[n]) : e[i] <= n + 1
      BY <2>2, <3>2 DEF Taken
    <3>4. \A m \in 1 .. n + 1 : m \in 1 .. n \/ m = n + 1
      BY <2>2
    <3>5. Kept(lines, n + 1, f[n], e)
      BY <2>4, <3>1, <3>3, <3>4 DEF Kept
    <3> QED BY <2>2, <2>3, <2>4, <3>5
  <2>5. CASE lines[n + 1] # NoLine
    <3>1. \E g : Kept(lines, n + 1, Append(f[n], lines[n + 1]), g)
      BY <2>1, <2>2, <2>5, KeptMore DEF N
    <3> QED BY <2>2, <2>3, <2>5, <3>1
  <2> QED BY <2>4, <2>5
<1>6. N \in S
  <2> HIDE DEF S
  <2> QED BY <1>0, <1>4, <1>5, UpTo
<1> QED BY <1>1, <1>6 DEF N

(* A file that is read again has the keys and sections it was written with.*)
LEMMA RereadIs ==
  ASSUME NEW lines, Good(lines)
  PROVE  /\ Good(Reread(lines))
         /\ \A a, b : a # Null /\ b # Null =>
              Find(Reread(lines), a, b) = ReadBack(Find(lines, a, b))
<1> DEFINE new == Formatted(lines)
<1>0. lines \in Seq(Line) /\ Len(lines) \in Nat
  BY LineIs DEF Good
<1>1. PICK e : Kept(lines, Len(lines), new, e)
  BY <1>0, FormattedIs
<1> HIDE DEF new
<1>2. /\ new \in Seq(Line) /\ Thinned(lines, new, e)
      /\ \A m \in 1 .. Len(lines) : Taken(new, e, m) <=> lines[m] = NoLine
  BY <1>1 DEF Kept
<1>3. NoLine.section = Null /\ NoLine.id = Null
  BY DEF NoLine
<1>4. Whole(lines, new, e)
  BY <1>2, <1>3 DEF Whole
<1>5. Good(new)
  BY <1>2, <1>4, ThinnedGood
<1>6. ASSUME NEW a, NEW b, a # Null, b # Null PROVE Find(new, a, b) = Find(lines, a, b)
  <2>1. Spares(lines, new, e, a, b)
    BY <1>2, <1>3, <1>6 DEF Spares
  <2> QED BY <1>2, <1>4, <1>5, <1>6, <2>1, ThinnedFind
<1>7. Reread(lines) = Parsed(new)
  BY DEF Reread, new
<1>8. /\ Good(Parsed(new))
      /\ \A a, b : a # Null /\ b # Null => Find(Parsed(new), a, b) = ReadBack(Find(new, a, b))
  BY <1>5, ParsedIs
<1> QED BY <1>6, <1>7, <1>8

LEMMA RereadStays ==
  ASSUME NEW lines \in Seq(Line)
  PROVE  Reread(lines) \in Seq(Line)
<1> DEFINE new == Formatted(lines)
           short(l) == [l EXCEPT !.value = Shortened, !.comment = "aside"]
<1>1. \E e : Kept(lines, Len(lines), new, e)
  BY FormattedIs
<1> HIDE DEF new
<1>2. new \in Seq(Line) /\ Len(new) \in Nat /\ DOMAIN new = 1 .. Len(new)
  BY <1>1 DEF Kept
<1>3. ASSUME NEW l \in Line PROVE short(l) \in Line
  BY DEF Line, Values
<1>4. Parsed(new) = [i \in 1 .. Len(new) |-> IF new[i].value = Cut THEN short(new[i]) ELSE new[i]]
  BY <1>2 DEF Parsed
<1> HIDE DEF short
<1>5. \A i \in 1 .. Len(new) : (IF new[i].value = Cut THEN short(new[i]) ELSE new[i]) \in Line
  BY <1>2, <1>3
<1>6. Parsed(new) \in Seq(Line)
  BY <1>2, <1>4, <1>5
<1> QED BY <1>6 DEF Reread, new

(* Lines written over those of a file.                                     *)
LEMMA OverwrittenIs ==
  ASSUME NEW old \in Seq(Line), NEW new \in Seq(Line)
  PROVE  /\ Overwritten(old, new) \in Seq(Line)
         /\ old = <<>> => Overwritten(old, new) = new
<1> DEFINE rest == SubSeq(old, Len(new) + 1, Len(old))
<1>1. Len(new) + 1 \in Int /\ Len(old) \in Int /\ Len(new) \in Nat /\ Len(old) \in Nat
  OBVIOUS
<1>2. \A i \in Len(new) + 1 .. Len(old) : old[i] \in Line
  BY <1>1
<1>3. /\ rest \in Seq(Line)
      /\ Len(rest) = IF Len(new) + 1 <= Len(old) THEN Len(old) - (Len(new) + 1) + 1 ELSE 0
  BY <1>1, <1>2, SubSeqProperties
<1>4. Overwritten(old, new) = new \o rest
  BY DEF Overwritten
<1> HIDE DEF rest
<1>5. Overwritten(old, new) \in Seq(Line)
  BY <1>3, <1>4
<1>6. ASSUME old = <<>> PROVE Overwritten(old, new) = new
  <2>1. Len(old) = 0
    BY <1>6
  <2>2. Len(rest) = 0
    BY <1>1, <1>3, <2>1
  <2>3. rest = <<>>
    BY <1>3, <2>2
  <2> QED BY <1>4, <2>3
<1> QED BY <1>5, <1>6

-----------------------------------------------------------------------------
(* The table of a file, and its changes.                                   *)

IsTable(t) ==
  /\ t = [lines |-> t.lines, max |-> t.max, dirty |-> t.dirty, damaged |-> t.damaged, log |-> t.log]
  /\ t.lines \in Seq(Line)
Sound(t) == IsTable(t) /\ Unique(t.lines)

(* A change is of a key, or of all of a section, which is then deleted.    *)
IsChange(s, k, v) ==
  s \in Names /\ k \in KeyNames \cup {Null} /\ v \in Values /\ (k = Null => v = Null)

(* What Change makes of a table without a section or key twice.            *)
Changed(t, u, s, k, v) ==
  /\ Sound(u) /\ u.log = t.log /\ OthersStay(t.lines, u.lines, s)
  /\ t.damaged => u.damaged
  /\ u.damaged \/ Effect(t.lines, u.lines, s, k, v)

LEMMA NamesAreNot ==
  /\ \A n \in Names : n # Null
  /\ \A n \in KeyNames : n # Null /\ n \in Names /\ n # "sources"
BY DEF Names, KeyNames, Null

LEMMA NewLines ==
  /\ NoLine \in Line
  /\ \A s \in Names : SectionLine(s) \in Line
  /\ \A k \in KeyNames, v \in Values : Define(k, v) \in Line
<1>1. Null \in Names \cup {Null} /\ Null \in KeyNames \cup {Null} /\ Null \in Values
  BY DEF Values
<1>2. NoLine \in Line
  BY <1>1 DEF NoLine, Line
<1>3. ASSUME NEW s \in Names PROVE SectionLine(s) \in Line
  <2>1. SectionLine(s) = [section |-> s, id |-> Null, value |-> Null, comment |-> Null]
    BY DEF SectionLine, NoLine
  <2>2. Null # "block"
    BY DEF Null
  <2> QED BY <1>1, <2>1, <2>2 DEF Line
<1>4. ASSUME NEW k \in KeyNames, NEW v \in Values PROVE Define(k, v) \in Line
  <2>0. [NoLine EXCEPT !.id = k] = [section |-> Null, id |-> k, value |-> Null, comment |-> Null]
    BY DEF NoLine
  <2> DEFINE w == [section |-> Null, id |-> k, value |-> Null, comment |-> Null]
  <2>a. [w EXCEPT !.value = v] = [section |-> Null, id |-> k, value |-> v, comment |-> Null]
    OBVIOUS
  <2>b. Define(k, v) = [w EXCEPT !.value = v]
    BY <2>0 DEF Define
  <2>1. Define(k, v) = [section |-> Null, id |-> k, value |-> v, comment |-> Null]
    BY <2>a, <2>b
  <2>2. Null # "block"
    BY DEF Null
  <2> QED BY <1>1, <2>1, <2>2 DEF Line
<1> QED BY <1>2, <1>3, <1>4

LEMMA StoreIs ==
  ASSUME NEW t, IsTable(t), NEW line, NEW u, u = Store(t, line)
  PROVE  /\ u = [lines |-> u.lines, max |-> u.max, dirty |-> u.dirty, damaged |-> u.damaged, log |-> u.log]
         /\ u.lines = Append(t.lines, line) /\ u.damaged = t.damaged /\ u.log = t.log
BY DEF IsTable, Store

LEMMA InsertIs ==
  ASSUME NEW t, IsTable(t), NEW i, NEW line, NEW u, u = Insert(t, i, line)
  PROVE  /\ u = [lines |-> u.lines, max |-> u.max, dirty |-> u.dirty, damaged |-> u.damaged, log |-> u.log]
         /\ u.log = t.log
         /\ t.damaged => u.damaged
         /\ \/ u.damaged /\ u.lines = Append(t.lines, NoLine)
            \/ u.lines = InsertAt(t.lines, i, line)
<1>1. CASE Len(t.lines) = t.max
  <2> DEFINE w == Store(t, NoLine)
  <2>1. u = [w EXCEPT !.damaged = TRUE]
    BY <1>1 DEF Insert
  <2>2. /\ w = [lines |-> w.lines, max |-> w.max, dirty |-> w.dirty, damaged |-> w.damaged, log |-> w.log]
        /\ w.lines = Append(t.lines, NoLine) /\ w.log = t.log
    BY StoreIs
  <2> HIDE DEF w
  <2> QED BY <2>1, <2>2
<1>2. CASE Len(t.lines) # t.max
  <2>1. u = [t EXCEPT !.lines = InsertAt(@, i, line), !.dirty = TRUE,
                      !.damaged = @ \/ Len(t.lines) + 1 = t.max]
    BY <1>2 DEF Insert
  <2>2. u = [lines |-> InsertAt(t.lines, i, line), max |-> t.max, dirty |-> TRUE,
             damaged |-> (t.damaged \/ Len(t.lines) + 1 = t.max), log |-> t.log]
    BY <2>1 DEF IsTable
  <2> DEFINE filled == Len(t.lines) + 1 = t.max
             either == t.damaged \/ filled
  <2>3. t.damaged => (either = TRUE)
    OBVIOUS
  <2>4. u = [lines |-> InsertAt(t.lines, i, line), max |-> t.max, dirty |-> TRUE,
             damaged |-> either, log |-> t.log]
    BY <2>2
  <2> HIDE DEF either
  <2>5. u.damaged = either
    BY <2>4
  <2>6. t.damaged => u.damaged
    BY <2>3, <2>5
  <2> QED BY <2>4, <2>6
<1> QED BY <1>1, <1>2

Deleted(t, u, top, to) ==
  /\ u = [lines |-> u.lines, max |-> u.max, dirty |-> u.dirty, damaged |-> u.damaged, log |-> u.log]
  /\ u.lines = SubSeq(t.lines, 1, top - 1) \o SubSeq(t.lines, to, Len(t.lines))
  /\ u.damaged = t.damaged /\ u.log = t.log

LEMMA DeleteIs ==
  ASSUME NEW t, IsTable(t), NEW from, NEW to
  PROVE  Deleted(t, Delete(t, from, to), Above(t.lines, from), to)
<1> DEFINE top == Above(t.lines, from)
           u == Delete(t, from, to)
<1>1. u = [t EXCEPT !.lines = SubSeq(@, 1, top - 1) \o SubSeq(@, to, Len(@)), !.dirty = TRUE]
  BY DEF Delete
<1> HIDE DEF u, top
<1>2. u = [lines |-> SubSeq(t.lines, 1, top - 1) \o SubSeq(t.lines, to, Len(t.lines)), max |-> t.max,
           dirty |-> TRUE, damaged |-> t.damaged, log |-> t.log]
  BY <1>1 DEF IsTable
<1>3. Deleted(t, u, top, to)
  BY <1>2 DEF Deleted
<1> QED BY <1>3 DEF u, top

LEMMA ChangeIs ==
  ASSUME NEW t, Sound(t), NEW s, NEW k, NEW v, IsChange(s, k, v),
         NEW u, u = Change(t, s, k, v)
  PROVE  Changed(t, u, s, k, v)
<1> DEFINE old == t.lines
           at == SectionAt(old, s)
           end == SectionEnd(old, at)
           key == KeyAt(old, s, k)
<1>0. /\ old \in Seq(Line) /\ Good(old) /\ Len(old) \in Nat /\ DOMAIN old = 1 .. Len(old)
      /\ s # Null /\ s \in Names
  BY LineIs, NamesAreNot DEF Sound, IsTable, Good, IsChange
<1>1. ASSUME u = t, \A b : b # Null /\ k \in {Null, b} => Find(old, s, b) = v
      PROVE  Changed(t, u, s, k, v)
  BY <1>1 DEF Changed, Effect, OthersStay
<1>2. CASE at = 0 /\ (k = Null \/ v = Null)
  <2>1. u = t
    BY <1>2 DEF Change
  <2>2. ASSUME NEW b PROVE Find(old, s, b) = Null
    BY <1>2 DEF Find, KeyAt
  <2>3. v = Null
    BY <1>2 DEF IsChange
  <2> QED BY <1>1, <2>1, <2>2, <2>3
<1>3. CASE at = 0 /\ ~ (k = Null \/ v = Null)
  <2> DEFINE w == Store(t, SectionLine(s))
             mid == w.lines
             n == Len(old) + 1
  <2>1. u = Store(w, Define(k, v))
    BY <1>3 DEF Change
  <2>2. /\ w = [lines |-> w.lines, max |-> w.max, dirty |-> w.dirty, damaged |-> w.damaged, log |-> w.log]
        /\ mid = Append(old, SectionLine(s)) /\ w.damaged = t.damaged /\ w.log = t.log
    BY StoreIs DEF Sound
  <2> HIDE DEF w
  <2>3. Put(old, mid, n, SectionLine(s))
    BY <1>0, <2>2, NewLines, AppendPuts
  <2>4. /\ Good(mid) /\ OthersStay(old, mid, s)
        /\ \A a, b : a # Null /\ b # Null => Find(mid, a, b) = Find(old, a, b)
        /\ SectionAt(mid, s) = n /\ SectionEnd(mid, n) = Len(old) + 2
        /\ \A kk : KeyAt(mid, s, kk) = 0
    BY <1>0, <1>3, <2>3, SectionPut
  <2>5. mid \in Seq(Line) /\ Len(mid) = n
    BY <2>3 DEF Put
  <2>6. k \in KeyNames /\ k # Null /\ v \in Values /\ Define(k, v) \in Line
    BY <1>3, NewLines DEF IsChange
  <2>7. /\ u = [lines |-> u.lines, max |-> u.max, dirty |-> u.dirty, damaged |-> u.damaged, log |-> u.log]
        /\ u.lines = Append(mid, Define(k, v)) /\ u.damaged = w.damaged /\ u.log = w.log
    <3>1. IsTable(w)
      BY <2>2, <2>4 DEF IsTable, Good
    <3> QED BY <2>1, <3>1, StoreIs DEF Sound
  <2>8. Put(mid, u.lines, Len(mid) + 1, Define(k, v))
    BY <2>5, <2>6, <2>7, AppendPuts
  <2>9. Len(mid) + 1 = SectionEnd(mid, n) /\ n # 0
    BY <1>0, <2>4, <2>5
  <2>10. Good(u.lines) /\ Effect(mid, u.lines, s, k, v) /\ OthersStay(mid, u.lines, s)
    BY <1>0, <2>4, <2>6, <2>8, <2>9, KeyPut
  <2>11. Effect(old, u.lines, s, k, v)
    BY <2>4, <2>10 DEF Effect
  <2>12. OthersStay(old, u.lines, s)
    BY <2>4, <2>10 DEF OthersStay
  <2> QED BY <2>2, <2>7, <2>10, <2>11, <2>12 DEF Changed, Sound, IsTable, Good
<1>4. ASSUME at # 0
      PROVE  /\ at \in 1 .. Len(old) /\ old[at].section = s /\ old[at].comment # "block"
             /\ end \in at + 1 .. Len(old) + 1
             /\ key # 0 => key \in at + 1 .. end - 1
  <2>1. at \in 1 .. Len(old) /\ old[at].section = s
    BY <1>0, <1>4, SectionAtIs
  <2>2. old[at].comment # "block"
    BY <1>0, <2>1, LineIs
  <2>3. end \in at + 1 .. Len(old) + 1
    BY <1>0, <2>1, SectionEndIs
  <2>4. key # 0 => key \in at + 1 .. end - 1
    BY <1>0, KeyAtIs
  <2> QED BY <2>1, <2>2, <2>3, <2>4
<1>5. CASE at # 0 /\ k = Null
  <2> DEFINE top == Above(old, at)
             to == Above(old, end)
  <2>1. u = Delete(t, at, to) /\ top = Above(t.lines, at)
    BY <1>5 DEF Change
  <2> HIDE DEF top, to
  <2>2. /\ u = [lines |-> u.lines, max |-> u.max, dirty |-> u.dirty, damaged |-> u.damaged, log |-> u.log]
        /\ u.lines = SubSeq(old, 1, top - 1) \o SubSeq(old, to, Len(old))
        /\ u.damaged = t.damaged /\ u.log = t.log
    <3>1. Deleted(t, u, top, to)
      BY <2>1, DeleteIs DEF Sound
    <3> QED BY <3>1 DEF Deleted
  <2>3. at \in 1 .. Len(old) + 1 /\ end \in 1 .. Len(old) + 1
    BY <1>0, <1>4, <1>5
  <2>4. top \in 1 .. at /\ to \in 1 .. end /\ \A m \in to .. end - 1 : old[m].comment = "block"
    BY <1>0, <2>3, AboveIs DEF top, to
  <2>5. ~ (at \in to .. end - 1)
    BY <1>4, <1>5, <2>4
  <2>6. top \in 1 .. Len(old) + 1 /\ to \in top .. Len(old) + 1
    BY <1>0, <1>4, <1>5, <2>3, <2>4, <2>5
  <2>7. WithoutLines(old, top, to, u.lines)
    BY <1>0, <2>2, <2>6, LinesCut
  <2>8. Good(u.lines) /\ Effect(old, u.lines, s, Null, Null) /\ OthersStay(old, u.lines, s)
    BY <1>0, <1>5, <2>7, SectionDeleted DEF top, to
  <2>9. k = Null /\ v = Null
    BY <1>5 DEF IsChange
  <2> QED BY <2>2, <2>8, <2>9 DEF Changed, Sound, IsTable, Good
<1>6. CASE at # 0 /\ k # Null /\ v = Null
  <2>0. k \in KeyNames
    BY <1>6 DEF IsChange
  <2>1. CASE key = 0
    <3>1. u = t
      BY <1>6, <2>1 DEF Change
    <3>2. Find(old, s, k) = Null
      BY <2>1 DEF Find
    <3> QED BY <1>1, <1>6, <3>1, <3>2
  <2>2. CASE key # 0
    <3> DEFINE top == Above(old, key)
    <3>1. u = Delete(t, key, key + 1) /\ top = Above(t.lines, key)
      BY <1>6, <2>2 DEF Change
    <3> HIDE DEF top
    <3>2. /\ u = [lines |-> u.lines, max |-> u.max, dirty |-> u.dirty, damaged |-> u.damaged, log |-> u.log]
          /\ u.lines = SubSeq(old, 1, top - 1) \o SubSeq(old, key + 1, Len(old))
          /\ u.damaged = t.damaged /\ u.log = t.log
      <4>1. Deleted(t, u, top, key + 1)
        BY <3>1, DeleteIs DEF Sound
      <4> QED BY <4>1 DEF Deleted
    <3>3. key \in 1 .. Len(old) + 1 /\ key \in 1 .. Len(old)
      BY <1>0, <1>4, <1>6, <2>2
    <3>4. top \in 1 .. key
      BY <1>0, <3>3, AboveIs DEF top
    <3>5. top \in 1 .. Len(old) + 1 /\ key + 1 \in top .. Len(old) + 1
      BY <1>0, <3>3, <3>4
    <3>6. WithoutLines(old, top, key + 1, u.lines)
      BY <1>0, <3>2, <3>5, LinesCut
    <3>7. Good(u.lines) /\ Effect(old, u.lines, s, k, Null) /\ OthersStay(old, u.lines, s)
      BY <1>0, <1>6, <2>2, <3>6, KeyDeleted DEF top
    <3> QED BY <1>6, <3>2, <3>7 DEF Changed, Sound, IsTable, Good
  <2> QED BY <2>1, <2>2
<1>7. CASE at # 0 /\ k # Null /\ v # Null /\ key # 0
  <2> DEFINE new == [old EXCEPT ![key].value = v]
  <2>1. u = [t EXCEPT !.lines[key].value = v, !.dirty = TRUE]
    BY <1>7 DEF Change
  <2>2. u = [lines |-> new, max |-> t.max, dirty |-> TRUE, damaged |-> t.damaged, log |-> t.log]
    BY <2>1 DEF Sound, IsTable
  <2>3. v \in Values
    BY DEF IsChange
  <2>4. Good(new) /\ Effect(old, new, s, k, v) /\ OthersStay(old, new, s)
    BY <1>0, <1>7, <2>3, KeySet
  <2> HIDE DEF new
  <2> QED BY <2>2, <2>4 DEF Changed, Sound, IsTable, Good
<1>8. CASE at # 0 /\ k # Null /\ v # Null /\ key = 0
  <2>0. k \in KeyNames /\ v \in Values /\ Define(k, v) \in Line /\ NoLine \in Line
    BY <1>8, NewLines DEF IsChange
  <2>1. ASSUME Put(old, u.lines, end, Define(k, v))
        PROVE  Good(u.lines) /\ Effect(old, u.lines, s, k, v) /\ OthersStay(old, u.lines, s)
    BY <1>0, <1>8, <2>0, <2>1, KeyPut
  <2>2. CASE end <= Len(old)
    <3>1. u = Insert(t, end, Define(k, v))
      BY <1>8, <2>2 DEF Change
    <3>2. /\ u = [lines |-> u.lines, max |-> u.max, dirty |-> u.dirty, damaged |-> u.damaged, log |-> u.log]
          /\ u.log = t.log
          /\ t.damaged => u.damaged
          /\ \/ u.damaged /\ u.lines = Append(old, NoLine)
             \/ u.lines = InsertAt(old, end, Define(k, v))
      BY <3>1, InsertIs DEF Sound
    <3>3. CASE u.damaged /\ u.lines = Append(old, NoLine)
      <4>1. Put(old, u.lines, Len(old) + 1, NoLine)
        BY <1>0, <2>0, <3>3, AppendPuts
      <4>2. Good(u.lines) /\ \A a : a # Null => (Has(u.lines, a) <=> Has(old, a))
        BY <1>0, <4>1, BlankPut
      <4>3. OthersStay(old, u.lines, s)
        BY <4>2 DEF OthersStay
      <4> QED BY <3>2, <3>3, <4>2, <4>3 DEF Changed, Sound, IsTable, Good
    <3>4. CASE u.lines = InsertAt(old, end, Define(k, v))
      <4>1. end \in 1 .. Len(old) + 1
        BY <1>0, <1>4, <1>8
      <4>2. Put(old, u.lines, end, Define(k, v))
        BY <1>0, <2>0, <3>4, <4>1, InsertPuts
      <4> QED BY <2>1, <3>2, <4>2 DEF Changed, Sound, IsTable, Good
    <3> QED BY <3>2, <3>3, <3>4
  <2>3. CASE ~ (end <= Len(old))
    <3>1. u = Store(t, Define(k, v))
      BY <1>8, <2>3 DEF Change
    <3>2. /\ u = [lines |-> u.lines, max |-> u.max, dirty |-> u.dirty, damaged |-> u.damaged, log |-> u.log]
          /\ u.lines = Append(old, Define(k, v)) /\ u.damaged = t.damaged /\ u.log = t.log
      BY <3>1, StoreIs DEF Sound
    <3>3. end = Len(old) + 1
      BY <1>0, <1>4, <1>8, <2>3
    <3>4. Put(old, u.lines, end, Define(k, v))
      BY <1>0, <2>0, <3>2, <3>3, AppendPuts
    <3> QED BY <2>1, <3>2, <3>4 DEF Changed, Sound, IsTable, Good
  <2> QED BY <2>2, <2>3
<1> QED BY <1>2, <1>3, <1>5, <1>6, <1>7, <1>8

(* What holds of a table that may have a section or a key twice, too.      *)
LEMMA ChangeStays ==
  ASSUME NEW t, IsTable(t), NEW s, NEW k, NEW v, IsChange(s, k, v),
         NEW u, u = Change(t, s, k, v)
  PROVE  /\ IsTable(u) /\ u.log = t.log /\ OthersStay(t.lines, u.lines, s)
         /\ t.damaged => u.damaged
<1> DEFINE old == t.lines
           at == SectionAt(old, s)
           end == SectionEnd(old, at)
           key == KeyAt(old, s, k)
<1>0. /\ old \in Seq(Line) /\ Len(old) \in Nat /\ DOMAIN old = 1 .. Len(old)
      /\ s # Null /\ s \in Names
  BY LineIs, NamesAreNot DEF IsTable, IsChange
<1>1. ASSUME u = t PROVE IsTable(u) /\ u.log = t.log /\ OthersStay(old, u.lines, s) /\ (t.damaged => u.damaged)
  BY <1>1 DEF OthersStay
<1>2. CASE at = 0 /\ (k = Null \/ v = Null)
  <2>1. u = t
    BY <1>2 DEF Change
  <2> QED BY <1>1, <2>1
<1>3. CASE at = 0 /\ ~ (k = Null \/ v = Null)
  <2> DEFINE w == Store(t, SectionLine(s))
             mid == w.lines
  <2>1. u = Store(w, Define(k, v))
    BY <1>3 DEF Change
  <2>2. /\ w = [lines |-> w.lines, max |-> w.max, dirty |-> w.dirty, damaged |-> w.damaged, log |-> w.log]
        /\ mid = Append(old, SectionLine(s)) /\ w.damaged = t.damaged /\ w.log = t.log
    BY StoreIs
  <2> HIDE DEF w
  <2>3. Put(old, mid, Len(old) + 1, SectionLine(s)) /\ mid \in Seq(Line)
    BY <1>0, <2>2, NewLines, AppendPuts DEF Put
  <2>4. Define(k, v) \in Line
    BY <1>3, NewLines DEF IsChange
  <2>5. /\ u = [lines |-> u.lines, max |-> u.max, dirty |-> u.dirty, damaged |-> u.damaged, log |-> u.log]
        /\ u.lines = Append(mid, Define(k, v)) /\ u.damaged = w.damaged /\ u.log = w.log
    <3>1. IsTable(w)
      BY <2>2, <2>3 DEF IsTable
    <3> QED BY <2>1, <3>1, StoreIs
  <2>6. Put(mid, u.lines, Len(mid) + 1, Define(k, v)) /\ u.lines \in Seq(Line)
    BY <2>3, <2>4, <2>5, AppendPuts DEF Put
  <2>7. SectionLine(s).section = s /\ Define(k, v).section = Null
    BY DEF SectionLine, Define, NoLine
  <2>8. OthersStay(old, u.lines, s)
    BY <1>0, <2>3, <2>6, <2>7, PutHas DEF OthersStay
  <2> QED BY <2>2, <2>5, <2>6, <2>8 DEF IsTable
<1>4. ASSUME at # 0
      PROVE  /\ at \in 1 .. Len(old) /\ old[at].section = s /\ old[at].comment # "block"
             /\ end \in at + 1 .. Len(old) + 1 /\ \A j \in at + 1 .. end - 1 : old[j].section = Null
             /\ key # 0 => key \in at + 1 .. end - 1
  <2>1. at \in 1 .. Len(old) /\ old[at].section = s
    BY <1>0, <1>4, SectionAtIs
  <2>2. old[at].comment # "block"
    BY <1>0, <2>1, LineIs
  <2>3. end \in at + 1 .. Len(old) + 1 /\ \A j \in at + 1 .. end - 1 : old[j].section = Null
    BY <1>0, <2>1, SectionEndIs
  <2>4. key # 0 => key \in at + 1 .. end - 1
    BY <1>0, KeyAtIs
  <2> QED BY <2>1, <2>2, <2>3, <2>4
<1> HIDE DEF at, end, key
<1>5. ASSUME NEW from \in 1 .. Len(old), NEW top, top = Above(old, from), NEW to \in from + 1 .. Len(old) + 1,
             u = Delete(t, from, to), \A m \in from .. to - 1 : old[m].section \in {Null, s}
      PROVE  IsTable(u) /\ u.log = t.log /\ OthersStay(old, u.lines, s) /\ (t.damaged => u.damaged)
  <2>1. Deleted(t, u, top, to)
    BY <1>5, DeleteIs
  <2>2. top \in 1 .. from /\ \A m \in top .. from - 1 : old[m].comment = "block"
    BY <1>0, <1>5, AboveIs
  <2>3. top \in 1 .. Len(old) + 1 /\ to \in top .. Len(old) + 1
    BY <1>0, <2>2
  <2>4. WithoutLines(old, top, to, u.lines)
    BY <1>0, <2>1, <2>3, LinesCut DEF Deleted
  <2>5. ASSUME NEW m \in 1 .. Len(old), m \in top .. to - 1 PROVE old[m].section \in {Null, s}
    <3>1. CASE m < from
      BY <1>0, <2>2, <2>5, <3>1, LineIs
    <3>2. CASE ~ (m < from)
      BY <1>0, <1>5, <2>3, <2>5, <3>2
    <3> QED BY <3>1, <3>2
  <2>6. ASSUME NEW a, a \notin {Null, s} PROVE Has(u.lines, a) <=> Has(old, a)
    <3>1. \A m \in 1 .. Len(old) : m \in top .. to - 1 => old[m].section # a
      BY <2>5, <2>6
    <3> QED BY <1>0, <2>3, <2>4, <3>1, CutHas
  <2> QED BY <2>1, <2>4, <2>6 DEF Deleted, WithoutLines, IsTable, OthersStay
<1>6. CASE at # 0 /\ k = Null
  <2> DEFINE to == Above(old, end)
  <2>1. u = Delete(t, at, to)
    BY <1>6 DEF Change, at, end
  <2> HIDE DEF to
  <2>2. to \in 1 .. end /\ \A m \in to .. end - 1 : old[m].comment = "block"
    BY <1>0, <1>4, <1>6, AboveIs DEF to
  <2>3. to \in at + 1 .. Len(old) + 1 /\ \A m \in at .. to - 1 : old[m].section \in {Null, s}
    BY <1>0, <1>4, <1>6, <2>2
  <2> QED BY <1>4, <1>5, <1>6, <2>1, <2>3
<1>7. CASE at # 0 /\ k # Null /\ v = Null
  <2>1. CASE key = 0
    <3>1. u = t
      BY <1>7, <2>1 DEF Change, at, key
    <3> QED BY <1>1, <3>1
  <2>2. CASE key # 0
    <3>1. u = Delete(t, key, key + 1)
      BY <1>7, <2>2 DEF Change, at, key
    <3>2. /\ key \in 1 .. Len(old) /\ key + 1 \in key + 1 .. Len(old) + 1
          /\ \A m \in key .. (key + 1) - 1 : old[m].section \in {Null, s}
      BY <1>0, <1>4, <1>7, <2>2
    <3> QED BY <1>5, <3>1, <3>2
  <2> QED BY <2>1, <2>2
<1>8. CASE at # 0 /\ k # Null /\ v # Null /\ key # 0
  <2> DEFINE new == [old EXCEPT ![key].value = v]
  <2>1. u = [t EXCEPT !.lines[key].value = v, !.dirty = TRUE]
    BY <1>8 DEF Change, at, key
  <2>2. u = [lines |-> new, max |-> t.max, dirty |-> TRUE, damaged |-> t.damaged, log |-> t.log]
    BY <2>1 DEF IsTable
  <2>3. v \in Values /\ key \in 1 .. Len(old)
    BY <1>0, <1>4, <1>8 DEF IsChange
  <2>4. [old[key] EXCEPT !.value = v] \in Line /\ [old[key] EXCEPT !.value = v].section = old[key].section
    BY <1>0, <2>3, LineIs DEF Line
  <2>5. new \in Seq(Line) /\ Len(new) = Len(old) /\ \A i \in 1 .. Len(old) : new[i].section = old[i].section
    BY <1>0, <2>3, <2>4
  <2> HIDE DEF new
  <2>6. OthersStay(old, new, s)
    BY <2>5 DEF OthersStay, Has
  <2> QED BY <2>2, <2>5, <2>6 DEF IsTable
<1>9. CASE at # 0 /\ k # Null /\ v # Null /\ key = 0
  <2>0. Define(k, v) \in Line /\ NoLine \in Line /\ Define(k, v).section = Null /\ NoLine.section = Null
    BY <1>9, NewLines DEF IsChange, Define, NoLine
  <2>1. ASSUME NEW i, NEW line \in {Define(k, v), NoLine}, Put(old, u.lines, i, line)
        PROVE  u.lines \in Seq(Line) /\ OthersStay(old, u.lines, s)
    <3>1. u.lines \in Seq(Line) /\ line.section = Null
      BY <2>0, <2>1 DEF Put
    <3>2. ASSUME NEW a, a \notin {Null, s} PROVE Has(u.lines, a) <=> Has(old, a)
      BY <1>0, <2>1, <3>1, <3>2, PutHas
    <3> QED BY <3>1, <3>2 DEF OthersStay
  <2>2. CASE end <= Len(old)
    <3>1. u = Insert(t, end, Define(k, v))
      BY <1>9, <2>2 DEF Change, at, end, key
    <3>2. /\ u = [lines |-> u.lines, max |-> u.max, dirty |-> u.dirty, damaged |-> u.damaged, log |-> u.log]
          /\ u.log = t.log
          /\ t.damaged => u.damaged
          /\ \/ u.lines = Append(old, NoLine)
             \/ u.lines = InsertAt(old, end, Define(k, v))
      BY <3>1, InsertIs
    <3>3. end \in 1 .. Len(old) + 1
      BY <1>0, <1>4, <1>9
    <3>4. \/ Put(old, u.lines, Len(old) + 1, NoLine)
          \/ Put(old, u.lines, end, Define(k, v))
      BY <1>0, <2>0, <3>2, <3>3, AppendPuts, InsertPuts
    <3> QED BY <2>1, <3>2, <3>4 DEF IsTable
  <2>3. CASE ~ (end <= Len(old))
    <3>1. u = Store(t, Define(k, v))
      BY <1>9, <2>3 DEF Change, at, end, key
    <3>2. /\ u = [lines |-> u.lines, max |-> u.max, dirty |-> u.dirty, damaged |-> u.damaged, log |-> u.log]
          /\ u.lines = Append(old, Define(k, v)) /\ u.damaged = t.damaged /\ u.log = t.log
      BY <3>1, StoreIs
    <3>3. Put(old, u.lines, Len(old) + 1, Define(k, v))
      BY <1>0, <2>0, <3>2, AppendPuts
    <3> QED BY <2>1, <3>2, <3>3 DEF IsTable
  <2> QED BY <2>2, <2>3
<1> QED BY <1>2, <1>3, <1>6, <1>7, <1>8, <1>9

-----------------------------------------------------------------------------
(* Lists of changes.                                                       *)

Change3 == {c \in Names \X (KeyNames \cup {Null}) \X Values : c[2] = Null => c[3] = Null}

LEMMA Change3Is ==
  ASSUME NEW c \in Change3
  PROVE  IsChange(c[1], c[2], c[3]) /\ c = <<c[1], c[2], c[3]>>
BY DEF Change3, IsChange

LEMMA Greatest ==
  ASSUME NEW n \in Nat, NEW S, S \subseteq 1 .. n, S # {}
  PROVE  Max(S) \in S /\ \A m \in S : m <= Max(S)
<1> DEFINE T == {n - i : i \in S}
<1>1. T \subseteq Nat /\ T # {}
  <2>1. \A i \in S : n - i \in Nat
    OBVIOUS
  <2> QED BY <2>1
<1>2. PICK x \in T : \A y \in T : x <= y
  BY <1>1, LeastNumber
<1>3. PICK i \in S : x = n - i
  BY <1>2
<1>4. ASSUME NEW m \in S PROVE m <= i
  <2>1. n - i <= n - m
    BY <1>2, <1>3
  <2> QED BY <1>3, <2>1
<1>5. \E j \in S : \A m \in S : j >= m
  BY <1>3, <1>4
<1>6. Max(S) \in S /\ \A m \in S : Max(S) >= m
  BY <1>5 DEF Max
<1> QED BY <1>6

LEMMA DecidedMore ==
  ASSUME NEW changes \in Seq(Change3), NEW change \in Change3, NEW cell, NEW otherwise
  PROVE  Decided(Append(changes, change), cell, otherwise) =
           IF Speaks(change, cell) THEN change[3] ELSE Decided(changes, cell, otherwise)
<1> DEFINE n == Len(changes)
           more == Append(changes, change)
           S == {i \in DOMAIN changes : Speaks(changes[i], cell)}
           T == {i \in DOMAIN more : Speaks(more[i], cell)}
<1>0. n \in Nat /\ n + 1 \in Nat /\ DOMAIN changes = 1 .. n
  OBVIOUS
<1>1. /\ Len(more) = n + 1 /\ DOMAIN more = 1 .. n + 1 /\ more[n + 1] = change
      /\ \A i \in 1 .. n : more[i] = changes[i]
  BY AppendProperties
<1>2. /\ Decided(more, cell, otherwise) = IF T = {} THEN otherwise ELSE more[Max(T)][3]
      /\ Decided(changes, cell, otherwise) = IF S = {} THEN otherwise ELSE changes[Max(S)][3]
  BY DEF Decided
<1> HIDE DEF more
<1>3. S \subseteq 1 .. n /\ T \subseteq 1 .. n + 1
  BY <1>0, <1>1
<1>4. \A i \in 1 .. n : i \in T <=> i \in S
  BY <1>0, <1>1
<1>5. n + 1 \in T <=> Speaks(change, cell)
  BY <1>0, <1>1
<1> HIDE DEF S, T
<1> SUFFICES Decided(more, cell, otherwise) =
               IF Speaks(change, cell) THEN change[3] ELSE Decided(changes, cell, otherwise)
  BY DEF more
<1> HIDE DEF n
<1>6. CASE Speaks(change, cell)
  <2>0. T # {}
    BY <1>5, <1>6
  <2>1. Max(T) \in T /\ \A m \in T : m <= Max(T)
    BY <1>0, <1>3, <2>0, Greatest
  <2>2. Max(T) = n + 1
    <3>1. Max(T) \in 1 .. n + 1
      BY <1>3, <2>1
    <3>2. n + 1 <= Max(T)
      BY <1>5, <1>6, <2>1
    <3> HIDE DEF T
    <3> QED BY <1>0, <3>1, <3>2
  <2> QED BY <1>1, <1>2, <1>6, <2>0, <2>2
<1>7. CASE ~ Speaks(change, cell)
  <2>1. T = S
    <3>1. \A i \in T : i \in 1 .. n
      BY <1>0, <1>3, <1>5, <1>7
    <3> QED BY <1>3, <1>4, <3>1
  <2>2. S # {} => Max(S) \in 1 .. n
    BY <1>0, <1>3, Greatest
  <2> QED BY <1>1, <1>2, <1>7, <2>1, <2>2
<1> QED BY <1>6, <1>7

LEMMA DecidedNone ==
  ASSUME NEW changes, NEW cell, NEW otherwise,
         \A i \in DOMAIN changes : ~ Speaks(changes[i], cell)
  PROVE  Decided(changes, cell, otherwise) = otherwise
BY DEF Decided

LEMMA DecidedSame ==
  ASSUME NEW changes \in Seq(Change3), NEW cell, NEW otherwise, NEW x,
         \A i \in DOMAIN changes : Speaks(changes[i], cell) => changes[i][3] = x,
         NEW j \in DOMAIN changes, Speaks(changes[j], cell)
  PROVE  Decided(changes, cell, otherwise) = x
<1> DEFINE S == {i \in DOMAIN changes : Speaks(changes[i], cell)}
<1>1. Len(changes) \in Nat /\ S \subseteq 1 .. Len(changes) /\ j \in S
  OBVIOUS
<1>2. Decided(changes, cell, otherwise) = changes[Max(S)][3]
  BY <1>1 DEF Decided
<1>3. \A i \in S : changes[i][3] = x
  OBVIOUS
<1> HIDE DEF S
<1>4. Max(S) \in S
  BY <1>1, Greatest
<1> QED BY <1>2, <1>3, <1>4

(* What Written computes, change by change.                                *)
Writes(t, changes, n, f) ==
  f = [m \in 0 .. n |-> IF m = 0 THEN t
                        ELSE Write(f[m - 1], changes[m][1], changes[m][2], changes[m][3])]

LEMMA WritesExist ==
  ASSUME NEW t, NEW changes, NEW N \in Nat
  PROVE  \E f : Writes(t, changes, N, f)
<1> DEFINE S == {n \in 0 .. N : \E f : Writes(t, changes, n, f)}
<1>1. 0 \in S
  <2>1. Writes(t, changes, 0, [m \in 0 .. 0 |-> t])
    BY DEF Writes
  <2> QED BY <2>1
<1>2. ASSUME NEW n \in 0 .. N - 1, n \in S PROVE n + 1 \in S
  <2>1. PICK f : Writes(t, changes, n, f)
    BY <1>2
  <2> DEFINE last == Write(f[n], changes[n + 1][1], changes[n + 1][2], changes[n + 1][3])
             g == [m \in 0 .. n + 1 |-> IF m = n + 1 THEN last ELSE f[m]]
  <2>2. ASSUME NEW m \in 0 .. n + 1
        PROVE  g[m] = IF m = 0 THEN t
                      ELSE Write(g[m - 1], changes[m][1], changes[m][2], changes[m][3])
    <3>1. CASE m = n + 1
      <4>1. m # 0 /\ m - 1 = n /\ m - 1 \in 0 .. n + 1 /\ m - 1 # n + 1
        BY <3>1
      <4>2. g[m] = last /\ g[m - 1] = f[n]
        BY <3>1, <4>1
      <4> QED BY <3>1, <4>1, <4>2
    <3>2. CASE m # n + 1
      <4>1. m \in 0 .. n /\ g[m] = f[m]
        BY <3>2
      <4>2. m # 0 => m - 1 \in 0 .. n + 1 /\ m - 1 # n + 1
        BY <4>1
      <4>3. m # 0 => g[m - 1] = f[m - 1]
        BY <4>2
      <4>4. f[m] = IF m = 0 THEN t
                   ELSE Write(f[m - 1], changes[m][1], changes[m][2], changes[m][3])
        BY <2>1, <4>1 DEF Writes
      <4> HIDE DEF g
      <4> QED BY <4>1, <4>3, <4>4
    <3> QED BY <3>1, <3>2
  <2>3. Writes(t, changes, n + 1, g)
    <3>1. g = [m \in 0 .. n + 1 |-> g[m]]
      OBVIOUS
    <3> HIDE DEF g
    <3> QED BY <2>2, <3>1 DEF Writes
  <2>4. n + 1 \in 0 .. N
    OBVIOUS
  <2> QED BY <2>3, <2>4
<1>3. N \in S
  <2> HIDE DEF S
  <2> QED BY <1>1, <1>2, UpTo
<1> QED BY <1>3

(* A table of lines old after some changes.                                *)
After(t, u, changes) ==
  /\ IsTable(u) /\ u.log = changes
  /\ t.damaged => u.damaged
  /\ Unique(t.lines) => Unique(u.lines)
  /\ Unique(t.lines) => u.damaged \/ \A a, b : a # Null /\ b # Null =>
       Find(u.lines, a, b) = Decided(changes, <<a, b>>, Find(t.lines, a, b))
  /\ \A a : a # Null /\ (\A i \in DOMAIN changes : changes[i][1] # a) =>
       (Has(u.lines, a) <=> Has(t.lines, a))

LEMMA AfterOneMore ==
  ASSUME NEW t, NEW u, NEW changes \in Seq(Change3), After(t, u, changes), NEW c \in Change3
  PROVE  After(t, Write(u, c[1], c[2], c[3]), Append(changes, c))
<1> DEFINE w == Change(u, c[1], c[2], c[3])
           x == Write(u, c[1], c[2], c[3])
           more == Append(changes, c)
<1>0. IsTable(u) /\ u.log = changes /\ IsChange(c[1], c[2], c[3]) /\ c = <<c[1], c[2], c[3]>>
  BY Change3Is DEF After
<1>a. /\ IsTable(w) /\ w.log = u.log /\ OthersStay(u.lines, w.lines, c[1])
      /\ u.damaged => w.damaged
  BY <1>0, ChangeStays
<1>1. Unique(t.lines) => Unique(u.lines) /\ Changed(u, w, c[1], c[2], c[3])
  BY <1>0, ChangeIs DEF After, Sound
<1>2. x = [w EXCEPT !.log = Append(@, <<c[1], c[2], c[3]>>)]
  BY DEF Write
<1> HIDE DEF w, x
<1>3. IsTable(w) /\ w.log = changes
  BY <1>0, <1>a
<1>4. x = [lines |-> w.lines, max |-> w.max, dirty |-> w.dirty, damaged |-> w.damaged, log |-> more]
  BY <1>0, <1>2, <1>3 DEF IsTable
<1>5. /\ Len(changes) \in Nat /\ DOMAIN changes = 1 .. Len(changes) /\ DOMAIN more = 1 .. Len(changes) + 1
      /\ more[Len(changes) + 1] = c /\ \A i \in 1 .. Len(changes) : more[i] = changes[i]
  BY AppendProperties
<1> HIDE DEF more
<1>6. IsTable(x) /\ x.log = more /\ x.lines = w.lines /\ x.damaged = w.damaged
  BY <1>3, <1>4 DEF IsTable
<1>7. t.damaged => w.damaged
  BY <1>a DEF After
<1>b. Unique(t.lines) => Unique(w.lines)
  BY <1>1 DEF Changed, Sound
<1>8. ASSUME NEW a, NEW b, a # Null, b # Null, ~ w.damaged, Unique(t.lines)
      PROVE  Find(w.lines, a, b) = Decided(more, <<a, b>>, Find(t.lines, a, b))
  <2> DEFINE cell == <<a, b>>
             o == Find(t.lines, a, b)
  <2>1. Find(u.lines, a, b) = Decided(changes, cell, o)
    BY <1>1, <1>8 DEF After, Changed
  <2>2. Find(w.lines, a, b) = IF a = c[1] /\ c[2] \in {Null, b} THEN c[3] ELSE Find(u.lines, a, b)
    BY <1>1, <1>8 DEF Changed, Effect
  <2>3. Speaks(c, cell) <=> (a = c[1] /\ c[2] \in {Null, b})
    BY DEF Speaks
  <2>4. Decided(more, cell, o) = IF Speaks(c, cell) THEN c[3] ELSE Decided(changes, cell, o)
    BY DecidedMore DEF more
  <2> HIDE DEF cell, o
  <2>5. Find(w.lines, a, b) = Decided(more, cell, o)
    BY <2>1, <2>2, <2>3, <2>4
  <2> QED BY <2>5 DEF cell, o
<1>9. ASSUME NEW a, a # Null, \A i \in DOMAIN more : more[i][1] # a
      PROVE  Has(w.lines, a) <=> Has(t.lines, a)
  <2>1. \A i \in DOMAIN changes : i \in DOMAIN more /\ more[i] = changes[i]
    BY <1>5
  <2>2. Has(u.lines, a) <=> Has(t.lines, a)
    BY <1>9, <2>1 DEF After
  <2>3. c[1] # a
    <3>1. Len(changes) + 1 \in DOMAIN more
      BY <1>5
    <3> QED BY <1>5, <1>9, <3>1
  <2>4. Has(w.lines, a) <=> Has(u.lines, a)
    BY <1>a, <1>9, <2>3 DEF OthersStay
  <2> QED BY <2>2, <2>4
<1>10. Unique(t.lines) => x.damaged \/ \A a, b : a # Null /\ b # Null =>
         Find(x.lines, a, b) = Decided(more, <<a, b>>, Find(t.lines, a, b))
  BY <1>6, <1>8
<1>11. After(t, x, more)
  BY <1>6, <1>7, <1>b, <1>9, <1>10 DEF After
<1> QED BY <1>11 DEF x, more

(* Changes made to a table that was just loaded.                           *)
LEMMA WrittenIs ==
  ASSUME NEW t, IsTable(t), t.log = <<>>, NEW changes \in Seq(Change3)
  PROVE  After(t, Written(t, changes), changes) /\ (changes = <<>> => Written(t, changes) = t)
<1> DEFINE N == Len(changes)
           part(n) == SubSeq(changes, 1, n)
           f == CHOOSE after : Writes(t, changes, N, after)
           S == {n \in 0 .. N : After(t, f[n], part(n))}
<1>0. N \in Nat /\ part(0) = <<>> /\ part(N) = changes
  OBVIOUS
<1>1. Written(t, changes) = f[N]
  BY DEF Written, Writes
<1>2. Writes(t, changes, N, f)
  BY <1>0, WritesExist
<1> HIDE DEF f
<1>3. ASSUME NEW m \in 0 .. N
      PROVE  f[m] = IF m = 0 THEN t
                    ELSE Write(f[m - 1], changes[m][1], changes[m][2], changes[m][3])
  BY <1>2 DEF Writes
<1>4. f[0] = t
  BY <1>0, <1>3
<1>5. 0 \in S
  <2>1. \A a, b : Decided(<<>>, <<a, b>>, Find(t.lines, a, b)) = Find(t.lines, a, b)
    BY DecidedNone
  <2>2. After(t, t, <<>>)
    BY <2>1 DEF After
  <2>3. After(t, f[0], part(0))
    BY <1>0, <1>4, <2>2
  <2> HIDE DEF part
  <2> QED BY <1>0, <2>3
<1>6. ASSUME NEW n \in 0 .. N - 1, n \in S PROVE n + 1 \in S
  <2>1. After(t, f[n], part(n))
    BY <1>6
  <2>2. n + 1 \in 0 .. N /\ n + 1 # 0 /\ (n + 1) - 1 = n /\ n + 1 \in 1 .. N
    BY <1>0
  <2> DEFINE c == changes[n + 1]
  <2>3. c \in Change3 /\ part(n) \in Seq(Change3) /\ part(n + 1) = Append(part(n), c)
    BY <1>0, <2>2
  <2>4. f[n + 1] = Write(f[n], c[1], c[2], c[3])
    BY <1>3, <2>2
  <2> HIDE DEF c, part
  <2>5. After(t, f[n + 1], part(n + 1))
    BY <2>1, <2>3, <2>4, AfterOneMore
  <2> QED BY <2>2, <2>5
<1>7. N \in S
  <2> HIDE DEF S
  <2> QED BY <1>0, <1>5, <1>6, UpTo
<1>8. After(t, f[N], changes)
  BY <1>0, <1>7
<1>9. changes = <<>> => f[N] = t
  BY <1>4
<1> QED BY <1>1, <1>8, <1>9

-----------------------------------------------------------------------------
(* What holds of every call.                                               *)

Installs == {"SQLInstallDriver", "SQLInstallDriverEx", "SQLInstallTranslatorEx"}
Own == {"SQLReadFileDSN", "SQLWriteFileDSN"}

(* Functions that write, and what they are asked.                          *)
Requests ==
  {<<"SQLWritePrivateProfileString", "a", "k", v>> : v \in {"v", Cut, Null}}
  \cup {<<"SQLWritePrivateProfileString", "a", Null, Null>>}
  \cup {<<"SQLWriteFileDSN", "a", "k", "v">>}
  \cup {<<"SQLWriteDSNToIni", s, Null, v>> : s \in {"d", "Default"}, v \in {"r", "t"}}
  \cup {<<"SQLRemoveDSNFromIni", s, Null, Null>> : s \in {"d", "Default"}}
  \cup {<<"SQLInstallDriver", "r", k, "d">> : k \in {"Driver", "source", "bare"}}
  \cup {<<"SQLInstallDriverEx", "r", k, "d">> : k \in {"Driver", "source", "early", "bare"}}
  \cup {<<"SQLInstallTranslatorEx", "t", k, Null>> : k \in {"Translator", "bare"}}
  \cup {<<"SQLRemoveDriver", "r", Null, v>> : v \in {Null, "sources"}}
  \cup {<<"SQLRemoveTranslator", "t", Null, Null>>, <<"RemoveDefaultDataSource", "Default", Null, Null>>}
Readers == {"SQLGetPrivateProfileString", "SQLReadFileDSN", "SQLGetInstalledDrivers"} \cup Callbacks
Writers == {r[1] : r \in Requests}

KindsOf(fn) ==
  IF fn \in Installs THEN {<<"inst", "odbc">>}
  ELSE IF fn = "SQLRemoveDriver" THEN {<<"odbc", "inst">>}
  ELSE IF fn \in Own THEN {<<"dsn">>}
  ELSE {<<"odbc">>, <<"inst">>}
Attempts ==
  [scope : {"user", "system", "own"}, kinds : UNION {KindsOf(fn) : fn \in Readers \cup Writers},
   create : BOOLEAN, after : SUBSET {"nopath", "failed", "empty", "done"}]

IsSeq(s) == s \in Seq(Range(s))

(* A file that was loaded: its entry is of the kind the attempt is for, and*)
(* unless it was read while it was written, or after two had written it at *)
(* once, it has no section and no key twice.                               *)
Entry(e) ==
  /\ e = [file |-> e.file, kind |-> e.kind, table |-> e.table, version |-> e.version,
          torn |-> e.torn, users |-> e.users]
  /\ e.file \in Files /\ e.file[2] = e.kind /\ e.version \in Nat /\ IsTable(e.table)
  /\ e.torn \/ Unique(e.table.lines)
Unedited(t) == t.log = <<>> /\ ~ t.damaged /\ ~ t.dirty

Asks(c) ==
  /\ c.fn = Null \/ c.fn \in Readers \/ <<c.fn, c.s, c.k, c.v>> \in Requests
  /\ c.todo \in Seq(Attempts) /\ (c.todo = <<>> <=> c.fn = Null)
  /\ \A i \in 1 .. Len(c.todo) :
       c.todo[i].kinds \in KindsOf(c.fn) /\ (c.todo[i].scope = "own" <=> c.fn \in Own)
Opened(c) ==
  /\ IsSeq(c.open)
  /\ c.todo = <<>> => c.open = <<>>
  /\ c.open # <<>> => Len(c.open) <= Len(c.todo[1].kinds)
  /\ \A i \in 1 .. Len(c.open) : Entry(c.open[i]) /\ c.open[i].kind = c.todo[1].kinds[i]
Placed(c) ==
  /\ c.at \in 0 .. Len(c.open)
  /\ c.writing => c.at # 0
  /\ c.at # 0 => c.fn \in Writers /\ Len(c.open) = Len(c.todo[1].kinds)
  /\ c.at = 0 => \A i \in 1 .. Len(c.open) : Unedited(c.open[i].table)
IsCall(c) ==
  /\ c = [fn |-> c.fn, s |-> c.s, k |-> c.k, v |-> c.v, todo |-> c.todo, open |-> c.open,
          at |-> c.at, writing |-> c.writing, asked |-> c.asked, retry |-> c.retry]
  /\ Asks(c) /\ Opened(c) /\ Placed(c)

Shapes ==
  /\ call = [p \in Procs |-> call[p]] /\ outer = [p \in Procs |-> outer[p]]
  /\ disk = [f \in Files |-> disk[f]] /\ version \in [Files -> Nat]
  /\ due = [f \in Files |-> due[f]] /\ \A f \in Files : due[f] = [c \in Cells |-> due[f][c]]
  /\ mode \in [Procs -> {"both", "user", "system"}] /\ asked \in [Procs -> {"both", "user", "system"}]
  /\ readonly \subseteq {"user"} \X {"odbc", "inst"}
FormInv ==
  /\ Shapes
  /\ \A f \in Files : disk[f] \in Seq(Line) /\ (f \in mixed \/ Unique(disk[f]))
  /\ \A p \in Procs : IsCall(call[p])

(* While a file is written it is empty, and written by that process alone  *)
(* with a table it has read whole: except where another was writing it.    *)
Writer(c, f) == c.writing /\ c.open[c.at].file = f
Alone(f) ==
  /\ f \in mixed => f \in raced
  /\ f \notin mixed => \A p \in Procs : Writer(call[p], f) =>
       /\ disk[f] = <<>> /\ ~ call[p].open[call[p].at].torn
       /\ \A q \in Procs : Writer(call[q], f) => q = p
KeysInv == FormInv /\ \A f \in Files : Alone(f)

-----------------------------------------------------------------------------
(* The mode of a call, and the files it means.                             *)

ModeOf(c, m, a) ==
  IF c.fn \in {Null} \cup Keeping \cup Callbacks THEN m = a ELSE a = "both"
Scoped == Writers \ (Own \cup {"SQLRemoveTranslator", "RemoveDefaultDataSource"})
ScopesOf(c) ==
  c.fn \in Scoped =>
    /\ c.asked \in {"both", "user", "system"}
    /\ Len(c.todo) \in {1, 2}
    /\ IF c.retry THEN Len(c.todo) = 1 /\ c.asked = "both"
       ELSE /\ c.todo[1].scope = IF c.asked = "system" THEN "system" ELSE "user"
            /\ Len(c.todo) = 2 => c.asked = "both"
FilesOf(c) ==
  \A i \in 1 .. Len(c.open) :
    LET e == c.open[i] IN
    \/ e.file[1] = c.todo[1].scope
    \/ c.todo[1].scope = "user" /\ e.file[1] = "system" /\ e.kind = "inst" /\ ~ e.users

(* A search for a setup library creates the drivers' file it does not find,*)
(* and so never fails to open one.                                         *)
Callable(c) ==
  c.fn \in Callbacks =>
    \A i \in 1 .. Len(c.todo) :
      c.todo[i].kinds = <<"inst">> /\ c.todo[i].create /\ c.todo[i].scope \in {"user", "system"}
Modal(c, o, m, a) ==
  ModeOf(c, m, a) /\ ScopesOf(c) /\ FilesOf(c) /\ Callable(c) /\ (o # NoCall => o.fn \in Callbacks)
ModeInv == \A p \in Procs : Modal(call[p], outer[p], mode[p], asked[p])

-----------------------------------------------------------------------------
(* What a file and a table read of it mean, while no update is lost.       *)

Holds(lines, m) == \A c \in Cells : Find(lines, c[1], c[2]) = ReadBack(m[c])
Means(t, m) == \A c \in Cells : ReadBack(Find(t.lines, c[1], c[2])) = ReadBack(Decided(t.log, c, m[c]))

Fresh(e, f, v) == e.file = f /\ ~ e.torn /\ e.version = v

(* What a call has read of file f, of which this is version v, is no newer,*)
(* and what it writes is older; a damaged table breaks the file.  What it  *)
(* has read of the latest version means what was asked for, and so does    *)
(* what it writes.                                                         *)
Stamped(c, f, v) ==
  /\ \A i \in 1 .. Len(c.open) : c.open[i].file = f => c.open[i].version <= v
  /\ Writer(c, f) => c.open[c.at].version < v
Spoils(c, f) == Writer(c, f) /\ c.open[c.at].table.damaged
Knows(c, f, v, m) ==
  \A i \in 1 .. Len(c.open) :
    Fresh(c.open[i], f, v) => c.open[i].table.damaged \/ Means(c.open[i].table, m)
Current(c, f, v) == \E i \in 1 .. Len(c.open) : Fresh(c.open[i], f, v)
Delivers(c, f, m) == Writer(c, f) => Means(c.open[c.at].table, m)
KeptFor(f) ==
  /\ \A p \in Procs : Stamped(call[p], f, version[f]) /\ (Spoils(call[p], f) => f \in broken)
  /\ f \notin raced \cup broken =>
       /\ \A p, q \in Procs : Writer(call[p], f) /\ Writer(call[q], f) => p = q
       /\ (\A p \in Procs : ~ Writer(call[p], f)) => Holds(disk[f], due[f])
       /\ \A p \in Procs : Knows(call[p], f, version[f], due[f]) /\ Delivers(call[p], f, due[f])
       /\ \A p, q \in Procs : Current(call[p], f, version[f]) => ~ Writer(call[q], f)
KeptInv == \A f \in Files : KeptFor(f)

-----------------------------------------------------------------------------
(* Data sources and the list of them, in a file and in a table read of it. *)

BothOrNone(lines) == Find(lines, "sources", "d") # Null <=> Find(lines, "d", "Driver") # Null

-----------------------------------------------------------------------------
(* The changes of a call.                                                  *)

LEMMA RequestIs ==
  ASSUME NEW c, <<c.fn, c.s, c.k, c.v>> \in Requests
  PROVE  /\ c.fn = "SQLWritePrivateProfileString" => c.s = "a" /\ c.k \in {"k", Null} /\ c.v \in {"v", Cut, Null} /\ (c.k = Null => c.v = Null)
         /\ c.fn = "SQLWriteFileDSN" => c.s = "a" /\ c.k = "k" /\ c.v = "v"
         /\ c.fn = "SQLWriteDSNToIni" => c.s \in {"d", "Default"} /\ c.k = Null /\ c.v \in {"r", "t"}
         /\ c.fn = "SQLRemoveDSNFromIni" => c.s \in {"d", "Default"} /\ c.k = Null /\ c.v = Null
         /\ c.fn = "SQLInstallDriver" => c.s = "r" /\ c.k \in {"Driver", "source", "bare"} /\ c.v = "d"
         /\ c.fn = "SQLInstallDriverEx" => c.s = "r" /\ c.k \in {"Driver", "source", "early", "bare"} /\ c.v = "d"
         /\ c.fn = "SQLInstallTranslatorEx" => c.s = "t" /\ c.k \in {"Translator", "bare"} /\ c.v = Null
         /\ c.fn = "SQLRemoveDriver" => c.s = "r" /\ c.k = Null /\ c.v \in {Null, "sources"}
         /\ c.fn = "SQLRemoveTranslator" => c.s = "t" /\ c.k = Null /\ c.v = Null
         /\ c.fn = "RemoveDefaultDataSource" => c.s = "Default" /\ c.k = Null /\ c.v = Null
<1>1. c.fn = "SQLWritePrivateProfileString" =>
        c.s = "a" /\ c.k \in {"k", Null} /\ c.v \in {"v", Cut, Null} /\ (c.k = Null => c.v = Null)
  BY DEF Requests, Null
<1>2. /\ c.fn = "SQLWriteFileDSN" => c.s = "a" /\ c.k = "k" /\ c.v = "v"
      /\ c.fn = "SQLWriteDSNToIni" => c.s \in {"d", "Default"} /\ c.k = Null /\ c.v \in {"r", "t"}
      /\ c.fn = "SQLRemoveDSNFromIni" => c.s \in {"d", "Default"} /\ c.k = Null /\ c.v = Null
      /\ c.fn = "SQLInstallDriver" => c.s = "r" /\ c.k \in {"Driver", "source", "bare"} /\ c.v = "d"
  BY DEF Requests
<1>3. /\ c.fn = "SQLInstallDriverEx" => c.s = "r" /\ c.k \in {"Driver", "source", "early", "bare"} /\ c.v = "d"
      /\ c.fn = "SQLInstallTranslatorEx" => c.s = "t" /\ c.k \in {"Translator", "bare"} /\ c.v = Null
      /\ c.fn = "SQLRemoveDriver" => c.s = "r" /\ c.k = Null /\ c.v \in {Null, "sources"}
  BY DEF Requests
<1>4. /\ c.fn = "SQLRemoveTranslator" => c.s = "t" /\ c.k = Null /\ c.v = Null
      /\ c.fn = "RemoveDefaultDataSource" => c.s = "Default" /\ c.k = Null /\ c.v = Null
  BY DEF Requests
<1> QED BY <1>1, <1>2, <1>3, <1>4

LEMMA WritersAre ==
  Writers = {"SQLWritePrivateProfileString", "SQLWriteFileDSN", "SQLWriteDSNToIni", "SQLRemoveDSNFromIni",
             "SQLInstallDriver", "SQLInstallDriverEx", "SQLInstallTranslatorEx", "SQLRemoveDriver",
             "SQLRemoveTranslator", "RemoveDefaultDataSource"}
<1> DEFINE W == {"SQLWritePrivateProfileString", "SQLWriteFileDSN", "SQLWriteDSNToIni", "SQLRemoveDSNFromIni",
                 "SQLInstallDriver", "SQLInstallDriverEx", "SQLInstallTranslatorEx", "SQLRemoveDriver",
                 "SQLRemoveTranslator", "RemoveDefaultDataSource"}
<1>1. ASSUME NEW r \in Requests PROVE r[1] \in W
  BY DEF Requests
<1>2. /\ <<"SQLWritePrivateProfileString", "a", "k", "v">> \in Requests
      /\ <<"SQLWriteFileDSN", "a", "k", "v">> \in Requests
      /\ <<"SQLWriteDSNToIni", "d", Null, "r">> \in Requests
      /\ <<"SQLRemoveDSNFromIni", "d", Null, Null>> \in Requests
      /\ <<"SQLInstallDriver", "r", "bare", "d">> \in Requests
  BY DEF Requests
<1>3. /\ <<"SQLInstallDriverEx", "r", "bare", "d">> \in Requests
      /\ <<"SQLInstallTranslatorEx", "t", "bare", Null>> \in Requests
      /\ <<"SQLRemoveDriver", "r", Null, Null>> \in Requests
      /\ <<"SQLRemoveTranslator", "t", Null, Null>> \in Requests
      /\ <<"RemoveDefaultDataSource", "Default", Null, Null>> \in Requests
  BY DEF Requests
<1>4. \A r : r \in Requests => r[1] \in Writers
  BY DEF Writers
<1>5. ASSUME NEW fn \in W PROVE fn \in Writers
  BY <1>2, <1>3, <1>4
<1>6. ASSUME NEW fn \in Writers PROVE fn \in W
  BY <1>1 DEF Writers
<1> QED BY <1>5, <1>6

LEMMA Lists ==
  /\ <<>> \in Seq(Change3)
  /\ \A x, y \in Seq(Change3) : x \o y \in Seq(Change3)
  /\ \A s \in Names : Dropped(s) \in Seq(Change3)
  /\ \A s \in KeyNames \cup {"Default"}, v \in Values : Listed(s, v) \in Seq(Change3)
  /\ \A s \in Names, k \in KeyNames, v \in Values : <<<<s, k, v>>>> \in Seq(Change3)
<1>1. /\ <<>> \in Seq(Change3)
      /\ \A x, y \in Seq(Change3) : x \o y \in Seq(Change3)
  BY ConcatProperties
<1>2. Null \in Values /\ Null \in KeyNames \cup {Null}
  BY DEF Values
<1>3. ASSUME NEW s \in Names, NEW k \in KeyNames, NEW v \in Values
      PROVE  <<<<s, k, v>>>> \in Seq(Change3)
  <2>1. k # Null
    BY NamesAreNot
  <2>2. <<s, k, v>> \in Change3
    BY <2>1 DEF Change3
  <2> QED BY <2>2
<1>4. ASSUME NEW s \in Names PROVE Dropped(s) \in Seq(Change3)
  <2>1. <<s, Null, Null>> \in Change3
    BY <1>2 DEF Change3
  <2> QED BY <2>1 DEF Dropped
<1>5. ASSUME NEW s \in KeyNames \cup {"Default"}, NEW v \in Values PROVE Listed(s, v) \in Seq(Change3)
  <2>1. CASE s = "Default"
    BY <1>1, <2>1 DEF Listed
  <2>2. CASE s # "Default"
    <3>1. "sources" \in Names /\ s \in KeyNames
      BY <2>2 DEF Names
    <3> QED BY <1>3, <2>2, <3>1 DEF Listed
  <2> QED BY <2>1, <2>2
<1> QED BY <1>1, <1>3, <1>4, <1>5

LEMMA SomeNames ==
  /\ {"d", "r", "t", "a", "Default", "drivers", "translators", "sources"} \subseteq Names
  /\ {"d", "Driver", "r", "Setup", "t", "Translator", "k"} \subseteq KeyNames
  /\ {"r", "t", "lib", "setup", "Installed", "v", Null, Cut, Shortened} \subseteq Values
BY DEF Names, KeyNames, Values, Plain

(* A value that is found is one of the file.                               *)
LEMMA FindValue ==
  ASSUME NEW lines \in Seq(Line), NEW s, NEW k
  PROVE  Find(lines, s, k) \in Values
<1> DEFINE at == SectionAt(lines, s)
           end == SectionEnd(lines, at)
           key == KeyAt(lines, s, k)
<1>1. Len(lines) \in Nat /\ \A j \in 1 .. Len(lines) : lines[j].value \in Values
  BY LineIs
<1>2. ASSUME key # 0 PROVE key \in 1 .. Len(lines)
  <2>1. at # 0 /\ key \in at + 1 .. end - 1
    BY <1>2, KeyAtIs
  <2>2. at \in 1 .. Len(lines)
    BY <2>1, SectionAtIs
  <2>3. end \in at + 1 .. Len(lines) + 1
    BY <2>2, SectionEndIs
  <2> HIDE DEF at, end, key
  <2> QED BY <1>1, <2>1, <2>2, <2>3
<1>3. Find(lines, s, k) = IF key = 0 THEN Null ELSE lines[key].value
  BY DEF Find
<1> HIDE DEF key
<1> QED BY <1>1, <1>2, <1>3, SomeNames

LEMMA ConfiguredIs ==
  ASSUME \A f \in Files : disk[f] \in Seq(Line), NEW v \in {"r", "t"}
  PROVE  Configured("inst", v, "Driver") \in Values
<1> DEFINE f(scope) == Path(scope, "inst", FALSE)
           at(scope) == IF Opens(f(scope), FALSE) THEN Find(disk[f(scope)], v, "Driver") ELSE Null
<1>1. ASSUME NEW scope \in {"user", "system"} PROVE at(scope) \in Values
  <2>1. f(scope) \in Files
    BY DEF Path, Files, NoFile
  <2>2. v # Null /\ "Driver" # Null
    BY DEF Null
  <2>3. Find(disk[f(scope)], v, "Driver") \in Values
    BY <2>1, <2>2, FindValue
  <2> QED BY <2>3, SomeNames
<1>2. Configured("inst", v, "Driver") = IF at("user") # Null THEN at("user") ELSE at("system")
  BY DEF Configured
<1> HIDE DEF at
<1> QED BY <1>1, <1>2

Follows(m, l, c) ==
  /\ m \in Seq(Change3)
  /\ \A cell, o : Decided(m, cell, o) = IF Speaks(c, cell) THEN c[3] ELSE Decided(l, cell, o)

LEMMA DecidedNext ==
  ASSUME NEW l \in Seq(Change3), NEW c \in Change3, NEW m, m = Append(l, c)
  PROVE  Follows(m, l, c)
<1>1. m \in Seq(Change3)
  BY AppendProperties
<1>2. ASSUME NEW cell, NEW o
      PROVE  Decided(m, cell, o) = IF Speaks(c, cell) THEN c[3] ELSE Decided(l, cell, o)
  BY DecidedMore
<1> QED BY <1>1, <1>2 DEF Follows

LEMMA DecidedOne ==
  ASSUME NEW a \in Change3
  PROVE  /\ <<a>> \in Seq(Change3)
         /\ \A cell, o : Decided(<<a>>, cell, o) = IF Speaks(a, cell) THEN a[3] ELSE o
<1> DEFINE l == <<>>
           m == <<a>>
<1>1. l \in Seq(Change3) /\ m = Append(l, a)
  OBVIOUS
<1>2. \A cell, o : Decided(l, cell, o) = o
  BY DecidedNone
<1> HIDE DEF l, m
<1>3. Follows(m, l, a)
  BY <1>1, DecidedNext
<1>4. ASSUME NEW cell, NEW o PROVE Decided(m, cell, o) = IF Speaks(a, cell) THEN a[3] ELSE o
  BY <1>2, <1>3 DEF Follows
<1> QED BY <1>3, <1>4 DEF m, Follows

LEMMA DecidedTwo ==
  ASSUME NEW a \in Change3, NEW b \in Change3
  PROVE  /\ <<a, b>> \in Seq(Change3)
         /\ \A cell, o : Decided(<<a, b>>, cell, o) =
              IF Speaks(b, cell) THEN b[3] ELSE IF Speaks(a, cell) THEN a[3] ELSE o
<1> DEFINE l == <<a>>
           m == <<a, b>>
<1>1. m = Append(l, b)
  OBVIOUS
<1>2. l \in Seq(Change3) /\ \A cell, o : Decided(l, cell, o) = IF Speaks(a, cell) THEN a[3] ELSE o
  BY DecidedOne
<1> HIDE DEF l, m
<1>3. Follows(m, l, b)
  BY <1>1, <1>2, DecidedNext
<1>4. ASSUME NEW cell, NEW o
      PROVE  Decided(m, cell, o) = IF Speaks(b, cell) THEN b[3] ELSE IF Speaks(a, cell) THEN a[3] ELSE o
  BY <1>2, <1>3 DEF Follows
<1> QED BY <1>3, <1>4 DEF m, Follows

LEMMA DecidedThree ==
  ASSUME NEW a \in Change3, NEW b \in Change3, NEW c \in Change3
  PROVE  /\ <<a, b, c>> \in Seq(Change3)
         /\ \A cell, o : Decided(<<a, b, c>>, cell, o) =
              IF Speaks(c, cell) THEN c[3] ELSE IF Speaks(b, cell) THEN b[3]
              ELSE IF Speaks(a, cell) THEN a[3] ELSE o
<1> DEFINE l == <<a, b>>
           m == <<a, b, c>>
<1>1. m = Append(l, c)
  OBVIOUS
<1>2. /\ l \in Seq(Change3)
      /\ \A cell, o : Decided(l, cell, o) = IF Speaks(b, cell) THEN b[3] ELSE IF Speaks(a, cell) THEN a[3] ELSE o
  BY DecidedTwo
<1> HIDE DEF l, m
<1>3. Follows(m, l, c)
  BY <1>1, <1>2, DecidedNext
<1>4. ASSUME NEW cell, NEW o
      PROVE  Decided(m, cell, o) =
        IF Speaks(c, cell) THEN c[3] ELSE IF Speaks(b, cell) THEN b[3] ELSE IF Speaks(a, cell) THEN a[3] ELSE o
  BY <1>2, <1>3 DEF Follows
<1> QED BY <1>3, <1>4 DEF m, Follows

(* Changes after which the data source is listed if it has a section.      *)
KeepsSources(changes) ==
  \A x, y : (x # Null <=> y # Null) =>
    (Decided(changes, <<"sources", "d">>, x) # Null <=> Decided(changes, <<"d", "Driver">>, y) # Null)

LEMMA KeepSourcesFew ==
  /\ KeepsSources(<<>>)
  /\ \A s \in {"a", "Default"}, k \in KeyNames \cup {Null}, v \in Values :
       <<s, k, v>> \in Change3 => KeepsSources(<<<<s, k, v>>>>)
  /\ \A v \in Values \ {Null} :
       KeepsSources(<<<<"Default", Null, Null>>, <<"Default", "Driver", v>>>>)
  /\ KeepsSources(<<<<"sources", "d", Null>>, <<"d", Null, Null>>>>)
  /\ \A v, w \in Values \ {Null} :
       KeepsSources(<<<<"sources", "d", v>>, <<"d", Null, Null>>, <<"d", "Driver", w>>>>)
<1>1. KeepsSources(<<>>)
  BY DecidedNone DEF KeepsSources
<1>a. /\ Null \in KeyNames \cup {Null} /\ Null \in Values /\ "d" # Null /\ "Driver" # Null
      /\ {"sources", "Default", "d", "a"} \subseteq Names /\ {"d", "Driver"} \subseteq KeyNames
  BY SomeNames DEF Null
<1>2. ASSUME NEW s \in {"a", "Default"}, NEW k \in KeyNames \cup {Null}, NEW v \in Values,
             <<s, k, v>> \in Change3
      PROVE  KeepsSources(<<<<s, k, v>>>>)
  <2>1. ~ Speaks(<<s, k, v>>, <<"sources", "d">>) /\ ~ Speaks(<<s, k, v>>, <<"d", "Driver">>)
    BY DEF Speaks
  <2> DEFINE a == <<s, k, v>>
  <2>2. \A cell, o : Decided(<<a>>, cell, o) = IF Speaks(a, cell) THEN a[3] ELSE o
    BY <1>2, DecidedOne
  <2> QED BY <2>1, <2>2 DEF KeepsSources
<1>3. ASSUME NEW v \in Values \ {Null}
      PROVE  KeepsSources(<<<<"Default", Null, Null>>, <<"Default", "Driver", v>>>>)
  <2> DEFINE a == <<"Default", Null, Null>>
             b == <<"Default", "Driver", v>>
  <2>1. a \in Change3 /\ b \in Change3
    BY <1>a DEF Change3
  <2>2. /\ ~ Speaks(a, <<"sources", "d">>) /\ ~ Speaks(a, <<"d", "Driver">>)
        /\ ~ Speaks(b, <<"sources", "d">>) /\ ~ Speaks(b, <<"d", "Driver">>)
    BY DEF Speaks
  <2> HIDE DEF a, b
  <2>3. \A cell, o : Decided(<<a, b>>, cell, o) = IF Speaks(b, cell) THEN b[3] ELSE IF Speaks(a, cell) THEN a[3] ELSE o
    BY <2>1, DecidedTwo
  <2>4. KeepsSources(<<a, b>>)
    BY <2>2, <2>3 DEF KeepsSources
  <2> QED BY <2>4 DEF a, b
<1>4. KeepsSources(<<<<"sources", "d", Null>>, <<"d", Null, Null>>>>)
  <2> DEFINE a == <<"sources", "d", Null>>
             b == <<"d", Null, Null>>
  <2>1. a \in Change3 /\ b \in Change3
    BY <1>a DEF Change3
  <2>2. /\ Speaks(a, <<"sources", "d">>) /\ a[3] = Null /\ b[3] = Null
        /\ ~ Speaks(b, <<"sources", "d">>) /\ Speaks(b, <<"d", "Driver">>)
    BY DEF Speaks
  <2> HIDE DEF a, b
  <2>3. \A cell, o : Decided(<<a, b>>, cell, o) = IF Speaks(b, cell) THEN b[3] ELSE IF Speaks(a, cell) THEN a[3] ELSE o
    BY <2>1, DecidedTwo
  <2>4. KeepsSources(<<a, b>>)
    BY <2>2, <2>3 DEF KeepsSources
  <2> QED BY <2>4 DEF a, b
<1>5. ASSUME NEW v \in Values \ {Null}, NEW w \in Values \ {Null}
      PROVE  KeepsSources(<<<<"sources", "d", v>>, <<"d", Null, Null>>, <<"d", "Driver", w>>>>)
  <2> DEFINE a == <<"sources", "d", v>>
             b == <<"d", Null, Null>>
             c == <<"d", "Driver", w>>
  <2>1. a \in Change3 /\ b \in Change3 /\ c \in Change3
    BY <1>a DEF Change3
  <2>2. /\ Speaks(a, <<"sources", "d">>) /\ ~ Speaks(b, <<"sources", "d">>) /\ ~ Speaks(c, <<"sources", "d">>)
        /\ Speaks(c, <<"d", "Driver">>) /\ a[3] # Null /\ c[3] # Null
    BY DEF Speaks
  <2> HIDE DEF a, b, c
  <2>3. \A cell, o : Decided(<<a, b, c>>, cell, o) =
          IF Speaks(c, cell) THEN c[3] ELSE IF Speaks(b, cell) THEN b[3] ELSE IF Speaks(a, cell) THEN a[3] ELSE o
    BY <2>1, DecidedThree
  <2>4. KeepsSources(<<a, b, c>>)
    BY <2>2, <2>3 DEF KeepsSources
  <2> QED BY <2>4 DEF a, b, c
<1> QED BY <1>1, <1>2, <1>3, <1>4, <1>5

LEMMA ListTails ==
  /\ \A x, y : <<x>> \o <<y>> = <<x, y>>
  /\ \A x, y, z : <<x, y>> \o <<z>> = <<x, y, z>>
  /\ \A x, y : <<x, y>> \o <<>> = <<x, y>>
  /\ \A x : <<>> \o <<x>> = <<x>>
<1>1. ASSUME NEW x, NEW y PROVE <<x>> \o <<y>> = <<x, y>>
  <2> DEFINE S == {x, y}
  <2>a. <<x>> \in Seq(S) /\ x \in S /\ y \in S
    OBVIOUS
  <2> HIDE DEF S
  <2>1. <<x, y>> = Append(<<x>>, y)
    BY <2>a
  <2>2. Append(<<x>>, y) = <<x>> \o <<y>>
    BY <2>a, AppendIsConcat
  <2> QED BY <2>1, <2>2
<1>2. ASSUME NEW x, NEW y, NEW z PROVE <<x, y>> \o <<z>> = <<x, y, z>>
  <2> DEFINE S == {x, y, z}
  <2>a. <<x, y>> \in Seq(S) /\ x \in S /\ y \in S /\ z \in S
    OBVIOUS
  <2> HIDE DEF S
  <2>1. <<x, y, z>> = Append(<<x, y>>, z)
    BY <2>a
  <2>2. Append(<<x, y>>, z) = <<x, y>> \o <<z>>
    BY <2>a, AppendIsConcat
  <2> QED BY <2>1, <2>2
<1>3. ASSUME NEW x, NEW y PROVE <<x, y>> \o <<>> = <<x, y>>
  <2>1. <<x, y>> \in Seq({x, y})
    OBVIOUS
  <2> QED BY <2>1, ConcatEmptySeq
<1>4. ASSUME NEW x PROVE <<>> \o <<x>> = <<x>>
  <2>1. <<x>> \in Seq({x})
    OBVIOUS
  <2> QED BY <2>1, ConcatEmptySeq
<1> QED BY <1>1, <1>2, <1>3, <1>4

(* The changes do not depend on anything but the request, and whether the  *)
(* drivers' file has a section of the data source.                         *)
IsChanges(x) == x.odbc \in Seq(Change3) /\ x.inst \in Seq(Change3) /\ x.dsn \in Seq(Change3)

LEMMA NoneIs ==
  /\ IsChanges(None) /\ None.odbc = <<>> /\ None.inst = <<>> /\ None.dsn = <<>>
  /\ IsChanges(Refused) /\ Refused.odbc = <<>> /\ Refused.inst = <<>> /\ Refused.dsn = <<>>
BY Lists DEF None, Refused, IsChanges

LEMMA PrivateIs ==
  ASSUME NEW c, c.s = "a", c.k \in {"k", Null}, c.v \in {"v", Cut, Null}, c.k = Null => c.v = Null
  PROVE  WritePrivateProfileString(c) \in Seq(Change3) /\ KeepsSources(WritePrivateProfileString(c))
<1> DEFINE l == <<<<c.s, c.k, c.v>>>>
<1>1. c.k \in KeyNames \cup {Null} /\ c.v \in Values /\ "a" \in Names
  BY SomeNames
<1>2. <<c.s, c.k, c.v>> \in Change3
  BY <1>1 DEF Change3
<1>3. l \in Seq(Change3)
  BY <1>2
<1>4. KeepsSources(l)
  BY <1>1, <1>2, KeepSourcesFew
<1> QED BY <1>3, <1>4 DEF WritePrivateProfileString

(* The sequence of a set of keys has each of them.                         *)
LEMMA KeyNamesFinite == IsFiniteSet(KeyNames)
<1> DEFINE A == {"d"}
           B == A \cup {"Driver"}
           C == B \cup {"r"}
           D == C \cup {"Setup"}
           E == D \cup {"t"}
           F == E \cup {"Translator"}
           G == F \cup {"k"}
<1>1. A = {} \cup {"d"} /\ KeyNames = G
  BY DEF KeyNames
<1> HIDE DEF A, B, C, D, E, F, G
<1>2. IsFiniteSet(A)
  BY <1>1, FS_EmptySet, FS_AddElement
<1>3. IsFiniteSet(B)
  BY <1>2, FS_AddElement DEF B
<1>4. IsFiniteSet(C)
  BY <1>3, FS_AddElement DEF C
<1>5. IsFiniteSet(D)
  BY <1>4, FS_AddElement DEF D
<1>6. IsFiniteSet(E)
  BY <1>5, FS_AddElement DEF E
<1>7. IsFiniteSet(F)
  BY <1>6, FS_AddElement DEF F
<1>8. IsFiniteSet(G)
  BY <1>7, FS_AddElement DEF G
<1> QED BY <1>1, <1>8

LEMMA SetToSeqIs ==
  ASSUME NEW S, S \subseteq KeyNames
  PROVE  /\ Cardinality(S) \in Nat /\ SetToSeq(S) \in [1 .. Cardinality(S) -> S]
         /\ \A x \in S : \E i \in 1 .. Cardinality(S) : SetToSeq(S)[i] = x
<1> DEFINE n == Cardinality(S)
           f == SetToSeq(S)
<1>1. IsFiniteSet(S) /\ n \in Nat /\ Bijection(1 .. n, S) # {}
  BY KeyNamesFinite, FS_Subset, FS_CardinalityType DEF ExistsBijection
<1>2. IsFiniteSet(1 .. n) /\ Cardinality(1 .. n) = n
  BY <1>1, FS_Interval
<1> HIDE DEF n
<1>3. \E g \in [1 .. n -> S] : IsInjective(g)
  BY <1>1 DEF Bijection, Injection
<1>4. f \in [1 .. n -> S] /\ IsInjective(f)
  BY <1>3 DEF SetToSeq, n
<1> HIDE DEF f
<1>5. f \in Injection(1 .. n, S)
  BY <1>4 DEF Injection
<1>6. f \in Surjection(1 .. n, S)
  BY <1>1, <1>2, <1>5, FS_Injection DEF n
<1> QED BY <1>1, <1>4, <1>6 DEF Surjection, n, f

LEMMA KeysAre ==
  ASSUME NEW lines \in Seq(Line), NEW s
  PROVE  Keys(lines, s) \subseteq KeyNames
<1> SUFFICES ASSUME NEW k \in Keys(lines, s) PROVE k \in KeyNames
  OBVIOUS
<1>1. PICK j \in DOMAIN lines : k = lines[j].id /\ k # Null
  BY DEF Keys
<1>2. lines[j].id \in KeyNames \cup {Null}
  BY LineIs
<1> QED BY <1>1, <1>2

LEMMA SourcesRemoved ==
  ASSUME NEW S, S \subseteq KeyNames, NEW f \in [1 .. Cardinality(S) -> S],
         \A x \in S : \E i \in 1 .. Cardinality(S) : f[i] = x, Cardinality(S) \in Nat,
         NEW l, l = [i \in 1 .. 2 * Cardinality(S) |->
                       IF i % 2 = 1 THEN <<f[(i + 1) \div 2], Null, Null>>
                       ELSE <<"sources", f[(i + 1) \div 2], Null>>]
  PROVE  l \in Seq(Change3) /\ KeepsSources(l)
<1> DEFINE n == Cardinality(S)
           src(i) == f[(i + 1) \div 2]
<1>0. n \in Nat /\ 2 * n \in Nat
  OBVIOUS
<1>1. ASSUME NEW i \in 1 .. 2 * n PROVE (i + 1) \div 2 \in 1 .. n
  BY <1>0
<1>2. ASSUME NEW i \in 1 .. 2 * n PROVE src(i) \in S /\ src(i) \in KeyNames
  BY <1>1
<1>3. /\ DOMAIN l = 1 .. 2 * n
      /\ \A i \in 1 .. 2 * n :
           l[i] = IF i % 2 = 1 THEN <<src(i), Null, Null>> ELSE <<"sources", src(i), Null>>
  OBVIOUS
<1> HIDE DEF src
<1>4. ASSUME NEW i \in 1 .. 2 * n
      PROVE  /\ l[i] \in Change3 /\ l[i][3] = Null
             /\ Speaks(l[i], <<"sources", "d">>) <=> (i % 2 # 1 /\ src(i) = "d")
             /\ Speaks(l[i], <<"d", "Driver">>) <=> (i % 2 = 1 /\ src(i) = "d")
  <2>1. /\ src(i) \in Names /\ src(i) # "sources" /\ src(i) # Null /\ src(i) \in KeyNames
        /\ "sources" \in Names /\ Null \in Values /\ "d" # Null
    BY <1>2, NamesAreNot, SomeNames DEF Null
  <2>2. CASE i % 2 = 1
    <3>1. l[i] = <<src(i), Null, Null>>
      BY <1>3, <2>2
    <3>2. l[i] \in Change3
      BY <2>1, <3>1 DEF Change3
    <3> QED BY <2>1, <2>2, <3>1, <3>2 DEF Speaks
  <2>3. CASE i % 2 # 1
    <3>1. l[i] = <<"sources", src(i), Null>>
      BY <1>3, <2>3
    <3>2. l[i] \in Change3
      BY <2>1, <3>1 DEF Change3
    <3> QED BY <2>1, <2>3, <3>1, <3>2 DEF Speaks
  <2> QED BY <2>2, <2>3
<1>5. l \in Seq(Change3)
  <2> DEFINE m == 2 * n
  <2>1. DOMAIN l = 1 .. m /\ m \in Nat /\ \A i \in 1 .. m : l[i] \in Change3
    BY <1>0, <1>3, <1>4
  <2> HIDE DEF m
  <2>2. l = [i \in 1 .. m |-> l[i]]
    BY <2>1
  <2>3. l \in [1 .. m -> Change3]
    BY <2>1, <2>2
  <2>4. l \in UNION {[1 .. k -> Change3] : k \in Nat}
    BY <2>1, <2>3
  <2> QED BY <2>4, SeqDef
<1>6. CASE "d" \in S
  <2>1. PICK j \in 1 .. n : f[j] = "d"
    BY <1>6
  <2>2. /\ 2 * j \in 1 .. 2 * n /\ (2 * j + 1) \div 2 = j /\ (2 * j) % 2 # 1
        /\ 2 * j - 1 \in 1 .. 2 * n /\ ((2 * j - 1) + 1) \div 2 = j /\ (2 * j - 1) % 2 = 1
    BY <1>0
  <2>3. src(2 * j) = "d" /\ src(2 * j - 1) = "d"
    BY <2>1, <2>2 DEF src
  <2>4. /\ 2 * j \in DOMAIN l /\ Speaks(l[2 * j], <<"sources", "d">>)
        /\ 2 * j - 1 \in DOMAIN l /\ Speaks(l[2 * j - 1], <<"d", "Driver">>)
    BY <1>3, <1>4, <2>2, <2>3
  <2>5. \A i \in DOMAIN l : l[i][3] = Null
    BY <1>3, <1>4
  <2> DEFINE even == 2 * j
             uneven == 2 * j - 1
  <2>a. /\ even \in DOMAIN l /\ Speaks(l[even], <<"sources", "d">>)
        /\ uneven \in DOMAIN l /\ Speaks(l[uneven], <<"d", "Driver">>)
    BY <2>4
  <2> HIDE DEF even, uneven
  <2>6. ASSUME NEW x PROVE Decided(l, <<"sources", "d">>, x) = Null
    BY <1>5, <2>a, <2>5, DecidedSame
  <2>7. ASSUME NEW x PROVE Decided(l, <<"d", "Driver">>, x) = Null
    BY <1>5, <2>a, <2>5, DecidedSame
  <2> QED BY <1>5, <2>6, <2>7 DEF KeepsSources
<1>7. CASE "d" \notin S
  <2>1. ASSUME NEW i \in DOMAIN l
        PROVE  ~ Speaks(l[i], <<"sources", "d">>) /\ ~ Speaks(l[i], <<"d", "Driver">>)
    <3>1. i \in 1 .. 2 * n
      BY <1>3
    <3>2. src(i) # "d"
      BY <1>2, <1>7, <3>1
    <3> QED BY <1>4, <3>1, <3>2
  <2>2. ASSUME NEW x PROVE Decided(l, <<"sources", "d">>, x) = x /\ Decided(l, <<"d", "Driver">>, x) = x
    <3> PICK a, b : a = <<"sources", "d">> /\ b = <<"d", "Driver">>
      OBVIOUS
    <3>1. Decided(l, a, x) = x
      BY <2>1, DecidedNone
    <3>2. Decided(l, b, x) = x
      BY <2>1, DecidedNone
    <3> QED BY <3>1, <3>2
  <2> QED BY <1>5, <2>2 DEF KeepsSources
<1> QED BY <1>6, <1>7

LEMMA RemovedDriverIs ==
  ASSUME NEW c, c.s = "r", NEW t, t.lines \in Seq(Line)
  PROVE  IsChanges(RemovedDriver(c, t)) /\ KeepsSources(RemovedDriver(c, t).odbc)
<1> DEFINE S == {d \in Keys(t.lines, "sources") : Find(t.lines, "sources", d) = c.s}
           f == SetToSeq(S)
           l == [i \in 1 .. 2 * Cardinality(S) |->
                   IF i % 2 = 1 THEN <<f[(i + 1) \div 2], Null, Null>>
                   ELSE <<"sources", f[(i + 1) \div 2], Null>>]
           odbc == IF c.v = Null THEN <<>> ELSE l
           inst == Dropped(c.s) \o <<<<"drivers", c.s, Null>>>>
<1>1. RemovedDriver(c, t) = [None EXCEPT !.odbc = odbc, !.inst = inst]
  BY DEF RemovedDriver
<1>2. S \subseteq KeyNames
  BY KeysAre
<1>3. inst \in Seq(Change3)
  BY Lists, SomeNames
<1> HIDE DEF S, inst
<1>4. l \in Seq(Change3) /\ KeepsSources(l)
  <2>1. /\ Cardinality(S) \in Nat /\ f \in [1 .. Cardinality(S) -> S]
        /\ \A x \in S : \E i \in 1 .. Cardinality(S) : f[i] = x
    BY <1>2, SetToSeqIs
  <2> HIDE DEF f
  <2> QED BY <1>2, <2>1, SourcesRemoved
<1> HIDE DEF l
<1>5. odbc \in Seq(Change3) /\ KeepsSources(odbc)
  BY <1>4, Lists, KeepSourcesFew
<1> HIDE DEF odbc
<1> QED BY <1>1, <1>3, <1>5, Lists DEF None, IsChanges

(* Changes that list a data source and give it no section.                 *)
Bare(changes) ==
  \E change \in Range(changes) :
    change[1] = "sources" /\ change[3] # Null /\
    ~ \E other \in Range(changes) : other[1] = change[2] /\ other[2] = "Driver"

LEMMA CreateIs ==
  ASSUME NEW t, NEW driver \in {"lib", Null}, NEW l, l = do_create_dsns(t, "d", driver, "r")
  PROVE  l \in Seq(Change3) /\ (KeepsSources(l) \/ Bare(l))
<1> DEFINE a == <<"sources", "d", "r">>
           b == <<"d", Null, Null>>
           c == <<"d", "Driver", "lib">>
<1>1. Listed("d", "r") \o Dropped("d") = <<a, b>>
  <2>1. Listed("d", "r") = <<a>> /\ Dropped("d") = <<b>>
    BY DEF Listed, Dropped
  <2> HIDE DEF a, b
  <2> QED BY <2>1, ListTails
<1>2. a \in Change3 /\ b \in Change3
  BY SomeNames DEF Change3, Null
<1>3. /\ "r" \in Values \ {Null} /\ "lib" \in Values \ {Null} /\ "lib" # Null
  BY SomeNames DEF Null
<1>4. CASE SectionAt(t.lines, "d") = 0 /\ driver # Null
  <2>1. l = <<a, b>> \o <<c>>
    BY <1>1, <1>4 DEF do_create_dsns
  <2>2. l = <<a, b, c>>
    BY <2>1, ListTails
  <2>3. c \in Change3
    BY SomeNames, <1>3 DEF Change3, Null
  <2>5. KeepsSources(l)
    BY <1>3, <2>2, KeepSourcesFew
  <2> HIDE DEF a, b, c
  <2>4. l \in Seq(Change3)
    BY <1>2, <2>2, <2>3, DecidedThree
  <2> QED BY <2>4, <2>5
<1>5. CASE ~ (SectionAt(t.lines, "d") = 0 /\ driver # Null)
  <2>1. l = <<a, b>> \o <<>>
    BY <1>1, <1>5 DEF do_create_dsns
  <2>2. l = <<a, b>>
    BY <2>1, ListTails
  <2>3. l \in Seq(Change3)
    <3> HIDE DEF a, b
    <3> QED BY <1>2, <2>2, DecidedTwo
  <2>4. Range(l) = {a, b}
    <3>1. DOMAIN l = {1, 2} /\ l[1] = a /\ l[2] = b
      BY <2>2
    <3> HIDE DEF a, b
    <3> QED BY <3>1 DEF Range
  <2>5. a \in Range(l) /\ a[1] = "sources" /\ a[2] = "d" /\ a[3] # Null
    BY <2>4 DEF Null
  <2>6. \A other \in Range(l) : ~ (other[1] = a[2] /\ other[2] = "Driver")
    BY <2>4 DEF Null
  <2>7. Bare(l)
    BY <2>5, <2>6 DEF Bare
  <2> QED BY <2>3, <2>7
<1> QED BY <1>4, <1>5

(* The lines an installation writes for its keys. *)
LEMMA AttributeLines ==
  ASSUME NEW s \in {"r", "t"}, NEW k \in {"Driver", "Translator", "bare", "source", "early"}
  PROVE  [i \in DOMAIN Attributes[k] |-> <<s, Attributes[k][i], "lib">>] \in Seq(Change3)
<1> DEFINE keys == Attributes[k]
           lines == [i \in DOMAIN keys |-> <<s, keys[i], "lib">>]
<1>1. keys \in Seq(KeyNames)
  <2>1. Attributes[k] \in {<<"Driver">>, <<"Translator">>, <<"Setup">>, <<"Driver", "Setup">>}
    BY DEF Attributes
  <2>2. "Driver" \in KeyNames /\ "Translator" \in KeyNames /\ "Setup" \in KeyNames
    BY SomeNames
  <2>3. /\ <<"Driver">> \in Seq(KeyNames) /\ <<"Translator">> \in Seq(KeyNames)
        /\ <<"Setup">> \in Seq(KeyNames) /\ <<"Driver", "Setup">> \in Seq(KeyNames)
    BY <2>2
  <2> QED BY <2>1, <2>3
<1>2. Len(keys) \in Nat /\ DOMAIN keys = 1 .. Len(keys) /\ \A i \in 1 .. Len(keys) : keys[i] \in KeyNames
  BY <1>1
<1>3. \A i \in 1 .. Len(keys) : <<s, keys[i], "lib">> \in Change3
  BY <1>2, SomeNames, NamesAreNot DEF Change3
<1>4. lines \in [1 .. Len(keys) -> Change3]
  BY <1>2, <1>3
<1> HIDE DEF keys, lines
<1>5. lines \in Seq(Change3)
  BY <1>2, <1>4
<1> QED BY <1>5 DEF lines, keys

LEMMA StringIs ==
  ASSUME NEW c, NEW t, NEW list \in {"drivers", "translators"}, NEW library,
         c.s \in {"r", "t"}, c.k \in {"Driver", "Translator", "bare", "source", "early"},
         c.k \in {"source", "early"} => c.s = "r" /\ c.v = "d",
         NEW x, x = install_from_string(c, t, list, library)
  PROVE  IsChanges(x) /\ (KeepsSources(x.odbc) \/ Bare(x.odbc))
<1> DEFINE keys == Attributes[c.k]
           driver == IF \E j \in 1 .. CreateDSN[c.k] : keys[j] = "Driver" THEN "lib" ELSE Null
           lines == [i \in DOMAIN keys |-> <<c.s, keys[i], "lib">>]
           inst == Dropped(c.s) \o <<<<list, c.s, "Installed">>>> \o lines
           odbc == IF c.k \in DOMAIN CreateDSN THEN do_create_dsns(t, c.v, driver, c.s) ELSE <<>>
<1>1. x = IF ~ Contains(keys, library) THEN Refused ELSE [None EXCEPT !.inst = inst, !.odbc = odbc]
  BY DEF install_from_string
<1>3. lines \in Seq(Change3)
  BY AttributeLines
<1>4. inst \in Seq(Change3)
  <2>1. Dropped(c.s) \in Seq(Change3) /\ <<<<list, c.s, "Installed">>>> \in Seq(Change3)
    BY Lists, SomeNames
  <2> HIDE DEF lines
  <2> QED BY <1>3, <2>1, Lists
<1>5. odbc \in Seq(Change3) /\ (KeepsSources(odbc) \/ Bare(odbc))
  <2>1. c.k \in DOMAIN CreateDSN => c.s = "r" /\ c.v = "d"
    BY DEF CreateDSN
  <2>2. driver \in {"lib", Null}
    OBVIOUS
  <2> HIDE DEF driver
  <2>3. CASE c.k \in DOMAIN CreateDSN
    <3>1. odbc = do_create_dsns(t, "d", driver, "r")
      BY <2>1, <2>3
    <3> HIDE DEF odbc
    <3> QED BY <2>2, <3>1, CreateIs
  <2>4. CASE c.k \notin DOMAIN CreateDSN
    BY <2>4, Lists, KeepSourcesFew
  <2> QED BY <2>3, <2>4
<1> HIDE DEF inst, odbc, keys
<1>6. CASE ~ Contains(keys, library)
  BY <1>1, <1>6, NoneIs, KeepSourcesFew
<1>7. CASE Contains(keys, library)
  <2>1. x = [None EXCEPT !.inst = inst, !.odbc = odbc]
    BY <1>1, <1>7
  <2> QED BY <1>4, <1>5, <2>1, Lists DEF None, IsChanges
<1> QED BY <1>6, <1>7

LEMMA IniIs ==
  ASSUME NEW c, NEW t, c.s = "r", c.v = "d", NEW x, x = install_from_ini(c, t)
  PROVE  IsChanges(x) /\ (KeepsSources(x.odbc) \/ Bare(x.odbc))
<1> DEFINE a == <<"drivers", c.s, "Installed">>
           b == <<c.s, "Driver", "lib">>
           d == <<c.s, "Setup", "lib">>
           inst == Dropped(c.s) \o <<a, b, d>>
           odbc == IF c.k = "source" THEN do_create_dsns(t, c.v, "lib", c.s) ELSE <<>>
<1>1. x = IF c.k = "bare" THEN Refused ELSE [None EXCEPT !.inst = inst, !.odbc = odbc]
  BY DEF install_from_ini
<1>2. inst \in Seq(Change3)
  <2>1. a \in Change3 /\ b \in Change3 /\ d \in Change3
    BY SomeNames, NamesAreNot DEF Change3
  <2>2. Dropped(c.s) \in Seq(Change3)
    BY Lists, SomeNames
  <2> HIDE DEF a, b, d
  <2>3. <<a, b, d>> \in Seq(Change3)
    BY <2>1
  <2> QED BY <2>2, <2>3, Lists
<1>3. odbc \in Seq(Change3) /\ (KeepsSources(odbc) \/ Bare(odbc))
  <2>1. CASE c.k = "source"
    <3>1. odbc = do_create_dsns(t, "d", "lib", "r")
      BY <2>1
    <3> HIDE DEF odbc
    <3> QED BY <3>1, CreateIs
  <2>2. CASE c.k # "source"
    BY <2>2, Lists, KeepSourcesFew
  <2> QED BY <2>1, <2>2
<1> HIDE DEF inst, odbc
<1>4. CASE c.k = "bare"
  BY <1>1, <1>4, NoneIs, KeepSourcesFew
<1>5. CASE c.k # "bare"
  <2>1. x = [None EXCEPT !.inst = inst, !.odbc = odbc]
    BY <1>1, <1>5
  <2> QED BY <1>2, <1>3, <2>1, Lists DEF None, IsChanges
<1> QED BY <1>4, <1>5

LEMMA RemoveSourceIs ==
  ASSUME NEW c, c.s \in {"d", "Default"}
  PROVE  IsChanges(RemoveDSNFromIni(c)) /\ KeepsSources(RemoveDSNFromIni(c).odbc)
         /\ RemoveDSNFromIni(c).inst = <<>>
<1> DEFINE odbc == Listed(c.s, Null) \o Dropped(c.s)
<1>1. RemoveDSNFromIni(c) = [None EXCEPT !.odbc = odbc]
  BY DEF RemoveDSNFromIni
<1>2. c.s \in KeyNames \cup {"Default"} /\ c.s \in Names
  BY SomeNames
<1>3. odbc \in Seq(Change3)
  BY <1>2, Lists, SomeNames
<1>4. KeepsSources(odbc)
  <2>1. CASE c.s = "d"
    <3>1. Listed(c.s, Null) = <<<<"sources", "d", Null>>>> /\ Dropped(c.s) = <<<<"d", Null, Null>>>>
      BY <2>1 DEF Listed, Dropped
    <3>2. odbc = <<<<"sources", "d", Null>>, <<"d", Null, Null>>>>
      BY <3>1, ListTails
    <3> QED BY <3>2, KeepSourcesFew
  <2>2. CASE c.s = "Default"
    <3>1. Listed(c.s, Null) = <<>> /\ Dropped(c.s) = <<<<"Default", Null, Null>>>>
      BY <2>2 DEF Listed, Dropped
    <3>2. odbc = <<<<"Default", Null, Null>>>>
      BY <3>1, ListTails
    <3>3. <<"Default", Null, Null>> \in Change3 /\ Null \in KeyNames \cup {Null} /\ Null \in Values
      BY SomeNames DEF Change3
    <3> QED BY <3>2, <3>3, KeepSourcesFew
  <2> QED BY <2>1, <2>2
<1> HIDE DEF odbc
<1> QED BY <1>1, <1>3, <1>4, Lists DEF None, IsChanges

LEMMA WriteSourceIs ==
  ASSUME NEW c, c.s \in {"d", "Default"}, c.v \in {"r", "t"}, \A f \in Files : disk[f] \in Seq(Line)
  PROVE  IsChanges(WriteDSNToIni(c)) /\ KeepsSources(WriteDSNToIni(c).odbc)
<1> DEFINE library == Configured("inst", c.v, "Driver")
           a == <<"sources", "d", c.v>>
           b == <<c.s, Null, Null>>
           d == <<c.s, "Driver", library>>
           odbc == Listed(c.s, c.v) \o Dropped(c.s) \o <<d>>
<1>1. WriteDSNToIni(c) = IF library = Null THEN Refused ELSE [None EXCEPT !.odbc = odbc]
  BY DEF WriteDSNToIni
<1>2. library \in Values
  BY ConfiguredIs
<1> HIDE DEF library
<1>3. CASE library = Null
  BY <1>1, <1>3, NoneIs, KeepSourcesFew
<1>4. CASE library # Null
  <2>1. c.s \in KeyNames \cup {"Default"} /\ c.s \in Names /\ c.v \in Values /\ c.v # Null /\ "Driver" \in KeyNames
    BY SomeNames DEF Null
  <2>2. <<d>> \in Seq(Change3) /\ Listed(c.s, c.v) \in Seq(Change3) /\ Dropped(c.s) \in Seq(Change3)
    BY <1>2, <2>1, Lists
  <2>3. odbc \in Seq(Change3)
    <3> HIDE DEF d
    <3> QED BY <2>2, Lists
  <2>4. ASSUME c.s = "d" PROVE KeepsSources(odbc)
    <3>1. Listed(c.s, c.v) = <<a>> /\ Dropped(c.s) = <<b>>
      BY <2>4 DEF Listed, Dropped
    <3>2. odbc = <<a, b, d>>
      <4>1. odbc = (<<a>> \o <<b>>) \o <<d>>
        BY <3>1
      <4> HIDE DEF a, b, d, odbc
      <4>2. <<a>> \o <<b>> = <<a, b>> /\ <<a, b>> \o <<d>> = <<a, b, d>>
        BY ListTails
      <4> QED BY <4>1, <4>2
    <3>3. c.v \in Values \ {Null} /\ library \in Values \ {Null}
      BY <1>2, <1>4, <2>1
    <3>4. KeepsSources(<<a, b, d>>)
      BY <2>4, <3>3, KeepSourcesFew
    <3> QED BY <3>2, <3>4
  <2>5. ASSUME c.s = "Default" PROVE KeepsSources(odbc)
    <3>1. Listed(c.s, c.v) = <<>> /\ Dropped(c.s) = <<b>>
      BY <2>5 DEF Listed, Dropped
    <3>2. odbc = <<b, d>>
      <4>1. odbc = (<<>> \o <<b>>) \o <<d>>
        BY <3>1
      <4> HIDE DEF b, d, odbc
      <4> QED BY <4>1, ListTails
    <3>3. library \in Values \ {Null}
      BY <1>2, <1>4
    <3>4. KeepsSources(<<b, d>>)
      BY <2>5, <3>3, KeepSourcesFew
    <3> QED BY <3>2, <3>4
  <2>6. KeepsSources(odbc)
    BY <2>4, <2>5
  <2>7. WriteDSNToIni(c) = [None EXCEPT !.odbc = odbc]
    BY <1>1, <1>4
  <2> HIDE DEF odbc
  <2> QED BY <2>3, <2>6, <2>7, Lists DEF None, IsChanges
<1> QED BY <1>3, <1>4

(* What the installation of a driver or of a translator does to the data   *)
(* sources: nothing of it depends on the files.                            *)
Listing(c, open) ==
  IF c.fn = "SQLInstallDriver" THEN install_from_ini(c, open[1].table).odbc
  ELSE IF c.fn = "SQLInstallDriverEx" THEN install_from_string(c, open[1].table, "drivers", "Driver").odbc
  ELSE install_from_string(c, open[1].table, "translators", "Translator").odbc
Unlisted(c, open) == c.fn \in Installs /\ Bare(Listing(c, open))

LEMMA UnlistedIs ==
  ASSUME NEW c, c.fn \in Installs, NEW open
  PROVE  /\ Changes(c, open).odbc = Listing(c, open)
         /\ Unsectioned(c, open) <=> Unlisted(c, open)
<1>1. CASE c.fn = "SQLInstallDriver"
  <2>1. Changes(c, open) = install_from_ini(c, open[1].table)
    BY <1>1 DEF Changes
  <2> QED BY <1>1, <2>1 DEF Listing, Unlisted, Unsectioned, Bare
<1>2. CASE c.fn = "SQLInstallDriverEx"
  <2>1. Changes(c, open) = install_from_string(c, open[1].table, "drivers", "Driver")
    BY <1>2 DEF Changes
  <2> QED BY <1>2, <2>1 DEF Listing, Unlisted, Unsectioned, Bare
<1>3. CASE c.fn = "SQLInstallTranslatorEx"
  <2>1. Changes(c, open) = install_from_string(c, open[1].table, "translators", "Translator")
    BY <1>3 DEF Changes
  <2> QED BY <1>3, <2>1 DEF Listing, Unlisted, Unsectioned, Bare
<1> QED BY <1>1, <1>2, <1>3 DEF Installs

LEMMA WriterAsks ==
  ASSUME NEW c, Asks(c), c.fn \in Writers
  PROVE  <<c.fn, c.s, c.k, c.v>> \in Requests
<1>1. c.fn # Null /\ c.fn \notin Readers
  BY WritersAre DEF Readers, Callbacks, Null
<1> QED BY <1>1 DEF Asks

LEMMA ChangesAre ==
  ASSUME NEW c, Asks(c), c.fn \in Writers, NEW open,
         c.fn = "SQLRemoveDriver" => open[1].table.lines \in Seq(Line),
         \A f \in Files : disk[f] \in Seq(Line)
  PROVE  /\ IsChanges(Changes(c, open))
         /\ KeepsSources(Changes(c, open).odbc) \/ Unlisted(c, open)
<1> DEFINE Fine(x) == IsChanges(x) /\ KeepsSources(x.odbc)
<1>0. <<c.fn, c.s, c.k, c.v>> \in Requests
  BY WriterAsks
<1>a. "r" \in Names /\ "t" \in Names /\ "Default" \in Names
  BY SomeNames
<1>1. CASE c.fn = "SQLWritePrivateProfileString"
  <2>1. WritePrivateProfileString(c) \in Seq(Change3) /\ KeepsSources(WritePrivateProfileString(c))
    BY <1>0, <1>1, RequestIs, PrivateIs
  <2>2. Changes(c, open) = [None EXCEPT !.odbc = WritePrivateProfileString(c)]
    BY <1>1 DEF Changes
  <2> QED BY <2>1, <2>2, Lists DEF None, IsChanges
<1>2. CASE c.fn = "SQLWriteFileDSN"
  <2>1. c.s = "a" /\ c.k = "k" /\ c.v = "v"
    BY <1>0, <1>2, RequestIs
  <2>2. WritePrivateProfileString(c) \in Seq(Change3)
    BY <2>1, PrivateIs DEF Null
  <2>3. Changes(c, open) = [None EXCEPT !.dsn = WritePrivateProfileString(c)]
    BY <1>2 DEF Changes
  <2> QED BY <2>2, <2>3, Lists, KeepSourcesFew DEF None, IsChanges
<1>3. CASE c.fn = "SQLWriteDSNToIni"
  <2>1. Changes(c, open) = WriteDSNToIni(c)
    BY <1>3 DEF Changes
  <2>2. c.s \in {"d", "Default"} /\ c.v \in {"r", "t"}
    BY <1>0, <1>3, RequestIs
  <2> QED BY <2>1, <2>2, WriteSourceIs
<1>4. CASE c.fn = "SQLRemoveDSNFromIni"
  <2>1. Changes(c, open) = RemoveDSNFromIni(c)
    BY <1>4 DEF Changes
  <2>2. c.s \in {"d", "Default"}
    BY <1>0, <1>4, RequestIs
  <2> QED BY <2>1, <2>2, RemoveSourceIs
<1>5. CASE c.fn = "SQLInstallDriver"
  <2>1. Changes(c, open) = install_from_ini(c, open[1].table)
    BY <1>5 DEF Changes
  <2>2. c.s = "r" /\ c.v = "d"
    BY <1>0, <1>5, RequestIs
  <2>3. Listing(c, open) = Changes(c, open).odbc /\ c.fn \in Installs
    BY <1>5, UnlistedIs DEF Installs
  <2> QED BY <2>1, <2>2, <2>3, IniIs DEF Unlisted
<1>6. CASE c.fn = "SQLInstallDriverEx"
  <2>1. Changes(c, open) = install_from_string(c, open[1].table, "drivers", "Driver")
    BY <1>6 DEF Changes
  <2>2. c.s = "r" /\ c.v = "d" /\ c.k \in {"Driver", "source", "early", "bare"}
    BY <1>0, <1>6, RequestIs
  <2>3. Listing(c, open) = Changes(c, open).odbc /\ c.fn \in Installs
    BY <1>6, UnlistedIs DEF Installs
  <2> QED BY <2>1, <2>2, <2>3, StringIs DEF Unlisted
<1>7. CASE c.fn = "SQLInstallTranslatorEx"
  <2>1. Changes(c, open) = install_from_string(c, open[1].table, "translators", "Translator")
    BY <1>7 DEF Changes
  <2>2. c.s = "t" /\ c.k \in {"Translator", "bare"}
    BY <1>0, <1>7, RequestIs
  <2>3. Listing(c, open) = Changes(c, open).odbc /\ c.fn \in Installs
    BY <1>7, UnlistedIs DEF Installs
  <2> QED BY <2>1, <2>2, <2>3, StringIs DEF Unlisted
<1>8. CASE c.fn = "SQLRemoveDriver"
  <2>1. Changes(c, open) = RemovedDriver(c, open[1].table)
    BY <1>8 DEF Changes
  <2>2. c.s = "r"
    BY <1>0, <1>8, RequestIs
  <2> QED BY <1>8, <2>1, <2>2, RemovedDriverIs
<1>9. CASE c.fn = "SQLRemoveTranslator"
  <2> DEFINE inst == <<<<"translators", c.s, Null>>>> \o Dropped(c.s)
  <2>1. Changes(c, open) = [None EXCEPT !.inst = inst]
    BY <1>9 DEF Changes
  <2>2. c.s = "t"
    BY <1>0, <1>9, RequestIs
  <2>3. <<<<"translators", c.s, Null>>>> \in Seq(Change3) /\ Dropped(c.s) \in Seq(Change3)
    BY <1>a, <2>2, Lists, SomeNames
  <2>4. inst \in Seq(Change3)
    BY <2>3, Lists
  <2> HIDE DEF inst
  <2> QED BY <2>1, <2>4, Lists, KeepSourcesFew DEF None, IsChanges
<1>10. CASE c.fn = "RemoveDefaultDataSource"
  <2> DEFINE inst == Dropped(c.s)
             base == RemoveDSNFromIni(c)
  <2>1. Changes(c, open) = [base EXCEPT !.inst = inst]
    BY <1>10 DEF Changes
  <2>2. c.s = "Default"
    BY <1>0, <1>10, RequestIs
  <2>3. inst \in Seq(Change3)
    BY <1>a, <2>2, Lists
  <2>4. IsChanges(base) /\ KeepsSources(base.odbc)
    BY <2>2, RemoveSourceIs
  <2>5. base = [ok |-> base.ok, odbc |-> base.odbc, inst |-> base.inst, dsn |-> base.dsn]
    <3> DEFINE odbc == Listed(c.s, Null) \o Dropped(c.s)
    <3>1. base = [None EXCEPT !.odbc = odbc]
      BY DEF RemoveDSNFromIni
    <3> HIDE DEF odbc, base
    <3> QED BY <3>1 DEF None
  <2> HIDE DEF inst, base
  <2>6. Changes(c, open).odbc = base.odbc /\ Changes(c, open).dsn = base.dsn /\ Changes(c, open).inst = inst
    BY <2>1, <2>5
  <2> QED BY <2>3, <2>4, <2>6 DEF IsChanges
<1> QED BY <1>1, <1>2, <1>3, <1>4, <1>5, <1>6, <1>7, <1>8, <1>9, <1>10, WritersAre

(* Changes that leave the sections of the data source alone.               *)
Elsewhere(changes) == \A i \in DOMAIN changes : changes[i][1] # "d"

LEMMA ElsewhereBoth ==
  ASSUME NEW x \in Seq(Change3), NEW y \in Seq(Change3), Elsewhere(x), Elsewhere(y)
  PROVE  Elsewhere(x \o y)
<1> DEFINE z == x \o y
<1>1. /\ z \in Seq(Change3) /\ Len(z) = Len(x) + Len(y)
      /\ \A i \in 1 .. Len(z) : z[i] = IF i <= Len(x) THEN x[i] ELSE y[i - Len(x)]
  BY ConcatProperties
<1>2. Len(x) \in Nat /\ Len(y) \in Nat /\ DOMAIN x = 1 .. Len(x) /\ DOMAIN y = 1 .. Len(y)
  OBVIOUS
<1>3. DOMAIN z = 1 .. Len(z)
  BY <1>1
<1> HIDE DEF z
<1>4. ASSUME NEW i \in 1 .. Len(z) PROVE z[i][1] # "d"
  <2>1. CASE i <= Len(x)
    <3>1. i \in DOMAIN x /\ z[i] = x[i]
      BY <1>1, <1>2, <2>1
    <3> QED BY <3>1 DEF Elsewhere
  <2>2. CASE ~ (i <= Len(x))
    <3>1. i - Len(x) \in DOMAIN y /\ z[i] = y[i - Len(x)]
      BY <1>1, <1>2, <2>2
    <3> QED BY <3>1 DEF Elsewhere
  <2> QED BY <2>1, <2>2
<1>5. Elsewhere(z)
  BY <1>3, <1>4 DEF Elsewhere
<1> QED BY <1>5 DEF z

(* An installation changes its own sections of the drivers' file only.     *)
LEMMA InstallsElsewhere ==
  ASSUME NEW c, Asks(c), c.fn \in Installs, NEW open, NEW inst, inst = Changes(c, open).inst
  PROVE  Elsewhere(inst)
<1>0. <<c.fn, c.s, c.k, c.v>> \in Requests
  BY WriterAsks, WritersAre DEF Installs
<1>1. Elsewhere(<<>>)
  BY DEF Elsewhere
<1>2. Refused.inst = <<>>
  BY NoneIs
<1>3. CASE c.fn = "SQLInstallDriver"
  <2>1. c.s = "r"
    BY <1>0, <1>3, RequestIs
  <2> DEFINE x == Dropped(c.s)
             y == <<<<"drivers", c.s, "Installed">>, <<c.s, "Driver", "lib">>, <<c.s, "Setup", "lib">>>>
             odbc == IF c.k = "source" THEN do_create_dsns(open[1].table, c.v, "lib", c.s) ELSE <<>>
             z == x \o y
  <2>2. x \in Seq(Change3) /\ Elsewhere(x)
    BY <2>1, Lists, SomeNames DEF Elsewhere, Dropped
  <2>3. y \in Seq(Change3) /\ Elsewhere(y)
    <3>1. <<"drivers", c.s, "Installed">> \in Change3 /\ <<c.s, "Driver", "lib">> \in Change3
          /\ <<c.s, "Setup", "lib">> \in Change3
      BY <2>1, SomeNames, NamesAreNot DEF Change3
    <3> QED BY <2>1, <3>1, DecidedThree DEF Elsewhere
  <2>4. Elsewhere(z)
    <3> HIDE DEF x, y
    <3> QED BY <2>2, <2>3, ElsewhereBoth
  <2>5. inst = IF c.k = "bare" THEN Refused.inst ELSE [None EXCEPT !.inst = z, !.odbc = odbc].inst
    BY <1>3 DEF Changes, install_from_ini
  <2> HIDE DEF z, odbc
  <2> QED BY <1>1, <1>2, <2>4, <2>5 DEF None
<1>4. ASSUME NEW list \in {"drivers", "translators"}, NEW library,
             inst = install_from_string(c, open[1].table, list, library).inst,
             c.s \in {"r", "t"}, c.k \in {"Driver", "Translator", "bare", "source", "early"}
      PROVE  Elsewhere(inst)
  <2> DEFINE keys == Attributes[c.k]
             driver == IF \E j \in 1 .. CreateDSN[c.k] : keys[j] = "Driver" THEN "lib" ELSE Null
             lines == [i \in DOMAIN keys |-> <<c.s, keys[i], "lib">>]
             x == Dropped(c.s)
             y == <<<<list, c.s, "Installed">>>>
             z == (x \o y) \o lines
             odbc == IF c.k \in DOMAIN CreateDSN THEN do_create_dsns(open[1].table, c.v, driver, c.s) ELSE <<>>
  <2>a. c.s \in Names /\ c.s \in KeyNames /\ list \in Names /\ "Installed" \in Values
        /\ c.s # "d" /\ list # "d"
    BY <1>4, SomeNames
  <2>b. \A s : s # "d" => \A k, v : Elsewhere(<<<<s, k, v>>>>)
    BY DEF Elsewhere
  <2>1. x \in Seq(Change3) /\ Elsewhere(x)
    BY <2>a, <2>b, Lists DEF Dropped
  <2>2. y \in Seq(Change3) /\ Elsewhere(y)
    BY <2>a, <2>b, Lists
  <2>3. lines \in Seq(Change3)
    BY <1>4, AttributeLines
  <2>4. Elsewhere(lines)
    BY <1>4 DEF Elsewhere
  <2>5. x \o y \in Seq(Change3) /\ Elsewhere(x \o y)
    <3> HIDE DEF x, y
    <3> QED BY <2>1, <2>2, ElsewhereBoth, Lists
  <2>6. Elsewhere(z)
    <3> DEFINE xy == x \o y
    <3> HIDE DEF xy, lines
    <3>1. Elsewhere(xy \o lines)
      BY <2>3, <2>4, <2>5, ElsewhereBoth DEF xy
    <3> QED BY <3>1 DEF xy
  <2>7. inst = IF ~ Contains(keys, library) THEN Refused.inst ELSE [None EXCEPT !.inst = z, !.odbc = odbc].inst
    BY <1>4 DEF install_from_string
  <2> HIDE DEF z, odbc, keys
  <2> QED BY <1>1, <1>2, <2>6, <2>7 DEF None
<1>5. CASE c.fn = "SQLInstallDriverEx"
  <2>1. c.s \in {"r", "t"} /\ c.k \in {"Driver", "Translator", "bare", "source", "early"}
    BY <1>0, <1>5, RequestIs
  <2>2. inst = install_from_string(c, open[1].table, "drivers", "Driver").inst
    BY <1>5 DEF Changes
  <2> QED BY <1>4, <2>1, <2>2
<1>6. CASE c.fn = "SQLInstallTranslatorEx"
  <2>1. c.s \in {"r", "t"} /\ c.k \in {"Driver", "Translator", "bare", "source", "early"}
    BY <1>0, <1>6, RequestIs
  <2>2. inst = install_from_string(c, open[1].table, "translators", "Translator").inst
    BY <1>6 DEF Changes
  <2> QED BY <1>4, <2>1, <2>2
<1> QED BY <1>3, <1>5, <1>6 DEF Installs

(* So what it does to the data sources is the same before and after.       *)
LEMMA ListingStays ==
  ASSUME NEW c, c.v = "d" \/ c.k \notin {"source", "early"}, NEW open, NEW new,
         SectionAt(open[1].table.lines, "d") = 0 <=> SectionAt(new[1].table.lines, "d") = 0
  PROVE  Listing(c, new) = Listing(c, open)
<1> DEFINE t == open[1].table
           u == new[1].table
<1>1. \A driver, description :
        do_create_dsns(u, "d", driver, description) = do_create_dsns(t, "d", driver, description)
  BY DEF do_create_dsns
<1> HIDE DEF t, u
<1>2. install_from_ini(c, u) = install_from_ini(c, t)
  <2> DEFINE odbc(x) == IF c.k = "source" THEN do_create_dsns(x, c.v, "lib", c.s) ELSE <<>>
             inst == Dropped(c.s) \o <<<<"drivers", c.s, "Installed">>, <<c.s, "Driver", "lib">>, <<c.s, "Setup", "lib">>>>
             y(x) == [None EXCEPT !.inst = inst, !.odbc = odbc(x)]
  <2>1. install_from_ini(c, u) = IF c.k = "bare" THEN Refused ELSE y(u)
    BY DEF install_from_ini
  <2>2. install_from_ini(c, t) = IF c.k = "bare" THEN Refused ELSE y(t)
    BY DEF install_from_ini
  <2>3. odbc(u) = odbc(t)
    BY <1>1
  <2> HIDE DEF odbc, inst
  <2>4. y(u) = y(t)
    BY <2>3
  <2> HIDE DEF y
  <2> QED BY <2>1, <2>2, <2>4
<1>3. ASSUME NEW list, NEW library
      PROVE  install_from_string(c, u, list, library) = install_from_string(c, t, list, library)
  <2> DEFINE keys == Attributes[c.k]
             driver == IF \E j \in 1 .. CreateDSN[c.k] : keys[j] = "Driver" THEN "lib" ELSE Null
             odbc(x) == IF c.k \in DOMAIN CreateDSN THEN do_create_dsns(x, c.v, driver, c.s) ELSE <<>>
             inst == Dropped(c.s) \o <<<<list, c.s, "Installed">>>> \o [i \in DOMAIN keys |-> <<c.s, keys[i], "lib">>]
             y(x) == [None EXCEPT !.inst = inst, !.odbc = odbc(x)]
  <2>1. install_from_string(c, u, list, library) = IF ~ Contains(keys, library) THEN Refused ELSE y(u)
    BY DEF install_from_string
  <2>2. install_from_string(c, t, list, library) = IF ~ Contains(keys, library) THEN Refused ELSE y(t)
    BY DEF install_from_string
  <2>3. odbc(u) = odbc(t)
    <3>1. DOMAIN CreateDSN = {"source", "early"}
      BY DEF CreateDSN
    <3> HIDE DEF driver
    <3> QED BY <1>1, <3>1
  <2> HIDE DEF odbc, inst, keys
  <2>4. y(u) = y(t)
    BY <2>3
  <2> HIDE DEF y
  <2> QED BY <2>1, <2>2, <2>4
<1> QED BY <1>2, <1>3 DEF Listing, t, u

-----------------------------------------------------------------------------
(* The steps of a call.                                                    *)

Longer(s, e, t) ==
  /\ IsSeq(t) /\ Len(s) \in Nat /\ Len(t) = Len(s) + 1 /\ t # <<>>
  /\ \A i \in 1 .. Len(s) : t[i] = s[i]
  /\ t[Len(t)] = e

LEMMA SeqMore ==
  ASSUME NEW s, IsSeq(s), NEW e
  PROVE  Longer(s, e, Append(s, e))
<1>t. PICK t : t = Append(s, e)
  OBVIOUS
<1> DEFINE S == Range(s) \cup {e}
<1>1. s \in Seq(S) /\ e \in S
  <2>1. s \in Seq(Range(s)) /\ Range(s) \subseteq S
    BY DEF IsSeq
  <2> HIDE DEF S
  <2>2. Len(s) \in Nat /\ s \in [1 .. Len(s) -> S]
    BY <2>1
  <2>3. s \in Seq(S)
    BY <2>2
  <2> QED BY <2>3 DEF S
<1> HIDE DEF S
<1>2. t \in Seq(S) /\ t # <<>> /\ Len(t) = Len(s) + 1 /\ t[Len(s) + 1] = e
      /\ \A i \in 1 .. Len(s) : t[i] = s[i]
  BY <1>1, <1>t, AppendProperties
<1>3. t \in Seq(Range(t))
  BY <1>2, SeqOfRange
<1>4. Longer(s, e, t)
  BY <1>1, <1>2, <1>3 DEF IsSeq, Longer
<1> QED BY <1>4, <1>t

LEMMA SeqMapped ==
  ASSUME NEW s, IsSeq(s), NEW t, t = [i \in DOMAIN s |-> t[i]]
  PROVE  IsSeq(t) /\ Len(t) = Len(s) /\ Len(s) \in Nat /\ DOMAIN s = 1 .. Len(s)
<1> DEFINE n == Len(s)
           S == {t[i] : i \in 1 .. n}
<1>1. n \in Nat /\ DOMAIN s = 1 .. n
  BY DEF IsSeq
<1> HIDE DEF n
<1>2. t = [i \in 1 .. n |-> t[i]] /\ \A i \in 1 .. n : t[i] \in S
  BY <1>1
<1> HIDE DEF S
<1>3. t \in [1 .. n -> S]
  BY <1>2
<1>4. t \in Seq(S) /\ Len(t) = n
  BY <1>1, <1>3
<1>5. t \in Seq(Range(t))
  BY <1>4, SeqOfRange
<1> QED BY <1>1, <1>4, <1>5 DEF IsSeq, n

(* The file of an attempt is of its scope, or the system's drivers where   *)
(* the user has none.                                                      *)
LEMMA PathIs ==
  ASSUME readonly \subseteq {"user"} \X {"odbc", "inst"}, NEW create \in BOOLEAN,
         NEW scope \in {"user", "system", "own"}, NEW kind \in {"odbc", "inst", "dsn"},
         scope = "own" <=> kind = "dsn", NEW f, f = Path(scope, kind, create), Opens(f, create)
  PROVE  /\ f \in Files /\ f[2] = kind
         /\ \/ f[1] = scope
            \/ scope = "user" /\ f[1] = "system" /\ kind = "inst" /\ <<"user", kind>> \notin present
<1>1. f # NoFile
  BY DEF Opens
<1>2. CASE scope = "own"
  BY <1>2 DEF Path, Files
<1>3. CASE scope = "user"
  BY <1>1, <1>3 DEF Path, Files
<1>4. CASE scope = "system"
  BY <1>1, <1>4 DEF Path, Files
<1> QED BY <1>2, <1>3, <1>4

LEMMA FirstLines ==
  ASSUME NEW lines, Good(lines), NEW n \in 0 .. Len(lines)
  PROVE  Good(SubSeq(lines, 1, n))
<1>1. lines \in Seq(Line) /\ Unique(lines) /\ Len(lines) \in Nat
  BY DEF Good
<1> PICK s : s = SubSeq(lines, 1, n)
  OBVIOUS
<1>2. s \in Seq(Line) /\ Len(s) = n /\ \A i \in 1 .. n : s[i] = lines[i]
  <2>1. 1 \in 1 .. Len(lines) + 1 /\ n \in 1 - 1 .. Len(lines)
    BY <1>1
  <2>2. /\ s \in Seq(Line) /\ Len(s) = n + 1 - 1
        /\ \A i \in 1 .. n + 1 - 1 : s[i] = lines[1 + i - 1]
    BY <1>1, <2>1, Part
  <2> QED BY <2>2
<1>3. DOMAIN s = 1 .. n /\ 1 .. n \subseteq 1 .. Len(lines) /\ DOMAIN lines = 1 .. Len(lines)
  BY <1>1, <1>2
<1>4. Unique(s)
  <2> SUFFICES ASSUME NEW i \in 1 .. n, NEW j \in 1 .. n, i < j
               PROVE  /\ s[i].section # Null => s[i].section # s[j].section
                      /\ (s[i].id # Null /\ s[i].id = s[j].id) => \E m \in i .. j : s[m].section # Null
    BY <1>3 DEF Unique
  <2>1. s[i] = lines[i] /\ s[j] = lines[j] /\ \A m \in i .. j : s[m] = lines[m]
    BY <1>2
  <2>2. /\ lines[i].section # Null => lines[i].section # lines[j].section
        /\ (lines[i].id # Null /\ lines[i].id = lines[j].id) => \E m \in i .. j : lines[m].section # Null
    BY <1>1, <1>3 DEF Unique
  <2> QED BY <2>1, <2>2
<1> QED BY <1>2, <1>4 DEF Good

LEMMA HalfIs ==
  ASSUME NEW l \in Seq(Line)
  PROVE  FirstHalf(l) \in Seq(Line) /\ (Unique(l) => Good(FirstHalf(l)))
<1>1. ASSUME NEW m \in Nat PROVE m \div 2 \in 0 .. m
  OBVIOUS
<1>2. Len(l) \in Nat
  OBVIOUS
<1>3. Len(l) \div 2 \in 0 .. Len(l)
  BY <1>1, <1>2
<1>4. ASSUME NEW n \in 0 .. Len(l) PROVE SubSeq(l, 1, n) \in Seq(Line) /\ (Unique(l) => Good(SubSeq(l, 1, n)))
  <2>1. 1 \in 1 .. Len(l) + 1 /\ n \in 1 - 1 .. Len(l)
    BY <1>2
  <2>2. SubSeq(l, 1, n) \in Seq(Line)
    BY <2>1, Part
  <2> QED BY <2>2, FirstLines DEF Good
<1> QED BY <1>3, <1>4 DEF FirstHalf

(* What a writer of a file may leave in it, and what may be read there.    *)
LEMMA UnfinishedIs ==
  ASSUME KeysInv, NEW p \in Procs, call[p].writing, NEW lines \in Unfinished(p),
         NEW f, f = call[p].open[call[p].at].file
  PROVE  f \in Files /\ lines \in Seq(Line) /\ (f \in mixed \/ Unique(lines))
<1> DEFINE c == call[p]
           e == c.open[c.at]
           half == FirstHalf(e.table.lines)
<1>1. Opened(c) /\ Placed(c) /\ c.writing
  BY DEF KeysInv, FormInv, IsCall
<1>2. c.at \in 1 .. Len(c.open)
  BY <1>1 DEF Opened, Placed, IsSeq
<1>3. Entry(e)
  BY <1>1, <1>2 DEF Opened
<1>4. f \in Files /\ e.table.lines \in Seq(Line) /\ (e.torn \/ Unique(e.table.lines)) /\ f = e.file
  BY <1>3 DEF Entry, IsTable
<1>5. disk[f] \in Seq(Line) /\ (f \in mixed \/ Unique(disk[f]))
  BY <1>4 DEF KeysInv, FormInv
<1>6. half \in Seq(Line) /\ (Unique(e.table.lines) => Good(half))
  BY <1>4, HalfIs
<1>7. Reread(half) \in Seq(Line) /\ (Unique(e.table.lines) => Unique(Reread(half)))
  BY <1>6, RereadStays, RereadIs DEF Good
<1>8. lines = disk[f] \/ lines = Overwritten(disk[f], Reread(half))
  BY <1>4 DEF Unfinished
<1>9. f \in mixed \/ (disk[f] = <<>> /\ ~ e.torn)
  BY <1>1, <1>4 DEF KeysInv, Alone, Writer
<1> HIDE DEF e, half
<1>10. /\ Overwritten(disk[f], Reread(half)) \in Seq(Line)
       /\ disk[f] = <<>> => Overwritten(disk[f], Reread(half)) = Reread(half)
  BY <1>5, <1>7, OverwrittenIs
<1> QED BY <1>4, <1>5, <1>7, <1>8, <1>9, <1>10

LEMMA ReadableIs ==
  ASSUME KeysInv, NEW f \in Files, NEW lines \in Readable(f)
  PROVE  /\ lines \in Seq(Line)
         /\ BeingWritten(f) \/ f \in mixed \/ (lines = disk[f] /\ Unique(lines))
<1>1. CASE lines = disk[f]
  BY <1>1 DEF KeysInv, FormInv
<1>2. CASE lines # disk[f]
  <2>1. PICK p \in WritersOf(f) : lines \in Unfinished(p)
    BY <1>2 DEF Readable
  <2>2. p \in Procs /\ call[p].writing /\ f = call[p].open[call[p].at].file /\ BeingWritten(f)
    BY <2>1 DEF WritersOf, BeingWritten
  <2> QED BY <2>1, <2>2, UnfinishedIs
<1> QED BY <1>1, <1>2

LEMMA LoadIs ==
  ASSUME KeysInv, NEW f \in Files, NEW lines \in Readable(f), NEW e, e = Load(f, f[2], lines)
  PROVE  /\ Entry(e) /\ Unedited(e.table) /\ e.file = f /\ e.kind = f[2]
         /\ e.version = version[f]
         /\ e.torn <=> BeingWritten(f) \/ f \in mixed
         /\ e.torn \/ (e.table.lines = disk[f] /\ Unique(disk[f]))
         /\ e.users <=> <<"user", f[2]>> \in present
<1> DEFINE t == Loaded(lines)
           torn == BeingWritten(f) \/ f \in mixed
           users == <<"user", f[2]>> \in present
<1>0. lines \in Seq(Line) /\ (torn \/ (lines = disk[f] /\ Unique(lines)))
  BY ReadableIs
<1>1. IsTable(t) /\ Unedited(t) /\ t.lines = lines
  BY <1>0 DEF Loaded, IsTable, Unedited
<1>2. e = [file |-> f, kind |-> f[2], table |-> t, version |-> version[f], torn |-> torn, users |-> users]
  BY DEF Load
<1>3. version[f] \in Nat
  BY DEF KeysInv, FormInv, Shapes
<1>4. (torn <=> BeingWritten(f) \/ f \in mixed) /\ (users <=> <<"user", f[2]>> \in present)
  OBVIOUS
<1> HIDE DEF t, torn, users
<1>5. /\ e.file = f /\ e.kind = f[2] /\ e.table = t /\ e.version = version[f] /\ e.torn = torn
      /\ e.users = users
  BY <1>2
<1>6. Entry(e)
  BY <1>0, <1>1, <1>2, <1>3, <1>5 DEF Entry
<1> QED BY <1>0, <1>1, <1>4, <1>5, <1>6

LEMMA NoCallIs == IsCall(NoCall) /\ NoCall.open = <<>> /\ ~ NoCall.writing /\ NoCall.fn = Null /\ NoCall.at = 0
<1> DEFINE c == NoCall
<1>1. /\ c = [fn |-> Null, s |-> Null, k |-> Null, v |-> Null, todo |-> <<>>, open |-> <<>>,
              at |-> 0, writing |-> FALSE, asked |-> "both", retry |-> FALSE]
      /\ <<>> \in Seq(Attempts) /\ Len(<<>>) = 0
  BY DEF NoCall
<1> HIDE DEF c
<1>2. /\ c.fn = Null /\ c.s = Null /\ c.k = Null /\ c.v = Null /\ c.todo = <<>> /\ c.open = <<>>
      /\ c.at = 0 /\ c.writing = FALSE /\ c.asked = "both" /\ c.retry = FALSE
  BY <1>1
<1>3. Asks(c)
  BY <1>1, <1>2 DEF Asks
<1>4. IsSeq(<<>>)
  BY DEF IsSeq
<1>5. Opened(c) /\ Placed(c)
  BY <1>1, <1>2, <1>4 DEF Opened, Placed
<1>6. IsCall(c)
  BY <1>1, <1>2, <1>3, <1>5 DEF IsCall
<1> QED BY <1>2, <1>6 DEF c

(* The call of p is x from now on.                                         *)
Moves(p, x) == call' = [call EXCEPT ![p] = x] /\ IsCall(x)

(* A call that makes its next attempt.                                     *)
Retried(c) ==
  [c EXCEPT !.todo = Tail(c.todo), !.open = <<>>, !.at = 0, !.writing = FALSE, !.retry = TRUE]

LEMMA RetriedIs ==
  ASSUME NEW c, IsCall(c), Len(c.todo) > 1, NEW x, x = Retried(c)
  PROVE  /\ IsCall(x) /\ x.open = <<>> /\ ~ x.writing /\ x.at = 0 /\ x.fn = c.fn /\ x.retry
         /\ x.asked = c.asked /\ Len(x.todo) = Len(c.todo) - 1
<1>1. /\ c = [fn |-> c.fn, s |-> c.s, k |-> c.k, v |-> c.v, todo |-> c.todo, open |-> c.open,
              at |-> c.at, writing |-> c.writing, asked |-> c.asked, retry |-> c.retry]
      /\ c.todo \in Seq(Attempts) /\ c.todo # <<>>
  BY DEF IsCall, Asks
<1>2. x = [fn |-> c.fn, s |-> c.s, k |-> c.k, v |-> c.v, todo |-> Tail(c.todo), open |-> <<>>,
           at |-> 0, writing |-> FALSE, asked |-> c.asked, retry |-> TRUE]
  BY <1>1 DEF Retried
<1>3. /\ x.fn = c.fn /\ x.s = c.s /\ x.k = c.k /\ x.v = c.v /\ x.todo = Tail(c.todo) /\ x.open = <<>>
      /\ x.at = 0 /\ x.writing = FALSE /\ x.asked = c.asked /\ x.retry = TRUE
  BY <1>2
<1>4. /\ Tail(c.todo) \in Seq(Attempts) /\ Len(Tail(c.todo)) = Len(c.todo) - 1
      /\ \A i \in 1 .. Len(Tail(c.todo)) : Tail(c.todo)[i] = c.todo[i + 1]
  BY <1>1, HeadTailProperties
<1>5. Len(c.todo) \in Nat /\ Len(c.todo) > 1
  BY <1>1
<1>6. Tail(c.todo) # <<>>
  BY <1>4, <1>5
<1>7. Asks(x)
  <2>1. /\ c.fn = Null \/ c.fn \in Readers \/ <<c.fn, c.s, c.k, c.v>> \in Requests
        /\ c.fn # Null
        /\ \A i \in 1 .. Len(c.todo) :
             c.todo[i].kinds \in KindsOf(c.fn) /\ (c.todo[i].scope = "own" <=> c.fn \in Own)
    BY <1>1 DEF IsCall, Asks
  <2>2. ASSUME NEW i \in 1 .. Len(x.todo)
        PROVE  x.todo[i].kinds \in KindsOf(x.fn) /\ (x.todo[i].scope = "own" <=> x.fn \in Own)
    <3>1. x.todo[i] = c.todo[i + 1] /\ i + 1 \in 1 .. Len(c.todo)
      BY <1>3, <1>4, <1>5
    <3> QED BY <1>3, <2>1, <3>1
  <2> QED BY <1>3, <1>4, <1>6, <2>1, <2>2 DEF Asks
<1>8. Opened(x) /\ Placed(x)
  BY <1>3, <1>6 DEF Opened, Placed, IsSeq
<1>9. IsCall(x)
  BY <1>2, <1>3, <1>7, <1>8 DEF IsCall
<1> QED BY <1>3, <1>4, <1>9

LEMMA OverIs ==
  ASSUME NEW p \in Procs, IsCall(call[p]), call[p].fn # Null, NEW result, Over(p, result)
  PROVE  \E x : /\ Moves(p, x) /\ x.open = <<>> /\ ~ x.writing
                /\ \/ /\ Len(call[p].todo) > 1 /\ result \in call[p].todo[2].after
                      /\ x = Retried(call[p]) /\ UNCHANGED mode
                   \/ x = NoCall /\ ResetMode(p, call[p], result)
<1> DEFINE c == call[p]
           rest == Tail(c.todo)
<1>1. c.todo \in Seq(Attempts) /\ c.todo # <<>>
  BY DEF IsCall, Asks
<1>2. /\ rest \in Seq(Attempts) /\ Len(rest) = Len(c.todo) - 1
      /\ \A i \in 1 .. Len(rest) : rest[i] = c.todo[i + 1]
  BY <1>1, HeadTailProperties
<1>3. CASE rest # <<>> /\ result \in Head(rest).after
  <2>1. Len(rest) \in Nat /\ Len(rest) > 0 /\ Len(c.todo) > 1 /\ Head(rest) = c.todo[2]
    BY <1>1, <1>2, <1>3
  <2>2. /\ call' = [call EXCEPT ![p].todo = rest, ![p].open = <<>>, ![p].at = 0, ![p].writing = FALSE,
                                 ![p].retry = TRUE]
        /\ UNCHANGED mode
    BY <1>3 DEF Over
  <2>3. call' = [call EXCEPT ![p] = Retried(c)]
    BY <2>2 DEF Retried
  <2>4. IsCall(Retried(c)) /\ Retried(c).open = <<>> /\ ~ Retried(c).writing
    BY <2>1, RetriedIs
  <2> QED BY <1>3, <2>1, <2>2, <2>3, <2>4 DEF Moves
<1>4. CASE ~ (rest # <<>> /\ result \in Head(rest).after)
  <2>1. call' = [call EXCEPT ![p] = NoCall] /\ ResetMode(p, c, result)
    BY <1>4 DEF Over
  <2> QED BY <2>1, NoCallIs DEF Moves
<1> QED BY <1>3, <1>4

(* Calls that begin, and what becomes of the mode then.                    *)
TodoIs(fn, todo) ==
  /\ todo \in Seq(Attempts) /\ todo # <<>>
  /\ \A i \in 1 .. Len(todo) : todo[i].kinds \in KindsOf(fn) /\ (todo[i].scope = "own" <=> fn \in Own)
ScopedTodo(p, todo) ==
  /\ Len(todo) \in {1, 2}
  /\ todo[1].scope = IF mode[p] = "system" THEN "system" ELSE "user"
  /\ Len(todo) = 2 => mode[p] = "both"
Modes == {"both", "user", "system"}
Mode(p) == /\ mode' = [mode EXCEPT ![p] = mode'[p]] /\ mode'[p] \in Modes
           /\ asked' = [asked EXCEPT ![p] = asked'[p]] /\ asked'[p] \in Modes
Same == UNCHANGED <<disk, version, due, raced, mixed, broken, odd>>
Begun(p, x) ==
  /\ Moves(p, x) /\ x.open = <<>> /\ ~ x.writing /\ ~ x.retry /\ x.fn # Null
  /\ x.fn \in Scoped => x.asked = asked[p] /\ ScopedTodo(p, x.todo)
  /\ x.fn \in Callbacks => x.todo = BothDriverFiles
  /\ IF x.fn \in Keeping \cup Callbacks THEN mode[p] = asked[p] => mode'[p] = asked'[p] ELSE asked'[p] = "both"
Starts(p) ==
  /\ call[p] = NoCall /\ \E x : Begun(p, x)
  /\ Mode(p) /\ Same /\ UNCHANGED <<present, readonly, outer>>

LEMMA AttemptIs ==
  ASSUME NEW fn \in Readers \cup Writers, NEW kinds \in KindsOf(fn), NEW scope \in {"user", "system", "own"},
         scope = "own" <=> fn \in Own, NEW create \in BOOLEAN,
         NEW after \in SUBSET {"nopath", "failed", "empty", "done"},
         NEW a, a = Attempt(scope, kinds, create, after)
  PROVE  /\ a \in Attempts /\ a.kinds \in KindsOf(fn) /\ (a.scope = "own" <=> fn \in Own)
         /\ a.scope = scope /\ a.create = create /\ a.after = after /\ a.kinds = kinds
<1>1. kinds \in UNION {KindsOf(n) : n \in Readers \cup Writers}
  OBVIOUS
<1>2. a = [scope |-> scope, kinds |-> kinds, create |-> create, after |-> after]
  BY DEF Attempt
<1>3. a.kinds = kinds /\ a.scope = scope /\ a.create = create /\ a.after = after
  BY <1>2
<1>4. a \in Attempts
  BY <1>1, <1>2 DEF Attempts
<1> QED BY <1>3, <1>4

LEMMA AttemptFor ==
  ASSUME NEW fn \in Readers \cup Writers, fn \notin Own, NEW kinds \in KindsOf(fn), NEW create \in BOOLEAN,
         NEW after \in SUBSET {"nopath", "failed", "empty", "done"}
  PROVE  \A scope \in {"user", "system"} :
           LET a == Attempt(scope, kinds, create, after) IN
           /\ a \in Attempts /\ a.kinds \in KindsOf(fn) /\ (a.scope = "own" <=> fn \in Own)
           /\ a.scope = scope /\ a.create = create /\ a.after = after /\ a.kinds = kinds
<1> SUFFICES ASSUME NEW scope \in {"user", "system"}, NEW a, a = Attempt(scope, kinds, create, after)
             PROVE  /\ a \in Attempts /\ a.kinds \in KindsOf(fn) /\ (a.scope = "own" <=> fn \in Own)
                    /\ a.scope = scope /\ a.create = create /\ a.after = after /\ a.kinds = kinds
  OBVIOUS
<1>1. scope \in {"user", "system", "own"} /\ (scope = "own" <=> fn \in Own)
  OBVIOUS
<1>2. a \in Attempts /\ a.kinds \in KindsOf(fn) /\ (a.scope = "own" <=> fn \in Own)
  BY <1>1, AttemptIs
<1>3. a.scope = scope /\ a.create = create /\ a.after = after /\ a.kinds = kinds
  BY <1>1, AttemptIs
<1> QED BY <1>2, <1>3

LEMMA TodoFew ==
  ASSUME NEW fn,
         NEW a, a \in Attempts /\ a.kinds \in KindsOf(fn) /\ (a.scope = "own" <=> fn \in Own),
         NEW b, b \in Attempts /\ b.kinds \in KindsOf(fn) /\ (b.scope = "own" <=> fn \in Own),
         NEW c, c \in Attempts /\ c.kinds \in KindsOf(fn) /\ (c.scope = "own" <=> fn \in Own)
  PROVE  TodoIs(fn, <<a>>) /\ TodoIs(fn, <<a, b>>) /\ TodoIs(fn, <<a, b, c>>)
<1>1. TodoIs(fn, <<a>>)
  BY DEF TodoIs
<1>2. TodoIs(fn, <<a, b>>)
  BY DEF TodoIs
<1>3. TodoIs(fn, <<a, b, c>>)
  BY DEF TodoIs
<1> QED BY <1>1, <1>2, <1>3

LEMMA OnceIs ==
  ASSUME NEW p, mode[p] \in Modes, NEW fn \in Readers \cup Writers, fn \notin Own,
         NEW kinds \in KindsOf(fn), NEW create \in BOOLEAN
  PROVE  TodoIs(fn, Once(p, kinds, create)) /\ ScopedTodo(p, Once(p, kinds, create))
<1> DEFINE scope == IF mode[p] = "system" THEN "system" ELSE "user"
           a == Attempt(scope, kinds, create, {})
<1>1. scope \in {"user", "system", "own"} /\ scope # "own"
  OBVIOUS
<1>2. Once(p, kinds, create) = <<a>>
  BY DEF Once
<1>3. scope = IF mode[p] = "system" THEN "system" ELSE "user"
  OBVIOUS
<1> HIDE DEF scope
<1>4. /\ a \in Attempts /\ a.kinds \in KindsOf(fn) /\ (a.scope = "own" <=> fn \in Own)
      /\ a.scope = scope
  BY <1>1, AttemptIs
<1> HIDE DEF a
<1>5. TodoIs(fn, <<a>>)
  BY <1>4, TodoFew
<1>6. ScopedTodo(p, <<a>>)
  BY <1>3, <1>4 DEF ScopedTodo
<1> QED BY <1>2, <1>5, <1>6

LEMMA UserThenSystemIs ==
  ASSUME NEW p, mode[p] \in Modes, NEW fn \in Readers \cup Writers, fn \notin Own,
         NEW kinds \in KindsOf(fn), NEW create \in BOOLEAN,
         NEW after \in SUBSET {"nopath", "failed", "empty", "done"}, NEW todo,
         todo = UserThenSystem(p, kinds, create, after)
  PROVE  TodoIs(fn, todo) /\ ScopedTodo(p, todo)
<1>1. CASE mode[p] # "both"
  <2>1. todo = Once(p, kinds, create)
    BY <1>1 DEF UserThenSystem
  <2> QED BY <2>1, OnceIs
<1>2. CASE mode[p] = "both"
  <2> DEFINE a == Attempt("user", kinds, create, {})
             b == Attempt("system", kinds, create, after)
  <2>1. todo = <<a, b>>
    BY <1>2 DEF UserThenSystem
  <2>2. /\ a \in Attempts /\ a.kinds \in KindsOf(fn) /\ (a.scope = "own" <=> fn \in Own)
        /\ a.scope = "user"
    BY AttemptIs
  <2>3. b \in Attempts /\ b.kinds \in KindsOf(fn) /\ (b.scope = "own" <=> fn \in Own)
    BY AttemptIs
  <2> HIDE DEF a, b
  <2>4. TodoIs(fn, <<a, b>>)
    BY <2>2, <2>3, TodoFew
  <2>5. ScopedTodo(p, <<a, b>>)
    BY <1>2, <2>2 DEF ScopedTodo
  <2> QED BY <2>1, <2>4, <2>5
<1> QED BY <1>1, <1>2

Beginning(fn, s, k, v, todo, a) ==
  [NoCall EXCEPT !.fn = fn, !.s = s, !.k = k, !.v = v, !.todo = todo, !.asked = a]

LEMMA BegunIs ==
  ASSUME NEW fn, NEW s, NEW k, NEW v, fn \in Readers \/ <<fn, s, k, v>> \in Requests,
         NEW todo, TodoIs(fn, todo), NEW a,
         NEW x, x = Beginning(fn, s, k, v, todo, a)
  PROVE  IsCall(x) /\ x.open = <<>> /\ ~ x.writing /\ ~ x.retry /\ x.fn = fn /\ x.fn # Null
         /\ x.asked = a /\ x.todo = todo
<1>1. x = [fn |-> fn, s |-> s, k |-> k, v |-> v, todo |-> todo, open |-> <<>>,
           at |-> 0, writing |-> FALSE, asked |-> a, retry |-> FALSE]
  <2> DEFINE n == NoCall
  <2>1. n = [fn |-> Null, s |-> Null, k |-> Null, v |-> Null, todo |-> <<>>, open |-> <<>>,
             at |-> 0, writing |-> FALSE, asked |-> "both", retry |-> FALSE]
    BY DEF NoCall
  <2>2. x = [n EXCEPT !.fn = fn, !.s = s, !.k = k, !.v = v, !.todo = todo, !.asked = a]
    BY DEF Beginning
  <2> HIDE DEF n
  <2> QED BY <2>1, <2>2
<1>2. /\ x.fn = fn /\ x.s = s /\ x.k = k /\ x.v = v /\ x.todo = todo /\ x.open = <<>>
      /\ x.at = 0 /\ x.writing = FALSE /\ x.asked = a /\ x.retry = FALSE
  BY <1>1
<1>3. fn # Null
  <2>1. CASE fn \in Readers
    BY <2>1 DEF Readers, Callbacks, Null
  <2>2. CASE <<fn, s, k, v>> \in Requests
    BY <2>2 DEF Requests, Null
  <2> QED BY <2>1, <2>2
<1>4. Asks(x)
  BY <1>2, <1>3 DEF Asks, TodoIs
<1>5. IsSeq(<<>>)
  BY DEF IsSeq
<1>6. Opened(x) /\ Placed(x)
  <2>1. todo # <<>>
    BY DEF TodoIs
  <2> QED BY <1>2, <1>5, <2>1 DEF Opened, Placed
<1>7. IsCall(x)
  BY <1>1, <1>2, <1>4, <1>6 DEF IsCall
<1> QED BY <1>2, <1>3, <1>7

LEMMA BeginIs ==
  ASSUME Shapes, NEW p \in Procs, NEW fn, NEW s, NEW k, NEW v, NEW todo,
         (fn \in Readers /\ (fn \in Callbacks => todo = BothDriverFiles)) \/ <<fn, s, k, v>> \in Requests,
         TodoIs(fn, todo), fn \in Scoped => ScopedTodo(p, todo),
         Begin(p, fn, s, k, v, todo), UNCHANGED mode
  PROVE  Starts(p)
<1> DEFINE x == Beginning(fn, s, k, v, todo, asked[p])
<1>1. call[p] = NoCall /\ call' = [call EXCEPT ![p] = x]
  BY DEF Begin, Beginning
<1>2. /\ asked' = [asked EXCEPT ![p] = IF fn \in Keeping \cup Callbacks THEN @ ELSE "both"]
      /\ Same /\ UNCHANGED <<present, readonly, outer>>
  BY DEF Begin, Same
<1>3. /\ IsCall(x) /\ x.open = <<>> /\ ~ x.writing /\ ~ x.retry /\ x.fn = fn /\ x.fn # Null
      /\ x.asked = asked[p] /\ x.todo = todo
  BY BegunIs
<1> HIDE DEF x
<1>4. /\ mode \in [Procs -> {"both", "user", "system"}]
      /\ asked \in [Procs -> {"both", "user", "system"}]
  BY DEF Shapes
<1>5. Mode(p)
  BY <1>2, <1>4 DEF Mode, Modes
<1>6. fn \in Keeping \cup Callbacks => (mode[p] = asked[p] => mode'[p] = asked'[p])
  BY <1>2, <1>4
<1>7. fn \notin Keeping \cup Callbacks => asked'[p] = "both"
  BY <1>2, <1>4
<1>9. fn \in Callbacks => todo = BothDriverFiles
  <2>1. <<fn, s, k, v>> \in Requests => fn \notin Callbacks
    BY DEF Requests, Callbacks
  <2> QED BY <2>1
<1>8. Begun(p, x)
  BY <1>1, <1>3, <1>6, <1>7, <1>9 DEF Begun, Moves
<1> QED BY <1>1, <1>2, <1>5, <1>8 DEF Starts

(* Functions of one file that the mode decides, or one or both of a kind.  *)
LEMMA SomeKinds ==
  /\ \A fn \in Writers \ (Own \cup Installs \cup {"SQLRemoveDriver"}) :
       KindsOf(fn) = {<<"odbc">>, <<"inst">>} /\ fn \in Readers \cup Writers
  /\ \A fn \in Readers \ Own : KindsOf(fn) = {<<"odbc">>, <<"inst">>} /\ fn \in Readers \cup Writers /\ fn \notin Scoped
  /\ \A fn \in Installs : KindsOf(fn) = {<<"inst", "odbc">>} /\ fn \in Writers /\ fn \notin Own
  /\ KindsOf("SQLRemoveDriver") = {<<"odbc", "inst">>} /\ "SQLRemoveDriver" \in Writers \ Own
  /\ \A fn \in Own : KindsOf(fn) = {<<"dsn">>} /\ fn \in Readers \cup Writers /\ fn \notin Scoped
BY WritersAre DEF KindsOf, Installs, Own, Readers, Callbacks, Scoped

LEMMA WritesStart ==
  ASSUME Shapes, NEW p \in Procs,
         \/ SQLWritePrivateProfileString(p) \/ SQLWriteDSNToIni(p) \/ SQLRemoveDSNFromIni(p)
         \/ SQLInstallDriver(p) \/ SQLInstallDriverEx(p) \/ SQLInstallTranslatorEx(p) \/ SQLRemoveDriver(p)
  PROVE  Starts(p)
<1>0. mode[p] \in Modes
  BY DEF Shapes, Modes
<1>1. CASE SQLWritePrivateProfileString(p)
  <2> DEFINE fn == "SQLWritePrivateProfileString"
  <2>1. PICK change \in {<<"a", "k", "v">>, <<"a", "k", Cut>>, <<"a", "k", Null>>, <<"a", Null, Null>>}, named \in BOOLEAN :
          /\ Begin(p, fn, change[1], change[2], change[3],
                   UserThenSystem(p, <<"odbc">>, TRUE, IF named THEN {"nopath", "failed"} ELSE {"nopath"}))
          /\ UNCHANGED mode
    BY <1>1 DEF SQLWritePrivateProfileString
  <2>2. <<fn, change[1], change[2], change[3]>> \in Requests
    BY DEF Requests, Null
  <2>3. fn \in Readers \cup Writers /\ fn \notin Own /\ KindsOf(fn) = {<<"odbc">>, <<"inst">>}
    BY WritersAre, SomeKinds DEF Own, Installs
  <2> DEFINE after == IF named THEN {"nopath", "failed"} ELSE {"nopath"}
             todo == UserThenSystem(p, <<"odbc">>, TRUE, after)
  <2>4. after \in SUBSET {"nopath", "failed", "empty", "done"}
    OBVIOUS
  <2> HIDE DEF after
  <2>5. TodoIs(fn, todo) /\ ScopedTodo(p, todo)
    BY <1>0, <2>3, <2>4, UserThenSystemIs
  <2>6. Begin(p, fn, change[1], change[2], change[3], todo) /\ UNCHANGED mode
    BY <2>1 DEF after
  <2> HIDE DEF todo, fn
  <2> QED BY <2>2, <2>5, <2>6, BeginIs
<1>2. CASE SQLWriteDSNToIni(p)
  <2> DEFINE fn == "SQLWriteDSNToIni"
             after == {"nopath", "failed"}
             todo == UserThenSystem(p, <<"odbc">>, TRUE, after)
  <2>1. PICK s \in {"d", "Default"}, r \in {"r", "t"} : Begin(p, fn, s, Null, r, todo) /\ UNCHANGED mode
    BY <1>2 DEF SQLWriteDSNToIni
  <2>2. <<fn, s, Null, r>> \in Requests
    BY DEF Requests
  <2>3. fn \in Readers \cup Writers /\ fn \notin Own /\ KindsOf(fn) = {<<"odbc">>, <<"inst">>}
    BY WritersAre, SomeKinds DEF Own, Installs
  <2>4. after \in SUBSET {"nopath", "failed", "empty", "done"}
    OBVIOUS
  <2> HIDE DEF after
  <2>5. TodoIs(fn, todo) /\ ScopedTodo(p, todo)
    BY <1>0, <2>3, <2>4, UserThenSystemIs
  <2> HIDE DEF todo, fn
  <2> QED BY <2>1, <2>2, <2>5, BeginIs
<1>3. CASE SQLRemoveDSNFromIni(p)
  <2> DEFINE fn == "SQLRemoveDSNFromIni"
             after == {"nopath", "failed"}
             todo == UserThenSystem(p, <<"odbc">>, TRUE, after)
  <2>1. PICK s \in {"d", "Default"} : Begin(p, fn, s, Null, Null, todo) /\ UNCHANGED mode
    BY <1>3 DEF SQLRemoveDSNFromIni
  <2>2. <<fn, s, Null, Null>> \in Requests
    BY DEF Requests
  <2>3. fn \in Readers \cup Writers /\ fn \notin Own /\ KindsOf(fn) = {<<"odbc">>, <<"inst">>}
    BY WritersAre, SomeKinds DEF Own, Installs
  <2>4. after \in SUBSET {"nopath", "failed", "empty", "done"}
    OBVIOUS
  <2> HIDE DEF after
  <2>5. TodoIs(fn, todo) /\ ScopedTodo(p, todo)
    BY <1>0, <2>3, <2>4, UserThenSystemIs
  <2> HIDE DEF todo, fn
  <2> QED BY <2>1, <2>2, <2>5, BeginIs
<1>4. ASSUME NEW fn \in Installs,
             \E s, k, v : /\ <<fn, s, k, v>> \in Requests
                          /\ Begin(p, fn, s, k, v, Once(p, <<"inst", "odbc">>, TRUE)) /\ UNCHANGED mode
      PROVE  Starts(p)
  <2>1. PICK s, k, v : /\ <<fn, s, k, v>> \in Requests
                       /\ Begin(p, fn, s, k, v, Once(p, <<"inst", "odbc">>, TRUE)) /\ UNCHANGED mode
    BY <1>4
  <2>2. fn \in Readers \cup Writers /\ fn \notin Own /\ KindsOf(fn) = {<<"inst", "odbc">>}
    BY SomeKinds
  <2>3. TodoIs(fn, Once(p, <<"inst", "odbc">>, TRUE)) /\ ScopedTodo(p, Once(p, <<"inst", "odbc">>, TRUE))
    BY <1>0, <2>2, OnceIs
  <2> QED BY <2>1, <2>3, BeginIs
<1>5. CASE SQLInstallDriver(p)
  <2>1. PICK given \in {"Driver", "source", "bare"} :
          Begin(p, "SQLInstallDriver", "r", given, "d", Once(p, <<"inst", "odbc">>, TRUE)) /\ UNCHANGED mode
    BY <1>5 DEF SQLInstallDriver
  <2>2. <<"SQLInstallDriver", "r", given, "d">> \in Requests /\ "SQLInstallDriver" \in Installs
    BY DEF Requests, Installs
  <2> QED BY <1>4, <2>1, <2>2
<1>6. CASE SQLInstallDriverEx(p)
  <2>1. PICK given \in {"Driver", "source", "early", "bare"} :
          Begin(p, "SQLInstallDriverEx", "r", given, "d", Once(p, <<"inst", "odbc">>, TRUE)) /\ UNCHANGED mode
    BY <1>6 DEF SQLInstallDriverEx
  <2>2. <<"SQLInstallDriverEx", "r", given, "d">> \in Requests /\ "SQLInstallDriverEx" \in Installs
    BY DEF Requests, Installs
  <2> QED BY <1>4, <2>1, <2>2
<1>7. CASE SQLInstallTranslatorEx(p)
  <2>1. PICK given \in {"Translator", "bare"} :
          Begin(p, "SQLInstallTranslatorEx", "t", given, Null, Once(p, <<"inst", "odbc">>, TRUE)) /\ UNCHANGED mode
    BY <1>7 DEF SQLInstallTranslatorEx
  <2>2. <<"SQLInstallTranslatorEx", "t", given, Null>> \in Requests /\ "SQLInstallTranslatorEx" \in Installs
    BY DEF Requests, Installs
  <2> QED BY <1>4, <2>1, <2>2
<1>8. CASE SQLRemoveDriver(p)
  <2> DEFINE fn == "SQLRemoveDriver"
             todo == Once(p, <<"odbc", "inst">>, FALSE)
  <2>1. PICK sources \in {Null, "sources"} : Begin(p, fn, "r", Null, sources, todo) /\ UNCHANGED mode
    BY <1>8 DEF SQLRemoveDriver
  <2>2. <<fn, "r", Null, sources>> \in Requests
    BY DEF Requests
  <2>3. fn \in Readers \cup Writers /\ fn \notin Own /\ KindsOf(fn) = {<<"odbc", "inst">>}
    BY SomeKinds
  <2>4. TodoIs(fn, todo) /\ ScopedTodo(p, todo)
    BY <1>0, <2>3, OnceIs
  <2> HIDE DEF todo, fn
  <2> QED BY <2>1, <2>2, <2>4, BeginIs
<1> QED BY <1>1, <1>2, <1>3, <1>5, <1>6, <1>7, <1>8

LEMMA DriverFilesIs ==
  /\ \A fn \in Callbacks : TodoIs(fn, BothDriverFiles)
  /\ \A i \in 1 .. Len(BothDriverFiles) :
       BothDriverFiles[i].kinds = <<"inst">> /\ BothDriverFiles[i].create /\ BothDriverFiles[i].scope \in {"user", "system"}
<1> DEFINE after == {"nopath", "failed"}
           a == Attempt("user", <<"inst">>, TRUE, {})
           b == Attempt("system", <<"inst">>, TRUE, after)
<1>1. BothDriverFiles = <<a, b>>
  BY DEF BothDriverFiles
<1>2. \A fn \in Callbacks : fn \in Readers \ Own /\ <<"inst">> \in KindsOf(fn) /\ fn \in Readers \cup Writers
  BY SomeKinds DEF Readers, Callbacks, Own
<1>a. after \in SUBSET {"nopath", "failed", "empty", "done"} /\ {} \in SUBSET {"nopath", "failed", "empty", "done"}
  OBVIOUS
<1> HIDE DEF after
<1>b. a = [scope |-> "user", kinds |-> <<"inst">>, create |-> TRUE, after |-> {}]
      /\ b = [scope |-> "system", kinds |-> <<"inst">>, create |-> TRUE, after |-> after]
  BY DEF Attempt
<1> HIDE DEF a, b
<1>c. a.scope = "user" /\ b.scope = "system" /\ a.kinds = <<"inst">> /\ b.kinds = <<"inst">> /\ a.create /\ b.create
  BY <1>b
<1>3. ASSUME NEW fn \in Callbacks
      PROVE  /\ a \in Attempts /\ a.kinds \in KindsOf(fn) /\ (a.scope = "own" <=> fn \in Own)
             /\ b \in Attempts /\ b.kinds \in KindsOf(fn) /\ (b.scope = "own" <=> fn \in Own)
  <2>1. fn \in Readers \cup Writers /\ fn \notin Own /\ <<"inst">> \in KindsOf(fn)
    BY <1>2
  <2>2. <<"inst">> \in UNION {KindsOf(n) : n \in Readers \cup Writers}
    BY <2>1
  <2>3. a \in Attempts /\ b \in Attempts
    BY <1>a, <1>b, <2>2 DEF Attempts
  <2> QED BY <1>c, <2>1, <2>3
<1>4. ASSUME NEW fn \in Callbacks PROVE TodoIs(fn, <<a, b>>)
  BY <1>3, TodoFew
<1>5. "SQLConfigDriver" \in Callbacks
  BY DEF Callbacks
<1>6. ASSUME NEW i \in 1 .. 2
      PROVE  <<a, b>>[i].kinds = <<"inst">> /\ <<a, b>>[i].create /\ <<a, b>>[i].scope \in {"user", "system"}
  <2>1. i = 1 \/ i = 2
    OBVIOUS
  <2> QED BY <1>c, <2>1
<1> QED BY <1>1, <1>4, <1>6

LEMMA ReadsStart ==
  ASSUME Shapes, NEW p \in Procs,
         \/ SQLGetPrivateProfileString(p) \/ SQLGetInstalledDrivers(p) \/ SQLConfigDriver(p) \/ GetTranslator(p)
         \/ SQLRemoveTranslator(p) \/ RemoveDefaultDataSource(p)
  PROVE  Starts(p)
<1>0. mode[p] \in Modes
  BY DEF Shapes, Modes
<1>a. {"nopath", "failed", "done"} \in SUBSET {"nopath", "failed", "empty", "done"} /\ {} \in SUBSET {"nopath", "failed", "empty", "done"}
      /\ {"done"} \in SUBSET {"nopath", "failed", "empty", "done"}
      /\ {"nopath", "failed", "empty"} \in SUBSET {"nopath", "failed", "empty", "done"}
  OBVIOUS
<1>1. CASE SQLGetPrivateProfileString(p)
  <2> DEFINE fn == "SQLGetPrivateProfileString"
             after == {"nopath", "failed", "empty"}
             todo == UserThenSystem(p, <<"odbc">>, FALSE, after)
  <2>1. PICK default \in {Null, "v"} : Begin(p, fn, "a", "k", default, todo) /\ UNCHANGED mode
    BY <1>1 DEF SQLGetPrivateProfileString
  <2>2. fn \in Readers /\ fn \notin Callbacks /\ fn \notin Own
    BY DEF Readers, Callbacks, Own
  <2>3. KindsOf(fn) = {<<"odbc">>, <<"inst">>} /\ fn \in Readers \cup Writers
    BY <2>2, SomeKinds
  <2>4. after \in SUBSET {"nopath", "failed", "empty", "done"}
    OBVIOUS
  <2> HIDE DEF after
  <2>5. TodoIs(fn, todo) /\ ScopedTodo(p, todo)
    BY <1>0, <2>2, <2>3, <2>4, UserThenSystemIs
  <2> HIDE DEF todo, fn
  <2> QED BY <2>1, <2>2, <2>5, BeginIs
<1>2. CASE SQLGetInstalledDrivers(p)
  <2> DEFINE fn == "SQLGetInstalledDrivers"
             after == {"nopath", "failed", "done"}
             a == Attempt("user", <<"inst">>, FALSE, {})
             b == Attempt("system", <<"inst">>, FALSE, after)
             todo == <<a, b>>
  <2>1. Begin(p, fn, Null, Null, Null, todo) /\ UNCHANGED mode
    BY <1>2 DEF SQLGetInstalledDrivers
  <2>2. fn \in Readers /\ fn \notin Callbacks /\ fn \notin Own
    BY DEF Readers, Callbacks, Own
  <2>3. <<"inst">> \in KindsOf(fn) /\ fn \in Readers \cup Writers /\ fn \notin Scoped
    BY <2>2, SomeKinds
  <2> HIDE DEF after
  <2>4. /\ a \in Attempts /\ a.kinds \in KindsOf(fn) /\ (a.scope = "own" <=> fn \in Own)
        /\ b \in Attempts /\ b.kinds \in KindsOf(fn) /\ (b.scope = "own" <=> fn \in Own)
    <3>1. after \in SUBSET {"nopath", "failed", "empty", "done"}
      BY DEF after
    <3>2. /\ FALSE \in BOOLEAN /\ "user" \in {"user", "system"} /\ "system" \in {"user", "system"}
          /\ {} \in SUBSET {"nopath", "failed", "empty", "done"}
      OBVIOUS
    <3>3. a \in Attempts /\ a.kinds \in KindsOf(fn) /\ (a.scope = "own" <=> fn \in Own)
      BY <2>2, <2>3, <3>2, AttemptFor
    <3>4. b \in Attempts /\ b.kinds \in KindsOf(fn) /\ (b.scope = "own" <=> fn \in Own)
      BY <2>2, <2>3, <3>1, <3>2, AttemptFor
    <3> QED BY <3>3, <3>4
  <2> HIDE DEF a, b, fn
  <2>5. TodoIs(fn, todo)
    BY <2>4, TodoFew
  <2> HIDE DEF todo
  <2> QED BY <2>1, <2>2, <2>3, <2>5, BeginIs
<1>3. ASSUME NEW fn \in {"SQLConfigDriver", "GetTranslator"},
             Begin(p, fn, Null, Null, Null, BothDriverFiles), UNCHANGED mode
      PROVE  Starts(p)
  <2>1. fn \in Callbacks /\ fn \in Readers \ Own
    BY DEF Readers, Callbacks, Own
  <2>2. TodoIs(fn, BothDriverFiles) /\ fn \notin Scoped
    BY <2>1, DriverFilesIs, SomeKinds
  <2> QED BY <1>3, <2>1, <2>2, BeginIs
<1>4. CASE SQLConfigDriver(p) \/ GetTranslator(p)
  BY <1>3, <1>4 DEF SQLConfigDriver, GetTranslator
<1>5. CASE SQLRemoveTranslator(p)
  <2> DEFINE fn == "SQLRemoveTranslator"
             a == Attempt("user", <<"inst">>, FALSE, {})
             todo == <<a>>
  <2>1. Begin(p, fn, "t", Null, Null, todo) /\ UNCHANGED mode
    BY <1>5 DEF SQLRemoveTranslator
  <2>2. fn \in Writers /\ fn \notin Own /\ fn \notin Scoped /\ <<fn, "t", Null, Null>> \in Requests
    BY WritersAre DEF Scoped, Own, Requests
  <2>3. <<"inst">> \in KindsOf(fn) /\ fn \in Readers \cup Writers
    BY <2>2, SomeKinds DEF Installs
  <2>4. a \in Attempts /\ a.kinds \in KindsOf(fn) /\ (a.scope = "own" <=> fn \in Own)
    BY <1>a, <2>2, <2>3, AttemptFor
  <2> HIDE DEF a, fn
  <2>5. TodoIs(fn, todo)
    BY <2>4, TodoFew
  <2> HIDE DEF todo
  <2> QED BY <2>1, <2>2, <2>5, BeginIs
<1>6. CASE RemoveDefaultDataSource(p)
  <2> DEFINE fn == "RemoveDefaultDataSource"
             after == {"done"}
             a == Attempt("user", <<"odbc">>, TRUE, {})
             b == Attempt("user", <<"inst">>, TRUE, after)
             c == Attempt("system", <<"inst">>, TRUE, after)
             todo == <<a, b, c>>
  <2>1. Begin(p, fn, "Default", Null, Null, todo) /\ UNCHANGED mode
    BY <1>6 DEF RemoveDefaultDataSource
  <2>2. fn \in Writers /\ fn \notin Own /\ fn \notin Scoped /\ <<fn, "Default", Null, Null>> \in Requests
    BY WritersAre DEF Scoped, Own, Requests
  <2>3. <<"inst">> \in KindsOf(fn) /\ <<"odbc">> \in KindsOf(fn) /\ fn \in Readers \cup Writers
    BY <2>2, SomeKinds DEF Installs
  <2>a. after \in SUBSET {"nopath", "failed", "empty", "done"} /\ {} \in SUBSET {"nopath", "failed", "empty", "done"}
        /\ TRUE \in BOOLEAN
    OBVIOUS
  <2> HIDE DEF after, fn
  <2>b. a \in Attempts /\ a.kinds \in KindsOf(fn) /\ (a.scope = "own" <=> fn \in Own)
    BY <2>2, <2>3, <2>a, AttemptFor
  <2>c. b \in Attempts /\ b.kinds \in KindsOf(fn) /\ (b.scope = "own" <=> fn \in Own)
    BY <2>2, <2>3, <2>a, AttemptFor
  <2>d. c \in Attempts /\ c.kinds \in KindsOf(fn) /\ (c.scope = "own" <=> fn \in Own)
    BY <2>2, <2>3, <2>a, AttemptFor
  <2>4. /\ a \in Attempts /\ a.kinds \in KindsOf(fn) /\ (a.scope = "own" <=> fn \in Own)
        /\ b \in Attempts /\ b.kinds \in KindsOf(fn) /\ (b.scope = "own" <=> fn \in Own)
        /\ c \in Attempts /\ c.kinds \in KindsOf(fn) /\ (c.scope = "own" <=> fn \in Own)
    BY <2>b, <2>c, <2>d
  <2> HIDE DEF a, b, c
  <2>5. TodoIs(fn, todo)
    BY <2>4, TodoFew
  <2> HIDE DEF todo
  <2> QED BY <2>1, <2>2, <2>5, BeginIs
<1> QED BY <1>1, <1>2, <1>4, <1>5, <1>6

LEMMA OthersStart ==
  ASSUME Shapes, NEW p \in Procs,
         SQLConfigDataSource(p) \/ SQLWriteFileDSN(p) \/ SQLReadFileDSN(p)
  PROVE  Starts(p)
<1>0. /\ mode \in [Procs -> {"both", "user", "system"}]
      /\ asked \in [Procs -> {"both", "user", "system"}]
  BY DEF Shapes
<1>1. CASE SQLConfigDataSource(p)
  <2>1. PICK scope \in {"user", "system"} :
          /\ call[p] = NoCall
          /\ mode' = [mode EXCEPT ![p] = scope] /\ asked' = [asked EXCEPT ![p] = scope]
          /\ call' = [call EXCEPT ![p] = [NoCall EXCEPT !.fn = "SQLConfigDataSource", !.todo = BothDriverFiles]]
          /\ UNCHANGED <<disk, present, readonly, outer, version, due, raced, mixed, broken, odd>>
    BY <1>1 DEF SQLConfigDataSource
  <2> DEFINE todo == BothDriverFiles
             fn == "SQLConfigDataSource"
             x == Beginning(fn, Null, Null, Null, todo, "both")
             n == NoCall
  <2>y. PICK y : y = [n EXCEPT !.fn = fn, !.todo = todo]
    OBVIOUS
  <2>z. PICK z : z = [n EXCEPT !.fn = fn, !.s = Null, !.k = Null, !.v = Null, !.todo = todo, !.asked = "both"]
    OBVIOUS
  <2>a. n = [fn |-> Null, s |-> Null, k |-> Null, v |-> Null, todo |-> <<>>, open |-> <<>>,
             at |-> 0, writing |-> FALSE, asked |-> "both", retry |-> FALSE]
    BY DEF NoCall
  <2>b. x = z
    BY <2>z DEF Beginning
  <2>c. call' = [call EXCEPT ![p] = y]
    BY <2>1, <2>y
  <2> HIDE DEF n, todo, fn
  <2>d. y = [fn |-> fn, s |-> Null, k |-> Null, v |-> Null, todo |-> todo, open |-> <<>>,
             at |-> 0, writing |-> FALSE, asked |-> "both", retry |-> FALSE]
    BY <2>a, <2>y
  <2>e. z = [fn |-> fn, s |-> Null, k |-> Null, v |-> Null, todo |-> todo, open |-> <<>>,
             at |-> 0, writing |-> FALSE, asked |-> "both", retry |-> FALSE]
    BY <2>a, <2>z
  <2>2. y = x
    BY <2>b, <2>d, <2>e
  <2>3. fn \in Callbacks /\ fn \in Readers \ Own
    BY DEF Readers, Callbacks, Own, fn
  <2>4. TodoIs(fn, todo) /\ fn \notin Scoped
    BY <2>3, DriverFilesIs, SomeKinds DEF todo
  <2>6. call' = [call EXCEPT ![p] = x]
    BY <2>2, <2>c
  <2>f. todo = BothDriverFiles /\ fn \in Readers
    BY <2>3 DEF todo
  <2>5. /\ IsCall(x) /\ x.open = <<>> /\ ~ x.writing /\ ~ x.retry /\ x.fn = fn /\ x.fn # Null
        /\ x.todo = todo
    <3>1. fn \in Readers \/ <<fn, Null, Null, Null>> \in Requests
      BY <2>f
    <3> QED BY <2>4, <3>1, BegunIs
  <2> HIDE DEF x
  <2>7. mode'[p] = asked'[p] /\ Mode(p) /\ Same
    BY <1>0, <2>1 DEF Mode, Modes, Same
  <2>8. Begun(p, x)
    BY <2>f, <2>3, <2>4, <2>5, <2>6, <2>7 DEF Begun, Moves
  <2> QED BY <2>1, <2>7, <2>8 DEF Starts
<1>2. ASSUME NEW fn \in Own, NEW create \in BOOLEAN, OwnFile(p, fn, create),
             fn \in Readers \/ <<fn, "a", "k", "v">> \in Requests
      PROVE  Starts(p)
  <2> DEFINE todo == <<Attempt("own", <<"dsn">>, create, {})>>
             x == Beginning(fn, "a", "k", "v", todo, "both")
             n == NoCall
  <2>y. PICK y : y = [n EXCEPT !.fn = fn, !.s = "a", !.k = "k", !.v = "v", !.todo = todo]
    OBVIOUS
  <2>1. PICK directory \in BOOLEAN :
          /\ call[p] = NoCall /\ call' = [call EXCEPT ![p] = y]
          /\ Looked(p, directory)
          /\ UNCHANGED <<disk, present, readonly, outer, version, due, raced, mixed, broken, odd>>
    BY <1>2, <2>y DEF OwnFile
  <2>2. fn \in Readers \cup Writers /\ KindsOf(fn) = {<<"dsn">>} /\ fn \notin Scoped
    BY SomeKinds
  <2>3. fn \in Keeping /\ fn \notin Callbacks
    BY DEF Own, Keeping, Callbacks
  <2>4. TodoIs(fn, todo)
    <3> DEFINE a == Attempt("own", <<"dsn">>, create, {})
    <3>1. a \in Attempts /\ a.kinds \in KindsOf(fn) /\ (a.scope = "own" <=> fn \in Own)
      BY <2>2, AttemptIs
    <3> HIDE DEF a
    <3>2. TodoIs(fn, <<a>>)
      BY <3>1, TodoFew
    <3> QED BY <3>2 DEF a
  <2>5. y = x
    <3>1. n = [fn |-> Null, s |-> Null, k |-> Null, v |-> Null, todo |-> <<>>, open |-> <<>>,
               at |-> 0, writing |-> FALSE, asked |-> "both", retry |-> FALSE]
      BY DEF NoCall
    <3>z. PICK z : z = [n EXCEPT !.fn = fn, !.s = "a", !.k = "k", !.v = "v", !.todo = todo, !.asked = "both"]
      OBVIOUS
    <3>2. x = z
      BY <3>z DEF Beginning
    <3> HIDE DEF todo, n
    <3>3. y = [fn |-> fn, s |-> "a", k |-> "k", v |-> "v", todo |-> todo, open |-> <<>>,
               at |-> 0, writing |-> FALSE, asked |-> "both", retry |-> FALSE]
      BY <2>y, <3>1
    <3>4. z = [fn |-> fn, s |-> "a", k |-> "k", v |-> "v", todo |-> todo, open |-> <<>>,
               at |-> 0, writing |-> FALSE, asked |-> "both", retry |-> FALSE]
      BY <3>z, <3>1
    <3> QED BY <3>2, <3>3, <3>4
  <2> HIDE DEF todo
  <2>6. IsCall(x) /\ x.open = <<>> /\ ~ x.writing /\ ~ x.retry /\ x.fn = fn /\ x.fn # Null
    BY <1>2, <2>4, BegunIs
  <2> HIDE DEF x
  <2>7. Mode(p) /\ (mode[p] = asked[p] => mode'[p] = asked'[p])
    BY <1>0, <2>1 DEF Mode, Modes, Looked
  <2>8. Begun(p, x)
    BY <2>1, <2>2, <2>3, <2>5, <2>6, <2>7 DEF Begun, Moves
  <2> QED BY <2>1, <2>7, <2>8 DEF Starts, Same
<1>3. CASE SQLWriteFileDSN(p)
  <2>1. "SQLWriteFileDSN" \in Own /\ <<"SQLWriteFileDSN", "a", "k", "v">> \in Requests
    BY DEF Own, Requests
  <2> QED BY <1>2, <1>3, <2>1 DEF SQLWriteFileDSN
<1>4. CASE SQLReadFileDSN(p)
  <2>1. "SQLReadFileDSN" \in Own /\ "SQLReadFileDSN" \in Readers
    BY DEF Own, Readers
  <2> QED BY <1>2, <1>4, <2>1 DEF SQLReadFileDSN
<1> QED BY <1>1, <1>3, <1>4

LEMMA KindIs ==
  ASSUME NEW fn, NEW kinds \in KindsOf(fn)
  PROVE  /\ Len(kinds) \in 1 .. 2
         /\ \A i \in 1 .. Len(kinds) : kinds[i] \in {"odbc", "inst", "dsn"} /\ (kinds[i] = "dsn" <=> fn \in Own)
         /\ fn \in Installs => kinds = <<"inst", "odbc">>
         /\ fn = "SQLRemoveDriver" => kinds = <<"odbc", "inst">>
<1>1. CASE fn \in Installs
  <2>1. kinds = <<"inst", "odbc">> /\ fn \notin Own /\ fn # "SQLRemoveDriver"
    BY <1>1 DEF KindsOf, Installs, Own
  <2> QED BY <1>1, <2>1
<1>2. CASE fn = "SQLRemoveDriver"
  <2>1. kinds = <<"odbc", "inst">> /\ fn \notin Own /\ fn \notin Installs
    BY <1>2 DEF KindsOf, Installs, Own
  <2> QED BY <1>2, <2>1
<1>3. CASE fn \in Own
  <2>1. kinds = <<"dsn">> /\ fn \notin Installs /\ fn # "SQLRemoveDriver"
    BY <1>3 DEF KindsOf, Installs, Own
  <2> QED BY <1>3, <2>1
<1>4. CASE fn \notin Installs /\ fn # "SQLRemoveDriver" /\ fn \notin Own
  <2>1. kinds = <<"odbc">> \/ kinds = <<"inst">>
    BY <1>4 DEF KindsOf
  <2> QED BY <1>4, <2>1
<1> QED BY <1>1, <1>2, <1>3, <1>4

(* A call that has opened one more of its files.                           *)
Opening(c, e) == [c EXCEPT !.open = Append(c.open, e)]

LEMMA OpeningIs ==
  ASSUME NEW c, IsCall(c), c.todo # <<>>, c.at = 0, Len(c.open) < Len(c.todo[1].kinds),
         NEW e, Entry(e), Unedited(e.table), e.kind = c.todo[1].kinds[Len(c.open) + 1],
         NEW x, x = Opening(c, e)
  PROVE  /\ IsCall(x) /\ x.fn = c.fn /\ x.s = c.s /\ x.k = c.k /\ x.v = c.v /\ x.todo = c.todo /\ x.at = 0
         /\ x.asked = c.asked /\ x.retry = c.retry /\ ~ x.writing /\ ~ c.writing
         /\ x.open = Append(c.open, e) /\ IsSeq(x.open) /\ Len(c.open) \in Nat /\ Len(x.open) = Len(c.open) + 1
         /\ \A i \in 1 .. Len(c.open) : x.open[i] = c.open[i]
         /\ x.open[Len(x.open)] = e
<1>1. /\ c = [fn |-> c.fn, s |-> c.s, k |-> c.k, v |-> c.v, todo |-> c.todo, open |-> c.open,
              at |-> c.at, writing |-> c.writing, asked |-> c.asked, retry |-> c.retry]
      /\ Asks(c) /\ Opened(c) /\ Placed(c)
  BY DEF IsCall
<1> DEFINE open == Append(c.open, e)
<1>2. x = [fn |-> c.fn, s |-> c.s, k |-> c.k, v |-> c.v, todo |-> c.todo, open |-> open,
           at |-> c.at, writing |-> c.writing, asked |-> c.asked, retry |-> c.retry]
  <2> HIDE DEF open
  <2> QED BY <1>1 DEF Opening, open
<1>3. /\ IsSeq(open) /\ Len(c.open) \in Nat /\ Len(open) = Len(c.open) + 1 /\ open # <<>>
      /\ \A i \in 1 .. Len(c.open) : open[i] = c.open[i]
      /\ open[Len(open)] = e
  <2> DEFINE s == c.open
  <2>1. IsSeq(s)
    BY <1>1 DEF Opened
  <2> HIDE DEF s
  <2>2. Longer(s, e, Append(s, e))
    BY <2>1, SeqMore
  <2>3. Longer(c.open, e, open)
    BY <2>2 DEF s
  <2> HIDE DEF open
  <2> QED BY <2>3 DEF Longer
<1> HIDE DEF open
<1>4. /\ x.fn = c.fn /\ x.s = c.s /\ x.k = c.k /\ x.v = c.v /\ x.todo = c.todo /\ x.open = open
      /\ x.at = c.at /\ x.writing = c.writing /\ x.asked = c.asked /\ x.retry = c.retry
  BY <1>2
<1>5. Asks(x)
  BY <1>1, <1>4 DEF Asks
<1>6. ~ c.writing
  BY <1>1 DEF Placed
<1>7. Len(c.todo[1].kinds) \in Nat
  <2>1. c.todo[1].kinds \in KindsOf(c.fn)
    <3>1. c.todo \in Seq(Attempts) /\ Len(c.todo) \in Nat /\ Len(c.todo) # 0
      BY <1>1 DEF Asks
    <3>2. 1 \in 1 .. Len(c.todo)
      BY <3>1
    <3> QED BY <1>1, <3>2 DEF Asks
  <2> QED BY <2>1, KindIs
<1>8. ASSUME NEW i \in 1 .. Len(open)
      PROVE  Entry(open[i]) /\ open[i].kind = c.todo[1].kinds[i] /\ Unedited(open[i].table)
  <2>1. CASE i = Len(open)
    BY <1>3, <2>1
  <2>2. CASE i # Len(open)
    <3>1. i \in 1 .. Len(c.open) /\ open[i] = c.open[i]
      BY <1>3, <2>2
    <3>2. Unedited(c.open[i].table)
      BY <1>1, <3>1 DEF Placed
    <3> QED BY <1>1, <3>1, <3>2 DEF Opened
  <2> QED BY <2>1, <2>2
<1>9. Opened(x)
  BY <1>3, <1>4, <1>7, <1>8 DEF Opened
<1>10. Placed(x)
  BY <1>3, <1>4, <1>6, <1>8 DEF Placed
<1>11. IsCall(x)
  BY <1>2, <1>4, <1>5, <1>9, <1>10 DEF IsCall
<1> QED BY <1>3, <1>4, <1>6, <1>11 DEF open

LEMMA NextDirtyIs ==
  ASSUME NEW open, Len(open) \in Nat, NEW i \in Nat, i > 0, NEW n, n = NextDirty(open, i)
  PROVE  n = 0 \/ n \in i .. Len(open)
<1> DEFINE S == {j \in i .. Len(open) : open[j].table.dirty}
<1>1. S \subseteq Nat /\ n = First(S, 0) /\ \A j \in S : j \in i .. Len(open)
  BY DEF NextDirty
<1> HIDE DEF S
<1> QED BY <1>1, FirstIs

(* An entry after the changes to its table.                                *)
Alike(e, d) ==
  d.file = e.file /\ d.kind = e.kind /\ d.version = e.version /\ d.torn = e.torn /\ d.users = e.users

LEMMA EntryWritten ==
  ASSUME NEW e, Entry(e), Unedited(e.table), NEW l \in Seq(Change3),
         NEW d, d = [e EXCEPT !.table = Written(e.table, l)]
  PROVE  /\ Entry(d) /\ Alike(e, d) /\ After(e.table, d.table, l)
         /\ l = <<>> => d.table = e.table
<1>1. e = [file |-> e.file, kind |-> e.kind, table |-> e.table, version |-> e.version,
           torn |-> e.torn, users |-> e.users]
  BY DEF Entry
<1> DEFINE u == Written(e.table, l)
<1>2. After(e.table, u, l) /\ (l = <<>> => u = e.table)
  BY WrittenIs DEF Entry, Unedited
<1> HIDE DEF u
<1>3. d = [file |-> e.file, kind |-> e.kind, table |-> u, version |-> e.version,
           torn |-> e.torn, users |-> e.users]
  BY <1>1 DEF u
<1>4. /\ d.file = e.file /\ d.kind = e.kind /\ d.table = u /\ d.version = e.version /\ d.torn = e.torn
      /\ d.users = e.users
  BY <1>3
<1>5. IsTable(u) /\ (Unique(e.table.lines) => Unique(u.lines))
  BY <1>2 DEF After
<1>6. Entry(d)
  BY <1>3, <1>4, <1>5 DEF Entry
<1> QED BY <1>2, <1>4, <1>6 DEF Alike

(* A call that has changed all its tables, and is about to write the n-th. *)
Editing(c, new, n) == [c EXCEPT !.open = new, !.at = n]

LEMMA EditingIs ==
  ASSUME NEW c, IsCall(c), c.todo # <<>>, c.fn \in Writers, ~ c.writing, NEW new, IsSeq(new), Len(new) \in Nat,
         Len(new) = Len(c.todo[1].kinds), \A i \in 1 .. Len(new) : Entry(new[i]) /\ new[i].kind = c.todo[1].kinds[i],
         NEW n \in 1 .. Len(new), NEW x, x = Editing(c, new, n)
  PROVE  /\ IsCall(x) /\ x.fn = c.fn /\ x.s = c.s /\ x.k = c.k /\ x.v = c.v /\ x.todo = c.todo /\ x.at = n
         /\ x.asked = c.asked /\ x.retry = c.retry /\ ~ x.writing /\ x.open = new
<1>1. /\ c = [fn |-> c.fn, s |-> c.s, k |-> c.k, v |-> c.v, todo |-> c.todo, open |-> c.open,
              at |-> c.at, writing |-> c.writing, asked |-> c.asked, retry |-> c.retry]
      /\ Asks(c)
  BY DEF IsCall
<1>2. x = [fn |-> c.fn, s |-> c.s, k |-> c.k, v |-> c.v, todo |-> c.todo, open |-> new,
           at |-> n, writing |-> c.writing, asked |-> c.asked, retry |-> c.retry]
  BY <1>1 DEF Editing
<1>4. /\ x.fn = c.fn /\ x.s = c.s /\ x.k = c.k /\ x.v = c.v /\ x.todo = c.todo /\ x.open = new
      /\ x.at = n /\ x.writing = c.writing /\ x.asked = c.asked /\ x.retry = c.retry
  BY <1>2
<1>5. Asks(x)
  BY <1>1, <1>4 DEF Asks
<1>6. Opened(x)
  BY <1>4 DEF Opened
<1>7. Placed(x)
  BY <1>4 DEF Placed
<1>8. IsCall(x)
  BY <1>2, <1>4, <1>5, <1>6, <1>7 DEF IsCall
<1> QED BY <1>4, <1>8

(* All files of an attempt of call c are loaded, and then changed.         *)
AllOpen(c, open) ==
  /\ IsSeq(open) /\ Len(open) = Len(c.todo[1].kinds) /\ c.todo[1].kinds \in KindsOf(c.fn)
  /\ \A i \in 1 .. Len(open) :
       Entry(open[i]) /\ open[i].kind = c.todo[1].kinds[i] /\ Unedited(open[i].table)
EditOf(c, open, new) ==
  /\ IsSeq(new) /\ Len(new) = Len(open)
  /\ \A i \in 1 .. Len(open) :
       /\ Entry(new[i]) /\ Alike(open[i], new[i])
       /\ \E l \in Seq(Change3) : /\ After(open[i].table, new[i].table, l)
                                  /\ open[i].kind = "odbc" => KeepsSources(l) \/ Unlisted(c, new)
Changing(open, changes) ==
  [i \in DOMAIN open |-> [open[i] EXCEPT !.table = Written(@, changes[open[i].kind])]]

LEMMA ChangingIs ==
  ASSUME NEW c, NEW open, AllOpen(c, open), NEW changes, IsChanges(changes), NEW new, new = Changing(open, changes)
  PROVE  /\ IsSeq(new) /\ Len(new) = Len(open) /\ Len(open) \in Nat
         /\ \A i \in 1 .. Len(open) :
              /\ changes[open[i].kind] \in Seq(Change3)
              /\ Entry(new[i]) /\ Alike(open[i], new[i])
              /\ After(open[i].table, new[i].table, changes[open[i].kind])
              /\ changes[open[i].kind] = <<>> => new[i].table = open[i].table
<1>1. IsSeq(open) /\ new = [i \in DOMAIN open |-> new[i]]
  BY DEF AllOpen, Changing
<1>2. IsSeq(new) /\ Len(new) = Len(open) /\ Len(open) \in Nat /\ DOMAIN open = 1 .. Len(open)
  BY <1>1, SeqMapped
<1>3. ASSUME NEW i \in 1 .. Len(open)
      PROVE  /\ changes[open[i].kind] \in Seq(Change3)
             /\ Entry(new[i]) /\ Alike(open[i], new[i])
             /\ After(open[i].table, new[i].table, changes[open[i].kind])
             /\ changes[open[i].kind] = <<>> => new[i].table = open[i].table
  <2>1. Entry(open[i]) /\ Unedited(open[i].table) /\ open[i].kind = c.todo[1].kinds[i]
    BY DEF AllOpen
  <2>2. open[i].kind \in {"odbc", "inst", "dsn"}
    <3>1. c.todo[1].kinds \in KindsOf(c.fn) /\ i \in 1 .. Len(c.todo[1].kinds)
      BY DEF AllOpen
    <3> QED BY <2>1, <3>1, KindIs
  <2>3. changes[open[i].kind] \in Seq(Change3)
    BY <2>2 DEF IsChanges
  <2>4. new[i] = [open[i] EXCEPT !.table = Written(open[i].table, changes[open[i].kind])]
    BY <1>2 DEF Changing
  <2> DEFINE e == open[i]
             l == changes[open[i].kind]
  <2>5. Entry(e) /\ Unedited(e.table) /\ l \in Seq(Change3) /\ new[i] = [e EXCEPT !.table = Written(e.table, l)]
    BY <2>1, <2>3, <2>4
  <2> HIDE DEF e, l
  <2>6. /\ Entry(new[i]) /\ Alike(e, new[i]) /\ After(e.table, new[i].table, l)
        /\ l = <<>> => new[i].table = e.table
    BY <2>5, EntryWritten
  <2> QED BY <2>3, <2>6 DEF e, l
<1> QED BY <1>2, <1>3

LEMMA EditIs ==
  ASSUME NEW c, Asks(c), c.fn \in Writers, NEW open, AllOpen(c, open), NEW new,
         new = Changing(open, Changes(c, open)), \A f \in Files : disk[f] \in Seq(Line)
  PROVE  EditOf(c, open, new)
<1> DEFINE ch == Changes(c, open)
<1>0. Len(open) \in 1 .. 2 /\ Entry(open[1]) /\ open[1].kind = c.todo[1].kinds[1]
  <2>1. c.todo[1].kinds \in KindsOf(c.fn) /\ Len(open) = Len(c.todo[1].kinds)
    BY DEF AllOpen
  <2>2. Len(open) \in 1 .. 2
    BY <2>1, KindIs
  <2> QED BY <2>2 DEF AllOpen
<1>1. IsChanges(ch) /\ (KeepsSources(ch.odbc) \/ Unlisted(c, open))
  <2>1. open[1].table.lines \in Seq(Line)
    BY <1>0 DEF Entry, IsTable
  <2> QED BY <2>1, ChangesAre
<1>a. ch.inst = Changes(c, open).inst /\ new = Changing(open, ch)
  OBVIOUS
<1> HIDE DEF ch
<1>2. /\ IsSeq(new) /\ Len(new) = Len(open) /\ Len(open) \in Nat
      /\ \A i \in 1 .. Len(open) :
           /\ ch[open[i].kind] \in Seq(Change3)
           /\ Entry(new[i]) /\ Alike(open[i], new[i])
           /\ After(open[i].table, new[i].table, ch[open[i].kind])
  BY <1>1, <1>a, ChangingIs
<1>3. Unlisted(c, open) => Unlisted(c, new)
  <2> SUFFICES ASSUME c.fn \in Installs, Bare(Listing(c, open)) PROVE Bare(Listing(c, new))
    BY DEF Unlisted
  <2>1. open[1].kind = "inst"
    <3>1. c.todo[1].kinds = <<"inst", "odbc">>
      BY KindIs DEF AllOpen
    <3> QED BY <1>0, <3>1
  <2>2. Elsewhere(ch.inst)
    BY <1>a, InstallsElsewhere
  <2>3. ch[open[1].kind] = ch.inst /\ 1 \in 1 .. Len(open)
    BY <1>0, <2>1
  <2>4. After(open[1].table, new[1].table, ch.inst) /\ Entry(new[1])
    BY <1>2, <2>3
  <2>5. Has(new[1].table.lines, "d") <=> Has(open[1].table.lines, "d")
    <3>1. "d" # Null
      BY DEF Null
    <3> QED BY <2>2, <2>4, <3>1 DEF After, Elsewhere
  <2>6. ASSUME NEW lines \in Seq(Line) PROVE SectionAt(lines, "d") = 0 <=> ~ Has(lines, "d")
    BY SectionAtIs DEF Has
  <2>7. new[1].table.lines \in Seq(Line) /\ open[1].table.lines \in Seq(Line)
    BY <1>0, <2>4 DEF Entry, IsTable
  <2>8. SectionAt(open[1].table.lines, "d") = 0 <=> SectionAt(new[1].table.lines, "d") = 0
    BY <2>5, <2>6, <2>7
  <2>9. c.v = "d" \/ c.k \notin {"source", "early"}
    <3>1. <<c.fn, c.s, c.k, c.v>> \in Requests
      BY WriterAsks
    <3> QED BY <3>1, RequestIs DEF Installs
  <2> QED BY <2>8, <2>9, ListingStays
<1>4. ASSUME NEW i \in 1 .. Len(open)
      PROVE  /\ Entry(new[i]) /\ Alike(open[i], new[i])
             /\ \E l \in Seq(Change3) : /\ After(open[i].table, new[i].table, l)
                                        /\ open[i].kind = "odbc" => KeepsSources(l) \/ Unlisted(c, new)
  <2>1. open[i].kind = "odbc" => ch[open[i].kind] = ch.odbc
    OBVIOUS
  <2> DEFINE l == ch[open[i].kind]
  <2>2. l \in Seq(Change3) /\ After(open[i].table, new[i].table, l)
    BY <1>2
  <2>3. open[i].kind = "odbc" => KeepsSources(l) \/ Unlisted(c, new)
    BY <1>1, <1>3, <2>1
  <2> HIDE DEF l
  <2> QED BY <1>2, <2>2, <2>3
<1> QED BY <1>2, <1>4 DEF EditOf

LEMMA ReadersChangeNone ==
  ASSUME NEW c, c.fn \in {"SQLReadFileDSN", "SQLGetInstalledDrivers"}, NEW open, AllOpen(c, open),
         NEW new, new = Changing(open, Changes(c, open))
  PROVE  NextDirty(new, 1) = 0
<1>1. Changes(c, open) = None
  BY DEF Changes
<1> DEFINE ch == None
<1>2. IsChanges(ch) /\ ch.odbc = <<>> /\ ch.inst = <<>> /\ ch.dsn = <<>>
  BY NoneIs
<1>3. new = Changing(open, ch)
  BY <1>1
<1> HIDE DEF ch
<1>4. /\ Len(new) = Len(open) /\ Len(open) \in Nat
      /\ \A i \in 1 .. Len(open) : ch[open[i].kind] = <<>> => new[i].table = open[i].table
  BY <1>2, <1>3, ChangingIs
<1>5. ASSUME NEW i \in 1 .. Len(open) PROVE ~ new[i].table.dirty
  <2>1. open[i].kind = c.todo[1].kinds[i] /\ Unedited(open[i].table) /\ i \in 1 .. Len(c.todo[1].kinds)
        /\ c.todo[1].kinds \in KindsOf(c.fn)
    BY DEF AllOpen
  <2>2. open[i].kind \in {"odbc", "inst", "dsn"}
    BY <2>1, KindIs
  <2>3. new[i].table = open[i].table
    BY <1>2, <1>4, <2>2
  <2> QED BY <2>1, <2>3 DEF Unedited
<1>6. {j \in 1 .. Len(new) : new[j].table.dirty} = {}
  BY <1>4, <1>5
<1> QED BY <1>6 DEF NextDirty, First

(* What a step that opens a file does.                                     *)
Quits(p) ==
  /\ ~ call[p].writing /\ call[p].fn # Null /\ Same /\ (call[p].fn \in Callbacks => ~ Callable(call[p]))
  /\ \E result \in {"nopath", "failed", "empty", "done"} : Over(p, result)
OpensFile(p, f, e) ==
  LET c == call[p]  this == c.todo[1] IN
  /\ c.todo # <<>> /\ c.at = 0 /\ Len(c.open) < Len(this.kinds) /\ ~ c.writing
  /\ f \in Files /\ f[2] = this.kinds[Len(c.open) + 1]
  /\ \E lines \in Readable(f) : e = Load(f, f[2], lines)
  /\ \/ f[1] = this.scope
     \/ this.scope = "user" /\ f[1] = "system" /\ f[2] = "inst" /\ <<"user", f[2]>> \notin present
Loads(p) ==
  \E f, e : OpensFile(p, f, e) /\ Moves(p, Opening(call[p], e)) /\ UNCHANGED mode /\ Same
Edits(p) ==
  \E f, e, new, n :
    LET c == call[p]  open == Opening(c, e).open IN
    /\ OpensFile(p, f, e) /\ EditOf(c, open, new) /\ n \in 1 .. Len(new) /\ c.fn \in Writers
    /\ Moves(p, Editing(c, new, n)) /\ UNCHANGED mode /\ Same

LEMMA CallIs ==
  ASSUME NEW c, IsCall(c), c.fn # Null
  PROVE  /\ c.todo \in Seq(Attempts) /\ c.todo # <<>> /\ Len(c.todo) \in Nat /\ 1 \in 1 .. Len(c.todo)
         /\ Head(c.todo) = c.todo[1]
         /\ c.todo[1].kinds \in KindsOf(c.fn) /\ (c.todo[1].scope = "own" <=> c.fn \in Own)
         /\ c.todo[1].scope \in {"user", "system", "own"} /\ c.todo[1].create \in BOOLEAN
<1>1. /\ c.todo \in Seq(Attempts) /\ c.todo # <<>>
      /\ \A i \in 1 .. Len(c.todo) :
           c.todo[i].kinds \in KindsOf(c.fn) /\ (c.todo[i].scope = "own" <=> c.fn \in Own)
  BY DEF IsCall, Asks
<1>2. Len(c.todo) \in Nat /\ 1 \in 1 .. Len(c.todo) /\ Head(c.todo) = c.todo[1]
  BY <1>1
<1>3. c.todo[1] \in Attempts
  BY <1>1, <1>2
<1>4. c.todo[1].scope \in {"user", "system", "own"} /\ c.todo[1].create \in BOOLEAN
  BY <1>3 DEF Attempts
<1> QED BY <1>1, <1>2, <1>4

(* The next file of an attempt is opened.                                  *)
OpenFrom(p, this) ==
  LET c == call[p]
      kind == this.kinds[Len(c.open) + 1]
      f == Path(this.scope, kind, this.create)
  IN
  IF ~ Opens(f, this.create)
  THEN Over(p, IF f = NoFile THEN "nopath" ELSE "failed")
  ELSE \E lines \in Readable(f) :
         LET open == Append(c.open, Load(f, kind, lines)) IN
         IF Len(open) < Len(this.kinds)
         THEN call' = [call EXCEPT ![p].open = open] /\ UNCHANGED mode
         ELSE Edited(p, open)

LEMMA OpenIs ==
  ASSUME KeysInv, NEW p \in Procs, Open(p)
  PROVE  /\ Quits(p) \/ Loads(p) \/ Edits(p)
         /\ UNCHANGED <<readonly, outer, asked>>
<1> DEFINE c == call[p]
           this == c.todo[1]
           kind == this.kinds[Len(c.open) + 1]
           f == Path(this.scope, kind, this.create)
           e(lines) == Load(f, kind, lines)
<1>1. IsCall(c) /\ c.todo # <<>> /\ c.at = 0 /\ Same /\ UNCHANGED <<readonly, outer, asked>>
  BY DEF KeysInv, FormInv, Open, Same
<1>2. c.fn # Null /\ ~ c.writing
  BY <1>1 DEF IsCall, Asks, Placed
<1>3. /\ Head(c.todo) = this /\ this.kinds \in KindsOf(c.fn) /\ (this.scope = "own" <=> c.fn \in Own)
      /\ this.scope \in {"user", "system", "own"} /\ this.create \in BOOLEAN
  BY <1>1, <1>2, CallIs
<1>l. Len(c.open) < Len(this.kinds)
  BY <1>3 DEF Open
<1>4. Len(c.open) < Len(this.kinds) /\ OpenFrom(p, this)
  BY <1>3, <1>l DEF Open, OpenFrom
<1>5. CASE ~ Opens(f, this.create)
  <2>1. Over(p, "nopath") \/ Over(p, "failed")
    BY <1>4, <1>5 DEF OpenFrom
  <2>2. ASSUME c.fn \in Callbacks, Callable(c) PROVE FALSE
    <3>1. this.kinds = <<"inst">> /\ this.create /\ this.scope \in {"user", "system"}
      <4>1. 1 \in 1 .. Len(c.todo)
        BY <1>1, <1>2, CallIs
      <4> QED BY <2>2, <4>1 DEF Callable
    <3>2. Len(c.open) = 0
      <4>1. Len(c.open) \in Nat
        BY <1>1 DEF IsCall, Opened, IsSeq
      <4>2. Len(this.kinds) = 1
        BY <3>1
      <4> QED BY <1>4, <4>1, <4>2
    <3>3. kind = "inst"
      BY <3>1, <3>2
    <3>4. readonly \subseteq {"user"} \X {"odbc", "inst"}
      BY DEF KeysInv, FormInv, Shapes
    <3>5. <<"system", "inst">> \notin readonly /\ <<"system", "inst">> # NoFile /\ <<"user", "inst">> # NoFile
      BY <3>4 DEF NoFile
    <3>6. f = Path(this.scope, "inst", this.create)
      BY <3>3
    <3> HIDE DEF f, this
    <3> QED BY <1>5, <3>1, <3>5, <3>6 DEF Path, Opens
  <2> QED BY <1>1, <1>2, <2>1, <2>2 DEF Quits
<1>6. CASE Opens(f, this.create)
  <2>0. PICK lines \in Readable(f) :
          IF Len(Append(c.open, e(lines))) < Len(this.kinds)
          THEN call' = [call EXCEPT ![p].open = Append(c.open, e(lines))] /\ UNCHANGED mode
          ELSE Edited(p, Append(c.open, e(lines)))
    BY <1>4, <1>6 DEF OpenFrom
  <2> PICK d : d = e(lines)
    OBVIOUS
  <2> DEFINE open == Append(c.open, d)
  <2>a. IF Len(open) < Len(this.kinds)
        THEN call' = [call EXCEPT ![p].open = open] /\ UNCHANGED mode
        ELSE Edited(p, open)
    BY <2>0
  <2>1. kind \in {"odbc", "inst", "dsn"} /\ (this.scope = "own" <=> kind = "dsn") /\ Len(c.open) \in Nat
    <3>1. Len(c.open) \in Nat
      BY <1>1 DEF IsCall, Opened, IsSeq
    <3>2. Len(this.kinds) \in 1 .. 2
      BY <1>3, KindIs
    <3>3. Len(c.open) + 1 \in 1 .. Len(this.kinds)
      BY <1>l, <3>1, <3>2
    <3>4. kind \in {"odbc", "inst", "dsn"} /\ (kind = "dsn" <=> c.fn \in Own)
      <4>1. \A i \in 1 .. Len(this.kinds) :
              this.kinds[i] \in {"odbc", "inst", "dsn"} /\ (this.kinds[i] = "dsn" <=> c.fn \in Own)
        BY <1>3, KindIs
      <4> QED BY <3>3, <4>1
    <3> QED BY <1>3, <3>1, <3>4
  <2>2. /\ f \in Files /\ f[2] = kind
        /\ \/ f[1] = this.scope
           \/ this.scope = "user" /\ f[1] = "system" /\ kind = "inst" /\ <<"user", kind>> \notin present
    <3>1. readonly \subseteq {"user"} \X {"odbc", "inst"}
      BY DEF KeysInv, FormInv, Shapes
    <3> HIDE DEF kind, this
    <3> QED BY <1>3, <1>6, <2>1, <3>1, PathIs
  <2>3. OpensFile(p, f, d)
    BY <1>1, <1>2, <1>4, <2>2 DEF OpensFile
  <2>4. Entry(d) /\ Unedited(d.table) /\ d.kind = kind
    <3>1. f \in Files /\ lines \in Readable(f) /\ d = Load(f, f[2], lines)
      BY <2>2
    <3> HIDE DEF f, kind, e
    <3> QED BY <2>2, <3>1, LoadIs
  <2> HIDE DEF e, f
  <2> PICK y : y = Opening(c, d)
    OBVIOUS
  <2>5. /\ IsCall(y) /\ y.fn = c.fn /\ y.s = c.s /\ y.k = c.k /\ y.v = c.v /\ y.todo = c.todo /\ y.at = 0
        /\ y.open = open /\ IsSeq(open) /\ Len(open) = Len(c.open) + 1
    <3>1. Len(c.open) < Len(c.todo[1].kinds) /\ d.kind = c.todo[1].kinds[Len(c.open) + 1]
      BY <1>4, <2>4
    <3>2. /\ IsCall(y) /\ y.fn = c.fn /\ y.s = c.s /\ y.k = c.k /\ y.v = c.v /\ y.todo = c.todo /\ y.at = 0
          /\ y.open = Append(c.open, d) /\ IsSeq(y.open) /\ Len(y.open) = Len(c.open) + 1
      BY <1>1, <2>4, <3>1, OpeningIs
    <3> HIDE DEF c
    <3> QED BY <3>2
  <2>6. ASSUME call' = [call EXCEPT ![p].open = open], UNCHANGED mode
        PROVE  Loads(p)
    <3>1. call' = [call EXCEPT ![p] = Opening(c, d)]
      BY <2>6 DEF Opening
    <3>2. IsCall(Opening(c, d))
      BY <2>5
    <3>3. Moves(p, Opening(c, d))
      BY <3>1, <3>2 DEF Moves
    <3> QED BY <1>1, <2>3, <2>6, <3>3 DEF Loads
  <2>7. CASE Len(open) < Len(this.kinds)
    BY <1>1, <2>a, <2>6, <2>7
  <2>8. CASE ~ (Len(open) < Len(this.kinds))
    <3> DEFINE changes == Changes(c, open)
               new == Changing(open, changes)
    <3>1. Edited(p, open)
      BY <2>a, <2>8
    <3>2. AllOpen(c, open)
      <4>1. Len(open) = Len(this.kinds)
        <5>1. Len(this.kinds) \in Nat
          BY <1>3, KindIs
        <5> QED BY <1>4, <2>1, <2>5, <2>8, <5>1
      <4>2. Opened(y) /\ Placed(y)
        BY <2>5 DEF IsCall
      <4>3. \A i \in 1 .. Len(open) :
              Entry(open[i]) /\ open[i].kind = this.kinds[i] /\ Unedited(open[i].table)
        <5> HIDE DEF open, this
        <5> QED BY <2>5, <4>2 DEF Opened, Placed, this
      <4> QED BY <1>3, <2>5, <4>1, <4>3 DEF AllOpen
    <3> HIDE DEF open
    <3>3. CASE c.fn \in Callbacks
      <4>1. call' = [call EXCEPT ![p].open = open] /\ UNCHANGED mode
        BY <3>1, <3>3 DEF Edited
      <4> QED BY <1>1, <2>6, <4>1
    <3>4. CASE c.fn \notin Callbacks
      <4>1. new = [i \in DOMAIN open |-> [open[i] EXCEPT !.table = Written(@, changes[open[i].kind])]]
        BY DEF Changing
      <4>2. \/ Over(p, "empty") \/ Over(p, "failed") \/ Over(p, "done")
            \/ /\ c.fn # "SQLGetPrivateProfileString" /\ NextDirty(new, 1) # 0 /\ UNCHANGED mode
               /\ call' = [call EXCEPT ![p].open = new, ![p].at = NextDirty(new, 1)]
        BY <3>1, <3>4 DEF Edited, Changing
      <4> HIDE DEF changes, new
      <4>3. CASE Over(p, "empty") \/ Over(p, "failed") \/ Over(p, "done")
        BY <1>1, <1>2, <3>4, <4>3 DEF Quits
      <4>4. ASSUME c.fn # "SQLGetPrivateProfileString", NextDirty(new, 1) # 0, UNCHANGED mode,
                   call' = [call EXCEPT ![p].open = new, ![p].at = NextDirty(new, 1)]
            PROVE  Edits(p)
        <5>1. c.fn \notin {"SQLReadFileDSN", "SQLGetInstalledDrivers"}
          BY <3>2, <4>4, ReadersChangeNone DEF new, changes
        <5>2. c.fn \in Writers /\ Asks(c)
          <6>1. Asks(c)
            BY <1>1 DEF IsCall
          <6>2. <<c.fn, c.s, c.k, c.v>> \in Requests => c.fn \in Writers
            BY DEF Writers
          <6> QED BY <1>2, <3>4, <4>4, <5>1, <6>1, <6>2 DEF Asks, Readers
        <5>3. \A g \in Files : disk[g] \in Seq(Line)
          BY DEF KeysInv, FormInv
        <5>4. EditOf(c, open, new)
          BY <3>2, <5>2, <5>3, EditIs DEF new, changes
        <5> DEFINE n == NextDirty(new, 1)
        <5>5. n \in 1 .. Len(new) /\ Len(new) = Len(open) /\ IsSeq(new) /\ Len(new) \in Nat
          <6>1. Len(new) = Len(open) /\ IsSeq(new) /\ Len(new) \in Nat
            BY <5>4 DEF EditOf, IsSeq
          <6> QED BY <4>4, <6>1, NextDirtyIs
        <5>6. call' = [call EXCEPT ![p] = Editing(c, new, n)]
          BY <4>4 DEF Editing
        <5> HIDE DEF n
        <5>7. IsCall(Editing(c, new, n))
          <6>1. /\ Len(new) = Len(c.todo[1].kinds)
                /\ \A i \in 1 .. Len(new) : Entry(new[i]) /\ new[i].kind = c.todo[1].kinds[i]
            BY <3>2, <5>4, <5>5 DEF AllOpen, EditOf, Alike
          <6> QED BY <1>1, <1>2, <5>2, <5>5, <6>1, EditingIs
        <5>8. OpensFile(p, f, d) /\ EditOf(c, Opening(c, d).open, new)
          BY <2>3, <2>5, <5>4
        <5> QED BY <1>1, <4>4, <5>2, <5>5, <5>6, <5>7, <5>8 DEF Edits, Moves
      <4> QED BY <1>1, <4>2, <4>3, <4>4
    <3> QED BY <3>3, <3>4
  <2> QED BY <2>7, <2>8
<1> QED BY <1>1, <1>5, <1>6

(* A call that writes its file, and one that goes on to the next.          *)
Writing(c) == [c EXCEPT !.writing = TRUE]
Passing(c, n) == [c EXCEPT !.at = n, !.writing = FALSE]

LEMMA WritingIs ==
  ASSUME NEW c, IsCall(c), c.at # 0, NEW x, x = Writing(c)
  PROVE  /\ IsCall(x) /\ x.fn = c.fn /\ x.s = c.s /\ x.k = c.k /\ x.v = c.v /\ x.todo = c.todo
         /\ x.open = c.open /\ x.at = c.at /\ x.writing /\ x.asked = c.asked /\ x.retry = c.retry
<1>1. /\ c = [fn |-> c.fn, s |-> c.s, k |-> c.k, v |-> c.v, todo |-> c.todo, open |-> c.open,
              at |-> c.at, writing |-> c.writing, asked |-> c.asked, retry |-> c.retry]
      /\ Asks(c) /\ Opened(c) /\ Placed(c)
  BY DEF IsCall
<1>2. x = [fn |-> c.fn, s |-> c.s, k |-> c.k, v |-> c.v, todo |-> c.todo, open |-> c.open,
           at |-> c.at, writing |-> TRUE, asked |-> c.asked, retry |-> c.retry]
  BY <1>1 DEF Writing
<1>3. /\ x.fn = c.fn /\ x.s = c.s /\ x.k = c.k /\ x.v = c.v /\ x.todo = c.todo /\ x.open = c.open
      /\ x.at = c.at /\ x.writing = TRUE /\ x.asked = c.asked /\ x.retry = c.retry
  BY <1>2
<1>4. Asks(x) /\ Opened(x) /\ Placed(x)
  BY <1>1, <1>3 DEF Asks, Opened, Placed
<1>5. IsCall(x)
  BY <1>2, <1>3, <1>4 DEF IsCall
<1> QED BY <1>3, <1>5

LEMMA PassingIs ==
  ASSUME NEW c, IsCall(c), c.at # 0, NEW n \in 1 .. Len(c.open), NEW x, x = Passing(c, n)
  PROVE  /\ IsCall(x) /\ x.fn = c.fn /\ x.s = c.s /\ x.k = c.k /\ x.v = c.v /\ x.todo = c.todo
         /\ x.open = c.open /\ x.at = n /\ ~ x.writing /\ x.asked = c.asked /\ x.retry = c.retry
<1>1. /\ c = [fn |-> c.fn, s |-> c.s, k |-> c.k, v |-> c.v, todo |-> c.todo, open |-> c.open,
              at |-> c.at, writing |-> c.writing, asked |-> c.asked, retry |-> c.retry]
      /\ Asks(c) /\ Opened(c) /\ Placed(c) /\ Len(c.open) \in Nat
  BY DEF IsCall, Opened, IsSeq
<1>2. x = [fn |-> c.fn, s |-> c.s, k |-> c.k, v |-> c.v, todo |-> c.todo, open |-> c.open,
           at |-> n, writing |-> FALSE, asked |-> c.asked, retry |-> c.retry]
  BY <1>1 DEF Passing
<1>3. /\ x.fn = c.fn /\ x.s = c.s /\ x.k = c.k /\ x.v = c.v /\ x.todo = c.todo /\ x.open = c.open
      /\ x.at = n /\ x.writing = FALSE /\ x.asked = c.asked /\ x.retry = c.retry
  BY <1>2
<1>4. Asks(x) /\ Opened(x) /\ Placed(x)
  BY <1>1, <1>3 DEF Asks, Opened, Placed
<1>5. IsCall(x)
  BY <1>2, <1>3, <1>4 DEF IsCall
<1> QED BY <1>3, <1>5

(* The file a call is at.                                                  *)
AtIs(c) ==
  LET e == c.open[c.at] IN
  /\ c.at \in 1 .. Len(c.open) /\ Len(c.open) \in Nat /\ c.fn # Null /\ c.fn \in Writers
  /\ Entry(e) /\ e.file \in Files /\ e.table.lines \in Seq(Line) /\ (e.torn \/ Unique(e.table.lines))
LEMMA AtEntry ==
  ASSUME NEW c, IsCall(c), c.at # 0
  PROVE  AtIs(c)
<1>1. Opened(c) /\ Placed(c) /\ Asks(c)
  BY DEF IsCall
<1>2. Len(c.open) \in Nat /\ c.at \in 1 .. Len(c.open) /\ c.fn \in Writers
  BY <1>1 DEF Opened, Placed, IsSeq
<1>3. Entry(c.open[c.at])
  BY <1>1, <1>2 DEF Opened
<1>4. c.fn # Null
  BY <1>1, <1>2 DEF Asks, Opened
<1> QED BY <1>2, <1>3, <1>4 DEF AtIs, Entry, IsTable

Truncates(p) ==
  LET c == call[p]  e == c.open[c.at]  mixes == e.torn \/ BeingWritten(e.file) IN
  /\ ~ c.writing /\ Moves(p, Writing(c)) /\ UNCHANGED <<mode, due, odd>>
  /\ disk' = [disk EXCEPT ![e.file] = <<>>]
  /\ version' = [version EXCEPT ![e.file] = @ + 1]
  /\ raced' = IF mixes \/ e.version # version[e.file] THEN raced \cup {e.file} ELSE raced
  /\ mixed' = IF mixes THEN mixed \cup {e.file} ELSE mixed
  /\ broken' = IF e.table.damaged THEN broken \cup {e.file} ELSE broken

LEMMA TruncateIs ==
  ASSUME KeysInv, NEW p \in Procs, Truncate(p)
  PROVE  /\ Quits(p) \/ Truncates(p)
         /\ AtIs(call[p]) /\ call[p].at # 0 /\ UNCHANGED <<present, readonly, outer, asked>>
<1> DEFINE c == call[p]
           e == c.open[c.at]
           mixes == e.torn \/ BeingWritten(e.file)
<1>1. IsCall(c) /\ c.at # 0 /\ ~ c.writing /\ UNCHANGED <<present, readonly, outer, asked>>
  BY DEF KeysInv, FormInv, Truncate
<1>2. AtIs(c)
  BY <1>1, AtEntry
<1>3. CASE e.file \in readonly
  <2>1. Over(p, "failed") /\ Same
    BY <1>3 DEF Truncate, Same
  <2>2. c.fn \notin Callbacks
    BY <1>2, WritersAre DEF AtIs, Callbacks
  <2> QED BY <1>1, <1>2, <2>1, <2>2 DEF Quits, AtIs
<1>4. CASE e.file \notin readonly
  <2>1. /\ call' = [call EXCEPT ![p].writing = TRUE]
        /\ disk' = [disk EXCEPT ![e.file] = <<>>]
        /\ version' = [version EXCEPT ![e.file] = @ + 1]
        /\ raced' = IF mixes \/ e.version # version[e.file] THEN raced \cup {e.file} ELSE raced
        /\ mixed' = IF mixes THEN mixed \cup {e.file} ELSE mixed
        /\ broken' = IF e.table.damaged THEN broken \cup {e.file} ELSE broken
        /\ UNCHANGED <<mode, due, odd>>
    BY <1>4 DEF Truncate
  <2>2. call' = [call EXCEPT ![p] = Writing(c)]
    BY <2>1 DEF Writing
  <2>3. IsCall(Writing(c))
    BY <1>1, WritingIs
  <2>4. Moves(p, Writing(c))
    BY <2>2, <2>3 DEF Moves
  <2>5. Truncates(p)
    BY <1>1, <2>1, <2>4 DEF Truncates
  <2> QED BY <1>1, <1>2, <2>5
<1> QED BY <1>3, <1>4

Flushes(p) ==
  LET c == call[p]  e == c.open[c.at] IN
  /\ c.writing /\ UNCHANGED <<version, raced, mixed, broken>>
  /\ disk' = [disk EXCEPT ![e.file] = Overwritten(@, Reread(e.table.lines))]
  /\ due' = [due EXCEPT ![e.file] = Asked(@, e.table.log)]
  /\ odd' = IF e.kind = "odbc" /\ Unsectioned(c, c.open) THEN odd \cup {e.file} ELSE odd
  /\ \/ Over(p, "done")
     \/ \E n : n \in 1 .. Len(c.open) /\ n > c.at /\ Moves(p, Passing(c, n)) /\ UNCHANGED mode

LEMMA FlushIs ==
  ASSUME KeysInv, NEW p \in Procs, Flush(p)
  PROVE  Flushes(p) /\ AtIs(call[p]) /\ call[p].at # 0 /\ UNCHANGED <<present, readonly, outer, asked>>
<1> DEFINE c == call[p]
           n == NextDirty(c.open, c.at + 1)
<1>1. IsCall(c) /\ c.writing /\ UNCHANGED <<present, readonly, outer, asked>>
  BY DEF KeysInv, FormInv, Flush
<1>2. c.at # 0
  BY <1>1 DEF IsCall, Placed
<1>3. AtIs(c)
  BY <1>1, <1>2, AtEntry
<1>4. n = 0 \/ n \in c.at + 1 .. Len(c.open)
  <2>1. c.at + 1 \in Nat /\ c.at + 1 > 0 /\ Len(c.open) \in Nat
    BY <1>3 DEF AtIs
  <2> HIDE DEF c
  <2> QED BY <2>1, NextDirtyIs
<1>5. CASE n = 0
  <2>1. Over(p, "done")
    BY <1>5 DEF Flush
  <2> QED BY <1>1, <1>2, <1>3, <2>1 DEF Flush, Flushes
<1>6. CASE n # 0
  <2>1. call' = [call EXCEPT ![p].at = n, ![p].writing = FALSE] /\ UNCHANGED mode
    BY <1>6 DEF Flush
  <2>2. n \in 1 .. Len(c.open) /\ n > c.at
    BY <1>3, <1>4, <1>6 DEF AtIs
  <2> HIDE DEF n
  <2>3. call' = [call EXCEPT ![p] = Passing(c, n)]
    BY <2>1 DEF Passing
  <2>4. IsCall(Passing(c, n))
    BY <1>1, <1>2, <2>2, PassingIs
  <2>5. Moves(p, Passing(c, n))
    BY <2>3, <2>4 DEF Moves
  <2> QED BY <1>1, <1>2, <1>3, <2>1, <2>2, <2>5 DEF Flush, Flushes
<1> QED BY <1>5, <1>6

(* What the other steps do.                                                *)
Crashes(p) ==
  LET c == call[p]  e == c.open[c.at] IN
  /\ c.writing /\ Moves(p, NoCall) /\ UNCHANGED <<version, due, raced, mixed, odd>>
  /\ \E lines \in Seq(Line) :
       (e.file \in mixed \/ Unique(lines)) /\ disk' = [disk EXCEPT ![e.file] = lines]
  /\ broken' = broken \cup {e.file}
  /\ mode'[p] = asked'[p] /\ outer' = [outer EXCEPT ![p] = NoCall]
Calls(p) ==
  /\ call[p].fn \in Callbacks /\ Same /\ UNCHANGED <<mode, asked>>
  /\ Moves(p, NoCall) /\ outer' = [outer EXCEPT ![p] = call[p]]
Misses(p) ==
  /\ call[p].fn \in Callbacks /\ Same /\ UNCHANGED outer
  /\ \E x : /\ Moves(p, x)
            /\ \/ Len(call[p].todo) > 1 /\ x = Retried(call[p]) /\ UNCHANGED <<mode, asked>>
               \/ /\ x = NoCall
                  /\ IF call[p].fn \in Keeping THEN UNCHANGED <<mode, asked>>
                     ELSE mode'[p] = "both" /\ asked'[p] = "both"
Idles(p) ==
  /\ call[p] = NoCall /\ UNCHANGED call /\ Same /\ UNCHANGED readonly
  /\ \/ UNCHANGED outer /\ mode'[p] = asked'[p]
     \/ /\ outer[p] # NoCall /\ outer' = [outer EXCEPT ![p] = NoCall]
        /\ IF outer[p].fn \in Keeping THEN UNCHANGED <<mode, asked>>
           ELSE mode'[p] = "both" /\ asked'[p] = "both"

LEMMA ModeStays ==
  ASSUME Shapes, NEW p \in Procs, UNCHANGED <<mode, asked>>
  PROVE  Mode(p)
BY DEF Shapes, Mode, Modes

LEMMA ModeReset ==
  ASSUME Shapes, NEW p \in Procs, NEW c, NEW result, ResetMode(p, c, result), NEW m \in Modes,
         asked' = [asked EXCEPT ![p] = m]
  PROVE  Mode(p) /\ asked'[p] = m /\ mode'[p] = IF c.fn \in Keeping THEN mode[p] ELSE "both"
<1> DEFINE n == IF c.fn \in Keeping THEN mode[p] ELSE "both"
<1>1. mode' = [mode EXCEPT ![p] = n]
  BY DEF ResetMode
<1>2. n \in Modes /\ mode \in [Procs -> Modes] /\ asked \in [Procs -> Modes]
  BY DEF Shapes, Modes
<1>3. mode'[p] = n /\ asked'[p] = m
  BY <1>1, <1>2
<1>4. mode' = [mode EXCEPT ![p] = mode'[p]] /\ asked' = [asked EXCEPT ![p] = asked'[p]]
  BY <1>1, <1>3
<1> QED BY <1>2, <1>3, <1>4 DEF Mode

LEMMA QuitIs ==
  ASSUME Shapes, NEW p \in Procs, IsCall(call[p]), call[p].fn # Null, NEW result, Over(p, result),
         UNCHANGED asked
  PROVE  /\ Mode(p)
         /\ \E x : /\ Moves(p, x) /\ x.open = <<>> /\ ~ x.writing
                   /\ \/ /\ Len(call[p].todo) > 1 /\ result \in call[p].todo[2].after
                         /\ x = Retried(call[p]) /\ UNCHANGED mode
                      \/ x = NoCall /\ mode'[p] = IF call[p].fn \in Keeping THEN mode[p] ELSE "both"
<1>1. PICK x : /\ Moves(p, x) /\ x.open = <<>> /\ ~ x.writing
               /\ \/ /\ Len(call[p].todo) > 1 /\ result \in call[p].todo[2].after
                     /\ x = Retried(call[p]) /\ UNCHANGED mode
                  \/ x = NoCall /\ ResetMode(p, call[p], result)
  BY OverIs
<1>2. CASE UNCHANGED mode
  BY <1>1, <1>2, ModeStays DEF ResetMode, Shapes
<1>3. CASE x = NoCall /\ ResetMode(p, call[p], result)
  <2>1. asked' = [asked EXCEPT ![p] = asked[p]] /\ asked[p] \in Modes
    BY DEF Shapes, Modes
  <2>2. Mode(p) /\ mode'[p] = IF call[p].fn \in Keeping THEN mode[p] ELSE "both"
    BY <1>3, <2>1, ModeReset
  <2> QED BY <1>1, <1>3, <2>2
<1> QED BY <1>1, <1>2, <1>3

LEMMA CrashIs ==
  ASSUME KeysInv, NEW p \in Procs, Crash(p)
  PROVE  Crashes(p) /\ Mode(p) /\ AtIs(call[p]) /\ call[p].at # 0 /\ UNCHANGED <<present, readonly>>
<1> DEFINE c == call[p]
           e == c.open[c.at]
<1>1. IsCall(c) /\ c.writing
  BY DEF KeysInv, FormInv, Crash
<1>2. c.at # 0
  BY <1>1 DEF IsCall, Placed
<1>3. AtIs(c)
  BY <1>1, <1>2, AtEntry
<1>4. PICK lines \in Unfinished(p) : disk' = [disk EXCEPT ![e.file] = lines]
  BY DEF Crash
<1>5. lines \in Seq(Line) /\ (e.file \in mixed \/ Unique(lines))
  BY <1>1, UnfinishedIs
<1>6. Moves(p, NoCall)
  BY NoCallIs DEF Crash, Moves
<1>7. Mode(p) /\ mode'[p] = asked'[p]
  <2>1. mode' = [mode EXCEPT ![p] = "both"] /\ asked' = [asked EXCEPT ![p] = "both"]
    BY DEF Crash
  <2>2. mode \in [Procs -> Modes] /\ asked \in [Procs -> Modes] /\ "both" \in Modes
    BY DEF KeysInv, FormInv, Shapes, Modes
  <2>3. mode'[p] = "both" /\ asked'[p] = "both"
    BY <2>1, <2>2
  <2> QED BY <2>1, <2>2, <2>3 DEF Mode
<1>8. /\ broken' = broken \cup {e.file} /\ outer' = [outer EXCEPT ![p] = NoCall]
      /\ UNCHANGED <<present, readonly, version, due, raced, mixed, odd>>
  BY DEF Crash
<1> QED BY <1>1, <1>2, <1>3, <1>4, <1>5, <1>6, <1>7, <1>8 DEF Crashes

LEMMA IdleIs ==
  ASSUME Shapes, NEW p \in Procs, SQLSetConfigMode(p) \/ SQLGetAvailableDrivers(p) \/ LibraryReturns(p)
  PROVE  Idles(p) /\ Mode(p)
<1>0. /\ mode \in [Procs -> Modes] /\ asked \in [Procs -> Modes] /\ "both" \in Modes
      /\ Modes = {"both", "user", "system"}
  BY DEF Shapes, Modes
<1>1. ASSUME NEW m \in Modes, mode' = [mode EXCEPT ![p] = m], asked' = [asked EXCEPT ![p] = m]
      PROVE  Mode(p) /\ mode'[p] = asked'[p]
  <2>1. mode'[p] = m /\ asked'[p] = m
    BY <1>0, <1>1
  <2> QED BY <1>1, <2>1 DEF Mode
<1>2. CASE SQLSetConfigMode(p)
  <2>1. /\ call[p] = NoCall /\ UNCHANGED <<call, outer, readonly>> /\ Same
        /\ \E m \in Modes : mode' = [mode EXCEPT ![p] = m] /\ asked' = [asked EXCEPT ![p] = m]
    BY <1>0, <1>2 DEF SQLSetConfigMode, Same
  <2> QED BY <1>1, <2>1 DEF Idles
<1>3. CASE SQLGetAvailableDrivers(p)
  <2>1. /\ call[p] = NoCall /\ UNCHANGED <<call, outer, readonly>> /\ Same
        /\ mode' = [mode EXCEPT ![p] = "both"] /\ asked' = [asked EXCEPT ![p] = "both"]
    BY <1>3 DEF SQLGetAvailableDrivers, Same
  <2> QED BY <1>0, <1>1, <2>1 DEF Idles
<1>4. CASE LibraryReturns(p)
  <2>1. /\ call[p] = NoCall /\ UNCHANGED <<call, readonly>> /\ Same
        /\ outer[p] # NoCall /\ outer' = [outer EXCEPT ![p] = NoCall]
        /\ ResetMode(p, outer[p], "done")
        /\ asked' = [asked EXCEPT ![p] = IF outer[p].fn \in Keeping THEN @ ELSE "both"]
    BY <1>4 DEF LibraryReturns, Same
  <2>2. CASE outer[p].fn \in Keeping
    <3>1. mode' = [mode EXCEPT ![p] = mode[p]] /\ asked' = [asked EXCEPT ![p] = asked[p]]
      BY <2>1, <2>2 DEF ResetMode
    <3>2. UNCHANGED <<mode, asked>>
      BY <1>0, <3>1
    <3> QED BY <2>1, <2>2, <3>2, ModeStays DEF Idles
  <2>3. CASE outer[p].fn \notin Keeping
    <3>1. asked' = [asked EXCEPT ![p] = "both"]
      BY <2>1, <2>3
    <3>2. Mode(p) /\ asked'[p] = "both" /\ mode'[p] = "both"
      BY <1>0, <2>1, <2>3, <3>1, ModeReset
    <3> QED BY <2>1, <2>3, <3>2 DEF Idles
  <2> QED BY <2>2, <2>3
<1> QED BY <1>2, <1>3, <1>4

LEMMA CallLibraryIs ==
  ASSUME KeysInv, NEW p \in Procs, CallLibrary(p)
  PROVE  Calls(p) /\ Mode(p) /\ UNCHANGED readonly
<1>1. Same /\ UNCHANGED <<readonly, mode>> /\ call' = [call EXCEPT ![p] = NoCall]
      /\ outer' = [outer EXCEPT ![p] = call[p]] /\ call[p].fn \in Callbacks /\ UNCHANGED asked
  BY DEF CallLibrary, Candidates, Same
<1>2. Moves(p, NoCall)
  BY <1>1, NoCallIs DEF Moves
<1>3. Mode(p)
  BY <1>1, ModeStays DEF KeysInv, FormInv
<1> QED BY <1>1, <1>2, <1>3 DEF Calls

LEMMA NoLibraryIs ==
  ASSUME KeysInv, NEW p \in Procs, NoLibrary(p)
  PROVE  Misses(p) /\ Mode(p) /\ UNCHANGED readonly
<1> DEFINE c == call[p]
<1>1. /\ Same /\ UNCHANGED <<readonly, outer>> /\ c.fn \in Callbacks /\ IsCall(c) /\ Over(p, "failed")
      /\ asked' = [asked EXCEPT ![p] = IF call'[p] # NoCall \/ c.fn \in Keeping THEN @ ELSE "both"]
  BY DEF NoLibrary, Candidates, Same, KeysInv, FormInv
<1>2. c.fn # Null
  BY <1>1 DEF Callbacks, Null
<1>3. PICK x : /\ Moves(p, x)
               /\ \/ Len(c.todo) > 1 /\ x = Retried(c) /\ UNCHANGED mode
                  \/ x = NoCall /\ ResetMode(p, c, "failed")
  BY <1>1, <1>2, OverIs
<1>4. call'[p] = x /\ "both" \in Modes /\ asked \in [Procs -> Modes] /\ Shapes
  BY <1>3 DEF Moves, KeysInv, FormInv, Shapes, Modes
<1>5. CASE Len(c.todo) > 1 /\ x = Retried(c) /\ UNCHANGED mode
  <2>1. x.fn = c.fn
    BY <1>1, <1>5, RetriedIs
  <2>2. x # NoCall
    BY <1>2, <2>1, NoCallIs
  <2>3. UNCHANGED asked
    BY <1>1, <1>4, <2>2
  <2>4. Mode(p)
    BY <1>4, <1>5, <2>3, ModeStays
  <2> QED BY <1>1, <1>3, <1>5, <2>3, <2>4 DEF Misses
<1>6. CASE x = NoCall /\ ResetMode(p, c, "failed") /\ c.fn \in Keeping
  <2>1. mode' = [mode EXCEPT ![p] = mode[p]] /\ asked' = [asked EXCEPT ![p] = asked[p]]
    BY <1>1, <1>6 DEF ResetMode
  <2>2. UNCHANGED <<mode, asked>>
    BY <1>4, <2>1 DEF Shapes
  <2> QED BY <1>1, <1>3, <1>4, <1>6, <2>2, ModeStays DEF Misses
<1>7. CASE x = NoCall /\ ResetMode(p, c, "failed") /\ c.fn \notin Keeping
  <2>1. asked' = [asked EXCEPT ![p] = "both"]
    BY <1>1, <1>4, <1>7
  <2>2. Mode(p) /\ asked'[p] = "both" /\ mode'[p] = "both"
    BY <1>4, <1>7, <2>1, ModeReset
  <2> QED BY <1>1, <1>3, <1>7, <2>2 DEF Misses
<1> QED BY <1>3, <1>5, <1>6, <1>7

-----------------------------------------------------------------------------
(* Every step is one of these.                                             *)
Steps(p) ==
  \/ Mode(p) /\ UNCHANGED readonly /\ (Starts(p) \/ Idles(p) \/ Calls(p) \/ Misses(p))
  \/ UNCHANGED <<readonly, outer, asked>> /\ (Quits(p) \/ Loads(p) \/ Edits(p))
  \/ UNCHANGED <<readonly, outer, asked>> /\ AtIs(call[p]) /\ (Truncates(p) \/ Flushes(p))
  \/ Mode(p) /\ UNCHANGED readonly /\ AtIs(call[p]) /\ Crashes(p)

LEMMA StepIs ==
  ASSUME KeysInv, Next
  PROVE  \E p \in Procs : Steps(p)
<1>0. Shapes
  BY DEF KeysInv, FormInv
<1>1. PICK p \in Procs :
        \/ SQLSetConfigMode(p) \/ SQLWritePrivateProfileString(p) \/ SQLGetPrivateProfileString(p)
        \/ SQLWriteDSNToIni(p) \/ SQLRemoveDSNFromIni(p)
        \/ SQLInstallDriver(p) \/ SQLInstallDriverEx(p) \/ SQLInstallTranslatorEx(p)
        \/ SQLRemoveDriver(p) \/ SQLRemoveTranslator(p) \/ RemoveDefaultDataSource(p)
        \/ SQLWriteFileDSN(p) \/ SQLReadFileDSN(p)
        \/ SQLGetInstalledDrivers(p) \/ SQLGetAvailableDrivers(p)
        \/ SQLConfigDataSource(p) \/ SQLConfigDriver(p) \/ GetTranslator(p)
        \/ Open(p) \/ Truncate(p) \/ Flush(p) \/ Crash(p)
        \/ CallLibrary(p) \/ NoLibrary(p) \/ LibraryReturns(p)
  BY DEF Next
<1>2. ASSUME SQLSetConfigMode(p) \/ SQLGetAvailableDrivers(p) \/ LibraryReturns(p)
      PROVE  Steps(p)
  BY <1>0, <1>2, IdleIs DEF Steps, Idles
<1>3. ASSUME \/ SQLWritePrivateProfileString(p) \/ SQLWriteDSNToIni(p) \/ SQLRemoveDSNFromIni(p)
             \/ SQLInstallDriver(p) \/ SQLInstallDriverEx(p) \/ SQLInstallTranslatorEx(p) \/ SQLRemoveDriver(p)
      PROVE  Steps(p)
  BY <1>0, <1>3, WritesStart DEF Steps, Starts
<1>4. ASSUME \/ SQLGetPrivateProfileString(p) \/ SQLGetInstalledDrivers(p) \/ SQLConfigDriver(p) \/ GetTranslator(p)
             \/ SQLRemoveTranslator(p) \/ RemoveDefaultDataSource(p)
      PROVE  Steps(p)
  BY <1>0, <1>4, ReadsStart DEF Steps, Starts
<1>5. ASSUME SQLConfigDataSource(p) \/ SQLWriteFileDSN(p) \/ SQLReadFileDSN(p)
      PROVE  Steps(p)
  BY <1>0, <1>5, OthersStart DEF Steps, Starts
<1>6. ASSUME Open(p)
      PROVE  Steps(p)
  BY <1>6, OpenIs DEF Steps
<1>7. ASSUME Truncate(p)
      PROVE  Steps(p)
  BY <1>7, TruncateIs DEF Steps
<1>8. ASSUME Flush(p)
      PROVE  Steps(p)
  BY <1>8, FlushIs DEF Steps
<1>9. ASSUME Crash(p)
      PROVE  Steps(p)
  BY <1>9, CrashIs DEF Steps
<1>10. ASSUME CallLibrary(p)
       PROVE  Steps(p)
  BY <1>10, CallLibraryIs DEF Steps
<1>11. ASSUME NoLibrary(p)
       PROVE  Steps(p)
  BY <1>11, NoLibraryIs DEF Steps
<1> QED BY <1>1, <1>2, <1>3, <1>4, <1>5, <1>6, <1>7, <1>8, <1>9, <1>10, <1>11

LEMMA KeysKept ==
  ASSUME KeysInv, NEW p \in Procs, Mode(p), UNCHANGED readonly,
         NEW x, IsCall(x), call' = [call EXCEPT ![p] = x],
         NEW y, outer' = [outer EXCEPT ![p] = y],
         NEW f \in Files, NEW lines \in Seq(Line), disk' = [disk EXCEPT ![f] = lines],
         mixed \subseteq mixed', f \in mixed' \/ Unique(lines),
         NEW n \in Nat, version' = [version EXCEPT ![f] = n],
         NEW m, m = [c \in Cells |-> m[c]], due' = [due EXCEPT ![f] = m]
  PROVE  FormInv'
<1>1. /\ call = [q \in Procs |-> call[q]] /\ outer = [q \in Procs |-> outer[q]]
      /\ disk = [g \in Files |-> disk[g]] /\ version \in [Files -> Nat]
      /\ due = [g \in Files |-> due[g]] /\ \A g \in Files : due[g] = [c \in Cells |-> due[g][c]]
      /\ mode \in [Procs -> Modes] /\ asked \in [Procs -> Modes]
      /\ readonly \subseteq {"user"} \X {"odbc", "inst"}
  BY DEF KeysInv, FormInv, Shapes, Modes
<1>2. /\ call' = [q \in Procs |-> call'[q]] /\ outer' = [q \in Procs |-> outer'[q]]
      /\ \A q \in Procs : IsCall(call'[q])
  <2>1. /\ call' = [q \in Procs |-> IF q = p THEN x ELSE call[q]]
        /\ outer' = [q \in Procs |-> IF q = p THEN y ELSE outer[q]]
    BY <1>1
  <2>2. \A q \in Procs : IsCall(call[q])
    BY DEF KeysInv, FormInv
  <2> QED BY <2>1, <2>2
<1>3. /\ disk' = [g \in Files |-> disk'[g]]
      /\ \A g \in Files : disk'[g] \in Seq(Line) /\ (g \in mixed' \/ Unique(disk'[g]))
  <2>1. disk' = [g \in Files |-> IF g = f THEN lines ELSE disk[g]]
    BY <1>1
  <2>2. disk' = [g \in Files |-> disk'[g]]
    BY <2>1
  <2>3. ASSUME NEW g \in Files PROVE disk'[g] \in Seq(Line) /\ (g \in mixed' \/ Unique(disk'[g]))
    <3>1. disk'[g] = IF g = f THEN lines ELSE disk[g]
      BY <2>1
    <3>2. disk[g] \in Seq(Line) /\ (g \in mixed \/ Unique(disk[g]))
      BY DEF KeysInv, FormInv
    <3>3. CASE g = f
      BY <3>1, <3>3
    <3>4. CASE g # f
      BY <3>1, <3>2, <3>4
    <3> QED BY <3>3, <3>4
  <2> QED BY <2>2, <2>3
<1>4. version' \in [Files -> Nat]
  BY <1>1
<1>5. due' = [g \in Files |-> due'[g]] /\ \A g \in Files : due'[g] = [c \in Cells |-> due'[g][c]]
  <2>1. due' = [g \in Files |-> IF g = f THEN m ELSE due[g]]
    BY <1>1
  <2>2. due' = [g \in Files |-> due'[g]]
    BY <2>1
  <2>3. ASSUME NEW g \in Files PROVE due'[g] = [c \in Cells |-> due'[g][c]]
    BY <1>1, <2>1
  <2> QED BY <2>2, <2>3
<1>6. mode' \in [Procs -> Modes] /\ asked' \in [Procs -> Modes]
  BY <1>1 DEF Mode
<1>7. readonly' \subseteq {"user"} \X {"odbc", "inst"}
  BY <1>1
<1>8. Shapes'
  BY <1>2, <1>3, <1>4, <1>5, <1>6, <1>7 DEF Shapes, Modes
<1> QED BY <1>2, <1>3, <1>8 DEF FormInv

LEMMA SameIs ==
  ASSUME Shapes, NEW f \in Files
  PROVE  /\ disk = [disk EXCEPT ![f] = disk[f]] /\ version = [version EXCEPT ![f] = version[f]]
         /\ due = [due EXCEPT ![f] = due[f]] /\ version[f] \in Nat
         /\ due[f] = [c \in Cells |-> due[f][c]]
         /\ \A p \in Procs : outer = [outer EXCEPT ![p] = outer[p]] /\ call = [call EXCEPT ![p] = call[p]]
BY DEF Shapes

LEMMA KeysMoved ==
  ASSUME KeysInv, NEW p \in Procs, Mode(p), UNCHANGED readonly, NEW x, Moves(p, x),
         NEW y, outer' = [outer EXCEPT ![p] = y], Same
  PROVE  FormInv'
<1> DEFINE f == <<"own", "dsn">>
<1>1. f \in Files
  BY DEF Files
<1> HIDE DEF f
<1>2. /\ disk' = [disk EXCEPT ![f] = disk[f]] /\ version' = [version EXCEPT ![f] = version[f]]
      /\ due' = [due EXCEPT ![f] = due[f]] /\ version[f] \in Nat
      /\ due[f] = [c \in Cells |-> due[f][c]]
  BY <1>1, SameIs DEF Same, KeysInv, FormInv
<1>g. disk[f] \in Seq(Line) /\ mixed \subseteq mixed' /\ (f \in mixed' \/ Unique(disk[f]))
  BY <1>1 DEF Same, KeysInv, FormInv
<1>3. IsCall(x) /\ call' = [call EXCEPT ![p] = x]
  BY DEF Moves
<1> QED BY <1>1, <1>2, <1>g, <1>3, KeysKept

LEMMA KeysStep ==
  ASSUME KeysInv, NEW p \in Procs, Steps(p)
  PROVE  FormInv'
<1> DEFINE c == call[p]
           e == c.open[c.at]
           f == e.file
<1>0. Shapes /\ outer = [outer EXCEPT ![p] = outer[p]] /\ call = [call EXCEPT ![p] = c] /\ IsCall(c)
  <2>1. \A g \in Files : outer = [outer EXCEPT ![p] = outer[p]] /\ call = [call EXCEPT ![p] = c]
    BY SameIs DEF KeysInv, FormInv
  <2>2. <<"own", "dsn">> \in Files
    BY DEF Files
  <2> QED BY <2>1, <2>2 DEF KeysInv, FormInv
<1>m. ASSUME UNCHANGED <<mode, asked>> PROVE Mode(p)
  BY <1>0, <1>m, ModeStays
<1>1. CASE Mode(p) /\ UNCHANGED readonly /\ (Starts(p) \/ Idles(p) \/ Calls(p) \/ Misses(p))
  <2>1. CASE Starts(p)
    BY <1>0, <1>1, <2>1, KeysMoved DEF Starts, Begun
  <2>2. CASE Idles(p)
    <3>1. Moves(p, c) /\ Same
      BY <1>0, <2>2 DEF Idles, Moves
    <3>2. \E y : outer' = [outer EXCEPT ![p] = y]
      BY <1>0, <2>2 DEF Idles
    <3> QED BY <1>1, <3>1, <3>2, KeysMoved
  <2>3. CASE Calls(p)
    BY <1>1, <2>3, KeysMoved DEF Calls
  <2>4. CASE Misses(p)
    BY <1>0, <1>1, <2>4, KeysMoved DEF Misses
  <2> QED BY <1>1, <2>1, <2>2, <2>3, <2>4
<1>2. CASE UNCHANGED <<readonly, outer, asked>> /\ (Quits(p) \/ Loads(p) \/ Edits(p))
  <2>1. CASE Quits(p)
    <3>1. PICK result : Over(p, result)
      BY <2>1 DEF Quits
    <3>2. Mode(p) /\ \E x : Moves(p, x)
      BY <1>0, <1>2, <2>1, <3>1, QuitIs DEF Quits
    <3> QED BY <1>0, <1>2, <2>1, <3>2, KeysMoved DEF Quits
  <2>2. CASE Loads(p)
    BY <1>0, <1>2, <1>m, <2>2, KeysMoved DEF Loads
  <2>3. CASE Edits(p)
    BY <1>0, <1>2, <1>m, <2>3, KeysMoved DEF Edits
  <2> QED BY <1>2, <2>1, <2>2, <2>3
<1>3. CASE UNCHANGED <<readonly, outer, asked>> /\ AtIs(c) /\ (Truncates(p) \/ Flushes(p))
  <2>0. /\ f \in Files /\ c.fn # Null
        /\ e.table.lines \in Seq(Line) /\ (e.torn \/ Unique(e.table.lines))
    BY <1>3 DEF AtIs
  <2>s. /\ disk = [disk EXCEPT ![f] = disk[f]] /\ version = [version EXCEPT ![f] = version[f]]
        /\ due = [due EXCEPT ![f] = due[f]] /\ version[f] \in Nat
        /\ due[f] = [a \in Cells |-> due[f][a]]
    BY <1>0, <2>0, SameIs
  <2>1. CASE Truncates(p)
    <3>1. /\ disk' = [disk EXCEPT ![f] = <<>>] /\ version' = [version EXCEPT ![f] = version[f] + 1]
          /\ due' = [due EXCEPT ![f] = due[f]]
          /\ Moves(p, Writing(c)) /\ UNCHANGED mode
      BY <2>1, <2>s DEF Truncates
    <3>2. <<>> \in Seq(Line) /\ Unique(<<>>) /\ version[f] + 1 \in Nat
      <4>1. <<>> \in Seq(Line) /\ Len(<<>>) = 0
        OBVIOUS
      <4>2. DOMAIN <<>> = {}
        BY <4>1
      <4>3. Unique(<<>>)
        BY <4>2 DEF Unique
      <4>5. version[f] \in Nat
        BY <2>s
      <4>6. version[f] + 1 \in Nat
        BY <4>5
      <4> QED BY <4>1, <4>3, <4>6
    <3>m. mixed \subseteq mixed'
      BY <2>1 DEF Truncates
    <3>3. PICK x : IsCall(x) /\ call' = [call EXCEPT ![p] = x]
      BY <3>1 DEF Moves
    <3>4. Mode(p) /\ UNCHANGED readonly /\ outer' = [outer EXCEPT ![p] = outer[p]]
      BY <1>0, <1>3, <1>m, <3>1
    <3> HIDE DEF c, e, f
    <3> QED BY <2>0, <2>s, <3>1, <3>2, <3>m, <3>3, <3>4, KeysKept
  <2>2. CASE Flushes(p)
    <3> DEFINE m == Asked(due[f], e.table.log)
    <3> DEFINE lines == Overwritten(disk[f], Reread(e.table.lines))
    <3>1. /\ disk' = [disk EXCEPT ![f] = lines] /\ due' = [due EXCEPT ![f] = m]
          /\ version' = [version EXCEPT ![f] = version[f]] /\ mixed' = mixed
      BY <2>2, <2>s DEF Flushes
    <3>2. lines \in Seq(Line) /\ (f \in mixed' \/ Unique(lines))
      <4>1. Reread(e.table.lines) \in Seq(Line)
        BY <2>0, RereadStays
      <4>2. disk[f] \in Seq(Line) /\ Alone(f)
        BY <2>0 DEF KeysInv, FormInv
      <4>3. Writer(c, f)
        BY <2>2 DEF Flushes, Writer
      <4>4. f \notin mixed => disk[f] = <<>> /\ ~ e.torn
        BY <4>2, <4>3 DEF Alone
      <4>5. lines \in Seq(Line) /\ (disk[f] = <<>> => lines = Reread(e.table.lines))
        BY <4>1, <4>2, OverwrittenIs
      <4>6. ~ e.torn => Unique(Reread(e.table.lines))
        BY <2>0, RereadIs DEF Good
      <4> HIDE DEF lines, f, e
      <4> QED BY <3>1, <4>4, <4>5, <4>6
    <3>3. m = [a \in Cells |-> m[a]]
      BY <2>s DEF Asked
    <3>4. Mode(p) /\ \E x : Moves(p, x)
      <4>1. CASE Over(p, "done")
        BY <1>0, <1>3, <2>0, <4>1, QuitIs
      <4>2. CASE \E n : n \in 1 .. Len(c.open) /\ n > c.at /\ Moves(p, Passing(c, n)) /\ UNCHANGED mode
        BY <1>3, <1>m, <4>2
      <4> QED BY <2>2, <4>1, <4>2 DEF Flushes
    <3>5. PICK x : IsCall(x) /\ call' = [call EXCEPT ![p] = x]
      BY <3>4 DEF Moves
    <3>6. UNCHANGED readonly /\ outer' = [outer EXCEPT ![p] = outer[p]]
      BY <1>0, <1>3
    <3> HIDE DEF c, e, f, m, lines
    <3> QED BY <2>0, <2>s, <3>1, <3>2, <3>3, <3>4, <3>5, <3>6, KeysKept
  <2> QED BY <1>3, <2>1, <2>2
<1>4. CASE Mode(p) /\ UNCHANGED readonly /\ AtIs(c) /\ Crashes(p)
  <2>0. f \in Files
    BY <1>4 DEF AtIs
  <2>s. /\ version = [version EXCEPT ![f] = version[f]]
        /\ due = [due EXCEPT ![f] = due[f]] /\ version[f] \in Nat
        /\ due[f] = [a \in Cells |-> due[f][a]]
    BY <1>0, <2>0, SameIs
  <2>1. PICK lines \in Seq(Line) : (f \in mixed \/ Unique(lines)) /\ disk' = [disk EXCEPT ![f] = lines]
    BY <1>4 DEF Crashes
  <2>2. /\ version' = [version EXCEPT ![f] = version[f]] /\ due' = [due EXCEPT ![f] = due[f]]
        /\ IsCall(NoCall) /\ call' = [call EXCEPT ![p] = NoCall] /\ outer' = [outer EXCEPT ![p] = NoCall]
        /\ mixed' = mixed
    BY <1>4, <2>s DEF Crashes, Moves
  <2> HIDE DEF c, e, f
  <2> QED BY <1>4, <2>0, <2>s, <2>1, <2>2, KeysKept
<1> QED BY <1>1, <1>2, <1>3, <1>4 DEF Steps

(* Whose file it is: a step leaves it so, but for the file a call opens    *)
(* for writing.                                                            *)
LEMMA AloneStays ==
  ASSUME KeysInv, NEW p \in Procs, NEW x, call' = [call EXCEPT ![p] = x], NEW g \in Files,
         ~ Writer(x, g), g \in mixed' <=> g \in mixed, g \in raced => g \in raced',
         disk'[g] = disk[g] \/ (Writer(call[p], g) /\ g \notin mixed)
  PROVE  Alone(g)'
<1>0. Alone(g) /\ call = [q \in Procs |-> call[q]]
  BY DEF KeysInv, FormInv, Shapes
<1>1. g \in mixed' => g \in raced'
  BY <1>0 DEF Alone
<1>2. \A q \in Procs : call'[q] = IF q = p THEN x ELSE call[q]
  BY <1>0
<1>3. \A q \in Procs : Writer(call'[q], g) => q # p /\ call'[q] = call[q] /\ Writer(call[q], g)
  BY <1>2
<1>4. ASSUME g \notin mixed', NEW q \in Procs, Writer(call'[q], g)
      PROVE  /\ disk'[g] = <<>> /\ ~ call'[q].open[call'[q].at].torn
             /\ \A r \in Procs : Writer(call'[r], g) => r = q
  <2>1. q # p /\ call'[q] = call[q] /\ Writer(call[q], g)
    BY <1>3, <1>4
  <2>2. disk[g] = <<>> /\ ~ call[q].open[call[q].at].torn /\ \A r \in Procs : Writer(call[r], g) => r = q
    BY <1>0, <1>4, <2>1 DEF Alone
  <2>3. disk'[g] = disk[g]
    BY <2>1, <2>2
  <2> QED BY <1>3, <2>1, <2>2, <2>3
<1> QED BY <1>1, <1>4 DEF Alone

LEMMA AloneStep ==
  ASSUME KeysInv, NEW p \in Procs, Steps(p), NEW g \in Files
  PROVE  Alone(g)'
<1> DEFINE c == call[p]
           e == c.open[c.at]
           f == e.file
<1>0. Shapes /\ call = [call EXCEPT ![p] = c] /\ IsCall(c) /\ disk = [h \in Files |-> disk[h]]
  BY SameIs DEF KeysInv, FormInv, Shapes
<1>s. ASSUME Same, NEW x, Moves(p, x), ~ x.writing
      PROVE  Alone(g)'
  BY <1>s, AloneStays DEF Same, Moves, Writer
<1>n. ~ NoCall.writing
  BY NoCallIs
<1>1. CASE Starts(p) \/ Idles(p) \/ Calls(p) \/ Misses(p)
  <2>1. CASE Starts(p)
    BY <1>s, <2>1 DEF Starts, Begun
  <2>2. CASE Idles(p)
    BY <1>0, <1>s, <1>n, <2>2 DEF Idles, Moves
  <2>3. CASE Calls(p)
    BY <1>s, <1>n, <2>3 DEF Calls
  <2>4. CASE Misses(p)
    <3>1. PICK x : Moves(p, x) /\ ((Len(c.todo) > 1 /\ x = Retried(c)) \/ x = NoCall)
      BY <2>4 DEF Misses
    <3>2. ~ x.writing
      BY <1>0, <1>n, <3>1, RetriedIs
    <3> QED BY <1>s, <2>4, <3>1, <3>2 DEF Misses
  <2> QED BY <1>1, <2>1, <2>2, <2>3, <2>4
<1>2. CASE UNCHANGED asked /\ (Quits(p) \/ Loads(p) \/ Edits(p))
  <2>1. CASE Quits(p)
    <3>1. PICK result : Over(p, result)
      BY <2>1 DEF Quits
    <3>2. \E x : Moves(p, x) /\ ~ x.writing
      BY <1>0, <1>2, <2>1, <3>1, QuitIs DEF Quits
    <3> QED BY <1>s, <2>1, <3>2 DEF Quits
  <2>2. CASE Loads(p)
    <3>1. PICK h, d : OpensFile(p, h, d) /\ Moves(p, Opening(c, d)) /\ Same
      BY <2>2 DEF Loads
    <3>2. ~ Opening(c, d).writing
      BY <1>0, <3>1 DEF OpensFile, Opening, IsCall, Placed
    <3> QED BY <1>s, <3>1, <3>2
  <2>3. CASE Edits(p)
    <3>1. PICK h, d, new, n : OpensFile(p, h, d) /\ Moves(p, Editing(c, new, n)) /\ Same
      BY <2>3 DEF Edits
    <3>2. ~ Editing(c, new, n).writing
      BY <1>0, <3>1 DEF OpensFile, Editing, IsCall, Placed
    <3> QED BY <1>s, <3>1, <3>2
  <2> QED BY <1>2, <2>1, <2>2, <2>3
<1>3. CASE AtIs(c) /\ Truncates(p)
  <2>0. f \in Files /\ Moves(p, Writing(c)) /\ c.at # 0 /\ ~ c.writing
    BY <1>3 DEF AtIs, Truncates
  <2> PICK x : x = Writing(c)
    OBVIOUS
  <2>1. x.open = c.open /\ x.at = c.at /\ x.writing /\ call' = [call EXCEPT ![p] = x]
    BY <1>0, <2>0, WritingIs DEF Moves
  <2>2. Writer(x, g) <=> g = f
    BY <2>1 DEF Writer
  <2> DEFINE mixes == e.torn \/ BeingWritten(f)
  <2>3. /\ disk' = [disk EXCEPT ![f] = <<>>]
        /\ raced' = IF mixes \/ e.version # version[f] THEN raced \cup {f} ELSE raced
        /\ mixed' = IF mixes THEN mixed \cup {f} ELSE mixed
    BY <1>3 DEF Truncates
  <2>4. CASE g # f
    <3>1. disk'[g] = disk[g]
      BY <1>0, <2>3, <2>4
    <3>2. (g \in mixed' <=> g \in mixed) /\ (g \in raced => g \in raced')
      BY <2>3, <2>4
    <3> HIDE DEF c, e, f, mixes
    <3> QED BY <2>1, <2>2, <2>4, <3>1, <3>2, AloneStays
  <2>5. CASE g = f
    <3>0. Alone(f)
      BY <2>0 DEF KeysInv
    <3>1. CASE mixes
      <4>1. g \in mixed' /\ g \in raced'
        BY <2>3, <2>5, <3>1
      <4> QED BY <4>1 DEF Alone
    <3>2. CASE ~ mixes
      <4>1. mixed' = mixed /\ disk'[g] = <<>> /\ (f \in raced => f \in raced')
        BY <1>0, <2>0, <2>3, <2>5, <3>2
      <4>2. g \in mixed' => g \in raced'
        BY <2>5, <3>0, <4>1 DEF Alone
      <4>3. \A q \in Procs : q # p => call'[q] = call[q] /\ ~ Writer(call[q], f)
        <5>1. \A q \in Procs : ~ Writer(call[q], f)
          BY <3>2 DEF BeingWritten, WritersOf, Writer
        <5> QED BY <1>0, <2>1, <5>1 DEF Shapes
      <4>4. call'[p] = x
        BY <1>0, <2>1 DEF Shapes
      <4>5. ~ x.open[x.at].torn
        BY <2>1, <3>2
      <4> HIDE DEF c, e, f, mixes
      <4> QED BY <2>5, <4>1, <4>2, <4>3, <4>4, <4>5 DEF Alone
    <3> QED BY <3>1, <3>2
  <2> QED BY <2>4, <2>5
<1>w. ASSUME AtIs(c), c.writing, UNCHANGED <<raced, mixed>>, NEW lines, disk' = [disk EXCEPT ![f] = lines],
             NEW x, Moves(p, x), ~ x.writing
      PROVE  Alone(g)'
  <2>0. ~ Writer(x, g) /\ (g \in mixed' <=> g \in mixed) /\ (g \in raced => g \in raced')
    BY <1>w DEF Writer
  <2>1. CASE g # f
    <3>1. disk'[g] = disk[g]
      BY <1>0, <1>w, <2>1
    <3> QED BY <1>w, <2>0, <3>1, AloneStays DEF Moves
  <2>2. CASE g = f /\ g \notin mixed
    <3>1. Writer(c, g)
      BY <1>w, <2>2 DEF Writer
    <3> QED BY <1>w, <2>0, <2>2, <3>1, AloneStays DEF Moves
  <2>3. CASE g \in mixed
    <3>1. g \in mixed' /\ g \in raced'
      BY <1>w, <2>3 DEF KeysInv, Alone
    <3> QED BY <3>1 DEF Alone
  <2> QED BY <2>1, <2>2, <2>3
<1>4. CASE UNCHANGED asked /\ AtIs(c) /\ Flushes(p)
  <2>1. \E x : Moves(p, x) /\ ~ x.writing
    <3>1. CASE Over(p, "done")
      BY <1>0, <1>4, <3>1, QuitIs DEF AtIs
    <3>2. ASSUME NEW n \in 1 .. Len(c.open), Moves(p, Passing(c, n))
          PROVE  \E x : Moves(p, x) /\ ~ x.writing
      BY <1>0, <1>4, <3>2, PassingIs DEF AtIs
    <3> QED BY <1>4, <3>1, <3>2 DEF Flushes
  <2>2. /\ c.writing /\ UNCHANGED <<raced, mixed>>
        /\ disk' = [disk EXCEPT ![f] = Overwritten(disk[f], Reread(e.table.lines))]
    BY <1>4 DEF Flushes
  <2> QED BY <1>4, <1>w, <2>1, <2>2
<1>5. CASE AtIs(c) /\ Crashes(p)
  BY <1>5, <1>w, <1>n DEF Crashes
<1> QED BY <1>1, <1>2, <1>3, <1>4, <1>5 DEF Steps

-----------------------------------------------------------------------------
(* The files at first.                                                     *)

LEMMA LinesAre ==
  /\ \A s \in Names : LET l == SectionLine(s) IN l \in Line /\ l.section = s /\ l.id = Null /\ l.value = Null
  /\ \A k \in KeyNames, v \in Values :
       LET l == Define(k, v) IN l \in Line /\ l.section = Null /\ l.id = k /\ l.value = v
  /\ \A v \in Values : LET l == Continue(v) IN l \in Line /\ l.section = Null /\ l.id = Null /\ l.value = v
  /\ \A c \in {"block", "aside"} : LET l == Comment(c) IN l \in Line /\ l.section = Null /\ l.id = Null /\ l.value = Null
<1>1. ASSUME NEW s \in Names
      PROVE  LET l == SectionLine(s) IN l \in Line /\ l.section = s /\ l.id = Null /\ l.value = Null
  BY <1>1, NewLines DEF SectionLine, NoLine
<1>2. ASSUME NEW k \in KeyNames, NEW v \in Values
      PROVE  LET l == Define(k, v) IN l \in Line /\ l.section = Null /\ l.id = k /\ l.value = v
  <2> DEFINE w == [NoLine EXCEPT !.id = k]
  <2>1. w = [section |-> Null, id |-> k, value |-> Null, comment |-> Null]
    BY DEF NoLine
  <2>2. Define(k, v) = [w EXCEPT !.value = v]
    BY DEF Define
  <2> HIDE DEF w
  <2>3. Define(k, v) = [section |-> Null, id |-> k, value |-> v, comment |-> Null]
    BY <2>1, <2>2
  <2>4. Define(k, v) \in Line
    BY NewLines
  <2> QED BY <2>3, <2>4
<1>3. ASSUME NEW v \in Values
      PROVE  LET l == Continue(v) IN l \in Line /\ l.section = Null /\ l.id = Null /\ l.value = v
  <2>1. Continue(v) = [section |-> Null, id |-> Null, value |-> v, comment |-> Null]
    BY DEF Continue, NoLine
  <2> QED BY <2>1 DEF Line, Null
<1>4. ASSUME NEW c \in {"block", "aside"}
      PROVE  LET l == Comment(c) IN l \in Line /\ l.section = Null /\ l.id = Null /\ l.value = Null
  <2>1. Comment(c) = [section |-> Null, id |-> Null, value |-> Null, comment |-> c]
    BY DEF Comment, NoLine
  <2> QED BY <2>1 DEF Line, Values
<1> QED BY <1>1, <1>2, <1>3, <1>4

(* Nothing twice, and no value that reads differently.                     *)
Beginner(lines) == Good(lines) /\ \A i \in 1 .. Len(lines) : lines[i].value # Cut

LEMMA BeginnerIs ==
  ASSUME NEW lines \in Seq(Line),
         \A i, j \in 1 .. Len(lines) : i < j =>
           /\ lines[i].section # Null => lines[i].section # lines[j].section
           /\ lines[i].id # Null => lines[i].id # lines[j].id,
         \A i \in 1 .. Len(lines) : lines[i].value # Cut
  PROVE  Beginner(lines)
<1>1. DOMAIN lines = 1 .. Len(lines)
  OBVIOUS
<1>2. Unique(lines)
  BY <1>1 DEF Unique
<1> QED BY <1>2 DEF Beginner, Good

LEMMA Unspoilt ==
  /\ \A v \in {"r", "t", "lib", "setup", "Installed", "v", Null} : v # Cut /\ v \in Values
BY IniAssumption DEF Plain, Values

Glued(s, t, x) ==
  /\ x \in Seq(Line) /\ Len(x) = Len(s) + Len(t) /\ Len(s) \in Nat /\ Len(t) \in Nat
  /\ \A i \in 1 .. Len(s) : x[i] = s[i]
  /\ \A i \in 1 .. Len(t) : x[Len(s) + i] = t[i]

LEMMA Together ==
  ASSUME NEW s \in Seq(Line), NEW t \in Seq(Line), NEW x, x = s \o t
  PROVE  Glued(s, t, x)
<1>1. Len(s) \in Nat /\ Len(t) \in Nat
  OBVIOUS
<1>2. /\ x \in Seq(Line) /\ Len(x) = Len(s) + Len(t)
      /\ \A i \in 1 .. Len(s) + Len(t) : x[i] = IF i <= Len(s) THEN s[i] ELSE t[i - Len(s)]
  BY Joined
<1>3. ASSUME NEW i \in 1 .. Len(s) PROVE x[i] = s[i]
  BY <1>1, <1>2
<1>4. ASSUME NEW i \in 1 .. Len(t) PROVE x[Len(s) + i] = t[i]
  <2>1. Len(s) + i \in 1 .. Len(s) + Len(t) /\ ~ (Len(s) + i <= Len(s)) /\ Len(s) + i - Len(s) = i
    BY <1>1
  <2> QED BY <1>2, <2>1
<1> QED BY <1>1, <1>2, <1>3, <1>4 DEF Glued

LEMMA DriverLines ==
  /\ Beginner(Driver) /\ Beginner(Driver \o <<SectionLine("d")>>) /\ Beginner(<<>>)
<1> PICK l1, l2, l3, l4, l5, l6, l7, l8 :
      /\ l1 = SectionLine("drivers") /\ l2 = Define("r", "Installed") /\ l3 = Comment("aside")
      /\ l4 = Comment("block") /\ l5 = SectionLine("r") /\ l6 = Define("Driver", "lib")
      /\ l7 = Define("Setup", "setup") /\ l8 = SectionLine("d")
  OBVIOUS
<1>2. /\ l1 \in Line /\ l1.section = "drivers" /\ l1.id = Null /\ l1.value = Null
      /\ l2 \in Line /\ l2.section = Null /\ l2.id = "r" /\ l2.value = "Installed"
      /\ l3 \in Line /\ l3.section = Null /\ l3.id = Null /\ l3.value = Null
      /\ l4 \in Line /\ l4.section = Null /\ l4.id = Null /\ l4.value = Null
      /\ l5 \in Line /\ l5.section = "r" /\ l5.id = Null /\ l5.value = Null
      /\ l6 \in Line /\ l6.section = Null /\ l6.id = "Driver" /\ l6.value = "lib"
      /\ l7 \in Line /\ l7.section = Null /\ l7.id = "Setup" /\ l7.value = "setup"
      /\ l8 \in Line /\ l8.section = "d" /\ l8.id = Null /\ l8.value = Null
  BY LinesAre, SomeNames
<1>3. /\ Driver = <<l1, l2, l3, l4, l5, l6, l7>>
      /\ Driver \o <<SectionLine("d")>> = Driver \o <<l8>>
  BY DEF Driver
<1>4. Beginner(<<l1, l2, l3, l4, l5, l6, l7>>)
  <2> DEFINE x == <<l1, l2, l3, l4, l5, l6, l7>>
  <2>1. /\ x \in Seq(Line) /\ Len(x) = 7 /\ x[1] = l1 /\ x[2] = l2 /\ x[3] = l3 /\ x[4] = l4 /\ x[5] = l5
        /\ x[6] = l6 /\ x[7] = l7
    BY <1>2
  <2> HIDE DEF x
  <2>2. \A i \in 1 .. 7 : i = 1 \/ i = 2 \/ i = 3 \/ i = 4 \/ i = 5 \/ i = 6 \/ i = 7
    OBVIOUS
  <2>3. /\ \A i, j \in 1 .. Len(x) : i < j => (x[i].section # Null => x[i].section # x[j].section)
    BY <1>2, <2>1, <2>2 DEF Null
  <2>4. /\ \A i, j \in 1 .. Len(x) : i < j => (x[i].id # Null => x[i].id # x[j].id)
    BY <1>2, <2>1, <2>2 DEF Null
  <2>5. \A i \in 1 .. Len(x) : x[i].value # Cut
    BY <1>2, <2>1, <2>2, Unspoilt
  <2>6. Beginner(x)
    BY <2>1, <2>3, <2>4, <2>5, BeginnerIs
  <2> QED BY <2>6 DEF x
<1>5. Beginner(Driver \o <<l8>>)
  <2> DEFINE x == Driver \o <<l8>>
  <2> PICK y, z : y = Driver /\ z = <<l8>>
    OBVIOUS
  <2>0. /\ y \in Seq(Line) /\ Len(y) = 7 /\ y[1] = l1 /\ y[2] = l2 /\ y[3] = l3 /\ y[4] = l4 /\ y[5] = l5
        /\ y[6] = l6 /\ y[7] = l7 /\ z \in Seq(Line) /\ Len(z) = 1 /\ z[1] = l8 /\ x = y \o z
    BY <1>2, <1>3
  <2>1. /\ x \in Seq(Line) /\ Len(x) = 8 /\ x[1] = l1 /\ x[2] = l2 /\ x[3] = l3 /\ x[4] = l4 /\ x[5] = l5
        /\ x[6] = l6 /\ x[7] = l7 /\ x[8] = l8
    <3> HIDE DEF x
    <3>0. y \in Seq(Line) /\ z \in Seq(Line) /\ x = y \o z
      BY <2>0
    <3>g. Glued(y, z, x)
      BY <3>0, Together, Zenon
    <3>1. /\ x \in Seq(Line) /\ Len(x) = Len(y) + Len(z)
          /\ \A i \in 1 .. Len(y) : x[i] = y[i]
          /\ \A i \in 1 .. Len(z) : x[Len(y) + i] = z[i]
      BY <3>g DEF Glued
    <3>2. /\ y[1] = l1 /\ y[2] = l2 /\ y[3] = l3 /\ y[4] = l4 /\ y[5] = l5
          /\ y[6] = l6 /\ y[7] = l7 /\ Len(y) = 7 /\ Len(z) = 1 /\ z[1] = l8
      BY <2>0
    <3>3. x[Len(y) + 1] = z[1] /\ Len(y) + 1 = 8
      BY <3>1, <3>2
    <3>4. x[8] = l8 /\ Len(x) = 8
      BY <3>1, <3>2, <3>3
    <3> QED BY <3>1, <3>2, <3>4
  <2> HIDE DEF x
  <2>2. \A i \in 1 .. 8 : i = 1 \/ i = 2 \/ i = 3 \/ i = 4 \/ i = 5 \/ i = 6 \/ i = 7 \/ i = 8
    OBVIOUS
  <2>3. /\ \A i, j \in 1 .. Len(x) : i < j => (x[i].section # Null => x[i].section # x[j].section)
    BY <1>2, <2>1, <2>2 DEF Null
  <2>4. /\ \A i, j \in 1 .. Len(x) : i < j => (x[i].id # Null => x[i].id # x[j].id)
    BY <1>2, <2>1, <2>2 DEF Null
  <2>5. \A i \in 1 .. Len(x) : x[i].value # Cut
    BY <1>2, <2>1, <2>2, Unspoilt
  <2>6. Beginner(x)
    BY <2>1, <2>3, <2>4, <2>5, BeginnerIs
  <2> QED BY <2>6 DEF x
<1>6. Beginner(<<>>)
  <2>1. <<>> \in Seq(Line) /\ Len(<<>>) = 0
    OBVIOUS
  <2> PICK x : x = <<>>
    OBVIOUS
  <2>2. x \in Seq(Line) /\ Len(x) = 0 /\ 1 .. Len(x) = {}
    BY <2>1
  <2>3. Beginner(x)
    BY <2>2, BeginnerIs
  <2> QED BY <2>3
<1> QED BY <1>3, <1>4, <1>5, <1>6

LEMMA SourceLines ==
  LET lines == Source \o Sources \o <<SectionLine("a"), Define("k", "v"), Continue("v")>> IN
  Beginner(lines) /\ BothOrNone(lines)
<1> DEFINE lines == Source \o Sources \o <<SectionLine("a"), Define("k", "v"), Continue("v")>>
<1> PICK l1, l2, l3, l4, l5, l6, l7, l8 :
      /\ l1 = Comment("block") /\ l2 = SectionLine("d") /\ l3 = Define("Driver", "lib")
      /\ l4 = SectionLine("sources") /\ l5 = Define("d", "r") /\ l6 = SectionLine("a")
      /\ l7 = Define("k", "v") /\ l8 = Continue("v")
  OBVIOUS
<1>2. /\ l1 \in Line /\ l1.section = Null /\ l1.id = Null /\ l1.value = Null
      /\ l2 \in Line /\ l2.section = "d" /\ l2.id = Null /\ l2.value = Null
      /\ l3 \in Line /\ l3.section = Null /\ l3.id = "Driver" /\ l3.value = "lib"
      /\ l4 \in Line /\ l4.section = "sources" /\ l4.id = Null /\ l4.value = Null
      /\ l5 \in Line /\ l5.section = Null /\ l5.id = "d" /\ l5.value = "r"
      /\ l6 \in Line /\ l6.section = "a" /\ l6.id = Null /\ l6.value = Null
      /\ l7 \in Line /\ l7.section = Null /\ l7.id = "k" /\ l7.value = "v"
      /\ l8 \in Line /\ l8.section = Null /\ l8.id = Null /\ l8.value = "v"
  BY LinesAre, SomeNames
<1> PICK x : x = lines
  OBVIOUS
<1>3. /\ x \in Seq(Line) /\ Len(x) = 8 /\ x[1] = l1 /\ x[2] = l2 /\ x[3] = l3 /\ x[4] = l4 /\ x[5] = l5
      /\ x[6] = l6 /\ x[7] = l7 /\ x[8] = l8
  <2> PICK u, v, w : u = Source /\ v = Sources /\ w = <<l6, l7, l8>>
    OBVIOUS
  <2>1. /\ u \in Seq(Line) /\ Len(u) = 3 /\ u[1] = l1 /\ u[2] = l2 /\ u[3] = l3
        /\ v \in Seq(Line) /\ Len(v) = 2 /\ v[1] = l4 /\ v[2] = l5
        /\ w \in Seq(Line) /\ Len(w) = 3 /\ w[1] = l6 /\ w[2] = l7 /\ w[3] = l8
    BY <1>2 DEF Source, Sources
  <2> PICK y : y = u \o v
    OBVIOUS
  <2>g. Glued(u, v, y)
    BY <2>1, Together, Zenon
  <2>2. /\ y \in Seq(Line) /\ Len(y) = Len(u) + Len(v)
        /\ \A i \in 1 .. Len(u) : y[i] = u[i]
        /\ \A i \in 1 .. Len(v) : y[Len(u) + i] = v[i]
    BY <2>g DEF Glued
  <2>3. Len(y) = 5 /\ y[1] = l1 /\ y[2] = l2 /\ y[3] = l3 /\ y[4] = l4 /\ y[5] = l5
    BY <2>1, <2>2
  <2>4. x = y \o w
    OBVIOUS
  <2>h. Glued(y, w, x)
    BY <2>1, <2>2, <2>4, Together, Zenon
  <2>5. /\ x \in Seq(Line) /\ Len(x) = Len(y) + Len(w)
        /\ \A i \in 1 .. Len(y) : x[i] = y[i]
        /\ \A i \in 1 .. Len(w) : x[Len(y) + i] = w[i]
    BY <2>h DEF Glued
  <2>6. Len(x) = 8 /\ x[1] = y[1] /\ x[2] = y[2] /\ x[3] = y[3] /\ x[4] = y[4] /\ x[5] = y[5]
        /\ x[6] = w[1] /\ x[7] = w[2] /\ x[8] = w[3]
    <3>1. Len(w) = 3
      BY <2>1
    <3>2. x[5 + 1] = w[1] /\ x[5 + 2] = w[2] /\ x[5 + 3] = w[3]
      <4>1. \A i \in 1 .. 3 : x[5 + i] = w[i]
        BY <2>3, <2>5, <3>1
      <4>2. 1 \in 1 .. 3 /\ 2 \in 1 .. 3 /\ 3 \in 1 .. 3
        OBVIOUS
      <4> QED BY <4>1, <4>2
    <3>3. x[6] = w[1] /\ x[7] = w[2] /\ x[8] = w[3]
      <4>1. 5 + 1 = 6 /\ 5 + 2 = 7 /\ 5 + 3 = 8
        OBVIOUS
      <4> QED BY <3>2, <4>1
    <3>4. \A i \in 1 .. 5 : x[i] = y[i]
      BY <2>3, <2>5
    <3>5. Len(x) = 8
      BY <2>3, <2>5, <3>1
    <3> QED BY <3>3, <3>4, <3>5
  <2> QED BY <2>1, <2>3, <2>5, <2>6
<1> HIDE DEF lines
<1>b. \A i \in 1 .. 8 : i = 1 \/ i = 2 \/ i = 3 \/ i = 4 \/ i = 5 \/ i = 6 \/ i = 7 \/ i = 8
  OBVIOUS
<1>4. /\ \A i, j \in 1 .. Len(x) : i < j => (x[i].section # Null => x[i].section # x[j].section)
  BY <1>2, <1>3, <1>b DEF Null
<1>5. /\ \A i, j \in 1 .. Len(x) : i < j => (x[i].id # Null => x[i].id # x[j].id)
  BY <1>2, <1>3, <1>b DEF Null
<1>6. \A i \in 1 .. Len(x) : x[i].value # Cut
  <2>1. \A i \in 1 .. 8 : x[i].value \in {"r", "t", "lib", "setup", "Installed", "v", Null}
    BY <1>2, <1>3, <1>b
  <2>2. Len(x) = 8
    BY <1>3
  <2> QED BY <2>1, <2>2, Unspoilt
<1>7. Beginner(x)
  <2>1. x \in Seq(Line)
    BY <1>3
  <2> QED BY <1>4, <1>5, <1>6, <2>1, BeginnerIs
<1>8. Find(x, "sources", "d") = "r"
  <2>1. x[4].section = "sources" /\ \A m \in 4 + 1 .. 5 : x[m].section = Null
    BY <1>2, <1>3
  <2>2. Under(x, "sources", 5) /\ 5 \in 1 .. Len(x)
    BY <1>3, <2>1 DEF Under
  <2>3. x[5].id = "d" /\ x[5].value = "r" /\ Good(x)
    BY <1>2, <1>3, <1>7 DEF Beginner
  <2>4. "sources" # Null /\ "d" # Null
    BY DEF Null
  <2> QED BY <2>2, <2>3, <2>4, FindIs
<1>9. Find(x, "d", "Driver") = "lib"
  <2>1. x[2].section = "d" /\ \A m \in 2 + 1 .. 3 : x[m].section = Null
    BY <1>2, <1>3
  <2>2. Under(x, "d", 3) /\ 3 \in 1 .. Len(x)
    BY <1>3, <2>1 DEF Under
  <2> QED BY <1>2, <1>3, <1>7, <2>2, FindIs DEF Beginner, Null
<1>10. BothOrNone(x)
  BY <1>8, <1>9 DEF BothOrNone, Null
<1> QED BY <1>7, <1>10 DEF lines

LEMMA InitIs ==
  ASSUME Init
  PROVE  /\ \A f \in Files : Beginner(disk[f]) /\ (f[2] = "odbc" => BothOrNone(disk[f]))
                             /\ due[f] = Meaning(disk[f], Cells)
         /\ call = [p \in Procs |-> NoCall] /\ outer = [p \in Procs |-> NoCall]
         /\ mode = [p \in Procs |-> "both"] /\ asked = mode /\ version = [f \in Files |-> 0]
         /\ KeysInv /\ raced = {} /\ mixed = {} /\ broken = {} /\ odd = {}
<1>1. PICK lines \in Beginnings :
        /\ disk = [f \in Files |-> IF f \in DOMAIN lines THEN lines[f] ELSE <<>>]
        /\ readonly \in {{}, {<<"user", "inst">>, <<"user", "odbc">>}}
        /\ mode = [p \in Procs |-> "both"] /\ asked = mode
        /\ call = [p \in Procs |-> NoCall] /\ outer = call
        /\ version = [f \in Files |-> 0]
        /\ due = [f \in Files |-> Meaning(disk[f], Cells)]
        /\ raced = {} /\ mixed = {} /\ broken = {} /\ odd = {}
  BY DEF Init
<1> DEFINE sources == Source \o Sources \o <<SectionLine("a"), Define("k", "v"), Continue("v")>>
           drivers == Driver \o <<SectionLine("d")>>
<1>2. /\ Beginner(Driver) /\ Beginner(drivers) /\ Beginner(<<>>) /\ Beginner(sources)
      /\ BothOrNone(sources)
  BY DriverLines, SourceLines
<1>3. BothOrNone(<<>>)
  <2>1. Good(<<>>) /\ Len(<<>>) = 0 /\ "sources" # Null /\ "d" # Null /\ "Driver" # Null
    BY <1>2 DEF Beginner, Null
  <2> PICK x : x = <<>>
    OBVIOUS
  <2>2. Good(x) /\ 1 .. Len(x) = {} /\ "sources" # Null /\ "d" # Null /\ "Driver" # Null
    BY <2>1
  <2>3. Find(x, "sources", "d") = Null /\ Find(x, "d", "Driver") = Null
    BY <2>2, FindIs
  <2>4. BothOrNone(x)
    BY <2>3 DEF BothOrNone
  <2> QED BY <2>4
<1> HIDE DEF sources, drivers
<1>4. \/ lines = [f \in {<<"system", "inst">>} |-> Driver]
      \/ lines = [f \in {<<"user", "odbc">>, <<"system", "odbc">>, <<"user", "inst">>} |->
                    IF f[2] = "inst" THEN drivers ELSE sources]
  BY DEF Beginnings, sources, drivers
<1>5. ASSUME NEW f \in Files
      PROVE  Beginner(disk[f]) /\ (f[2] = "odbc" => BothOrNone(disk[f]))
  <2>1. disk[f] = IF f \in DOMAIN lines THEN lines[f] ELSE <<>>
    BY <1>1
  <2>2. CASE f \notin DOMAIN lines
    BY <1>2, <1>3, <2>1, <2>2
  <2>3. CASE f \in DOMAIN lines /\ lines = [g \in {<<"system", "inst">>} |-> Driver]
    <3>1. disk[f] = Driver /\ f[2] = "inst"
      BY <2>1, <2>3
    <3> QED BY <1>2, <3>1
  <2>4. CASE /\ f \in DOMAIN lines
             /\ lines = [g \in {<<"user", "odbc">>, <<"system", "odbc">>, <<"user", "inst">>} |->
                           IF g[2] = "inst" THEN drivers ELSE sources]
    <3>1. disk[f] = IF f[2] = "inst" THEN drivers ELSE sources
      BY <2>1, <2>4
    <3> QED BY <1>2, <3>1
  <2> QED BY <1>4, <2>2, <2>3, <2>4
<1>6. /\ \A f \in Files : due[f] = Meaning(disk[f], Cells)
      /\ outer = [p \in Procs |-> NoCall]
  BY <1>1
<1>7. Shapes
  <2>1. \A f \in Files : due[f] = [c \in Cells |-> due[f][c]]
    BY <1>6 DEF Meaning
  <2>2. mode \in [Procs -> Modes] /\ asked \in [Procs -> Modes]
    BY <1>1 DEF Modes
  <2>3. readonly \subseteq {"user"} \X {"odbc", "inst"}
    BY <1>1
  <2>4. version \in [Files -> Nat]
    BY <1>1
  <2>5. call = [p \in Procs |-> call[p]] /\ outer = [p \in Procs |-> outer[p]]
        /\ disk = [f \in Files |-> disk[f]] /\ due = [f \in Files |-> due[f]]
    BY <1>1
  <2> QED BY <2>1, <2>2, <2>3, <2>4, <2>5 DEF Shapes, Modes
<1>8. KeysInv
  <2>1. \A p \in Procs : IsCall(call[p])
    BY <1>1, NoCallIs
  <2>2. \A f \in Files : disk[f] \in Seq(Line) /\ Unique(disk[f])
    BY <1>5 DEF Beginner, Good
  <2>3. \A p \in Procs : ~ call[p].writing
    BY <1>1, NoCallIs
  <2>4. ASSUME NEW f \in Files PROVE Alone(f)
    BY <1>1, <2>3 DEF Alone, Writer
  <2> QED BY <1>7, <2>1, <2>2, <2>4 DEF KeysInv, FormInv
<1> QED BY <1>1, <1>5, <1>6, <1>8

LEMMA KeysInvHolds == Spec => []KeysInv
<1>1. Init => KeysInv
  BY InitIs
<1>2. KeysInv /\ [Next]_vars => KeysInv'
  <2> SUFFICES ASSUME KeysInv, [Next]_vars PROVE KeysInv'
    OBVIOUS
  <2>1. CASE Next
    <3>1. PICK p \in Procs : Steps(p)
      BY <2>1, StepIs
    <3>2. FormInv' /\ \A f \in Files : Alone(f)'
      BY <3>1, KeysStep, AloneStep
    <3> QED BY <3>2 DEF KeysInv
  <2>2. CASE UNCHANGED vars
    <3>1. UNCHANGED <<disk, mode, call, outer, version, due, readonly, raced, mixed, asked>>
      BY <2>2 DEF vars
    <3>2. Shapes' /\ \A f \in Files : Alone(f)'
      BY <3>1 DEF KeysInv, FormInv, Shapes, Alone
    <3> QED BY <3>1, <3>2 DEF KeysInv, FormInv
  <2> QED BY <2>1, <2>2
<1> QED BY <1>1, <1>2, PTL DEF Spec

(* No file has a section twice, or a key twice in one, whatever the        *)
(* interleaving and the crashes: a table that was read whole is unique, a  *)
(* change adds an entry only where the search (_iodbcdm_cfg_find in        *)
(* _iodbcdm_cfg_write) found none, and a file is written from one table    *)
(* and, where its writer dies, from a first part of one.  The exception,   *)
(* mixed, are the files that two processes wrote at once.                  *)
THEOREM KeysUniqueHolds == Spec => []KeysUnique
<1>1. KeysInv => KeysUnique
  BY DEF KeysInv, FormInv, KeysUnique
<1> QED BY <1>1, KeysInvHolds, PTL

-----------------------------------------------------------------------------
(* The mode of a call.                                                     *)

LEMMA ModeOthers ==
  ASSUME KeysInv, ModeInv, NEW p \in Procs, Mode(p),
         NEW x, call' = [call EXCEPT ![p] = x], NEW y, outer' = [outer EXCEPT ![p] = y],
         Modal(x, y, mode'[p], asked'[p])
  PROVE  ModeInv'
<1> SUFFICES ASSUME NEW q \in Procs PROVE Modal(call'[q], outer'[q], mode'[q], asked'[q])
  BY DEF ModeInv
<1>1. /\ call = [r \in Procs |-> call[r]] /\ outer = [r \in Procs |-> outer[r]]
      /\ mode \in [Procs -> Modes] /\ asked \in [Procs -> Modes]
  BY DEF KeysInv, FormInv, Shapes, Modes
<1>2. CASE q = p
  <2>1. call'[q] = x /\ outer'[q] = y
    BY <1>1, <1>2
  <2> QED BY <1>2, <2>1
<1>3. CASE q # p
  <2>1. call'[q] = call[q] /\ outer'[q] = outer[q]
    BY <1>1, <1>3
  <2>2. mode'[q] = mode[q] /\ asked'[q] = asked[q]
    BY <1>1, <1>3 DEF Mode
  <2>3. Modal(call[q], outer[q], mode[q], asked[q])
    BY DEF ModeInv
  <2> QED BY <2>1, <2>2, <2>3
<1> QED BY <1>2, <1>3

LEMMA NoFilesOf ==
  ASSUME NEW x, x.open = <<>>
  PROVE  FilesOf(x)
BY DEF FilesOf

LEMMA IdleModal ==
  ASSUME NEW y, NEW m, y # NoCall => y.fn \in Callbacks
  PROVE  Modal(NoCall, y, m, m) /\ (NoCall # NoCall => NoCall.fn \in Callbacks)
<1>1. NoCall.fn = Null /\ NoCall.open = <<>>
  BY NoCallIs
<1>2. Null \notin Callbacks /\ Null \notin Scoped
  BY WritersAre DEF Callbacks, Scoped, Null
<1>3. FilesOf(NoCall)
  BY <1>1, NoFilesOf
<1>4. ModeOf(NoCall, m, m) /\ ScopesOf(NoCall) /\ Callable(NoCall)
  BY <1>1, <1>2 DEF ModeOf, ScopesOf, Callable
<1> QED BY <1>3, <1>4 DEF Modal

LEMMA RetriedModal ==
  ASSUME NEW c, IsCall(c), Len(c.todo) > 1, NEW y, NEW m, NEW a, Modal(c, y, m, a), NEW x, x = Retried(c)
  PROVE  Modal(x, y, m, a)
<1>1. /\ x.open = <<>> /\ x.fn = c.fn /\ x.retry /\ x.asked = c.asked /\ Len(x.todo) = Len(c.todo) - 1
  BY RetriedIs
<1>2. /\ c = [fn |-> c.fn, s |-> c.s, k |-> c.k, v |-> c.v, todo |-> c.todo, open |-> c.open,
              at |-> c.at, writing |-> c.writing, asked |-> c.asked, retry |-> c.retry]
      /\ c.todo \in Seq(Attempts) /\ c.todo # <<>>
  BY DEF IsCall, Asks
<1>3. x.todo = Tail(c.todo)
  BY <1>2 DEF Retried
<1>4. /\ Len(c.todo) \in Nat /\ \A i \in 1 .. Len(Tail(c.todo)) : Tail(c.todo)[i] = c.todo[i + 1]
  BY <1>2, HeadTailProperties
<1>5. ScopesOf(x)
  <2> SUFFICES ASSUME c.fn \in Scoped
               PROVE  x.asked \in {"both", "user", "system"} /\ Len(x.todo) = 1 /\ x.asked = "both"
    BY <1>1 DEF ScopesOf
  <2>1. Len(c.todo) \in {1, 2} /\ (c.retry => Len(c.todo) = 1) /\ (~ c.retry /\ Len(c.todo) = 2 => c.asked = "both")
    BY DEF Modal, ScopesOf
  <2> QED BY <1>1, <1>4, <2>1
<1>6. Callable(x)
  <2> SUFFICES ASSUME c.fn \in Callbacks, NEW i \in 1 .. Len(x.todo)
               PROVE  /\ x.todo[i].kinds = <<"inst">> /\ x.todo[i].create
                      /\ x.todo[i].scope \in {"user", "system"}
    BY <1>1 DEF Callable
  <2>1. x.todo[i] = c.todo[i + 1]
    BY <1>3, <1>4
  <2>2. i + 1 \in 1 .. Len(c.todo)
    BY <1>1, <1>4
  <2> QED BY <2>1, <2>2 DEF Modal, Callable
<1>7. FilesOf(x)
  BY <1>1, NoFilesOf
<1>8. ModeOf(x, m, a)
  BY <1>1 DEF Modal, ModeOf
<1> QED BY <1>5, <1>6, <1>7, <1>8 DEF Modal

(* A call that goes on with the same attempt.                              *)
Onward(c, x) ==
  /\ x.fn = c.fn /\ x.todo = c.todo /\ x.asked = c.asked /\ x.retry = c.retry
LEMMA OnwardModal ==
  ASSUME NEW c, NEW y, NEW m, NEW a, Modal(c, y, m, a), NEW x, Onward(c, x), FilesOf(x)
  PROVE  Modal(x, y, m, a)
<1>1. ModeOf(x, m, a)
  BY DEF Modal, Onward, ModeOf
<1>2. ScopesOf(x)
  <2>1. ScopesOf(c)
    BY DEF Modal
  <2> QED BY <2>1 DEF Onward, ScopesOf
<1>3. Callable(x)
  BY DEF Modal, Onward, Callable
<1> QED BY <1>1, <1>2, <1>3 DEF Modal

LEMMA StartsModal ==
  ASSUME KeysInv, ModeInv, NEW p \in Procs, call[p] = NoCall, NEW x, Begun(p, x)
  PROVE  Modal(x, outer[p], mode'[p], asked'[p])
<1>0. /\ x.open = <<>> /\ ~ x.retry /\ x.fn # Null
      /\ x.fn \in Scoped => x.asked = asked[p] /\ ScopedTodo(p, x.todo)
      /\ x.fn \in Callbacks => x.todo = BothDriverFiles
      /\ IF x.fn \in Keeping \cup Callbacks THEN mode[p] = asked[p] => mode'[p] = asked'[p] ELSE asked'[p] = "both"
  BY DEF Begun
<1>1. Modal(NoCall, outer[p], mode[p], asked[p]) /\ mode[p] = asked[p]
  <2>1. Modal(call[p], outer[p], mode[p], asked[p])
    BY DEF ModeInv
  <2> QED BY <2>1, NoCallIs DEF Modal, ModeOf
<1>2. ModeOf(x, mode'[p], asked'[p])
  BY <1>0, <1>1 DEF ModeOf
<1>3. ScopesOf(x)
  <2> SUFFICES ASSUME x.fn \in Scoped
               PROVE  /\ x.asked \in {"both", "user", "system"} /\ Len(x.todo) \in {1, 2}
                      /\ x.todo[1].scope = IF x.asked = "system" THEN "system" ELSE "user"
                      /\ Len(x.todo) = 2 => x.asked = "both"
    BY <1>0 DEF ScopesOf
  <2>1. asked[p] \in {"both", "user", "system"}
    BY DEF KeysInv, FormInv, Shapes
  <2> QED BY <1>0, <1>1, <2>1 DEF ScopedTodo
<1>4. Callable(x)
  BY <1>0, DriverFilesIs DEF Callable
<1>5. FilesOf(x)
  BY <1>0, NoFilesOf
<1> QED BY <1>1, <1>2, <1>3, <1>4, <1>5 DEF Modal

(* Call c with an entry more, which is x.                                  *)
More(c, e, x) ==
  /\ IsCall(x) /\ x.fn = c.fn /\ x.todo = c.todo /\ x.at = 0 /\ x.asked = c.asked /\ x.retry = c.retry
  /\ ~ x.writing /\ Len(c.open) \in Nat /\ Len(x.open) = Len(c.open) + 1
  /\ \A i \in 1 .. Len(c.open) : x.open[i] = c.open[i]
  /\ x.open[Len(x.open)] = e
LEMMA OneMore ==
  ASSUME NEW c, IsCall(c), c.todo # <<>>, c.at = 0, Len(c.open) < Len(c.todo[1].kinds),
         NEW e, Entry(e), Unedited(e.table), e.kind = c.todo[1].kinds[Len(c.open) + 1],
         NEW x, x = Opening(c, e)
  PROVE  More(c, e, x)
<1>1. /\ IsCall(x) /\ x.fn = c.fn /\ x.todo = c.todo /\ x.at = 0 /\ x.asked = c.asked /\ x.retry = c.retry
      /\ ~ x.writing /\ Len(c.open) \in Nat /\ Len(x.open) = Len(c.open) + 1
  BY OpeningIs
<1>2. PICK t : t = Append(c.open, e)
  OBVIOUS
<1>3. Longer(c.open, e, t)
  <2>1. IsSeq(c.open)
    BY DEF IsCall, Opened
  <2> QED BY <1>2, <2>1, SeqMore
<1>4. x.open = t
  <2>1. c = [fn |-> c.fn, s |-> c.s, k |-> c.k, v |-> c.v, todo |-> c.todo, open |-> c.open,
             at |-> c.at, writing |-> c.writing, asked |-> c.asked, retry |-> c.retry]
    BY DEF IsCall
  <2>2. x = [c EXCEPT !.open = t]
    BY <1>2 DEF Opening
  <2> HIDE <1>2
  <2> QED BY <2>1, <2>2
<1>5. /\ \A i \in 1 .. Len(c.open) : x.open[i] = c.open[i]
      /\ x.open[Len(x.open)] = e
  BY <1>3, <1>4 DEF Longer
<1> QED BY <1>1, <1>5 DEF More

LEMMA LoadsFiles ==
  ASSUME KeysInv, NEW p \in Procs, FilesOf(call[p]), NEW f, NEW e, OpensFile(p, f, e),
         NEW x, x = Opening(call[p], e)
  PROVE  IsCall(x) /\ Onward(call[p], x) /\ FilesOf(x)
<1> DEFINE c == call[p]
<1>1. /\ c.todo # <<>> /\ c.at = 0 /\ Len(c.open) < Len(c.todo[1].kinds) /\ ~ c.writing
      /\ f \in Files /\ f[2] = c.todo[1].kinds[Len(c.open) + 1]
      /\ \/ f[1] = c.todo[1].scope
         \/ c.todo[1].scope = "user" /\ f[1] = "system" /\ f[2] = "inst" /\ <<"user", f[2]>> \notin present
  BY DEF OpensFile
<1>2. IsCall(c) /\ FilesOf(c) /\ x = Opening(c, e)
  BY <1>1 DEF KeysInv, FormInv, Shapes
<1> HIDE DEF c
<1>3. Entry(e) /\ Unedited(e.table) /\ e.file = f /\ e.kind = f[2]
      /\ (e.users <=> <<"user", f[2]>> \in present)
  <2>1. f \in Files /\ \E lines \in Readable(f) : e = Load(f, f[2], lines)
    BY DEF OpensFile
  <2> QED BY <2>1, LoadIs
<1>4. /\ IsCall(x) /\ x.fn = c.fn /\ x.todo = c.todo /\ x.asked = c.asked /\ x.retry = c.retry
      /\ Len(c.open) \in Nat /\ Len(x.open) = Len(c.open) + 1
      /\ \A i \in 1 .. Len(c.open) : x.open[i] = c.open[i]
      /\ x.open[Len(x.open)] = e
  <2>1. e.kind = c.todo[1].kinds[Len(c.open) + 1]
    BY <1>1, <1>3
  <2>2. More(c, e, x)
    BY <1>1, <1>2, <1>3, <2>1, OneMore
  <2> QED BY <2>2 DEF More
<1>5. FilesOf(x)
  <2> SUFFICES ASSUME NEW i \in 1 .. Len(x.open), NEW d, d = x.open[i]
               PROVE  \/ d.file[1] = x.todo[1].scope
                      \/ x.todo[1].scope = "user" /\ d.file[1] = "system" /\ d.kind = "inst" /\ ~ d.users
    BY DEF FilesOf
  <2>1. CASE i = Len(x.open)
    <3>1. d = e
      BY <1>4, <2>1
    <3>2. d.file = f /\ d.kind = f[2] /\ x.todo[1].scope = c.todo[1].scope
      <4>1. d.file = f /\ d.kind = f[2]
        BY <1>3, <3>1
      <4>2. x.todo = c.todo
        BY <1>4
      <4> QED BY <4>1, <4>2
    <3>3. CASE f[1] = c.todo[1].scope
      BY <3>2, <3>3
    <3>4. CASE /\ c.todo[1].scope = "user" /\ f[1] = "system"
               /\ f[2] = "inst" /\ <<"user", f[2]>> \notin present
      <4>1. ~ d.users
        BY <1>3, <3>1, <3>4
      <4> QED BY <3>2, <3>4, <4>1
    <3> QED BY <1>1, <3>3, <3>4
  <2>2. CASE i # Len(x.open)
    <3>1. i \in 1 .. Len(c.open) /\ x.open[i] = c.open[i]
      BY <1>4, <2>2
    <3> QED BY <1>2, <1>4, <3>1 DEF FilesOf
  <2> QED BY <2>1, <2>2
<1> QED BY <1>4, <1>5 DEF Onward, c

LEMMA EditsFiles ==
  ASSUME NEW c, NEW x, NEW y, FilesOf(x), Onward(x, y), Len(y.open) = Len(x.open),
         \A i \in 1 .. Len(x.open) : Alike(x.open[i], y.open[i])
  PROVE  FilesOf(y)
BY DEF FilesOf, Onward, Alike

LEMMA SameFiles ==
  ASSUME NEW x, NEW y, FilesOf(x), Onward(x, y), y.open = x.open
  PROVE  FilesOf(y)
BY DEF FilesOf, Onward

LEMMA ModeStep ==
  ASSUME KeysInv, ModeInv, NEW p \in Procs, Steps(p)
  PROVE  ModeInv'
<1> DEFINE c == call[p]
<1>0. /\ Shapes /\ outer = [outer EXCEPT ![p] = outer[p]] /\ call = [call EXCEPT ![p] = c] /\ IsCall(c)
      /\ Modal(c, outer[p], mode[p], asked[p])
  <2>1. \A g \in Files : outer = [outer EXCEPT ![p] = outer[p]] /\ call = [call EXCEPT ![p] = c]
    BY SameIs DEF KeysInv, FormInv
  <2>2. <<"own", "dsn">> \in Files
    BY DEF Files
  <2> QED BY <2>1, <2>2 DEF KeysInv, FormInv, ModeInv
<1>f. ModeOf(c, mode[p], asked[p]) /\ FilesOf(c) /\ Callable(c) /\ (outer[p] # NoCall => outer[p].fn \in Callbacks)
  BY <1>0 DEF Modal
<1>m. ASSUME UNCHANGED <<mode, asked>> PROVE Mode(p) /\ mode'[p] = mode[p] /\ asked'[p] = asked[p]
  BY <1>0, <1>m, ModeStays
<1>q. ASSUME UNCHANGED <<outer, asked>>, c.fn # Null, c.fn \notin Callbacks, NEW result, Over(p, result)
      PROVE  ModeInv'
  <2>1. PICK x : /\ Moves(p, x)
                 /\ \/ Len(c.todo) > 1 /\ x = Retried(c) /\ UNCHANGED mode
                    \/ x = NoCall /\ mode'[p] = IF c.fn \in Keeping THEN mode[p] ELSE "both"
    BY <1>0, <1>q, QuitIs
  <2>2. Mode(p) /\ outer' = [outer EXCEPT ![p] = outer[p]] /\ call' = [call EXCEPT ![p] = x]
    BY <1>0, <1>q, <2>1, QuitIs DEF Moves
  <2>3. Modal(x, outer[p], mode'[p], asked'[p])
    <3>1. CASE Len(c.todo) > 1 /\ x = Retried(c) /\ UNCHANGED mode
      <4>1. Modal(x, outer[p], mode[p], asked[p])
        BY <1>0, <3>1, RetriedModal
      <4> QED BY <1>q, <3>1, <4>1
    <3>2. CASE x = NoCall /\ mode'[p] = IF c.fn \in Keeping THEN mode[p] ELSE "both"
      <4>1. mode'[p] = asked'[p]
        <5>1. asked' = asked
          BY <1>q
        <5>2. CASE c.fn \in Keeping
          BY <1>f, <3>2, <5>1, <5>2 DEF ModeOf
        <5>3. CASE c.fn \notin Keeping
          BY <1>f, <1>q, <3>2, <5>1, <5>3 DEF ModeOf
        <5> QED BY <5>2, <5>3
      <4> QED BY <1>f, <3>2, <4>1, IdleModal
    <3> QED BY <2>1, <3>1, <3>2
  <2> QED BY <2>2, <2>3, ModeOthers
<1>x. ASSUME UNCHANGED <<mode, outer, asked>>, NEW x, Moves(p, x), Onward(c, x), FilesOf(x)
      PROVE  ModeInv'
  <2>1. Mode(p) /\ outer' = [outer EXCEPT ![p] = outer[p]] /\ call' = [call EXCEPT ![p] = x]
    BY <1>0, <1>m, <1>x DEF Moves
  <2>2. Modal(x, outer[p], mode[p], asked[p])
    BY <1>0, <1>x, OnwardModal
  <2> QED BY <1>x, <2>1, <2>2, ModeOthers
<1>1. CASE Mode(p) /\ Starts(p)
  <2>1. PICK x : Begun(p, x)
    BY <1>1 DEF Starts
  <2>2. Modal(x, outer[p], mode'[p], asked'[p])
    BY <1>1, <2>1, StartsModal DEF Starts
  <2>3. call' = [call EXCEPT ![p] = x] /\ outer' = [outer EXCEPT ![p] = outer[p]]
    BY <1>0, <1>1, <2>1 DEF Starts, Begun, Moves
  <2> QED BY <1>1, <2>2, <2>3, ModeOthers
<1>2. CASE Mode(p) /\ Idles(p)
  <2>1. c = NoCall /\ call' = [call EXCEPT ![p] = NoCall]
    BY <1>0, <1>2 DEF Idles
  <2>2. CASE UNCHANGED outer /\ mode'[p] = asked'[p]
    <3>1. Modal(NoCall, outer[p], mode'[p], asked'[p])
      BY <1>f, <2>2, IdleModal
    <3> QED BY <1>0, <1>2, <2>1, <2>2, <3>1, ModeOthers
  <2>3. CASE /\ outer[p] # NoCall /\ outer' = [outer EXCEPT ![p] = NoCall]
             /\ IF outer[p].fn \in Keeping THEN UNCHANGED <<mode, asked>>
                ELSE mode'[p] = "both" /\ asked'[p] = "both"
    <3>1. mode[p] = asked[p]
      BY <1>f, <2>1, NoCallIs DEF ModeOf
    <3>2. mode'[p] = asked'[p]
      BY <2>3, <3>1
    <3>3. Modal(NoCall, NoCall, mode'[p], asked'[p])
      BY <3>2, IdleModal
    <3> QED BY <1>2, <2>1, <2>3, <3>3, ModeOthers
  <2> QED BY <1>2, <2>2, <2>3 DEF Idles
<1>3. CASE Mode(p) /\ Calls(p)
  <2>1. mode[p] = asked[p] /\ mode'[p] = asked'[p] /\ c.fn \in Callbacks
    BY <1>3, <1>f, <1>m DEF Calls, ModeOf
  <2>2. Modal(NoCall, c, mode'[p], asked'[p])
    BY <2>1, IdleModal
  <2> QED BY <1>3, <2>2, ModeOthers DEF Calls, Moves
<1>4. CASE Mode(p) /\ Misses(p)
  <2>1. PICK x : /\ Moves(p, x)
                 /\ \/ Len(c.todo) > 1 /\ x = Retried(c) /\ UNCHANGED <<mode, asked>>
                    \/ /\ x = NoCall
                       /\ IF c.fn \in Keeping THEN UNCHANGED <<mode, asked>>
                          ELSE mode'[p] = "both" /\ asked'[p] = "both"
    BY <1>4 DEF Misses
  <2>2. call' = [call EXCEPT ![p] = x] /\ outer' = [outer EXCEPT ![p] = outer[p]]
    BY <1>0, <1>4, <2>1 DEF Misses, Moves
  <2>3. CASE Len(c.todo) > 1 /\ x = Retried(c) /\ UNCHANGED <<mode, asked>>
    <3>1. Modal(x, outer[p], mode[p], asked[p])
      BY <1>0, <2>3, RetriedModal
    <3> QED BY <1>4, <2>2, <2>3, <3>1, ModeOthers
  <2>4. CASE /\ x = NoCall
             /\ IF c.fn \in Keeping THEN UNCHANGED <<mode, asked>>
                ELSE mode'[p] = "both" /\ asked'[p] = "both"
    <3>0. c.fn \in Callbacks => mode[p] = asked[p]
      BY <1>f DEF ModeOf
    <3>a. mode'[p] = asked'[p]
      BY <1>4, <2>4, <3>0 DEF Misses
    <3>1. Modal(x, outer[p], mode'[p], asked'[p])
      BY <1>f, <2>4, <3>a, IdleModal
    <3> QED BY <1>4, <2>2, <3>1, ModeOthers
  <2> QED BY <2>1, <2>3, <2>4
<1>5. CASE UNCHANGED <<outer, asked>> /\ Quits(p)
  BY <1>5, <1>f, <1>q DEF Quits
<1>6. CASE UNCHANGED <<outer, asked>> /\ Loads(p)
  <2>1. PICK f, e : OpensFile(p, f, e) /\ Moves(p, Opening(c, e)) /\ UNCHANGED mode
    BY <1>6 DEF Loads
  <2>2. PICK x : x = Opening(c, e)
    OBVIOUS
  <2>3. Onward(c, x) /\ FilesOf(x)
    BY <1>f, <2>1, <2>2, LoadsFiles
  <2> QED BY <1>6, <1>x, <2>1, <2>2, <2>3
<1>7. CASE UNCHANGED <<outer, asked>> /\ Edits(p)
  <2>1. PICK f, e, new, n :
          /\ OpensFile(p, f, e) /\ EditOf(c, Opening(c, e).open, new) /\ n \in 1 .. Len(new) /\ c.fn \in Writers
          /\ Moves(p, Editing(c, new, n)) /\ UNCHANGED mode
    BY <1>7 DEF Edits
  <2>2. PICK x : x = Opening(c, e)
    OBVIOUS
  <2>3. Onward(c, x) /\ FilesOf(x)
    BY <1>f, <2>1, <2>2, LoadsFiles
  <2>4. PICK y : y = Editing(c, new, n)
    OBVIOUS
  <2>5. y.fn = c.fn /\ y.todo = c.todo /\ y.asked = c.asked /\ y.retry = c.retry /\ y.open = new
    <3>1. c = [fn |-> c.fn, s |-> c.s, k |-> c.k, v |-> c.v, todo |-> c.todo, open |-> c.open,
               at |-> c.at, writing |-> c.writing, asked |-> c.asked, retry |-> c.retry]
      BY <1>0 DEF IsCall
    <3> HIDE DEF c
    <3> QED BY <2>4, <3>1 DEF Editing
  <2>6. Len(new) = Len(x.open) /\ \A i \in 1 .. Len(x.open) : Alike(x.open[i], new[i])
    BY <2>1, <2>2 DEF EditOf
  <2>7. Onward(c, y) /\ Onward(x, y)
    BY <2>3, <2>5 DEF Onward
  <2>8. FilesOf(y)
    BY <2>3, <2>5, <2>6, <2>7, EditsFiles
  <2> QED BY <1>7, <1>x, <2>1, <2>4, <2>7, <2>8
<1>8. CASE UNCHANGED <<outer, asked>> /\ AtIs(c) /\ Truncates(p)
  <2>1. c.at # 0
    BY <1>8 DEF AtIs
  <2>2. PICK x : x = Writing(c)
    OBVIOUS
  <2>3. Onward(c, x) /\ x.open = c.open
    BY <1>0, <2>1, <2>2, WritingIs DEF Onward
  <2>4. FilesOf(x)
    BY <1>f, <2>3, SameFiles
  <2> QED BY <1>8, <1>x, <2>2, <2>3, <2>4 DEF Truncates
<1>9. CASE UNCHANGED <<outer, asked>> /\ AtIs(c) /\ Flushes(p)
  <2>1. c.at # 0 /\ c.fn # Null /\ c.fn \notin Callbacks
    BY <1>9, WritersAre DEF AtIs, Callbacks
  <2>2. CASE Over(p, "done")
    BY <1>9, <1>q, <2>1, <2>2
  <2>3. ASSUME NEW n \in 1 .. Len(c.open), Moves(p, Passing(c, n)), UNCHANGED mode
        PROVE  ModeInv'
    <3>1. PICK x : x = Passing(c, n)
      OBVIOUS
    <3>2. Onward(c, x) /\ x.open = c.open
      BY <1>0, <2>1, <3>1, PassingIs DEF Onward
    <3>3. FilesOf(x)
      BY <1>f, <3>2, SameFiles
    <3> QED BY <1>9, <1>x, <2>3, <3>1, <3>2, <3>3
  <2> QED BY <1>9, <2>2, <2>3 DEF Flushes
<1>10. CASE Mode(p) /\ Crashes(p)
  <2>1. Modal(NoCall, NoCall, mode'[p], asked'[p])
    BY <1>10, IdleModal DEF Crashes
  <2> QED BY <1>10, <2>1, ModeOthers DEF Crashes, Moves
<1> QED BY <1>1, <1>2, <1>3, <1>4, <1>5, <1>6, <1>7, <1>8, <1>9, <1>10 DEF Steps

LEMMA ModeInvHolds == Spec => []ModeInv
<1>1. Init => ModeInv
  <2> SUFFICES ASSUME Init, NEW p \in Procs PROVE Modal(call[p], outer[p], mode[p], asked[p])
    BY DEF ModeInv
  <2> QED BY InitIs, IdleModal
<1>2. KeysInv /\ ModeInv /\ [Next]_vars => ModeInv'
  <2> SUFFICES ASSUME KeysInv, ModeInv, [Next]_vars PROVE ModeInv'
    OBVIOUS
  <2>1. CASE Next
    BY <2>1, StepIs, ModeStep
  <2>2. CASE UNCHANGED vars
    <3>1. UNCHANGED <<mode, call, outer, asked>>
      BY <2>2 DEF vars
    <3> QED BY <3>1 DEF ModeInv
  <2> QED BY <2>1, <2>2
<1> QED BY <1>1, <1>2, KeysInvHolds, PTL DEF Spec

(* A call writes the files of the mode asked for it: the attempts of a call*)
(* are those of the mode it finds (switch on wSystemDSN in the functions), *)
(* it finds the one asked for because every call before it reset the mode, *)
(* those a setup library makes included, and the file of an attempt is of  *)
(* its scope but for the system's drivers, which stand in where the user   *)
(* has none (_iodbcadm_getinifile).                                        *)
THEOREM ModeIsOneShotHolds == Spec => []ModeIsOneShot
<1>1. KeysInv /\ ModeInv => ModeIsOneShot
  <2> SUFFICES ASSUME KeysInv, ModeInv, NEW p \in Procs, NEW c, c = call[p], NEW e, e = c.open[c.at],
                      c.writing, e.file[1] # "own",
                      c.fn \notin {"SQLRemoveTranslator", "RemoveDefaultDataSource"}
               PROVE  \/ e.file[1] = IF c.asked = "both" THEN "user" ELSE c.asked
                      \/ c.asked = "both" /\ c.retry
                      \/ c.asked # "system" /\ e.kind = "inst" /\ ~ e.users
    BY DEF ModeIsOneShot
  <2>1. IsCall(c) /\ ScopesOf(c) /\ FilesOf(c)
    BY DEF KeysInv, FormInv, ModeInv, Modal
  <2>2. c.at # 0 /\ c.fn # Null
    BY <2>1 DEF IsCall, Placed, Asks, Opened
  <2>3. AtIs(c)
    BY <2>1, <2>2, AtEntry
  <2>4. /\ \/ e.file[1] = c.todo[1].scope
           \/ c.todo[1].scope = "user" /\ e.file[1] = "system" /\ e.kind = "inst" /\ ~ e.users
    BY <2>1, <2>3 DEF AtIs, FilesOf
  <2>5. c.fn \in Scoped
    <3>1. c.todo[1].scope = "own" <=> c.fn \in Own
      BY <2>1, <2>2, CallIs
    <3>2. c.todo[1].scope # "own"
      BY <2>4
    <3> QED BY <2>3, <3>1, <3>2 DEF AtIs, Scoped
  <2>6. /\ c.asked \in {"both", "user", "system"}
        /\ IF c.retry THEN c.asked = "both"
           ELSE c.todo[1].scope = IF c.asked = "system" THEN "system" ELSE "user"
    BY <2>1, <2>5 DEF ScopesOf
  <2> QED BY <2>4, <2>6
<1> QED BY <1>1, KeysInvHolds, ModeInvHolds, PTL

-----------------------------------------------------------------------------
(* The updates of a file.                                                  *)

LEMMA CellsAre ==
  \A c \in Cells : c[1] # Null /\ c[2] # Null /\ c = <<c[1], c[2]>>
BY DEF Cells, Null

LEMMA ReadTwice ==
  \A v : ReadBack(ReadBack(v)) = ReadBack(v)
BY IniAssumption DEF ReadBack

LEMMA DecidedEither ==
  ASSUME NEW l, NEW c, NEW v, NEW w, ReadBack(v) = ReadBack(w)
  PROVE  ReadBack(Decided(l, c, v)) = ReadBack(Decided(l, c, w))
<1> DEFINE S == {i \in DOMAIN l : Speaks(l[i], c)}
<1>1. CASE S = {}
  <2>1. Decided(l, c, v) = v /\ Decided(l, c, w) = w
    BY <1>1 DEF Decided
  <2> QED BY <2>1
<1>2. CASE S # {}
  <2>1. Decided(l, c, v) = Decided(l, c, w)
    BY <1>2 DEF Decided
  <2> QED BY <2>1
<1> QED BY <1>1, <1>2

(* A table just read, and one that was changed.                            *)
LEMMA ReadMeans ==
  ASSUME NEW t, NEW lines, NEW m, t.lines = lines, t.log = <<>>, Holds(lines, m)
  PROVE  Means(t, m)
<1> SUFFICES ASSUME NEW c \in Cells
             PROVE  ReadBack(Find(t.lines, c[1], c[2])) = ReadBack(Decided(t.log, c, m[c]))
  BY DEF Means
<1>1. Find(lines, c[1], c[2]) = ReadBack(m[c])
  BY DEF Holds
<1>2. DOMAIN t.log = {}
  OBVIOUS
<1>3. Decided(t.log, c, m[c]) = m[c]
  BY <1>2, DecidedNone
<1> QED BY <1>1, <1>3, ReadTwice

LEMMA EditMeans ==
  ASSUME NEW t, NEW u, NEW l, After(t, u, l), Unique(t.lines), t.log = <<>>, NEW m, Means(t, m)
  PROVE  u.damaged \/ Means(u, m)
<1> SUFFICES ASSUME ~ u.damaged, NEW c \in Cells
             PROVE  ReadBack(Find(u.lines, c[1], c[2])) = ReadBack(Decided(u.log, c, m[c]))
  BY DEF Means
<1>1. u.log = l /\ Find(u.lines, c[1], c[2]) = Decided(l, c, Find(t.lines, c[1], c[2]))
  BY CellsAre DEF After
<1>2. DOMAIN t.log = {}
  OBVIOUS
<1>3. Decided(t.log, c, m[c]) = m[c]
  BY <1>2, DecidedNone
<1>4. ReadBack(Find(t.lines, c[1], c[2])) = ReadBack(m[c])
  BY <1>3 DEF Means
<1> QED BY <1>1, <1>4, DecidedEither

LEMMA WrittenHolds ==
  ASSUME NEW t, Good(t.lines), NEW m, m = [c \in Cells |-> m[c]], Means(t, m)
  PROVE  Holds(Reread(t.lines), Asked(m, t.log))
<1> SUFFICES ASSUME NEW c \in Cells
             PROVE  Find(Reread(t.lines), c[1], c[2]) = ReadBack(Asked(m, t.log)[c])
  BY DEF Holds
<1>1. Asked(m, t.log)[c] = Decided(t.log, c, m[c])
  BY DEF Asked
<1>2. Find(Reread(t.lines), c[1], c[2]) = ReadBack(Find(t.lines, c[1], c[2]))
  BY CellsAre, RereadIs
<1> QED BY <1>1, <1>2 DEF Means

LEMMA BeginnerHolds ==
  ASSUME NEW lines, Beginner(lines)
  PROVE  Holds(lines, Meaning(lines, Cells))
<1> SUFFICES ASSUME NEW c \in Cells
             PROVE  Find(lines, c[1], c[2]) = ReadBack(Meaning(lines, Cells)[c])
  BY DEF Holds
<1> DEFINE a == c[1]
           b == c[2]
<1>1. Meaning(lines, Cells)[c] = Find(lines, a, b)
  BY DEF Meaning
<1>2. a # Null /\ b # Null /\ Good(lines) /\ \A i \in 1 .. Len(lines) : lines[i].value # Cut
  BY CellsAre DEF Beginner
<1> HIDE DEF a, b
<1>3. Find(lines, a, b) # Cut
  <2>1. CASE \E j \in 1 .. Len(lines) : lines[j].id = b /\ Under(lines, a, j)
    BY <1>2, <2>1, FindIs
  <2>2. CASE ~ \E j \in 1 .. Len(lines) : lines[j].id = b /\ Under(lines, a, j)
    BY <1>2, <2>2, FindIs, Unspoilt
  <2> QED BY <2>1, <2>2
<1> QED BY <1>1, <1>3 DEF ReadBack, a, b

(* A file that a step leaves as it is.                                     *)
LEMMA KeptAside ==
  ASSUME KeysInv, NEW p \in Procs, NEW x, call' = [call EXCEPT ![p] = x], NEW f \in Files, KeptFor(f),
         disk'[f] = disk[f], version'[f] = version[f], due'[f] = due[f],
         f \in raced' <=> f \in raced, f \in broken' <=> f \in broken,
         ~ Writer(call[p], f), ~ Writer(x, f), Stamped(x, f, version[f]),
         f \notin raced \cup broken =>
           /\ Knows(x, f, version[f], due[f])
           /\ Current(x, f, version[f]) => \A q \in Procs : ~ Writer(call[q], f)
  PROVE  KeptFor(f)'
<1>1. \A q \in Procs : call'[q] = IF q = p THEN x ELSE call[q]
  BY DEF KeysInv, FormInv, Shapes
<1>2. \A q \in Procs : Writer(call'[q], f) <=> Writer(call[q], f)
  BY <1>1
<1>3. ASSUME NEW q \in Procs
      PROVE  Stamped(call'[q], f, version'[f]) /\ (Spoils(call'[q], f) => f \in broken')
  <2>1. CASE q = p
    BY <1>1, <2>1 DEF Spoils
  <2>2. CASE q # p
    BY <1>1, <2>2 DEF KeptFor
  <2> QED BY <2>1, <2>2
<1>4. ASSUME f \notin raced' \cup broken'
      PROVE  /\ \A r, q \in Procs : Writer(call'[r], f) /\ Writer(call'[q], f) => r = q
             /\ (\A q \in Procs : ~ Writer(call'[q], f)) => Holds(disk'[f], due'[f])
             /\ \A q \in Procs : Knows(call'[q], f, version'[f], due'[f]) /\ Delivers(call'[q], f, due'[f])
             /\ \A r, q \in Procs : Current(call'[r], f, version'[f]) => ~ Writer(call'[q], f)
  <2>1. f \notin raced \cup broken
    BY <1>4
  <2>2. /\ \A r, q \in Procs : Writer(call[r], f) /\ Writer(call[q], f) => r = q
        /\ (\A q \in Procs : ~ Writer(call[q], f)) => Holds(disk[f], due[f])
        /\ \A q \in Procs : Knows(call[q], f, version[f], due[f]) /\ Delivers(call[q], f, due[f])
        /\ \A r, q \in Procs : Current(call[r], f, version[f]) => ~ Writer(call[q], f)
    BY <2>1 DEF KeptFor
  <2>3. ASSUME NEW q \in Procs
        PROVE  Knows(call'[q], f, version'[f], due'[f]) /\ Delivers(call'[q], f, due'[f])
    <3>1. CASE q = p
      BY <1>1, <2>1, <3>1 DEF Delivers
    <3>2. CASE q # p
      BY <1>1, <2>2, <3>2
    <3> QED BY <3>1, <3>2
  <2>4. ASSUME NEW r \in Procs, NEW q \in Procs, Current(call'[r], f, version'[f])
        PROVE  ~ Writer(call'[q], f)
    <3>1. CASE r = p
      BY <1>1, <1>2, <2>1, <2>4, <3>1
    <3>2. CASE r # p
      BY <1>1, <1>2, <2>2, <2>4, <3>2
    <3> QED BY <3>1, <3>2
  <2>5. \A r, q \in Procs : Writer(call'[r], f) /\ Writer(call'[q], f) => r = q
    BY <1>2, <2>2
  <2>6. (\A q \in Procs : ~ Writer(call'[q], f)) => Holds(disk'[f], due'[f])
    BY <1>2, <2>2
  <2> QED BY <2>3, <2>4, <2>5, <2>6
<1> QED BY <1>3, <1>4 DEF KeptFor

LEMMA KeptEmpty ==
  ASSUME KeysInv, KeptInv, NEW p \in Procs, NEW x, call' = [call EXCEPT ![p] = x],
         x.open = <<>>, ~ x.writing, ~ call[p].writing, Same
  PROVE  KeptInv'
<1> SUFFICES ASSUME NEW f \in Files PROVE KeptFor(f)'
  BY DEF KeptInv
<1>1. KeptFor(f) /\ ~ Writer(call[p], f) /\ ~ Writer(x, f)
  BY DEF KeptInv, Writer
<1>2. Stamped(x, f, version[f]) /\ Knows(x, f, version[f], due[f]) /\ ~ Current(x, f, version[f])
  BY <1>1 DEF Stamped, Knows, Current
<1>3. /\ disk'[f] = disk[f] /\ version'[f] = version[f] /\ due'[f] = due[f]
      /\ (f \in raced' <=> f \in raced) /\ (f \in broken' <=> f \in broken)
  BY DEF Same
<1> QED BY <1>1, <1>2, <1>3, KeptAside

(* What a call knows once it has read one file more.                       *)
Informed(x, f) ==
  /\ Stamped(x, f, version[f])
  /\ f \notin raced \cup broken =>
       /\ Knows(x, f, version[f], due[f])
       /\ Current(x, f, version[f]) => \A q \in Procs : ~ Writer(call[q], f)

LEMMA LoadsInform ==
  ASSUME KeysInv, KeptInv, NEW p \in Procs, NEW g, NEW e, OpensFile(p, g, e),
         NEW x, x = Opening(call[p], e), NEW f \in Files
  PROVE  IsCall(x) /\ ~ x.writing /\ x.at = 0 /\ ~ call[p].writing /\ Informed(x, f)
<1> DEFINE c == call[p]
<1>1. /\ c.todo # <<>> /\ c.at = 0 /\ Len(c.open) < Len(c.todo[1].kinds) /\ ~ c.writing
      /\ g \in Files /\ g[2] = c.todo[1].kinds[Len(c.open) + 1]
  BY DEF OpensFile
<1>2. /\ IsCall(c) /\ x = Opening(c, e) /\ KeptFor(f)
      /\ Stamped(c, f, version[f]) /\ version[f] \in Nat
      /\ f \notin raced \cup broken =>
           /\ (\A q \in Procs : ~ Writer(call[q], f)) => Holds(disk[f], due[f])
           /\ Knows(c, f, version[f], due[f])
           /\ Current(c, f, version[f]) => \A q \in Procs : ~ Writer(call[q], f)
  BY <1>1 DEF KeysInv, FormInv, Shapes, KeptInv, KeptFor
<1> HIDE DEF c
<1>3. /\ Entry(e) /\ Unedited(e.table) /\ e.file = g /\ e.kind = g[2] /\ e.version = version[g]
      /\ e.torn <=> BeingWritten(g) \/ g \in mixed
      /\ e.torn \/ e.table.lines = disk[g]
  <2>1. PICK lines \in Readable(g) : g \in Files /\ e = Load(g, g[2], lines)
    BY DEF OpensFile
  <2>2. /\ Entry(e) /\ Unedited(e.table) /\ e.file = g /\ e.kind = g[2]
        /\ e.version = version[g]
        /\ e.torn <=> BeingWritten(g) \/ g \in mixed
        /\ e.torn \/ (e.table.lines = disk[g] /\ Unique(disk[g]))
        /\ e.users <=> <<"user", g[2]>> \in present
    BY <2>1, LoadIs
  <2> QED BY <2>2
<1>t. ~ e.torn => \A q \in Procs : ~ Writer(call[q], g)
  BY <1>3 DEF BeingWritten, WritersOf, Writer
<1>4. More(c, e, x)
  <2>1. e.kind = c.todo[1].kinds[Len(c.open) + 1]
    BY <1>1, <1>3
  <2> QED BY <1>1, <1>2, <1>3, <2>1, OneMore
<1>5. \A i \in 1 .. Len(x.open) : x.open[i] = e \/ (i \in 1 .. Len(c.open) /\ x.open[i] = c.open[i])
  BY <1>4 DEF More
<1>6. Stamped(x, f, version[f])
  <2>1. ~ Writer(x, f)
    BY <1>4 DEF More, Writer
  <2>2. ASSUME NEW i \in 1 .. Len(x.open), x.open[i].file = f PROVE x.open[i].version <= version[f]
    <3>1. CASE x.open[i] = e
      BY <1>2, <1>3, <2>2, <3>1
    <3>2. CASE i \in 1 .. Len(c.open) /\ x.open[i] = c.open[i]
      BY <1>2, <2>2, <3>2 DEF Stamped
    <3> QED BY <1>5, <3>1, <3>2
  <2> QED BY <2>1, <2>2 DEF Stamped
<1>7. ASSUME f \notin raced \cup broken, NEW i \in 1 .. Len(x.open), Fresh(x.open[i], f, version[f])
      PROVE  /\ x.open[i].table.damaged \/ Means(x.open[i].table, due[f])
             /\ \A q \in Procs : ~ Writer(call[q], f)
  <2>1. CASE x.open[i] = e
    <3>1. g = f /\ ~ e.torn
      BY <1>3, <1>7, <2>1 DEF Fresh
    <3>2. \A q \in Procs : ~ Writer(call[q], f)
      BY <1>t, <3>1
    <3>3. Holds(disk[f], due[f])
      BY <1>2, <1>7, <3>2
    <3>4. Means(e.table, due[f])
      BY <1>3, <3>1, <3>3, ReadMeans DEF Unedited
    <3> QED BY <2>1, <3>2, <3>4
  <2>2. CASE i \in 1 .. Len(c.open) /\ x.open[i] = c.open[i]
    <3>1. Current(c, f, version[f])
      BY <1>7, <2>2 DEF Current
    <3> QED BY <1>2, <1>7, <2>2, <3>1 DEF Knows
  <2> QED BY <1>5, <2>1, <2>2
<1>8. Informed(x, f)
  BY <1>6, <1>7 DEF Informed, Knows, Current
<1> QED BY <1>1, <1>4, <1>8 DEF More, c

(* Changes to the tables of a call that is informed.                       *)
LEMMA EditsInform ==
  ASSUME NEW c, NEW x, IsCall(x), x.at = 0, NEW new, EditOf(c, x.open, new), NEW f \in Files, Informed(x, f),
         NEW y, y.open = new, ~ y.writing
  PROVE  Informed(y, f)
<1>1. /\ Len(new) = Len(x.open)
      /\ \A i \in 1 .. Len(x.open) :
           /\ Alike(x.open[i], new[i]) /\ Unedited(x.open[i].table)
           /\ \E l : After(x.open[i].table, new[i].table, l)
  BY DEF EditOf, IsCall, Placed
<1>2. \A i \in 1 .. Len(new) :
        /\ new[i].file = x.open[i].file /\ new[i].version = x.open[i].version /\ new[i].torn = x.open[i].torn
  BY <1>1 DEF Alike
<1>3. Stamped(y, f, version[f])
  BY <1>1, <1>2 DEF Informed, Stamped, Writer
<1>4. ASSUME f \notin raced \cup broken, NEW i \in 1 .. Len(new), Fresh(new[i], f, version[f])
      PROVE  /\ new[i].table.damaged \/ Means(new[i].table, due[f])
             /\ \A q \in Procs : ~ Writer(call[q], f)
  <2>1. i \in 1 .. Len(x.open) /\ Fresh(x.open[i], f, version[f])
    BY <1>1, <1>2, <1>4 DEF Fresh
  <2>2. Unedited(x.open[i].table) /\ \E l : After(x.open[i].table, new[i].table, l)
    BY <1>1, <2>1
  <2>u. Unique(x.open[i].table.lines)
    <3>1. Entry(x.open[i]) /\ ~ x.open[i].torn
      BY <2>1 DEF IsCall, Opened, Fresh
    <3> QED BY <3>1 DEF Entry
  <2>3. Means(x.open[i].table, due[f]) /\ \A q \in Procs : ~ Writer(call[q], f)
    BY <1>4, <2>1, <2>2 DEF Informed, Knows, Current, Unedited
  <2> QED BY <2>2, <2>3, <2>u, EditMeans DEF Unedited
<1>5. f \notin raced \cup broken =>
        /\ Knows(y, f, version[f], due[f])
        /\ Current(y, f, version[f]) => \A q \in Procs : ~ Writer(call[q], f)
  BY <1>4 DEF Knows, Current
<1> QED BY <1>3, <1>5 DEF Informed

LEMMA KeptInformed ==
  ASSUME KeysInv, KeptInv, NEW p \in Procs, NEW x, call' = [call EXCEPT ![p] = x],
         ~ x.writing, ~ call[p].writing, Same, \A f \in Files : Informed(x, f)
  PROVE  KeptInv'
<1> SUFFICES ASSUME NEW f \in Files PROVE KeptFor(f)'
  BY DEF KeptInv
<1>1. KeptFor(f) /\ ~ Writer(call[p], f) /\ ~ Writer(x, f)
  BY DEF KeptInv, Writer
<1>2. /\ disk'[f] = disk[f] /\ version'[f] = version[f] /\ due'[f] = due[f]
      /\ (f \in raced' <=> f \in raced) /\ (f \in broken' <=> f \in broken)
  BY DEF Same
<1>3. Informed(x, f)
  OBVIOUS
<1> QED BY <1>1, <1>2, <1>3, KeptAside DEF Informed

LEMMA KeptTruncate ==
  ASSUME KeysInv, KeptInv, NEW p \in Procs, AtIs(call[p]), Truncates(p)
  PROVE  KeptInv'
<1> DEFINE c == call[p]
           e == c.open[c.at]
           g == e.file
           mixes == e.torn \/ BeingWritten(g)
<1>1. /\ ~ c.writing /\ Moves(p, Writing(c)) /\ UNCHANGED due
      /\ disk' = [disk EXCEPT ![g] = <<>>] /\ version' = [version EXCEPT ![g] = version[g] + 1]
      /\ raced' = IF mixes \/ e.version # version[g] THEN raced \cup {g} ELSE raced
      /\ broken' = IF e.table.damaged THEN broken \cup {g} ELSE broken
  <2>1. g \in Files /\ version \in [Files -> Nat]
    BY DEF AtIs, KeysInv, FormInv, Shapes
  <2> QED BY <2>1 DEF Truncates
<1>2. /\ c.at \in 1 .. Len(c.open) /\ Len(c.open) \in Nat /\ Entry(e) /\ g \in Files /\ IsCall(c)
      /\ version \in [Files -> Nat] /\ disk = [f \in Files |-> disk[f]]
  BY DEF AtIs, KeysInv, FormInv, Shapes
<1>3. PICK x : x = Writing(c)
  OBVIOUS
<1>4. c.at # 0 /\ x.open = c.open /\ x.at = c.at /\ x.writing /\ call' = [call EXCEPT ![p] = x]
  BY <1>1, <1>2, <1>3, WritingIs DEF Moves
<1>5. \A f : (Writer(x, f) <=> f = g) /\ ~ Writer(c, f)
  BY <1>1, <1>4 DEF Writer
<1>6. \A q \in Procs : call'[q] = IF q = p THEN x ELSE call[q]
  BY <1>4 DEF KeysInv, FormInv, Shapes
<1> SUFFICES ASSUME NEW f \in Files PROVE KeptFor(f)'
  BY DEF KeptInv
<1>7. KeptFor(f) /\ version[f] \in Nat
  BY <1>2 DEF KeptInv
<1>8. Stamped(c, f, version[f])
  BY <1>7 DEF KeptFor
<1>9. CASE f # g
  <2>1. /\ disk'[f] = disk[f] /\ version'[f] = version[f] /\ due'[f] = due[f]
        /\ (f \in raced' <=> f \in raced) /\ (f \in broken' <=> f \in broken)
    BY <1>1, <1>2, <1>9
  <2>2. ~ Writer(c, f) /\ ~ Writer(x, f)
    BY <1>5, <1>9
  <2>3. Stamped(x, f, version[f])
    BY <1>4, <1>8, <2>2 DEF Stamped
  <2>4. f \notin raced \cup broken =>
          /\ Knows(x, f, version[f], due[f])
          /\ Current(x, f, version[f]) => \A q \in Procs : ~ Writer(call[q], f)
    <3>1. f \notin raced \cup broken =>
            /\ Knows(c, f, version[f], due[f])
            /\ Current(c, f, version[f]) => \A q \in Procs : ~ Writer(call[q], f)
      BY <1>7 DEF KeptFor
    <3> QED BY <1>4, <3>1 DEF Knows, Current
  <2> HIDE DEF c
  <2>5. ~ Writer(call[p], f)
    BY <2>2 DEF c
  <2> QED BY <1>4, <1>7, <2>1, <2>2, <2>3, <2>4, <2>5, KeptAside
<1>10. CASE f = g
  <2>1. version'[f] = version[f] + 1 /\ due'[f] = due[f]
    BY <1>1, <1>2, <1>10
  <2>2. ASSUME NEW q \in Procs
        PROVE  /\ Stamped(call[q], f, version[f])
               /\ \A i \in 1 .. Len(call[q].open) :
                    call[q].open[i].file = f => call[q].open[i].version \in Nat /\ call[q].open[i].version <= version[f]
    <3>1. Stamped(call[q], f, version[f]) /\ IsCall(call[q])
      BY <1>7 DEF KeptFor, KeysInv, FormInv
    <3> QED BY <3>1 DEF Stamped, IsCall, Opened, Entry
  <2>3. ASSUME NEW q \in Procs
        PROVE  /\ \A i \in 1 .. Len(call'[q].open) :
                    call'[q].open[i].file = f =>
                      call'[q].open[i].version \in Nat /\ call'[q].open[i].version <= version[f]
    BY <1>4, <1>6, <2>2
  <2>4. ASSUME NEW q \in Procs
        PROVE  Stamped(call'[q], f, version'[f])
    <3>1. \A i \in 1 .. Len(call'[q].open) : call'[q].open[i].file = f => call'[q].open[i].version <= version'[f]
      BY <1>7, <2>1, <2>3
    <3>2. ASSUME Writer(call'[q], f) PROVE call'[q].open[call'[q].at].version < version'[f]
      <4>1. IsCall(call'[q])
        <5>1. KeysInv => \A r \in Procs : IsCall(call[r])
          BY DEF KeysInv, FormInv
        <5>2. IsCall(x)
          BY <1>2, <1>3, <1>4, WritingIs
        <5> QED BY <1>6, <5>1, <5>2
      <4>2. call'[q].at \in 1 .. Len(call'[q].open)
        BY <3>2, <4>1, AtEntry DEF Writer, AtIs, IsCall, Placed
      <4>3. call'[q].open[call'[q].at].file = f
        BY <3>2 DEF Writer
      <4> QED BY <1>7, <2>1, <2>3, <4>2, <4>3
    <3> QED BY <3>1, <3>2 DEF Stamped
  <2>5. ASSUME NEW q \in Procs, Spoils(call'[q], f)
        PROVE  f \in broken'
    <3>1. CASE q = p
      <4>1. e.table.damaged
        BY <1>4, <1>6, <2>5, <3>1 DEF Spoils
      <4> QED BY <1>1, <1>10, <4>1
    <3>2. CASE q # p
      BY <1>1, <1>6, <1>7, <2>5, <3>2 DEF KeptFor
    <3> QED BY <3>1, <3>2
  <2>6. ASSUME f \notin raced' \cup broken'
        PROVE  /\ \A r, q \in Procs : Writer(call'[r], f) /\ Writer(call'[q], f) => r = q
               /\ (\A q \in Procs : ~ Writer(call'[q], f)) => Holds(disk'[f], due'[f])
               /\ \A q \in Procs : Knows(call'[q], f, version'[f], due'[f]) /\ Delivers(call'[q], f, due'[f])
               /\ \A r, q \in Procs : Current(call'[r], f, version'[f]) => ~ Writer(call'[q], f)
    <3>1. f \notin raced \cup broken /\ ~ e.torn /\ e.version = version[f] /\ ~ e.table.damaged
      BY <1>1, <1>10, <2>6
    <3>2. Fresh(e, f, version[f]) /\ Current(c, f, version[f])
      BY <1>2, <1>10, <3>1 DEF Fresh, Current
    <3>3. \A q \in Procs : ~ Writer(call[q], f)
      BY <1>7, <3>1, <3>2 DEF KeptFor
    <3>4. \A q \in Procs : Writer(call'[q], f) <=> q = p
      BY <1>5, <1>6, <1>10, <3>3
    <3>5. Means(e.table, due[f])
      <4>1. Knows(c, f, version[f], due[f])
        BY <1>7, <3>1 DEF KeptFor
      <4> QED BY <1>2, <3>1, <3>2, <4>1 DEF Knows
    <3>6. \A q \in Procs : Delivers(call'[q], f, due'[f])
      BY <1>4, <1>6, <2>1, <3>4, <3>5 DEF Delivers
    <3>7. ASSUME NEW q \in Procs, NEW i \in 1 .. Len(call'[q].open) PROVE ~ Fresh(call'[q].open[i], f, version'[f])
      BY <1>7, <2>1, <2>3 DEF Fresh
    <3>8. \A q \in Procs : Knows(call'[q], f, version'[f], due'[f]) /\ ~ Current(call'[q], f, version'[f])
      BY <3>7 DEF Knows, Current
    <3> QED BY <3>4, <3>6, <3>8
  <2> QED BY <2>4, <2>5, <2>6 DEF KeptFor
<1> QED BY <1>9, <1>10

(* A call that has written its file keeps its tables, or is over with them.*)
Leaves(p, x) ==
  /\ Moves(p, x) /\ ~ x.writing
  /\ \/ x.open = <<>>
     \/ \E n \in 1 .. Len(call[p].open) : x = Passing(call[p], n) /\ x.open = call[p].open

LEMMA FlushLeaves ==
  ASSUME KeysInv, NEW p \in Procs, AtIs(call[p]), Flushes(p)
  PROVE  \E x : Leaves(p, x)
<1>1. IsCall(call[p]) /\ call[p].at # 0 /\ call[p].fn # Null
  BY DEF KeysInv, FormInv, AtIs
<1>2. CASE Over(p, "done")
  BY <1>1, <1>2, OverIs DEF Leaves
<1>3. ASSUME NEW n \in 1 .. Len(call[p].open), Moves(p, Passing(call[p], n))
      PROVE  Leaves(p, Passing(call[p], n))
  BY <1>1, <1>3, PassingIs DEF Leaves
<1> QED BY <1>2, <1>3 DEF Flushes

(* A file another step of the writer p touches.                            *)
LEMMA KeptWriter ==
  ASSUME KeysInv, NEW p \in Procs, NEW x, call' = [call EXCEPT ![p] = x], ~ x.writing,
         x.open = <<>> \/ x.open = call[p].open, NEW f \in Files, ~ Writer(call[p], f), KeptFor(f),
         disk'[f] = disk[f], version'[f] = version[f], due'[f] = due[f],
         f \in raced' <=> f \in raced, f \in broken' <=> f \in broken
  PROVE  KeptFor(f)'
<1> DEFINE c == call[p]
<1>1. ~ Writer(c, f) /\ ~ Writer(x, f) /\ Stamped(c, f, version[f])
  BY DEF KeptFor, Writer
<1>2. f \notin raced \cup broken =>
        /\ Knows(c, f, version[f], due[f])
        /\ Current(c, f, version[f]) => \A q \in Procs : ~ Writer(call[q], f)
  BY DEF KeptFor
<1> HIDE DEF c
<1>3. x.open = <<>> \/ x.open = c.open
  BY DEF c
<1>4. Stamped(x, f, version[f])
  BY <1>1, <1>3 DEF Stamped
<1>5. f \notin raced \cup broken =>
        /\ Knows(x, f, version[f], due[f])
        /\ Current(x, f, version[f]) => \A q \in Procs : ~ Writer(call[q], f)
  BY <1>2, <1>3 DEF Knows, Current
<1> QED BY <1>1, <1>4, <1>5, KeptAside

LEMMA KeptFlush ==
  ASSUME KeysInv, KeptInv, NEW p \in Procs, AtIs(call[p]), Flushes(p)
  PROVE  KeptInv'
<1> DEFINE c == call[p]
           e == c.open[c.at]
           g == e.file
<1>1. /\ c.writing /\ UNCHANGED <<version, raced, broken>>
      /\ disk' = [disk EXCEPT ![g] = Overwritten(disk[g], Reread(e.table.lines))]
      /\ due' = [due EXCEPT ![g] = Asked(due[g], e.table.log)]
  <2>1. g \in Files /\ due = [f \in Files |-> due[f]] /\ disk = [f \in Files |-> disk[f]]
    BY DEF AtIs, KeysInv, FormInv, Shapes
  <2> QED BY <2>1 DEF Flushes
<1>2. /\ c.at \in 1 .. Len(c.open) /\ g \in Files
      /\ e.table.lines \in Seq(Line) /\ (e.torn \/ Unique(e.table.lines))
      /\ disk = [f \in Files |-> disk[f]] /\ due = [f \in Files |-> due[f]]
      /\ due[g] = [a \in Cells |-> due[g][a]]
  BY DEF AtIs, KeysInv, FormInv, Shapes
<1>3. PICK x : Leaves(p, x)
  BY FlushLeaves
<1>4. call' = [call EXCEPT ![p] = x] /\ ~ x.writing /\ (x.open = <<>> \/ x.open = c.open)
  BY <1>3 DEF Leaves, Moves
<1>5. \A f : (Writer(c, f) <=> f = g) /\ ~ Writer(x, f)
  BY <1>1, <1>4 DEF Writer
<1>6. \A q \in Procs : call'[q] = IF q = p THEN x ELSE call[q]
  BY <1>4 DEF KeysInv, FormInv, Shapes
<1> SUFFICES ASSUME NEW f \in Files PROVE KeptFor(f)'
  BY DEF KeptInv
<1>7. KeptFor(f)
  BY DEF KeptInv
<1>8. CASE f # g
  <2>1. /\ disk'[f] = disk[f] /\ version'[f] = version[f] /\ due'[f] = due[f]
        /\ (f \in raced' <=> f \in raced) /\ (f \in broken' <=> f \in broken)
    BY <1>1, <1>2, <1>8
  <2>2. ~ Writer(call[p], f)
    BY <1>5, <1>8
  <2> QED BY <1>4, <1>7, <2>1, <2>2, KeptWriter
<1>9. CASE f = g
  <2>1. version'[f] = version[f] /\ due'[f] = Asked(due[f], e.table.log)
        /\ disk'[f] = Overwritten(disk[f], Reread(e.table.lines))
        /\ (f \in raced' <=> f \in raced) /\ (f \in broken' <=> f \in broken)
    BY <1>1, <1>2, <1>9
  <2>2. ASSUME NEW q \in Procs
        PROVE  Stamped(call'[q], f, version'[f]) /\ (Spoils(call'[q], f) => f \in broken')
    <3>1. Stamped(call[q], f, version[f]) /\ (Spoils(call[q], f) => f \in broken)
      BY <1>7 DEF KeptFor
    <3>2. CASE q = p
      <4>1. Stamped(c, f, version[f]) /\ call'[q] = x
        BY <1>6, <3>1, <3>2
      <4> HIDE DEF c
      <4>2. Stamped(x, f, version[f]) /\ ~ Spoils(x, f)
        BY <1>4, <1>5, <4>1 DEF Stamped, Spoils
      <4> QED BY <2>1, <4>1, <4>2
    <3>3. CASE q # p
      BY <1>6, <2>1, <3>1, <3>3
    <3> QED BY <3>2, <3>3
  <2>3. ASSUME f \notin raced' \cup broken'
        PROVE  /\ \A r, q \in Procs : Writer(call'[r], f) /\ Writer(call'[q], f) => r = q
               /\ (\A q \in Procs : ~ Writer(call'[q], f)) => Holds(disk'[f], due'[f])
               /\ \A q \in Procs : Knows(call'[q], f, version'[f], due'[f]) /\ Delivers(call'[q], f, due'[f])
               /\ \A r, q \in Procs : Current(call'[r], f, version'[f]) => ~ Writer(call'[q], f)
    <3>1. f \notin raced \cup broken
      BY <2>1, <2>3
    <3>2. Writer(c, f)
      BY <1>5, <1>9
    <3>3. \A q \in Procs : ~ Writer(call'[q], f)
      BY <1>5, <1>6, <1>7, <3>1, <3>2 DEF KeptFor
    <3>4. \A q \in Procs : ~ Current(call[q], f, version[f])
      BY <1>7, <3>1, <3>2 DEF KeptFor
    <3>5. Holds(disk'[f], due'[f])
      <4>1. Means(e.table, due[f])
        BY <1>7, <3>1, <3>2 DEF KeptFor, Delivers
      <4>2. disk[f] = <<>> /\ ~ e.torn
        <5>1. Alone(f)
          BY DEF KeysInv
        <5> QED BY <3>1, <3>2, <5>1 DEF Alone
      <4> HIDE DEF e
      <4>3. Good(e.table.lines)
        BY <1>2, <4>2 DEF Good
      <4>4. Reread(e.table.lines) \in Seq(Line) /\ disk[f] \in Seq(Line)
        BY <4>2, <4>3, RereadIs DEF Good
      <4>5. disk'[f] = Reread(e.table.lines)
        BY <2>1, <4>2, <4>4, OverwrittenIs
      <4> QED BY <1>2, <1>9, <2>1, <4>1, <4>3, <4>5, WrittenHolds
    <3>6. \A q \in Procs : ~ Current(call'[q], f, version'[f])
      <4>1. ~ Current(c, f, version[f])
        BY <3>4
      <4> HIDE DEF c
      <4>2. ~ Current(x, f, version[f])
        BY <1>4, <4>1 DEF Current
      <4> QED BY <1>6, <2>1, <3>4, <4>2
    <3>7. \A q \in Procs : Knows(call'[q], f, version'[f], due'[f]) /\ Delivers(call'[q], f, due'[f])
      BY <3>3, <3>6 DEF Knows, Current, Delivers
    <3> QED BY <3>3, <3>5, <3>6, <3>7
  <2> QED BY <2>2, <2>3 DEF KeptFor
<1> QED BY <1>8, <1>9

LEMMA KeptCrash ==
  ASSUME KeysInv, KeptInv, NEW p \in Procs, AtIs(call[p]), Crashes(p)
  PROVE  KeptInv'
<1> DEFINE c == call[p]
           g == c.open[c.at].file
<1>1. /\ c.writing /\ Moves(p, NoCall) /\ UNCHANGED <<version, due, raced>>
      /\ \E lines : disk' = [disk EXCEPT ![g] = lines]
      /\ broken' = broken \cup {g}
  BY DEF Crashes
<1>2. g \in Files /\ disk = [f \in Files |-> disk[f]]
  BY DEF AtIs, KeysInv, FormInv, Shapes
<1>4. call' = [call EXCEPT ![p] = NoCall] /\ ~ NoCall.writing /\ NoCall.open = <<>>
  BY <1>1, NoCallIs DEF Moves
<1>5. \A f : (Writer(c, f) <=> f = g) /\ ~ Writer(NoCall, f)
  BY <1>1, <1>4 DEF Writer
<1>6. \A q \in Procs : call'[q] = IF q = p THEN NoCall ELSE call[q]
  BY <1>4 DEF KeysInv, FormInv, Shapes
<1> SUFFICES ASSUME NEW f \in Files PROVE KeptFor(f)'
  BY DEF KeptInv
<1>7. KeptFor(f)
  BY DEF KeptInv
<1>8. CASE f # g
  <2>1. /\ disk'[f] = disk[f] /\ version'[f] = version[f] /\ due'[f] = due[f]
        /\ (f \in raced' <=> f \in raced) /\ (f \in broken' <=> f \in broken)
    BY <1>1, <1>2, <1>8
  <2>2. ~ Writer(call[p], f)
    BY <1>5, <1>8
  <2> QED BY <1>4, <1>7, <2>1, <2>2, KeptWriter
<1>9. CASE f = g
  <2>1. f \in broken' /\ version'[f] = version[f]
    BY <1>1, <1>9
  <2>2. ASSUME NEW q \in Procs
        PROVE  Stamped(call'[q], f, version'[f])
    <3>1. CASE q = p
      <4>1. Stamped(NoCall, f, version[f])
        BY <1>4, <1>5 DEF Stamped
      <4> QED BY <1>6, <2>1, <3>1, <4>1
    <3>2. CASE q # p
      BY <1>6, <1>7, <2>1, <3>2 DEF KeptFor
    <3> QED BY <3>1, <3>2
  <2> QED BY <2>1, <2>2 DEF KeptFor
<1> QED BY <1>8, <1>9

LEMMA CallbackStill ==
  ASSUME NEW c, IsCall(c), c.fn \in Callbacks
  PROVE  ~ c.writing
BY WritersAre DEF IsCall, Placed, Callbacks

LEMMA KeptStep ==
  ASSUME KeysInv, KeptInv, NEW p \in Procs, Steps(p)
  PROVE  KeptInv'
<1> DEFINE c == call[p]
<1>0. IsCall(c) /\ Shapes /\ call = [call EXCEPT ![p] = c]
  <2>1. \A g \in Files : call = [call EXCEPT ![p] = c]
    BY SameIs DEF KeysInv, FormInv
  <2>2. <<"own", "dsn">> \in Files
    BY DEF Files
  <2> QED BY <2>1, <2>2 DEF KeysInv, FormInv
<1>1. CASE Starts(p)
  BY <1>1, KeptEmpty, NoCallIs DEF Starts, Begun, Moves
<1>2. CASE Idles(p)
  BY <1>0, <1>2, KeptEmpty, NoCallIs DEF Idles
<1>3. CASE Calls(p)
  BY <1>0, <1>3, KeptEmpty, NoCallIs, CallbackStill DEF Calls, Moves
<1>4. CASE Misses(p)
  <2>1. PICK x : Moves(p, x) /\ ((Len(c.todo) > 1 /\ x = Retried(c)) \/ x = NoCall)
    BY <1>4 DEF Misses
  <2>2. x.open = <<>> /\ ~ x.writing
    BY <1>0, <2>1, RetriedIs, NoCallIs
  <2> QED BY <1>0, <1>4, <2>1, <2>2, KeptEmpty, CallbackStill DEF Misses, Moves
<1>5. CASE UNCHANGED asked /\ Quits(p)
  <2>1. \E x : Moves(p, x) /\ x.open = <<>> /\ ~ x.writing
    BY <1>0, <1>5, QuitIs DEF Quits
  <2> QED BY <1>5, <2>1, KeptEmpty DEF Quits, Moves
<1>6. CASE Loads(p)
  <2>1. PICK f, e : OpensFile(p, f, e) /\ Moves(p, Opening(c, e)) /\ Same
    BY <1>6 DEF Loads
  <2>2. PICK x : x = Opening(c, e)
    OBVIOUS
  <2>3. \A g \in Files : ~ x.writing /\ ~ c.writing /\ Informed(x, g)
    BY <2>1, <2>2, LoadsInform
  <2>4. <<"own", "dsn">> \in Files
    BY DEF Files
  <2> QED BY <2>1, <2>2, <2>3, <2>4, KeptInformed DEF Moves
<1>7. CASE Edits(p)
  <2>1. PICK f, e, new, n :
          /\ OpensFile(p, f, e) /\ EditOf(c, Opening(c, e).open, new)
          /\ Moves(p, Editing(c, new, n)) /\ Same
    BY <1>7 DEF Edits
  <2>2. PICK x : x = Opening(c, e)
    OBVIOUS
  <2>3. \A g \in Files : IsCall(x) /\ x.at = 0 /\ ~ c.writing /\ Informed(x, g)
    BY <2>1, <2>2, LoadsInform
  <2>4. PICK y : y = Editing(c, new, n)
    OBVIOUS
  <2>5. y.open = new /\ y.writing = c.writing
    <3>1. c = [fn |-> c.fn, s |-> c.s, k |-> c.k, v |-> c.v, todo |-> c.todo, open |-> c.open,
               at |-> c.at, writing |-> c.writing, asked |-> c.asked, retry |-> c.retry]
      BY <1>0 DEF IsCall
    <3> HIDE DEF c
    <3> QED BY <2>4, <3>1 DEF Editing
  <2>6. <<"own", "dsn">> \in Files
    BY DEF Files
  <2>7. ~ y.writing /\ ~ c.writing
    BY <2>3, <2>5, <2>6
  <2>8. \A g \in Files : Informed(y, g)
    BY <2>1, <2>2, <2>3, <2>5, <2>7, EditsInform
  <2> QED BY <2>1, <2>4, <2>7, <2>8, KeptInformed DEF Moves
<1>8. CASE AtIs(c) /\ (Truncates(p) \/ Flushes(p) \/ Crashes(p))
  BY <1>8, KeptTruncate, KeptFlush, KeptCrash
<1> QED BY <1>1, <1>2, <1>3, <1>4, <1>5, <1>6, <1>7, <1>8 DEF Steps

LEMMA KeptInvHolds == Spec => []KeptInv
<1>1. Init => KeptInv
  <2> SUFFICES ASSUME Init, NEW f \in Files PROVE KeptFor(f)
    BY DEF KeptInv
  <2>1. /\ Beginner(disk[f]) /\ due[f] = Meaning(disk[f], Cells)
        /\ \A p \in Procs : call[p] = NoCall
    BY InitIs
  <2>2. Holds(disk[f], due[f])
    BY <2>1, BeginnerHolds
  <2>3. \A p \in Procs : ~ Writer(call[p], f) /\ call[p].open = <<>>
    BY <2>1, NoCallIs DEF Writer
  <2> QED BY <2>2, <2>3 DEF KeptFor, Stamped, Spoils, Knows, Current, Delivers
<1>2. KeysInv /\ KeptInv /\ [Next]_vars => KeptInv'
  <2> SUFFICES ASSUME KeysInv, KeptInv, [Next]_vars PROVE KeptInv'
    OBVIOUS
  <2>1. CASE Next
    BY <2>1, StepIs, KeptStep
  <2>2. CASE UNCHANGED vars
    <3>1. UNCHANGED <<disk, call, version, due, raced, broken>>
      BY <2>2 DEF vars
    <3> QED BY <3>1 DEF KeptInv, KeptFor
  <2> QED BY <2>1, <2>2
<1> QED BY <1>1, <1>2, KeysInvHolds, PTL DEF Spec

(* What was asked of a file is in it, whatever the interleaving of calls,  *)
(* unless a call wrote it that had not read its latest version, or read it *)
(* while it was being written, or it was broken: a table that is read of a *)
(* file nobody writes means what was asked for so far, _iodbcdm_cfg_write  *)
(* makes of it what the change asks for and nothing else, and              *)
(* _iodbcdm_cfg_commit writes, and _iodbcdm_cfg_refresh reads again, all   *)
(* of it but the end of a value with a comment in it.                      *)
THEOREM UpdatesKeptHolds == Spec => []UpdatesKept
<1>1. KeysInv /\ KeptInv => UpdatesKept
  <2> SUFFICES ASSUME KeysInv, KeptInv, NEW f \in Files, f \notin raced \cup broken, ~ BeingWritten(f)
               PROVE  Meaning(disk[f], Cells) = [c \in Cells |-> ReadBack(due[f][c])]
    BY DEF UpdatesKept
  <2>1. \A p \in Procs : ~ Writer(call[p], f)
    BY DEF BeingWritten, WritersOf, Writer
  <2>2. Holds(disk[f], due[f])
    BY <2>1 DEF KeptInv, KeptFor
  <2> QED BY <2>2 DEF Meaning, Holds
<1> QED BY <1>1, KeysInvHolds, KeptInvHolds, PTL

-----------------------------------------------------------------------------
(* What a call has read of the data sources, or made of it, lists those    *)
(* that have a section: but for the tables of an installation that is about*)
(* to list one without, for a damaged one, and for one that was read while*)
(* the file was written.                                                   *)
Lone(c) == c.at # 0 /\ Unlisted(c, c.open)
Orderly(c, f) ==
  \A i \in 1 .. Len(c.open) :
    LET e == c.open[i] IN
    e.file = f => e.torn \/ e.table.damaged \/ BothOrNone(e.table.lines) \/ Lone(c)
WholeFor(f) ==
  f \notin broken \cup odd \cup mixed => BothOrNone(disk[f]) /\ \A p \in Procs : Orderly(call[p], f)
WholeInv == \A f \in Files : f[2] = "odbc" => WholeFor(f)

LEMMA NothingListed == BothOrNone(<<>>)
<1>1. Good(<<>>) /\ Len(<<>>) = 0 /\ "sources" # Null /\ "d" # Null /\ "Driver" # Null
  BY DriverLines DEF Beginner, Null
<1> PICK x : x = <<>>
  OBVIOUS
<1>2. Good(x) /\ 1 .. Len(x) = {} /\ "sources" # Null /\ "d" # Null /\ "Driver" # Null
  BY <1>1
<1>3. Find(x, "sources", "d") = Null /\ Find(x, "d", "Driver") = Null
  BY <1>2, FindIs
<1>4. BothOrNone(x)
  BY <1>3 DEF BothOrNone
<1> QED BY <1>4

(* Reading a file again, and changing a table, list no source on its own.  *)
LEMMA RereadBoth ==
  ASSUME NEW lines, Good(lines), BothOrNone(lines)
  PROVE  BothOrNone(Reread(lines))
<1>1. \A v : ReadBack(v) = Null <=> v = Null
  BY IniAssumption DEF ReadBack
<1>2. "sources" # Null /\ "d" # Null /\ "Driver" # Null
  BY DEF Null
<1>3. /\ Find(Reread(lines), "sources", "d") = ReadBack(Find(lines, "sources", "d"))
      /\ Find(Reread(lines), "d", "Driver") = ReadBack(Find(lines, "d", "Driver"))
  BY <1>2, RereadIs
<1> QED BY <1>1, <1>3 DEF BothOrNone

LEMMA ChangedBoth ==
  ASSUME NEW t, NEW u, NEW l, After(t, u, l), Unique(t.lines), KeepsSources(l), BothOrNone(t.lines)
  PROVE  u.damaged \/ BothOrNone(u.lines)
<1> SUFFICES ASSUME ~ u.damaged PROVE BothOrNone(u.lines)
  OBVIOUS
<1>1. "sources" # Null /\ "d" # Null /\ "Driver" # Null
  BY DEF Null
<1>2. /\ Find(u.lines, "sources", "d") = Decided(l, <<"sources", "d">>, Find(t.lines, "sources", "d"))
      /\ Find(u.lines, "d", "Driver") = Decided(l, <<"d", "Driver">>, Find(t.lines, "d", "Driver"))
  BY <1>1 DEF After
<1> QED BY <1>2 DEF BothOrNone, KeepsSources

(* What an installation lists depends on what is asked of it.              *)
LEMMA SameListing ==
  ASSUME NEW c, NEW d, d.fn = c.fn, d.s = c.s, d.k = c.k, d.v = c.v, NEW open
  PROVE  Unlisted(d, open) <=> Unlisted(c, open)
<1>1. \A t : install_from_ini(d, t) = install_from_ini(c, t)
  BY DEF install_from_ini
<1>2. \A t, list, library : install_from_string(d, t, list, library) = install_from_string(c, t, list, library)
  BY DEF install_from_string
<1>3. Listing(d, open) = Listing(c, open)
  BY <1>1, <1>2 DEF Listing
<1> QED BY <1>3 DEF Unlisted

LEMMA OrderlyKept ==
  ASSUME NEW c, NEW x, x.fn = c.fn, x.s = c.s, x.k = c.k, x.v = c.v, x.open = c.open, x.at # 0, c.at # 0,
         NEW f, Orderly(c, f)
  PROVE  Orderly(x, f)
<1>1. Lone(c) <=> Lone(x)
  BY SameListing DEF Lone
<1> QED BY <1>1 DEF Orderly

(* A step of one call.                                                     *)
LEMMA WholeStays ==
  ASSUME KeysInv, NEW p \in Procs, NEW x, call' = [call EXCEPT ![p] = x], NEW f \in Files, WholeFor(f),
         f \in broken \cup odd \cup mixed => f \in broken' \cup odd' \cup mixed',
         f \notin broken' \cup odd' \cup mixed' /\ BothOrNone(disk[f]) /\ Orderly(call[p], f) =>
           BothOrNone(disk'[f]) /\ Orderly(x, f)
  PROVE  WholeFor(f)'
<1> SUFFICES ASSUME f \notin broken' \cup odd' \cup mixed'
             PROVE  BothOrNone(disk'[f]) /\ \A q \in Procs : Orderly(call'[q], f)
  BY DEF WholeFor
<1>1. BothOrNone(disk[f]) /\ \A q \in Procs : Orderly(call[q], f)
  BY DEF WholeFor
<1>2. BothOrNone(disk'[f]) /\ Orderly(x, f)
  BY <1>1
<1>3. \A q \in Procs : call'[q] = IF q = p THEN x ELSE call[q]
  BY DEF KeysInv, FormInv, Shapes
<1> QED BY <1>1, <1>2, <1>3

LEMMA WholeEmpty ==
  ASSUME KeysInv, WholeInv, NEW p \in Procs, NEW x, call' = [call EXCEPT ![p] = x],
         x.open = <<>> \/ x = call[p], Same
  PROVE  WholeInv'
<1> SUFFICES ASSUME NEW f \in Files, WholeFor(f) PROVE WholeFor(f)'
  BY DEF WholeInv
<1>1. x.open = <<>> => Orderly(x, f)
  BY DEF Orderly
<1>2. disk' = disk /\ broken' = broken /\ odd' = odd /\ mixed' = mixed
  BY DEF Same
<1> QED BY <1>1, <1>2, WholeStays

LEMMA WholeLoads ==
  ASSUME KeysInv, NEW p \in Procs, NEW g, NEW e, OpensFile(p, g, e), NEW x, x = Opening(call[p], e),
         NEW f \in Files, BothOrNone(disk[f]), Orderly(call[p], f)
  PROVE  Orderly(x, f) /\ x.at = 0 /\ IsCall(x)
<1> DEFINE c == call[p]
<1>1. /\ c.todo # <<>> /\ c.at = 0 /\ Len(c.open) < Len(c.todo[1].kinds)
      /\ g \in Files /\ g[2] = c.todo[1].kinds[Len(c.open) + 1]
  BY DEF OpensFile
<1>2. IsCall(c) /\ x = Opening(c, e) /\ Orderly(c, f)
  BY DEF KeysInv, FormInv
<1> HIDE DEF c
<1>3. /\ Entry(e) /\ Unedited(e.table) /\ e.file = g /\ e.kind = g[2]
      /\ e.torn \/ e.table.lines = disk[g]
  <2>1. PICK lines \in Readable(g) : g \in Files /\ e = Load(g, g[2], lines)
    BY DEF OpensFile
  <2>2. /\ Entry(e) /\ Unedited(e.table) /\ e.file = g /\ e.kind = g[2]
        /\ e.version = version[g]
        /\ e.torn <=> BeingWritten(g) \/ g \in mixed
        /\ e.torn \/ (e.table.lines = disk[g] /\ Unique(disk[g]))
        /\ e.users <=> <<"user", g[2]>> \in present
    BY <2>1, LoadIs
  <2> QED BY <2>2
<1>4. More(c, e, x)
  <2>1. e.kind = c.todo[1].kinds[Len(c.open) + 1]
    BY <1>1, <1>3
  <2> QED BY <1>1, <1>2, <1>3, <2>1, OneMore
<1>5. \A i \in 1 .. Len(x.open) : x.open[i] = e \/ (i \in 1 .. Len(c.open) /\ x.open[i] = c.open[i])
  BY <1>4 DEF More
<1>6. ASSUME NEW i \in 1 .. Len(x.open), x.open[i].file = f
      PROVE  x.open[i].torn \/ x.open[i].table.damaged \/ BothOrNone(x.open[i].table.lines)
  <2>1. CASE x.open[i] = e
    BY <1>3, <1>6, <2>1
  <2>2. CASE i \in 1 .. Len(c.open) /\ x.open[i] = c.open[i]
    BY <1>1, <1>2, <1>6, <2>2 DEF Orderly, Lone
  <2> QED BY <1>5, <2>1, <2>2
<1> QED BY <1>4, <1>6 DEF Orderly, More

LEMMA WholeEdits ==
  ASSUME NEW c, NEW x, IsCall(x), x.at = 0, NEW new, EditOf(c, x.open, new), NEW f \in Files, f[2] = "odbc",
         Orderly(x, f), NEW y, y.open = new, y.at # 0, y.fn = c.fn, y.s = c.s, y.k = c.k, y.v = c.v
  PROVE  Orderly(y, f)
<1>1. /\ Len(new) = Len(x.open)
      /\ \A i \in 1 .. Len(x.open) :
           /\ Alike(x.open[i], new[i]) /\ Unedited(x.open[i].table) /\ Entry(x.open[i])
           /\ \E l \in Seq(Change3) : /\ After(x.open[i].table, new[i].table, l)
                                      /\ x.open[i].kind = "odbc" => KeepsSources(l) \/ Unlisted(c, new)
  BY DEF EditOf, IsCall, Placed, Opened
<1>2. ASSUME NEW i \in 1 .. Len(new), new[i].file = f, ~ Lone(y), ~ new[i].torn
      PROVE  new[i].table.damaged \/ BothOrNone(new[i].table.lines)
  <2>1. ~ Unlisted(c, new)
    <3>1. ~ Unlisted(y, new)
      BY <1>2 DEF Lone
    <3> QED BY <3>1, SameListing
  <2>2. /\ i \in 1 .. Len(x.open) /\ x.open[i].file = f /\ x.open[i].kind = "odbc"
        /\ ~ x.open[i].table.damaged /\ ~ x.open[i].torn /\ Unique(x.open[i].table.lines)
    BY <1>1, <1>2 DEF Alike, Entry, Unedited
  <2>3. BothOrNone(x.open[i].table.lines)
    BY <2>2 DEF Orderly, Lone
  <2>4. PICK l \in Seq(Change3) : After(x.open[i].table, new[i].table, l) /\ KeepsSources(l)
    BY <1>1, <2>1, <2>2
  <2> QED BY <2>2, <2>3, <2>4, ChangedBoth
<1> QED BY <1>2 DEF Orderly

LEMMA WholeTruncate ==
  ASSUME KeysInv, WholeInv, NEW p \in Procs, AtIs(call[p]), call[p].at # 0, Truncates(p)
  PROVE  WholeInv'
<1> DEFINE c == call[p]
           e == c.open[c.at]
           g == e.file
<1>1. /\ Moves(p, Writing(c)) /\ UNCHANGED odd /\ disk' = [disk EXCEPT ![g] = <<>>]
      /\ \A f : (f \in broken => f \in broken') /\ (f \in mixed => f \in mixed')
  BY DEF Truncates
<1>2. g \in Files /\ disk = [f \in Files |-> disk[f]] /\ IsCall(c) /\ c.at # 0
  BY DEF AtIs, KeysInv, FormInv, Shapes
<1>3. PICK x : x = Writing(c)
  OBVIOUS
<1>4. x.fn = c.fn /\ x.s = c.s /\ x.k = c.k /\ x.v = c.v /\ x.open = c.open /\ x.at = c.at
  BY <1>2, <1>3, WritingIs
<1>5. call' = [call EXCEPT ![p] = x]
  BY <1>1, <1>3 DEF Moves
<1> SUFFICES ASSUME NEW f \in Files, WholeFor(f) PROVE WholeFor(f)'
  BY DEF WholeInv
<1>6. BothOrNone(disk[f]) => BothOrNone(disk'[f])
  <2>1. disk'[f] = IF f = g THEN <<>> ELSE disk[f]
    BY <1>1, <1>2
  <2> QED BY <2>1, NothingListed
<1>7. Orderly(c, f) => Orderly(x, f)
  BY <1>2, <1>4, OrderlyKept
<1> QED BY <1>1, <1>5, <1>6, <1>7, WholeStays

LEMMA WholeFlush ==
  ASSUME KeysInv, KeptInv, WholeInv, NEW p \in Procs, AtIs(call[p]), call[p].at # 0, Flushes(p)
  PROVE  WholeInv'
<1> DEFINE c == call[p]
           e == c.open[c.at]
           g == e.file
<1>1. /\ c.writing /\ UNCHANGED <<broken, mixed>>
      /\ disk' = [disk EXCEPT ![g] = Overwritten(@, Reread(e.table.lines))]
      /\ odd' = IF e.kind = "odbc" /\ Unsectioned(c, c.open) THEN odd \cup {g} ELSE odd
  BY DEF Flushes
<1>2. /\ c.at \in 1 .. Len(c.open) /\ g \in Files /\ e.kind = g[2]
      /\ e.table.lines \in Seq(Line) /\ (e.torn \/ Unique(e.table.lines))
      /\ disk = [f \in Files |-> disk[f]] /\ IsCall(c) /\ c.at # 0
  BY DEF AtIs, Entry, KeysInv, FormInv, Shapes
<1>3. PICK x : Leaves(p, x)
  BY FlushLeaves
<1>4. call' = [call EXCEPT ![p] = x]
  BY <1>3 DEF Leaves, Moves
<1> SUFFICES ASSUME NEW f \in Files, f[2] = "odbc", WholeFor(f) PROVE WholeFor(f)'
  BY DEF WholeInv
<1>5. f \in broken \cup odd \cup mixed => f \in broken' \cup odd' \cup mixed'
  BY <1>1
<1>6. Orderly(c, f) => Orderly(x, f)
  <2>1. CASE x.open = <<>>
    BY <2>1 DEF Orderly
  <2>2. ASSUME NEW n \in 1 .. Len(c.open), x = Passing(c, n)
        PROVE  Orderly(c, f) => Orderly(x, f)
    <3>1. x.fn = c.fn /\ x.s = c.s /\ x.k = c.k /\ x.v = c.v /\ x.open = c.open /\ x.at = n
      BY <1>2, <2>2, PassingIs
    <3> QED BY <1>2, <3>1, OrderlyKept
  <2> QED BY <1>3, <2>1, <2>2 DEF Leaves
<1>7. ASSUME f \notin broken' \cup odd' \cup mixed', BothOrNone(disk[f]), Orderly(c, f)
      PROVE  BothOrNone(disk'[f])
  <2>1. CASE f # g
    BY <1>1, <1>2, <1>7, <2>1
  <2>2. CASE f = g
    <3>1. ~ e.table.damaged
      <4>1. Writer(c, f)
        BY <1>1, <2>2 DEF Writer
      <4> QED BY <1>1, <1>7, <4>1 DEF KeptInv, KeptFor, Spoils
    <3>2. ~ Unsectioned(c, c.open)
      BY <1>1, <1>2, <1>7, <2>2
    <3>3. ~ Lone(c)
      BY <3>2, UnlistedIs DEF Lone, Unlisted
    <3>4. disk[f] = <<>> /\ ~ e.torn
      <4>1. Writer(c, f) /\ f \notin mixed /\ Alone(f)
        BY <1>1, <1>7, <2>2 DEF Writer, KeysInv
      <4> QED BY <4>1 DEF Alone
    <3>5. BothOrNone(e.table.lines)
      BY <1>2, <1>7, <2>2, <3>1, <3>3, <3>4 DEF Orderly
    <3>6. Good(e.table.lines)
      BY <1>2, <3>4 DEF Good
    <3>7. Reread(e.table.lines) \in Seq(Line) /\ disk[f] \in Seq(Line)
      BY <3>4, <3>6, RereadIs DEF Good
    <3>8. disk'[f] = Overwritten(disk[f], Reread(e.table.lines))
      BY <1>1, <1>2, <2>2
    <3>9. disk'[f] = Reread(e.table.lines)
      BY <3>4, <3>7, <3>8, OverwrittenIs
    <3> QED BY <3>5, <3>6, <3>9, RereadBoth
  <2> QED BY <2>1, <2>2
<1> QED BY <1>4, <1>5, <1>6, <1>7, WholeStays

LEMMA WholeCrash ==
  ASSUME KeysInv, WholeInv, NEW p \in Procs, AtIs(call[p]), Crashes(p)
  PROVE  WholeInv'
<1> DEFINE g == call[p].open[call[p].at].file
<1>1. /\ call' = [call EXCEPT ![p] = NoCall] /\ UNCHANGED <<odd, mixed>>
      /\ \E lines : disk' = [disk EXCEPT ![g] = lines]
      /\ broken' = broken \cup {g}
  BY DEF Crashes, Moves
<1>2. g \in Files /\ disk = [f \in Files |-> disk[f]]
  BY DEF AtIs, KeysInv, FormInv, Shapes
<1> SUFFICES ASSUME NEW f \in Files, WholeFor(f) PROVE WholeFor(f)'
  BY DEF WholeInv
<1>3. f \notin broken' => disk'[f] = disk[f]
  BY <1>1, <1>2
<1>4. Orderly(NoCall, f)
  BY NoCallIs DEF Orderly
<1> QED BY <1>1, <1>3, <1>4, WholeStays

LEMMA WholeStep ==
  ASSUME KeysInv, KeptInv, WholeInv, NEW p \in Procs, Steps(p)
  PROVE  WholeInv'
<1> DEFINE c == call[p]
<1>0. IsCall(c) /\ Shapes /\ call = [call EXCEPT ![p] = c]
  <2>1. \A g \in Files : call = [call EXCEPT ![p] = c]
    BY SameIs DEF KeysInv, FormInv
  <2>2. <<"own", "dsn">> \in Files
    BY DEF Files
  <2> QED BY <2>1, <2>2 DEF KeysInv, FormInv
<1>1. CASE Starts(p)
  BY <1>1, WholeEmpty DEF Starts, Begun, Moves
<1>2. CASE Idles(p)
  BY <1>0, <1>2, WholeEmpty DEF Idles
<1>3. CASE Calls(p)
  BY <1>3, WholeEmpty, NoCallIs DEF Calls, Moves
<1>4. CASE Misses(p)
  <2>1. PICK x : Moves(p, x) /\ ((Len(c.todo) > 1 /\ x = Retried(c)) \/ x = NoCall)
    BY <1>4 DEF Misses
  <2>2. x.open = <<>>
    BY <1>0, <2>1, RetriedIs, NoCallIs
  <2> QED BY <1>4, <2>1, <2>2, WholeEmpty DEF Misses, Moves
<1>5. CASE UNCHANGED asked /\ Quits(p)
  <2>1. \E x : Moves(p, x) /\ x.open = <<>>
    BY <1>0, <1>5, QuitIs DEF Quits
  <2> QED BY <1>5, <2>1, WholeEmpty DEF Quits, Moves
<1>6. CASE Loads(p)
  <2>1. PICK f, e : OpensFile(p, f, e) /\ Moves(p, Opening(c, e)) /\ Same
    BY <1>6 DEF Loads
  <2>2. PICK x : x = Opening(c, e)
    OBVIOUS
  <2>3. call' = [call EXCEPT ![p] = x] /\ disk' = disk /\ broken' = broken /\ odd' = odd /\ mixed' = mixed
    BY <2>1, <2>2 DEF Moves, Same
  <2> SUFFICES ASSUME NEW g \in Files, WholeFor(g) PROVE WholeFor(g)'
    BY DEF WholeInv
  <2>4. BothOrNone(disk[g]) /\ Orderly(c, g) => Orderly(x, g)
    BY <2>1, <2>2, WholeLoads
  <2> QED BY <2>3, <2>4, WholeStays
<1>7. CASE Edits(p)
  <2>1. PICK f, e, new, n :
          /\ OpensFile(p, f, e) /\ EditOf(c, Opening(c, e).open, new) /\ n \in 1 .. Len(new)
          /\ Moves(p, Editing(c, new, n)) /\ Same
    BY <1>7 DEF Edits
  <2>2. PICK x : x = Opening(c, e)
    OBVIOUS
  <2>3. PICK y : y = Editing(c, new, n)
    OBVIOUS
  <2>4. y.open = new /\ y.at # 0 /\ y.fn = c.fn /\ y.s = c.s /\ y.k = c.k /\ y.v = c.v
    <3>1. c = [fn |-> c.fn, s |-> c.s, k |-> c.k, v |-> c.v, todo |-> c.todo, open |-> c.open,
               at |-> c.at, writing |-> c.writing, asked |-> c.asked, retry |-> c.retry]
      BY <1>0 DEF IsCall
    <3>2. n # 0
      BY <2>1
    <3> HIDE DEF c
    <3> QED BY <2>3, <3>1, <3>2 DEF Editing
  <2>5. call' = [call EXCEPT ![p] = y] /\ disk' = disk /\ broken' = broken /\ odd' = odd /\ mixed' = mixed
    BY <2>1, <2>3 DEF Moves, Same
  <2> SUFFICES ASSUME NEW g \in Files, g[2] = "odbc", WholeFor(g) PROVE WholeFor(g)'
    BY DEF WholeInv
  <2>6. BothOrNone(disk[g]) /\ Orderly(c, g) => Orderly(y, g)
    <3> SUFFICES ASSUME BothOrNone(disk[g]), Orderly(c, g) PROVE Orderly(y, g)
      OBVIOUS
    <3>1. Orderly(x, g) /\ x.at = 0 /\ IsCall(x)
      BY <2>1, <2>2, WholeLoads
    <3>2. EditOf(c, x.open, new)
      BY <2>1, <2>2
    <3> HIDE DEF c
    <3> QED BY <2>4, <3>1, <3>2, WholeEdits
  <2> QED BY <2>5, <2>6, WholeStays
<1>8. CASE AtIs(c) /\ (Truncates(p) \/ Flushes(p) \/ Crashes(p))
  <2>1. c.at # 0
    BY <1>8 DEF AtIs
  <2> QED BY <1>8, <2>1, WholeTruncate, WholeFlush, WholeCrash
<1> QED BY <1>1, <1>2, <1>3, <1>4, <1>5, <1>6, <1>7, <1>8 DEF Steps

LEMMA WholeInvHolds == Spec => []WholeInv
<1>1. Init => WholeInv
  <2> SUFFICES ASSUME Init, NEW f \in Files, f[2] = "odbc" PROVE WholeFor(f)
    BY DEF WholeInv
  <2>1. BothOrNone(disk[f]) /\ \A p \in Procs : call[p] = NoCall
    BY InitIs
  <2> QED BY <2>1, NoCallIs DEF WholeFor, Orderly
<1>2. KeysInv /\ KeptInv /\ WholeInv /\ [Next]_vars => WholeInv'
  <2> SUFFICES ASSUME KeysInv, KeptInv, WholeInv, [Next]_vars PROVE WholeInv'
    OBVIOUS
  <2>1. CASE Next
    BY <2>1, StepIs, WholeStep
  <2>2. CASE UNCHANGED vars
    <3>1. UNCHANGED <<disk, call, broken, odd, mixed>>
      BY <2>2 DEF vars
    <3> QED BY <3>1 DEF WholeInv, WholeFor
  <2> QED BY <2>1, <2>2
<1> QED BY <1>1, <1>2, KeysInvHolds, KeptInvHolds, PTL DEF Spec

(* The list of data sources and their sections agree in every file, also   *)
(* where two processes overwrite each other's changes: one call changes    *)
(* both in one table, whatever it has read (SQLWriteDSNToIni,              *)
(* SQLRemoveDSNFromIni, SQLRemoveDriver, and an installation unless its    *)
(* CreateDSN lists a source without a section), and a table is written     *)
(* whole: but not where two processes write at once, or one writes what it *)
(* read of another's unfinished file (mixed).                              *)
THEOREM SourcesWholeHolds == Spec => []SourcesWhole
<1>1. WholeInv => SourcesWhole
  <2> SUFFICES ASSUME WholeInv, NEW scope \in {"user", "system"}, <<scope, "odbc">> \notin broken \cup odd \cup mixed
               PROVE  BothOrNone(disk[<<scope, "odbc">>])
    BY DEF SourcesWhole, BothOrNone
  <2>1. <<scope, "odbc">> \in Files
    BY DEF Files
  <2> QED BY <2>1 DEF WholeInv, WholeFor
<1> QED BY <1>1, WholeInvHolds, PTL

=============================================================================
