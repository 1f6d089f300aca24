--------------------------- MODULE ConfFileProofs ---------------------------
(***************************************************************************)
(* The parser of the configuration file finds what a file means, for files *)
(* of any length.                                                          *)
(***************************************************************************)
EXTENDS ConfFile, SequenceTheorems, WellFoundedInduction, TLAPS

-----------------------------------------------------------------------------
(* Induction over the lines of a file.                                     *)

\* A set of numbers has a least one.
LEMMA LeastNumber ==
  ASSUME NEW T, T \subseteq Nat, T # {}
  PROVE  \E x \in T : \A y \in T : x <= y
<1>1. \E x \in T : \A y \in T : ~(<<y, x>> \in OpToRel(<, Nat))
  BY NatLessThanWellFounded, WFMin
<1>2. PICK x \in T : \A y \in T : ~(<<y, x>> \in OpToRel(<, Nat))
  BY <1>1
<1>3. \A y \in T : ~(y < x)
  BY <1>2 DEF OpToRel
<1> QED BY <1>3

\* Induction up to N, for the set G of the numbers that have a property.
LEMMA UpTo ==
  ASSUME NEW G, NEW N \in Nat, 0 \in G,
         \A n \in Nat : n < N /\ n \in G => n + 1 \in G
  PROVE  \A n \in 0..N : n \in G
<1> DEFINE T == {n \in 0..N : n \notin G}
<1>1. ASSUME T # {} PROVE FALSE
  <2>0. T \subseteq Nat
    OBVIOUS
  <2>1. PICK m \in T : \A y \in T : m <= y
    <3> HIDE DEF T
    <3> QED BY <1>1, <2>0, LeastNumber
  <2>2. m \in 0..N /\ m \notin G /\ m # 0
    OBVIOUS
  <2>3. m - 1 \in Nat /\ m - 1 < N /\ m - 1 \in 0..N /\ ~(m <= m - 1) /\ (m - 1) + 1 = m
    BY <2>2
  <2>4. m - 1 \notin T
    <3> HIDE DEF T
    <3> QED BY <2>1, <2>3
  <2>5. m - 1 \in G
    BY <2>3, <2>4
  <2> QED BY <2>2, <2>3, <2>5
<1> QED BY <1>1

-----------------------------------------------------------------------------
(* The loop.                                                               *)

Start == [section |-> "", values |-> <<>>]

\* g holds the section and the map after each of the first n lines.
IsLoop(g, file, n) ==
  g = [k \in 0..n |-> IF k = 0 THEN Start ELSE ReadLine(g[k - 1], file[k])]

\* One more turn of the loop.
LEMMA OneMoreLine ==
  ASSUME NEW file, NEW n \in Nat, NEW g, IsLoop(g, file, n)
  PROVE  \E h : IsLoop(h, file, n + 1)
<1> DEFINE m == n + 1
<1> DEFINE h == [k \in 0..m |-> IF k = m THEN ReadLine(g[n], file[m]) ELSE g[k]]
<1>1. ASSUME NEW k \in 0..m
      PROVE  h[k] = IF k = 0 THEN Start ELSE ReadLine(h[k - 1], file[k])
  <2>1. CASE k = m
    <3>1. k # 0 /\ k - 1 = n /\ n \in 0..m /\ n # m
      BY <2>1
    <3>2. h[k] = ReadLine(g[n], file[m]) /\ h[k - 1] = g[n]
      BY <2>1, <3>1
    <3> QED BY <2>1, <3>1, <3>2
  <2>2. CASE k # m
    <3>1. k \in 0..n
      BY <2>2
    <3>2. h[k] = g[k]
      BY <2>2
    <3>3. g[k] = IF k = 0 THEN Start ELSE ReadLine(g[k - 1], file[k])
      BY <3>1 DEF IsLoop
    <3>4. k # 0 => k - 1 \in 0..m /\ k - 1 # m
      BY <3>1
    <3>5. k # 0 => h[k - 1] = g[k - 1]
      BY <3>4
    <3> QED BY <3>2, <3>3, <3>5
  <2> QED BY <2>1, <2>2
<1>2. h = [k \in 0..m |-> h[k]]
  OBVIOUS
<1>3. IsLoop(h, file, m)
  <2> HIDE DEF h
  <2> QED BY <1>1, <1>2 DEF IsLoop
<1> QED BY <1>3

\* The recursive definition of ReadLines has a meaning, and it is the loop.
LEMMA ReadLinesIsLoop ==
  ASSUME NEW S, NEW file \in Seq(S)
  PROVE  IsLoop(ReadLines(file), file, Len(file))
<1> DEFINE G == {n \in Nat : \E g : IsLoop(g, file, n)}
<1>1. Len(file) \in Nat
  BY LenProperties
<1>2. 0 \in G
  <2> DEFINE g == [k \in 0..0 |-> Start]
  <2>1. IsLoop(g, file, 0)
    BY DEF IsLoop
  <2> QED BY <2>1
<1>3. \A n \in Nat : n < Len(file) /\ n \in G => n + 1 \in G
  BY OneMoreLine
<1>4. Len(file) \in G
  <2> HIDE DEF G
  <2>1. \A n \in 0..Len(file) : n \in G
    BY <1>1, <1>2, <1>3, UpTo
  <2> QED BY <1>1, <2>1
<1>5. PICK g : IsLoop(g, file, Len(file))
  BY <1>4
<1>6. ReadLines(file) = CHOOSE h : IsLoop(h, file, Len(file))
  BY DEF ReadLines, IsLoop, Start
<1> QED BY <1>5, <1>6

-----------------------------------------------------------------------------
(* What the loop finds.                                                    *)

\* After n lines the section is sec.
Under(file, n, sec) ==
  \E h \in 1..n :
    /\ Kind(file[h]) = "section" /\ file[h].name = sec
    /\ \A g \in h + 1..n : Kind(file[g]) # "section"

\* A key is looked up under the last header.
LEMMA SetsKeyUnder ==
  \A file, i, sec, key :
    SetsKey(file, i, sec, key) <=>
      Kind(file[i]) = "pair" /\ file[i].key = key /\ Under(file, i - 1, sec)
BY DEF SetsKey, Under

\* A header makes its section the current one; other lines leave it.
LEMMA UnderNext ==
  ASSUME NEW file, NEW n \in Nat, NEW sec
  PROVE  Under(file, n + 1, sec) <=>
           IF Kind(file[n + 1]) = "section" THEN file[n + 1].name = sec ELSE Under(file, n, sec)
<1>1. CASE Kind(file[n + 1]) = "section"
  <2>1. ASSUME file[n + 1].name = sec PROVE Under(file, n + 1, sec)
    <3>1. n + 1 \in 1..n + 1 /\ \A g \in (n + 1) + 1..n + 1 : FALSE
      OBVIOUS
    <3> QED BY <1>1, <2>1, <3>1 DEF Under
  <2>2. ASSUME Under(file, n + 1, sec) PROVE file[n + 1].name = sec
    <3>1. PICK h \in 1..n + 1 :
            /\ Kind(file[h]) = "section" /\ file[h].name = sec
            /\ \A g \in h + 1..n + 1 : Kind(file[g]) # "section"
      BY <2>2 DEF Under
    <3>2. h # n + 1 => n + 1 \in h + 1..n + 1
      OBVIOUS
    <3> QED BY <1>1, <3>1, <3>2
  <2> QED BY <1>1, <2>1, <2>2
<1>2. CASE Kind(file[n + 1]) # "section"
  <2>1. ASSUME Under(file, n, sec) PROVE Under(file, n + 1, sec)
    <3>1. PICK h \in 1..n :
            /\ Kind(file[h]) = "section" /\ file[h].name = sec
            /\ \A g \in h + 1..n : Kind(file[g]) # "section"
      BY <2>1 DEF Under
    <3>2. h \in 1..n + 1 /\ \A g \in h + 1..n + 1 : g \in h + 1..n \/ g = n + 1
      OBVIOUS
    <3> QED BY <1>2, <3>1, <3>2 DEF Under
  <2>2. ASSUME Under(file, n + 1, sec) PROVE Under(file, n, sec)
    <3>1. PICK h \in 1..n + 1 :
            /\ Kind(file[h]) = "section" /\ file[h].name = sec
            /\ \A g \in h + 1..n + 1 : Kind(file[g]) # "section"
      BY <2>2 DEF Under
    <3>2. h # n + 1
      BY <1>2, <3>1
    <3>3. h \in 1..n /\ \A g \in h + 1..n : g \in h + 1..n + 1
      BY <3>2
    <3> QED BY <3>1, <3>3 DEF Under
  <2> QED BY <1>2, <2>1, <2>2
<1> QED BY <1>1, <1>2

\* What the loop has found of a key after n lines: the current section, whether
\* the key is there, and that its value is that of the first line to set it.
Found(g, file, n, sec, key) ==
  /\ g[n].section = sec <=> Under(file, n, sec)
  /\ <<sec, key>> \in DOMAIN g[n].values <=> \E i \in 1..n : SetsKey(file, i, sec, key)
  /\ \A i \in 1..n :
       SetsKey(file, i, sec, key) /\ (\A j \in 1..i - 1 : ~SetsKey(file, j, sec, key)) =>
         g[n].values[<<sec, key>>] = file[i].value

LEMMA NoLine == \A i \in 1..0 : FALSE
OBVIOUS

LEMMA NoKey == \A x : x \notin DOMAIN (<<>>)
<1>1. <<>> \in Seq({}) /\ Len(<<>>) = 0
  BY EmptySeq
<1>2. DOMAIN (<<>>) = 1..Len(<<>>)
  BY <1>1, LenProperties
<1>3. DOMAIN (<<>>) = 1..0
  BY <1>1, <1>2
<1> QED BY <1>3, NoLine

\* Before the first line.
LEMMA FoundFirst ==
  ASSUME NEW g, NEW file, g[0] = Start, NEW sec, NEW key, sec # ""
  PROVE  Found(g, file, 0, sec, key)
<1>1. Start.section = "" /\ Start.values = <<>>
  BY DEF Start
<1>2. g[0].section = "" /\ g[0].values = <<>>
  BY <1>1
<1> QED BY <1>2, NoLine, NoKey DEF Found, Under

\* A turn of the loop.
LEMMA FoundNext ==
  ASSUME NEW g, NEW file, NEW n \in Nat, NEW sec, NEW key,
         g[n + 1] = ReadLine(g[n], file[n + 1]), Found(g, file, n, sec, key)
  PROVE  Found(g, file, n + 1, sec, key)
<1> DEFINE line == file[n + 1]
<1> DEFINE sets(i) == SetsKey(file, i, sec, key)
<1> DEFINE v == g[n].values
<1> DEFINE w == g[n + 1].values
<1> DEFINE at == <<sec, key>>
<1>0. /\ g[n].section = sec <=> Under(file, n, sec)
      /\ at \in DOMAIN v <=> \E i \in 1..n : sets(i)
      /\ \A i \in 1..n : sets(i) /\ (\A j \in 1..i - 1 : ~sets(j)) => v[at] = file[i].value
  BY DEF Found
<1>1. /\ g[n + 1].section = IF Kind(line) = "section" THEN line.name ELSE g[n].section
      /\ w = IF Kind(line) = "pair" THEN Insert(v, <<g[n].section, line.key>>, line.value) ELSE v
  BY DEF ReadLine
<1>2. g[n + 1].section = sec <=> Under(file, n + 1, sec)
  BY <1>0, <1>1, UnderNext
<1>3. sets(n + 1) <=> Kind(line) = "pair" /\ line.key = key /\ g[n].section = sec
  <2>1. (n + 1) - 1 = n
    OBVIOUS
  <2> QED BY <1>0, <2>1, SetsKeyUnder
<1>4. /\ at \in DOMAIN w <=> at \in DOMAIN v \/ sets(n + 1)
      /\ at \in DOMAIN v => w[at] = v[at]
      /\ sets(n + 1) /\ at \notin DOMAIN v => w[at] = line.value
  <2>1. CASE Kind(line) = "pair"
    <3> DEFINE d == <<g[n].section, line.key>>
    <3>1. w = [x \in DOMAIN v \cup {d} |-> IF x \in DOMAIN v THEN v[x] ELSE line.value]
      BY <1>1, <2>1 DEF Insert
    <3>2. at = d <=> sets(n + 1)
      BY <1>3, <2>1
    <3> HIDE DEF d, w, v, at, sets, line
    <3> QED BY <3>1, <3>2
  <2>2. CASE Kind(line) # "pair"
    BY <1>1, <1>3, <2>2
  <2> QED BY <2>1, <2>2
<1> HIDE DEF sets, at, v, w, line
<1>5. \A i : i \in 1..n + 1 <=> i \in 1..n \/ i = n + 1
  OBVIOUS
<1>6. at \in DOMAIN w <=> \E i \in 1..n + 1 : sets(i)
  BY <1>0, <1>4, <1>5
<1>7. ASSUME NEW i \in 1..n + 1, sets(i), \A j \in 1..i - 1 : ~sets(j)
      PROVE  w[at] = file[i].value
  <2>1. CASE i \in 1..n
    BY <1>0, <1>4, <1>7, <2>1
  <2>2. CASE i = n + 1
    <3>1. 1..i - 1 = 1..n
      BY <2>2
    <3>2. at \notin DOMAIN v
      BY <1>0, <1>7, <3>1
    <3> QED BY <1>4, <1>7, <2>2, <3>2 DEF line
  <2> QED BY <1>5, <2>1, <2>2
<1> QED BY <1>2, <1>6, <1>7 DEF Found, sets, at, v, w, line

\* The numbers of the turns of the loop.
LEMMA Within ==
  ASSUME NEW N \in Nat
  PROVE  /\ 0 \in 0..N /\ N \in 0..N
         /\ \A n \in Nat : n < N => n + 1 \in 0..N /\ n + 1 # 0 /\ (n + 1) - 1 = n /\ n + 1 \in Nat
OBVIOUS

\* After all lines.
LEMMA FoundLast ==
  ASSUME NEW g, NEW file, NEW N \in Nat, IsLoop(g, file, N), NEW sec, NEW key, sec # ""
  PROVE  Found(g, file, N, sec, key)
<1>1. \A n \in 0..N : g[n] = IF n = 0 THEN Start ELSE ReadLine(g[n - 1], file[n])
  BY DEF IsLoop
<1> DEFINE G == {n \in Nat : Found(g, file, n, sec, key)}
<1>2. 0 \in G
  <2>1. 0 \in 0..N
    BY Within
  <2>2. g[0] = Start
    BY <1>1, <2>1
  <2> QED BY <2>2, FoundFirst
<1>3. ASSUME NEW n \in Nat, n < N, n \in G PROVE n + 1 \in G
  <2>1. n + 1 \in 0..N /\ n + 1 # 0 /\ (n + 1) - 1 = n /\ n + 1 \in Nat
    BY <1>3, Within
  <2>2. g[n + 1] = ReadLine(g[n], file[n + 1])
    BY <1>1, <2>1
  <2> QED BY <1>3, <2>1, <2>2, FoundNext
<1>4. N \in G
  <2> HIDE DEF G
  <2>1. \A n \in 0..N : n \in G
    BY <1>2, <1>3, UpTo
  <2>2. N \in 0..N
    BY Within
  <2> QED BY <2>1, <2>2
<1> QED BY <1>4

-----------------------------------------------------------------------------
(* The file.                                                               *)

\* The first of the lines at which something is set.
LEMMA FirstOf ==
  ASSUME NEW N \in Nat, NEW at, at \subseteq 1..N, at # {}
  PROVE  /\ Min(at) \in 1..N /\ Min(at) \in at
         /\ \A j \in 1..Min(at) - 1 : j \in 1..N /\ j \notin at
<1>1. at \subseteq Nat
  OBVIOUS
<1>2. \E x \in at : \A y \in at : x <= y
  BY <1>1, LeastNumber
<1> DEFINE m == Min(at)
<1>3. m \in at /\ \A y \in at : m <= y
  BY <1>2 DEF Min
<1> HIDE DEF m
<1>4. m \in Nat /\ m <= N
  BY <1>3
<1>5. ASSUME NEW j \in 1..m - 1 PROVE j \in 1..N /\ ~(m <= j)
  BY <1>4
<1> QED BY <1>3, <1>5 DEF m

\* For every file, the value that GetSecValue hands out after OpenIniFile is the
\* first one under a header of the section, however often the section is taken
\* up again and whatever stands in other sections and in comments; or none if
\* there is no such line.  The section without a name is left out: pairs before
\* the first header are stored under it.
THEOREM ParserFindsMeant ==
  ASSUME NEW S, NEW file \in Seq(S), NEW sec, NEW key, sec # ""
  PROVE  GetSecValue(OpenIniFile(file), sec, key) = Meant(file, sec, key)
<1> DEFINE N == Len(file)
<1> DEFINE g == ReadLines(file)
<1> DEFINE sets(i) == SetsKey(file, i, sec, key)
<1> DEFINE v == g[N].values
<1> DEFINE at == {i \in DOMAIN file : sets(i)}
<1>1. N \in Nat /\ DOMAIN file = 1..N
  BY LenProperties
<1>2. IsLoop(g, file, N)
  BY ReadLinesIsLoop
<1>3. Found(g, file, N, sec, key)
  <2> HIDE DEF N, g
  <2> QED BY <1>1, <1>2, FoundLast
<1>4. /\ <<sec, key>> \in DOMAIN v <=> \E i \in 1..N : sets(i)
      /\ \A i \in 1..N : sets(i) /\ (\A j \in 1..i - 1 : ~sets(j)) => v[<<sec, key>>] = file[i].value
  BY <1>3 DEF Found
<1>5. OpenIniFile(file) = v
  BY DEF OpenIniFile
<1>6. Meant(file, sec, key) = IF at = {} THEN NoValue ELSE file[Min(at)].value
  BY DEF Meant
<1>7. \A i : i \in at <=> i \in 1..N /\ sets(i)
  BY <1>1
<1> HIDE DEF N, g, v, sets, at
<1>8. CASE at = {}
  <2>1. <<sec, key>> \notin DOMAIN v
    BY <1>4, <1>7, <1>8
  <2> QED BY <1>5, <1>6, <1>8, <2>1 DEF GetSecValue
<1>9. CASE at # {}
  <2>1. at \subseteq 1..N
    BY <1>7
  <2>2. /\ Min(at) \in 1..N /\ Min(at) \in at
        /\ \A j \in 1..Min(at) - 1 : j \in 1..N /\ j \notin at
    BY <1>1, <1>9, <2>1, FirstOf
  <2>3. sets(Min(at)) /\ \A j \in 1..Min(at) - 1 : ~sets(j)
    BY <1>7, <2>2
  <2>4. <<sec, key>> \in DOMAIN v /\ v[<<sec, key>>] = file[Min(at)].value
    BY <1>4, <2>2, <2>3
  <2> QED BY <1>5, <1>6, <1>9, <2>4 DEF GetSecValue
<1> QED BY <1>8, <1>9

=============================================================================
