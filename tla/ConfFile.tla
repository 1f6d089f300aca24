------------------------------ MODULE ConfFile ------------------------------
(***************************************************************************)
(* The configuration file /etc/dvbhdhomerun as ConfIniFile reads it        *)
(* (conf_inifile.cpp).  A line is classified by the characters it contains *)
(* anywhere, so a line here is the set of these marks together with what   *)
(* the parser would cut out of it:                                         *)
(*   marks    which of "#", "[" and "=" are in the line                    *)
(*   name     all but the first and the last character: the section         *)
(*   key      what is before the first "=", value what is behind it        *)
(***************************************************************************)
EXTENDS Integers, SequencesExt

NoValue == "no value"

\* What is in a line.
Line == [marks : SUBSET {"#", "[", "="}, name : STRING, key : STRING, value : STRING]

\* The chain of conditions of OpenIniFile; empty and unknown lines are ignored.
Kind(line) ==
  IF "#" \in line.marks THEN "ignored"
  ELSE IF "[" \in line.marks THEN "section"
  ELSE IF "=" \in line.marks THEN "pair" ELSE "ignored"

\* Mutant of Insert: a later value replaces an earlier one.
InsertReplaces(values, at, value) ==
  [x \in DOMAIN values \cup {at} |-> IF x = at THEN value ELSE values[x]]

\* map::insert leaves a key alone that is already there.
Insert(values, at, value) ==
  [x \in DOMAIN values \cup {at} |-> IF x \in DOMAIN values THEN values[x] ELSE value]

\* One turn of the loop of OpenIniFile.
ReadLine(ini, line) ==
  [section |-> IF Kind(line) = "section" THEN line.name ELSE ini.section,
   values |-> IF Kind(line) = "pair" THEN Insert(ini.values, <<ini.section, line.key>>, line.value)
              ELSE ini.values]

\* The loop of OpenIniFile: the section and the map after n lines.
ReadLines(file) ==
  LET ini[n \in 0..Len(file)] ==
        IF n = 0 THEN [section |-> "", values |-> <<>>] ELSE ReadLine(ini[n - 1], file[n])
  IN ini

\* m_sectionKeyValue after OpenIniFile.
OpenIniFile(file) == ReadLines(file)[Len(file)].values

GetSecValue(values, section, key) ==
  IF <<section, key>> \in DOMAIN values THEN values[<<section, key>>] ELSE NoValue

-----------------------------------------------------------------------------
(* What a file means, without a parser.                                    *)

\* Line i is a pair with the key under a header of the section.
SetsKey(file, i, section, key) ==
  /\ Kind(file[i]) = "pair" /\ file[i].key = key
  /\ \E h \in 1..i - 1 :
       /\ Kind(file[h]) = "section" /\ file[h].name = section
       /\ \A g \in h + 1..i - 1 : Kind(file[g]) # "section"

\* The first such line counts, wherever the section is continued.
Meant(file, section, key) ==
  LET at == {i \in DOMAIN file : SetsKey(file, i, section, key)}
  IN IF at = {} THEN NoValue ELSE file[Min(at)].value

=============================================================================
