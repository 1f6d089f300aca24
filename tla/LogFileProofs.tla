--------------------------- MODULE LogFileProofs ---------------------------
(***************************************************************************)
(* Theorems about LogFile, for any threads, any number of lines and of     *)
(* rotations, and any options.                                             *)
(***************************************************************************)
EXTENDS LogFile, FiniteSetTheorems, SequenceTheorems, TLAPS

-----------------------------------------------------------------------------
(* The inductive invariants.                                               *)

\* A thread in a line has a number for it.
InLine == \A t \in Threads : pc[t] # "idle" => lines[t] >= 1

\* The log has its place before the first line.
Chosen ==
  /\ main = "options" => \A t \in Threads : pc[t] = "idle"
  /\ main \notin {"options", "ended"} => m_logTo # "NONE"
  /\ ~aborted

\* The ofstream belongs to the thread that holds the mutex.
Exclusive == \A t \in Threads : pc[t] \in {"open", "write"} => mutex = t

\* A line is skipped only while the stream of SetAndOpenLogFile is open.
SkipOnce ==
  /\ main = "options" => skipped = {}
  /\ \A x, y \in skipped : x = y
  /\ skipped # {} /\ m_logFile.on # 0 => \E t \in Threads : pc[t] = "write"

\* The stream is open on no file that had gone when the newline came.
NewFile ==
  \A t \in Threads :
    /\ began[t] <= current
    /\ pc[t] = "write" /\ main # "ended" => m_logFile.fail \/ m_logFile.on >= began[t]

\* The line a thread is in, and what it looks like in a file.
LineOf(t) == <<t, lines[t]>>
Whole(id) == <<Stamp, id, Newline>>

\* A line in the making is not among those that went through.
Numbered ==
  \A t \in Threads : \A n \in 1..MaxLines : <<t, n>> \in done =>
    n <= lines[t] /\ (pc[t] # "idle" => n < lines[t])

\* Without an overlap the buffer is that of the one thread in a line.
OneBuffer ==
  ~overlapped =>
    /\ \A t, u \in Threads : pc[t] # "idle" /\ pc[u] # "idle" => t = u
    /\ (\A t \in Threads : pc[t] = "idle") => m_buffer = <<>>
    /\ \A t \in Threads :
         /\ pc[t] \in {"text", "store text"} => m_buffer = <<>>
         /\ pc[t] \in {"newline", "store newline"} => m_buffer = <<Stamp, LineOf(t)>>
         /\ pc[t] \in {"store text", "store newline"} => seen[t] = m_buffer
         /\ pc[t] \in {"cout", "lock", "open", "write"} => m_buffer = Whole(LineOf(t))

\* The lines that are in a file, or were refused or skipped.
Passed == done \cup {LineOf(t) : t \in {u \in Threads : pc[u] = "clear"}}

\* The files hold the lines W, each in one place, but for some of the lines R.
Filed(fs, W, R) ==
  /\ \A g \in 0..MaxFiles : \A i \in 1..Len(fs[g]) : \E id \in W : fs[g][i] = Whole(id)
  /\ \A g, h \in 0..MaxFiles : \A i \in 1..Len(fs[g]), j \in 1..Len(fs[h]) :
       fs[g][i] = fs[h][j] => g = h /\ i = j
  /\ \A id \in W \ R : \E g \in 0..MaxFiles : \E i \in 1..Len(fs[g]) : fs[g][i] = Whole(id)

\* Without an overlap this holds of the lines that passed.
InFiles == ~overlapped => Filed(files, Passed, refused \cup skipped)

\* A line that meets a failed stream is a skipped one.
FailSkips == \A t \in Threads : pc[t] = "write" /\ m_logFile.fail => LineOf(t) \in skipped

-----------------------------------------------------------------------------
(* Pieces, the buffer and the files.                                       *)

\* A piece behind another one.
LEMMA OnePiece ==
  ASSUME NEW S, NEW s \in Seq(S), NEW e \in S
  PROVE  /\ s \o <<e>> \in Seq(S)
         /\ Len(s) \in Nat
         /\ Len(s \o <<e>>) = Len(s) + 1
         /\ \A i \in 1..Len(s) : (s \o <<e>>)[i] = s[i]
         /\ (s \o <<e>>)[Len(s) + 1] = e
<1>1. s \o <<e>> = Append(s, e)
  BY AppendIsConcat
<1>2. Len(s) \in Nat
  BY LenProperties
<1> QED BY <1>1, <1>2, AppendProperties

\* The buffers of a line that nothing disturbs.
LEMMA TwoPieces ==
  ASSUME NEW a, NEW b
  PROVE  <<a>> \o <<b>> = <<a, b>>
<1> DEFINE S == {a, b}
<1>1. <<a>> \in Seq(S) /\ <<b>> \in Seq(S) /\ <<a, b>> \in Seq(S)
  OBVIOUS
<1>2. Len(<<a>>) = 1 /\ Len(<<a, b>>) = 2 /\ <<a>>[1] = a /\ <<a, b>>[1] = a /\ <<a, b>>[2] = b
  OBVIOUS
<1> DEFINE s == <<a>> \o <<b>>
<1>3. s \in Seq(S) /\ Len(s) = 2 /\ s[1] = a /\ s[2] = b
  BY <1>1, <1>2, OnePiece
<1>4. \A i \in 1..Len(s) : s[i] = <<a, b>>[i]
  BY <1>2, <1>3
<1> QED BY <1>1, <1>2, <1>3, <1>4, SeqEqual

LEMMA ThreePieces ==
  ASSUME NEW a, NEW b, NEW c
  PROVE  <<a, b>> \o <<c>> = <<a, b, c>>
<1> DEFINE S == {a, b, c}
<1>1. <<a, b>> \in Seq(S) /\ <<c>> \in Seq(S) /\ <<a, b, c>> \in Seq(S)
  OBVIOUS
<1>2. /\ Len(<<a, b>>) = 2 /\ Len(<<a, b, c>>) = 3 /\ <<a, b>>[1] = a /\ <<a, b>>[2] = b
      /\ <<a, b, c>>[1] = a /\ <<a, b, c>>[2] = b /\ <<a, b, c>>[3] = c
  OBVIOUS
<1> DEFINE s == <<a, b>> \o <<c>>
<1>3. s \in Seq(S) /\ Len(s) = 3 /\ s[1] = a /\ s[2] = b /\ s[3] = c
  BY <1>1, <1>2, OnePiece
<1>4. \A i \in 1..Len(s) : s[i] = <<a, b, c>>[i]
  BY <1>2, <1>3
<1> QED BY <1>1, <1>2, <1>3, <1>4, SeqEqual

\* What Put makes of the buffer is a buffer.
LEMMA PutType ==
  ASSUME TypeOK, NEW t \in Threads, NEW piece \in Pieces, Put(t, piece)
  PROVE  m_buffer' \in Seq(Pieces)
<1>1. Stamp \in Pieces /\ seen[t] \in Seq(Pieces)
  BY DEF Pieces, TypeOK
<1>2. <<Stamp>> \in Seq(Pieces)
  BY <1>1
<1> DEFINE b == IF seen[t] = <<>> THEN <<Stamp>> ELSE seen[t]
<1>3. b \in Seq(Pieces)
  BY <1>1, <1>2
<1>4. b \o <<piece>> \in Seq(Pieces)
  <2> HIDE DEF b
  <2> QED BY <1>3, OnePiece
<1> QED BY <1>4 DEF Put

\* A line at the end of one file.
LEMMA FileGrows ==
  ASSUME NEW S, NEW fs \in [0..MaxFiles -> Seq(S)], NEW on \in 0..MaxFiles, NEW l \in S,
         NEW gs, gs = [fs EXCEPT ![on] = @ \o <<l>>]
  PROVE  /\ gs \in [0..MaxFiles -> Seq(S)]
         /\ \A g \in 0..MaxFiles : g # on => gs[g] = fs[g]
         /\ Len(fs[on]) \in Nat /\ Len(gs[on]) = Len(fs[on]) + 1
         /\ \A i \in 1..Len(fs[on]) : gs[on][i] = fs[on][i]
         /\ gs[on][Len(fs[on]) + 1] = l
<1>1. fs[on] \in Seq(S)
  OBVIOUS
<1>2. gs[on] = fs[on] \o <<l>>
  OBVIOUS
<1>3. gs[on] \in Seq(S)
  BY <1>1, <1>2, OnePiece
<1>4. gs \in [0..MaxFiles -> Seq(S)] /\ \A g \in 0..MaxFiles : g # on => gs[g] = fs[g]
  BY <1>2, <1>3
<1> QED BY <1>1, <1>2, <1>4, OnePiece

-----------------------------------------------------------------------------
(* Type correctness.                                                       *)

TypeInv == TypeOK /\ InLine

\* The initial state has the types.
LEMMA InitTypeInv == Init => TypeInv
<1> SUFFICES ASSUME Init PROVE TypeInv
  OBVIOUS
<1>1. <<>> \in Seq(Pieces) /\ <<>> \in Seq(Seq(Pieces))
  BY EmptySeq
<1>2. InLine
  BY DEF Init, InLine
<1>3. MaxFiles \in Nat \ {0} /\ MaxLines \in Nat
  BY BoundsAssumption
<1>4. 1 \in 1..MaxFiles /\ 0 \in 0..MaxFiles /\ 0 \in 0..MaxLines
  BY <1>3
<1>5. /\ pc \in [Threads -> {"idle"}] /\ lines \in [Threads -> 0..MaxLines]
      /\ began \in [Threads -> 0..MaxFiles] /\ seen \in [Threads -> Seq(Pieces)]
      /\ files \in [0..MaxFiles -> Seq(Seq(Pieces))]
  BY <1>1, <1>4 DEF Init
<1> QED BY <1>1, <1>2, <1>4, <1>5 DEF Init, TypeOK, TypeInv

\* The place and the line of a thread that goes on.
LEMMA GoType ==
  ASSUME TypeOK, NEW t \in Threads,
         NEW w \in {"idle", "text", "store text", "newline", "store newline",
                    "cout", "lock", "open", "write", "clear"}, Go(t, w)
  PROVE  /\ pc' \in [Threads -> {"idle", "text", "store text", "newline", "store newline",
                                 "cout", "lock", "open", "write", "clear"}]
         /\ pc'[t] = w
         /\ \A u \in Threads : u # t => pc'[u] = pc[u]
BY DEF TypeOK, Go

\* A line that a thread is in is one of the lines.
LEMMA LineType ==
  ASSUME TypeInv, NEW t \in Threads, pc[t] # "idle"
  PROVE  <<t, lines[t]>> \in Lines /\ <<t, lines[t]>> \in Pieces
<1>1. lines[t] \in 0..MaxLines /\ lines[t] >= 1 /\ MaxLines \in Nat
  BY BoundsAssumption DEF TypeInv, TypeOK, InLine
<1>2. lines[t] \in 1..MaxLines
  BY <1>1
<1> QED BY <1>2 DEF Lines, Pieces

\* Every step keeps the types.
LEMMA NextTypeInv == TypeInv /\ [Next]_vars => TypeInv'
<1>0. SUFFICES ASSUME TypeInv, [Next]_vars PROVE TypeInv'
  OBVIOUS
<1>a. MaxFiles \in Nat \ {0} /\ MaxLines \in Nat
  BY BoundsAssumption
<1>b. current \in 1..MaxFiles /\ m_logFile \in [on : 0..MaxFiles, fail : BOOLEAN]
  BY <1>0 DEF TypeInv, TypeOK
<1>c. current \in 0..MaxFiles /\ 0 \in 0..MaxFiles
  BY <1>a, <1>b
<1> USE DEF TypeOK, InLine, TypeInv, stream, threadVars, disk, history
<1>1. ASSUME NEW f \in BOOLEAN, NEW l \in BOOLEAN, NEW d \in BOOLEAN, Options(f, l, d)
      PROVE  TypeInv'
  <2>1. SetAndOpenLogFile \in [on : 0..MaxFiles, fail : BOOLEAN]
    BY <1>c DEF SetAndOpenLogFile
  <2>2. SetLogType(f, l) \in {"NONE", "COUT", "FILE"}
    BY DEF SetLogType
  <2>3. m_logFile' \in [on : 0..MaxFiles, fail : BOOLEAN]
    BY <1>b, <1>1, <2>1 DEF Options
  <2>4. InLine'
    BY <1>0, <1>1 DEF Options
  <2> QED BY <1>0, <1>1, <2>2, <2>3, <2>4 DEF Options
<1>2. CASE StartFails
  BY <1>0, <1>2 DEF StartFails
<1>3. CASE Run
  BY <1>0, <1>3 DEF Run
<1>4. CASE End
  <2>1. m_logFile' \in [on : 0..MaxFiles, fail : BOOLEAN]
    BY <1>b, <1>c, <1>4 DEF End
  <2> QED BY <1>0, <1>4, <2>1 DEF End
<1>5. CASE Rotate
  <2>1. current' \in 1..MaxFiles
    BY <1>a, <1>b, <1>5 DEF Rotate
  <2> QED BY <1>0, <1>5, <2>1 DEF Rotate
<1>6. ASSUME NEW t \in Threads, Begin(t) PROVE TypeInv'
  <2>0. lines[t] \in 0..MaxLines /\ lines[t] < MaxLines
    BY <1>0, <1>6 DEF Begin
  <2>1. lines[t] + 1 \in 0..MaxLines /\ lines[t] + 1 >= 1
    BY <1>a, <2>0
  <2>2. /\ lines' \in [Threads -> 0..MaxLines]
        /\ lines'[t] = lines[t] + 1 /\ \A u \in Threads : u # t => lines'[u] = lines[u]
    <3>1. lines \in [Threads -> 0..MaxLines] /\ lines' = [lines EXCEPT ![t] = lines[t] + 1]
      BY <1>0, <1>6 DEF Begin
    <3> QED BY <2>1, <3>1
  <2>3. overlapped' \in BOOLEAN
    BY <1>6 DEF Begin
  <2>4. main' \in {"options", "started", "running", "stopping", "ended"}
    BY <1>0, <1>6 DEF Begin
  <2>5. Go(t, "text")
    BY <1>6 DEF Begin
  <2>6. InLine'
    BY <1>0, <2>1, <2>2, <2>5, GoType
  <2> QED BY <1>0, <1>6, <2>2, <2>3, <2>4, <2>5, <2>6, GoType DEF Begin
<1>7. ASSUME NEW t \in Threads, Read(t) PROVE TypeInv'
  <2>1. PICK w \in {"text", "newline"} :
          At(t, w) /\ Go(t, IF w = "text" THEN "store text" ELSE "store newline")
    BY <1>7 DEF Read
  <2>2. pc[t] # "idle"
    BY <2>1 DEF At
  <2>3. InLine'
    BY <1>0, <1>7, <2>1, <2>2, GoType DEF Read
  <2>4. seen' \in [Threads -> Seq(Pieces)]
    BY <1>0, <1>7 DEF Read
  <2> QED BY <1>0, <1>7, <2>1, <2>3, <2>4, GoType DEF Read
<1>8. ASSUME NEW t \in Threads, StoreText(t) PROVE TypeInv'
  <2>1. pc[t] # "idle" /\ Go(t, "newline") /\ Put(t, <<t, lines[t]>>)
    BY <1>8 DEF StoreText, At
  <2>2. m_buffer' \in Seq(Pieces)
    BY <1>0, <2>1, LineType, PutType
  <2>3. seen' \in [Threads -> Seq(Pieces)]
    BY <1>0, <1>8, EmptySeq DEF StoreText
  <2>4. InLine'
    BY <1>0, <1>8, <2>1, GoType DEF StoreText
  <2> QED BY <1>0, <1>8, <2>1, <2>2, <2>3, <2>4, GoType DEF StoreText
<1>9. ASSUME NEW t \in Threads, StoreNewline(t) PROVE TypeInv'
  <2>1. pc[t] # "idle" /\ Go(t, IF m_logTo = "COUT" THEN "cout" ELSE "lock") /\ Put(t, Newline)
    BY <1>9 DEF StoreNewline, At
  <2>2. m_buffer' \in Seq(Pieces)
    BY <1>0, <2>1, PutType DEF Pieces
  <2>3. seen' \in [Threads -> Seq(Pieces)]
    BY <1>0, <1>9, EmptySeq DEF StoreNewline
  <2>4. InLine'
    BY <1>0, <1>9, <2>1, GoType DEF StoreNewline
  <2>6. began' \in [Threads -> 0..MaxFiles]
    <3>1. began \in [Threads -> 0..MaxFiles] /\ began' = [began EXCEPT ![t] = current]
      BY <1>0, <1>9 DEF StoreNewline
    <3> QED BY <1>c, <3>1
  <2>7. aborted' \in BOOLEAN
    BY <1>9 DEF StoreNewline
  <2> QED BY <1>0, <1>9, <2>1, <2>2, <2>3, <2>4, <2>6, <2>7, GoType DEF StoreNewline
<1>10. ASSUME NEW t \in Threads, Cout(t) PROVE TypeInv'
  <2>1. pc[t] # "idle" /\ Go(t, "clear") 
    BY <1>10 DEF Cout, At
  <2>2. files' \in [0..MaxFiles -> Seq(Seq(Pieces))]
    <3>1. /\ files \in [0..MaxFiles -> Seq(Seq(Pieces))] /\ m_buffer \in Seq(Pieces)
          /\ files' = [files EXCEPT ![0] = @ \o <<m_buffer>>]
      BY <1>0, <1>10 DEF Cout
    <3> QED BY <1>c, <3>1, FileGrows
  <2>3. InLine'
    BY <1>0, <1>10, <2>1, GoType DEF Cout
  <2> QED BY <1>0, <1>10, <2>1, <2>2, <2>3, GoType DEF Cout
<1>11. ASSUME NEW t \in Threads, Lock(t) PROVE TypeInv'
  <2>1. pc[t] # "idle" /\ Go(t, "open")
    BY <1>11 DEF Lock, At
  <2>2. InLine'
    BY <1>0, <1>11, <2>1, GoType DEF Lock
  <2> QED BY <1>0, <1>11, <2>1, <2>2, GoType DEF Lock
<1>12. ASSUME NEW t \in Threads, Open(t) PROVE TypeInv'
  <2>1. pc[t] # "idle" /\ Go(t, "write")
    BY <1>12 DEF Open, At
  <2>3. m_logFile' \in [on : 0..MaxFiles, fail : BOOLEAN]
    <3>1. \/ m_logFile' = [m_logFile EXCEPT !.fail = TRUE]
          \/ m_logFile' = [on |-> current, fail |-> FALSE]
      BY <1>12 DEF Open
    <3>2. CASE m_logFile' = [m_logFile EXCEPT !.fail = TRUE]
      BY <1>b, <3>2
    <3>3. CASE m_logFile' = [on |-> current, fail |-> FALSE]
      BY <1>c, <3>3
    <3> QED BY <3>1, <3>2, <3>3
  <2>4. skipped' \subseteq Lines
    <3>1. <<t, lines[t]>> \in Lines
      BY <1>0, <2>1, LineType
    <3>2. skipped' = skipped \cup {<<t, lines[t]>>} \/ skipped' = skipped
      BY <1>12 DEF Open
    <3> QED BY <1>0, <3>1, <3>2
  <2>5. InLine'
    BY <1>0, <1>12, <2>1, GoType DEF Open
  <2> QED BY <1>0, <1>12, <2>1, <2>3, <2>4, <2>5, GoType DEF Open
<1>13. ASSUME NEW t \in Threads, OpenRefused(t) PROVE TypeInv'
  <2>1. pc[t] # "idle" /\ Go(t, "clear")
    BY <1>13 DEF OpenRefused, At
  <2>2. m_logFile' \in [on : 0..MaxFiles, fail : BOOLEAN]
    BY <1>b, <1>13 DEF OpenRefused
  <2>3. refused' \subseteq Lines
    <3>1. <<t, lines[t]>> \in Lines
      BY <1>0, <2>1, LineType
    <3>2. refused' = refused \cup {<<t, lines[t]>>}
      BY <1>13 DEF OpenRefused
    <3> QED BY <1>0, <3>1, <3>2
  <2>4. InLine'
    BY <1>0, <1>13, <2>1, GoType DEF OpenRefused
  <2> QED BY <1>0, <1>13, <2>1, <2>2, <2>3, <2>4, GoType DEF OpenRefused
<1>14. ASSUME NEW t \in Threads, Write(t) PROVE TypeInv'
  <2>1. pc[t] # "idle" /\ Go(t, "clear") /\ m_logFile.on \in 0..MaxFiles
    BY <1>b, <1>14 DEF Write, At
  <2>2. m_logFile' \in [on : 0..MaxFiles, fail : BOOLEAN]
    BY <1>b, <1>c, <1>14 DEF Write
  <2>3. files' \in [0..MaxFiles -> Seq(Seq(Pieces))]
    <3>1. CASE m_logFile.fail
      <4>1. files' = [files EXCEPT ![m_logFile.on] = @]
        BY <1>14, <3>1 DEF Write
      <4>2. files \in [0..MaxFiles -> Seq(Seq(Pieces))]
        BY <1>0
      <4> QED BY <4>1, <4>2
    <3>2. CASE ~m_logFile.fail
      <4>1. files' = [files EXCEPT ![m_logFile.on] = @ \o <<m_buffer>>]
        BY <1>14, <3>2 DEF Write
      <4>2. files \in [0..MaxFiles -> Seq(Seq(Pieces))] /\ m_buffer \in Seq(Pieces)
        BY <1>0
      <4> QED BY <2>1, <4>1, <4>2, FileGrows
    <3> QED BY <3>1, <3>2
  <2>4. InLine'
    BY <1>0, <1>14, <2>1, GoType DEF Write
  <2> QED BY <1>0, <1>14, <2>1, <2>2, <2>3, <2>4, GoType DEF Write
<1>15. ASSUME NEW t \in Threads, Clear(t) PROVE TypeInv'
  <2>1. pc[t] # "idle" /\ Go(t, "idle")
    BY <1>15 DEF Clear, At
  <2>2. done' \subseteq Lines
    <3>1. <<t, lines[t]>> \in Lines
      BY <1>0, <2>1, LineType
    <3>2. done' = done \cup {<<t, lines[t]>>}
      BY <1>15 DEF Clear
    <3> QED BY <1>0, <3>1, <3>2
  <2>3. began' \in [Threads -> 0..MaxFiles]
    <3>1. began \in [Threads -> 0..MaxFiles] /\ began' = [began EXCEPT ![t] = 0]
      BY <1>0, <1>15 DEF Clear
    <3> QED BY <1>c, <3>1
  <2>4. InLine'
    BY <1>0, <1>15, <2>1, GoType DEF Clear
  <2>5. m_buffer' \in Seq(Pieces)
    BY <1>15, EmptySeq DEF Clear
  <2> QED BY <1>0, <1>15, <2>1, <2>2, <2>3, <2>4, <2>5, GoType DEF Clear
<1>16. CASE UNCHANGED vars
  BY <1>0, <1>16 DEF vars
<1> QED
  BY <1>0, <1>1, <1>2, <1>3, <1>4, <1>5, <1>6, <1>7, <1>8, <1>9, <1>10, <1>11, <1>12, <1>13,
     <1>14, <1>15, <1>16 DEF Next, Step

\* Every variable holds a value of its kind, whatever the threads log and
\* whenever the file is rotated.
THEOREM TypeCorrect == Spec => []TypeOK
<1>1. Spec => []TypeInv
  BY InitTypeInv, NextTypeInv, PTL DEF Spec
<1> QED BY <1>1, PTL DEF TypeInv

-----------------------------------------------------------------------------
(* No abort.                                                               *)

\* Thread t is in a line and takes a step.
Moves(t) == Step(t) \/ OpenRefused(t)

\* What a step of a thread in a line leaves alone, and where it brings it.
LEMMA MovesFrame ==
  ASSUME TypeOK, NEW t \in Threads, Moves(t)
  PROVE  /\ pc[t] # "idle" /\ main # "ended" /\ ~aborted
         /\ UNCHANGED <<main, m_disabled, m_logTo, lines, current, overlapped>>
         /\ \A u \in Threads : u # t => pc'[u] = pc[u]
<1>1. CASE Read(t)
  <2>1. PICK w \in {"text", "newline"} :
          At(t, w) /\ Go(t, IF w = "text" THEN "store text" ELSE "store newline")
    BY <1>1 DEF Read
  <2> QED BY <1>1, <2>1, GoType DEF Read, At, stream, disk, history
<1>2. CASE StoreText(t)
  BY <1>2, GoType DEF StoreText, At, disk, history
<1>3. CASE StoreNewline(t)
  BY <1>3, GoType DEF StoreNewline, At, disk
<1>4. CASE Cout(t)
  BY <1>4, GoType DEF Cout, At, stream, history
<1>5. CASE Lock(t)
  BY <1>5, GoType DEF Lock, At, disk, history
<1>6. CASE Open(t)
  BY <1>6, GoType DEF Open, At, disk
<1>7. CASE Write(t)
  BY <1>7, GoType DEF Write, At, history
<1>8. CASE Clear(t)
  BY <1>8, GoType DEF Clear, At, disk
<1>9. CASE OpenRefused(t)
  BY <1>9, GoType DEF OpenRefused, At, disk
<1> QED BY <1>1, <1>2, <1>3, <1>4, <1>5, <1>6, <1>7, <1>8, <1>9 DEF Moves, Step

\* The assertion of overflow is evaluated only at the newline.
LEMMA AbortsAtNewline ==
  ASSUME NEW t, Moves(t)
  PROVE  aborted' => aborted \/ m_logTo = "NONE"
BY DEF Moves, Step, Read, StoreText, StoreNewline, Cout, Lock, Open, Write, Clear,
       OpenRefused, stream

\* Every step keeps the place of the log chosen.
LEMMA NextChosen == TypeInv /\ Chosen /\ [Next]_vars => Chosen'
<1>0. SUFFICES ASSUME TypeInv, Chosen, [Next]_vars PROVE Chosen'
  OBVIOUS
<1>a. TypeOK
  BY <1>0 DEF TypeInv
<1>1. ASSUME NEW f \in BOOLEAN, NEW l \in BOOLEAN, NEW d \in BOOLEAN, Options(f, l, d)
      PROVE  Chosen'
  BY <1>0, <1>1 DEF Options, SetLogType, Chosen, threadVars
<1>2. CASE StartFails \/ Run \/ End \/ Rotate
  BY <1>0, <1>2 DEF StartFails, Run, End, Rotate, Chosen, stream, threadVars
<1>3. ASSUME NEW t \in Threads, Begin(t) PROVE Chosen'
  <2>1. main' # "options" /\ main \notin {"options", "ended"}
    BY <1>3 DEF Begin, At
  <2> QED BY <1>0, <1>3, <2>1 DEF Begin, Chosen, stream
<1>4. ASSUME NEW t \in Threads, Moves(t) PROVE Chosen'
  <2>1. pc[t] # "idle" /\ main # "ended" /\ ~aborted /\ main' = main /\ m_logTo' = m_logTo
    BY <1>a, <1>4, MovesFrame
  <2>2. main \notin {"options", "ended"} /\ m_logTo # "NONE"
    BY <1>0, <2>1 DEF Chosen
  <2>3. aborted' => aborted \/ m_logTo = "NONE"
    BY <1>4, AbortsAtNewline
  <2> QED BY <2>1, <2>2, <2>3 DEF Chosen
<1>5. CASE UNCHANGED vars
  BY <1>0, <1>5 DEF Chosen, vars, stream, threadVars
<1> QED BY <1>0, <1>1, <1>2, <1>3, <1>4, <1>5 DEF Next, Moves

\* overflow's assertion "m_logTo != LogFile::NONE" never fails: main has chosen
\* a place for the log before any thread has a line.
THEOREM NeverAborts == Spec => []NoAbort
<1>1. Init => Chosen
  BY DEF Init, Chosen
<1>2. Chosen => NoAbort
  BY DEF Chosen, NoAbort
<1> QED BY InitTypeInv, NextTypeInv, NextChosen, <1>1, <1>2, PTL DEF Spec

-----------------------------------------------------------------------------
(* The mutex and the ofstream.                                             *)

\* A step of a thread that has nothing to do with the ofstream.
Aside(t) == Read(t) \/ StoreText(t) \/ StoreNewline(t) \/ Cout(t) \/ Clear(t)

LEMMA AsideFrame ==
  ASSUME TypeOK, NEW t \in Threads, Aside(t)
  PROVE  /\ UNCHANGED <<m_logFile, mutex, skipped, refused>>
         /\ pc[t] \notin {"open", "write"} /\ pc'[t] \notin {"open", "write"}
<1>1. CASE Read(t)
  <2>1. PICK w \in {"text", "newline"} :
          At(t, w) /\ Go(t, IF w = "text" THEN "store text" ELSE "store newline")
    BY <1>1 DEF Read
  <2> QED BY <1>1, <2>1, GoType DEF Read, At, stream, history
<1>2. CASE StoreText(t)
  BY <1>2, GoType DEF StoreText, At, history
<1>3. CASE StoreNewline(t)
  BY <1>3, GoType DEF StoreNewline, At
<1>4. CASE Cout(t)
  BY <1>4, GoType DEF Cout, At, stream, history
<1>5. CASE Clear(t)
  BY <1>5, GoType DEF Clear, At
<1> QED BY <1>1, <1>2, <1>3, <1>4, <1>5 DEF Aside

\* The steps of main and of logrotate leave the threads alone.
Around == (\E f, l, d \in BOOLEAN : Options(f, l, d)) \/ StartFails \/ Run \/ End \/ Rotate

LEMMA AroundFrame ==
  ASSUME Around
  PROVE  /\ UNCHANGED <<m_buffer, mutex, aborted, threadVars, files, history>>
         /\ main = "ended" => main' = "ended"
         /\ main' # "options" \/ main' = main
BY DEF Around, Options, StartFails, Run, End, Rotate, stream, disk

\* A thread that begins a line has not come to its newline.
LEMMA BeginFrame ==
  ASSUME TypeOK, NEW t \in Threads, Begin(t)
  PROVE  /\ UNCHANGED <<m_buffer, m_logFile, mutex, current, files, began, done, refused, skipped>>
         /\ pc[t] = "idle" /\ pc'[t] = "text" /\ \A u \in Threads : u # t => pc'[u] = pc[u]
         /\ main # "options" /\ main' # "options" /\ main # "ended" /\ main' # "ended"
BY GoType DEF Begin, At, stream, disk

\* The parts of a step.
LEMMA NextParts ==
  ASSUME [Next]_vars
  PROVE  \/ Around \/ UNCHANGED vars
         \/ \E t \in Threads : Begin(t) \/ Aside(t) \/ Lock(t) \/ Open(t)
                                 \/ OpenRefused(t) \/ Write(t)
BY DEF Next, Step, Around, Aside

\* Every step keeps the ofstream with the holder of the mutex.
LEMMA NextExclusive == TypeOK /\ Exclusive /\ [Next]_vars => Exclusive'
<1>0. SUFFICES ASSUME TypeOK, Exclusive, [Next]_vars PROVE Exclusive'
  OBVIOUS
<1>1. CASE Around
  BY <1>0, <1>1, AroundFrame DEF Exclusive, threadVars
<1>2. ASSUME NEW t \in Threads, Begin(t) PROVE Exclusive'
  BY <1>0, <1>2, BeginFrame DEF Exclusive
<1>3. ASSUME NEW t \in Threads, Aside(t) PROVE Exclusive'
  <2>1. Moves(t)
    BY <1>3 DEF Aside, Moves, Step
  <2> QED BY <1>0, <1>3, <2>1, AsideFrame, MovesFrame DEF Exclusive
<1>4. ASSUME NEW t \in Threads, Lock(t) PROVE Exclusive'
  <2>1. mutex = "free" /\ mutex' = t /\ Go(t, "open") /\ "free" \notin Threads
    BY <1>4, ThreadsAssumption DEF Lock, Threads
  <2>2. \A u \in Threads : pc[u] \notin {"open", "write"}
    BY <1>0, <2>1 DEF Exclusive
  <2> QED BY <1>0, <2>1, <2>2, GoType DEF Exclusive
<1>5. ASSUME NEW t \in Threads, Open(t) PROVE Exclusive'
  <2>1. pc[t] = "open" /\ mutex' = mutex /\ Go(t, "write")
    BY <1>5 DEF Open, At
  <2> QED BY <1>0, <2>1, GoType DEF Exclusive
<1>6. ASSUME NEW t \in Threads, OpenRefused(t) \/ Write(t) PROVE Exclusive'
  <2>1. pc[t] \in {"open", "write"} /\ Go(t, "clear")
    BY <1>6 DEF OpenRefused, Write, At
  <2>2. \A u \in Threads : u # t => pc[u] \notin {"open", "write"}
    BY <1>0, <2>1 DEF Exclusive
  <2> QED BY <1>0, <2>1, <2>2, GoType DEF Exclusive
<1>7. CASE UNCHANGED vars
  BY <1>0, <1>7 DEF Exclusive, vars, stream, threadVars
<1> QED BY <1>0, <1>1, <1>2, <1>3, <1>4, <1>5, <1>6, <1>7, NextParts

\* Every step lets at most one line be skipped.
LEMMA NextSkipOnce == TypeOK /\ Chosen /\ Exclusive /\ SkipOnce /\ [Next]_vars => SkipOnce'
<1>0. SUFFICES ASSUME TypeOK, Chosen, Exclusive, SkipOnce, [Next]_vars PROVE SkipOnce'
  OBVIOUS
<1>1. CASE Around
  <2>1. UNCHANGED <<pc, skipped>> /\ (main' # "options" \/ main' = main)
    BY <1>1, AroundFrame DEF threadVars, history
  <2>2. \/ main = "options" \/ m_logFile' = m_logFile \/ m_logFile'.on = 0
    BY <1>0, <1>1 DEF Around, Options, StartFails, Run, End, Rotate, stream, TypeOK
  <2> QED BY <1>0, <2>1, <2>2 DEF SkipOnce
<1>2. ASSUME NEW t \in Threads, Begin(t) PROVE SkipOnce'
  BY <1>0, <1>2, BeginFrame DEF SkipOnce
<1>3. ASSUME NEW t \in Threads, Aside(t) PROVE SkipOnce'
  <2>1. Moves(t)
    BY <1>3 DEF Aside, Moves, Step
  <2> QED BY <1>0, <1>3, <2>1, AsideFrame, MovesFrame DEF SkipOnce
<1>4. ASSUME NEW t \in Threads, Lock(t) PROVE SkipOnce'
  <2>1. UNCHANGED <<main, skipped, m_logFile>> /\ pc[t] = "lock" /\ Go(t, "open")
    BY <1>4 DEF Lock, At, history
  <2> QED BY <1>0, <2>1, GoType DEF SkipOnce
<1>5. ASSUME NEW t \in Threads, Open(t) PROVE SkipOnce'
  <2>1. pc[t] = "open" /\ main' = main /\ pc'[t] = "write"
    BY <1>0, <1>5, GoType DEF Open, At
  <2>2. main # "options"
    BY <1>0, <2>1 DEF Chosen
  <2>3. \A x, y \in skipped' : x = y
    <3>1. CASE m_logFile.on # 0
      <4>1. \A u \in Threads : pc[u] # "write"
        BY <1>0, <2>1 DEF Exclusive
      <4>2. skipped = {}
        BY <1>0, <3>1, <4>1 DEF SkipOnce
      <4> QED BY <1>5, <3>1, <4>2 DEF Open
    <3>2. CASE m_logFile.on = 0
      BY <1>0, <1>5, <3>2 DEF Open, SkipOnce
    <3> QED BY <3>1, <3>2
  <2> QED BY <2>1, <2>2, <2>3 DEF SkipOnce
<1>6. ASSUME NEW t \in Threads, OpenRefused(t) PROVE SkipOnce'
  <2>1. UNCHANGED <<main, skipped>> /\ m_logFile'.on = 0
    BY <1>0, <1>6 DEF OpenRefused, TypeOK
  <2> QED BY <1>0, <2>1 DEF SkipOnce
<1>7. ASSUME NEW t \in Threads, Write(t) PROVE SkipOnce'
  <2>1. UNCHANGED <<main, skipped>> /\ m_logFile'.on = 0
    BY <1>0, <1>7 DEF Write, TypeOK, history
  <2> QED BY <1>0, <2>1 DEF SkipOnce
<1>8. CASE UNCHANGED vars
  BY <1>0, <1>8 DEF SkipOnce, vars, stream, threadVars, history
<1> QED BY <1>0, <1>1, <1>2, <1>3, <1>4, <1>5, <1>6, <1>7, <1>8, NextParts

\* began changes only at the thread's newline and at the end of its line.
LEMMA AsideBegan ==
  ASSUME TypeOK, NEW t \in Threads, Aside(t)
  PROVE  /\ \A u \in Threads : u # t => began'[u] = began[u]
         /\ began'[t] \in {began[t], current, 0}
BY DEF Aside, Read, StoreText, StoreNewline, Cout, Clear, history, TypeOK

\* Every step keeps the stream off the files that had gone.
LEMMA NextNewFile == TypeOK /\ Chosen /\ Exclusive /\ NewFile /\ [Next]_vars => NewFile'
<1>0. SUFFICES ASSUME TypeOK, Chosen, Exclusive, NewFile, [Next]_vars PROVE NewFile'
  OBVIOUS
<1>a. current \in Nat /\ current >= 1
  <2>1. current \in 1..MaxFiles /\ MaxFiles \in Nat
    BY <1>0, BoundsAssumption DEF TypeOK
  <2> QED BY <2>1
<1>b. \A t \in Threads : began[t] \in Nat
  <2>1. began \in [Threads -> 0..MaxFiles] /\ MaxFiles \in Nat
    BY <1>0, BoundsAssumption DEF TypeOK
  <2> QED BY <2>1
<1>1. CASE Around
  <2>1. UNCHANGED <<pc, began>> /\ (main = "ended" => main' = "ended")
    BY <1>1, AroundFrame DEF threadVars, history
  <2>2. current' = current \/ current' = current + 1
    BY <1>1 DEF Around, Options, StartFails, Run, End, Rotate, disk
  <2>3. main = "options" \/ m_logFile' = m_logFile \/ main' = "ended"
    BY <1>1 DEF Around, Options, StartFails, Run, End, Rotate, stream
  <2> SUFFICES ASSUME NEW t \in Threads PROVE NewFile!(t)'
    BY DEF NewFile
  <2>4. began[t] \in Nat /\ began[t] <= current
    BY <1>0, <1>b DEF NewFile
  <2>5. began[t] <= current'
    BY <1>a, <2>2, <2>4
  <2>6. ASSUME pc[t] = "write", main' # "ended" PROVE m_logFile'.fail \/ m_logFile'.on >= began[t]
    <3>1. main # "options"
      BY <1>0, <2>6 DEF Chosen
    <3> QED BY <1>0, <2>1, <2>3, <2>6, <3>1 DEF NewFile
  <2> QED BY <2>1, <2>5, <2>6
<1>2. ASSUME NEW t \in Threads, Begin(t) PROVE NewFile'
  BY <1>0, <1>2, BeginFrame DEF NewFile
<1>3. ASSUME NEW t \in Threads, Aside(t) PROVE NewFile'
  <2>1. Moves(t)
    BY <1>3 DEF Aside, Moves, Step
  <2>2. /\ UNCHANGED <<main, m_logFile, current>> /\ pc'[t] # "write"
        /\ \A u \in Threads : u # t => pc'[u] = pc[u] /\ began'[u] = began[u]
    BY <1>0, <1>3, <2>1, AsideFrame, AsideBegan, MovesFrame
  <2>3. began[t] <= current /\ began[t] \in Nat /\ began'[t] \in {began[t], current, 0}
    BY <1>0, <1>b, <1>3, AsideBegan DEF NewFile
  <2>4. began'[t] <= current
    BY <1>a, <2>3
  <2> QED BY <1>0, <2>2, <2>4 DEF NewFile
<1>4. ASSUME NEW t \in Threads, Lock(t) PROVE NewFile'
  <2>1. UNCHANGED <<main, m_logFile, current, began>> /\ Go(t, "open")
    BY <1>4 DEF Lock, disk, history
  <2> QED BY <1>0, <2>1, GoType DEF NewFile
<1>5. ASSUME NEW t \in Threads, Open(t) PROVE NewFile'
  <2>1. pc[t] = "open" /\ UNCHANGED <<current, began>> /\ Go(t, "write")
    BY <1>5 DEF Open, At, disk
  <2>2. \A u \in Threads : u # t => pc[u] # "write" /\ pc'[u] # "write"
    BY <1>0, <2>1, GoType DEF Exclusive
  <2>3. m_logFile'.fail \/ m_logFile'.on = current
    <3>1. m_logFile \in [on : 0..MaxFiles, fail : BOOLEAN]
      BY <1>0 DEF TypeOK
    <3>2. m_logFile' = [m_logFile EXCEPT !.fail = TRUE] \/ m_logFile' = [on |-> current, fail |-> FALSE]
      BY <1>5 DEF Open
    <3> QED BY <3>1, <3>2
  <2>4. began[t] <= current /\ began[t] \in Nat
    BY <1>0, <1>b DEF NewFile
  <2>5. current >= began[t]
    BY <1>a, <2>4
  <2>6. m_logFile'.fail \/ m_logFile'.on >= began'[t]
    BY <2>1, <2>3, <2>5
  <2> QED BY <1>0, <2>1, <2>2, <2>6 DEF NewFile
<1>6. ASSUME NEW t \in Threads, OpenRefused(t) \/ Write(t) PROVE NewFile'
  <2>1. pc[t] \in {"open", "write"} /\ Go(t, "clear") /\ UNCHANGED <<current, began>>
    BY <1>6 DEF OpenRefused, Write, At, disk, history
  <2>2. \A u \in Threads : pc'[u] # "write"
    BY <1>0, <2>1, GoType DEF Exclusive
  <2> QED BY <1>0, <2>1, <2>2 DEF NewFile
<1>7. CASE UNCHANGED vars
  BY <1>0, <1>7 DEF NewFile, vars, stream, threadVars, disk, history
<1> QED BY <1>0, <1>1, <1>2, <1>3, <1>4, <1>5, <1>6, <1>7, NextParts

\* The invariants so far, together.
StreamInv == TypeInv /\ Chosen /\ Exclusive /\ SkipOnce /\ NewFile

LEMMA InitStreamInv == Init => StreamInv
<1> SUFFICES ASSUME Init PROVE StreamInv
  OBVIOUS
<1>1. NewFile
  BY DEF Init, NewFile
<1> QED BY <1>1, InitTypeInv DEF Init, StreamInv, Chosen, Exclusive, SkipOnce

LEMMA NextStreamInv == StreamInv /\ [Next]_vars => StreamInv'
BY NextTypeInv, NextChosen, NextExclusive, NextSkipOnce, NextNewFile DEF StreamInv, TypeInv

\* "Logrotate moves files at xx:yy ... So we need to open/close on each write":
\* a line never goes to a file that was moved away before its newline came,
\* because only the holder of the mutex has the stream open, and opens it anew.
THEOREM NeverWritesToOldFile == Spec => NeverToOldFile
<1>1. ASSUME StreamInv, [Next]_vars
      PROVE  [\A g \in 1..MaxFiles : files'[g] # files[g] =>
                \E t \in Threads : pc[t] = "write" /\ pc'[t] # "write" /\ g >= began[t]]_vars
  <2>0. TypeOK /\ NewFile
    BY <1>1 DEF StreamInv, TypeInv
  <2> SUFFICES ASSUME NEW g \in 1..MaxFiles, files'[g] # files[g]
               PROVE  \E t \in Threads : pc[t] = "write" /\ pc'[t] # "write" /\ g >= began[t]
    OBVIOUS
  <2>a. files \in [0..MaxFiles -> Seq(Seq(Pieces))]
    BY <2>0 DEF TypeOK
  <2>b. g \in 0..MaxFiles /\ g # 0
    BY BoundsAssumption
  <2>1. \A t \in Threads : ~Begin(t) /\ ~Lock(t) /\ ~Open(t) /\ ~OpenRefused(t)
    BY DEF Begin, Lock, Open, OpenRefused, disk
  <2>2. ~Around /\ ~UNCHANGED vars
    BY AroundFrame DEF vars, disk
  <2>3. \A t \in Threads : ~Aside(t)
    BY <2>a, <2>b DEF Aside, Read, StoreText, StoreNewline, Cout, Clear, disk
  <2>4. PICK t \in Threads : Write(t)
    BY <1>1, <2>1, <2>2, <2>3, NextParts
  <2>5. /\ pc[t] = "write" /\ main # "ended" /\ Go(t, "clear")
        /\ files' = [files EXCEPT ![m_logFile.on] = IF m_logFile.fail THEN @ ELSE @ \o <<m_buffer>>]
    BY <2>4 DEF Write, At
  <2>6. m_logFile.on = g /\ ~m_logFile.fail
    BY <2>a, <2>b, <2>5
  <2>7. g >= began[t]
    BY <2>0, <2>5, <2>6 DEF NewFile
  <2> QED BY <2>0, <2>5, <2>7, GoType
<1> QED BY InitStreamInv, NextStreamInv, <1>1, PTL DEF Spec, NeverToOldFile

-----------------------------------------------------------------------------
(* The lines in the files.                                                 *)

\* Different lines look different.
LEMMA WholeInjective == \A a, b : Whole(a) = Whole(b) => a = b
<1> SUFFICES ASSUME NEW a, NEW b, Whole(a) = Whole(b) PROVE a = b
  OBVIOUS
<1>1. Whole(a)[2] = a /\ Whole(b)[2] = b
  BY DEF Whole
<1> QED BY <1>1

LEMMA WholeType ==
  ASSUME NEW id \in Pieces
  PROVE  Whole(id) \in Seq(Pieces)
BY DEF Whole, Pieces

\* A new line at the end of one file keeps the files in order.
LEMMA FiledGrows ==
  ASSUME NEW fs \in [0..MaxFiles -> Seq(Seq(Pieces))], NEW W, NEW R, Filed(fs, W, R),
         NEW on \in 0..MaxFiles, NEW id \in Pieces, id \notin W,
         NEW gs, gs = [fs EXCEPT ![on] = @ \o <<Whole(id)>>]
  PROVE  Filed(gs, W \cup {id}, R)
<1> DEFINE n == Len(fs[on])
<1>1. /\ n \in Nat /\ Len(gs[on]) = n + 1 /\ gs[on][n + 1] = Whole(id)
      /\ \A g \in 0..MaxFiles : g # on => gs[g] = fs[g]
      /\ \A i \in 1..n : gs[on][i] = fs[on][i]
  BY WholeType, FileGrows
<1> HIDE DEF n
<1>2. \A g \in 0..MaxFiles : Len(fs[g]) \in Nat
  BY LenProperties
<1>3. \A i : i \in 1..n + 1 <=> i \in 1..n \/ i = n + 1
  BY <1>1
<1>4. ASSUME NEW g \in 0..MaxFiles, NEW i \in 1..Len(gs[g])
      PROVE  \/ i \in 1..Len(fs[g]) /\ gs[g][i] = fs[g][i]
             \/ g = on /\ i = n + 1 /\ gs[g][i] = Whole(id)
  <2>1. CASE g = on
    BY <1>1, <1>3, <1>4, <2>1 DEF n
  <2>2. CASE g # on
    BY <1>1, <1>4, <2>2
  <2> QED BY <2>1, <2>2
<1>5. ASSUME NEW g \in 0..MaxFiles, NEW i \in 1..Len(fs[g])
      PROVE  i \in 1..Len(gs[g]) /\ gs[g][i] = fs[g][i] /\ fs[g][i] # Whole(id)
  <2>1. i \in 1..Len(gs[g]) /\ gs[g][i] = fs[g][i]
    <3>1. CASE g = on
      BY <1>1, <1>3, <1>5, <3>1 DEF n
    <3>2. CASE g # on
      BY <1>1, <1>5, <3>2
    <3> QED BY <3>1, <3>2
  <2>2. PICK o \in W : fs[g][i] = Whole(o)
    BY DEF Filed
  <2> QED BY <2>1, <2>2, WholeInjective
<1>6. \A g \in 0..MaxFiles : \A i \in 1..Len(gs[g]) : \E o \in W \cup {id} : gs[g][i] = Whole(o)
  BY <1>4 DEF Filed
<1>7. ASSUME NEW g \in 0..MaxFiles, NEW h \in 0..MaxFiles, NEW i \in 1..Len(gs[g]),
             NEW j \in 1..Len(gs[h]), gs[g][i] = gs[h][j]
      PROVE  g = h /\ i = j
  <2>1. CASE i \in 1..Len(fs[g]) /\ gs[g][i] = fs[g][i]
    <3>1. fs[g][i] # Whole(id)
      BY <1>5, <2>1
    <3>2. j \in 1..Len(fs[h]) /\ gs[h][j] = fs[h][j]
      BY <1>4, <1>7, <2>1, <3>1
    <3> QED BY <1>7, <2>1, <3>2 DEF Filed
  <2>2. CASE g = on /\ i = n + 1 /\ gs[g][i] = Whole(id)
    <3>1. ~(j \in 1..Len(fs[h]) /\ gs[h][j] = fs[h][j])
      BY <1>5, <1>7, <2>2
    <3> QED BY <1>4, <2>2, <3>1
  <2> QED BY <1>4, <2>1, <2>2
<1>8. ASSUME NEW o \in (W \cup {id}) \ R
      PROVE  \E g \in 0..MaxFiles : \E i \in 1..Len(gs[g]) : gs[g][i] = Whole(o)
  <2>1. CASE o = id
    <3>1. n + 1 \in 1..Len(gs[on])
      BY <1>1
    <3> QED BY <1>1, <2>1, <3>1
  <2>2. CASE o # id
    <3>1. PICK g \in 0..MaxFiles : \E i \in 1..Len(fs[g]) : fs[g][i] = Whole(o)
      BY <2>2 DEF Filed
    <3>2. PICK i \in 1..Len(fs[g]) : fs[g][i] = Whole(o)
      BY <3>1
    <3> QED BY <1>5, <3>2
  <2> QED BY <2>1, <2>2
<1> QED BY <1>6, <1>7, <1>8 DEF Filed

\* Lines that may be missing keep them in order as well.
LEMMA FiledMissing ==
  ASSUME NEW fs, NEW W, NEW R, Filed(fs, W, R), NEW X, NEW Q, R \subseteq Q, X \subseteq Q
  PROVE  Filed(fs, W \cup X, Q)
<1>1. \A id \in (W \cup X) \ Q : id \in W \ R
  OBVIOUS
<1> QED BY <1>1 DEF Filed

\* Every step keeps the failed stream to skipped lines.
LEMMA NextFailSkips == TypeOK /\ Chosen /\ Exclusive /\ FailSkips /\ [Next]_vars => FailSkips'
<1>0. SUFFICES ASSUME TypeOK, Chosen, Exclusive, FailSkips, [Next]_vars PROVE FailSkips'
  OBVIOUS
<1>a. m_logFile \in [on : 0..MaxFiles, fail : BOOLEAN]
  BY <1>0 DEF TypeOK
<1>1. CASE Around
  <2>1. UNCHANGED <<pc, lines, skipped>>
    BY <1>1, AroundFrame DEF threadVars, history
  <2>2. main = "options" \/ m_logFile'.fail = m_logFile.fail
    BY <1>a, <1>1 DEF Around, Options, StartFails, Run, End, Rotate, stream
  <2>3. main = "options" => \A t \in Threads : pc[t] = "idle"
    BY <1>0 DEF Chosen
  <2> QED BY <1>0, <2>1, <2>2, <2>3 DEF FailSkips, LineOf
<1>2. ASSUME NEW t \in Threads, Begin(t) PROVE FailSkips'
  <2>1. \A u \in Threads : u # t => lines'[u] = lines[u]
    BY <1>0, <1>2 DEF Begin, TypeOK
  <2> QED BY <1>0, <1>2, <2>1, BeginFrame DEF FailSkips, LineOf
<1>3. ASSUME NEW t \in Threads, Aside(t) PROVE FailSkips'
  <2>1. Moves(t)
    BY <1>3 DEF Aside, Moves, Step
  <2> QED BY <1>0, <1>3, <2>1, AsideFrame, MovesFrame DEF FailSkips, LineOf
<1>4. ASSUME NEW t \in Threads, Lock(t) PROVE FailSkips'
  <2>1. UNCHANGED <<m_logFile, lines, skipped>> /\ Go(t, "open")
    BY <1>4 DEF Lock, history
  <2> QED BY <1>0, <2>1, GoType DEF FailSkips, LineOf
<1>5. ASSUME NEW t \in Threads, Open(t) PROVE FailSkips'
  <2>1. pc[t] = "open" /\ lines' = lines /\ Go(t, "write")
    BY <1>5 DEF Open, At
  <2>2. \A u \in Threads : u # t => pc'[u] # "write"
    BY <1>0, <2>1, GoType DEF Exclusive
  <2>3. ~m_logFile'.fail \/ LineOf(t) \in skipped'
    <3>1. CASE m_logFile.on # 0
      BY <1>5, <3>1 DEF Open, LineOf
    <3>2. CASE m_logFile.on = 0
      BY <1>5, <3>2 DEF Open
    <3> QED BY <3>1, <3>2
  <2> QED BY <2>1, <2>2, <2>3 DEF FailSkips, LineOf
<1>6. ASSUME NEW t \in Threads, OpenRefused(t) \/ Write(t) PROVE FailSkips'
  <2>1. pc[t] \in {"open", "write"} /\ Go(t, "clear")
    BY <1>6 DEF OpenRefused, Write, At
  <2>2. \A u \in Threads : pc'[u] # "write"
    BY <1>0, <2>1, GoType DEF Exclusive
  <2> QED BY <2>2 DEF FailSkips
<1>7. CASE UNCHANGED vars
  BY <1>0, <1>7 DEF FailSkips, LineOf, vars, stream, threadVars, history
<1> QED BY <1>0, <1>1, <1>2, <1>3, <1>4, <1>5, <1>6, <1>7, NextParts

\* Only the end of a line adds to done.
LEMMA MovesDone ==
  ASSUME NEW t \in Threads, Moves(t)
  PROVE  done' = done \/ Clear(t)
BY DEF Moves, Step, Read, StoreText, StoreNewline, Cout, Lock, Open, Write, OpenRefused, history

\* Every step keeps the lines in the making apart.
LEMMA NextNumbered == TypeInv /\ Numbered /\ [Next]_vars => Numbered'
<1>0. SUFFICES ASSUME TypeInv, Numbered, [Next]_vars PROVE Numbered'
  OBVIOUS
<1>a. TypeOK
  BY <1>0 DEF TypeInv
<1>b. MaxLines \in Nat /\ \A t \in Threads : lines[t] \in 0..MaxLines
  BY <1>a, BoundsAssumption DEF TypeOK
<1>c. \A t \in Threads : lines[t] \in Nat
  BY <1>b
<1>1. CASE Around
  BY <1>0, <1>1, AroundFrame DEF Numbered, threadVars, history
<1>2. ASSUME NEW t \in Threads, Begin(t) PROVE Numbered'
  <2>1. lines'[t] = lines[t] + 1 /\ \A u \in Threads : u # t => lines'[u] = lines[u]
    BY <1>a, <1>2 DEF Begin, TypeOK
  <2>2. done' = done /\ \A u \in Threads : u # t => pc'[u] = pc[u]
    BY <1>a, <1>2, BeginFrame
  <2>3. ASSUME NEW n \in 1..MaxLines, <<t, n>> \in done PROVE n < lines'[t] /\ n <= lines'[t]
    <3>1. n <= lines[t] /\ lines[t] \in Nat
      BY <1>0, <1>c, <2>3 DEF Numbered
    <3> QED BY <2>1, <3>1
  <2> QED BY <1>0, <2>1, <2>2, <2>3 DEF Numbered
<1>3. ASSUME NEW t \in Threads, Moves(t) PROVE Numbered'
  <2>1. /\ lines' = lines /\ pc[t] # "idle"
        /\ \A u \in Threads : u # t => pc'[u] = pc[u]
    BY <1>a, <1>3, MovesFrame
  <2>2. CASE done' = done
    BY <1>0, <2>1, <2>2 DEF Numbered
  <2>3. CASE Clear(t)
    <3>1. done' = done \cup {<<t, lines[t]>>} /\ pc'[t] = "idle"
      BY <1>a, <2>3, GoType DEF Clear
    <3>2. ASSUME NEW n \in 1..MaxLines, <<t, n>> \in done' PROVE n <= lines[t]
      <4>1. CASE <<t, n>> \in done
        BY <1>0, <4>1 DEF Numbered
      <4>2. CASE <<t, n>> = <<t, lines[t]>>
        <5>1. n = lines[t] /\ lines[t] \in Nat
          BY <1>c, <4>2
        <5> QED BY <5>1
      <4> QED BY <3>1, <3>2, <4>1, <4>2
    <3>3. \A u \in Threads : u # t => \A n \in 1..MaxLines : <<u, n>> \in done' => <<u, n>> \in done
      BY <3>1
    <3> QED BY <1>0, <2>1, <3>1, <3>2, <3>3 DEF Numbered
  <2> QED BY <1>3, <2>2, <2>3, MovesDone
<1>4. CASE UNCHANGED vars
  BY <1>0, <1>4 DEF Numbered, vars, threadVars, history
<1> QED BY <1>0, <1>1, <1>2, <1>3, <1>4 DEF Next, Around, Moves

\* Without an overlap nobody else is in a line when a thread takes a step.
LEMMA Alone ==
  ASSUME TypeOK, OneBuffer, ~overlapped, NEW t \in Threads, Moves(t)
  PROVE  \A u \in Threads : u # t => pc[u] = "idle" /\ pc'[u] = "idle"
<1>1. pc[t] # "idle" /\ \A u \in Threads : u # t => pc'[u] = pc[u]
  BY MovesFrame
<1>2. \A u \in Threads : u # t => pc[u] = "idle"
  BY <1>1 DEF OneBuffer
<1> QED BY <1>1, <1>2

\* Every step keeps the buffer to the one thread in a line.
LEMMA NextOneBuffer == TypeInv /\ OneBuffer /\ [Next]_vars => OneBuffer'
<1>0. SUFFICES ASSUME TypeInv, OneBuffer, [Next]_vars PROVE OneBuffer'
  OBVIOUS
<1>a. TypeOK
  BY <1>0 DEF TypeInv
<1>1. CASE Around
  BY <1>0, <1>1, AroundFrame DEF OneBuffer, LineOf, threadVars, history
<1>2. ASSUME NEW t \in Threads, Begin(t) PROVE OneBuffer'
  <2>1. CASE overlapped'
    BY <2>1 DEF OneBuffer
  <2>2. CASE ~overlapped'
    <3>1. ~overlapped /\ \A u \in Threads : pc[u] = "idle"
      BY <1>2, <2>2 DEF Begin
    <3>2. m_buffer = <<>>
      BY <1>0, <3>1 DEF OneBuffer
    <3>3. m_buffer' = m_buffer /\ pc'[t] = "text" /\ \A u \in Threads : u # t => pc'[u] = "idle"
      BY <1>a, <1>2, <3>1, BeginFrame
    <3> QED BY <3>2, <3>3 DEF OneBuffer
  <2> QED BY <2>1, <2>2
<1>3. ASSUME NEW t \in Threads, Moves(t), ~overlapped PROVE OneBuffer'
  <2>1. \A u \in Threads : u # t => pc'[u] = "idle"
    BY <1>0, <1>a, <1>3, Alone
  <2>l. LineOf(t)' = LineOf(t) /\ seen \in [Threads -> Seq(Pieces)]
    BY <1>a, <1>3, MovesFrame DEF LineOf, TypeOK
  <2>2. CASE Read(t)
    <3>1. PICK w \in {"text", "newline"} :
            At(t, w) /\ Go(t, IF w = "text" THEN "store text" ELSE "store newline")
      BY <2>2 DEF Read
    <3>2. seen'[t] = m_buffer /\ m_buffer' = m_buffer
      BY <2>2, <2>l DEF Read, stream
    <3>3. CASE w = "text"
      <4>1. m_buffer = <<>> /\ pc'[t] = "store text"
        BY <1>0, <1>a, <1>3, <3>1, <3>3, GoType DEF OneBuffer, At
      <4> QED BY <2>1, <3>2, <4>1 DEF OneBuffer
    <3>4. CASE w = "newline"
      <4>1. m_buffer = <<Stamp, LineOf(t)>> /\ pc'[t] = "store newline"
        BY <1>0, <1>a, <1>3, <3>1, <3>4, GoType DEF OneBuffer, At
      <4> QED BY <2>1, <2>l, <3>2, <4>1 DEF OneBuffer
    <3> QED BY <3>3, <3>4
  <2>3. CASE StoreText(t)
    <3>1. seen[t] = <<>> /\ pc'[t] = "newline"
      BY <1>0, <1>a, <1>3, <2>3, GoType DEF OneBuffer, StoreText, At
    <3>2. m_buffer' = <<Stamp>> \o <<LineOf(t)>>
      BY <2>3, <3>1 DEF StoreText, Put, LineOf
    <3>3. m_buffer' = <<Stamp, LineOf(t)>>
      BY <3>2, TwoPieces
    <3> QED BY <2>1, <2>l, <3>1, <3>3 DEF OneBuffer
  <2>4. CASE StoreNewline(t)
    <3>1. seen[t] = <<Stamp, LineOf(t)>> /\ pc'[t] \in {"cout", "lock"}
      BY <1>0, <1>a, <1>3, <2>4, GoType DEF OneBuffer, StoreNewline, At
    <3>2. m_buffer' = <<Stamp, LineOf(t)>> \o <<Newline>>
      <4>1. seen[t] # <<>>
        BY <3>1
      <4> QED BY <2>4, <3>1, <4>1 DEF StoreNewline, Put
    <3>3. m_buffer' = Whole(LineOf(t))
      BY <3>2, ThreePieces DEF Whole
    <3> QED BY <2>1, <2>l, <3>1, <3>3 DEF OneBuffer, Whole
  <2>5. CASE Lock(t) \/ Open(t)
    <3>1. m_buffer' = m_buffer /\ pc[t] \in {"lock", "open"} /\ pc'[t] \in {"open", "write"}
      BY <1>a, <2>5, GoType DEF Lock, Open, At
    <3>2. m_buffer = Whole(LineOf(t))
      BY <1>0, <1>3, <3>1 DEF OneBuffer
    <3> QED BY <2>1, <2>l, <3>1, <3>2 DEF OneBuffer, Whole
  <2>6. CASE Cout(t) \/ Write(t) \/ OpenRefused(t)
    <3>1. pc'[t] = "clear"
      BY <1>a, <2>6, GoType DEF Cout, Write, OpenRefused
    <3> QED BY <2>1, <3>1 DEF OneBuffer
  <2>7. CASE Clear(t)
    <3>1. pc'[t] = "idle" /\ m_buffer' = <<>>
      BY <1>a, <2>7, GoType DEF Clear
    <3> QED BY <2>1, <3>1 DEF OneBuffer
  <2> QED BY <1>3, <2>2, <2>3, <2>4, <2>5, <2>6, <2>7 DEF Moves, Step
<1>4. ASSUME NEW t \in Threads, Moves(t), overlapped PROVE OneBuffer'
  BY <1>a, <1>4, MovesFrame DEF OneBuffer
<1>5. CASE UNCHANGED vars
  BY <1>0, <1>5 DEF OneBuffer, LineOf, vars, stream, threadVars, history
<1> QED BY <1>0, <1>1, <1>2, <1>3, <1>4, <1>5 DEF Next, Around, Moves

\* A line in the making has not passed.
LEMMA NotPassed ==
  ASSUME TypeInv, Numbered, NEW t \in Threads, pc[t] \notin {"idle", "clear"},
         \A u \in Threads : u # t => pc[u] = "idle"
  PROVE  LineOf(t) \notin Passed
<1>1. lines[t] \in 1..MaxLines
  BY LineType DEF Lines
<1>2. ~(lines[t] < lines[t])
  BY <1>1, BoundsAssumption
<1>3. LineOf(t) \notin done
  BY <1>1, <1>2 DEF Numbered, LineOf
<1> QED BY <1>3 DEF Passed

\* Where a step ends a thread's way to the log, its line has passed.
LEMMA PassedGrows ==
  ASSUME TypeOK, NEW t \in Threads, pc[t] \notin {"idle", "clear"}, Go(t, "clear"),
         UNCHANGED <<done, lines>>
  PROVE  Passed' = Passed \cup {LineOf(t)}
<1>1. \A u \in Threads : pc'[u] = "clear" <=> u = t \/ pc[u] = "clear"
  BY GoType
<1>2. \A u : LineOf(u)' = LineOf(u)
  BY DEF LineOf
<1> QED BY <1>1, <1>2 DEF Passed

\* The other steps leave the lines that passed as they are.
LEMMA PassedStays ==
  ASSUME TypeOK, NEW t \in Threads, pc[t] # "clear", pc'[t] # "clear", done' = done,
         \A u \in Threads : u # t => pc'[u] = pc[u] /\ lines'[u] = lines[u]
  PROVE  Passed' = Passed
<1>1. \A u \in Threads : pc'[u] = "clear" <=> pc[u] = "clear"
  OBVIOUS
<1>2. \A u \in Threads : pc[u] = "clear" => LineOf(u)' = LineOf(u)
  BY DEF LineOf
<1> QED BY <1>1, <1>2 DEF Passed

\* The invariants that the files rest on.
LinesInv == StreamInv /\ FailSkips /\ Numbered /\ OneBuffer

\* Every step of a thread in a line keeps the files in order.
LEMMA MovesInFiles ==
  ASSUME LinesInv, InFiles, NEW t \in Threads, Moves(t), ~overlapped
  PROVE  Filed(files', Passed', (refused \cup skipped)')
<1>a. TypeOK /\ TypeInv /\ FailSkips /\ Numbered /\ OneBuffer
  BY DEF LinesInv, StreamInv, TypeInv
<1>b. Filed(files, Passed, refused \cup skipped)
  BY DEF InFiles
<1>c. \A u \in Threads : u # t => pc[u] = "idle" /\ pc'[u] = "idle"
  BY <1>a, Alone
<1>d. lines' = lines /\ pc[t] # "idle"
  BY <1>a, MovesFrame
<1>e. LineOf(t) \in Pieces
  BY <1>a, <1>d, LineType DEF LineOf
<1>f. files \in [0..MaxFiles -> Seq(Seq(Pieces))] /\ m_logFile.on \in 0..MaxFiles /\ 0 \in 0..MaxFiles
  <2>1. /\ files \in [0..MaxFiles -> Seq(Seq(Pieces))]
        /\ m_logFile \in [on : 0..MaxFiles, fail : BOOLEAN]
    BY <1>a DEF TypeOK
  <2>2. 0 \in 0..MaxFiles
    BY BoundsAssumption
  <2> QED BY <2>1, <2>2
<1>1. CASE Read(t) \/ StoreText(t) \/ StoreNewline(t) \/ Lock(t)
  <2>1. pc[t] # "clear" /\ pc'[t] # "clear" /\ UNCHANGED <<files, done, refused, skipped>>
    <3>1. CASE Read(t)
      <4>1. PICK w \in {"text", "newline"} :
              At(t, w) /\ Go(t, IF w = "text" THEN "store text" ELSE "store newline")
        BY <3>1 DEF Read
      <4> QED BY <1>a, <3>1, <4>1, GoType DEF Read, At, disk, history
    <3>2. CASE StoreText(t)
      BY <1>a, <3>2, GoType DEF StoreText, At, disk, history
    <3>3. CASE StoreNewline(t)
      BY <1>a, <3>3, GoType DEF StoreNewline, At, disk
    <3>4. CASE Lock(t)
      BY <1>a, <3>4, GoType DEF Lock, At, disk, history
    <3> QED BY <1>1, <3>1, <3>2, <3>3, <3>4
  <2>2. Passed' = Passed
    BY <1>a, <1>c, <1>d, <2>1, PassedStays
  <2> QED BY <1>b, <2>1, <2>2
<1>2. CASE Open(t)
  <2>1. /\ pc[t] # "clear" /\ pc'[t] # "clear" /\ UNCHANGED <<files, done, refused>>
        /\ skipped \subseteq skipped'
    BY <1>a, <1>2, GoType DEF Open, At, disk
  <2>2. Passed' = Passed
    BY <1>a, <1>c, <1>d, <2>1, PassedStays
  <2>3. Filed(files, Passed \cup {}, refused \cup skipped')
    BY <1>b, <2>1, FiledMissing
  <2> QED BY <2>1, <2>2, <2>3
<1>3. CASE Clear(t)
  <2>1. pc[t] = "clear" /\ pc'[t] = "idle" /\ UNCHANGED <<files, refused, skipped>>
    BY <1>a, <1>3, GoType DEF Clear, At, disk
  <2>2. done' = done \cup {LineOf(t)}
    BY <1>3 DEF Clear, LineOf
  <2>3. Passed = done \cup {LineOf(t)} /\ Passed' = done'
    BY <1>c, <2>1 DEF Passed
  <2> QED BY <1>b, <2>1, <2>2, <2>3
<1>4. CASE OpenRefused(t)
  <2>1. /\ pc[t] = "open" /\ Go(t, "clear") /\ UNCHANGED <<files, done, skipped>>
        /\ refused' = refused \cup {LineOf(t)}
    BY <1>4 DEF OpenRefused, At, disk, LineOf
  <2>2. Passed' = Passed \cup {LineOf(t)}
    BY <1>a, <1>d, <2>1, PassedGrows
  <2>3. Filed(files, Passed \cup {LineOf(t)}, refused' \cup skipped)
    BY <1>b, <2>1, FiledMissing
  <2> QED BY <2>1, <2>2, <2>3
<1>5. ASSUME NEW on \in 0..MaxFiles, pc[t] \in {"cout", "write"}, Go(t, "clear"),
             UNCHANGED <<done, refused, skipped>>,
             files' = [files EXCEPT ![on] = @ \o <<m_buffer>>]
      PROVE  Filed(files', Passed', (refused \cup skipped)')
  <2>1. m_buffer = Whole(LineOf(t))
    BY <1>a, <1>5 DEF OneBuffer
  <2>2. Passed' = Passed \cup {LineOf(t)}
    BY <1>a, <1>d, <1>5, PassedGrows
  <2>3. LineOf(t) \notin Passed
    BY <1>a, <1>c, <1>5, NotPassed
  <2>4. files' = [files EXCEPT ![on] = @ \o <<Whole(LineOf(t))>>]
    BY <1>5, <2>1
  <2>5. Filed(files', Passed \cup {LineOf(t)}, refused \cup skipped)
    BY <1>b, <1>e, <1>f, <2>3, <2>4, FiledGrows
  <2> QED BY <1>5, <2>2, <2>5
<1>6. CASE Cout(t)
  BY <1>5, <1>6, <1>f DEF Cout, At, history
<1>7. CASE Write(t)
  <2>1. pc[t] = "write" /\ Go(t, "clear") /\ UNCHANGED <<done, refused, skipped>>
    BY <1>7 DEF Write, At, history
  <2>2. CASE ~m_logFile.fail
    <3>1. files' = [files EXCEPT ![m_logFile.on] = @ \o <<m_buffer>>]
      BY <1>7, <2>2 DEF Write
    <3> QED BY <1>5, <1>f, <2>1, <3>1
  <2>3. CASE m_logFile.fail
    <3>1. files' = files
      BY <1>7, <1>f, <2>3 DEF Write
    <3>2. LineOf(t) \in skipped
      BY <1>a, <2>1, <2>3 DEF FailSkips
    <3>3. Passed' = Passed \cup {LineOf(t)}
      BY <1>a, <1>d, <2>1, PassedGrows
    <3>4. Filed(files, Passed \cup {LineOf(t)}, refused \cup skipped)
      BY <1>b, <3>2, FiledMissing
    <3> QED BY <2>1, <3>1, <3>3, <3>4
  <2> QED BY <2>2, <2>3
<1> QED BY <1>1, <1>2, <1>3, <1>4, <1>6, <1>7 DEF Moves, Step

\* Every step keeps the files in order.
LEMMA NextInFiles == LinesInv /\ InFiles /\ [Next]_vars => InFiles'
<1>0. SUFFICES ASSUME LinesInv, InFiles, [Next]_vars PROVE InFiles'
  OBVIOUS
<1>a. TypeOK
  BY <1>0 DEF LinesInv, StreamInv, TypeInv
<1>1. CASE Around
  BY <1>0, <1>1, AroundFrame DEF InFiles, Passed, LineOf, threadVars, history
<1>2. ASSUME NEW t \in Threads, Begin(t) PROVE InFiles'
  <2>1. /\ UNCHANGED <<files, done, refused, skipped>>
        /\ pc[t] # "clear" /\ pc'[t] # "clear" /\ \A u \in Threads : u # t => pc'[u] = pc[u]
    BY <1>a, <1>2, BeginFrame
  <2>2. \A u \in Threads : u # t => lines'[u] = lines[u]
    BY <1>a, <1>2 DEF Begin, TypeOK
  <2>3. Passed' = Passed
    BY <1>a, <2>1, <2>2, PassedStays
  <2>4. overlapped => overlapped'
    BY <1>2 DEF Begin
  <2> QED BY <1>0, <2>1, <2>3, <2>4 DEF InFiles
<1>3. ASSUME NEW t \in Threads, Moves(t) PROVE InFiles'
  <2>1. overlapped' = overlapped
    BY <1>a, <1>3, MovesFrame
  <2>2. CASE overlapped
    BY <2>1, <2>2 DEF InFiles
  <2>3. CASE ~overlapped
    BY <1>0, <1>3, <2>3, MovesInFiles DEF InFiles
  <2> QED BY <2>2, <2>3
<1>4. CASE UNCHANGED vars
  BY <1>0, <1>4 DEF InFiles, Passed, LineOf, vars, threadVars, disk, history
<1> QED BY <1>0, <1>1, <1>2, <1>3, <1>4 DEF Next, Around, Moves

KeptInv == LinesInv /\ InFiles

\* The initial state satisfies the invariant.
LEMMA InitKeptInv == Init => KeptInv
<1> SUFFICES ASSUME Init PROVE KeptInv
  OBVIOUS
<1>1. FailSkips /\ Numbered /\ OneBuffer
  BY DEF Init, FailSkips, Numbered, OneBuffer
<1>2. Passed = {}
  BY DEF Init, Passed
<1>3. \A g \in 0..MaxFiles : 1..Len(files[g]) = {}
  <2>1. \A g \in 0..MaxFiles : Len(files[g]) = 0
    BY EmptySeq DEF Init
  <2> QED BY <2>1
<1>4. InFiles
  BY <1>2, <1>3 DEF InFiles, Filed
<1> QED BY <1>1, <1>4, InitStreamInv DEF KeptInv, LinesInv

\* Every step keeps the invariant.
LEMMA NextKeptInv == KeptInv /\ [Next]_vars => KeptInv'
BY NextStreamInv, NextFailSkips, NextNumbered, NextOneBuffer, NextInFiles
   DEF KeptInv, LinesInv, StreamInv, TypeInv

\* There are as many lines as threads have lines.
LEMMA LinesFinite == IsFiniteSet(Lines) /\ Cardinality(Lines) = Cardinality(Threads) * MaxLines
<1>1. IsFiniteSet(Threads)
  <2>1. Threads = Others \cup {Main}
    BY DEF Threads
  <2> QED BY <2>1, ThreadsAssumption, FS_AddElement
<1>2. IsFiniteSet(1..MaxLines) /\ Cardinality(1..MaxLines) = MaxLines
  <2>1. MaxLines \in Nat /\ 1 \in Int /\ MaxLines \in Int
    BY BoundsAssumption
  <2>2. /\ IsFiniteSet(1..MaxLines)
        /\ Cardinality(1..MaxLines) = IF 1 > MaxLines THEN 0 ELSE MaxLines - 1 + 1
    BY <2>1, FS_Interval
  <2> QED BY <2>1, <2>2
<1> QED BY <1>1, <1>2, FS_Product DEF Lines

\* A file has no more lines than there are: each of them stands there once.
LEMMA FileBounded ==
  ASSUME TypeOK, Filed(files, Passed, refused \cup skipped), Passed \subseteq Lines,
         NEW g \in 0..MaxFiles
  PROVE  Len(files[g]) <= MaxLines * Cardinality(Threads)
<1> DEFINE n == Len(files[g])
<1> DEFINE f == [i \in 1..n |-> files[g][i][2]]
<1>1. n \in Nat
  BY LenProperties DEF TypeOK
<1>2. ASSUME NEW i \in 1..n PROVE f[i] \in Lines /\ files[g][i] = Whole(f[i])
  <2>1. PICK id \in Passed : files[g][i] = Whole(id)
    BY <1>2 DEF Filed
  <2>2. f[i] = id
    BY <2>1 DEF Whole
  <2> QED BY <2>1, <2>2
<1> HIDE DEF n
<1>3. f \in [1..n -> Lines]
  BY <1>2
<1>4. \A i, j \in 1..n : f[i] = f[j] => i = j
  <2> HIDE DEF f
  <2> QED BY <1>2 DEF Filed, n
<1> HIDE DEF f
<1>5. f \in Injection(1..n, Lines)
  BY <1>3, <1>4 DEF Injection, IsInjective
<1>6. Cardinality(1..n) <= Cardinality(Lines)
  BY <1>5, LinesFinite, FS_Injection
<1>7. Cardinality(1..n) = n
  <2>1. Cardinality(1..n) = IF 1 > n THEN 0 ELSE n - 1 + 1
    BY <1>1, FS_Interval
  <2> QED BY <1>1, <2>1
<1>8. Cardinality(Threads) \in Nat
  <2>1. Threads = Others \cup {Main}
    BY DEF Threads
  <2>2. IsFiniteSet(Threads)
    BY <2>1, ThreadsAssumption, FS_AddElement
  <2> QED BY <2>2, FS_CardinalityType
<1>9. Cardinality(Threads) * MaxLines = MaxLines * Cardinality(Threads)
  BY <1>8, BoundsAssumption
<1> QED BY <1>6, <1>7, <1>9, LinesFinite DEF n

\* The lines that passed are lines.
LEMMA PassedType ==
  ASSUME TypeInv
  PROVE  Passed \subseteq Lines
<1>1. done \subseteq Lines
  BY DEF TypeInv, TypeOK
<1>2. \A t \in Threads : pc[t] = "clear" => LineOf(t) \in Lines
  BY LineType DEF LineOf
<1> QED BY <1>1, <1>2 DEF Passed

\* One line at the most meets the stream that SetAndOpenLogFile left open; and
\* as long as no two lines overlap, each of the others is found once and whole,
\* on stdout or in the log or one of its rotated files, unless the system
\* refused to open the file.
THEOREM LinesAreKept == Spec => []LinesKept
<1>1. ASSUME KeptInv PROVE Cardinality(skipped) <= 1
  <2>1. \A x, y \in skipped : x = y
    BY <1>1 DEF KeptInv, LinesInv, StreamInv, SkipOnce
  <2>2. CASE skipped = {}
    BY <2>2, FS_EmptySet
  <2>3. CASE skipped # {}
    <3>1. PICK x : skipped = {x}
      BY <2>1, <2>3
    <3>2. Cardinality({x}) = 1
      BY FS_Singleton
    <3> QED BY <3>1, <3>2
  <2> QED BY <2>2, <2>3
<1>2. ASSUME KeptInv, ~overlapped, NEW id \in done \ (refused \cup skipped)
      PROVE  Cardinality(Places(<<Stamp, id, Newline>>)) = 1
  <2>1. TypeInv /\ TypeOK /\ Filed(files, Passed, refused \cup skipped)
    BY <1>2 DEF KeptInv, LinesInv, StreamInv, TypeInv, InFiles
  <2>2. PICK g \in 0..MaxFiles : \E i \in 1..Len(files[g]) : files[g][i] = Whole(id)
    BY <1>2, <2>1 DEF Filed, Passed
  <2>3. PICK i \in 1..Len(files[g]) : files[g][i] = Whole(id)
    BY <2>2
  <2>4. \A h \in 0..MaxFiles : Len(files[h]) \in Nat
    BY <2>1, LenProperties DEF TypeOK
  <2> DEFINE m == MaxLines * Cardinality(Threads)
  <2>5. Len(files[g]) <= m
    BY <2>1, PassedType, FileBounded
  <2>6. m \in Nat
    <3>1. Threads = Others \cup {Main}
      BY DEF Threads
    <3>2. IsFiniteSet(Threads)
      BY <3>1, ThreadsAssumption, FS_AddElement
    <3>3. Cardinality(Threads) \in Nat
      BY <3>2, FS_CardinalityType
    <3> QED BY <3>3, BoundsAssumption
  <2> HIDE DEF m
  <2>7. i \in 1..m /\ i <= Len(files[g])
    BY <2>3, <2>4, <2>5, <2>6
  <2>8. <<g, i>> \in Places(Whole(id))
    BY <2>3, <2>7 DEF Places, m
  <2>9. ASSUME NEW p \in Places(Whole(id)) PROVE p = <<g, i>>
    <3>1. /\ p \in (0..MaxFiles) \X (1..m)
          /\ p[2] <= Len(files[p[1]]) /\ files[p[1]][p[2]] = Whole(id)
      BY <2>9 DEF Places, m
    <3>2. p[1] \in 0..MaxFiles /\ p[2] \in 1..m /\ p = <<p[1], p[2]>>
      BY <3>1
    <3>3. p[2] \in 1..Len(files[p[1]])
      BY <2>4, <2>6, <3>1, <3>2
    <3>4. p[1] = g /\ p[2] = i
      BY <2>1, <2>3, <3>1, <3>2, <3>3 DEF Filed
    <3> QED BY <3>2, <3>4
  <2>10. Places(Whole(id)) = {<<g, i>>}
    BY <2>8, <2>9
  <2>11. Cardinality(Places(Whole(id))) = 1
    BY <2>10, FS_Singleton
  <2> QED BY <2>11 DEF Whole
<1>3. KeptInv => LinesKept
  BY <1>1, <1>2 DEF LinesKept
<1> QED BY InitKeptInv, NextKeptInv, <1>3, PTL DEF Spec

=============================================================================
