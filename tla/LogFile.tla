------------------------------ MODULE LogFile ------------------------------
(***************************************************************************)
(* The log of the daemon (log_file.cpp) and the way main sets it up.  All  *)
(* threads write to one stream: characters gather in m_buffer outside any  *)
(* lock, and a newline sends the buffer to stdout or to the log file,      *)
(* which is opened and closed for each line so that logrotate may take it  *)
(* away at any moment.                                                     *)
(*                                                                         *)
(* A line is two pieces, its text and its newline.  m_buffer += piece is a *)
(* race: each thread reads the string and stores it longer, and one of two *)
(* such updates may be lost.  That a race may also corrupt memory is left  *)
(* out.  File number g is the one made by the g-th rotation, and file      *)
(* number 0 is stdout.                                                     *)
(***************************************************************************)
EXTENDS Integers, Sequences, FiniteSets

CONSTANTS Main,     \* the main thread
          Others,   \* the control thread and the streaming threads
          MaxLines, \* bound: lines of a thread
          MaxOther, \* bound: lines of a thread other than main
          MaxFiles  \* bound: files the log is rotated through

ASSUME BoundsAssumption == MaxLines \in Nat /\ MaxOther \in Nat /\ MaxFiles \in Nat \ {0}
ASSUME ThreadsAssumption ==
  /\ Main \notin Others /\ IsFiniteSet(Others)
  /\ "free" \notin {Main} \cup Others

VARIABLES main,        \* main: "options", "started", "running", "stopping" or "ended"
          m_disabled, m_logTo,
          m_buffer,
          m_logFile,   \* the ofstream: the file it is open on (0: none), and its failbit
          mutex,       \* who holds m_mutexLogFile, or "free"
          aborted,     \* the assertion of overflow has failed
          pc, seen,    \* of each thread: where it is and the m_buffer it read
          lines,       \* lines each thread has begun
          current,     \* the file that has the name now
          files,       \* the lines in each file
          began,       \* history: current when the thread's newline was there
          done,        \* history: the lines that went through
          refused,     \* history: lines whose open the system refused
          skipped,     \* history: lines that found the ofstream open
          overlapped   \* history: a thread began a line inside another one

Threads == {Main} \cup Others
stream == <<m_disabled, m_logTo, m_buffer, m_logFile, mutex, aborted>>
threadVars == <<pc, seen, lines>>
disk == <<current, files>>
history == <<began, done, refused, skipped, overlapped>>
vars == <<main, stream, threadVars, disk, history>>

Stamp == <<"stamp", 0>>
Newline == <<"newline", 0>>
Lines == Threads \X (1..MaxLines)
Pieces == {Stamp, Newline} \cup Lines

Init ==
  /\ main = "options"
  /\ m_disabled = FALSE /\ m_logTo = "NONE" /\ m_buffer = <<>>
  /\ m_logFile = [on |-> 0, fail |-> FALSE]
  /\ mutex = "free" /\ aborted = FALSE
  /\ pc = [t \in Threads |-> "idle"]
  /\ seen = [t \in Threads |-> <<>>]
  /\ lines = [t \in Threads |-> 0]
  /\ current = 1 /\ files = [g \in 0..MaxFiles |-> <<>>]
  /\ began = [t \in Threads |-> 0]
  /\ done = {} /\ refused = {} /\ skipped = {} /\ overlapped = FALSE

-----------------------------------------------------------------------------
(* The main thread.                                                        *)

\* Mutant of SetLogType: only a daemon logs to its file.
SetLogTypeDaemon(f, l) == IF f THEN "FILE" ELSE IF l THEN "NONE" ELSE "COUT"

\* Mutant of SetLogType: the option l adds the file to stdout.
SetLogTypeBoth(f, l) == IF f THEN "FILE" ELSE IF l THEN "COUT|FILE" ELSE "COUT"

\* Where the options f (daemon) and l (a log file) send the log.
SetLogType(f, l) == IF f \/ l THEN "FILE" ELSE "COUT"

\* SetAndOpenLogFile leaves the stream open.
SetAndOpenLogFile == [on |-> current, fail |-> FALSE]

\* The options are read and the log is set up.
Options(f, l, d) ==
  /\ main = "options"
  /\ m_disabled' = d
  /\ m_logTo' = SetLogType(f, l)
  /\ m_logFile' = IF f \/ l THEN SetAndOpenLogFile ELSE m_logFile
  /\ main' = "started"
  /\ UNCHANGED <<m_buffer, mutex, aborted, threadVars, disk, history>>

\* SetAndOpenLogFile or daemon fails, or no device is found: exit.
StartFails ==
  /\ main \in {"options", "started"}
  /\ pc[Main] = "idle"
  /\ main' = "ended"
  /\ UNCHANGED <<stream, threadVars, disk, history>>

\* HdhomerunController is there, and with it the other threads.
Run ==
  /\ main = "started"
  /\ pc[Main] = "idle"
  /\ main' = "running"
  /\ UNCHANGED <<stream, threadVars, disk, history>>

\* main returns after "Exiting", and the LogFile is destroyed.
End ==
  /\ main = IF m_disabled THEN "running" ELSE "stopping"
  /\ pc[Main] = "idle"
  /\ main' = "ended"
  /\ m_logFile' = [m_logFile EXCEPT !.on = 0]
  /\ UNCHANGED <<m_disabled, m_logTo, m_buffer, mutex, aborted, threadVars, disk, history>>

-----------------------------------------------------------------------------
(* A line of a thread: LOG() << text << endl.                              *)

\* The thread may go on: nothing has ended the process.
At(t, where) == pc[t] = where /\ main # "ended" /\ ~aborted

Go(t, where) == pc' = [pc EXCEPT ![t] = where]

\* Main has lines of its own as it starts, "Exiting" when a signal stops it,
\* and then those of the destructors; overflow returns at once when the log is
\* disabled.
Begin(t) ==
  /\ At(t, "idle") /\ ~m_disabled
  /\ lines[t] < MaxLines /\ (t # Main => lines[t] < MaxOther)
  /\ main \in {"running", "stopping"} \/ (t = Main /\ main = "started")
  /\ main' = IF t = Main /\ main = "running" THEN "stopping" ELSE main
  /\ lines' = [lines EXCEPT ![t] = @ + 1]
  /\ overlapped' = (overlapped \/ \E u \in Threads : pc[u] # "idle")
  /\ Go(t, "text")
  /\ UNCHANGED <<stream, seen, disk, began, done, refused, skipped>>

\* Of m_buffer += piece, the reading ...
Read(t) ==
  /\ \E w \in {"text", "newline"} :
       At(t, w) /\ Go(t, IF w = "text" THEN "store text" ELSE "store newline")
  /\ seen' = [seen EXCEPT ![t] = m_buffer]
  /\ UNCHANGED <<main, stream, lines, disk, history>>

\* ... and the storing, with a time stamp if the buffer was empty.
Put(t, piece) ==
  m_buffer' = (IF seen[t] = <<>> THEN <<Stamp>> ELSE seen[t]) \o <<piece>>

StoreText(t) ==
  /\ At(t, "store text")
  /\ Put(t, <<t, lines[t]>>)
  /\ seen' = [seen EXCEPT ![t] = <<>>]
  /\ Go(t, "newline")
  /\ UNCHANGED <<main, m_disabled, m_logTo, m_logFile, mutex, aborted, lines, disk, history>>

\* The newline: the assertion, and the way to stdout or to the file.
StoreNewline(t) ==
  /\ At(t, "store newline")
  /\ Put(t, Newline)
  /\ seen' = [seen EXCEPT ![t] = <<>>]
  /\ aborted' = (m_logTo = "NONE")
  /\ Go(t, IF m_logTo = "COUT" THEN "cout" ELSE "lock")
  /\ began' = [began EXCEPT ![t] = current]
  /\ UNCHANGED <<main, m_disabled, m_logTo, m_logFile, mutex, lines, disk,
                 done, refused, skipped, overlapped>>

\* cout << m_buffer.
Cout(t) ==
  /\ At(t, "cout")
  /\ files' = [files EXCEPT ![0] = @ \o <<m_buffer>>]
  /\ Go(t, "clear")
  /\ UNCHANGED <<main, stream, seen, lines, current, history>>

Lock(t) ==
  /\ At(t, "lock") /\ mutex = "free"
  /\ mutex' = t
  /\ Go(t, "open")
  /\ UNCHANGED <<main, m_disabled, m_logTo, m_buffer, m_logFile, aborted, seen, lines, disk, history>>

\* Mutant of Open: a stream that is open is taken as it is.
OpenUnlessOpen(t) ==
  /\ At(t, "open")
  /\ m_logFile' = IF m_logFile.on # 0 THEN m_logFile ELSE [on |-> current, fail |-> FALSE]
  /\ Go(t, "write")
  /\ UNCHANGED <<main, m_disabled, m_logTo, m_buffer, mutex, aborted, seen, lines, disk, history>>

\* ofstream::open.  On a stream that is open already it fails and leaves it
\* open, as the stream of SetAndOpenLogFile is at the first line.
Open(t) ==
  /\ At(t, "open")
  /\ IF m_logFile.on # 0
       THEN /\ m_logFile' = [m_logFile EXCEPT !.fail = TRUE]
            /\ skipped' = skipped \cup {<<t, lines[t]>>}
       ELSE /\ m_logFile' = [on |-> current, fail |-> FALSE]
            /\ UNCHANGED skipped
  /\ Go(t, "write")
  /\ UNCHANGED <<main, m_disabled, m_logTo, m_buffer, mutex, aborted, seen, lines, disk,
                 began, done, refused, overlapped>>

\* Mutant of OpenRefused: the way out keeps the mutex.
OpenRefusedKeepsMutex(t) ==
  /\ At(t, "open") /\ m_logFile.on = 0
  /\ m_logFile' = [m_logFile EXCEPT !.fail = TRUE]
  /\ refused' = refused \cup {<<t, lines[t]>>}
  /\ Go(t, "clear")
  /\ UNCHANGED <<main, m_disabled, m_logTo, m_buffer, mutex, aborted, seen, lines, disk,
                 began, done, skipped, overlapped>>

\* The user the daemon runs as may not open the file: "Can't reopen log file!!"
OpenRefused(t) ==
  /\ At(t, "open") /\ m_logFile.on = 0
  /\ m_logFile' = [m_logFile EXCEPT !.fail = TRUE]
  /\ refused' = refused \cup {<<t, lines[t]>>}
  /\ Go(t, "clear")
  /\ mutex' = "free"
  /\ UNCHANGED <<main, m_disabled, m_logTo, m_buffer, aborted, seen, lines, disk,
                 began, done, skipped, overlapped>>

\* Mutant of Write: the file is left open for the next line.
WriteLeavesOpen(t) ==
  /\ At(t, "write")
  /\ files' = [files EXCEPT ![m_logFile.on] =
                 IF m_logFile.fail THEN @ ELSE @ \o <<m_buffer>>]
  /\ mutex' = "free"
  /\ Go(t, "clear")
  /\ UNCHANGED <<main, m_disabled, m_logTo, m_buffer, m_logFile, aborted, seen, lines, current, history>>

\* write does nothing on a failed stream; close, and the mutex is free.
Write(t) ==
  /\ At(t, "write")
  /\ files' = [files EXCEPT ![m_logFile.on] =
                 IF m_logFile.fail THEN @ ELSE @ \o <<m_buffer>>]
  /\ m_logFile' = [m_logFile EXCEPT !.on = 0]
  /\ mutex' = "free"
  /\ Go(t, "clear")
  /\ UNCHANGED <<main, m_disabled, m_logTo, m_buffer, aborted, seen, lines, current, history>>

\* m_buffer.clear(), outside the mutex.
Clear(t) ==
  /\ At(t, "clear")
  /\ m_buffer' = <<>>
  /\ done' = done \cup {<<t, lines[t]>>}
  /\ began' = [began EXCEPT ![t] = 0]
  /\ Go(t, "idle")
  /\ UNCHANGED <<main, m_disabled, m_logTo, m_logFile, mutex, aborted, seen, lines, disk,
                 refused, skipped, overlapped>>

-----------------------------------------------------------------------------
\* logrotate moves the file away; the name gets a new one.
Rotate ==
  /\ current < MaxFiles /\ main # "ended"
  /\ current' = current + 1
  /\ UNCHANGED <<main, stream, threadVars, files, history>>

Step(t) ==
  \/ Read(t) \/ StoreText(t) \/ StoreNewline(t) \/ Cout(t)
  \/ Lock(t) \/ Open(t) \/ Write(t) \/ Clear(t)

Next ==
  \/ \E f, l, d \in BOOLEAN : Options(f, l, d)
  \/ StartFails \/ Run \/ End \/ Rotate
  \/ \E t \in Threads : Begin(t) \/ Step(t) \/ OpenRefused(t)

Spec == Init /\ [][Next]_vars

\* A thread that is in a line goes on, and gets the mutex when it is free.
FairSpec == Spec /\ \A t \in Threads : WF_vars(Step(t)) /\ SF_vars(Lock(t))

-----------------------------------------------------------------------------
(* Properties.                                                             *)

\* Every variable holds a value of its kind.
TypeOK ==
  /\ main \in {"options", "started", "running", "stopping", "ended"}
  /\ m_disabled \in BOOLEAN /\ m_logTo \in {"NONE", "COUT", "FILE"}
  /\ m_logFile \in [on : 0..MaxFiles, fail : BOOLEAN]
  /\ mutex \in Threads \cup {"free"}
  /\ aborted \in BOOLEAN
  /\ pc \in [Threads -> {"idle", "text", "store text", "newline", "store newline",
                         "cout", "lock", "open", "write", "clear"}]
  /\ lines \in [Threads -> 0..MaxLines]
  /\ current \in 1..MaxFiles
  /\ m_buffer \in Seq(Pieces) /\ seen \in [Threads -> Seq(Pieces)]
  /\ files \in [0..MaxFiles -> Seq(Seq(Pieces))]
  /\ began \in [Threads -> 0..MaxFiles]
  /\ done \subseteq Lines /\ refused \subseteq Lines /\ skipped \subseteq Lines
  /\ overlapped \in BOOLEAN

\* overflow asserts "m_logTo != LogFile::NONE": whatever the options, main has
\* chosen a place for the log before the first line.
NoAbort == ~aborted

Places(line) == {p \in (0..MaxFiles) \X (1..MaxLines * Cardinality(Threads)) :
                   p[2] <= Len(files[p[1]]) /\ files[p[1]][p[2]] = line}

\* Until the lines of two threads overlap, each line is found once and whole, on
\* stdout or in the log or one of its rotated files, unless the system refuses
\* to open the file.  One line is an exception and no more than one in the
\* life of the daemon, also where lines overlap: the first, for which
\* SetAndOpenLogFile has left the stream open.
LinesKept ==
  /\ Cardinality(skipped) <= 1
  /\ ~overlapped =>
       \A id \in done \ (refused \cup skipped) :
         Cardinality(Places(<<Stamp, id, Newline>>)) = 1

\* "Logrotate moves files at xx:yy ... So we need to open/close on each write":
\* a line never goes to a file that was moved away before its newline came.
NeverToOldFile ==
  [][\A g \in 1..MaxFiles : files'[g] # files[g] =>
       \E t \in Threads : pc[t] = "write" /\ pc'[t] # "write" /\ g >= began[t]]_vars

\* A thread that logs gets back to its work: the mutex comes free on every way
\* through overflow.
LinesEnd == \A t \in Threads : pc[t] # "idle" ~> pc[t] = "idle" \/ main = "ended"

=============================================================================
