--------------------------- MODULE ControlChannel ---------------------------
(***************************************************************************)
(* The control channel between the kernel driver and the daemon            *)
(* userhdhomerun: /dev/hdhomerun_control.                                  *)
(*                                                                         *)
(* A DVB operation (start_feed, stop_feed, set_frontend, read_status,      *)
(* read_signal_strength) runs in the kernel in the thread of the program   *)
(* that asked for it, a "caller".  It posts a fixed size message into      *)
(* control_fifo_user and sleeps until control_fifo_kernel is not empty     *)
(* (dvb_hdhomerun_core.c).  The daemon's control thread selects on the     *)
(* device, reads one message, runs the handler of its type and writes the  *)
(* same message back (dvb_hdhomerun_control.c, hdhomerun_control.cpp).     *)
(* Nothing but the order of the bytes ties an answer to a request.         *)
(*                                                                         *)
(* Bytes.  The fifos hold bytes and a put may be partial, so messages are  *)
(* not kept whole.  A byte is named by its place in the stream of          *)
(* everything ever posted: the k-th message consists of the bytes          *)
(* (k-1)*MesgSize + 1 .. k*MesgSize.  An answer carries the bytes of the   *)
(* message it was made from.  Junk is what a short read leaves of the      *)
(* daemon's stack in the message.                                          *)
(***************************************************************************)
EXTENDS Kfifo, FiniteSets

CONSTANTS Callers,    \* threads that call a DVB operation
          Signalled,  \* those of them that a signal may interrupt
          Tuners,     \* tuners the daemon registers, one open file for each
          MesgSize,   \* sizeof(struct dvbhdhomerun_control_mesg)
          BufSize,    \* control_bufsize
          MaxPosts,   \* bound: messages ever posted
          MaxStarts   \* bound: starts of the daemon

ASSUME CallersAssumption == Signalled \subseteq Callers
ASSUME MesgSizeAssumption == MesgSize \in Nat \ {0}
ASSUME BufSizeAssumption == BufSize \in Nat \ {0}
ASSUME BoundsAssumption == MaxPosts \in Nat /\ MaxStarts \in Nat
ASSUME TunersAssumption == "write" \notin Tuners /\ "read" \notin Tuners

VARIABLES control_fifo_user,    \* kernel -> daemon
          control_fifo_kernel,  \* daemon -> kernel
          wait_for_write,       \* TRUE: a write of the daemon is stored, not ignored
          userspace_ready,      \* TRUE: a post is stored
          pc,                   \* where each caller is
          request,              \* bytes ever posted before each caller's message
          got,                  \* what each caller's wait returned in *mesg
          ret,                  \* what post_and_wait returns to each caller
          dpc,                  \* where the daemon is
          dbuf,                 \* the bytes of mesg in the daemon's hands
          files,                \* the daemon's open files of the device
          starts,               \* how often the daemon was started
          posted,               \* bytes ever posted
          taken                 \* the last posted byte a caller was given back

callerVars == <<pc, request, got, ret>>
daemonVars == <<dpc, dbuf, files, starts>>
flags == <<wait_for_write, userspace_ready>>
fifos == <<control_fifo_user, control_fifo_kernel>>
history == <<posted, taken>>
vars == <<callerVars, daemonVars, flags, fifos, history>>

Junk == 0
NoBuffer == -1     \* post_message: no daemon, or no room
ERESTARTSYS == 512

Files == Tuners \cup {"write", "read"}

\* The message posted after base bytes.
Message(base) == [i \in 1..MesgSize |-> base + i]

\* What read() leaves in the daemon's struct when it returned the bytes got.
Padded(bytes) == [i \in 1..MesgSize |-> IF i <= Len(bytes) THEN bytes[i] ELSE Junk]

\* The first byte of some message: the daemon finds a type there that it knows.
IsMessageStart(byte) == byte % MesgSize = 1 % MesgSize /\ byte # Junk

Init ==
  /\ control_fifo_user = <<>> /\ control_fifo_kernel = <<>>
  /\ wait_for_write = FALSE /\ userspace_ready = FALSE
  /\ pc = [c \in Callers |-> "idle"]
  /\ request = [c \in Callers |-> 0]
  /\ got = [c \in Callers |-> <<>>]
  /\ ret = [c \in Callers |-> 0]
  /\ dpc = "down" /\ dbuf = <<>> /\ files = {} /\ starts = 0
  /\ posted = 0 /\ taken = 0

-----------------------------------------------------------------------------
(* The caller: hdhomerun_control_post_and_wait.  post_message reads        *)
(* userspace_ready and then puts; wait_for_message arms wait_for_write,    *)
(* sleeps, and then gets: other threads run between these steps.           *)

\* Messages posted and about to be posted, for the bound on calls.
Posting == posted \div MesgSize + Cardinality({c \in Callers : pc[c] \in {"check", "put"}})

\* A DVB operation fills in a message and posts it.
Call(c) ==
  /\ pc[c] = "idle"
  /\ Posting < MaxPosts
  /\ pc' = [pc EXCEPT ![c] = "check"]
  /\ UNCHANGED <<request, got, ret, daemonVars, flags, fifos, history>>

\* if(userspace_ready)
PostCheck(c) ==
  /\ pc[c] = "check"
  /\ IF userspace_ready
     THEN pc' = [pc EXCEPT ![c] = "put"] /\ UNCHANGED ret
     ELSE pc' = [pc EXCEPT ![c] = "returned"] /\ ret' = [ret EXCEPT ![c] = NoBuffer]
  /\ UNCHANGED <<request, got, daemonVars, flags, fifos, history>>

\* The put.  A message that does not fit is cut and its head stays posted.
PostPut(c) ==
  /\ pc[c] = "put"
  /\ request' = [request EXCEPT ![c] = posted]
  /\ posted' = posted + MesgSize
  /\ control_fifo_user' = KfifoPut(control_fifo_user, BufSize, Message(posted))
  /\ IF KfifoRoom(control_fifo_user, BufSize, Message(posted)) < MesgSize
     THEN pc' = [pc EXCEPT ![c] = "returned"] /\ ret' = [ret EXCEPT ![c] = NoBuffer]
     ELSE pc' = [pc EXCEPT ![c] = "arm"] /\ UNCHANGED ret
  /\ UNCHANGED <<got, daemonVars, flags, control_fifo_kernel, taken>>

\* wait_for_write = 1
WaitArm(c) ==
  /\ pc[c] = "arm"
  /\ wait_for_write' = TRUE
  /\ pc' = [pc EXCEPT ![c] = "wait"]
  /\ UNCHANGED <<request, got, ret, daemonVars, userspace_ready, fifos, history>>

\* wait_event_interruptible finds the fifo not empty.
WaitWake(c) ==
  /\ pc[c] = "wait"
  /\ control_fifo_kernel # <<>>
  /\ pc' = [pc EXCEPT ![c] = "get"]
  /\ UNCHANGED <<request, got, ret, daemonVars, flags, fifos, history>>

\* wait_event_interruptible finds the fifo empty and a signal pending.
WaitInterrupted(c) ==
  /\ pc[c] = "wait" /\ c \in Signalled
  /\ control_fifo_kernel = <<>>
  /\ wait_for_write' = FALSE
  /\ pc' = [pc EXCEPT ![c] = "returned"]
  /\ ret' = [ret EXCEPT ![c] = -ERESTARTSYS]
  /\ UNCHANGED <<request, got, daemonVars, userspace_ready, fifos, history>>

\* Mutant of WaitGet: the answer is read and left in the fifo.
WaitGetPeeks(c) ==
  /\ pc[c] = "get"
  /\ got' = [got EXCEPT ![c] = KfifoGet(control_fifo_kernel, MesgSize)]
  /\ ret' = [ret EXCEPT ![c] = Len(got'[c])]
  /\ taken' \in {got'[c][i] : i \in DOMAIN got'[c]} /\ \A i \in DOMAIN got'[c] : got'[c][i] <= taken'
  /\ pc' = [pc EXCEPT ![c] = "returned"]
  /\ UNCHANGED <<request, daemonVars, flags, fifos, posted>>

\* The get, of whatever is in the fifo by now; its length is the result.
WaitGet(c) ==
  /\ pc[c] = "get"
  /\ LET answer == KfifoGet(control_fifo_kernel, MesgSize)
         given == {taken} \cup {answer[i] : i \in DOMAIN answer}
     IN /\ got' = [got EXCEPT ![c] = answer]
        /\ ret' = [ret EXCEPT ![c] = Len(answer)]
        /\ taken' \in given /\ \A b \in given : b <= taken'
  /\ control_fifo_kernel' = KfifoLeft(control_fifo_kernel, MesgSize)
  /\ pc' = [pc EXCEPT ![c] = "returned"]
  /\ UNCHANGED <<request, daemonVars, flags, control_fifo_user, posted>>

\* The operation hands its result to the program.
Return(c) ==
  /\ pc[c] = "returned"
  /\ pc' = [pc EXCEPT ![c] = "idle"]
  /\ request' = [request EXCEPT ![c] = 0]
  /\ got' = [got EXCEPT ![c] = <<>>]
  /\ ret' = [ret EXCEPT ![c] = 0]
  /\ UNCHANGED <<daemonVars, flags, fifos, history>>

-----------------------------------------------------------------------------
(* The daemon.  It opens the device for writing (Control's constructor),   *)
(* once more for every tuner it registers (Control::Ioctl, never closed)   *)
(* and, in the control thread, for reading (Control::run).                 *)

\* hdhomerun_control_open, called for file f.
ControlOpen(f) ==
  /\ files' = files \cup {f}
  /\ userspace_ready' = TRUE
  /\ UNCHANGED <<wait_for_write, fifos>>

\* The constructor of Control, in a new process.
DaemonStart ==
  /\ dpc = "down"
  /\ starts < MaxStarts
  /\ starts' = starts + 1
  /\ ControlOpen("write")
  /\ dpc' = "starting"
  /\ UNCHANGED <<callerVars, dbuf, history>>

\* Control::Ioctl, for a tuner not registered yet in this process.
DaemonIoctl(t) ==
  /\ dpc = "starting"
  /\ t \notin files
  /\ ControlOpen(t)
  /\ UNCHANGED <<callerVars, dpc, dbuf, starts, history>>

\* Control::run opens the device, after the last tuner was registered.
DaemonRun ==
  /\ dpc = "starting"
  /\ Tuners \subseteq files
  /\ ControlOpen("read")
  /\ dpc' = "select"
  /\ UNCHANGED <<callerVars, dbuf, starts, history>>

\* Mutant of ControlRead: the message stays in the fifo and is read again.
ControlReadPeeks ==
  /\ dpc = "select"
  /\ control_fifo_user # <<>>
  /\ dbuf' = Padded(KfifoGet(control_fifo_user, MesgSize))
  /\ dpc' = "process"
  /\ UNCHANGED <<callerVars, files, starts, flags, fifos, history>>

\* Mutant of ControlRead: the device is readable with more than one message.
ControlReadOffByOne ==
  /\ dpc = "select"
  /\ Len(control_fifo_user) > MesgSize
  /\ dbuf' = Padded(KfifoGet(control_fifo_user, MesgSize))
  /\ control_fifo_user' = KfifoLeft(control_fifo_user, MesgSize)
  /\ dpc' = "process"
  /\ UNCHANGED <<callerVars, files, starts, flags, control_fifo_kernel, history>>

\* select() finds the device readable and read() gets one message, or as
\* much of one as there is (hdhomerun_control_poll, hdhomerun_control_read).
ControlRead ==
  /\ dpc = "select"
  /\ control_fifo_user # <<>>
  /\ dbuf' = Padded(KfifoGet(control_fifo_user, MesgSize))
  /\ control_fifo_user' = KfifoLeft(control_fifo_user, MesgSize)
  /\ dpc' = "process"
  /\ UNCHANGED <<callerVars, files, starts, flags, control_fifo_kernel, history>>

\* ProcessMessages with a type that has a handler; every handler ends in
\* WriteToDevice.  A message that begins in the middle of another one may
\* show any type.
Process ==
  /\ dpc = "process"
  /\ dpc' = "write"
  /\ UNCHANGED <<callerVars, dbuf, files, starts, flags, fifos, history>>

\* Mutant of ProcessUnknown: a type that the kernel posts has no handler.
ProcessForgetsAType ==
  /\ dpc = "process"
  /\ dbuf' = <<>>
  /\ dpc' = "select"
  /\ UNCHANGED <<callerVars, files, starts, flags, fifos, history>>

\* ProcessMessages with a type that has none: logged, not answered.
ProcessUnknown ==
  /\ dpc = "process"
  /\ ~IsMessageStart(dbuf[1])
  /\ dbuf' = <<>>
  /\ dpc' = "select"
  /\ UNCHANGED <<callerVars, files, starts, flags, fifos, history>>

\* hdhomerun_control_write while nobody waits: reported as written.
WriteIgnored ==
  /\ dpc = "write"
  /\ ~wait_for_write
  /\ dbuf' = <<>>
  /\ dpc' = "select"
  /\ UNCHANGED <<callerVars, files, starts, flags, fifos, history>>

\* hdhomerun_control_write sees the flag and tests for a full fifo.
WriteCheck ==
  /\ dpc = "write"
  /\ wait_for_write
  /\ dpc' = IF Len(control_fifo_kernel) = BufSize THEN "asleep" ELSE "put"
  /\ UNCHANGED <<callerVars, dbuf, files, starts, flags, fifos, history>>

\* Mutant of WritePut: a write that is not limited to the room in the fifo.
WritePutOverruns ==
  /\ dpc = "put"
  /\ control_fifo_kernel' = control_fifo_kernel \o dbuf
  /\ dbuf' = <<>>
  /\ dpc' = "select"
  /\ UNCHANGED <<callerVars, files, starts, flags, control_fifo_user, history>>

\* The put.  The stream of WriteToDevice writes again what was not stored.
WritePut ==
  /\ dpc = "put"
  /\ control_fifo_kernel' = KfifoPut(control_fifo_kernel, BufSize, dbuf)
  /\ dbuf' = KfifoUnput(control_fifo_kernel, BufSize, dbuf)
  /\ dpc' = IF dbuf' = <<>> THEN "select" ELSE "write"
  /\ UNCHANGED <<callerVars, files, starts, flags, control_fifo_user, history>>

\* The daemon is stopped between two messages, or killed.  A kill takes
\* effect outside a system call, or in one that sleeps: not before the put.
DaemonExit ==
  /\ dpc \notin {"down", "exiting", "reset", "put"}
  /\ dpc' = "exiting"
  /\ dbuf' = <<>>
  /\ UNCHANGED <<callerVars, files, starts, flags, fifos, history>>

\* Mutant of ReleaseReset: the fifo of the answers is not reset.
ReleaseKeepsAnswers ==
  /\ dpc = "exiting" /\ files # {}
  /\ control_fifo_user' = <<>>
  /\ dpc' = "reset"
  /\ UNCHANGED <<callerVars, dbuf, files, starts, flags, control_fifo_kernel, history>>

\* hdhomerun_control_release, called for one of the files, empties the fifos.
\* Callers run between this and the next step.
ReleaseReset ==
  /\ dpc = "exiting" /\ files # {}
  /\ control_fifo_kernel' = <<>>
  /\ control_fifo_user' = <<>>
  /\ dpc' = "reset"
  /\ UNCHANGED <<callerVars, dbuf, files, starts, flags, history>>

\* Mutant of ControlRelease: userspace_ready is not cleared.
ReleaseStaysReady(f) ==
  /\ dpc = "reset"
  /\ f \in files
  /\ files' = files \ {f}
  /\ wait_for_write' = FALSE
  /\ dpc' = IF files' = {} THEN "down" ELSE "exiting"
  /\ UNCHANGED <<callerVars, dbuf, starts, userspace_ready, fifos, history>>

\* The rest of the release, of file f: both flags are cleared.
ControlRelease(f) ==
  /\ dpc = "reset"
  /\ f \in files
  /\ files' = files \ {f}
  /\ wait_for_write' = FALSE
  /\ userspace_ready' = FALSE
  /\ dpc' = IF files' = {} THEN "down" ELSE "exiting"
  /\ UNCHANGED <<callerVars, dbuf, starts, fifos, history>>

-----------------------------------------------------------------------------
CallerStep(c) ==
  \/ PostCheck(c) \/ PostPut(c) \/ WaitArm(c) \/ WaitWake(c) \/ WaitGet(c)
  \/ Return(c)

DaemonStep ==
  \/ ControlRead \/ Process \/ ProcessUnknown
  \/ WriteIgnored \/ WriteCheck \/ WritePut

Next ==
  \/ \E c \in Callers : Call(c) \/ CallerStep(c) \/ WaitInterrupted(c)
  \/ DaemonStart \/ (\E t \in Tuners : DaemonIoctl(t)) \/ DaemonRun
  \/ DaemonStep
  \/ DaemonExit \/ ReleaseReset \/ (\E f \in files : ControlRelease(f))

Spec == Init /\ [][Next]_vars

\* The kernel runs a caller that can run, and the daemon's thread.  Nobody
\* has to call, to signal, to start or to stop the daemon.
FairSpec ==
  /\ Spec
  /\ \A c \in Callers : WF_vars(CallerStep(c))
  /\ WF_vars(DaemonStep)

-----------------------------------------------------------------------------
(* Properties.                                                             *)

CallerPlaces == {"idle", "check", "put", "arm", "wait", "get", "returned"}
DaemonPlaces ==
  {"down", "starting", "select", "process", "write", "put", "asleep", "exiting", "reset"}

\* Every variable holds a value of its kind, and no fifo outgrows the buffer
\* that dvb_hdhomerun_control_init allocated for it.
TypeOK ==
  /\ control_fifo_user \in Seq(Nat) /\ Len(control_fifo_user) <= BufSize
  /\ control_fifo_kernel \in Seq(Nat) /\ Len(control_fifo_kernel) <= BufSize
  /\ wait_for_write \in BOOLEAN /\ userspace_ready \in BOOLEAN
  /\ pc \in [Callers -> CallerPlaces]
  /\ request \in [Callers -> Nat]
  /\ got \in [Callers -> Seq(Nat)]
  /\ ret \in [Callers -> Int]
  /\ dpc \in DaemonPlaces
  /\ dbuf \in Seq(Nat)
  /\ files \subseteq Files
  /\ starts \in Nat /\ posted \in Nat /\ taken \in Nat

\* The posted bytes in s are in the order in which they were posted.
Ascending(s) ==
  \A i, j \in DOMAIN s : i < j /\ s[i] # Junk /\ s[j] # Junk => s[i] < s[j]

\* Every posted byte in s was posted before every posted byte in t.
Before(s, t) ==
  \A i \in DOMAIN s, j \in DOMAIN t : s[i] # Junk /\ t[j] # Junk => s[i] < t[j]

\* The posted bytes in s are newer than byte lo and not newer than byte hi.
Within(s, lo, hi) == \A i \in DOMAIN s : s[i] # Junk => lo < s[i] /\ s[i] <= hi

\* Requests are answered in the order they were posted and none twice: what
\* is in the two fifos and in the daemon's hands is in posting order, and
\* newer than anything a caller was given (core.c's only way to match an
\* answer with its request), through interrupted callers, cut messages,
\* ignored writes and restarts of the daemon.
InOrder ==
  /\ taken <= posted
  /\ Ascending(control_fifo_kernel) /\ Ascending(dbuf) /\ Ascending(control_fifo_user)
  /\ Before(control_fifo_kernel, dbuf) /\ Before(dbuf, control_fifo_user)
  /\ Before(control_fifo_kernel, control_fifo_user)
  /\ Within(control_fifo_kernel, taken, posted)
  /\ Within(dbuf, taken, posted)
  /\ Within(control_fifo_user, taken, posted)

\* No answer of one daemon is left for the next: hdhomerun_control_release
\* resets the fifo and nothing can write into it until the next open.
FreshAnswers == files = {} => control_fifo_kernel = <<>> /\ dbuf = <<>>

\* A post is stored only while the daemon has the device open, and is never
\* refused for want of a daemon while its thread serves, although each of
\* several open and release calls overwrites userspace_ready.
ReadyIsServing ==
  /\ userspace_ready => files # {}
  /\ dpc \notin {"down", "exiting", "reset"} => userspace_ready

\* A caller that was given an answer was given the answer to its own request
\* (hdhomerun_control_post_and_wait: "Now we wait for userspace to return to
\* us").
OwnAnswer ==
  \A c \in Callers :
    pc[c] = "returned" /\ ret[c] > 0 => got[c] = Message(request[c])

\* The daemon stays up from some time on.
Serves == <>[](dpc \in {"select", "process", "write", "put", "asleep"})

\* No write of the daemon is ever ignored.
NoneIgnored == [](dpc = "write" => wait_for_write)

\* No message is ever cut: who is about to put finds room.
NoneCut == [](\A c \in Callers : pc[c] = "put" => Len(control_fifo_user) + MesgSize <= BufSize)

\* The daemon never falls asleep on a full fifo, from which nobody wakes it.
NeverAsleep == [](dpc # "asleep")

\* A daemon that stays up leaves a caller asleep for ever in three ways only:
\* it ignored a write, a message was cut, or it fell asleep itself.  If none of
\* them happens every wait ends, whichever callers take whose answers and
\* however many give up on theirs.
WaitsEnd ==
  [](dpc # "exiting") /\ Serves /\ NoneIgnored /\ NoneCut /\ NeverAsleep =>
    \A c \in Callers : pc[c] = "wait" ~> pc[c] # "wait"

\* With a daemon that stays up every wait ends (hdhomerun_control_post_and_wait:
\* "Now we wait for userspace to return to us").
EveryWaitEnds == Serves => \A c \in Callers : pc[c] = "wait" ~> pc[c] # "wait"

=============================================================================
