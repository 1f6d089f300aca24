---------------------------- MODULE TunerStream ----------------------------
(***************************************************************************)
(* One tuner of the daemon: the pid filter, the stream of the HDHomeRun    *)
(* device and the thread that copies it to the data device                 *)
(* (hdhomerun_tuner.cpp, thread_pthread.cpp, ~HdhomerunController).        *)
(*                                                                         *)
(* Three kinds of threads work on it without locks: the control thread     *)
(* runs StartStreaming and StopStreaming for the feeds the kernel starts   *)
(* and stops, every start() creates a streaming thread, and the main       *)
(* thread stops and deletes the tuner at the end of the program.  A thread *)
(* counts as running from when it has itself set m_running.                *)
(***************************************************************************)
EXTENDS Integers, Sequences, FiniteSets

CONSTANTS Feeds,       \* feeds of the demultiplexer
          PidOf,       \* the pid of each feed
          PassAll,     \* pid 0x2000
          MaxThreads   \* bound: streaming threads ever created

ASSUME PidOfAssumption == DOMAIN PidOf = Feeds
ASSUME MaxThreadsAssumption == MaxThreads \in Nat

VARIABLES m_pidFilters,  \* the pids to be let through; empty: all
          filter,        \* the pids the device lets through
          streaming,     \* the device streams
          m_stream, m_stop, m_running,
          threads,       \* where each streaming thread is
          cpc,           \* where the control thread is
          mpc,           \* where the main thread is; "exited": no process
          active,        \* feeds that the kernel has started
          lost,          \* kinds of calls of which the last one failed, unnoticed
          disturbed      \* history: feeds that another feed with their pid, or one
                         \* of all pids beside one of a single pid, got in the way of

filterVars == <<m_pidFilters, filter, active, disturbed>>
vars == <<filterVars, streaming, m_stream, m_stop, m_running, threads, cpc, mpc, lost>>

Pids == {PidOf[f] : f \in Feeds}

\* The constructor.  Its pass-all filter may not have reached the device.
Init ==
  /\ m_pidFilters = {} /\ filter \in {Pids, {}} /\ active = {} /\ disturbed = {}
  /\ lost = {}
  /\ streaming = FALSE /\ m_stream = FALSE /\ m_stop = FALSE /\ m_running = FALSE
  /\ threads = <<>> /\ cpc = "idle" /\ mpc = "up"

-----------------------------------------------------------------------------
(* The pid filter.                                                         *)

\* Mutant of AddPidToFilter: 0x2000 is a pid like any other.
AddAnyPidToFilter(pid) == m_pidFilters \cup {pid}

\* A feed of all pids empties the list.
AddPidToFilter(pid) == IF pid = PassAll THEN {} ELSE m_pidFilters \cup {pid}

\* A pid that is not in the list is ignored.
RemovePidFromFilter(pid) == m_pidFilters \ {pid}

\* GetStrFromPidFilter: what the device makes of an empty list is "all".
GetStrFromPidFilter(pids) == IF pids = {} THEN Pids ELSE pids

-----------------------------------------------------------------------------
(* Commands of libhdhomerun to the device, and pthread_create: StartStreaming *)
(* and StopStreaming do not look at their results.                         *)

\* A call of the given kind succeeds, and what it is about is then as new, or
\* fails and leaves it as it was.
Command(kind, state, new, old) ==
  \/ state = new /\ lost' = lost \ {kind}
  \/ state = old /\ lost' = lost \cup {kind}

-----------------------------------------------------------------------------
(* Feeds that get in each other's way (history, no code).                  *)

\* The start of f takes pids from feeds that were there before.
DisturbedByStart(f) == {g \in active : (PidOf[f] = PassAll) # (PidOf[g] = PassAll)}

\* The end of f takes its pid, and the stream of a feed of all pids.
DisturbedByStop(f) == {g \in active \ {f} : PidOf[g] \in {PidOf[f], PassAll}}

-----------------------------------------------------------------------------
(* The control thread.                                                     *)

\* Mutant of StartFilter: the device gets the list as it was before.
StartFilterOldList(f) ==
  /\ mpc = "up" /\ cpc = "idle" /\ f \notin active
  /\ m_stream \/ Len(threads) < MaxThreads
  /\ m_pidFilters' = AddPidToFilter(PidOf[f])
  /\ Command("filter", filter', GetStrFromPidFilter(m_pidFilters), filter)
  /\ active' = active \cup {f}
  /\ disturbed' = disturbed \cup DisturbedByStart(f)
  /\ cpc' = IF m_stream THEN "idle" ELSE "begin"
  /\ UNCHANGED <<streaming, m_stream, m_stop, m_running, threads, mpc>>

\* StartStreaming for a feed: the filter first.
StartFilter(f) ==
  /\ mpc = "up" /\ cpc = "idle" /\ f \notin active
  /\ m_stream \/ Len(threads) < MaxThreads
  /\ m_pidFilters' = AddPidToFilter(PidOf[f])
  /\ Command("filter", filter', GetStrFromPidFilter(m_pidFilters'), filter)
  /\ active' = active \cup {f}
  /\ disturbed' = disturbed \cup DisturbedByStart(f)
  /\ cpc' = IF m_stream THEN "idle" ELSE "begin"
  /\ UNCHANGED <<streaming, m_stream, m_stop, m_running, threads, mpc>>

\* Then, if there is no stream, hdhomerun_device_stream_start and m_stream,
StartSet ==
  /\ cpc = "begin"
  /\ Command("stream", streaming', TRUE, streaming)
  /\ m_stream' = TRUE
  /\ cpc' = "create"
  /\ UNCHANGED <<filterVars, m_stop, m_running, threads, mpc>>

\* and start(): pthread_create, which may fail.
StartThread ==
  /\ cpc = "create"
  /\ Command("thread", threads', Append(threads, "created"), threads)
  /\ cpc' = "idle"
  /\ UNCHANGED <<filterVars, streaming, m_stream, m_stop, m_running, mpc>>

\* Mutant of StartStream: start() comes before m_stream is set.
StartStreamSwapped ==
  \/ /\ cpc = "begin"
     /\ Command("thread", threads', Append(threads, "created"), threads)
     /\ cpc' = "create"
     /\ UNCHANGED <<filterVars, streaming, m_stream, m_stop, m_running, mpc>>
  \/ /\ cpc = "create"
     /\ Command("stream", streaming', TRUE, streaming)
     /\ m_stream' = TRUE
     /\ cpc' = "idle"
     /\ UNCHANGED <<filterVars, m_stop, m_running, threads, mpc>>

\* The rest of StartStreaming.
StartStream == StartSet \/ StartThread

\* Mutant of StopFilter: the list is tested before the pid is taken out.
StopFilterTestsFirst(f) ==
  /\ mpc = "up" /\ cpc = "idle" /\ f \in active
  /\ m_pidFilters' = RemovePidFromFilter(PidOf[f])
  /\ active' = active \ {f}
  /\ disturbed' = (disturbed \cup DisturbedByStop(f)) \ {f}
  /\ IF m_pidFilters = {} /\ m_stream
     THEN m_stream' = FALSE /\ cpc' = "finish"
     ELSE UNCHANGED <<m_stream, cpc>>
  /\ UNCHANGED <<filter, streaming, m_stop, m_running, threads, mpc, lost>>

\* StopStreaming for a feed: if no pid is left, m_stream is taken back.
StopFilter(f) ==
  /\ mpc = "up" /\ cpc = "idle" /\ f \in active
  /\ m_pidFilters' = RemovePidFromFilter(PidOf[f])
  /\ active' = active \ {f}
  /\ disturbed' = (disturbed \cup DisturbedByStop(f)) \ {f}
  /\ IF m_pidFilters' = {} /\ m_stream
     THEN m_stream' = FALSE /\ cpc' = "finish"
     ELSE UNCHANGED <<m_stream, cpc>>
  /\ UNCHANGED <<filter, streaming, m_stop, m_running, threads, mpc, lost>>

\* The loop on isFinished() ends and hdhomerun_device_stream_stop follows.
StopStream ==
  /\ cpc = "finish"
  /\ ~m_running
  /\ Command("stream", streaming', FALSE, streaming)
  /\ cpc' = "idle"
  /\ UNCHANGED <<filterVars, m_stream, m_stop, m_running, threads, mpc>>

-----------------------------------------------------------------------------
(* A streaming thread.                                                     *)

\* Streaming thread t goes from one place to another.
Goto(t, from, to) ==
  /\ threads[t] = from
  /\ threads' = [threads EXCEPT ![t] = to]
  /\ UNCHANGED <<filterVars, streaming, m_stream, m_stop, cpc, mpc, lost>>

\* threadEntryFunc begins; run opens the data device.
ThreadEnter(t) == Goto(t, "created", "test") /\ m_running' = TRUE

\* Mutant of ThreadTest: the loop of run does not look at m_stop.
ThreadTestStreamOnly(t) ==
  /\ Goto(t, "test", IF m_stream THEN "copy" ELSE "leave")
  /\ UNCHANGED m_running

\* The condition of the loop of run.
ThreadTest(t) ==
  /\ Goto(t, "test", IF m_stream /\ ~m_stop THEN "copy" ELSE "leave")
  /\ UNCHANGED m_running

\* hdhomerun_device_stream_recv and the write to the data device.
ThreadCopy(t) == Goto(t, "copy", "test") /\ UNCHANGED m_running

\* Mutant of ThreadLeave: m_running is not taken back.
ThreadLeaveRunning(t) == Goto(t, "leave", "done") /\ UNCHANGED m_running

\* threadEntryFunc ends.
ThreadLeave(t) == Goto(t, "leave", "done") /\ m_running' = FALSE

\* run cannot open the data device: _exit ends the whole process at once.
ThreadNoDevice(t) ==
  /\ threads[t] = "created" /\ mpc # "deleted"
  /\ threads' = [u \in DOMAIN threads |-> "done"]
  /\ cpc' = "idle" /\ mpc' = "exited" /\ m_running' = FALSE
  /\ UNCHANGED <<filterVars, streaming, m_stream, m_stop, lost>>

-----------------------------------------------------------------------------
(* The main thread: ~HdhomerunController, after the control thread ended.  *)

\* tuner->stop()
Shutdown ==
  /\ mpc = "up" /\ cpc = "idle"
  /\ m_stop' = TRUE
  /\ mpc' = "stop"
  /\ UNCHANGED <<filterVars, streaming, m_stream, m_running, threads, cpc, lost>>

\* stop() ends when the thread does not run; the destructor of the tuner
\* begins with StopStreaming(0x2000).
Delete ==
  /\ mpc = "stop"
  /\ ~m_running
  /\ m_pidFilters' = RemovePidFromFilter(PassAll)
  /\ IF m_pidFilters' = {} /\ m_stream
     THEN m_stream' = FALSE /\ mpc' = "finish"
     ELSE mpc' = "deleted" /\ UNCHANGED m_stream
  /\ UNCHANGED <<filter, active, disturbed, streaming, m_stop, m_running, threads, cpc, lost>>

\* The rest of that StopStreaming, when a stream was on.
DeleteStream ==
  /\ mpc = "finish"
  /\ ~m_running
  /\ Command("stream", streaming', FALSE, streaming)
  /\ mpc' = "deleted"
  /\ UNCHANGED <<filterVars, m_stream, m_stop, m_running, threads, cpc>>

-----------------------------------------------------------------------------
ThreadStep(t) == ThreadEnter(t) \/ ThreadTest(t) \/ ThreadCopy(t) \/ ThreadLeave(t)

ControlStep == StartStream \/ StopStream

MainStep == Delete \/ DeleteStream

Next ==
  \/ \E f \in Feeds : StartFilter(f) \/ StopFilter(f)
  \/ ControlStep
  \/ \E t \in DOMAIN threads : ThreadStep(t) \/ ThreadNoDevice(t)
  \/ Shutdown \/ MainStep

Spec == Init /\ [][Next]_vars

\* Every thread that can run does; no feed has to be started or stopped and
\* the program does not have to end.
FairSpec ==
  /\ Spec
  /\ WF_vars(ControlStep) /\ WF_vars(MainStep)
  /\ \A t \in 1..MaxThreads : WF_vars(t \in DOMAIN threads /\ ThreadStep(t))

-----------------------------------------------------------------------------
(* Properties.                                                             *)

\* Every variable holds a value of its kind.
TypeOK ==
  /\ m_pidFilters \subseteq Pids \ {PassAll} /\ filter \subseteq Pids
  /\ active \subseteq Feeds /\ disturbed \subseteq active
  /\ lost \subseteq {"filter", "stream", "thread"}
  /\ {streaming, m_stream, m_stop, m_running} \subseteq BOOLEAN
  /\ threads \in Seq({"created", "test", "copy", "leave", "done"})
  /\ Len(threads) <= MaxThreads
  /\ cpc \in {"idle", "begin", "create", "finish"}
  /\ mpc \in {"up", "stop", "finish", "deleted", "exited"}

\* While the daemon wants a stream some thread is, or will be, copying it,
\* however fast feeds are stopped and started again: a thread that saw
\* m_stream taken back is never the only one left.  A pthread_create that
\* failed is made good by the next start of the stream, and not before.
StreamServed ==
  m_stream /\ ~m_stop /\ cpc # "create" /\ mpc # "exited" /\ "thread" \notin lost =>
    \E t \in DOMAIN threads : threads[t] \in {"created", "test", "copy"}

\* Data of feed f comes through: the daemon has the stream on and, unless the
\* command was lost, the device streams and lets the feed's pid pass.
Flows(f) ==
  /\ m_stream
  /\ "stream" \notin lost => streaming
  /\ "filter" \notin lost => IF PidOf[f] = PassAll THEN filter = Pids ELSE PidOf[f] \in filter

\* Between the operations of the control thread.
Quiet == mpc = "up" /\ cpc = "idle"

\* Data of a feed that the kernel started comes through whichever other feeds
\* come and go, as long as nobody else wants its pid and feeds of all pids and
\* of single pids are not mixed; a filter command that was lost is made good by
\* the next one.
FeedsFlow == Quiet => \A f \in active \ disturbed : Flows(f)

\* When the last feed has gone nothing is left behind, however feeds were
\* mixed and commands failed before: no pid in the list, m_stream taken back
\* and, unless hdhomerun_device_stream_stop itself failed, no stream for the
\* network to carry.
IdleStops ==
  Quiet /\ active = {} =>
    m_pidFilters = {} /\ ~m_stream /\ ("stream" \notin lost => ~streaming)

\* Data of a feed of all pids comes through (AddPidToFilter: "Means pass-all TS
\* ?" and "When empty, GetStrFromPidFilter will return 0x0000-0x1FFF which =
\* pass-all.").
PassAllFlows == Quiet => \A f \in active : PidOf[f] = PassAll => Flows(f)

\* StopStreaming comes back: its loop on isFinished() ends, with any number of
\* threads that started late.
StopReturns == cpc = "finish" ~> cpc # "finish"

\* The end of the program does not wait for ever for a tuner's thread.
ShutdownEnds == mpc = "stop" ~> mpc \in {"deleted", "exited"}

\* No thread of a tuner is left when the tuner is deleted (debian/changelog:
\* "Catch ctrl-c and close down threads nicely on exit in userhdhomerun").
ThreadsClosed ==
  mpc = "deleted" => \A t \in DOMAIN threads : threads[t] = "done"

=============================================================================
