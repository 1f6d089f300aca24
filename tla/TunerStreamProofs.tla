------------------------- MODULE TunerStreamProofs -------------------------
(***************************************************************************)
(* Theorems about TunerStream, for any feeds with any pids and any number  *)
(* of streaming threads, whichever commands to the device are lost.        *)
(***************************************************************************)
EXTENDS TunerStream, SequenceTheorems, TLAPS

-----------------------------------------------------------------------------
(* The inductive invariants, by their parts.                               *)

\* StartStreaming creates a thread only where StartFilter saw room for it
\* (a bound of the model).
RoomForThread == cpc \in {"begin", "create"} => Len(threads) < MaxThreads

\* Feeds that no other feed got in the way of.
Undisturbed == active \ disturbed

\* The list lets an undisturbed feed through: its pid is in the list or, for a
\* feed of all pids, the list is empty.
ListServes ==
  \A f \in Undisturbed :
    IF PidOf[f] = PassAll THEN m_pidFilters = {} ELSE PidOf[f] \in m_pidFilters

\* So does the device, although it is not told when a pid is taken from the list.
DeviceServes ==
  "filter" \notin lost =>
    \A f \in Undisturbed :
      IF PidOf[f] = PassAll THEN filter = Pids ELSE PidOf[f] \in filter

\* Between operations the stream is on for an undisturbed feed, and one that is
\* being taken back is nobody's.
StreamOn ==
  /\ Quiet /\ Undisturbed # {} => m_stream
  /\ mpc = "up" /\ m_stream /\ "stream" \notin lost => streaming
  /\ mpc = "up" /\ cpc = "create" => m_stream
  /\ cpc = "finish" => ~m_stream /\ Undisturbed = {}

\* Pids and the stream are there for feeds of the kernel only.
NothingIdle ==
  /\ \A pid \in m_pidFilters : \E f \in active : PidOf[f] = pid
  /\ m_stream \/ cpc \in {"begin", "create"} => active # {}
  /\ mpc = "up" /\ streaming /\ "stream" \notin lost => m_stream \/ cpc = "finish"

-----------------------------------------------------------------------------
(* Types.                                                                  *)

Places == {"created", "test", "copy", "leave", "done"}

LEMMA InitTypeOK == Init => TypeOK /\ RoomForThread
<1> SUFFICES ASSUME Init PROVE TypeOK /\ RoomForThread
  OBVIOUS
<1>1. threads \in Seq(Places) /\ Len(threads) = 0
  BY EmptySeq DEF Init
<1>2. Len(threads) <= MaxThreads
  BY <1>1, MaxThreadsAssumption
<1>3. {streaming, m_stream, m_stop, m_running} \subseteq BOOLEAN
  BY DEF Init
<1>4. /\ m_pidFilters \subseteq Pids \ {PassAll} /\ filter \subseteq Pids
      /\ active \subseteq Feeds /\ disturbed \subseteq active
      /\ lost \subseteq {"filter", "stream", "thread"}
  BY DEF Init
<1>5. cpc = "idle" /\ mpc = "up"
  BY DEF Init
<1>6. QED
  BY <1>1, <1>2, <1>3, <1>4, <1>5 DEF TypeOK, RoomForThread, Places

\* A pid enters the list only as the pid of a feed that is not of all pids.
LEMMA StartFilterTypeOK ==
  ASSUME TypeOK, RoomForThread, NEW f \in Feeds, StartFilter(f)
  PROVE  TypeOK' /\ RoomForThread'
<1>1. m_pidFilters' \subseteq Pids \ {PassAll}
  BY DEF TypeOK, StartFilter, AddPidToFilter, Pids
<1>2. filter' \subseteq Pids /\ lost' \subseteq {"filter", "stream", "thread"}
  BY <1>1 DEF TypeOK, StartFilter, Command, GetStrFromPidFilter
<1>3. active' \subseteq Feeds /\ disturbed' \subseteq active'
  BY DEF TypeOK, StartFilter, DisturbedByStart
<1>4. /\ cpc' \in {"idle", "begin", "create", "finish"}
      /\ cpc' \in {"begin", "create"} => Len(threads) < MaxThreads
  BY DEF StartFilter
<1>5. QED
  BY <1>1, <1>2, <1>3, <1>4 DEF TypeOK, RoomForThread, StartFilter

\* The control thread's other steps.
LEMMA ControlTypeOK ==
  ASSUME TypeOK, RoomForThread,
         (\E f \in Feeds : StopFilter(f)) \/ StartSet \/ StopStream
  PROVE  TypeOK' /\ RoomForThread'
<1>1. ASSUME NEW f \in Feeds, StopFilter(f) PROVE TypeOK' /\ RoomForThread'
  BY <1>1 DEF TypeOK, RoomForThread, StopFilter, RemovePidFromFilter, DisturbedByStop
<1>2. CASE StartSet
  BY <1>2 DEF TypeOK, RoomForThread, StartSet, Command, filterVars
<1>3. CASE StopStream
  BY <1>3 DEF TypeOK, RoomForThread, StopStream, Command, filterVars
<1>4. QED
  BY <1>1, <1>2, <1>3

LEMMA StartThreadTypeOK ==
  ASSUME TypeOK, RoomForThread, StartThread
  PROVE  TypeOK' /\ RoomForThread'
<1>1. threads \in Seq(Places) /\ "created" \in Places /\ Len(threads) \in Nat
  BY DEF TypeOK, Places
<1>2. /\ threads' \in Seq(Places)
      /\ Len(threads') = Len(threads) + 1 \/ Len(threads') = Len(threads)
  BY <1>1, AppendProperties DEF StartThread, Command
<1>3. /\ Len(threads) < MaxThreads /\ cpc' = "idle"
      /\ lost' \subseteq {"filter", "stream", "thread"}
  BY DEF TypeOK, RoomForThread, StartThread, Command
<1>4. Len(threads') <= MaxThreads
  BY <1>1, <1>2, <1>3, MaxThreadsAssumption
<1>5. QED
  BY <1>2, <1>3, <1>4 DEF TypeOK, RoomForThread, StartThread, filterVars, Places

\* A step of a streaming thread moves only that thread.
LEMMA GotoThreads ==
  ASSUME TypeOK, NEW t \in DOMAIN threads, NEW from, NEW to \in Places, Goto(t, from, to)
  PROVE  /\ threads' \in Seq(Places) /\ Len(threads') = Len(threads)
         /\ DOMAIN threads' = DOMAIN threads
         /\ threads'[t] = to
         /\ \A u \in DOMAIN threads : u # t => threads'[u] = threads[u]
<1>1. threads \in Seq(Places) /\ t \in 1 .. Len(threads)
  BY DEF TypeOK, Places
<1>2. threads' = [threads EXCEPT ![t] = to]
  BY DEF Goto
<1>3. QED
  BY <1>1, <1>2, ExceptSeq

LEMMA ThreadTypeOK ==
  ASSUME TypeOK, RoomForThread, NEW t \in DOMAIN threads, ThreadStep(t)
  PROVE  TypeOK' /\ RoomForThread'
<1>1. PICK from \in Places, to \in Places : Goto(t, from, to)
  BY DEF ThreadStep, ThreadEnter, ThreadTest, ThreadCopy, ThreadLeave, Places
<1>2. threads' \in Seq(Places) /\ Len(threads') = Len(threads)
  BY <1>1, GotoThreads
<1>3. m_running' \in BOOLEAN
  BY DEF ThreadStep, ThreadEnter, ThreadTest, ThreadCopy, ThreadLeave, TypeOK
<1>4. QED
  BY <1>1, <1>2, <1>3 DEF TypeOK, RoomForThread, Goto, filterVars, Places

LEMMA NoDeviceTypeOK ==
  ASSUME TypeOK, RoomForThread, NEW t \in DOMAIN threads, ThreadNoDevice(t)
  PROVE  TypeOK' /\ RoomForThread'
<1>1. threads \in Seq(Places) /\ Len(threads) \in Nat /\ DOMAIN threads = 1 .. Len(threads)
  BY DEF TypeOK, Places
<1>2. threads' = [u \in 1 .. Len(threads) |-> "done"] /\ "done" \in Places
  BY <1>1 DEF ThreadNoDevice, Places
<1>3. threads' \in Seq(Places) /\ Len(threads') = Len(threads)
  BY <1>1, <1>2, IsASeq
<1>4. QED
  BY <1>3 DEF TypeOK, RoomForThread, ThreadNoDevice, filterVars, Places

LEMMA MainTypeOK ==
  ASSUME TypeOK, RoomForThread, Shutdown \/ MainStep
  PROVE  TypeOK' /\ RoomForThread'
BY DEF TypeOK, RoomForThread, Shutdown, MainStep, Delete, DeleteStream, RemovePidFromFilter,
       Command, filterVars

LEMMA NextTypeOK ==
  ASSUME TypeOK, RoomForThread, [Next]_vars
  PROVE  TypeOK' /\ RoomForThread'
<1>1. CASE UNCHANGED vars
  BY <1>1 DEF TypeOK, RoomForThread, vars, filterVars
<1>2. CASE Next
  BY <1>2, StartFilterTypeOK, ControlTypeOK, StartThreadTypeOK, ThreadTypeOK, NoDeviceTypeOK,
     MainTypeOK DEF Next, ControlStep, StartStream
<1>3. QED
  BY <1>1, <1>2

\* Every variable holds a value of its kind, and StartStreaming never creates
\* more threads than the bound allows.
THEOREM TypeCorrect == Spec => []TypeOK
<1>1. Init => TypeOK /\ RoomForThread
  BY InitTypeOK
<1>2. (TypeOK /\ RoomForThread) /\ [Next]_vars => (TypeOK /\ RoomForThread)'
  BY NextTypeOK
<1>3. QED
  BY <1>1, <1>2, PTL DEF Spec

-----------------------------------------------------------------------------
(* The stream is served.                                                   *)

\* Some thread is, or will be, copying.
LEMMA ServedByThread ==
  ASSUME TypeOK, StreamServed, m_stream, ~m_stop, cpc # "create", mpc # "exited",
         "thread" \notin lost, NEW t \in DOMAIN threads, ThreadStep(t)
  PROVE  \E u \in DOMAIN threads' : threads'[u] \in {"created", "test", "copy"}
<1>1. PICK u \in DOMAIN threads : threads[u] \in {"created", "test", "copy"}
  BY DEF StreamServed
<1>2. PICK from \in Places, to \in Places :
        Goto(t, from, to) /\ (from \in {"created", "test", "copy"} => to \in {"test", "copy"})
  BY DEF ThreadStep, ThreadEnter, ThreadTest, ThreadCopy, ThreadLeave, Places
<1>3. /\ DOMAIN threads' = DOMAIN threads
      /\ threads'[t] = to
      /\ u # t => threads'[u] = threads[u]
  BY <1>2, GotoThreads
<1>4. threads[t] = from
  BY <1>2 DEF Goto
<1>5. QED
  BY <1>1, <1>2, <1>3, <1>4

LEMMA NextStreamServed ==
  ASSUME TypeOK, StreamServed, [Next]_vars
  PROVE  StreamServed'
<1> DEFINE Wanted == m_stream /\ ~m_stop /\ cpc # "create" /\ mpc # "exited"
                      /\ "thread" \notin lost
           Served == \E t \in DOMAIN threads : threads[t] \in {"created", "test", "copy"}
<1>1. ASSUME Wanted' => Wanted, UNCHANGED threads PROVE StreamServed'
  BY <1>1 DEF StreamServed
<1>2. CASE UNCHANGED vars
  BY <1>1, <1>2 DEF vars
<1>3. ASSUME NEW f \in Feeds, StartFilter(f) \/ StopFilter(f) PROVE StreamServed'
  BY <1>1, <1>3 DEF StartFilter, StopFilter, Command
<1>4. CASE StartSet
  BY <1>4 DEF StartSet, StreamServed
<1>5. CASE StartThread
  <2>1. threads \in Seq(Places) /\ "created" \in Places
    BY DEF TypeOK, Places
  <2>2. threads' = Append(threads, "created") \/ "thread" \in lost'
    BY <1>5 DEF StartThread, Command
  <2>3. CASE threads' = Append(threads, "created")
    <3>1. /\ Len(threads) + 1 \in DOMAIN threads'
          /\ threads'[Len(threads) + 1] = "created"
      BY <2>1, <2>3, AppendProperties
    <3>2. QED
      BY <3>1 DEF StreamServed
  <2>4. QED
    BY <2>2, <2>3 DEF StreamServed
<1>6. CASE StopStream
  BY <1>1, <1>6 DEF StopStream, Command
<1>7. ASSUME NEW t \in DOMAIN threads, ThreadStep(t) PROVE StreamServed'
  <2>1. UNCHANGED <<m_stream, m_stop, cpc, mpc, lost>>
    BY <1>7 DEF ThreadStep, ThreadEnter, ThreadTest, ThreadCopy, ThreadLeave, Goto
  <2>2. QED
    BY <1>7, <2>1, ServedByThread DEF StreamServed
<1>8. ASSUME NEW t \in DOMAIN threads, ThreadNoDevice(t) PROVE StreamServed'
  BY <1>8 DEF ThreadNoDevice, StreamServed
<1>9. CASE Shutdown \/ MainStep
  BY <1>1, <1>9 DEF Shutdown, MainStep, Delete, DeleteStream, Command
<1>10. QED
  BY <1>2, <1>3, <1>4, <1>5, <1>6, <1>7, <1>8, <1>9 DEF Next, ControlStep, StartStream

\* While the daemon wants a stream some thread is, or will be, copying it, with
\* any number of threads that start late, unless the last pthread_create
\* failed (StartStreaming, StopStreaming, run).
THEOREM StreamIsServed == Spec => []StreamServed
<1>1. Init => StreamServed
  BY DEF Init, StreamServed
<1>2. TypeOK /\ StreamServed /\ [Next]_vars => StreamServed'
  BY NextStreamServed
<1>3. QED
  BY <1>1, <1>2, TypeCorrect, PTL DEF Spec

-----------------------------------------------------------------------------
(* Feeds flow.                                                             *)

\* What the start of a feed leaves undisturbed.
LEMMA StartLeaves ==
  ASSUME NEW f \in Feeds, StartFilter(f)
  PROVE  \A g \in Undisturbed' :
           g = f \/ (g \in Undisturbed /\ (PidOf[f] = PassAll <=> PidOf[g] = PassAll))
BY DEF Undisturbed, StartFilter, DisturbedByStart

\* What the end of a feed leaves undisturbed: feeds of single pids that are
\* not its own.
LEMMA StopLeaves ==
  ASSUME NEW f \in Feeds, StopFilter(f)
  PROVE  \A g \in Undisturbed' :
           g \in Undisturbed /\ PidOf[g] # PidOf[f] /\ PidOf[g] # PassAll
BY DEF Undisturbed, StopFilter, DisturbedByStop

LEMMA NextListServes ==
  ASSUME TypeOK, ListServes, [Next]_vars
  PROVE  ListServes'
<1>1. ASSUME UNCHANGED <<m_pidFilters, active, disturbed>> PROVE ListServes'
  BY <1>1 DEF ListServes, Undisturbed
<1>2. ASSUME NEW f \in Feeds, StartFilter(f) PROVE ListServes'
  <2>1. m_pidFilters' = IF PidOf[f] = PassAll THEN {} ELSE m_pidFilters \cup {PidOf[f]}
    BY <1>2 DEF StartFilter, AddPidToFilter
  <2>2. QED
    BY <1>2, <2>1, StartLeaves DEF ListServes
<1>3. ASSUME NEW f \in Feeds, StopFilter(f) PROVE ListServes'
  <2>1. m_pidFilters' = m_pidFilters \ {PidOf[f]}
    BY <1>3 DEF StopFilter, RemovePidFromFilter
  <2>2. QED
    BY <1>3, <2>1, StopLeaves DEF ListServes
<1>4. CASE Delete
  <2>1. m_pidFilters' = m_pidFilters
    BY <1>4 DEF Delete, RemovePidFromFilter, TypeOK
  <2>2. QED
    BY <1>1, <1>4, <2>1 DEF Delete
<1>5. CASE UNCHANGED vars \/ StartSet \/ StartThread \/ StopStream \/ Shutdown \/ DeleteStream
  BY <1>1, <1>5 DEF vars, filterVars, StartSet, StartThread, StopStream, Shutdown, DeleteStream
<1>6. ASSUME NEW t \in DOMAIN threads, ThreadStep(t) \/ ThreadNoDevice(t) PROVE ListServes'
  BY <1>1, <1>6 DEF ThreadStep, ThreadEnter, ThreadTest, ThreadCopy, ThreadLeave, Goto,
                    ThreadNoDevice, filterVars
<1>7. QED
  BY <1>2, <1>3, <1>4, <1>5, <1>6 DEF Next, ControlStep, StartStream, MainStep

\* The device is told of every start, and not of an end.
LEMMA NextDeviceServes ==
  ASSUME ListServes', DeviceServes, [Next]_vars
  PROVE  DeviceServes'
<1>1. ASSUME UNCHANGED <<filter, active, disturbed>>, "filter" \in lost => "filter" \in lost'
      PROVE  DeviceServes'
  BY <1>1 DEF DeviceServes, Undisturbed
<1>2. ASSUME NEW f \in Feeds, StartFilter(f) PROVE DeviceServes'
  <2>1. \/ filter' = IF m_pidFilters' = {} THEN Pids ELSE m_pidFilters'
        \/ "filter" \in lost'
    BY <1>2 DEF StartFilter, Command, GetStrFromPidFilter
  <2>2. QED
    BY <2>1 DEF ListServes, DeviceServes
<1>3. ASSUME NEW f \in Feeds, StopFilter(f) PROVE DeviceServes'
  <2>1. UNCHANGED <<filter, lost>>
    BY <1>3 DEF StopFilter
  <2>2. QED
    BY <1>3, <2>1, StopLeaves DEF DeviceServes
<1>4. CASE UNCHANGED vars \/ StartSet \/ StartThread \/ StopStream \/ Shutdown \/ MainStep
  BY <1>1, <1>4 DEF vars, filterVars, StartSet, Command, StartThread, StopStream, Shutdown,
                    MainStep, Delete, DeleteStream
<1>5. ASSUME NEW t \in DOMAIN threads, ThreadStep(t) \/ ThreadNoDevice(t) PROVE DeviceServes'
  BY <1>1, <1>5 DEF ThreadStep, ThreadEnter, ThreadTest, ThreadCopy, ThreadLeave, Goto,
                    ThreadNoDevice, filterVars
<1>6. QED
  BY <1>2, <1>3, <1>4, <1>5 DEF Next, ControlStep, StartStream
\* The end of a feed takes the stream back only from feeds that are disturbed.
LEMMA StopStreamOn ==
  ASSUME ListServes', StreamOn, NEW f \in Feeds, StopFilter(f)
  PROVE  StreamOn'
<1>1. Undisturbed' # {} => Undisturbed # {} /\ m_pidFilters' # {}
  BY StopLeaves DEF ListServes
<1>2. UNCHANGED <<streaming, mpc, lost>> /\ cpc = "idle" /\ mpc = "up"
  BY DEF StopFilter
<1>3. CASE m_pidFilters' = {} /\ m_stream
  <2>1. ~m_stream' /\ cpc' = "finish"
    BY <1>3 DEF StopFilter
  <2>2. QED
    BY <1>1, <1>3, <2>1 DEF StreamOn, Quiet
<1>4. CASE ~(m_pidFilters' = {} /\ m_stream)
  <2>1. m_stream' = m_stream /\ cpc' = cpc
    BY <1>4 DEF StopFilter
  <2>2. QED
    BY <1>1, <1>2, <2>1 DEF StreamOn, Quiet
<1>5. QED
  BY <1>3, <1>4

LEMMA NextStreamOn ==
  ASSUME TypeOK, ListServes', StreamOn, [Next]_vars
  PROVE  StreamOn'
<1>1. ASSUME NEW f \in Feeds, StartFilter(f) PROVE StreamOn'
  <2>1. UNCHANGED <<streaming, m_stream, mpc>> /\ ("stream" \notin lost' => "stream" \notin lost)
    BY <1>1 DEF StartFilter, Command
  <2>2. cpc' = IF m_stream THEN "idle" ELSE "begin"
    BY <1>1 DEF StartFilter
  <2>3. QED
    BY <2>1, <2>2 DEF StreamOn, Quiet
<1>2. ASSUME NEW f \in Feeds, StopFilter(f) PROVE StreamOn'
  BY <1>2, StopStreamOn
<1>3. CASE StartSet
  <2>1. m_stream' /\ cpc' = "create" /\ ("stream" \notin lost' => streaming')
    BY <1>3 DEF StartSet, Command
  <2>2. QED
    BY <2>1 DEF StreamOn, Quiet
<1>4. CASE UNCHANGED vars \/ StartThread \/ StopStream
  BY <1>4 DEF StreamOn, Quiet, Undisturbed, vars, filterVars, StartThread, StopStream, Command
<1>5. CASE Shutdown \/ MainStep
  <2>1. UNCHANGED <<active, disturbed, cpc>> /\ mpc' # "up" /\ (m_stream' => m_stream)
    <3>1. CASE Shutdown
      BY <3>1 DEF Shutdown, filterVars
    <3>2. CASE Delete
      BY <3>2 DEF Delete
    <3>3. CASE DeleteStream
      BY <3>3 DEF DeleteStream, filterVars
    <3>4. QED
      BY <1>5, <3>1, <3>2, <3>3 DEF MainStep
  <2>2. QED
    BY <2>1 DEF StreamOn, Quiet, Undisturbed
<1>6. ASSUME NEW t \in DOMAIN threads, ThreadStep(t) \/ ThreadNoDevice(t) PROVE StreamOn'
  BY <1>6 DEF StreamOn, Quiet, Undisturbed, ThreadStep, ThreadEnter, ThreadTest, ThreadCopy,
              ThreadLeave, Goto, ThreadNoDevice, filterVars
<1>7. QED
  BY <1>1, <1>2, <1>3, <1>4, <1>5, <1>6 DEF Next, ControlStep, StartStream

\* Data of a feed that the kernel started comes through whichever other feeds
\* come and go, as long as nobody else wants its pid and feeds of all pids and
\* of single pids are not mixed (StartStreaming, StopStreaming).
THEOREM FeedsDoFlow == Spec => []FeedsFlow
<1> DEFINE Inv == ListServes /\ DeviceServes /\ StreamOn
<1>1. Init => Inv
  BY DEF Init, ListServes, DeviceServes, StreamOn, Quiet, Undisturbed
<1>2. TypeOK /\ Inv /\ [Next]_vars => Inv'
  BY NextListServes, NextDeviceServes, NextStreamOn
<1>3. Inv => FeedsFlow
  BY DEF ListServes, DeviceServes, StreamOn, FeedsFlow, Flows, Undisturbed, Quiet
<1>4. QED
  BY <1>1, <1>2, <1>3, TypeCorrect, PTL DEF Spec

-----------------------------------------------------------------------------
(* Nothing is left behind.                                                 *)

\* The end of the last feed empties the list, however feeds were mixed.
LEMMA StopNothingIdle ==
  ASSUME NothingIdle, NEW f \in Feeds, StopFilter(f)
  PROVE  NothingIdle'
<1>1. /\ m_pidFilters' = m_pidFilters \ {PidOf[f]} /\ active' = active \ {f}
      /\ cpc = "idle" /\ UNCHANGED <<streaming, lost>>
  BY DEF StopFilter, RemovePidFromFilter
<1>2. \A pid \in m_pidFilters' : \E g \in active' : PidOf[g] = pid
  BY <1>1 DEF NothingIdle
<1>3. \/ ~m_stream' /\ cpc' = "finish"
      \/ m_stream' = m_stream /\ cpc' = cpc /\ (m_stream => active' # {})
  BY <1>2 DEF StopFilter
<1>4. QED
  BY <1>1, <1>2, <1>3 DEF NothingIdle, StopFilter

LEMMA NextNothingIdle ==
  ASSUME NothingIdle, [Next]_vars
  PROVE  NothingIdle'
<1>1. ASSUME NEW f \in Feeds, StartFilter(f) PROVE NothingIdle'
  BY <1>1 DEF NothingIdle, StartFilter, AddPidToFilter, Command
<1>2. ASSUME NEW f \in Feeds, StopFilter(f) PROVE NothingIdle'
  BY <1>2, StopNothingIdle
<1>3. CASE UNCHANGED vars \/ StartSet \/ StartThread \/ StopStream \/ Shutdown \/ DeleteStream
  <2>1. UNCHANGED <<m_pidFilters, active>>
    BY <1>3 DEF vars, filterVars, StartSet, StartThread, StopStream, Shutdown, DeleteStream
  <2>2. m_stream' \/ cpc' \in {"begin", "create"} => m_stream \/ cpc \in {"begin", "create"}
    BY <1>3 DEF vars, StartSet, StartThread, StopStream, Shutdown, DeleteStream
  <2>3. mpc' = "up" /\ streaming' /\ "stream" \notin lost' => m_stream' \/ cpc' = "finish"
    BY <1>3 DEF NothingIdle, vars, StartSet, StartThread, StopStream, Shutdown, DeleteStream, Command
  <2>4. QED
    BY <2>1, <2>2, <2>3 DEF NothingIdle
<1>4. CASE Delete
  BY <1>4 DEF NothingIdle, Delete, RemovePidFromFilter
<1>5. ASSUME NEW t \in DOMAIN threads, ThreadStep(t) \/ ThreadNoDevice(t) PROVE NothingIdle'
  BY <1>5 DEF NothingIdle, ThreadStep, ThreadEnter, ThreadTest, ThreadCopy, ThreadLeave, Goto,
              ThreadNoDevice, filterVars
<1>6. QED
  BY <1>1, <1>2, <1>3, <1>4, <1>5 DEF Next, ControlStep, StartStream, MainStep

\* When the last feed has gone no pid is in the list, m_stream is taken back
\* and the device does not stream unless hdhomerun_device_stream_stop failed,
\* however feeds were mixed and commands failed before (StopStreaming).
THEOREM IdleTunerStops == Spec => []IdleStops
<1>1. Init => NothingIdle
  BY DEF Init, NothingIdle
<1>2. NothingIdle /\ [Next]_vars => NothingIdle'
  BY NextNothingIdle
<1>3. NothingIdle => IdleStops
  BY DEF NothingIdle, IdleStops, Quiet
<1>4. QED
  BY <1>1, <1>2, <1>3, PTL DEF Spec

=============================================================================
