----------------------------- MODULE DataWrite -----------------------------
(***************************************************************************)
(* The way of the stream into the kernel: a streaming thread of a tuner    *)
(* receives data from the network and writes it to /dev/hdhomerun_dataX    *)
(* (HdhomerunTuner::run), whose write copies it page by page into the one  *)
(* buffer of the device and hands each page to the demultiplexer           *)
(* (dvb_hdhomerun_data.c).  Nothing keeps a second thread from writing at  *)
(* the same time, and TunerStream shows how two come to run.               *)
(*                                                                         *)
(* Byte number i of the stream is i.  A thread holds the count bytes after *)
(* byte base, of which copied are through.  libhdhomerun hands out at      *)
(* least one packet of 1316 bytes, which is more than an ofstream keeps    *)
(* back, so a write of the stream is a write of the device.                *)
(***************************************************************************)
EXTENDS Integers, Sequences, FiniteSets

CONSTANTS Threads,    \* streaming threads of the tuner
          PAGE_SIZE,
          MaxRecv,    \* bound: bytes one stream_recv returns
          MaxBytes    \* bound: bytes ever received

ASSUME PageAssumption == PAGE_SIZE \in Nat \ {0}
ASSUME BoundsAssumption == MaxRecv \in Nat /\ MaxBytes \in Nat

VARIABLES pc,            \* where each thread is: "closed", "loop", "copy", "filter"
          bad,           \* the thread's ofstream has failed
          base, count, copied,
          write_buffer,  \* the page of the device
          demux,         \* what dvb_dmx_swfilter was given
          received,      \* history: bytes received
          lost,          \* history: bytes given up
          faulty,        \* history: a copy_from_user failed
          mixed,         \* history: data came for a thread while another one wrote
          spoiled        \* history: bytes that two threads in a write at the same
                         \* time had in hand, and bytes given up

threadVars == <<pc, bad, base, count, copied>>
history == <<received, lost, faulty, mixed, spoiled>>
vars == <<threadVars, write_buffer, demux, history>>

Smaller(a, b) == IF a < b THEN a ELSE b

\* A new page is zeroed (get_zeroed_page).
Init ==
  /\ pc = [t \in Threads |-> "closed"]
  /\ bad = [t \in Threads |-> FALSE]
  /\ base = [t \in Threads |-> 0]
  /\ count = [t \in Threads |-> 0]
  /\ copied = [t \in Threads |-> 0]
  /\ write_buffer = [i \in 1..PAGE_SIZE |-> 0]
  /\ demux = <<>>
  /\ received = 0 /\ lost = 0 /\ faulty = FALSE /\ mixed = FALSE
  /\ spoiled = {}

\* run opens the data device.
Open(t) ==
  /\ pc[t] = "closed"
  /\ pc' = [pc EXCEPT ![t] = "loop"]
  /\ bad' = [bad EXCEPT ![t] = FALSE]
  /\ UNCHANGED <<base, count, copied, write_buffer, demux, history>>

\* The loop of run ends, at its condition: never with data in hand.
Close(t) ==
  /\ pc[t] = "loop"
  /\ pc' = [pc EXCEPT ![t] = "closed"]
  /\ UNCHANGED <<bad, base, count, copied, write_buffer, demux, history>>

Writing(t) == pc[t] \in {"copy", "filter"}

\* The bytes that a thread has in hand.
InHand(t) == {b \in 1..received : Writing(t) /\ base[t] + copied[t] < b /\ b <= base[t] + count[t]}

\* stream_recv returns n bytes.
Recv(t, n) ==
  /\ pc[t] = "loop"
  /\ received + n <= MaxBytes
  /\ received' = received + n
  /\ mixed' = (mixed \/ \E u \in Threads : Writing(u))

\* ofs.write: the write of the device begins.
RecvWrite(t, n) ==
  /\ Recv(t, n)
  /\ ~bad[t]
  /\ base' = [base EXCEPT ![t] = received]
  /\ count' = [count EXCEPT ![t] = n]
  /\ copied' = [copied EXCEPT ![t] = 0]
  /\ pc' = [pc EXCEPT ![t] = "copy"]
  /\ spoiled' = IF \A u \in Threads : ~Writing(u) THEN spoiled
                ELSE spoiled \cup (UNION {InHand(u) : u \in Threads}) \cup (received + 1..received + n)
  /\ UNCHANGED <<bad, write_buffer, demux, lost, faulty>>

\* ofs.write does nothing, for an earlier write has failed.  Nobody looks.
RecvDropped(t, n) ==
  /\ Recv(t, n)
  /\ bad[t]
  /\ lost' = lost + n
  /\ spoiled' = spoiled \cup (received + 1..received + n)
  /\ UNCHANGED <<threadVars, write_buffer, demux, faulty>>

\* Mutant of to_copy: nothing but full pages.
to_copy_full(t) == (Smaller(count[t] - copied[t], PAGE_SIZE) \div PAGE_SIZE) * PAGE_SIZE

\* What is left, or a page of it.
to_copy(t) == Smaller(count[t] - copied[t], PAGE_SIZE)

\* Mutant of CopyFromUser: all that is left at once.
CopyFromUserOverruns(t) ==
  /\ pc[t] = "copy" /\ copied[t] < count[t]
  /\ write_buffer' = [i \in 1..count[t] - copied[t] |-> base[t] + copied[t] + i]
  /\ pc' = [pc EXCEPT ![t] = "filter"]
  /\ UNCHANGED <<bad, base, count, copied, demux, history>>

\* Mutant of CopyFromUser: every page from the start of buf.
CopyFromUserNoOffset(t) ==
  /\ pc[t] = "copy" /\ copied[t] < count[t]
  /\ write_buffer' = [i \in 1..PAGE_SIZE |->
       IF i <= to_copy(t) THEN base[t] + i ELSE write_buffer[i]]
  /\ pc' = [pc EXCEPT ![t] = "filter"]
  /\ UNCHANGED <<bad, base, count, copied, demux, history>>

\* copy_from_user into the page; what is behind stays.
CopyFromUser(t) ==
  /\ pc[t] = "copy" /\ copied[t] < count[t]
  /\ write_buffer' = [i \in 1..PAGE_SIZE |->
       IF i <= to_copy(t) THEN base[t] + copied[t] + i ELSE write_buffer[i]]
  /\ pc' = [pc EXCEPT ![t] = "filter"]
  /\ UNCHANGED <<bad, base, count, copied, demux, history>>

\* copy_from_user fails: -EFAULT, whatever was written before.
CopyFault(t) ==
  /\ pc[t] = "copy" /\ copied[t] < count[t]
  /\ bad' = [bad EXCEPT ![t] = TRUE]
  /\ lost' = lost + count[t] - copied[t]
  /\ spoiled' = spoiled \cup InHand(t)
  /\ faulty' = TRUE
  /\ pc' = [pc EXCEPT ![t] = "loop"]
  /\ UNCHANGED <<base, count, copied, write_buffer, demux, received, mixed>>

\* Mutant of SwFilter: the loop ends before the last page.
SwFilterEndsEarly(t) ==
  /\ pc[t] = "filter"
  /\ demux' = demux \o SubSeq(write_buffer, 1, to_copy(t))
  /\ copied' = [copied EXCEPT ![t] = @ + to_copy(t)]
  /\ pc' = [pc EXCEPT ![t] = IF copied'[t] + PAGE_SIZE > count[t] THEN "loop" ELSE "copy"]
  /\ UNCHANGED <<bad, base, count, write_buffer, history>>

\* dvb_dmx_swfilter of the page, and copied += to_copy.
SwFilter(t) ==
  /\ pc[t] = "filter"
  /\ demux' = demux \o SubSeq(write_buffer, 1, to_copy(t))
  /\ copied' = [copied EXCEPT ![t] = @ + to_copy(t)]
  /\ pc' = [pc EXCEPT ![t] = IF copied'[t] = count[t] THEN "loop" ELSE "copy"]
  /\ UNCHANGED <<bad, base, count, write_buffer, history>>

WriteStep(t) == CopyFromUser(t) \/ SwFilter(t)

Next ==
  \E t \in Threads :
    \/ Open(t) \/ Close(t)
    \/ \E n \in 1..MaxRecv : RecvWrite(t, n) \/ RecvDropped(t, n)
    \/ WriteStep(t) \/ CopyFault(t)

Spec == Init /\ [][Next]_vars

\* A thread in write goes on.  No data has to come and no thread to stop.
FairSpec == Spec /\ \A t \in Threads : WF_vars(WriteStep(t))

-----------------------------------------------------------------------------
(* Properties.                                                             *)

\* Every variable holds a value of its kind.
TypeOK ==
  /\ pc \in [Threads -> {"closed", "loop", "copy", "filter"}]
  /\ bad \in [Threads -> BOOLEAN]
  /\ base \in [Threads -> Nat] /\ count \in [Threads -> Nat] /\ copied \in [Threads -> Nat]
  /\ write_buffer \in [1..PAGE_SIZE -> Nat]
  /\ demux \in Seq(Nat)
  /\ received \in Nat /\ lost \in Nat /\ faulty \in BOOLEAN /\ mixed \in BOOLEAN
  /\ spoiled \subseteq 1..received

\* The data device is a pipe: until two threads write at the same time the
\* demultiplexer gets the stream byte by byte in order, whatever the sizes that
\* come from the network and through stops and starts, and only a fault of a
\* copy loses any; afterwards it still gets nothing but bytes of the stream
\* (hdhomerun_data_write: "Feed stuff to V4l-DVB").
Pipe == INSTANCE StreamPipe WITH delivered <- demux

ImplementsPipe == Pipe!Spec

\* A collision of two threads costs the bytes they have in hand at that time and
\* no others, and a fault those of its write: when no thread is in a write,
\* every other byte that was received has come to the demultiplexer, and these
\* come once and in the order of the stream.  So the device recovers from a
\* collision, although the page is shared and nothing is put back.
AllDelivered ==
  /\ (\A t \in Threads : ~Writing(t)) =>
       \A b \in (1..received) \ spoiled : \E i \in DOMAIN demux : demux[i] = b
  /\ \A i, j \in DOMAIN demux :
       i < j /\ demux[i] \notin spoiled /\ demux[j] \notin spoiled => demux[i] < demux[j]

\* A write returns to the streaming thread, whatever another one does: a
\* thread that does not come back is joined for ever (StopStreaming).
WritesEnd == \A t \in Threads : Writing(t) ~> ~Writing(t)

=============================================================================
