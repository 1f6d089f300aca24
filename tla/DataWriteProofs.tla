-------------------------- MODULE DataWriteProofs --------------------------
(***************************************************************************)
(* Theorems about DataWrite, for any number of threads, any size of a page *)
(* and any amounts of data: the device implements StreamPipe, and a        *)
(* collision of threads costs only the bytes they have in hand.            *)
(***************************************************************************)
EXTENDS DataWrite, SequenceTheorems, TLAPS

-----------------------------------------------------------------------------
(* The inductive invariant, by its parts.                                  *)

\* A thread in a write has something left, and it was received.
HandsFull ==
  \A t \in Threads : Writing(t) => copied[t] < count[t] /\ base[t] + count[t] <= received

\* What a thread is about to hand over was received, whoever copied it.
PageFilled ==
  \A t \in Threads : pc[t] = "filter" =>
    \A i \in 1..to_copy(t) : write_buffer[i] \in 1..received

\* The demultiplexer has nothing but received bytes.
DemuxReceived == \A i \in DOMAIN demux : demux[i] \in 1..received

\* An ofstream fails only after a fault.
BadByFault == \A t \in Threads : bad[t] => faulty

\* Until threads mix one of them at most is in a write, it goes on where the
\* demultiplexer is, holds all that is left and, in the page, what comes next.
OneAtATime ==
  ~mixed =>
    /\ \A t, u \in Threads : Writing(t) /\ Writing(u) => t = u
    /\ \A t \in Threads : Writing(t) =>
         /\ base[t] + copied[t] = Len(demux) + lost
         /\ base[t] + count[t] = received
         /\ pc[t] = "filter" =>
              \A i \in 1..to_copy(t) : write_buffer[i] = base[t] + copied[t] + i
    /\ (\A t \in Threads : ~Writing(t)) => Len(demux) + lost = received

PipeInv == TypeOK /\ HandsFull /\ PageFilled /\ DemuxReceived /\ BadByFault /\ OneAtATime

\* All that a thread has in hand is spoiled.
Spoilt(t) == InHand(t) \subseteq spoiled

\* Two threads in a write have spoiled what they hold.
Collided == \A t, u \in Threads : Writing(t) /\ Writing(u) /\ t # u => Spoilt(t)

\* A thread hands over what comes next or, after a collision, only spoiled bytes.
PageClean ==
  \A t \in Threads : pc[t] = "filter" => \A i \in 1..to_copy(t) :
    IF Spoilt(t) THEN write_buffer[i] \in spoiled
                 ELSE write_buffer[i] = base[t] + copied[t] + i

\* The demultiplexer has the other bytes in order,
DemuxInOrder ==
  \A i, j \in DOMAIN demux :
    i < j /\ demux[i] \notin spoiled /\ demux[j] \notin spoiled => demux[i] < demux[j]

\* none of them beyond the place where an undisturbed thread goes on,
DemuxBehind ==
  \A t \in Threads : Writing(t) =>
    \/ Spoilt(t)
    \/ \A i \in DOMAIN demux : demux[i] \in spoiled \/ demux[i] <= base[t] + copied[t]

\* and all of them but those in the hands of a thread.
CleanKept ==
  \A b \in 1..received :
    \/ b \in spoiled
    \/ \E i \in DOMAIN demux : demux[i] = b
    \/ \E t \in Threads : b \in InHand(t)

CleanInv == Collided /\ PageClean /\ DemuxInOrder /\ DemuxBehind /\ CleanKept

-----------------------------------------------------------------------------
(* The operators.                                                          *)

\* A turn of the loop copies something, a page at most and no more than is left.
LEMMA ToCopyBounds ==
  ASSUME TypeOK, NEW t \in Threads, copied[t] < count[t]
  PROVE  /\ to_copy(t) \in Nat /\ 0 < to_copy(t) /\ to_copy(t) <= PAGE_SIZE
         /\ copied[t] + to_copy(t) <= count[t]
BY PageAssumption DEF TypeOK, to_copy, Smaller

\* The demultiplexer after it was given the first k bytes of the page.
LEMMA PageHandedOver ==
  ASSUME TypeOK, NEW k \in Nat, k <= PAGE_SIZE
  PROVE  LET after == demux \o SubSeq(write_buffer, 1, k)
         IN  /\ after \in Seq(Nat) /\ Len(after) = Len(demux) + k
             /\ Len(demux) \in Nat /\ DOMAIN demux = 1..Len(demux)
             /\ DOMAIN after = 1..Len(demux) + k
             /\ \A i \in 1..Len(demux) : after[i] = demux[i]
             /\ \A i \in 1..k : after[Len(demux) + i] = write_buffer[i]
<1> DEFINE page == SubSeq(write_buffer, 1, k)
<1>1. demux \in Seq(Nat) /\ Len(demux) \in Nat /\ DOMAIN demux = 1..Len(demux)
  BY LenProperties DEF TypeOK
<1>2. \A i \in 1..k : write_buffer[i] \in Nat
  BY PageAssumption DEF TypeOK
<1>3. page \in Seq(Nat) /\ Len(page) = k /\ \A i \in 1..k : page[i] = write_buffer[i]
  <2>1. page \in Seq(Nat) /\ Len(page) = IF 1 <= k THEN k - 1 + 1 ELSE 0
    BY <1>2, SubSeqProperties
  <2>2. \A i \in 1..k - 1 + 1 : page[i] = write_buffer[1 + i - 1]
    BY <1>2, SubSeqProperties
  <2> HIDE DEF page
  <2>3. Len(page) = k
    BY <2>1
  <2>4. \A i \in 1..k : i \in 1..k - 1 + 1 /\ 1 + i - 1 = i
    OBVIOUS
  <2> QED BY <2>1, <2>2, <2>3, <2>4
<1> HIDE DEF page
<1>4. /\ demux \o page \in Seq(Nat) /\ Len(demux \o page) = Len(demux) + k
      /\ \A i \in 1..Len(demux) + k : (demux \o page)[i] =
           IF i <= Len(demux) THEN demux[i] ELSE page[i - Len(demux)]
  BY <1>1, <1>3, ConcatProperties
<1>5. DOMAIN (demux \o page) = 1..Len(demux) + k
  BY <1>4, LenProperties
<1>6. \A i \in 1..Len(demux) : (demux \o page)[i] = demux[i]
  BY <1>1, <1>4
<1>7. \A i \in 1..k : (demux \o page)[Len(demux) + i] = write_buffer[i]
  <2>1. ASSUME NEW i \in 1..k PROVE (demux \o page)[Len(demux) + i] = write_buffer[i]
    <3>1. /\ Len(demux) + i \in 1..Len(demux) + k /\ ~(Len(demux) + i <= Len(demux))
          /\ Len(demux) + i - Len(demux) = i
      BY <1>1
    <3> QED BY <1>3, <1>4, <3>1
  <2> QED BY <2>1
<1> QED BY <1>1, <1>4, <1>5, <1>6, <1>7 DEF page

-----------------------------------------------------------------------------
(* The invariant is inductive.                                             *)

\* At first nothing was received.
LEMMA InitPipeInv == Init => PipeInv
<1> SUFFICES ASSUME Init PROVE PipeInv
  OBVIOUS
<1>1. demux \in Seq(Nat) /\ Len(demux) = 0 /\ DOMAIN demux = {}
  BY EmptySeq DEF Init
<1>2. TypeOK
  BY <1>1, PageAssumption DEF Init, TypeOK
<1>3. \A t \in Threads : pc[t] = "closed" /\ ~bad[t]
  BY DEF Init
<1> QED BY <1>1, <1>2, <1>3
        DEF Init, PipeInv, HandsFull, PageFilled, DemuxReceived, BadByFault, OneAtATime, Writing

\* The types are kept, and only what a thread has left can be lost.
LEMMA NextTypeOK == TypeOK /\ HandsFull /\ [Next]_vars => TypeOK'
<1> SUFFICES ASSUME TypeOK, HandsFull, [Next]_vars PROVE TypeOK'
  OBVIOUS
<1> USE DEF TypeOK
<1>1. ASSUME NEW t \in Threads, Open(t) \/ Close(t) PROVE TypeOK'
  BY <1>1 DEF Open, Close, history
<1>2. ASSUME NEW t \in Threads, NEW n \in 1..MaxRecv, RecvWrite(t, n) PROVE TypeOK'
  <2>1. n \in Nat /\ received' = received + n
    BY <1>2, BoundsAssumption DEF RecvWrite, Recv
  <2>2. received' \in Nat /\ 1..received \subseteq 1..received' /\ received + 1..received + n \subseteq 1..received'
    BY <2>1
  <2>3. \A u \in Threads : InHand(u) \subseteq 1..received
    BY DEF InHand
  <2>4. spoiled' \subseteq spoiled \cup (UNION {InHand(u) : u \in Threads}) \cup (received + 1..received + n)
    BY <1>2 DEF RecvWrite
  <2>5. spoiled' \subseteq 1..received'
    <3>1. \A b \in UNION {InHand(u) : u \in Threads} : b \in 1..received
      BY <2>3
    <3>2. \A b \in spoiled' : \/ b \in spoiled \/ b \in UNION {InHand(u) : u \in Threads}
                             \/ b \in received + 1..received + n
      BY <2>4, Zenon
    <3>3. \A b \in spoiled : b \in 1..received
      OBVIOUS
    <3> QED BY <2>2, <3>1, <3>2, <3>3, Zenon
  <2>6. /\ pc' \in [Threads -> {"closed", "loop", "copy", "filter"}]
        /\ base' \in [Threads -> Nat] /\ count' \in [Threads -> Nat] /\ copied' \in [Threads -> Nat]
    BY <1>2, <2>1 DEF RecvWrite
  <2>7. mixed' \in BOOLEAN
    BY <1>2 DEF RecvWrite, Recv
  <2> QED BY <1>2, <2>2, <2>5, <2>6, <2>7 DEF RecvWrite
<1>3. ASSUME NEW t \in Threads, NEW n \in 1..MaxRecv, RecvDropped(t, n) PROVE TypeOK'
  BY <1>3, BoundsAssumption DEF RecvDropped, Recv, threadVars
<1>4. ASSUME NEW t \in Threads, CopyFromUser(t) PROVE TypeOK'
  <2>1. write_buffer' \in [1..PAGE_SIZE -> Nat]
    BY <1>4 DEF CopyFromUser
  <2> QED BY <1>4, <2>1 DEF CopyFromUser, history
<1>5. ASSUME NEW t \in Threads, CopyFault(t) PROVE TypeOK'
  <2>1. lost' \in Nat
    BY <1>5 DEF CopyFault
  <2>2. spoiled' \subseteq 1..received'
    BY <1>5 DEF CopyFault, InHand
  <2> QED BY <1>5, <2>1, <2>2 DEF CopyFault
<1>6. ASSUME NEW t \in Threads, SwFilter(t) PROVE TypeOK'
  <2>1. copied[t] < count[t]
    BY <1>6 DEF SwFilter, HandsFull, Writing
  <2>2. to_copy(t) \in Nat /\ to_copy(t) <= PAGE_SIZE
    BY <2>1, ToCopyBounds
  <2>3. demux' \in Seq(Nat)
    BY <1>6, <2>2, PageHandedOver DEF SwFilter
  <2>4. copied' \in [Threads -> Nat]
    BY <1>6, <2>2 DEF SwFilter
  <2>5. pc' \in [Threads -> {"closed", "loop", "copy", "filter"}]
    BY <1>6 DEF SwFilter
  <2> QED BY <1>6, <2>3, <2>4, <2>5 DEF SwFilter, history
<1>7. CASE UNCHANGED vars
  BY <1>7 DEF vars, threadVars, history
<1> QED BY <1>1, <1>2, <1>3, <1>4, <1>5, <1>6, <1>7 DEF Next, WriteStep

\* What threads hold, the page and the demultiplexer keep to what was received;
\* until threads mix the next byte is the next one of the stream.
LEMMA NextPipeInv == PipeInv /\ [Next]_vars => PipeInv'
<1> SUFFICES ASSUME PipeInv, [Next]_vars PROVE PipeInv'
  OBVIOUS
<1> DEFINE Rest == HandsFull /\ PageFilled /\ DemuxReceived /\ BadByFault /\ OneAtATime
<1>0. TypeOK /\ TypeOK'
  BY NextTypeOK DEF PipeInv
<1>a. /\ pc \in [Threads -> {"closed", "loop", "copy", "filter"}]
      /\ bad \in [Threads -> BOOLEAN]
      /\ base \in [Threads -> Nat] /\ count \in [Threads -> Nat] /\ copied \in [Threads -> Nat]
  BY <1>0 DEF TypeOK
<1>b. /\ \A u \in Threads : base[u] \in Nat /\ count[u] \in Nat /\ copied[u] \in Nat
      /\ received \in Nat /\ lost \in Nat /\ PAGE_SIZE \in Nat /\ Len(demux) \in Nat
      /\ DOMAIN demux = 1..Len(demux)
  BY <1>0, PageAssumption, LenProperties DEF TypeOK
<1>1. ASSUME NEW t \in Threads, Open(t) \/ Close(t) PROVE Rest'
  <2>1. /\ UNCHANGED <<base, count, copied, write_buffer, demux, received, lost, faulty, mixed>>
        /\ \A u \in Threads : bad'[u] => bad[u]
        /\ \A u \in Threads : (Writing(u)' <=> Writing(u)) /\ (pc'[u] = "filter" <=> pc[u] = "filter")
    BY <1>a, <1>1 DEF Open, Close, history, Writing
  <2>2. \A u \in Threads : to_copy(u)' = to_copy(u)
    BY <2>1 DEF to_copy
  <2> QED BY <2>1, <2>2 DEF PipeInv, HandsFull, PageFilled, DemuxReceived, BadByFault, OneAtATime
<1>2. ASSUME NEW t \in Threads, NEW n \in 1..MaxRecv, RecvWrite(t, n) PROVE Rest'
  <2>0. n \in Nat /\ n > 0 /\ received' = received + n /\ received <= received'
    <3>1. n \in Nat /\ n > 0
      BY <1>2, BoundsAssumption
    <3> QED BY <1>b, <1>2, <3>1 DEF RecvWrite, Recv
  <2>1. /\ UNCHANGED <<bad, write_buffer, demux, lost, faulty>>
        /\ base'[t] = received /\ count'[t] = n /\ copied'[t] = 0 /\ pc'[t] = "copy"
        /\ \A u \in Threads \ {t} : /\ base'[u] = base[u] /\ count'[u] = count[u]
                                    /\ copied'[u] = copied[u] /\ pc'[u] = pc[u]
        /\ ~mixed' => ~mixed /\ \A u \in Threads : ~Writing(u)
    BY <1>a, <1>2 DEF RecvWrite, Recv
  <2>2. \A u \in Threads \ {t} : to_copy(u)' = to_copy(u) /\ (Writing(u)' <=> Writing(u))
    BY <2>1 DEF to_copy, Writing
  <2>3. HandsFull'
    <3>1. copied'[t] < count'[t] /\ base'[t] + count'[t] <= received'
      BY <1>b, <2>0, <2>1
    <3>2. ASSUME NEW u \in Threads, u # t, Writing(u)
          PROVE  copied'[u] < count'[u] /\ base'[u] + count'[u] <= received'
      <4>1. copied[u] < count[u] /\ base[u] + count[u] <= received
        BY <3>2 DEF PipeInv, HandsFull
      <4>2. base[u] + count[u] <= received'
        BY <1>b, <2>0, <4>1
      <4> QED BY <2>1, <3>2, <4>1, <4>2
    <3> QED BY <2>2, <3>1, <3>2 DEF HandsFull
  <2>4. \A i \in 1..received : i \in 1..received'
    BY <1>b, <2>0
  <2>5. PageFilled' /\ DemuxReceived'
    BY <2>1, <2>2, <2>4 DEF PipeInv, PageFilled, DemuxReceived
  <2>6. OneAtATime'
    <3> SUFFICES ASSUME ~mixed' PROVE OneAtATime'
      BY DEF OneAtATime
    <3>1. Len(demux) + lost = received /\ \A u \in Threads \ {t} : ~Writing(u)'
      BY <2>1, <2>2 DEF PipeInv, OneAtATime
    <3>2. base'[t] + copied'[t] = Len(demux') + lost' /\ base'[t] + count'[t] = received'
      <4>1. received + 0 = received
        BY <1>b
      <4> QED BY <2>0, <2>1, <3>1, <4>1
    <3>3. Writing(t)' /\ pc'[t] # "filter"
      BY <2>1 DEF Writing
    <3> QED BY <3>1, <3>2, <3>3 DEF OneAtATime
  <2> QED BY <2>1, <2>3, <2>5, <2>6 DEF PipeInv, BadByFault
<1>3. ASSUME NEW t \in Threads, NEW n \in 1..MaxRecv, RecvDropped(t, n) PROVE Rest'
  <2>0. n \in Nat /\ n > 0 /\ received' = received + n /\ lost' = lost + n /\ received <= received'
    <3>1. n \in Nat /\ n > 0
      BY <1>3, BoundsAssumption
    <3> QED BY <1>b, <1>3, <3>1 DEF RecvDropped, Recv
  <2>1. /\ UNCHANGED <<pc, bad, base, count, copied, write_buffer, demux, faulty>>
        /\ ~mixed' => ~mixed /\ \A u \in Threads : ~Writing(u)
    BY <1>3 DEF RecvDropped, Recv, threadVars
  <2>2. \A u \in Threads : to_copy(u)' = to_copy(u) /\ (Writing(u)' <=> Writing(u))
    BY <2>1 DEF to_copy, Writing
  <2>3. HandsFull'
    <3>1. ASSUME NEW u \in Threads, Writing(u)
          PROVE  copied[u] < count[u] /\ base[u] + count[u] <= received'
      <4>1. copied[u] < count[u] /\ base[u] + count[u] <= received
        BY <3>1 DEF PipeInv, HandsFull
      <4> QED BY <1>b, <2>0, <4>1
    <3> QED BY <2>1, <2>2, <3>1 DEF HandsFull
  <2>4. \A i \in 1..received : i \in 1..received'
    BY <1>b, <2>0
  <2>5. PageFilled' /\ DemuxReceived' /\ BadByFault'
    BY <2>1, <2>2, <2>4 DEF PipeInv, PageFilled, DemuxReceived, BadByFault
  <2>6. OneAtATime'
    <3> SUFFICES ASSUME ~mixed' PROVE OneAtATime'
      BY DEF OneAtATime
    <3>1. Len(demux) + lost = received /\ \A u \in Threads : ~Writing(u)'
      BY <2>1, <2>2 DEF PipeInv, OneAtATime
    <3>2. Len(demux') + lost' = received'
      BY <1>b, <2>0, <2>1, <3>1
    <3> QED BY <3>1, <3>2 DEF OneAtATime
  <2> QED BY <2>3, <2>5, <2>6
<1>4. ASSUME NEW t \in Threads, CopyFromUser(t) PROVE Rest'
  <2>1. /\ UNCHANGED <<bad, base, count, copied, demux, received, lost, faulty, mixed>>
        /\ pc[t] = "copy" /\ pc'[t] = "filter" /\ \A u \in Threads \ {t} : pc'[u] = pc[u]
    BY <1>a, <1>4 DEF CopyFromUser, history
  <2>2. \A u \in Threads : to_copy(u)' = to_copy(u) /\ (Writing(u)' <=> Writing(u))
    BY <2>1 DEF to_copy, Writing
  <2>3. /\ copied[t] < count[t] /\ base[t] + count[t] <= received
        /\ to_copy(t) \in Nat /\ to_copy(t) <= PAGE_SIZE /\ copied[t] + to_copy(t) <= count[t]
    BY <1>0, <2>1, ToCopyBounds DEF PipeInv, HandsFull, Writing
  <2>4. /\ \A i \in 1..to_copy(t) : write_buffer'[i] = base[t] + copied[t] + i
        /\ \A i \in 1..PAGE_SIZE :
             write_buffer'[i] = write_buffer[i] \/ write_buffer'[i] \in 1..received
    <3>1. \A i \in 1..PAGE_SIZE : write_buffer'[i] =
            IF i <= to_copy(t) THEN base[t] + copied[t] + i ELSE write_buffer[i]
      BY <1>4 DEF CopyFromUser
    <3>2. \A i \in 1..to_copy(t) : i \in 1..PAGE_SIZE /\ i <= to_copy(t)
      BY <1>b, <2>3
    <3>3. \A i \in 1..PAGE_SIZE : i <= to_copy(t) => base[t] + copied[t] + i \in 1..received
      <4>1. base[t] \in Nat /\ copied[t] \in Nat /\ count[t] \in Nat
        BY <1>b
      <4> QED BY <1>b, <2>3, <4>1
    <3> QED BY <3>1, <3>2, <3>3
  <2>5. ASSUME NEW u \in Threads, pc'[u] = "filter", NEW i \in 1..to_copy(u)
        PROVE  write_buffer'[i] \in 1..received
    <3>1. CASE u = t
      <4>1. base[t] + copied[t] + i \in 1..received
        <5>1. base[t] \in Nat /\ copied[t] \in Nat /\ count[t] \in Nat /\ i \in 1..to_copy(t)
          BY <1>b, <2>5, <3>1
        <5> QED BY <1>b, <2>3, <5>1
      <4> QED BY <2>4, <2>5, <3>1, <4>1
    <3>2. CASE u # t
      <4>1. pc[u] = "filter" /\ copied[u] < count[u]
        BY <2>1, <2>5, <3>2 DEF PipeInv, HandsFull, Writing
      <4>2. i \in 1..PAGE_SIZE
        <5>1. to_copy(u) \in Nat /\ to_copy(u) <= PAGE_SIZE
          BY <1>0, <4>1, ToCopyBounds
        <5> QED BY <1>b, <2>5, <5>1
      <4>3. write_buffer[i] \in 1..received
        BY <2>5, <4>1 DEF PipeInv, PageFilled
      <4> QED BY <2>4, <4>2, <4>3
    <3> QED BY <3>1, <3>2
  <2>6. PageFilled'
    BY <2>1, <2>2, <2>5 DEF PageFilled
  <2>7. OneAtATime'
    <3>1. Writing(t)
      BY <2>1 DEF Writing
    <3> QED BY <2>1, <2>2, <2>4, <3>1 DEF PipeInv, OneAtATime
  <2> QED BY <2>1, <2>2, <2>6, <2>7 DEF PipeInv, HandsFull, DemuxReceived, BadByFault
<1>5. ASSUME NEW t \in Threads, CopyFault(t) PROVE Rest'
  <2>1. /\ UNCHANGED <<base, count, copied, write_buffer, demux, received, mixed>>
        /\ faulty' /\ pc[t] = "copy" /\ pc'[t] = "loop" /\ lost' = lost + count[t] - copied[t]
        /\ \A u \in Threads \ {t} : pc'[u] = pc[u]
    BY <1>a, <1>5 DEF CopyFault
  <2>2. /\ \A u \in Threads : to_copy(u)' = to_copy(u)
        /\ \A u \in Threads : Writing(u)' <=> Writing(u) /\ u # t
        /\ Writing(t)
    BY <2>1 DEF to_copy, Writing
  <2>3. HandsFull' /\ PageFilled' /\ DemuxReceived' /\ BadByFault'
    BY <2>1, <2>2 DEF PipeInv, HandsFull, PageFilled, DemuxReceived, BadByFault
  <2>4. OneAtATime'
    <3> SUFFICES ASSUME ~mixed' PROVE OneAtATime'
      BY DEF OneAtATime
    <3>1. /\ \A u \in Threads : ~Writing(u)'
          /\ base[t] + copied[t] = Len(demux) + lost /\ base[t] + count[t] = received
      BY <2>1, <2>2 DEF PipeInv, OneAtATime
    <3>2. base[t] \in Nat /\ copied[t] \in Nat /\ count[t] \in Nat
      BY <1>b
    <3>3. Len(demux) + (lost + count[t] - copied[t]) = received
      <4>1. Len(demux) \in Nat /\ lost \in Nat /\ received \in Nat
        BY <1>b
      <4>2. base[t] + copied[t] = Len(demux) + lost /\ base[t] + count[t] = received
        BY <3>1
      <4> QED BY <3>2, <4>1, <4>2
    <3>4. Len(demux') + lost' = received'
      BY <2>1, <3>3
    <3> QED BY <3>1, <3>4 DEF OneAtATime
  <2> QED BY <2>3, <2>4
<1>6. ASSUME NEW t \in Threads, SwFilter(t) PROVE Rest'
  <2>1. /\ UNCHANGED <<bad, base, count, write_buffer, received, lost, faulty, mixed>>
        /\ pc[t] = "filter" /\ copied'[t] = copied[t] + to_copy(t)
        /\ demux' = demux \o SubSeq(write_buffer, 1, to_copy(t))
        /\ pc'[t] = IF copied'[t] = count[t] THEN "loop" ELSE "copy"
        /\ \A u \in Threads \ {t} : pc'[u] = pc[u] /\ copied'[u] = copied[u]
    BY <1>a, <1>6 DEF SwFilter, history
  <2>2. Writing(t) /\ copied[t] < count[t] /\ base[t] + count[t] <= received
    BY <2>1 DEF PipeInv, HandsFull, Writing
  <2>3. /\ to_copy(t) \in Nat /\ 0 < to_copy(t) /\ to_copy(t) <= PAGE_SIZE
        /\ copied[t] + to_copy(t) <= count[t]
    BY <1>0, <2>2, ToCopyBounds
  <2>4. \A u \in Threads \ {t} : to_copy(u)' = to_copy(u) /\ (Writing(u)' <=> Writing(u))
    BY <2>1 DEF to_copy, Writing
  <2>5. /\ Len(demux') = Len(demux) + to_copy(t)
        /\ DOMAIN demux' = 1..Len(demux) + to_copy(t)
        /\ \A i \in 1..Len(demux) : demux'[i] = demux[i]
        /\ \A i \in 1..to_copy(t) : demux'[Len(demux) + i] = write_buffer[i]
    BY <1>0, <2>1, <2>3, PageHandedOver
  <2>6. HandsFull'
    <3>1. Writing(t)' => copied'[t] < count'[t] /\ base'[t] + count'[t] <= received'
      <4>1. base[t] \in Nat /\ copied[t] \in Nat /\ count[t] \in Nat
        BY <1>b
      <4>2. copied'[t] # count[t] => copied'[t] < count[t]
        <5>1. copied'[t] = copied[t] + to_copy(t)
          BY <2>1
        <5> QED BY <2>3, <4>1, <5>1
      <4> QED BY <2>1, <2>2, <4>2 DEF Writing
    <3> QED BY <2>1, <2>4, <3>1 DEF PipeInv, HandsFull
  <2>7. PageFilled'
    BY <2>1, <2>4 DEF PipeInv, PageFilled
  <2>8. DemuxReceived'
    <3>1. ASSUME NEW i \in DOMAIN demux' PROVE demux'[i] \in 1..received
      <4>1. CASE i \in 1..Len(demux)
        BY <1>b, <2>5, <4>1 DEF PipeInv, DemuxReceived
      <4>2. CASE i \notin 1..Len(demux)
        <5>1. i - Len(demux) \in 1..to_copy(t) /\ Len(demux) + (i - Len(demux)) = i
          <6>1. Len(demux) \in Nat /\ to_copy(t) \in Nat /\ i \in 1..Len(demux) + to_copy(t)
            BY <1>b, <2>3, <2>5, <3>1
          <6> QED BY <4>2, <6>1
        <5>2. demux'[i] = write_buffer[i - Len(demux)]
          BY <2>5, <5>1
        <5> QED BY <2>1, <5>1, <5>2 DEF PipeInv, PageFilled
      <4> QED BY <4>1, <4>2
    <3> QED BY <2>1, <3>1 DEF DemuxReceived
  <2>9. OneAtATime'
    <3> SUFFICES ASSUME ~mixed' PROVE OneAtATime'
      BY DEF OneAtATime
    <3>1. /\ \A u \in Threads \ {t} : ~Writing(u)'
          /\ base[t] + copied[t] = Len(demux) + lost /\ base[t] + count[t] = received
      BY <2>1, <2>2, <2>4 DEF PipeInv, OneAtATime
    <3>2. base[t] \in Nat /\ copied[t] \in Nat /\ count[t] \in Nat
      BY <1>b
    <3>3. base'[t] + copied'[t] = Len(demux') + lost' /\ base'[t] + count'[t] = received'
      <4>1. base[t] + (copied[t] + to_copy(t)) = (Len(demux) + to_copy(t)) + lost
        <5>1. Len(demux) \in Nat /\ lost \in Nat /\ to_copy(t) \in Nat
          BY <1>b, <2>3
        <5>2. base[t] + copied[t] = Len(demux) + lost
          BY <3>1
        <5> QED BY <3>2, <5>1, <5>2
      <4> QED BY <2>1, <2>5, <3>1, <4>1
    <3>4. ~Writing(t)' => Len(demux') + lost' = received'
      <4>1. ~Writing(t)' => copied'[t] = count'[t]
        BY <2>1 DEF Writing
      <4> QED BY <3>3, <4>1
    <3>5. pc'[t] # "filter"
      BY <2>1
    <3> QED BY <3>1, <3>3, <3>4, <3>5 DEF OneAtATime
  <2> QED BY <2>1, <2>6, <2>7, <2>8, <2>9 DEF PipeInv, BadByFault
<1>7. ASSUME UNCHANGED vars PROVE Rest'
  <2>1. \A u \in Threads : to_copy(u)' = to_copy(u) /\ (Writing(u)' <=> Writing(u))
    BY <1>7 DEF vars, threadVars, to_copy, Writing
  <2> QED BY <1>7, <2>1 DEF vars, threadVars, history, PipeInv, HandsFull, PageFilled, DemuxReceived, BadByFault, OneAtATime
<1>8. Rest'
  <2> HIDE DEF Rest
  <2> QED BY <1>1, <1>2, <1>3, <1>4, <1>5, <1>6, <1>7 DEF Next, WriteStep
<1> QED BY <1>0, <1>8 DEF PipeInv

\* The variables keep their kinds; what is lost never exceeds what a thread had.
THEOREM TypeCorrect == Spec => []TypeOK
<1>1. PipeInv => TypeOK
  BY DEF PipeInv
<1> QED BY <1>1, InitPipeInv, NextPipeInv, PTL DEF Spec

-----------------------------------------------------------------------------
(* The device implements the pipe.                                         *)

\* A page is delivered: the next bytes of the stream, or after threads mixed
\* bytes of the stream.
LEMMA SwFilterDelivers ==
  ASSUME PipeInv, PipeInv', NEW t \in Threads, SwFilter(t)
  PROVE  Pipe!Deliver \/ Pipe!DeliverMixed
<1> DEFINE k == to_copy(t)
<1>1. /\ UNCHANGED <<received, lost, faulty, mixed>>
      /\ demux' = demux \o SubSeq(write_buffer, 1, k)
      /\ pc[t] = "filter" /\ Writing(t) /\ copied[t] < count[t]
  BY DEF SwFilter, history, PipeInv, HandsFull, Writing
<1>2. /\ k \in Nat /\ 0 < k /\ k <= PAGE_SIZE /\ copied[t] + k <= count[t]
  BY <1>1, ToCopyBounds DEF PipeInv
<1> HIDE DEF k
<1>3. /\ demux' \in Seq(Nat) /\ Len(demux') = Len(demux) + k /\ Len(demux) \in Nat
      /\ DOMAIN demux = 1..Len(demux) /\ DOMAIN demux' = 1..Len(demux) + k
      /\ \A i \in 1..Len(demux) : demux'[i] = demux[i]
      /\ \A i \in 1..k : demux'[Len(demux) + i] = write_buffer[i]
  BY <1>1, <1>2, PageHandedOver DEF PipeInv
<1>4. Len(demux') > Len(demux) /\ Len(demux') - Len(demux) = k
  BY <1>2, <1>3
<1>5. demux \in Seq(Nat) /\ lost \in Nat /\ received \in Nat
  BY DEF PipeInv, TypeOK
<1>6. CASE ~mixed
  <2>1. /\ base[t] + copied[t] = Len(demux) + lost /\ base[t] + count[t] = received
        /\ \A i \in 1..k : write_buffer[i] = base[t] + copied[t] + i
    BY <1>1, <1>6 DEF PipeInv, OneAtATime, k
  <2>2. base[t] \in Nat /\ copied[t] \in Nat /\ count[t] \in Nat
    BY DEF PipeInv, TypeOK
  <2>3. Len(demux') + lost <= received
    <3>1. Len(demux') = Len(demux) + k /\ Len(demux) \in Nat
      BY <1>3
    <3>2. base[t] + copied[t] = Len(demux) + lost /\ base[t] + count[t] = received
      BY <2>1
    <3> QED BY <1>2, <1>5, <2>2, <3>1, <3>2
  <2>4. SubSeq(write_buffer, 1, k) = [i \in 1..k |-> Len(demux) + lost + i]
    <3>1. SubSeq(write_buffer, 1, k) = [i \in 1..k |-> write_buffer[i]]
      <4>1. SubSeq(write_buffer, 1, k) = [i \in 1..(1 + k - 1) |-> write_buffer[i + 1 - 1]]
        BY <1>2
      <4>2. 1 + k - 1 = k /\ \A i \in 1..k : i + 1 - 1 = i
        BY <1>2
      <4> QED BY <4>1, <4>2
    <3>2. \A i \in 1..k : write_buffer[i] = Len(demux) + lost + i
      BY <2>1
    <3> QED BY <3>1, <3>2
  <2>5. demux' = demux \o Pipe!Run(Len(demux) + lost, Len(demux') - Len(demux))
    BY <1>1, <1>4, <2>4 DEF Pipe!Run
  <2> QED BY <1>1, <1>4, <1>6, <2>3, <2>5 DEF Pipe!Deliver
<1>7. CASE mixed
  <2>1. \A i \in DOMAIN demux' : demux'[i] \in 1..received
    BY <1>1 DEF PipeInv, DemuxReceived
  <2>2. demux = SubSeq(demux', 1, Len(demux))
    <3>1. \A i \in 1..Len(demux) : demux'[i] \in Nat
      BY <1>3, <1>5, ElementOfSeq
    <3>2. /\ SubSeq(demux', 1, Len(demux)) \in Seq(Nat)
          /\ Len(SubSeq(demux', 1, Len(demux))) = IF 1 <= Len(demux) THEN Len(demux) - 1 + 1 ELSE 0
          /\ \A i \in 1..Len(demux) - 1 + 1 : SubSeq(demux', 1, Len(demux))[i] = demux'[1 + i - 1]
      BY <1>3, <3>1, SubSeqProperties
    <3>3. /\ (IF 1 <= Len(demux) THEN Len(demux) - 1 + 1 ELSE 0) = Len(demux)
          /\ \A i \in 1..Len(demux) : i \in 1..Len(demux) - 1 + 1 /\ 1 + i - 1 = i
      BY <1>3
    <3>4. \A i \in 1..Len(demux) : demux[i] = SubSeq(demux', 1, Len(demux))[i]
      BY <1>3, <3>2, <3>3
    <3>5. Len(demux) = Len(SubSeq(demux', 1, Len(demux)))
      BY <3>2, <3>3
    <3> QED BY <1>5, <3>2, <3>4, <3>5, SeqEqual
  <2> QED BY <1>1, <1>4, <1>7, <2>1, <2>2 DEF Pipe!DeliverMixed
<1> QED BY <1>6, <1>7

\* What a fault loses was received and not delivered.
LEMMA CopyFaultFails ==
  ASSUME PipeInv, NEW t \in Threads, CopyFault(t)
  PROVE  Pipe!Fail
<1>1. /\ UNCHANGED <<received, demux, mixed>> /\ faulty' = TRUE
      /\ lost' = lost + count[t] - copied[t] /\ Writing(t) /\ copied[t] < count[t]
  BY DEF CopyFault, Writing
<1>2. /\ base[t] \in Nat /\ copied[t] \in Nat /\ count[t] \in Nat
      /\ lost \in Nat /\ received \in Nat /\ Len(demux) \in Nat
  BY LenProperties DEF PipeInv, TypeOK
<1>3. lost' >= lost
  BY <1>1, <1>2
<1>4. ASSUME ~mixed PROVE lost' + Len(demux) <= received
  <2>1. base[t] + copied[t] = Len(demux) + lost /\ base[t] + count[t] = received
    BY <1>1, <1>4 DEF PipeInv, OneAtATime
  <2> QED BY <1>1, <1>2, <2>1
<1> QED BY <1>1, <1>3, <1>4 DEF Pipe!Fail

\* The data device is a pipe, whatever sizes come from the network, however the
\* threads of the tuner start and stop and whichever copies fail: in order and
\* complete until two threads write at the same time, and never with a byte
\* that was not received.
THEOREM DeviceIsPipe == Spec => ImplementsPipe
<1>1. Init => Pipe!Init
  BY DEF Init, Pipe!Init
<1>2. PipeInv /\ PipeInv' /\ [Next]_vars => [Pipe!Next]_(Pipe!vars)
  <2> SUFFICES ASSUME PipeInv, PipeInv', [Next]_vars PROVE [Pipe!Next]_(Pipe!vars)
    OBVIOUS
  <2>1. ASSUME NEW t \in Threads, Open(t) \/ Close(t) \/ CopyFromUser(t) PROVE UNCHANGED Pipe!vars
    BY <2>1 DEF Open, Close, CopyFromUser, history, Pipe!vars
  <2>2. ASSUME NEW t \in Threads, NEW n \in 1..MaxRecv, RecvWrite(t, n) \/ RecvDropped(t, n)
        PROVE  Pipe!Receive
    <3>1. n \in Nat /\ n > 0 /\ received \in Nat /\ lost \in Nat /\ mixed \in BOOLEAN
      BY <2>2, BoundsAssumption DEF PipeInv, TypeOK
    <3>2. received' = received + n /\ mixed' \in {mixed, TRUE}
      BY <2>2, <3>1 DEF RecvWrite, RecvDropped, Recv
    <3>3. received' > received /\ received' - received = n
      BY <3>1, <3>2
    <3>4. CASE RecvWrite(t, n)
      BY <3>2, <3>3, <3>4 DEF RecvWrite, Pipe!Receive
    <3>5. CASE RecvDropped(t, n)
      <4>1. faulty /\ lost' = lost + n /\ UNCHANGED <<demux, faulty>>
        BY <3>5 DEF RecvDropped, PipeInv, BadByFault
      <4>2. lost' - lost = received' - received
        BY <3>1, <3>3, <4>1
      <4> QED BY <3>2, <3>3, <4>1, <4>2 DEF Pipe!Receive
    <3> QED BY <2>2, <3>4, <3>5
  <2>3. ASSUME NEW t \in Threads, CopyFault(t) PROVE Pipe!Fail
    BY <2>3, CopyFaultFails
  <2>4. ASSUME NEW t \in Threads, SwFilter(t) PROVE Pipe!Deliver \/ Pipe!DeliverMixed
    BY <2>4, SwFilterDelivers
  <2>5. CASE UNCHANGED vars
    BY <2>5 DEF vars, history, Pipe!vars
  <2> QED BY <2>1, <2>2, <2>3, <2>4, <2>5 DEF Next, WriteStep, Pipe!Next
<1> QED BY <1>1, <1>2, InitPipeInv, NextPipeInv, PTL DEF Spec, ImplementsPipe, Pipe!Spec

-----------------------------------------------------------------------------
(* A collision of threads costs the bytes they have in hand and no others. *)

\* The bytes in hand are those between two places of the stream.
LEMMA HandIs ==
  ASSUME TypeOK, HandsFull, NEW t \in Threads
  PROVE  /\ Writing(t) => InHand(t) = base[t] + copied[t] + 1..base[t] + count[t]
         /\ ~Writing(t) => InHand(t) = {}
<1>1. base[t] \in Nat /\ copied[t] \in Nat /\ count[t] \in Nat /\ received \in Nat
  BY DEF TypeOK
<1>2. ASSUME Writing(t) PROVE InHand(t) = base[t] + copied[t] + 1..base[t] + count[t]
  <2>1. base[t] + count[t] <= received
    BY <1>2 DEF HandsFull
  <2> QED BY <1>1, <1>2, <2>1 DEF InHand
<1> QED BY <1>2 DEF InHand

\* The same of the state after a step.
LEMMA HandIsAfter ==
  ASSUME TypeOK', HandsFull', NEW t \in Threads
  PROVE  /\ Writing(t)' => InHand(t)' = base'[t] + copied'[t] + 1..base'[t] + count'[t]
         /\ ~Writing(t)' => InHand(t)' = {}
<1>1. base'[t] \in Nat /\ copied'[t] \in Nat /\ count'[t] \in Nat /\ received' \in Nat
  BY DEF TypeOK
<1>2. ASSUME Writing(t)' PROVE InHand(t)' = base'[t] + copied'[t] + 1..base'[t] + count'[t]
  <2>1. base'[t] + count'[t] <= received'
    BY <1>2 DEF HandsFull
  <2> QED BY <1>1, <1>2, <2>1 DEF InHand
<1> QED BY <1>2 DEF InHand

\* At first nothing was received.
LEMMA InitCleanInv == Init => CleanInv
<1> SUFFICES ASSUME Init PROVE CleanInv
  OBVIOUS
<1>1. DOMAIN demux = {} /\ 1..received = {}
  BY EmptySeq DEF Init
<1>2. \A t \in Threads : pc[t] = "closed"
  BY DEF Init
<1> QED BY <1>1, <1>2
        DEF CleanInv, Collided, PageClean, DemuxInOrder, DemuxBehind, CleanKept, Writing

\* A step that leaves the threads in a write and what they hold as they were.
LEMMA CleanSame ==
  ASSUME PipeInv, PipeInv', CleanInv,
         UNCHANGED <<base, count, copied, write_buffer, demux, received, spoiled>>,
         \A u \in Threads : (Writing(u)' <=> Writing(u)) /\ (pc'[u] = "filter" <=> pc[u] = "filter")
  PROVE  CleanInv'
<1>1. \A u \in Threads : InHand(u)' = InHand(u) /\ to_copy(u)' = to_copy(u)
  BY DEF InHand, to_copy
<1>2. \A u \in Threads : Spoilt(u)' <=> Spoilt(u)
  BY <1>1 DEF Spoilt
<1>3. Collided' /\ PageClean' /\ DemuxInOrder' /\ DemuxBehind'
  BY <1>1, <1>2 DEF CleanInv, Collided, PageClean, DemuxInOrder, DemuxBehind
<1>4. CleanKept'
  BY <1>1 DEF CleanInv, CleanKept
<1> QED BY <1>3, <1>4 DEF CleanInv

\* What a thread is about to hand over it has in hand.
LEMMA PageInHand ==
  ASSUME PipeInv, NEW t \in Threads, Writing(t)
  PROVE  /\ to_copy(t) \in Nat /\ 0 < to_copy(t) /\ copied[t] + to_copy(t) <= count[t]
         /\ to_copy(t) <= PAGE_SIZE
         /\ \A i \in 1..to_copy(t) : base[t] + copied[t] + i \in InHand(t)
<1>1. TypeOK /\ HandsFull /\ copied[t] < count[t]
  BY DEF PipeInv, HandsFull
<1>2. base[t] \in Nat /\ copied[t] \in Nat /\ count[t] \in Nat
  BY <1>1 DEF TypeOK
<1>3. to_copy(t) \in Nat /\ 0 < to_copy(t) /\ copied[t] + to_copy(t) <= count[t] /\ to_copy(t) <= PAGE_SIZE
  BY <1>1, ToCopyBounds
<1>4. InHand(t) = base[t] + copied[t] + 1..base[t] + count[t]
  BY <1>1, HandIs
<1> QED BY <1>2, <1>3, <1>4

\* Data for the only thread in a write: the demultiplexer has all that came before.
LEMMA CleanRecvAlone ==
  ASSUME PipeInv, PipeInv', CleanInv, NEW t \in Threads, NEW n \in 1..MaxRecv, RecvWrite(t, n),
         \A u \in Threads : ~Writing(u)
  PROVE  CleanInv'
<1>a. /\ pc \in [Threads -> {"closed", "loop", "copy", "filter"}]
      /\ base \in [Threads -> Nat] /\ count \in [Threads -> Nat] /\ copied \in [Threads -> Nat]
      /\ received \in Nat
  BY DEF PipeInv, TypeOK
<1>0. n \in Nat /\ n > 0 /\ received' = received + n
  <2>1. n \in Nat /\ n > 0
    BY BoundsAssumption
  <2> QED BY <2>1 DEF RecvWrite, Recv
<1>1. /\ UNCHANGED <<demux, spoiled>> /\ base'[t] = received /\ count'[t] = n /\ copied'[t] = 0
      /\ pc'[t] = "copy" /\ \A u \in Threads \ {t} : pc'[u] = pc[u]
  BY <1>a DEF RecvWrite
<1>2. Writing(t)' /\ \A u \in Threads \ {t} : ~Writing(u)'
  BY <1>1 DEF Writing
<1>3. \A u \in Threads : pc'[u] # "filter"
  BY <1>1, <1>2 DEF Writing
<1>4. Collided' /\ PageClean' /\ DemuxInOrder'
  BY <1>1, <1>2, <1>3 DEF CleanInv, Collided, PageClean, DemuxInOrder
<1>5. DemuxBehind'
  <2>1. received + 0 = received
    BY <1>a
  <2>2. \A i \in DOMAIN demux : demux[i] <= received
    BY <1>a DEF PipeInv, DemuxReceived
  <2> QED BY <1>1, <1>2, <2>1, <2>2 DEF DemuxBehind
<1>6. InHand(t)' = received + 0 + 1..received + n
  <2>1. TypeOK' /\ HandsFull'
    BY DEF PipeInv
  <2> QED BY <1>1, <1>2, <2>1, HandIsAfter
<1>7. \A b \in 1..received' : b \in 1..received \/ b \in InHand(t)'
  BY <1>a, <1>0, <1>6
<1>8. \A u \in Threads : InHand(u) = {}
  BY DEF InHand
<1>9. CleanKept'
  BY <1>1, <1>7, <1>8 DEF CleanInv, CleanKept
<1> QED BY <1>4, <1>5, <1>9 DEF CleanInv

\* Data for a thread while another one writes: all that is in hand is spoiled.
LEMMA CleanRecvCollides ==
  ASSUME PipeInv, PipeInv', CleanInv, NEW t \in Threads, NEW n \in 1..MaxRecv, RecvWrite(t, n),
         ~ \A u \in Threads : ~Writing(u)
  PROVE  CleanInv'
<1>a. /\ pc \in [Threads -> {"closed", "loop", "copy", "filter"}]
      /\ base \in [Threads -> Nat] /\ count \in [Threads -> Nat] /\ copied \in [Threads -> Nat]
      /\ received \in Nat
  BY DEF PipeInv, TypeOK
<1>0. n \in Nat /\ n > 0 /\ received' = received + n
  <2>1. n \in Nat /\ n > 0
    BY BoundsAssumption
  <2> QED BY <2>1 DEF RecvWrite, Recv
<1>1. /\ UNCHANGED <<demux, write_buffer>>
      /\ base'[t] = received /\ count'[t] = n /\ copied'[t] = 0 /\ pc'[t] = "copy"
      /\ \A u \in Threads \ {t} : /\ base'[u] = base[u] /\ count'[u] = count[u]
                                  /\ copied'[u] = copied[u] /\ pc'[u] = pc[u]
  BY <1>a DEF RecvWrite
<1>c. /\ spoiled \subseteq spoiled' /\ \A u \in Threads : InHand(u) \subseteq spoiled'
      /\ received + 1..received + n \subseteq spoiled'
  <2>1. spoiled' = spoiled \cup (UNION {InHand(u) : u \in Threads}) \cup (received + 1..received + n)
    BY DEF RecvWrite
  <2>2. ASSUME NEW u \in Threads, NEW b \in InHand(u) PROVE b \in spoiled'
    <3>1. b \in UNION {InHand(v) : v \in Threads}
      OBVIOUS
    <3> QED BY <2>1, <3>1
  <2>3. \A b : b \in spoiled \/ b \in received + 1..received + n => b \in spoiled'
    BY <2>1, Zenon
  <2> QED BY <2>2, <2>3
<1>2. TypeOK /\ HandsFull /\ TypeOK' /\ HandsFull'
  BY DEF PipeInv
<1>3. \A u \in Threads \ {t} : (Writing(u)' <=> Writing(u)) /\ to_copy(u)' = to_copy(u)
  BY <1>1 DEF Writing, to_copy
<1>4. \A u \in Threads \ {t} : InHand(u)' = InHand(u)
  BY <1>1, <1>2, <1>3, HandIs, HandIsAfter
<1>5. InHand(t)' \subseteq spoiled'
  <2>1. Writing(t)'
    BY <1>1 DEF Writing
  <2>2. InHand(t)' = received + 0 + 1..received + n
    BY <1>1, <1>2, <2>1, HandIsAfter
  <2>3. received + 0 + 1 = received + 1
    BY <1>a
  <2> QED BY <1>c, <2>2, <2>3
<1>6. \A u \in Threads : Spoilt(u)'
  BY <1>c, <1>4, <1>5 DEF Spoilt
<1>7. Collided' /\ DemuxBehind'
  BY <1>6 DEF Collided, DemuxBehind
<1>8. PageClean'
  <2> SUFFICES ASSUME NEW u \in Threads, pc'[u] = "filter", NEW i \in 1..to_copy(u)'
               PROVE  write_buffer[i] \in spoiled'
    BY <1>1, <1>6 DEF PageClean
  <2>1. u # t /\ pc[u] = "filter" /\ Writing(u) /\ to_copy(u)' = to_copy(u)
    BY <1>1, <1>3 DEF Writing
  <2>2. base[u] + copied[u] + i \in InHand(u)
    BY <2>1, PageInHand
  <2>3. write_buffer[i] \in spoiled \/ write_buffer[i] = base[u] + copied[u] + i
    BY <2>1 DEF CleanInv, PageClean
  <2> QED BY <1>c, <2>2, <2>3
<1>9. DemuxInOrder'
  BY <1>1, <1>c DEF CleanInv, DemuxInOrder
<1>10. CleanKept'
  <2>1. \A b \in 1..received' : b \in 1..received \/ b \in received + 1..received + n
    BY <1>a, <1>0
  <2> QED BY <1>1, <1>c, <2>1 DEF CleanInv, CleanKept
<1> QED BY <1>7, <1>8, <1>9, <1>10 DEF CleanInv

\* Data that is given up disturbs nobody.
LEMMA CleanRecvDropped ==
  ASSUME PipeInv, PipeInv', CleanInv, NEW t \in Threads, NEW n \in 1..MaxRecv, RecvDropped(t, n)
  PROVE  CleanInv'
<1>0. n \in Nat /\ n > 0 /\ received' = received + n /\ received \in Nat
  <2>1. n \in Nat /\ n > 0
    BY BoundsAssumption
  <2> QED BY <2>1 DEF RecvDropped, Recv, PipeInv, TypeOK
<1>1. /\ UNCHANGED <<pc, base, count, copied, write_buffer, demux>>
      /\ spoiled' = spoiled \cup (received + 1..received + n)
  BY DEF RecvDropped, threadVars
<1>2. TypeOK /\ HandsFull /\ TypeOK' /\ HandsFull'
  BY DEF PipeInv
<1>3. \A u \in Threads : (Writing(u)' <=> Writing(u)) /\ to_copy(u)' = to_copy(u)
  BY <1>1 DEF Writing, to_copy
<1>4. \A u \in Threads : InHand(u)' = InHand(u)
  BY <1>1, <1>2, <1>3, HandIs, HandIsAfter
<1>5. \A u \in Threads : InHand(u) \subseteq 1..received
  BY DEF InHand
<1>6. \A b \in 1..received : b \in spoiled' <=> b \in spoiled
  <2>1. \A b \in 1..received : b \notin received + 1..received + n
    BY <1>0
  <2> QED BY <1>1, <2>1
<1>7. \A u \in Threads : Spoilt(u)' <=> Spoilt(u)
  BY <1>4, <1>5, <1>6 DEF Spoilt
<1>8. Collided'
  BY <1>3, <1>7 DEF CleanInv, Collided
<1>9. PageClean'
  BY <1>1, <1>3, <1>7 DEF CleanInv, PageClean
<1>10. DemuxInOrder' /\ DemuxBehind'
  BY <1>1, <1>3, <1>7 DEF CleanInv, DemuxInOrder, DemuxBehind
<1>11. CleanKept'
  <2>1. \A b \in 1..received' : b \in 1..received \/ b \in received + 1..received + n
    BY <1>0
  <2> QED BY <1>1, <1>4, <2>1 DEF CleanInv, CleanKept
<1> QED BY <1>8, <1>9, <1>10, <1>11 DEF CleanInv

\* A copy overwrites the page of another thread only after they collided.
LEMMA CleanCopyFromUser ==
  ASSUME PipeInv, PipeInv', CleanInv, NEW t \in Threads, CopyFromUser(t)
  PROVE  CleanInv'
<1>1. /\ UNCHANGED <<base, count, copied, demux, received, spoiled>>
      /\ pc[t] = "copy" /\ pc'[t] = "filter" /\ \A u \in Threads \ {t} : pc'[u] = pc[u]
  BY DEF CopyFromUser, history, PipeInv, TypeOK
<1>2. \A u \in Threads : (Writing(u)' <=> Writing(u)) /\ to_copy(u)' = to_copy(u)
  BY <1>1 DEF Writing, to_copy
<1>3. \A u \in Threads : InHand(u)' = InHand(u)
  BY <1>1, <1>2 DEF InHand
<1>4. \A u \in Threads : Spoilt(u)' <=> Spoilt(u)
  BY <1>1, <1>3 DEF Spoilt
<1>5. Collided' /\ DemuxInOrder' /\ DemuxBehind'
  BY <1>1, <1>2, <1>4 DEF CleanInv, Collided, DemuxInOrder, DemuxBehind
<1>6. CleanKept'
  BY <1>1, <1>3 DEF CleanInv, CleanKept
<1>7. Writing(t)
  BY <1>1 DEF Writing
<1>8. \A i \in 1..PAGE_SIZE : write_buffer'[i] =
        IF i <= to_copy(t) THEN base[t] + copied[t] + i ELSE write_buffer[i]
  BY DEF CopyFromUser
<1>9. /\ to_copy(t) \in Nat /\ to_copy(t) <= PAGE_SIZE
      /\ \A i \in 1..to_copy(t) : base[t] + copied[t] + i \in InHand(t)
  BY <1>7, PageInHand
<1>10. PAGE_SIZE \in Nat
  BY PageAssumption
<1>11. ASSUME NEW i \in 1..to_copy(t)
       PROVE  IF Spoilt(t) THEN write_buffer'[i] \in spoiled
                           ELSE write_buffer'[i] = base[t] + copied[t] + i
  <2>1. i \in 1..PAGE_SIZE /\ i <= to_copy(t)
    BY <1>9, <1>10
  <2>2. write_buffer'[i] = base[t] + copied[t] + i
    BY <1>8, <2>1
  <2> QED BY <1>9, <2>2 DEF Spoilt
<1>12. ASSUME NEW u \in Threads \ {t}, pc'[u] = "filter", NEW i \in 1..to_copy(u)
       PROVE  Spoilt(u) /\ write_buffer'[i] \in spoiled
  <2>1. pc[u] = "filter" /\ Writing(u)
    BY <1>1, <1>12 DEF Writing
  <2>2. Spoilt(u) /\ Spoilt(t)
    BY <1>7, <2>1 DEF CleanInv, Collided
  <2>3. write_buffer[i] \in spoiled
    BY <2>1, <2>2 DEF CleanInv, PageClean
  <2>4. i \in 1..PAGE_SIZE
    <3>1. to_copy(u) \in Nat /\ to_copy(u) <= PAGE_SIZE
      BY <2>1, PageInHand
    <3> QED BY <1>10, <3>1
  <2>5. i <= to_copy(t) => i \in 1..to_copy(t)
    BY <1>9, <2>4
  <2> QED BY <1>8, <1>9, <2>2, <2>3, <2>4, <2>5 DEF Spoilt
<1>13. PageClean'
  BY <1>1, <1>2, <1>4, <1>11, <1>12 DEF PageClean
<1> QED BY <1>5, <1>6, <1>13 DEF CleanInv

\* A fault spoils what the thread has in hand, which no other one has undisturbed.
LEMMA CleanCopyFault ==
  ASSUME PipeInv, PipeInv', CleanInv, NEW t \in Threads, CopyFault(t)
  PROVE  CleanInv'
<1>1. /\ UNCHANGED <<base, count, copied, write_buffer, demux, received>>
      /\ spoiled' = spoiled \cup InHand(t)
      /\ pc[t] = "copy" /\ pc'[t] = "loop" /\ \A u \in Threads \ {t} : pc'[u] = pc[u]
  BY DEF CopyFault, PipeInv, TypeOK
<1>2. /\ Writing(t) /\ ~Writing(t)' /\ \A u \in Threads \ {t} : Writing(u)' <=> Writing(u)
      /\ \A u \in Threads : to_copy(u)' = to_copy(u)
  BY <1>1 DEF Writing, to_copy
<1>3. \A u \in Threads \ {t} : InHand(u)' = InHand(u)
  BY <1>1, <1>2 DEF InHand
<1>4. ASSUME NEW u \in Threads \ {t}, Writing(u) PROVE spoiled' = spoiled /\ Spoilt(u) /\ Spoilt(u)'
  <2>1. Spoilt(t) /\ Spoilt(u)
    BY <1>2, <1>4 DEF CleanInv, Collided
  <2> QED BY <1>1, <1>3, <2>1 DEF Spoilt
<1>5. Collided' /\ DemuxBehind'
  BY <1>2, <1>4 DEF Collided, DemuxBehind
<1>6. PageClean'
  <2> SUFFICES ASSUME NEW u \in Threads, pc'[u] = "filter", NEW i \in 1..to_copy(u)'
               PROVE  Spoilt(u)' /\ write_buffer[i] \in spoiled'
    BY <1>1 DEF PageClean
  <2>1. u # t /\ pc[u] = "filter" /\ Writing(u) /\ i \in 1..to_copy(u)
    BY <1>1, <1>2 DEF Writing
  <2> QED BY <1>4, <2>1 DEF CleanInv, PageClean
<1>7. DemuxInOrder'
  BY <1>1 DEF CleanInv, DemuxInOrder
<1>8. CleanKept'
  BY <1>1, <1>3 DEF CleanInv, CleanKept
<1> QED BY <1>5, <1>6, <1>7, <1>8 DEF CleanInv

\* A page of an undisturbed thread comes next in the demultiplexer, one of another
\* thread brings only spoiled bytes.
LEMMA CleanSwFilter ==
  ASSUME PipeInv, PipeInv', CleanInv, NEW t \in Threads, SwFilter(t)
  PROVE  CleanInv'
<1> DEFINE k == to_copy(t)
           at == base[t] + copied[t]
<1>a. /\ pc \in [Threads -> {"closed", "loop", "copy", "filter"}]
      /\ copied \in [Threads -> Nat]
  BY DEF PipeInv, TypeOK
<1>1. /\ UNCHANGED <<base, count, write_buffer, received, spoiled>> /\ copied'[t] = copied[t] + k
      /\ demux' = demux \o SubSeq(write_buffer, 1, k)
      /\ pc[t] = "filter" /\ pc'[t] \in {"loop", "copy"}
      /\ Writing(t) /\ (Writing(t)' <=> copied[t] + k # count[t])
      /\ \A u \in Threads \ {t} : copied'[u] = copied[u] /\ pc'[u] = pc[u] /\ (Writing(u)' <=> Writing(u))
  BY <1>a DEF SwFilter, Writing, history
<1>2. /\ k \in Nat /\ 0 < k /\ k <= PAGE_SIZE /\ copied[t] + k <= count[t]
      /\ \A i \in 1..k : at + i \in InHand(t)
  BY <1>1, PageInHand
<1>3. /\ DOMAIN demux = 1..Len(demux) /\ DOMAIN demux' = 1..Len(demux) + k /\ Len(demux) \in Nat
      /\ \A i \in 1..Len(demux) : demux'[i] = demux[i]
      /\ \A i \in 1..k : demux'[Len(demux) + i] = write_buffer[i]
  BY <1>1, <1>2, PageHandedOver DEF PipeInv
<1>4. TypeOK /\ HandsFull /\ TypeOK' /\ HandsFull'
  BY DEF PipeInv
<1>5. base[t] \in Nat /\ copied[t] \in Nat /\ count[t] \in Nat /\ at \in Nat
  BY <1>4 DEF TypeOK
<1>6. \A u \in Threads \ {t} : InHand(u)' = InHand(u) /\ to_copy(u)' = to_copy(u)
  BY <1>1 DEF InHand, to_copy
<1>7. InHand(t) = at + 1..base[t] + count[t]
  BY <1>1, <1>4, HandIs
<1>8. InHand(t)' \subseteq InHand(t) /\ \A b \in InHand(t) : b \in InHand(t)' \/ b \in at + 1..at + k
  <2>1. CASE Writing(t)'
    <3>1. InHand(t)' = base[t] + (copied[t] + k) + 1..base[t] + count[t]
      BY <1>1, <1>4, <2>1, HandIsAfter
    <3> QED BY <1>2, <1>5, <1>7, <3>1
  <2>2. CASE ~Writing(t)'
    <3>1. InHand(t)' = {} /\ copied[t] + k = count[t]
      BY <1>1, <1>4, <2>2, HandIsAfter
    <3>2. base[t] + count[t] = at + k
      BY <1>2, <1>5, <3>1
    <3> QED BY <1>7, <3>1, <3>2
  <2> QED BY <2>1, <2>2
<1>9. /\ \A u \in Threads \ {t} : Spoilt(u)' <=> Spoilt(u)
      /\ Spoilt(t) => Spoilt(t)'
  BY <1>1, <1>6, <1>8 DEF Spoilt
<1>10. \A u \in Threads \ {t} : Writing(u) => Spoilt(u) /\ Spoilt(t)
  BY <1>1 DEF CleanInv, Collided
<1>11. \A i \in 1..k : IF Spoilt(t) THEN write_buffer[i] \in spoiled ELSE write_buffer[i] = at + i
  BY <1>1 DEF CleanInv, PageClean
<1>12. ~Spoilt(t) => \A i \in 1..Len(demux) : demux[i] \in spoiled \/ demux[i] <= at
  BY <1>1, <1>3 DEF CleanInv, DemuxBehind
<1>13. \A j \in 1..Len(demux) + k : j \in 1..Len(demux) \/ \E i \in 1..k : j = Len(demux) + i
  <2> SUFFICES ASSUME NEW j \in 1..Len(demux) + k, j \notin 1..Len(demux)
               PROVE  \E i \in 1..k : j = Len(demux) + i
    OBVIOUS
  <2>1. j - Len(demux) \in 1..k /\ j = Len(demux) + (j - Len(demux))
    BY <1>2, <1>3
  <2> QED BY <2>1
<1>b. \A i \in DOMAIN demux : demux[i] \in Nat
  BY <1>3, <1>4 DEF TypeOK
<1> HIDE DEF k, at
<1>14. Collided'
  BY <1>1, <1>9, <1>10 DEF Collided
<1>15. PageClean'
  <2> SUFFICES ASSUME NEW u \in Threads, pc'[u] = "filter", NEW i \in 1..to_copy(u)'
               PROVE  Spoilt(u)' /\ write_buffer[i] \in spoiled
    BY <1>1 DEF PageClean
  <2>1. u # t /\ pc[u] = "filter" /\ Writing(u) /\ i \in 1..to_copy(u)
    BY <1>1, <1>6 DEF Writing
  <2> QED BY <1>9, <1>10, <2>1 DEF CleanInv, PageClean
<1>16. DemuxInOrder'
  <2> SUFFICES ASSUME NEW i \in 1..Len(demux) + k, NEW j \in 1..Len(demux) + k, i < j,
                      demux'[i] \notin spoiled, demux'[j] \notin spoiled
               PROVE  demux'[i] < demux'[j]
    BY <1>1, <1>3 DEF DemuxInOrder
  <2>1. CASE j \in 1..Len(demux)
    <3>1. i \in 1..Len(demux)
      BY <1>3, <2>1
    <3> QED BY <1>3, <2>1, <3>1 DEF CleanInv, DemuxInOrder
  <2>2. ASSUME NEW m \in 1..k, j = Len(demux) + m PROVE demux'[i] < demux'[j]
    <3>1. ~Spoilt(t) /\ demux'[j] = at + m
      BY <1>3, <1>11, <2>2
    <3>2. CASE i \in 1..Len(demux)
      <4>1. demux'[i] = demux[i] /\ demux[i] <= at /\ demux[i] \in Nat
        BY <1>3, <1>12, <1>b, <3>1, <3>2
      <4> QED BY <1>5, <3>1, <4>1
    <3>3. ASSUME NEW l \in 1..k, i = Len(demux) + l PROVE demux'[i] < demux'[j]
      <4>1. demux'[i] = at + l
        BY <1>3, <1>11, <3>1, <3>3
      <4>2. l < m
        BY <1>3, <2>2, <3>3
      <4> QED BY <1>5, <3>1, <4>1, <4>2
    <3> QED BY <1>13, <3>2, <3>3
  <2> QED BY <1>13, <2>1, <2>2
<1>17. DemuxBehind'
  <2>1. ASSUME ~Spoilt(t), NEW j \in 1..Len(demux) + k
        PROVE  demux'[j] \in spoiled \/ demux'[j] <= at + k
    <3>1. CASE j \in 1..Len(demux)
      <4>1. demux'[j] = demux[j] /\ (demux[j] \in spoiled \/ demux[j] <= at) /\ demux[j] \in Nat
        BY <1>3, <1>12, <1>b, <2>1, <3>1
      <4> QED BY <1>2, <1>5, <4>1
    <3>2. ASSUME NEW m \in 1..k, j = Len(demux) + m PROVE demux'[j] <= at + k
      <4>1. demux'[j] = at + m
        BY <1>3, <1>11, <2>1, <3>2
      <4> QED BY <1>2, <1>5, <4>1
    <3> QED BY <1>13, <3>1, <3>2
  <2>2. base'[t] + copied'[t] = at + k
    BY <1>1, <1>2, <1>5 DEF at
  <2>3. Spoilt(t)' \/ \A j \in DOMAIN demux' : demux'[j] \in spoiled' \/ demux'[j] <= base'[t] + copied'[t]
    BY <1>1, <1>3, <1>9, <2>1, <2>2
  <2> QED BY <1>1, <1>9, <1>10, <2>3 DEF DemuxBehind
<1>18. CleanKept'
  <2> SUFFICES ASSUME NEW b \in 1..received, b \notin spoiled
               PROVE  (\E i \in DOMAIN demux' : demux'[i] = b) \/ \E u \in Threads : b \in InHand(u)'
    BY <1>1 DEF CleanKept
  <2>1. ASSUME NEW i \in DOMAIN demux, demux[i] = b PROVE i \in DOMAIN demux' /\ demux'[i] = b
    <3>1. i \in 1..Len(demux) + k
      BY <1>2, <1>3
    <3> QED BY <1>3, <2>1, <3>1
  <2>2. ASSUME NEW u \in Threads \ {t}, b \in InHand(u) PROVE b \in InHand(u)'
    BY <1>6, <2>2
  <2>3. ASSUME b \in InHand(t), b \in at + 1..at + k PROVE \E i \in DOMAIN demux' : demux'[i] = b
    <3>1. ~Spoilt(t)
      BY <2>3 DEF Spoilt
    <3>2. b - at \in 1..k /\ at + (b - at) = b /\ Len(demux) + (b - at) \in 1..Len(demux) + k
      BY <1>2, <1>3, <1>5, <2>3
    <3>3. demux'[Len(demux) + (b - at)] = b
      BY <1>3, <1>11, <3>1, <3>2
    <3> QED BY <1>3, <3>2, <3>3
  <2>4. (\E i \in DOMAIN demux : demux[i] = b) \/ \E u \in Threads : b \in InHand(u)
    BY DEF CleanInv, CleanKept
  <2> QED BY <1>8, <2>1, <2>2, <2>3, <2>4
<1> QED BY <1>14, <1>15, <1>16, <1>17, <1>18 DEF CleanInv

\* A collision or a fault disturbs only what was in hand.
LEMMA NextCleanInv == PipeInv /\ PipeInv' /\ CleanInv /\ [Next]_vars => CleanInv'
<1> SUFFICES ASSUME PipeInv, PipeInv', CleanInv, [Next]_vars PROVE CleanInv'
  OBVIOUS
<1>1. ASSUME NEW t \in Threads, Open(t) \/ Close(t) PROVE CleanInv'
  <2>1. /\ UNCHANGED <<base, count, copied, write_buffer, demux, received, spoiled>>
        /\ \A u \in Threads : (Writing(u)' <=> Writing(u)) /\ (pc'[u] = "filter" <=> pc[u] = "filter")
    BY <1>1 DEF Open, Close, history, Writing, PipeInv, TypeOK
  <2> QED BY <2>1, CleanSame
<1>2. ASSUME NEW t \in Threads, NEW n \in 1..MaxRecv, RecvWrite(t, n) PROVE CleanInv'
  BY <1>2, CleanRecvAlone, CleanRecvCollides
<1>3. ASSUME NEW t \in Threads, NEW n \in 1..MaxRecv, RecvDropped(t, n) PROVE CleanInv'
  BY <1>3, CleanRecvDropped
<1>4. ASSUME NEW t \in Threads, CopyFromUser(t) PROVE CleanInv'
  BY <1>4, CleanCopyFromUser
<1>5. ASSUME NEW t \in Threads, CopyFault(t) PROVE CleanInv'
  BY <1>5, CleanCopyFault
<1>6. ASSUME NEW t \in Threads, SwFilter(t) PROVE CleanInv'
  BY <1>6, CleanSwFilter
<1>7. CASE UNCHANGED vars
  <2>1. /\ UNCHANGED <<base, count, copied, write_buffer, demux, received, spoiled>>
        /\ \A u \in Threads : (Writing(u)' <=> Writing(u)) /\ (pc'[u] = "filter" <=> pc[u] = "filter")
    BY <1>7 DEF vars, threadVars, history, Writing
  <2> QED BY <2>1, CleanSame
<1> QED BY <1>1, <1>2, <1>3, <1>4, <1>5, <1>6, <1>7 DEF Next, WriteStep

\* Bytes that no collision and no fault met come to the demultiplexer, once and in
\* order, also after threads of the tuner wrote over one another's page.
THEOREM CleanBytesArrive == Spec => []AllDelivered
<1>1. PipeInv /\ CleanInv => AllDelivered
  <2> SUFFICES ASSUME PipeInv, CleanInv PROVE AllDelivered
    OBVIOUS
  <2>1. ASSUME \A t \in Threads : ~Writing(t), NEW b \in (1..received) \ spoiled
        PROVE  \E i \in DOMAIN demux : demux[i] = b
    <3>1. \A t \in Threads : b \notin InHand(t)
      BY <2>1 DEF InHand
    <3> QED BY <3>1 DEF CleanInv, CleanKept
  <2> QED BY <2>1 DEF AllDelivered, CleanInv, DemuxInOrder
<1> QED BY <1>1, InitPipeInv, NextPipeInv, InitCleanInv, NextCleanInv, PTL DEF Spec

=============================================================================
