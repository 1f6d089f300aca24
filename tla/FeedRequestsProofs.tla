------------------------- MODULE FeedRequestsProofs -------------------------
(***************************************************************************)
(* Theorems about FeedRequests, for any feeds, callers, tuners, buffer     *)
(* size and bounds.  What ControlChannelProofs shows of the channel is used*)
(* here: every step of FeedNext is a step of the channel, or leaves it.    *)
(***************************************************************************)
EXTENDS FeedRequests, ControlChannelProofs, FiniteSetTheorems

-----------------------------------------------------------------------------
(* The inductive invariants, by their parts.                               *)

Bytes(s) == {s[i] : i \in DOMAIN s}

\* The messages that the daemon has still to act upon.
OnTheWay == Bytes(control_fifo_user) \cup (IF dpc = "process" THEN Bytes(dbuf) ELSE {})

\* Those of them that are about f.
About(f) == {k \in OnTheWay : sent[k][2] = f}

\* Callers that may still post.
Posters == {c \in Callers : pc[c] \in {"check", "put"}}

\* The bound on the messages holds (a bound of the model).
PostBound == IsFiniteSet(Posters) /\ posted + Cardinality(Posters) <= MaxPosts

\* The daemon has whole messages in its hands, all of them posted.
WholeBytes == OnTheWay \subseteq 1..posted /\ (dpc = "process" => Len(dbuf) = 1)

\* A feed operation holds feedlock from its call to its return, and its feed is
\* as the call found it.
Locked ==
  \A c \in Callers :
    /\ pc[c] = "idle" => want[c] = Other
    /\ want[c] # Other => feedlock = c
    /\ \A f \in Feeds : /\ want[c] = <<"start", f>> => f \notin active
                        /\ want[c] = <<"stop", f>> => f \in active

\* Caller c has posted a start of f, which has not failed.
StartOf(c, f) ==
  /\ want[c] = <<"start", f>>
  /\ pc[c] \in {"arm", "wait", "get"} \/ (pc[c] = "returned" /\ ret[c] >= 0)

\* Caller c is past the post of a stop of f, whether or not that succeeded.
StopOf(c, f) ==
  want[c] = <<"stop", f>> /\ pc[c] \in {"arm", "wait", "get", "returned"}

\* Caller c has its answer to a start of f, or is about to get it.
GotStart(c, f) ==
  want[c] = <<"start", f>> /\ (pc[c] = "get" \/ (pc[c] = "returned" /\ ret[c] >= 0))

Starting(f) == \E c \in Callers : StartOf(c, f)
Stopping(f) == \E c \in Callers : StopOf(c, f)

\* f will be active for the kernel when the operation on it has returned.
Meant(f) == (f \in active \/ Starting(f)) /\ ~Stopping(f)

\* The daemon will come to stream f, or not, when it has acted upon what is on
\* the way: the newest message about f decides.
EndsAs(f, b) ==
  /\ About(f) = {} => (f \in served <=> b)
  /\ \A k \in About(f) : (\A j \in About(f) : j <= k) => (sent[k][1] = "start" <=> b)

\* The daemon will come to what the kernel means.
WillAgree == \A f \in Feeds \ astray : EndsAs(f, Meant(f))

\* A daemon that does not serve streams nothing.
NothingServed == dpc \in {"down", "starting", "exiting", "reset"} => served = {}

\* While posts are refused, or about to be, there is no answer to be had, and no
\* feed is active that is not astray or being stopped, nor about to become so:
\* this is why a stop may be refused.
Refuses == ~userspace_ready \/ dpc = "reset"

Refusing ==
  Refuses =>
    /\ control_fifo_kernel = <<>>
    /\ \A f \in active \ astray : Stopping(f)
    /\ \A c \in Callers, f \in Feeds \ astray : ~GotStart(c, f)

\* All that is in the channel.
Outstanding == Bytes(control_fifo_user) \cup Bytes(dbuf) \cup Bytes(control_fifo_kernel)

\* While calls do not overlap one caller at most is under way, every byte is
\* that of its message, and one that woke up has nothing left to come.
OneCaller ==
  ~crossed =>
    /\ \A c, d \in Callers : pc[c] # "idle" /\ pc[d] # "idle" => c = d
    /\ \A k \in Outstanding :
         /\ k = posted
         /\ \E c \in Callers : pc[c] \in {"arm", "wait", "get"} /\ request[c] + 1 = posted
    /\ \A c \in Callers : pc[c] = "get" => control_fifo_user = <<>> /\ dbuf = <<>>

-----------------------------------------------------------------------------
(* The channel underneath.                                                 *)

\* What ControlChannelProofs shows of every state.
ChannelInv == TypeOK /\ InOrder /\ DaemonShape /\ ReadyIsServing

\* Every step is one of the channel, or leaves it alone.
LEMMA FeedStepIsChannelStep == [FeedNext]_allVars => [Next]_vars
<1>1. UNCHANGED allVars => UNCHANGED vars
  BY DEF allVars
<1>2. ASSUME NEW c \in Callers,
             CallFeed(c) \/ CallOther(c) \/ FeedCallerStep(c) \/ FeedInterrupted(c)
      PROVE  Next
  BY <1>2 DEF Next, CallFeed, CallOther, FeedCallerStep, FeedInterrupted, ChannelStep, FeedPut,
              FeedReturn, CallerStep
<1>3. FeedNext => Next
  BY <1>2 DEF FeedNext, Next, DaemonServes, FeedProcess, FeedExit, FeedReset, DaemonStep
<1>4. QED
  BY <1>1, <1>3

LEMMA ChannelHolds ==
  /\ FeedInit => ChannelInv
  /\ ChannelInv /\ [FeedNext]_allVars => ChannelInv'
<1>1. FeedInit => ChannelInv
  BY InitTypeOK, InitInOrder, ShapeInductive DEF FeedInit, ChannelInv
<1>2. ChannelInv /\ [FeedNext]_allVars => ChannelInv'
  BY FeedStepIsChannelStep, NextTypeOK, NextInOrder, ShapeInductive DEF ChannelInv
<1>3. QED
  BY <1>1, <1>2

\* The steps of the channel that keep what is on the way.
LEMMA SameWay ==
  ASSUME UNCHANGED control_fifo_user,
         (dpc # "process" /\ dpc' # "process") \/ UNCHANGED <<dpc, dbuf>>
  PROVE  OnTheWay' = OnTheWay
BY DEF OnTheWay

\* A message is read: it is on the way as before.
LEMMA ReadWay ==
  ASSUME ChannelInv, ControlRead
  PROVE  OnTheWay' = OnTheWay /\ Len(dbuf') = 1
<1> DEFINE s == control_fifo_user
           l == KfifoLeft(s, 1)
<1>1. s \in Seq(Nat) /\ s # <<>> /\ dpc = "select" /\ dpc' = "process" /\ 1 \in Nat
  BY DEF ChannelInv, TypeOK, ControlRead
<1>2. s' = l /\ dbuf' = Padded(KfifoGet(s, 1))
  BY WholeMessages DEF ControlRead
<1>3. Len(s) \in Nat /\ Len(s) >= 1
  BY <1>1, EmptySeq
<1>4. Least(1, Len(s)) = 1
  BY <1>3 DEF Least
<1>5. /\ KfifoGet(s, 1) \in Seq(Nat) /\ Len(KfifoGet(s, 1)) = 1
      /\ KfifoGet(s, 1)[1] = s[1]
  <2>1. 1 \in 1..1
    OBVIOUS
  <2>2. QED
    BY <1>1, <1>4, <2>1, GetElements
<1>6. dbuf' \in Seq(Nat) /\ Len(dbuf') = 1 /\ dbuf'[1] = s[1]
  <2>1. 1 \in 1..1 /\ 1 <= 1
    OBVIOUS
  <2>2. QED
    BY <1>2, <1>5, <2>1, PaddedElements, WholeMessages
<1>7. /\ l \in Seq(Nat) /\ Len(l) = Len(s) - 1
      /\ \A i \in 1..Len(s) - 1 : l[i] = s[1 + i]
  <2>1. /\ l \in Seq(Nat) /\ Len(l) = Len(s) - Least(1, Len(s))
        /\ \A i \in 1..Len(s) - Least(1, Len(s)) : l[i] = s[Least(1, Len(s)) + i]
    BY <1>1, LeftElements
  <2> HIDE DEF s, l
  <2>2. QED
    BY <1>4, <2>1
<1> HIDE DEF s, l
<1>8. Bytes(s) = {s[1]} \cup Bytes(l)
  <2>1. DOMAIN s = 1..Len(s) /\ DOMAIN l = 1..Len(s) - 1
    BY <1>1, <1>7, LenProperties
  <2>2. \A k \in Bytes(s) : k = s[1] \/ k \in Bytes(l)
    <3>1. TAKE k \in Bytes(s)
    <3>2. PICK i \in 1..Len(s) : k = s[i]
      BY <2>1 DEF Bytes
    <3>3. CASE i = 1
      BY <3>2, <3>3
    <3>4. CASE i # 1
      <4>1. i - 1 \in 1..Len(s) - 1 /\ 1 + (i - 1) = i
        BY <1>3, <3>4
      <4>2. l[i - 1] = s[i]
        BY <1>7, <4>1
      <4>3. QED
        BY <2>1, <3>2, <4>1, <4>2 DEF Bytes
    <3>5. QED
      BY <3>3, <3>4
  <2>3. \A k \in Bytes(l) : k \in Bytes(s)
    <3>1. TAKE k \in Bytes(l)
    <3>2. PICK i \in 1..Len(s) - 1 : k = l[i]
      BY <2>1 DEF Bytes
    <3>3. 1 + i \in 1..Len(s) /\ l[i] = s[1 + i]
      BY <1>3, <1>7
    <3>4. QED
      BY <2>1, <3>2, <3>3 DEF Bytes
  <2>4. 1 \in DOMAIN s
    BY <1>3, <2>1
  <2>5. s[1] \in Bytes(s)
    BY <2>4 DEF Bytes
  <2>6. QED
    BY <2>2, <2>3, <2>5
<1>9. Bytes(dbuf') = {s[1]}
  BY <1>6, LenProperties DEF Bytes
<1>10. OnTheWay = Bytes(s) /\ OnTheWay' = Bytes(l) \cup Bytes(dbuf')
  BY <1>1, <1>2 DEF OnTheWay, s
<1>11. QED
  BY <1>6, <1>8, <1>9, <1>10

\* A message is put behind what is on the way, or refused for want of room.
LEMMA PutWay ==
  ASSUME ChannelInv, NEW c \in Callers, PostPut(c)
  PROVE  \/ /\ pc' = [pc EXCEPT ![c] = "arm"] /\ UNCHANGED ret
            /\ Bytes(control_fifo_user') = Bytes(control_fifo_user) \cup {posted + 1}
            /\ OnTheWay' = OnTheWay \cup {posted + 1}
         \/ /\ pc' = [pc EXCEPT ![c] = "returned"] /\ ret' = [ret EXCEPT ![c] = NoBuffer]
            /\ control_fifo_user # <<>>
            /\ OnTheWay' = OnTheWay
<1> DEFINE s == control_fifo_user
           m == Message(posted)
           r == KfifoRoom(s, BufSize, m)
           p == KfifoPut(s, BufSize, m)
<1>1. s \in Seq(Nat) /\ Len(s) <= BufSize /\ BufSize \in Nat /\ BufSize > 0 /\ posted \in Nat
  BY BufSizeAssumption DEF ChannelInv, TypeOK
<1>2. m \in Seq(Nat) /\ Len(m) = 1 /\ m[1] = posted + 1
  <2>1. 1 \in 1..1
    OBVIOUS
  <2>2. QED
    BY <1>1, <2>1, MessageElements, WholeMessages
<1>3. s' = p /\ UNCHANGED <<dpc, dbuf>>
  BY DEF PostPut, daemonVars
<1>4. IF r < 1 THEN pc' = [pc EXCEPT ![c] = "returned"] /\ ret' = [ret EXCEPT ![c] = NoBuffer]
      ELSE pc' = [pc EXCEPT ![c] = "arm"] /\ UNCHANGED ret
  BY WholeMessages DEF PostPut
<1>5. r = Least(1, BufSize - Len(s))
  BY <1>2 DEF KfifoRoom
<1> HIDE DEF m, r
<1>6. /\ r \in 0..1 /\ p \in Seq(Nat) /\ Len(p) = Len(s) + r
      /\ \A i \in 1..Len(s) + r : p[i] = IF i <= Len(s) THEN s[i] ELSE m[i - Len(s)]
  <2>1. /\ r \in 0..Len(m) /\ p \in Seq(Nat) /\ Len(p) = Len(s) + r
        /\ \A i \in 1..Len(s) + r : p[i] = IF i <= Len(s) THEN s[i] ELSE m[i - Len(s)]
    <3> HIDE DEF s
    <3>1. s \in Seq(Nat) /\ BufSize \in Nat /\ m \in Seq(Nat) /\ Len(s) <= BufSize
      BY <1>1, <1>2
    <3>2. QED
      BY <3>1, PutElements DEF r
  <2> HIDE DEF s, p
  <2>2. QED
    BY <1>2, <2>1
<1> HIDE DEF s, p
<1>7. Len(s) \in Nat /\ DOMAIN s = 1..Len(s) /\ DOMAIN p = 1..Len(s) + r
  BY <1>1, <1>6, LenProperties
<1>8. CASE r = 1
  <2>1. \A i \in 1..Len(s) : i \in DOMAIN p /\ p[i] = s[i]
    BY <1>6, <1>7, <1>8
  <2>2. Len(s) + 1 \in DOMAIN p /\ p[Len(s) + 1] = posted + 1
    BY <1>2, <1>6, <1>7, <1>8
  <2>3. \A i \in DOMAIN p : i \in 1..Len(s) \/ i = Len(s) + 1
    BY <1>7, <1>8
  <2>4. Bytes(p) = Bytes(s) \cup {posted + 1}
    BY <1>7, <2>1, <2>2, <2>3 DEF Bytes
  <2>5. QED
    BY <1>3, <1>4, <1>8, <2>4 DEF OnTheWay, s
<1>9. CASE r = 0
  <2>1. Bytes(p) = Bytes(s)
    BY <1>6, <1>7, <1>9 DEF Bytes
  <2>2. Len(s) # 0
    <3>1. Least(1, BufSize - Len(s)) = 0
      BY <1>5, <1>9
    <3>2. BufSize \in Nat /\ BufSize > 0 /\ Len(s) \in Nat
      BY <1>1, <1>7
    <3>3. QED
      BY <3>1, <3>2 DEF Least
  <2>3. QED
    BY <1>3, <1>4, <1>9, <2>1, <2>2, EmptySeq DEF OnTheWay, s
<1>10. QED
  BY <1>6, <1>8, <1>9
\* The daemon acts upon the oldest message.
LEMMA ProcessWay ==
  ASSUME ChannelInv, WholeBytes, Process
  PROVE  /\ dbuf[1] \in OnTheWay
         /\ OnTheWay' = OnTheWay \ {dbuf[1]}
         /\ \A k \in OnTheWay' : dbuf[1] < k
<1>1. dpc = "process" /\ dpc' = "write" /\ UNCHANGED control_fifo_user
  BY DEF Process, fifos
<1>2. dbuf \in Seq(Nat) /\ Len(dbuf) = 1
  BY <1>1 DEF ChannelInv, TypeOK, WholeBytes
<1>3. 1 \in DOMAIN dbuf /\ Bytes(dbuf) = {dbuf[1]}
  BY <1>2, LenProperties DEF Bytes
<1>4. OnTheWay = Bytes(control_fifo_user) \cup {dbuf[1]} /\ OnTheWay' = Bytes(control_fifo_user)
  BY <1>1, <1>3 DEF OnTheWay
<1>5. posted \in Nat /\ OnTheWay \subseteq 1..posted
  BY DEF ChannelInv, TypeOK, WholeBytes
<1>6. \A k \in OnTheWay : k \in Nat /\ k # Junk
  BY <1>5 DEF Junk
<1>7. \A k \in Bytes(control_fifo_user) : dbuf[1] < k
  <2>1. Before(dbuf, control_fifo_user)
    BY DEF ChannelInv, InOrder
  <2>2. QED
    BY <1>3, <1>4, <1>6, <2>1 DEF Before, Bytes
<1>8. dbuf[1] \notin Bytes(control_fifo_user)
  BY <1>4, <1>6, <1>7
<1>9. QED
  BY <1>4, <1>7, <1>8

\* What is on the way is lost when the process ends, as far as it was read,
\* and when a file is released, as far as it was not.
LEMMA ExitWay ==
  ASSUME DaemonExit
  PROVE  OnTheWay' \subseteq OnTheWay /\ OnTheWay \subseteq OnTheWay' \cup Bytes(dbuf)
BY DEF OnTheWay, DaemonExit, fifos

LEMMA ResetWay ==
  ASSUME ReleaseReset
  PROVE  OnTheWay' = {} /\ OnTheWay = Bytes(control_fifo_user)
BY DEF OnTheWay, ReleaseReset, Bytes

-----------------------------------------------------------------------------
(* Types, and the bound on messages.                                       *)

\* The steps that post, and those that do not.
LEMMA PostersMove ==
  ASSUME TypeOK, [Next]_vars
  PROVE  \/ \E c \in Callers :
              Call(c) /\ c \notin Posters /\ Posters' = Posters \cup {c} /\ UNCHANGED posted
         \/ \E c \in Callers :
              PostPut(c) /\ c \in Posters /\ Posters' = Posters \ {c} /\ posted' = posted + 1
         \/ /\ UNCHANGED posted
            /\ Posters' = Posters \/ \E c \in Posters : Posters' = Posters \ {c}
<1>0. pc \in [Callers -> CallerPlaces]
  BY DEF TypeOK
<1>1. ASSUME NEW c \in Callers, NEW to, pc' = [pc EXCEPT ![c] = to]
      PROVE  /\ to \in {"check", "put"} => Posters' = Posters \cup {c}
             /\ to \notin {"check", "put"} => Posters' = Posters \ {c}
  BY <1>0, <1>1 DEF Posters
<1>2. ASSUME NEW c \in Callers, Call(c)
      PROVE  c \notin Posters /\ Posters' = Posters \cup {c} /\ UNCHANGED posted
  BY <1>1, <1>2 DEF Call, Posters, history
<1>3. ASSUME NEW c \in Callers, PostPut(c)
      PROVE  c \in Posters /\ Posters' = Posters \ {c} /\ posted' = posted + 1
  <2>1. \E to \in {"returned", "arm"} : pc' = [pc EXCEPT ![c] = to]
    BY <1>3 DEF PostPut
  <2>2. QED
    BY <1>1, <1>3, <2>1, WholeMessages DEF PostPut, Posters
<1>4. ASSUME NEW c \in Callers,
             PostCheck(c) \/ WaitArm(c) \/ WaitWake(c) \/ WaitGet(c) \/ WaitInterrupted(c) \/ Return(c)
      PROVE  UNCHANGED posted /\ (Posters' = Posters \/ \E d \in Posters : Posters' = Posters \ {d})
  <2>1. UNCHANGED posted
    BY <1>4 DEF PostCheck, WaitArm, WaitWake, WaitGet, WaitInterrupted, Return, history
  <2>2. PICK to : pc' = [pc EXCEPT ![c] = to] /\ (to = "put" => c \in Posters) /\ to # "check"
    BY <1>4 DEF PostCheck, WaitArm, WaitWake, WaitGet, WaitInterrupted, Return, Posters
  <2>3. \/ c \in Posters /\ Posters' = Posters \cup {c}
        \/ Posters' = Posters \ {c}
    BY <1>1, <2>2
  <2>4. Posters' = Posters \/ (c \in Posters /\ Posters' = Posters \ {c})
    BY <2>3
  <2>5. QED
    BY <2>1, <2>4
<1>5. CASE UNCHANGED <<pc, posted>>
  BY <1>5 DEF Posters
<1>6. QED
  BY <1>2, <1>3, <1>4, <1>5
  DEF Next, CallerStep, DaemonStep, DaemonStart, DaemonIoctl, DaemonRun, ControlRead, Process,
      ProcessUnknown, WriteIgnored, WriteCheck, WritePut, DaemonExit, ReleaseReset, ControlRelease,
      vars, callerVars, history

\* A caller that may still post finds its message within the bound.
LEMMA NextPostBound ==
  ASSUME TypeOK, PostBound, [Next]_vars
  PROVE  PostBound'
<1>1. IsFiniteSet(Posters) /\ Cardinality(Posters) \in Nat /\ posted \in Nat /\ MaxPosts \in Nat
  BY FS_CardinalityType, BoundsAssumption DEF PostBound, TypeOK
<1>2. posted + Cardinality(Posters) <= MaxPosts
  BY DEF PostBound
<1>3. ASSUME NEW c \in Callers, Call(c), c \notin Posters, Posters' = Posters \cup {c},
             UNCHANGED posted
      PROVE  PostBound'
  <2>1. posted \div 1 = posted
    BY <1>1
  <2>2. posted + Cardinality(Posters) < MaxPosts
    <3>1. Posting = (posted \div 1) + Cardinality(Posters)
      BY WholeMessages DEF Posting, Posters
    <3>2. Posting < MaxPosts
      BY <1>3 DEF Call
    <3>3. QED
      BY <2>1, <3>1, <3>2
  <2>3. IsFiniteSet(Posters') /\ Cardinality(Posters') = Cardinality(Posters) + 1
    BY <1>1, <1>3, FS_AddElement
  <2>4. posted' + Cardinality(Posters') <= MaxPosts
    BY <1>1, <1>3, <2>2, <2>3
  <2>5. QED
    BY <2>3, <2>4 DEF PostBound
<1>4. ASSUME NEW c \in Posters, Posters' = Posters \ {c}, posted' \in {posted, posted + 1}
      PROVE  PostBound'
  <2>1. IsFiniteSet(Posters') /\ Cardinality(Posters') = Cardinality(Posters) - 1
    BY <1>1, <1>4, FS_RemoveElement
  <2>2. posted' + Cardinality(Posters') <= MaxPosts
    BY <1>1, <1>2, <1>4, <2>1
  <2>3. QED
    BY <2>1, <2>2 DEF PostBound
<1>5. ASSUME Posters' = Posters, UNCHANGED posted PROVE PostBound'
  BY <1>5 DEF PostBound
<1>6. QED
  BY <1>3, <1>4, <1>5, PostersMove

\* Who is about to put has room in the table of messages.
LEMMA PutInBound ==
  ASSUME TypeOK, PostBound, NEW c \in Callers, PostPut(c)
  PROVE  posted + 1 \in 1..MaxPosts
<1>1. IsFiniteSet(Posters) /\ c \in Posters
  BY DEF PostBound, Posters, PostPut
<1>2. Cardinality(Posters) \in Nat /\ Cardinality(Posters) # 0
  BY <1>1, FS_CardinalityType, FS_EmptySet
<1>3. posted \in Nat /\ MaxPosts \in Nat /\ posted + Cardinality(Posters) <= MaxPosts
  BY BoundsAssumption DEF TypeOK, PostBound
<1>4. QED
  BY <1>2, <1>3
\* What is on the way was posted.
LEMMA NextWholeBytes ==
  ASSUME ChannelInv, WholeBytes, [FeedNext]_allVars
  PROVE  WholeBytes'
<1>1. posted \in Nat /\ OnTheWay \subseteq 1..posted
  BY DEF ChannelInv, TypeOK, WholeBytes
<1>2. ASSUME OnTheWay' \subseteq OnTheWay, UNCHANGED posted,
             dpc' = "process" => UNCHANGED <<dpc, dbuf>>
      PROVE  WholeBytes'
  BY <1>2 DEF WholeBytes
<1>3. ASSUME NEW c \in Callers, PostPut(c) PROVE WholeBytes'
  <2>1. posted' = posted + 1 /\ UNCHANGED <<dpc, dbuf>>
    BY <1>3, WholeMessages DEF PostPut, daemonVars
  <2>2. OnTheWay' \subseteq OnTheWay \cup {posted + 1}
    BY <1>3, PutWay
  <2>3. OnTheWay' \subseteq 1..posted'
    BY <1>1, <2>1, <2>2
  <2>4. QED
    BY <2>1, <2>3 DEF WholeBytes
<1>4. CASE ControlRead
  <2>1. OnTheWay' = OnTheWay /\ Len(dbuf') = 1 /\ UNCHANGED posted
    BY <1>4, ReadWay DEF ControlRead, history
  <2>2. QED
    BY <1>1, <2>1 DEF WholeBytes
<1>5. CASE Process
  BY <1>2, <1>5, ProcessWay DEF Process, history
<1>6. CASE DaemonExit
  BY <1>2, <1>6, ExitWay DEF DaemonExit, history
<1>7. CASE ReleaseReset
  BY <1>2, <1>7, ResetWay DEF ReleaseReset, history
<1>8. ASSUME UNCHANGED <<control_fifo_user, posted>>,
             (dpc # "process" /\ dpc' # "process") \/ UNCHANGED <<dpc, dbuf>>
      PROVE  WholeBytes'
  BY <1>2, <1>8, SameWay
<1>9. ASSUME NEW c \in Callers,
             Call(c) \/ PostCheck(c) \/ WaitArm(c) \/ WaitWake(c) \/ WaitGet(c)
               \/ WaitInterrupted(c) \/ Return(c)
      PROVE  WholeBytes'
  BY <1>8, <1>9 DEF Call, PostCheck, WaitArm, WaitWake, WaitGet, WaitInterrupted, Return,
                    daemonVars, fifos, history
<1>10. CASE DaemonStart \/ (\E t \in Tuners : DaemonIoctl(t)) \/ DaemonRun \/ UNCHANGED vars
  BY <1>8, <1>10 DEF DaemonStart, DaemonIoctl, DaemonRun, ControlOpen, fifos, history, vars,
                     daemonVars
<1>11. CASE WriteIgnored \/ WriteCheck \/ WritePut \/ (\E file \in files : ControlRelease(file))
  BY <1>8, <1>11 DEF WriteIgnored, WriteCheck, WritePut, ControlRelease, fifos, history
<1>12. QED
  BY <1>3, <1>4, <1>5, <1>6, <1>7, <1>9, <1>10, <1>11
  DEF FeedNext, CallFeed, CallOther, FeedCallerStep, ChannelStep, FeedPut, FeedReturn,
      FeedInterrupted, DaemonServes, FeedProcess, FeedExit, FeedReset, allVars

\* The variables of FeedRequests by themselves.
FeedVarsOK ==
  /\ feedlock \in FeedCallers \cup {"free"}
  /\ active \subseteq Feeds /\ served \subseteq Feeds /\ astray \subseteq Feeds \cup {"none"}
  /\ want \in [Callers -> Requests]
  /\ sent \in [1..MaxPosts -> Requests]
  /\ crossed \in BOOLEAN

LEMMA RequestShape ==
  ASSUME NEW r \in Requests
  PROVE  r[2] \in Feeds \cup {"none"}
BY DEF Requests, Other

LEMMA NextFeedVarsOK ==
  ASSUME ChannelInv, FeedVarsOK, [FeedNext]_allVars
  PROVE  FeedVarsOK'
<1> USE DEF FeedVarsOK
<1>1. ASSUME NEW c \in Callers, CallFeed(c) PROVE FeedVarsOK'
  <2>1. want' \in [Callers -> Requests]
    BY <1>1 DEF CallFeed, StartFeed, StopFeed, Requests
  <2>2. QED
    BY <1>1, <2>1 DEF CallFeed, Overlaps
<1>2. ASSUME NEW c \in Callers, CallOther(c) PROVE FeedVarsOK'
  BY <1>2 DEF CallOther, Overlaps
<1>3. ASSUME NEW c \in Callers, FeedPut(c) PROVE FeedVarsOK'
  <2>1. want[c] \in Requests /\ want[c][2] \in Feeds \cup {"none"}
    BY RequestShape
  <2>2. sent' \in [1..MaxPosts -> Requests]
    BY <1>3, <2>1 DEF FeedPut
  <2>3. astray' \subseteq Feeds \cup {"none"}
    BY <1>3, <2>1 DEF FeedPut
  <2>4. QED
    BY <1>3, <2>2, <2>3 DEF FeedPut
<1>4. ASSUME NEW c \in Callers, FeedInterrupted(c) PROVE FeedVarsOK'
  <2>1. want[c][2] \in Feeds \cup {"none"}
    BY RequestShape
  <2>2. QED
    BY <1>4, <2>1 DEF FeedInterrupted
<1>5. ASSUME NEW c \in Callers, FeedReturn(c) PROVE FeedVarsOK'
  <2>1. want' \in [Callers -> Requests]
    BY <1>5 DEF FeedReturn, Requests
  <2>2. active' \subseteq Feeds
    BY <1>5 DEF FeedReturn, Result
  <2>3. QED
    BY <1>5, <2>1, <2>2 DEF FeedReturn
<1>6. CASE FeedProcess
  BY <1>6 DEF FeedProcess
<1>7. CASE FeedExit
  BY <1>7 DEF FeedExit, FeedsOf
<1>8. CASE FeedReset
  BY <1>8 DEF FeedReset, FeedsOf
<1>9. CASE UNCHANGED feedVars
  BY <1>9 DEF feedVars
<1>10. QED
  BY <1>1, <1>2, <1>3, <1>4, <1>5, <1>6, <1>7, <1>8, <1>9
  DEF FeedNext, FeedCallerStep, DaemonServes, allVars
\* Every variable of the kernel's and the daemon's feeds holds a value of its
\* kind, however messages and answers were mixed up.
THEOREM FeedTypeCorrect == FeedSpec => []FeedTypeOK
<1> DEFINE Inv == ChannelInv /\ FeedVarsOK
<1>1. FeedInit => Inv
  <2>1. FeedInit => FeedVarsOK
    BY DEF FeedInit, FeedVarsOK, Requests
  <2>2. QED
    BY <2>1, ChannelHolds
<1>2. Inv /\ [FeedNext]_allVars => Inv'
  BY ChannelHolds, NextFeedVarsOK
<1>3. Inv => FeedTypeOK
  BY DEF ChannelInv, FeedVarsOK, FeedTypeOK
<1>4. QED
  BY <1>1, <1>2, <1>3, PTL DEF FeedSpec

-----------------------------------------------------------------------------
(* Who holds feedlock, and what a daemon that is not up streams.           *)

\* Two feed operations are never under way at once.
LEMMA OneWant ==
  ASSUME Locked, NEW c \in Callers, NEW d \in Callers, want[c] # Other, want[d] # Other
  PROVE  c = d
BY DEF Locked

\* What the steps of a caller do to its place.
LEMMA CallerPlace ==
  ASSUME NEW c \in Callers,
         PostCheck(c) \/ WaitArm(c) \/ WaitWake(c) \/ WaitGet(c) \/ PostPut(c) \/ WaitInterrupted(c)
  PROVE  \E to \in CallerPlaces \ {"idle"} : pc' = [pc EXCEPT ![c] = to]
BY DEF PostCheck, WaitArm, WaitWake, WaitGet, PostPut, WaitInterrupted, CallerPlaces

LEMMA NextLocked ==
  ASSUME TypeOK, FeedVarsOK, Locked, [FeedNext]_allVars
  PROVE  Locked'
<1>0. pc \in [Callers -> CallerPlaces] /\ want \in [Callers -> Requests]
  BY DEF TypeOK, FeedVarsOK
<1>1. ASSUME UNCHANGED <<feedlock, active, want>>,
             \A d \in Callers : pc'[d] = "idle" => pc[d] = "idle"
      PROVE  Locked'
  BY <1>1 DEF Locked
<1>2. ASSUME NEW c \in Callers, CallFeed(c) PROVE Locked'
  <2>1. PICK f \in Feeds : StartFeed(c, f) \/ StopFeed(c, f)
    BY <1>2 DEF CallFeed
  <2>2. \A d \in Callers : want[d] = Other
    BY <1>2, FeedCallersAssumption DEF Locked, CallFeed
  <2>3. /\ \A d \in Callers \ {c} : want'[d] = Other
        /\ \/ want'[c] = <<"start", f>> /\ f \notin active
           \/ want'[c] = <<"stop", f>> /\ f \in active
    BY <1>0, <2>1, <2>2 DEF StartFeed, StopFeed
  <2>4. feedlock' = c /\ UNCHANGED active /\ pc'[c] = "check"
    BY <1>0, <1>2 DEF CallFeed, Call
  <2>5. QED
    BY <2>3, <2>4 DEF Locked, Other
<1>3. ASSUME NEW c \in Callers, CallOther(c) PROVE Locked'
  BY <1>0, <1>1, <1>3 DEF CallOther, Call
<1>4. ASSUME NEW c \in Callers, NEW to \in CallerPlaces \ {"idle"}, pc' = [pc EXCEPT ![c] = to],
             UNCHANGED <<feedlock, active, want>>
      PROVE  Locked'
  BY <1>0, <1>1, <1>4
<1>5. ASSUME NEW c \in Callers,
             (ChannelStep(c) /\ UNCHANGED feedVars) \/ FeedPut(c) \/ FeedInterrupted(c)
      PROVE  Locked'
  <2>1. UNCHANGED <<feedlock, active, want>>
    BY <1>5 DEF feedVars, FeedPut, FeedInterrupted
  <2>2. QED
    BY <1>4, <1>5, <2>1, CallerPlace DEF ChannelStep, FeedPut, FeedInterrupted
<1>6. ASSUME NEW c \in Callers, FeedReturn(c) PROVE Locked'
  <2>1. /\ want'[c] = Other
        /\ \A d \in Callers \ {c} : want'[d] = want[d] /\ pc'[d] = pc[d]
    BY <1>0, <1>6 DEF FeedReturn, Return
  <2>2. \A d \in Callers \ {c} : want[d] # Other => feedlock' = d
    BY <1>6 DEF FeedReturn, Locked
  <2>3. \A d \in Callers \ {c} : want[d] # Other => want[c] = Other
    BY OneWant
  <2>4. want[c] = Other => active' = active
    BY <1>6 DEF FeedReturn, Result, Other
  <2>5. QED
    BY <2>1, <2>2, <2>3, <2>4 DEF Locked, Other
<1>7. CASE UNCHANGED <<feedlock, active, want, pc>>
  BY <1>1, <1>7
<1>8. QED
  BY <1>2, <1>3, <1>5, <1>6, <1>7
  DEF FeedNext, FeedCallerStep, DaemonServes, FeedProcess, FeedExit, FeedReset, allVars,
      feedVars, DaemonStart, DaemonIoctl, DaemonRun, ControlRead, Process, WriteIgnored,
      WriteCheck, WritePut, DaemonExit, ReleaseReset, ControlRelease, vars, callerVars

LEMMA NextNothingServed ==
  ASSUME NothingServed, [FeedNext]_allVars
  PROVE  NothingServed'
<1>1. ASSUME NEW c \in Callers,
             CallFeed(c) \/ CallOther(c) \/ FeedCallerStep(c) \/ FeedInterrupted(c)
      PROVE  UNCHANGED <<dpc, served>>
  BY <1>1 DEF CallFeed, CallOther, FeedCallerStep, FeedInterrupted, ChannelStep, FeedPut,
              FeedReturn, Call, PostCheck, WaitArm, WaitWake, WaitGet, PostPut, WaitInterrupted,
              Return, daemonVars, feedVars
<1>2. QED
  BY <1>1 DEF NothingServed, FeedNext, DaemonServes, FeedProcess, FeedExit, FeedReset,
     DaemonStart, DaemonIoctl, DaemonRun, ControlRead, Process, WriteIgnored, WriteCheck,
     WritePut, DaemonExit, ReleaseReset, ControlRelease, allVars, vars, daemonVars, feedVars
-----------------------------------------------------------------------------
(* What each step does to the starts and stops under way.                  *)

\* The step means the same starts and stops as before.
SameMeaning ==
  /\ \A d \in Callers, f \in Feeds : StartOf(d, f)' <=> StartOf(d, f)
  /\ \A d \in Callers, f \in Feeds : StopOf(d, f)' <=> StopOf(d, f)

\* Another caller's step does not matter.
LEMMA OthersMeaning ==
  ASSUME TypeOK, FeedVarsOK, NEW c \in Callers, NEW to, NEW r, NEW w,
         pc' = [pc EXCEPT ![c] = to], UNCHANGED ret \/ ret' = [ret EXCEPT ![c] = r],
         UNCHANGED want \/ want' = [want EXCEPT ![c] = w],
         NEW d \in Callers \ {c}, NEW f
  PROVE  (StartOf(d, f)' <=> StartOf(d, f)) /\ (StopOf(d, f)' <=> StopOf(d, f))
<1>1. pc'[d] = pc[d] /\ ret'[d] = ret[d] /\ want'[d] = want[d]
  BY DEF TypeOK, FeedVarsOK
<1>2. QED
  BY <1>1 DEF StartOf, StopOf

\* A call starts with its message not posted.
LEMMA CallMeaning ==
  ASSUME TypeOK, FeedVarsOK, Locked, NEW c \in Callers, CallFeed(c) \/ CallOther(c)
  PROVE  SameMeaning
<1>1. pc' = [pc EXCEPT ![c] = "check"] /\ UNCHANGED ret /\ pc[c] = "idle"
  BY DEF CallFeed, CallOther, Call
<1>2. \E w : UNCHANGED want \/ want' = [want EXCEPT ![c] = w]
  BY DEF CallFeed, CallOther, StartFeed, StopFeed
<1>3. \A f \in Feeds : ~StartOf(c, f) /\ ~StopOf(c, f) /\ ~StartOf(c, f)' /\ ~StopOf(c, f)'
  <2>1. pc'[c] = "check"
    BY <1>1 DEF TypeOK
  <2>2. QED
    BY <1>1, <2>1 DEF StartOf, StopOf
<1>4. \A d \in Callers \ {c}, f \in Feeds :
        (StartOf(d, f)' <=> StartOf(d, f)) /\ (StopOf(d, f)' <=> StopOf(d, f))
  BY <1>1, <1>2, OthersMeaning
<1>5. QED
  BY <1>3, <1>4 DEF SameMeaning

\* A wait changes nothing, whatever it gets: an empty answer is no failure.
LEMMA WaitMeaning ==
  ASSUME TypeOK, FeedVarsOK, UNCHANGED want, NEW c \in Callers,
         WaitArm(c) \/ WaitWake(c) \/ WaitGet(c)
  PROVE  SameMeaning
<1>1. PICK to : pc' = [pc EXCEPT ![c] = to]
  BY DEF WaitArm, WaitWake, WaitGet
<1>2. PICK r : UNCHANGED ret \/ ret' = [ret EXCEPT ![c] = r]
  BY DEF WaitArm, WaitWake, WaitGet
<1>3. \A d \in Callers \ {c}, f \in Feeds :
        (StartOf(d, f)' <=> StartOf(d, f)) /\ (StopOf(d, f)' <=> StopOf(d, f))
  BY <1>1, <1>2, OthersMeaning
<1>4. \/ pc[c] \in {"arm", "wait"} /\ pc'[c] \in {"wait", "get"}
      \/ pc[c] = "get" /\ pc'[c] = "returned" /\ ret'[c] >= 0
  <2>1. Len(KfifoGet(control_fifo_kernel, 1)) \in Nat
    BY GetElements, LenProperties DEF TypeOK
  <2>2. Len(KfifoGet(control_fifo_kernel, 1)) >= 0
    BY <2>1
  <2>3. WaitGet(c) => ret'[c] = Len(KfifoGet(control_fifo_kernel, 1))
    BY WholeMessages DEF WaitGet, TypeOK
  <2>4. QED
    BY <2>2, <2>3 DEF WaitArm, WaitWake, WaitGet, TypeOK
<1>5. \A f \in Feeds : (StartOf(c, f)' <=> StartOf(c, f)) /\ (StopOf(c, f)' <=> StopOf(c, f))
  BY <1>4 DEF StartOf, StopOf
<1>6. QED
  BY <1>3, <1>5 DEF SameMeaning

\* A message that is refused fails a start, and does not save a stop.
LEMMA RefusedMeaning ==
  ASSUME TypeOK, FeedVarsOK, UNCHANGED want, NEW c \in Callers, pc[c] \in {"check", "put"},
         pc' = [pc EXCEPT ![c] = "returned"], ret' = [ret EXCEPT ![c] = NoBuffer]
  PROVE  /\ \A d \in Callers, f \in Feeds : StartOf(d, f)' <=> StartOf(d, f)
         /\ \A d \in Callers, f \in Feeds :
              StopOf(d, f)' <=> StopOf(d, f) \/ (d = c /\ want[c] = <<"stop", f>>)
<1>1. \A d \in Callers \ {c}, f \in Feeds :
        (StartOf(d, f)' <=> StartOf(d, f)) /\ (StopOf(d, f)' <=> StopOf(d, f))
  BY OthersMeaning
<1>2. pc'[c] = "returned" /\ ret'[c] = -1
  BY DEF TypeOK, NoBuffer
<1>3. ~(ret'[c] >= 0)
  BY <1>2
<1>4. \A f \in Feeds : ~StartOf(c, f) /\ ~StopOf(c, f) /\ ~StartOf(c, f)'
                       /\ (StopOf(c, f)' <=> want[c] = <<"stop", f>>)
  BY <1>2, <1>3 DEF StartOf, StopOf
<1>5. QED
  BY <1>1, <1>4

\* A message that is posted is what its caller means.
LEMMA PostedMeaning ==
  ASSUME TypeOK, FeedVarsOK, UNCHANGED <<want, ret>>, NEW c \in Callers, pc[c] = "put",
         pc' = [pc EXCEPT ![c] = "arm"]
  PROVE  /\ \A d \in Callers, f \in Feeds :
              StartOf(d, f)' <=> StartOf(d, f) \/ (d = c /\ want[c] = <<"start", f>>)
         /\ \A d \in Callers, f \in Feeds :
              StopOf(d, f)' <=> StopOf(d, f) \/ (d = c /\ want[c] = <<"stop", f>>)
<1>1. \A d \in Callers \ {c}, f \in Feeds :
        (StartOf(d, f)' <=> StartOf(d, f)) /\ (StopOf(d, f)' <=> StopOf(d, f))
  BY OthersMeaning
<1>2. pc'[c] = "arm"
  BY DEF TypeOK
<1>3. \A f \in Feeds : /\ ~StartOf(c, f) /\ ~StopOf(c, f)
                       /\ StartOf(c, f)' <=> want[c] = <<"start", f>>
                       /\ StopOf(c, f)' <=> want[c] = <<"stop", f>>
  BY <1>2 DEF StartOf, StopOf
<1>4. QED
  BY <1>1, <1>3
-----------------------------------------------------------------------------
(* The daemon comes to what the kernel means.                              *)

LEMMA MeantKept ==
  ASSUME SameMeaning, UNCHANGED active
  PROVE  \A f \in Feeds : (Meant(f)' <=> Meant(f)) /\ (Stopping(f)' <=> Stopping(f))
BY DEF SameMeaning, Meant, Starting, Stopping

\* A step that leaves alone what is on the way about f.
LEMMA EndKept ==
  ASSUME NEW f \in Feeds, EndsAs(f, Meant(f)), About(f)' = About(f),
         \A k \in About(f) : sent'[k] = sent[k],
         f \in served' <=> f \in served, Meant(f)' <=> Meant(f)
  PROVE  EndsAs(f, Meant(f))'
BY DEF EndsAs

LEMMA AgreeKept ==
  ASSUME WillAgree, SameMeaning, OnTheWay' = OnTheWay, UNCHANGED <<active, served, sent, astray>>
  PROVE  WillAgree'
<1> SUFFICES ASSUME NEW f \in Feeds \ astray PROVE EndsAs(f, Meant(f))'
  BY DEF WillAgree
<1>1. About(f)' = About(f)
  BY DEF About
<1>2. Meant(f)' <=> Meant(f)
  BY MeantKept
<1>3. QED
  BY <1>1, <1>2, EndKept DEF WillAgree

\* The messages on the way stay what they are when another one is posted.
LEMMA SentKept ==
  ASSUME TypeOK, WholeBytes, NEW c, sent' = [sent EXCEPT ![posted + 1] = want[c]],
         NEW k \in OnTheWay
  PROVE  sent'[k] = sent[k]
<1>1. posted \in Nat /\ k \in 1..posted
  BY DEF TypeOK, WholeBytes
<1>2. k # posted + 1
  BY <1>1
<1>3. QED
  BY <1>2

\* A post that fails: of a start, nothing has changed; a stop goes astray.
LEMMA RefusedAgrees ==
  ASSUME ChannelInv, FeedVarsOK, WholeBytes, Locked, WillAgree, NEW c \in Callers, FeedPut(c),
         pc' = [pc EXCEPT ![c] = "returned"], ret' = [ret EXCEPT ![c] = NoBuffer],
         OnTheWay' = OnTheWay
  PROVE  WillAgree'
<1> SUFFICES ASSUME NEW f \in Feeds \ astray' PROVE EndsAs(f, Meant(f))'
  BY DEF WillAgree
<1>1. pc'[c] = "returned" /\ pc[c] = "put" /\ UNCHANGED <<want, active, served>>
  BY DEF FeedPut, PostPut, ChannelInv, TypeOK
<1>2. f \notin astray /\ want[c] # <<"stop", f>>
  BY <1>1 DEF FeedPut
<1>3. Meant(f)' <=> Meant(f)
  BY <1>1, <1>2, RefusedMeaning DEF Meant, Starting, Stopping, ChannelInv
<1>4. \A k \in OnTheWay : sent'[k] = sent[k]
  BY SentKept DEF FeedPut, ChannelInv
<1>5. About(f)' = About(f)
  BY <1>4 DEF About
<1>6. QED
  BY <1>1, <1>2, <1>3, <1>4, <1>5, EndKept DEF WillAgree, About

\* A post: the message is the newest about its feed, and decides.
LEMMA PostedAgrees ==
  ASSUME ChannelInv, FeedVarsOK, PostBound, WholeBytes, Locked, WillAgree, NEW c \in Callers,
         FeedPut(c), pc' = [pc EXCEPT ![c] = "arm"], UNCHANGED ret,
         OnTheWay' = OnTheWay \cup {posted + 1}
  PROVE  WillAgree'
<1> SUFFICES ASSUME NEW f \in Feeds \ astray' PROVE EndsAs(f, Meant(f))'
  BY DEF WillAgree
<1>1. pc'[c] = "arm" /\ pc[c] = "put" /\ UNCHANGED <<want, active, served>>
  BY DEF FeedPut, PostPut, ChannelInv, TypeOK
<1>2. astray' = astray \ {want[c][2]}
  BY <1>1 DEF FeedPut
<1>3. \A k \in OnTheWay : sent'[k] = sent[k]
  BY SentKept DEF FeedPut, ChannelInv
<1>4. sent'[posted + 1] = want[c]
  BY PutInBound DEF FeedPut, ChannelInv, FeedVarsOK
<1>5. /\ \A d \in Callers : StartOf(d, f)' <=> StartOf(d, f) \/ (d = c /\ want[c] = <<"start", f>>)
      /\ \A d \in Callers : StopOf(d, f)' <=> StopOf(d, f) \/ (d = c /\ want[c] = <<"stop", f>>)
  BY <1>1, PostedMeaning DEF ChannelInv
<1>6. CASE want[c][2] # f
  <2>1. f \notin astray /\ want[c] # <<"start", f>> /\ want[c] # <<"stop", f>>
    BY <1>2, <1>6
  <2>2. About(f)' = About(f)
    BY <1>3, <1>4, <1>6 DEF About
  <2>3. Meant(f)' <=> Meant(f)
    BY <1>1, <1>5, <2>1 DEF Meant, Starting, Stopping
  <2>4. QED
    BY <1>1, <1>3, <2>1, <2>2, <2>3, EndKept DEF WillAgree, About
<1>7. CASE want[c][2] = f
  <2>1. want[c] = <<"start", f>> \/ want[c] = <<"stop", f>>
    <3>1. want[c] \in Requests
      BY DEF FeedVarsOK
    <3>2. QED
      BY <1>7, <3>1, FeedsAssumption DEF Requests, Other
  <2>2. \A k \in About(f)' : k \in Nat /\ k <= posted + 1
    <3>1. posted \in Nat /\ OnTheWay \subseteq 1..posted
      BY DEF ChannelInv, TypeOK, WholeBytes
    <3>2. QED
      BY <3>1 DEF About
  <2>3. posted + 1 \in About(f)'
    BY <1>4, <1>7 DEF About
  <2>4. \A k \in About(f)' : (\A j \in About(f)' : j <= k) => k = posted + 1
    <3>1. posted + 1 \in Nat
      BY <2>2, <2>3
    <3>2. SUFFICES ASSUME NEW k \in About(f)', posted + 1 <= k PROVE k = posted + 1
      BY <2>3
    <3>3. k \in Nat /\ k <= posted + 1
      BY <2>2
    <3>4. QED
      BY <3>1, <3>2, <3>3
  <2>5. Meant(f)' <=> want[c][1] = "start"
    <3>1. CASE want[c] = <<"start", f>>
      <4>1. \A d \in Callers : ~StopOf(d, f)
        BY <3>1, OneWant DEF StopOf, Other
      <4>2. QED
        BY <1>5, <3>1, <4>1 DEF Meant, Starting, Stopping
    <3>2. CASE want[c] = <<"stop", f>>
      BY <1>5, <3>2 DEF Meant, Stopping
    <3>3. QED
      BY <2>1, <3>1, <3>2
  <2>6. QED
    BY <1>4, <2>3, <2>4, <2>5 DEF EndsAs
<1>8. QED
  BY <1>6, <1>7
\* The check of userspace_ready: a stop that it refuses is of a feed astray.
LEMMA CheckAgrees ==
  ASSUME ChannelInv, FeedVarsOK, Locked, WillAgree, Refusing, NEW c \in Callers, PostCheck(c),
         UNCHANGED feedVars
  PROVE  WillAgree'
<1>1. OnTheWay' = OnTheWay /\ UNCHANGED <<want, active, served, sent, astray>> /\ pc[c] = "check"
  BY SameWay DEF PostCheck, daemonVars, fifos, feedVars
<1>2. CASE userspace_ready
  <2>1. pc' = [pc EXCEPT ![c] = "put"] /\ UNCHANGED ret
    BY <1>2 DEF PostCheck
  <2>2. pc'[c] = "put"
    BY <2>1 DEF ChannelInv, TypeOK
  <2>3. \A f \in Feeds : ~StartOf(c, f) /\ ~StopOf(c, f) /\ ~StartOf(c, f)' /\ ~StopOf(c, f)'
    BY <1>1, <2>2 DEF StartOf, StopOf
  <2>4. \A d \in Callers \ {c}, f \in Feeds :
          (StartOf(d, f)' <=> StartOf(d, f)) /\ (StopOf(d, f)' <=> StopOf(d, f))
    BY <1>1, <2>1, OthersMeaning DEF ChannelInv
  <2>5. SameMeaning
    BY <2>3, <2>4 DEF SameMeaning
  <2>6. QED
    BY <1>1, <2>5, AgreeKept
<1>3. CASE ~userspace_ready
  <2> SUFFICES ASSUME NEW f \in Feeds \ astray PROVE EndsAs(f, Meant(f))'
    BY <1>1 DEF WillAgree
  <2>1. want[c] # <<"stop", f>>
    <3>1. SUFFICES ASSUME want[c] = <<"stop", f>> PROVE FALSE
      OBVIOUS
    <3>2. f \in active
      BY <3>1 DEF Locked
    <3>3. PICK d \in Callers : StopOf(d, f)
      BY <1>3, <3>2 DEF Refusing, Refuses, Stopping
    <3>4. d = c
      BY <3>1, <3>3, OneWant DEF StopOf, Other
    <3>5. QED
      BY <1>1, <3>3, <3>4 DEF StopOf
  <2>2. pc' = [pc EXCEPT ![c] = "returned"] /\ ret' = [ret EXCEPT ![c] = NoBuffer]
    BY <1>3 DEF PostCheck
  <2>3. Meant(f)' <=> Meant(f)
    BY <1>1, <2>1, <2>2, RefusedMeaning DEF Meant, Starting, Stopping, ChannelInv
  <2>4. About(f)' = About(f)
    BY <1>1 DEF About
  <2>5. QED
    BY <1>1, <2>3, <2>4, EndKept DEF WillAgree
<1>4. QED
  BY <1>2, <1>3

\* A start that is interrupted goes astray; a stop is on its way all the same.
LEMMA InterruptedMeaning ==
  ASSUME ChannelInv, FeedVarsOK, NEW c \in Callers, FeedInterrupted(c), NEW f \in Feeds \ astray'
  PROVE  /\ f \notin astray /\ want[c] # <<"start", f>>
         /\ \A d \in Callers : StartOf(d, f)' <=> StartOf(d, f)
         /\ \A d \in Callers : StopOf(d, f)' <=> StopOf(d, f)
         /\ \A d \in Callers : ~GotStart(d, f) => ~GotStart(d, f)'
<1>1. /\ pc' = [pc EXCEPT ![c] = "returned"] /\ ret' = [ret EXCEPT ![c] = -ERESTARTSYS]
      /\ pc[c] = "wait" /\ UNCHANGED want
  BY DEF FeedInterrupted, WaitInterrupted
<1>2. f \notin astray /\ want[c] # <<"start", f>>
  BY DEF FeedInterrupted
<1>3. pc'[c] = "returned"
  BY <1>1 DEF ChannelInv, TypeOK
<1>4. /\ StartOf(c, f)' <=> StartOf(c, f)
      /\ StopOf(c, f)' <=> StopOf(c, f)
      /\ ~GotStart(c, f)'
  BY <1>1, <1>2, <1>3 DEF StartOf, StopOf, GotStart
<1>5. \A d \in Callers \ {c} : (StartOf(d, f)' <=> StartOf(d, f)) /\ (StopOf(d, f)' <=> StopOf(d, f))
  BY <1>1, OthersMeaning DEF ChannelInv
<1>6. \A d \in Callers \ {c} : GotStart(d, f)' => GotStart(d, f)
  <2>1. \A d \in Callers \ {c} : pc'[d] = pc[d] /\ ret'[d] = ret[d]
    BY <1>1 DEF ChannelInv, TypeOK
  <2>2. QED
    BY <1>1, <2>1 DEF GotStart
<1>7. QED
  BY <1>2, <1>4, <1>5, <1>6

LEMMA InterruptedAgrees ==
  ASSUME ChannelInv, FeedVarsOK, WillAgree, NEW c \in Callers, FeedInterrupted(c)
  PROVE  WillAgree'
<1> SUFFICES ASSUME NEW f \in Feeds \ astray' PROVE EndsAs(f, Meant(f))'
  BY DEF WillAgree
<1>1. UNCHANGED <<want, active, served, sent>> /\ OnTheWay' = OnTheWay
  BY SameWay DEF FeedInterrupted, WaitInterrupted, daemonVars, fifos
<1>2. (Meant(f)' <=> Meant(f)) /\ f \notin astray
  BY <1>1, InterruptedMeaning DEF Meant, Starting, Stopping
<1>3. About(f)' = About(f)
  BY <1>1 DEF About
<1>4. QED
  BY <1>1, <1>2, <1>3, EndKept DEF WillAgree

\* A return turns what was meant into what is.
LEMMA ReturnMeaning ==
  ASSUME ChannelInv, FeedVarsOK, Locked, NEW c \in Callers, FeedReturn(c), NEW f \in Feeds
  PROVE  Meant(f)' <=> Meant(f)
<1>1. /\ pc' = [pc EXCEPT ![c] = "idle"] /\ ret' = [ret EXCEPT ![c] = 0]
      /\ want' = [want EXCEPT ![c] = Other] /\ pc[c] = "returned"
  BY DEF FeedReturn, Return
<1>2. \A d \in Callers \ {c} : (StartOf(d, f)' <=> StartOf(d, f)) /\ (StopOf(d, f)' <=> StopOf(d, f))
  BY <1>1, OthersMeaning DEF ChannelInv
<1>3. ~StartOf(c, f)' /\ ~StopOf(c, f)'
  <2>1. pc'[c] = "idle"
    BY <1>1 DEF ChannelInv, TypeOK
  <2>2. QED
    BY <2>1 DEF StartOf, StopOf
<1>4. CASE want[c] = <<"start", f>> \/ want[c] = <<"stop", f>>
  <2>1. \A d \in Callers \ {c} : ~StartOf(d, f) /\ ~StopOf(d, f)
    BY <1>4, OneWant DEF StartOf, StopOf, Other
  <2>2. Meant(f)' <=> f \in active'
    BY <1>2, <1>3, <2>1 DEF Meant, Starting, Stopping
  <2>3. Meant(f) <=> (f \in active \/ StartOf(c, f)) /\ ~StopOf(c, f)
    BY <2>1 DEF Meant, Starting, Stopping
  <2>4. StartOf(c, f) <=> want[c] = <<"start", f>> /\ ret[c] >= 0
    BY <1>1 DEF StartOf
  <2>5. StopOf(c, f) <=> want[c] = <<"stop", f>>
    BY <1>1 DEF StopOf
  <2>6. QED
    BY <2>2, <2>3, <2>4, <2>5 DEF FeedReturn, Result
<1>5. CASE want[c] # <<"start", f>> /\ want[c] # <<"stop", f>>
  <2>1. f \in active' <=> f \in active
    BY <1>5 DEF FeedReturn, Result
  <2>2. ~StartOf(c, f) /\ ~StopOf(c, f)
    BY <1>5 DEF StartOf, StopOf
  <2>3. QED
    BY <1>2, <1>3, <2>1, <2>2 DEF Meant, Starting, Stopping
<1>6. QED
  BY <1>4, <1>5

LEMMA ReturnAgrees ==
  ASSUME ChannelInv, FeedVarsOK, Locked, WillAgree, NEW c \in Callers, FeedReturn(c)
  PROVE  WillAgree'
<1>1. UNCHANGED <<served, sent, astray>> /\ OnTheWay' = OnTheWay
  BY SameWay DEF FeedReturn, Return, daemonVars, fifos
<1> SUFFICES ASSUME NEW f \in Feeds \ astray PROVE EndsAs(f, Meant(f))'
  BY <1>1 DEF WillAgree
<1>2. Meant(f)' <=> Meant(f)
  BY ReturnMeaning
<1>3. About(f)' = About(f)
  BY <1>1 DEF About
<1>4. QED
  BY <1>1, <1>2, <1>3, EndKept DEF WillAgree
\* Steps that change nothing of a caller mean the same.
LEMMA DaemonMeaning ==
  ASSUME UNCHANGED <<pc, ret, want>>
  PROVE  SameMeaning
BY DEF SameMeaning, StartOf, StopOf

\* The daemon acts upon the oldest message: what the newest says still holds.
LEMMA ProcessAgrees ==
  ASSUME ChannelInv, FeedVarsOK, PostBound, WholeBytes, WillAgree, FeedProcess
  PROVE  WillAgree'
<1> DEFINE d == dbuf[1]
<1>1. UNCHANGED <<pc, ret, want, active, sent, astray>> /\ Process
  BY DEF FeedProcess, Process, callerVars
<1> SUFFICES ASSUME NEW f \in Feeds \ astray PROVE EndsAs(f, Meant(f))'
  BY <1>1 DEF WillAgree
<1>2. d \in OnTheWay /\ OnTheWay' = OnTheWay \ {d} /\ \A k \in OnTheWay' : d < k
  BY <1>1, ProcessWay
<1>3. Meant(f)' <=> Meant(f)
  BY <1>1, DaemonMeaning, MeantKept
<1>4. served' = (served \cup {g \in Feeds : sent[d] = <<"start", g>>})
                  \ {g \in Feeds : sent[d] = <<"stop", g>>}
  BY DEF FeedProcess
<1>5. sent[d] \in Requests
  <2>1. d \in 1..posted /\ posted \in Nat /\ MaxPosts \in Nat
    BY <1>2, BoundsAssumption DEF WholeBytes, ChannelInv, TypeOK
  <2>2. posted <= MaxPosts
    <3>1. Cardinality(Posters) \in Nat /\ posted + Cardinality(Posters) <= MaxPosts
      BY FS_CardinalityType DEF PostBound
    <3>2. QED
      BY <2>1, <3>1
  <2>3. d \in 1..MaxPosts
    BY <2>1, <2>2
  <2>4. QED
    BY <2>3 DEF FeedVarsOK
<1> HIDE DEF d
<1>6. CASE sent[d][2] # f
  <2>1. About(f)' = About(f)
    BY <1>1, <1>2, <1>6 DEF About
  <2>2. f \in served' <=> f \in served
    BY <1>4, <1>6
  <2>3. QED
    BY <1>1, <1>3, <2>1, <2>2, EndKept DEF WillAgree
<1>7. CASE sent[d][2] = f
  <2>1. sent[d] = <<"start", f>> \/ sent[d] = <<"stop", f>>
    BY <1>5, <1>7, FeedsAssumption DEF Requests, Other
  <2>2. f \in served' <=> sent[d][1] = "start"
    BY <1>4, <2>1
  <2>3. About(f) = About(f)' \cup {d} /\ \A k \in About(f)' : d < k
    BY <1>1, <1>2, <1>7 DEF About
  <2>4. \A k \in About(f) : k \in Nat
    <3>1. posted \in Nat /\ OnTheWay \subseteq 1..posted
      BY DEF ChannelInv, TypeOK, WholeBytes
    <3>2. QED
      BY <3>1 DEF About
  <2>5. d \in About(f) /\ d <= d
    BY <2>3, <2>4
  <2>6. EndsAs(f, Meant(f))
    BY DEF WillAgree
  <2>7. About(f)' = {} => (f \in served' <=> Meant(f))
    BY <2>2, <2>3, <2>5, <2>6 DEF EndsAs
  <2>8. \A k \in About(f)' : d <= k
    BY <2>3, <2>4
  <2>9. \A k \in About(f)' : (\A j \in About(f)' : j <= k) => (sent[k][1] = "start" <=> Meant(f))
    <3>1. TAKE k \in About(f)'
    <3>2. HAVE \A j \in About(f)' : j <= k
    <3>3. k \in About(f) /\ \A j \in About(f) : j <= k
      BY <2>3, <2>8, <3>2
    <3>4. QED
      BY <2>6, <3>3 DEF EndsAs
  <2>10. QED
    BY <1>1, <1>3, <2>7, <2>9 DEF EndsAs
<1>8. QED
  BY <1>6, <1>7

\* The process ends: what it streamed, had read or is waited for goes astray.
LEMMA ExitAgrees ==
  ASSUME ChannelInv, FeedVarsOK, WholeBytes, WillAgree, FeedExit
  PROVE  WillAgree'
<1>1. UNCHANGED <<pc, ret, want, active, sent>> /\ DaemonExit /\ served' = {}
  BY DEF FeedExit, DaemonExit, callerVars
<1> SUFFICES ASSUME NEW f \in Feeds \ astray' PROVE EndsAs(f, Meant(f))'
  BY DEF WillAgree
<1>2. /\ f \notin astray /\ f \notin active /\ f \notin FeedsOf(dbuf)
      /\ \A c \in Waiting : want[c][2] # f
  BY DEF FeedExit
<1>3. \A c \in Callers : ~StartOf(c, f)
  BY <1>2 DEF StartOf, Waiting
<1>4. ~Meant(f)
  BY <1>2, <1>3 DEF Meant, Starting
<1>5. ~Meant(f)'
  BY <1>1, <1>4, DaemonMeaning, MeantKept
<1>6. About(f)' = About(f)
  BY <1>1, <1>2, ExitWay DEF About, FeedsOf, Bytes
<1>7. EndsAs(f, Meant(f))
  BY <1>2 DEF WillAgree
<1>8. QED
  BY <1>1, <1>4, <1>5, <1>6, <1>7 DEF EndsAs

\* A release: what was on the way goes astray.
LEMMA ResetAgrees ==
  ASSUME ChannelInv, FeedVarsOK, WillAgree, FeedReset
  PROVE  /\ WillAgree'
         /\ \A f \in Feeds \ astray' :
              f \notin astray /\ About(f) = {} /\ (f \in served <=> Meant(f))
<1>1. UNCHANGED <<pc, ret, want, active, served, sent>> /\ ReleaseReset
  BY DEF FeedReset, ReleaseReset, callerVars
<1>2. ASSUME NEW f \in Feeds \ astray'
      PROVE  /\ EndsAs(f, Meant(f))'
             /\ f \notin astray /\ About(f) = {} /\ (f \in served <=> Meant(f))
  <2>1. f \notin astray /\ f \notin FeedsOf(control_fifo_user)
    BY DEF FeedReset
  <2>2. About(f) = {} /\ About(f)' = {}
    BY <1>1, <2>1, ResetWay DEF About, FeedsOf, Bytes
  <2>3. Meant(f)' <=> Meant(f)
    BY <1>1, DaemonMeaning, MeantKept
  <2>4. EndsAs(f, Meant(f))
    BY <2>1 DEF WillAgree
  <2>5. f \in served <=> Meant(f)
    BY <2>2, <2>4 DEF EndsAs
  <2>6. QED
    BY <1>1, <2>1, <2>2, <2>3, <2>5 DEF EndsAs
<1>3. QED
  BY <1>2 DEF WillAgree

LEMMA NextWillAgree ==
  ASSUME ChannelInv, FeedVarsOK, PostBound, WholeBytes, Locked, Refusing, WillAgree,
         [FeedNext]_allVars
  PROVE  WillAgree'
<1>1. ASSUME NEW c \in Callers, CallFeed(c) \/ CallOther(c) PROVE WillAgree'
  <2>1. UNCHANGED <<active, served, sent, astray>> /\ OnTheWay' = OnTheWay
    BY <1>1, SameWay DEF CallFeed, CallOther, Call, daemonVars, fifos
  <2>2. QED
    BY <1>1, <2>1, CallMeaning, AgreeKept DEF ChannelInv
<1>2. ASSUME NEW c \in Callers, PostCheck(c), UNCHANGED feedVars PROVE WillAgree'
  BY <1>2, CheckAgrees
<1>3. ASSUME NEW c \in Callers, WaitArm(c) \/ WaitWake(c) \/ WaitGet(c), UNCHANGED feedVars
      PROVE  WillAgree'
  <2>1. UNCHANGED <<want, active, served, sent, astray>> /\ OnTheWay' = OnTheWay
    BY <1>3, SameWay DEF WaitArm, WaitWake, WaitGet, daemonVars, fifos, feedVars
  <2>2. QED
    BY <1>3, <2>1, WaitMeaning, AgreeKept DEF ChannelInv
<1>4. ASSUME NEW c \in Callers, FeedPut(c) PROVE WillAgree'
  BY <1>4, PutWay, PostedAgrees, RefusedAgrees DEF FeedPut
<1>5. ASSUME NEW c \in Callers, FeedInterrupted(c) \/ FeedReturn(c) PROVE WillAgree'
  BY <1>5, InterruptedAgrees, ReturnAgrees
<1>6. ASSUME UNCHANGED <<pc, ret>>, UNCHANGED feedVars, OnTheWay' = OnTheWay PROVE WillAgree'
  BY <1>6, DaemonMeaning, AgreeKept DEF feedVars
<1>7. CASE (DaemonStart \/ (\E t \in Tuners : DaemonIoctl(t)) \/ DaemonRun \/ WriteIgnored
              \/ WriteCheck \/ WritePut \/ (\E file \in files : ControlRelease(file)))
             /\ UNCHANGED feedVars
  <2>1. OnTheWay' = OnTheWay
    BY <1>7, SameWay DEF DaemonStart, DaemonIoctl, DaemonRun, ControlOpen, WriteIgnored,
                         WriteCheck, WritePut, ControlRelease, fifos
  <2>2. UNCHANGED <<pc, ret>>
    BY <1>7 DEF DaemonStart, DaemonIoctl, DaemonRun, WriteIgnored, WriteCheck, WritePut,
                ControlRelease, callerVars
  <2>3. QED
    BY <1>6, <1>7, <2>1, <2>2
<1>8. CASE ControlRead /\ UNCHANGED feedVars
  BY <1>6, <1>8, ReadWay DEF ControlRead, callerVars
<1>9. CASE FeedProcess \/ FeedExit \/ FeedReset
  BY <1>9, ProcessAgrees, ExitAgrees, ResetAgrees
<1>10. CASE UNCHANGED allVars
  BY <1>6, <1>10, SameWay DEF allVars, vars, callerVars, daemonVars, fifos
<1>11. QED
  BY <1>1, <1>2, <1>3, <1>4, <1>5, <1>7, <1>8, <1>9, <1>10
  DEF FeedNext, FeedCallerStep, ChannelStep, DaemonServes
-----------------------------------------------------------------------------
(* While posts are refused.                                                *)

LEMMA NothingLeft == KfifoLeft(<<>>, 1) = <<>>
<1>1. <<>> \in Seq(Nat) /\ Len(<<>>) = 0
  BY EmptySeq
<1>2. Least(1, 0) = 0
  BY DEF Least
<1>3. QED
  BY <1>1, <1>2, SubSeqEmpty DEF KfifoLeft

\* Another caller's step does not give a start its answer.
LEMMA OthersGot ==
  ASSUME TypeOK, FeedVarsOK, NEW c \in Callers, NEW to, NEW r, NEW w,
         pc' = [pc EXCEPT ![c] = to], UNCHANGED ret \/ ret' = [ret EXCEPT ![c] = r],
         UNCHANGED want \/ want' = [want EXCEPT ![c] = w],
         NEW d \in Callers \ {c}, NEW f
  PROVE  GotStart(d, f)' <=> GotStart(d, f)
<1>1. pc'[d] = pc[d] /\ ret'[d] = ret[d] /\ want'[d] = want[d]
  BY DEF TypeOK, FeedVarsOK
<1>2. QED
  BY <1>1 DEF GotStart

\* The steps of a caller other than the put and the return.
LEMMA CallerRefusing ==
  ASSUME ChannelInv, FeedVarsOK, Locked, Refusing, Refuses, NEW c \in Callers,
         \/ CallFeed(c) \/ CallOther(c)
         \/ (PostCheck(c) \/ WaitArm(c) \/ WaitGet(c)) /\ UNCHANGED feedVars
  PROVE  Refusing'
<1>0. /\ control_fifo_kernel = <<>>
      /\ \A f \in active \ astray : Stopping(f)
      /\ \A d \in Callers, f \in Feeds \ astray : ~GotStart(d, f)
  BY DEF Refusing
<1>1. UNCHANGED <<active, astray>>
  BY DEF CallFeed, CallOther, feedVars
<1>2. control_fifo_kernel' = <<>>
  BY <1>0, NothingLeft, WholeMessages DEF CallFeed, CallOther, Call, PostCheck, WaitArm, WaitGet,
     fifos
<1>3. PICK to \in CallerPlaces :
        /\ pc' = [pc EXCEPT ![c] = to]
        /\ UNCHANGED ret \/ \E r : ret' = [ret EXCEPT ![c] = r]
        /\ UNCHANGED want \/ \E w : want' = [want EXCEPT ![c] = w]
  BY DEF CallFeed, StartFeed, StopFeed, CallOther, Call, PostCheck, WaitArm, WaitGet, feedVars,
         CallerPlaces
<1>4. \A f \in Feeds : GotStart(c, f)' => GotStart(c, f)
  <2>1. CASE CallFeed(c) \/ CallOther(c) \/ WaitArm(c)
    BY <2>1 DEF CallFeed, CallOther, Call, WaitArm, ChannelInv, TypeOK, GotStart
  <2>2. CASE PostCheck(c)
    <3>1. pc'[c] = "put" \/ (pc'[c] = "returned" /\ ret'[c] = -1)
      BY <2>2 DEF PostCheck, ChannelInv, TypeOK, NoBuffer
    <3>2. pc'[c] = "put" \/ (pc'[c] = "returned" /\ ~(ret'[c] >= 0))
      BY <3>1
    <3>3. QED
      BY <3>2 DEF GotStart
  <2>3. CASE WaitGet(c) /\ UNCHANGED feedVars
    BY <2>3 DEF WaitGet, GotStart, feedVars
  <2>4. QED
    BY <2>1, <2>2, <2>3
<1>5. \A f \in Feeds : StopOf(c, f) => StopOf(c, f)'
  <2>1. CASE CallFeed(c) \/ CallOther(c)
    BY <2>1 DEF CallFeed, CallOther, Call, StopOf
  <2>2. CASE (PostCheck(c) \/ WaitArm(c) \/ WaitGet(c)) /\ UNCHANGED feedVars
    BY <2>2 DEF PostCheck, WaitArm, WaitGet, StopOf, feedVars, ChannelInv, TypeOK
  <2>3. QED
    BY <2>1, <2>2
<1>6. \A d \in Callers, f \in Feeds : StopOf(d, f) => StopOf(d, f)'
  BY <1>3, <1>5, OthersMeaning DEF ChannelInv
<1>7. \A d \in Callers, f \in Feeds : GotStart(d, f)' => GotStart(d, f)
  BY <1>3, <1>4, OthersGot DEF ChannelInv
<1>8. \A f \in active' \ astray' : Stopping(f)'
  BY <1>0, <1>1, <1>6 DEF Stopping, FeedVarsOK
<1>9. QED
  BY <1>0, <1>1, <1>2, <1>7, <1>8 DEF Refusing

\* A post after the check: a start is not of an active feed, and a stop stops.
LEMMA PutRefusing ==
  ASSUME ChannelInv, FeedVarsOK, Locked, Refusing, Refuses, NEW c \in Callers, FeedPut(c)
  PROVE  Refusing'
<1>0. /\ control_fifo_kernel = <<>>
      /\ \A f \in active \ astray : Stopping(f)
      /\ \A d \in Callers, f \in Feeds \ astray : ~GotStart(d, f)
  BY DEF Refusing
<1>1. UNCHANGED <<want, active, control_fifo_kernel>> /\ pc[c] = "put"
  BY DEF FeedPut, PostPut
<1>2. \/ pc' = [pc EXCEPT ![c] = "arm"] /\ UNCHANGED ret
      \/ pc' = [pc EXCEPT ![c] = "returned"] /\ ret' = [ret EXCEPT ![c] = NoBuffer]
  BY DEF FeedPut, PostPut
<1>3. pc'[c] \in {"arm", "returned"} /\ (pc'[c] = "returned" => ~(ret'[c] >= 0))
  <2>1. pc'[c] = "arm" \/ (pc'[c] = "returned" /\ ret'[c] = -1)
    BY <1>2 DEF ChannelInv, TypeOK, NoBuffer
  <2>2. QED
    BY <2>1
<1>4. \A f \in Feeds : ~GotStart(c, f)' /\ (StopOf(c, f)' <=> want[c] = <<"stop", f>>)
                       /\ ~StopOf(c, f)
  BY <1>1, <1>3 DEF GotStart, StopOf
<1>5. \A d \in Callers \ {c}, f \in Feeds :
        (GotStart(d, f)' <=> GotStart(d, f)) /\ (StopOf(d, f)' <=> StopOf(d, f))
  BY <1>1, <1>2, OthersGot, OthersMeaning DEF ChannelInv
<1>6. \A f \in Feeds : f \in astray /\ f \notin astray' =>
                         want[c] = <<"start", f>> \/ want[c] = <<"stop", f>>
  <2>1. want[c] \in Requests
    BY DEF FeedVarsOK
  <2>2. QED
    BY <2>1, FeedsAssumption DEF FeedPut, Requests, Other
<1>7. \A f \in active' \ astray' : Stopping(f)'
  <2> SUFFICES ASSUME NEW f \in active' \ astray' PROVE Stopping(f)'
    OBVIOUS
  <2>1. f \in Feeds /\ f \in active
    BY <1>1 DEF FeedVarsOK
  <2>2. CASE f \notin astray
    BY <1>0, <1>4, <1>5, <2>1, <2>2 DEF Stopping
  <2>3. CASE f \in astray
    <3>1. want[c] = <<"stop", f>>
      BY <1>6, <2>1, <2>3 DEF Locked
    <3>2. QED
      BY <1>4, <2>1, <3>1 DEF Stopping
  <2>4. QED
    BY <2>2, <2>3
<1>8. \A d \in Callers, f \in Feeds \ astray' : ~GotStart(d, f)'
  <2> SUFFICES ASSUME NEW d \in Callers \ {c}, NEW f \in Feeds \ astray' PROVE ~GotStart(d, f)
    BY <1>4, <1>5
  <2>1. CASE f \notin astray
    BY <1>0, <2>1
  <2>2. CASE f \in astray
    BY <1>6, <2>2, OneWant DEF GotStart, Other
  <2>3. QED
    BY <2>1, <2>2
<1>9. QED
  BY <1>0, <1>1, <1>7, <1>8 DEF Refusing

LEMMA InterruptedRefusing ==
  ASSUME ChannelInv, FeedVarsOK, Refusing, Refuses, NEW c \in Callers, FeedInterrupted(c)
  PROVE  Refusing'
<1>1. UNCHANGED <<active, control_fifo_kernel>>
  BY DEF FeedInterrupted, WaitInterrupted, fifos
<1>2. \A f \in active' \ astray' : Stopping(f)'
  BY <1>1, InterruptedMeaning DEF Refusing, Stopping, FeedVarsOK
<1>3. \A d \in Callers, f \in Feeds \ astray' : ~GotStart(d, f)'
  BY InterruptedMeaning DEF Refusing
<1>4. QED
  BY <1>1, <1>2, <1>3 DEF Refusing

LEMMA ReturnRefusing ==
  ASSUME ChannelInv, FeedVarsOK, Refusing, Refuses, NEW c \in Callers, FeedReturn(c)
  PROVE  Refusing'
<1>0. /\ control_fifo_kernel = <<>>
      /\ \A f \in active \ astray : Stopping(f)
      /\ \A d \in Callers, f \in Feeds \ astray : ~GotStart(d, f)
  BY DEF Refusing
<1>1. /\ pc' = [pc EXCEPT ![c] = "idle"] /\ ret' = [ret EXCEPT ![c] = 0] /\ pc[c] = "returned"
      /\ want' = [want EXCEPT ![c] = Other] /\ UNCHANGED <<astray, control_fifo_kernel>>
  BY DEF FeedReturn, Return, fifos
<1>2. \A d \in Callers \ {c}, f \in Feeds :
        (GotStart(d, f)' <=> GotStart(d, f)) /\ (StopOf(d, f)' <=> StopOf(d, f))
  BY <1>1, OthersGot, OthersMeaning DEF ChannelInv
<1>3. \A f \in Feeds : ~GotStart(c, f)'
  <2>1. pc'[c] = "idle"
    BY <1>1 DEF ChannelInv, TypeOK
  <2>2. QED
    BY <2>1 DEF GotStart
<1>4. \A f \in active' \ astray : Stopping(f)'
  <2> SUFFICES ASSUME NEW f \in active' \ astray PROVE Stopping(f)'
    OBVIOUS
  <2>1. f \in Feeds /\ want[c] # <<"stop", f>>
    BY DEF FeedReturn, Result, FeedVarsOK
  <2>2. f \in active
    <3>1. ~(want[c] = <<"start", f>> /\ ret[c] >= 0)
      BY <1>0, <1>1, <2>1 DEF GotStart
    <3>2. QED
      BY <3>1 DEF FeedReturn, Result
  <2>3. PICK d \in Callers : StopOf(d, f)
    BY <1>0, <2>2 DEF Stopping
  <2>4. d # c
    BY <2>1, <2>3 DEF StopOf
  <2>5. QED
    BY <1>2, <2>1, <2>3, <2>4 DEF Stopping
<1>5. QED
  BY <1>0, <1>1, <1>2, <1>3, <1>4 DEF Refusing

\* The fifos are emptied: a feed that is not astray has no message on the way
\* and is not streamed, so it is active only if it is being stopped.
LEMMA ResetRefusing ==
  ASSUME ChannelInv, FeedVarsOK, Locked, NothingServed, WillAgree, FeedReset
  PROVE  Refusing'
<1>1. /\ UNCHANGED <<pc, ret, want, active>> /\ dpc = "exiting"
      /\ control_fifo_kernel' = <<>>
  BY DEF FeedReset, ReleaseReset, callerVars
<1>2. \A f \in Feeds \ astray' : ~Meant(f)
  BY <1>1, ResetAgrees DEF NothingServed
<1>3. \A f \in active' \ astray' : Stopping(f)'
  BY <1>1, <1>2 DEF Meant, Stopping, StopOf, FeedVarsOK
<1>4. \A d \in Callers, f \in Feeds \ astray' : ~GotStart(d, f)'
  <2> SUFFICES ASSUME NEW d \in Callers, NEW f \in Feeds \ astray', GotStart(d, f) PROVE FALSE
    BY <1>1 DEF GotStart
  <2>1. StartOf(d, f)
    BY DEF GotStart, StartOf
  <2>2. PICK c \in Callers : StopOf(c, f)
    BY <1>2, <2>1 DEF Meant, Starting, Stopping
  <2>3. QED
    BY <2>1, <2>2, OneWant DEF StartOf, StopOf, Other
<1>5. QED
  BY <1>1, <1>3, <1>4 DEF Refusing

LEMMA NextRefusing ==
  ASSUME ChannelInv, FeedVarsOK, Locked, NothingServed, WillAgree, Refusing, [FeedNext]_allVars
  PROVE  Refusing'
<1>1. CASE FeedReset
  BY <1>1, ResetRefusing
<1>2. CASE DaemonStart \/ (\E t \in Tuners : DaemonIoctl(t)) \/ DaemonRun
  BY <1>2 DEF DaemonStart, DaemonIoctl, DaemonRun, ControlOpen, Refusing, Refuses
<1>3. ASSUME NEW c \in Callers,
             CallFeed(c) \/ CallOther(c) \/ FeedCallerStep(c) \/ FeedInterrupted(c)
      PROVE  Refusing'
  <2>1. UNCHANGED <<userspace_ready, dpc>>
    BY <1>3 DEF CallFeed, CallOther, FeedCallerStep, FeedInterrupted, ChannelStep, FeedPut,
       FeedReturn, Call, PostCheck, WaitArm, WaitWake, WaitGet, PostPut, WaitInterrupted, Return,
       flags, daemonVars
  <2>2. CASE ~Refuses
    BY <2>1, <2>2 DEF Refusing, Refuses
  <2>3. CASE Refuses
    <3>1. ~WaitWake(c)
      BY <2>3 DEF WaitWake, Refusing
    <3>2. QED
      BY <1>3, <2>3, <3>1, CallerRefusing, PutRefusing, InterruptedRefusing, ReturnRefusing
      DEF FeedCallerStep, ChannelStep
  <2>4. QED
    BY <2>2, <2>3
<1>4. CASE DaemonServes \/ FeedExit
  <2>1. dpc \notin {"down", "exiting", "reset"} /\ dpc' # "reset" /\ UNCHANGED userspace_ready
    BY <1>4 DEF DaemonServes, FeedProcess, FeedExit, ControlRead, Process, WriteIgnored,
                WriteCheck, WritePut, DaemonExit, flags
  <2>2. userspace_ready'
    BY <2>1 DEF ChannelInv, ReadyIsServing
  <2>3. QED
    BY <2>1, <2>2 DEF Refusing, Refuses
<1>5. ASSUME UNCHANGED allVars \/ ((\E file \in files : ControlRelease(file)) /\ UNCHANGED feedVars)
      PROVE  Refusing'
  <2>1. /\ Refuses' => Refuses
        /\ UNCHANGED <<control_fifo_kernel, pc, ret, want, active, astray>>
    BY <1>5 DEF Refuses, ControlRelease, allVars, vars, callerVars, daemonVars, flags, fifos, feedVars
  <2>2. QED
    BY <2>1 DEF Refusing, Stopping, StopOf, GotStart
<1>6. QED
  BY <1>1, <1>2, <1>3, <1>4, <1>5 DEF FeedNext

-----------------------------------------------------------------------------
(* Agreement.                                                              *)

AgreeInv ==
  /\ ChannelInv /\ FeedVarsOK /\ PostBound /\ WholeBytes /\ Locked /\ NothingServed
  /\ WillAgree /\ Refusing

LEMMA InitAgreeInv == FeedInit => AgreeInv
<1> SUFFICES ASSUME FeedInit PROVE AgreeInv
  OBVIOUS
<1>1. ChannelInv
  BY ChannelHolds
<1>2. FeedVarsOK
  BY DEF FeedInit, FeedVarsOK, Requests
<1>3. Posters = {} /\ OnTheWay = {}
  BY DEF FeedInit, Init, Posters, OnTheWay, Bytes
<1>4. PostBound
  <2>1. posted = 0 /\ IsFiniteSet(Posters) /\ Cardinality(Posters) = 0
    BY <1>3, FS_EmptySet DEF FeedInit, Init
  <2>2. 0 + 0 <= MaxPosts
    BY BoundsAssumption
  <2>3. QED
    BY <2>1, <2>2 DEF PostBound
<1>5. WholeBytes
  BY <1>3 DEF FeedInit, Init, WholeBytes
<1>6. Locked /\ NothingServed
  BY DEF FeedInit, Init, Locked, NothingServed, Other
<1>7. \A c \in Callers, f \in Feeds : ~StartOf(c, f) /\ ~StopOf(c, f) /\ ~GotStart(c, f)
  BY DEF FeedInit, Init, StartOf, StopOf, GotStart
<1>8. WillAgree
  BY <1>3, <1>7 DEF FeedInit, WillAgree, EndsAs, About, Meant, Starting
<1>9. Refusing
  BY <1>7 DEF FeedInit, Init, Refusing
<1>10. QED
  BY <1>1, <1>2, <1>4, <1>5, <1>6, <1>8, <1>9 DEF AgreeInv

\* The kernel and the daemon agree on every feed at rest that no fault let them
\* lose track of, whoever was given whose answer (start_feed, stop_feed,
\* ProcessMessages).
THEOREM FeedsDoAgree == FeedSpec => []FeedsAgree
<1>1. AgreeInv /\ [FeedNext]_allVars => AgreeInv'
  BY FeedStepIsChannelStep, ChannelHolds, NextFeedVarsOK, NextPostBound, NextWholeBytes,
     NextLocked, NextNothingServed, NextWillAgree, NextRefusing DEF AgreeInv, ChannelInv
<1>2. AgreeInv => FeedsAgree
  <2> SUFFICES ASSUME AgreeInv, NEW f \in Feeds \ astray, ~UnderWay(f)
               PROVE  f \in served <=> f \in active
    BY DEF FeedsAgree
  <2>1. About(f) = {}
    BY DEF UnderWay, About, OnTheWay, FeedsOf, Bytes
  <2>2. Meant(f) <=> f \in active
    BY DEF UnderWay, Meant, Starting, Stopping, StartOf, StopOf
  <2>3. EndsAs(f, Meant(f))
    BY DEF AgreeInv, WillAgree
  <2>4. QED
    BY <2>1, <2>2, <2>3 DEF EndsAs
<1>3. QED
  BY <1>1, <1>2, InitAgreeInv, PTL DEF FeedSpec
-----------------------------------------------------------------------------
(* Calls that do not overlap.                                              *)

LEMMA NoBytes ==
  ASSUME NEW s \in Seq(Nat)
  PROVE  /\ Bytes(s) = {} <=> s = <<>>
         /\ s # <<>> => s[1] \in Bytes(s) /\ 1 \in DOMAIN s
<1>1. DOMAIN s = 1..Len(s) /\ Len(s) \in Nat
  BY LenProperties
<1>2. s = <<>> => Bytes(s) = {}
  BY DEF Bytes
<1>3. s # <<>> => s[1] \in Bytes(s) /\ 1 \in DOMAIN s
  <2>1. s # <<>> => Len(s) # 0
    BY EmptySeq
  <2>2. s # <<>> => 1 \in DOMAIN s
    BY <1>1, <2>1
  <2>3. QED
    BY <2>2 DEF Bytes
<1>4. QED
  BY <1>2, <1>3

\* Steps of the daemon move or drop what is outstanding.
LEMMA DaemonAlone ==
  ASSUME OneCaller, OwnAnswerAlone, UNCHANGED <<pc, request, got, ret, posted, crossed>>,
         Outstanding' \subseteq Outstanding,
         control_fifo_user = <<>> /\ dbuf = <<>> => control_fifo_user' = <<>> /\ dbuf' = <<>>
  PROVE  OneCaller' /\ OwnAnswerAlone'
<1>1. OwnAnswerAlone'
  BY DEF OwnAnswerAlone, OwnAnswer, Message
<1>2. OneCaller'
  BY DEF OneCaller
<1>3. QED
  BY <1>1, <1>2

\* With every caller idle or not past the put nothing is outstanding.
LEMMA NothingOutstanding ==
  ASSUME OneCaller, ~crossed, NEW c \in Callers, pc[c] \in {"check", "put", "returned"}
  PROVE  Outstanding = {} /\ \A d \in Callers \ {c} : pc[d] = "idle"
<1>1. \A d \in Callers \ {c} : pc[d] = "idle"
  BY DEF OneCaller
<1>2. QED
  BY <1>1 DEF OneCaller

\* A call that does not overlap another one finds the channel empty.
LEMMA CallAlone ==
  ASSUME TypeOK, OneCaller, OwnAnswerAlone, NEW c \in Callers, CallFeed(c) \/ CallOther(c)
  PROVE  OneCaller' /\ OwnAnswerAlone'
<1>1. CASE crossed'
  BY <1>1 DEF OneCaller, OwnAnswerAlone
<1>2. CASE ~crossed'
  <2>1. ~crossed /\ \A d \in Callers \ {c} : pc[d] = "idle"
    BY <1>2 DEF CallFeed, CallOther, Overlaps
  <2>2. pc[c] = "idle" /\ pc' = [pc EXCEPT ![c] = "check"]
    BY DEF CallFeed, CallOther, Call
  <2>3. Outstanding = {}
    BY <2>1, <2>2 DEF OneCaller
  <2>4. Outstanding' = {}
    BY <2>3 DEF CallFeed, CallOther, Call, daemonVars, fifos, Outstanding
  <2>5. pc'[c] = "check" /\ \A d \in Callers \ {c} : pc'[d] = "idle"
    BY <2>1, <2>2 DEF TypeOK
  <2>6. QED
    BY <2>4, <2>5 DEF OneCaller, OwnAnswerAlone, OwnAnswer
<1>3. QED
  BY <1>1, <1>2

\* The message of a caller that is alone is all there is.
LEMMA PutAlone ==
  ASSUME ChannelInv, OneCaller, ~crossed, NEW c \in Callers, FeedPut(c)
  PROVE  OneCaller' /\ OwnAnswerAlone'
<1>1. pc[c] = "put" /\ UNCHANGED <<dbuf, control_fifo_kernel, crossed>> /\ PostPut(c)
  BY DEF FeedPut, PostPut, daemonVars
<1>2. Outstanding = {} /\ \A d \in Callers \ {c} : pc[d] = "idle"
  BY <1>1, NothingOutstanding
<1>3. /\ control_fifo_user = <<>> /\ Bytes(control_fifo_user) = {}
      /\ Bytes(dbuf) = {} /\ Bytes(control_fifo_kernel) = {}
  BY <1>2, NoBytes DEF Outstanding, ChannelInv, TypeOK
<1>4. /\ pc' = [pc EXCEPT ![c] = "arm"]
      /\ Bytes(control_fifo_user') = Bytes(control_fifo_user) \cup {posted + 1}
  BY <1>1, <1>3, PutWay
<1>5. Outstanding' = {posted + 1}
  <2>1. Bytes(dbuf)' = {} /\ Bytes(control_fifo_kernel)' = {}
    BY <1>1, <1>3 DEF Bytes
  <2>2. Bytes(control_fifo_user)' = {posted + 1}
    <3>1. Bytes(control_fifo_user)' = Bytes(control_fifo_user')
      BY DEF Bytes
    <3> QED BY <1>3, <1>4, <3>1
  <2>3. QED
    BY <2>1, <2>2 DEF Outstanding
<1>6. request'[c] = posted /\ posted' = posted + 1
  BY <1>1, WholeMessages DEF PostPut, ChannelInv, TypeOK
<1>7. pc'[c] = "arm" /\ \A d \in Callers \ {c} : pc'[d] = "idle"
  BY <1>2, <1>4 DEF ChannelInv, TypeOK
<1>8. QED
  BY <1>5, <1>6, <1>7 DEF OneCaller, OwnAnswerAlone, OwnAnswer

\* A caller that wakes up does so for its own answer: nothing else is there.
LEMMA WakeAlone ==
  ASSUME ChannelInv, OneCaller, ~crossed, control_fifo_kernel # <<>>
  PROVE  /\ control_fifo_user = <<>> /\ dbuf = <<>>
         /\ Len(control_fifo_kernel) = 1 /\ control_fifo_kernel[1] = posted
<1> DEFINE s == control_fifo_kernel
<1>1. s \in Seq(Nat) /\ dbuf \in Seq(Nat) /\ control_fifo_user \in Seq(Nat) /\ posted \in Nat
  BY DEF ChannelInv, TypeOK
<1>2. s[1] \in Bytes(s) /\ 1 \in DOMAIN s
  BY <1>1, NoBytes
<1>3. \A k \in Outstanding : k = posted
  BY DEF OneCaller
<1>4. s[1] = posted /\ posted # Junk
  <2>1. s[1] = posted /\ \E c \in Callers : request[c] + 1 = posted
    BY <1>2 DEF OneCaller, Outstanding
  <2>2. PICK c \in Callers : request[c] \in Nat /\ request[c] + 1 = posted
    BY <2>1 DEF ChannelInv, TypeOK
  <2>3. posted # 0
    BY <2>2
  <2>4. QED
    BY <2>1, <2>3 DEF Junk
<1>5. ~(posted < posted)
  BY <1>1
<1>6. ASSUME NEW t \in Seq(Nat), Before(s, t), Bytes(t) \subseteq Outstanding PROVE t = <<>>
  <2>1. SUFFICES ASSUME t # <<>> PROVE FALSE
    OBVIOUS
  <2>2. 1 \in DOMAIN t /\ t[1] = posted
    BY <1>3, <1>6, <2>1, NoBytes
  <2>3. QED
    BY <1>2, <1>4, <1>5, <1>6, <2>2 DEF Before
<1>7. control_fifo_user = <<>> /\ dbuf = <<>>
  BY <1>1, <1>6 DEF ChannelInv, InOrder, Outstanding
<1>8. DOMAIN s = 1..Len(s) /\ Len(s) \in Nat
  BY <1>1, LenProperties
<1>9. Len(s) # 0
  BY <1>1, EmptySeq
<1>10. ~(Len(s) >= 2)
  <2>1. SUFFICES ASSUME Len(s) >= 2 PROVE FALSE
    OBVIOUS
  <2>2. 2 \in DOMAIN s /\ 1 < 2
    BY <1>8, <2>1
  <2>3. s[2] = posted
    BY <1>3, <2>2 DEF Outstanding, Bytes
  <2>4. QED
    BY <1>2, <1>4, <1>5, <2>2, <2>3 DEF ChannelInv, InOrder, Ascending
<1>11. Len(s) = 1
  BY <1>8, <1>9, <1>10
<1>12. QED
  BY <1>4, <1>7, <1>11
\* What a caller that is alone gets is its own message, or nothing.
LEMMA GetAlone ==
  ASSUME ChannelInv, OneCaller, ~crossed, NEW c \in Callers, WaitGet(c), UNCHANGED crossed
  PROVE  OneCaller' /\ OwnAnswerAlone'
<1> DEFINE s == control_fifo_kernel
           a == KfifoGet(s, 1)
           l == KfifoLeft(s, 1)
<1>1. pc[c] = "get" /\ pc' = [pc EXCEPT ![c] = "returned"] /\ UNCHANGED <<request, dbuf, control_fifo_user>>
  BY DEF WaitGet, daemonVars
<1>2. control_fifo_user = <<>> /\ dbuf = <<>> /\ \A d \in Callers \ {c} : pc[d] = "idle"
  BY <1>1 DEF OneCaller
<1>3. got'[c] = a /\ ret'[c] = Len(a) /\ control_fifo_kernel' = l
  BY WholeMessages DEF WaitGet, ChannelInv, TypeOK
<1>4. s \in Seq(Nat) /\ 1 \in Nat /\ posted \in Nat /\ request[c] \in Nat
  BY DEF ChannelInv, TypeOK
<1>5. /\ a \in Seq(Nat) /\ Len(a) = Least(1, Len(s))
      /\ \A i \in 1..Least(1, Len(s)) : a[i] = s[i]
      /\ l \in Seq(Nat) /\ Len(l) = Len(s) - Least(1, Len(s))
  BY <1>4, GetElements, LeftElements
<1>6. Len(s) \in Nat
  BY <1>4, LenProperties
<1> HIDE DEF a, l
<1> DEFINE Own == l = <<>> /\ (Len(a) = 0 \/ a = Message(request[c]))
<1>7. ASSUME s = <<>> PROVE Own
  <2>1. Len(s) = 0
    BY <1>7, EmptySeq
  <2>2. Least(1, 0) = 0
    BY DEF Least
  <2>3. Len(a) = 0 /\ Len(l) = 0
    BY <1>5, <2>1, <2>2
  <2>4. QED
    BY <1>5, <2>3, EmptySeq
<1>8. ASSUME s # <<>> PROVE Own
  <2>1. Len(s) = 1 /\ s[1] = posted
    BY <1>8, WakeAlone
  <2>2. Least(1, 1) = 1
    BY DEF Least
  <2>3. Len(a) = 1 /\ a[1] = posted /\ Len(l) = 0
    <3>1. 1 \in 1..1
      OBVIOUS
    <3>2. QED
      BY <1>5, <2>1, <2>2, <3>1
  <2>4. request[c] + 1 = posted
    <3>1. s[1] \in Outstanding
      BY <1>4, <1>8, NoBytes DEF Outstanding
    <3>2. QED
      BY <1>2, <3>1 DEF OneCaller
  <2>5. /\ Message(request[c]) \in Seq(Nat) /\ Len(Message(request[c])) = 1
        /\ Message(request[c])[1] = request[c] + 1
    <3>1. 1 \in 1..1
      OBVIOUS
    <3>2. QED
      BY <1>4, <3>1, MessageElements, WholeMessages
  <2>6. a = Message(request[c])
    BY <1>5, <2>3, <2>4, <2>5, SeqEqual
  <2>7. QED
    BY <1>5, <2>3, <2>6, EmptySeq
<1>9. Own
  BY <1>7, <1>8
<1>10. Outstanding' = {}
  BY <1>1, <1>2, <1>3, <1>9 DEF Outstanding, Bytes
<1>11. ~(ret'[c] > 0) \/ got'[c] = Message(request[c])
  <2>1. ~(0 > 0)
    OBVIOUS
  <2>2. QED
    BY <1>3, <1>9, <2>1
<1>12. pc'[c] = "returned" /\ \A d \in Callers \ {c} : pc'[d] = "idle"
  BY <1>1, <1>2 DEF ChannelInv, TypeOK
<1>13. QED
  BY <1>1, <1>10, <1>11, <1>12 DEF OneCaller, OwnAnswerAlone, OwnAnswer
\* The steps of a caller.
LEMMA CallerStepAlone ==
  ASSUME ChannelInv, OneCaller, OwnAnswerAlone, NEW c \in Callers,
         FeedCallerStep(c) \/ FeedInterrupted(c)
  PROVE  OneCaller' /\ OwnAnswerAlone'
<1>1. CASE FeedInterrupted(c)
  BY <1>1 DEF FeedInterrupted, OneCaller, OwnAnswerAlone
<1>2. CASE FeedCallerStep(c)
  <2>1. UNCHANGED crossed
    BY <1>2 DEF FeedCallerStep, FeedPut, FeedReturn, feedVars
  <2>2. CASE crossed
    BY <2>1, <2>2 DEF OneCaller, OwnAnswerAlone
  <2>3. CASE ~crossed /\ (PostCheck(c) \/ FeedReturn(c))
    <3>1. pc[c] \in {"check", "returned"} /\ UNCHANGED <<dbuf, control_fifo_user, control_fifo_kernel>>
      BY <2>3 DEF PostCheck, FeedReturn, Return, daemonVars, fifos
    <3>2. Outstanding = {} /\ \A d \in Callers \ {c} : pc[d] = "idle"
      BY <2>3, <3>1, NothingOutstanding
    <3>3. Outstanding' = {}
      BY <3>1, <3>2 DEF Outstanding
    <3>4. \A d \in Callers \ {c} : pc'[d] = "idle"
      BY <2>3, <3>2 DEF PostCheck, FeedReturn, Return, ChannelInv, TypeOK
    <3>5. pc'[c] \in {"put", "idle"} \/ (pc'[c] = "returned" /\ ret'[c] = -1)
      BY <2>3 DEF PostCheck, FeedReturn, Return, ChannelInv, TypeOK, NoBuffer
    <3>6. ~(-1 > 0)
      OBVIOUS
    <3>7. QED
      BY <2>1, <2>3, <3>3, <3>4, <3>5, <3>6 DEF OneCaller, OwnAnswerAlone, OwnAnswer
  <2>4. CASE ~crossed /\ (WaitArm(c) \/ WaitWake(c))
    <3>1. /\ pc[c] \in {"arm", "wait"}
          /\ UNCHANGED <<dbuf, control_fifo_user, control_fifo_kernel, request, posted, got, ret>>
      BY <2>4 DEF WaitArm, WaitWake, daemonVars, fifos, history
    <3>2. /\ pc'[c] \in {"wait", "get"}
          /\ \A d \in Callers \ {c} : pc'[d] = pc[d] /\ pc'[d] = "idle"
      BY <2>4, <3>1 DEF WaitArm, WaitWake, OneCaller, ChannelInv, TypeOK
    <3>3. pc'[c] = "get" => control_fifo_user = <<>> /\ dbuf = <<>>
      BY <2>4, WakeAlone DEF WaitArm, WaitWake, ChannelInv, TypeOK
    <3>4. Outstanding' = Outstanding
      BY <3>1 DEF Outstanding
    <3>5. OneCaller'
      BY <2>1, <2>4, <3>1, <3>2, <3>3, <3>4 DEF OneCaller
    <3>6. OwnAnswerAlone'
      BY <3>2 DEF OwnAnswerAlone, OwnAnswer
    <3>7. QED
      BY <3>5, <3>6
  <2>5. QED
    BY <1>2, <2>1, <2>2, <2>3, <2>4, PutAlone, GetAlone DEF FeedCallerStep, ChannelStep
<1>3. QED
  BY <1>1, <1>2

\* A put and what it leaves hold no other bytes than the fifo and the buffer.
LEMMA PutBytes ==
  ASSUME NEW s \in Seq(Nat), NEW size \in Nat, NEW b \in Seq(Nat), Len(s) <= size
  PROVE  /\ Bytes(KfifoPut(s, size, b)) \subseteq Bytes(s) \cup Bytes(b)
         /\ Bytes(KfifoUnput(s, size, b)) \subseteq Bytes(b)
<1> DEFINE p == KfifoPut(s, size, b)
           u == KfifoUnput(s, size, b)
           r == KfifoRoom(s, size, b)
<1>1. /\ r \in 0..Len(b) /\ p \in Seq(Nat) /\ Len(p) = Len(s) + r
      /\ \A i \in 1..Len(s) + r : p[i] = IF i <= Len(s) THEN s[i] ELSE b[i - Len(s)]
  BY PutElements
<1>2. /\ u \in Seq(Nat) /\ Len(u) = Len(b) - r
      /\ \A i \in 1..Len(b) - r : u[i] = b[r + i]
  BY UnputElements
<1>3. Len(s) \in Nat /\ Len(b) \in Nat /\ DOMAIN s = 1..Len(s) /\ DOMAIN b = 1..Len(b)
  BY LenProperties
<1> HIDE DEF p, u, r
<1>4. DOMAIN p = 1..Len(s) + r /\ DOMAIN u = 1..Len(b) - r
  BY <1>1, <1>2, LenProperties
<1>5. Bytes(p) \subseteq Bytes(s) \cup Bytes(b)
  <2> SUFFICES ASSUME NEW i \in DOMAIN p PROVE p[i] \in Bytes(s) \cup Bytes(b)
    BY DEF Bytes
  <2>1. CASE i <= Len(s)
    <3>1. i \in DOMAIN s /\ p[i] = s[i]
      BY <1>1, <1>3, <1>4, <2>1
    <3>2. QED
      BY <3>1 DEF Bytes
  <2>2. CASE ~(i <= Len(s))
    <3>1. i \in 1..Len(s) + r /\ r \in 0..Len(b) /\ Len(s) \in Nat /\ Len(b) \in Nat
      BY <1>1, <1>3, <1>4
    <3>2. i - Len(s) \in 1..Len(b)
      BY <2>2, <3>1
    <3>3. p[i] = b[i - Len(s)] /\ i - Len(s) \in DOMAIN b
      BY <1>1, <1>3, <2>2, <3>1, <3>2
    <3>4. QED
      BY <3>3 DEF Bytes
  <2>3. QED
    BY <2>1, <2>2
<1>6. Bytes(u) \subseteq Bytes(b)
  <2> SUFFICES ASSUME NEW i \in DOMAIN u PROVE u[i] \in Bytes(b)
    BY DEF Bytes
  <2>1. i \in 1..Len(b) - r /\ r \in 0..Len(b) /\ Len(b) \in Nat
    BY <1>1, <1>3, <1>4
  <2>2. r + i \in 1..Len(b)
    BY <2>1
  <2>3. u[i] = b[r + i] /\ r + i \in DOMAIN b
    BY <1>2, <1>3, <2>1, <2>2
  <2>4. QED
    BY <2>3 DEF Bytes
<1>7. QED
  BY <1>5, <1>6 DEF p, u

\* The put of an answer.
LEMMA WritePutAlone ==
  ASSUME ChannelInv, WritePut
  PROVE  /\ Outstanding' \subseteq Outstanding
         /\ dbuf = <<>> => dbuf' = <<>>
<1>1. /\ control_fifo_kernel \in Seq(Nat) /\ Len(control_fifo_kernel) <= BufSize
      /\ dbuf \in Seq(Nat) /\ BufSize \in Nat
  BY BufSizeAssumption DEF ChannelInv, TypeOK
<1>2. /\ control_fifo_kernel' = KfifoPut(control_fifo_kernel, BufSize, dbuf)
      /\ dbuf' = KfifoUnput(control_fifo_kernel, BufSize, dbuf)
      /\ UNCHANGED control_fifo_user
  BY DEF WritePut
<1>3. /\ Bytes(control_fifo_kernel') \subseteq Bytes(control_fifo_kernel) \cup Bytes(dbuf)
      /\ Bytes(dbuf') \subseteq Bytes(dbuf)
  BY <1>1, <1>2, PutBytes
<1>4. dbuf' \in Seq(Nat)
  BY <1>1, <1>2, UnputElements
<1>5. dbuf = <<>> => dbuf' = <<>>
  BY <1>1, <1>3, <1>4, NoBytes
<1>6. QED
  BY <1>2, <1>3, <1>5 DEF Outstanding

LEMMA NextAlone ==
  ASSUME ChannelInv, OneCaller, OwnAnswerAlone, [FeedNext]_allVars
  PROVE  OneCaller' /\ OwnAnswerAlone'
<1>1. ASSUME NEW c \in Callers,
             CallFeed(c) \/ CallOther(c) \/ FeedCallerStep(c) \/ FeedInterrupted(c)
      PROVE  OneCaller' /\ OwnAnswerAlone'
  BY <1>1, CallAlone, CallerStepAlone DEF ChannelInv
<1> DEFINE Still == UNCHANGED <<pc, request, got, ret, posted, crossed>>
<1>2. CASE ControlRead /\ UNCHANGED feedVars
  <2>1. Still /\ UNCHANGED control_fifo_kernel /\ control_fifo_user # <<>>
    BY <1>2 DEF ControlRead, callerVars, history, feedVars
  <2>2. Bytes(control_fifo_user') \cup Bytes(dbuf') = Bytes(control_fifo_user)
    BY <1>2, ReadWay DEF OnTheWay, ControlRead
  <2>3. Outstanding' \subseteq Outstanding
    BY <2>1, <2>2 DEF Outstanding
  <2>4. QED
    BY <2>1, <2>3, DaemonAlone
<1>3. CASE WritePut /\ UNCHANGED feedVars
  <2>1. Still /\ UNCHANGED control_fifo_user
    BY <1>3 DEF WritePut, callerVars, history, feedVars
  <2>2. QED
    BY <1>3, <2>1, WritePutAlone, DaemonAlone
<1>4. CASE \/ (DaemonStart \/ (\E t \in Tuners : DaemonIoctl(t)) \/ DaemonRun \/ WriteIgnored
                 \/ WriteCheck \/ (\E file \in files : ControlRelease(file))) /\ UNCHANGED feedVars
           \/ FeedProcess \/ FeedExit \/ UNCHANGED allVars
  <2>1. Still
    BY <1>4 DEF DaemonStart, DaemonIoctl, DaemonRun, WriteIgnored, WriteCheck, ControlRelease, FeedProcess,
                Process, FeedExit, DaemonExit, allVars, vars, callerVars, history, feedVars
  <2>2. UNCHANGED <<control_fifo_user, control_fifo_kernel>> /\ (UNCHANGED dbuf \/ dbuf' = <<>>)
    BY <1>4 DEF DaemonStart, DaemonIoctl, DaemonRun, ControlOpen, WriteIgnored, WriteCheck,
                ControlRelease, FeedProcess, Process, FeedExit, DaemonExit, allVars, vars, daemonVars, fifos
  <2>3. Outstanding' \subseteq Outstanding
    BY <2>2 DEF Outstanding, Bytes
  <2>4. QED
    BY <2>1, <2>2, <2>3, DaemonAlone
<1>5. CASE FeedReset
  <2>1. /\ Still /\ control_fifo_user' = <<>> /\ control_fifo_kernel' = <<>> /\ UNCHANGED dbuf
    BY <1>5 DEF FeedReset, ReleaseReset, callerVars, history
  <2>2. Outstanding' \subseteq Outstanding
    BY <2>1 DEF Outstanding, Bytes
  <2>3. QED
    BY <2>1, <2>2, DaemonAlone
<1>6. QED
  BY <1>1, <1>2, <1>3, <1>4, <1>5 DEF FeedNext, DaemonServes

\* As long as calls neither overlap nor are interrupted each is given the answer
\* to its own request, across any number of restarts of the daemon
\* (hdhomerun_control_post_and_wait).
THEOREM AloneGetsOwnAnswer == FeedSpec => []OwnAnswerAlone
<1> DEFINE Inv == ChannelInv /\ OneCaller /\ OwnAnswerAlone
<1>1. FeedInit => Inv
  <2>1. FeedInit => OneCaller /\ OwnAnswerAlone
    BY DEF FeedInit, Init, OneCaller, OwnAnswerAlone, OwnAnswer, Outstanding, Bytes
  <2>2. QED
    BY <2>1, ChannelHolds
<1>2. Inv /\ [FeedNext]_allVars => Inv'
  BY ChannelHolds, NextAlone
<1>3. QED
  BY <1>1, <1>2, PTL DEF FeedSpec

=============================================================================
