------------------------ MODULE ControlChannelProofs ------------------------
(***************************************************************************)
(* Theorems about ControlChannel, for any callers, tuners, message size,   *)
(* buffer size and bounds.                                                 *)
(***************************************************************************)
EXTENDS ControlChannel, SequenceTheorems, TLAPS

-----------------------------------------------------------------------------
(* The operations on fifos, by their elements.                             *)

\* A get returns the head of the fifo.
LEMMA GetElements ==
  ASSUME NEW s \in Seq(Nat), NEW n \in Nat
  PROVE  /\ KfifoGet(s, n) \in Seq(Nat)
         /\ Len(KfifoGet(s, n)) = Least(n, Len(s))
         /\ Least(n, Len(s)) \in Nat
         /\ \A i \in 1..Least(n, Len(s)) : KfifoGet(s, n)[i] = s[i]
<1> DEFINE k == Least(n, Len(s))
<1>1. Len(s) \in Nat /\ k \in Nat /\ k <= Len(s)
  BY LenProperties DEF Least
<1>2. \A i \in 1..k : s[i] \in Nat
  BY <1>1, ElementOfSeq
<1> HIDE DEF k
<1>3. /\ SubSeq(s, 1, k) \in Seq(Nat)
      /\ Len(SubSeq(s, 1, k)) = k
      /\ \A i \in 1..k : SubSeq(s, 1, k)[i] = s[i]
  BY <1>1, <1>2, SubSeqProperties
<1> QED BY <1>1, <1>3 DEF k, KfifoGet

\* The tail of a sequence behind its first k elements.
LEMMA TailElements ==
  ASSUME NEW s \in Seq(Nat), NEW k \in Nat, k <= Len(s)
  PROVE  /\ SubSeq(s, k + 1, Len(s)) \in Seq(Nat)
         /\ Len(SubSeq(s, k + 1, Len(s))) = Len(s) - k
         /\ \A i \in 1..Len(s) - k : SubSeq(s, k + 1, Len(s))[i] = s[k + i]
<1> DEFINE m == k + 1
           n == Len(s)
<1>1. n \in Int /\ 0 <= n /\ m \in Int /\ m - 1 = k /\ k <= n
  BY LenProperties
<1>2. \A i \in m..n : s[i] \in Nat
  BY <1>1, ElementOfSeq
<1> HIDE DEF m, n
<1>3. /\ SubSeq(s, m, n) \in Seq(Nat)
      /\ Len(SubSeq(s, m, n)) = IF m <= n THEN n - m + 1 ELSE 0
      /\ \A i \in 1..n - m + 1 : SubSeq(s, m, n)[i] = s[m + i - 1]
  BY ONLY <1>1, <1>2, SubSeqProperties
<1>4. n - m + 1 = n - k /\ (IF m <= n THEN n - m + 1 ELSE 0) = n - k
  BY <1>1
<1>5. \A i \in 1..n - k : m + i - 1 = k + i
  BY <1>1
<1>6. Len(SubSeq(s, m, n)) = n - k /\ \A i \in 1..n - k : SubSeq(s, m, n)[i] = s[k + i]
  BY <1>3, <1>4, <1>5
<1> QED BY <1>3, <1>6 DEF m, n

\* A get leaves the tail of the fifo.
LEMMA LeftElements ==
  ASSUME NEW s \in Seq(Nat), NEW n \in Nat
  PROVE  /\ KfifoLeft(s, n) \in Seq(Nat)
         /\ Len(KfifoLeft(s, n)) <= Len(s)
         /\ Len(KfifoLeft(s, n)) = Len(s) - Least(n, Len(s))
         /\ \A i \in 1..Len(s) - Least(n, Len(s)) : KfifoLeft(s, n)[i] = s[Least(n, Len(s)) + i]
<1> DEFINE k == Least(n, Len(s))
<1>1. Len(s) \in Nat /\ k \in Nat /\ k <= Len(s)
  BY LenProperties DEF Least
<1> HIDE DEF k
<1>2. /\ SubSeq(s, k + 1, Len(s)) \in Seq(Nat)
      /\ Len(SubSeq(s, k + 1, Len(s))) = Len(s) - k
      /\ \A i \in 1..Len(s) - k : SubSeq(s, k + 1, Len(s))[i] = s[k + i]
  BY <1>1, TailElements
<1>3. Len(SubSeq(s, k + 1, Len(s))) <= Len(s)
  BY <1>1, <1>2
<1> QED BY <1>2, <1>3 DEF k, KfifoLeft

\* A put appends the head of the buffer and stays within the size.
LEMMA PutElements ==
  ASSUME NEW s \in Seq(Nat), NEW size \in Nat, NEW b \in Seq(Nat), Len(s) <= size
  PROVE  /\ KfifoRoom(s, size, b) \in 0..Len(b)
         /\ KfifoPut(s, size, b) \in Seq(Nat)
         /\ Len(KfifoPut(s, size, b)) = Len(s) + KfifoRoom(s, size, b)
         /\ Len(KfifoPut(s, size, b)) <= size
         /\ \A i \in 1..Len(s) + KfifoRoom(s, size, b) :
              KfifoPut(s, size, b)[i] = IF i <= Len(s) THEN s[i] ELSE b[i - Len(s)]
<1> DEFINE r == KfifoRoom(s, size, b)
           p == SubSeq(b, 1, r)
<1>1. /\ Len(s) \in Nat /\ Len(b) \in Nat
      /\ r \in 0..Len(b) /\ Len(s) + r <= size
  BY LenProperties DEF KfifoRoom, Least
<1>2. \A i \in 1..r : b[i] \in Nat
  BY <1>1, ElementOfSeq
<1> HIDE DEF r
<1>3. /\ p \in Seq(Nat)
      /\ Len(p) = r
      /\ \A i \in 1..r : p[i] = b[i]
  BY <1>1, <1>2, SubSeqProperties
<1> HIDE DEF p
<1>4. /\ s \o p \in Seq(Nat)
      /\ Len(s \o p) = Len(s) + r
      /\ \A i \in 1..Len(s) + r : (s \o p)[i] = IF i <= Len(s) THEN s[i] ELSE b[i - Len(s)]
  <2>1. /\ s \o p \in Seq(Nat)
        /\ Len(s \o p) = Len(s) + r
        /\ \A i \in 1..Len(s) + r : (s \o p)[i] = IF i <= Len(s) THEN s[i] ELSE p[i - Len(s)]
    BY <1>3, ConcatProperties
  <2>2. \A i \in 1..Len(s) + r : i <= Len(s) \/ p[i - Len(s)] = b[i - Len(s)]
    BY <1>1, <1>3
  <2> QED BY <2>1, <2>2
<1> QED BY <1>1, <1>4 DEF r, p, KfifoPut

\* What a put did not store is the tail of the buffer.
LEMMA UnputElements ==
  ASSUME NEW s \in Seq(Nat), NEW size \in Nat, NEW b \in Seq(Nat), Len(s) <= size
  PROVE  /\ KfifoUnput(s, size, b) \in Seq(Nat)
         /\ Len(KfifoUnput(s, size, b)) = Len(b) - KfifoRoom(s, size, b)
         /\ \A i \in 1..Len(b) - KfifoRoom(s, size, b) :
              KfifoUnput(s, size, b)[i] = b[KfifoRoom(s, size, b) + i]
<1> DEFINE r == KfifoRoom(s, size, b)
<1>1. Len(b) \in Nat /\ r \in Nat /\ r <= Len(b)
  <2>1. Len(b) \in Nat /\ r \in 0..Len(b)
    BY LenProperties, PutElements
  <2> QED BY <2>1
<1> HIDE DEF r
<1>2. /\ SubSeq(b, r + 1, Len(b)) \in Seq(Nat)
      /\ Len(SubSeq(b, r + 1, Len(b))) = Len(b) - r
      /\ \A i \in 1..Len(b) - r : SubSeq(b, r + 1, Len(b))[i] = b[r + i]
  BY <1>1, TailElements
<1> QED BY <1>2 DEF r, KfifoUnput

\* A message is a sequence of MesgSize bytes.
LEMMA MessageElements ==
  ASSUME NEW base \in Nat
  PROVE  /\ Message(base) \in Seq(Nat)
         /\ Len(Message(base)) = MesgSize
         /\ \A i \in 1..MesgSize : Message(base)[i] = base + i
<1>1. MesgSize \in Nat /\ \A i \in 1..MesgSize : base + i \in Nat
  BY MesgSizeAssumption
<1>2. Message(base) \in Seq(Nat)
  BY <1>1 DEF Message
<1>3. DOMAIN Message(base) = 1..MesgSize
  BY DEF Message
<1> QED BY <1>1, <1>2, <1>3, LenProperties DEF Message

\* So is what the daemon reads, with junk behind the bytes it got.
LEMMA PaddedElements ==
  ASSUME NEW s \in Seq(Nat)
  PROVE  /\ Padded(s) \in Seq(Nat)
         /\ Len(Padded(s)) = MesgSize
         /\ \A i \in 1..MesgSize : Padded(s)[i] = IF i <= Len(s) THEN s[i] ELSE Junk
<1>1. /\ MesgSize \in Nat
      /\ \A i \in 1..MesgSize : (IF i <= Len(s) THEN s[i] ELSE Junk) \in Nat
  BY MesgSizeAssumption, LenProperties, ElementOfSeq DEF Junk
<1>2. Padded(s) \in Seq(Nat)
  BY <1>1 DEF Padded
<1>3. DOMAIN Padded(s) = 1..MesgSize
  BY DEF Padded
<1> QED BY <1>1, <1>2, <1>3, LenProperties DEF Padded

-----------------------------------------------------------------------------
(* Order.  Every operation of the channel moves, drops or appends a        *)
(* stretch of bytes, and a stretch inherits the order of what it was cut   *)
(* from.                                                                   *)

\* The posted bytes of a are those of s from index k + 1 on.
Stretch(a, s, k) ==
  \A i \in DOMAIN a : a[i] # Junk => i + k \in DOMAIN s /\ a[i] = s[i + k]

\* A stretch of a sequence in posting order is in posting order.
LEMMA StretchAscending ==
  ASSUME NEW a \in Seq(Nat), NEW s \in Seq(Nat), NEW k \in Nat,
         Stretch(a, s, k), Ascending(s)
  PROVE  Ascending(a)
<1>1. \A i \in DOMAIN a : i \in Nat
  BY LenProperties
<1> QED BY <1>1 DEF Stretch, Ascending

\* A stretch lies before and after whatever the sequence lies before and after.
LEMMA StretchBefore ==
  ASSUME NEW a \in Seq(Nat), NEW s \in Seq(Nat), NEW k \in Nat, NEW t \in Seq(Nat),
         Stretch(a, s, k)
  PROVE  /\ Before(s, t) => Before(a, t)
         /\ Before(t, s) => Before(t, a)
BY DEF Stretch, Before

\* The bytes of a stretch are within the limits of the sequence.
LEMMA StretchWithin ==
  ASSUME NEW a \in Seq(Nat), NEW s \in Seq(Nat), NEW k \in Nat,
         NEW lo \in Nat, NEW hi \in Nat, Stretch(a, s, k), Within(s, lo, hi)
  PROVE  Within(a, lo, hi)
BY DEF Stretch, Within

\* The empty sequence is in any order.
LEMMA EmptyOrder ==
  ASSUME NEW t, NEW lo, NEW hi
  PROVE  Ascending(<<>>) /\ Before(<<>>, t) /\ Before(t, <<>>) /\ Within(<<>>, lo, hi)
BY DEF Ascending, Before, Within

\* What a get returns and what it leaves are stretches, the one before the other.
LEMMA GetOrder ==
  ASSUME NEW s \in Seq(Nat), NEW n \in Nat
  PROVE  /\ Stretch(KfifoGet(s, n), s, 0)
         /\ Stretch(KfifoLeft(s, n), s, Least(n, Len(s)))
         /\ Ascending(s) => Before(KfifoGet(s, n), KfifoLeft(s, n))
<1> DEFINE k == Least(n, Len(s))
           g == KfifoGet(s, n)
           l == KfifoLeft(s, n)
<1>1. Len(s) \in Nat /\ k \in Nat /\ k <= Len(s) /\ DOMAIN s = 1..Len(s)
  BY LenProperties DEF Least
<1>2. DOMAIN g = 1..k /\ \A i \in 1..k : g[i] = s[i]
  BY GetElements, LenProperties
<1>3. DOMAIN l = 1..Len(s) - k /\ \A i \in 1..Len(s) - k : l[i] = s[k + i]
  BY LeftElements, LenProperties
<1> HIDE DEF k, g, l
<1>4. Stretch(g, s, 0)
  BY <1>1, <1>2 DEF Stretch
<1>5. Stretch(l, s, k)
  BY <1>1, <1>3 DEF Stretch
<1>6. ASSUME Ascending(s) PROVE Before(g, l)
  <2>1. \A i \in 1..k, j \in 1..Len(s) - k : i < k + j /\ i \in 1..Len(s) /\ k + j \in 1..Len(s)
    BY <1>1
  <2> QED BY <1>1, <1>2, <1>3, <1>6, <2>1 DEF Before, Ascending
<1> QED BY <1>4, <1>5, <1>6 DEF k, g, l

\* So are what the daemon reads and what it leaves.
LEMMA ReadOrder ==
  ASSUME NEW s \in Seq(Nat), NEW n \in Nat
  PROVE  /\ Stretch(Padded(KfifoGet(s, n)), s, 0)
         /\ Ascending(s) => Before(Padded(KfifoGet(s, n)), KfifoLeft(s, n))
<1> DEFINE g == KfifoGet(s, n)
           p == Padded(g)
           l == KfifoLeft(s, n)
<1>1. g \in Seq(Nat) /\ Stretch(g, s, 0) /\ (Ascending(s) => Before(g, l))
  BY GetElements, GetOrder
<1>2. \A i \in DOMAIN p : p[i] # Junk => i \in DOMAIN g /\ i \in Nat /\ p[i] = g[i]
  <2> HIDE DEF g
  <2>1. p \in Seq(Nat) /\ DOMAIN p = 1..MesgSize /\ MesgSize \in Nat
    BY <1>1, PaddedElements, LenProperties, MesgSizeAssumption
  <2>2. DOMAIN g = 1..Len(g) /\ Len(g) \in Nat
    BY <1>1, LenProperties
  <2>3. \A i \in 1..MesgSize : p[i] = IF i <= Len(g) THEN g[i] ELSE Junk
    BY <1>1, PaddedElements
  <2> HIDE DEF p
  <2> QED BY <2>1, <2>2, <2>3
<1> HIDE DEF g, p, l
<1>3. Stretch(p, s, 0)
  BY <1>1, <1>2 DEF Stretch
<1>4. Ascending(s) => Before(p, l)
  BY <1>1, <1>2 DEF Before
<1> QED BY <1>3, <1>4 DEF g, p, l

\* A put of newer bytes keeps the order.
LEMMA PutOrder ==
  ASSUME NEW s \in Seq(Nat), NEW b \in Seq(Nat), NEW size \in Nat, Len(s) <= size,
         Ascending(s), Ascending(b), Before(s, b)
  PROVE  /\ Ascending(KfifoPut(s, size, b))
         /\ Before(KfifoPut(s, size, b), KfifoUnput(s, size, b))
<1> DEFINE r == KfifoRoom(s, size, b)
           p == KfifoPut(s, size, b)
           u == KfifoUnput(s, size, b)
<1>1. /\ Len(s) \in Nat /\ DOMAIN s = 1..Len(s)
      /\ Len(b) \in Nat /\ DOMAIN b = 1..Len(b)
      /\ r \in Nat /\ r <= Len(b)
  <2>1. r \in 0..Len(b)
    BY PutElements
  <2> QED BY <2>1, LenProperties
<1>2. /\ DOMAIN p = 1..Len(s) + r
      /\ \A i \in 1..Len(s) + r : p[i] = IF i <= Len(s) THEN s[i] ELSE b[i - Len(s)]
  BY PutElements, LenProperties
<1>3. DOMAIN u = 1..Len(b) - r /\ \A i \in 1..Len(b) - r : u[i] = b[r + i]
  BY UnputElements, LenProperties
<1> HIDE DEF r, p, u
<1>4. \A i \in DOMAIN p : \/ i \in DOMAIN s /\ p[i] = s[i]
                          \/ i > Len(s) /\ i - Len(s) \in 1..r /\ p[i] = b[i - Len(s)]
  <2> SUFFICES ASSUME NEW i \in 1..Len(s) + r
               PROVE  \/ i \in DOMAIN s /\ p[i] = s[i]
                      \/ i > Len(s) /\ i - Len(s) \in 1..r /\ p[i] = b[i - Len(s)]
    BY <1>2
  <2>1. CASE i <= Len(s)
    BY <1>1, <1>2, <2>1
  <2>2. CASE i > Len(s)
    BY <1>1, <1>2, <2>2
  <2> QED BY <1>1, <2>1, <2>2
<1>5. Ascending(p)
  <2> SUFFICES ASSUME NEW i \in DOMAIN p, NEW j \in DOMAIN p, i < j, p[i] # Junk, p[j] # Junk
               PROVE  p[i] < p[j]
    BY DEF Ascending
  <2>1. i \in Nat /\ j \in Nat
    BY <1>1, <1>2
  <2>2. CASE i \in DOMAIN s /\ j \in DOMAIN s
    <3>1. p[i] = s[i] /\ p[j] = s[j]
      BY <1>1, <1>4, <2>1, <2>2
    <3> QED BY <2>2, <3>1 DEF Ascending
  <2>3. CASE i \in DOMAIN s /\ j \notin DOMAIN s
    <3>1. p[i] = s[i] /\ j - Len(s) \in DOMAIN b /\ p[j] = b[j - Len(s)]
      BY <1>1, <1>4, <2>1, <2>3
    <3> QED BY <3>1, <2>3 DEF Before
  <2>4. CASE i \notin DOMAIN s
    <3>1. /\ i - Len(s) \in DOMAIN b /\ p[i] = b[i - Len(s)]
          /\ j - Len(s) \in DOMAIN b /\ p[j] = b[j - Len(s)]
          /\ i - Len(s) < j - Len(s)
      BY <1>1, <1>4, <2>1, <2>4
    <3> QED BY <3>1 DEF Ascending
  <2> QED BY <2>2, <2>3, <2>4
<1>6. Before(p, u)
  <2> SUFFICES ASSUME NEW i \in DOMAIN p, NEW j \in DOMAIN u, p[i] # Junk, u[j] # Junk
               PROVE  p[i] < u[j]
    BY DEF Before
  <2>1. r + j \in DOMAIN b /\ u[j] = b[r + j]
    BY <1>1, <1>3
  <2>2. CASE i \in DOMAIN s /\ p[i] = s[i]
    BY <2>1, <2>2 DEF Before
  <2>3. CASE i - Len(s) \in 1..r /\ p[i] = b[i - Len(s)]
    <3>1. i - Len(s) \in DOMAIN b /\ i - Len(s) < r + j
      BY <1>1, <1>2, <1>3, <2>3
    <3> QED BY <2>1, <2>3, <3>1 DEF Ascending
  <2> QED BY <1>4, <2>2, <2>3
<1> QED BY <1>5, <1>6 DEF p, u

\* What lies before or after both parts lies before or after the put.
LEMMA PutBefore ==
  ASSUME NEW s \in Seq(Nat), NEW b \in Seq(Nat), NEW size \in Nat, Len(s) <= size,
         NEW t \in Seq(Nat), NEW lo \in Nat, NEW hi \in Nat
  PROVE  /\ Before(s, t) /\ Before(b, t) => Before(KfifoPut(s, size, b), t)
         /\ Before(t, s) /\ Before(t, b) => Before(t, KfifoPut(s, size, b))
         /\ Within(s, lo, hi) /\ Within(b, lo, hi) => Within(KfifoPut(s, size, b), lo, hi)
         /\ Stretch(KfifoUnput(s, size, b), b, KfifoRoom(s, size, b))
<1> DEFINE r == KfifoRoom(s, size, b)
           p == KfifoPut(s, size, b)
           u == KfifoUnput(s, size, b)
<1>1. /\ Len(s) \in Nat /\ DOMAIN s = 1..Len(s)
      /\ Len(b) \in Nat /\ DOMAIN b = 1..Len(b)
      /\ r \in Nat /\ r <= Len(b)
  <2>1. r \in 0..Len(b)
    BY PutElements
  <2> QED BY <2>1, LenProperties
<1>2. /\ DOMAIN p = 1..Len(s) + r
      /\ \A i \in 1..Len(s) + r : p[i] = IF i <= Len(s) THEN s[i] ELSE b[i - Len(s)]
  BY PutElements, LenProperties
<1>3. DOMAIN u = 1..Len(b) - r /\ \A i \in 1..Len(b) - r : u[i] = b[r + i]
  BY UnputElements, LenProperties
<1> HIDE DEF r, p, u
<1>4. \A i \in DOMAIN p : \/ i \in DOMAIN s /\ p[i] = s[i]
                          \/ i - Len(s) \in DOMAIN b /\ p[i] = b[i - Len(s)]
  <2> SUFFICES ASSUME NEW i \in 1..Len(s) + r
               PROVE  \/ i \in DOMAIN s /\ p[i] = s[i]
                      \/ i - Len(s) \in DOMAIN b /\ p[i] = b[i - Len(s)]
    BY <1>2
  <2>1. CASE i <= Len(s)
    BY <1>1, <1>2, <2>1
  <2>2. CASE i > Len(s)
    BY <1>1, <1>2, <2>2
  <2> QED BY <1>1, <2>1, <2>2
<1>5. Before(s, t) /\ Before(b, t) => Before(p, t)
  BY <1>4 DEF Before
<1>6. Before(t, s) /\ Before(t, b) => Before(t, p)
  BY <1>4 DEF Before
<1>7. Within(s, lo, hi) /\ Within(b, lo, hi) => Within(p, lo, hi)
  BY <1>4 DEF Within
<1>8. Stretch(u, b, r)
  <2> SUFFICES ASSUME NEW i \in 1..Len(b) - r
               PROVE  i + r \in DOMAIN b /\ u[i] = b[i + r]
    BY <1>3 DEF Stretch
  <2>1. i + r = r + i /\ i + r \in 1..Len(b)
    BY <1>1
  <2> QED BY <1>1, <1>3, <2>1
<1> QED BY <1>5, <1>6, <1>7, <1>8 DEF r, p, u

-----------------------------------------------------------------------------
(* Type correctness.                                                       *)

\* The initial state has the types.
LEMMA InitTypeOK == Init => TypeOK
<1> SUFFICES ASSUME Init PROVE TypeOK
  OBVIOUS
<1>1. <<>> \in Seq(Nat) /\ Len(<<>>) = 0
  BY EmptySeq
<1>2. BufSize \in Nat
  BY BufSizeAssumption
<1>3. /\ pc \in [Callers -> CallerPlaces] /\ request \in [Callers -> Nat]
      /\ got \in [Callers -> Seq(Nat)] /\ ret \in [Callers -> Int]
  BY <1>1 DEF Init, CallerPlaces
<1>4. dpc \in DaemonPlaces /\ files \subseteq Files
  BY DEF Init, DaemonPlaces
<1>5. /\ control_fifo_user \in Seq(Nat) /\ Len(control_fifo_user) <= BufSize
      /\ control_fifo_kernel \in Seq(Nat) /\ Len(control_fifo_kernel) <= BufSize
      /\ dbuf \in Seq(Nat)
  BY <1>1, <1>2 DEF Init
<1>6. /\ wait_for_write \in BOOLEAN /\ userspace_ready \in BOOLEAN
      /\ starts \in Nat /\ posted \in Nat /\ taken \in Nat
  BY DEF Init
<1> QED BY <1>3, <1>4, <1>5, <1>6 DEF TypeOK

\* Every step keeps the types, and keeps the fifos within their buffers.
LEMMA NextTypeOK == TypeOK /\ [Next]_vars => TypeOK'
<1> SUFFICES ASSUME TypeOK, [Next]_vars PROVE TypeOK'
  OBVIOUS
<1> USE DEF TypeOK
<1>0. /\ <<>> \in Seq(Nat) /\ Len(<<>>) = 0
      /\ BufSize \in Nat /\ MesgSize \in Nat /\ MesgSize > 0
  BY EmptySeq, BufSizeAssumption, MesgSizeAssumption
<1>1. ASSUME NEW c \in Callers, Call(c) PROVE TypeOK'
  BY <1>1 DEF Call, CallerPlaces, daemonVars, flags, fifos, history
<1>2. ASSUME NEW c \in Callers, PostCheck(c) PROVE TypeOK'
  <2>1. ret' \in [Callers -> Int]
    BY <1>2 DEF PostCheck, NoBuffer
  <2>2. pc' \in [Callers -> CallerPlaces]
    BY <1>2 DEF PostCheck, CallerPlaces
  <2> QED BY <1>2, <2>1, <2>2 DEF PostCheck, daemonVars, flags, fifos, history
<1>3. ASSUME NEW c \in Callers, PostPut(c) PROVE TypeOK'
  <2>1. Message(posted) \in Seq(Nat)
    BY MessageElements
  <2>2. control_fifo_user' \in Seq(Nat) /\ Len(control_fifo_user') <= BufSize
    <3>1. control_fifo_user' = KfifoPut(control_fifo_user, BufSize, Message(posted))
      BY <1>3 DEF PostPut
    <3> QED BY <1>0, <2>1, <3>1, PutElements
  <2>3. request' \in [Callers -> Nat] /\ posted' \in Nat
    BY <1>0, <1>3 DEF PostPut
  <2>4. ret' \in [Callers -> Int]
    BY <1>3 DEF PostPut, NoBuffer
  <2>5. pc' \in [Callers -> CallerPlaces]
    BY <1>3 DEF PostPut, CallerPlaces
  <2> QED BY <1>3, <2>2, <2>3, <2>4, <2>5 DEF PostPut, daemonVars, flags
<1>4. ASSUME NEW c \in Callers, WaitArm(c) PROVE TypeOK'
  BY <1>4 DEF WaitArm, CallerPlaces, daemonVars, fifos, history
<1>5. ASSUME NEW c \in Callers, WaitWake(c) PROVE TypeOK'
  BY <1>5 DEF WaitWake, CallerPlaces, daemonVars, flags, fifos, history
<1>6. ASSUME NEW c \in Callers, WaitInterrupted(c) PROVE TypeOK'
  <2>1. ret' \in [Callers -> Int]
    BY <1>6 DEF WaitInterrupted, ERESTARTSYS
  <2>2. pc' \in [Callers -> CallerPlaces]
    BY <1>6 DEF WaitInterrupted, CallerPlaces
  <2> QED BY <1>6, <2>1, <2>2 DEF WaitInterrupted, daemonVars, fifos, history
<1>7. ASSUME NEW c \in Callers, WaitGet(c) PROVE TypeOK'
  <2> DEFINE answer == KfifoGet(control_fifo_kernel, MesgSize)
  <2>1. /\ answer \in Seq(Nat) /\ Len(answer) \in Nat
        /\ \A i \in DOMAIN answer : answer[i] \in Nat
    BY <1>0, GetElements, LenProperties, ElementOfSeq
  <2>2. /\ control_fifo_kernel' \in Seq(Nat) /\ Len(control_fifo_kernel') <= BufSize
    <3>1. control_fifo_kernel' = KfifoLeft(control_fifo_kernel, MesgSize)
      BY <1>7 DEF WaitGet
    <3>2. Len(control_fifo_kernel') <= Len(control_fifo_kernel) /\ Len(control_fifo_kernel') \in Nat
      BY <1>0, <3>1, LeftElements, LenProperties
    <3>3. Len(control_fifo_kernel) \in Nat /\ control_fifo_kernel' \in Seq(Nat)
      BY <1>0, <3>1, LeftElements, LenProperties
    <3> QED BY <1>0, <3>2, <3>3
  <2> HIDE DEF answer
  <2>3. /\ got' = [got EXCEPT ![c] = answer]
        /\ ret' = [ret EXCEPT ![c] = Len(answer)]
        /\ taken' \in {taken} \cup {answer[i] : i \in DOMAIN answer}
        /\ pc' = [pc EXCEPT ![c] = "returned"]
    BY <1>7 DEF WaitGet, answer
  <2>4. /\ got' \in [Callers -> Seq(Nat)] /\ ret' \in [Callers -> Int]
        /\ taken' \in Nat /\ pc' \in [Callers -> CallerPlaces]
    BY <2>1, <2>3 DEF CallerPlaces
  <2> QED BY <1>7, <2>2, <2>4 DEF WaitGet, daemonVars, flags
<1>8. ASSUME NEW c \in Callers, Return(c) PROVE TypeOK'
  BY <1>0, <1>8 DEF Return, CallerPlaces, daemonVars, flags, fifos, history
<1>9. CASE DaemonStart
  BY <1>9 DEF DaemonStart, ControlOpen, DaemonPlaces, Files, callerVars, fifos, history
<1>10. ASSUME NEW t \in Tuners, DaemonIoctl(t) PROVE TypeOK'
  BY <1>10 DEF DaemonIoctl, ControlOpen, DaemonPlaces, Files, callerVars, fifos, history
<1>11. CASE DaemonRun
  BY <1>11 DEF DaemonRun, ControlOpen, DaemonPlaces, Files, callerVars, fifos, history
<1>12. CASE ControlRead
  <2>1. KfifoGet(control_fifo_user, MesgSize) \in Seq(Nat)
    BY <1>0, GetElements
  <2>2. dbuf' \in Seq(Nat)
    BY <1>12, <2>1, PaddedElements DEF ControlRead
  <2>3. control_fifo_user' \in Seq(Nat) /\ Len(control_fifo_user') <= BufSize
    <3>1. control_fifo_user' = KfifoLeft(control_fifo_user, MesgSize)
      BY <1>12 DEF ControlRead
    <3>2. Len(control_fifo_user') <= Len(control_fifo_user) /\ Len(control_fifo_user') \in Nat
      BY <1>0, <3>1, LeftElements, LenProperties
    <3>3. Len(control_fifo_user) \in Nat /\ control_fifo_user' \in Seq(Nat)
      BY <1>0, <3>1, LeftElements, LenProperties
    <3> QED BY <1>0, <3>2, <3>3
  <2> QED BY <1>12, <2>2, <2>3 DEF ControlRead, DaemonPlaces, callerVars, flags, history
<1>13. CASE Process
  BY <1>13 DEF Process, DaemonPlaces, callerVars, flags, fifos, history
<1>14. CASE ProcessUnknown
  BY <1>0, <1>14 DEF ProcessUnknown, DaemonPlaces, callerVars, flags, fifos, history
<1>15. CASE WriteIgnored
  BY <1>0, <1>15 DEF WriteIgnored, DaemonPlaces, callerVars, flags, fifos, history
<1>16. CASE WriteCheck
  BY <1>16 DEF WriteCheck, DaemonPlaces, callerVars, flags, fifos, history
<1>17. CASE WritePut
  <2>1. /\ control_fifo_kernel' = KfifoPut(control_fifo_kernel, BufSize, dbuf)
        /\ dbuf' = KfifoUnput(control_fifo_kernel, BufSize, dbuf)
    BY <1>17 DEF WritePut
  <2>2. /\ control_fifo_kernel' \in Seq(Nat) /\ Len(control_fifo_kernel') <= BufSize
        /\ dbuf' \in Seq(Nat)
    BY <1>0, <2>1, PutElements, UnputElements
  <2> QED BY <1>17, <2>2 DEF WritePut, DaemonPlaces, callerVars, flags, history
<1>18. CASE DaemonExit
  BY <1>0, <1>18 DEF DaemonExit, DaemonPlaces, callerVars, flags, fifos, history
<1>19. CASE ReleaseReset
  <2>1. /\ control_fifo_user' \in Seq(Nat) /\ Len(control_fifo_user') <= BufSize
        /\ control_fifo_kernel' \in Seq(Nat) /\ Len(control_fifo_kernel') <= BufSize
    BY <1>0, <1>19 DEF ReleaseReset
  <2> QED BY <1>19, <2>1 DEF ReleaseReset, DaemonPlaces, callerVars, flags, history
<1>20. ASSUME NEW f \in files, ControlRelease(f) PROVE TypeOK'
  <2>1. dpc' \in DaemonPlaces /\ files' \subseteq Files
    BY <1>20 DEF ControlRelease, DaemonPlaces
  <2> QED BY <1>20, <2>1 DEF ControlRelease, callerVars, fifos, history
<1>21. CASE UNCHANGED vars
  BY <1>21 DEF vars, callerVars, daemonVars, flags, fifos, history
<1> QED
  BY <1>1, <1>2, <1>3, <1>4, <1>5, <1>6, <1>7, <1>8, <1>9, <1>10, <1>11, <1>12, <1>13,
     <1>14, <1>15, <1>16, <1>17, <1>18, <1>19, <1>20, <1>21 DEF Next, CallerStep, DaemonStep

\* The channel's variables keep their types and neither fifo outgrows
\* control_bufsize, whatever puts, cuts, gets and resets do to it.
THEOREM TypeCorrect == Spec => []TypeOK
<1> QED BY InitTypeOK, NextTypeOK, PTL DEF Spec

-----------------------------------------------------------------------------
(* Answers in the order of the requests, and none twice.  InOrder and the  *)
(* types are inductive together.                                           *)

\* A new message is newer than everything posted before it.
LEMMA MessageOrder ==
  ASSUME NEW base \in Nat
  PROVE  /\ Ascending(Message(base))
         /\ \A t \in Seq(Nat), lo \in Nat : Within(t, lo, base) => Before(t, Message(base))
         /\ \A lo \in Nat : lo <= base => Within(Message(base), lo, base + MesgSize)
         /\ \A t \in Seq(Nat), lo \in Nat : Within(t, lo, base) => Within(t, lo, base + MesgSize)
<1> DEFINE m == Message(base)
<1>1. MesgSize \in Nat /\ DOMAIN m = 1..MesgSize /\ \A i \in 1..MesgSize : m[i] = base + i
  BY MesgSizeAssumption, MessageElements, LenProperties
<1> HIDE DEF m
<1>2. Ascending(m)
  BY <1>1 DEF Ascending
<1>3. ASSUME NEW t \in Seq(Nat), NEW lo \in Nat, Within(t, lo, base)
      PROVE  Before(t, m) /\ Within(t, lo, base + MesgSize)
  <2>1. \A i \in DOMAIN t : t[i] \in Nat
    BY LenProperties, ElementOfSeq
  <2>2. Before(t, m)
    BY <1>1, <1>3, <2>1 DEF Before, Within
  <2>3. Within(t, lo, base + MesgSize)
    BY <1>1, <1>3, <2>1 DEF Within
  <2> QED BY <2>2, <2>3
<1>4. ASSUME NEW lo \in Nat, lo <= base PROVE Within(m, lo, base + MesgSize)
  BY <1>1, <1>4 DEF Within
<1> QED BY <1>2, <1>3, <1>4 DEF m

\* What lies behind an answer is newer than the newest byte of the answer.
LEMMA TakenAdvances ==
  ASSUME NEW a \in Seq(Nat), NEW t \in Seq(Nat), NEW lo \in Nat, NEW hi \in Nat,
         Before(a, t), Within(t, lo, hi),
         NEW new \in {lo} \cup {a[i] : i \in DOMAIN a}
  PROVE  Within(t, new, hi)
<1>1. \A i \in DOMAIN t : t[i] \in Nat
  BY LenProperties, ElementOfSeq
<1>2. CASE new = lo
  BY <1>2
<1>3. CASE \E i \in DOMAIN a : new = a[i]
  <2>1. PICK i \in DOMAIN a : new = a[i]
    BY <1>3
  <2>2. CASE a[i] = Junk
    BY <1>1, <2>1, <2>2 DEF Within, Junk
  <2>3. CASE a[i] # Junk
    BY <1>1, <2>1, <2>3 DEF Within, Before
  <2> QED BY <2>2, <2>3
<1> QED BY <1>2, <1>3

\* Nothing is outstanding at first.
LEMMA InitInOrder == Init => InOrder
BY EmptyOrder DEF Init, InOrder

\* Every step keeps what is outstanding in posting order.
LEMMA NextInOrder == TypeOK /\ InOrder /\ [Next]_vars => InOrder'
<1> SUFFICES ASSUME TypeOK, InOrder, [Next]_vars PROVE InOrder'
  OBVIOUS
<1> DEFINE K == control_fifo_kernel
           D == dbuf
           U == control_fifo_user
<1>0. /\ K \in Seq(Nat) /\ D \in Seq(Nat) /\ U \in Seq(Nat)
      /\ Len(K) <= BufSize /\ Len(U) <= BufSize
      /\ BufSize \in Nat /\ MesgSize \in Nat
      /\ posted \in Nat /\ taken \in Nat
  BY BufSizeAssumption, MesgSizeAssumption DEF TypeOK
<1>1. CASE UNCHANGED <<fifos, dbuf, history>>
  BY <1>1 DEF InOrder, fifos, history
<1>2. CASE UNCHANGED <<fifos, history>> /\ dbuf' = <<>>
  BY <1>2, EmptyOrder DEF InOrder, fifos, history
<1>3. ASSUME NEW c \in Callers, PostPut(c) PROVE InOrder'
  <2> DEFINE m == Message(posted)
  <2>1. /\ K' = K /\ D' = D /\ taken' = taken
        /\ U' = KfifoPut(U, BufSize, m) /\ posted' = posted + MesgSize
    BY <1>3 DEF PostPut, daemonVars
  <2>2. /\ m \in Seq(Nat) /\ Ascending(m)
        /\ Before(K, m) /\ Before(D, m) /\ Before(U, m)
    BY <1>0, MessageElements, MessageOrder DEF InOrder
  <2>3. /\ Within(K, taken, posted + MesgSize) /\ Within(D, taken, posted + MesgSize)
        /\ Within(U, taken, posted + MesgSize)
    BY <1>0, MessageOrder DEF InOrder
  <2>4. Within(m, taken, posted + MesgSize) /\ taken <= posted + MesgSize
    BY <1>0, MessageOrder DEF InOrder
  <2> HIDE DEF m
  <2>5. Ascending(U')
    BY <1>0, <2>1, <2>2, PutOrder DEF InOrder
  <2>6. Before(D', U') /\ Before(K', U')
    BY <1>0, <2>1, <2>2, PutBefore DEF InOrder
  <2>7. Within(U', taken', posted')
    <3>1. posted + MesgSize \in Nat
      BY <1>0
    <3> QED BY <1>0, <2>1, <2>2, <2>3, <2>4, <3>1, PutBefore
  <2> QED BY <2>1, <2>3, <2>4, <2>5, <2>6, <2>7 DEF InOrder
<1>4. ASSUME NEW c \in Callers, WaitGet(c) PROVE InOrder'
  <2> DEFINE a == KfifoGet(K, MesgSize)
             l == KfifoLeft(K, MesgSize)
             k == Least(MesgSize, Len(K))
  <2>1. /\ D' = D /\ U' = U /\ posted' = posted
        /\ K' = l /\ taken' \in {taken} \cup {a[i] : i \in DOMAIN a}
    BY <1>4 DEF WaitGet, daemonVars
  <2>2. /\ a \in Seq(Nat) /\ l \in Seq(Nat) /\ k \in Nat
        /\ Stretch(a, K, 0) /\ Stretch(l, K, k)
        /\ Before(a, l)
    BY <1>0, GetElements, LeftElements, GetOrder DEF InOrder
  <2> HIDE DEF a, l, k
  <2>3. Ascending(l) /\ Before(l, D) /\ Before(l, U) /\ Within(l, taken, posted)
    BY <1>0, <2>2, StretchAscending, StretchBefore, StretchWithin DEF InOrder
  <2>4. Before(a, D) /\ Before(a, U) /\ Within(a, taken, posted)
    BY <1>0, <2>2, StretchBefore, StretchWithin DEF InOrder
  <2>5. Within(K', taken', posted') /\ Within(D', taken', posted') /\ Within(U', taken', posted')
    BY <1>0, <2>1, <2>2, <2>3, <2>4, TakenAdvances DEF InOrder
  <2>6. taken' <= posted'
    <3>1. CASE taken' = taken
      BY <2>1, <3>1 DEF InOrder
    <3>2. CASE \E i \in DOMAIN a : taken' = a[i]
      <4>1. PICK i \in DOMAIN a : taken' = a[i]
        BY <3>2
      <4>2. a[i] = 0 \/ a[i] <= posted
        BY <2>4 DEF Within, Junk
      <4> QED BY <1>0, <2>1, <4>1, <4>2
    <3> QED BY <2>1, <3>1, <3>2
  <2> QED BY <2>1, <2>3, <2>5, <2>6 DEF InOrder
<1>5. CASE ControlRead
  <2> DEFINE p == Padded(KfifoGet(U, MesgSize))
             l == KfifoLeft(U, MesgSize)
             k == Least(MesgSize, Len(U))
  <2>1. /\ K' = K /\ posted' = posted /\ taken' = taken
        /\ D' = p /\ U' = l
    BY <1>5 DEF ControlRead, history
  <2>2. /\ p \in Seq(Nat) /\ l \in Seq(Nat) /\ k \in Nat
        /\ Stretch(p, U, 0) /\ Stretch(l, U, k)
        /\ Before(p, l)
    BY <1>0, GetElements, PaddedElements, LeftElements, GetOrder, ReadOrder DEF InOrder
  <2> HIDE DEF p, l, k
  <2>3. Ascending(p) /\ Before(K, p) /\ Within(p, taken, posted)
    BY <1>0, <2>2, StretchAscending, StretchBefore, StretchWithin DEF InOrder
  <2>4. Ascending(l) /\ Before(K, l) /\ Within(l, taken, posted)
    BY <1>0, <2>2, StretchAscending, StretchBefore, StretchWithin DEF InOrder
  <2> QED BY <2>1, <2>2, <2>3, <2>4 DEF InOrder
<1>6. CASE WritePut
  <2> DEFINE p == KfifoPut(K, BufSize, D)
             u == KfifoUnput(K, BufSize, D)
             r == KfifoRoom(K, BufSize, D)
  <2>1. /\ U' = U /\ posted' = posted /\ taken' = taken
        /\ K' = p /\ D' = u
    BY <1>6 DEF WritePut, history
  <2>2. p \in Seq(Nat) /\ u \in Seq(Nat) /\ r \in Nat
    <3>1. r \in 0..Len(D)
      BY <1>0, PutElements
    <3> QED BY <1>0, <3>1, PutElements, UnputElements
  <2>3. Ascending(p) /\ Before(p, u)
    BY <1>0, PutOrder DEF InOrder
  <2>4. Before(p, U) /\ Within(p, taken, posted) /\ Stretch(u, D, r)
    BY <1>0, PutBefore DEF InOrder
  <2> HIDE DEF p, u, r
  <2>5. Ascending(u) /\ Before(u, U) /\ Within(u, taken, posted)
    BY <1>0, <2>2, <2>4, StretchAscending, StretchBefore, StretchWithin DEF InOrder
  <2> QED BY <2>1, <2>3, <2>4, <2>5 DEF InOrder
<1>7. CASE ReleaseReset
  <2>1. K' = <<>> /\ U' = <<>> /\ D' = D /\ posted' = posted /\ taken' = taken
    BY <1>7 DEF ReleaseReset, history
  <2> QED BY <2>1, EmptyOrder DEF InOrder
<1>8. ASSUME NEW c \in Callers,
             Call(c) \/ PostCheck(c) \/ WaitArm(c) \/ WaitWake(c) \/ WaitInterrupted(c) \/ Return(c)
      PROVE  InOrder'
  BY <1>1, <1>8 DEF Call, PostCheck, WaitArm, WaitWake, WaitInterrupted, Return, daemonVars
<1>9. ASSUME DaemonStart \/ (\E t \in Tuners : DaemonIoctl(t)) \/ DaemonRun \/ Process \/ WriteCheck
      PROVE  InOrder'
  BY <1>1, <1>9 DEF DaemonStart, DaemonIoctl, DaemonRun, ControlOpen, Process, WriteCheck
<1>10. CASE ProcessUnknown \/ WriteIgnored \/ DaemonExit
  BY <1>2, <1>10 DEF ProcessUnknown, WriteIgnored, DaemonExit
<1>11. ASSUME UNCHANGED vars \/ (\E f \in files : ControlRelease(f)) PROVE InOrder'
  BY <1>1, <1>11 DEF vars, daemonVars, ControlRelease
<1> QED
  BY <1>3, <1>4, <1>5, <1>6, <1>7, <1>8, <1>9, <1>10, <1>11 DEF Next, CallerStep, DaemonStep

\* Answers reach the callers in the order in which the requests were posted
\* and none is given twice, for every number of callers, every message and
\* buffer size and any pattern of signals, cut messages and daemon restarts.
THEOREM AnswersInOrder == Spec => []InOrder
<1> QED BY InitTypeOK, NextTypeOK, InitInOrder, NextInOrder, PTL DEF Spec

-----------------------------------------------------------------------------
(* What open and release guarantee.  FreshAnswers needs to know when the   *)
(* daemon holds a message and that it is up exactly while it has a file.   *)

\* The daemon is down exactly when it has no file open, holds bytes only
\* between read and write, and leaves no answer behind once it has emptied the
\* fifos to go down.
DaemonShape ==
  /\ files = {} <=> dpc = "down"
  /\ dpc \in {"down", "starting", "select", "exiting", "reset"} => dbuf = <<>>
  /\ dpc \in {"down", "reset"} => control_fifo_kernel = <<>>

\* The initial state has the shape, and every step keeps it.
LEMMA ShapeInductive ==
  /\ Init => DaemonShape /\ ReadyIsServing
  /\ DaemonShape /\ ReadyIsServing /\ [Next]_vars => DaemonShape' /\ ReadyIsServing'
<1>1. Init => DaemonShape /\ ReadyIsServing
  BY DEF Init, DaemonShape, ReadyIsServing
<1>2. DaemonShape /\ ReadyIsServing /\ [Next]_vars => DaemonShape' /\ ReadyIsServing'
  <2> SUFFICES ASSUME DaemonShape, ReadyIsServing, [Next]_vars
               PROVE  DaemonShape' /\ ReadyIsServing'
    OBVIOUS
  <2> USE DEF DaemonShape, ReadyIsServing
  <2>1. ASSUME NEW c \in Callers, CallerStep(c) \/ Call(c) \/ WaitInterrupted(c)
        PROVE  DaemonShape' /\ ReadyIsServing'
    <3>1. UNCHANGED <<daemonVars, userspace_ready>>
      BY <2>1 DEF CallerStep, Call, PostCheck, PostPut, WaitArm, WaitWake, WaitInterrupted,
                  WaitGet, Return, flags
    <3>2. CASE UNCHANGED control_fifo_kernel
      BY <3>1, <3>2 DEF daemonVars
    <3>3. CASE WaitGet(c)
      <4>1. control_fifo_kernel = <<>> => control_fifo_kernel' = <<>>
        <5>1. control_fifo_kernel' = KfifoLeft(control_fifo_kernel, MesgSize)
          BY <3>3 DEF WaitGet
        <5>2. <<>> \in Seq(Nat) /\ Len(<<>>) = 0 /\ MesgSize \in Nat
          BY EmptySeq, MesgSizeAssumption
        <5>3. KfifoLeft(<<>>, MesgSize) = <<>>
          <6>1. Least(MesgSize, 0) = 0
            BY MesgSizeAssumption DEF Least
          <6> QED BY <5>2, <6>1, SubSeqEmpty DEF KfifoLeft
        <5> QED BY <5>1, <5>3
      <4> QED BY <3>1, <4>1 DEF daemonVars
    <3> QED BY <2>1, <3>2, <3>3 DEF CallerStep, Call, PostCheck, PostPut, WaitArm, WaitWake,
                                    WaitInterrupted, Return, fifos
  <2>2. CASE DaemonStart \/ (\E t \in Tuners : DaemonIoctl(t)) \/ DaemonRun
    BY <2>2 DEF DaemonStart, DaemonIoctl, DaemonRun, ControlOpen, fifos
  <2>3. CASE ControlRead \/ Process \/ ProcessUnknown \/ WriteIgnored \/ WriteCheck
    BY <2>3 DEF ControlRead, Process, ProcessUnknown, WriteIgnored, WriteCheck, flags, fifos
  <2>4. CASE WritePut
    BY <2>4 DEF WritePut, flags
  <2>5. CASE DaemonExit
    BY <2>5 DEF DaemonExit, flags, fifos
  <2>6. CASE ReleaseReset
    BY <2>6 DEF ReleaseReset, flags
  <2>7. ASSUME NEW f \in files, ControlRelease(f) PROVE DaemonShape' /\ ReadyIsServing'
    BY <2>7 DEF ControlRelease, fifos
  <2>8. CASE UNCHANGED vars
    BY <2>8 DEF vars, daemonVars, flags, fifos
  <2> QED BY <2>1, <2>2, <2>3, <2>4, <2>5, <2>6, <2>7, <2>8 DEF Next, DaemonStep
<1> QED BY <1>1, <1>2

\* No answer outlives the daemon that wrote it: hdhomerun_control_release
\* leaves nothing in control_fifo_kernel for the next daemon's callers.
THEOREM NoAnswerSurvives == Spec => []FreshAnswers
<1>1. DaemonShape => FreshAnswers
  BY DEF DaemonShape, FreshAnswers
<1> QED BY <1>1, ShapeInductive, PTL DEF Spec

\* userspace_ready follows the daemon through all its opens and releases: it
\* is set only while a file is open and always while the daemon serves.
THEOREM ReadyFollowsDaemon == Spec => []ReadyIsServing
<1> QED BY ShapeInductive, PTL DEF Spec

=============================================================================
