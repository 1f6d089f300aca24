----------------------------- MODULE StreamPipe -----------------------------
(***************************************************************************)
(* What a data device promises: the demultiplexer of the kernel gets the   *)
(* stream of the tuner, every byte once and in order.  After a fault bytes *)
(* may be lost, and once two writers were at work at the same time only    *)
(* this is left of it: nothing is delivered that was not received, and     *)
(* nothing that was delivered is taken back.                               *)
(*                                                                         *)
(* Byte number i of the stream is i.                                       *)
(***************************************************************************)
EXTENDS Integers, Sequences

VARIABLES received,   \* bytes received so far
          delivered,  \* what the demultiplexer was given
          lost,       \* bytes given up
          faulty,     \* a write has failed
          mixed       \* two writers were at work at the same time

vars == <<received, delivered, lost, faulty, mixed>>

\* The k bytes after byte number at.
Run(at, k) == [i \in 1..k |-> at + i]

Init == received = 0 /\ delivered = <<>> /\ lost = 0 /\ faulty = FALSE /\ mixed = FALSE

\* Bytes come in; after a fault they may be given up at once.
Receive ==
  /\ received' > received
  /\ mixed' \in {mixed, TRUE}
  /\ \/ lost' = lost
     \/ faulty /\ lost' - lost = received' - received
  /\ UNCHANGED <<delivered, faulty>>

\* The next bytes, none of them left out.
Deliver ==
  /\ ~mixed
  /\ Len(delivered') > Len(delivered)
  /\ Len(delivered') + lost <= received
  /\ delivered' = delivered \o Run(Len(delivered) + lost, Len(delivered') - Len(delivered))
  /\ UNCHANGED <<received, lost, faulty, mixed>>

\* Bytes that were received, in any order.
DeliverMixed ==
  /\ mixed
  /\ Len(delivered') > Len(delivered)
  /\ delivered = SubSeq(delivered', 1, Len(delivered))
  /\ \A i \in DOMAIN delivered' : delivered'[i] \in 1..received
  /\ UNCHANGED <<received, lost, faulty, mixed>>

\* A write fails: what it still had is lost.
Fail ==
  /\ faulty' = TRUE
  /\ lost' >= lost
  /\ (mixed \/ lost' + Len(delivered) <= received)
  /\ UNCHANGED <<received, delivered, mixed>>

Next == Receive \/ Deliver \/ DeliverMixed \/ Fail

Spec == Init /\ [][Next]_vars

=============================================================================
