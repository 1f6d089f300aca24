------------------------------- MODULE Kfifo -------------------------------
(***************************************************************************)
(* The byte fifo of the Linux kernel (linux/kfifo.h), modelled from how    *)
(* dvb_hdhomerun_compat.h names its operations and how the driver uses     *)
(* their results.  A fifo is the sequence of the bytes in it.  A put takes *)
(* what fits and silently leaves the rest; a get takes what is there.      *)
(* Each operation is one step: the locked kfifo_put and kfifo_get that the *)
(* driver gets on kernels before 2.6.33.                                   *)
(***************************************************************************)
EXTENDS Integers, Sequences

Least(a, b) == IF a < b THEN a ELSE b

\* How many bytes of buf a put stores in a fifo of the given size.
KfifoRoom(fifo, size, buf) == Least(Len(buf), size - Len(fifo))

\* The fifo after kfifo_put / kfifo_in.
KfifoPut(fifo, size, buf) == fifo \o SubSeq(buf, 1, KfifoRoom(fifo, size, buf))

\* What a put did not store, when its caller asks again with the rest.
KfifoUnput(fifo, size, buf) == SubSeq(buf, KfifoRoom(fifo, size, buf) + 1, Len(buf))

\* The bytes kfifo_get / kfifo_out returns when asked for count.
KfifoGet(fifo, count) == SubSeq(fifo, 1, Least(count, Len(fifo)))

\* The fifo after that get.
KfifoLeft(fifo, count) == SubSeq(fifo, Least(count, Len(fifo)) + 1, Len(fifo))

=============================================================================
