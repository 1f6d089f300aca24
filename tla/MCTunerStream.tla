--------------------------- MODULE MCTunerStream ---------------------------
(* TunerStream for TLC: pids are numbers. *)
EXTENDS TunerStream, TLC

\* Two feeds of one pid, a feed of another one and a feed of the whole stream.
SharedAndAll == (1 :> 17 @@ 2 :> 17 @@ 3 :> 18 @@ 4 :> 8192)

\* A feed of one pid and a feed of the whole transport stream.
PidAndAll == (1 :> 17 @@ 2 :> 8192)
=============================================================================
