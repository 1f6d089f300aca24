---------------------------- MODULE FeedRequests ----------------------------
(***************************************************************************)
(* The feeds of an adapter over the control channel: start_feed and        *)
(* stop_feed of the demultiplexer (dvb_hdhomerun_init.c), the channel of   *)
(* ControlChannel, and the handlers StartFeed and StopFeed of the daemon.  *)
(* Feed operations of one adapter exclude each other (feedlock); the       *)
(* frontend of the adapter and other adapters use the same channel at the  *)
(* same time.                                                              *)
(*                                                                         *)
(* The kernel and the daemon each keep a set of feeds.  A message is one   *)
(* byte here (MesgSize = 1): ControlChannel looks at messages that are cut.*)
(* What the handlers do to the device is in TunerStream.                   *)
(***************************************************************************)
EXTENDS ControlChannel

CONSTANTS Feeds,        \* feeds of the adapter, each with a pid of its own
          FeedCallers   \* callers of start_feed and stop_feed, the rest call others

ASSUME FeedCallersAssumption == FeedCallers \subseteq Callers /\ "free" \notin Callers
ASSUME FeedsAssumption == "none" \notin Feeds
ASSUME WholeMessages == MesgSize = 1

VARIABLES feedlock,  \* who holds it, or "free"
          active,    \* the feeds the demultiplexer has started
          served,    \* the feeds the daemon streams
          want,      \* what each caller asks for: <<operation, feed>>
          sent,      \* what the messages posted so far ask for
          astray,    \* history: feeds of which a fault let the two sides differ
          crossed    \* history: two calls overlapped, or one was interrupted

feedVars == <<feedlock, active, served, want, sent, astray, crossed>>
allVars == <<vars, feedVars>>

\* A request that is about no feed.
Other == <<"other", "none">>

FeedInit ==
  /\ Init
  /\ feedlock = "free" /\ active = {} /\ served = {}
  /\ want = [c \in Callers |-> Other]
  /\ sent = [k \in 1..MaxPosts |-> Other]
  /\ astray = {} /\ crossed = FALSE

-----------------------------------------------------------------------------
(* The kernel.                                                             *)

\* The kernel starts a feed that is not active and stops one that is.
StartFeed(c, f) ==
  /\ f \notin active
  /\ want' = [want EXCEPT ![c] = <<"start", f>>]

StopFeed(c, f) ==
  /\ f \in active
  /\ want' = [want EXCEPT ![c] = <<"stop", f>>]

Overlaps(c) == crossed' = (crossed \/ \E d \in Callers \ {c} : pc[d] # "idle")

\* mutex_lock(&hdhomerun->feedlock), and the message.
CallFeed(c) ==
  /\ c \in FeedCallers
  /\ Call(c)
  /\ feedlock = "free" /\ feedlock' = c
  /\ \E f \in Feeds : StartFeed(c, f) \/ StopFeed(c, f)
  /\ Overlaps(c)
  /\ UNCHANGED <<active, served, sent, astray>>

\* An operation of the frontend, or of another adapter.
CallOther(c) ==
  /\ c \notin FeedCallers
  /\ Call(c)
  /\ Overlaps(c)
  /\ UNCHANGED <<feedlock, active, served, want, sent, astray>>

\* A stop for which there is no room is forgotten; any other request that is
\* posted tells the daemon again what the kernel wants.
FeedPut(c) ==
  /\ PostPut(c)
  /\ sent' = [sent EXCEPT ![posted + 1] = want[c]]
  /\ astray' = IF pc'[c] = "arm" THEN astray \ {want[c][2]}
               ELSE IF want[c][1] = "stop" THEN astray \cup {want[c][2]} ELSE astray
  /\ UNCHANGED <<feedlock, active, served, want, crossed>>

\* A start that is interrupted has failed for the kernel, not for the daemon.
FeedInterrupted(c) ==
  /\ WaitInterrupted(c)
  /\ astray' = IF want[c][1] = "start" THEN astray \cup {want[c][2]} ELSE astray
  /\ crossed' = TRUE
  /\ UNCHANGED <<feedlock, active, served, want, sent>>

\* Mutant of Result: a start that got nothing counts as failed.
ResultNeedsAnswer(c) ==
  (active \cup {f \in Feeds : want[c] = <<"start", f>> /\ ret[c] > 0})
    \ {f \in Feeds : want[c] = <<"stop", f>>}

\* Mutant of Result: any operation that is not a stop counts as a start.
ResultOfAny(c) ==
  IF want[c][1] = "stop" THEN active \ {want[c][2]}
  ELSE IF ret[c] >= 0 THEN active \cup {want[c][2]} ELSE active

\* What the demultiplexer of the kernel makes of the result: a start has
\* failed if it is negative, and a stop is a stop.
Result(c) ==
  (active \cup {f \in Feeds : want[c] = <<"start", f>> /\ ret[c] >= 0})
    \ {f \in Feeds : want[c] = <<"stop", f>>}

\* mutex_unlock(&hdhomerun->feedlock), and the return.
FeedReturn(c) ==
  /\ Return(c)
  /\ active' = Result(c)
  /\ want' = [want EXCEPT ![c] = Other]
  /\ feedlock' = IF feedlock = c THEN "free" ELSE feedlock
  /\ UNCHANGED <<served, sent, astray, crossed>>

-----------------------------------------------------------------------------
(* The daemon.                                                             *)

\* ProcessMessages: the tuner starts or stops to stream the pid.
FeedProcess ==
  /\ Process
  /\ served' = (served \cup {f \in Feeds : sent[dbuf[1]] = <<"start", f>>})
                 \ {f \in Feeds : sent[dbuf[1]] = <<"stop", f>>}
  /\ UNCHANGED <<feedlock, active, want, sent, astray, crossed>>

\* The feeds of the messages in s.
FeedsOf(s) == {sent[s[i]][2] : i \in DOMAIN s} \cap Feeds

\* The callers whose message is out.
Waiting == {c \in Callers : pc[c] \in {"arm", "wait", "get", "returned"}}

\* The process ends, and with it what it streamed.
FeedExit ==
  /\ DaemonExit
  /\ served' = {}
  /\ astray' = astray \cup active \cup FeedsOf(dbuf) \cup
                 ({want[c][2] : c \in Waiting} \cap Feeds)
  /\ UNCHANGED <<feedlock, active, want, sent, crossed>>

\* The release of a file drops the requests that are there.
FeedReset ==
  /\ ReleaseReset
  /\ astray' = astray \cup FeedsOf(control_fifo_user)
  /\ UNCHANGED <<feedlock, active, served, want, sent, crossed>>

-----------------------------------------------------------------------------
\* The steps of the channel that leave the feeds alone.
ChannelStep(c) == PostCheck(c) \/ WaitArm(c) \/ WaitWake(c) \/ WaitGet(c)

DaemonServes ==
  \/ (ControlRead \/ WriteIgnored \/ WriteCheck \/ WritePut) /\ UNCHANGED feedVars
  \/ FeedProcess

FeedCallerStep(c) ==
  \/ ChannelStep(c) /\ UNCHANGED feedVars
  \/ FeedPut(c) \/ FeedReturn(c)

FeedNext ==
  \/ \E c \in Callers : CallFeed(c) \/ CallOther(c) \/ FeedCallerStep(c) \/ FeedInterrupted(c)
  \/ (DaemonStart \/ (\E t \in Tuners : DaemonIoctl(t)) \/ DaemonRun) /\ UNCHANGED feedVars
  \/ DaemonServes
  \/ FeedExit \/ FeedReset
  \/ (\E f \in files : ControlRelease(f)) /\ UNCHANGED feedVars

FeedSpec ==
  /\ FeedInit /\ [][FeedNext]_allVars
  /\ \A c \in Callers : WF_allVars(FeedCallerStep(c))
  /\ WF_allVars(DaemonServes)

-----------------------------------------------------------------------------
(* Properties.                                                             *)

Requests == {Other} \cup ({"start", "stop"} \X Feeds)

\* Every variable holds a value of its kind.
FeedTypeOK ==
  /\ TypeOK
  /\ feedlock \in FeedCallers \cup {"free"}
  /\ active \subseteq Feeds /\ served \subseteq Feeds /\ astray \subseteq Feeds \cup {"none"}
  /\ want \in [Callers -> Requests]
  /\ sent \in [1..MaxPosts -> Requests]
  /\ crossed \in BOOLEAN

\* A request about f is under way: on its way to the daemon, or its caller has
\* not returned.
UnderWay(f) ==
  \/ f \in FeedsOf(control_fifo_user)
  \/ dpc = "process" /\ f \in FeedsOf(dbuf)
  \/ \E c \in Callers : pc[c] # "idle" /\ want[c][2] = f

\* The kernel and the daemon agree on every feed at rest, although a start or a
\* stop may be given the answer to somebody else's request, or none, and
\* return before the daemon has seen its own.  They differ only on a feed of
\* which a fault lost track: a start was interrupted, the daemon ended, or
\* the fifo had no room for a stop; and not any more once the next request
\* about the feed was posted.
FeedsAgree ==
  \A f \in Feeds \ astray : ~UnderWay(f) => (f \in served <=> f \in active)

\* As long as calls neither overlap nor are interrupted, each is given the
\* answer to its own request, also across restarts of the daemon
\* (hdhomerun_control_post_and_wait: "Now we wait for userspace to return to us").
OwnAnswerAlone == ~crossed => OwnAnswer

\* What was started is streamed in the end by a daemon that stays up, unless it
\* is stopped again or went astray, whoever took whose answer.
StartedIsServed ==
  Serves /\ NeverAsleep =>
    \A f \in Feeds : f \in active \ astray ~>
      \/ f \in served \cup astray
      \/ f \notin active \/ \E c \in Callers : want[c] = <<"stop", f>>

=============================================================================
