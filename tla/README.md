# TLA+ models of dvbhdhomerun

dvbhdhomerun makes the tuners of an HDHomeRun network device appear as DVB
adapters under Linux. A kernel driver offers the adapters; a daemon,
`userhdhomerun`, talks to the network device and serves the driver through two
kinds of character devices. This directory holds models of the parts whose
correctness depends on the order in which these actors run, what TLC checks of
them on small instances, and what TLAPS proves of them for all instances.

## 1. The system

| Component | Source | State | Operations | Module |
|---|---|---|---|---|
| Control channel, kernel side | `kernel/dvb_hdhomerun_core.c`, `_control.c`, `_control_messages.h` | `control_fifo_user`, `control_fifo_kernel`, `wait_for_write`, `userspace_ready`, three wait queues | `post_and_wait` (post, wait); open, release, poll, read, write, ioctl of `/dev/hdhomerun_control` | `Kfifo`, `ControlChannel` |
| Control thread | `userhdhomerun/hdhomerun_control.cpp` | queue `m_messages`, open files, pipe | constructor, `Ioctl`, `run`, `ProcessMessages` and its handlers, `WriteToDevice`, `pre_stop` | `ControlChannel`; handlers in `FeedRequests`, `Frontend` |
| Registration | `kernel/dvb_hdhomerun_init.c`, `_data.c`, `userhdhomerun/hdhomerun_controller.cpp` | `platform_device[]` and the drvdata of each, `hdhomerun_num_of_devices`, `hdhomerun_data_states[]`, `hdhomerun_major`; `m_tuners`, `m_kernelId` | discovery, `HDHOMERUN_REGISTER_TUNER`, `data_init`, `data_create_device`, module exit | `Registration` |
| Feeds | `kernel/dvb_hdhomerun_init.c` | `feedlock` | `start_feed`, `stop_feed` | `FeedRequests` (with the channel), `TunerStream` (with the tuner) |
| Tuner, streaming | `userhdhomerun/hdhomerun_tuner.cpp`, `thread_pthread.cpp` | `m_pidFilters`, `m_stream`, `m_stop`, `m_running`, the device's filter and stream | `StartStreaming`, `StopStreaming`, `run`, `start`, `stop`, destructor | `TunerStream` |
| Tuner, tuning; frontend | `kernel/dvb_hdhomerun_fe.c`, `userhdhomerun/hdhomerun_tuner.cpp` | the kernel's frontend, `m_type`, `m_prevFreq`, the device's channel | `attach_*`, `tune`, `set_frontend`, `read_status`, `read_signal_strength`; constructor, `Tune`, `ReadStatus`, `ReadSignalStrength` | `Frontend` |
| Configuration | `userhdhomerun/conf_inifile.cpp` | a map of sections, keys and values | `OpenIniFile`, `GetSecValue` | `ConfFile`, used by `Frontend` |
| Data device, write | `kernel/dvb_hdhomerun_data.c` | one page of buffer per device | open, release, `hdhomerun_data_write` | `DataWrite` against `StreamPipe` |
| Log | `userhdhomerun/log_file.cpp` | `m_buffer`, `m_logFile`, `m_logTo`, `m_disabled`, a mutex | `SetLogType`, `SetAndOpenLogFile`, `DisableLogging`, `overflow` | `LogFile` |
| Program | `userhdhomerun/main.cpp` | `g_stop` | options, signals, start, end | options in `LogFile`; start and end in all modules |
| `old/`, `patches/`, `v4l-dvb/`, `debian/`, `etc/` | | | | not modelled, see section 5 |

How they interact. A program that uses a DVB adapter calls into the driver in
its own thread, a *caller* below. The operation fills in a message, puts it into
`control_fifo_user` and sleeps until `control_fifo_kernel` is not empty. The
control thread of the daemon selects on the device, reads one message, runs its
handler on the tuner with the message's id, and writes the message back. For a
feed the handler changes the tuner's pid filter and starts or stops the
streaming thread, which copies data from the network to `/dev/hdhomerun_dataX`
until it is stopped. At its start the daemon registers each tuner with an ioctl;
the driver never forgets a tuner until the module is removed.

What is hard here:

* several callers share two fifos and two flags without a lock (the source says
  "Need mutex on this"); nothing but the order of bytes ties an answer to its
  request;
* callers are interrupted by signals, the daemon is stopped, killed and started
  again, and both leave things behind in the fifos and flags;
* fifos hold bytes: a put into a nearly full fifo is partial;
* the driver's tables survive the daemon; a start may find other tuners than the
  one before; a registration may fail half-way;
* a thread is considered running from when it says so itself, so `start()`,
  `isFinished()` and `stop()` race with the thread;
* results of `post_and_wait` and of libhdhomerun are mostly not looked at: what a
  failure leaves behind must be made good by a later operation;
* two streaming threads share one page in the kernel, and all threads one line
  buffer in the log.

What makes each component correct: answers reach the request they belong to and
every wait ends (channel); each tuner has one adapter and one data device and
finds them again (registration); the kernel and the daemon agree on the feeds
(feeds); the data of every active feed flows, stopping comes back and the end of
the program leaves no thread (tuner); an adapter is what the configuration says
and a lock it shows is one on the frequency asked for (frontend); the
demultiplexer gets every byte once and in order (data device); every line is
kept (log).

`PROJECT.json` lists the hazards line by line, with the property that would
catch each, or why there is none.

## 2. Modules

### Kfifo

The kernel's byte fifo by what its operations return: `KfifoPut` stores what
fits, `KfifoGet` returns what is there. External: from the way the driver uses
it. Each operation is one step, which is the locked `kfifo_put`/`kfifo_get` of
kernels before 2.6.33. On later ones `dvb_hdhomerun_compat.h` names
`kfifo_in`/`kfifo_out`, which take no lock, and the source as it is compiles only
for those (`dvb_hdhomerun_fe.c:109` has an `#elif if` that is reached before
4.9). What the models show therefore holds as long as no two callers are inside
a put, and no two inside a get, at the same moment; a put and a get together are
safe without a lock.

### ControlChannel

One action per step that another thread can come between.

| Actions | Code |
|---|---|
| `Call`, `Return` | a DVB operation begins and ends (`start_feed`, `stop_feed`, `set_frontend`, `read_status`, `read_signal_strength`) |
| `PostCheck`, `PostPut` | `hdhomerun_control_post_message`: test of `userspace_ready`, then the put |
| `WaitArm`, `WaitWake`, `WaitInterrupted`, `WaitGet` | `hdhomerun_control_wait_for_message`: `wait_for_write = 1`, the two tests of the length, the signal, the get |
| `DaemonStart`, `DaemonIoctl`, `DaemonRun` | the three places where the daemon opens the device (`ControlOpen`) |
| `ControlRead` | select, poll and read of one message; a short read leaves `Junk` in the rest |
| `Process`, `ProcessUnknown` | `ProcessMessages`: every handler ends in a write; an unknown type has no answer |
| `WriteIgnored`, `WriteCheck`, `WritePut` | `hdhomerun_control_write`: the flag, the test for a full fifo, the put; the stream writes the rest of a partial put again |
| `DaemonExit`, `ReleaseReset`, `ControlRelease` | SIGTERM or SIGKILL, then for each open file `hdhomerun_control_release`: the fifos are emptied, then the flags cleared |

A byte is the number of its place in everything ever posted, so the order of
requests and answers can be read off the bytes; type, id and parameters are not
kept. `request`, `posted` and `taken` are history variables. A message read out
of step may show any type, so both `Process` and `ProcessUnknown` are possible.
A release is two steps: a caller past `PostCheck` can put its message after the
fifos were emptied and set `wait_for_write` before that flag is cleared. Within
each step the two assignments are taken together. For the flags nothing depends
on it; between the two resets a caller that was past the test of the length can
get nothing, return and post again, and that message is then lost, while in the
model it stays for the next daemon.
A daemon asleep on a full fifo has no action but `DaemonExit`: the wake-up of
`outq` is behind a `return` (core.c:102-103) and the daemon blocks every signal
but SIGKILL (main.cpp:75-77). Two callers that wake up on one answer are both
past the test of the length; the second get returns 0.

Left out: a failed `kmalloc` or copy from user space, `O_NONBLOCK` (the daemon
does not use it), two daemons at a time, and a daemon that is told to stop before
its control thread has set its own `m_running`.

### Registration

The daemon's part is `Discover` (any subset of the tuners, as the network and
the configuration have it), the loop over the tuners in the order of their names
(`NextTuner`), `StartControl`, `DaemonStop`. An ioctl is one step, because the
one daemon makes one at a time; its outcomes are `RegisterNoData`,
`RegisterOops`, `RegisterKnown`, `RegisterFull`, and `RegisterNew` with the step
that fails in it. `ModuleExit` removes the driver; the variables are then again
as after a load. `Failures` says which calls of the kernel may fail:
`platform_device_register_simple`, `class_create`, `alloc_chrdev_region`,
`dvb_register_adapter` and the rest of `dvb_hdhomerun_register`,
`device_create`, `cdev_add`. When there is no region the class stays, also
beyond a removal of the module, and every later `class_create` of its name
fails. `oops` is
terminal: the kernel followed a null pointer, or was left with adapters whose
driver is gone.

`failed` is a history variable: some call has failed since the module was
loaded. Left out: the order in which `dvb_hdhomerun_register` makes its parts
visible. Type and full name of a tuner are in `Frontend`.

### TunerStream

`StartFilter`, `StartSet`, `StartThread` are `StartStreaming` for a feed, cut
where a streaming thread can come between; `StopFilter`, `StopStream` are
`StopStreaming`. `ThreadEnter`, `ThreadTest`, `ThreadCopy`, `ThreadLeave` are
`threadEntryFunc` with `run` inside; `ThreadNoDevice` is `run`'s `_exit`.
`Shutdown`, `Delete`, `DeleteStream` are `tuner->stop()` and `delete tuner` in
`~HdhomerunController`. `filter` is what the network device lets through,
`active` the feeds the kernel believes to be started. Old threads that have not
yet left are kept: any number of them may be around.

`Command` is a call whose result nobody looks at: it does what it should or
leaves everything as it was. `lost` names the kinds that last came to nothing:
`filter` (`set_tuner_filter`), `stream` (`stream_start` and `stream_stop`),
`thread` (the `pthread_create` of `StartStreaming`). The `pthread_create` of the
control thread is taken to succeed: without that thread nothing here happens.
`disturbed` is a history variable, the
active feeds in whose way another one got: by the one entry for a pid that two
feeds want, or by mixing feeds of 0x2000 with feeds of single pids.

### FeedRequests

Extends `ControlChannel` by what the messages mean: `CallFeed` (`start_feed` or
`stop_feed`, with `feedlock`), `CallOther` (the frontend, another adapter),
`FeedPut`, `FeedInterrupted`, `FeedReturn` around the channel's own steps,
`FeedProcess` (the handlers `StartFeed`, `StopFeed`), `FeedExit`, `FeedReset`.
`active` is the kernel's set of feeds, `served` the daemon's. Each of these
actions is the action of `ControlChannel` with the same code plus its effect on
the feeds; the rest of the channel is taken as it is. `Result`, what the DVB
demultiplexer makes of the returned number, is external. `astray` and `crossed`
are history variables: the feeds of which a fault let the two sides differ, and
whether two calls ever overlapped. A message is one byte, so none is cut; cut
messages are `ControlChannel`'s subject.

### ConfFile and Frontend

`ConfFile` is the parser: `ReadLines` is the loop, `ReadLine` a turn of it and
`Insert` the `map::insert` that leaves a key alone. A line is what
the parser can tell of it: which of `#`, `[`, `=` it contains anywhere, and the
strings it would cut out. `Meant` says without a parser what a file means: the
first value of the key under a header of the section.

`Frontend` is one tuner: `DaemonStart` (the constructor, the configuration, the
registration), `DaemonStartFails`, `DaemonStop`, `EditConf`, `Reload`;
`SetFrontend` and `TuneRead` (the DVB core's thread in `dvb_hdhomerun_fe_tune`,
with `Tune` in the daemon), `ReadStatusByProgram`, `ReadStrengthByProgram`. A
request of the DVB core's thread is one step if it returns. If it does not
(`CoreSleeps`; `control_lost_answer` shows how) the daemon may have seen it or
not, and the thread stays asleep, for ever or until somebody else's answer wakes
it (`CoreWoken`); a kernel thread gets no signal. Other requests get their own
answer or, without a daemon, none; what an uninitialised message shows is any
value. External: `Reception` and `Ask`. Assumed: nobody else on the network
tunes the device while the daemon has it. Left out: the branch of
`dvb_hdhomerun_fe_tune` for kernels before 3.3 (fe.c:221-227, where a call
without parameters only reads the status, so that a missed frequency is *not*
set again), a full fifo, and the operations that return constants (`read_ber`,
`read_snr`, ...).

### StreamPipe and DataWrite

`StreamPipe` is what a data device promises: bytes come in, and are delivered
each once and in order; after a fault some may be lost, and when two writers
have mixed only "nothing that was not received" is left. `DataWrite` is the loop
of `HdhomerunTuner::run` (`Open`, `RecvWrite`, `RecvDropped`, `Close`) and
`hdhomerun_data_write` page by page (`CopyFromUser`, `CopyFault`, `SwFilter`),
for several threads on one `write_buffer`. `ImplementsPipe` is the refinement,
with `delivered <- demux`. `spoiled` is a history variable: the bytes that were
in the hands of two threads in a write at the same time (`InHand`), and those
that a fault met. `AllDelivered` speaks of all other bytes, one by one.

### LogFile

`Options`, `StartFails`, `Run`, `End` are `main`; `Begin`, `Read`, `StoreText`,
`StoreNewline`, `Cout`, `Lock`, `Open`, `OpenRefused`, `Write`, `Clear` are the
way of a line through `overflow`; `Rotate` is logrotate. The main thread has
lines until the end, also while it deletes the tuners (`~HdhomerunTuner`). `m_buffer += c` is a
read and a store, so that of two at the same time one may be lost. `Open` on a
stream that is open fails and leaves it open, as `basic_filebuf::open` does: the
first line after `SetAndOpenLogFile` is written to a failed stream and lost,
which `LinesKept` states as its one exception.

## 3. What is checked

Twelve runs; five of them show a disagreement between the code and what a
comment or the documentation says of it.

| Run | Checks | Shows |
|---|---|---|
| `control_order` | `TypeOK`, `InOrder`, `FreshAnswers`, `ReadyIsServing`, `WaitsEnd` | through signals, cut messages, ignored writes and a restart, everything in the fifos and in the daemon's hands is in posting order and newer than what was handed out; a daemon leaves no answer behind; `userspace_ready` follows the daemon; a wait that never ends with a daemon that stays up has one of three reasons: an ignored write, a cut message, a daemon asleep on a full fifo |
| `control_late_answer` | `OwnAnswer` violated | an interrupted caller's answer goes to the next request, which `wait_for_write` was meant to prevent; two callers at once violate it as well |
| `control_lost_answer` | `EveryWaitEnds` violated | an answer before `wait_for_write = 1` is ignored, the caller sleeps for ever |
| `feed_service` | `FeedTypeOK`, `FeedsAgree`, `OwnAnswerAlone`, `StartedIsServed` | calls that do not overlap get their own answers over restarts; and where answers are mixed up or missing, kernel and daemon still agree on the feeds, unless a start was interrupted, the daemon ended or a stop did not fit, and then again with the next request for the feed |
| `registration_failures` | `TypeOK`, `IdsAgree`, `AdapterPerTuner`, `OopsNeedsFailure`, `RegionCovers` | with every failure an id never leads to another tuner and minors of tuners of the first daemon are inside the region; until the first failure every tuner has one adapter and one data device and finds them again, and nothing is followed that is null |
| `registration_null_pointer` | `NoOops` violated | a failed registration is counted and the next search follows its null drvdata |
| `tuner_threads` | `TypeOK`, `StreamServed`, `FeedsFlow`, `IdleStops`, `StopReturns`, `ShutdownEnds` | races of start and stop never leave a wanted stream without a thread, unless `pthread_create` failed; a feed that no other one disturbs flows, lost commands aside; the last feed leaves no pid and no stream behind, however feeds were mixed, and the device streams on only if the command to stop was lost; nothing waits for ever |
| `tuner_pass_all` | `PassAllFlows` violated | a feed of 0x2000 is forgotten as soon as a feed of one pid comes |
| `tuner_exit` | `ThreadsClosed` violated | a tuner is deleted while a thread of it is about to begin |
| `tuner_frontend` | `TypeOK`, `AsConfigured`, `LockMeansTuned`, `StrengthExact`, `TuneCatchesUp` | the adapter is what the file means, through parser, numbers of types and `attach` functions, unless the file was changed behind it; a measured lock is one on the frequency asked for, unless a command was lost; a strength survives its three 16-bit types; what a daemon missed is set in the end, if from some time on the DVB core's thread gets its answers |
| `data_write` | `TypeOK`, `AllDelivered`, `ImplementsPipe`, `WritesEnd` | the data device is a pipe as long as writes do not overlap; an overlap costs the bytes that the threads have in hand and a fault those of its write, and every other byte, before, between and after, is handed over once and in order; each write returns |
| `log_file` | `TypeOK`, `NoAbort`, `LinesKept`, `NeverToOldFile`, `LinesEnd` | one line is lost at the start of the log and no more; others are kept whole until two overlap; reopening makes rotation safe; every line comes to its end and the mutex is free again on every way |

Each property of a passing run has a mutant of the code in its module (named
after what is wrong in it, defined before the original) that violates it.

Bounds. `control_order`: two callers (every race is between two), both of which
may be interrupted, messages of 2 bytes and fifos of 5, so that puts are cut (in
the source 32768 is 910 messages and 8 bytes), the daemon sleeps on a full fifo
and messages are read out of step; 4 posts, 2 starts, one tuner and so three
open files. `feed_service`: two callers for feeds, because `feedlock` is between
two, and one for the frontend; 4 posts are a start, a stop, a start and a request
to mix them up with; fifos of two messages, so that a third caller finds no room.
`registration_*`: four tuners and a table of three, so that it fills up.
`tuner_*`: three streaming threads, so that two old ones can be around with a new
one; two feeds with one pid, one with another and one of all pids.
`tuner_frontend`: all files of a header and two lines, two sections in every
order, and files with the other keys; two frequencies, one of them outside the
range of ATSC. `data_write`: pages of 2 bytes and 6 bytes in pieces of up to 5,
so that a write has up to three pages with a short or a full last one, and
another write follows. `log_file`: the main thread with three lines, one at
its start, "Exiting" and one of the destructors, another thread with one line,
one rotation.

Deadlock is not checked where the system may rightly stop: calls and starts are
bounded in `ControlChannel` and `FeedRequests`, bytes in `DataWrite`, lines in
`LogFile`, a program may end in `TunerStream`, and an oops ends `Registration`.
`tuner_frontend` checks it.

Fairness. Weak fairness of each caller's and of the daemon's steps
(`ControlChannel`, `FeedRequests`), of each thread (`TunerStream`), of a write
that is under way (`DataWrite`) and of a line that is under way (`LogFile`): the
scheduler runs a thread that can run. `LogFile` has strong fairness of taking the
mutex: who waits for a mutex that comes free again and again gets it.
`Frontend` has weak fairness of the DVB core's thread, which
`dvb_hdhomerun_fe_tune` asks to call it again (`*delay = 60 * HZ`), only while
the thread is not asleep in a request: nothing says that it wakes up, and
`TuneCatchesUp` has its staying awake as a condition. Which waits end is the
subject of `WaitsEnd` and `EveryWaitEnds`. No fairness
on calls, signals, starting, registering or stopping, on the feeds, on data from
the network, on lines or on rotation. `WaitsEnd`, `EveryWaitEnds` and
`StartedIsServed` say themselves that the daemon comes up and stays up.
`StopStream` and `Delete` poll `m_running` in a loop; weak fairness is enough
because threads that have left do not set it again and the number of threads that
come late is finite once the control thread is in that loop.

## 4. What is proved

All invariants and action properties of the passing runs are theorems, and so is
the refinement of `StreamPipe`. They
hold for every value of the constants that satisfies the named assumptions of
the modules, which TLC evaluates in every run. Each invariant named below was
checked with TLC on the constants of the run before it was proved.

`ControlChannelProofs`, for any sets of callers and tuners, any sizes of message
and fifo above zero and any bounds:

* `TypeCorrect`: `TypeOK` is inductive.
* `AnswersInOrder`: `InOrder` is inductive together with `TypeOK`. This is why it
  says more than its first line: that `taken` only grows follows from
  `control_fifo_kernel` being newer than `taken`, which needs the same of the
  daemon's hands, which needs it of `control_fifo_user` and that the three are in
  that order. The lemmas on `KfifoPut`, `KfifoGet`, `KfifoLeft` and `KfifoUnput`
  reduce every step to: the new content is a stretch of the old, or a stretch
  followed by a newer one.
* `NoAnswerSurvives` and `ReadyFollowsDaemon`: by `DaemonShape`, that the daemon
  is down exactly when it has no file open, has bytes only between read and
  write, and has no answers left from the last reset on.

`FeedRequestsProofs`, on top of the channel's invariants, for messages of one
byte, any callers, feeds and sizes of the fifos:

* `FeedTypeCorrect`: `FeedTypeOK`.
* `FeedsDoAgree`: `FeedsAgree`. What is true at rest follows from what is true on
  the way: `WillAgree` says of each feed that the last request about it that is
  still in the fifo or in the daemon's hands will bring `served` to `active`, or
  to what the caller inside `feedlock` will make of `active`. This needs that at
  most one caller has `feedlock` (`Locked`), that the daemon never holds a part of
  a message (`WholeBytes`), that a daemon which is down serves nothing
  (`NothingServed`) and that from the reset of the fifos on, as long as posts are
  refused, every active feed that is not astray is being stopped (`Refusing`). It does not need answers to be
  right, which is the point of the property.
* `AloneGetsOwnAnswer`: `OwnAnswerAlone`, by `OneCaller`: until calls cross there
  is one request in the whole channel, that of the one caller under way.

`RegistrationProofs`, for any finite set of names, any size of the table and any
failures:

* `TypeCorrect`: `TypeOK` is inductive.
* `IdsNeverMix`: `IdsAgree`; strengthened by `DownForgets` (a daemon that is down
  has no ids), which `ModuleExit` needs.
* `SoundUntilFailure`: `OopsNeedsFailure`; strengthened by the statement that
  until the first failure every device has drvdata, adapter and data device.
* `AdapterForEachTuner`: `AdapterPerTuner`, from the same statement.
* `RegionSuffices`: `RegionCovers`, by counting: the devices are an injection
  into the tuners of the first daemon, and the region has as many numbers.

`TunerStreamProofs`, for any feeds, pids and number of threads:

* `TypeCorrect`: `TypeOK`, with `RoomForThread`: where a thread is about to be
  created there is a place for it.
* `StreamIsServed`: `StreamServed` is inductive with the types; a thread that
  was not created (`lost`) is its one exception.
* `FeedsDoFlow`: `FeedsFlow`, by three steps that every command takes: the list
  of pids serves each undisturbed feed (`ListServes`), the device has the list
  unless a command was lost (`DeviceServes`), and the stream is on where the list
  is not empty (`StreamOn`).
* `IdleTunerStops`: `IdleStops`, by `NothingIdle`: each pid in the list is that of
  an active feed, the daemon wants a stream only for one, and the device streams
  only what the daemon wants, is about to stop, or could not stop.

`DataWriteProofs`, for any size of page, pieces and threads:

* `TypeCorrect`: `TypeOK`.
* `DeviceIsPipe`: `ImplementsPipe`. The initial states are those of the pipe and
  each step is one of `StreamPipe` or leaves its variables alone. A page handed
  over is a delivery because until writers mix the page holds the bytes that come
  next: behind what is delivered, within what is received.
* `CleanBytesArrive`: `AllDelivered`, by `CleanInv`. Two threads in a write have
  spoiled all they hold (`Collided`), so a thread with a clean byte in hand is
  alone, and the page holds what it hands over next; a thread after a collision
  hands over spoiled bytes only (`PageClean`). Clean bytes in the demultiplexer
  are in order (`DemuxInOrder`) and behind the place where an undisturbed thread
  goes on (`DemuxBehind`), and a clean byte that is not there is in somebody's
  hands (`CleanKept`).

`FrontendProofs`, for any files, models, frequencies and percentages:

* `TypeCorrect`: `TypeOK`.
* `LockIsOnFrequency`: `LockMeansTuned`, by `Tuned`: unless a `set_tuner_channel`
  failed, a `m_prevFreq` that stands for something is the device's channel, and
  a frequency that the daemon was told is set.
* `StrengthIsExact`: `StrengthExact`, by the arithmetic of the three conversions.
* `AdapterAsParsed`: the part of `AsConfigured` that depends on the state, with
  the parser's result (`Setting`) in the place of what the file means.
* `AdapterAsMeant`: `AsConfigured`, from that and `ParserFindsMeant`. It needs
  that a tuner's name is not empty (`SelfAssumption`; a name is the device's id,
  a hyphen and a number): pairs before the first header are stored under the
  empty section.

`ConfFileProofs`, for any sequence of lines:

* `ParserFindsMeant`: `GetSecValue` after `OpenIniFile` is `Meant`, for each key
  and each section with a name. `Found` is the statement for the first *n* lines:
  the map has the key exactly if one of them sets it, with the value of the first
  that does; `UnderNext` says that the section the loop carries along is that of
  the last header. The library's induction theorems do not work here, so
  `UpTo` is an induction for the *set* of the numbers that have the property, by
  its least counterexample (`LeastNumber`, from `WFMin`); `ReadLinesIsLoop` uses
  it to show that the recursive function of `ReadLines` exists.

`LogFileProofs`, for any finite set of threads, any number of lines and files:

* `TypeCorrect`: `TypeOK`, with `InLine`: a thread in a line has a number for it.
* `NeverAborts`: `NoAbort`, by `Chosen`: threads have lines only after `Options`,
  and from then on `m_logTo` is set.
* `NeverWritesToOldFile`: `NeverToOldFile`, an action property, by `Exclusive`
  (who opens or writes holds the mutex) and `NewFile` (a stream that a line is
  written to was opened after its newline, or has failed).
* `LinesAreKept`: `LinesKept`. `SkipOnce` is its first part: once a line was
  skipped the stream is open only between an open and its write. For the second
  part, `OneBuffer` says what is in `m_buffer` at each place of the one thread in
  a line, `Numbered` that its line is not one of those before, and `InFiles` that
  the files hold the lines that passed, each in one place. The number of places
  of `Places` is enough because a file is an injection into the lines.

Only model-checked is everything under fairness (`WaitsEnd`, `StartedIsServed`,
`StopReturns`, `ShutdownEnds`, `TuneCatchesUp`, `WritesEnd`, `LinesEnd`), which the
prover does not reach.

## 5. Not modelled

* `src/old/dvbhdhomerun.c`: the first driver, not built any more.
* `src/patches`, `src/v4l-dvb`, `src/debian`, `src/etc`: build, packaging and
  patches that are in the source already.
* Code that is never called: `Control::DMX_SET_PES_Filter`,
  `HdhomerunTuner::SetPesFilter`, `LogFile::underflow`.
* Operations that only return constants or print: `read_ber`, `read_snr`,
  `read_ucblocks`, `sleep`, `init`, `LogNetworkStat`, the debug macros.
* The inside of libhdhomerun, of the DVB core and of the C++ library: external,
  by what the code in `src/` sees of them.
* Races inside the unlocked fifo of later kernels, and a second daemon at a time.

## 6. Plan

1. *Done:* `Kfifo`, `ControlChannel`, `Registration`, `TunerStream`,
   `FeedRequests`, `ConfFile`, `Frontend`, `DataWrite` as an implementation of
   `StreamPipe`, `LogFile`; proofs of all their safety properties.
2. `KfifoRing`: the fifo with its two indices, without the lock, against `Kfifo`:
   a refinement for one producer and one consumer.
3. Two daemons at a time in `ControlChannel`.
