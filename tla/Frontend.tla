------------------------------ MODULE Frontend ------------------------------
(***************************************************************************)
(* One tuner seen from its DVB frontend: how it gets its type from the     *)
(* configuration, and how it is tuned and asked for its status             *)
(* (dvb_hdhomerun_fe.c; HdhomerunTuner's constructor, Tune, ReadStatus and *)
(* ReadSignalStrength; the handlers of hdhomerun_control.cpp).             *)
(*                                                                         *)
(* The DVB core's thread calls the frontend's tune again and again: set    *)
(* the frontend, then read the status.  A program reads status and         *)
(* strength at any time.  Neither looks at the result of post_and_wait:    *)
(* without an answer, or for a tuner that the daemon does not have, they   *)
(* return what the message on the stack holds, which may be anything.      *)
(* The DVB core's thread, which gets no signal, may also stay in           *)
(* post_and_wait when its answer comes too early or its request is lost    *)
(* (EveryWaitEnds of ControlChannel), until another caller's answer wakes  *)
(* it, if one ever does.                                                   *)
(*                                                                         *)
(* A frequency is a number above 0, as m_prevFreq = 0 stands for none.     *)
(* What the last operation returned to its caller is in out, and whether   *)
(* it was measured.                                                        *)
(***************************************************************************)
EXTENDS ConfFile, FiniteSets

CONSTANTS Self,       \* name of the tuner: its section in the configuration
          Freqs,      \* frequencies that programs ask for
          Files,      \* configuration files there may be at first
          Edits,      \* those somebody may replace the file by
          Models,     \* model strings of the device
          Strengths   \* values of signal_strength, in percent

ASSUME FreqsAssumption == Freqs \subseteq Nat \ {0}
ASSUME StrengthsAssumption == Strengths \subseteq 0..100
ASSUME SelfAssumption == Self # ""
ASSUME FilesAssumption == Files \cup Edits \subseteq Seq(Line)

VARIABLES conf,         \* the configuration file
          edited,       \* history: it was changed while the adapter existed
          model,        \* what hdhomerun_device_get_model_str returns
          fe,           \* the kernel's frontend: its ops and whether its name is full
          daemon,       \* "down" or "up"
          hasTuner,     \* the daemon has this tuner, with its kernel id
          m_prevFreq,
          channel,      \* the frequency the device is tuned to
          locked,       \* symbol_error_quality = 100
          chanLost,     \* history: the last set_tuner_channel failed
          asked,        \* the frequency the DVB core wants, 0: none
          told,         \* history: the daemon has done the last set_frontend
          pc,           \* where the DVB core's thread is in dvb_hdhomerun_fe_tune
          out           \* what the operation just made returned

setupVars == <<conf, edited, model, fe>>
tunerVars == <<hasTuner, m_prevFreq>>
deviceVars == <<channel, locked, chanLost>>
coreVars == <<asked, told, pc>>
vars == <<setupVars, daemon, tunerVars, deviceVars, coreVars, out>>

\* What a frontend of the kernel says of itself: the delivery system and the
\* range of frequencies, outside of which the DVB core tunes nothing.
attach_dvbt == [delsys |-> "SYS_DVBT", low |-> 50500000, high |-> 862000000]
attach_dvbc == [delsys |-> "SYS_DVBC_ANNEX_A", low |-> 51000000, high |-> 858000000]
attach_atsc == [delsys |-> "SYS_ATSC", low |-> 54000000, high |-> 858000000]

NoOps == [delsys |-> "none", low |-> 0, high |-> 0]
None == [ops |-> NoOps, full |-> FALSE]
Nothing == [op |-> "nothing"]

\* What an uninitialised message may show.
AnyStatus == {"lock", "nolock"}
AnyStrength == {0, 65535}

\* HdhomerunTuner::Type
NOT_SET == 0
DVBC == 1
DVBT == 2
ATSC == 3

Init ==
  /\ conf \in Files /\ edited = FALSE /\ model \in Models /\ fe = None
  /\ daemon = "down" /\ hasTuner = FALSE /\ m_prevFreq = 0
  /\ channel = 0 /\ locked = FALSE /\ chanLost = FALSE
  /\ asked = 0 /\ told = FALSE /\ pc = "set" /\ out = Nothing

-----------------------------------------------------------------------------
(* Set-up of the tuner.                                                    *)

\* A value of this tuner's section.
Setting(key) == GetSecValue(OpenIniFile(conf), Self, key)

\* m_type after the constructor has looked at the configuration.
ConfType ==
  LET said == Setting("tuner_type")
  IN IF said = "DVB-C" THEN DVBC ELSE IF said = "DVB-T" THEN DVBT ELSE IF said = "ATSC" THEN ATSC ELSE NOT_SET

\* and after it has looked at the model of the device.
m_type ==
  IF ConfType # NOT_SET THEN ConfType
  ELSE IF model = "hdhomerun_dvbt" THEN DVBC ELSE IF model = "hdhomerun_atsc" THEN ATSC ELSE NOT_SET

m_isDisabled == Setting("disable") = "true"
m_useFullName == Setting("use_full_name") = "true"

\* Mutant of Attach: no frontend for a type that is not set.
AttachNoDefault(type) ==
  IF type = 1 THEN attach_dvbc ELSE IF type = 2 THEN attach_dvbt ELSE IF type = 3 THEN attach_atsc ELSE NoOps

\* dvb_hdhomerun_register attaches a frontend by the number of the type, that
\* of type 3 for any other number.
Attach(type) ==
  IF type = 1 THEN attach_dvbc ELSE IF type = 2 THEN attach_dvbt ELSE attach_atsc

\* The daemon starts: the constructor of the tuner and, unless it is disabled,
\* its registration.  The kernel keeps a frontend that it already has.
DaemonStart ==
  /\ daemon = "down"
  /\ daemon' = "up"
  /\ hasTuner' = ~m_isDisabled
  /\ m_prevFreq' = 0
  /\ fe' = IF fe = None /\ ~m_isDisabled THEN [ops |-> Attach(m_type), full |-> m_useFullName] ELSE fe
  /\ out' = Nothing
  /\ UNCHANGED <<conf, edited, model, deviceVars, coreVars>>

\* The model is needed and the device does not give it: exit(-1).
DaemonStartFails ==
  /\ daemon = "down" /\ ConfType = NOT_SET
  /\ out' = [op |-> "exit"]
  /\ UNCHANGED <<setupVars, daemon, tunerVars, deviceVars, coreVars>>

\* The daemon ends; the device stays as it is.
DaemonStop ==
  /\ daemon = "up"
  /\ daemon' = "down"
  /\ hasTuner' = FALSE
  /\ out' = Nothing
  /\ UNCHANGED <<setupVars, m_prevFreq, deviceVars, coreVars>>

\* Somebody edits the file between two starts.
EditConf(file) ==
  /\ daemon = "down" /\ file # conf
  /\ conf' = file
  /\ edited' = (edited \/ fe # None)
  /\ out' = Nothing
  /\ UNCHANGED <<model, fe, daemon, tunerVars, deviceVars, coreVars>>

\* The DVB core's thread is in a post_and_wait that may not end.
Asleep == pc \in {"set_asleep", "read_asleep"}

\* The driver is removed, which no thread may be in, and loaded again.
Reload ==
  /\ daemon = "down" /\ fe # None /\ ~Asleep
  /\ fe' = None
  /\ edited' = FALSE
  /\ asked' = 0 /\ told' = FALSE /\ pc' = "set"
  /\ out' = Nothing
  /\ UNCHANGED <<conf, model, daemon, tunerVars, deviceVars>>

-----------------------------------------------------------------------------
(* The tuner.                                                              *)

\* Mutant of TuneSkipped: any lock will do.
TuneSkippedByLock(f) == locked

\* Tune returns at once: the same frequency, and get_tuner_status succeeded
\* and shows a lock.
TuneSkipped(f) == m_prevFreq = f /\ locked

\* Tune does its work: also when get_tuner_status fails.  wait_for_lock may end
\* with or without a lock, and m_prevFreq is set whatever failed.
TuneSet(f) ==
  /\ \/ channel' = f /\ locked' \in BOOLEAN /\ chanLost' = FALSE
     \/ chanLost' = TRUE /\ UNCHANGED <<channel, locked>>
  /\ m_prevFreq' = f

Tune(f) ==
  \/ TuneSkipped(f) /\ UNCHANGED <<m_prevFreq, deviceVars>>
  \/ TuneSet(f)

\* What ReadStatus may return: no lock if get_tuner_status fails.
ReadStatus == {"nolock"} \cup (IF locked THEN {"lock"} ELSE {})

\* Conversions of the two messages and of the frontend.
ToInt16(n) == ((n + 32768) % 65536) - 32768
ToU16(n) == n % 65536

\* ReadSignalStrength, for s percent.
ReadSignalStrength(s) == (65535 * s) \div 100

\* The reception changes.
Reception ==
  /\ channel # 0
  /\ locked' = ~locked
  /\ out' = Nothing
  /\ UNCHANGED <<setupVars, daemon, tunerVars, channel, chanLost, coreVars>>

-----------------------------------------------------------------------------
(* The frontend.                                                           *)

\* The daemon is there and finds the tuner of the message (GetTuner).
Reached == daemon = "up" /\ hasTuner

\* A program asks the DVB core for a frequency of the frontend's range.
Ask(f) ==
  /\ fe # None /\ asked # f
  /\ fe.ops.low <= f /\ f <= fe.ops.high
  /\ asked' = f
  /\ told' = FALSE
  /\ out' = Nothing
  /\ UNCHANGED <<setupVars, daemon, tunerVars, deviceVars, pc>>

\* dvb_hdhomerun_fe_set_frontend in the DVB core's thread; FE_SET_Frontend of
\* the daemon.  Without a daemon nobody is told.
SetFrontend ==
  /\ pc = "set" /\ asked # 0
  /\ IF Reached THEN Tune(asked) ELSE UNCHANGED <<m_prevFreq, deviceVars>>
  /\ told' = Reached
  /\ pc' = "read"
  /\ out' = Nothing
  /\ UNCHANGED <<setupVars, daemon, hasTuner, asked>>

\* The status that a frontend hands out, and whether it was measured.
Status ==
  IF Reached THEN {[op |-> "status", value |-> s, measured |-> TRUE] : s \in ReadStatus}
  ELSE {[op |-> "status", value |-> s, measured |-> FALSE] : s \in AnyStatus}

\* Mutant of TuneRead: the thread ends its loop with the first status.
TuneReadOnce ==
  /\ pc = "read"
  /\ out' \in Status
  /\ UNCHANGED <<setupVars, daemon, tunerVars, deviceVars, coreVars>>

\* dvb_hdhomerun_fe_tune goes on with the status, and comes again.
TuneRead ==
  /\ pc = "read"
  /\ pc' = "set"
  /\ out' \in Status
  /\ UNCHANGED <<setupVars, daemon, tunerVars, deviceVars, asked, told>>

\* The thread's post_and_wait does not return: the answer of the daemon was
\* ignored, or the request never came to it.
CoreSleeps ==
  /\ daemon = "up"
  /\ \/ /\ pc = "set" /\ asked # 0 /\ pc' = "set_asleep"
        /\ \/ Reached /\ Tune(asked) /\ told' = TRUE
           \/ UNCHANGED <<m_prevFreq, deviceVars>> /\ told' = FALSE
     \/ /\ pc = "read" /\ pc' = "read_asleep"
        /\ UNCHANGED <<m_prevFreq, deviceVars, told>>
  /\ out' = Nothing
  /\ UNCHANGED <<setupVars, daemon, hasTuner, asked>>

\* Somebody else's answer wakes the thread, which takes it for its own.
CoreWoken ==
  /\ daemon = "up"
  /\ \/ pc = "set_asleep" /\ pc' = "read" /\ out' = Nothing
     \/ /\ pc = "read_asleep" /\ pc' = "set"
        /\ out' \in {[op |-> "status", value |-> s, measured |-> FALSE] : s \in AnyStatus}
  /\ UNCHANGED <<setupVars, daemon, tunerVars, deviceVars, asked, told>>

\* dvb_hdhomerun_fe_read_status for a program, which a signal may interrupt.
ReadStatusByProgram ==
  /\ fe # None
  /\ out' \in Status \cup {[op |-> "status", value |-> s, measured |-> FALSE] : s \in AnyStatus}
  /\ UNCHANGED <<setupVars, daemon, tunerVars, deviceVars, coreVars>>

\* Mutant of FeStrength: the sign of the message is kept.
FeStrengthSigned(s) == ToInt16(ToU16(ReadSignalStrength(s)))

\* The strength through uint16_t, the message's int16_t and the DVB API's u16.
FeStrength(s) == ToU16(ToInt16(ToU16(ReadSignalStrength(s))))

\* dvb_hdhomerun_fe_read_signal_strength.  If get_tuner_status fails the daemon
\* computes with an uninitialised struct.
ReadStrengthByProgram(s) ==
  /\ fe # None
  /\ \/ /\ Reached
        /\ out' = [op |-> "strength", percent |-> s, value |-> FeStrength(s), measured |-> TRUE]
     \/ \E v \in AnyStrength :
          out' = [op |-> "strength", percent |-> s, value |-> v, measured |-> FALSE]
  /\ UNCHANGED <<setupVars, daemon, tunerVars, deviceVars, coreVars>>

-----------------------------------------------------------------------------
CoreStep == SetFrontend \/ TuneRead

Next ==
  \/ DaemonStart \/ DaemonStartFails \/ DaemonStop \/ Reload
  \/ \E file \in Edits : EditConf(file)
  \/ Reception \/ \E f \in Freqs : Ask(f)
  \/ CoreStep \/ CoreSleeps \/ CoreWoken \/ ReadStatusByProgram
  \/ \E s \in Strengths : ReadStrengthByProgram(s)

Spec == Init /\ [][Next]_vars

\* The DVB core's thread runs when it is not asleep: dvb_hdhomerun_fe_tune asks
\* to be called again after 60 seconds.  It does not have to be woken, and
\* nobody has to start the daemon or to ask for a frequency.
FairSpec == Spec /\ WF_vars(CoreStep)

-----------------------------------------------------------------------------
(* Properties.                                                             *)

\* Every variable holds a value of its kind.
TypeOK ==
  /\ conf \in Files \cup Edits /\ model \in Models
  /\ fe \in {None} \cup [ops : {attach_dvbc, attach_dvbt, attach_atsc}, full : BOOLEAN]
  /\ daemon \in {"down", "up"} /\ pc \in {"set", "read", "set_asleep", "read_asleep"}
  /\ {edited, hasTuner, locked, chanLost, told} \subseteq BOOLEAN
  /\ {m_prevFreq, channel, asked} \subseteq Freqs \cup {0}

\* The delivery system that a user means with the file, or else that of the
\* device (a "hdhomerun_dvbt" is taken for DVB-C, anything unknown for ATSC).
MeantSystem ==
  LET said == Meant(conf, Self, "tuner_type")
  IN IF said = "DVB-T" THEN "SYS_DVBT"
     ELSE IF said = "DVB-C" \/ (said # "ATSC" /\ model = "hdhomerun_dvbt") THEN "SYS_DVBC_ANNEX_A"
     ELSE "SYS_ATSC"

\* An adapter is what the first value under its tuner's headers says, however
\* often a section is taken up again and whatever stands in other sections and
\* in comments; an adapter exists although its tuner is disabled, or is not what
\* the file says, only after the file was changed behind it.
AsConfigured ==
  fe # None /\ ~edited =>
    /\ fe.ops.delsys = MeantSystem
    /\ fe.full = (Meant(conf, Self, "use_full_name") = "true")
    /\ Meant(conf, Self, "disable") # "true"

\* A lock that was measured is a lock on the frequency the DVB core asked for,
\* unless it could not tell the daemon, or the daemon the device: Tune skips
\* only what is already done (m_prevFreq against the device's channel).
LockMeansTuned ==
  out.op = "status" /\ out.measured /\ out.value = "lock" /\ told /\ ~chanLost =>
    channel = asked

\* A measured strength keeps its value through three 16-bit types: it is the
\* largest number that is not above the percentage of 65535.
StrengthExact ==
  out.op = "strength" /\ out.measured =>
    100 * out.value <= 65535 * out.percent /\ 65535 * out.percent < 100 * (out.value + 1)

\* A frequency that the daemon missed, because it was down or lost its memory,
\* is set in the end: with a daemon that stays up and from some time on answers
\* the DVB core's thread, the device is tuned to what the DVB core asks for,
\* unless a set_tuner_channel failed and was never repeated.
TuneCatchesUp ==
  \A f \in Freqs :
    <>[](Reached /\ asked = f /\ ~chanLost /\ ~Asleep) => <>[](channel = f)

=============================================================================
