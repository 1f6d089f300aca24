--------------------------- MODULE FrontendProofs ---------------------------
(***************************************************************************)
(* Theorems about Frontend, for any configuration files, models,           *)
(* frequencies and strengths.                                              *)
(***************************************************************************)
EXTENDS Frontend, ConfFileProofs, TLAPS

-----------------------------------------------------------------------------
(* Type correctness.                                                       *)

\* dvb_hdhomerun_register has a frontend for every number.
LEMMA AttachType == \A type : Attach(type) \in {attach_dvbc, attach_dvbt, attach_atsc}
BY DEF Attach

\* The flags and the frequencies of TypeOK one by one.
LEMMA TypeOfEach ==
  TypeOK <=>
    /\ conf \in Files \cup Edits /\ model \in Models
    /\ fe \in {None} \cup [ops : {attach_dvbc, attach_dvbt, attach_atsc}, full : BOOLEAN]
    /\ daemon \in {"down", "up"} /\ pc \in {"set", "read", "set_asleep", "read_asleep"}
    /\ edited \in BOOLEAN /\ hasTuner \in BOOLEAN /\ locked \in BOOLEAN
    /\ chanLost \in BOOLEAN /\ told \in BOOLEAN
    /\ m_prevFreq \in Freqs \cup {0} /\ channel \in Freqs \cup {0} /\ asked \in Freqs \cup {0}
BY DEF TypeOK

\* The initial state has the types.
LEMMA InitTypeOK == Init => TypeOK
<1> SUFFICES ASSUME Init PROVE TypeOK
  OBVIOUS
<1> QED BY TypeOfEach DEF Init

\* A step that changes neither set-up nor tuning keeps the types.
LEMMA SameTypes ==
  ASSUME TypeOK, UNCHANGED <<setupVars, daemon, tunerVars, deviceVars, asked, told>>,
         pc' \in {"set", "read", "set_asleep", "read_asleep"}
  PROVE  TypeOK'
BY DEF TypeOK, setupVars, tunerVars, deviceVars

\* Every step keeps the types.
LEMMA NextTypeOK == TypeOK /\ [Next]_vars => TypeOK'
<1>0. SUFFICES ASSUME TypeOK, [Next]_vars PROVE TypeOK'
  OBVIOUS
<1>a. /\ conf \in Files \cup Edits /\ model \in Models
      /\ fe \in {None} \cup [ops : {attach_dvbc, attach_dvbt, attach_atsc}, full : BOOLEAN]
      /\ daemon \in {"down", "up"} /\ pc \in {"set", "read", "set_asleep", "read_asleep"}
      /\ edited \in BOOLEAN /\ hasTuner \in BOOLEAN /\ locked \in BOOLEAN
      /\ chanLost \in BOOLEAN /\ told \in BOOLEAN
      /\ m_prevFreq \in Freqs \cup {0} /\ channel \in Freqs \cup {0} /\ asked \in Freqs \cup {0}
  BY <1>0, TypeOfEach
<1> USE DEF setupVars, tunerVars, deviceVars, coreVars
<1>1. CASE DaemonStart
  <2>1. m_isDisabled \in BOOLEAN /\ m_useFullName \in BOOLEAN
    BY DEF m_isDisabled, m_useFullName
  <2>2. fe' \in {None} \cup [ops : {attach_dvbc, attach_dvbt, attach_atsc}, full : BOOLEAN]
    <3>1. [ops |-> Attach(m_type), full |-> m_useFullName]
            \in [ops : {attach_dvbc, attach_dvbt, attach_atsc}, full : BOOLEAN]
      BY <2>1, AttachType
    <3>2. fe' = fe \/ fe' = [ops |-> Attach(m_type), full |-> m_useFullName]
      BY <1>1 DEF DaemonStart
    <3> QED BY <1>a, <3>1, <3>2
  <2>3. hasTuner' \in BOOLEAN
    BY <1>1 DEF DaemonStart
  <2> QED BY <1>a, <1>1, <2>2, <2>3, TypeOfEach DEF DaemonStart, TypeOK
<1>2. CASE DaemonStartFails
  BY <1>0, <1>2 DEF DaemonStartFails, TypeOK
<1>3. CASE DaemonStop
  BY <1>0, <1>3 DEF DaemonStop, TypeOK
<1>4. ASSUME NEW file \in Edits, EditConf(file) PROVE TypeOK'
  <2>1. edited' \in BOOLEAN
    BY <1>4 DEF EditConf
  <2> QED BY <1>a, <1>4, <2>1 DEF EditConf, TypeOK
<1>5. CASE Reload
  BY <1>a, <1>5 DEF Reload, TypeOK
<1>6. CASE Reception
  <2>1. locked' \in BOOLEAN
    BY <1>6 DEF Reception
  <2> QED BY <1>a, <1>6, <2>1 DEF Reception, TypeOK
<1>7. ASSUME NEW f \in Freqs, Ask(f) PROVE TypeOK'
  BY <1>a, <1>7 DEF Ask, TypeOK
<1>8. CASE SetFrontend
  <2>1. told' \in BOOLEAN
    BY <1>8 DEF SetFrontend, Reached
  <2>2. /\ channel' \in Freqs \cup {0} /\ m_prevFreq' \in Freqs \cup {0}
        /\ locked' \in BOOLEAN /\ chanLost' \in BOOLEAN
    BY <1>a, <1>8 DEF SetFrontend, Tune, TuneSet
  <2> QED BY <1>a, <1>8, <2>1, <2>2 DEF SetFrontend, TypeOK
<1>9. CASE TuneRead \/ CoreWoken
  BY <1>0, <1>9, SameTypes DEF TuneRead, CoreWoken
<1>13. CASE CoreSleeps
  <2>1. told' \in BOOLEAN /\ pc' \in {"set_asleep", "read_asleep"}
    BY <1>a, <1>13 DEF CoreSleeps
  <2>2. /\ channel' \in Freqs \cup {0} /\ m_prevFreq' \in Freqs \cup {0}
        /\ locked' \in BOOLEAN /\ chanLost' \in BOOLEAN
    BY <1>a, <1>13 DEF CoreSleeps, Tune, TuneSet
  <2> QED BY <1>a, <1>13, <2>1, <2>2 DEF CoreSleeps, TypeOK
<1>10. CASE ReadStatusByProgram
  BY <1>0, <1>a, <1>10, SameTypes DEF ReadStatusByProgram
<1>11. ASSUME NEW s \in Strengths, ReadStrengthByProgram(s) PROVE TypeOK'
  BY <1>0, <1>a, <1>11, SameTypes DEF ReadStrengthByProgram
<1>12. CASE UNCHANGED vars
  BY <1>0, <1>a, <1>12, SameTypes DEF vars
<1> QED
  BY <1>0, <1>1, <1>2, <1>3, <1>4, <1>5, <1>6, <1>7, <1>8, <1>9, <1>10, <1>11, <1>12, <1>13
  DEF Next, CoreStep

\* Every variable holds a value of its kind: above all, the kernel attaches one
\* of its frontends whatever type the daemon sends.
THEOREM TypeCorrect == Spec => []TypeOK
BY InitTypeOK, NextTypeOK, PTL DEF Spec

-----------------------------------------------------------------------------
(* The adapter and the configuration.                                      *)

\* Until the file is changed behind it, an adapter is what the parser found.
AsParsed ==
  fe # None /\ ~edited =>
    fe.ops = Attach(m_type) /\ fe.full = m_useFullName /\ ~m_isDisabled

\* Only an edit changes what the parser finds.
LEMMA SameConf ==
  ASSUME UNCHANGED <<conf, model>>
  PROVE  m_type' = m_type /\ m_useFullName' = m_useFullName /\ m_isDisabled' = m_isDisabled
BY DEF m_type, ConfType, m_useFullName, m_isDisabled, Setting

\* What a configured tuner is given by dvb_hdhomerun_register is what the parser
\* found in the file of its daemon, also after later starts of the daemon, until
\* the file is changed while the adapter exists.
THEOREM AdapterAsParsed == Spec => []AsParsed
<1>1. Init => AsParsed
  BY DEF Init, AsParsed
<1>2. ASSUME AsParsed, [Next]_vars PROVE AsParsed'
  <2> USE DEF setupVars
  <2>1. CASE DaemonStart
    <3>1. UNCHANGED <<conf, edited, model>>
      BY <2>1 DEF DaemonStart
    <3>2. m_type' = m_type /\ m_useFullName' = m_useFullName /\ m_isDisabled' = m_isDisabled
      BY <3>1, SameConf
    <3>3. CASE fe = None /\ ~m_isDisabled
      <4>1. fe' = [ops |-> Attach(m_type), full |-> m_useFullName]
        BY <2>1, <3>3 DEF DaemonStart
      <4>2. fe'.ops = Attach(m_type) /\ fe'.full = m_useFullName
        BY <4>1
      <4>3. Attach(m_type)' = Attach(m_type)
        BY <3>2 DEF Attach, attach_dvbc, attach_dvbt, attach_atsc
      <4> QED BY <3>2, <3>3, <4>2, <4>3 DEF AsParsed
    <3>4. CASE ~(fe = None /\ ~m_isDisabled)
      <4>1. fe' = fe
        BY <2>1, <3>4 DEF DaemonStart
      <4>3. Attach(m_type)' = Attach(m_type)
        BY <3>2 DEF Attach, attach_dvbc, attach_dvbt, attach_atsc
      <4>4. None' = None
        BY DEF None, NoOps
      <4> QED BY <1>2, <3>1, <3>2, <4>1, <4>3, <4>4 DEF AsParsed
    <3> QED BY <3>3, <3>4
  <2>2. ASSUME UNCHANGED setupVars PROVE AsParsed'
    <3>1. m_type' = m_type /\ m_useFullName' = m_useFullName /\ m_isDisabled' = m_isDisabled
      BY <2>2, SameConf
    <3>2. Attach(m_type)' = Attach(m_type)
      BY <3>1 DEF Attach, attach_dvbc, attach_dvbt, attach_atsc
    <3>3. None' = None
      BY DEF None, NoOps
    <3> QED BY <1>2, <2>2, <3>1, <3>2, <3>3 DEF AsParsed
  <2>3. ASSUME NEW file \in Edits, EditConf(file) PROVE AsParsed'
    BY <2>3 DEF EditConf, AsParsed, None, NoOps
  <2>4. CASE Reload
    BY <2>4 DEF Reload, AsParsed, None, NoOps
  <2>5. CASE DaemonStartFails \/ DaemonStop \/ Reception \/ SetFrontend \/ TuneRead \/ ReadStatusByProgram
             \/ CoreSleeps \/ CoreWoken
    BY <2>2, <2>5 DEF DaemonStartFails, DaemonStop, Reception, SetFrontend, TuneRead, ReadStatusByProgram,
                      CoreSleeps, CoreWoken
  <2>6. ASSUME NEW f \in Freqs, Ask(f) PROVE AsParsed'
    BY <2>2, <2>6 DEF Ask
  <2>7. ASSUME NEW s \in Strengths, ReadStrengthByProgram(s) PROVE AsParsed'
    BY <2>2, <2>7 DEF ReadStrengthByProgram
  <2>8. CASE UNCHANGED vars
    BY <2>2, <2>8 DEF vars
  <2> QED BY <1>2, <2>1, <2>3, <2>4, <2>5, <2>6, <2>7, <2>8 DEF Next, CoreStep
<1> QED BY <1>1, <1>2, PTL DEF Spec

\* What the parser finds of this tuner is what the file means.
LEMMA SettingIsMeant ==
  ASSUME TypeOK, NEW key
  PROVE  Setting(key) = Meant(conf, Self, key)
<1>1. conf \in Seq(Line)
  BY FilesAssumption DEF TypeOK
<1> QED BY <1>1, SelfAssumption, ParserFindsMeant DEF Setting

\* The frontend that Attach chooses by the number of the type has the delivery
\* system that the file means, also where the type was not set.
LEMMA SystemIsMeant ==
  ASSUME TypeOK
  PROVE  Attach(m_type).delsys = MeantSystem
<1> DEFINE said == Meant(conf, Self, "tuner_type")
<1>1. ConfType = IF said = "DVB-C" THEN 1 ELSE IF said = "DVB-T" THEN 2 ELSE IF said = "ATSC" THEN 3 ELSE 0
  BY SettingIsMeant DEF ConfType, DVBC, DVBT, ATSC, NOT_SET
<1>2. m_type = IF ConfType # 0 THEN ConfType
               ELSE IF model = "hdhomerun_dvbt" THEN 1 ELSE IF model = "hdhomerun_atsc" THEN 3 ELSE 0
  BY DEF m_type, DVBC, ATSC, NOT_SET
<1>3. /\ Attach(1).delsys = "SYS_DVBC_ANNEX_A" /\ Attach(2).delsys = "SYS_DVBT"
      /\ Attach(3).delsys = "SYS_ATSC" /\ Attach(0).delsys = "SYS_ATSC"
  BY DEF Attach, attach_dvbc, attach_dvbt, attach_atsc
<1>4. MeantSystem = IF said = "DVB-T" THEN "SYS_DVBT"
                    ELSE IF said = "DVB-C" \/ (said # "ATSC" /\ model = "hdhomerun_dvbt") THEN "SYS_DVBC_ANNEX_A"
                    ELSE "SYS_ATSC"
  BY DEF MeantSystem
<1> HIDE DEF said
<1> QED BY <1>1, <1>2, <1>3, <1>4

\* An adapter is what its tuner's section of the configuration file means, for
\* files of any length: the first value under the section's headers decides on
\* the delivery system and on the name, and a disabled tuner has no adapter, until
\* the file is changed while the adapter exists.
THEOREM AdapterAsMeant == Spec => []AsConfigured
<1>1. TypeOK /\ AsParsed => AsConfigured
  BY SettingIsMeant, SystemIsMeant DEF AsParsed, AsConfigured, m_useFullName, m_isDisabled
<1> QED BY <1>1, TypeCorrect, AdapterAsParsed, PTL

-----------------------------------------------------------------------------
(* The lock and the strength.                                              *)

\* m_prevFreq, as long as it stands for something, is the frequency of the
\* device; and a frequency that was told is set.  Only a failed
\* set_tuner_channel breaks this.
Tuned ==
  ~chanLost => (m_prevFreq # 0 => channel = m_prevFreq) /\ (told => channel = asked)

\* HdhomerunTuner::Tune, also where it skips its work, leaves the device on the
\* frequency that was asked for.
LEMMA TuneTuned ==
  ASSUME Tuned, Tune(asked), asked # 0, asked' = asked
  PROVE  Tuned'
<1>1. CASE TuneSkipped(asked) /\ UNCHANGED <<m_prevFreq, deviceVars>>
  <2>1. m_prevFreq = asked /\ UNCHANGED <<m_prevFreq, channel, chanLost>>
    BY <1>1 DEF TuneSkipped, deviceVars
  <2> QED BY <2>1 DEF Tuned
<1>2. CASE TuneSet(asked)
  BY <1>2 DEF TuneSet, Tuned
<1> QED BY <1>1, <1>2 DEF Tune

\* Every step keeps this.
LEMMA NextTuned == TypeOK /\ Tuned /\ [Next]_vars => Tuned'
<1>0. SUFFICES ASSUME TypeOK, Tuned, [Next]_vars PROVE Tuned'
  OBVIOUS
<1> USE DEF setupVars, tunerVars, deviceVars, coreVars
<1>1. CASE DaemonStart
  BY <1>0, <1>1 DEF DaemonStart, Tuned
<1>2. CASE DaemonStartFails \/ DaemonStop \/ Reception \/ TuneRead \/ ReadStatusByProgram \/ CoreWoken
  BY <1>0, <1>2 DEF DaemonStartFails, DaemonStop, Reception, TuneRead, ReadStatusByProgram, CoreWoken, Tuned
<1>3. ASSUME NEW file \in Edits, EditConf(file) PROVE Tuned'
  BY <1>0, <1>3 DEF EditConf, Tuned
<1>4. CASE Reload
  BY <1>0, <1>4 DEF Reload, Tuned
<1>5. ASSUME NEW f \in Freqs, Ask(f) PROVE Tuned'
  BY <1>0, <1>5 DEF Ask, Tuned
<1>6. CASE SetFrontend
  <2>1. asked # 0 /\ asked' = asked /\ told' = Reached
    BY <1>6 DEF SetFrontend
  <2>2. CASE ~Reached
    <3>1. UNCHANGED <<m_prevFreq, channel, chanLost>>
      BY <1>6, <2>2 DEF SetFrontend
    <3> QED BY <1>0, <2>1, <2>2, <3>1 DEF Tuned
  <2>3. CASE Reached
    <3>1. Tune(asked)
      BY <1>6, <2>3 DEF SetFrontend
    <3> QED BY <1>0, <2>1, <3>1, TuneTuned
  <2> QED BY <2>2, <2>3
<1>9. CASE CoreSleeps
  <2>1. asked' = asked
    BY <1>9 DEF CoreSleeps
  <2>2. CASE Tune(asked) /\ asked # 0
    BY <1>0, <2>1, <2>2, TuneTuned
  <2>3. CASE UNCHANGED <<m_prevFreq, deviceVars>> /\ told' \in {FALSE, told}
    BY <1>0, <2>1, <2>3 DEF Tuned
  <2> QED BY <1>9, <2>2, <2>3 DEF CoreSleeps
<1>7. ASSUME NEW s \in Strengths, ReadStrengthByProgram(s) PROVE Tuned'
  BY <1>0, <1>7 DEF ReadStrengthByProgram, Tuned
<1>8. CASE UNCHANGED vars
  BY <1>0, <1>8 DEF vars, Tuned
<1> QED BY <1>0, <1>1, <1>2, <1>3, <1>4, <1>5, <1>6, <1>7, <1>8, <1>9 DEF Next, CoreStep

\* A measured lock is a lock on the frequency that the DVB core asked for,
\* unless it could not tell the daemon, or the daemon the device: Tune skips
\* only what is already done, also when the daemon was started again in between.
THEOREM LockIsOnFrequency == Spec => []LockMeansTuned
<1>1. Init => Tuned
  BY DEF Init, Tuned
<1>2. Tuned => LockMeansTuned
  BY DEF Tuned, LockMeansTuned
<1> QED BY <1>1, <1>2, InitTypeOK, NextTypeOK, NextTuned, PTL DEF Spec

\* The remainder by 2^16 of what is in its range, or 2^16 above or below it.
LEMMA Mod16 ==
  ASSUME NEW n \in Int, 0 <= n, n < 65536
  PROVE  /\ n % 65536 = n /\ (n + 65536) % 65536 = n /\ (n - 65536) % 65536 = n
OBVIOUS

\* Integer division rounds down.
LEMMA DivBy100 ==
  ASSUME NEW n \in Nat
  PROVE  /\ n \div 100 \in Int
         /\ 100 * (n \div 100) <= n /\ n < 100 * ((n \div 100) + 1)
OBVIOUS

\* A percentage of 65535 survives the 16-bit types of the message and of the
\* DVB API, although the message's type has a sign.
LEMMA StrengthKept ==
  ASSUME NEW s \in 0..100
  PROVE  /\ FeStrength(s) = ReadSignalStrength(s)
         /\ 100 * FeStrength(s) <= 65535 * s /\ 65535 * s < 100 * (FeStrength(s) + 1)
<1> DEFINE v == ReadSignalStrength(s)
<1>0. s \in Int /\ 0 <= s /\ s <= 100
  OBVIOUS
<1>1. v \in Int /\ 100 * v <= 65535 * s /\ 65535 * s < 100 * (v + 1)
  BY DivBy100 DEF ReadSignalStrength
<1> HIDE DEF v
<1>2. v \in Int /\ 0 <= v /\ v < 65536
  BY <1>0, <1>1
<1>3. ToU16(v) = v
  BY <1>2, Mod16 DEF ToU16
<1>4. CASE v < 32768
  <2>1. v + 32768 \in Int /\ 0 <= v + 32768 /\ v + 32768 < 65536
    BY <1>2, <1>4
  <2>2. (v + 32768) % 65536 = v + 32768
    BY <2>1, Mod16
  <2>3. ToInt16(v) = v
    BY <1>2, <2>2 DEF ToInt16
  <2> QED BY <1>1, <1>3, <2>3 DEF FeStrength, v
<1>5. CASE v >= 32768
  <2>1. v - 32768 \in Int /\ 0 <= v - 32768 /\ v - 32768 < 65536 /\ v + 32768 = (v - 32768) + 65536
    BY <1>2, <1>5
  <2>2. (v + 32768) % 65536 = v - 32768
    BY <2>1, Mod16
  <2>3. ToInt16(v) = v - 65536
    BY <1>2, <2>2 DEF ToInt16
  <2>4. (v - 65536) % 65536 = v
    BY <1>2, Mod16
  <2>5. ToU16(ToInt16(v)) = v
    BY <2>3, <2>4 DEF ToU16
  <2> QED BY <1>1, <1>3, <2>5 DEF FeStrength, v
<1> QED BY <1>2, <1>4, <1>5

\* A measured strength is the largest number not above the percentage of 65535.
THEOREM StrengthIsExact == Spec => []StrengthExact
<1>1. Init => StrengthExact
  BY DEF Init, StrengthExact, Nothing
<1>2. ASSUME StrengthExact, [Next]_vars PROVE StrengthExact'
  <2>1. ASSUME out' = Nothing \/ out' = [op |-> "exit"] PROVE StrengthExact'
    BY <2>1 DEF StrengthExact, Nothing
  <2>2. ASSUME NEW v, NEW b, out' = [op |-> "status", value |-> v, measured |-> b] PROVE StrengthExact'
    BY <2>2 DEF StrengthExact
  <2>3. CASE DaemonStart \/ DaemonStartFails \/ DaemonStop \/ Reload \/ Reception \/ SetFrontend \/ CoreSleeps
    BY <2>1, <2>3 DEF DaemonStart, DaemonStartFails, DaemonStop, Reload, Reception, SetFrontend, CoreSleeps
  <2>4. ASSUME NEW file \in Edits, EditConf(file) PROVE StrengthExact'
    BY <2>1, <2>4 DEF EditConf
  <2>5. ASSUME NEW f \in Freqs, Ask(f) PROVE StrengthExact'
    BY <2>1, <2>5 DEF Ask
  <2>6. CASE TuneRead \/ CoreWoken \/ ReadStatusByProgram
    <3>1. out' = Nothing \/ \E v, b : out' = [op |-> "status", value |-> v, measured |-> b]
      BY <2>6 DEF TuneRead, CoreWoken, ReadStatusByProgram, Status
    <3> QED BY <2>1, <2>2, <3>1
  <2>7. ASSUME NEW s \in Strengths, ReadStrengthByProgram(s) PROVE StrengthExact'
    <3>1. s \in 0..100
      BY StrengthsAssumption
    <3>2. CASE out' = [op |-> "strength", percent |-> s, value |-> FeStrength(s), measured |-> TRUE]
      <4>1. out'.value = FeStrength(s) /\ out'.percent = s
        BY <3>2
      <4> QED BY <3>1, <4>1, StrengthKept DEF StrengthExact
    <3>3. CASE \E v \in AnyStrength :
                 out' = [op |-> "strength", percent |-> s, value |-> v, measured |-> FALSE]
      BY <3>3 DEF StrengthExact
    <3> QED BY <2>7, <3>2, <3>3 DEF ReadStrengthByProgram
  <2>8. CASE UNCHANGED vars
    BY <1>2, <2>8 DEF vars, StrengthExact
  <2> QED BY <1>2, <2>3, <2>4, <2>5, <2>6, <2>7, <2>8 DEF Next, CoreStep
<1> QED BY <1>1, <1>2, PTL DEF Spec

=============================================================================
