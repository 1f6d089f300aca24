------------------------- MODULE RegistrationProofs -------------------------
(***************************************************************************)
(* Theorems about Registration, for any set of tuners, any size of the     *)
(* device table and any failures.                                          *)
(***************************************************************************)
EXTENDS Registration, FiniteSetTheorems, SequenceTheorems, TLAPS

-----------------------------------------------------------------------------
(* The parts of an ioctl.                                                  *)

\* dvb_hdhomerun_data_init keeps the types of what it changes.
LEMMA DataInitType ==
  ASSUME TypeOK, DataInit
  PROVE  class' \in BOOLEAN /\ region' \in Nat /\ first' \subseteq Names
<1>1. Cardinality(m_tuners) \in Nat
  BY NamesAssumption, FS_Subset, FS_CardinalityType DEF TypeOK
<1> QED BY <1>1 DEF DataInit, TypeOK

\* A new device is the last of the table; the others stay where they were.
LEMMA AppendDevice ==
  ASSUME NEW S, NEW s \in Seq(S), NEW e \in S
  PROVE  /\ Append(s, e) \in Seq(S)
         /\ Len(Append(s, e)) = Len(s) + 1
         /\ Len(s) \in Nat
         /\ DOMAIN s = 1..Len(s)
         /\ DOMAIN Append(s, e) = 1..Len(s) + 1
         /\ \A i \in 1..Len(s) : Append(s, e)[i] = s[i]
         /\ Append(s, e)[Len(s) + 1] = e
<1>1. Len(s) \in Nat /\ DOMAIN s = 1..Len(s)
  BY LenProperties
<1>2. /\ Append(s, e) \in Seq(S)
      /\ Len(Append(s, e)) = Len(s) + 1
      /\ \A i \in 1..Len(s) : Append(s, e)[i] = s[i]
      /\ Append(s, e)[Len(s) + 1] = e
  BY <1>1, AppendProperties
<1> QED BY <1>1, <1>2, LenProperties

-----------------------------------------------------------------------------
(* Type correctness.                                                       *)

\* The initial state has the types.
LEMMA InitTypeOK == Init => TypeOK
<1> SUFFICES ASSUME Init PROVE TypeOK
  OBVIOUS
<1>1. drvdata \in Seq(Names \cup {Null}) /\ Len(drvdata) = 0
  BY EmptySeq DEF Init
<1>2. Len(drvdata) <= MaxTuners
  BY <1>1, MaxTunersAssumption
<1>3. kernelId \in [Names -> Ids \cup {NoId}]
  BY DEF Init
<1> QED BY <1>1, <1>2, <1>3 DEF Init, TypeOK

\* Every step keeps the types.
LEMMA NextTypeOK == TypeOK /\ [Next]_vars => TypeOK'
<1> SUFFICES ASSUME TypeOK, [Next]_vars PROVE TypeOK'
  OBVIOUS
<1> USE DEF TypeOK
<1>0. /\ MaxTuners \in Nat /\ Len(drvdata) \in Nat /\ DOMAIN drvdata = 1..Len(drvdata)
  BY MaxTunersAssumption, LenProperties
<1>1. ASSUME NEW found \in SUBSET Names, Discover(found) PROVE TypeOK'
  BY <1>1 DEF Discover, kernelVars
<1>2. ASSUME NEW n \in todo, RegisterNoData(n) PROVE TypeOK'
  BY <1>2 DEF RegisterNoData, IoctlError, kernelVars
<1>3. ASSUME NEW n \in todo, RegisterOops(n) PROVE TypeOK'
  BY <1>3, DataInitType DEF RegisterOops, daemonVars
<1>4. ASSUME NEW n \in todo, RegisterKnown(n) PROVE TypeOK'
  <2>1. PICK i \in DOMAIN drvdata : IoctlId(n, i - 1)
    BY <1>4 DEF RegisterKnown
  <2>2. i - 1 \in Ids
    BY <1>0 DEF Ids
  <2>3. kernelId' \in [Names -> Ids \cup {NoId}] /\ todo' \subseteq m_tuners'
    BY <2>1, <2>2 DEF IoctlId
  <2>4. class' \in BOOLEAN /\ region' \in Nat /\ first' \subseteq Names
    BY <1>4, DataInitType DEF RegisterKnown
  <2> QED BY <1>4, <2>1, <2>3, <2>4 DEF RegisterKnown, IoctlId
<1>5. ASSUME NEW n \in todo, RegisterFull(n) PROVE TypeOK'
  BY <1>5, DataInitType DEF RegisterFull, IoctlError
<1>6. ASSUME NEW n \in todo, NEW fails, RegisterNew(n, fails) PROVE TypeOK'
  <2>1. Len(drvdata) < MaxTuners /\ Len(drvdata) \in Ids
    BY <1>0, <1>6 DEF RegisterNew, TableHasRoom, Ids
  <2>2. kernelId' \in [Names -> Ids \cup {NoId}] /\ todo' \subseteq m_tuners'
    BY <1>6, <2>1 DEF RegisterNew, IoctlId
  <2>3. adapters' \subseteq Ids /\ data_states' \subseteq Ids
    BY <1>6, <2>1 DEF RegisterNew, DataCreateDevice
  <2>4. drvdata' \in Seq(Names \cup {Null}) /\ Len(drvdata') <= MaxTuners
    <3>1. PICK e \in Names \cup {Null} : drvdata' = Append(drvdata, e)
      BY <1>6 DEF RegisterNew
    <3> QED BY <1>0, <2>1, <3>1, AppendDevice
  <2>5. class' \in BOOLEAN /\ region' \in Nat /\ first' \subseteq Names
    BY <1>6, DataInitType DEF RegisterNew
  <2> QED BY <1>6, <2>2, <2>3, <2>4, <2>5 DEF RegisterNew, IoctlId
<1>7. CASE StartControl
  BY <1>7 DEF StartControl, kernelVars
<1>8. CASE DaemonStop
  BY <1>8 DEF DaemonStop, kernelVars
<1>9. CASE ModuleExit
  <2>1. drvdata' \in Seq(Names \cup {Null}) /\ Len(drvdata') <= MaxTuners
    <3>1. <<>> \in Seq(Names \cup {Null}) /\ Len(<<>>) = 0
      BY EmptySeq
    <3>2. drvdata' = <<>> \/ drvdata' = drvdata
      BY <1>9 DEF ModuleExit
    <3>3. CASE drvdata' = drvdata
      BY <3>3
    <3>4. CASE drvdata' = <<>>
      <4>1. drvdata' \in Seq(Names \cup {Null}) /\ Len(drvdata') = 0
        BY <3>1, <3>4
      <4> QED BY <1>0, <4>1
    <3> QED BY <3>2, <3>3, <3>4
  <2>2. CASE CleanExit
    <3>1. /\ adapters' = {} /\ data_states' = {} /\ region' = 0 /\ first' = {}
          /\ class' \in BOOLEAN
          /\ failed' = FALSE /\ oops' = oops
      BY <1>9, <2>2 DEF ModuleExit
    <3>2. UNCHANGED daemonVars
      BY <1>9 DEF ModuleExit
    <3> QED BY <2>1, <3>1, <3>2 DEF daemonVars
  <2>3. CASE ~CleanExit
    BY <1>9, <2>1, <2>3 DEF ModuleExit, daemonVars
  <2> QED BY <2>2, <2>3
<1>10. CASE UNCHANGED vars
  BY <1>10 DEF vars, kernelVars, daemonVars
<1> QED
  BY <1>1, <1>2, <1>3, <1>4, <1>5, <1>6, <1>7, <1>8, <1>9, <1>10 DEF Next, Register

\* The tables of the driver and of the daemon keep their types: no index
\* passes HDHOMERUN_MAX_TUNERS.
THEOREM TypeCorrect == Spec => []TypeOK
<1> QED BY InitTypeOK, NextTypeOK, PTL DEF Spec

-----------------------------------------------------------------------------
(* Ids.  IdsAgree is inductive with the fact that a daemon that is down    *)
(* has no ids, for the driver can then be unloaded.                        *)

\* A daemon that is down remembers no id.
DownForgets == daemon = "down" => \A n \in Names : kernelId[n] = NoId

\* Ids agree at first.
LEMMA InitIdsAgree == Init => IdsAgree /\ DownForgets
BY DEF Init, IdsAgree, DownForgets

\* Every step keeps them in agreement.
LEMMA NextIdsAgree == TypeOK /\ IdsAgree /\ DownForgets /\ [Next]_vars => IdsAgree' /\ DownForgets'
<1> SUFFICES ASSUME TypeOK, IdsAgree, DownForgets, [Next]_vars
             PROVE  IdsAgree' /\ DownForgets'
  OBVIOUS
<1>0. /\ drvdata \in Seq(Names \cup {Null})
      /\ Len(drvdata) \in Nat /\ DOMAIN drvdata = 1..Len(drvdata)
      /\ kernelId \in [Names -> Ids \cup {NoId}] /\ todo \subseteq Names
      /\ \A n \in Names : n # Null
      /\ \A i \in Ids \cup {NoId} : i \in Int
  BY LenProperties, NamesAssumption DEF TypeOK, Null, NoId, Ids
<1>1. CASE UNCHANGED <<drvdata, kernelId, daemon>>
  BY <1>1 DEF IdsAgree, DownForgets
<1>2. ASSUME UNCHANGED drvdata, kernelId' = [n \in Names |-> NoId] PROVE IdsAgree' /\ DownForgets'
  BY <1>2 DEF IdsAgree, DownForgets
<1>3. ASSUME NEW n \in todo, RegisterKnown(n) PROVE IdsAgree' /\ DownForgets'
  <2>1. PICK i \in DOMAIN drvdata : FoundAt(n, i) /\ IoctlId(n, i - 1)
    BY <1>3 DEF RegisterKnown
  <2>2. /\ n \in Names /\ drvdata[i] = n /\ kernelId' = [kernelId EXCEPT ![n] = i - 1]
        /\ drvdata' = drvdata /\ daemon' = daemon /\ daemon # "down"
        /\ i \in Int /\ i - 1 + 1 = i
    <3>1. i \in Int /\ i - 1 + 1 = i
      BY <1>0
    <3>2. n \in Names /\ drvdata[i] = n /\ kernelId' = [kernelId EXCEPT ![n] = i - 1]
      BY <1>0, <2>1 DEF FoundAt, IoctlId
    <3>3. drvdata' = drvdata /\ daemon' = daemon /\ daemon # "down"
      BY <1>3, <2>1 DEF RegisterKnown, IoctlId
    <3> QED BY <3>1, <3>2, <3>3
  <2>3. \A m \in Names : m # n => kernelId[m] # i - 1 \/ kernelId[m] = NoId
    <3>1. \A m \in Names : kernelId[m] = i - 1 /\ kernelId[m] # NoId => drvdata[i] \in {m, Null}
      BY <2>2 DEF IdsAgree
    <3> QED BY <1>0, <2>2, <3>1
  <2>4. ASSUME NEW m \in Names, kernelId'[m] # NoId
        PROVE  kernelId'[m] + 1 \in DOMAIN drvdata' /\ drvdata'[kernelId'[m] + 1] \in {m, Null}
    <3>1. CASE m = n
      BY <1>0, <2>2, <3>1
    <3>2. CASE m # n
      BY <1>0, <2>2, <2>4, <3>2 DEF IdsAgree
    <3> QED BY <3>1, <3>2
  <2>5. ASSUME NEW m \in Names, NEW k \in Names, kernelId'[m] = kernelId'[k], kernelId'[m] # NoId
        PROVE  m = k
    <3>1. CASE m # n /\ k # n
      BY <1>0, <2>2, <2>5, <3>1 DEF IdsAgree
    <3>2. CASE m = n \/ k = n
      BY <1>0, <2>2, <2>3, <2>5, <3>2
    <3> QED BY <3>1, <3>2
  <2> QED BY <2>2, <2>4, <2>5 DEF IdsAgree, DownForgets
<1>4. ASSUME NEW n \in todo, NEW fails, RegisterNew(n, fails) PROVE IdsAgree' /\ DownForgets'
  <2>1. PICK e \in {n, Null} : drvdata' = Append(drvdata, e)
    BY <1>4 DEF RegisterNew
  <2> DEFINE id == Len(drvdata)
  <2>2. /\ n \in Names /\ kernelId' = [kernelId EXCEPT ![n] = id]
        /\ daemon' = daemon /\ daemon # "down" /\ NotFound(n)
    BY <1>0, <1>4 DEF RegisterNew, IoctlId
  <2>3. /\ DOMAIN drvdata' = 1..id + 1
        /\ \A i \in 1..id : drvdata'[i] = drvdata[i]
        /\ drvdata'[id + 1] = e
    <3>1. e \in Names \cup {Null}
      BY <2>2
    <3> QED BY <1>0, <2>1, <3>1, AppendDevice
  <2>4. \A m \in Names : kernelId[m] # NoId => kernelId[m] + 1 \in 1..id /\ kernelId[m] # id
    BY <1>0 DEF IdsAgree
  <2>5. ASSUME NEW m \in Names, kernelId'[m] # NoId
        PROVE  kernelId'[m] + 1 \in DOMAIN drvdata' /\ drvdata'[kernelId'[m] + 1] \in {m, Null}
    <3>1. CASE m = n
      BY <1>0, <2>1, <2>2, <2>3, <3>1
    <3>2. CASE m # n
      <4>1. kernelId'[m] = kernelId[m]
        BY <1>0, <2>2, <3>2
      <4>2. kernelId[m] + 1 \in 1..id /\ drvdata[kernelId[m] + 1] \in {m, Null}
        BY <1>0, <2>4, <2>5, <4>1 DEF IdsAgree
      <4>3. kernelId[m] + 1 \in 1..id + 1
        BY <1>0, <4>2
      <4> QED BY <2>3, <4>1, <4>2, <4>3
    <3> QED BY <3>1, <3>2
  <2>6. ASSUME NEW m \in Names, NEW k \in Names, kernelId'[m] = kernelId'[k], kernelId'[m] # NoId
        PROVE  m = k
    <3>1. CASE m # n /\ k # n
      BY <1>0, <2>2, <2>6, <3>1 DEF IdsAgree
    <3>2. CASE m = n \/ k = n
      BY <1>0, <2>2, <2>4, <2>6, <3>2
    <3> QED BY <3>1, <3>2
  <2>7. ASSUME NEW i \in DOMAIN drvdata', NEW j \in DOMAIN drvdata',
               drvdata'[i] = drvdata'[j], drvdata'[i] # Null
        PROVE  i = j
    <3>1. CASE i \in 1..id /\ j \in 1..id
      BY <1>0, <2>3, <2>7, <3>1 DEF IdsAgree
    <3>2. CASE i = id + 1 /\ j = id + 1
      BY <3>2
    <3>3. CASE (i = id + 1 /\ j \in 1..id) \/ (j = id + 1 /\ i \in 1..id)
      BY <1>0, <2>1, <2>2, <2>3, <2>7, <3>3 DEF NotFound
    <3> QED BY <1>0, <2>3, <3>1, <3>2, <3>3
  <2> QED BY <2>2, <2>5, <2>6, <2>7 DEF IdsAgree, DownForgets
<1>5. CASE ModuleExit
  <2>1. daemon = "down" /\ daemon' = daemon /\ kernelId' = kernelId /\ drvdata' \in {<<>>, drvdata}
    BY <1>5 DEF ModuleExit, daemonVars
  <2>2. CASE drvdata' = drvdata
    BY <1>1, <2>1, <2>2
  <2>3. CASE drvdata' = <<>>
    BY <2>1, <2>3 DEF IdsAgree, DownForgets
  <2> QED BY <2>1, <2>2, <2>3
<1>6. ASSUME NEW n \in todo, RegisterNoData(n) \/ RegisterOops(n) \/ RegisterFull(n)
      PROVE  IdsAgree' /\ DownForgets'
  BY <1>1, <1>6 DEF RegisterNoData, RegisterOops, RegisterFull, IoctlError, kernelVars, daemonVars
<1>7. ASSUME NEW found \in SUBSET Names, Discover(found) PROVE IdsAgree' /\ DownForgets'
  BY <1>2, <1>7 DEF Discover, kernelVars
<1>8. CASE DaemonStop
  BY <1>2, <1>8 DEF DaemonStop, kernelVars
<1>9. CASE StartControl
  BY <1>9 DEF StartControl, kernelVars, IdsAgree, DownForgets
<1>10. CASE UNCHANGED vars
  BY <1>1, <1>10 DEF vars, kernelVars, daemonVars
<1> QED
  BY <1>3, <1>4, <1>5, <1>6, <1>7, <1>8, <1>9, <1>10 DEF Next, Register

\* An id that the daemon got from the kernel never leads to another tuner,
\* over any number of restarts and unloads, any failures and a full table.
THEOREM IdsNeverMix == Spec => []IdsAgree
<1> QED BY InitTypeOK, NextTypeOK, InitIdsAgree, NextIdsAgree, PTL DEF Spec

-----------------------------------------------------------------------------
(* Until the first failure.                                                *)

\* Every device has its drvdata, its adapter and its data device.
AllBacked ==
  /\ \A i \in DOMAIN drvdata : drvdata[i] # Null
  /\ adapters = 0..Len(drvdata) - 1
  /\ data_states = adapters
  /\ ~oops

\* The devices are whole before anything failed.
LEMMA InitAllBacked == Init => AllBacked
<1>1. Len(<<>>) = 0 /\ DOMAIN <<>> = {} /\ 0..0 - 1 = {}
  BY EmptySeq
<1> QED BY <1>1 DEF Init, AllBacked

\* A step after which nothing has failed keeps the devices whole.
LEMMA NextAllBacked ==
  TypeOK /\ (~failed => AllBacked) /\ [Next]_vars => (~failed' => AllBacked')
<1> SUFFICES ASSUME TypeOK, ~failed => AllBacked, [Next]_vars, ~failed' PROVE AllBacked'
  OBVIOUS
<1>0. /\ drvdata \in Seq(Names \cup {Null})
      /\ Len(drvdata) \in Nat /\ DOMAIN drvdata = 1..Len(drvdata)
      /\ todo \subseteq Names /\ \A n \in Names : n # Null
  BY LenProperties, NamesAssumption DEF TypeOK, Null
<1>1. CASE UNCHANGED <<drvdata, adapters, data_states, oops, failed>>
  BY <1>1 DEF AllBacked
<1>2. ASSUME NEW n \in todo, RegisterNoData(n) \/ RegisterOops(n) PROVE FALSE
  <2>1. CASE RegisterNoData(n)
    BY <2>1 DEF RegisterNoData
  <2>2. CASE RegisterOops(n)
    BY <2>2 DEF RegisterOops, SearchOops, AllBacked
  <2> QED BY <1>2, <2>1, <2>2
<1>3. ASSUME NEW n \in todo, NEW fails, RegisterNew(n, fails) PROVE AllBacked'
  <2> DEFINE id == Len(drvdata)
  <2>0. fails = "none" /\ AllBacked
    BY <1>3 DEF RegisterNew
  <2>1. /\ drvdata' = Append(drvdata, n) /\ n \in Names
        /\ adapters' = adapters \cup {id} /\ data_states' = data_states \cup {id}
        /\ oops' = oops
    BY <1>0, <1>3, <2>0 DEF RegisterNew, DataCreateDevice
  <2>2. /\ DOMAIN drvdata' = 1..id + 1 /\ Len(drvdata') = id + 1
        /\ \A i \in 1..id : drvdata'[i] = drvdata[i]
        /\ drvdata'[id + 1] = n
    <3>1. n \in Names \cup {Null}
      BY <2>1
    <3> QED BY <1>0, <2>1, <3>1, AppendDevice
  <2>3. \A i \in DOMAIN drvdata' : drvdata'[i] # Null
    <3>1. \A i \in 1..id + 1 : i \in 1..id \/ i = id + 1
      BY <1>0
    <3> QED BY <1>0, <2>0, <2>1, <2>2, <3>1 DEF AllBacked
  <2>4. adapters' = 0..Len(drvdata') - 1
    BY <1>0, <2>0, <2>1, <2>2 DEF AllBacked
  <2> QED BY <2>0, <2>1, <2>3, <2>4 DEF AllBacked
<1>4. CASE ModuleExit
  <2>1. CASE CleanExit
    <3>1. drvdata' = <<>> /\ adapters' = {} /\ data_states' = {} /\ ~oops'
      BY <1>4, <2>1 DEF ModuleExit
    <3>2. Len(<<>>) = 0 /\ DOMAIN <<>> = {} /\ 0..0 - 1 = {}
      BY EmptySeq
    <3> QED BY <3>1, <3>2 DEF AllBacked
  <2>2. CASE ~CleanExit
    <3>0. AllBacked
      BY <1>4, <2>2 DEF ModuleExit
    <3>1. \A i \in 1..Len(drvdata) : i - 1 \in 0..Len(drvdata) - 1
      BY <1>0
    <3>2. \A id \in 0..Len(drvdata) - 1 : id + 1 \in 1..Len(drvdata)
      BY <1>0
    <3> QED BY <1>0, <2>2, <3>0, <3>1, <3>2 DEF CleanExit, DataDeletable, AdaptersRemovable, AllBacked
  <2> QED BY <2>1, <2>2
<1>5. ASSUME NEW n \in todo, RegisterKnown(n) \/ RegisterFull(n) PROVE AllBacked'
  BY <1>1, <1>5 DEF RegisterKnown, RegisterFull
<1>6. ASSUME (\E found \in SUBSET Names : Discover(found)) \/ StartControl \/ DaemonStop \/ UNCHANGED vars
      PROVE  AllBacked'
  BY <1>1, <1>6 DEF Discover, StartControl, DaemonStop, vars, kernelVars
<1> QED BY <1>2, <1>3, <1>4, <1>5, <1>6 DEF Next, Register

\* As long as no call of the kernel has failed the driver follows no null
\* pointer when daemons come and go, tuners change, the table fills up and the
\* module is removed.
THEOREM SoundUntilFailure == Spec => []OopsNeedsFailure
<1>1. (~failed => AllBacked) => OopsNeedsFailure
  BY DEF AllBacked, OopsNeedsFailure
<1> QED BY <1>1, InitAllBacked, NextAllBacked, InitTypeOK, NextTypeOK, PTL DEF Spec

-----------------------------------------------------------------------------
(* Every tuner of the daemon has its adapter.  AdapterPerTuner is inductive *)
(* with AllBacked, with IdsAgree (a tuner that the search does not find has *)
(* no id from before) and with the fact that a daemon that is down has no   *)
(* tuners (the table is emptied behind it).                                 *)

\* A daemon that is down has no tuners.
DownHasNone == daemon = "down" => m_tuners = {}

\* There is no tuner and no daemon at first.
LEMMA InitAdapters == Init => AdapterPerTuner /\ DownHasNone
BY DEF Init, AdapterPerTuner, DownHasNone

\* Only a discovery gives a daemon tuners, and it ends without any.
LEMMA NextDownHasNone == TypeOK /\ DownHasNone /\ [Next]_vars => DownHasNone'
<1> SUFFICES ASSUME TypeOK, DownHasNone, [Next]_vars PROVE DownHasNone'
  OBVIOUS
<1>1. ASSUME NEW n \in todo, Register(n) PROVE daemon' = daemon /\ m_tuners' = m_tuners
  BY <1>1 DEF Register, RegisterNoData, RegisterOops, RegisterKnown, RegisterFull, RegisterNew,
              IoctlError, IoctlId, daemonVars
<1> QED
  BY <1>1 DEF Next, DownHasNone, Discover, StartControl, DaemonStop, ModuleExit, vars, daemonVars

\* A step after which nothing has failed leaves no tuner without its adapter.
LEMMA NextAdapters ==
  TypeOK /\ IdsAgree /\ (~failed => AllBacked) /\ DownHasNone /\ AdapterPerTuner /\ [Next]_vars
    => AdapterPerTuner'
<1> SUFFICES ASSUME TypeOK, IdsAgree, ~failed => AllBacked, DownHasNone, AdapterPerTuner,
                    [Next]_vars, ~failed'
             PROVE  AdapterPerTuner'
  BY DEF AdapterPerTuner
<1>0. /\ drvdata \in Seq(Names \cup {Null})
      /\ Len(drvdata) \in Nat /\ DOMAIN drvdata = 1..Len(drvdata)
      /\ MaxTuners \in Nat /\ Len(drvdata) <= MaxTuners
      /\ kernelId \in [Names -> Ids \cup {NoId}] /\ todo \subseteq Names /\ m_tuners \subseteq Names
      /\ \A n \in Names : n # Null
      /\ \A i \in Ids : i \in Nat /\ i # NoId
  BY LenProperties, NamesAssumption, MaxTunersAssumption DEF TypeOK, Null, NoId, Ids
<1>1. CASE UNCHANGED <<drvdata, adapters, data_states, failed, m_tuners, todo, kernelId>>
  BY <1>1 DEF AdapterPerTuner
<1>2. ASSUME m_tuners' \ todo' = {} PROVE AdapterPerTuner'
  BY <1>2 DEF AdapterPerTuner
<1>3. ASSUME NEW n \in todo, RegisterNoData(n) \/ RegisterOops(n) PROVE FALSE
  <2>1. CASE RegisterNoData(n)
    BY <2>1 DEF RegisterNoData
  <2>2. CASE RegisterOops(n)
    BY <2>2 DEF RegisterOops, SearchOops, AllBacked
  <2> QED BY <1>3, <2>1, <2>2
<1>4. ASSUME NEW n \in todo, RegisterKnown(n) PROVE AdapterPerTuner'
  <2>1. PICK i \in DOMAIN drvdata : FoundAt(n, i) /\ IoctlId(n, i - 1)
    BY <1>4 DEF RegisterKnown
  <2>2. /\ UNCHANGED <<drvdata, adapters, data_states, failed>>
        /\ m_tuners' = m_tuners /\ todo' = todo \ {n}
        /\ kernelId' = [kernelId EXCEPT ![n] = i - 1] /\ drvdata[i] = n
    BY <1>4, <2>1 DEF RegisterKnown, IoctlId, FoundAt
  <2>3. i - 1 # NoId /\ i - 1 + 1 = i /\ i - 1 \in adapters \cap data_states
    BY <1>0, <2>2 DEF AllBacked, NoId
  <2> QED BY <1>0, <2>2, <2>3 DEF AdapterPerTuner
<1>5. ASSUME NEW n \in todo, RegisterFull(n) PROVE AdapterPerTuner'
  <2>1. /\ UNCHANGED <<drvdata, adapters, data_states, failed>>
        /\ m_tuners' = m_tuners /\ todo' = todo \ {n} /\ kernelId' = kernelId
        /\ NotFound(n) /\ ~TableHasRoom
    BY <1>5 DEF RegisterFull, IoctlError
  <2>2. Len(drvdata) = MaxTuners
    <3>1. Len(drvdata) \in Nat /\ MaxTuners \in Nat /\ Len(drvdata) <= MaxTuners
      BY <1>0
    <3>2. ~ (Len(drvdata) < MaxTuners)
      BY <2>1 DEF TableHasRoom
    <3> QED BY <3>1, <3>2
  <2>3. kernelId[n] = NoId
    BY <1>0, <2>1 DEF IdsAgree, NotFound
  <2> QED BY <2>1, <2>2, <2>3 DEF AdapterPerTuner
<1>6. ASSUME NEW n \in todo, NEW fails, RegisterNew(n, fails) PROVE AdapterPerTuner'
  <2> DEFINE id == Len(drvdata)
  <2>0. fails = "none" /\ ~failed
    BY <1>6 DEF RegisterNew
  <2>1. /\ drvdata' = Append(drvdata, n) /\ n \in Names
        /\ adapters' = adapters \cup {id} /\ data_states' = data_states \cup {id}
        /\ m_tuners' = m_tuners /\ todo' = todo \ {n}
        /\ kernelId' = [kernelId EXCEPT ![n] = id]
        /\ id < MaxTuners
    BY <1>0, <1>6, <2>0 DEF RegisterNew, DataCreateDevice, IoctlId, TableHasRoom
  <2>2. /\ DOMAIN drvdata' = 1..id + 1
        /\ \A i \in 1..id : drvdata'[i] = drvdata[i]
        /\ drvdata'[id + 1] = n
    <3>1. n \in Names \cup {Null}
      BY <2>1
    <3> QED BY <1>0, <2>1, <3>1, AppendDevice
  <2>3. ASSUME NEW m \in m_tuners' \ todo'
        PROVE  /\ kernelId'[m] # NoId /\ kernelId'[m] + 1 \in DOMAIN drvdata'
               /\ drvdata'[kernelId'[m] + 1] = m
               /\ kernelId'[m] \in adapters' \cap data_states'
    <3>1. CASE m = n
      BY <1>0, <2>1, <2>2, <3>1 DEF NoId
    <3>2. CASE m # n
      <4>1. m \in m_tuners \ todo /\ kernelId'[m] = kernelId[m]
        BY <1>0, <2>1, <2>3, <3>2
      <4>2. /\ kernelId[m] # NoId /\ kernelId[m] + 1 \in 1..id
            /\ drvdata[kernelId[m] + 1] = m /\ kernelId[m] \in adapters \cap data_states
        <5>1. Len(drvdata) # MaxTuners
          <6>1. Len(drvdata) \in Nat /\ MaxTuners \in Nat
            BY <1>0
          <6>2. Len(drvdata) < MaxTuners
            BY <2>1
          <6> QED BY <6>1, <6>2
        <5>2. kernelId[m] # NoId
          BY <2>0, <4>1, <5>1 DEF AdapterPerTuner
        <5> QED BY <1>0, <2>0, <4>1, <5>2 DEF AdapterPerTuner
      <4>3. kernelId[m] + 1 \in 1..id + 1
        BY <1>0, <4>2
      <4> QED BY <2>1, <2>2, <4>1, <4>2, <4>3
    <3> QED BY <3>1, <3>2
  <2> QED BY <2>3 DEF AdapterPerTuner
<1>7. ASSUME (\E found \in SUBSET Names : Discover(found)) \/ DaemonStop PROVE AdapterPerTuner'
  BY <1>2, <1>7 DEF Discover, DaemonStop
<1>8. CASE ModuleExit
  BY <1>2, <1>8 DEF ModuleExit, daemonVars, DownHasNone
<1>9. CASE StartControl \/ UNCHANGED vars
  BY <1>1, <1>9 DEF StartControl, vars, kernelVars, daemonVars
<1> QED BY <1>3, <1>4, <1>5, <1>6, <1>7, <1>8, <1>9 DEF Next, Register

\* As long as no call of the kernel has failed every tuner of the daemon that
\* was asked for has an adapter and a data device of its own, or the table is
\* full.
THEOREM AdapterForEachTuner == Spec => []AdapterPerTuner
<1> QED BY InitTypeOK, NextTypeOK, InitIdsAgree, NextIdsAgree, InitAllBacked, NextAllBacked,
           InitAdapters, NextDownHasNone, NextAdapters, PTL DEF Spec

-----------------------------------------------------------------------------
(* The region of device numbers.  It has as many minors as the first start *)
(* of a daemon had tuners; devices of these tuners are all different, so   *)
(* they cannot be more (the pigeonhole principle).                         *)

\* The region was sized by the tuners of the first start.
RegionOfFirst == region = Cardinality(first)

\* Only dvb_hdhomerun_data_init sizes the region, and the exit forgets it.
LEMMA RegionInductive ==
  /\ Init => RegionOfFirst
  /\ RegionOfFirst /\ [Next]_vars => RegionOfFirst'
<1>1. Init => RegionOfFirst
  BY FS_EmptySet DEF Init, RegionOfFirst
<1>2. ASSUME RegionOfFirst, [Next]_vars PROVE RegionOfFirst'
  <2>1. CASE UNCHANGED <<region, first>>
    BY <1>2, <2>1 DEF RegionOfFirst
  <2>2. CASE DataInit
    BY <1>2, <2>2 DEF DataInit, RegionOfFirst
  <2>3. CASE ModuleExit
    BY <1>2, <2>3, FS_EmptySet DEF ModuleExit, RegionOfFirst
  <2>4. ASSUME NEW n \in todo, Register(n) PROVE DataInit \/ UNCHANGED <<region, first>>
    BY <2>4 DEF Register, RegisterNoData, RegisterOops, RegisterKnown, RegisterFull, RegisterNew
  <2>5. ASSUME (\E found \in SUBSET Names : Discover(found)) \/ StartControl \/ DaemonStop \/ UNCHANGED vars
        PROVE  UNCHANGED <<region, first>>
    BY <2>5 DEF Discover, StartControl, DaemonStop, vars, kernelVars
  <2> QED BY <1>2, <2>1, <2>2, <2>3, <2>4, <2>5 DEF Next
<1> QED BY <1>1, <1>2

\* Devices of tuners that were there at the first start fit in the region.
LEMMA FirstFit == TypeOK /\ IdsAgree /\ RegionOfFirst => RegionCovers
<1> SUFFICES ASSUME TypeOK, IdsAgree, RegionOfFirst, \A i \in DOMAIN drvdata : drvdata[i] \in first
             PROVE  Len(drvdata) <= region
  BY DEF RegionCovers
<1> DEFINE D == 1..Len(drvdata)
<1>1. /\ Len(drvdata) \in Nat /\ DOMAIN drvdata = D
      /\ first \subseteq Names /\ \A n \in Names : n # Null
      /\ drvdata \in [D -> Names \cup {Null}]
  BY LenProperties, NamesAssumption DEF TypeOK, Null
<1>2. IsFiniteSet(first) /\ Cardinality(first) \in Nat
  BY <1>1, NamesAssumption, FS_Subset, FS_CardinalityType
<1>3. IsFiniteSet(D) /\ Cardinality(D) = Len(drvdata)
  BY <1>1, FS_Interval
<1>4. drvdata \in [D -> first]
  BY <1>1
<1>5. ~ \E i, j \in D : i # j /\ drvdata[i] = drvdata[j]
  BY <1>1, <1>4 DEF IdsAgree
<1>6. ~ (Cardinality(first) < Cardinality(D))
  BY <1>2, <1>3, <1>4, <1>5, FS_PigeonHole
<1> QED BY <1>1, <1>2, <1>3, <1>6 DEF RegionOfFirst

\* No data device lies outside the region of device numbers until a restart
\* finds a tuner that the first start did not find.
THEOREM RegionSuffices == Spec => []RegionCovers
<1> QED BY InitTypeOK, NextTypeOK, InitIdsAgree, NextIdsAgree, RegionInductive, FirstFit, PTL DEF Spec

=============================================================================
