---------------------------- MODULE Registration ----------------------------
(***************************************************************************)
(* Registration of the tuners: the daemon discovers the tuners on the      *)
(* network, sorts them by name and asks the kernel driver with one ioctl   *)
(* per tuner for a DVB adapter and a data device (hdhomerun_controller.cpp *)
(* and Control::Ioctl; hdhomerun_control_ioctl, init.c and data.c).  The   *)
(* driver keeps its tables when the daemon stops: a restarted daemon must  *)
(* get the adapters it had before.                                         *)
(*                                                                         *)
(* A tuner's name is a number, so that names are ordered.  The index of a  *)
(* platform device is its id; tables of the source start at 0, sequences   *)
(* at 1.                                                                   *)
(***************************************************************************)
EXTENDS Integers, Sequences, FiniteSets

CONSTANTS Names,      \* names of the tuners on the network
          MaxTuners,  \* HDHOMERUN_MAX_TUNERS
          Failures    \* the calls of the kernel that may fail

\* "platform": platform_device_register_simple, or probe's allocation;
\* "class" and "region": class_create and alloc_chrdev_region of
\* dvb_hdhomerun_data_init; "adapter": a step of dvb_hdhomerun_register up to
\* the frontend; "data": the allocations and device_create of
\* dvb_hdhomerun_data_create_device; "cdev": its cdev_add.
FailureKinds == {"platform", "class", "region", "adapter", "data", "cdev"}

ASSUME NamesAssumption == Names \subseteq Nat /\ IsFiniteSet(Names)
ASSUME MaxTunersAssumption == MaxTuners \in Nat
ASSUME FailuresAssumption == Failures \subseteq FailureKinds

VARIABLES drvdata,      \* of each platform_device: its tuner's name, or Null
          adapters,     \* ids with a registered DVB adapter
          data_states,  \* ids with an entry in hdhomerun_data_states
          class,        \* the class "hdhomerun" exists
          region,       \* minors of the chrdev region; 0: no major yet
          oops,         \* the kernel followed a null pointer, or was left with
                        \* adapters of an unloaded driver
          daemon,       \* "down", "registering" or "running"
          m_tuners,     \* the tuners the daemon found and may use
          todo,         \* those it has not asked the kernel for
          kernelId,     \* the id it has for each tuner
          first,        \* the tuners of the start that sized the region
          failed        \* history: a call of the kernel failed since the driver
                        \* was loaded

kernelVars == <<drvdata, adapters, data_states, class, region, oops, first, failed>>
daemonVars == <<daemon, m_tuners, todo, kernelId>>
vars == <<kernelVars, daemonVars>>

Null == -1
NoId == -1     \* m_kernelId of a tuner that has no adapter

Init ==
  /\ drvdata = <<>> /\ adapters = {} /\ data_states = {}
  /\ class = FALSE /\ region = 0
  /\ oops = FALSE /\ first = {} /\ failed = FALSE
  /\ daemon = "down" /\ m_tuners = {} /\ todo = {}
  /\ kernelId = [n \in Names |-> NoId]

-----------------------------------------------------------------------------
(* The daemon.                                                             *)

\* The constructor of HdhomerunController: the tuners that answered the
\* discovery and that the configuration does not disable.
Discover(found) ==
  /\ daemon = "down" /\ ~oops
  /\ daemon' = "registering"
  /\ m_tuners' = found
  /\ todo' = found
  /\ kernelId' = [n \in Names |-> NoId]
  /\ UNCHANGED kernelVars

\* The loop over the sorted tuners comes to n.
NextTuner(n) == n \in todo /\ \A m \in todo : n <= m

\* Every tuner was asked for: Control::start.
StartControl ==
  /\ daemon = "registering" /\ todo = {} /\ ~oops
  /\ daemon' = "running"
  /\ UNCHANGED <<kernelVars, m_tuners, todo, kernelId>>

\* The daemon ends.  The kernel keeps everything.
DaemonStop ==
  /\ daemon # "down" /\ ~oops
  /\ daemon' = "down"
  /\ m_tuners' = {}
  /\ todo' = {}
  /\ kernelId' = [n \in Names |-> NoId]
  /\ UNCHANGED kernelVars

-----------------------------------------------------------------------------
(* HDHOMERUN_REGISTER_TUNER, one ioctl for each tuner.                     *)

\* Mutant of DataInit: one minor too few.
DataInitShort ==
  IF region # 0 THEN UNCHANGED <<class, region, first>>
  ELSE ~class /\ class' = TRUE /\ region' = Cardinality(m_tuners) - 1 /\ first' = m_tuners

\* dvb_hdhomerun_data_init succeeds: the first ioctl creates the class and
\* sizes the region by the number of tuners its daemon has.
DataInit ==
  IF region # 0 THEN UNCHANGED <<class, region, first>>
  ELSE ~class /\ class' = TRUE /\ region' = Cardinality(m_tuners) /\ first' = m_tuners

\* The ioctl fails and the tuner gets no id.
IoctlError(n) ==
  /\ todo' = todo \ {n}
  /\ UNCHANGED <<daemon, m_tuners, kernelId>>

\* The ioctl succeeds with id.
IoctlId(n, id) ==
  /\ todo' = todo \ {n}
  /\ kernelId' = [kernelId EXCEPT ![n] = id]
  /\ UNCHANGED <<daemon, m_tuners>>

\* The search of dvb_hdhomerun_register_hdhomerun ends at device i.
FoundAt(n, i) == drvdata[i] = n /\ \A j \in 1..i - 1 : drvdata[j] \notin {n, Null}

\* It comes to a device without drvdata first.
SearchOops(n) ==
  \E i \in DOMAIN drvdata : drvdata[i] = Null /\ \A j \in 1..i - 1 : drvdata[j] # n

\* Mutant of NotFound: the search stops before the last device.
NotFoundShort(n) == \A i \in 1..Len(drvdata) - 1 : drvdata[i] \notin {n, Null}

\* It ends without having found the tuner.
NotFound(n) == \A i \in DOMAIN drvdata : drvdata[i] \notin {n, Null}

\* Mutant of TableHasRoom: one device too many.
TableHasRoomForOneMore == Len(drvdata) <= MaxTuners

\* platform_device is not full.
TableHasRoom == Len(drvdata) < MaxTuners

\* dvb_hdhomerun_data_init fails.  When there is no region the class stays, and
\* every later call fails because a class of this name exists.
RegisterNoData(n) ==
  /\ daemon = "registering" /\ NextTuner(n) /\ ~oops
  /\ region = 0
  /\ \/ (class \/ "class" \in Failures) /\ UNCHANGED class
     \/ ~class /\ "region" \in Failures /\ class' = TRUE
  /\ failed' = TRUE
  /\ IoctlError(n)
  /\ UNCHANGED <<drvdata, adapters, data_states, region, oops, first>>

\* The search reaches a device without drvdata, or the new platform device
\* has none: a null pointer is followed.
RegisterOops(n) ==
  /\ daemon = "registering" /\ NextTuner(n) /\ ~oops
  /\ \/ SearchOops(n) /\ UNCHANGED failed
     \/ "platform" \in Failures /\ NotFound(n) /\ TableHasRoom /\ failed' = TRUE
  /\ DataInit
  /\ oops' = TRUE
  /\ UNCHANGED <<daemonVars, drvdata, adapters, data_states>>

\* Mutant of RegisterKnown: the number of the device instead of its id.
RegisterKnownOffByOne(n) ==
  /\ daemon = "registering" /\ NextTuner(n) /\ ~oops
  /\ DataInit
  /\ \E i \in DOMAIN drvdata : FoundAt(n, i) /\ IoctlId(n, i)
  /\ UNCHANGED <<drvdata, adapters, data_states, oops, failed>>

\* The tuner has a device from an earlier start of the daemon.
RegisterKnown(n) ==
  /\ daemon = "registering" /\ NextTuner(n) /\ ~oops
  /\ DataInit
  /\ \E i \in DOMAIN drvdata : FoundAt(n, i) /\ IoctlId(n, i - 1)
  /\ UNCHANGED <<drvdata, adapters, data_states, oops, failed>>

\* platform_device is full.
RegisterFull(n) ==
  /\ daemon = "registering" /\ NextTuner(n) /\ ~oops
  /\ NotFound(n) /\ ~TableHasRoom
  /\ DataInit
  /\ IoctlError(n)
  /\ UNCHANGED <<drvdata, adapters, data_states, oops, failed>>

\* Mutant of DataCreateDevice: the state is stored behind its place.
DataCreateDeviceBehind(id, fails) ==
  data_states' = IF fails \in {"adapter", "data"} THEN data_states ELSE data_states \cup {id + 1}

\* dvb_hdhomerun_data_create_device, if it is reached.  A failed cdev_add is
\* reported after everything has been set up.
DataCreateDevice(id, fails) ==
  data_states' = IF fails \in {"adapter", "data"} THEN data_states ELSE data_states \cup {id}

\* A new device.  After a failure drvdata is cleared and freed, and the ioctl
\* succeeds all the same; only the failures before dvb_hdhomerun_data_create_device
\* undo the registration of the adapter.
RegisterNew(n, fails) ==
  /\ daemon = "registering" /\ NextTuner(n) /\ ~oops
  /\ NotFound(n) /\ TableHasRoom
  /\ DataInit
  /\ LET id == Len(drvdata) IN
       /\ IoctlId(n, id)
       /\ drvdata' = Append(drvdata, IF fails = "none" THEN n ELSE Null)
       /\ adapters' = IF fails = "adapter" THEN adapters ELSE adapters \cup {id}
       /\ DataCreateDevice(id, fails)
  /\ failed' = (failed \/ fails # "none")
  /\ UNCHANGED oops

-----------------------------------------------------------------------------
\* Every device has the data state that dvb_hdhomerun_data_delete_device follows.
DataDeletable == \A i \in DOMAIN drvdata : i - 1 \in data_states

\* Every adapter has the drvdata without which dvb_hdhomerun_remove does not
\* unregister it.
AdaptersRemovable == \A id \in adapters : drvdata[id + 1] # Null

\* The loop of dvb_hdhomerun_exit can do its work.
CleanExit == DataDeletable /\ AdaptersRemovable

\* dvb_hdhomerun_exit, when nobody has the device open: everything is removed
\* except a class without a region, and a later load of the module starts again.
ModuleExit ==
  /\ daemon = "down" /\ ~oops
  /\ IF CleanExit
     THEN /\ drvdata' = <<>> /\ adapters' = {} /\ data_states' = {} /\ region' = 0
          /\ class' = (class /\ region = 0)
          /\ first' = {} /\ failed' = FALSE /\ UNCHANGED oops
     ELSE /\ oops' = TRUE
          /\ UNCHANGED <<drvdata, adapters, data_states, class, region, first, failed>>
  /\ UNCHANGED daemonVars

Register(n) ==
  \/ RegisterNoData(n) \/ RegisterOops(n) \/ RegisterKnown(n) \/ RegisterFull(n)
  \/ \E fails \in {"none"} \cup (Failures \cap {"adapter", "data", "cdev"}) : RegisterNew(n, fails)

Next ==
  \/ \E found \in SUBSET Names : Discover(found)
  \/ \E n \in todo : Register(n)
  \/ StartControl \/ DaemonStop \/ ModuleExit

Spec == Init /\ [][Next]_vars

-----------------------------------------------------------------------------
(* Properties.                                                             *)

Ids == 0..MaxTuners - 1

\* Every variable holds a value of its kind; ids are indices of the table.
TypeOK ==
  /\ drvdata \in Seq(Names \cup {Null}) /\ Len(drvdata) <= MaxTuners
  /\ adapters \subseteq Ids /\ data_states \subseteq Ids
  /\ class \in BOOLEAN /\ region \in Nat /\ oops \in BOOLEAN /\ failed \in BOOLEAN
  /\ first \subseteq Names
  /\ daemon \in {"down", "registering", "running"}
  /\ m_tuners \subseteq Names /\ todo \subseteq m_tuners
  /\ kernelId \in [Names -> Ids \cup {NoId}]

\* An id never leads to another tuner: the device with the id of a tuner is
\* that tuner's or has lost its data, no two tuners of a daemon have the same
\* id, and no tuner has two devices, over any restarts, failures and tables
\* that fill up (Control::GetTuner serves a request by this id alone).
IdsAgree ==
  /\ \A n \in Names : kernelId[n] # NoId =>
       kernelId[n] + 1 \in DOMAIN drvdata /\ drvdata[kernelId[n] + 1] \in {n, Null}
  /\ \A n, m \in Names : kernelId[n] = kernelId[m] /\ kernelId[n] # NoId => n = m
  /\ \A i, j \in DOMAIN drvdata : drvdata[i] = drvdata[j] /\ drvdata[i] # Null => i = j

\* As long as no call of the kernel has failed every tuner the daemon asked
\* for has its own adapter and data device, unless the table is full
\* (readme.txt: "One adapter per tuner is created").
AdapterPerTuner ==
  ~failed =>
    \A n \in m_tuners \ todo :
      IF kernelId[n] = NoId THEN Len(drvdata) = MaxTuners
      ELSE /\ kernelId[n] + 1 \in DOMAIN drvdata
           /\ drvdata[kernelId[n] + 1] = n
           /\ kernelId[n] \in adapters \cap data_states

\* As long as no call of the kernel has failed neither a registration nor the
\* removal of the driver follows a null pointer, whatever daemons come and go.
OopsNeedsFailure == oops => failed

\* The data devices are inside the region of device numbers as long as no
\* restart finds a tuner that the first start did not find.
RegionCovers ==
  (\A i \in DOMAIN drvdata : drvdata[i] \in first) => Len(drvdata) <= region

\* Neither a registration nor the removal of the driver follows a null pointer
\* (dvb_hdhomerun_register_hdhomerun: "Check if we already have this tuner
\* registered, handles the case where userhdhomerun has been stopped/started").
NoOops == ~oops

=============================================================================
