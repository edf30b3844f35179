---------------------------- MODULE CnssPciPmProofs ----------------------------
(***************************************************************************)
(* Proofs about the power management of the PCIe link, for any finite set  *)
(* of senders and any number of faults.                                    *)
(*                                                                         *)
(* The properties talk of a device that is sound.  A device that has       *)
(* failed becomes sound again in PowerUp only, which finds every flag      *)
(* reset; between two failures the link is down for one of two reasons,    *)
(* the system suspend or a runtime suspend without senders.  The inductive *)
(* invariant says which of the flags stands for which of the reasons.      *)
(***************************************************************************)
EXTENDS CnssPciPm, FiniteSetTheorems, TLAPS

-----------------------------------------------------------------------------
(***************************************************************************)
(* The inductive invariant                                                 *)
(***************************************************************************)

\* The type sets have names, so that a proof expands them only where it
\* needs their elements.
Flag == BOOLEAN
BusStates == [link : {"UP", "DOWN"}, mhi : {"off", "M0", "M3", "fast"}, wake : BOOLEAN]

\* The types; CountIsBusy bounds the count.
TypeInv ==
    /\ bus \in BusStates
    /\ powered_on \in Flag /\ pci_link_down_ind \in Flag /\ dev_err \in Flag
    /\ faults \in 0..MaxFaults
    /\ drv_supported \in Flag /\ drv_connected \in Flag
    /\ drv_connected_last \in Flag
    /\ auto_suspended \in Flag /\ monitor_wake_intr \in Flag
    /\ qmi_send_usage_count \in Nat
    /\ senders \in [Senders -> {"none", "sending", "refused"}]
    /\ disable_pc \in Flag /\ in_suspend_resume \in Flag
    /\ sys \in {"on", "prepare", "suspend_bus", "asleep"}
    /\ host \in {"up", "suspended", "halted"}
    /\ runtime_status \in {"active", "suspending", "suspended", "resuming"}
    /\ resume_request \in Flag /\ runtime_error \in Flag
    /\ worker \in {"idle", "resume", "power_off", "power_up"}

\* The power cycle of a recovery, after the host driver was halted.
Cycling == worker \in {"power_off", "power_up"}

Busy == {s \in Senders : senders[s] # "none"}

\* auto_suspended is the PM core's view of the device, except in the middle
\* of a runtime suspend and in a power cycle.
AutoSuspendedIsRuntime ==
    /\ auto_suspended => runtime_status # "active"
    /\ runtime_status \in {"suspended", "resuming"} /\ ~Cycling => auto_suspended
    /\ runtime_error => runtime_status = "suspended"

\* The PM core leaves the device alone while the system is suspended, and the
\* host driver keeps it quiet in a power cycle.
RuntimeQuiet ==
    /\ sys \in {"suspend_bus", "asleep"} => runtime_status = "active" \/ runtime_error
    /\ Cycling => /\ host = "halted" /\ Busy = {} /\ ~auto_suspended
                  /\ runtime_status = "active" \/ runtime_error

\* A device is off, halted or recovering only because of a fault.
RecoveryHasCause ==
    /\ worker # "idle" => DeviceDown
    /\ ~powered_on => worker = "power_up"
    /\ DeviceDown \/ host = "halted" => faults > 0

\* Every message that is being sent is counted; a power cycle forgets the
\* senders before it resets the count.
CountIsBusy ==
    /\ ~Cycling => qmi_send_usage_count = Cardinality(Busy)
    /\ qmi_send_usage_count <= Cardinality(Senders)

\* Why the link of a sound device is up.
LinkIsUp ==
    Sound =>
        /\ Awake /\ ~auto_suspended => bus.link = "UP"
        /\ Awake /\ Busy # {} => bus.link = "UP"
        /\ sys = "suspend_bus" => bus.link = "UP"
        /\ sys = "asleep" /\ disable_pc => bus.link = "UP"
        /\ runtime_error => bus.link = "UP" /\ bus.mhi # "M0"

\* The resume that a wake calls for is requested, or will be when it comes.
WakeIsHandled ==
    /\ bus.link = "UP" => ~bus.wake
    /\ Sound /\ bus.wake /\ auto_suspended /\ ~runtime_error
         /\ runtime_status \in {"suspending", "suspended"} => resume_request
    /\ runtime_status = "suspended" /\ ~runtime_error /\ ~Cycling
         => monitor_wake_intr \/ resume_request

Inv ==
    /\ TypeInv
    /\ AutoSuspendedIsRuntime
    /\ RuntimeQuiet
    /\ RecoveryHasCause
    /\ CountIsBusy
    /\ LinkIsUp
    /\ WakeIsHandled
    /\ DrvModeKept
    /\ SuspendUndone

-----------------------------------------------------------------------------

USE DEF deviceVars, drvVars, qmiVars, sysVars, rpmVars, sysRest, eventRest

LEMMA FlagValues == TRUE \in Flag /\ FALSE \in Flag
BY DEF Flag

(***************************************************************************)
(* Counting the senders.                                                   *)
(***************************************************************************)

LEMMA BusyIsFinite ==
    ASSUME NEW T \in SUBSET Senders
    PROVE  /\ IsFiniteSet(T) /\ Cardinality(T) \in Nat
           /\ Cardinality(T) = 0 <=> T = {}
BY PciPmAssumption, FS_Subset, FS_CardinalityType, FS_EmptySet

\* Outside of a power cycle the count is zero when nobody sends.
LEMMA BusyIsCounted ==
    ASSUME Inv, ~Cycling
    PROVE  qmi_send_usage_count = 0 <=> Busy = {}
BY BusyIsFinite DEF Inv, CountIsBusy, Busy

(***************************************************************************)
(* What the bus functions do to the link, field by field.                  *)
(***************************************************************************)

\* A suspend that works takes the link down in the current way; one that
\* fails leaves it up.
SuspendResult(ok) ==
    /\ bus' \in BusStates
    /\ bus'.wake = bus.wake
    /\ bus'.link = IF ok THEN "DOWN" ELSE "UP"
    /\ bus.link = "DOWN" => bus' = bus
    /\ bus.link = "UP" => bus.mhi = bus'.mhi \/ bus'.mhi = MhiSuspended
    /\ ok /\ bus.link = "UP" => bus'.mhi = MhiSuspended /\ bus.mhi = "M0"
    /\ bus.mhi # "M0" => bus' = bus
    /\ ~ok => bus.link = "UP"
    /\ faults' \in 0..MaxFaults /\ faults' >= faults

\* A resume that works leaves the link up and takes back a wake; if it fails
\* with the link down, the link is known to have failed.
ResumeResult(ok) ==
    /\ bus' \in BusStates
    /\ bus'.link = "DOWN" => bus' = bus /\ pci_link_down_ind'
    /\ bus.link = "UP" => bus' = bus
    /\ bus.link = "DOWN" /\ bus'.link = "UP" => ~bus'.wake
    /\ ok => bus'.link = "UP"
    /\ ~ok => bus.link = "DOWN"
    /\ ~ok /\ bus'.link = "UP" => bus'.mhi = bus.mhi
    /\ pci_link_down_ind' \in Flag
    /\ pci_link_down_ind => pci_link_down_ind'
    /\ faults' \in 0..MaxFaults /\ faults' >= faults
    /\ ~ok \/ pci_link_down_ind' # pci_link_down_ind => faults' > 0 \/ ~powered_on

LEMMA SuspendBusEffect ==
    ASSUME TypeInv, NEW ok \in BOOLEAN, SuspendBus(ok)
    PROVE  SuspendResult(ok)
<1>1. /\ bus \in BusStates /\ bus.link \in {"UP", "DOWN"}
      /\ faults \in 0..MaxFaults
  BY DEF TypeInv, BusStates
<1>2. MhiSuspended \in {"off", "M0", "M3", "fast"}
  BY DEF MhiSuspended
<1>3. CASE UNCHANGED <<bus, faults>> /\ (ok <=> bus.link = "DOWN")
  BY <1>1, <1>3, PciPmAssumption DEF SuspendResult
<1>4. CASE /\ ok /\ bus.link = "UP" /\ bus.mhi = "M0" /\ UNCHANGED faults
           /\ bus' = [bus EXCEPT !.link = "DOWN", !.mhi = MhiSuspended]
  <2>1. /\ bus' \in BusStates /\ bus'.link = "DOWN"
        /\ bus'.mhi = MhiSuspended /\ bus'.wake = bus.wake
    BY <1>1, <1>2, <1>4 DEF BusStates
  <2>2. QED
    BY <1>1, <1>4, <2>1, PciPmAssumption DEF SuspendResult
<1>5. CASE /\ ~ok /\ bus.link = "UP" /\ bus.mhi = "M0" /\ Fault
           /\ bus' = [bus EXCEPT !.mhi = MhiSuspended]
  <2>1. /\ bus' \in BusStates /\ bus'.link = "UP"
        /\ bus'.mhi = MhiSuspended /\ bus'.wake = bus.wake
    BY <1>1, <1>2, <1>5 DEF BusStates
  <2>2. QED
    BY <1>1, <1>5, <2>1, PciPmAssumption DEF SuspendResult, Fault
<1>6. QED
  BY <1>1, <1>3, <1>4, <1>5 DEF SuspendBus

LEMMA ResumeBusEffect ==
    ASSUME TypeInv, NEW ok \in BOOLEAN, ResumeBus(ok)
    PROVE  ResumeResult(ok)
<1>1. /\ bus \in BusStates /\ bus.link \in {"UP", "DOWN"}
      /\ bus.mhi \in {"off", "M0", "M3", "fast"}
      /\ faults \in 0..MaxFaults /\ pci_link_down_ind \in Flag
  BY DEF TypeInv, BusStates
<1>2. CASE ok /\ bus.link = "UP" /\ UNCHANGED <<bus, pci_link_down_ind, faults>>
  BY <1>1, <1>2, PciPmAssumption DEF ResumeResult
<1>3. CASE /\ ok /\ bus.link = "DOWN"
           /\ bus' = [link |-> "UP", wake |-> FALSE,
                      mhi |-> IF bus.mhi = MhiSuspended THEN "M0" ELSE bus.mhi]
           /\ UNCHANGED <<pci_link_down_ind, faults>>
  <2>1. bus' \in BusStates /\ bus'.link = "UP" /\ ~bus'.wake
    BY <1>1, <1>3 DEF BusStates
  <2>2. QED
    BY <1>1, <1>3, <2>1, PciPmAssumption DEF ResumeResult
<1>4. CASE /\ ~ok /\ bus.link = "DOWN" /\ UNCHANGED bus
           /\ Fault \/ (~powered_on /\ UNCHANGED faults)
           /\ pci_link_down_ind' = TRUE
  <2>1. faults' \in 0..MaxFaults /\ faults' >= faults /\ (faults' > 0 \/ ~powered_on)
    BY <1>1, <1>4, PciPmAssumption DEF Fault
  <2>2. QED
    BY <1>1, <1>4, <2>1, FlagValues DEF ResumeResult
<1>5. CASE /\ bus.link = "DOWN" /\ bus' = [bus EXCEPT !.link = "UP", !.wake = FALSE]
           /\ Fault /\ UNCHANGED pci_link_down_ind
  <2>1. bus' \in BusStates /\ bus'.link = "UP" /\ ~bus'.wake /\ bus'.mhi = bus.mhi
    BY <1>1, <1>5 DEF BusStates
  <2>2. QED
    BY <1>1, <1>5, <2>1, PciPmAssumption DEF ResumeResult, Fault
<1>6. QED
  BY <1>1, <1>2, <1>3, <1>4, <1>5 DEF ResumeBus

-----------------------------------------------------------------------------
LEMMA RuntimeSuspendStep ==
    ASSUME Inv, RuntimeSuspend
    PROVE  Inv'
<1>1. Busy' = Busy
  BY DEF Busy, RuntimeSuspend
<1>2. TypeInv'
  BY DEF Inv, TypeInv, RuntimeSuspend
<1>3. AutoSuspendedIsRuntime'
  BY DEF Inv, AutoSuspendedIsRuntime, RuntimeSuspend
<1>4. RuntimeQuiet'
  BY DEF Inv, RuntimeQuiet, Cycling, RuntimeSuspend
<1>5. WakeIsHandled'
  BY DEF Inv, AutoSuspendedIsRuntime, WakeIsHandled, RuntimeSuspend
<1>6. DrvModeKept'
  BY DEF Inv, AutoSuspendedIsRuntime, LinkIsUp, DrvModeKept, Sound, Awake,
     DeviceDown, RuntimeSuspend
<1>7. /\ RecoveryHasCause' /\ CountIsBusy' /\ LinkIsUp'
      /\ SuspendUndone'
  BY <1>1 DEF Inv, RecoveryHasCause, CountIsBusy, LinkIsUp, SuspendUndone,
     DeviceDown, Cycling, Sound, Awake, RuntimeSuspend
<1>8. QED
  BY <1>2, <1>3, <1>4, <1>5, <1>6, <1>7 DEF Inv

LEMMA MonitorWakeStep ==
    ASSUME Inv, MonitorWake
    PROVE  Inv'
<1>1. Busy' = Busy
  BY DEF Busy, MonitorWake
<1>2. TypeInv'
  BY DEF Inv, TypeInv, MonitorWake
<1>3. AutoSuspendedIsRuntime'
  BY DEF Inv, AutoSuspendedIsRuntime, MonitorWake
<1>4. RuntimeQuiet'
  BY DEF Inv, RuntimeQuiet, Cycling, MonitorWake
<1>5. WakeIsHandled'
  BY DEF Inv, WakeIsHandled, Sound, DeviceDown, MonitorWake
<1>6. /\ RecoveryHasCause' /\ CountIsBusy' /\ LinkIsUp'
      /\ DrvModeKept' /\ SuspendUndone'
  BY <1>1 DEF Inv, RecoveryHasCause, CountIsBusy, LinkIsUp, DrvModeKept,
     SuspendUndone, DeviceDown, Cycling, Sound, Awake, MhiSuspended, MonitorWake
<1>7. QED
  BY <1>2, <1>3, <1>4, <1>5, <1>6 DEF Inv

LEMMA RuntimeResumeStep ==
    ASSUME Inv, RuntimeResume
    PROVE  Inv'
<1>1. Busy' = Busy
  BY DEF Busy, RuntimeResume
<1>2. TypeInv'
  BY FlagValues DEF Inv, TypeInv, RuntimeResume
<1>3. AutoSuspendedIsRuntime'
  BY DEF Inv, AutoSuspendedIsRuntime, Cycling, RuntimeResume
<1>4. RuntimeQuiet'
  BY DEF Inv, RuntimeQuiet, Cycling, RuntimeResume
<1>5. LinkIsUp'
  BY <1>1 DEF Inv, LinkIsUp, Sound, Awake, DeviceDown, RuntimeResume
<1>6. WakeIsHandled'
  BY DEF Inv, WakeIsHandled, RuntimeResume
<1>7. /\ RecoveryHasCause' /\ CountIsBusy' /\ DrvModeKept'
      /\ SuspendUndone'
  BY <1>1 DEF Inv, RecoveryHasCause, CountIsBusy, DrvModeKept, SuspendUndone,
     DeviceDown, Cycling, Sound, MhiSuspended, Awake, RuntimeResume
<1>8. QED
  BY <1>2, <1>3, <1>4, <1>5, <1>6, <1>7 DEF Inv

LEMMA AutoSuspendStep ==
    ASSUME Inv, NEW ok \in BOOLEAN, AutoSuspend(ok)
    PROVE  Inv'
<1>1. Busy' = Busy
  BY DEF Busy, AutoSuspend
<1>2. SuspendBus(ok) => SuspendResult(ok)
  BY SuspendBusEffect DEF Inv
<1>3. TypeInv'
  BY FlagValues, <1>2 DEF Inv, TypeInv, AutoSuspend, SuspendResult
<1>4. AutoSuspendedIsRuntime'
  BY DEF Inv, AutoSuspendedIsRuntime, AutoSuspend
<1>5. RuntimeQuiet'
  BY DEF Inv, AutoSuspendedIsRuntime, RuntimeQuiet, Cycling, AutoSuspend
<1>6. RecoveryHasCause'
  BY <1>2 DEF Inv, TypeInv, RecoveryHasCause, DeviceDown, AutoSuspend, SuspendResult
<1>7. CountIsBusy'
  BY <1>1 DEF Inv, CountIsBusy, Cycling, AutoSuspend
<1>8. LinkIsUp'
  <2>1. Sound' => Sound
    BY DEF Sound, DeviceDown, AutoSuspend
  <2>2. sys \in {"on", "prepare"} /\ ~runtime_error /\ ~Cycling
    BY DEF Inv, TypeInv, AutoSuspendedIsRuntime, RuntimeQuiet, AutoSuspend
  <2>3. qmi_send_usage_count = 0 <=> Busy = {}
    BY <2>2, BusyIsCounted
  <2>4. QED
    BY <1>1, <1>2, <2>1, <2>2, <2>3 DEF Inv, LinkIsUp, Awake, AutoSuspend, SuspendResult
<1>9. WakeIsHandled'
  BY <1>2 DEF Inv, TypeInv, RuntimeQuiet, LinkIsUp, WakeIsHandled, Sound, Awake,
     DeviceDown, AutoSuspend, SuspendResult
<1>10. DrvModeKept'
  BY <1>2 DEF Inv, TypeInv, RuntimeQuiet, LinkIsUp, DrvModeKept, Sound, Awake,
     DeviceDown, MhiSuspended, AutoSuspend, SuspendResult
<1>11. SuspendUndone'
  BY <1>2 DEF Inv, TypeInv, SuspendUndone, Awake, AutoSuspend, SuspendResult
<1>12. QED
  BY <1>3, <1>4, <1>5, <1>6, <1>7, <1>8, <1>9, <1>10, <1>11 DEF Inv

LEMMA AutoResumeStep ==
    ASSUME Inv, NEW ok \in BOOLEAN, AutoResume(ok)
    PROVE  Inv'
<1>1. Busy' = Busy
  BY DEF Busy, AutoResume
<1>2. ResumeBus(ok) => ResumeResult(ok)
  BY ResumeBusEffect DEF Inv
<1>3. TypeInv'
  BY FlagValues, <1>2 DEF Inv, TypeInv, AutoResume, ResumeResult
<1>4. AutoSuspendedIsRuntime'
  BY DEF Inv, AutoSuspendedIsRuntime, Cycling, AutoResume
<1>5. RuntimeQuiet'
  BY DEF Inv, AutoSuspendedIsRuntime, RuntimeQuiet, Cycling, AutoResume
<1>6. RecoveryHasCause'
  BY <1>2 DEF Inv, TypeInv, RecoveryHasCause, DeviceDown, AutoResume, ResumeResult
<1>7. CountIsBusy'
  BY <1>1 DEF Inv, CountIsBusy, Cycling, AutoResume
<1>8. LinkIsUp'
  <2>1. Sound' => Sound /\ ~pci_link_down_ind'
    BY <1>2 DEF Sound, DeviceDown, AutoResume, ResumeResult
  <2>2. sys \in {"on", "prepare"} /\ ~runtime_error
    BY DEF Inv, TypeInv, AutoSuspendedIsRuntime, RuntimeQuiet, AutoResume
  <2>3. Sound /\ bus.link = "DOWN" => bus.mhi # "M0"
    BY DEF Inv, DrvModeKept, MhiSuspended
  <2>4. bus' \in BusStates /\ bus'.link \in {"UP", "DOWN"}
    BY <1>2 DEF AutoResume, ResumeResult, BusStates
  <2>5. Sound' => bus'.link = "UP" /\ (~ok => bus'.mhi # "M0")
    BY <1>2, <2>1, <2>3, <2>4 DEF AutoResume, ResumeResult
  <2>6. QED
    BY <2>2, <2>5 DEF LinkIsUp, AutoResume
<1>9. WakeIsHandled'
  <2>1. bus'.link = "UP" => ~bus'.wake
    BY <1>2 DEF Inv, TypeInv, BusStates, WakeIsHandled, AutoResume, ResumeResult
  <2>2. QED
    BY <2>1 DEF WakeIsHandled, AutoResume
<1>10. DrvModeKept'
  BY <1>2 DEF Inv, DrvModeKept, Sound, DeviceDown, AutoResume, ResumeResult
<1>11. SuspendUndone'
  BY <1>2 DEF Inv, TypeInv, SuspendUndone, Awake, AutoResume, ResumeResult
<1>12. QED
  BY <1>3, <1>4, <1>5, <1>6, <1>7, <1>8, <1>9, <1>10, <1>11 DEF Inv

LEMMA SendGetStep ==
    ASSUME Inv, NEW s \in Senders, NEW ok \in BOOLEAN, SendGet(s, ok)
    PROVE  Inv'
<1>1. /\ senders' \in [Senders -> {"none", "sending", "refused"}]
      /\ Busy' = Busy \cup {s} /\ s \notin Busy
  BY DEF Inv, TypeInv, Busy, SendGet
<1>2. ResumeBus(ok) => ResumeResult(ok)
  BY ResumeBusEffect DEF Inv
<1>3. TypeInv'
  BY <1>2 DEF Inv, TypeInv, SendGet, ResumeResult
<1>4. AutoSuspendedIsRuntime'
  BY DEF Inv, AutoSuspendedIsRuntime, Cycling, SendGet
<1>5. RuntimeQuiet'
  BY DEF Inv, RuntimeQuiet, Cycling, SendGet
<1>6. RecoveryHasCause'
  BY <1>2 DEF Inv, TypeInv, RecoveryHasCause, DeviceDown, SendGet, ResumeResult
<1>7. CountIsBusy'
  <2>1. Busy \in SUBSET Senders
    BY DEF Busy
  <2>2. ~Cycling
    BY DEF Inv, RuntimeQuiet, SendGet
  <2>3. Cardinality(Busy') = Cardinality(Busy) + 1
    BY <1>1, <2>1, BusyIsFinite, FS_AddElement
  <2>4. Cardinality(Busy') <= Cardinality(Senders)
    BY <1>1, <2>1, PciPmAssumption, FS_Subset
  <2>5. QED
    BY <2>2, <2>3, <2>4 DEF Inv, CountIsBusy, Cycling, SendGet
<1>8. LinkIsUp'
  <2>1. ~Cycling /\ (qmi_send_usage_count = 0 <=> Busy = {})
    BY BusyIsCounted DEF Inv, RuntimeQuiet, SendGet
  <2>2. Sound' => Sound /\ ~pci_link_down_ind'
    BY <1>2 DEF Sound, DeviceDown, SendGet, ResumeResult
  <2>3. bus.link = "UP" => bus' = bus
    BY <1>2 DEF SendGet, ResumeResult
  <2>4. bus' \in BusStates /\ bus'.link \in {"UP", "DOWN"}
    BY <1>2 DEF Inv, TypeInv, SendGet, ResumeResult, BusStates
  <2>5. Sound' /\ auto_suspended /\ Busy = {} => bus'.link = "UP"
    BY <1>2, <2>1, <2>2, <2>4 DEF SendGet, ResumeResult
  <2>6. QED
    BY <2>2, <2>3, <2>5 DEF Inv, LinkIsUp, Awake, SendGet
<1>9. WakeIsHandled'
  <2>1. Sound' => Sound
    BY <1>2 DEF Sound, DeviceDown, SendGet, ResumeResult
  <2>2. bus' = bus \/ ~bus'.wake
    BY <1>2 DEF Inv, TypeInv, BusStates, SendGet, ResumeResult
  <2>3. QED
    BY <2>1, <2>2 DEF Inv, WakeIsHandled, Cycling, SendGet
<1>10. DrvModeKept'
  BY <1>2 DEF Inv, DrvModeKept, Sound, DeviceDown, MhiSuspended, SendGet,
     ResumeResult
<1>11. SuspendUndone'
  BY <1>2 DEF Inv, TypeInv, SuspendUndone, Awake, SendGet, ResumeResult
<1>12. QED
  BY <1>3, <1>4, <1>5, <1>6, <1>7, <1>8, <1>9, <1>10, <1>11 DEF Inv

LEMMA SendPutStep ==
    ASSUME Inv, NEW s \in Senders, SendPut(s)
    PROVE  Inv'
<1>1. /\ senders' \in [Senders -> {"none", "sending", "refused"}]
      /\ Busy' = Busy \ {s} /\ s \in Busy
  BY DEF Inv, TypeInv, Busy, SendPut
<1>2. \A r \in BOOLEAN : SuspendBus(r) => SuspendResult(r)
  BY SuspendBusEffect DEF Inv
<1>3. TypeInv'
  BY <1>2 DEF Inv, TypeInv, SendPut, SuspendResult
<1>4. AutoSuspendedIsRuntime'
  BY DEF Inv, AutoSuspendedIsRuntime, Cycling, SendPut
<1>5. RuntimeQuiet'
  BY <1>1 DEF Inv, RuntimeQuiet, Cycling, SendPut
<1>6. RecoveryHasCause'
  BY <1>2 DEF Inv, TypeInv, RecoveryHasCause, DeviceDown, SendPut, SuspendResult
<1>7. CountIsBusy'
  <2>1. Busy \in SUBSET Senders
    BY DEF Busy
  <2>2. ~Cycling
    BY <1>1 DEF Inv, RuntimeQuiet
  <2>3. /\ Cardinality(Busy) \in Nat /\ Cardinality(Busy) # 0
        /\ Cardinality(Busy') = Cardinality(Busy) - 1
    BY <1>1, <2>1, BusyIsFinite, FS_RemoveElement
  <2>4. QED
    BY <2>2, <2>3, PciPmAssumption, FS_CardinalityType
       DEF Inv, TypeInv, CountIsBusy, Cycling, SendPut
<1>8. LinkIsUp'
  <2>1. ~Cycling /\ Busy' \in SUBSET Senders
    BY <1>1 DEF Inv, RuntimeQuiet, Busy
  <2>2. qmi_send_usage_count' = 0 <=> Busy' = {}
    BY <2>1, <1>7, BusyIsFinite DEF CountIsBusy, Cycling, SendPut
  <2>3. (Sound' <=> Sound) /\ (Sound => ~DeviceDown)
    BY DEF Sound, DeviceDown, SendPut
  <2>4. CASE auto_suspended /\ qmi_send_usage_count' = 0
    <3>1. sys \in {"on", "prepare"} \/ runtime_error
      BY <2>4 DEF Inv, TypeInv, AutoSuspendedIsRuntime, RuntimeQuiet
    <3>2. QED
      BY <1>1, <1>2, <2>2, <2>3, <2>4, <3>1
         DEF Inv, LinkIsUp, Awake, SendPut, SuspendResult
  <2>5. CASE ~(auto_suspended /\ qmi_send_usage_count' = 0)
    BY <1>1, <2>2, <2>3, <2>5 DEF Inv, LinkIsUp, Awake, SendPut
  <2>6. QED
    BY <2>4, <2>5
<1>9. WakeIsHandled'
  BY <1>2 DEF Inv, WakeIsHandled, Sound, DeviceDown, Cycling, SendPut, SuspendResult
<1>10. DrvModeKept'
  BY <1>1, <1>2 DEF Inv, TypeInv, AutoSuspendedIsRuntime, RuntimeQuiet, LinkIsUp,
     DrvModeKept, Sound, Awake, DeviceDown, MhiSuspended, SendPut, SuspendResult
<1>11. SuspendUndone'
  BY <1>2 DEF Inv, TypeInv, SuspendUndone, Awake, SendPut, SuspendResult
<1>12. QED
  BY <1>3, <1>4, <1>5, <1>6, <1>7, <1>8, <1>9, <1>10, <1>11 DEF Inv

LEMMA SysPrepareStep ==
    ASSUME Inv, SysPrepare
    PROVE  Inv'
<1>1. Busy' = Busy
  BY DEF Busy, SysPrepare
<1>2. TypeInv'
  BY DEF Inv, TypeInv, SysPrepare
<1>3. RuntimeQuiet'
  BY <1>1 DEF Inv, RuntimeQuiet, Cycling, SysPrepare
<1>4. LinkIsUp'
  BY <1>1 DEF Inv, LinkIsUp, Sound, Awake, DeviceDown, SysPrepare
<1>5. SuspendUndone'
  BY DEF Inv, SuspendUndone, Awake, SysPrepare
<1>6. /\ AutoSuspendedIsRuntime' /\ RecoveryHasCause' /\ CountIsBusy'
      /\ WakeIsHandled' /\ DrvModeKept'
  BY <1>1 DEF Inv, AutoSuspendedIsRuntime, RecoveryHasCause, CountIsBusy,
     WakeIsHandled, DrvModeKept, Cycling, DeviceDown, Sound, Awake, MhiSuspended,
     SysPrepare
<1>7. QED
  BY <1>2, <1>3, <1>4, <1>5, <1>6 DEF Inv

LEMMA SysSuspendStep ==
    ASSUME Inv, SysSuspend
    PROVE  Inv'
<1>1. Busy' = Busy
  BY DEF Busy, SysSuspend
<1>2. TypeInv'
  BY FlagValues DEF Inv, TypeInv, SysSuspend
<1>3. RuntimeQuiet'
  BY <1>1 DEF Inv, RuntimeQuiet, Cycling, SysSuspend
<1>4. RecoveryHasCause'
  BY DEF Inv, RecoveryHasCause, DeviceDown, SysSuspend
<1>5. LinkIsUp'
  BY DEF Inv, AutoSuspendedIsRuntime, LinkIsUp, Sound, Awake, DeviceDown, SysSuspend
<1>6. DrvModeKept'
  BY DEF Inv, AutoSuspendedIsRuntime, LinkIsUp, DrvModeKept, Sound, Awake,
     DeviceDown, SysSuspend
<1>7. SuspendUndone'
  BY DEF Inv, SuspendUndone, Awake, SysSuspend
<1>8. /\ AutoSuspendedIsRuntime' /\ CountIsBusy' /\ WakeIsHandled'
  BY <1>1 DEF Inv, AutoSuspendedIsRuntime, CountIsBusy, WakeIsHandled, Cycling,
     Sound, DeviceDown, Awake, SysSuspend
<1>9. QED
  BY <1>2, <1>3, <1>4, <1>5, <1>6, <1>7, <1>8 DEF Inv

LEMMA PmControlStep ==
    ASSUME Inv, PmControl
    PROVE  Inv'
<1>1. Busy' = Busy
  BY DEF Busy, PmControl
<1>2. TypeInv'
  BY FlagValues DEF Inv, TypeInv, PmControl
<1>3. LinkIsUp'
  BY <1>1 DEF Inv, LinkIsUp, Sound, Awake, DeviceDown, PmControl
<1>4. /\ AutoSuspendedIsRuntime' /\ RuntimeQuiet' /\ RecoveryHasCause'
      /\ CountIsBusy' /\ WakeIsHandled' /\ DrvModeKept'
      /\ SuspendUndone'
  BY <1>1 DEF Inv, AutoSuspendedIsRuntime, RuntimeQuiet, RecoveryHasCause,
     CountIsBusy, WakeIsHandled, DrvModeKept, SuspendUndone, Cycling, DeviceDown,
     Sound, Awake, MhiSuspended, PmControl
<1>5. QED
  BY <1>2, <1>3, <1>4 DEF Inv

LEMMA SysSuspendBusStep ==
    ASSUME Inv, NEW ok \in BOOLEAN, SysSuspendBus(ok)
    PROVE  Inv'
<1>1. Busy' = Busy
  BY DEF Busy, SysSuspendBus
<1>2. SuspendBus(ok) => SuspendResult(ok)
  BY SuspendBusEffect DEF Inv
<1>3. TypeInv'
  BY FlagValues, <1>2 DEF Inv, TypeInv, SysSuspendBus, ResumeDriver, SuspendResult
<1>4. RuntimeQuiet'
  BY <1>1 DEF Inv, RuntimeQuiet, Cycling, SysSuspendBus, ResumeDriver
<1>5. RecoveryHasCause'
  BY <1>2 DEF Inv, TypeInv, RecoveryHasCause, DeviceDown, SysSuspendBus,
     ResumeDriver, SuspendResult
<1>6. LinkIsUp'
  <2>1. Sound' => Sound
    BY DEF Sound, DeviceDown, SysSuspendBus
  <2>2. Sound => bus.link = "UP" /\ (runtime_error => bus.mhi # "M0")
    BY DEF Inv, LinkIsUp, SysSuspendBus
  <2>3. /\ ok => sys' = "asleep"
        /\ ~ok => sys' = "on" /\ ~disable_pc
        /\ UNCHANGED <<runtime_error, disable_pc>>
        /\ disable_pc => bus' = bus
        /\ ~disable_pc => SuspendResult(ok)
    BY <1>2 DEF SysSuspendBus
  <2>4. QED
    BY <2>1, <2>2, <2>3 DEF LinkIsUp, Awake, SuspendResult
<1>7. WakeIsHandled'
  BY <1>2 DEF Inv, RuntimeQuiet, WakeIsHandled, SysSuspendBus, SuspendResult
<1>8. DrvModeKept'
  BY <1>2 DEF Inv, LinkIsUp, DrvModeKept, Sound, DeviceDown, MhiSuspended,
     SysSuspendBus, SuspendResult
<1>9. SuspendUndone'
  BY <1>2 DEF Inv, TypeInv, RecoveryHasCause, SuspendUndone, Awake, SysSuspendBus,
     ResumeDriver, SuspendResult
<1>10. /\ AutoSuspendedIsRuntime' /\ CountIsBusy'
  BY <1>1 DEF Inv, AutoSuspendedIsRuntime, CountIsBusy, Cycling, SysSuspendBus
<1>11. QED
  BY <1>3, <1>4, <1>5, <1>6, <1>7, <1>8, <1>9, <1>10 DEF Inv

LEMMA SysResumeStep ==
    ASSUME Inv, NEW ok \in BOOLEAN, SysResume(ok)
    PROVE  Inv'
<1>1. Busy' = Busy
  BY DEF Busy, SysResume
<1>2. ResumeBus(ok) => ResumeResult(ok)
  BY ResumeBusEffect DEF Inv
<1>3. TypeInv'
  BY FlagValues, <1>2 DEF Inv, TypeInv, SysResume, ResumeDriver, ResumeResult
<1>4. RuntimeQuiet'
  BY <1>1 DEF Inv, RuntimeQuiet, Cycling, SysResume, ResumeDriver
<1>5. RecoveryHasCause'
  BY <1>2 DEF Inv, TypeInv, RecoveryHasCause, DeviceDown, SysResume, ResumeDriver,
     ResumeResult
<1>6. LinkIsUp'
  <2>1. Sound' => Sound /\ ~pci_link_down_ind' /\ ~pci_link_down_ind /\ powered_on
    BY <1>2 DEF Sound, DeviceDown, SysResume, ResumeResult
  <2>2. bus' \in BusStates /\ bus'.link \in {"UP", "DOWN"}
    BY <1>2 DEF Inv, TypeInv, SysResume, ResumeResult, BusStates
  <2>3. Sound' => bus'.link = "UP"
    BY <1>2, <2>1, <2>2 DEF Inv, LinkIsUp, SysResume, ResumeResult
  <2>4. Sound' /\ runtime_error' => bus'.mhi # "M0"
    BY <1>2, <2>1 DEF Inv, LinkIsUp, SysResume, ResumeResult
  <2>5. QED
    BY <2>3, <2>4 DEF LinkIsUp, SysResume
<1>7. WakeIsHandled'
  <2>1. Sound' => Sound
    BY <1>2 DEF Sound, DeviceDown, SysResume, ResumeResult
  <2>2. bus' = bus \/ ~bus'.wake
    BY <1>2 DEF Inv, TypeInv, BusStates, SysResume, ResumeResult
  <2>3. QED
    BY <2>1, <2>2 DEF Inv, WakeIsHandled, Cycling, SysResume
<1>8. DrvModeKept'
  BY <1>2 DEF Inv, LinkIsUp, DrvModeKept, Sound, DeviceDown, SysResume, ResumeResult
<1>9. SuspendUndone'
  BY <1>2 DEF Inv, TypeInv, RecoveryHasCause, SuspendUndone, DeviceDown, SysResume,
     ResumeDriver, ResumeResult
<1>10. /\ AutoSuspendedIsRuntime' /\ CountIsBusy'
  BY <1>1 DEF Inv, AutoSuspendedIsRuntime, CountIsBusy, Cycling, SysResume
<1>11. QED
  BY <1>3, <1>4, <1>5, <1>6, <1>7, <1>8, <1>9, <1>10 DEF Inv

LEMMA WakeEventStep ==
    ASSUME Inv, WakeEvent
    PROVE  Inv'
<1>1. bus' \in BusStates /\ bus'.link = bus.link /\ bus'.mhi = bus.mhi
  BY DEF Inv, TypeInv, BusStates, WakeEvent
<1>2. Busy' = Busy
  BY DEF Busy, WakeEvent
<1>3. /\ UNCHANGED <<powered_on, pci_link_down_ind, dev_err, faults, auto_suspended>>
      /\ UNCHANGED <<qmi_send_usage_count, in_suspend_resume>>
      /\ UNCHANGED <<sys, host, runtime_status, runtime_error, worker>>
  BY DEF WakeEvent, RequestResume
<1>4. TypeInv'
  BY FlagValues, <1>1 DEF Inv, TypeInv, WakeEvent, RequestResume
<1>5. LinkIsUp'
  BY <1>2 DEF Inv, LinkIsUp, Sound, Awake, DeviceDown, WakeEvent, RequestResume
<1>6. WakeIsHandled'
  BY <1>1 DEF Inv, RuntimeQuiet, WakeIsHandled, WakeEvent, RequestResume
<1>7. DrvModeKept'
  BY DEF Inv, DrvModeKept, Sound, DeviceDown, MhiSuspended, WakeEvent
<1>8. /\ AutoSuspendedIsRuntime' /\ RuntimeQuiet' /\ RecoveryHasCause'
      /\ CountIsBusy' /\ SuspendUndone'
  BY <1>2, <1>3 DEF Inv, AutoSuspendedIsRuntime, RuntimeQuiet, RecoveryHasCause,
     CountIsBusy, SuspendUndone, Cycling, DeviceDown, Awake
<1>9. QED
  BY <1>4, <1>5, <1>6, <1>7, <1>8 DEF Inv

LEMMA DrvEventStep ==
    ASSUME Inv, DrvEvent
    PROVE  Inv'
<1>1. Busy' = Busy
  BY DEF Busy, DrvEvent
<1>2. /\ UNCHANGED <<powered_on, pci_link_down_ind, dev_err, faults, bus, auto_suspended>>
      /\ UNCHANGED <<drv_connected_last, qmi_send_usage_count, disable_pc, in_suspend_resume>>
      /\ UNCHANGED <<sys, host, runtime_status, runtime_error, worker>>
  BY DEF DrvEvent, RequestResume
<1>3. TypeInv'
  BY FlagValues DEF Inv, TypeInv, DrvEvent, RequestResume
<1>4. WakeIsHandled'
  BY DEF Inv, WakeIsHandled, Sound, DeviceDown, Cycling, DrvEvent, RequestResume
<1>5. /\ AutoSuspendedIsRuntime' /\ RuntimeQuiet' /\ RecoveryHasCause'
      /\ CountIsBusy' /\ LinkIsUp' /\ DrvModeKept'
      /\ SuspendUndone'
  BY <1>1, <1>2 DEF Inv, AutoSuspendedIsRuntime, RuntimeQuiet, RecoveryHasCause,
     CountIsBusy, LinkIsUp, DrvModeKept, SuspendUndone, Cycling, DeviceDown, Sound,
     Awake, MhiSuspended
<1>6. QED
  BY <1>3, <1>4, <1>5 DEF Inv

LEMMA DeviceFailsStep ==
    ASSUME Inv, DeviceFails
    PROVE  Inv'
<1>1. faults' \in 0..MaxFaults /\ faults' > 0
  BY PciPmAssumption DEF Inv, TypeInv, DeviceFails, Fault
<1>2. Busy' = Busy
  BY DEF Busy, DeviceFails
<1>3. TypeInv'
  BY <1>1 DEF Inv, TypeInv, DeviceFails
<1>4. RecoveryHasCause'
  BY DEF Inv, TypeInv, RecoveryHasCause, DeviceFails, Fault
<1>5. LinkIsUp'
  BY DEF Inv, LinkIsUp, Sound, DeviceDown, DeviceFails
<1>6. WakeIsHandled'
  BY DEF Inv, WakeIsHandled, Sound, Cycling, DeviceFails
<1>7. DrvModeKept'
  BY DEF Inv, DrvModeKept, Sound, MhiSuspended, DeviceFails
<1>8. SuspendUndone'
  BY DEF Inv, TypeInv, SuspendUndone, DeviceFails, Fault
<1>9. /\ AutoSuspendedIsRuntime' /\ RuntimeQuiet' /\ CountIsBusy'
  BY <1>2 DEF Inv, AutoSuspendedIsRuntime, RuntimeQuiet, CountIsBusy, Cycling,
     DeviceFails
<1>10. QED
  BY <1>3, <1>4, <1>5, <1>6, <1>7, <1>8, <1>9 DEF Inv

LEMMA RecoveryBeginStep ==
    ASSUME Inv, RecoveryBegin
    PROVE  Inv'
<1>1. Busy' = Busy
  BY DEF Busy, RecoveryBegin
<1>2. TypeInv'
  BY DEF Inv, TypeInv, RecoveryBegin
<1>3. AutoSuspendedIsRuntime'
  BY DEF Inv, AutoSuspendedIsRuntime, Cycling, RecoveryBegin
<1>4. RuntimeQuiet'
  BY DEF Inv, RuntimeQuiet, Cycling, RecoveryBegin
<1>5. RecoveryHasCause'
  BY DEF Inv, RecoveryHasCause, DeviceDown, RecoveryBegin
<1>6. CountIsBusy'
  BY <1>1 DEF Inv, CountIsBusy, Cycling, RecoveryBegin
<1>7. LinkIsUp'
  BY DEF Inv, LinkIsUp, Sound, RecoveryBegin
<1>8. WakeIsHandled'
  BY DEF Inv, WakeIsHandled, Sound, Cycling, RecoveryBegin
<1>9. DrvModeKept'
  BY DEF Inv, DrvModeKept, Sound, RecoveryBegin
<1>10. SuspendUndone'
  BY DEF Inv, SuspendUndone, Awake, RecoveryBegin
<1>11. QED
  BY <1>2, <1>3, <1>4, <1>5, <1>6, <1>7, <1>8, <1>9, <1>10 DEF Inv

LEMMA ShutdownHostStep ==
    ASSUME Inv, ShutdownHost
    PROVE  Inv'
<1>1. senders' \in [Senders -> {"none", "sending", "refused"}] /\ Busy' = {}
  BY DEF Busy, ShutdownHost
<1>2. TypeInv'
  BY FlagValues DEF Inv, TypeInv, ShutdownHost
<1>3. AutoSuspendedIsRuntime'
  BY DEF Inv, AutoSuspendedIsRuntime, Cycling, ShutdownHost
<1>4. RuntimeQuiet'
  BY <1>1 DEF Inv, RuntimeQuiet, ShutdownHost
<1>5. RecoveryHasCause'
  BY DEF Inv, RecoveryHasCause, DeviceDown, ShutdownHost
<1>6. CountIsBusy'
  BY DEF Inv, CountIsBusy, Cycling, ShutdownHost
<1>7. LinkIsUp'
  BY DEF Inv, LinkIsUp, Sound, ShutdownHost
<1>8. WakeIsHandled'
  BY DEF Inv, WakeIsHandled, ShutdownHost
<1>9. DrvModeKept'
  BY DEF Inv, DrvModeKept, Sound, ShutdownHost
<1>10. SuspendUndone'
  BY DEF Inv, RecoveryHasCause, SuspendUndone, ShutdownHost
<1>11. QED
  BY <1>2, <1>3, <1>4, <1>5, <1>6, <1>7, <1>8, <1>9, <1>10 DEF Inv

LEMMA PowerOffStep ==
    ASSUME Inv, PowerOff
    PROVE  Inv'
<1>1. bus' \in BusStates /\ bus'.link = "DOWN" /\ ~bus'.wake
  BY DEF BusStates, PowerOff
<1>2. Busy' = Busy
  BY DEF Busy, PowerOff
<1>3. TypeInv'
  BY FlagValues, <1>1 DEF Inv, TypeInv, PowerOff
<1>4. AutoSuspendedIsRuntime'
  BY DEF Inv, AutoSuspendedIsRuntime, Cycling, PowerOff
<1>5. RuntimeQuiet'
  BY <1>2 DEF Inv, RuntimeQuiet, Cycling, PowerOff
<1>6. RecoveryHasCause'
  BY DEF Inv, RecoveryHasCause, DeviceDown, PowerOff
<1>7. CountIsBusy'
  BY DEF Inv, CountIsBusy, Cycling, PowerOff
<1>8. LinkIsUp'
  BY DEF Inv, LinkIsUp, Sound, PowerOff
<1>9. WakeIsHandled'
  BY DEF Inv, WakeIsHandled, Cycling, PowerOff
<1>10. DrvModeKept'
  BY DEF Inv, DrvModeKept, Sound, PowerOff
<1>11. SuspendUndone'
  BY DEF Inv, SuspendUndone, Awake, PowerOff
<1>12. QED
  BY <1>3, <1>4, <1>5, <1>6, <1>7, <1>8, <1>9, <1>10, <1>11 DEF Inv

LEMMA PowerUpStep ==
    ASSUME Inv, PowerUp
    PROVE  Inv'
<1>1. bus' \in BusStates /\ bus'.link = "UP" /\ ~bus'.wake
  BY DEF BusStates, PowerUp
<1>2. Busy' = Busy
  BY DEF Busy, PowerUp
<1>3. TypeInv'
  BY FlagValues, <1>1 DEF Inv, TypeInv, PowerUp
<1>4. AutoSuspendedIsRuntime'
  BY DEF Inv, AutoSuspendedIsRuntime, RuntimeQuiet, Cycling, PowerUp
<1>5. RuntimeQuiet'
  BY DEF Inv, RuntimeQuiet, Cycling, PowerUp
<1>6. RecoveryHasCause'
  BY DEF Inv, RecoveryHasCause, PowerUp
<1>7. CountIsBusy'
  <2>1. Busy' = {} /\ qmi_send_usage_count' = 0
    BY <1>2 DEF Inv, RuntimeQuiet, Cycling, PowerUp
  <2>2. QED
    BY <2>1, FS_EmptySet, FS_CardinalityType, PciPmAssumption DEF CountIsBusy
<1>8. LinkIsUp'
  BY DEF Inv, LinkIsUp, PowerUp
<1>9. WakeIsHandled'
  BY DEF Inv, WakeIsHandled, PowerUp
<1>10. DrvModeKept'
  BY DEF Inv, DrvModeKept, PowerUp
<1>11. SuspendUndone'
  BY DEF Inv, SuspendUndone, Awake, PowerUp
<1>12. QED
  BY <1>3, <1>4, <1>5, <1>6, <1>7, <1>8, <1>9, <1>10, <1>11 DEF Inv

-----------------------------------------------------------------------------
(***************************************************************************)
(* The theorems                                                            *)
(***************************************************************************)

LEMMA InitInv == Init => Inv
<1>1. ASSUME Init
      PROVE  Inv
  <2>1. TypeInv
    <3>1. bus \in BusStates
      BY <1>1 DEF Init, BusStates
    <3>2. drv_supported \in Flag
      BY <1>1 DEF Init, Flag
    <3>3. senders \in [Senders -> {"none", "sending", "refused"}]
      BY <1>1 DEF Init
    <3>4. faults \in 0..MaxFaults
      BY <1>1, PciPmAssumption DEF Init
    <3>5. QED
      BY <1>1, <3>1, <3>2, <3>3, <3>4, FlagValues DEF Init, TypeInv
  <2>2. Busy = {}
    BY <1>1 DEF Init, Busy
  <2>3. CountIsBusy
    BY <1>1, <2>2, FS_EmptySet, FS_CardinalityType, PciPmAssumption DEF Init, CountIsBusy
  <2>4. /\ AutoSuspendedIsRuntime /\ RuntimeQuiet /\ RecoveryHasCause
        /\ LinkIsUp /\ WakeIsHandled
    BY <1>1, <2>2 DEF Init, AutoSuspendedIsRuntime, RuntimeQuiet, RecoveryHasCause,
         LinkIsUp, WakeIsHandled, Cycling, DeviceDown
  <2>5. DrvModeKept /\ SuspendUndone
    BY <1>1 DEF Init, DrvModeKept, SuspendUndone
  <2>6. QED
    BY <2>1, <2>3, <2>4, <2>5 DEF Inv
<1>2. QED
  BY <1>1

LEMMA StutterStep == Inv /\ UNCHANGED vars => Inv'
<1>1. ASSUME Inv, UNCHANGED vars
      PROVE  Inv'
  <2>1. Busy' = Busy
    BY <1>1 DEF vars, Busy
  <2>2. TypeInv' /\ CountIsBusy'
    BY <1>1, <2>1 DEF Inv, vars, TypeInv, CountIsBusy, Cycling
  <2>3. AutoSuspendedIsRuntime' /\ RuntimeQuiet' /\ RecoveryHasCause'
    BY <1>1, <2>1 DEF Inv, vars, AutoSuspendedIsRuntime, RuntimeQuiet, RecoveryHasCause,
         Cycling, DeviceDown
  <2>4. LinkIsUp' /\ WakeIsHandled'
    BY <1>1, <2>1 DEF Inv, vars, LinkIsUp, WakeIsHandled, Sound, Awake, Cycling, DeviceDown
  <2>5. DrvModeKept' /\ SuspendUndone'
    BY <1>1 DEF Inv, vars, DrvModeKept, SuspendUndone, Sound, Awake, DeviceDown, MhiSuspended
  <2>6. QED
    BY <2>2, <2>3, <2>4, <2>5 DEF Inv
<1>2. QED
  BY <1>1

LEMMA NextInv == Inv /\ [Next]_vars => Inv'
<1> SUFFICES ASSUME Inv, [Next]_vars
             PROVE  Inv'
  OBVIOUS
<1>1. CASE UNCHANGED vars
  BY <1>1, StutterStep
<1>2. CASE Next
  BY <1>2, RuntimeSuspendStep, MonitorWakeStep, RuntimeResumeStep, AutoSuspendStep,
     AutoResumeStep, SendGetStep, SendPutStep, SysPrepareStep, SysSuspendStep,
     PmControlStep, SysSuspendBusStep, SysResumeStep, WakeEventStep, DrvEventStep,
     DeviceFailsStep, RecoveryBeginStep, ShutdownHostStep, PowerOffStep, PowerUpStep
     DEF Next
<1>3. QED
  BY <1>1, <1>2

\* The inductive invariant holds throughout.
LEMMA Invariance == Spec => []Inv
<1>1. QED
  BY InitInv, NextInv, PTL DEF Spec

\* Every variable keeps its type, and no more messages are ever counted than
\* there are senders.
THEOREM TypeCorrect == Spec => []TypeOK
<1>1. Inv => TypeOK
  <2> SUFFICES ASSUME Inv
               PROVE  TypeOK
    OBVIOUS
  <2>1. qmi_send_usage_count \in 0..Cardinality(Senders)
    BY PciPmAssumption, FS_CardinalityType DEF Inv, TypeInv, CountIsBusy
  <2>2. QED
    BY <2>1 DEF Inv, TypeInv, TypeOK, Flag, BusStates
<1>2. QED
  BY <1>1, Invariance, PTL

\* Whatever suspends, resumes and failures have come before, the users of an
\* active device find its link up (cnss_auto_suspend, cnss_auto_resume,
\* cnss_pci_suspend, cnss_pci_resume).
THEOREM ActiveDeviceHasLink == Spec => []ActiveHasLink
<1>1. Inv => ActiveHasLink
  BY DEF Inv, AutoSuspendedIsRuntime, LinkIsUp, ActiveHasLink
<1>2. QED
  BY <1>1, Invariance, PTL

\* A sender that cnss_pci_qmi_send_get let through keeps the link up until
\* cnss_pci_qmi_send_put, whatever the number of senders.
THEOREM SenderKeepsLink == Spec => []SenderHasLink
<1>1. Inv => SenderHasLink
  BY DEF Inv, LinkIsUp, Busy, SenderHasLink
<1>2. QED
  BY <1>1, Invariance, PTL

\* No wake event of a suspended device is lost (cnss_pci_event_cb).
THEOREM WakeIsNotLost == Spec => []NoLostWake
<1>1. Inv => NoLostWake
  BY DEF Inv, AutoSuspendedIsRuntime, WakeIsHandled, NoLostWake, Sound, Cycling
<1>2. QED
  BY <1>1, Invariance, PTL

\* The bus is resumed in the way it was suspended (drv_connected_last).
THEOREM DrvModeIsKept == Spec => []DrvModeKept
<1>1. Inv => DrvModeKept
  BY DEF Inv
<1>2. QED
  BY <1>1, Invariance, PTL

\* As long as the device has not failed, every path out of cnss_pci_suspend
\* and cnss_pci_resume leaves the host driver up and the suspend bit clear.
THEOREM SuspendIsUndone == Spec => []SuspendUndone
<1>1. Inv => SuspendUndone
  BY DEF Inv
<1>2. QED
  BY <1>1, Invariance, PTL

=============================================================================
