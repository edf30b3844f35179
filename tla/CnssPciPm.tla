------------------------------- MODULE CnssPciPm -------------------------------
(***************************************************************************)
(* Power management of the PCIe link under cnss2 (cnss2/pci.c,             *)
(* cnss2/pci_qcom.c): system suspend, runtime suspend, the senders of QMI  *)
(* messages that need the link while the device is runtime suspended, wake *)
(* and DRV events, and the power cycle of a recovery.                      *)
(*                                                                         *)
(* bus_lock covers auto suspend, auto resume, both ends of a QMI send and  *)
(* the bus part of the system suspend; each such section is one action.    *)
(* Flags are set outside of it, in actions of their own.                   *)
(*                                                                         *)
(* External, modelled from how the code uses it: the PM core, which        *)
(* resumes the device before it suspends the system, does not suspend it   *)
(* at run time meanwhile, defers a resume that is requested during a       *)
(* suspend and refuses to go on after a resume that failed; and the host   *)
(* driver, whose senders give up when it is shut down.                     *)
(***************************************************************************)
EXTENDS Naturals, FiniteSets

CONSTANTS
    Senders,    \* the contexts of the host driver that send QMI messages
    MaxFaults   \* how often the device or its link fail (bound)

ASSUME PciPmAssumption == IsFiniteSet(Senders) /\ MaxFaults \in Nat

VARIABLES
    powered_on,            \* plat_priv->powered_on
    bus,                   \* pci_link_state, how MHI is suspended, and whether
                           \* the device has asked to be woken
    pci_link_down_ind,     \* the link failed
    dev_err,               \* CNSS_DEV_ERR_NOTIFY: the firmware failed
    faults,                \* how many faults there were
    drv_supported,         \* the firmware can suspend by DRV, and by DRV only
    drv_connected,         \* the DRV subsystem is connected
    drv_connected_last,    \* the bus is to be suspended and resumed by DRV
    auto_suspended,        \* the device is runtime suspended
    monitor_wake_intr,     \* a wake is to be turned into a resume
    qmi_send_usage_count,  \* how many QMI messages are being sent
    senders,               \* what cnss_pci_qmi_send_get told each sender
    disable_pc,            \* the link stays up in system suspend
    in_suspend_resume,     \* CNSS_IN_SUSPEND_RESUME
    sys,                   \* where the system suspend stands
    host,                  \* the host driver: up, suspended, halted
    runtime_status,        \* power.runtime_status
    resume_request,        \* a runtime resume is requested
    runtime_error,         \* a runtime resume failed
    worker                 \* where the recovery stands

deviceVars == <<powered_on, pci_link_down_ind, dev_err, faults>>
drvVars    == <<drv_supported, drv_connected>>
qmiVars    == <<qmi_send_usage_count, senders>>
sysVars    == <<disable_pc, in_suspend_resume, sys, host>>
rpmVars    == <<runtime_status, resume_request, runtime_error>>
vars == <<deviceVars, bus, drvVars, drv_connected_last, auto_suspended,
          monitor_wake_intr, qmiVars, sysVars, rpmVars, worker>>

Init ==
    /\ powered_on = TRUE
    /\ bus = [link |-> "UP", mhi |-> "M0", wake |-> FALSE]
    /\ pci_link_down_ind = FALSE /\ dev_err = FALSE /\ faults = 0
    /\ drv_supported \in BOOLEAN
    /\ drv_connected = FALSE /\ drv_connected_last = FALSE
    /\ auto_suspended = FALSE /\ monitor_wake_intr = FALSE
    /\ qmi_send_usage_count = 0
    /\ senders = [s \in Senders |-> "none"]
    /\ disable_pc = FALSE /\ in_suspend_resume = FALSE
    /\ sys = "on" /\ host = "up"
    /\ runtime_status = "active" /\ resume_request = FALSE /\ runtime_error = FALSE
    /\ worker = "idle"

Fault == faults < MaxFaults /\ faults' = faults + 1

\* cnss_pcie_is_device_down
DeviceDown == dev_err \/ pci_link_down_ind

\* pm_request_resume: remembered while the device is suspended or about to be.
RequestResume ==
    /\ resume_request' = (resume_request \/ (runtime_status # "active" /\ ~runtime_error))
    /\ UNCHANGED <<runtime_status, runtime_error>>

-----------------------------------------------------------------------------
(***************************************************************************)
(* The bus.  MHI is suspended before the link goes down and resumed after  *)
(* it is up, in the way that drv_connected_last says.                      *)
(***************************************************************************)

MhiSuspended == IF drv_connected_last THEN "fast" ELSE "M3"

\* cnss_pci_suspend_bus returns 0, or an error that leaves the bus as it was:
\* MHI cannot be suspended, or the link cannot be taken down and MHI is
\* resumed, which may fail as well.  MHI that is not in M0 is refused.
SuspendBus(ok) ==
    \/ ok /\ bus.link = "DOWN" /\ UNCHANGED <<bus, faults>>
    \/ /\ ok /\ bus.link = "UP" /\ bus.mhi = "M0"
       /\ bus' = [bus EXCEPT !.link = "DOWN", !.mhi = MhiSuspended]
       /\ UNCHANGED faults
    \/ ~ok /\ bus.link = "UP" /\ UNCHANGED <<bus, faults>>
    \/ /\ ~ok /\ bus.link = "UP" /\ bus.mhi = "M0" /\ Fault
       /\ bus' = [bus EXCEPT !.mhi = MhiSuspended]

\* cnss_pci_resume_bus.  If the link does not come up a recovery is scheduled
\* (cnss_pci_link_down).  If pci_enable_device fails the link is up and MHI
\* suspended; so it is if MHI does not resume, but then 0 is returned.
ResumeBus(ok) ==
    \/ ok /\ bus.link = "UP" /\ UNCHANGED <<bus, pci_link_down_ind, faults>>
    \/ /\ ok /\ bus.link = "DOWN" /\ powered_on
       /\ bus' = [link |-> "UP", wake |-> FALSE,
                  mhi |-> IF bus.mhi = MhiSuspended THEN "M0" ELSE bus.mhi]
       /\ UNCHANGED <<pci_link_down_ind, faults>>
    \/ /\ ~ok /\ bus.link = "DOWN"
       /\ Fault \/ (~powered_on /\ UNCHANGED faults)
       /\ pci_link_down_ind' = TRUE
       /\ UNCHANGED bus
    \/ /\ ok \/ ~drv_connected_last
       /\ bus.link = "DOWN" /\ powered_on /\ Fault
       /\ bus' = [bus EXCEPT !.link = "UP", !.wake = FALSE]
       /\ UNCHANGED pci_link_down_ind

-----------------------------------------------------------------------------
(***************************************************************************)
(* Runtime suspend and resume                                              *)
(***************************************************************************)

\* cnss_pci_runtime_suspend up to the call of the host driver, which calls
\* cnss_auto_suspend.  A firmware that cannot do without DRV is left alone
\* while DRV is not connected.
RuntimeSuspend ==
    /\ runtime_status = "active" /\ sys = "on" /\ host = "up"
    /\ powered_on /\ ~pci_link_down_ind
    /\ IF drv_supported
          THEN /\ drv_connected_last' = drv_connected
               /\ runtime_status' = IF drv_connected THEN "suspending" ELSE "active"
          ELSE /\ runtime_status' = "suspending"
               /\ UNCHANGED drv_connected_last
    /\ UNCHANGED <<deviceVars, bus, drvVars, auto_suspended, monitor_wake_intr,
                   qmiVars, sysVars, resume_request, runtime_error, worker>>

\* Mutant: the bus is suspended although messages are being sent.
AutoSuspend_DespiteSenders(ok) ==
    /\ runtime_status = "suspending" /\ ~auto_suspended
    /\ SuspendBus(ok)
    /\ IF ok
          THEN /\ auto_suspended' = TRUE
               /\ UNCHANGED <<drv_connected_last, rpmVars>>
          ELSE /\ drv_connected_last' = FALSE
               /\ runtime_status' = "active" /\ resume_request' = FALSE
               /\ UNCHANGED <<auto_suspended, runtime_error>>
    /\ UNCHANGED <<powered_on, pci_link_down_ind, dev_err, drvVars,
                   monitor_wake_intr, qmiVars, sysVars, worker>>

\* cnss_auto_suspend, the section under bus_lock.  If the host driver refuses
\* or the bus cannot be suspended the device stays active.
AutoSuspend(ok) ==
    /\ runtime_status = "suspending" /\ ~auto_suspended
    /\ IF qmi_send_usage_count = 0
          THEN SuspendBus(ok)
          ELSE UNCHANGED <<bus, faults>>
    /\ IF ok
          THEN /\ auto_suspended' = TRUE
               /\ UNCHANGED <<drv_connected_last, rpmVars>>
          ELSE /\ drv_connected_last' = FALSE
               /\ runtime_status' = "active" /\ resume_request' = FALSE
               /\ UNCHANGED <<auto_suspended, runtime_error>>
    /\ UNCHANGED <<powered_on, pci_link_down_ind, dev_err, drvVars,
                   monitor_wake_intr, qmiVars, sysVars, worker>>

\* Mutant: the wake interrupt is not monitored.
MonitorWake_Skipped ==
    /\ runtime_status = "suspending" /\ auto_suspended
    /\ runtime_status' = "suspended"
    /\ UNCHANGED <<deviceVars, bus, drvVars, drv_connected_last, auto_suspended,
                   monitor_wake_intr, qmiVars, sysVars, resume_request,
                   runtime_error, worker>>

\* The rest of cnss_auto_suspend, after bus_lock is released.
MonitorWake ==
    /\ runtime_status = "suspending" /\ auto_suspended
    /\ monitor_wake_intr' = TRUE
    /\ runtime_status' = "suspended"
    /\ UNCHANGED <<deviceVars, bus, drvVars, drv_connected_last, auto_suspended,
                   qmiVars, sysVars, resume_request, runtime_error, worker>>

\* cnss_pci_runtime_resume up to the call of the host driver.  The PM core
\* resumes the device on request, before a system suspend and for its users.
RuntimeResume ==
    /\ runtime_status = "suspended" /\ ~runtime_error
    /\ IF powered_on /\ ~pci_link_down_ind
          THEN runtime_status' = "resuming" /\ UNCHANGED <<resume_request, runtime_error>>
          ELSE runtime_error' = TRUE /\ resume_request' = FALSE /\ UNCHANGED runtime_status
    /\ UNCHANGED <<deviceVars, bus, drvVars, drv_connected_last, auto_suspended,
                   monitor_wake_intr, qmiVars, sysVars, worker>>

\* cnss_auto_resume and the end of cnss_pci_runtime_resume.
AutoResume(ok) ==
    /\ runtime_status = "resuming"
    /\ ResumeBus(ok)
    /\ resume_request' = FALSE
    /\ IF ok
          THEN /\ auto_suspended' = FALSE /\ drv_connected_last' = FALSE
               /\ runtime_status' = "active" /\ UNCHANGED runtime_error
          ELSE /\ runtime_status' = "suspended" /\ runtime_error' = TRUE
               /\ UNCHANGED <<auto_suspended, drv_connected_last>>
    /\ UNCHANGED <<powered_on, dev_err, drvVars, monitor_wake_intr, qmiVars,
                   sysVars, worker>>

-----------------------------------------------------------------------------
(***************************************************************************)
(* QMI messages                                                            *)
(***************************************************************************)

\* cnss_pci_qmi_send_get: the first sender resumes the bus.  The message is
\* counted whether or not that works.
SendGet(s, ok) ==
    /\ host = "up" /\ senders[s] = "none"
    /\ IF auto_suspended /\ qmi_send_usage_count = 0
          THEN ResumeBus(ok)
          ELSE ok /\ UNCHANGED <<bus, pci_link_down_ind, faults>>
    /\ qmi_send_usage_count' = qmi_send_usage_count + 1
    /\ senders' = [senders EXCEPT ![s] = IF ok THEN "sending" ELSE "refused"]
    /\ UNCHANGED <<powered_on, dev_err, drvVars, drv_connected_last, auto_suspended,
                   monitor_wake_intr, sysVars, rpmVars, worker>>

\* Mutant: the bus is suspended whether or not the device is.
SendPut_Always(s) ==
    LET count == qmi_send_usage_count - 1 IN
    /\ senders[s] # "none"
    /\ qmi_send_usage_count' = count
    /\ senders' = [senders EXCEPT ![s] = "none"]
    /\ IF count = 0 /\ ~DeviceDown
          THEN \E ok \in BOOLEAN : SuspendBus(ok)
          ELSE UNCHANGED <<bus, faults>>
    /\ UNCHANGED <<powered_on, pci_link_down_ind, dev_err, drvVars,
                   drv_connected_last, auto_suspended, monitor_wake_intr,
                   sysVars, rpmVars, worker>>

\* cnss_pci_qmi_send_put: the last sender suspends the bus again if the
\* device is still runtime suspended.
SendPut(s) ==
    LET count == IF qmi_send_usage_count = 0 THEN 0 ELSE qmi_send_usage_count - 1 IN
    /\ senders[s] # "none"
    /\ qmi_send_usage_count' = count
    /\ senders' = [senders EXCEPT ![s] = "none"]
    /\ IF auto_suspended /\ count = 0 /\ ~DeviceDown
          THEN \E ok \in BOOLEAN : SuspendBus(ok)
          ELSE UNCHANGED <<bus, faults>>
    /\ UNCHANGED <<powered_on, pci_link_down_ind, dev_err, drvVars,
                   drv_connected_last, auto_suspended, monitor_wake_intr,
                   sysVars, rpmVars, worker>>

-----------------------------------------------------------------------------
(***************************************************************************)
(* System suspend and resume                                               *)
(***************************************************************************)

sysRest == <<powered_on, dev_err, drvVars, auto_suspended, qmiVars, disable_pc,
             rpmVars, worker>>

\* The PM core begins, or gives up before it has come to this device.
SysPrepare ==
    /\ sys \in {"on", "prepare"}
    /\ sys' = IF sys = "on" THEN "prepare" ELSE "on"
    /\ UNCHANGED <<sysRest, pci_link_down_ind, faults, bus, drv_connected_last,
                   monitor_wake_intr, in_suspend_resume, host>>

\* cnss_pci_suspend up to the callback of the host driver, which may refuse.
SysSuspend ==
    /\ sys = "prepare"
    /\ runtime_status = "active" \/ runtime_error
    /\ \/ ~powered_on /\ sys' = "asleep"
          /\ UNCHANGED <<drv_connected_last, in_suspend_resume, host>>
       \/ /\ powered_on
          /\ drv_supported => drv_connected
          /\ drv_connected_last' = (drv_supported \/ drv_connected_last)
          /\ in_suspend_resume' = TRUE
          /\ host' = IF host = "up" THEN "suspended" ELSE host
          /\ sys' = "suspend_bus"
       \/ /\ powered_on
          /\ drv_connected_last' = FALSE
          /\ in_suspend_resume' = (in_suspend_resume /\ drv_supported /\ ~drv_connected)
          /\ sys' = "on"
          /\ UNCHANGED host
    /\ UNCHANGED <<sysRest, pci_link_down_ind, faults, bus, monitor_wake_intr>>

\* cnss_pci_resume_driver
ResumeDriver == host' = IF host = "suspended" THEN "up" ELSE host

\* Mutant: the host driver is left suspended when the bus cannot be.
SysSuspendBus_KeepsHost(ok) ==
    /\ sys = "suspend_bus"
    /\ IF disable_pc THEN ok /\ UNCHANGED <<bus, faults>> ELSE SuspendBus(ok)
    /\ IF ok
          THEN /\ monitor_wake_intr' = FALSE /\ sys' = "asleep"
               /\ UNCHANGED <<drv_connected_last, in_suspend_resume, host>>
          ELSE /\ sys' = "on" /\ drv_connected_last' = FALSE
               /\ in_suspend_resume' = FALSE
               /\ UNCHANGED <<monitor_wake_intr, host>>
    /\ UNCHANGED <<sysRest, pci_link_down_ind>>

\* Mutant: drv_connected_last is reset by a suspend that succeeds.
SysSuspendBus_ForgetsDrv(ok) ==
    /\ sys = "suspend_bus"
    /\ IF disable_pc THEN ok /\ UNCHANGED <<bus, faults>> ELSE SuspendBus(ok)
    /\ drv_connected_last' = FALSE
    /\ IF ok
          THEN /\ monitor_wake_intr' = FALSE /\ sys' = "asleep"
               /\ UNCHANGED <<in_suspend_resume, host>>
          ELSE /\ sys' = "on" /\ ResumeDriver
               /\ in_suspend_resume' = FALSE
               /\ UNCHANGED monitor_wake_intr
    /\ UNCHANGED <<sysRest, pci_link_down_ind>>

\* The bus part of cnss_pci_suspend, under bus_lock, and its error paths.
SysSuspendBus(ok) ==
    /\ sys = "suspend_bus"
    /\ IF disable_pc THEN ok /\ UNCHANGED <<bus, faults>> ELSE SuspendBus(ok)
    /\ IF ok
          THEN /\ monitor_wake_intr' = FALSE /\ sys' = "asleep"
               /\ UNCHANGED <<drv_connected_last, in_suspend_resume, host>>
          ELSE /\ sys' = "on" /\ ResumeDriver
               /\ drv_connected_last' = FALSE /\ in_suspend_resume' = FALSE
               /\ UNCHANGED monitor_wake_intr
    /\ UNCHANGED <<sysRest, pci_link_down_ind>>

\* cnss_pci_resume.  Nothing is done for a device that is off or whose link
\* has failed, and nothing more if the bus cannot be resumed.
SysResume(ok) ==
    /\ sys = "asleep" /\ sys' = "on"
    /\ IF pci_link_down_ind \/ ~powered_on
          THEN ~ok /\ UNCHANGED <<bus, pci_link_down_ind, faults>>
          ELSE IF disable_pc THEN ok /\ UNCHANGED <<bus, pci_link_down_ind, faults>>
                             ELSE ResumeBus(ok)
    /\ IF ok
          THEN /\ ResumeDriver
               /\ drv_connected_last' = FALSE /\ in_suspend_resume' = FALSE
          ELSE UNCHANGED <<host, drv_connected_last, in_suspend_resume>>
    /\ UNCHANGED <<sysRest, monitor_wake_intr>>

\* cnss_wlan_pm_control, which the host driver does not call while suspended.
PmControl ==
    /\ sys = "on" /\ host = "up"
    /\ disable_pc' = ~disable_pc
    /\ UNCHANGED <<deviceVars, bus, drvVars, drv_connected_last, auto_suspended,
                   monitor_wake_intr, qmiVars, in_suspend_resume, sys, host,
                   rpmVars, worker>>

-----------------------------------------------------------------------------
(***************************************************************************)
(* The device and its recovery                                             *)
(***************************************************************************)

eventRest == <<powered_on, drv_supported, drv_connected_last, auto_suspended,
               qmiVars, sysVars, worker>>

\* MSM_PCIE_EVENT_WAKEUP: the suspended device asks to be woken.
WakeEvent ==
    /\ powered_on /\ bus.link = "DOWN" /\ ~pci_link_down_ind
    /\ bus' = [bus EXCEPT !.wake = TRUE]
    /\ IF (monitor_wake_intr /\ auto_suspended) \/ runtime_status = "suspending"
          THEN monitor_wake_intr' = FALSE /\ RequestResume
          ELSE UNCHANGED <<monitor_wake_intr, rpmVars>>
    /\ UNCHANGED <<eventRest, pci_link_down_ind, dev_err, faults, drv_connected>>

\* MSM_PCIE_EVENT_DRV_CONNECT and _DISCONNECT
DrvEvent ==
    /\ drv_connected' = ~drv_connected
    /\ IF drv_connected /\ auto_suspended THEN RequestResume ELSE UNCHANGED rpmVars
    /\ UNCHANGED <<eventRest, pci_link_down_ind, dev_err, faults, bus, monitor_wake_intr>>

\* The link fails (MSM_PCIE_EVENT_LINKDOWN), or the firmware does.
DeviceFails ==
    /\ powered_on /\ bus.mhi # "off" /\ ~DeviceDown
    /\ Fault
    /\ \/ pci_link_down_ind' = TRUE /\ UNCHANGED dev_err
       \/ dev_err' = TRUE /\ UNCHANGED pci_link_down_ind
    /\ UNCHANGED <<eventRest, bus, drv_connected, monitor_wake_intr, rpmVars>>

\* The recovery begins: cnss_qca6290_shutdown resumes the device first, ...
RecoveryBegin ==
    /\ worker = "idle" /\ DeviceDown /\ powered_on
    /\ worker' = "resume"
    /\ UNCHANGED <<deviceVars, bus, drvVars, drv_connected_last, auto_suspended,
                   monitor_wake_intr, qmiVars, sysVars, rpmVars>>

\* ... has the host driver halt its users of the device, forgets that the
\* device was suspended, ...
ShutdownHost ==
    /\ worker = "resume"
    /\ runtime_status = "active" \/ runtime_error
    /\ worker' = "power_off"
    /\ host' = "halted"
    /\ senders' = [s \in Senders |-> "none"]
    /\ monitor_wake_intr' = FALSE /\ auto_suspended' = FALSE
    /\ UNCHANGED <<deviceVars, bus, drvVars, drv_connected_last, qmi_send_usage_count,
                   disable_pc, in_suspend_resume, sys, rpmVars>>

\* ... and switches it off.  cnss_suspend_pci_link resets drv_connected_last
\* unless the link is already down.
PowerOff ==
    /\ worker = "power_off"
    /\ worker' = "power_up"
    /\ powered_on' = FALSE
    /\ bus' = [link |-> "DOWN", mhi |-> "off", wake |-> FALSE]
    /\ drv_connected_last' = (drv_connected_last /\ bus.link = "DOWN")
    /\ UNCHANGED <<pci_link_down_ind, dev_err, faults, drvVars, auto_suspended,
                   monitor_wake_intr, qmiVars, sysVars, rpmVars>>

\* cnss_qca6290_powerup, up to the reinitialised host driver, which enables
\* runtime PM anew.
PowerUp ==
    /\ worker = "power_up"
    /\ runtime_status \in {"active", "suspended"}
    /\ worker' = "idle"
    /\ qmi_send_usage_count' = 0
    /\ powered_on' = TRUE
    /\ bus' = [link |-> "UP", mhi |-> "M0", wake |-> FALSE]
    /\ pci_link_down_ind' = FALSE /\ dev_err' = FALSE
    /\ host' = "up"
    /\ runtime_status' = "active" /\ resume_request' = FALSE /\ runtime_error' = FALSE
    /\ UNCHANGED <<faults, drvVars, drv_connected_last, auto_suspended,
                   monitor_wake_intr, senders, disable_pc, in_suspend_resume, sys>>

Next ==
    \/ RuntimeSuspend \/ MonitorWake \/ RuntimeResume
    \/ \E ok \in BOOLEAN : AutoSuspend(ok) \/ AutoResume(ok)
    \/ \E s \in Senders : SendPut(s) \/ \E ok \in BOOLEAN : SendGet(s, ok)
    \/ SysPrepare \/ SysSuspend \/ PmControl
    \/ \E ok \in BOOLEAN : SysSuspendBus(ok) \/ SysResume(ok)
    \/ WakeEvent \/ DrvEvent \/ DeviceFails
    \/ RecoveryBegin \/ ShutdownHost \/ PowerOff \/ PowerUp

Spec == Init /\ [][Next]_vars

-----------------------------------------------------------------------------
(***************************************************************************)
(* Properties                                                              *)
(***************************************************************************)

\* Type correctness; no more messages are counted than there are senders.
TypeOK ==
    /\ bus \in [link : {"UP", "DOWN"}, mhi : {"off", "M0", "M3", "fast"}, wake : BOOLEAN]
    /\ powered_on \in BOOLEAN /\ pci_link_down_ind \in BOOLEAN /\ dev_err \in BOOLEAN
    /\ faults \in 0..MaxFaults
    /\ drv_supported \in BOOLEAN /\ drv_connected \in BOOLEAN
    /\ drv_connected_last \in BOOLEAN
    /\ auto_suspended \in BOOLEAN /\ monitor_wake_intr \in BOOLEAN
    /\ qmi_send_usage_count \in 0..Cardinality(Senders)
    /\ senders \in [Senders -> {"none", "sending", "refused"}]
    /\ disable_pc \in BOOLEAN /\ in_suspend_resume \in BOOLEAN
    /\ sys \in {"on", "prepare", "suspend_bus", "asleep"}
    /\ host \in {"up", "suspended", "halted"}
    /\ runtime_status \in {"active", "suspending", "suspended", "resuming"}
    /\ resume_request \in BOOLEAN /\ runtime_error \in BOOLEAN
    /\ worker \in {"idle", "resume", "power_off", "power_up"}

\* No recovery is needed or under way.
Sound == powered_on /\ ~DeviceDown /\ worker = "idle"
Awake == sys \in {"on", "prepare"}

\* The users of an active device find its link up, whatever suspends and
\* resumes, failed or not, have come before.
ActiveHasLink == Sound /\ Awake /\ runtime_status = "active" => bus.link = "UP"

\* A sender that was let through by cnss_pci_qmi_send_get keeps the link up
\* until its cnss_pci_qmi_send_put, across runtime suspend, runtime resume
\* and the other senders that come and go.
SenderHasLink ==
    \A s \in Senders : Sound /\ Awake /\ senders[s] = "sending" => bus.link = "UP"

\* A wake is never lost, not even one that comes in the middle of the runtime
\* suspend: as long as the device is suspended a resume is on its way.
NoLostWake ==
    Sound /\ Awake /\ bus.wake /\ runtime_status = "suspended" /\ ~runtime_error
        => resume_request

\* The bus is resumed the way it was suspended: drv_connected_last, which is
\* assigned in many places, does not change while the link is down.
DrvModeKept ==
    Sound /\ bus.link = "DOWN" => bus.mhi = MhiSuspended

\* A suspend that was refused or failed half way has been undone, and a resume
\* is complete, when the system is on again: the host driver is up and
\* CNSS_IN_SUSPEND_RESUME clear.  (As long as the device has not failed.)
SuspendUndone ==
    faults = 0 /\ Awake => host = "up" /\ ~in_suspend_resume

=============================================================================
