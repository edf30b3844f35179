------------------------------ MODULE CnssDriver ------------------------------
(***************************************************************************)
(* The life of the WLAN device under cnss2 (cnss2/main.c, cnss2/pci.c):    *)
(* the host driver registers and unregisters, lets the device sleep while  *)
(* idle and wakes it, the firmware boots and fails, and recovery power     *)
(* cycles the device.                                                      *)
(*                                                                         *)
(* Four kinds of context interleave: two contexts of the host driver       *)
(* (loading and unloading its module; idle power saving), the event worker *)
(* that runs the handlers one at a time (CnssEventQueue), the recovery     *)
(* work, and the device's callbacks and timers.  They share driver_state,  *)
(* the power state and two completions.                                    *)
(*                                                                         *)
(* The build is the one without CONFIG_MSM_SUBSYSTEM_RESTART, the device   *)
(* one of the QCA6290 family, cold boot calibration is off, no debug quirk *)
(* is set and recovery is enabled.                                         *)
(***************************************************************************)
EXTENDS Naturals, Sequences

CONSTANTS
    MaxFaults,     \* how many times the device may fail (bound)
    MaxCalls,      \* how many calls the host driver makes when the device has
                   \* failed so many times (bound)
    HostMayFail,   \* the callbacks of the host driver that may then return an error
    Idles,         \* the host driver uses idle shutdown and idle restart
    Reboots        \* the numbers of faults after which the system may reboot

ASSUME DriverAssumption ==
    /\ MaxFaults \in Nat /\ MaxCalls \in [0..MaxFaults -> Nat]
    /\ HostMayFail \in [0..MaxFaults -> SUBSET {"probe", "reinit", "idle_restart"}]
    /\ Idles \in BOOLEAN
    /\ Reboots \subseteq 0..MaxFaults

VARIABLES
    driver_state,   \* the set of bits of plat_priv->driver_state
    driver_ops,     \* pci_priv->driver_ops is set
    event_list,     \* the events posted and not yet taken, in order
    event,          \* the event the worker handles
    pc,             \* where the worker and the recovery work stand
    cont,           \* where each of them goes when MHI is off
    recovery_work,  \* recovery_work is queued
    powered_on,     \* plat_priv->powered_on
    link_up,        \* pci_link_state is PCI_LINK_UP
    link_down_ind,  \* pci_link_down_ind: the link failed
    mhi_state,      \* the bits of pci_priv->mhi_state
    dump_valid,     \* ramdump_info_v2.dump_data_valid
    fw,             \* the firmware: off, booting, up, failed, rddm
    timers,         \* the armed ones of fw_boot_timer and dev_rddm_timer
    completions,    \* what has been completed: power_up_complete for all
                    \* waiters or for one, recovery_complete for one
    power_up_error, \* plat_priv->power_up_error is set
    call,           \* where each context of the host driver stands
    driver_ops_lock,\* the context that holds driver_ops_lock, or "none"
    calls,          \* how many calls the host driver has made
    host,           \* the host driver as its callbacks leave it
    faults          \* how many times the device has failed

busVars    == <<powered_on, link_up, link_down_ind, mhi_state, dump_valid>>
deviceVars == <<fw, timers, faults>>
callVars   == <<call, driver_ops_lock, calls>>
threadVars == <<event, pc, cont, recovery_work>>
vars == <<driver_state, driver_ops, event_list, threadVars, busVars,
          deviceVars, completions, power_up_error, callVars, host>>

-----------------------------------------------------------------------------

Bits == {"FW_READY", "DRIVER_LOADING", "DRIVER_UNLOADING",
         "DRIVER_IDLE_RESTART", "DRIVER_IDLE_SHUTDOWN", "DRIVER_PROBED",
         "DRIVER_RECOVERY", "FW_BOOT_RECOVERY", "DEV_ERR_NOTIFY",
         "IN_REBOOT", "DRIVER_REGISTERED"}

Has(bit)       == bit \in driver_state
HasAny(bits)   == bits \cap driver_state # {}
SetBit(b)      == driver_state' = driver_state \cup {b}
ClearBits(bs)  == driver_state' = driver_state \ bs

Threads  == {"worker", "recovery"}
Contexts == {"module", "idle"}

Reasons == {"DEFAULT", "LINK_DOWN", "RDDM", "TIMEOUT"}

Event(type)      == [type |-> type, reason |-> "none"]
Recovery(reason) == [type |-> "RECOVERY", reason |-> reason]
NoEvent          == Event("none")

EventTypes == {"REGISTER_DRIVER", "UNREGISTER_DRIVER", "IDLE_RESTART",
               "IDLE_SHUTDOWN", "POWER_DOWN", "FW_READY", "RECOVERY"}

CanFail == faults < MaxFaults /\ calls <= MaxCalls[faults + 1]
Fault   == CanFail /\ faults' = faults + 1

MhiOn == "POWER_ON" \in mhi_state

Goto(t, label) == pc' = [pc EXCEPT ![t] = label]

Init ==
    /\ driver_state = {}
    /\ driver_ops = FALSE
    /\ event_list = <<>>
    /\ event = NoEvent
    /\ pc = [t \in Threads |-> "idle"]
    /\ cont = [t \in Threads |-> "idle"]
    /\ recovery_work = FALSE
    /\ powered_on = FALSE /\ link_up = FALSE /\ link_down_ind = FALSE
    /\ mhi_state = {} /\ dump_valid = FALSE
    /\ fw = "off" /\ timers = {} /\ faults = 0
    /\ completions = {}
    /\ power_up_error = FALSE
    /\ call = [c \in Contexts |-> "idle"]
    /\ driver_ops_lock = "none"
    /\ calls = 0
    /\ host = "absent"

(***************************************************************************)
(* cnss_schedule_recovery: what it appends to the event list.  Nothing     *)
(* while the driver unloads or goes to sleep.                              *)
(***************************************************************************)
WithRecovery(reason) ==
    IF HasAny({"DRIVER_UNLOADING", "DRIVER_IDLE_SHUTDOWN"})
       THEN event_list
       ELSE Append(event_list, Recovery(reason))

-----------------------------------------------------------------------------
(***************************************************************************)
(* The power sequences.  The worker and the recovery work both run them,   *)
(* each with its own pc, and no lock keeps them apart.                     *)
(***************************************************************************)

\* Mutant: the host driver is not told that its device is reset.
CallDriverRemove_SkipsRecovery(t) ==
    /\ pc[t] = "shutdown"
    /\ HasAny({"FW_BOOT_RECOVERY", "DRIVER_RECOVERY"}) \/ ~driver_ops
    /\ Goto(t, "off")
    /\ UNCHANGED <<driver_state, host, driver_ops, event_list, event, cont,
                   recovery_work, busVars, deviceVars, completions,
                   power_up_error, callVars>>

\* cnss_pci_call_driver_remove, the first thing cnss_qca6290_shutdown does.
\* The idle shutdown callback may refuse with -EAGAIN, which ends it.
CallDriverRemove(t) ==
    /\ pc[t] = "shutdown"
    /\ \/ /\ Has("FW_BOOT_RECOVERY") \/ ~driver_ops
          /\ Goto(t, "off")
          /\ UNCHANGED <<driver_state, host>>
       \/ /\ driver_ops /\ ~Has("FW_BOOT_RECOVERY")
          /\ {"DRIVER_RECOVERY", "DRIVER_PROBED"} \subseteq driver_state
          /\ host' = "halted"
          /\ Goto(t, "off")
          /\ UNCHANGED driver_state
       \/ /\ driver_ops /\ ~Has("FW_BOOT_RECOVERY")
          /\ ~({"DRIVER_RECOVERY", "DRIVER_PROBED"} \subseteq driver_state)
          /\ \/ /\ Has("DRIVER_UNLOADING")
                /\ host' = "absent"
                /\ ClearBits({"DRIVER_PROBED"})
                /\ Goto(t, "off")
             \/ /\ ~Has("DRIVER_UNLOADING") /\ Has("DRIVER_IDLE_SHUTDOWN")
                /\ host' = "asleep"
                /\ Goto(t, "off")
                /\ UNCHANGED driver_state
             \/ /\ ~Has("DRIVER_UNLOADING") /\ Has("DRIVER_IDLE_SHUTDOWN")
                /\ ClearBits({"DRIVER_IDLE_SHUTDOWN"})
                /\ Goto(t, "down")
                /\ UNCHANGED host
             \/ /\ ~HasAny({"DRIVER_UNLOADING", "DRIVER_IDLE_SHUTDOWN"})
                /\ Goto(t, "off")
                /\ UNCHANGED <<driver_state, host>>
    /\ UNCHANGED <<driver_ops, event_list, event, cont, recovery_work, busVars,
                   deviceVars, completions, power_up_error, callVars>>

Transient == {"DRIVER_LOADING", "DRIVER_UNLOADING",
              "DRIVER_IDLE_RESTART", "DRIVER_IDLE_SHUTDOWN"}

\* cnss_pci_collect_dump_info can only succeed, once, while the device has
\* power, the link works and the firmware has failed into RDDM.
CanDump ==
    /\ powered_on /\ ~link_down_ind
    /\ "POWER_ON" \in mhi_state /\ "RDDM_DONE" \notin mhi_state
    /\ fw \in {"failed", "rddm"}

\* The middle of cnss_qca6290_shutdown: take a dump if the device failed
\* during a transition, and leave the device on while a dump is valid.
ShutdownOff(t) ==
    /\ pc[t] = "off"
    /\ LET failed == HasAny(Transient) /\ Has("DEV_ERR_NOTIFY")
       IN  /\ timers' = IF failed THEN timers \ {"rddm"} ELSE timers
           /\ \/ failed /\ CanDump
                 /\ dump_valid' = TRUE
                 /\ mhi_state' = mhi_state \cup {"RDDM_DONE"}
              \/ UNCHANGED <<dump_valid, mhi_state>>
    /\ IF ~powered_on \/ dump_valid'
          THEN Goto(t, "clear") /\ UNCHANGED cont
          ELSE Goto(t, "mhi_off") /\ cont' = [cont EXCEPT ![t] = "clear"]
    /\ UNCHANGED <<driver_state, driver_ops, event_list, event,
                   recovery_work, powered_on, link_up, link_down_ind, fw,
                   faults, completions, power_up_error, callVars, host>>

\* cnss_pci_power_off_mhi, split where the state is tested and changed.
MhiPowerOffTest(t) ==
    /\ pc[t] = "mhi_off"
    /\ Goto(t, IF MhiOn THEN "mhi_power_off" ELSE "device_off")
    /\ UNCHANGED <<driver_state, driver_ops, event_list, event, cont,
                   recovery_work, busVars, deviceVars, completions,
                   power_up_error, callVars, host>>

\* cnss_pci_set_mhi_state(POWER_OFF) is refused, and asserts, when another
\* thread has powered MHI off in between.
MhiPowerOff(t) ==
    /\ pc[t] = "mhi_power_off"
    /\ IF MhiOn
          THEN /\ mhi_state' = mhi_state \ {"POWER_ON", "TRIGGER_RDDM", "RDDM_DONE"}
               /\ fw' = "off"
          ELSE UNCHANGED <<mhi_state, fw>>
    /\ Goto(t, "device_off")
    /\ UNCHANGED <<driver_state, driver_ops, event_list, event, cont,
                   recovery_work, powered_on, link_up, link_down_ind,
                   dump_valid, timers, faults, completions, power_up_error,
                   callVars, host>>

\* Mutant: MHI is not deinitialised.
DeviceOff_KeepsInit(t) ==
    /\ pc[t] = "device_off"
    /\ link_up' = FALSE
    /\ powered_on' = FALSE
    /\ fw' = "off"
    /\ Goto(t, cont[t])
    /\ cont' = [cont EXCEPT ![t] = "idle"]
    /\ UNCHANGED <<driver_state, driver_ops, event_list, event, recovery_work,
                   link_down_ind, mhi_state, dump_valid, timers, faults,
                   completions, power_up_error, callVars, host>>

\* cnss_suspend_pci_link, cnss_pci_deinit_mhi and cnss_power_off_device.
\* set_mhi_state(DEINIT) is refused, and asserts, while MHI is powered on.
DeviceOff(t) ==
    /\ pc[t] = "device_off"
    /\ link_up' = FALSE
    /\ mhi_state' = IF MhiOn THEN mhi_state ELSE mhi_state \ {"INIT"}
    /\ powered_on' = FALSE
    /\ fw' = "off"
    /\ Goto(t, cont[t])
    /\ cont' = [cont EXCEPT ![t] = "idle"]
    /\ UNCHANGED <<driver_state, driver_ops, event_list, event,
                   recovery_work, link_down_ind, dump_valid, timers, faults,
                   completions, power_up_error, callVars, host>>

\* Mutant: DRIVER_IDLE_SHUTDOWN is not cleared.
ShutdownClear_KeepsIdle(t) ==
    /\ pc[t] = "clear"
    /\ ClearBits({"DRIVER_UNLOADING", "FW_READY"})
    /\ Goto(t, "down")
    /\ UNCHANGED <<driver_ops, event_list, event, cont, recovery_work, busVars,
                   deviceVars, completions, power_up_error, callVars, host>>

\* The end of cnss_qca6290_shutdown.
ShutdownClear(t) ==
    /\ pc[t] = "clear"
    /\ LET done == {"DRIVER_UNLOADING", "DRIVER_IDLE_SHUTDOWN"}
       IN  IF HasAny(done)
              THEN /\ ClearBits(done \cup {"FW_READY", "DEV_ERR_NOTIFY"})
                   /\ link_down_ind' = FALSE
              ELSE /\ ClearBits({"FW_READY"})
                   /\ UNCHANGED link_down_ind
    /\ Goto(t, "down")
    /\ UNCHANGED <<driver_ops, event_list, event, cont, recovery_work,
                   powered_on, link_up, mhi_state, dump_valid, deviceVars,
                   completions, power_up_error, callVars, host>>

\* The beginning of cnss_qca6290_powerup: a dump nobody fetched is dropped
\* and the device switched off first.
PowerupBegin(t) ==
    /\ pc[t] = "powerup"
    /\ power_up_error' = FALSE
    /\ dump_valid' = FALSE
    /\ IF dump_valid
          THEN Goto(t, "mhi_off") /\ cont' = [cont EXCEPT ![t] = "power_on"]
          ELSE Goto(t, "power_on") /\ UNCHANGED cont
    /\ UNCHANGED <<driver_state, driver_ops, event_list, event,
                   recovery_work, powered_on, link_up, link_down_ind,
                   mhi_state, deviceVars, completions, callVars, host>>

\* cnss_power_on_device and cnss_resume_pci_link with its retries: either may
\* fail for good, which leaves the device off and ends the sequence.
PowerOnDevice(t) ==
    /\ pc[t] = "power_on"
    /\ \/ /\ powered_on' = TRUE /\ link_up' = TRUE
          /\ link_down_ind' = IF link_up THEN link_down_ind ELSE FALSE
          /\ Goto(t, "start_mhi")
          /\ UNCHANGED <<faults, fw>>
       \/ /\ ~powered_on \/ ~link_up
          /\ CanFail
          /\ faults' = faults + 1
          /\ powered_on' = FALSE
          /\ fw' = "off"
          /\ Goto(t, "up_failed")
          /\ UNCHANGED <<link_up, link_down_ind>>
    /\ UNCHANGED <<driver_state, driver_ops, event_list, event, cont,
                   recovery_work, mhi_state, dump_valid, timers,
                   completions, power_up_error, callVars, host>>

\* cnss_pci_start_mhi.  MHI refuses to start twice, and asserts; otherwise it
\* starts, or fails to, or times out.  After a timeout MHI counts as powered
\* on, so that it is powered off later, and a device that may still report
\* RDDM is given time to.
MhiStarts ==
    /\ "INIT" \notin mhi_state
    /\ mhi_state' = mhi_state \cup {"INIT", "POWER_ON"}
    /\ fw' = "booting"
    /\ timers' = timers \cup {"fw_boot"}
    /\ UNCHANGED faults

MhiTimesOutInRddm ==
    /\ "INIT" \notin mhi_state
    /\ Fault
    /\ mhi_state' = mhi_state \cup {"INIT", "POWER_ON"}
    /\ fw' = "failed"
    /\ timers' = timers \cup {"fw_boot"} \cup
                 (IF Has("DEV_ERR_NOTIFY") \/ link_down_ind THEN {} ELSE {"rddm"})

MhiFails ==
    \/ /\ "INIT" \in mhi_state
       /\ UNCHANGED <<mhi_state, fw, timers, faults>>
    \/ /\ "INIT" \notin mhi_state
       /\ Fault
       /\ mhi_state' \in {mhi_state, mhi_state \cup {"INIT"},
                          mhi_state \cup {"INIT", "POWER_ON"}}
       /\ fw' = "off"
       /\ UNCHANGED timers

\* cnss_qca6290_powerup after the link is up: a failed start schedules a
\* recovery unless the device already reported an error.  The sequence
\* succeeds in every case.
StartMhi(t) ==
    /\ pc[t] = "start_mhi"
    /\ \/ MhiStarts /\ UNCHANGED event_list
       \/ MhiTimesOutInRddm /\ UNCHANGED event_list
       \/ /\ MhiFails
          /\ event_list' = IF Has("DEV_ERR_NOTIFY") \/ link_down_ind
                              THEN event_list
                              ELSE WithRecovery("DEFAULT")
    /\ Goto(t, "up")
    /\ UNCHANGED <<driver_state, driver_ops, event, cont, recovery_work,
                   powered_on, link_up, link_down_ind, dump_valid,
                   completions, power_up_error, callVars, host>>

-----------------------------------------------------------------------------
(***************************************************************************)
(* The event worker: one handler at a time.  Take begins a handler with    *)
(* the oldest event; Finish ends it and, for an event whose poster waits,  *)
(* moves the poster on.                                                    *)
(***************************************************************************)

Take(type) ==
    /\ pc["worker"] = "idle"
    /\ event_list # <<>>
    /\ Head(event_list).type = type

\* The handler goes on with a power sequence or a probe.
Continue(label) ==
    /\ event' = Head(event_list)
    /\ event_list' = Tail(event_list)
    /\ Goto("worker", label)

\* The handler ends in its first step.
Drop ==
    /\ event_list' = Tail(event_list)
    /\ UNCHANGED <<event, pc>>

\* The handler ends later.
Finish ==
    /\ event' = NoEvent
    /\ Goto("worker", "idle")

\* The poster of the event gets its result.
Reply(c, label) == call' = [call EXCEPT ![c] = label] /\ UNCHANGED calls

\* The host driver starts a call.
Begin(c, label) ==
    /\ calls < MaxCalls[faults] /\ calls' = calls + 1
    /\ call[c] = "idle"
    /\ call' = [call EXCEPT ![c] = label]

workerRest == <<cont, recovery_work, busVars, fw, faults>>

\* cnss_pci_register_driver_hdlr
RegisterDriverHdlr ==
    /\ Take("REGISTER_DRIVER")
    /\ IF Has("IN_REBOOT")
          THEN /\ Drop
               /\ Reply("module", "idle")
               /\ UNCHANGED <<driver_state, driver_ops>>
          ELSE /\ Continue("powerup")
               /\ SetBit("DRIVER_LOADING")
               /\ driver_ops' = TRUE
               /\ UNCHANGED <<call, calls>>
    /\ UNCHANGED <<workerRest, timers, completions, power_up_error,
                   driver_ops_lock, host>>

\* Mutant: a failed power up is never reported.
RegisterDriverDone_OnlyUp ==
    /\ pc["worker"] = "up"
    /\ event.type = "REGISTER_DRIVER"
    /\ SetBit("DRIVER_REGISTERED")
    /\ Finish
    /\ Reply("module", "idle")
    /\ UNCHANGED <<driver_ops, event_list, workerRest, timers, completions,
                   power_up_error, driver_ops_lock, host>>

\* Mutant: a power up that fails leaves the callbacks set.
RegisterDriverDone_KeepsOps ==
    /\ pc["worker"] \in {"up", "up_failed"}
    /\ event.type = "REGISTER_DRIVER"
    /\ IF pc["worker"] = "up" THEN SetBit("DRIVER_REGISTERED")
                             ELSE ClearBits({"DRIVER_LOADING"})
    /\ Finish
    /\ Reply("module", "idle")
    /\ UNCHANGED <<driver_ops, event_list, workerRest, timers, completions,
                   power_up_error, driver_ops_lock, host>>

RegisterDriverDone ==
    /\ pc["worker"] \in {"up", "up_failed"}
    /\ event.type = "REGISTER_DRIVER"
    /\ IF pc["worker"] = "up"
          THEN SetBit("DRIVER_REGISTERED") /\ UNCHANGED driver_ops
          ELSE ClearBits({"DRIVER_LOADING"}) /\ driver_ops' = FALSE
    /\ Finish
    /\ Reply("module", "idle")
    /\ UNCHANGED <<event_list, workerRest, timers, completions,
                   power_up_error, driver_ops_lock, host>>

\* Mutant: DRIVER_UNLOADING is not set.
UnregisterDriverHdlr_NotUnloading ==
    /\ Take("UNREGISTER_DRIVER")
    /\ Continue("shutdown")
    /\ UNCHANGED <<driver_state, driver_ops, workerRest, timers, completions,
                   power_up_error, callVars, host>>

\* Mutant: the device is not shut down.
UnregisterDriverHdlr_NoShutdown ==
    /\ Take("UNREGISTER_DRIVER")
    /\ Continue("down")
    /\ SetBit("DRIVER_UNLOADING")
    /\ UNCHANGED <<driver_ops, workerRest, timers, completions,
                   power_up_error, callVars, host>>

\* cnss_pci_unregister_driver_hdlr
UnregisterDriverHdlr ==
    /\ Take("UNREGISTER_DRIVER")
    /\ Continue("shutdown")
    /\ SetBit("DRIVER_UNLOADING")
    /\ UNCHANGED <<driver_ops, workerRest, timers, completions,
                   power_up_error, callVars, host>>

UnregisterDriverDone ==
    /\ pc["worker"] = "down"
    /\ event.type = "UNREGISTER_DRIVER"
    /\ driver_ops' = FALSE
    /\ ClearBits({"DRIVER_REGISTERED"})
    /\ Finish
    /\ Reply("module", "idle")
    /\ driver_ops_lock' = "none"
    /\ UNCHANGED <<event_list, workerRest, timers, completions,
                   power_up_error, host>>

\* CNSS_DRIVER_EVENT_IDLE_RESTART, cnss_power_up_hdlr
IdleRestartHdlr ==
    /\ Take("IDLE_RESTART")
    /\ SetBit("DRIVER_IDLE_RESTART")
    /\ Continue("powerup")
    /\ UNCHANGED <<driver_ops, workerRest, timers, completions,
                   power_up_error, callVars, host>>

\* Mutant: a failed power up returns with driver_ops_lock held.
IdleRestartPowered_KeepsLock ==
    /\ pc["worker"] \in {"up", "up_failed"}
    /\ event.type = "IDLE_RESTART"
    /\ IF pc["worker"] = "up"
          THEN /\ Reply("idle", "power_up_wait")
               /\ UNCHANGED driver_state
          ELSE /\ Reply("idle", "idle")
               /\ ClearBits({"DRIVER_IDLE_RESTART"})
    /\ Finish
    /\ UNCHANGED <<driver_ops, event_list, workerRest, timers, completions,
                   power_up_error, driver_ops_lock, host>>

IdleRestartPowered ==
    /\ pc["worker"] \in {"up", "up_failed"}
    /\ event.type = "IDLE_RESTART"
    /\ IF pc["worker"] = "up"
          THEN /\ Reply("idle", "power_up_wait")
               /\ UNCHANGED <<driver_state, driver_ops_lock>>
          ELSE /\ Reply("idle", "idle")
               /\ ClearBits({"DRIVER_IDLE_RESTART"})
               /\ driver_ops_lock' = "none"
    /\ Finish
    /\ UNCHANGED <<driver_ops, event_list, workerRest, timers, completions,
                   power_up_error, host>>

\* CNSS_DRIVER_EVENT_IDLE_SHUTDOWN and POWER_DOWN, cnss_power_down_hdlr,
\* which ignores what the shutdown returns
IdleShutdownHdlr ==
    /\ Take("IDLE_SHUTDOWN")
    /\ SetBit("DRIVER_IDLE_SHUTDOWN")
    /\ Continue("shutdown")
    /\ UNCHANGED <<driver_ops, workerRest, timers, completions,
                   power_up_error, callVars, host>>

PowerDownHdlr ==
    /\ Take("POWER_DOWN")
    /\ Continue("shutdown")
    /\ UNCHANGED <<driver_state, driver_ops, workerRest, timers, completions,
                   power_up_error, callVars, host>>

PowerDownDone ==
    /\ pc["worker"] = "down"
    /\ event.type \in {"IDLE_SHUTDOWN", "POWER_DOWN"}
    /\ Finish
    /\ Reply("idle", "idle")
    /\ driver_ops_lock' = IF event.type = "POWER_DOWN" THEN "none"
                                                       ELSE driver_ops_lock
    /\ UNCHANGED <<driver_state, driver_ops, event_list, workerRest, timers,
                   completions, power_up_error, host>>

\* cnss_fw_ready_hdlr up to the probe
FwReadyHdlr ==
    /\ Take("FW_READY")
    /\ IF Has("IN_REBOOT")
          THEN Drop /\ UNCHANGED <<driver_state, timers>>
          ELSE /\ Continue("probe")
               /\ timers' = timers \ {"fw_boot"}
               /\ driver_state' =
                     (driver_state \cup {"FW_READY"}) \
                     ({"DEV_ERR_NOTIFY"} \cup
                      IF Has("FW_BOOT_RECOVERY")
                         THEN {"FW_BOOT_RECOVERY", "DRIVER_RECOVERY"} ELSE {})
    /\ UNCHANGED <<driver_ops, workerRest, completions, power_up_error,
                   callVars, host>>

\* cnss_pci_call_driver_probe: which callback is run, what it returns, and
\* who is told.
ProbeFails ==
    /\ Goto("worker", "probe_failed")
    /\ UNCHANGED <<driver_state, host>>

CallDriverProbe ==
    /\ pc["worker"] = "probe"
    /\ \/ /\ Has("IN_REBOOT") \/ ~driver_ops
          /\ ProbeFails
          /\ UNCHANGED <<completions, power_up_error>>
       \/ /\ driver_ops /\ ~Has("IN_REBOOT")
          /\ {"DRIVER_RECOVERY", "DRIVER_PROBED"} \subseteq driver_state
          /\ \/ /\ host' = "up"
                /\ completions' = completions \cup {"recovery"}
                /\ Goto("worker", "probe_end")
                /\ UNCHANGED <<driver_state, power_up_error>>
             \/ /\ "reinit" \in HostMayFail[faults]
                /\ ProbeFails
                /\ UNCHANGED <<completions, power_up_error>>
       \/ /\ driver_ops /\ ~Has("IN_REBOOT")
          /\ ~({"DRIVER_RECOVERY", "DRIVER_PROBED"} \subseteq driver_state)
          /\ \/ /\ Has("DRIVER_LOADING")
                /\ host' = "up"
                /\ driver_state' = (driver_state \ {"DRIVER_LOADING"})
                                   \cup {"DRIVER_PROBED"}
                /\ completions' = completions \cup {"power_up"}
                /\ Goto("worker", "probe_end")
                /\ UNCHANGED power_up_error
             \/ /\ Has("DRIVER_LOADING") /\ "probe" \in HostMayFail[faults]
                /\ ProbeFails
                /\ UNCHANGED <<completions, power_up_error>>
             \/ /\ ~Has("DRIVER_LOADING") /\ Has("DRIVER_IDLE_RESTART")
                /\ host' = "up"
                /\ ClearBits({"DRIVER_IDLE_RESTART"})
                /\ completions' = completions \cup {"power_up"}
                /\ Goto("worker", "probe_end")
                /\ UNCHANGED power_up_error
             \/ /\ ~Has("DRIVER_LOADING") /\ Has("DRIVER_IDLE_RESTART")
                /\ "idle_restart" \in HostMayFail[faults]
                /\ power_up_error' = TRUE
                /\ completions' = completions \cup {"power_up"}
                /\ ProbeFails
             \/ /\ ~HasAny({"DRIVER_LOADING", "DRIVER_IDLE_RESTART"})
                /\ completions' = completions \cup {"power_up_once"}
                /\ Goto("worker", "probe_end")
                /\ UNCHANGED <<driver_state, host, power_up_error>>
    /\ UNCHANGED <<driver_ops, event_list, event, workerRest, timers, callVars>>

\* Mutant: DRIVER_RECOVERY is not cleared.
ProbeEnd_KeepsRecovery ==
    /\ pc["worker"] = "probe_end"
    /\ Finish
    /\ UNCHANGED <<driver_state, driver_ops, event_list, workerRest, timers,
                   completions, power_up_error, callVars, host>>

\* The recovery ends here: not in the same step as its completion.
ProbeEnd ==
    /\ pc["worker"] = "probe_end"
    /\ ClearBits({"DRIVER_RECOVERY"})
    /\ Finish
    /\ UNCHANGED <<driver_ops, event_list, workerRest, timers, completions,
                   power_up_error, callVars, host>>

\* The rest of cnss_fw_ready_hdlr when the probe failed: the device is shut
\* down, unless it reported an error, which its recovery takes care of.
FwReadyFailed ==
    /\ pc["worker"] = "probe_failed"
    /\ IF Has("DEV_ERR_NOTIFY") THEN Finish
                                ELSE Goto("worker", "shutdown") /\ UNCHANGED event
    /\ UNCHANGED <<driver_state, driver_ops, event_list, workerRest, timers,
                   completions, power_up_error, callVars, host>>

FwReadyDown ==
    /\ pc["worker"] = "down"
    /\ event.type = "FW_READY"
    /\ ClearBits({"FW_READY"})
    /\ Finish
    /\ UNCHANGED <<driver_ops, event_list, workerRest, timers, completions,
                   power_up_error, callVars, host>>

\* cnss_driver_recovery_hdlr and cnss_do_recovery.  Other bits of driver_state
\* are set once the device is enumerated, so it is never empty.
RecoveryIgnored ==
    HasAny({"IN_REBOOT", "DRIVER_RECOVERY",
            "DRIVER_UNLOADING", "DRIVER_IDLE_SHUTDOWN"})

RecoveryBits ==
    {"DRIVER_RECOVERY"} \cup IF Has("FW_READY") THEN {} ELSE {"FW_BOOT_RECOVERY"}

RecoveryRefused ==
    /\ Take("RECOVERY")
    /\ RecoveryIgnored
    /\ Drop
    /\ UNCHANGED <<driver_state, driver_ops, workerRest, timers, completions,
                   power_up_error, callVars, host>>

\* cnss_device_crashed: the recovery work does the rest.
RecoveryHdlr ==
    /\ Take("RECOVERY")
    /\ ~RecoveryIgnored
    /\ Head(event_list).reason # "LINK_DOWN"
    /\ \/ /\ Head(event_list).reason = "RDDM" /\ CanDump
          /\ dump_valid' = TRUE
          /\ mhi_state' = mhi_state \cup {"RDDM_DONE"}
       \/ UNCHANGED <<dump_valid, mhi_state>>
    /\ driver_state' = driver_state \cup RecoveryBits
    /\ recovery_work' = TRUE
    /\ Drop
    /\ UNCHANGED <<driver_ops, cont, powered_on, link_up, link_down_ind, fw,
                   faults, timers, completions, power_up_error, callVars, host>>

\* The link has come back in between: nothing is recovered.
LinkDownSkipped ==
    /\ Take("RECOVERY")
    /\ ~RecoveryIgnored
    /\ Head(event_list).reason = "LINK_DOWN"
    /\ link_up /\ ~link_down_ind
    /\ driver_state' = driver_state \cup RecoveryBits
    /\ Drop
    /\ UNCHANGED <<driver_ops, workerRest, timers, completions,
                   power_up_error, callVars, host>>

LinkDownHdlr ==
    /\ Take("RECOVERY")
    /\ ~RecoveryIgnored
    /\ Head(event_list).reason = "LINK_DOWN"
    /\ ~(link_up /\ ~link_down_ind)
    /\ driver_state' = driver_state \cup RecoveryBits
    /\ Continue("recover_link")
    /\ UNCHANGED <<driver_ops, workerRest, timers, completions,
                   power_up_error, callVars, host>>

\* Mutant: nobody waits for the RDDM of a recovered link.
RecoverLinkDown_NoTimer ==
    /\ pc["worker"] = "recover_link"
    /\ link_up' = TRUE /\ link_down_ind' = FALSE
    /\ ClearBits({"DRIVER_RECOVERY"})
    /\ Finish
    /\ UNCHANGED <<driver_ops, event_list, cont, recovery_work, powered_on,
                   mhi_state, dump_valid, deviceVars, completions,
                   power_up_error, callVars, host>>

\* cnss_pci_recover_link_down suspends and resumes the link.  If that works
\* the firmware is given time to report RDDM, and the recovery is over for
\* now; if not the device is power cycled.
RecoverLinkDown ==
    /\ pc["worker"] = "recover_link"
    /\ \/ /\ link_up' = TRUE /\ link_down_ind' = FALSE
          /\ timers' = timers \cup {"rddm"}
          /\ ClearBits({"DRIVER_RECOVERY"})
          /\ UNCHANGED <<recovery_work, faults>>
       \/ /\ Fault
          /\ link_up' = FALSE
          /\ timers' = timers \ {"rddm"}
          /\ SetBit("DRIVER_RECOVERY")
          /\ recovery_work' = TRUE
          /\ UNCHANGED link_down_ind
    /\ Finish
    /\ UNCHANGED <<driver_ops, event_list, cont, powered_on, mhi_state,
                   dump_valid, fw, completions, power_up_error, callVars, host>>

-----------------------------------------------------------------------------
(***************************************************************************)
(* cnss_recovery_work_handler: shut down, dump, power up.                  *)
(***************************************************************************)

recoveryRest == <<driver_state, driver_ops, event_list, event, powered_on,
                  link_up, link_down_ind, mhi_state, deviceVars, completions,
                  power_up_error, callVars, host>>

RecoveryWork ==
    /\ pc["recovery"] = "idle"
    /\ recovery_work
    /\ recovery_work' = FALSE
    /\ Goto("recovery", "shutdown")
    /\ UNCHANGED <<recoveryRest, cont, dump_valid>>

\* cnss_qca6290_ramdump: with a valid dump the shutdown left the device on.
RecoveryRamdump ==
    /\ pc["recovery"] = "down"
    /\ dump_valid' = FALSE
    /\ IF dump_valid
          THEN /\ Goto("recovery", "mhi_off")
               /\ cont' = [cont EXCEPT !["recovery"] = "powerup"]
          ELSE Goto("recovery", "powerup") /\ UNCHANGED cont
    /\ UNCHANGED <<recoveryRest, recovery_work>>

RecoveryDone ==
    /\ pc["recovery"] \in {"up", "up_failed"}
    /\ Goto("recovery", "idle")
    /\ UNCHANGED <<recoveryRest, cont, recovery_work, dump_valid>>

-----------------------------------------------------------------------------
(***************************************************************************)
(* The device: indications of the firmware, MHI callbacks, and timers.     *)
(***************************************************************************)

deviceRest == <<driver_ops, threadVars, powered_on, link_up, dump_valid,
                completions, power_up_error, callVars, host>>

\* The QMI indication that the firmware has booted.
FwInitDone ==
    /\ fw = "booting" /\ MhiOn
    /\ fw' = "up"
    /\ event_list' = Append(event_list, Event("FW_READY"))
    /\ UNCHANGED <<deviceRest, driver_state, link_down_ind, mhi_state,
                   timers, faults>>

\* cnss_mhi_notify_status: a fatal error, after which no RDDM comes
MhiFatalError ==
    /\ fw \in {"booting", "up"} /\ MhiOn
    /\ Fault
    /\ fw' = "off"
    /\ SetBit("DEV_ERR_NOTIFY")
    /\ timers' = timers \ {"fw_boot"}
    /\ event_list' = WithRecovery("DEFAULT")
    /\ UNCHANGED <<deviceRest, link_down_ind, mhi_state>>

\* ... a system error, after which RDDM should come
MhiSysError ==
    /\ fw \in {"booting", "up"} /\ MhiOn
    /\ Fault
    /\ fw' = "failed"
    /\ SetBit("DEV_ERR_NOTIFY")
    /\ timers' = (timers \ {"fw_boot"}) \cup {"rddm"}
    /\ UNCHANGED <<deviceRest, event_list, link_down_ind, mhi_state>>

\* ... and RDDM itself.
MhiRddm ==
    /\ fw = "failed" /\ MhiOn /\ ~link_down_ind
    /\ fw' = "rddm"
    /\ SetBit("DEV_ERR_NOTIFY")
    /\ timers' = {}
    /\ event_list' = WithRecovery("RDDM")
    /\ UNCHANGED <<deviceRest, link_down_ind, mhi_state, faults>>

\* cnss_pci_handle_linkdown
LinkDown ==
    /\ link_up /\ ~link_down_ind /\ MhiOn
    /\ Fault
    /\ link_down_ind' = TRUE
    /\ fw' = "failed"
    /\ event_list' = WithRecovery("LINK_DOWN")
    /\ UNCHANGED <<deviceRest, driver_state, mhi_state, timers>>

\* cnss_pci_fw_boot_timeout_hdlr.  That a firmware which is merely slow runs
\* into the timer is a fault of its own.
FwBootTimeout ==
    /\ "fw_boot" \in timers
    /\ timers' = timers \ {"fw_boot"}
    /\ IF fw \in {"booting", "up"}
          THEN Fault
          ELSE UNCHANGED faults
    /\ event_list' = WithRecovery("TIMEOUT")
    /\ UNCHANGED <<deviceRest, driver_state, link_down_ind, mhi_state, fw>>

\* cnss_dev_rddm_timeout_hdlr, without a SOL GPIO to ring for RDDM again.
\* RDDM does not come any more, or it is late, which is a fault of its own.
RddmTimeout ==
    /\ "rddm" \in timers
    /\ timers' = timers \ {"rddm"}
    /\ \/ fw = "failed" /\ fw' = "off" /\ UNCHANGED faults
       \/ fw = "failed" /\ UNCHANGED fw
          /\ Fault
       \/ fw # "failed" /\ UNCHANGED <<fw, faults>>
    /\ event_list' = WithRecovery(IF fw = "rddm" THEN "RDDM" ELSE "TIMEOUT")
    /\ UNCHANGED <<deviceRest, driver_state, link_down_ind, mhi_state>>

\* cnss_reboot_notifier
Reboot ==
    /\ faults \in Reboots /\ ~Has("IN_REBOOT")
    /\ SetBit("IN_REBOOT")
    /\ timers' = timers \ {"fw_boot"}
    /\ completions' = completions \cup {"power_up"}
    /\ UNCHANGED <<driver_ops, event_list, threadVars, busVars, fw, faults,
                   power_up_error, callVars, host>>

-----------------------------------------------------------------------------
(***************************************************************************)
(* The host driver's calls.  The module context registers and unregisters; *)
(* the idle context shuts down and restarts.  A wait with a timeout ends   *)
(* early only when nothing that is under way can still complete it: the    *)
(* timeouts are chosen longer than the sequences they cover.               *)
(***************************************************************************)

callRest == <<driver_ops, threadVars, busVars, deviceVars, power_up_error, host>>

Post(type) == event_list' = Append(event_list, Event(type))

Quiet ==
    /\ event_list = <<>>
    /\ \A t \in Threads : pc[t] = "idle"
    /\ ~recovery_work
    /\ timers = {}
    /\ fw # "booting"

PowerUpCompleted == completions \cap {"power_up", "power_up_once"} # {}

\* A completion that was not for everybody is used up by the one it wakes.
UsePowerUp ==
    completions' = completions \ {IF "power_up" \in completions
                                     THEN "none" ELSE "power_up_once"}

NewPowerUp == completions \ {"power_up", "power_up_once"}

\* cnss_wlan_register_driver.  The host driver's module is loaded again only
\* after the threads of its last life have left it.
RegisterDriver ==
    /\ Begin("module", "registering")
    /\ call["idle"] = "idle"
    /\ ~HasAny({"DRIVER_REGISTERED", "IN_REBOOT"})
    /\ completions' = NewPowerUp
    /\ Post("REGISTER_DRIVER")
    /\ UNCHANGED <<callRest, driver_state, driver_ops_lock>>

\* cnss_wlan_unregister_driver: take the lock and wait for a power up that
\* may be under way
UnregisterDriver ==
    /\ Begin("module", "unregister_wait")
    /\ Has("DRIVER_REGISTERED")
    /\ driver_ops_lock = "none"
    /\ driver_ops_lock' = "module"
    /\ UNCHANGED <<callRest, driver_state, event_list, completions>>

UnregisterPoweredUp ==
    /\ call["module"] = "unregister_wait"
    /\ PowerUpCompleted
    /\ UsePowerUp
    /\ Reply("module", "check_recovery")
    /\ UNCHANGED <<callRest, driver_state, event_list, driver_ops_lock>>

UnregisterTimeout ==
    /\ call["module"] = "unregister_wait"
    /\ ~PowerUpCompleted
    /\ Quiet
    /\ Reply("module", "check_recovery")
    /\ UNCHANGED <<callRest, driver_state, event_list, completions,
                   driver_ops_lock>>

\* cnss_idle_shutdown
IdleShutdown ==
    /\ Idles
    /\ Begin("idle", "check_recovery")
    /\ host \in {"up", "halted"}
    /\ UNCHANGED <<callRest, driver_state, event_list, completions,
                   driver_ops_lock>>

\* Both then wait for a recovery that is under way ...
CheckRecovery(c) ==
    /\ call[c] = "check_recovery"
    /\ Reply(c, IF HasAny({"DRIVER_RECOVERY", "DEV_ERR_NOTIFY"})
                   THEN "reinit_recovery" ELSE "post_down")
    /\ UNCHANGED <<callRest, driver_state, event_list, completions,
                   driver_ops_lock>>

\* ... which is a step of its own: the recovery may end in between
ReinitRecovery(c) ==
    /\ call[c] = "reinit_recovery"
    /\ completions' = completions \ {"recovery"}
    /\ Reply(c, "recovery_wait")
    /\ UNCHANGED <<callRest, driver_state, event_list, driver_ops_lock>>

RecoveryCompleted(c) ==
    /\ call[c] = "recovery_wait"
    /\ "recovery" \in completions
    /\ completions' = completions \ {"recovery"}
    /\ Reply(c, "post_down")
    /\ UNCHANGED <<callRest, driver_state, event_list, driver_ops_lock>>

RecoveryWaitTimeout(c) ==
    /\ call[c] = "recovery_wait"
    /\ "recovery" \notin completions
    /\ Quiet
    /\ Reply(c, "post_down")
    /\ UNCHANGED <<callRest, driver_state, event_list, completions,
                   driver_ops_lock>>

\* ... and post the event that does the work.
PostDown(c) ==
    /\ call[c] = "post_down"
    /\ Post(IF c = "module" THEN "UNREGISTER_DRIVER" ELSE "IDLE_SHUTDOWN")
    /\ Reply(c, "going_down")
    /\ UNCHANGED <<callRest, driver_state, completions, driver_ops_lock>>

\* cnss_idle_restart: mutex_trylock, so that it never waits for an unload
IdleRestart ==
    /\ Idles
    /\ host = "asleep"
    /\ driver_ops_lock = "none"
    /\ completions' = NewPowerUp
    /\ IF Has("IN_REBOOT")
          THEN /\ Begin("idle", "idle")
               /\ UNCHANGED <<event_list, driver_ops_lock>>
          ELSE /\ Begin("idle", "restarting")
               /\ driver_ops_lock' = "idle"
               /\ Post("IDLE_RESTART")
    /\ UNCHANGED <<callRest, driver_state>>

IdleRestartDone ==
    /\ call["idle"] = "power_up_wait"
    /\ PowerUpCompleted
    /\ UsePowerUp
    /\ IF power_up_error THEN ClearBits({"DRIVER_IDLE_RESTART"})
                         ELSE UNCHANGED driver_state
    /\ timers' = IF ~power_up_error /\ Has("IN_REBOOT")
                    THEN timers \ {"fw_boot"} ELSE timers
    /\ Reply("idle", "idle")
    /\ driver_ops_lock' = "none"
    /\ UNCHANGED <<driver_ops, event_list, threadVars, busVars, fw, faults,
                   power_up_error, host>>

\* After a timeout the device is powered down again, and asserts.
IdleRestartTimeout ==
    /\ call["idle"] = "power_up_wait"
    /\ ~PowerUpCompleted /\ ~power_up_error
    /\ Quiet
    /\ Post("POWER_DOWN")
    /\ Reply("idle", "going_down")
    /\ UNCHANGED <<callRest, driver_state, completions, driver_ops_lock>>

-----------------------------------------------------------------------------

Power(t) ==
    \/ CallDriverRemove(t) \/ ShutdownOff(t)
    \/ MhiPowerOffTest(t) \/ MhiPowerOff(t) \/ DeviceOff(t)
    \/ ShutdownClear(t)
    \/ PowerupBegin(t) \/ PowerOnDevice(t) \/ StartMhi(t)

Worker ==
    \/ Power("worker")
    \/ RegisterDriverHdlr \/ RegisterDriverDone
    \/ UnregisterDriverHdlr \/ UnregisterDriverDone
    \/ IdleRestartHdlr \/ IdleRestartPowered
    \/ IdleShutdownHdlr \/ PowerDownHdlr \/ PowerDownDone
    \/ FwReadyHdlr \/ CallDriverProbe \/ ProbeEnd
    \/ FwReadyFailed \/ FwReadyDown
    \/ RecoveryRefused \/ RecoveryHdlr
    \/ LinkDownSkipped \/ LinkDownHdlr \/ RecoverLinkDown

RecoveryThread ==
    Power("recovery") \/ RecoveryWork \/ RecoveryRamdump \/ RecoveryDone

Device ==
    \/ FwInitDone \/ MhiFatalError \/ MhiSysError \/ MhiRddm \/ LinkDown
    \/ FwBootTimeout \/ RddmTimeout
    \/ Reboot

Host ==
    \/ RegisterDriver
    \/ UnregisterDriver \/ UnregisterPoweredUp \/ UnregisterTimeout
    \/ IdleShutdown
    \/ \E c \in Contexts : \/ CheckRecovery(c) \/ ReinitRecovery(c)
                           \/ RecoveryCompleted(c) \/ RecoveryWaitTimeout(c)
                           \/ PostDown(c)
    \/ IdleRestart \/ IdleRestartDone \/ IdleRestartTimeout

Next == Worker \/ RecoveryThread \/ Device \/ Host

Spec == Init /\ [][Next]_vars

(***************************************************************************)
(* The worker and the recovery work keep running, an armed timer fires, a  *)
(* firmware that boots without a fault reports it, and a call of the host  *)
(* driver goes on once its wait is over.  Nobody has to start a call, and  *)
(* nothing has to fail.                                                    *)
(***************************************************************************)
CallContinues(c) ==
    \/ CheckRecovery(c) \/ ReinitRecovery(c) \/ RecoveryCompleted(c)
    \/ RecoveryWaitTimeout(c) \/ PostDown(c)
    \/ c = "module" /\ (UnregisterPoweredUp \/ UnregisterTimeout)
    \/ c = "idle" /\ (IdleRestartDone \/ IdleRestartTimeout)

Fairness ==
    /\ WF_vars(Worker)
    /\ WF_vars(RecoveryThread)
    /\ WF_vars(FwInitDone)
    /\ WF_vars(FwBootTimeout)
    /\ WF_vars(RddmTimeout)
    /\ \A c \in Contexts : WF_vars(CallContinues(c))

FairSpec == Spec /\ Fairness

-----------------------------------------------------------------------------
(***************************************************************************)
(* Properties                                                              *)
(***************************************************************************)

Labels == {"idle", "shutdown", "off", "mhi_off", "mhi_power_off", "device_off",
           "clear", "down", "powerup", "power_on",
           "start_mhi", "up", "up_failed", "probe", "probe_end", "probe_failed",
           "recover_link"}

CallLabels == {"idle", "registering", "unregister_wait", "check_recovery",
               "reinit_recovery", "recovery_wait", "post_down", "going_down",
               "restarting", "power_up_wait"}

EventSet == [type : EventTypes \ {"RECOVERY"}, reason : {"none"}]
            \cup [type : {"RECOVERY"}, reason : Reasons]

\* Type correctness of the shared state and of every context's position.
TypeOK ==
    /\ driver_state \subseteq Bits
    /\ driver_ops \in BOOLEAN
    /\ event_list \in Seq(EventSet)
    /\ event \in EventSet \cup {NoEvent}
    /\ pc \in [Threads -> Labels]
    /\ cont \in [Threads -> {"idle", "clear", "power_on", "powerup"}]
    /\ recovery_work \in BOOLEAN
    /\ powered_on \in BOOLEAN /\ link_up \in BOOLEAN /\ link_down_ind \in BOOLEAN
    /\ mhi_state \subseteq {"INIT", "POWER_ON", "RDDM_DONE"}
    /\ dump_valid \in BOOLEAN
    /\ fw \in {"off", "booting", "up", "failed", "rddm"}
    /\ timers \subseteq {"fw_boot", "rddm"}
    /\ completions \subseteq {"power_up", "power_up_once", "recovery"}
    /\ power_up_error \in BOOLEAN
    /\ call \in [Contexts -> CallLabels]
    /\ driver_ops_lock \in Contexts \cup {"none"}
    /\ host \in {"absent", "up", "halted", "asleep"}
    /\ faults \in 0..MaxFaults
    /\ calls \in Nat

CallsIdle == \A c \in Contexts : call[c] = "idle"

\* DRIVER_UNLOADING and DRIVER_IDLE_SHUTDOWN never outlive the handler that
\* set them, although the recovery work may clear them in the middle of it:
\* while either is set every recovery is refused, so one left behind would
\* disable recovery for good.
NoStuckTransition ==
    pc["worker"] = "idle" =>
        ~HasAny({"DRIVER_UNLOADING", "DRIVER_IDLE_SHUTDOWN"})

\* No way out of a call leaves driver_ops_lock held: cnss_idle_restart only
\* tries the lock and would refuse for ever.
OpsLockReleased ==
    driver_ops_lock # "none" => call[driver_ops_lock] # "idle"

\* CNSS_ASSERT of cnss_pci_check_mhi_state_bit: MHI is only powered off when
\* it is on, deinitialised when it is off, and initialised when it is not.
MhiSequenceLegal ==
    \A t \in Threads :
        /\ pc[t] = "mhi_power_off" => MhiOn
        /\ pc[t] = "device_off"    => ~MhiOn
        /\ pc[t] = "start_mhi"     => "INIT" \notin mhi_state

\* As long as the device does not fail that assertion is kept.
MhiLegalWithoutFault == faults = 0 => MhiSequenceLegal

\* Which callback cnss_pci_call_driver_probe runs, and when it has run it.
Reinits  == {"DRIVER_RECOVERY", "DRIVER_PROBED"} \subseteq driver_state
Probes   == ~Reinits /\ Has("DRIVER_LOADING")
Restarts == ~Reinits /\ ~Has("DRIVER_LOADING") /\ Has("DRIVER_IDLE_RESTART")
Called   == pc["worker"] = "probe" /\ pc'["worker"] = "probe_end"

\* No failure yet, or one of a driver that is loaded and stopped once.
AtMostOneFailure == faults = 0 \/ (faults = 1 /\ calls <= 2)

\* The host driver's callbacks come in pairs, over a recovery too: reinit only
\* after shutdown, probe only after remove, idle_restart only after
\* idle_shutdown. The bits that choose the callback are set by other handlers
\* than the ones that stopped the driver. The code keeps this while the device
\* is sound, and over one failure; a second one, or one more call, lets a
\* shutdown and a power up of the worker run while the recovery work does the
\* same, and reinit then meets a driver that was not shut down.
HostCallbacksInOrder ==
    [][AtMostOneFailure /\ Called =>
         /\ Reinits  => host = "halted"
         /\ Probes   => host = "absent"
         /\ Restarts => host = "asleep"]_vars

\* As long as the device has not failed, which rules every recovery and so
\* every reinit out, the driver is probed only when it is absent and woken only
\* when it sleeps.
ProbedInOrder ==
    [][faults = 0 /\ Called =>
         /\ Probes   => host = "absent"
         /\ Restarts => host = "asleep"]_vars

\* Once cnss_wlan_unregister_driver has returned, remove has been called and
\* no trace of the driver is left, unless the device has failed.
UnregisteredIsGone ==
    faults = 0 /\ ~Has("DRIVER_REGISTERED") /\ call["module"] = "idle" =>
        host = "absent" /\ ~Has("DRIVER_PROBED")

\* When nothing is under way, the device draws no power while no driver is
\* registered or the driver lets it sleep, unless it has failed.
DeviceOffWhenUnused ==
    faults = 0 /\ Quiet /\ CallsIdle =>
        /\ ~Has("DRIVER_REGISTERED") => ~powered_on
        /\ host = "asleep" /\ ~Has("IN_REBOOT") => ~powered_on

\* Whatever fails, the callbacks of a host driver are kept only while it is
\* registered or its registration is being handled: a power up that fails half
\* way through cnss_pci_register_driver_hdlr gives them up again.
OpsAreRegistered ==
    driver_ops => Has("DRIVER_REGISTERED") \/ event.type = "REGISTER_DRIVER"

\* What a host driver took it leaves behind to nobody, however many calls that
\* fail came before: neither its callbacks, nor itself, nor a device that is on.
NothingLeftBehind == OpsAreRegistered /\ UnregisteredIsGone /\ DeviceOffWhenUnused

\* A fault anywhere in the life of a loaded driver is repaired, whichever way
\* it is noticed and in whichever order the timers and the notifications
\* come: when nothing is under way any more the host driver runs on a booted
\* device, and no trace of the fault is left. This is about one fault,
\* callbacks that succeed and one load: a power up that fails in a recovery is
\* not retried, and two shutdowns that race leave MHI initialised for the next
\* load, which then fails.
FaultRepaired ==
    Quiet /\ CallsIdle /\ Has("DRIVER_REGISTERED") =>
        /\ host = "up" /\ fw = "up" /\ Has("FW_READY")
        /\ powered_on /\ link_up /\ ~link_down_ind /\ MhiOn
        /\ ~HasAny({"DRIVER_RECOVERY", "FW_BOOT_RECOVERY", "DEV_ERR_NOTIFY"})

\* Every call of the host driver returns.
CallsReturn == \A c \in Contexts : (call[c] # "idle") ~> (call[c] = "idle")

\* A recovery ends with the host driver running on a booted device, unless
\* the driver is unregistered in the meantime.
RecoveryEnds ==
    (Has("DRIVER_RECOVERY") /\ driver_ops) ~>
        \/ host = "up" /\ fw = "up" /\ ~Has("DRIVER_RECOVERY")
        \/ ~driver_ops

=============================================================================
