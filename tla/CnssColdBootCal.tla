--------------------------- MODULE CnssColdBootCal ---------------------------
(***************************************************************************)
(* Cold boot calibration of cnss2: once the file system is ready the       *)
(* device is booted to calibrate, without a host driver, and shut down     *)
(* again; a host driver that registers meanwhile is deferred to a delayed  *)
(* work (cnss2/main.c, the registration in cnss2/pci.c, the antenna in     *)
(* cnss2/qmi.c).                                                           *)
(*                                                                         *)
(* Actors: the event worker, the system workqueue that runs                *)
(* wlan_reg_driver_work, the thread that registers the host driver, the    *)
(* firmware, the COEX service of the modem, which owns the antenna, and a  *)
(* user who writes fs_ready and reboots.                                   *)
(*                                                                         *)
(* The handshake before FW_READY is in CnssWlfw; the driver's life after   *)
(* its registration is in CnssDriver.  Time is left out: a delayed work    *)
(* may run as soon as it is scheduled.                                     *)
(***************************************************************************)
EXTENDS Naturals, Sequences

CONSTANTS
    MaxFaults,   \* how many requests, allocations and boots fail (bound)
    MaxWrites,   \* how often fs_ready is written (bound)
    MaxServers,  \* how often the COEX service comes (bound)
    MaxRetries   \* how often the delayed work waits for the file system (bound)

ASSUME CalAssumption == {MaxFaults, MaxWrites, MaxServers, MaxRetries} \subseteq Nat

VARIABLES
    state,     \* driver_state
    cal_done,  \* how the calibration ended, as the firmware is told
    events,    \* the event queue
    worker,    \* the next step of the event worker
    status,    \* cal_status of the event that the worker handles
    work,      \* wlan_reg_driver_work: where it is, or none
    canceling, \* cancel_delayed_work_sync waits for it, and it cannot be scheduled
    host,      \* the thread that registers the host driver
    device,    \* the device and its firmware
    antenna,   \* who has the antenna
    saved,     \* the calibration file is uploaded
    unended,   \* a calibration that took too long was not ended, for want of memory
    faults, writes, servers, retries

calVars   == <<cal_done, status, saved, unended>>
workVars  == <<work, canceling, retries>>
modemVars == <<antenna, servers>>
vars == <<state, calVars, events, worker, workVars, host, device, modemVars, faults, writes>>

\* FS_READY, PCI_PROBE_DONE and the like do not matter here; REGISTER is set
\* when the host driver asks, REGISTERED when its registration is handled.
Bits == {"IN_CAL", "CAL_DONE", "REGISTER", "LOADING", "REGISTERED", "PROBED",
         "FW_READY", "REBOOT", "COEX"}

EventTypes == {"CAL_START", "FW_READY", "DONE", "TIMEOUT", "REGISTER", "RECOVERY"}
WorkerSteps ==
    {"idle", "CAL_START", "FW_READY", "CAL_DONE", "REGISTER", "RECOVERY",
     "start_cancel", "start_power_up", "antenna", "cal_mode", "probe",
     "release_antenna", "shutdown", "clear_cal", "mark_done", "upload", "done_cancel"}
WorkSteps == {"none", "idle", "pending", "check_done", "check_cal", "requeue",
              "timeout", "register", "waiting"}
HostSteps == {"out", "refused", "checking", "deferred", "waiting", "answered"}
DeviceStates == {"off", "booting", "up", "calibrating", "calibrated", "mission", "dead"}

Is(bit) == bit \in state
Fault == faults < MaxFaults /\ faults' = faults + 1

\* cnss_driver_event_post, which may find no memory for the event.
Posted(type) == events' = Append(events, type) /\ UNCHANGED faults
Unposted == Fault /\ UNCHANGED events

\* Something that fails when there is a fault.
Attempt(ok) == IF ok THEN UNCHANGED faults ELSE Fault

-----------------------------------------------------------------------------
(***************************************************************************)
(* The user, the firmware and the modem                                    *)
(***************************************************************************)

\* fs_ready_store
FsReady ==
    /\ writes < MaxWrites /\ writes' = writes + 1
    /\ events' = Append(events, "CAL_START")
    /\ UNCHANGED <<state, calVars, worker, workVars, host, device, modemVars, faults>>

\* cnss_reboot_notifier, shutdown_store
Reboot ==
    /\ ~Is("REBOOT") /\ state' = state \cup {"REBOOT"}
    /\ UNCHANGED <<calVars, events, worker, workVars, host, device, modemVars, faults, writes>>

\* The firmware gets ready, and is done calibrating
\* (cnss_wlfw_fw_init_done_ind_cb, cnss_wlfw_cal_done_ind_cb).
FwInitDone ==
    /\ device = "booting" /\ device' = "up"
    /\ Posted("FW_READY") \/ Unposted
    /\ UNCHANGED <<state, calVars, worker, workVars, host, modemVars, writes>>
CalDoneInd ==
    /\ device = "calibrating" /\ device' = "calibrated"
    /\ Posted("DONE") \/ Unposted
    /\ UNCHANGED <<state, calVars, worker, workVars, host, modemVars, writes>>

\* The firmware fails, and the bus asks for a recovery.
FwCrash ==
    /\ device \in {"booting", "up", "calibrating", "mission"} /\ Fault
    /\ device' = "dead" /\ events' = Append(events, "RECOVERY")
    /\ UNCHANGED <<state, calVars, worker, workVars, host, modemVars, writes>>

\* coex_new_server, coex_del_server.  A modem that restarts has the antenna.
CoexServer ==
    /\ IF Is("COEX") THEN state' = state \ {"COEX"} /\ antenna' = "modem" /\ UNCHANGED servers
                     ELSE /\ servers < MaxServers /\ servers' = servers + 1
                          /\ state' = state \cup {"COEX"} /\ UNCHANGED antenna
    /\ UNCHANGED <<calVars, events, worker, workVars, host, device, faults, writes>>

Firmware == FwInitDone \/ CalDoneInd
Environment == FsReady \/ Reboot \/ FwCrash \/ CoexServer

-----------------------------------------------------------------------------
(***************************************************************************)
(* The registration: cnss_wlan_register_driver                             *)
(***************************************************************************)

\* Refused while a driver is registered and in a reboot.
RegisterCall ==
    /\ host = "out"
    /\ IF Is("REGISTERED") \/ Is("REBOOT")
          THEN host' = "refused" /\ UNCHANGED state
          ELSE host' = "checking" /\ state' = state \cup {"REGISTER"}
    /\ UNCHANGED <<calVars, events, worker, workVars, device, modemVars, faults, writes>>

\* Mutant: it is deferred only while a calibration runs.
RegisterCheck_InCalOnly ==
    /\ host = "checking"
    /\ IF Is("IN_CAL")
          THEN host' = "deferred" /\ work' = "pending" /\ UNCHANGED <<events, faults>>
          ELSE host' = "waiting" /\ Posted("REGISTER") /\ UNCHANGED work
    /\ UNCHANGED <<state, calVars, worker, canceling, retries, device, modemVars, writes>>

\* "must be deferred until CBC is complete"
RegisterCheck ==
    /\ host = "checking"
    /\ \/ Is("CAL_DONE") /\ host' = "waiting" /\ Posted("REGISTER") /\ UNCHANGED work
       \/ Is("CAL_DONE") /\ host' = "refused" /\ Unposted /\ UNCHANGED work
       \/ ~Is("CAL_DONE") /\ host' = "deferred" /\ work' = "pending" /\ UNCHANGED <<events, faults>>
    /\ UNCHANGED <<state, calVars, worker, canceling, retries, device, modemVars, writes>>

-----------------------------------------------------------------------------
(***************************************************************************)
(* The delayed work: cnss_wlan_reg_driver_work                             *)
(***************************************************************************)

WorkStart ==
    /\ work = "pending" /\ work' = "check_done"
    /\ UNCHANGED <<state, calVars, events, worker, canceling, retries, host, device,
                   modemVars, faults, writes>>

WorkCheckDone ==
    /\ work = "check_done"
    /\ work' = IF Is("CAL_DONE") THEN "register" ELSE "check_cal"
    /\ UNCHANGED <<state, calVars, events, worker, canceling, retries, host, device,
                   modemVars, faults, writes>>

\* No calibration yet: wait for the file system again, if the work may be
\* scheduled.
WorkCheckCal ==
    /\ work = "check_cal"
    /\ IF Is("IN_CAL")
          THEN work' = "timeout"
          ELSE work' = "requeue"
    /\ UNCHANGED <<state, calVars, events, worker, canceling, retries, host, device, modemVars,
                   faults, writes>>
WorkRequeue ==
    /\ work = "requeue" /\ retries < MaxRetries /\ retries' = retries + 1
    /\ work' = IF canceling THEN "idle" ELSE "pending"
    /\ UNCHANGED <<state, calVars, events, worker, canceling, host, device, modemVars,
                   faults, writes>>

\* The calibration takes too long: end it, if there is memory for cal_info.
\* That the post may fail is ignored, and the host driver is registered in any
\* case.
WorkTimeout ==
    /\ work = "timeout"
    /\ \/ work' = "register" /\ Posted("TIMEOUT") /\ UNCHANGED unended
       \/ work' = "register" /\ Unposted /\ unended' = TRUE
       \/ work' = "idle" /\ Fault /\ UNCHANGED <<events, unended>>
    /\ UNCHANGED <<state, cal_done, status, saved, worker, canceling, retries, host, device,
                   modemVars, writes>>

\* The synchronous post of the registration, whose result is ignored as well.
WorkRegister ==
    /\ work = "register"
    /\ \/ ~Is("REBOOT") /\ work' = "waiting" /\ Posted("REGISTER")
       \/ ~Is("REBOOT") /\ work' = "idle" /\ Unposted
       \/ Is("REBOOT") /\ work' = "idle" /\ UNCHANGED <<events, faults>>
    /\ UNCHANGED <<state, calVars, worker, canceling, retries, host, device, modemVars, writes>>

RegDriverWork == WorkStart \/ WorkCheckDone \/ WorkCheckCal \/ WorkRequeue \/ WorkTimeout \/ WorkRegister
Running == work \notin {"none", "idle", "pending"}

-----------------------------------------------------------------------------
(***************************************************************************)
(* The event worker                                                        *)
(***************************************************************************)
TakeEvent ==
    /\ worker = "idle" /\ events # <<>>
    /\ events' = Tail(events)
    /\ worker' = IF Head(events) \in {"DONE", "TIMEOUT"} THEN "CAL_DONE" ELSE Head(events)
    /\ status' = IF Head(events) \in {"DONE", "TIMEOUT"} THEN Head(events) ELSE status
    /\ UNCHANGED <<state, cal_done, saved, unended, workVars, host, device, modemVars, faults, writes>>

\* cancel_delayed_work_sync, and the work scheduled again if it was pending.  A
\* work that runs is waited for, and cannot be scheduled meanwhile.
CancelAndSchedule(at, next) ==
    /\ worker = at
    /\ IF Running THEN canceling' = TRUE /\ UNCHANGED worker
                  ELSE canceling' = FALSE /\ worker' = next
    /\ UNCHANGED <<state, calVars, events, work, retries, host, device, modemVars, faults, writes>>

\* mark_cal_fail: the attempt is over.
MarkCalFail ==
    /\ state' = (state \ {"IN_CAL"}) \cup {"CAL_DONE"}
    /\ cal_done' = "failure" /\ worker' = "idle"

\* Mutant: a calibration may start although one was made.
CalStart_Again ==
    /\ worker = "CAL_START"
    /\ IF Is("IN_CAL")
          THEN worker' = "idle" /\ UNCHANGED state
          ELSE /\ state' = state \cup {"IN_CAL"}
               /\ worker' = IF Is("REGISTER") THEN "start_cancel" ELSE "start_power_up"
    /\ UNCHANGED <<calVars, events, workVars, host, device, modemVars, faults, writes>>

\* cnss_cold_boot_cal_start_hdlr: once, not in the middle of one and not when a
\* driver is there.  The device may not have been probed in time.
CalStart ==
    /\ worker = "CAL_START"
    /\ \/ /\ state \cap {"CAL_DONE", "IN_CAL", "LOADING", "PROBED", "FW_READY"} # {}
          /\ worker' = "idle" /\ UNCHANGED <<state, cal_done, faults>>
       \/ /\ state \cap {"CAL_DONE", "IN_CAL", "LOADING", "PROBED", "FW_READY"} = {}
          /\ \/ /\ state' = state \cup {"IN_CAL"}
                /\ worker' = IF Is("REGISTER") THEN "start_cancel" ELSE "start_power_up"
                /\ UNCHANGED <<cal_done, faults>>
             \/ Fault /\ MarkCalFail
    /\ UNCHANGED <<status, saved, unended, events, workVars, host, device, modemVars, writes>>
CalStartCancel == CancelAndSchedule("start_cancel", "start_power_up")
CalStartPowerUp ==
    /\ worker = "start_power_up"
    /\ \/ device' = "booting" /\ worker' = "idle" /\ UNCHANGED <<state, cal_done, faults>>
       \/ Fault /\ MarkCalFail /\ UNCHANGED device
    /\ UNCHANGED <<status, saved, unended, events, workVars, host, modemVars, writes>>

\* cnss_fw_ready_hdlr
FwReady ==
    /\ worker = "FW_READY"
    /\ IF Is("REBOOT")
          THEN worker' = "idle" /\ UNCHANGED state
          ELSE /\ state' = state \cup {"FW_READY"}
               /\ worker' = IF Is("IN_CAL") THEN "antenna" ELSE "probe"
    /\ UNCHANGED <<calVars, events, workVars, host, device, modemVars, faults, writes>>

\* cnss_request_antenna_sharing: the firmware says which antenna
\* (cnss_wlfw_antenna_switch_send_sync), the modem switches it
\* (coex_antenna_switch_to_wlan_send_sync_msg), the firmware is told
\* (cnss_wlfw_antenna_grant_send_sync).  The calibration goes on in any case.
RequestAntenna ==
    /\ worker = "antenna" /\ worker' = "cal_mode"
    /\ \/ antenna' = (IF Is("COEX") THEN "wlan" ELSE antenna) /\ UNCHANGED faults
       \/ Fault /\ antenna' \in (IF Is("COEX") THEN {antenna, "wlan"} ELSE {antenna})
    /\ UNCHANGED <<state, calVars, events, workVars, host, device, servers, writes>>

\* What cnss_bus_dev_shutdown does to the device.
Off == device' = "off" /\ state' = state \ {"FW_READY", "PROBED", "LOADING"}

\* The file is downloaded, if the daemon has it, and reported
\* (cnss_cal_file_download_to_mem, cnss_wlfw_cal_report_req_send_sync); the
\* firmware is put in calibration mode, or the device is shut down.
CalMode ==
    /\ worker = "cal_mode" /\ worker' = "idle"
    /\ \/ device = "up" /\ device' = "calibrating" /\ UNCHANGED <<state, faults>>
       \/ (IF device = "up" THEN Fault ELSE UNCHANGED faults) /\ Off
       \/ device = "dead" /\ UNCHANGED <<state, device, faults>>
    /\ UNCHANGED <<calVars, events, workVars, host, modemVars, writes>>

\* The probe of a registered host driver, or a firmware nobody waits for.
Probe ==
    /\ worker = "probe" /\ worker' = "idle"
    /\ \/ /\ device = "up" /\ device' = "mission"
          /\ state' = (state \ {"LOADING"}) \cup {"PROBED"} /\ UNCHANGED faults
       \/ (IF device = "up" THEN Fault ELSE UNCHANGED faults) /\ Off
    /\ UNCHANGED <<calVars, events, workVars, host, modemVars, writes>>

\* cnss_cold_boot_cal_done_hdlr: the first end of the calibration counts.
CalDone ==
    /\ worker = "CAL_DONE"
    /\ IF ~Is("IN_CAL") \/ Is("CAL_DONE")
          THEN worker' = "idle" /\ UNCHANGED cal_done
          ELSE /\ worker' = "release_antenna"
               /\ cal_done' = IF status = "DONE" THEN "yes" ELSE cal_done
    /\ UNCHANGED <<state, status, saved, unended, events, workVars, host, device, modemVars, faults,
                   writes>>

\* Mutant: only a calibration that is done gives the antenna back.
ReleaseAntenna_IfDone ==
    /\ worker = "release_antenna" /\ worker' = "shutdown"
    /\ antenna' = IF Is("COEX") /\ status = "DONE" THEN "modem" ELSE antenna
    /\ UNCHANGED <<state, calVars, events, workVars, host, device, servers, faults, writes>>

\* Mode OFF, then cnss_release_antenna_sharing
\* (coex_antenna_switch_to_mdm_send_sync_msg).
ReleaseAntenna ==
    /\ worker = "release_antenna" /\ worker' = "shutdown"
    /\ \/ antenna' = (IF Is("COEX") THEN "modem" ELSE antenna) /\ UNCHANGED faults
       \/ Is("COEX") /\ Fault /\ UNCHANGED antenna
    /\ UNCHANGED <<state, calVars, events, workVars, host, device, servers, writes>>

\* Mutant: the device stays on for the host driver.
CalShutdown_StaysOn ==
    /\ worker = "shutdown" /\ worker' = "clear_cal"
    /\ UNCHANGED <<state, calVars, events, workVars, host, device, modemVars, faults, writes>>

CalShutdown ==
    /\ worker = "shutdown" /\ worker' = "clear_cal"
    /\ Off
    /\ UNCHANGED <<calVars, events, workVars, host, modemVars, faults, writes>>
CalClear ==
    /\ worker = "clear_cal" /\ worker' = "mark_done"
    /\ state' = state \ {"IN_CAL"}
    /\ UNCHANGED <<calVars, events, workVars, host, device, modemVars, faults, writes>>
CalMark ==
    /\ worker = "mark_done"
    /\ state' = state \cup {"CAL_DONE"}
    /\ worker' = IF status = "DONE" THEN "upload" ELSE "idle"
    /\ UNCHANGED <<calVars, events, workVars, host, device, modemVars, faults, writes>>

\* cnss_cal_mem_upload_to_file, which waits for the daemon; then the deferred
\* registration is brought forward.
CalUpload ==
    /\ worker = "upload"
    /\ \E ok \in BOOLEAN: Attempt(ok) /\ saved' = ok
    /\ worker' = IF Is("REGISTER") THEN "done_cancel" ELSE "idle"
    /\ UNCHANGED <<state, cal_done, status, unended, events, workVars, host, device, modemVars,
                   writes>>
CalDoneCancel == CancelAndSchedule("done_cancel", "idle")

\* cnss_pci_register_driver_hdlr, and the caller that waits for it.
RegisterDriver ==
    /\ worker = "REGISTER" /\ worker' = "idle"
    /\ \/ ~Is("REBOOT") /\ state' = state \cup {"LOADING", "REGISTERED"}
          /\ device' = "booting" /\ UNCHANGED faults
       \/ ~Is("REBOOT") /\ Fault /\ UNCHANGED <<state, device>>
       \/ Is("REBOOT") /\ UNCHANGED <<state, device, faults>>
    /\ IF host = "waiting" THEN host' = "answered" /\ UNCHANGED work
                           ELSE work' = "idle" /\ UNCHANGED host
    /\ UNCHANGED <<calVars, events, canceling, retries, modemVars, writes>>

\* The recovery restarts a device that failed; one that is off by now as well.
Recover ==
    /\ worker = "RECOVERY" /\ worker' = "idle"
    /\ device' \in {"booting", "off"}
    /\ state' = state \ {"FW_READY", "PROBED"}
    /\ UNCHANGED <<calVars, events, workVars, host, modemVars, faults, writes>>

CalStartHandler == CalStart \/ CalStartCancel \/ CalStartPowerUp
FwReadyHandler  == FwReady \/ RequestAntenna \/ CalMode \/ Probe
CalDoneHandler  == CalDone \/ ReleaseAntenna \/ CalShutdown \/ CalClear \/ CalMark
                   \/ CalUpload \/ CalDoneCancel
Worker == TakeEvent \/ CalStartHandler \/ FwReadyHandler \/ CalDoneHandler
          \/ RegisterDriver \/ Recover

-----------------------------------------------------------------------------
Init ==
    /\ state = {} /\ cal_done = "no" /\ status = "DONE" /\ saved = FALSE /\ unended = FALSE
    /\ events = <<>> /\ worker = "idle"
    /\ work = "none" /\ canceling = FALSE /\ retries = 0
    /\ host = "out" /\ device = "off"
    /\ antenna = "modem" /\ servers = 0
    /\ faults = 0 /\ writes = 0

Registration == RegisterCall \/ RegisterCheck
Next == Environment \/ Firmware \/ Registration \/ RegDriverWork \/ Worker

\* Threads that can go on do; the firmware answers; the file system gets ready.
Spec == /\ Init /\ [][Next]_vars
        /\ WF_vars(Firmware) /\ WF_vars(RegisterCheck)
        /\ WF_vars(RegDriverWork) /\ WF_vars(Worker)

-----------------------------------------------------------------------------
(***************************************************************************)
(* Properties                                                              *)
(***************************************************************************)

\* Every variable has its type.
TypeOK ==
    /\ state \in SUBSET Bits /\ cal_done \in {"no", "yes", "failure"}
    /\ status \in {"DONE", "TIMEOUT"} /\ saved \in BOOLEAN /\ unended \in BOOLEAN /\ canceling \in BOOLEAN
    /\ events \in Seq(EventTypes)
    /\ worker \in WorkerSteps /\ work \in WorkSteps /\ host \in HostSteps
    /\ device \in DeviceStates /\ antenna \in {"modem", "wlan"}
    /\ faults \in 0..MaxFaults /\ writes \in 0..MaxWrites
    /\ servers \in 0..MaxServers /\ retries \in 0..MaxRetries

\* A host driver "must be deferred until CBC is complete" (pci.c:3112).
DeferredUntilComplete ==
    {"LOADING", "REGISTERED", "PROBED"} \cap state # {} =>
        Is("CAL_DONE") /\ ~Is("IN_CAL")

\* The calibration has the device for itself: no host driver is loaded,
\* registered or probed before it is over, however the timeout, the end of the
\* calibration and the registration race, unless its end could not be posted.
CalibratesAlone == ~unended => DeferredUntilComplete

\* When the attempt is over the device is off, unless a host driver is loaded
\* or something failed: the driver starts from a device that was powered off.
OffAfterCalibration ==
    Is("CAL_DONE") /\ worker = "idle" /\ faults = 0 /\ ~Is("REGISTERED") => device = "off"

\* The antenna is lent for the time of the calibration only.
AntennaReturned ==
    antenna = "wlan" /\ faults = 0 => Is("IN_CAL")

\* The calibration gives back both, by whichever of its ends it comes to.
CalibrationCleansUp == OffAfterCalibration /\ AntennaReturned

\* The calibration is attempted once: its result does not change, and it does
\* not start again, whatever is written to fs_ready.
ResultStands ==
    Is("CAL_DONE") => /\ UNCHANGED cal_done
                      /\ "CAL_DONE" \in state' /\ "IN_CAL" \notin state'
                      /\ device' = "calibrating" => device = "calibrating"
CalibratedOnce == [][ResultStands]_vars

\* A host driver that was deferred "until CBC is complete" (pci.c:3113) is
\* registered then.
DeferredDriverRegisters ==
    (host = "deferred" /\ Is("CAL_DONE")) ~> (Is("REGISTERED") \/ Is("REBOOT") \/ faults > 0)
=============================================================================
