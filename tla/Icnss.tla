--------------------------------- MODULE Icnss ---------------------------------
(***************************************************************************)
(* The life of an integrated WLAN device under icnss2: the firmware's      *)
(* arrival, the probe of the host driver, the crash or stop of the         *)
(* subsystem that runs the firmware, and the recovery (icnss2/main.c, its  *)
(* power switch in icnss2/power.c, its server in icnss2/qmi.c).            *)
(*                                                                         *)
(* Actors: the event worker, the QMI thread, the early crash interrupt,    *)
(* the thread that restarts the subsystem and calls the notifiers, the     *)
(* thread of the protection domain notifications, the thread that          *)
(* registers and unregisters the host driver, a user who announces a       *)
(* shutdown, and the firmware.  They share the bits of priv->state without *)
(* a lock.                                                                 *)
(*                                                                         *)
(* A handler is cut where it calls out or waits.  The events are those of  *)
(* CnssEventQueue, whose code icnss2 repeats.  Left out: idle shutdown and *)
(* restart, traces and dumps.                                              *)
(***************************************************************************)
EXTENDS Naturals, Sequences

CONSTANTS
    Devices,    \* "wcn6750", "adrastea" and "no_pdr", an adrastea without PDR
    MaxBoots,   \* how often the firmware boots (bound)
    MaxTroubles,\* how many callbacks, requests and allocations fail, and how
                \* often the firmware fails out of service (bound)
    MaxCalls    \* how often the host driver registers with each device (bound)

ASSUME IcnssAssumption ==
    /\ Devices \subseteq {"wcn6750", "adrastea", "no_pdr"}
    /\ MaxBoots \in Nat \ {0} /\ MaxTroubles \in Nat /\ MaxCalls \in [Devices -> Nat]

VARIABLES
    device,
    fw,       \* the firmware: off, up or dead, and how far it has come
    boot,     \* the number of the present boot
    wire,     \* what is on its way to the QMI thread
    state,    \* priv->state and the flags of priv beside it
    events,   \* the event list
    worker,   \* the event that is handled, and the next step
    ops,      \* a host driver is registered
    callback, \* the host driver: out, in service, stopped, or the callback it is in
    votes,    \* the votes of icnss_fw_crashed that keep the system awake
    ssr,      \* the thread that restarts the subsystem: the next step, and
              \* whether it crashed or is stopped
    pdr,      \* the thread of the protection domain notifications
    waits,    \* the threads that wait for an event of theirs
    host,     \* the thread that registers the host driver
    calls, faults, untimely

fwVars     == <<device, fw, boot, untimely>>
hostVars   == <<host, calls>>
threadVars == <<ssr, pdr, waits>>
driverVars == <<ops, callback, votes>>
vars == <<fwVars, wire, state, events, worker, driverVars, threadVars, hostVars, faults>>

Bits ==
    {"EXISTS", "CONNECTED", "DEL_SERVER", "FW_DOWN", "FW_READY", "POWER_ON", "PROBED",
     "PD_RESTART", "SHUTDOWN_DONE", "UNLOADING", "BLOCK_SHUTDOWN", "PDR", "COLD_BOOT_CAL",
     "is_ssr", "early_crash_ind", "root_pd_shutdown", "is_shutdown", "fw_early_crash_irq"}
EventTypes ==
    {"SERVER_ARRIVE", "SERVER_EXIT", "FW_READY", "FW_INIT_DONE", "REGISTER", "UNREGISTER",
     "PD_SERVICE_DOWN", "EARLY_CRASH"}

Is(bit) == bit \in state
Fault == faults + untimely < MaxTroubles /\ faults' = faults + 1
Event(ev, of, by) == [ev |-> ev, of |-> of, by |-> by]

\* icnss_driver_event_post without a wait.  An event there is no memory for is
\* lost.
Post(ev, of) ==
    \/ events' = Append(events, Event(ev, of, "nobody")) /\ UNCHANGED faults
    \/ Fault /\ UNCHANGED events
\* ... and with one, at the end of a step that goes on in any case.
PostSync(ev, by) ==
    \/ events' = Append(events, Event(ev, 0, by)) /\ waits' = waits \cup {by} /\ UNCHANGED faults
    \/ Fault /\ UNCHANGED <<events, waits>>

-----------------------------------------------------------------------------
(***************************************************************************)
(* The firmware                                                            *)
(***************************************************************************)
Stages == {"booting", "announced", "served", "init", "calibrating", "calibrated", "ready"}
Alive == fw.life = "up"

\* The server is announced; once it is served the firmware starts its work,
\* asks for the mode, calibrates if it is told to, and is ready.
FwStep(from, to, ind) ==
    /\ Alive /\ fw.stage = from /\ fw' = [fw EXCEPT !.stage = to]
    /\ wire' = Append(wire, [ind |-> ind, of |-> boot])
    /\ UNCHANGED <<device, boot, untimely, state, events, worker, driverVars, threadVars, hostVars, faults>>
Firmware ==
    \/ FwStep("booting", "announced", "NEW")
    \/ device # "wcn6750" /\ FwStep("served", "ready", "FW_READY")
    \/ device = "wcn6750" /\ FwStep("served", "init", "FW_INIT_DONE")
    \/ device = "wcn6750" /\ FwStep("calibrating", "calibrated", "CAL_DONE")
    \/ device = "wcn6750" /\ FwStep("calibrated", "init", "FW_INIT_DONE")

\* A dead firmware's server goes.
FwGone == IF fw.stage = "booting" THEN wire ELSE Append(wire, [ind |-> "DEL", of |-> boot])

\* The protection domain or the subsystem crashes, or the subsystem is to be
\* stopped.  The firmware has died by the time the notifiers are called for a
\* crash.  A failure of a firmware that is not in service yet, or that recovers
\* from one, is untimely.
InService == fw.stage = "ready" /\ Is("FW_READY") /\ ~Is("PD_RESTART") /\ ~Is("FW_DOWN")
Fail(first, crashed) ==
    /\ Alive /\ boot < MaxBoots /\ ssr.at = "idle" /\ pdr = "idle"
    /\ IF InService THEN UNCHANGED untimely
                    ELSE faults + untimely < MaxTroubles /\ untimely' = untimely + 1
    /\ ssr' = [at |-> first, crashed |-> crashed]
    /\ IF crashed THEN fw' = [fw EXCEPT !.life = "dead"] /\ wire' = FwGone
                  ELSE UNCHANGED <<fw, wire>>
    /\ UNCHANGED <<device, boot, state, events, worker, driverVars, waits, hostVars, faults>>
WpssFails  == device = "wcn6750" /\ \E c \in BOOLEAN: Fail("early_nb", c) /\ UNCHANGED pdr
ModemFails == device # "wcn6750" /\ \E c \in BOOLEAN: Fail("modem_nb", c) /\ UNCHANGED pdr
PdCrashes  == device = "adrastea" /\ Fail("boot", TRUE) /\ pdr' = "down"

\* The subsystem is off, and its domains with it, which is notified.
SubsystemOff ==
    /\ ssr.at = "off" /\ "ssr" \notin waits
    /\ ssr' = [ssr EXCEPT !.at = "boot"]
    /\ fw' = [fw EXCEPT !.life = "off"]
    /\ wire' = IF Alive THEN FwGone ELSE wire
    /\ pdr' = IF device = "adrastea" THEN "down" ELSE pdr
    /\ UNCHANGED <<device, boot, untimely, state, events, worker, driverVars, waits, hostVars, faults>>

\* The firmware boots, after its end was notified.
FwBoots ==
    /\ \/ boot = 0
       \/ ssr.at = "boot" /\ pdr # "down"
    /\ fw' = [life |-> "up", stage |-> "booting"] /\ boot' = boot + 1
    /\ ssr' = [ssr EXCEPT !.at = "idle"]
    /\ UNCHANGED <<device, untimely, wire, state, events, worker, driverVars, pdr, waits, hostVars, faults>>

-----------------------------------------------------------------------------
(***************************************************************************)
(* The QMI thread                                                          *)
(***************************************************************************)
Receive(ind) ==
    /\ wire # <<>> /\ Head(wire).ind = ind /\ wire' = Tail(wire)
    /\ UNCHANGED <<device, boot, untimely, worker, driverVars, threadVars, hostVars>>

\* wlfw_new_server, wlfw_del_server
NewServer ==
    /\ Receive("NEW") /\ UNCHANGED <<fw, state>>
    /\ IF Is("DEL_SERVER") THEN UNCHANGED <<events, faults>>
                           ELSE Post("SERVER_ARRIVE", Head(wire).of)
DelServer ==
    /\ Receive("DEL") /\ UNCHANGED fw
    /\ state' = IF Is("DEL_SERVER") THEN state ELSE state \cup {"DEL_SERVER", "FW_DOWN"}
    /\ IF Is("DEL_SERVER") THEN UNCHANGED <<events, faults>> ELSE Post("SERVER_EXIT", 0)

\* fw_ready_ind_cb, fw_init_done_ind_cb
FwReadyInd    == Receive("FW_READY") /\ Post("FW_READY", 0) /\ UNCHANGED <<fw, state>>
FwInitDoneInd == Receive("FW_INIT_DONE") /\ Post("FW_INIT_DONE", 0) /\ UNCHANGED <<fw, state>>

\* cal_done_ind_cb
CalDoneInd ==
    /\ Receive("CAL_DONE") /\ state' = state \ {"COLD_BOOT_CAL"}
    /\ UNCHANGED <<fw, events, faults>>

QmiThread == NewServer \/ DelServer \/ FwReadyInd \/ FwInitDoneInd \/ CalDoneInd

-----------------------------------------------------------------------------
(***************************************************************************)
(* Interrupt and notifiers                                                 *)
(***************************************************************************)

\* fw_crash_indication_handler.  An interrupt that is handled after the first
\* notifier is untimely.
EarlyCrash ==
    /\ fw.life = "dead" /\ fw.stage # "signalled" /\ Is("fw_early_crash_irq")
    /\ IF ssr.at \in {"early_nb", "modem_nb"} \/ pdr = "down"
          THEN Post("EARLY_CRASH", 0) /\ UNCHANGED untimely
          ELSE /\ faults + untimely < MaxTroubles /\ untimely' = untimely + 1
               /\ events' = Append(events, Event("EARLY_CRASH", 0, "nobody")) /\ UNCHANGED faults
    /\ fw' = [fw EXCEPT !.stage = "signalled"]
    /\ state' = (state \cup {"FW_DOWN"}) \ {"FW_READY"}
    /\ UNCHANGED <<device, boot, wire, worker, driverVars, threadVars, hostVars>>

\* A step of the thread that restarts the subsystem.
SsrAt(step) == ssr.at = step /\ "ssr" \notin waits
SsrGo(step) == ssr' = [ssr EXCEPT !.at = step]
ssrRest == <<fwVars, wire, worker, driverVars, pdr, hostVars>>

\* icnss_wpss_early_notifier_nb
WpssEarlyNotifier ==
    /\ SsrAt("early_nb") /\ SsrGo("wpss_nb")
    /\ state' = state \cup {"FW_DOWN"}
    /\ UNCHANGED <<events, waits, faults, ssrRest>>

\* icnss_wpss_notifier_nb
WpssNotifier ==
    /\ SsrAt("wpss_nb") /\ SsrGo("down")
    /\ state' = state \cup {"is_ssr", "FW_DOWN"}
    /\ UNCHANGED <<events, waits, faults, ssrRest>>

\* The end of both notifiers: the worker is told, and waited for.  Without memory
\* for what it is told they return before FW_READY is cleared.
NotifierDown ==
    /\ SsrAt("down") /\ SsrGo("off")
    /\ \/ state' = state \ {"FW_READY"} /\ PostSync("PD_SERVICE_DOWN", "ssr")
       \/ Fault /\ UNCHANGED <<state, events, waits>>
    /\ UNCHANGED ssrRest

\* icnss_modem_notifier_nb
ModemNotifier ==
    /\ SsrAt("modem_nb") /\ SsrGo(IF ssr.crashed THEN "modem_down" ELSE "modem_stop")
    /\ state' = IF ssr.crashed THEN (state \cup {"is_ssr"}) \ {"root_pd_shutdown"}
                               ELSE state \cup {"is_ssr", "root_pd_shutdown"}
    /\ UNCHANGED <<events, waits, faults, ssrRest>>

\* icnss_update_state_send_modem_shutdown: the host driver is unloaded before
\* the modem goes, if that was announced and it is not in the middle of it.
ModemStop ==
    /\ SsrAt("modem_stop") /\ SsrGo("modem_unblock")
    /\ LET unload == Is("is_shutdown")
                     /\ state \cap {"PD_RESTART", "SHUTDOWN_DONE", "BLOCK_SHUTDOWN"} = {}
       IN  /\ state' = state \ (IF unload THEN {"is_shutdown", "FW_READY"} ELSE {"is_shutdown"})
           /\ IF unload THEN PostSync("UNREGISTER", "ssr") ELSE UNCHANGED <<events, waits, faults>>
    /\ UNCHANGED ssrRest
\* It waits for a probe, a reinit or a remove to end, for a time.
ModemUnblock ==
    /\ SsrAt("modem_unblock") /\ SsrGo("modem_down")
    /\ IF Is("BLOCK_SHUTDOWN") THEN Fault ELSE UNCHANGED faults
    /\ UNCHANGED <<state, events, waits, ssrRest>>

\* The rest of icnss_modem_notifier_nb: with PDR the domain is notified itself.
ModemDown ==
    /\ SsrAt("modem_down")
    /\ IF device = "adrastea"
          THEN SsrGo("off") /\ state' = (state \cup {"FW_DOWN"}) \ {"FW_READY"}
          ELSE SsrGo("down") /\ state' = state \cup {"FW_DOWN"}
    /\ UNCHANGED <<events, waits, faults, ssrRest>>

Notifiers ==
    \/ EarlyCrash \/ WpssEarlyNotifier \/ WpssNotifier \/ NotifierDown
    \/ ModemNotifier \/ ModemStop \/ ModemUnblock \/ ModemDown

\* icnss_pdr_notifier_cb, which does nothing without memory for the event.
PdrDown ==
    /\ pdr = "down" /\ pdr' = "up"
    /\ \/ /\ state' = (state \cup (IF Is("is_ssr") THEN {"FW_DOWN"} ELSE {"PDR", "FW_DOWN"}))
                       \ (IF Is("FW_DOWN") THEN {} ELSE {"FW_READY"})
          /\ PostSync("PD_SERVICE_DOWN", "pdr")
       \/ Fault /\ UNCHANGED <<state, events, waits>>
    /\ UNCHANGED <<fwVars, wire, worker, driverVars, ssr, hostVars>>
PdrUp ==
    /\ pdr = "up" /\ "pdr" \notin waits /\ Alive /\ pdr' = "idle"
    /\ state' = state \ {"FW_DOWN"}
    /\ UNCHANGED <<fwVars, wire, events, worker, driverVars, ssr, waits, hostVars, faults>>
Pdr == PdrDown \/ PdrUp

-----------------------------------------------------------------------------
(***************************************************************************)
(* The event worker                                                        *)
(***************************************************************************)
Resting == [at |-> "idle", ev |-> Event("none", 0, "nobody")]
At(step) == worker.at = step
Go(step) == worker' = [worker EXCEPT !.at = step] /\ UNCHANGED waits
\* The handler ends, and whoever waits for it goes on.
Finish == worker' = Resting /\ waits' = waits \ {worker.ev.by}
workerRest == <<device, boot, untimely, wire, events, ssr, pdr, hostVars>>

TakeEvent ==
    /\ worker = Resting /\ events # <<>>
    /\ worker' = [at |-> Head(events).ev, ev |-> Head(events)]
    /\ events' = Tail(events)
    /\ UNCHANGED <<fwVars, wire, state, driverVars, threadVars, hostVars, faults>>

\* icnss_hw_power_on, icnss_hw_power_off.  Nothing is switched off while the
\* firmware is down.
PowerOn(bits) == bits \cup {"POWER_ON"}
PowerOff(bits) == IF "FW_DOWN" \in bits THEN bits ELSE bits \ {"POWER_ON"}

\* icnss_driver_event_server_arrive
ServerArrive ==
    /\ At("SERVER_ARRIVE") /\ Go("connect")
    /\ state' = (state \cup {"EXISTS"}) \ {"FW_DOWN", "FW_READY"}
    /\ UNCHANGED <<fw, driverVars, faults, workerRest>>

\* One step of the handshake.  It fails if the server is gone, or by a fault:
\* of the memory, of the answer or of what the answer says.
HandshakeStep(this, next, bits, failed, stage) ==
    LET there == Alive /\ worker.ev.of = boot
    IN  /\ At(this)
        /\ \/ /\ there /\ Go(next) /\ state' = bits
              /\ fw' = [fw EXCEPT !.stage = stage] /\ UNCHANGED faults
           \/ /\ Finish /\ state' \in failed /\ UNCHANGED fw
              /\ IF there THEN Fault ELSE UNCHANGED faults
        /\ UNCHANGED <<driverVars, workerRest>>
Request(this, next) == HandshakeStep(this, next, state, {state}, fw.stage)
\* A failure after the power was switched on switches it off.
Powered(this, next, stage) == HandshakeStep(this, next, state, {PowerOff(state)}, stage)

\* icnss_connect_to_fw_server: a socket may be connected to a server that is gone.
Connect ==
    HandshakeStep("connect", "ind_register", state \cup {"CONNECTED"},
                  {state, state \cup {"CONNECTED"}}, fw.stage)
\* wlfw_ind_register_send_sync_msg: a firmware that knows the client already
\* ends the handshake, too.
IndRegister == Request("ind_register", IF device = "wcn6750" THEN "host_cap" ELSE "msa_info")
\* wlfw_host_cap_send_sync
HostCap == Request("host_cap", "cap")
\* wlfw_msa_mem_info_send_sync_msg, refused if a region is not in the MSA memory
MsaInfo == Request("msa_info", "msa_ready")
\* wlfw_msa_ready_send_sync_msg
MsaReady == Request("msa_ready", "cap")
\* wlfw_cap_send_sync_msg, and the power.  The last request sets the firmware
\* to work.
Cap ==
    HandshakeStep("cap", IF device = "wcn6750" THEN "device_info"
                         ELSE IF device = "adrastea" THEN "bdf" ELSE "notifications",
                  PowerOn(state), {state},
                  IF device = "no_pdr" THEN "served" ELSE fw.stage)
\* wlfw_device_info_send_msg, refused without a BAR of the expected size
DeviceInfo == Powered("device_info", "bdf", fw.stage)
\* icnss_wlfw_bdf_dnld_send_sync, twice: only the second must succeed.
BdfDownload ==
    IF device = "wcn6750" THEN Powered("bdf", "notifications", "served")
                          ELSE Powered("bdf", "cal_report", fw.stage)
\* wlfw_cal_report_req.  It is not sent when the firmware is down.
CalReport ==
    \/ /\ Is("FW_DOWN") /\ At("cal_report") /\ Finish
       /\ UNCHANGED <<state, fw, faults, driverVars, workerRest>>
    \/ ~Is("FW_DOWN") /\ Powered("cal_report", "notifications", "served")
\* The interrupts are requested, once.
Notifications ==
    /\ At("notifications") /\ Finish
    /\ state' = state \cup {"fw_early_crash_irq"}
    /\ UNCHANGED <<fw, driverVars, faults, workerRest>>
Handshake ==
    \/ Connect \/ IndRegister \/ HostCap \/ MsaInfo \/ MsaReady \/ Cap
    \/ DeviceInfo \/ BdfDownload \/ CalReport \/ Notifications

\* Mutant: the deletion is never over.
ServerExit_StillDeleted ==
    /\ At("SERVER_EXIT") /\ Finish
    /\ state' = state \ {"CONNECTED"}
    /\ wire' = IF Alive /\ fw.stage # "booting" THEN <<[ind |-> "NEW", of |-> boot]>> ELSE <<>>
    /\ UNCHANGED <<fwVars, events, driverVars, ssr, pdr, hostVars, faults>>
\* icnss_driver_event_server_exit: the handle is opened again, and a server that
\* is there is announced again.
ServerExit ==
    /\ At("SERVER_EXIT") /\ Finish
    /\ state' = state \ {"CONNECTED", "DEL_SERVER"}
    /\ wire' = IF Alive /\ fw.stage # "booting" THEN <<[ind |-> "NEW", of |-> boot]>> ELSE <<>>
    /\ UNCHANGED <<fwVars, events, driverVars, ssr, pdr, hostVars, faults>>

\* icnss_driver_event_fw_init_done
FwInitDone ==
    /\ At("FW_INIT_DONE")
    /\ \/ /\ ~Is("COLD_BOOT_CAL") /\ Go("FW_READY") /\ UNCHANGED <<fw, faults>>
       \/ /\ Is("COLD_BOOT_CAL") /\ Finish
          /\ IF Alive /\ fw.stage = "init" /\ Is("CONNECTED")
                THEN \/ fw' = [fw EXCEPT !.stage = "calibrating"] /\ UNCHANGED faults
                     \/ Fault /\ UNCHANGED fw
                ELSE UNCHANGED <<fw, faults>>
    /\ UNCHANGED <<state, driverVars, workerRest>>

\* icnss_driver_event_fw_ready_ind
FwReady ==
    /\ At("FW_READY") /\ Go("power_off")
    /\ state' = state \cup {"FW_READY"}
    /\ fw' = IF Alive /\ fw.stage = "init" THEN [fw EXCEPT !.stage = "ready"] ELSE fw
    /\ UNCHANGED <<driverVars, faults, workerRest>>
FwReadyPowerOff ==
    /\ At("power_off") /\ Go(IF Is("PD_RESTART") THEN "restart" ELSE "call_probe")
    /\ state' = PowerOff(state)
    /\ UNCHANGED <<fw, driverVars, faults, workerRest>>

\* Mutant: a host driver that was not probed is shut down, too.
RestartComplete_Unprobed ==
    /\ At("restart") /\ Go("restarted")
    /\ votes' = votes - 1
    /\ IF ops /\ ~Is("SHUTDOWN_DONE")
          THEN callback' = "shutdown" /\ state' = state \cup {"SHUTDOWN_DONE"}
          ELSE UNCHANGED <<callback, state>>
    /\ UNCHANGED <<fw, ops, faults, workerRest>>
\* icnss_pd_restart_complete: the host driver is shut down, if it was not yet ...
RestartComplete ==
    /\ At("restart") /\ Go("restarted")
    /\ votes' = votes - 1
    /\ IF Is("PROBED") /\ ops /\ ~Is("SHUTDOWN_DONE")
          THEN callback' = "shutdown" /\ state' = state \cup {"SHUTDOWN_DONE"}
          ELSE UNCHANGED <<callback, state>>
    /\ UNCHANGED <<fw, ops, faults, workerRest>>
\* ... the restart is over, and the host driver is told, if the firmware is sound.
RestartCleared ==
    /\ At("restarted") /\ callback' = IF callback = "shutdown" THEN "stopped" ELSE callback
    /\ state' = state \ {"PDR", "PD_RESTART", "early_crash_ind", "is_ssr"}
    /\ IF ~ops \/ Is("FW_DOWN") THEN Finish
       ELSE Go(IF Is("PROBED") THEN "reinit" ELSE "call_probe")
    /\ UNCHANGED <<fw, ops, votes, faults, workerRest>>
\* Mutant: the power is left as the firmware's calibration left it.
CallReinit_Unpowered ==
    /\ At("reinit") /\ Go("reinit_end")
    /\ state' = state \cup {"BLOCK_SHUTDOWN"} /\ callback' = "reinit"
    /\ UNCHANGED <<fw, ops, votes, faults, workerRest>>
CallReinit ==
    /\ At("reinit") /\ Go("reinit_end")
    /\ state' = PowerOn(state \cup {"BLOCK_SHUTDOWN"}) /\ callback' = "reinit"
    /\ UNCHANGED <<fw, ops, votes, faults, workerRest>>
ReinitEnd ==
    /\ At("reinit_end") /\ Finish
    /\ \/ /\ state' = state \ {"BLOCK_SHUTDOWN", "SHUTDOWN_DONE"} /\ callback' = "in"
          /\ UNCHANGED faults
       \/ /\ Fault /\ state' = PowerOff(state \ {"BLOCK_SHUTDOWN"}) /\ callback' = "stopped"
    /\ UNCHANGED <<fw, ops, votes, workerRest>>

\* icnss_call_driver_probe
CallProbe ==
    /\ At("call_probe")
    /\ IF ~ops \/ Is("PROBED")
          THEN Finish /\ UNCHANGED <<state, callback>>
          ELSE /\ Go("probe_end") /\ callback' = "probe"
               /\ state' = PowerOn(state \cup {"BLOCK_SHUTDOWN"})
    /\ UNCHANGED <<fw, ops, votes, faults, workerRest>>
ProbeEnd ==
    /\ At("probe_end") /\ Finish
    /\ \/ /\ state' = (state \cup {"PROBED"}) \ {"BLOCK_SHUTDOWN"} /\ callback' = "in"
          /\ UNCHANGED faults
       \/ /\ Fault /\ state' = PowerOff(state \ {"BLOCK_SHUTDOWN"}) /\ callback' = "out"
    /\ UNCHANGED <<fw, ops, votes, workerRest>>

\* icnss_driver_event_register_driver.  The host driver stays registered when it
\* is not probed now, or cannot be.
RegisterDriver ==
    /\ At("REGISTER")
    /\ ops' = TRUE
    /\ IF ops \/ Is("FW_DOWN") \/ ~Is("FW_READY")
          THEN Finish /\ UNCHANGED <<state, callback, faults>>
          ELSE \/ /\ Go("probe_end") /\ callback' = "probe" /\ UNCHANGED faults
                  /\ state' = PowerOn(state \cup {"BLOCK_SHUTDOWN"})
               \/ Fault /\ Finish /\ UNCHANGED <<state, callback>>
    /\ UNCHANGED <<fw, votes, workerRest>>

\* icnss_driver_event_unregister_driver
UnregisterDriver ==
    /\ At("UNREGISTER")
    /\ IF ~Is("PROBED")
          THEN ops' = FALSE /\ Finish /\ UNCHANGED <<state, callback>>
          ELSE /\ Go("remove_end") /\ callback' = "remove" /\ UNCHANGED ops
               /\ state' = state \cup {"UNLOADING", "BLOCK_SHUTDOWN"}
    /\ UNCHANGED <<fw, votes, faults, workerRest>>
RemoveEnd ==
    /\ At("remove_end") /\ Finish
    /\ ops' = FALSE /\ callback' = "out"
    /\ state' = PowerOff(state \ {"UNLOADING", "BLOCK_SHUTDOWN", "PROBED"})
    /\ UNCHANGED <<fw, votes, faults, workerRest>>

\* icnss_fw_crashed
FwCrashed(more) ==
    /\ state' = (state \cup more \cup {"PD_RESTART"}) \ {"FW_READY"}
    /\ votes' = votes + 1

\* Mutant: a crash that the interrupt told of is counted again.
PdServiceDown_Again ==
    /\ At("PD_SERVICE_DOWN") /\ Finish
    /\ IF Is("EXISTS")
          THEN FwCrashed({}) ELSE UNCHANGED <<state, votes>>
    /\ UNCHANGED <<fw, ops, callback, faults, workerRest>>
\* icnss_driver_event_pd_service_down: not for a firmware that never came, nor
\* if the interrupt told of it or a recovery is in progress.
PdServiceDown ==
    /\ At("PD_SERVICE_DOWN") /\ Finish
    /\ IF Is("EXISTS") /\ state \cap {"early_crash_ind", "PD_RESTART"} = {}
          THEN FwCrashed({}) ELSE UNCHANGED <<state, votes>>
    /\ UNCHANGED <<fw, ops, callback, faults, workerRest>>

\* icnss_driver_event_early_crash_ind
EarlyCrashInd ==
    /\ At("EARLY_CRASH") /\ Finish
    /\ IF Is("EXISTS") THEN FwCrashed({"early_crash_ind"}) ELSE UNCHANGED <<state, votes>>
    /\ UNCHANGED <<fw, ops, callback, faults, workerRest>>

Worker ==
    \/ TakeEvent \/ ServerArrive \/ Handshake \/ ServerExit \/ FwInitDone
    \/ FwReady \/ FwReadyPowerOff \/ RestartComplete \/ RestartCleared
    \/ CallReinit \/ ReinitEnd \/ CallProbe \/ ProbeEnd
    \/ RegisterDriver \/ UnregisterDriver \/ RemoveEnd \/ PdServiceDown \/ EarlyCrashInd

-----------------------------------------------------------------------------
(***************************************************************************)
(* The host driver and the user                                            *)
(***************************************************************************)
hostRest == <<fwVars, wire, worker, driverVars, ssr, pdr>>

\* __icnss_register_driver does not wait, nor say how the probe went.
Register ==
    /\ host = "out" /\ calls < MaxCalls[device] /\ calls' = calls + 1
    /\ IF ops THEN UNCHANGED <<host, events, faults>>
              ELSE host' = "in" /\ Post("REGISTER", 0)
    /\ UNCHANGED <<state, waits, hostRest>>

\* icnss_unregister_driver.  A driver whose registration was not handled yet is
\* told that it is not registered, and so is one whose ops are gone.
Unregister ==
    /\ host = "in"
    /\ IF ops THEN host' = "leaving" /\ PostSync("UNREGISTER", "host")
              ELSE host' = "out" /\ UNCHANGED <<events, waits, faults>>
    /\ UNCHANGED <<state, calls, hostRest>>
Unregistered ==
    /\ host = "leaving" /\ "host" \notin waits /\ host' = "out"
    /\ UNCHANGED <<state, events, waits, calls, faults, hostRest>>

\* icnss_sysfs_store: a write to shutdown_wlan.
AnnounceShutdown ==
    /\ device # "wcn6750" /\ ~Is("is_shutdown") /\ ssr.at = "idle"
    /\ state' = state \cup {"is_shutdown"}
    /\ UNCHANGED <<events, waits, hostVars, faults, hostRest>>

Host == Register \/ Unregister \/ Unregistered

-----------------------------------------------------------------------------
Init ==
    /\ device \in Devices
    /\ fw = [life |-> "off", stage |-> "booting"] /\ boot = 0
    /\ wire = <<>> /\ events = <<>> /\ worker = Resting
    /\ state = IF device = "wcn6750" THEN {"COLD_BOOT_CAL"} ELSE {}
    /\ ops = FALSE /\ callback = "out" /\ votes = 0
    /\ ssr = [at |-> "idle", crashed |-> FALSE] /\ pdr = "idle" /\ waits = {}
    /\ host = "out" /\ calls = 0 /\ faults = 0 /\ untimely = 0

Failures == WpssFails \/ ModemFails \/ PdCrashes
Restart  == SubsystemOff \/ FwBoots
Next ==
    \/ Firmware \/ Failures \/ Restart \/ QmiThread \/ Notifiers \/ Pdr
    \/ Worker \/ Host \/ AnnounceShutdown

Spec == Init /\ [][Next]_vars

-----------------------------------------------------------------------------
(***************************************************************************)
(* Properties                                                              *)
(***************************************************************************)

Threads == {"ssr", "pdr", "host"}
Events  == [ev: EventTypes, of: Nat, by: Threads \cup {"nobody"}]
Messages == [ind: {"NEW", "DEL", "FW_READY", "FW_INIT_DONE", "CAL_DONE"}, of: Nat]
WorkerSteps ==
    EventTypes \cup
    {"idle", "connect", "ind_register", "host_cap", "msa_info", "msa_ready", "cap",
     "device_info", "bdf", "cal_report", "notifications", "power_off", "restart",
     "restarted", "reinit", "reinit_end", "call_probe", "probe_end", "remove_end"}
SsrSteps == {"idle", "early_nb", "wpss_nb", "modem_nb", "modem_stop", "modem_unblock",
             "modem_down", "down", "off", "boot"}

\* The callbacks of the host driver come in the order that it is written for:
\* it is reinitialised after a shutdown only, shut down and removed after a
\* probe, and probed when it is out.
After ==
    [out |-> {"probe"}, probe |-> {"in", "out"}, in |-> {"shutdown", "remove"},
     shutdown |-> {"stopped"}, stopped |-> {"reinit", "remove"},
     reinit |-> {"in", "stopped"}, remove |-> {"out"}]
InOrder == callback' = callback \/ callback' \in After[callback]

\* A driver is in service, but the bit says that it was shut down already.
StaleShutdown == callback = "in" /\ Is("SHUTDOWN_DONE")

\* Every variable has its type.
TypeOK ==
    /\ device \in Devices /\ boot \in Nat /\ untimely \in Nat
    /\ fw \in [life: {"off", "up", "dead"}, stage: Stages \cup {"signalled"}]
    /\ wire \in Seq(Messages) /\ state \in SUBSET Bits /\ events \in Seq(Events)
    /\ worker \in [at: WorkerSteps, ev: Events \cup {Resting.ev}]
    /\ ops \in BOOLEAN /\ callback \in DOMAIN After /\ votes \in Nat
    /\ ssr \in [at: SsrSteps, crashed: BOOLEAN]
    /\ pdr \in {"idle", "down", "up"} /\ waits \in SUBSET Threads
    /\ host \in {"out", "in", "leaving"} /\ calls \in Nat /\ faults \in Nat

\* Without faults they always do; with faults, callbacks that fail and recoveries
\* that fail again, they do unless a driver that was stopped went and the next
\* one inherited SHUTDOWN_DONE.
CallbacksInOrder == [][faults + untimely = 0 \/ ~StaleShutdown => InOrder]_vars

\* A recovery that has not completed keeps the system awake, however often the
\* firmware fails.
AwakeInRestart == Is("PD_RESTART") /\ ~At("restarted") => votes # 0

\* Each recovery takes a vote to keep the system awake, and gives it back.  Only
\* failures during a recovery make more of it than one.
VoteHeldInRestart ==
    /\ AwakeInRestart
    /\ untimely = 0 /\ worker = Resting => votes = (IF Is("PD_RESTART") THEN 1 ELSE 0)

\* A host driver that is in service has power.
PoweredInService ==
    faults + untimely = 0 /\ worker = Resting /\ Is("FW_READY") /\ Is("PROBED") => Is("POWER_ON")

\* When all is quiet no recovery is under way any more, and a host driver that
\* registered is in service.
Quiet ==
    /\ wire = <<>> /\ events = <<>> /\ worker = Resting /\ host # "leaving"
    /\ ssr.at = "idle" /\ pdr = "idle" /\ Alive /\ fw.stage \in {"announced", "init", "ready"}
BackInService ==
    Quiet /\ faults + untimely = 0 =>
        ~Is("PD_RESTART") /\ callback = (IF ops THEN "in" ELSE "out") /\ Is("FW_READY")

\* A recovery ends with a host driver that is in service and has power.
ServiceRestored == PoweredInService /\ BackInService

===============================================================================
