# Verification of the Qualcomm WLAN platform drivers

TLA+ models of the platform drivers in this repository (cnss2, icnss2 and the
modules beside them), the TLC configurations that model-check them, and TLAPS
proofs about them. Every definition is translated from the C source.
`PROJECT.json` maps it to its lines, names what each run checks, and lists the
hazards the properties are aimed at.

Contents: [the system](#the-system), [the modules](#the-modules),
[runs](#runs), [where the code breaks its own word](#where-the-code-breaks-its-own-word),
[proofs](#proofs), [assumptions and limits](#assumptions-and-limits),
[not modelled](#not-modelled), [plan](#plan).

## The system

The repository holds the kernel modules between a WLAN host driver (qcacld)
and the WLAN device: they power the device, bring up its bus, talk QMI to its
firmware, call the host driver's callbacks and repair the device when its
firmware fails. cnss2 does so for devices on PCIe, icnss2 for devices that are
part of the chip.

| Component | State | Operations | Interacts with | Module |
|---|---|---|---|---|
| cnss2 event queue (`cnss2/main.c`) | `event_list`, `event_lock`, `event_work`, `pm_count` | `cnss_driver_event_post`, `cnss_driver_event_work`, wakeup votes | every other part of cnss2 posts to it; the handlers run in its worker | `CnssEventQueue`, `SerialExecutor` |
| cnss2 device lifecycle and recovery (`main.c`, `pci.c`) | `driver_state` (a word of 27 bits), `driver_ops`, `driver_ops_lock`, `power_up_complete`, `recovery_complete`, `powered_on`, `pci_link_state`, `mhi_state`, `fw_boot_timer`, `dev_rddm_timer` | register, unregister, idle shutdown and restart, firmware ready, recovery, power up and down, reboot | host driver (calls and callbacks), MHI bus and PCIe link (notifications), QMI (firmware ready), timers, event queue | `CnssDriver` |
| cnss2 PCIe power management (`pci.c`, `pci_qcom.c`) | link state, `monitor_wake_intr`, `drv_connected_last`, `auto_suspended`, runtime usage counts, `qmi_send_usage_count` | system suspend and resume, runtime PM, auto suspend, bandwidth and L1 control | PM core, host driver, lifecycle | `CnssPciPm` |
| cnss2 cold boot calibration (`main.c`, `pci.c`, `qmi.c`) | `COLD_BOOT_CAL*` bits, `cal_done`, `wlan_reg_driver_work`, the antenna | start, timeout, end, deferred registration, upload of the result | event queue, WLFW, COEX, platform IPC | `CnssColdBootCal` |
| cnss2 WLFW client (`qmi.c`) | `QMI_WLFW_CONNECTED`, `QMI_DEL_SERVER`, firmware memory and its requests, BDF and M3 files, trace memory | the handshake from the arrival of the server to the WLAN mode, the exit, traces | firmware, event queue, host driver | `CnssWlfw` |
| COEX, IMS, DMS clients (`qmi.c`) | connected bits, MAC address, antenna | independent QMI clients | other services of the modem | `QmiExchange`, `CnssColdBootCal` |
| generated QMI services (`*_service_v01.[ch]`) | none | tables by which messages are encoded and decoded | QMI library, all QMI clients | `QmiTables`, `QmiExchange` |
| icnss2 (`icnss2/*.c`) | its own event queue, `state` bits, notifiers of the subsystem and the protection domain, power switch, `soc_wake_ref_count` and the queue of its worker | the same life cycle for integrated devices; wake requests | host driver, QMI, subsystem restart | `Icnss`, `IcnssSocWake`, `QmiExchange` |
| platform IPC (`cnss_utils/cnss_plat_ipc_qmi.c`) | `file_idr`, one `file_data` per transfer, client table | register, upload, download, requests of the daemon, disconnect | user space daemon, cnss2 | `PlatIpcFile` |
| cnss2 power sequencing (`power.c`) | regulators, clocks, GPIOs, `powered_on`, BT enable | power on with rollback, power off, AOP messages | lifecycle | |
| cnss2 debug and generic netlink (`debug.c`, `genl.c`) | debugfs files, one netlink family | writes that call operations of the other parts; file transfer | user space | |
| cnss_utils (`cnss_utils.c`) | unsafe channels, MAC addresses, country code, suspend state | setters and getters | host driver, cnss2 | |
| cnss_prealloc (`cnss_prealloc.c`) | five memory pools | init, get, put, deinit | host driver | |
| cnss_genl (`cnss_nl.c`) | a table of 24 handlers | register, deregister, dispatch | user space | |

**What is hard.** Nothing serialises the contexts of cnss2 as a whole. The
event worker runs the handlers one at a time, but the recovery work runs the
same power sequences beside it, with no lock in between. The host driver's
contexts test bits of `driver_state` and post events afterwards. MHI
notifications, the link-down callback and two timers change the same bits from
interrupt, work and timer context, and each of them may notice the same
fault. Most waits have a timeout, so that a lost wakeup does not hang the
system but makes it wait for minutes and then run into `CNSS_ASSERT`. An event
in the queue is owned by its poster or by the worker, depending on a flag that
a signal changes. Events, indications and announcements of a firmware are
handled after it has died, sometimes after its successor has booted. In icnss2
one crash is told of by up to five parties, in any order. In the platform IPC
the caller of a transfer, the QMI thread and a timeout share one object.

**What has to hold**, component by component:

- *event queue*: an event is freed once and not used afterwards; no event is
  lost or run twice; events run in the order they were posted; a result
  reaches the caller of its own event or the caller gave up before there was
  one; the wakeup votes balance; the list is drained; callers return.
- *lifecycle and recovery*: callbacks of the host driver come in pairs and
  never for a driver that has left; a transition bit never outlives its
  transition (recovery would be refused for good); MHI is driven through legal
  states; every fault is repaired whichever way it is noticed; calls return
  and release their lock; the device is off when nobody uses it.
- *PCIe power management*: the link is up for whoever uses it; a suspend that
  is refused half way is undone; no wake is lost.
- *calibration*: it runs once, with the device for itself, and the device is
  off and the antenna returned afterwards, however its timeout, its end and a
  registration race; a deferred registration is made up for.
- *WLFW client*: a server is connected to once at a time and none is lost; the
  firmware is told only of memory that is there; a host driver in service has
  a firmware in the mode it asked for; the handshake completes.
- *QMI messages*: every message fits in the length its sender declares and in
  the buffer of its receiver, and is read as it was sent.
- *icnss2*: a recovery holds a vote from its beginning to its end and no
  longer; the host driver is called in order and has power while in service;
  after any failure the device comes back; it is awake while a thread has asked
  for it and asleep otherwise.
- *platform IPC*: a transfer that reports success has moved the file; an entry
  of the IDR is a live transfer with a waiting caller; nobody waits for a
  daemon that is gone.

## The modules

Two modules interact by what they take for granted of each other. The event
queue is checked and proved by itself; the others have `events` (or
`event_list`) as a sequence and one worker that takes its head, which is what
`SerialExecutor` promises. `CnssWlfw` ends where `CnssDriver` has `FwInitDone`
and the probe of the host driver; `CnssColdBootCal` has the handshake as one step. Where a module
summarises another's steps it keeps each outcome, failure included.

### CnssEventQueue and SerialExecutor

`CnssEventQueue.tla` models `cnss_driver_event_post` and
`cnss_driver_event_work`. Posters are the contexts that call post. A section
under `event_lock` is one action (`PostEnqueue`, `PostGiveUp` and `PostKeep`,
`WorkFirst`, `WorkReport`, `WorkOrphan`), and so is each stretch of code
between two sections.

| Code | Model |
|---|---|
| `kzalloc`, votes and initialisation | `PostNoMemory`, `PostAlloc` |
| `list_add_tail` under the lock | `PostEnqueue` |
| `queue_work` (outside the lock) | `PostKick` |
| the three kinds of wait | `PostCompleted`, `PostSignalled` |
| second section of post | `PostGiveUp` (`-EINTR`, `event->sync = false`), `PostKeep` |
| `ret = event->ret; kfree` | `PostReap` |
| `cnss_pm_relax` | `PostOut`, `WorkRelax` |
| loop head, `list_del`, unlock | `WorkFirst`, `TakeNext` |
| the handler | `WorkHandle`: returns any value |
| lock, `event->sync` set: report and continue | `WorkReport` |
| lock, `event->sync` clear: unlock, `kfree`, lock | `WorkOrphan`, `WorkFree` |

Addresses are reused: `kzalloc` may return any address that is not live, so a
late access to a freed event hits the next event at its address. `live`,
`sync`, `ret` and `done` are indexed by address for that reason.

`SerialExecutor.tla` states what the queue promises: requests run one at a
time, in order, once each, and an answer goes to the caller of its own request
or the caller has given up before there is one. `ImplementsExecutor` is the
refinement: the line is the list, the running request is the worker's event,
a request is awaited while its event's poster waits.

### CnssDriver

`CnssDriver.tla` models the life of a PCIe device of the QCA6290 family under
the host driver. Contexts:

- `module`: `cnss_wlan_register_driver`, `cnss_wlan_unregister_driver`;
- `idle`: `cnss_idle_shutdown`, `cnss_idle_restart`;
- `worker`: the handlers of the event worker, one event at a time;
- `recovery`: `cnss_recovery_work_handler`;
- the device: MHI callbacks, the QMI ready indication, link down, the two
  timers; and the reboot notifier.

`driver_state` is the set of its bits. The worker's and the recovery work's
position is `pc`; the power sequences they share (`cnss_qca6290_shutdown`,
`cnss_qca6290_powerup`) are operators with the thread as their parameter, so
that the two can be in the middle of them together. A sequence is cut where
the code can be observed in between: after the host driver's callback, before
MHI is powered off, before the device is, and before and after MHI starts.
The two completions are the set `completions`, with `complete_all` and
`complete` told apart (`power_up` and `power_up_once`). `cnss_schedule_recovery`
is `WithRecovery`, an operator on the event list since it runs inside several
callbacks.

The host driver is what its callbacks leave it as (`host`): absent, up, halted
(shutdown by a recovery), asleep (idle shutdown). Its use of the interface is
taken from the documentation of the callbacks and from the tests in the code:
one module context registers and unregisters, one idle context sleeps and
wakes, and the two do not overlap.

### CnssWlfw

`CnssWlfw.tla` models the WLFW client over several boots of a firmware that may
crash at any moment. Three parties: the firmware, which is external and
accepts the requests in the order of `Protocol`, each after the indication it
waits for (`WaitsFor`); the QMI thread, which takes announcements and
indications off the wire and posts events; and the event worker. A handler is
a *chain* of steps (`Chain`), each of which may stop it.

| Code | Model |
|---|---|
| `wlfw_new_server`, `wlfw_del_server` | `NewServer`, `DelServer` |
| the indication callbacks | `RequestMemInd`, `FwMemReadyInd`, `FwInitDoneInd`, `QdssReqMemInd`, `QdssFreeInd` |
| `cnss_wlfw_server_arrive`, `cnss_wlfw_connect_to_server` | `Connect`, `IndRegister`, `HostCap` |
| `cnss_wlfw_server_exit` | `ServerExit`: closes the handle with all that is under way to it, opens it again |
| `cnss_pci_alloc_fw_mem`, `cnss_wlfw_respond_mem_send_sync` | `AllocFwMem`, `RespondMem` |
| `cnss_fw_mem_ready_hdlr` | `FwMemReady`, `TgtCap`, `Files`, `BdfDnld`, `LoadM3`, `M3Dnld`, `QdssDnld` |
| `cnss_fw_ready_hdlr`, `cnss_wlan_enable` | `FwReady`, `GenSpeed`, `SetupDmsMac`, `WlanCfg`, `WlanMode` |
| QDSS traces and their memory | `TraceStart`, `TraceStop`, `AllocQdssMem`, `TraceMemInfo`, `FreeQdssMem` |
| bus shutdown and power up | `Shutdown`, `PowerUp`, `PowerOff` |
| `cnss_wlan_disable` | `WlanDisable`, `WlanDisableFree` |

`Request` is the common shape of the two dozen `*_send_sync` functions: allocation,
transaction, send, wait, result. It fails without being noticed by the
firmware, or after the firmware has acted on it. The socket keeps the address
of the server it was connected to (`peer`), so that a request may go to the
firmware of an earlier boot, or be answered by the next one, which has the
same address. The indication with which the firmware asks for memory carries the
number and the sizes of the segments (`segs`); `fw_mem` keeps the sizes asked for last
beside what was allocated (`va`, 0 for nothing), which may be from an earlier boot.
`grown` marks the segments that were asked for with a larger size than what is there.

### CnssColdBootCal

`CnssColdBootCal.tla` models the calibration: the write to `fs_ready` that
starts it (`FsReady`), the handlers of its start, of the firmware's readiness
and of its end (`CalStartHandler`, `FwReadyHandler`, `CalDoneHandler`, cut at
every call that waits or that another thread can see), the registration of the
host driver (`RegisterCall`, `RegisterCheck`), and the delayed work to which a
registration is deferred (`WorkStart` to `WorkRegister`), which posts the
timeout of the calibration as well. `cancel_delayed_work_sync` is
`CancelAndSchedule`: it waits for a work that runs, and a work that is being
cancelled cannot schedule itself. A post may fail for want of memory; that of the
timeout does not stop the registration that follows it, and `unended` records
that it was lost. The COEX service, which owns the antenna,
comes and goes. Time is left out: a delayed work may run as soon as it is
scheduled, which covers every length of the timeout.

### QmiTables and QmiExchange

`QmiTables.tla` has the tables of all five services, as sequences of elements,
with the id, the kind and the declared length of every message. What stays of
an element is what encoding depends on: its kind, its TLV type, the number of
items and their size, the width of a length. `QmiExchange.tla` sends one
message: composed with all, none or one of its optional fields, arrays and
strings empty, with one item or full; encoded element by element into a buffer
of the declared length; extended by fields of a newer peer; decoded by every
table of its id, by the rules of the kernel's `qmi_encdec`, which is external.
`Handles` lists the receive buffers that the code hands to `qmi_handle_init`.
`TableIsSound` says what a table has to be for all this to work: every array of
variable length follows a length that is wide enough for it, no two fields share
a type, the flag of an optional field is next to it, every table of one id is the
same, and the longest message fits in its declared length and in the buffers of
its receivers.

### Icnss

`Icnss.tla` models icnss2 for the three kinds of device it tells apart: WCN6750
(with calibration and an early crash notification of its subsystem), and
Adrastea with and without protection domain restart. Threads:

| Thread | Code | Model |
|---|---|---|
| event worker | `icnss_driver_event_work` and its handlers | `TakeEvent` and the steps up to `EarlyCrashInd` |
| QMI thread | `wlfw_new_server`, `wlfw_del_server`, `fw_ready_ind_cb`, `fw_init_done_ind_cb`, `cal_done_ind_cb` | `QmiThread` |
| interrupt | `fw_crash_indication_handler` | `EarlyCrash` |
| subsystem restart | `icnss_wpss_early_notifier_nb`, `icnss_wpss_notifier_nb`, `icnss_modem_notifier_nb` | `Notifiers`, cut where they wait for an event |
| protection domain | `icnss_pdr_notifier_cb` | `PdrDown`, `PdrUp` |
| host driver | `__icnss_register_driver`, `icnss_unregister_driver` | `Register`, `Unregister`, `Unregistered` |

`state` is `priv->state` and the flags of `priv` that decide what a handler
does. A handler is cut at each callback of the host driver and at each
request, since `FW_DOWN`, `FW_READY` and `PD_RESTART` may change meanwhile. The
power switch (`icnss_hw_power_on`, `icnss_hw_power_off`) is `PowerOn` and
`PowerOff`; the latter does nothing while `FW_DOWN` is set.

A failure is `untimely` when the firmware is not in service, or when the early
crash interrupt is handled after the first notifier (nothing in main.c:516-539
orders them; the interrupt is the device's first word of a crash). It counts as
one of the `MaxTroubles`, and the properties that need the order say so.

### IcnssSocWake

`IcnssSocWake.tla` models how threads of the host driver keep an integrated
device awake: each takes a share of `soc_wake_ref_count` and gives it back,
directly when others have one, and else by an event to a worker that tells the
firmware. Each operation on the atomic count is one step, and so is each post.

| Code | Model |
|---|---|
| `icnss_force_wake_request` | `ForceWakeRequest` (`atomic_inc_not_zero`), `PostRequest` |
| `icnss_is_device_awake` | `IsDeviceAwake` |
| `icnss_force_wake_release` | `ForceWakeRelease` (read), `DecIfGreaterOne`, `PostRelease` |
| `icnss_event_soc_wake_request`, `_release` | `SocWakeRequest`, `SocWakeRelease`, `Sent` |
| `icnss_send_smp2p` | `SendRefused`, `SendSmp2p`, `Acknowledged`, `TimedOut` |
| `fw_soc_wake_ack_handler` | `SocWakeAck` |
| `icnss_driver_event_server_arrive` | `ServerArrive`: clears `FW_DOWN`, whatever threads and worker are doing |
| `icnss_driver_event_fw_ready_ind` | `FwReadyInd`: resets the count, then starts the host driver, or stops it |
| `icnss_pd_restart_complete` | `DriverShutdown`, `DriverReinit`, `DriverStarted` |

The firmware is external: it obeys the last message in the shared memory and
acknowledges it, crashes, and is known to be down only later. So is the host
driver: its threads ask in any state of the firmware while it is in service, use
the device once they were told that it is awake, release it then or give up, and
none is left when its shutdown returns. The count is reset before that shutdown
is called (main.c:1090, 1106), so that threads may hold shares of the earlier
firmware after it. `carried` records what was left at the reset, of messages and
of shares; `disorder` that a release was posted in the middle of another thread's
request, or that a thread gave up on a firmware in service.

### PlatIpcFile

`PlatIpcFile.tla` models the file transfers of `cnss_plat_ipc_qmi.c`. Two
kinds of context share a `file_data`: the caller of an upload or a download
(`pc`, one position per unlocked stretch of code) and the one thread of the
QMI library (`qpc`), which runs the handlers of requests, registrations and
disconnections one at a time.

| Code | Model |
|---|---|
| argument and connection checks | `Call` |
| `cnss_plat_ipc_init_file_data` | `NoMemory`, `InitFileData` |
| `qmi_send_indication` | `SendIndication`, `SendFails` |
| `wait_for_completion_timeout` | `WaitCompleted`, `WaitTimeout` |
| `*size = fd->file_size` | `ReadSize` |
| `cnss_plat_ipc_deinit_file_data` | `RemoveEntry`, `FreeFile` |
| upload request handler | `UploadRequest` (look up), `UploadCheck`, `UploadRespond`, `UploadAdvance`, and the ways out `UploadNoMemory`, `UploadSendFails` |
| download request handler | `DownloadRequest` (look up), `DownloadRefused`, `DownloadCopy`, `DownloadEnd` |
| registration, disconnection | `RegisterClient`, `Disconnect`, `FailFiles` |

A handler keeps the pointer it looked up after it has dropped `file_idr_lock`.
Addresses are reused, as in the event queue: what a handler does to a freed
file has no effect until the address is handed out again, and from then on is
done to the new transfer. The daemon is external and does what it likes with
the transfers it was told of: it repeats segments, skips them, asks for the
wrong one, disconnects and comes back. It stops at the last segment of an
upload, which bounds `seg_index`.

A behaviour is `calm` or not. In a calm one two things do not happen: the kernel
fails to send the response of an upload, and a caller ends its transfer while the
QMI thread is between the lookup of that very file and its last use. Everything
else does: several transfers of either kind at once, indications that cannot be
sent, waits that time out, callers without memory, and a daemon that repeats,
skips, disconnects. `EntryIsLive` and `NoWaitForDeadDaemon` are checked without
calm, where callers end at any moment; that a transfer has moved its file only
with it, since the code does not keep it otherwise (see below).

### CnssPciPm

`CnssPciPm.tla` models what takes the PCIe link up and down while the device
is on. Contexts: the runtime PM core, the system suspend, senders of QMI
messages, events of the root complex (wake, DRV, link down), and the power
cycle of a recovery.

| Code | Model |
|---|---|
| `cnss_pci_suspend_bus`, `cnss_pci_resume_bus` | `SuspendBus(ok)`, `ResumeBus(ok)`: operators used inside the actions, one disjunct per outcome |
| `cnss_pci_runtime_suspend`, `cnss_auto_suspend` | `RuntimeSuspend`, `AutoSuspend` (under `bus_lock`), `MonitorWake` (after it) |
| `cnss_pci_runtime_resume`, `cnss_auto_resume` | `RuntimeResume`, `AutoResume` |
| `cnss_pci_qmi_send_get`, `_put` | `SendGet`, `SendPut` |
| `cnss_pci_suspend`, `cnss_pci_resume` | `SysSuspend`, `SysSuspendBus`, `SysResume` |
| `cnss_pci_event_cb`, `cnss_pci_handle_linkdown` | `WakeEvent`, `DrvEvent`, `DeviceFails` |
| `cnss_qca6290_shutdown`, `cnss_qca6290_powerup` | `RecoveryBegin`, `ShutdownHost`, `PowerOff`, `PowerUp` |

`bus` holds the link state, the suspend bit of MHI together with the way it
was suspended (fast, for DRV, or to M3), and whether the device has asserted
its wake line. `ResumeBus` has the outcomes of the code: success; a link that
does not come up, which leads to a recovery; a PCI device that cannot be
enabled; and an MHI that does not resume, of which the caller is not told.
The PM core is external: it resumes a device before it suspends the system,
does not suspend it at run time meanwhile, remembers a resume requested in
the middle of a suspend, and refuses runtime PM after a failed resume.


## Runs

| Run | Bounds | States | What it shows |
|---|---|---|---|
| `event_queue` | 2 posters, 2 addresses, 2 results, every wait mode, fair | 134,212 | no event is used after free, leaked or shared; votes balance; a signal loses no result; the queue is a serial executor; it drains, and callers return |
| `driver` | 6 calls without fault, with a reboot; 3 calls with one or two faults of any kind; callbacks may fail unless two faults came; idle use | 2,775,996 | no transition bit is left behind; `driver_ops_lock` is released; legal MHI sequence; nothing left after unregister, device off when unused; callbacks kept only while registered, and called in pairs, over one failure of a driver that is loaded and stopped, too: reinit only after a shutdown |
| `driver_recovery` | 1 fault of any kind, load and unload, fair | 5,176 | calls return, recovery ends, no trace of the fault |
| `two_shutdowns` | 1 fault, 2 calls | | counterexample, see below |
| `wlfw` | 3 boots, 1 fault, 1 segment or 2 of other sizes, 2 traces, fair | 612,810 | the firmware is told of memory that is there, of the size it was told; one server at a time; a host driver in service has its firmware; the handshake completes |
| `cal` | 2 faults, 2 writes to `fs_ready`, 2 COEX servers, 2 retries | 355,647 | calibration alone with the device and once; device off and antenna returned afterwards |
| `cal_deferred` | no fault, 1 write | | counterexample |
| `qmi_messages` | every message × {all, none, one} of its optional fields × {empty, one item, full} × up to 2 unknown fields | 22,687 | every table is sound; messages fit their declared length and the buffers of their receivers and are read as they were sent |
| `icnss` | 3 kinds of device, 3 boots, 1 failure elsewhere, 2 registrations (1 with the protection domain) | 3,665,677 | votes held and returned; callbacks in order; power in service; back in service when all is quiet |
| `soc_wake` | 3 threads, 3 requests, 1 crash, 1 lost message, fair | 541,088 | the count is true and every share somebody's; awake for those who use the device, asleep otherwise; requests are granted |
| `plat_ipc` | 2 callers, 2 addresses, 2 transfers; calm: uploads and downloads, files of 1 and 1.5 segments, 1 session of the daemon; otherwise uploads in every interleaving, with responses that fail, 2 sessions and another client | 2,215,463 | `file_idr` names live transfers of waiting callers, nobody waits for a dead daemon; a calm transfer that returns 0 has moved the file |
| `pci_pm` | 2 senders, 2 faults, with and without DRV | 55,844 | the link is up for whoever uses it, wakes are not lost, the bus is resumed as it was suspended, refused suspends are undone |

**Why the bounds are enough.** Two posters and one worker are every kind of
pair that can race for an event, and two addresses let an address be handed
out again while an old user of it is still running, and two events be queued
in the wrong order. Two faults are the smallest number for a fault during a
recovery, for a fault that is noticed twice, and for one during the power up
that repairs another; three calls are register, one idle call and unregister,
or register, unregister, register. Six calls without faults let a driver
sleep, wake, unload and load again. In `CnssWlfw` and `Icnss` three boots let
an event of the first firmware be handled under the third, and a failure hit
the recovery from a failure; a segment may be larger in one boot than in the one before; a failing request there is one more of the
faults (`MaxFaults`, `MaxTroubles`). Two segments let an allocation fail in
the middle. In `CnssColdBootCal` two faults are a failure of the calibration
and one of what repairs it, and two retries of the delayed work are one that
finds the system in the state it was scheduled in and one that does not. In
`IcnssSocWake` three threads are one that has a share, one that gives its share
back and one that asks meanwhile, and each of them may do so under the old firmware
or the new one. In `Icnss` the device with a
protection domain has one registration, since it has the most behaviours by far; what a
second driver inherits from the first is checked with the other two. In `PlatIpcFile` one size fills its last segment and one does not, two transfers
let an address or a request outlive a transfer, and two sessions let the
daemon come back under an old transfer. In `CnssPciPm` the second sender is the
one that arrives or stays while the first leaves. Everything that has a bound
is a constant with `Max` in its name, where `MaxCalls` of `CnssDriver`
is a function of the number of faults and that of `Icnss` of the device, but for `U32`, which stands for 2^32.

**Deadlock** is checked for the event queue and the PCIe power management. It is
switched off for `CnssDriver`, `CnssWlfw`, `Icnss`, `IcnssSocWake` and `PlatIpcFile`,
where the bounds on calls, boots, sessions and faults end every behaviour, and for
`QmiExchange`, which ends when its message is read. It is off for
`CnssColdBootCal` for the same reason, and since the code has a real deadlock
there (`cal_deferred`). That a system does not stop half way is what
`CallsReturn`, `RecoveryEnds`, `HandshakeCompletes`, `RequestIsGranted` and
`ServiceRestored` check.

**Fairness.** `CnssEventQueue!FairSpec`: the worker runs when queued (the
workqueue is unbound and its handlers return), and a poster that is runnable
runs. Nothing is assumed of signals and of new calls. `CnssDriver!FairSpec`:
the worker and the recovery work run; a call of the host driver that can go on
goes on, where a timeout of a wait counts as going on only when nothing else
is under way (the timeouts are minutes, the system's own timers seconds); a
firmware that has been started becomes ready or fails, and an armed timer
whose cause stays expires. `CnssWlfw`: the firmware that is up sends its next
indication, the QMI thread takes what is on the wire, the worker runs.
`CnssColdBootCal`: the firmware ends its calibration, and the worker, the
delayed work and a registration that has begun go on. `IcnssSocWake`: the
worker, the firmware and its interrupt go on, and a thread finishes its call and
asks again whether the device is awake. Faults are never assumed.

**Mutants.** Every property has a mutant next to the definition it changes,
named after the mistake (`WorkOrphan_Always` frees events that are waited
for, `RecoverLinkDown_NoTimer` forgets the timer, and so on). The mutated
definition violates the property under the configuration of its run.

## Where the code breaks its own word

Two runs end in a counterexample. (`CNSS_ASSERT` warns in production builds,
so that the code goes on; the models go on as well.)

- `two_shutdowns` / `MhiSequenceLegal`. The unload tests for a recovery before
  it posts its event. A recovery event handled in between leaves
  `recovery_work` running `cnss_qca6290_shutdown` while the worker runs it for
  the unload. The second of the two asks MHI for a transition it is past,
  which `cnss_pci_check_mhi_state_bit` asserts does not happen.
- `cal_deferred` / `DeferredDriverRegisters`. A host driver that comes before
  the calibration "must be deferred until CBC is complete". The delayed work
  to which it is deferred posts `REGISTER_DRIVER` and waits for the event
  worker. When it has found `COLD_BOOT_CAL_DONE` set before the worker, still
  in the handler of the calibration's end, comes to
  `cancel_delayed_work_sync`, the worker waits for the work in turn. It takes
  no fault.

Other weak spots that the models have. But for that of the calibration, no text of
the repository denies them:

- `cnss_wlan_unregister_driver` and `cnss_idle_shutdown` test
  `CNSS_DRIVER_RECOVERY`, then reinitialise `recovery_complete`, then wait: a
  recovery that completes in between is forgotten, and the call waits for its
  full timeout.
- When the calibration takes too long the delayed work posts its end and goes on to
  register the deferred driver without looking at the result of the post
  (pci.c:3013). If there is no memory for the event (main.c:833), the registration is
  handled with `CNSS_IN_COLD_BOOT_CAL` set, and the host driver is loaded into the
  calibration, although the comment at pci.c:3112 defers it until that is complete.
  `CalibratesAlone` is `DeferredUntilComplete` without this one order (`unended`).
- When the host driver's probe fails, `power_up_complete` stays incomplete and
  the driver stays registered: the unload waits for its full timeout.
- `cnss_pci_resume` returns early with `CNSS_IN_SUSPEND_RESUME` set when the
  link is down, the device off or the bus cannot be resumed, and only a later
  resume clears it. Hence `SuspendUndone` is claimed without faults.
- `cnss_plat_ipc_qmi_file_upload_req_handler` advances `seg_index` before it
  sends the response and the buffer only after it was sent. When the response
  fails and the daemon asks again, it is sent the old data under the next
  index, and the upload may return 0 although a segment was never sent. Hence
  `UploadMovesFile` is claimed of responses that can be sent.
- A caller that times out, or is woken, frees its file while a handler of the QMI
  thread may be using the pointer it looked up before: `file_idr_lock` is dropped in
  between, and the late write hits whoever has the address then. Hence the two claims
  on moved files are made of callers that do not end in the middle of a handler for
  their own file.
- Once an allocation of trace memory failed, firmware and host driver may
  disagree on it. Hence that part of `MemoryIsBacked` is claimed without faults.
- A firmware that asks in a later boot for a larger segment than before is answered
  with the memory of the earlier boot and the new size: `cnss_wlfw_request_mem_ind_cb`
  overwrites `size` (qmi.c:2415), `cnss_pci_alloc_fw_mem` allocates only where there
  is no `va` (pci.c:4021), and the response carries both (qmi.c:416). `MemoryIsBacked`
  claims the size of every segment but those (`grown`).
- With a second fault, or one more call during a recovery, the event worker and the
  recovery work may run the power sequences at the same time (as in `two_shutdowns`),
  and the host driver's reinit is called although it was not shut down. One way needs
  no more than a slow firmware: `fw_boot_timer` posts a recovery, the firmware becomes
  ready while it is queued, and an idle shutdown and restart comes to the device with
  `CNSS_DRIVER_RECOVERY` set. `HostCallbacksInOrder` is
  therefore claimed of one fault and two calls (`AtMostOneFailure`).
- A crash of icnss2 of which the early interrupt is handled after the notifiers' event
  takes a second vote: `icnss_driver_event_early_crash_ind` does not look at
  `ICNSS_PD_RESTART` (main.c:1555-1570). The recovery gives back one, and the system
  does not sleep any more. `VoteHeldInRestart` claims the exact count without it.
- `FW_READY` of a firmware of icnss2 that has died since is handled like that of its
  successor (main.c:1088): it ends the restart and probes or reinitialises the host
  driver without a firmware. It takes a failure out of service, which
  `ServiceRestored` exempts.
- A host driver of icnss2 that leaves before its registration was handled is told
  `-ENOENT` (main.c:2756), and its ops are stored and probed afterwards.
- A driver of icnss2 that was stopped by a failure, went, and is followed by
  another leaves `ICNSS_SHUTDOWN_DONE` to it: the next recovery does not shut
  the new driver down before it is reinitialised. `StaleShutdown` names the
  case and `CallbacksInOrder` exempts it.
- The first request of icnss2 for an awake device reads a count of 0 and posts
  an event later. When the last user of another request posts its release in
  between, that is handled first: the device sleeps under the thread that asked
  and was told that it is awake, or, if it releases at that moment, stays awake
  for good. `disorder` records the case, and `SharesBalance` and
  `AwakeJustForUsers` exempt it.
- A recovery of icnss2 resets the count before it has the host driver stopped. A
  thread that holds a share over the reset releases it later: it takes the share of
  another thread, which then uses a device that sleeps, or it is one too many. Or its
  request, still queued, wakes a device that nobody releases. `carried` records what
  was left over the reset, and the two properties claim the balance of firmwares that
  found nothing left; `CountIsTrue` holds of threads that hold a share over it, too.
- A message of icnss2 that is not acknowledged in time returns 0 like one that
  is, so that the count says that the device is awake, and a late interrupt
  acknowledges the next message.
- A caller of a download that was woken by an error or a timeout reads the size
  of the file before it withdraws the id: the last segment may arrive in
  between, and the download returns 0 with a size that does not count it.
- DRV may disconnect after `cnss_pci_runtime_suspend` read `drv_connected` and
  before `cnss_auto_suspend` sets `auto_suspended`: no resume is requested, and the device stays
  suspended by DRV while DRV is not connected.
- `cnss_wlan_register_driver` sets `DRIVER_REGISTER` before it initialises the
  delayed work: a calibration that starts or ends in between cancels a work
  that is not there.
- The hazards with a note in `PROJECT.json`: a recovery that finds the link up
  again, an MHI resume whose failure nobody notices.

## Proofs

Eight modules prove what follows for every value of the constants, from the
assumptions named in each model (`EventQueueAssumption`, `DriverAssumption`,
`PciPmAssumption`, `WlfwAssumption`, `CalAssumption`, `PlatIpcAssumption`,
`IcnssAssumption`, `SocWakeAssumption`, `ExchangeAssumption`), which only type the constants, keep `NULL` and its like
apart from proper values, and make finite what is counted. Each has a theorem
`TypeCorrect` (that of `QmiProofs` is about the file transfers), and:

| Module | Theorem | Says |
|---|---|---|
| `CnssEventQueueProofs` | `VotesBalance` | `pm_count` is the number of threads inside post and work |
| | `OwnerFrees` | list, worker and posters refer to allocated events only; no event is queued twice or shared; every allocated event is queued, in hand or held by its poster |
| | `SignalLosesNoResult` | an action property: `-EINTR` is returned only for an unreported event |
| | `RunsSerially` | the queue implements `SerialExecutor`: each request runs once, alone, in the order of the list, and is answered with its own result |
| `CnssDriverProofs` | `LockReleased` | `driver_ops_lock` is never left behind by a call that has returned |
| | `TransitionEndsClean` | unload and idle shutdown end with their bit cleared |
| | `MhiIsLegal` | as long as the device has not failed, MHI is powered off when it is on and deinitialised when it is off |
| | `LeavesNothing` | in the same case an unregistered host driver was removed, and a device that nobody uses is off; in every case its callbacks are kept only while it is registered or its registration is handled |
| | `ProbesInOrder` | an action property: as long as the device has not failed a probe finds no driver, and only a driver that sleeps is woken |
| `CnssPciPmProofs` | `ActiveDeviceHasLink` | the link of a sound, active device is up |
| | `SenderKeepsLink` | a sender that was let through has the link until it is done |
| | `WakeIsNotLost` | a wake of a suspended device is always followed by a request to resume |
| | `DrvModeIsKept` | a suspended bus is resumed in the way it was suspended |
| | `SuspendIsUndone` | without a fault, a system that is on finds the host driver up and `CNSS_IN_SUSPEND_RESUME` clear |
| `CnssWlfwProofs` | `OneServer` | a server never arrives while another is connected |
| | `MemoryAlwaysBacked` | a firmware that is up was given the memory it asked for in this boot, each segment as large as it was told unless an earlier boot asked for less, and it stays; without a fault the trace memory stays too |
| | `ServesTheHost` | a host driver that is up runs on a firmware that went through the handshake of this boot, or has died since |
| `CnssColdBootCalProofs` | `CalibrationIsAlone` | no host driver is loaded, registered or probed before the calibration is over, unless its end could not be posted |
| | `CleanAfterwards` | without a fault, the device is off and the antenna returned afterwards |
| | `OneCalibration` | an action property: the result stands and no other calibration starts |
| `QmiProofs` | `EntriesAreLive` | an id of `file_idr` names a live transfer of a caller that will withdraw it |
| | `NobodyWaitsForTheDead` | a caller that waits for a daemon that is gone has been woken |
| | `UploadsMoveTheFile` | an upload that returns 0 has sent all segments once, in order, each at its place, for any size, in a calm behaviour: whatever the daemon does and however many callers there are, if the kernel sends every response and no caller ends in the middle of a handler for its file |
| | `DownloadsMoveTheFile` | a download that returns 0 has received its own segments in order up to the last, and returns their size, in the same case |
| | `EverythingFits` | with sound tables, no message outgrows its declared length or the buffer of a receiver, whichever fields are set and however full |
| | `EverythingIsRead` | with sound tables, a receiver finds just the fields that were set, whatever a newer peer adds |
| `IcnssProofs` | `AwakeUntilRestarted` | a recovery that has not completed keeps the system awake |
| | `OneVoteForARecovery` | each recovery takes one vote and gives it back, unless a failure comes before the recovery of the one before it |
| | `ServiceComesBack` | without faults a host driver in service has power, and it is in service again when all is quiet |
| | `CallbacksComeInOrder` | an action property: callbacks come in order without faults, and with faults unless `SHUTDOWN_DONE` is stale |
| `IcnssSocWakeProofs` | `AwakeIsTrue` | a count that is not 0 means a firmware in service that is awake, whoever holds a share over a restart, if no message failed and none was under way at the reset |
| | `SharesAreBalanced` | no share is lost or counted twice by a firmware that found nothing left of the one before it, unless something fails, a release overtakes a request or a thread gives up |
| | `AwakeForThemAlone` | in the same case the device is awake for those who were told so, and asleep when nobody needs it |

**The arguments.** Hardly one of these is inductive by itself; each module
begins with the invariant that is.

*Event queue.* That the worker may free an event depends on nobody waiting for
it, and that depends on what `event->sync` means. *Custody* says where an event
may be: queued, in the worker's hand or with one poster, never at two places
that both free it. *Ownership* says what the flag stands for: an event that is
queued or in hand is marked synchronous exactly when a poster waits for it
(`WaitedIsMarked`, `MarkedIsWaited`), and an event somebody waits for is
completed exactly when the worker has let go of it. From this follows that the
worker frees only what nobody waits for (`FreedIsUnmarked`) and the poster only
what the worker is done with (`CollectedIsDone`). With the same invariant the
steps map to those of the executor (`ExecutorStep`): to enqueue is to submit, to
take an event from the list is to run it, to report is to finish. What is left is
to show that the other steps are stutters: a poster that gives up, or frees what
it collected, does not disturb the answers of others, because no two posters
share an event.

*Lifecycle.* `Callers`: every event that is queued or handled was posted by one
context that still waits for it, and is not posted twice, so that the call to
which a handler returns is the one that holds `driver_ops_lock`. `Transition`:
the two bits of a transition are set only while the worker is in the shutdown
that clears them, whatever the recovery work, which runs the same sequence,
does to them meanwhile. `Unfailed` says the rest of a device that has not failed.
`Handling` ties the event in hand to the steps it is handled in and to the bit it
sets; `Powered` gives the power and the state of MHI at each step; `Registration`
and `Sleeping` say where the host driver is while it is registered, unregistered
or asleep. `OpsOwned`, which does not need a sound device, says the same of its
callbacks: each step of the handler of a registration leaves them to the next, and
every way out of it that fails gives them up. `Boots` is the part that needs thought: between the start of the
firmware and the callback that tells the host driver, nothing that powers the
device up or down is handled, because the caller that asked for it still waits.
A reboot ends that wait, and the calls with it, which is why it says nothing
after one.

*PCIe power management.* The properties speak of a sound device: powered, not
failed, no recovery under way. `AutoSuspendedIsRuntime` says that
`auto_suspended` follows the PM core's view of the device; `RuntimeQuiet` that
neither a system suspend nor a power cycle meets a runtime suspend in
progress; `CountIsBusy` that `qmi_send_usage_count` is the number of senders;
`RecoveryHasCause` that a device is off or halted only after a fault. `LinkIsUp`
lists every reason for the link to be up: nobody suspended the device,
somebody is sending, the system suspend has not come to the bus yet,
`disable_pc` keeps it up, or a resume failed half way, which leaves MHI
suspended and so keeps the next suspend from succeeding. `WakeIsHandled` says
the same of a wake.

*WLFW client.* `Server` follows the announcements of the firmware from the
wire to the worker: a queue holds at most one arrival and one exit
(`OneArrival`, `OneExit`), between two arrivals on the wire there is an exit
(`Alternate`), and once a server is gone and told of, no arrival of it is left
(`Gone`). Only the first step of a chain connects or disconnects
(`FirstSteps`), so that all other steps leave this alone (`Aside`).
`MemoryIsThere` is inductive with the types: only the unload frees memory, and
the firmware is down by then. For `ServesTheHost` a message of an earlier boot
must not be taken for one of this boot. `Fresh` says why it is not: what a dead
firmware sent is ahead of the announcement of the next server, on the wire and in
the queue (`NothingBehind`, `NothingQueued`), so that nothing of it is left when
that server is connected (`NothingThere`). After that, what the firmware asks for
once is on the wire, then queued, then in the worker's hand (`AskedOnce`), and
the host driver is probed by the one `FW_INIT_DONE` of this boot. `Backed` adds
the sizes. What was asked for is in the indication as long as it is on the wire and
in `fw_mem` from then on (`MemoryAsked`): there is one such indication (`AskedOnce`),
so nothing overwrites it before the answer. `Kept` says of every segment that it is
not there, large enough for what was asked for last, or marked (`Enough`), that the
trace memory is there as a whole or not at all (`AllOrNone`), and that a firmware that
was not answered yet was given nothing (`Ungiven`). For the trace memory `InTurn` says
that request and release alternate: at most one of them is queued or handled, the
firmware has the memory only when neither is, and a request that comes while there
is memory is ignored. That needs that no allocation and no event was lost.

*Calibration.* The registration is not guarded where it is handled. That no
driver is loaded in a calibration rests on the order of the queue:
`RegistersLast` says that every registration that is queued, or that the
delayed work is about to post, comes after an end of the calibration, if that could
be posted (`unended`).
`NothingBefore` and `BitsOfStep` say which bits stand before the attempt and at
each step of the worker, `FaultFree` where the device and the antenna are as
long as nothing failed.

*Platform IPC.* The QMI thread may write to a file that was freed. What it
writes never changes an id and never takes back a completion, which is all
that the rest needs: a caller holds an allocated file (`HoldersOwn`), no two
hold the same or have one id (`IdsDiffer`), and the entries of `file_idr` are
just the files that are entered and not withdrawn (`EnteredFiles`,
`EntriesHeld`). `CalmInv` is about calm behaviours: the file that the QMI thread uses is that of a
caller that has not withdrawn it (`InUse`), whatever other callers do. It
follows what the file has moved, step by step: after `seg_index` segments the
buffer starts at the next (`SentSoFar`, `AtRest`), except between the answer and
the advance of the buffer (`Advancing`); a download has its own segments in order
(`CopiedSoFar`). What was moved for an id stays, since no id is used twice
(`Unused`, `Returned`).

*QMI messages.* These theorems have a hypothesis, `[]TableIsSound`: a condition
on the tables and buffers alone, which says nothing of how a message is encoded.
It is a property of the run `qmi_messages`, where TLC evaluates it on every
table of the five services. What follows from it is proved for any sender:
`RoomLeft` says that what was used and what the rest of the table needs
(`Need`) is together no more than the table needs, so that there is room for
the next field; `InPlace` that an array is encoded with the length that was coded
before it, and that the sender is inside an optional field only if that is set;
`Encoded` and `OnItsWay` that each field that was set is on the wire or decoded
and that nothing else is there but what a newer peer has added, which the receiver
skips since no table has its type. `Need` is a recursion over the table, and the
proofs never expand it: that it adds up is a part of `TableIsSound`.

*icnss2.* `CallbackIsCalled` ties the callback the host driver is in to the step
of the worker, `BitsAreTrue` ties `PROBED` and `SHUTDOWN_DONE` to it,
`VotesAreHeld` the votes to `PD_RESTART`. Few handlers touch the host driver;
that all other steps leave these alone is one lemma each for the worker, the
interrupts and the notifiers. `Timely` strengthens this while no failure comes
before the recovery of the one before it: the interrupt tells of a crash before
the notifiers do (`EarlyFirst`), and a crash is handled before the next server
arrives (`CrashesFirst`), so that one of the two counts it and the other finds
`PD_RESTART` set. `Course` is the boot without faults. Each message of the
firmware is on the wire, in the queue or in the worker's hand, and in one of them
only (`OnTheWire`, `Exits`, `Arrives`, `Ready`); no handler but those of the
handshake touches the device between the arrival and the end of the handshake;
and a recovery is told of before the firmware after it says that it is ready
(`Recovers`), which then brings the host driver back with its power (`Serves`).
`ForTheStopped` adds that `SHUTDOWN_DONE` belongs to a host driver that was
stopped: without faults none is removed in between.

*Wake requests.* Only the worker raises the count from 0, when it is done
(`BusyMeansNone`), so that what it sends changes a device whose count says that
it is asleep. `Exchange` follows a message to the firmware, back as an interrupt
and into the completion, for a firmware that found no message of another
(`"message" \notin carried`); shares that were held over the reset need no such
exception, since each of them is counted only after a message of its own. The
balance (`SharesInv`) begins with a firmware that found nothing left
(`carried = {}`) and rests on the order of the queue: a request is handled before
any release, since a release is posted when no thread is about to post a request
(`RequestsFirst`). So the release with which the count becomes 0 is that of the last
holder. `CountAppend`, `CountTail` and `HoldersChange` count what an event or a
thread adds; `SleepsInv` ties the device to the count and to the message under way.

**Only model-checked.** Liveness (`ListDrains`, `CallerReturns`, `CallsReturn`,
`RecoveryEnds`, `HandshakeCompletes`, `RequestIsGranted`), for which TLAPS has no
means here. `TableIsSound`: what is longest in a table is a recursion over its
elements, and TLC computes it. `FaultRepaired` of `CnssDriver`: it does not hold
for every value of the constants. It is a claim about one fault under a host
driver whose callbacks succeed and which is loaded once, and that is what
`MCCnssDriverRecovery.cfg` fixes. TLC finds it violated with `MaxFaults = 2` (a
power on that fails during the recovery of the first fault leaves the device off
and `CNSS_DRIVER_RECOVERY` set), with one fault and a probe that returns an
error, and with one fault and four calls (a fault during the unload makes the two
shutdowns of `two_shutdowns` race; MHI stays initialised, and the next load
fails). Nobody retries any of these in the code.

## Assumptions and limits

- `CNSS_ASSERT` is a warning (`CONFIG_CNSS2_DEBUG` unset, `cnss2/debug.h`),
  recovery is enabled, no debug quirk is set, `CONFIG_MSM_SUBSYSTEM_RESTART` is
  unset, the device is of the QCA6290 family. `CnssDriver` and `CnssWlfw` are
  without the cold boot calibration, which has a module of its own.
- `event_wq` runs one work item at a time, `queue_work` on a queued item does
  nothing, and on a running one queues it again.
- Memory orders are those of the locks; `set_bit` and `test_bit` are atomic.
  A section without a lock is split where another context can tell.
- In `CnssDriver`, `DeviceOff` is one action: after MHI is off, the suspension
  of the link, the release of MHI and the power off touch state that only
  power sequences read.
- The retries of `cnss_resume_pci_link` and of the power up at other voltages
  are summarised by their outcome.
- In `CnssPciPm` a section under `bus_lock` and the bus part of
  `cnss_pci_resume`, which does not take the lock, are one action each: every
  other user of the bus is excluded by the lock or by the PM core, except for
  the power cycle, which is itself cut into steps. The failure of the link to
  come up is taken to start a recovery at once, also when it is reported by
  way of the root complex. The host driver sends no messages and leaves
  `cnss_wlan_pm_control` alone while it is suspended, and its senders do not
  call `cnss_qmi_send_put` after it was shut down. Idle shutdown is in
  `CnssDriver`.
- In `CnssWlfw` the firmware asks for what the protocol lets it ask for, in
  its order; the contents of files and messages and the types of segments are left out.
  A size of 0 is left out, too, which the code takes for no segment. Only a firmware
  that has had its capabilities from the host may answer that the indications are
  registered already (`-EALREADY`).
- In `IcnssSocWake` the threads of the host driver are done when its shutdown
  callback returns, and ask only from its probe or reinit on. A `FW_READY` that is
  handled after its firmware died is left to `Icnss`.
- In `Icnss` the failure of `icnss_register_fw_service` when a server has gone
  (qmi.c:2895, an assertion in debug builds) is left out: the driver has no QMI handle
  from then on and hears of no firmware again. The early crash interrupt is handled
  before its firmware's successor boots.
- In `CnssDriver` the `-EOPNOTSUPP` with which QCA6290 refuses to recover a link
  (pci.c:1274) is an outcome of `RecoverLinkDown`, counted as a fault; `mod_timer`
  of the boot timer (pci.c:2727) is one action with the power up of MHI that it follows
  by a few instructions; and a recovery for which there is no memory (main.c:1791) is
  left out: nothing repairs the device then, and `FaultRepaired` would not hold.
- In `PlatIpcFile` the segments are in order of requests, since the QMI
  library runs one handler at a time; memory may run out and waits may time
  out at any moment.
- `QmiExchange` follows the kernel's `qmi_encdec`, as the tables are written
  for it; the values of fields are left out.

## Not modelled

- *Power sequencing* (`power.c`): lists of regulators, clocks and GPIOs that are
  switched in order and released in reverse, called by one thread. `CnssDriver`
  has it as one step that succeeds or fails.
- *debugfs and generic netlink* (`debug.c`, `genl.c`): parsing of what a user
  writes and calls of operations that are modelled where they belong.
- *cnss_utils* (`cnss_utils.c`): stores that are set and read by one call each.
- *cnss_prealloc*: a search for a pool by size; the pools are the kernel's.
- *cnss_genl*: a dispatch table.
- Parts of modelled components: forced assert and the collection of RDDM dumps,
  QCA6174, the MSM subsystem restart build; the noirq callbacks, bandwidth
  votes and L1 control of the PCIe link; WFC, TWT and athdiag messages; the
  idle calls, thermal, SMMU and dumps of icnss2; the table
  of users of the platform IPC daemon.

## Plan

Written and proved: what is above. What could come next, in order of what can go
wrong:

1. Forced assert and `rddm_complete` of cnss2.
2. The power on sequence with its rollback, as functions on sequences.
3. The bandwidth votes and L1 control of the PCIe link.
