------------------------------- MODULE CnssWlfw -------------------------------
(***************************************************************************)
(* The WLAN firmware service as cnss2 drives it (cnss2/qmi.c, the handlers *)
(* of its events in cnss2/main.c, the firmware memory in cnss2/pci.c):     *)
(* from the arrival of the server through the memory and the files the     *)
(* firmware wants to the host driver's wlan_enable, over boots of a        *)
(* firmware that may crash at any moment.                                  *)
(*                                                                         *)
(* Three parties.  The firmware answers requests and sends indications.    *)
(* The QMI thread takes the announcements and indications off the wire and *)
(* posts events.  The event worker handles them, each as a chain of steps. *)
(* A host driver enables and disables WLAN and runs traces.                *)
(*                                                                         *)
(* Left to other modules: the event queue itself (CnssEventQueue), the     *)
(* driver states and bus callbacks (CnssDriver), calibration               *)
(* (CnssColdBootCal), the other services (QmiExchange).  What a request    *)
(* carries is left out, except for the memory that is given away: how many *)
(* segments, and of the firmware's memory, which is kept from boot to boot,*)
(* the size of each.                                                       *)
(***************************************************************************)
EXTENDS Naturals, Sequences

CONSTANTS
    MaxBoots,   \* how often the firmware is booted (bound)
    MaxFaults,  \* how many requests, posts and allocations fail (bound)
    MaxSegs,    \* the most segments the firmware asks for
    Requests,   \* the memory it may ask for: the sizes of the segments
    MaxTraces   \* how often a trace is started (bound)

ASSUME WlfwAssumption ==
    /\ MaxBoots \in Nat \ {0} /\ MaxSegs \in Nat \ {0}
    /\ MaxFaults \in Nat /\ MaxTraces \in Nat
    /\ Requests \subseteq Seq(Nat \ {0}) /\ \A r \in Requests: Len(r) \in 1..MaxSegs

VARIABLES
    fw,         \* the firmware: see FwType
    boot,       \* the number of the present boot
    wire,       \* announcements and indications on their way to the QMI thread
    lookup,     \* the QMI handle is open and looks for the server
    peer,       \* the boot whose server the socket is connected to, or 0
    connected,  \* CNSS_QMI_WLFW_CONNECTED
    del_server, \* CNSS_QMI_DEL_SERVER
    events,     \* the event queue
    worker,     \* the steps the worker has left to do for its event, and the
                \* boot of the server that arrived
    bits,       \* CNSS_FW_MEM_READY, CNSS_FW_READY, CNSS_DEV_ERR_NOTIFY,
                \* CNSS_DRIVER_RECOVERY and a pending pcie_gen_speed
    fw_mem,     \* fw_mem: the segments wanted, and how much of each is allocated;
                \* history: those that were there and are now too small
    m3_mem,     \* m3_mem is loaded
    qdss_mem,   \* qdss_mem: how many segments are wanted, which are allocated
    host,       \* the host driver: none, up, idle (WLAN disabled), leaving
    faults, traces

fwVars   == <<fw, boot>>
linkVars == <<lookup, peer, connected, del_server>>
memVars  == <<fw_mem, m3_mem, qdss_mem>>
vars == <<fwVars, wire, linkVars, events, worker, bits, memVars, host, faults, traces>>

Segs == 1..MaxSegs

-----------------------------------------------------------------------------
(***************************************************************************)
(* The firmware.  It accepts the requests of Protocol in that order, may   *)
(* be asked again for what it has done, and refuses a request until it has *)
(* sent the indication the request waits for.                              *)
(***************************************************************************)
Protocol == [ind_register |-> 1, host_cap |-> 2, respond_mem |-> 3, bdf |-> 4,
             m3_info |-> 5, wlan_cfg |-> 6, wlan_mode |-> 7]

WaitsFor == [ind_register |-> "NEW", host_cap |-> "NEW", respond_mem |-> "REQUEST_MEM",
             tgt_cap |-> "FW_MEM_READY", bdf |-> "FW_MEM_READY", m3_info |-> "FW_MEM_READY",
             wlan_cfg |-> "FW_INIT_DONE", wlan_mode |-> "FW_INIT_DONE",
             mac_addr |-> "FW_INIT_DONE", mode_off |-> "FW_INIT_DONE",
             trace_on |-> "FW_INIT_DONE", trace_off |-> "FW_INIT_DONE",
             trace_mem |-> "QDSS_REQ_MEM"]

Indications == {"NEW", "REQUEST_MEM", "FW_MEM_READY", "FW_INIT_DONE",
                "QDSS_REQ_MEM", "DEL"}

NoFw == [state |-> "off",       \* off, up or dead
         accepted |-> 0,        \* how far in Protocol it is
         sent |-> {},           \* what it announced or indicated
         asked |-> <<>>, mem |-> <<>>,   \* segments it asked for, and was given
         tracing |-> FALSE, traceMem |-> {}]

Wanted == Requests \cup {<<>>}

FwType == [state: {"off", "up", "dead"}, accepted: 0..7, sent: SUBSET Indications,
           asked: Wanted, mem: Wanted, tracing: BOOLEAN,
           traceMem: SUBSET Segs]

Accepts(req) ==
    /\ fw.state = "up" /\ WaitsFor[req] \in fw.sent
    /\ req \in DOMAIN Protocol => Protocol[req] <= fw.accepted + 1

Done(req) ==
    [fw EXCEPT
       !.accepted = CASE req = "mode_off" /\ @ = 7 -> 5
                      [] req \in DOMAIN Protocol /\ Protocol[req] > @ -> Protocol[req]
                      [] OTHER -> @,
       !.mem = IF req = "respond_mem" THEN fw_mem.segs ELSE @,
       !.tracing = CASE req = "trace_on" -> TRUE
                     [] req \in {"trace_off", "mode_off"} -> FALSE
                     [] OTHER -> @,
       !.traceMem = CASE req = "trace_mem" -> 1..qdss_mem.len
                      [] req = "mode_off" -> {}
                      [] OTHER -> @,
       !.sent = IF req \in {"trace_off", "mode_off"} THEN @ \ {"QDSS_REQ_MEM"} ELSE @]

Message(ind, segs) == [ind |-> ind, of |-> boot, segs |-> segs]
Fault == faults < MaxFaults /\ faults' = faults + 1

\* The server is announced once the firmware is up.
FwAnnounce ==
    /\ fw.state = "up" /\ "NEW" \notin fw.sent
    /\ fw' = [fw EXCEPT !.sent = @ \cup {"NEW"}]
    /\ wire' = IF lookup THEN Append(wire, Message("NEW", <<>>)) ELSE wire
    /\ UNCHANGED <<boot, linkVars, events, worker, bits, memVars, host, faults, traces>>

Due(ind) ==
    /\ fw.state = "up" /\ ind \notin fw.sent
    /\ CASE ind = "REQUEST_MEM"  -> fw.accepted = 2
         [] ind = "FW_MEM_READY" -> fw.accepted = 3
         [] ind = "FW_INIT_DONE" -> fw.accepted = 5
         [] ind = "QDSS_REQ_MEM" -> fw.tracing /\ fw.traceMem = {}
         [] ind = "QDSS_FREE"    -> ~fw.tracing /\ fw.traceMem # {}
         [] OTHER                -> FALSE

\* An indication goes to whoever registered for it.
FwIndicate(ind, segs) ==
    /\ Due(ind) /\ peer = boot
    /\ fw' = [fw EXCEPT !.sent = IF ind = "QDSS_FREE" THEN @ ELSE @ \cup {ind},
                        !.asked = IF ind = "REQUEST_MEM" THEN segs ELSE @,
                        !.traceMem = IF ind = "QDSS_FREE" THEN {} ELSE @]
    /\ wire' = Append(wire, Message(ind, segs))
    /\ UNCHANGED <<boot, linkVars, events, worker, bits, memVars, host, faults, traces>>

\* The firmware dies; the bus notices and posts the recovery.
Crash ==
    /\ fw.state = "up" /\ boot < MaxBoots
    /\ fw' = [fw EXCEPT !.state = "dead"]
    /\ bits' = [bits EXCEPT !.dev_err = TRUE, !.recovery = TRUE]
    /\ events' = Append(events, [ev |-> "RECOVERY", of |-> 0])
    /\ UNCHANGED <<boot, wire, linkVars, worker, memVars, host, faults, traces>>

\* The server of a dead firmware goes, at the latest when its power does.
FwGone ==
    /\ fw.state = "dead" /\ "NEW" \in fw.sent /\ "DEL" \notin fw.sent /\ lookup
    /\ fw' = [fw EXCEPT !.sent = @ \cup {"DEL"}]
    /\ wire' = Append(wire, Message("DEL", <<>>))
    /\ UNCHANGED <<boot, linkVars, events, worker, bits, memVars, host, faults, traces>>

Firmware ==
    \/ FwAnnounce
    \/ \E segs \in Requests: FwIndicate("REQUEST_MEM", segs)
    \/ \E ind \in {"FW_MEM_READY", "FW_INIT_DONE", "QDSS_FREE"}: FwIndicate(ind, <<>>)
    \/ \E segs \in Requests: FwIndicate("QDSS_REQ_MEM", segs)

-----------------------------------------------------------------------------
(***************************************************************************)
(* The QMI thread                                                          *)
(***************************************************************************)

\* cnss_driver_event_post, whose result no callback looks at: without memory
\* for it the event is lost.
Post(ev, of) ==
    \/ events' = Append(events, [ev |-> ev, of |-> of]) /\ UNCHANGED faults
    \/ Fault /\ UNCHANGED events

Receive(ind) ==
    /\ wire # <<>> /\ Head(wire).ind = ind
    /\ wire' = Tail(wire)
    /\ UNCHANGED <<fwVars, lookup, peer, connected, worker, bits, m3_mem, host, traces>>

\* Mutant: a server that arrives before the exit is done is not ignored.
NewServer_DuringExit ==
    /\ Receive("NEW")
    /\ Post("SERVER_ARRIVE", Head(wire).of)
    /\ UNCHANGED <<del_server, fw_mem, qdss_mem>>

\* wlfw_new_server
NewServer ==
    /\ Receive("NEW")
    /\ IF del_server THEN UNCHANGED <<events, faults>>
                     ELSE Post("SERVER_ARRIVE", Head(wire).of)
    /\ UNCHANGED <<del_server, fw_mem, qdss_mem>>

\* wlfw_del_server
DelServer ==
    /\ Receive("DEL")
    /\ del_server' = TRUE
    /\ IF del_server THEN UNCHANGED <<events, faults>> ELSE Post("SERVER_EXIT", 0)
    /\ UNCHANGED <<fw_mem, qdss_mem>>

\* The segments of an earlier boot that are smaller than those wanted now.
Outgrown(segs) == {i \in DOMAIN segs: 0 < fw_mem.va[i] /\ fw_mem.va[i] < segs[i]}

\* cnss_wlfw_request_mem_ind_cb: the sizes are overwritten, what was allocated
\* for others stays.
RequestMemInd ==
    /\ Receive("REQUEST_MEM")
    /\ fw_mem' = [fw_mem EXCEPT !.segs = Head(wire).segs, !.grown = Outgrown(Head(wire).segs)]
    /\ Post("REQUEST_MEM", 0)
    /\ UNCHANGED <<del_server, qdss_mem>>

\* cnss_wlfw_fw_mem_ready_ind_cb
FwMemReadyInd ==
    /\ Receive("FW_MEM_READY") /\ Post("FW_MEM_READY", 0)
    /\ UNCHANGED <<del_server, fw_mem, qdss_mem>>

\* cnss_wlfw_fw_init_done_ind_cb
FwInitDoneInd ==
    /\ Receive("FW_INIT_DONE") /\ Post("FW_READY", 0)
    /\ UNCHANGED <<del_server, fw_mem, qdss_mem>>

\* cnss_wlfw_qdss_trace_req_mem_ind_cb: not while there is trace memory.
QdssReqMemInd ==
    /\ Receive("QDSS_REQ_MEM")
    /\ IF qdss_mem.len # 0
          THEN UNCHANGED <<qdss_mem, events, faults>>
          ELSE /\ qdss_mem' = [qdss_mem EXCEPT !.len = Len(Head(wire).segs)]
               /\ Post("QDSS_TRACE_REQ_MEM", 0)
    /\ UNCHANGED <<del_server, fw_mem>>

\* cnss_wlfw_qdss_trace_free_ind_cb
QdssFreeInd ==
    /\ Receive("QDSS_FREE") /\ Post("QDSS_TRACE_FREE", 0)
    /\ UNCHANGED <<del_server, fw_mem, qdss_mem>>

\* qmi_wlfw_ops and qmi_wlfw_msg_handlers
QmiThread ==
    \/ NewServer \/ DelServer \/ RequestMemInd \/ FwMemReadyInd \/ FwInitDoneInd
    \/ QdssReqMemInd \/ QdssFreeInd

-----------------------------------------------------------------------------
(***************************************************************************)
(* The event worker                                                        *)
(***************************************************************************)

\* The handlers, as the steps they take.
Chain ==
    [SERVER_ARRIVE |-> <<"connect", "ind_register", "host_cap">>,
     SERVER_EXIT   |-> <<"exit">>,
     REQUEST_MEM   |-> <<"alloc_fw_mem", "respond_mem">>,
     FW_MEM_READY  |-> <<"mem_ready", "tgt_cap", "files", "bdf", "load_m3", "m3_info", "qdss_cfg">>,
     FW_READY      |-> <<"fw_ready", "gen_speed", "dms_mac", "wlan_cfg", "wlan_mode">>,
     QDSS_TRACE_REQ_MEM |-> <<"alloc_qdss_mem", "trace_mem">>,
     QDSS_TRACE_FREE    |-> <<"free_qdss_mem">>,
     RECOVERY      |-> <<"shutdown", "power_up">>,
     SHUTDOWN      |-> <<"shutdown">>,
     POWER_UP      |-> <<"power_up">>]

Steps == UNION {{Chain[e][i] : i \in DOMAIN Chain[e]} : e \in DOMAIN Chain}

Resting == [steps |-> <<>>, of |-> 0]

TakeEvent ==
    /\ worker = Resting /\ events # <<>>
    /\ worker' = [steps |-> Chain[Head(events).ev], of |-> Head(events).of]
    /\ events' = Tail(events)
    /\ UNCHANGED <<fwVars, wire, linkVars, bits, memVars, host, faults, traces>>

At(step) == worker.steps # <<>> /\ Head(worker.steps) = step
Go(ok) == worker' = IF ok /\ Len(worker.steps) > 1
                        THEN [worker EXCEPT !.steps = Tail(@)] ELSE Resting

\* A request: kzalloc, qmi_txn_init, qmi_send_request, qmi_txn_wait and the
\* result in the response.  It succeeds if it reaches a firmware that accepts
\* it, which the address of an earlier boot may still do.  A fault loses the
\* request or its response.
Request(req, ok) ==
    \/ /\ ok /\ peer # 0 /\ Accepts(req)
       /\ fw' = Done(req) /\ UNCHANGED faults
    \/ /\ ~ok /\ ~(peer = boot /\ Accepts(req))
       /\ UNCHANGED <<fw, faults>>
    \/ /\ ~ok /\ Fault
       /\ fw' = fw \/ (peer # 0 /\ Accepts(req) /\ fw' = Done(req))

\* A step that sends a request and stops the handler if it fails.
SendOrStop(req) ==
    /\ At(req)
    /\ \E ok \in BOOLEAN: Request(req, ok) /\ Go(ok)
    /\ UNCHANGED <<boot, wire, linkVars, events, bits, memVars, host, traces>>

\* cnss_wlfw_connect_to_server.  A server that arrives at a connected socket
\* is an assertion and an error.
Connect ==
    /\ At("connect")
    /\ IF connected
          THEN Go(FALSE) /\ UNCHANGED <<connected, peer, faults>>
          ELSE \/ connected' = TRUE /\ peer' = worker.of /\ Go(TRUE) /\ UNCHANGED faults
               \/ Go(FALSE) /\ Fault /\ UNCHANGED <<connected, peer>>
    /\ UNCHANGED <<fwVars, wire, lookup, del_server, events, bits, memVars, host, traces>>

\* cnss_wlfw_ind_register_send_sync.  A firmware that went on from an earlier
\* registration may say so (-EALREADY): the handler is done, without host_cap.
IndRegister ==
    \/ SendOrStop("ind_register")
    \/ /\ At("ind_register") /\ Go(FALSE)
       /\ peer # 0 /\ Accepts("ind_register") /\ fw.accepted >= Protocol["host_cap"]
       /\ UNCHANGED <<fwVars, wire, linkVars, events, bits, memVars, host, faults, traces>>
\* cnss_wlfw_host_cap_send_sync
HostCap == SendOrStop("host_cap")

ServerArrive == Connect \/ IndRegister \/ HostCap

\* Mutant: the exit does not end.
ServerExit_StillDeleting ==
    /\ At("exit") /\ Go(TRUE)
    /\ connected' = FALSE /\ peer' = 0
    /\ wire' = IF "NEW" \in fw.sent /\ "DEL" \notin fw.sent THEN <<Message("NEW", <<>>)>> ELSE <<>>
    /\ UNCHANGED <<fwVars, lookup, del_server, events, bits, memVars, host, faults, traces>>

\* cnss_wlfw_server_exit: the handle is released with all that is under way to
\* it, and opened again, whereupon a server that is there is announced.
ServerExit ==
    /\ At("exit") /\ Go(TRUE)
    /\ connected' = FALSE /\ peer' = 0 /\ del_server' = FALSE
    /\ \/ /\ lookup' = TRUE /\ UNCHANGED faults
          /\ wire' = IF "NEW" \in fw.sent /\ "DEL" \notin fw.sent
                        THEN <<Message("NEW", <<>>)>> ELSE <<>>
       \/ lookup' = FALSE /\ wire' = <<>> /\ Fault
    /\ UNCHANGED <<fwVars, events, bits, memVars, host, traces>>

\* The first n segments: what is there stays as it is, whatever its size.
Allocated(n) ==
    [i \in Segs |-> IF i <= n /\ fw_mem.va[i] = 0 THEN fw_mem.segs[i] ELSE fw_mem.va[i]]

\* Mutant: the firmware is given what could be allocated.
AllocFwMem_BestEffort ==
    /\ At("alloc_fw_mem") /\ Go(TRUE)
    /\ \/ /\ fw_mem' = [fw_mem EXCEPT !.va = Allocated(Len(fw_mem.segs))]
          /\ UNCHANGED faults
       \/ \E n \in 0..Len(fw_mem.segs) - 1:
             /\ Fault
             /\ fw_mem' = [fw_mem EXCEPT !.segs = SubSeq(@, 1, n), !.va = Allocated(n)]
    /\ UNCHANGED <<fwVars, wire, linkVars, events, bits, m3_mem, qdss_mem, host, traces>>

\* cnss_pci_alloc_fw_mem: every segment that is not there from an earlier boot.
AllocFwMem ==
    /\ At("alloc_fw_mem")
    /\ \/ /\ Go(TRUE) /\ UNCHANGED faults
          /\ fw_mem' = [fw_mem EXCEPT !.va = Allocated(Len(fw_mem.segs))]
       \/ \E n \in 0..Len(fw_mem.segs) - 1:
             /\ fw_mem.va[n + 1] = 0
             /\ Go(FALSE) /\ Fault
             /\ fw_mem' = [fw_mem EXCEPT !.va = Allocated(n)]
    /\ UNCHANGED <<fwVars, wire, linkVars, events, bits, m3_mem, qdss_mem, host, traces>>

\* cnss_wlfw_respond_mem_send_sync: not with a segment that is missing.  The
\* address is that of what is there, the size is what is wanted now.
RespondMem ==
    /\ At("respond_mem")
    /\ \E ok \in BOOLEAN:
          /\ IF \A i \in DOMAIN fw_mem.segs: fw_mem.va[i] # 0
                THEN Request("respond_mem", ok)
                ELSE ~ok /\ UNCHANGED <<fw, faults>>
          /\ Go(ok)
    /\ UNCHANGED <<boot, wire, linkVars, events, bits, memVars, host, traces>>

\* The start of cnss_fw_mem_ready_hdlr.
FwMemReady ==
    /\ At("mem_ready") /\ Go(TRUE)
    /\ bits' = [bits EXCEPT !.mem_ready = TRUE]
    /\ UNCHANGED <<fwVars, wire, linkVars, events, memVars, host, faults, traces>>

\* cnss_wlfw_tgt_cap_send_sync
TgtCap == SendOrStop("tgt_cap")

\* The HDS and REGDB board data, the roaming ini and the QDSS configuration:
\* nobody minds whether they can be read and are accepted.
OptionalFiles(step) ==
    /\ At(step) /\ Go(TRUE)
    /\ UNCHANGED <<fwVars, wire, linkVars, events, bits, memVars, host, faults, traces>>
\* cnss_wlfw_ini_file_send_sync, and the optional board data
Files == OptionalFiles("files")
\* cnss_wlfw_qdss_dnld_send_sync
QdssDnld == OptionalFiles("qdss_cfg")

\* cnss_wlfw_bdf_dnld_send_sync
BdfDnld == SendOrStop("bdf")

\* cnss_pci_load_m3: once, for all boots.
LoadM3 ==
    /\ At("load_m3")
    /\ \/ Go(TRUE) /\ m3_mem' = TRUE /\ UNCHANGED faults
       \/ ~m3_mem /\ Go(FALSE) /\ Fault /\ UNCHANGED m3_mem
    /\ UNCHANGED <<fwVars, wire, linkVars, events, bits, fw_mem, qdss_mem, host, traces>>

\* cnss_wlfw_m3_dnld_send_sync
M3Dnld == m3_mem /\ SendOrStop("m3_info")

RequestMem == AllocFwMem \/ RespondMem
MemReady   == FwMemReady \/ TgtCap \/ Files \/ BdfDnld \/ LoadM3 \/ M3Dnld \/ QdssDnld

\* The start of cnss_fw_ready_hdlr.
FwReady ==
    /\ At("fw_ready") /\ Go(TRUE)
    /\ bits' = [bits EXCEPT !.ready = TRUE, !.dev_err = FALSE]
    /\ UNCHANGED <<fwVars, wire, linkVars, events, memVars, host, faults, traces>>

\* cnss_wlfw_send_pcie_gen_speed_sync: the speed is used once, whether the
\* firmware takes it or not.
GenSpeed ==
    /\ At("gen_speed") /\ Go(TRUE)
    /\ bits' = [bits EXCEPT !.gen_speed = FALSE]
    /\ UNCHANGED <<fwVars, wire, linkVars, events, memVars, host, faults, traces>>

\* cnss_setup_dms_mac: the modem may not have an address for WLAN.  The probe
\* overwrites its result.
SetupDmsMac ==
    /\ At("dms_mac") /\ Go(TRUE)
    /\ \/ \E ok \in BOOLEAN: Request("mac_addr", ok)
       \/ UNCHANGED <<fw, faults>>
    /\ UNCHANGED <<boot, wire, linkVars, events, bits, memVars, host, traces>>

\* What a device that is powered off leaves: cnss_pci_power_off_mhi and the end
\* of cnss_qca6290_shutdown.
PowerOff ==
    /\ fw' = NoFw
    /\ wire' = IF "NEW" \in fw.sent /\ "DEL" \notin fw.sent /\ lookup
                  THEN Append(wire, Message("DEL", <<>>)) ELSE wire

\* cnss_wlan_enable, called by the host driver's probe, and the end of
\* cnss_fw_ready_hdlr.  A failure shuts the device down, unless the firmware
\* has failed again.
ProbeStep(req, last) ==
    /\ At(req)
    /\ \E ok \in BOOLEAN:
          \/ /\ ok /\ Request(req, ok) /\ Go(TRUE)
             /\ host' = IF last THEN "up" ELSE host
             /\ bits' = [bits EXCEPT !.recovery = @ /\ ~last]
             /\ UNCHANGED wire
          \/ /\ ~ok /\ bits.dev_err /\ Request(req, ok) /\ Go(FALSE)
             /\ UNCHANGED <<wire, host, bits>>
          \/ /\ ~ok /\ ~bits.dev_err
             /\ (peer = boot /\ Accepts(req)) => faults < MaxFaults
             /\ faults' = IF peer = boot /\ Accepts(req) THEN faults + 1 ELSE faults
             /\ PowerOff /\ Go(FALSE)
             /\ bits' = [bits EXCEPT !.ready = FALSE, !.mem_ready = FALSE]
             /\ UNCHANGED host
    /\ UNCHANGED <<boot, linkVars, events, memVars, traces>>

\* cnss_wlfw_wlan_cfg_send_sync
WlanCfg == ProbeStep("wlan_cfg", FALSE)
\* Mutant: as for mode OFF, a failure is none.
WlanMode_FailureIsNone ==
    /\ At("wlan_mode") /\ Go(TRUE)
    /\ \E ok \in BOOLEAN: Request("wlan_mode", ok)
    /\ host' = "up"
    /\ bits' = [bits EXCEPT !.recovery = FALSE]
    /\ UNCHANGED <<boot, wire, linkVars, events, memVars, traces>>

\* cnss_wlfw_wlan_mode_send_sync
WlanMode == ProbeStep("wlan_mode", TRUE)

Ready == FwReady \/ GenSpeed \/ SetupDmsMac \/ WlanCfg \/ WlanMode

\* cnss_pci_alloc_qdss_mem: what cannot be allocated is done without.
AllocQdssMem ==
    /\ At("alloc_qdss_mem") /\ Go(TRUE)
    /\ \/ /\ UNCHANGED faults
          /\ qdss_mem' = [qdss_mem EXCEPT !.va = @ \cup 1..qdss_mem.len]
       \/ \E n \in 0..qdss_mem.len - 1:
             /\ n + 1 \notin qdss_mem.va /\ Fault
             /\ qdss_mem' = [len |-> n, va |-> qdss_mem.va \cup 1..n]
    /\ UNCHANGED <<fwVars, wire, linkVars, events, bits, fw_mem, m3_mem, host, traces>>

\* cnss_wlfw_qdss_trace_mem_info_send_sync
TraceMemInfo == SendOrStop("trace_mem")

NoTraceMem == [len |-> 0, va |-> qdss_mem.va \ 1..qdss_mem.len]

\* cnss_qdss_trace_free_hdlr, cnss_pci_free_qdss_mem
FreeQdssMem ==
    /\ At("free_qdss_mem") /\ Go(TRUE)
    /\ qdss_mem' = NoTraceMem
    /\ UNCHANGED <<fwVars, wire, linkVars, events, bits, fw_mem, m3_mem, host, faults, traces>>

QdssEvents == AllocQdssMem \/ TraceMemInfo \/ FreeQdssMem

\* The bus shutdown of a recovery, an unload or an idle shutdown.  A host driver
\* that is shut down disables WLAN, without a message to the firmware while a
\* recovery is on, which frees the trace memory.
Shutdown ==
    /\ At("shutdown") /\ Go(TRUE)
    /\ PowerOff
    /\ qdss_mem' = IF host = "none" THEN qdss_mem ELSE NoTraceMem
    /\ host' = "none"
    /\ bits' = [bits EXCEPT !.mem_ready = FALSE, !.ready = FALSE,
                            !.dev_err = IF host = "leaving" THEN FALSE ELSE @]
    /\ UNCHANGED <<boot, linkVars, events, fw_mem, m3_mem, faults, traces>>

\* The bus powers the device up, or fails to.
PowerUp ==
    /\ At("power_up") /\ Go(TRUE)
    /\ \/ /\ fw.state = "off" /\ boot < MaxBoots
          /\ fw' = [NoFw EXCEPT !.state = "up"] /\ boot' = boot + 1
          /\ UNCHANGED faults
       \/ Fault /\ UNCHANGED fwVars
       \/ (fw.state # "off" \/ boot = MaxBoots) /\ UNCHANGED <<fwVars, faults>>
    /\ UNCHANGED <<wire, linkVars, events, bits, memVars, host, traces>>

Worker ==
    \/ TakeEvent \/ ServerArrive \/ ServerExit \/ RequestMem \/ MemReady \/ Ready
    \/ QdssEvents \/ Shutdown \/ PowerUp

-----------------------------------------------------------------------------
(***************************************************************************)
(* The host driver and the user                                            *)
(***************************************************************************)

\* A message from another thread than the worker.
Send(req) ==
    /\ \E ok \in BOOLEAN: Request(req, ok)
    /\ UNCHANGED <<boot, wire, linkVars, worker, memVars, traces>>

\* cnss_wlan_disable sends mode OFF, unless a recovery is on; a failure is none.
WlanDisable ==
    /\ host = "up" /\ host' = "disabling"
    /\ IF bits.recovery
          THEN UNCHANGED <<fwVars, wire, linkVars, worker, memVars, faults, traces>>
          ELSE Send("mode_off")
    /\ UNCHANGED <<events, bits>>

\* ... and frees the trace memory.
WlanDisableFree ==
    /\ host = "disabling" /\ host' = "idle"
    /\ qdss_mem' = NoTraceMem
    /\ UNCHANGED <<fwVars, wire, linkVars, events, worker, bits, fw_mem, m3_mem, faults, traces>>

\* The host driver goes, or lets the device be shut down while it is idle.
Leave ==
    /\ host = "idle" /\ host' = "leaving"
    /\ Post("SHUTDOWN", 0)
    /\ UNCHANGED <<fwVars, wire, linkVars, worker, bits, memVars, traces>>

\* The host driver comes, or comes back, or tries again after a failure.
Come ==
    /\ host = "none" /\ fw.state = "off" /\ events = <<>> /\ worker = Resting /\ boot < MaxBoots
    /\ Post("POWER_UP", 0)
    /\ UNCHANGED <<fwVars, wire, linkVars, worker, bits, memVars, host, traces>>

\* cnss_set_pcie_gen_speed
SetGenSpeed ==
    /\ bits.gen_speed = FALSE /\ boot = 0
    /\ bits' = [bits EXCEPT !.gen_speed = TRUE]
    /\ UNCHANGED <<fwVars, wire, linkVars, events, worker, memVars, host, faults, traces>>

\* wlfw_qdss_trace_start, wlfw_qdss_trace_stop
TraceStart ==
    /\ traces < MaxTraces /\ traces' = traces + 1
    /\ ~fw.tracing
    /\ \E ok \in BOOLEAN: Request("trace_on", ok)
    /\ UNCHANGED <<boot, wire, linkVars, events, worker, bits, memVars, host>>
TraceStop ==
    /\ fw.tracing
    /\ Send("trace_off")
    /\ UNCHANGED <<events, bits, host>>

Host == WlanDisable \/ WlanDisableFree \/ Leave \/ Come \/ SetGenSpeed
User == TraceStart \/ TraceStop

-----------------------------------------------------------------------------
Init ==
    /\ fw = NoFw /\ boot = 0
    /\ wire = <<>> /\ events = <<>> /\ worker = Resting
    /\ lookup = TRUE /\ peer = 0 /\ connected = FALSE /\ del_server = FALSE
    /\ bits = [mem_ready |-> FALSE, ready |-> FALSE, dev_err |-> FALSE,
               recovery |-> FALSE, gen_speed |-> FALSE]
    /\ fw_mem = [segs |-> <<>>, va |-> [i \in Segs |-> 0], grown |-> {}]
    /\ qdss_mem = [len |-> 0, va |-> {}]
    /\ m3_mem = FALSE
    /\ host = "none" /\ faults = 0 /\ traces = 0

Next == Firmware \/ FwGone \/ Crash \/ QmiThread \/ Worker \/ Host \/ User

\* The firmware, the QMI thread and the worker go on; nothing else has to.
Spec == Init /\ [][Next]_vars /\ WF_vars(Firmware) /\ WF_vars(QmiThread) /\ WF_vars(Worker)

-----------------------------------------------------------------------------
(***************************************************************************)
(* Properties                                                              *)
(***************************************************************************)

Messages == [ind: Indications \cup {"QDSS_FREE"}, of: 0..MaxBoots, segs: Wanted]
Events   == [ev: DOMAIN Chain, of: 0..MaxBoots]
FwMemory == [segs: Wanted, va: [Segs -> Nat], grown: SUBSET Segs]
Memory   == [len: 0..MaxSegs, va: SUBSET Segs]
BitsType == [mem_ready: BOOLEAN, ready: BOOLEAN, dev_err: BOOLEAN,
             recovery: BOOLEAN, gen_speed: BOOLEAN]

\* Every variable has its type.
TypeOK ==
    /\ fw \in FwType /\ boot \in 0..MaxBoots
    /\ wire \in Seq(Messages)
    /\ lookup \in BOOLEAN /\ connected \in BOOLEAN /\ del_server \in BOOLEAN
    /\ peer \in 0..MaxBoots
    /\ events \in Seq(Events)
    /\ worker \in [steps: Seq(Steps), of: 0..MaxBoots]
    /\ bits \in BitsType
    /\ fw_mem \in FwMemory /\ qdss_mem \in Memory
    /\ m3_mem \in BOOLEAN
    /\ host \in {"none", "up", "disabling", "idle", "leaving"}
    /\ faults \in 0..MaxFaults /\ traces \in 0..MaxTraces

\* The memory a firmware that is up was given is there, whatever allocation
\* failed and whichever boot an indication came from: the segments it was
\* answered with, and M3 once it was told of it.
MemoryIsThere ==
    fw.state = "up" =>
       /\ \A i \in DOMAIN fw.mem: fw_mem.va[i] # 0
       /\ fw.accepted >= 5 => m3_mem

\* It is the memory it asked for in this boot, and each segment is as large as
\* it was told, unless it is one of an earlier boot, which asked for less; and the
\* trace memory, if no allocation of it failed, stays while WLAN is enabled and
\* the firmware has it.  None of the trace memory outlives its request, so that
\* it never has another size than the one asked for.
MemoryIsBacked ==
    /\ MemoryIsThere
    /\ fw.state = "up" =>
          /\ fw.accepted >= 3 => fw.mem = fw.asked
          /\ \A i \in DOMAIN fw.mem: fw.mem[i] <= fw_mem.va[i] \/ i \in fw_mem.grown
          /\ host = "up" /\ faults = 0 => fw.traceMem \subseteq qdss_mem.va
    /\ qdss_mem.va \subseteq 1..qdss_mem.len

\* A server never arrives while another is connected: the assertion in
\* cnss_wlfw_server_arrive (qmi.c:3018) is never hit.
ArrivesOnce == ~(At("connect") /\ connected)

\* The host driver is up only on a firmware that went through the whole
\* handshake in this boot and is in the mode asked for, or has died since.
HostIsServed == host = "up" => fw.state = "dead" \/ fw.accepted = 7

\* A firmware that is up is brought to serve the host, unless it dies, is
\* powered off or something fails: no event of an earlier boot and no order of
\* the server's announcements makes the driver lose it.
HandshakeCompletes ==
    (fw.state = "up" /\ faults = 0) ~> (host # "none" \/ fw.state # "up" \/ faults > 0)
=============================================================================
