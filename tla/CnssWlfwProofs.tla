----------------------------- MODULE CnssWlfwProofs -----------------------------
(***************************************************************************)
(* Proofs about the WLFW client of cnss2, for any number of boots, faults, *)
(* segments and traces.                                                    *)
(*                                                                         *)
(* A server that arrives finds no other connected (Server): between two    *)
(* arrivals on the wire there is an exit, an arrival that is received      *)
(* while an exit is pending is ignored, and the queue keeps their order.   *)
(* The firmware is never answered with memory that is not there             *)
(* (MemoryIsThere), because nothing but the unload frees it.  And a host   *)
(* driver is there only for the firmware of this boot, because nothing of  *)
(* an earlier boot is left behind the announcement of its server, and what *)
(* a firmware asks for once is in one place (Served).  Hence it is given   *)
(* what it asked for in this boot, and its trace memory is requested,      *)
(* given and freed in turn (Backed); and what it is given is as large as   *)
(* it was told, except for a segment of an earlier boot that was           *)
(* smaller, which is not allocated again (Kept).                           *)
(***************************************************************************)
EXTENDS CnssWlfw, TLAPS

-----------------------------------------------------------------------------
(***************************************************************************)
(* The inductive invariant                                                 *)
(***************************************************************************)

Arrives(i) == events[i].ev = "SERVER_ARRIVE"
Exits(i)   == events[i].ev = "SERVER_EXIT"

\* A server is connected, or will be.
Known == connected \/ At("connect") \/ \E i \in DOMAIN events : Arrives(i)

\* Only the first step of a chain connects to a server or disconnects from it.
FirstSteps == \A i \in DOMAIN worker.steps : i > 1 => worker.steps[i] \notin {"connect", "exit"}

OneArrival ==
    /\ \A i, j \in DOMAIN events : Arrives(i) /\ Arrives(j) => i = j
    /\ ~(connected /\ At("connect"))
    /\ connected \/ At("connect") => \A i \in DOMAIN events : ~Arrives(i)

OneExit ==
    /\ \A i, j \in DOMAIN events : Exits(i) /\ Exits(j) => i = j
    /\ At("exit") => del_server /\ \A i \in DOMAIN events : ~Exits(i) /\ ~Arrives(i)
    /\ \A i, j \in DOMAIN events : Exits(i) => del_server /\ (Arrives(j) => j < i)

News(i) == wire[i].ind = "NEW"
Dels(i) == wire[i].ind = "DEL"

\* Between two arrivals on the wire there is an exit; before the first one;
\* after the last one.
DelBetween ==
    \A i, j \in DOMAIN wire : News(i) /\ News(j) /\ i < j =>
       \E k \in DOMAIN wire : Dels(k) /\ i < k /\ k < j
DelFirst == \A i \in DOMAIN wire : News(i) => \E k \in DOMAIN wire : Dels(k) /\ k < i
DelLast  == \A i \in DOMAIN wire : News(i) => \E k \in DOMAIN wire : Dels(k) /\ i < k
SomeDel  == \E k \in DOMAIN wire : Dels(k)

\* A server that is known and whose exit was not received is gone before the
\* next one arrives.
Alternate == DelBetween /\ (Known /\ ~del_server => DelFirst)

\* While there is no server, all that were there have gone.
Gone ==
    lookup /\ ("NEW" \notin fw.sent \/ "DEL" \in fw.sent) =>
        DelLast /\ (Known /\ ~del_server => SomeDel)

FwIsWhole ==
    /\ "DEL" \in fw.sent => "NEW" \in fw.sent
    /\ fw.state = "off" => fw = NoFw

Server == FirstSteps /\ OneArrival /\ OneExit /\ Alternate /\ Gone /\ FwIsWhole

IInv == TypeOK /\ MemoryIsThere /\ Server

\* What most steps leave of this alone.
NoServer == {"NEW", "DEL"}
NoServerEvent == {"SERVER_ARRIVE", "SERVER_EXIT"}
FwAside ==
    /\ "NEW" \in fw'.sent <=> "NEW" \in fw.sent
    /\ "DEL" \in fw'.sent <=> "DEL" \in fw.sent
    /\ fw'.state = "off" => fw' = fw
EventsAside ==
    \/ UNCHANGED events
    \/ \E ev \in DOMAIN Chain \ NoServerEvent, n \in 0..MaxBoots :
          events' = Append(events, [ev |-> ev, of |-> n])
WireAside ==
    \/ UNCHANGED wire
    \/ \E m \in Messages : m.ind \notin NoServer /\ wire' = Append(wire, m)
WorkerAside ==
    \/ UNCHANGED worker
    \/ /\ worker.steps # <<>> /\ ~At("connect") /\ ~At("exit")
       /\ \E ok \in BOOLEAN : Go(ok)
Aside ==
    /\ UNCHANGED <<lookup, connected, del_server>>
    /\ EventsAside /\ WorkerAside
    /\ (FwAside /\ WireAside) \/ PowerOff

-----------------------------------------------------------------------------
(***************************************************************************)
(* Helpers                                                                 *)
(***************************************************************************)

\* Sequences, for events and messages alike.
LEMMA Appended ==
    ASSUME NEW S, NEW q \in Seq(S), NEW e \in S
    PROVE  /\ Append(q, e) \in Seq(S) /\ Len(q) \in Nat
           /\ DOMAIN q = 1..Len(q) /\ DOMAIN Append(q, e) = 1..Len(q) + 1
           /\ \A i \in DOMAIN q : Append(q, e)[i] = q[i]
           /\ Append(q, e)[Len(q) + 1] = e
  OBVIOUS

LEMMA Taken ==
    ASSUME NEW S, NEW q \in Seq(S), q # <<>>
    PROVE  /\ Head(q) \in S /\ Head(q) = q[1] /\ Tail(q) \in Seq(S)
           /\ Len(q) \in Nat \ {0} /\ 1 \in DOMAIN q
           /\ DOMAIN q = 1..Len(q) /\ DOMAIN Tail(q) = 1..Len(q) - 1
           /\ \A i \in DOMAIN Tail(q) : Tail(q)[i] = q[i + 1] /\ i + 1 \in DOMAIN q
  OBVIOUS

LEMMA ChainSteps ==
    \A ev \in DOMAIN Chain :
       /\ Chain[ev] \in Seq(Steps) /\ Chain[ev] # <<>>
       /\ Head(Chain[ev]) = "connect" <=> ev = "SERVER_ARRIVE"
       /\ Head(Chain[ev]) = "exit" <=> ev = "SERVER_EXIT"
       /\ \A i \in DOMAIN Chain[ev] : i > 1 => Chain[ev][i] \notin {"connect", "exit"}
  <1> TAKE ev \in DOMAIN Chain
  <1>1. DOMAIN Chain = {"SERVER_ARRIVE", "SERVER_EXIT", "REQUEST_MEM", "FW_MEM_READY", "FW_READY",
                        "QDSS_TRACE_REQ_MEM", "QDSS_TRACE_FREE", "RECOVERY", "SHUTDOWN", "POWER_UP"}
    BY DEF Chain
  <1>2. \A i \in DOMAIN Chain[ev] : Chain[ev][i] \in Steps
    BY DEF Steps
  <1>3. CASE ev = "SERVER_ARRIVE"
    <2>1. Chain[ev] = <<"connect", "ind_register", "host_cap">>
      BY <1>3 DEF Chain
    <2> QED
      BY <1>2, <1>3, <2>1
  <1>4. CASE ev = "SERVER_EXIT"
    <2>1. Chain[ev] = <<"exit">>
      BY <1>4 DEF Chain
    <2> QED
      BY <1>2, <1>4, <2>1
  <1>5. CASE ev = "REQUEST_MEM"
    <2>1. Chain[ev] = <<"alloc_fw_mem", "respond_mem">>
      BY <1>5 DEF Chain
    <2> QED
      BY <1>2, <1>5, <2>1
  <1>6. CASE ev = "FW_MEM_READY"
    <2>1. Chain[ev] = <<"mem_ready", "tgt_cap", "files", "bdf", "load_m3", "m3_info", "qdss_cfg">>
      BY <1>6 DEF Chain
    <2> QED
      BY <1>2, <1>6, <2>1
  <1>7. CASE ev = "FW_READY"
    <2>1. Chain[ev] = <<"fw_ready", "gen_speed", "dms_mac", "wlan_cfg", "wlan_mode">>
      BY <1>7 DEF Chain
    <2> QED
      BY <1>2, <1>7, <2>1
  <1>8. CASE ev = "QDSS_TRACE_REQ_MEM"
    <2>1. Chain[ev] = <<"alloc_qdss_mem", "trace_mem">>
      BY <1>8 DEF Chain
    <2> QED
      BY <1>2, <1>8, <2>1
  <1>9. CASE ev = "QDSS_TRACE_FREE"
    <2>1. Chain[ev] = <<"free_qdss_mem">>
      BY <1>9 DEF Chain
    <2> QED
      BY <1>2, <1>9, <2>1
  <1>10. CASE ev = "RECOVERY"
    <2>1. Chain[ev] = <<"shutdown", "power_up">>
      BY <1>10 DEF Chain
    <2> QED
      BY <1>2, <1>10, <2>1
  <1>11. CASE ev = "SHUTDOWN"
    <2>1. Chain[ev] = <<"shutdown">>
      BY <1>11 DEF Chain
    <2> QED
      BY <1>2, <1>11, <2>1
  <1>12. CASE ev = "POWER_UP"
    <2>1. Chain[ev] = <<"power_up">>
      BY <1>12 DEF Chain
    <2> QED
      BY <1>2, <1>12, <2>1
  <1> QED
    BY <1>1, <1>3, <1>4, <1>5, <1>6, <1>7, <1>8, <1>9, <1>10, <1>11, <1>12

\* Where the worker stands after a step, and after it took an event.
LEMMA GoKeeps ==
    ASSUME TypeOK, FirstSteps, NEW ok \in BOOLEAN, worker.steps # <<>>, Go(ok)
    PROVE  /\ worker' \in [steps : Seq(Steps), of : 0..MaxBoots] /\ FirstSteps'
           /\ ~At("connect")' /\ ~At("exit")'
  <1>1. /\ worker \in [steps : Seq(Steps), of : 0..MaxBoots]
        /\ Resting \in [steps : Seq(Steps), of : 0..MaxBoots]
    <2>1. <<>> \in Seq(Steps) /\ 0 \in 0..MaxBoots
      BY WlfwAssumption
    <2> QED
      BY <2>1 DEF TypeOK, Resting
  <1>2. CASE worker' = Resting
    BY <1>1, <1>2 DEF Resting, FirstSteps, At
  <1>3. CASE worker' # Resting
    <2>1. Len(worker.steps) > 1 /\ worker' = [worker EXCEPT !.steps = Tail(@)]
      BY <1>3 DEF Go
    <2>2. worker.steps \in Seq(Steps) /\ worker'.steps = Tail(worker.steps)
      BY <1>1, <2>1
    <2>3. /\ Tail(worker.steps) \in Seq(Steps) /\ Len(worker.steps) \in Nat
          /\ DOMAIN Tail(worker.steps) = 1..Len(worker.steps) - 1
          /\ \A i \in DOMAIN Tail(worker.steps) :
                Tail(worker.steps)[i] = worker.steps[i + 1] /\ i + 1 \in DOMAIN worker.steps
      BY <2>2, Taken
    <2>4. worker' \in [steps : Seq(Steps), of : 0..MaxBoots]
      BY <1>1, <2>1, <2>3
    <2>5. \A i \in DOMAIN worker'.steps : worker'.steps[i] \notin {"connect", "exit"}
      BY <2>2, <2>3 DEF FirstSteps
    <2>6. worker'.steps # <<>> => 1 \in DOMAIN worker'.steps /\ Head(worker'.steps) = worker'.steps[1]
      BY <2>2, <2>3
    <2> QED
      BY <2>4, <2>5, <2>6 DEF FirstSteps, At
  <1> QED
    BY <1>2, <1>3

\* The answer of the firmware.
LEMMA RequestKeeps ==
    ASSUME TypeOK, NEW req \in DOMAIN WaitsFor, NEW ok \in BOOLEAN, Request(req, ok)
    PROVE  /\ fw' \in FwType /\ faults' \in 0..MaxFaults
           /\ FwAside /\ fw'.state = fw.state
           /\ fw'.mem = fw.mem \/ (req = "respond_mem" /\ fw'.mem = fw_mem.segs)
           /\ fw'.accepted >= 5 => fw.accepted >= 5 \/ req = "m3_info"
  <1>1. DOMAIN WaitsFor = {"ind_register", "host_cap", "respond_mem", "tgt_cap", "bdf", "m3_info",
                           "wlan_cfg", "wlan_mode", "mac_addr", "mode_off", "trace_on",
                           "trace_off", "trace_mem"}
    BY DEF WaitsFor
  <1>2. /\ DOMAIN Protocol = {"ind_register", "host_cap", "respond_mem", "bdf", "m3_info",
                              "wlan_cfg", "wlan_mode"}
        /\ \A r \in DOMAIN Protocol : Protocol[r] \in 1..7
        /\ \A r \in DOMAIN Protocol : Protocol[r] = 5 <=> r = "m3_info"
    BY DEF Protocol
  <1>3. faults' \in 0..MaxFaults
    BY WlfwAssumption DEF Request, Fault, TypeOK
  <1>4. fw' = fw \/ (fw' = Done(req) /\ Accepts(req))
    BY DEF Request
  <1>5. CASE fw' = fw
    BY <1>3, <1>5 DEF FwAside, TypeOK
  <1>6. CASE fw' = Done(req) /\ Accepts(req)
    <2> DEFINE accepted == CASE req = "mode_off" /\ fw.accepted = 7 -> 5
                             [] req \in DOMAIN Protocol /\ Protocol[req] > fw.accepted -> Protocol[req]
                             [] OTHER -> fw.accepted
               mem == IF req = "respond_mem" THEN fw_mem.segs ELSE fw.mem
               tracing == CASE req = "trace_on" -> TRUE
                            [] req \in {"trace_off", "mode_off"} -> FALSE
                            [] OTHER -> fw.tracing
               traceMem == CASE req = "trace_mem" -> 1..qdss_mem.len
                             [] req = "mode_off" -> {}
                             [] OTHER -> fw.traceMem
               sent == IF req \in {"trace_off", "mode_off"} THEN fw.sent \ {"QDSS_REQ_MEM"} ELSE fw.sent
    <2>1. fw \in FwType /\ fw_mem.segs \in Wanted /\ qdss_mem.len \in 0..MaxSegs
      BY DEF TypeOK, Memory, FwMemory
    <2>2. fw' = [state |-> fw.state, accepted |-> accepted, sent |-> sent, asked |-> fw.asked,
                 mem |-> mem, tracing |-> tracing, traceMem |-> traceMem]
      BY <1>6, <2>1 DEF Done, FwType
    <2>3. accepted \in 0..7 /\ (accepted >= 5 => fw.accepted >= 5 \/ req = "m3_info")
      <3>1. fw.accepted \in 0..7 /\ (req \in DOMAIN Protocol => Protocol[req] <= fw.accepted + 1)
        BY <1>6, <2>1 DEF Accepts, FwType
      <3>2. CASE req = "mode_off" /\ fw.accepted = 7
        BY <1>2, <3>1, <3>2
      <3>3. CASE req \in DOMAIN Protocol /\ Protocol[req] > fw.accepted
        <4>1. req # "mode_off" /\ Protocol[req] \in 1..7
          BY <1>2, <3>3
        <4>2. accepted = Protocol[req]
          BY <3>3, <4>1
        <4> QED
          BY <1>2, <3>1, <3>3, <4>1, <4>2
      <3>4. CASE accepted = fw.accepted
        BY <3>1, <3>4
      <3> HIDE DEF accepted
      <3> QED
        BY <3>2, <3>3, <3>4 DEF accepted
    <2>4. mem \in Wanted /\ tracing \in BOOLEAN /\ traceMem \in SUBSET Segs
      <3>1. 1..qdss_mem.len \in SUBSET Segs
        BY <2>1, WlfwAssumption DEF Segs
      <3>2. fw.mem \in Wanted /\ fw.tracing \in BOOLEAN /\ fw.traceMem \in SUBSET Segs
        BY <2>1 DEF FwType
      <3>3. mem \in Wanted
        BY <2>1, <3>2
      <3>4. tracing \in BOOLEAN
        BY <3>2
      <3>5. traceMem \in SUBSET Segs
        BY <3>1, <3>2
      <3> QED
        BY <3>3, <3>4, <3>5
    <2>5. sent \in SUBSET Indications /\ ("NEW" \in sent <=> "NEW" \in fw.sent)
          /\ ("DEL" \in sent <=> "DEL" \in fw.sent)
      BY <2>1 DEF FwType
    <2> HIDE DEF accepted, mem, tracing, traceMem, sent
    <2>6. fw' \in FwType
      BY <2>1, <2>2, <2>3, <2>4, <2>5 DEF FwType
    <2>7. fw.state = "up" /\ fw'.state = "up"
      BY <1>6, <2>2 DEF Accepts
    <2> QED
      BY <1>3, <2>2, <2>3, <2>5, <2>6, <2>7 DEF FwAside, mem
  <1> QED
    BY <1>4, <1>5, <1>6

\* An event that is posted, or lost.
LEMMA PostKeeps ==
    ASSUME TypeOK, NEW ev \in DOMAIN Chain, NEW of \in 0..MaxBoots, Post(ev, of)
    PROVE  /\ events' \in Seq(Events) /\ faults' \in 0..MaxFaults
           /\ ev \notin NoServerEvent => EventsAside
  <1>1. events \in Seq(Events) /\ faults \in 0..MaxFaults /\ [ev |-> ev, of |-> of] \in Events
    BY DEF TypeOK, Events
  <1>2. CASE events' = Append(events, [ev |-> ev, of |-> of]) /\ UNCHANGED faults
    BY <1>1, <1>2, Appended DEF EventsAside
  <1>3. CASE Fault /\ UNCHANGED events
    BY <1>1, <1>3, WlfwAssumption DEF Fault, EventsAside
  <1> QED
    BY <1>2, <1>3 DEF Post

\* The worker goes on from a step that has nothing to do with the server.
LEMMA StepAside ==
    ASSUME TypeOK, FirstSteps, NEW step \in Steps \ {"connect", "exit"}, At(step),
           NEW ok \in BOOLEAN, Go(ok)
    PROVE  worker' \in [steps : Seq(Steps), of : 0..MaxBoots] /\ WorkerAside
  <1>1. worker.steps # <<>> /\ ~At("connect") /\ ~At("exit")
    BY DEF At
  <1> QED
    BY <1>1, GoKeeps DEF WorkerAside

LEMMA AllSteps ==
    {"connect", "ind_register", "host_cap", "exit", "alloc_fw_mem", "respond_mem",
             "mem_ready", "tgt_cap", "files", "bdf", "load_m3", "m3_info", "qdss_cfg", "fw_ready",
             "gen_speed", "dms_mac", "wlan_cfg", "wlan_mode", "alloc_qdss_mem", "trace_mem",
     "free_qdss_mem", "shutdown", "power_up"} \subseteq Steps
  <1>1. {"connect", "ind_register", "host_cap"} \subseteq Steps
    <2>1. /\ "SERVER_ARRIVE" \in DOMAIN Chain
          /\ Chain["SERVER_ARRIVE"] = <<"connect", "ind_register", "host_cap">>
      BY DEF Chain
    <2> QED
      <3>1. /\ Chain["SERVER_ARRIVE"][1] = "connect" /\ Chain["SERVER_ARRIVE"][2] = "ind_register"
            /\ Chain["SERVER_ARRIVE"][3] = "host_cap"
        BY <2>1
      <3>2. DOMAIN Chain["SERVER_ARRIVE"] = 1..3
        BY <2>1
      <3> QED
        BY <2>1, <3>1, <3>2 DEF Steps
  <1>2. {"exit"} \subseteq Steps
    <2>1. "SERVER_EXIT" \in DOMAIN Chain /\ Chain["SERVER_EXIT"] = <<"exit">>
      BY DEF Chain
    <2> QED
      <3>1. Chain["SERVER_EXIT"][1] = "exit"
        BY <2>1
      <3>2. DOMAIN Chain["SERVER_EXIT"] = 1..1
        BY <2>1
      <3> QED
        BY <2>1, <3>1, <3>2 DEF Steps
  <1>3. {"alloc_fw_mem", "respond_mem"} \subseteq Steps
    <2>1. "REQUEST_MEM" \in DOMAIN Chain /\ Chain["REQUEST_MEM"] = <<"alloc_fw_mem", "respond_mem">>
      BY DEF Chain
    <2> QED
      <3>1. Chain["REQUEST_MEM"][1] = "alloc_fw_mem" /\ Chain["REQUEST_MEM"][2] = "respond_mem"
        BY <2>1
      <3>2. DOMAIN Chain["REQUEST_MEM"] = 1..2
        BY <2>1
      <3> QED
        BY <2>1, <3>1, <3>2 DEF Steps
  <1>4. {"mem_ready", "tgt_cap", "files", "bdf", "load_m3", "m3_info", "qdss_cfg"} \subseteq Steps
    <2>1. /\ "FW_MEM_READY" \in DOMAIN Chain
          /\ Chain["FW_MEM_READY"] = <<"mem_ready", "tgt_cap", "files", "bdf", "load_m3", "m3_info",
                 "qdss_cfg">>
      BY DEF Chain
    <2> QED
      <3>1. /\ Chain["FW_MEM_READY"][1] = "mem_ready" /\ Chain["FW_MEM_READY"][2] = "tgt_cap"
            /\ Chain["FW_MEM_READY"][3] = "files" /\ Chain["FW_MEM_READY"][4] = "bdf"
            /\ Chain["FW_MEM_READY"][5] = "load_m3" /\ Chain["FW_MEM_READY"][6] = "m3_info"
            /\ Chain["FW_MEM_READY"][7] = "qdss_cfg"
        BY <2>1
      <3>2. DOMAIN Chain["FW_MEM_READY"] = 1..7
        BY <2>1
      <3> QED
        BY <2>1, <3>1, <3>2 DEF Steps
  <1>5. {"fw_ready", "gen_speed", "dms_mac", "wlan_cfg", "wlan_mode"} \subseteq Steps
    <2>1. /\ "FW_READY" \in DOMAIN Chain
          /\ Chain["FW_READY"] = <<"fw_ready", "gen_speed", "dms_mac", "wlan_cfg", "wlan_mode">>
      BY DEF Chain
    <2> QED
      <3>1. /\ Chain["FW_READY"][1] = "fw_ready" /\ Chain["FW_READY"][2] = "gen_speed"
            /\ Chain["FW_READY"][3] = "dms_mac" /\ Chain["FW_READY"][4] = "wlan_cfg"
            /\ Chain["FW_READY"][5] = "wlan_mode"
        BY <2>1
      <3>2. DOMAIN Chain["FW_READY"] = 1..5
        BY <2>1
      <3> QED
        BY <2>1, <3>1, <3>2 DEF Steps
  <1>6. {"alloc_qdss_mem", "trace_mem"} \subseteq Steps
    <2>1. /\ "QDSS_TRACE_REQ_MEM" \in DOMAIN Chain
          /\ Chain["QDSS_TRACE_REQ_MEM"] = <<"alloc_qdss_mem", "trace_mem">>
      BY DEF Chain
    <2> QED
      <3>1. /\ Chain["QDSS_TRACE_REQ_MEM"][1] = "alloc_qdss_mem"
            /\ Chain["QDSS_TRACE_REQ_MEM"][2] = "trace_mem"
        BY <2>1
      <3>2. DOMAIN Chain["QDSS_TRACE_REQ_MEM"] = 1..2
        BY <2>1
      <3> QED
        BY <2>1, <3>1, <3>2 DEF Steps
  <1>7. {"free_qdss_mem"} \subseteq Steps
    <2>1. "QDSS_TRACE_FREE" \in DOMAIN Chain /\ Chain["QDSS_TRACE_FREE"] = <<"free_qdss_mem">>
      BY DEF Chain
    <2> QED
      <3>1. Chain["QDSS_TRACE_FREE"][1] = "free_qdss_mem"
        BY <2>1
      <3>2. DOMAIN Chain["QDSS_TRACE_FREE"] = 1..1
        BY <2>1
      <3> QED
        BY <2>1, <3>1, <3>2 DEF Steps
  <1>8. {"shutdown", "power_up"} \subseteq Steps
    <2>1. "RECOVERY" \in DOMAIN Chain /\ Chain["RECOVERY"] = <<"shutdown", "power_up">>
      BY DEF Chain
    <2> QED
      <3>1. Chain["RECOVERY"][1] = "shutdown" /\ Chain["RECOVERY"][2] = "power_up"
        BY <2>1
      <3>2. DOMAIN Chain["RECOVERY"] = 1..2
        BY <2>1
      <3> QED
        BY <2>1, <3>1, <3>2 DEF Steps
  <1>9. {"shutdown"} \subseteq Steps
    <2>1. "SHUTDOWN" \in DOMAIN Chain /\ Chain["SHUTDOWN"] = <<"shutdown">>
      BY DEF Chain
    <2> QED
      <3>1. Chain["SHUTDOWN"][1] = "shutdown"
        BY <2>1
      <3>2. DOMAIN Chain["SHUTDOWN"] = 1..1
        BY <2>1
      <3> QED
        BY <2>1, <3>1, <3>2 DEF Steps
  <1>10. {"power_up"} \subseteq Steps
    <2>1. "POWER_UP" \in DOMAIN Chain /\ Chain["POWER_UP"] = <<"power_up">>
      BY DEF Chain
    <2> QED
      <3>1. Chain["POWER_UP"][1] = "power_up"
        BY <2>1
      <3>2. DOMAIN Chain["POWER_UP"] = 1..1
        BY <2>1
      <3> QED
        BY <2>1, <3>1, <3>2 DEF Steps
  <1> QED
    BY <1>1, <1>2, <1>3, <1>4, <1>5, <1>6, <1>7, <1>8, <1>9, <1>10


\* Memory that was given stays.
LEMMA MemoryStays ==
    ASSUME MemoryIsThere, \A i \in DOMAIN fw.mem : fw_mem.va[i] # 0 => fw_mem'.va[i] # 0,
           m3_mem => m3_mem',
           fw'.state = "up" => /\ fw.state = "up" /\ fw'.mem = fw.mem
                               /\ fw'.accepted >= 5 => fw.accepted >= 5
    PROVE  MemoryIsThere'
  BY DEF MemoryIsThere

\* What a device that is powered off leaves.
LEMMA PowerOffKeeps ==
    ASSUME TypeOK, PowerOff
    PROVE  fw' \in FwType /\ wire' \in Seq(Messages) /\ MemoryIsThere'
  <1>1. fw' = NoFw /\ NoFw \in FwType /\ NoFw.state = "off"
    BY WlfwAssumption DEF PowerOff, NoFw, FwType, Wanted
  <1>2. Message("DEL", <<>>) \in Messages /\ wire \in Seq(Messages)
    BY WlfwAssumption DEF TypeOK, Message, Messages, Indications, Wanted
  <1>3. wire' \in Seq(Messages)
    BY <1>2, Appended DEF PowerOff
  <1> QED
    BY <1>1, <1>3 DEF MemoryIsThere

LEMMA FwStays == TypeOK /\ UNCHANGED fw => FwAside /\ fw' \in FwType
  BY DEF FwAside, TypeOK

\* A record of bits in which one is changed.
LEMMA BitsKeep ==
    ASSUME TypeOK
    PROVE  \A b \in BOOLEAN :
              /\ [bits EXCEPT !.mem_ready = b] \in BitsType
              /\ [bits EXCEPT !.recovery = b] \in BitsType
              /\ [bits EXCEPT !.gen_speed = b] \in BitsType
              /\ [bits EXCEPT !.ready = TRUE, !.dev_err = FALSE] \in BitsType
              /\ [bits EXCEPT !.dev_err = TRUE, !.recovery = TRUE] \in BitsType
              /\ [bits EXCEPT !.ready = FALSE, !.mem_ready = FALSE] \in BitsType
              /\ [bits EXCEPT !.mem_ready = FALSE, !.ready = FALSE, !.dev_err = b] \in BitsType
  BY DEF TypeOK, BitsType

-----------------------------------------------------------------------------
(***************************************************************************)
(* The steps that leave the server alone                                   *)
(***************************************************************************)

\* A request of the worker.
LEMMA SendOrStopAside ==
    ASSUME IInv, NEW req \in (DOMAIN WaitsFor \cap Steps) \ {"respond_mem"}, SendOrStop(req),
           req = "m3_info" => m3_mem
    PROVE  TypeOK' /\ MemoryIsThere' /\ Aside
  <1>1. PICK ok \in BOOLEAN : Request(req, ok) /\ Go(ok) /\ At(req)
    BY DEF SendOrStop
  <1>2. req \in Steps \ {"connect", "exit"}
    BY DEF WaitsFor
  <1>3. worker' \in [steps : Seq(Steps), of : 0..MaxBoots] /\ WorkerAside
    BY <1>1, <1>2, StepAside DEF IInv, Server
  <1>4. /\ fw' \in FwType /\ faults' \in 0..MaxFaults /\ FwAside /\ fw'.state = fw.state
        /\ fw'.mem = fw.mem /\ (fw'.accepted >= 5 => fw.accepted >= 5 \/ req = "m3_info")
    BY <1>1, RequestKeeps DEF IInv
  <1>5. UNCHANGED <<boot, wire, linkVars, events, bits, memVars, host, traces>>
    BY DEF SendOrStop
  <1>6. MemoryIsThere'
    BY <1>4, <1>5 DEF IInv, MemoryIsThere, memVars
  <1>7. TypeOK'
    BY <1>3, <1>4, <1>5 DEF IInv, TypeOK, linkVars, memVars
  <1> QED
    BY <1>3, <1>4, <1>5, <1>6, <1>7 DEF Aside, EventsAside, WireAside, linkVars

\* A step of the probe.
LEMMA ProbeStepAside ==
    ASSUME IInv, NEW req \in {"wlan_cfg", "wlan_mode"}, NEW last \in BOOLEAN, ProbeStep(req, last)
    PROVE  TypeOK' /\ MemoryIsThere' /\ Aside
  <1>1. At(req) /\ req \in Steps \ {"connect", "exit"} /\ req \in DOMAIN WaitsFor
    BY AllSteps DEF ProbeStep, WaitsFor
  <1>2. UNCHANGED <<boot, linkVars, events, memVars, traces>>
    BY DEF ProbeStep
  <1>3. PICK ok \in BOOLEAN :
          \/ /\ ok /\ Request(req, ok) /\ Go(TRUE)
             /\ host' = IF last THEN "up" ELSE host
             /\ bits' = [bits EXCEPT !.recovery = @ /\ ~last]
             /\ UNCHANGED wire
          \/ /\ ~ok /\ bits.dev_err /\ Request(req, ok) /\ Go(FALSE)
             /\ UNCHANGED <<wire, host, bits>>
          \/ /\ ~ok /\ ~bits.dev_err
             /\ (peer = boot /\ Accepts(req)) => faults < MaxFaults
             /\ faults' = IF peer = boot /\ Accepts(req) THEN faults + 1 ELSE faults
             /\ PowerOff /\ Go(FALSE)
             /\ bits' = [bits EXCEPT !.ready = FALSE, !.mem_ready = FALSE]
             /\ UNCHANGED host
    BY DEF ProbeStep
  <1>4. worker' \in [steps : Seq(Steps), of : 0..MaxBoots] /\ WorkerAside
    BY <1>1, <1>3, StepAside DEF IInv, Server
  <1>5. bits' \in BitsType /\ host' \in {"none", "up", "disabling", "idle", "leaving"}
    <2>1. bits \in BitsType /\ bits.recovery \in BOOLEAN
      BY DEF IInv, TypeOK, BitsType
    <2> QED
      BY <1>3, <2>1, BitsKeep DEF IInv, TypeOK
  <1>6. CASE Request(req, ok) /\ UNCHANGED wire
    <2>1. /\ fw' \in FwType /\ faults' \in 0..MaxFaults /\ FwAside /\ fw'.state = fw.state
          /\ fw'.mem = fw.mem /\ (fw'.accepted >= 5 => fw.accepted >= 5)
      BY <1>6, RequestKeeps, <1>1 DEF IInv
    <2>2. MemoryIsThere'
      BY <1>2, <2>1, MemoryStays DEF IInv, memVars
    <2>3. TypeOK'
      BY <1>2, <1>4, <1>5, <1>6, <2>1 DEF IInv, TypeOK, linkVars, memVars, BitsType
    <2> QED
      BY <1>2, <1>4, <1>6, <2>1, <2>2, <2>3 DEF Aside, EventsAside, WireAside, linkVars
  <1>7. CASE PowerOff /\ faults' \in {faults, faults + 1} /\ faults' <= MaxFaults
    <2>1. fw' \in FwType /\ wire' \in Seq(Messages) /\ MemoryIsThere'
      BY <1>7, PowerOffKeeps DEF IInv
    <2>2. TypeOK'
      BY <1>2, <1>4, <1>5, <1>7, <2>1 DEF IInv, TypeOK, linkVars, memVars, BitsType
    <2> QED
      BY <1>2, <1>4, <1>7, <2>1, <2>2 DEF Aside, EventsAside, linkVars
  <1>8. CASE /\ PowerOff /\ ((peer = boot /\ Accepts(req)) => faults < MaxFaults)
             /\ faults' = IF peer = boot /\ Accepts(req) THEN faults + 1 ELSE faults
    <2>1. faults \in 0..MaxFaults /\ MaxFaults \in Nat
      BY WlfwAssumption DEF IInv, TypeOK
    <2>2. CASE peer = boot /\ Accepts(req)
      BY <1>7, <1>8, <2>1, <2>2
    <2>3. CASE ~(peer = boot /\ Accepts(req))
      BY <1>7, <1>8, <2>1, <2>3
    <2> QED
      BY <2>2, <2>3
  <1> QED
    BY <1>3, <1>6, <1>8

LEMMA FaultKeeps == TypeOK /\ Fault => faults' \in 0..MaxFaults
  BY WlfwAssumption DEF TypeOK, Fault

\* What may be wanted, and what is then allocated.
LEMMA WantedFacts ==
    /\ <<>> \in Wanted /\ DOMAIN <<>> = {}
    /\ \A s \in Wanted : /\ s \in Seq(Nat \ {0}) /\ Len(s) \in 0..MaxSegs
                          /\ DOMAIN s = 1..Len(s) /\ DOMAIN s \subseteq Segs
                          /\ \A i \in DOMAIN s : s[i] \in Nat \ {0}
  <1>1. <<>> \in Seq(Nat \ {0}) /\ Len(<<>>) = 0 /\ DOMAIN <<>> = {}
    OBVIOUS
  <1> SUFFICES ASSUME NEW s \in Wanted
               PROVE  /\ s \in Seq(Nat \ {0}) /\ Len(s) \in 0..MaxSegs
                      /\ DOMAIN s = 1..Len(s) /\ DOMAIN s \subseteq Segs
                      /\ \A i \in DOMAIN s : s[i] \in Nat \ {0}
    BY <1>1 DEF Wanted
  <1>2. s \in Seq(Nat \ {0}) /\ Len(s) \in 0..MaxSegs
    <2>1. CASE s = <<>>
      <3>1. 0 \in 0..MaxSegs
        BY WlfwAssumption
      <3> QED
        BY <1>1, <2>1, <3>1
    <2>2. CASE s \in Requests
      <3>1. s \in Seq(Nat \ {0}) /\ Len(s) \in 1..MaxSegs
        BY <2>2, WlfwAssumption
      <3> QED
        BY <3>1
    <2> QED
      BY <2>1, <2>2 DEF Wanted
  <1>3. DOMAIN s = 1..Len(s) /\ \A i \in DOMAIN s : s[i] \in Nat \ {0}
    BY <1>2
  <1> QED
    BY <1>2, <1>3, WlfwAssumption DEF Segs

LEMMA AllocatedFacts ==
    ASSUME fw_mem \in FwMemory, NEW n \in 0..Len(fw_mem.segs)
    PROVE  /\ [fw_mem EXCEPT !.va = Allocated(n)] \in FwMemory
           /\ [fw_mem EXCEPT !.va = Allocated(n)].segs = fw_mem.segs
           /\ [fw_mem EXCEPT !.va = Allocated(n)].grown = fw_mem.grown
           /\ [fw_mem EXCEPT !.va = Allocated(n)].va = Allocated(n)
           /\ \A i \in Segs : /\ fw_mem.va[i] # 0 => Allocated(n)[i] = fw_mem.va[i]
                              /\ fw_mem.va[i] = 0 => Allocated(n)[i] \in {0, fw_mem.segs[i]}
  <1>1. /\ fw_mem.segs \in Wanted /\ fw_mem.va \in [Segs -> Nat]
        /\ DOMAIN fw_mem.segs = 1..Len(fw_mem.segs) /\ Len(fw_mem.segs) \in Nat
        /\ \A i \in DOMAIN fw_mem.segs : fw_mem.segs[i] \in Nat
    BY WantedFacts DEF FwMemory
  <1>2. \A i \in Segs : i <= n => i \in DOMAIN fw_mem.segs
    BY <1>1 DEF Segs
  <1>3. Allocated(n) \in [Segs -> Nat]
    BY <1>1, <1>2 DEF Allocated
  <1> QED
    BY <1>1, <1>3 DEF FwMemory, Allocated

LEMMA MemoryGrows ==
    ASSUME NEW m \in Memory, NEW n \in 0..MaxSegs
    PROVE  /\ [m EXCEPT !.va = @ \cup 1..n] \in Memory
           /\ m.va \subseteq [m EXCEPT !.va = @ \cup 1..n].va
           /\ [len |-> n, va |-> m.va \cup 1..n] \in Memory
  <1>1. 1..n \subseteq Segs
    BY WlfwAssumption DEF Segs
  <1> QED
    BY <1>1 DEF Memory

LEMMA NoTraceKeeps == TypeOK => NoTraceMem \in Memory
  BY WlfwAssumption DEF TypeOK, NoTraceMem, Memory

\* The worker.
LEMMA WorkerSteps ==
    ASSUME IInv,
           \/ FwMemReady \/ FwReady \/ GenSpeed \/ OptionalFiles("files")
           \/ OptionalFiles("qdss_cfg") \/ AllocFwMem \/ LoadM3 \/ SetupDmsMac
           \/ RespondMem \/ AllocQdssMem \/ FreeQdssMem \/ Shutdown
           \/ PowerUp \/ SendOrStop("tgt_cap") \/ SendOrStop("bdf") \/ IndRegister
           \/ SendOrStop("host_cap") \/ SendOrStop("trace_mem")
           \/ (m3_mem /\ SendOrStop("m3_info")) \/ (WlanCfg \/ WlanMode)
    PROVE  TypeOK' /\ MemoryIsThere' /\ Aside
  <1>1. CASE FwMemReady
    <2>1. worker' \in [steps : Seq(Steps), of : 0..MaxBoots] /\ WorkerAside
      BY <1>1, StepAside, AllSteps DEF FwMemReady, IInv, Server
    <2>2. FwAside /\ fw' \in FwType
      BY <1>1, FwStays DEF FwMemReady, IInv, fwVars
    <2>3. bits' \in BitsType
      BY <1>1, BitsKeep DEF FwMemReady, IInv
    <2>4. MemoryIsThere'
      BY <1>1, <2>1, <2>2, <2>3, MemoryStays DEF FwMemReady, IInv, linkVars, memVars, fwVars
    <2>5. TypeOK'
      BY <1>1, <2>1, <2>2, <2>3 DEF FwMemReady, IInv, TypeOK, linkVars, memVars, fwVars
    <2> QED
      BY <1>1, <2>1, <2>2, <2>3, <2>4, <2>5 DEF FwMemReady, Aside, EventsAside, WireAside,
         linkVars, memVars, fwVars
  <1>2. CASE FwReady
    <2>1. worker' \in [steps : Seq(Steps), of : 0..MaxBoots] /\ WorkerAside
      BY <1>2, StepAside, AllSteps DEF FwReady, IInv, Server
    <2>2. FwAside /\ fw' \in FwType
      BY <1>2, FwStays DEF FwReady, IInv, fwVars
    <2>3. bits' \in BitsType
      BY <1>2, BitsKeep DEF FwReady, IInv
    <2>4. MemoryIsThere'
      BY <1>2, <2>1, <2>2, <2>3, MemoryStays DEF FwReady, IInv, linkVars, memVars, fwVars
    <2>5. TypeOK'
      BY <1>2, <2>1, <2>2, <2>3 DEF FwReady, IInv, TypeOK, linkVars, memVars, fwVars
    <2> QED
      BY <1>2, <2>1, <2>2, <2>3, <2>4, <2>5 DEF FwReady, Aside, EventsAside, WireAside,
         linkVars, memVars, fwVars
  <1>3. CASE GenSpeed
    <2>1. worker' \in [steps : Seq(Steps), of : 0..MaxBoots] /\ WorkerAside
      BY <1>3, StepAside, AllSteps DEF GenSpeed, IInv, Server
    <2>2. FwAside /\ fw' \in FwType
      BY <1>3, FwStays DEF GenSpeed, IInv, fwVars
    <2>3. bits' \in BitsType
      BY <1>3, BitsKeep DEF GenSpeed, IInv
    <2>4. MemoryIsThere'
      BY <1>3, <2>1, <2>2, <2>3, MemoryStays DEF GenSpeed, IInv, linkVars, memVars, fwVars
    <2>5. TypeOK'
      BY <1>3, <2>1, <2>2, <2>3 DEF GenSpeed, IInv, TypeOK, linkVars, memVars, fwVars
    <2> QED
      BY <1>3, <2>1, <2>2, <2>3, <2>4, <2>5 DEF GenSpeed, Aside, EventsAside, WireAside,
         linkVars, memVars, fwVars
  <1>4. CASE OptionalFiles("files")
    <2>1. worker' \in [steps : Seq(Steps), of : 0..MaxBoots] /\ WorkerAside
      BY <1>4, StepAside, AllSteps DEF OptionalFiles, IInv, Server
    <2>2. FwAside /\ fw' \in FwType
      BY <1>4, FwStays DEF OptionalFiles, IInv, fwVars
    <2>3. MemoryIsThere'
      BY <1>4, <2>1, <2>2, MemoryStays DEF OptionalFiles, IInv, linkVars, memVars, fwVars
    <2>4. TypeOK'
      BY <1>4, <2>1, <2>2 DEF OptionalFiles, IInv, TypeOK, linkVars, memVars, fwVars
    <2> QED
      BY <1>4, <2>1, <2>2, <2>3, <2>4 DEF OptionalFiles, Aside, EventsAside, WireAside,
         linkVars, memVars, fwVars
  <1>5. CASE OptionalFiles("qdss_cfg")
    <2>1. worker' \in [steps : Seq(Steps), of : 0..MaxBoots] /\ WorkerAside
      BY <1>5, StepAside, AllSteps DEF OptionalFiles, IInv, Server
    <2>2. FwAside /\ fw' \in FwType
      BY <1>5, FwStays DEF OptionalFiles, IInv, fwVars
    <2>3. MemoryIsThere'
      BY <1>5, <2>1, <2>2, MemoryStays DEF OptionalFiles, IInv, linkVars, memVars, fwVars
    <2>4. TypeOK'
      BY <1>5, <2>1, <2>2 DEF OptionalFiles, IInv, TypeOK, linkVars, memVars, fwVars
    <2> QED
      BY <1>5, <2>1, <2>2, <2>3, <2>4 DEF OptionalFiles, Aside, EventsAside, WireAside,
         linkVars, memVars, fwVars
  <1>6. CASE AllocFwMem
    <2>1. worker' \in [steps : Seq(Steps), of : 0..MaxBoots] /\ WorkerAside
      BY <1>6, StepAside, AllSteps DEF AllocFwMem, IInv, Server
    <2>2. FwAside /\ fw' \in FwType
      BY <1>6, FwStays DEF AllocFwMem, IInv, fwVars
    <2>3. fw_mem \in FwMemory /\ fw.mem \in Wanted
      BY DEF IInv, TypeOK, FwType
    <2>4. faults' \in 0..MaxFaults
      BY <1>6, FaultKeeps DEF AllocFwMem, IInv, TypeOK
    <2>5. Len(fw_mem.segs) \in Nat /\ DOMAIN fw.mem \subseteq Segs
      BY <2>3, WantedFacts DEF FwMemory
    <2>6. PICK n \in 0..Len(fw_mem.segs) : fw_mem' = [fw_mem EXCEPT !.va = Allocated(n)]
      <3>1. /\ Len(fw_mem.segs) \in 0..Len(fw_mem.segs)
            /\ 0..Len(fw_mem.segs) - 1 \subseteq 0..Len(fw_mem.segs)
        BY <2>5
      <3> QED
        BY <1>6, <3>1, Zenon DEF AllocFwMem
    <2>7. fw_mem' \in FwMemory /\ \A i \in DOMAIN fw.mem : fw_mem.va[i] # 0 => fw_mem'.va[i] # 0
      BY <2>3, <2>5, <2>6, AllocatedFacts
    <2>8. MemoryIsThere'
      BY <1>6, <2>1, <2>2, <2>3, <2>4, <2>5, <2>6, <2>7, MemoryStays DEF AllocFwMem, IInv,
         linkVars, memVars, fwVars
    <2>9. TypeOK'
      BY <1>6, <2>1, <2>2, <2>3, <2>4, <2>5, <2>6, <2>7 DEF AllocFwMem, IInv, TypeOK,
         linkVars, memVars, fwVars
    <2> QED
      BY <1>6, <2>1, <2>2, <2>3, <2>4, <2>5, <2>6, <2>7, <2>8, <2>9 DEF AllocFwMem, Aside,
         EventsAside, WireAside, linkVars, memVars, fwVars
  <1>7. CASE LoadM3
    <2>1. worker' \in [steps : Seq(Steps), of : 0..MaxBoots] /\ WorkerAside
      BY <1>7, StepAside, AllSteps DEF LoadM3, IInv, Server
    <2>2. FwAside /\ fw' \in FwType
      BY <1>7, FwStays DEF LoadM3, IInv, fwVars
    <2>3. faults' \in 0..MaxFaults
      BY <1>7, FaultKeeps DEF LoadM3, IInv, TypeOK
    <2>4. MemoryIsThere'
      BY <1>7, <2>1, <2>2, <2>3, MemoryStays DEF LoadM3, IInv, linkVars, memVars, fwVars
    <2>5. TypeOK'
      BY <1>7, <2>1, <2>2, <2>3 DEF LoadM3, IInv, TypeOK, linkVars, memVars, fwVars
    <2> QED
      BY <1>7, <2>1, <2>2, <2>3, <2>4, <2>5 DEF LoadM3, Aside, EventsAside, WireAside,
         linkVars, memVars, fwVars
  <1>8. CASE SetupDmsMac
    <2>1. worker' \in [steps : Seq(Steps), of : 0..MaxBoots] /\ WorkerAside
      BY <1>8, StepAside, AllSteps DEF SetupDmsMac, IInv, Server
    <2>2. "mac_addr" \in DOMAIN WaitsFor
      BY <1>8 DEF SetupDmsMac, IInv, WaitsFor
    <2>3. /\ fw' \in FwType /\ faults' \in 0..MaxFaults /\ FwAside /\ fw'.state = fw.state
          /\ fw'.mem = fw.mem /\ (fw'.accepted >= 5 => fw.accepted >= 5)
      BY <1>8, <2>2, RequestKeeps, FwStays DEF SetupDmsMac, IInv, TypeOK
    <2>4. MemoryIsThere'
      BY <1>8, <2>1, <2>2, <2>3, MemoryStays DEF SetupDmsMac, IInv, linkVars, memVars,
         fwVars
    <2>5. TypeOK'
      BY <1>8, <2>1, <2>2, <2>3 DEF SetupDmsMac, IInv, TypeOK, linkVars, memVars, fwVars
    <2> QED
      BY <1>8, <2>1, <2>2, <2>3, <2>4, <2>5 DEF SetupDmsMac, Aside, EventsAside, WireAside,
         linkVars, memVars, fwVars
  <1>9. CASE RespondMem
    <2>1. worker' \in [steps : Seq(Steps), of : 0..MaxBoots] /\ WorkerAside
      BY <1>9, StepAside, AllSteps DEF RespondMem, IInv, Server
    <2>2. "respond_mem" \in DOMAIN WaitsFor
      BY <1>9 DEF RespondMem, IInv, WaitsFor
    <2>3. /\ fw' \in FwType /\ faults' \in 0..MaxFaults /\ FwAside /\ fw'.state = fw.state
          /\ \/ fw'.mem = fw.mem
             \/ fw'.mem = fw_mem.segs /\ \A i \in DOMAIN fw_mem.segs : fw_mem.va[i] # 0
          /\ (fw'.accepted >= 5 => fw.accepted >= 5)
      BY <1>9, <2>2, RequestKeeps, FwStays DEF RespondMem, IInv, TypeOK
    <2>4. MemoryIsThere'
      BY <1>9, <2>1, <2>2, <2>3 DEF RespondMem, IInv, linkVars, memVars, fwVars,
         MemoryIsThere
    <2>5. TypeOK'
      BY <1>9, <2>1, <2>2, <2>3 DEF RespondMem, IInv, TypeOK, linkVars, memVars, fwVars
    <2> QED
      BY <1>9, <2>1, <2>2, <2>3, <2>4, <2>5 DEF RespondMem, Aside, EventsAside, WireAside,
         linkVars, memVars, fwVars
  <1>10. CASE AllocQdssMem
    <2>1. worker' \in [steps : Seq(Steps), of : 0..MaxBoots] /\ WorkerAside
      BY <1>10, StepAside, AllSteps DEF AllocQdssMem, IInv, Server
    <2>2. FwAside /\ fw' \in FwType
      BY <1>10, FwStays DEF AllocQdssMem, IInv, fwVars
    <2>3. qdss_mem \in Memory /\ qdss_mem.len \in 0..MaxSegs
      BY <1>10 DEF AllocQdssMem, IInv, TypeOK, Memory
    <2>4. faults' \in 0..MaxFaults
      BY <1>10, FaultKeeps DEF AllocQdssMem, IInv, TypeOK
    <2>5. qdss_mem.len \in 0..MaxSegs /\ 0..qdss_mem.len - 1 \subseteq 0..MaxSegs
      BY <1>10, <2>3, WlfwAssumption DEF AllocQdssMem, IInv
    <2>6. PICK n \in 0..MaxSegs : \/ qdss_mem' = [qdss_mem EXCEPT !.va = @ \cup 1..n]
                                 \/ qdss_mem' = [len |-> n, va |-> qdss_mem.va \cup 1..n]
      BY <1>10, <2>5 DEF AllocQdssMem, IInv
    <2>7. qdss_mem' \in Memory
      <3>1. CASE qdss_mem' = [qdss_mem EXCEPT !.va = @ \cup 1..n]
        BY <2>3, <3>1, MemoryGrows
      <3>2. CASE qdss_mem' = [len |-> n, va |-> qdss_mem.va \cup 1..n]
        BY <2>3, <3>2, MemoryGrows
      <3> QED
        BY <2>6, <3>1, <3>2
    <2>8. MemoryIsThere'
      BY <1>10, <2>1, <2>2, <2>3, <2>4, <2>5, <2>6, <2>7, MemoryStays DEF AllocQdssMem,
         IInv, linkVars, memVars, fwVars
    <2>9. TypeOK'
      BY <1>10, <2>1, <2>2, <2>3, <2>4, <2>5, <2>6, <2>7 DEF AllocQdssMem, IInv, TypeOK,
         linkVars, memVars, fwVars
    <2> QED
      BY <1>10, <2>1, <2>2, <2>3, <2>4, <2>5, <2>6, <2>7, <2>8, <2>9 DEF AllocQdssMem,
         Aside, EventsAside, WireAside, linkVars, memVars, fwVars
  <1>11. CASE FreeQdssMem
    <2>1. worker' \in [steps : Seq(Steps), of : 0..MaxBoots] /\ WorkerAside
      BY <1>11, StepAside, AllSteps DEF FreeQdssMem, IInv, Server
    <2>2. FwAside /\ fw' \in FwType
      BY <1>11, FwStays DEF FreeQdssMem, IInv, fwVars
    <2>3. NoTraceMem \in Memory
      BY <1>11, NoTraceKeeps DEF FreeQdssMem, IInv
    <2>4. MemoryIsThere'
      BY <1>11, <2>1, <2>2, <2>3, MemoryStays DEF FreeQdssMem, IInv, linkVars, memVars,
         fwVars
    <2>5. TypeOK'
      BY <1>11, <2>1, <2>2, <2>3 DEF FreeQdssMem, IInv, TypeOK, linkVars, memVars, fwVars
    <2> QED
      BY <1>11, <2>1, <2>2, <2>3, <2>4, <2>5 DEF FreeQdssMem, Aside, EventsAside, WireAside,
         linkVars, memVars, fwVars
  <1>12. CASE Shutdown
    <2>1. worker' \in [steps : Seq(Steps), of : 0..MaxBoots] /\ WorkerAside
      BY <1>12, StepAside, AllSteps DEF Shutdown, IInv, Server
    <2>2. PowerOff /\ fw' \in FwType /\ wire' \in Seq(Messages) /\ MemoryIsThere'
      BY <1>12, PowerOffKeeps DEF Shutdown, IInv
    <2>3. qdss_mem' \in Memory /\ host' = "none"
      BY <1>12, NoTraceKeeps DEF Shutdown, IInv, TypeOK
    <2>4. bits' \in BitsType
      BY <1>12, BitsKeep DEF Shutdown, IInv, TypeOK, BitsType
    <2>5. MemoryIsThere'
      BY <1>12, <2>1, <2>2, <2>3, <2>4 DEF Shutdown, IInv, linkVars, memVars, fwVars
    <2>6. TypeOK'
      BY <1>12, <2>1, <2>2, <2>3, <2>4 DEF Shutdown, IInv, TypeOK, linkVars, memVars, fwVars
    <2> QED
      BY <1>12, <2>1, <2>2, <2>3, <2>4, <2>5, <2>6 DEF Shutdown, Aside, EventsAside,
         WireAside, linkVars, memVars, fwVars
  <1>13. CASE PowerUp
    <2>1. worker' \in [steps : Seq(Steps), of : 0..MaxBoots] /\ WorkerAside
      BY <1>13, StepAside, AllSteps DEF PowerUp, IInv, Server
    <2>2. (UNCHANGED faults \/ Fault) /\ faults \in 0..MaxFaults /\ faults' \in 0..MaxFaults
      BY <1>13, FaultKeeps DEF PowerUp, IInv, TypeOK
    <2>3. boot \in 0..MaxBoots /\ (boot' = boot \/ (boot < MaxBoots /\ boot' = boot + 1))
      BY <1>13 DEF PowerUp, IInv, TypeOK, fwVars
    <2>4. boot' \in 0..MaxBoots
      BY <1>13, <2>3, WlfwAssumption DEF PowerUp, IInv
    <2>5. NoFw.sent = {} /\ NoFw.state = "off" /\ NoFw.mem = <<>> /\ NoFw.accepted = 0 /\ NoFw \in FwType
      BY <1>13, WlfwAssumption DEF PowerUp, IInv, NoFw, FwType, Wanted
    <2>6. /\ [NoFw EXCEPT !.state = "up"] \in FwType /\ [NoFw EXCEPT !.state = "up"].mem = <<>>
          /\ [NoFw EXCEPT !.state = "up"].accepted = 0 /\ [NoFw EXCEPT !.state = "up"].sent = {}
          /\ [NoFw EXCEPT !.state = "up"].state = "up"
      BY <1>13, <2>5 DEF PowerUp, IInv, FwType, NoFw
    <2>7. fw' \in FwType /\ FwAside
      BY <1>13, <2>5, <2>6, FwStays DEF PowerUp, IInv, FwAside, Server, FwIsWhole, fwVars,
         TypeOK
    <2>8. fw' = fw \/ (fw'.mem = <<>> /\ fw'.accepted = 0)
      BY <1>13, <2>6 DEF PowerUp, IInv, fwVars
    <2>9. DOMAIN <<>> = {}
      BY WantedFacts
    <2>10. MemoryIsThere'
      BY <1>13, <2>1, <2>2, <2>3, <2>4, <2>5, <2>6, <2>7, <2>8, <2>9 DEF PowerUp, IInv,
         linkVars, memVars, fwVars, MemoryIsThere
    <2>11. TypeOK'
      BY <1>13, <2>1, <2>2, <2>3, <2>4, <2>5, <2>6, <2>7, <2>8, <2>9 DEF PowerUp, IInv,
         TypeOK, linkVars, memVars, fwVars
    <2> QED
      BY <1>13, <2>1, <2>2, <2>3, <2>4, <2>5, <2>6, <2>7, <2>8, <2>9, <2>10, <2>11 DEF
         PowerUp, Aside, EventsAside, WireAside, linkVars, memVars, fwVars
  <1>14. CASE SendOrStop("tgt_cap")
    BY <1>14, SendOrStopAside, AllSteps DEF WaitsFor
  <1>15. CASE SendOrStop("bdf")
    BY <1>15, SendOrStopAside, AllSteps DEF WaitsFor
  <1>16. CASE IndRegister
    <2>1. CASE SendOrStop("ind_register")
      BY <2>1, SendOrStopAside, AllSteps DEF WaitsFor
    <2>2. CASE ~SendOrStop("ind_register")
      <3>1. /\ At("ind_register") /\ Go(FALSE)
            /\ UNCHANGED <<fwVars, wire, linkVars, events, bits, memVars, host, faults, traces>>
        BY <1>16, <2>2 DEF IndRegister
      <3>2. worker' \in [steps : Seq(Steps), of : 0..MaxBoots] /\ WorkerAside
        BY <3>1, StepAside, AllSteps DEF IInv, Server
      <3>3. FwAside /\ fw' \in FwType
        BY <3>1, FwStays DEF IInv, fwVars
      <3>4. MemoryIsThere'
        BY <3>1, MemoryStays DEF IInv, memVars, fwVars
      <3>5. TypeOK'
        BY <3>1, <3>2, <3>3 DEF IInv, TypeOK, linkVars, memVars, fwVars
      <3> QED
        BY <3>1, <3>2, <3>3, <3>4, <3>5 DEF Aside, EventsAside, WireAside, linkVars
    <2> QED
      BY <2>1, <2>2
  <1>17. CASE SendOrStop("host_cap")
    BY <1>17, SendOrStopAside, AllSteps DEF WaitsFor
  <1>18. CASE SendOrStop("trace_mem")
    BY <1>18, SendOrStopAside, AllSteps DEF WaitsFor
  <1>19. CASE m3_mem /\ SendOrStop("m3_info")
    BY <1>19, SendOrStopAside, AllSteps DEF WaitsFor
  <1>20. CASE WlanCfg \/ WlanMode
    BY <1>20, ProbeStepAside DEF WlanCfg, WlanMode
  <1> QED
    BY <1>1, <1>2, <1>3, <1>4, <1>5, <1>6, <1>7, <1>8, <1>9, <1>10, <1>11, <1>12, <1>13,
       <1>14, <1>15, <1>16, <1>17, <1>18, <1>19, <1>20

LEMMA FwIndicateKeeps ==
    ASSUME TypeOK, NEW ind \in (Indications \cup {"QDSS_FREE"}) \ NoServer, NEW segs \in Wanted,
           FwIndicate(ind, segs)
    PROVE  /\ fw' \in FwType /\ FwAside /\ fw'.state = fw.state
           /\ fw'.mem = fw.mem /\ fw'.accepted = fw.accepted
  <1>1. fw \in FwType /\ fw.state = "up"
    BY DEF TypeOK, FwIndicate, Due
  <1>2. fw' = [fw EXCEPT !.sent = IF ind = "QDSS_FREE" THEN @ ELSE @ \cup {ind},
                         !.asked = IF ind = "REQUEST_MEM" THEN segs ELSE @,
                         !.traceMem = IF ind = "QDSS_FREE" THEN {} ELSE @]
    BY DEF FwIndicate
  <1>3. /\ (IF ind = "QDSS_FREE" THEN fw.sent ELSE fw.sent \cup {ind}) \in SUBSET Indications
        /\ (IF ind = "REQUEST_MEM" THEN segs ELSE fw.asked) \in Wanted
        /\ (IF ind = "QDSS_FREE" THEN {} ELSE fw.traceMem) \in SUBSET Segs
    BY <1>1 DEF FwType
  <1>4. fw' \in FwType
    BY <1>1, <1>2, <1>3 DEF FwType
  <1>5. fw'.sent = IF ind = "QDSS_FREE" THEN fw.sent ELSE fw.sent \cup {ind}
    BY <1>1, <1>2 DEF FwType
  <1> QED
    BY <1>1, <1>2, <1>4, <1>5 DEF FwAside, NoServer, FwType

\* The host driver, the user, the firmware's indications and its crash.
LEMMA OtherSteps ==
    ASSUME IInv,
           \/ WlanDisable
           \/ WlanDisableFree
           \/ Leave
           \/ Come
           \/ SetGenSpeed
           \/ TraceStart
           \/ TraceStop
           \/ Crash
           \/ \E segs \in Requests: FwIndicate("REQUEST_MEM", segs) \/ FwIndicate("QDSS_REQ_MEM", segs)
           \/ \E ind \in {"FW_MEM_READY", "FW_INIT_DONE", "QDSS_FREE"}: FwIndicate(ind, <<>>)
    PROVE  TypeOK' /\ MemoryIsThere' /\ Aside
  <1>1. CASE WlanDisable
    <2>1. "mode_off" \in DOMAIN WaitsFor
      BY <1>1 DEF WlanDisable, IInv, WaitsFor
    <2>2. /\ fw' \in FwType /\ faults' \in 0..MaxFaults /\ FwAside /\ fw'.state = fw.state
          /\ fw'.mem = fw.mem /\ (fw'.accepted >= 5 => fw.accepted >= 5)
      BY <1>1, <2>1, RequestKeeps, FwStays DEF WlanDisable, IInv, Send, TypeOK, fwVars
    <2>3. MemoryIsThere'
      BY <1>1, <2>1, <2>2, MemoryStays DEF WlanDisable, IInv, linkVars, memVars, fwVars,
         Send
    <2>4. TypeOK'
      BY <1>1, <2>1, <2>2 DEF WlanDisable, IInv, TypeOK, linkVars, memVars, fwVars, Send
    <2> QED
      BY <1>1, <2>1, <2>2, <2>3, <2>4 DEF WlanDisable, Send, Aside, EventsAside, WireAside,
         WorkerAside, linkVars, memVars, fwVars
  <1>2. CASE WlanDisableFree
    <2>1. FwAside /\ fw' \in FwType
      BY <1>2, FwStays DEF WlanDisableFree, IInv, fwVars
    <2>2. NoTraceMem \in Memory
      BY <1>2, NoTraceKeeps DEF WlanDisableFree, IInv
    <2>3. MemoryIsThere'
      BY <1>2, <2>1, <2>2, MemoryStays DEF WlanDisableFree, IInv, linkVars, memVars, fwVars
    <2>4. TypeOK'
      BY <1>2, <2>1, <2>2 DEF WlanDisableFree, IInv, TypeOK, linkVars, memVars, fwVars
    <2> QED
      BY <1>2, <2>1, <2>2, <2>3, <2>4 DEF WlanDisableFree, Aside, EventsAside, WireAside,
         WorkerAside, linkVars, memVars, fwVars
  <1>3. CASE Leave
    <2>1. "SHUTDOWN" \in DOMAIN Chain /\ 0 \in 0..MaxBoots /\ "SHUTDOWN" \notin NoServerEvent
      BY <1>3, WlfwAssumption DEF Leave, IInv, Chain, NoServerEvent
    <2>2. events' \in Seq(Events) /\ faults' \in 0..MaxFaults /\ EventsAside
      BY <1>3, <2>1, PostKeeps DEF Leave, IInv
    <2>3. FwAside /\ fw' \in FwType
      BY <1>3, FwStays DEF Leave, IInv, fwVars
    <2>4. MemoryIsThere'
      BY <1>3, <2>1, <2>2, <2>3, MemoryStays DEF Leave, IInv, linkVars, memVars, fwVars
    <2>5. TypeOK'
      BY <1>3, <2>1, <2>2, <2>3 DEF Leave, IInv, TypeOK, linkVars, memVars, fwVars
    <2> QED
      BY <1>3, <2>1, <2>2, <2>3, <2>4, <2>5 DEF Leave, Aside, EventsAside, WireAside,
         WorkerAside, linkVars, memVars, fwVars
  <1>4. CASE Come
    <2>1. "POWER_UP" \in DOMAIN Chain /\ 0 \in 0..MaxBoots /\ "POWER_UP" \notin NoServerEvent
      BY <1>4, WlfwAssumption DEF Come, IInv, Chain, NoServerEvent
    <2>2. events' \in Seq(Events) /\ faults' \in 0..MaxFaults /\ EventsAside
      BY <1>4, <2>1, PostKeeps DEF Come, IInv
    <2>3. FwAside /\ fw' \in FwType
      BY <1>4, FwStays DEF Come, IInv, fwVars
    <2>4. MemoryIsThere'
      BY <1>4, <2>1, <2>2, <2>3, MemoryStays DEF Come, IInv, linkVars, memVars, fwVars
    <2>5. TypeOK'
      BY <1>4, <2>1, <2>2, <2>3 DEF Come, IInv, TypeOK, linkVars, memVars, fwVars
    <2> QED
      BY <1>4, <2>1, <2>2, <2>3, <2>4, <2>5 DEF Come, Aside, EventsAside, WireAside,
         WorkerAside, linkVars, memVars, fwVars
  <1>5. CASE SetGenSpeed
    <2>1. FwAside /\ fw' \in FwType
      BY <1>5, FwStays DEF SetGenSpeed, IInv, fwVars
    <2>2. bits' \in BitsType
      BY <1>5, BitsKeep DEF SetGenSpeed, IInv
    <2>3. MemoryIsThere'
      BY <1>5, <2>1, <2>2, MemoryStays DEF SetGenSpeed, IInv, linkVars, memVars, fwVars
    <2>4. TypeOK'
      BY <1>5, <2>1, <2>2 DEF SetGenSpeed, IInv, TypeOK, linkVars, memVars, fwVars
    <2> QED
      BY <1>5, <2>1, <2>2, <2>3, <2>4 DEF SetGenSpeed, Aside, EventsAside, WireAside,
         WorkerAside, linkVars, memVars, fwVars
  <1>6. CASE TraceStart
    <2>1. "trace_on" \in DOMAIN WaitsFor
      BY <1>6 DEF TraceStart, IInv, WaitsFor
    <2>2. /\ fw' \in FwType /\ faults' \in 0..MaxFaults /\ FwAside /\ fw'.state = fw.state
          /\ fw'.mem = fw.mem /\ (fw'.accepted >= 5 => fw.accepted >= 5)
      BY <1>6, <2>1, RequestKeeps, FwStays DEF TraceStart, IInv, Send, TypeOK, fwVars
    <2>3. traces' \in 0..MaxTraces
      BY <1>6, WlfwAssumption DEF TraceStart, IInv, TypeOK
    <2>4. MemoryIsThere'
      BY <1>6, <2>1, <2>2, <2>3, MemoryStays DEF TraceStart, IInv, linkVars, memVars, fwVars
    <2>5. TypeOK'
      BY <1>6, <2>1, <2>2, <2>3 DEF TraceStart, IInv, TypeOK, linkVars, memVars, fwVars
    <2> QED
      BY <1>6, <2>1, <2>2, <2>3, <2>4, <2>5 DEF TraceStart, Aside, EventsAside, WireAside,
         WorkerAside, linkVars, memVars, fwVars
  <1>7. CASE TraceStop
    <2>1. "trace_off" \in DOMAIN WaitsFor
      BY <1>7 DEF TraceStop, IInv, WaitsFor
    <2>2. /\ fw' \in FwType /\ faults' \in 0..MaxFaults /\ FwAside /\ fw'.state = fw.state
          /\ fw'.mem = fw.mem /\ (fw'.accepted >= 5 => fw.accepted >= 5)
      BY <1>7, <2>1, RequestKeeps, FwStays DEF TraceStop, IInv, Send, TypeOK, fwVars
    <2>3. MemoryIsThere'
      BY <1>7, <2>1, <2>2, MemoryStays DEF TraceStop, IInv, linkVars, memVars, fwVars, Send
    <2>4. TypeOK'
      BY <1>7, <2>1, <2>2 DEF TraceStop, IInv, TypeOK, linkVars, memVars, fwVars, Send
    <2> QED
      BY <1>7, <2>1, <2>2, <2>3, <2>4 DEF TraceStop, Send, Aside, EventsAside, WireAside,
         WorkerAside, linkVars, memVars, fwVars
  <1>8. CASE Crash
    <2>1. "RECOVERY" \in DOMAIN Chain /\ 0 \in 0..MaxBoots /\ "RECOVERY" \notin NoServerEvent
      BY <1>8, WlfwAssumption DEF Crash, IInv, Chain, NoServerEvent
    <2>2. events \in Seq(Events) /\ [ev |-> "RECOVERY", of |-> 0] \in Events
      BY <1>8, <2>1 DEF Crash, IInv, TypeOK, Events
    <2>3. events' \in Seq(Events) /\ EventsAside
      BY <1>8, <2>1, <2>2, Appended DEF Crash, IInv, EventsAside
    <2>4. bits' \in BitsType
      BY <1>8, BitsKeep DEF Crash, IInv
    <2>5. fw' \in FwType /\ FwAside /\ fw'.state = "dead"
      BY <1>8 DEF Crash, IInv, TypeOK, FwType, FwAside
    <2>6. MemoryIsThere'
      BY <1>8, <2>1, <2>2, <2>3, <2>4, <2>5 DEF Crash, IInv, linkVars, memVars, fwVars,
         MemoryIsThere
    <2>7. TypeOK'
      BY <1>8, <2>1, <2>2, <2>3, <2>4, <2>5 DEF Crash, IInv, TypeOK, linkVars, memVars,
         fwVars
    <2> QED
      BY <1>8, <2>1, <2>2, <2>3, <2>4, <2>5, <2>6, <2>7 DEF Crash, Aside, EventsAside,
         WireAside, WorkerAside, linkVars, memVars, fwVars
  <1>9. CASE \/ \E segs \in Requests: FwIndicate("REQUEST_MEM", segs) \/ FwIndicate("QDSS_REQ_MEM", segs)
             \/ \E ind \in {"FW_MEM_READY", "FW_INIT_DONE", "QDSS_FREE"}: FwIndicate(ind, <<>>)
    <2> PICK ind \in {"REQUEST_MEM", "FW_MEM_READY", "FW_INIT_DONE", "QDSS_FREE", "QDSS_REQ_MEM"},
               segs \in Wanted :
              FwIndicate(ind, segs)
      BY <1>9 DEF Wanted
    <2>1b. ind \in (Indications \cup {"QDSS_FREE"}) \ NoServer
      BY DEF Indications, NoServer
    <2>1. Message(ind, segs) \in Messages /\ Message(ind, segs).ind = ind /\ ind \notin NoServer
      BY WlfwAssumption DEF FwIndicate, IInv, TypeOK, Message, Messages, Indications,
         NoServer
    <2>2. wire' \in Seq(Messages) /\ WireAside
      BY <2>1, Appended DEF FwIndicate, IInv, TypeOK, WireAside
    <2>3. /\ fw' \in FwType /\ FwAside /\ fw'.state = fw.state /\ fw'.mem = fw.mem
          /\ fw'.accepted = fw.accepted
      BY <2>1b, FwIndicateKeeps DEF FwIndicate, IInv, TypeOK
    <2>4. MemoryIsThere'
      BY <2>1, <2>2, <2>3, MemoryStays DEF FwIndicate, IInv, linkVars, memVars, fwVars
    <2>5. TypeOK'
      BY <2>1, <2>2, <2>3 DEF FwIndicate, IInv, TypeOK, linkVars, memVars, fwVars
    <2> QED
      BY <2>1, <2>2, <2>3, <2>4, <2>5 DEF FwIndicate, Aside, EventsAside, WireAside,
         WorkerAside, linkVars, memVars, fwVars
  <1> QED
    BY <1>1, <1>2, <1>3, <1>4, <1>5, <1>6, <1>7, <1>8, <1>9

-----------------------------------------------------------------------------
(***************************************************************************)
(* What the wire says of the server                                        *)
(***************************************************************************)

LEMMA WireSame ==
    UNCHANGED wire => /\ DelBetween' <=> DelBetween
                      /\ DelFirst' <=> DelFirst
                      /\ DelLast' <=> DelLast
                      /\ SomeDel' <=> SomeDel
  BY DEF DelBetween, DelFirst, DelLast, SomeDel, News, Dels

LEMMA WireGrows ==
    ASSUME TypeOK, NEW m \in Messages, wire' = Append(wire, m)
    PROVE  /\ wire' \in Seq(Messages) /\ Len(wire) \in Nat
           /\ DOMAIN wire = 1..Len(wire) /\ DOMAIN wire' = 1..Len(wire) + 1
           /\ \A i \in DOMAIN wire : /\ News(i)' <=> News(i)
                                     /\ Dels(i)' <=> Dels(i)
           /\ \A n : n = Len(wire) + 1 =>
                 /\ m.ind = "NEW" => News(n)' /\ ~Dels(n)'
                 /\ m.ind = "DEL" => Dels(n)' /\ ~News(n)'
                 /\ m.ind \notin NoServer => ~Dels(n)' /\ ~News(n)'
  <1>1. wire \in Seq(Messages)
    BY DEF TypeOK
  <1>2. /\ wire' \in Seq(Messages) /\ Len(wire) \in Nat
        /\ DOMAIN wire = 1..Len(wire) /\ DOMAIN wire' = 1..Len(wire) + 1
        /\ \A i \in DOMAIN wire : wire'[i] = wire[i]
        /\ wire'[Len(wire) + 1] = m
    BY <1>1, Appended
  <1> QED
    BY <1>2 DEF News, Dels, NoServer

LEMMA WireOther ==
    ASSUME TypeOK, WireAside
    PROVE  /\ wire' \in Seq(Messages)
           /\ DelBetween => DelBetween'
           /\ DelFirst => DelFirst'
           /\ DelLast => DelLast'
           /\ SomeDel => SomeDel'
  <1>1. CASE UNCHANGED wire
    BY <1>1, WireSame DEF TypeOK
  <1>2. CASE \E m \in Messages : m.ind \notin NoServer /\ wire' = Append(wire, m)
    <2>1. PICK m \in Messages : m.ind \notin NoServer /\ wire' = Append(wire, m)
      BY <1>2
    <2>2. /\ wire' \in Seq(Messages) /\ Len(wire) \in Nat
          /\ DOMAIN wire = 1..Len(wire) /\ DOMAIN wire' = 1..Len(wire) + 1
          /\ \A i \in DOMAIN wire : (News(i)' <=> News(i)) /\ (Dels(i)' <=> Dels(i))
          /\ \A n : n = Len(wire) + 1 => ~News(n)' /\ ~Dels(n)'
      BY <2>1, WireGrows
    <2>3. DelBetween => DelBetween'
      BY <2>2 DEF DelBetween
    <2>4. DelFirst => DelFirst'
      BY <2>2 DEF DelFirst
    <2>5. DelLast => DelLast'
      BY <2>2 DEF DelLast
    <2>6. SomeDel => SomeDel'
      BY <2>2 DEF SomeDel
    <2> QED
      BY <2>2, <2>3, <2>4, <2>5, <2>6
  <1> QED
    BY <1>1, <1>2 DEF WireAside

LEMMA WireDel ==
    ASSUME TypeOK, wire' = Append(wire, Message("DEL", <<>>))
    PROVE  /\ wire' \in Seq(Messages)
           /\ DelBetween => DelBetween'
           /\ DelFirst => DelFirst'
           /\ DelLast' /\ SomeDel'
  <1>1. Message("DEL", <<>>) \in Messages /\ Message("DEL", <<>>).ind = "DEL"
    BY WlfwAssumption DEF TypeOK, Message, Messages, Indications, Wanted
  <1>2. /\ wire' \in Seq(Messages) /\ Len(wire) \in Nat
        /\ DOMAIN wire = 1..Len(wire) /\ DOMAIN wire' = 1..Len(wire) + 1
        /\ \A i \in DOMAIN wire : (News(i)' <=> News(i)) /\ (Dels(i)' <=> Dels(i))
        /\ \A n : n = Len(wire) + 1 => ~News(n)' /\ Dels(n)'
    BY <1>1, WireGrows
  <1>3. DelBetween => DelBetween'
    BY <1>2 DEF DelBetween
  <1>4. DelFirst => DelFirst'
    BY <1>2 DEF DelFirst
  <1>5. DelLast'
    BY <1>2 DEF DelLast
  <1>6. SomeDel'
    BY <1>2 DEF SomeDel
  <1> QED
    BY <1>2, <1>3, <1>4, <1>5, <1>6

LEMMA WireNew ==
    ASSUME TypeOK, wire' = Append(wire, Message("NEW", <<>>))
    PROVE  /\ wire' \in Seq(Messages)
           /\ DelBetween /\ DelLast => DelBetween'
           /\ DelFirst /\ SomeDel => DelFirst'
  <1>1. Message("NEW", <<>>) \in Messages /\ Message("NEW", <<>>).ind = "NEW"
    BY WlfwAssumption DEF TypeOK, Message, Messages, Indications, Wanted
  <1>2. /\ wire' \in Seq(Messages) /\ Len(wire) \in Nat
        /\ DOMAIN wire = 1..Len(wire) /\ DOMAIN wire' = 1..Len(wire) + 1
        /\ \A i \in DOMAIN wire : (News(i)' <=> News(i)) /\ (Dels(i)' <=> Dels(i))
        /\ \A n : n = Len(wire) + 1 => News(n)' /\ ~Dels(n)'
    BY <1>1, WireGrows
  <1>3. DelBetween /\ DelLast => DelBetween'
    BY <1>2 DEF DelBetween, DelLast
  <1>4. DelFirst /\ SomeDel => DelFirst'
    BY <1>2 DEF DelFirst, SomeDel
  <1> QED
    BY <1>2, <1>3, <1>4

LEMMA WireTaken ==
    ASSUME TypeOK, wire # <<>>, wire' = Tail(wire)
    PROVE  /\ wire' \in Seq(Messages) /\ Head(wire) \in Messages /\ Head(wire) = wire[1]
           /\ DelBetween => DelBetween'
           /\ DelLast => DelLast'
           /\ ~Dels(1) /\ DelFirst => DelFirst'
           /\ ~Dels(1) /\ SomeDel => SomeDel'
           /\ News(1) /\ DelBetween => DelFirst'
           /\ News(1) /\ DelLast => SomeDel'
           /\ 1 \in DOMAIN wire /\ DOMAIN wire \subseteq Nat \ {0}
  <1>1. /\ Head(wire) \in Messages /\ Head(wire) = wire[1] /\ wire' \in Seq(Messages)
        /\ Len(wire) \in Nat \ {0} /\ 1 \in DOMAIN wire
        /\ DOMAIN wire = 1..Len(wire) /\ DOMAIN wire' = 1..Len(wire) - 1
        /\ \A i \in DOMAIN wire' : wire'[i] = wire[i + 1]
    BY Taken DEF TypeOK
  <1>2. \A i \in DOMAIN wire' : /\ i + 1 \in DOMAIN wire /\ i \in Nat
                                /\ News(i)' <=> News(i + 1)
                                /\ Dels(i)' <=> Dels(i + 1)
    BY <1>1 DEF News, Dels
  <1>3. \A k \in DOMAIN wire : k > 1 => /\ k - 1 \in DOMAIN wire' /\ k \in Nat
                                        /\ Dels(k) => Dels(k - 1)'
    BY <1>1 DEF Dels
  <1>4. DelBetween => DelBetween'
    <2> SUFFICES ASSUME DelBetween, NEW i \in DOMAIN wire', NEW j \in DOMAIN wire',
                        News(i)', News(j)', i < j
                 PROVE  \E k \in DOMAIN wire' : Dels(k)' /\ i < k /\ k < j
      BY DEF DelBetween
    <2>1. PICK k \in DOMAIN wire : Dels(k) /\ i + 1 < k /\ k < j + 1
      BY <1>2 DEF DelBetween
    <2>2. i \in Nat \ {0} /\ j \in Nat /\ k \in Nat
      BY <1>1
    <2>10. k - 1 \in DOMAIN wire' /\ Dels(k - 1)'
      BY <1>3, <2>1, <2>2
    <2> QED
      BY <2>10, <2>1, <2>2
  <1>5. DelLast => DelLast'
    <2> SUFFICES ASSUME DelLast, NEW i \in DOMAIN wire', News(i)'
                 PROVE  \E k \in DOMAIN wire' : Dels(k)' /\ i < k
      BY DEF DelLast
    <2>1. PICK k \in DOMAIN wire : Dels(k) /\ i + 1 < k
      BY <1>2 DEF DelLast
    <2>2. i \in Nat \ {0} /\ k \in Nat
      BY <1>1
    <2>10. k - 1 \in DOMAIN wire' /\ Dels(k - 1)'
      BY <1>3, <2>1, <2>2
    <2> QED
      BY <2>10, <2>1, <2>2
  <1>6. ~Dels(1) /\ DelFirst => DelFirst'
    <2> SUFFICES ASSUME ~Dels(1), DelFirst, NEW i \in DOMAIN wire', News(i)'
                 PROVE  \E k \in DOMAIN wire' : Dels(k)' /\ k < i
      BY DEF DelFirst
    <2>1. PICK k \in DOMAIN wire : Dels(k) /\ k < i + 1
      BY <1>2 DEF DelFirst
    <2>2. i \in Nat \ {0} /\ k \in Nat \ {0} /\ k # 1
      BY <1>1, <2>1
    <2>10. k - 1 \in DOMAIN wire' /\ Dels(k - 1)'
      BY <1>3, <2>1, <2>2
    <2> QED
      BY <2>10, <2>1, <2>2
  <1>7. ~Dels(1) /\ SomeDel => SomeDel'
    <2> SUFFICES ASSUME ~Dels(1), SomeDel
                 PROVE  \E k \in DOMAIN wire' : Dels(k)'
      BY DEF SomeDel
    <2>1. PICK k \in DOMAIN wire : Dels(k)
      BY DEF SomeDel
    <2>2. k \in Nat \ {0} /\ k # 1
      BY <1>1, <2>1
    <2>10. k - 1 \in DOMAIN wire' /\ Dels(k - 1)'
      BY <1>3, <2>1, <2>2
    <2> QED
      BY <2>10, <2>1, <2>2
  <1>8. News(1) /\ DelBetween => DelFirst'
    <2> SUFFICES ASSUME News(1), DelBetween, NEW i \in DOMAIN wire', News(i)'
                 PROVE  \E k \in DOMAIN wire' : Dels(k)' /\ k < i
      BY DEF DelFirst
    <2>1. i \in Nat \ {0} /\ i + 1 \in DOMAIN wire /\ News(i + 1)
      BY <1>1, <1>2
    <2>2. PICK k \in DOMAIN wire : Dels(k) /\ 1 < k /\ k < i + 1
      BY <1>1, <2>1 DEF DelBetween
    <2>3. k \in Nat
      BY <1>1
    <2>10. k - 1 \in DOMAIN wire' /\ Dels(k - 1)'
      BY <1>3, <2>1, <2>2, <2>3
    <2> QED
      BY <2>10, <2>1, <2>2, <2>3
  <1>9. News(1) /\ DelLast => SomeDel'
    <2> SUFFICES ASSUME News(1), DelLast
                 PROVE  \E k \in DOMAIN wire' : Dels(k)'
      BY DEF SomeDel
    <2>1. PICK k \in DOMAIN wire : Dels(k) /\ 1 < k
      BY <1>1 DEF DelLast
    <2>2. k \in Nat
      BY <1>1
    <2>10. k - 1 \in DOMAIN wire' /\ Dels(k - 1)'
      BY <1>3, <2>1, <2>2
    <2> QED
      BY <2>10, <2>1, <2>2
  <1>10. DOMAIN wire \subseteq Nat \ {0}
    BY <1>1
  <1> QED
    BY <1>1, <1>4, <1>5, <1>6, <1>7, <1>8, <1>9, <1>10

-----------------------------------------------------------------------------
(***************************************************************************)
(* What the queue and the worker say of it                                 *)
(***************************************************************************)

LEMMA WorkerStays ==
    ASSUME TypeOK, FirstSteps, WorkerAside
    PROVE  /\ FirstSteps'
           /\ At("connect")' <=> At("connect")
           /\ At("exit")' <=> At("exit")
  <1>1. CASE UNCHANGED worker
    BY <1>1 DEF FirstSteps, At
  <1>2. CASE /\ worker.steps # <<>> /\ ~At("connect") /\ ~At("exit")
             /\ \E ok \in BOOLEAN : Go(ok)
    BY <1>2, GoKeeps
  <1> QED
    BY <1>1, <1>2 DEF WorkerAside

\* An event is added at the end of the queue.
LEMMA QueueGrows ==
    ASSUME TypeOK, NEW e \in Events, events' = Append(events, e)
    PROVE  /\ Len(events) \in Nat
           /\ DOMAIN events = 1..Len(events) /\ DOMAIN events' = 1..Len(events) + 1
           /\ \A i \in DOMAIN events : /\ Arrives(i)' <=> Arrives(i)
                                       /\ Exits(i)' <=> Exits(i)
           /\ \A n : n = Len(events) + 1 =>
                 /\ e.ev = "SERVER_ARRIVE" => Arrives(n)' /\ ~Exits(n)'
                 /\ e.ev = "SERVER_EXIT" => Exits(n)' /\ ~Arrives(n)'
                 /\ e.ev \notin NoServerEvent => ~Exits(n)' /\ ~Arrives(n)'
  <1>1. events \in Seq(Events)
    BY DEF TypeOK
  <1>2. /\ Len(events) \in Nat
        /\ DOMAIN events = 1..Len(events) /\ DOMAIN events' = 1..Len(events) + 1
        /\ \A i \in DOMAIN events : events'[i] = events[i]
        /\ events'[Len(events) + 1] = e
    BY <1>1, Appended
  <1> QED
    BY <1>2 DEF Arrives, Exits, NoServerEvent

LEMMA QueueStays ==
    ASSUME TypeOK, EventsAside
    PROVE  /\ DOMAIN events \subseteq DOMAIN events'
           /\ \A i \in DOMAIN events : /\ Arrives(i)' <=> Arrives(i)
                                       /\ Exits(i)' <=> Exits(i)
           /\ \A i \in DOMAIN events' : Arrives(i)' \/ Exits(i)' => i \in DOMAIN events
  <1>1. CASE UNCHANGED events
    BY <1>1 DEF Arrives, Exits
  <1>2. CASE \E ev \in DOMAIN Chain \ NoServerEvent, n \in 0..MaxBoots :
                events' = Append(events, [ev |-> ev, of |-> n])
    <2>1. PICK ev \in DOMAIN Chain \ NoServerEvent, n \in 0..MaxBoots :
                events' = Append(events, [ev |-> ev, of |-> n])
      BY <1>2
    <2> DEFINE e == [ev |-> ev, of |-> n]
    <2>2. e \in Events /\ e.ev \notin NoServerEvent /\ events' = Append(events, e)
      BY <2>1 DEF Events
    <2> HIDE DEF e
    <2>3. /\ Len(events) \in Nat
          /\ DOMAIN events = 1..Len(events) /\ DOMAIN events' = 1..Len(events) + 1
          /\ \A i \in DOMAIN events : (Arrives(i)' <=> Arrives(i)) /\ (Exits(i)' <=> Exits(i))
          /\ \A k : k = Len(events) + 1 => ~Arrives(k)' /\ ~Exits(k)'
      BY <2>2, QueueGrows
    <2> QED
      BY <2>3
  <1> QED
    BY <1>1, <1>2 DEF EventsAside

LEMMA EventsStay ==
    ASSUME TypeOK, Server, UNCHANGED <<connected, del_server>>, EventsAside, WorkerAside
    PROVE  FirstSteps' /\ OneArrival' /\ OneExit' /\ (Known' <=> Known)
  <1>1. /\ FirstSteps' /\ (At("connect")' <=> At("connect")) /\ (At("exit")' <=> At("exit"))
    BY WorkerStays DEF Server
  <1>2. /\ DOMAIN events \subseteq DOMAIN events'
        /\ \A i \in DOMAIN events : (Arrives(i)' <=> Arrives(i)) /\ (Exits(i)' <=> Exits(i))
        /\ \A i \in DOMAIN events' : Arrives(i)' \/ Exits(i)' => i \in DOMAIN events
    BY QueueStays
  <1>3. OneArrival'
    BY <1>1, <1>2 DEF Server, OneArrival
  <1>4. OneExit'
    BY <1>1, <1>2 DEF Server, OneExit
  <1>5. Known' <=> Known
    BY <1>1, <1>2 DEF Known
  <1> QED
    BY <1>1, <1>3, <1>4, <1>5

\* A step that has nothing to do with the server keeps the invariant.
LEMMA ServerStays ==
    ASSUME TypeOK, Server, Aside
    PROVE  Server'
  <1>1. FirstSteps' /\ OneArrival' /\ OneExit' /\ (Known' <=> Known)
    BY EventsStay DEF Aside
  <1>2. CASE FwAside /\ WireAside
    <2>1. Alternate'
      BY <1>1, <1>2, WireOther DEF Server, Alternate, Aside
    <2>2. Gone'
      BY <1>1, <1>2, WireOther DEF Server, Gone, Aside, FwAside
    <2>3. FwIsWhole'
      BY <1>2 DEF Server, FwIsWhole, FwAside
    <2> QED
      BY <1>1, <2>1, <2>2, <2>3 DEF Server
  <1>3. CASE PowerOff
    <2>1. fw' = NoFw /\ NoFw.sent = {} /\ NoFw.state = "off"
      BY <1>3 DEF PowerOff, NoFw
    <2>2. FwIsWhole'
      BY <2>1 DEF FwIsWhole
    <2>3. CASE wire' = Append(wire, Message("DEL", <<>>))
      <3>1. Alternate'
        BY <1>1, <2>3, WireDel DEF Server, Alternate, Aside
      <3>2. Gone'
        BY <2>3, WireDel DEF Gone
      <3> QED
        BY <1>1, <2>2, <3>1, <3>2 DEF Server
    <2>4. CASE UNCHANGED wire /\ ~("NEW" \in fw.sent /\ "DEL" \notin fw.sent /\ lookup)
      <3>1. Alternate'
        BY <1>1, <2>4, WireSame DEF Server, Alternate, Aside
      <3>2. Gone'
        BY <1>1, <2>4, WireSame DEF Server, Gone, Aside
      <3> QED
        BY <1>1, <2>2, <3>1, <3>2 DEF Server
    <2> QED
      BY <1>3, <2>3, <2>4 DEF PowerOff
  <1> QED
    BY <1>2, <1>3 DEF Aside

-----------------------------------------------------------------------------
(***************************************************************************)
(* The steps that have to do with the server                               *)
(***************************************************************************)

\* The announcement of a server.
LEMMA FwAnnounceKeeps == IInv /\ FwAnnounce => IInv'
  <1> SUFFICES ASSUME IInv, FwAnnounce PROVE IInv'
    OBVIOUS
  <1>1. /\ fw.state = "up" /\ "NEW" \notin fw.sent
        /\ fw' = [fw EXCEPT !.sent = @ \cup {"NEW"}]
        /\ UNCHANGED <<boot, linkVars, events, worker, bits, memVars, host, faults, traces>>
    BY DEF FwAnnounce
  <1>2. /\ fw' \in FwType /\ fw'.sent = fw.sent \cup {"NEW"} /\ fw'.state = "up"
        /\ fw'.mem = fw.mem /\ fw'.accepted = fw.accepted
    BY <1>1 DEF IInv, TypeOK, FwType, Indications
  <1>3. "DEL" \notin fw'.sent /\ FwIsWhole'
    BY <1>1, <1>2 DEF IInv, Server, FwIsWhole
  <1>4. FirstSteps' /\ OneArrival' /\ OneExit' /\ (Known' <=> Known)
    BY <1>1, EventsStay DEF IInv, EventsAside, WorkerAside, linkVars
  <1>5. Alternate' /\ wire' \in Seq(Messages)
    <2>1. CASE lookup /\ wire' = Append(wire, Message("NEW", <<>>))
      <3>1. DelBetween /\ DelLast /\ (Known /\ ~del_server => DelFirst /\ SomeDel)
        BY <1>1, <2>1 DEF IInv, Server, Alternate, Gone
      <3> QED
        BY <1>1, <1>4, <2>1, <3>1, WireNew DEF IInv, Alternate, linkVars
    <2>2. CASE UNCHANGED wire
      BY <1>1, <1>4, <2>2, WireSame DEF IInv, TypeOK, Server, Alternate, linkVars
    <2> QED
      BY <2>1, <2>2 DEF FwAnnounce
  <1>6. Gone'
    BY <1>2, <1>3 DEF Gone
  <1>7. TypeOK'
    BY <1>1, <1>2, <1>5 DEF IInv, TypeOK, linkVars, memVars
  <1>8. MemoryIsThere'
    BY <1>1, <1>2 DEF IInv, MemoryIsThere, memVars
  <1> QED
    BY <1>3, <1>4, <1>5, <1>6, <1>7, <1>8 DEF IInv, Server

\* ... and of its end.
LEMMA FwGoneKeeps == IInv /\ FwGone => IInv'
  <1> SUFFICES ASSUME IInv, FwGone PROVE IInv'
    OBVIOUS
  <1>1. /\ fw.state = "dead" /\ "NEW" \in fw.sent
        /\ fw' = [fw EXCEPT !.sent = @ \cup {"DEL"}]
        /\ wire' = Append(wire, Message("DEL", <<>>))
        /\ UNCHANGED <<boot, linkVars, events, worker, bits, memVars, host, faults, traces>>
    BY DEF FwGone
  <1>2. fw' \in FwType /\ fw'.sent = fw.sent \cup {"DEL"} /\ fw'.state = "dead"
    BY <1>1 DEF IInv, TypeOK, FwType, Indications
  <1>3. FwIsWhole'
    BY <1>1, <1>2 DEF FwIsWhole
  <1>4. FirstSteps' /\ OneArrival' /\ OneExit' /\ (Known' <=> Known)
    BY <1>1, EventsStay DEF IInv, EventsAside, WorkerAside, linkVars
  <1>5. /\ wire' \in Seq(Messages) /\ DelLast' /\ SomeDel'
        /\ (DelBetween => DelBetween') /\ (DelFirst => DelFirst')
    BY <1>1, WireDel DEF IInv
  <1>6. Alternate'
    BY <1>1, <1>4, <1>5 DEF IInv, Server, Alternate, linkVars
  <1>7. Gone'
    BY <1>5 DEF Gone
  <1>8. TypeOK'
    BY <1>1, <1>2, <1>5 DEF IInv, TypeOK, linkVars, memVars
  <1>9. MemoryIsThere'
    BY <1>2 DEF MemoryIsThere
  <1> QED
    BY <1>3, <1>4, <1>6, <1>7, <1>8, <1>9 DEF IInv, Server

\* The event that the worker takes is what the queue began with.
LEMMA TakeEventKeeps == IInv /\ TakeEvent => IInv'
  <1> SUFFICES ASSUME IInv, TakeEvent PROVE IInv'
    OBVIOUS
  <1>1. /\ worker = Resting /\ events # <<>> /\ events' = Tail(events)
        /\ worker' = [steps |-> Chain[Head(events).ev], of |-> Head(events).of]
        /\ UNCHANGED <<fwVars, wire, linkVars, bits, memVars, host, faults, traces>>
    BY DEF TakeEvent
  <1>2. events \in Seq(Events)
    BY DEF IInv, TypeOK
  <1>3. /\ Head(events) \in Events /\ Head(events) = events[1] /\ events' \in Seq(Events)
        /\ Len(events) \in Nat \ {0} /\ 1 \in DOMAIN events
        /\ DOMAIN events = 1..Len(events) /\ DOMAIN events' = 1..Len(events) - 1
        /\ \A i \in DOMAIN events' : events'[i] = events[i + 1] /\ i + 1 \in DOMAIN events
    BY <1>1, <1>2, Taken
  <1>4. \A i \in DOMAIN events' : /\ i + 1 \in DOMAIN events /\ i \in Nat \ {0}
                                  /\ Arrives(i)' <=> Arrives(i + 1)
                                  /\ Exits(i)' <=> Exits(i + 1)
    BY <1>3 DEF Arrives, Exits
  <1>5. events[1].ev \in DOMAIN Chain /\ events[1].of \in 0..MaxBoots
    BY <1>3 DEF Events
  <1>6. /\ worker' \in [steps : Seq(Steps), of : 0..MaxBoots]
        /\ At("connect")' <=> Arrives(1)
        /\ At("exit")' <=> Exits(1)
        /\ FirstSteps'
    <2>1. worker' = [steps |-> Chain[events[1].ev], of |-> events[1].of]
      BY <1>1, <1>3
    <2>2. /\ Chain[events[1].ev] \in Seq(Steps) /\ Chain[events[1].ev] # <<>>
          /\ Head(Chain[events[1].ev]) = "connect" <=> events[1].ev = "SERVER_ARRIVE"
          /\ Head(Chain[events[1].ev]) = "exit" <=> events[1].ev = "SERVER_EXIT"
          /\ \A i \in DOMAIN Chain[events[1].ev] :
                i > 1 => Chain[events[1].ev][i] \notin {"connect", "exit"}
      BY <1>5, ChainSteps
    <2>3. worker'.steps = Chain[events[1].ev]
      BY <2>1
    <2>4. worker' \in [steps : Seq(Steps), of : 0..MaxBoots]
      BY <1>5, <2>1, <2>2
    <2>5. FirstSteps'
      BY <2>2, <2>3 DEF FirstSteps
    <2> QED
      BY <2>2, <2>3, <2>4, <2>5 DEF At, Arrives, Exits
  <1>7. ~At("connect") /\ ~At("exit")
    BY <1>1 DEF At, Resting
  <1>8. UNCHANGED <<fw, boot, wire, lookup, peer, connected, del_server>>
    BY <1>1 DEF fwVars, linkVars
  <1>9. OneArrival'
    <2>1. /\ \A i, j \in DOMAIN events : Arrives(i) /\ Arrives(j) => i = j
          /\ connected => \A i \in DOMAIN events : ~Arrives(i)
      BY DEF IInv, Server, OneArrival
    <2>2. \A i, j \in DOMAIN events' : Arrives(i)' /\ Arrives(j)' => i = j
      BY <1>4, <2>1
    <2>3. ~(connected' /\ At("connect")')
      BY <1>3, <1>6, <1>8, <2>1
    <2>4. connected' \/ At("connect")' => \A i \in DOMAIN events' : ~Arrives(i)'
      BY <1>3, <1>4, <1>6, <1>8, <2>1
    <2> QED
      BY <2>2, <2>3, <2>4 DEF OneArrival
  <1>10. OneExit'
    <2>1. /\ \A i, j \in DOMAIN events : Exits(i) /\ Exits(j) => i = j
          /\ \A i, j \in DOMAIN events : Exits(i) => del_server /\ (Arrives(j) => j < i)
      BY DEF IInv, Server, OneExit
    <2>2. \A i, j \in DOMAIN events' : Exits(i)' /\ Exits(j)' => i = j
      BY <1>4, <2>1
    <2>3. At("exit")' => del_server' /\ \A i \in DOMAIN events' : ~Exits(i)' /\ ~Arrives(i)'
      BY <1>3, <1>4, <1>6, <1>8, <2>1
    <2>4. \A i, j \in DOMAIN events' : Exits(i)' => del_server' /\ (Arrives(j)' => j < i)
      BY <1>4, <1>8, <2>1
    <2> QED
      BY <2>2, <2>3, <2>4 DEF OneExit
  <1>11. Known' => Known
    BY <1>3, <1>4, <1>6, <1>8 DEF Known
  <1>12. Alternate' /\ Gone' /\ FwIsWhole'
    BY <1>8, <1>11, WireSame DEF IInv, Server, Alternate, Gone, FwIsWhole
  <1>13. TypeOK' /\ MemoryIsThere'
    BY <1>1, <1>3, <1>6, <1>8 DEF IInv, TypeOK, MemoryIsThere, fwVars, linkVars, memVars
  <1> QED
    BY <1>6, <1>9, <1>10, <1>12, <1>13 DEF IInv, Server

\* The worker connects.
LEMMA ConnectKeeps == IInv /\ Connect => IInv'
  <1> SUFFICES ASSUME IInv, Connect PROVE IInv'
    OBVIOUS
  <1>1. /\ At("connect") /\ worker.steps # <<>> /\ Known
        /\ UNCHANGED <<fwVars, wire, lookup, del_server, events, bits, memVars, host, traces>>
    BY DEF Connect, At, Known
  <1>2. ~connected /\ \A i \in DOMAIN events : ~Arrives(i)
    BY <1>1 DEF IInv, Server, OneArrival
  <1>3. \E ok \in BOOLEAN : Go(ok)
    BY DEF Connect
  <1>4. /\ worker' \in [steps : Seq(Steps), of : 0..MaxBoots] /\ FirstSteps'
        /\ ~At("connect")' /\ ~At("exit")'
    BY <1>1, <1>3, GoKeeps DEF IInv, Server
  <1>5. connected' \in BOOLEAN /\ peer' \in 0..MaxBoots /\ faults' \in 0..MaxFaults
    BY <1>2, FaultKeeps DEF Connect, IInv, TypeOK
  <1>6. OneArrival'
    BY <1>1, <1>2, <1>4 DEF OneArrival, Arrives
  <1>7. OneExit'
    BY <1>1, <1>2, <1>4 DEF IInv, Server, OneExit, Arrives, Exits
  <1>8. Alternate' /\ Gone' /\ FwIsWhole'
    BY <1>1, WireSame DEF IInv, Server, Alternate, Gone, FwIsWhole, fwVars
  <1>9. TypeOK' /\ MemoryIsThere'
    BY <1>1, <1>4, <1>5 DEF IInv, TypeOK, MemoryIsThere, fwVars, memVars
  <1> QED
    BY <1>4, <1>6, <1>7, <1>8, <1>9 DEF IInv, Server

\* The exit leaves nothing of a server, neither on the wire nor in the queue.
LEMMA ServerExitKeeps == IInv /\ ServerExit => IInv'
  <1> SUFFICES ASSUME IInv, ServerExit PROVE IInv'
    OBVIOUS
  <1>1. /\ At("exit") /\ worker.steps # <<>> /\ Go(TRUE)
        /\ connected' = FALSE /\ peer' = 0 /\ del_server' = FALSE /\ lookup' \in BOOLEAN
        /\ UNCHANGED <<fwVars, events, bits, memVars, host, traces>>
    BY DEF ServerExit, At
  <1>2. \A i \in DOMAIN events : ~Exits(i) /\ ~Arrives(i)
    BY <1>1 DEF IInv, Server, OneExit
  <1>3. /\ worker' \in [steps : Seq(Steps), of : 0..MaxBoots] /\ FirstSteps'
        /\ ~At("connect")' /\ ~At("exit")'
    BY <1>1, GoKeeps DEF IInv, Server
  <1>4. faults' \in 0..MaxFaults
    BY FaultKeeps DEF ServerExit, IInv, TypeOK
  <1>5. \A i \in DOMAIN events' : ~Exits(i)' /\ ~Arrives(i)'
    BY <1>1, <1>2 DEF Exits, Arrives
  <1>6. OneArrival' /\ OneExit' /\ ~Known'
    BY <1>1, <1>3, <1>5 DEF OneArrival, OneExit, Known
  <1>7. connected' \in BOOLEAN /\ del_server' \in BOOLEAN /\ peer' \in 0..MaxBoots
    <2>1. connected' \in BOOLEAN /\ del_server' \in BOOLEAN
      BY <1>1
    <2>2. peer' \in 0..MaxBoots
      BY <1>1, WlfwAssumption
    <2> QED
      BY <2>1, <2>2
  <1>8. MemoryIsThere' /\ FwIsWhole'
    BY <1>1 DEF IInv, Server, MemoryIsThere, FwIsWhole, fwVars, memVars
  <1>9. CASE /\ "NEW" \in fw.sent /\ "DEL" \notin fw.sent
             /\ wire' = <<Message("NEW", <<>>)>>
    <2>1. Message("NEW", <<>>) \in Messages
      BY WlfwAssumption DEF IInv, TypeOK, Message, Messages, Indications, Wanted
    <2>2. wire' \in Seq(Messages) /\ DOMAIN wire' = {1}
      BY <1>9, <2>1
    <2>3. Alternate'
      BY <1>6, <2>2 DEF Alternate, DelBetween
    <2>4. Gone'
      BY <1>1, <1>9 DEF Gone, fwVars
    <2>5. TypeOK'
      BY <1>1, <1>3, <1>4, <1>7, <2>2 DEF IInv, TypeOK, fwVars, memVars
    <2> QED
      BY <1>3, <1>6, <1>8, <2>2, <2>3, <2>4, <2>5 DEF IInv, Server
  <1>10. CASE wire' = <<>>
    <2>1. wire' \in Seq(Messages) /\ DOMAIN wire' = {}
      BY <1>10
    <2>2. Alternate' /\ Gone'
      BY <1>6, <2>1 DEF Alternate, Gone, DelBetween, DelLast
    <2>5. TypeOK'
      BY <1>1, <1>3, <1>4, <1>7, <2>1 DEF IInv, TypeOK, fwVars, memVars
    <2> QED
      BY <1>3, <1>6, <1>8, <2>1, <2>2, <2>5 DEF IInv, Server
  <1> QED
    BY <1>9, <1>10 DEF ServerExit

-----------------------------------------------------------------------------
(***************************************************************************)
(* The QMI thread                                                          *)
(***************************************************************************)

\* What every callback leaves alone.
LEMMA Received ==
    ASSUME IInv, NEW ind, Receive(ind)
    PROVE  /\ wire # <<>> /\ wire' = Tail(wire) /\ wire' \in Seq(Messages)
           /\ Head(wire) \in Messages /\ Head(wire) = wire[1] /\ 1 \in DOMAIN wire
           /\ Head(wire).ind = ind
           /\ News(1) <=> ind = "NEW"
           /\ Dels(1) <=> ind = "DEL"
           /\ UNCHANGED <<fw, boot, lookup, peer, connected, worker, bits, m3_mem, host, traces>>
  <1>1. /\ wire # <<>> /\ Head(wire).ind = ind /\ wire' = Tail(wire)
        /\ UNCHANGED <<fw, boot, lookup, peer, connected, worker, bits, m3_mem, host, traces>>
    BY DEF Receive, fwVars
  <1>2. /\ wire' \in Seq(Messages) /\ Head(wire) \in Messages /\ Head(wire) = wire[1]
        /\ 1 \in DOMAIN wire
    BY <1>1, WireTaken DEF IInv
  <1>3. (News(1) <=> ind = "NEW") /\ (Dels(1) <=> ind = "DEL")
    BY <1>1, <1>2 DEF News, Dels
  <1> QED
    BY <1>1, <1>2, <1>3

\* An indication that is not about the server.
LEMMA IndicationKeeps ==
    ASSUME IInv, NEW ind, Receive(ind), ind \notin NoServer, EventsAside,
           events' \in Seq(Events), faults' \in 0..MaxFaults, UNCHANGED del_server,
           fw_mem' \in FwMemory, fw_mem'.va = fw_mem.va, qdss_mem' \in Memory
    PROVE  IInv'
  <1>1. /\ wire # <<>> /\ wire' = Tail(wire) /\ wire' \in Seq(Messages)
        /\ ~News(1) /\ ~Dels(1)
        /\ UNCHANGED <<fw, boot, lookup, peer, connected, worker, bits, m3_mem, host, traces>>
    BY Received DEF NoServer
  <1>2. FirstSteps' /\ OneArrival' /\ OneExit' /\ (Known' <=> Known)
    BY <1>1, EventsStay DEF IInv, WorkerAside
  <1>3. /\ (DelBetween => DelBetween') /\ (DelLast => DelLast')
        /\ (DelFirst => DelFirst') /\ (SomeDel => SomeDel')
    BY <1>1, WireTaken DEF IInv
  <1>4. Alternate' /\ Gone' /\ FwIsWhole'
    BY <1>1, <1>2, <1>3 DEF IInv, Server, Alternate, Gone, FwIsWhole
  <1>5. TypeOK' /\ MemoryIsThere'
    BY <1>1 DEF IInv, TypeOK, MemoryIsThere
  <1> QED
    BY <1>2, <1>4, <1>5 DEF IInv, Server

LEMMA IndicationSteps ==
    IInv /\ (RequestMemInd \/ FwMemReadyInd \/ FwInitDoneInd \/ QdssReqMemInd \/ QdssFreeInd)
       => IInv'
  <1> SUFFICES ASSUME IInv,
                      RequestMemInd \/ FwMemReadyInd \/ FwInitDoneInd \/ QdssReqMemInd \/ QdssFreeInd
               PROVE  IInv'
    OBVIOUS
  <1>1. /\ {"REQUEST_MEM", "FW_MEM_READY", "FW_READY", "QDSS_TRACE_REQ_MEM", "QDSS_TRACE_FREE"}
              \subseteq DOMAIN Chain \ NoServerEvent
        /\ 0 \in 0..MaxBoots
    BY WlfwAssumption DEF Chain, NoServerEvent
  <1>2. fw_mem \in FwMemory /\ qdss_mem \in Memory /\ events \in Seq(Events) /\ faults \in 0..MaxFaults
    BY DEF IInv, TypeOK
  <1>3. \A segs \in Wanted :
           /\ [fw_mem EXCEPT !.segs = segs, !.grown = Outgrown(segs)] \in FwMemory
           /\ [fw_mem EXCEPT !.segs = segs, !.grown = Outgrown(segs)].va = fw_mem.va
           /\ [qdss_mem EXCEPT !.len = Len(segs)] \in Memory
    <2> TAKE segs \in Wanted
    <2>1. Outgrown(segs) \in SUBSET Segs /\ Len(segs) \in 0..MaxSegs
      BY WantedFacts DEF Outgrown
    <2> QED
      BY <1>2, <2>1 DEF Memory, FwMemory
  <1>4. \A ind : Receive(ind) => Head(wire).segs \in Wanted
    BY Received DEF Messages
  <1>5. \A ev \in DOMAIN Chain \ NoServerEvent :
           Post(ev, 0) => EventsAside /\ events' \in Seq(Events) /\ faults' \in 0..MaxFaults
    BY <1>1, PostKeeps DEF IInv
  <1>6. CASE RequestMemInd
    <2>1. Receive("REQUEST_MEM") /\ "REQUEST_MEM" \notin NoServer /\ UNCHANGED del_server
      BY <1>6 DEF RequestMemInd, NoServer
    <2>2. EventsAside /\ events' \in Seq(Events) /\ faults' \in 0..MaxFaults
      BY <1>1, <1>2, <1>5, <1>6 DEF RequestMemInd, EventsAside
    <2>3. fw_mem' \in FwMemory /\ fw_mem'.va = fw_mem.va /\ qdss_mem' \in Memory
      BY <1>2, <1>3, <1>4, <1>6, <2>1 DEF RequestMemInd
    <2> QED
      BY <2>1, <2>2, <2>3, IndicationKeeps
  <1>7. CASE FwMemReadyInd
    <2>1. Receive("FW_MEM_READY") /\ "FW_MEM_READY" \notin NoServer /\ UNCHANGED del_server
      BY <1>7 DEF FwMemReadyInd, NoServer
    <2>2. EventsAside /\ events' \in Seq(Events) /\ faults' \in 0..MaxFaults
      BY <1>1, <1>2, <1>5, <1>7 DEF FwMemReadyInd, EventsAside
    <2>3. fw_mem' \in FwMemory /\ fw_mem'.va = fw_mem.va /\ qdss_mem' \in Memory
      BY <1>2, <1>3, <1>4, <1>7, <2>1 DEF FwMemReadyInd
    <2> QED
      BY <2>1, <2>2, <2>3, IndicationKeeps
  <1>8. CASE FwInitDoneInd
    <2>1. Receive("FW_INIT_DONE") /\ "FW_INIT_DONE" \notin NoServer /\ UNCHANGED del_server
      BY <1>8 DEF FwInitDoneInd, NoServer
    <2>2. EventsAside /\ events' \in Seq(Events) /\ faults' \in 0..MaxFaults
      BY <1>1, <1>2, <1>5, <1>8 DEF FwInitDoneInd, EventsAside
    <2>3. fw_mem' \in FwMemory /\ fw_mem'.va = fw_mem.va /\ qdss_mem' \in Memory
      BY <1>2, <1>3, <1>4, <1>8, <2>1 DEF FwInitDoneInd
    <2> QED
      BY <2>1, <2>2, <2>3, IndicationKeeps
  <1>9. CASE QdssReqMemInd
    <2>1. Receive("QDSS_REQ_MEM") /\ "QDSS_REQ_MEM" \notin NoServer /\ UNCHANGED del_server
      BY <1>9 DEF QdssReqMemInd, NoServer
    <2>2. EventsAside /\ events' \in Seq(Events) /\ faults' \in 0..MaxFaults
      BY <1>1, <1>2, <1>5, <1>9 DEF QdssReqMemInd, EventsAside
    <2>3. fw_mem' \in FwMemory /\ fw_mem'.va = fw_mem.va /\ qdss_mem' \in Memory
      BY <1>2, <1>3, <1>4, <1>9, <2>1 DEF QdssReqMemInd
    <2> QED
      BY <2>1, <2>2, <2>3, IndicationKeeps
  <1>10. CASE QdssFreeInd
    <2>1. Receive("QDSS_FREE") /\ "QDSS_FREE" \notin NoServer /\ UNCHANGED del_server
      BY <1>10 DEF QdssFreeInd, NoServer
    <2>2. EventsAside /\ events' \in Seq(Events) /\ faults' \in 0..MaxFaults
      BY <1>1, <1>2, <1>5, <1>10 DEF QdssFreeInd, EventsAside
    <2>3. fw_mem' \in FwMemory /\ fw_mem'.va = fw_mem.va /\ qdss_mem' \in Memory
      BY <1>2, <1>3, <1>4, <1>10, <2>1 DEF QdssFreeInd
    <2> QED
      BY <2>1, <2>2, <2>3, IndicationKeeps
  <1> QED
    BY <1>6, <1>7, <1>8, <1>9, <1>10

\* A server that arrives while no exit is pending finds no other.
LEMMA NewServerKeeps == IInv /\ NewServer => IInv'
  <1> SUFFICES ASSUME IInv, NewServer PROVE IInv'
    OBVIOUS
  <1>1. /\ wire # <<>> /\ wire' = Tail(wire) /\ wire' \in Seq(Messages)
        /\ Head(wire) \in Messages /\ 1 \in DOMAIN wire /\ News(1) /\ ~Dels(1)
        /\ UNCHANGED <<fw, boot, lookup, peer, connected, worker, bits, m3_mem, host, traces>>
    BY Received DEF NewServer
  <1>2. UNCHANGED <<del_server, fw_mem, qdss_mem>>
    BY DEF NewServer
  <1>3. DelBetween' /\ DelFirst' /\ (DelLast => DelLast' /\ SomeDel')
    BY <1>1, WireTaken DEF IInv, Server, Alternate
  <1>4. Alternate' /\ FwIsWhole' /\ FirstSteps'
    BY <1>1, <1>3 DEF IInv, Server, Alternate, FwIsWhole, FirstSteps
  <1>5. Gone'
    BY <1>1, <1>3 DEF IInv, Server, Gone
  <1>6. CASE UNCHANGED events /\ faults' \in 0..MaxFaults
    <2>1. OneArrival' /\ OneExit'
      BY <1>1, <1>2, <1>6 DEF IInv, Server, OneArrival, OneExit, At, Arrives, Exits
    <2> QED
      BY <1>1, <1>2, <1>4, <1>5, <1>6, <2>1 DEF IInv, TypeOK, MemoryIsThere, Server
  <1>7. CASE ~del_server /\ Post("SERVER_ARRIVE", Head(wire).of)
    <2>1. "SERVER_ARRIVE" \in DOMAIN Chain /\ Head(wire).of \in 0..MaxBoots
      BY <1>1 DEF Chain, Messages
    <2>2. events' \in Seq(Events) /\ faults' \in 0..MaxFaults
      BY <1>7, <2>1, PostKeeps DEF IInv
    <2>3. CASE UNCHANGED events
      BY <1>6, <2>2, <2>3
    <2>4. CASE events' = Append(events, [ev |-> "SERVER_ARRIVE", of |-> Head(wire).of])
      <3> DEFINE e == [ev |-> "SERVER_ARRIVE", of |-> Head(wire).of]
      <3>1. e \in Events /\ e.ev = "SERVER_ARRIVE" /\ events' = Append(events, e)
        BY <2>1, <2>4 DEF Events
      <3> HIDE DEF e
      <3>2. /\ Len(events) \in Nat
            /\ DOMAIN events = 1..Len(events) /\ DOMAIN events' = 1..Len(events) + 1
            /\ \A i \in DOMAIN events : (Arrives(i)' <=> Arrives(i)) /\ (Exits(i)' <=> Exits(i))
            /\ \A k : k = Len(events) + 1 => Arrives(k)' /\ ~Exits(k)'
        BY <3>1, QueueGrows DEF IInv
      <3>3. ~Known
        <4>1. SUFFICES ASSUME Known PROVE FALSE
          OBVIOUS
        <4>2. PICK k \in DOMAIN wire : k < 1
          BY <1>1, <1>7, <4>1 DEF IInv, Server, Alternate, DelFirst
        <4> QED
          BY <1>1, <4>2, WireTaken DEF IInv
      <3>4. ~connected /\ ~At("connect") /\ \A i \in DOMAIN events : ~Arrives(i)
        BY <3>3 DEF Known
      <3>5. ~At("exit") /\ \A i \in DOMAIN events : ~Exits(i)
        BY <1>7 DEF IInv, Server, OneExit
      <3>6. ~connected' /\ ~At("connect")' /\ ~At("exit")'
        BY <1>1, <3>4, <3>5 DEF At
      <3>7. OneArrival'
        BY <3>2, <3>4, <3>6 DEF OneArrival
      <3>8. OneExit'
        BY <3>2, <3>5, <3>6 DEF OneExit
      <3> QED
        BY <1>1, <1>2, <1>4, <1>5, <2>2, <3>7, <3>8 DEF IInv, TypeOK, MemoryIsThere, Server
    <2> QED
      BY <1>7, <2>3, <2>4 DEF Post
  <1> QED
    BY <1>6, <1>7 DEF NewServer, IInv, TypeOK

\* A server that goes: its exit is the last that is queued of it.
LEMMA DelServerKeeps == IInv /\ DelServer => IInv'
  <1> SUFFICES ASSUME IInv, DelServer PROVE IInv'
    OBVIOUS
  <1>1. /\ wire # <<>> /\ wire' = Tail(wire) /\ wire' \in Seq(Messages)
        /\ UNCHANGED <<fw, boot, lookup, peer, connected, worker, bits, m3_mem, host, traces>>
    BY Received DEF DelServer
  <1>2. del_server' = TRUE /\ UNCHANGED <<fw_mem, qdss_mem>>
    BY DEF DelServer
  <1>3. DelBetween' /\ (DelLast => DelLast')
    BY <1>1, WireTaken DEF IInv, Server, Alternate
  <1>4. Alternate' /\ Gone' /\ FwIsWhole' /\ FirstSteps'
    BY <1>1, <1>2, <1>3 DEF IInv, Server, Alternate, Gone, FwIsWhole, FirstSteps
  <1>5. CASE UNCHANGED events /\ faults' \in 0..MaxFaults
    <2>1. OneArrival' /\ OneExit'
      BY <1>1, <1>2, <1>5 DEF IInv, Server, OneArrival, OneExit, At, Arrives, Exits
    <2> QED
      BY <1>1, <1>2, <1>4, <1>5, <2>1 DEF IInv, TypeOK, MemoryIsThere, Server
  <1>6. CASE ~del_server /\ Post("SERVER_EXIT", 0)
    <2>1. "SERVER_EXIT" \in DOMAIN Chain /\ 0 \in 0..MaxBoots
      BY WlfwAssumption DEF Chain
    <2>2. events' \in Seq(Events) /\ faults' \in 0..MaxFaults
      BY <1>6, <2>1, PostKeeps DEF IInv
    <2>3. CASE UNCHANGED events
      BY <1>5, <2>2, <2>3
    <2>4. CASE events' = Append(events, [ev |-> "SERVER_EXIT", of |-> 0])
      <3> DEFINE e == [ev |-> "SERVER_EXIT", of |-> 0]
      <3>1. e \in Events /\ e.ev = "SERVER_EXIT" /\ events' = Append(events, e)
        BY <2>1, <2>4 DEF Events
      <3> HIDE DEF e
      <3>2. /\ Len(events) \in Nat
            /\ DOMAIN events = 1..Len(events) /\ DOMAIN events' = 1..Len(events) + 1
            /\ \A i \in DOMAIN events : (Arrives(i)' <=> Arrives(i)) /\ (Exits(i)' <=> Exits(i))
            /\ \A k : k = Len(events) + 1 => Exits(k)' /\ ~Arrives(k)'
        BY <3>1, QueueGrows DEF IInv
      <3>3. ~At("exit") /\ \A i \in DOMAIN events : ~Exits(i)
        BY <1>6 DEF IInv, Server, OneExit
      <3>4. /\ connected' = connected /\ (At("connect")' <=> At("connect")) /\ ~At("exit")'
        BY <1>1, <3>3 DEF At
      <3>5. OneArrival'
        BY <3>2, <3>4 DEF IInv, Server, OneArrival
      <3>6. OneExit'
        BY <1>2, <3>2, <3>3, <3>4 DEF OneExit
      <3> QED
        BY <1>1, <1>2, <1>4, <2>2, <3>5, <3>6 DEF IInv, TypeOK, MemoryIsThere, Server
    <2> QED
      BY <1>6, <2>3, <2>4 DEF Post
  <1> QED
    BY <1>5, <1>6 DEF DelServer, IInv, TypeOK

-----------------------------------------------------------------------------
(***************************************************************************)
(* The theorems                                                            *)
(***************************************************************************)

LEMMA InitHolds == Init => IInv
  <1> SUFFICES ASSUME Init PROVE IInv
    OBVIOUS
  <1>1. /\ NoFw \in FwType /\ NoFw.state = "off" /\ NoFw.sent = {}
        /\ Resting \in [steps : Seq(Steps), of : 0..MaxBoots] /\ Resting.steps = <<>>
    <2>1. <<>> \in Seq(Steps) /\ 0 \in 0..MaxBoots
      BY WlfwAssumption
    <2>2. NoFw \in FwType /\ NoFw.state = "off" /\ NoFw.sent = {}
      BY WlfwAssumption DEF NoFw, FwType, Wanted
    <2> QED
      BY <2>1, <2>2 DEF Resting
  <1>2. TypeOK
    <2>1. wire \in Seq(Messages) /\ events \in Seq(Events)
      BY DEF Init
    <2>2. bits \in BitsType
      BY DEF Init, BitsType
    <2>3. fw_mem \in FwMemory /\ qdss_mem \in Memory
      BY WlfwAssumption DEF Init, Memory, FwMemory, Wanted
    <2>4. lookup \in BOOLEAN /\ connected \in BOOLEAN /\ del_server \in BOOLEAN /\ m3_mem \in BOOLEAN
      BY DEF Init
    <2>5. /\ peer \in 0..MaxBoots /\ boot \in 0..MaxBoots /\ faults \in 0..MaxFaults
          /\ traces \in 0..MaxTraces
      BY WlfwAssumption DEF Init
    <2>6. /\ fw \in FwType /\ worker \in [steps : Seq(Steps), of : 0..MaxBoots]
          /\ host \in {"none", "up", "disabling", "idle", "leaving"}
      BY <1>1 DEF Init
    <2> QED
      BY <2>1, <2>2, <2>3, <2>4, <2>5, <2>6 DEF TypeOK
  <1>3. MemoryIsThere
    BY <1>1 DEF Init, MemoryIsThere
  <1>4. /\ ~connected /\ ~At("connect") /\ ~At("exit")
        /\ DOMAIN events = {} /\ DOMAIN wire = {} /\ DOMAIN worker.steps = {}
    BY <1>1 DEF Init, At
  <1>5. FirstSteps /\ OneArrival /\ OneExit
    BY <1>4 DEF FirstSteps, OneArrival, OneExit
  <1>6. Alternate /\ Gone
    BY <1>4 DEF Alternate, Gone, Known, DelBetween, DelLast
  <1>7. FwIsWhole
    BY <1>1 DEF Init, FwIsWhole
  <1> QED
    BY <1>2, <1>3, <1>5, <1>6, <1>7 DEF IInv, Server

LEMMA StepHolds == IInv /\ [Next]_vars => IInv'
  <1> SUFFICES ASSUME IInv, [Next]_vars PROVE IInv'
    OBVIOUS
  <1>1. ASSUME TypeOK' /\ MemoryIsThere' /\ Aside PROVE IInv'
    BY <1>1, ServerStays DEF IInv
  <1>2. CASE Firmware
    BY <1>1, <1>2, FwAnnounceKeeps, OtherSteps DEF Firmware
  <1>3. CASE FwGone
    BY <1>3, FwGoneKeeps
  <1>4. CASE Crash
    BY <1>1, <1>4, OtherSteps
  <1>5. CASE QmiThread
    BY <1>5, NewServerKeeps, DelServerKeeps, IndicationSteps DEF QmiThread
  <1>6. CASE Worker
    <2>1. CASE TakeEvent
      BY <2>1, TakeEventKeeps
    <2>2. CASE ServerArrive
      BY <1>1, <2>2, ConnectKeeps, WorkerSteps DEF ServerArrive, IndRegister, HostCap
    <2>3. CASE ServerExit
      BY <2>3, ServerExitKeeps
    <2>4. CASE RequestMem
      BY <1>1, <2>4, WorkerSteps DEF RequestMem
    <2>5. CASE MemReady
      <3>1. TypeOK' /\ MemoryIsThere' /\ Aside
        BY <2>5, WorkerSteps DEF MemReady, TgtCap, Files, BdfDnld, M3Dnld, QdssDnld
      <3> QED
        BY <1>1, <3>1
    <2>6. CASE Ready
      <3>1. TypeOK' /\ MemoryIsThere' /\ Aside
        BY <2>6, WorkerSteps DEF Ready
      <3> QED
        BY <1>1, <3>1
    <2>7. CASE QdssEvents
      BY <1>1, <2>7, WorkerSteps DEF QdssEvents, TraceMemInfo
    <2>8. CASE Shutdown \/ PowerUp
      BY <1>1, <2>8, WorkerSteps
    <2> QED
      BY <1>6, <2>1, <2>2, <2>3, <2>4, <2>5, <2>6, <2>7, <2>8 DEF Worker
  <1>7. CASE Host \/ User
    BY <1>1, <1>7, OtherSteps DEF Host, User
  <1>8. CASE UNCHANGED vars
    <2>1. UNCHANGED <<fw, boot, wire, lookup, peer, connected, del_server, events, worker, bits,
                      fw_mem, m3_mem, qdss_mem, host, faults, traces>>
      BY <1>8 DEF vars, fwVars, linkVars, memVars
    <2>2. TypeOK' /\ MemoryIsThere'
      BY <2>1 DEF IInv, TypeOK, MemoryIsThere
    <2>3. Aside
      BY <2>1, FwStays DEF IInv, Aside, EventsAside, WorkerAside, WireAside
    <2> QED
      BY <1>1, <2>2, <2>3
  <1> QED
    BY <1>2, <1>3, <1>4, <1>5, <1>6, <1>7, <1>8 DEF Next

\* The inductive invariant holds of every behaviour of the client.
THEOREM Invariant == Spec => []IInv
  <1>1. Init => IInv
    BY InitHolds
  <1>2. IInv /\ [Next]_vars => IInv'
    BY StepHolds
  <1> QED
    BY <1>1, <1>2, PTL DEF Spec

\* Every variable has its type.
THEOREM TypeCorrect == Spec => []TypeOK
  <1>1. IInv => TypeOK
    BY DEF IInv
  <1> QED
    BY <1>1, Invariant, PTL

\* The assertion of cnss_wlfw_server_arrive (qmi.c:3018) is never hit: a server
\* never arrives while another is connected.
THEOREM OneServer == Spec => []ArrivesOnce
  <1>1. IInv => ArrivesOnce
    BY DEF IInv, Server, OneArrival, ArrivesOnce
  <1> QED
    BY <1>1, Invariant, PTL

\* The memory a firmware that is up was given is there.
THEOREM MemoryStaysThere == Spec => []MemoryIsThere
  <1>1. IInv => MemoryIsThere
    BY DEF IInv
  <1> QED
    BY <1>1, Invariant, PTL
-----------------------------------------------------------------------------
(***************************************************************************)
(* A host that is served: what is left of earlier boots, and what the      *)
(* firmware of this one has asked for                                      *)
(***************************************************************************)

\* The event that an indication is handled by, the indication without which the
\* firmware does not send it, and the steps its event is handled in.
Handled == [REQUEST_MEM |-> "REQUEST_MEM", FW_INIT_DONE |-> "FW_READY",
            QDSS_REQ_MEM |-> "QDSS_TRACE_REQ_MEM", QDSS_FREE |-> "QDSS_TRACE_FREE"]
Opens == [REQUEST_MEM |-> "REQUEST_MEM", FW_INIT_DONE |-> "FW_INIT_DONE",
          QDSS_REQ_MEM |-> "FW_INIT_DONE", QDSS_FREE |-> "FW_INIT_DONE"]
StepsOf == [REQUEST_MEM  |-> {"alloc_fw_mem", "respond_mem"},
            FW_INIT_DONE |-> {"fw_ready", "gen_speed", "dms_mac", "wlan_cfg", "wlan_mode"},
            QDSS_REQ_MEM |-> {"alloc_qdss_mem", "trace_mem"},
            QDSS_FREE    |-> {"free_qdss_mem"}]
Asking == {"REQUEST_MEM", "FW_INIT_DONE", "QDSS_REQ_MEM", "QDSS_FREE"}
SentOnce == {"REQUEST_MEM", "FW_INIT_DONE"}

\* Where an indication may be: on the wire, in the queue, with the worker.
OnWire(ind, i) == wire[i].ind = ind
Queued(ind, i) == events[i].ev = Handled[ind]
Working(ind)   == \E i \in DOMAIN worker.steps : worker.steps[i] \in StepsOf[ind]
Unheard(ind)   == \A i \in DOMAIN wire : ~OnWire(ind, i)
Unqueued(ind)  == \A i \in DOMAIN events : ~Queued(ind, i)
Idle(ind)      == Unqueued(ind) /\ ~Working(ind)
Nothing(ind)   == Unheard(ind) /\ Idle(ind)
AtOnce(ind) ==
    /\ \A i, j \in DOMAIN events : Queued(ind, i) /\ Queued(ind, j) => i = j
    /\ Unqueued(ind) \/ ~Working(ind)

\* The server of this boot: on the wire, in the queue, with the worker, connected.
Announced(i) == News(i) /\ wire[i].of = boot
Arriving(i)  == Arrives(i) /\ events[i].of = boot
Connecting   == At("connect") /\ worker.of = boot
Met == peer = boot \/ Connecting \/ \E i \in DOMAIN events : Arriving(i)

\* Nothing is of a later boot.
NoLater ==
    /\ peer <= boot /\ worker.of <= boot
    /\ \A i \in DOMAIN events : events[i].of <= boot
    /\ \A i \in DOMAIN wire : wire[i].of <= boot
    /\ ~connected => peer = 0
    /\ fw.state = "up" => boot > 0

\* The steps that end a chain.
LastSteps ==
    \A i \in DOMAIN worker.steps :
       worker.steps[i] \in {"wlan_mode", "respond_mem", "trace_mem"} => i = Len(worker.steps)

\* Of a firmware that is up: its server is announced before anything else;
AnnouncedFirst ==
    Met \/ (\E ind \in SentOnce : ind \in fw.sent) \/ (\E i \in DOMAIN wire : Announced(i))
       => "NEW" \in fw.sent
\* a server that was met goes only after an exit;
NoExit == Met => ~del_server /\ \A i \in DOMAIN wire : ~Dels(i)
\* behind its announcement there is no exit, and no indication of an earlier boot
\* on the wire, in the queue or with the worker when its turn comes;
NothingBehind ==
    \A i, j \in DOMAIN wire : Announced(i) /\ j > i =>
       ~Dels(j) /\ \A ind \in Asking : ~OnWire(ind, j)
NothingQueued ==
    \A i \in DOMAIN events : Arriving(i) => \A ind \in Asking :
       Unheard(ind) /\ \A j \in DOMAIN events : j > i => ~Queued(ind, j)
NothingThere == Connecting => \A ind \in Asking : Nothing(ind)
\* what the connected firmware has not asked for is nowhere;
NotAsked == peer = boot => \A ind \in Asking : Opens[ind] \notin fw.sent => Nothing(ind)
\* what it asks for once is on the wire, then in the queue, then with the worker;
OneOf(ind) ==
    /\ \A i, j \in DOMAIN wire : OnWire(ind, i) /\ OnWire(ind, j) => i = j
    /\ Unheard(ind) \/ Idle(ind)
    /\ AtOnce(ind)
AskedOnce == \A ind \in SentOnce : ind \in fw.sent => peer = boot /\ OneOf(ind)
\* and it traces nothing before it is ready.
NoTraceYet == "FW_INIT_DONE" \notin fw.sent =>
    ~fw.tracing /\ fw.traceMem = {} /\ "QDSS_REQ_MEM" \notin fw.sent

Fresh == fw.state = "up" =>
    /\ AnnouncedFirst /\ NoExit /\ NothingBehind /\ NothingQueued /\ NothingThere
    /\ NotAsked /\ AskedOnce /\ NoTraceYet

\* A host driver is there only when the firmware of this boot is ready and that
\* was handled.
Hosted ==
    /\ host # "none" =>
          /\ fw.state = "dead" \/ (fw.state = "up" /\ "FW_INIT_DONE" \in fw.sent)
          /\ Nothing("FW_INIT_DONE")
    /\ HostIsServed

Served == NoLater /\ LastSteps /\ Fresh /\ Hosted

\* What a step leaves of the wire, of the queue, with the worker and of what the
\* firmware said: nothing that was not there before it.
WireFrom(d) ==
    \A i \in DOMAIN wire' : wire'[i].ind \in Asking \cup NoServer =>
       i + d \in DOMAIN wire /\ wire[i + d] = wire'[i]
HandledBy(ev) == \E ind \in Asking : Handled[ind] = ev
EventsFrom ==
    \A i \in DOMAIN events' : HandledBy(events'[i].ev) \/ Arriving(i)' =>
       i \in DOMAIN events /\ events[i] = events'[i]
WorkerFrom ==
    /\ At("connect")' => At("connect") /\ worker'.of = worker.of
    /\ \A i \in DOMAIN worker'.steps : \E j \in DOMAIN worker.steps :
          worker.steps[j] = worker'.steps[i]
SaidFrom == \A ind \in SentOnce \cup {"NEW"} : ind \in fw'.sent <=> ind \in fw.sent

LEMMA AskingFacts ==
    /\ DOMAIN Handled = Asking /\ DOMAIN Opens = Asking /\ DOMAIN StepsOf = Asking
    /\ SentOnce \subseteq Asking /\ \A ind \in Asking : Opens[ind] \in SentOnce
    /\ \A ind \in SentOnce : Opens[ind] = ind
    /\ \A ind \in Asking : /\ Handled[ind] \in DOMAIN Chain \ NoServerEvent
                           /\ Handled[ind] \notin {"RECOVERY", "SHUTDOWN", "POWER_UP", "FW_MEM_READY"}
                           /\ ind \notin NoServer /\ ind # "FW_MEM_READY"
                           /\ "connect" \notin StepsOf[ind] /\ "exit" \notin StepsOf[ind]
    /\ \A a, b \in Asking : Handled[a] = Handled[b] => a = b
  BY DEF Handled, Opens, StepsOf, Asking, SentOnce, Chain, NoServerEvent, NoServer

LEMMA WireFades ==
    ASSUME TypeOK, TypeOK', boot' = boot, NEW d \in {0, 1}, WireFrom(d)
    PROVE  /\ \A i \in DOMAIN wire' :
                 /\ i \in Nat \ {0} /\ i + d \in Nat \ {0}
                 /\ News(i)' => i + d \in DOMAIN wire /\ News(i + d)
                 /\ Dels(i)' => i + d \in DOMAIN wire /\ Dels(i + d)
                 /\ Announced(i)' => i + d \in DOMAIN wire /\ Announced(i + d)
                 /\ \A ind \in Asking : OnWire(ind, i)' => i + d \in DOMAIN wire /\ OnWire(ind, i + d)
           /\ \A ind \in Asking : Unheard(ind) => Unheard(ind)'
           /\ \A ind \in Asking :
                 (\A i, j \in DOMAIN wire : OnWire(ind, i) /\ OnWire(ind, j) => i = j)
                 => (\A i, j \in DOMAIN wire' : OnWire(ind, i)' /\ OnWire(ind, j)' => i = j)
  <1>1. \A i \in DOMAIN wire' : i \in Nat \ {0} /\ i + d \in Nat \ {0}
    <2>1. wire' \in Seq(Messages)
      BY DEF TypeOK
    <2>2. DOMAIN wire' = 1..Len(wire') /\ Len(wire') \in Nat
      BY <2>1
    <2> QED
      BY <2>2
  <1>2. \A i \in DOMAIN wire' :
                 /\ News(i)' => i + d \in DOMAIN wire /\ News(i + d)
                 /\ Dels(i)' => i + d \in DOMAIN wire /\ Dels(i + d)
                 /\ Announced(i)' => i + d \in DOMAIN wire /\ Announced(i + d)
    BY DEF WireFrom, News, Dels, Announced, NoServer
  <1>3. \A i \in DOMAIN wire' : \A ind \in Asking :
           OnWire(ind, i)' => i + d \in DOMAIN wire /\ OnWire(ind, i + d)
    BY DEF WireFrom, OnWire
  <1>4. \A ind \in Asking : Unheard(ind) => Unheard(ind)'
    BY <1>3 DEF Unheard
  <1>5. \A ind \in Asking :
                 (\A i, j \in DOMAIN wire : OnWire(ind, i) /\ OnWire(ind, j) => i = j)
                 => (\A i, j \in DOMAIN wire' : OnWire(ind, i)' /\ OnWire(ind, j)' => i = j)
    <2> SUFFICES ASSUME NEW ind \in Asking,
                        \A i, j \in DOMAIN wire : OnWire(ind, i) /\ OnWire(ind, j) => i = j,
                        NEW i \in DOMAIN wire', NEW j \in DOMAIN wire', OnWire(ind, i)', OnWire(ind, j)'
                 PROVE  i = j
      OBVIOUS
    <2>1. i + d = j + d
      BY <1>3
    <2> QED
      BY <1>1, <2>1
  <1> QED
    BY <1>1, <1>2, <1>3, <1>4, <1>5

LEMMA EventsFade ==
    ASSUME TypeOK, TypeOK', boot' = boot, EventsFrom
    PROVE  /\ \A i \in DOMAIN events' :
                 /\ Arriving(i)' => i \in DOMAIN events /\ Arriving(i)
                 /\ \A ind \in Asking : Queued(ind, i)' => i \in DOMAIN events /\ Queued(ind, i)
           /\ \A ind \in Asking : Unqueued(ind) => Unqueued(ind)'
           /\ \A ind \in Asking :
                 (\A i, j \in DOMAIN events : Queued(ind, i) /\ Queued(ind, j) => i = j)
                 => (\A i, j \in DOMAIN events' : Queued(ind, i)' /\ Queued(ind, j)' => i = j)
  <1>1. \A i \in DOMAIN events' : Arriving(i)' => i \in DOMAIN events /\ Arriving(i)
    BY DEF EventsFrom, Arriving, Arrives
  <1>2. \A i \in DOMAIN events' : \A ind \in Asking :
           Queued(ind, i)' => i \in DOMAIN events /\ Queued(ind, i)
    BY DEF EventsFrom, Queued, HandledBy
  <1>3. \A ind \in Asking : Unqueued(ind) => Unqueued(ind)'
    BY <1>2 DEF Unqueued
  <1> QED
    BY <1>1, <1>2, <1>3

LEMMA WorkerFades ==
    ASSUME boot' = boot, WorkerFrom
    PROVE  /\ Connecting' => Connecting
           /\ \A ind \in Asking : ~Working(ind) => ~Working(ind)'
  <1>1. Connecting' => Connecting
    BY DEF WorkerFrom, Connecting
  <1>2. \A ind \in Asking : ~Working(ind) => ~Working(ind)'
    BY DEF WorkerFrom, Working
  <1> QED
    BY <1>1, <1>2

\* A step that brings nothing new keeps all that is said of the firmware.
LEMMA FreshFades ==
    ASSUME TypeOK, TypeOK', UNCHANGED <<boot, peer>>, del_server' => del_server \/ ~Met,
           NEW d \in {0, 1}, WireFrom(d), EventsFrom, WorkerFrom,
           fw'.state = "up" => fw.state = "up" /\ SaidFrom, Fresh, (fw'.state = "up" => NoTraceYet')
    PROVE  Fresh'
  <1> SUFFICES ASSUME fw'.state = "up" PROVE Fresh'
    BY DEF Fresh
  <1>1. /\ AnnouncedFirst /\ NoExit /\ NothingBehind /\ NothingQueued /\ NothingThere
        /\ NotAsked /\ AskedOnce /\ SaidFrom
    BY DEF Fresh
  <1>2.    /\ \A i \in DOMAIN wire' :
                 /\ i \in Nat \ {0} /\ i + d \in Nat \ {0}
                 /\ News(i)' => i + d \in DOMAIN wire /\ News(i + d)
                 /\ Dels(i)' => i + d \in DOMAIN wire /\ Dels(i + d)
                 /\ Announced(i)' => i + d \in DOMAIN wire /\ Announced(i + d)
                 /\ \A ind \in Asking : OnWire(ind, i)' => i + d \in DOMAIN wire /\ OnWire(ind, i + d)
           /\ \A ind \in Asking : Unheard(ind) => Unheard(ind)'
           /\ \A ind \in Asking :
                 (\A i, j \in DOMAIN wire : OnWire(ind, i) /\ OnWire(ind, j) => i = j)
                 => (\A i, j \in DOMAIN wire' : OnWire(ind, i)' /\ OnWire(ind, j)' => i = j)
    BY WireFades
  <1>3.    /\ \A i \in DOMAIN events' :
                 /\ Arriving(i)' => i \in DOMAIN events /\ Arriving(i)
                 /\ \A ind \in Asking : Queued(ind, i)' => i \in DOMAIN events /\ Queued(ind, i)
           /\ \A ind \in Asking : Unqueued(ind) => Unqueued(ind)'
           /\ \A ind \in Asking :
                 (\A i, j \in DOMAIN events : Queued(ind, i) /\ Queued(ind, j) => i = j)
                 => (\A i, j \in DOMAIN events' : Queued(ind, i)' /\ Queued(ind, j)' => i = j)
    BY EventsFade
  <1>4. (Connecting' => Connecting) /\ \A ind \in Asking : ~Working(ind) => ~Working(ind)'
    BY WorkerFades
  <1>5. Met' => Met
    BY <1>3, <1>4 DEF Met
  <1>6. \A ind \in Asking : Nothing(ind) => Nothing(ind)'
    BY <1>2, <1>3, <1>4 DEF Nothing, Idle
  <1>7. \A ind \in Asking : OneOf(ind) => OneOf(ind)'
    BY <1>2, <1>3, <1>4 DEF OneOf, AtOnce, Idle
  <1>8. AnnouncedFirst'
    <2>1. (\E i \in DOMAIN wire' : Announced(i)') => \E i \in DOMAIN wire : Announced(i)
      BY <1>2
    <2>2. (\E ind \in SentOnce : ind \in fw'.sent) => \E ind \in SentOnce : ind \in fw.sent
      BY <1>1 DEF SaidFrom
    <2>3. "NEW" \in fw.sent => "NEW" \in fw'.sent
      BY <1>1 DEF SaidFrom
    <2> QED
      BY <1>1, <1>5, <2>1, <2>2, <2>3 DEF AnnouncedFirst
  <1>9. NoExit'
    BY <1>1, <1>2, <1>5 DEF NoExit
  <1>10. NothingBehind'
    <2> SUFFICES ASSUME NEW i \in DOMAIN wire', NEW j \in DOMAIN wire', Announced(i)', j > i
                 PROVE  ~Dels(j)' /\ \A ind \in Asking : ~OnWire(ind, j)'
      BY DEF NothingBehind
    <2>1. i + d \in DOMAIN wire /\ Announced(i + d) /\ j + d > i + d
      BY <1>2
    <2> QED
      BY <1>1, <1>2, <2>1 DEF NothingBehind
  <1>11. NothingQueued'
    <2> SUFFICES ASSUME NEW i \in DOMAIN events', Arriving(i)', NEW ind \in Asking
                 PROVE  Unheard(ind)' /\ \A j \in DOMAIN events' : j > i => ~Queued(ind, j)'
      BY DEF NothingQueued
    <2> QED
      BY <1>1, <1>2, <1>3 DEF NothingQueued
  <1>12. NothingThere'
    BY <1>1, <1>4, <1>6 DEF NothingThere
  <1>13. NotAsked'
    BY <1>1, <1>6, AskingFacts DEF NotAsked, SaidFrom
  <1>14. AskedOnce'
    BY <1>1, <1>7, AskingFacts DEF AskedOnce, SaidFrom
  <1> QED
    BY <1>8, <1>9, <1>10, <1>11, <1>12, <1>13, <1>14 DEF Fresh

WireAsks ==
    \A i \in DOMAIN wire' : wire'[i].ind \in Asking =>
       \E j \in DOMAIN wire : wire[j].ind = wire'[i].ind

QuietEvents ==
    \/ UNCHANGED events
    \/ \E ev \in {"RECOVERY", "SHUTDOWN", "POWER_UP", "FW_MEM_READY"} :
          events' = Append(events, [ev |-> ev, of |-> 0])
QuietWorker == UNCHANGED worker \/ (worker.steps # <<>> /\ \E ok \in BOOLEAN : Go(ok))
QuietWire ==
    \/ UNCHANGED wire
    \/ wire # <<>> /\ wire' = Tail(wire)
    \/ fw'.state # "up" /\ wire' = Append(wire, Message("DEL", <<>>))
QuietFw ==
    fw' = fw \/ fw'.state # "up" \/ \E req \in DOMAIN WaitsFor : Accepts(req) /\ fw' = Done(req)
QuietHost == host' # "none" =>
    /\ host # "none"
    /\ \/ fw'.state = "dead"
       \/ fw'.state = fw.state /\ ("FW_INIT_DONE" \in fw.sent => "FW_INIT_DONE" \in fw'.sent)
    /\ host' = "up" => host = "up" /\ (fw'.state = "dead" \/ fw'.accepted >= fw.accepted)

\* Most steps bring no indication, no event of one and no server.
Quiet ==
    /\ UNCHANGED <<boot, peer, connected, del_server>>
    /\ QuietEvents /\ QuietWorker /\ QuietWire /\ QuietFw

LEMMA NothingFades ==
    ASSUME TypeOK, TypeOK', boot' = boot, WireAsks, EventsFrom, WorkerFrom
    PROVE  \A ind \in Asking : Nothing(ind) => Nothing(ind)'
  <1>1. \A ind \in Asking : Unheard(ind) => Unheard(ind)'
    BY DEF WireAsks, Unheard, OnWire
  <1>2. \A ind \in Asking : Unqueued(ind) => Unqueued(ind)'
    BY EventsFade
  <1>3. \A ind \in Asking : ~Working(ind) => ~Working(ind)'
    BY WorkerFades
  <1> QED
    BY <1>1, <1>2, <1>3 DEF Nothing, Idle

LEMMA QuietEventsFrom ==
    ASSUME TypeOK, NoLater, boot' = boot, QuietEvents
    PROVE  EventsFrom /\ \A i \in DOMAIN events' : events'[i].of <= boot
  <1>1. CASE UNCHANGED events
    BY <1>1 DEF EventsFrom, NoLater
  <1>2. ASSUME NEW ev \in {"RECOVERY", "SHUTDOWN", "POWER_UP", "FW_MEM_READY"},
               events' = Append(events, [ev |-> ev, of |-> 0])
        PROVE  EventsFrom /\ \A i \in DOMAIN events' : events'[i].of <= boot
    <2> DEFINE e == [ev |-> ev, of |-> 0]
    <2>1. e.ev = ev /\ e.of = 0 /\ e \in Events /\ events \in Seq(Events) /\ 0 <= boot
      BY WlfwAssumption DEF Events, Chain, TypeOK
    <2>2. events' = Append(events, e)
      BY <1>2
    <2> HIDE DEF e
    <2>3. /\ Len(events) \in Nat /\ DOMAIN events = 1..Len(events)
          /\ DOMAIN events' = 1..Len(events) + 1
          /\ \A i \in DOMAIN events : events'[i] = events[i]
          /\ events'[Len(events) + 1] = e
      BY <2>1, <2>2, Appended
    <2>4. ~HandledBy(ev) /\ ev # "SERVER_ARRIVE"
      BY AskingFacts DEF HandledBy
    <2>5. EventsFrom
      BY <2>1, <2>3, <2>4 DEF EventsFrom, Arriving, Arrives
    <2> QED
      BY <2>1, <2>3, <2>5 DEF NoLater
  <1> QED
    BY <1>1, <1>2 DEF QuietEvents

LEMMA QuietWorkerFrom ==
    ASSUME TypeOK, FirstSteps, NoLater, LastSteps, QuietWorker
    PROVE  WorkerFrom /\ LastSteps' /\ worker'.of <= boot
  <1>1. CASE UNCHANGED worker
    BY <1>1 DEF WorkerFrom, LastSteps, NoLater, At
  <1>2. ASSUME NEW ok \in BOOLEAN, worker.steps # <<>>, Go(ok)
        PROVE  WorkerFrom /\ LastSteps' /\ worker'.of <= boot
    <2>1. ~At("connect")' /\ 0 <= boot /\ worker.steps \in Seq(Steps)
      BY <1>2, GoKeeps, WlfwAssumption DEF TypeOK
    <2>2. CASE worker' = Resting
      <3>1. worker'.steps = <<>> /\ worker'.of = 0 /\ DOMAIN worker'.steps = {}
        BY <2>2 DEF Resting
      <3> QED
        BY <2>1, <3>1 DEF WorkerFrom, LastSteps
    <2>3. CASE worker' = [worker EXCEPT !.steps = Tail(@)]
      <3>1. worker'.steps = Tail(worker.steps) /\ worker'.of = worker.of
        BY <2>3 DEF TypeOK
      <3>2. /\ Len(worker.steps) \in Nat /\ DOMAIN worker'.steps = 1..Len(worker.steps) - 1
            /\ Len(worker'.steps) = Len(worker.steps) - 1
            /\ \A i \in DOMAIN worker'.steps :
                  i + 1 \in DOMAIN worker.steps /\ worker'.steps[i] = worker.steps[i + 1]
        BY <1>2, <2>1, <3>1, Taken
      <3>3. WorkerFrom
        BY <2>1, <3>2 DEF WorkerFrom
      <3>4. LastSteps'
        BY <3>2 DEF LastSteps
      <3> QED
        BY <3>1, <3>3, <3>4 DEF NoLater
    <2> QED
      BY <1>2, <2>2, <2>3 DEF Go
  <1> QED
    BY <1>1, <1>2 DEF QuietWorker

LEMMA QuietWireFrom ==
    ASSUME TypeOK, NoLater, boot' = boot, QuietWire
    PROVE  /\ WireAsks /\ \A i \in DOMAIN wire' : wire'[i].of <= boot
           /\ fw'.state = "up" => \E d \in {0, 1} : WireFrom(d)
  <1>1. CASE UNCHANGED wire
    <2>1. wire' \in Seq(Messages)
      BY <1>1 DEF TypeOK
    <2>2. \A i \in DOMAIN wire' : i \in Nat
      BY <2>1
    <2>3. WireFrom(0)
      BY <1>1, <2>2 DEF WireFrom
    <2> QED
      BY <1>1, <2>3 DEF WireAsks, NoLater
  <1>2. CASE wire # <<>> /\ wire' = Tail(wire)
    <2>1. \A i \in DOMAIN wire' : i + 1 \in DOMAIN wire /\ wire'[i] = wire[i + 1]
      BY <1>2, Taken DEF TypeOK
    <2>2. WireFrom(1)
      BY <2>1 DEF WireFrom
    <2> QED
      BY <2>1, <2>2 DEF WireAsks, NoLater
  <1>3. CASE fw'.state # "up" /\ wire' = Append(wire, Message("DEL", <<>>))
    <2> DEFINE m == Message("DEL", <<>>)
    <2>1. m.ind = "DEL" /\ m.of = boot /\ m \in Messages /\ wire \in Seq(Messages) /\ boot \in Nat
      BY WlfwAssumption DEF Messages, Message, Indications, TypeOK, Wanted
    <2>2. wire' = Append(wire, m)
      BY <1>3
    <2> HIDE DEF m
    <2>3. /\ Len(wire) \in Nat /\ DOMAIN wire = 1..Len(wire)
          /\ DOMAIN wire' = 1..Len(wire) + 1
          /\ \A i \in DOMAIN wire : wire'[i] = wire[i]
          /\ wire'[Len(wire) + 1] = m
      BY <2>1, <2>2, Appended
    <2>4. "DEL" \notin Asking
      BY DEF Asking
    <2>5. WireAsks
      BY <2>1, <2>3, <2>4 DEF WireAsks
    <2> QED
      BY <1>3, <2>1, <2>3, <2>5 DEF NoLater
  <1> QED
    BY <1>1, <1>2, <1>3 DEF QuietWire

\* What a request that is accepted changes.
LEMMA DoneSays ==
    ASSUME TypeOK, NEW req \in DOMAIN WaitsFor, Accepts(req), fw' = Done(req)
    PROVE  /\ fw.state = "up" /\ fw'.state = "up" /\ SaidFrom /\ fw'.asked = fw.asked
           /\ NoTraceYet => NoTraceYet'
           /\ req # "mode_off" => fw'.accepted >= fw.accepted
           /\ req = "wlan_mode" => fw'.accepted = 7
  <1> DEFINE accepted == CASE req = "mode_off" /\ fw.accepted = 7 -> 5
                             [] req \in DOMAIN Protocol /\ Protocol[req] > fw.accepted -> Protocol[req]
                             [] OTHER -> fw.accepted
             mem == IF req = "respond_mem" THEN fw_mem.segs ELSE fw.mem
             tracing == CASE req = "trace_on" -> TRUE
                            [] req \in {"trace_off", "mode_off"} -> FALSE
                            [] OTHER -> fw.tracing
             traceMem == CASE req = "trace_mem" -> 1..qdss_mem.len
                             [] req = "mode_off" -> {}
                             [] OTHER -> fw.traceMem
             sent == IF req \in {"trace_off", "mode_off"} THEN fw.sent \ {"QDSS_REQ_MEM"} ELSE fw.sent
  <1>1. fw \in FwType /\ fw.accepted \in 0..7
    BY DEF TypeOK, FwType
  <1>2. fw' = [state |-> fw.state, accepted |-> accepted, sent |-> sent, asked |-> fw.asked,
               mem |-> mem, tracing |-> tracing, traceMem |-> traceMem]
    BY <1>1 DEF Done, FwType
  <1>3. fw.state = "up" /\ WaitsFor[req] \in fw.sent
        /\ (req \in DOMAIN Protocol => Protocol[req] <= fw.accepted + 1)
    BY DEF Accepts
  <1>4. /\ DOMAIN Protocol = {"ind_register", "host_cap", "respond_mem", "bdf", "m3_info",
                              "wlan_cfg", "wlan_mode"}
        /\ \A r \in DOMAIN Protocol : Protocol[r] \in 1..7
        /\ Protocol["wlan_mode"] = 7
    BY DEF Protocol
  <1>5. req # "mode_off" => accepted >= fw.accepted
    BY <1>1, <1>4
  <1>6. req = "wlan_mode" => accepted = 7
    BY <1>1, <1>3, <1>4
  <1>7. \A ind \in SentOnce \cup {"NEW"} : ind \in sent <=> ind \in fw.sent
    BY DEF SentOnce
  <1>8. NoTraceYet => ("FW_INIT_DONE" \notin sent =>
               ~tracing /\ traceMem = {} /\ "QDSS_REQ_MEM" \notin sent)
    <2> SUFFICES ASSUME NoTraceYet, "FW_INIT_DONE" \notin sent
                 PROVE  ~tracing /\ traceMem = {} /\ "QDSS_REQ_MEM" \notin sent
      OBVIOUS
    <2>1. "FW_INIT_DONE" \notin fw.sent
      BY DEF sent
    <2>2. ~fw.tracing /\ fw.traceMem = {} /\ "QDSS_REQ_MEM" \notin fw.sent
      BY <2>1 DEF NoTraceYet
    <2>3. req # "trace_on" /\ req # "trace_mem"
      BY <1>3, <2>1, <2>2 DEF WaitsFor
    <2>4. ~tracing
      BY <2>2, <2>3
    <2>5. traceMem = {}
      BY <2>2, <2>3
    <2> QED
      BY <2>2, <2>4, <2>5
  <1> HIDE DEF accepted, mem, tracing, traceMem, sent
  <1>9. /\ fw'.state = fw.state /\ fw'.accepted = accepted /\ fw'.sent = sent /\ fw'.asked = fw.asked
        /\ fw'.tracing = tracing /\ fw'.traceMem = traceMem
    BY <1>2
  <1>10. SaidFrom
    BY <1>7, <1>9 DEF SaidFrom
  <1>11. NoTraceYet => NoTraceYet'
    BY <1>8, <1>9 DEF NoTraceYet
  <1> QED
    BY <1>3, <1>5, <1>6, <1>9, <1>10, <1>11

LEMMA QuietFwSays ==
    ASSUME TypeOK, QuietFw
    PROVE  fw'.state = "up" => fw.state = "up" /\ SaidFrom /\ (NoTraceYet => NoTraceYet')
  <1>1. CASE fw' = fw
    BY <1>1 DEF SaidFrom, NoTraceYet
  <1>2. ASSUME NEW req \in DOMAIN WaitsFor, Accepts(req), fw' = Done(req)
        PROVE  fw.state = "up" /\ SaidFrom /\ (NoTraceYet => NoTraceYet')
    BY <1>2, DoneSays
  <1> QED
    BY <1>1, <1>2 DEF QuietFw

LEMMA HostedStays ==
    ASSUME TypeOK, TypeOK', Hosted, QuietHost, Nothing("FW_INIT_DONE") => Nothing("FW_INIT_DONE")'
    PROVE  Hosted'
  <1>1. /\ host # "none" =>
              /\ fw.state = "dead" \/ (fw.state = "up" /\ "FW_INIT_DONE" \in fw.sent)
              /\ Nothing("FW_INIT_DONE")
        /\ host = "up" => fw.state = "dead" \/ fw.accepted = 7
    BY DEF Hosted, HostIsServed
  <1>2. fw.accepted \in 0..7 /\ fw'.accepted \in 0..7
    BY DEF TypeOK, FwType
  <1>3. host' # "none" => /\ fw'.state = "dead" \/ (fw'.state = "up" /\ "FW_INIT_DONE" \in fw'.sent)
                          /\ Nothing("FW_INIT_DONE")'
    BY <1>1 DEF QuietHost
  <1>4. HostIsServed'
    <2> SUFFICES ASSUME host' = "up", fw'.state # "dead" PROVE fw'.accepted = 7
      BY DEF HostIsServed
    <2>1. fw'.state = fw.state /\ host = "up" /\ fw'.accepted >= fw.accepted
      BY DEF QuietHost
    <2> QED
      BY <1>1, <1>2, <2>1
  <1> QED
    BY <1>3, <1>4 DEF Hosted

\* Such a step keeps the invariant.
LEMMA QuietRest ==
    ASSUME IInv, TypeOK', Served, Quiet
    PROVE  NoLater' /\ LastSteps' /\ Fresh' /\ (Nothing("FW_INIT_DONE") => Nothing("FW_INIT_DONE")')
  <1>1. TypeOK /\ FirstSteps /\ NoLater /\ LastSteps /\ Fresh /\ Hosted
    BY DEF IInv, Server, Served
  <1>2. UNCHANGED <<boot, peer, connected, del_server>> /\ boot' = boot
    BY DEF Quiet
  <1>3. EventsFrom /\ \A i \in DOMAIN events' : events'[i].of <= boot
    BY <1>1, <1>2, QuietEventsFrom DEF Quiet
  <1>4. WorkerFrom /\ LastSteps' /\ worker'.of <= boot
    BY <1>1, <1>2, QuietWorkerFrom DEF Quiet
  <1>5. /\ WireAsks /\ \A i \in DOMAIN wire' : wire'[i].of <= boot
        /\ fw'.state = "up" => \E d \in {0, 1} : WireFrom(d)
    BY <1>1, <1>2, QuietWireFrom DEF Quiet
  <1>6. fw'.state = "up" => fw.state = "up" /\ SaidFrom /\ (NoTraceYet => NoTraceYet')
    BY <1>1, QuietFwSays DEF Quiet
  <1>7. NoLater'
    BY <1>1, <1>2, <1>3, <1>4, <1>5, <1>6 DEF NoLater
  <1>8. Fresh'
    <2>1. CASE fw'.state = "up"
      <3>1. PICK d \in {0, 1} : WireFrom(d)
        BY <1>5, <2>1
      <3>2. fw.state = "up" /\ SaidFrom /\ NoTraceYet'
        BY <1>1, <1>6, <2>1 DEF Fresh
      <3> QED
        BY <1>1, <1>2, <1>3, <1>4, <3>1, <3>2, FreshFades
    <2>2. CASE fw'.state # "up"
      BY <2>2 DEF Fresh
    <2> QED
      BY <2>1, <2>2
  <1>9. Nothing("FW_INIT_DONE") => Nothing("FW_INIT_DONE")'
    BY <1>1, <1>2, <1>3, <1>4, <1>5, NothingFades DEF Asking
  <1> QED
    BY <1>4, <1>7, <1>8, <1>9

LEMMA QuietKeeps ==
    ASSUME IInv, TypeOK', Served, Quiet, QuietHost
    PROVE  Served'
  BY QuietRest, HostedStays DEF IInv, Served

LEMMA RequestQuiet ==
    ASSUME TypeOK, NEW req \in DOMAIN WaitsFor, NEW ok \in BOOLEAN, Request(req, ok)
    PROVE  /\ QuietFw /\ fw'.state = fw.state
           /\ "FW_INIT_DONE" \in fw.sent => "FW_INIT_DONE" \in fw'.sent
           /\ req # "mode_off" => fw'.accepted >= fw.accepted
  <1>1. fw' = fw \/ (Accepts(req) /\ fw' = Done(req))
    BY DEF Request
  <1>2. CASE fw' = fw
    BY <1>2 DEF QuietFw, TypeOK, FwType
  <1>3. CASE Accepts(req) /\ fw' = Done(req)
    BY <1>3, DoneSays DEF QuietFw, SaidFrom, SentOnce
  <1> QED
    BY <1>1, <1>2, <1>3

LEMMA SameFwQuiet == TypeOK /\ UNCHANGED <<fw, host>> => QuietFw /\ QuietHost
  BY DEF TypeOK, FwType, QuietFw, QuietHost

\* The steps of a request, and of one that has no other effect on the server.
LEMMA SendOrStopQuiet ==
    ASSUME IInv, NEW req \in DOMAIN WaitsFor \ {"mode_off"}, SendOrStop(req)
    PROVE  Quiet /\ QuietHost
  <1>1. PICK ok \in BOOLEAN : Request(req, ok) /\ Go(ok) /\ At(req)
    BY DEF SendOrStop
  <1>2. UNCHANGED <<boot, wire, linkVars, events, bits, memVars, host, traces>>
    BY DEF SendOrStop
  <1>3. QuietFw /\ QuietHost
    BY <1>1, <1>2, RequestQuiet DEF IInv, QuietHost
  <1> QED
    BY <1>1, <1>2, <1>3 DEF Quiet, QuietEvents, QuietWorker, QuietWire, linkVars, At

\* A step of the worker that changes neither wire, queue nor firmware.
LEMMA StepQuiet ==
    ASSUME IInv, UNCHANGED <<fw, boot, wire, linkVars, events, host>>,
           worker.steps # <<>>, NEW ok \in BOOLEAN, Go(ok)
    PROVE  Quiet /\ QuietHost
  <1>1. QuietFw /\ QuietHost
    BY SameFwQuiet DEF IInv
  <1> QED
    BY <1>1 DEF Quiet, QuietEvents, QuietWorker, QuietWire, linkVars

LEMMA WorkerQuiet ==
    ASSUME IInv,
           \/ FwMemReady \/ FwReady \/ GenSpeed \/ OptionalFiles("files")
           \/ OptionalFiles("qdss_cfg") \/ AllocFwMem \/ LoadM3
           \/ AllocQdssMem \/ FreeQdssMem
    PROVE  Quiet /\ QuietHost
  <1>1. UNCHANGED <<fw, boot, wire, linkVars, events, host>>
    BY DEF FwMemReady, FwReady, GenSpeed, OptionalFiles, AllocFwMem, LoadM3, AllocQdssMem,
           FreeQdssMem, fwVars
  <1>2. worker.steps # <<>> /\ \E ok \in BOOLEAN : Go(ok)
    BY DEF FwMemReady, FwReady, GenSpeed, OptionalFiles, AllocFwMem, LoadM3, AllocQdssMem,
           FreeQdssMem, At
  <1> QED
    BY <1>1, <1>2, StepQuiet

LEMMA WorkerRequestsQuiet ==
    ASSUME IInv,
           \/ IndRegister \/ HostCap \/ RespondMem \/ TgtCap \/ BdfDnld \/ M3Dnld
           \/ SetupDmsMac \/ TraceMemInfo
    PROVE  Quiet /\ QuietHost
  <1>1. {"ind_register", "host_cap", "respond_mem", "tgt_cap", "bdf", "m3_info", "mac_addr",
         "trace_mem"} \subseteq DOMAIN WaitsFor \ {"mode_off"}
    BY DEF WaitsFor
  <1>2. CASE SendOrStop("ind_register") \/ HostCap \/ TgtCap \/ BdfDnld \/ M3Dnld \/ TraceMemInfo
    BY <1>1, <1>2, SendOrStopQuiet DEF HostCap, TgtCap, BdfDnld, M3Dnld, TraceMemInfo
  <1>3. CASE RespondMem
    <2>1. /\ worker.steps # <<>> /\ UNCHANGED <<boot, wire, linkVars, events, host>>
          /\ \E ok \in BOOLEAN : Go(ok) /\ (UNCHANGED fw \/ Request("respond_mem", ok))
      BY <1>3 DEF RespondMem, At
    <2>2. QuietFw /\ QuietHost
      BY <1>1, <2>1, RequestQuiet, SameFwQuiet DEF IInv, QuietHost
    <2> QED
      BY <2>1, <2>2 DEF Quiet, QuietEvents, QuietWorker, QuietWire, linkVars
  <1>4. CASE SetupDmsMac
    <2>1. /\ worker.steps # <<>> /\ UNCHANGED <<boot, wire, linkVars, events, host>> /\ Go(TRUE)
          /\ UNCHANGED fw \/ \E ok \in BOOLEAN : Request("mac_addr", ok)
      BY <1>4 DEF SetupDmsMac, At
    <2>2. QuietFw /\ QuietHost
      BY <1>1, <2>1, RequestQuiet, SameFwQuiet DEF IInv, QuietHost
    <2> QED
      BY <2>1, <2>2 DEF Quiet, QuietEvents, QuietWorker, QuietWire, linkVars
  <1>5. CASE IndRegister /\ ~SendOrStop("ind_register")
    <2>1. At("ind_register") /\ Go(FALSE) /\ UNCHANGED <<fw, boot, wire, linkVars, events, host>>
      BY <1>5 DEF IndRegister, fwVars
    <2> QED
      BY <2>1, StepQuiet DEF At
  <1> QED
    BY <1>2, <1>3, <1>4, <1>5

LEMMA PowerOffQuiet ==
    ASSUME PowerOff
    PROVE  QuietFw /\ QuietWire /\ fw'.state = "off"
  BY DEF PowerOff, NoFw, QuietFw, QuietWire

LEMMA ShutdownQuiet == IInv /\ (Shutdown \/ Crash) => Quiet /\ QuietHost
  <1> SUFFICES ASSUME IInv, Shutdown \/ Crash PROVE Quiet /\ QuietHost
    OBVIOUS
  <1>1. CASE Shutdown
    <2>1. /\ worker.steps # <<>> /\ Go(TRUE) /\ PowerOff /\ host' = "none"
          /\ UNCHANGED <<boot, linkVars, events>>
      BY <1>1 DEF Shutdown, At
    <2>2. QuietFw /\ QuietWire
      BY <2>1, PowerOffQuiet
    <2> QED
      BY <2>1, <2>2 DEF Quiet, QuietHost, QuietEvents, QuietWorker, linkVars
  <1>2. CASE Crash
    <2>1. /\ events' = Append(events, [ev |-> "RECOVERY", of |-> 0])
          /\ fw' = [fw EXCEPT !.state = "dead"]
          /\ UNCHANGED <<boot, wire, linkVars, worker, host>>
      BY <1>2 DEF Crash
    <2>2. fw'.state = "dead"
      BY <2>1 DEF IInv, TypeOK, FwType
    <2>3. QuietFw
      BY <2>2 DEF QuietFw
    <2>4. QuietHost
      BY <2>1, <2>2 DEF QuietHost
    <2>5. QuietEvents
      BY <2>1 DEF QuietEvents
    <2> QED
      BY <2>1, <2>3, <2>4, <2>5 DEF Quiet, QuietWorker, QuietWire, linkVars
  <1> QED
    BY <1>1, <1>2

LEMMA HostQuiet ==
    ASSUME IInv,
           WlanDisable \/ WlanDisableFree \/ Leave \/ Come \/ SetGenSpeed \/ TraceStart \/ TraceStop
    PROVE  Quiet /\ QuietHost
  <1>1. {"mode_off", "trace_on", "trace_off"} \subseteq DOMAIN WaitsFor
    BY DEF WaitsFor
  <1>2. CASE WlanDisable
    <2>1. /\ host = "up" /\ host' = "disabling" /\ UNCHANGED <<boot, wire, linkVars, events, worker>>
          /\ UNCHANGED fw \/ \E ok \in BOOLEAN : Request("mode_off", ok)
      BY <1>2 DEF WlanDisable, Send, fwVars
    <2>2. /\ QuietFw /\ fw'.state = fw.state
          /\ "FW_INIT_DONE" \in fw.sent => "FW_INIT_DONE" \in fw'.sent
      BY <1>1, <2>1, RequestQuiet DEF IInv, QuietFw
    <2>3. QuietHost
      BY <2>1, <2>2 DEF QuietHost
    <2> QED
      BY <2>1, <2>2, <2>3 DEF Quiet, QuietEvents, QuietWorker, QuietWire, linkVars
  <1>3. CASE WlanDisableFree
    <2>1. /\ host = "disabling" /\ host' = "idle"
          /\ UNCHANGED <<fw, boot, wire, linkVars, events, worker>>
      BY <1>3 DEF WlanDisableFree, fwVars
    <2> QED
      BY <2>1 DEF Quiet, QuietFw, QuietHost, QuietEvents, QuietWorker, QuietWire, linkVars
  <1>4. CASE Leave
    <2>1. /\ host = "idle" /\ host' = "leaving" /\ Post("SHUTDOWN", 0)
          /\ UNCHANGED <<fw, boot, wire, linkVars, worker>>
      BY <1>4 DEF Leave, fwVars
    <2> QED
      BY <2>1 DEF Post, Quiet, QuietFw, QuietHost, QuietEvents, QuietWorker, QuietWire, linkVars
  <1>5. CASE Come
    <2>1. host' = "none" /\ Post("POWER_UP", 0) /\ UNCHANGED <<fw, boot, wire, linkVars, worker>>
      BY <1>5 DEF Come, fwVars
    <2> QED
      BY <2>1 DEF Post, Quiet, QuietFw, QuietHost, QuietEvents, QuietWorker, QuietWire, linkVars
  <1>6. CASE SetGenSpeed
    <2>1. UNCHANGED <<fw, host, boot, wire, linkVars, worker, events>>
      BY <1>6 DEF SetGenSpeed, fwVars
    <2>2. QuietFw /\ QuietHost
      BY <2>1, SameFwQuiet DEF IInv
    <2> QED
      BY <2>1, <2>2 DEF Quiet, QuietEvents, QuietWorker, QuietWire, linkVars
  <1>7. CASE TraceStart \/ TraceStop
    <2>1. /\ UNCHANGED <<host, boot, wire, linkVars, worker, events>>
          /\ \E req \in {"trace_on", "trace_off"}, ok \in BOOLEAN : Request(req, ok)
      BY <1>7 DEF TraceStart, TraceStop, Send
    <2>2. QuietFw /\ QuietHost
      BY <1>1, <2>1, RequestQuiet DEF IInv, QuietHost
    <2> QED
      BY <2>1, <2>2 DEF Quiet, QuietEvents, QuietWorker, QuietWire, linkVars
  <1> QED
    BY <1>2, <1>3, <1>4, <1>5, <1>6, <1>7

\* Which chain a step belongs to.
LEMMA ChainHandles ==
    \A ev \in DOMAIN Chain :
       /\ \A ind \in Asking : \A i \in DOMAIN Chain[ev] : Chain[ev][i] \in StepsOf[ind] =>
              ev = Handled[ind]
       /\ \A i \in DOMAIN Chain[ev] :
             Chain[ev][i] \in {"wlan_mode", "respond_mem", "trace_mem"} => i = Len(Chain[ev])
  <1> TAKE ev \in DOMAIN Chain
  <1>1. DOMAIN Chain = {"SERVER_ARRIVE", "SERVER_EXIT", "REQUEST_MEM", "FW_MEM_READY", "FW_READY",
                        "QDSS_TRACE_REQ_MEM", "QDSS_TRACE_FREE", "RECOVERY", "SHUTDOWN", "POWER_UP"}
    BY DEF Chain
  <1>2. /\ StepsOf["REQUEST_MEM"] = {"alloc_fw_mem", "respond_mem"}
        /\ StepsOf["FW_INIT_DONE"] = {"fw_ready", "gen_speed", "dms_mac", "wlan_cfg", "wlan_mode"}
        /\ StepsOf["QDSS_REQ_MEM"] = {"alloc_qdss_mem", "trace_mem"}
        /\ StepsOf["QDSS_FREE"] = {"free_qdss_mem"}
        /\ Handled["REQUEST_MEM"] = "REQUEST_MEM" /\ Handled["FW_INIT_DONE"] = "FW_READY"
        /\ Handled["QDSS_REQ_MEM"] = "QDSS_TRACE_REQ_MEM" /\ Handled["QDSS_FREE"] = "QDSS_TRACE_FREE"
    BY DEF StepsOf, Handled
  <1>3. CASE ev = "SERVER_ARRIVE"
    <2>1. Chain[ev] = <<"connect", "ind_register", "host_cap">>
      BY <1>3 DEF Chain
    <2> QED
      BY <1>2, <1>3, <2>1 DEF Asking
  <1>4. CASE ev = "SERVER_EXIT"
    <2>1. Chain[ev] = <<"exit">>
      BY <1>4 DEF Chain
    <2> QED
      BY <1>2, <1>4, <2>1 DEF Asking
  <1>5. CASE ev = "REQUEST_MEM"
    <2>1. Chain[ev] = <<"alloc_fw_mem", "respond_mem">>
      BY <1>5 DEF Chain
    <2> QED
      BY <1>2, <1>5, <2>1 DEF Asking
  <1>6. CASE ev = "FW_MEM_READY"
    <2>1. Chain[ev] = <<"mem_ready", "tgt_cap", "files", "bdf", "load_m3", "m3_info", "qdss_cfg">>
      BY <1>6 DEF Chain
    <2> QED
      BY <1>2, <1>6, <2>1 DEF Asking
  <1>7. CASE ev = "FW_READY"
    <2>1. Chain[ev] = <<"fw_ready", "gen_speed", "dms_mac", "wlan_cfg", "wlan_mode">>
      BY <1>7 DEF Chain
    <2> QED
      BY <1>2, <1>7, <2>1 DEF Asking
  <1>8. CASE ev = "QDSS_TRACE_REQ_MEM"
    <2>1. Chain[ev] = <<"alloc_qdss_mem", "trace_mem">>
      BY <1>8 DEF Chain
    <2> QED
      BY <1>2, <1>8, <2>1 DEF Asking
  <1>9. CASE ev = "QDSS_TRACE_FREE"
    <2>1. Chain[ev] = <<"free_qdss_mem">>
      BY <1>9 DEF Chain
    <2> QED
      BY <1>2, <1>9, <2>1 DEF Asking
  <1>10. CASE ev = "RECOVERY"
    <2>1. Chain[ev] = <<"shutdown", "power_up">>
      BY <1>10 DEF Chain
    <2> QED
      BY <1>2, <1>10, <2>1 DEF Asking
  <1>11. CASE ev = "SHUTDOWN"
    <2>1. Chain[ev] = <<"shutdown">>
      BY <1>11 DEF Chain
    <2> QED
      BY <1>2, <1>11, <2>1 DEF Asking
  <1>12. CASE ev = "POWER_UP"
    <2>1. Chain[ev] = <<"power_up">>
      BY <1>12 DEF Chain
    <2> QED
      BY <1>2, <1>12, <2>1 DEF Asking
  <1> QED
    BY <1>1, <1>3, <1>4, <1>5, <1>6, <1>7, <1>8, <1>9, <1>10, <1>11, <1>12

\* The probe: the firmware serves the host driver, or is powered off before there
\* is one.
LEMMA ProbeServed ==
    ASSUME IInv, TypeOK', Served, NEW req \in {"wlan_cfg", "wlan_mode"},
           ProbeStep(req, req = "wlan_mode")
    PROVE  Served'
  <1>1. /\ At(req) /\ worker.steps # <<>> /\ UNCHANGED <<boot, linkVars, events>>
        /\ req \in DOMAIN WaitsFor \ {"mode_off"} /\ worker.steps \in Seq(Steps)
    BY DEF ProbeStep, At, WaitsFor, IInv, TypeOK
  <1>2. PICK ok \in BOOLEAN :
          \/ /\ ok /\ Request(req, ok) /\ Go(TRUE)
             /\ host' = IF req = "wlan_mode" THEN "up" ELSE host
             /\ UNCHANGED wire
          \/ /\ ~ok /\ Request(req, ok) /\ Go(FALSE) /\ UNCHANGED <<wire, host>>
          \/ PowerOff /\ Go(FALSE) /\ UNCHANGED host
    BY DEF ProbeStep
  <1>3. 1 \in DOMAIN worker.steps /\ worker.steps[1] = req /\ Len(worker.steps) \in Nat
    BY <1>1, Taken DEF At
  <1>4. Working("FW_INIT_DONE")
    BY <1>3 DEF Working, StepsOf
  <1>5. CASE Request(req, ok) /\ Go(ok) /\ UNCHANGED <<wire, host>>
    <2>1. QuietFw /\ QuietHost
      BY <1>1, <1>5, RequestQuiet DEF IInv, QuietHost
    <2>2. Quiet
      BY <1>1, <1>5, <2>1 DEF Quiet, QuietEvents, QuietWorker, QuietWire, linkVars
    <2> QED
      BY <2>1, <2>2, QuietKeeps
  <1>6. CASE PowerOff /\ Go(FALSE) /\ UNCHANGED host
    <2>1. host = "none"
      BY <1>4 DEF Served, Hosted, Nothing, Idle
    <2>2. QuietFw /\ QuietWire /\ QuietHost
      BY <1>6, <2>1, PowerOffQuiet DEF QuietHost
    <2>3. Quiet
      BY <1>1, <1>6, <2>2 DEF Quiet, QuietEvents, QuietWorker, linkVars
    <2> QED
      BY <2>2, <2>3, QuietKeeps
  <1>7. CASE req = "wlan_mode" /\ Request(req, TRUE) /\ Go(TRUE) /\ UNCHANGED wire
    <2>1. Accepts(req) /\ fw' = Done(req)
      BY <1>7 DEF Request
    <2>2. fw.state = "up" /\ fw'.state = "up" /\ SaidFrom /\ fw'.accepted = 7 /\ QuietFw
      BY <1>1, <1>7, <2>1, DoneSays DEF IInv, QuietFw
    <2>3. "FW_INIT_DONE" \in fw.sent /\ "FW_INIT_DONE" \in fw'.sent
      BY <1>7, <2>1, <2>2 DEF Accepts, WaitsFor, SaidFrom, SentOnce
    <2>4. OneOf("FW_INIT_DONE")
      BY <2>2, <2>3 DEF Served, Fresh, AskedOnce, SentOnce
    <2>5. Unheard("FW_INIT_DONE") /\ Unqueued("FW_INIT_DONE")
      BY <1>4, <2>4 DEF OneOf, AtOnce, Idle
    <2>6. worker' = Resting
      BY <1>3, <1>7 DEF Served, LastSteps, Go
    <2>7. ~Working("FW_INIT_DONE")'
      BY <2>6 DEF Working, Resting
    <2>8. Nothing("FW_INIT_DONE")'
      BY <1>1, <1>7, <2>5, <2>7 DEF Nothing, Idle, Unheard, Unqueued, OnWire, Queued
    <2>9. Quiet
      BY <1>1, <1>7, <2>2 DEF Quiet, QuietEvents, QuietWorker, QuietWire, linkVars
    <2>10. NoLater' /\ LastSteps' /\ Fresh'
      BY <2>9, QuietRest
    <2>11. Hosted'
      BY <2>2, <2>3, <2>8 DEF Hosted, HostIsServed
    <2> QED
      BY <2>10, <2>11 DEF Served
  <1> QED
    BY <1>2, <1>5, <1>6, <1>7

\* A boot: nothing that is there is of it.
LEMMA PowerUpServed ==
    ASSUME IInv, TypeOK', Served, PowerUp
    PROVE  Served'
  <1>1. /\ worker.steps # <<>> /\ Go(TRUE) /\ UNCHANGED <<wire, linkVars, events, host>>
    BY DEF PowerUp, At
  <1>2. QuietWorker
    BY <1>1 DEF QuietWorker
  <1>3. CASE UNCHANGED fwVars
    <2>1. QuietFw /\ QuietHost
      BY <1>1, <1>3, SameFwQuiet DEF IInv, fwVars
    <2>2. Quiet
      BY <1>1, <1>2, <1>3, <2>1 DEF Quiet, QuietEvents, QuietWire, fwVars, linkVars
    <2> QED
      BY <2>1, <2>2, QuietKeeps
  <1>4. CASE fw.state = "off" /\ fw' = [NoFw EXCEPT !.state = "up"] /\ boot' = boot + 1
    <2>1. fw'.sent = {} /\ ~fw'.tracing /\ fw'.traceMem = {} /\ fw'.state = "up"
      BY <1>4 DEF NoFw
    <2>2. /\ boot \in Nat /\ boot < boot' /\ peer \in Nat /\ boot' \in Nat
          /\ worker' \in [steps : Seq(Steps), of : 0..MaxBoots]
          /\ \A i \in DOMAIN events : events[i].of \in Nat
          /\ \A i \in DOMAIN wire : wire[i].of \in Nat
      <3>1. /\ boot \in 0..MaxBoots /\ peer \in 0..MaxBoots
            /\ events \in Seq(Events) /\ wire \in Seq(Messages)
        BY DEF IInv, TypeOK
      <3>2. boot \in Nat /\ boot < boot' /\ peer \in Nat /\ boot' \in Nat
        BY <1>4, <3>1
      <3>3. worker' \in [steps : Seq(Steps), of : 0..MaxBoots]
        BY DEF TypeOK
      <3>4. \A i \in DOMAIN events : events[i].of \in Nat
        <4>1. \A i \in DOMAIN events : events[i] \in Events
          BY <3>1
        <4>2. \A e \in Events : e.of \in Nat
          BY DEF Events
        <4> QED
          BY <4>1, <4>2
      <3>5. \A i \in DOMAIN wire : wire[i].of \in Nat
        <4>1. \A i \in DOMAIN wire : wire[i] \in Messages
          BY <3>1
        <4>2. \A m \in Messages : m.of \in Nat
          BY DEF Messages
        <4> QED
          BY <4>1, <4>2
      <3> QED
        BY <3>2, <3>3, <3>4, <3>5
    <2>3. WorkerFrom /\ LastSteps' /\ worker'.of <= boot /\ worker'.of \in Nat
      BY <1>2, <2>2, QuietWorkerFrom DEF IInv, Server, Served
    <2>4. UNCHANGED <<peer, connected, events, wire, host>>
      BY <1>1 DEF linkVars
    <2>5. /\ peer <= boot /\ \A i \in DOMAIN events : events[i].of <= boot
          /\ \A i \in DOMAIN wire : wire[i].of <= boot
          /\ ~connected => peer = 0
      BY DEF Served, NoLater
    <2>6. NoLater'
      BY <2>2, <2>3, <2>4, <2>5 DEF NoLater
    <2>7. peer' # boot' /\ ~Connecting' /\ \A i \in DOMAIN events' : ~Arriving(i)'
      BY <2>2, <2>3, <2>4, <2>5 DEF Connecting, Arriving
    <2>8. \A i \in DOMAIN wire' : ~Announced(i)'
      BY <2>2, <2>4, <2>5 DEF Announced
    <2>9. ~Met'
      BY <2>7 DEF Met
    <2>10. AnnouncedFirst' /\ NoExit'
      BY <2>1, <2>8, <2>9 DEF AnnouncedFirst, NoExit
    <2>11. NothingBehind' /\ NothingQueued' /\ NothingThere'
      BY <2>7, <2>8 DEF NothingBehind, NothingQueued, NothingThere
    <2>12. NotAsked' /\ AskedOnce' /\ NoTraceYet'
      BY <2>1, <2>7 DEF NotAsked, AskedOnce, NoTraceYet
    <2>13. host' = "none"
      BY <1>4, <2>4 DEF Served, Hosted
    <2> QED
      BY <2>3, <2>6, <2>10, <2>11, <2>12, <2>13 DEF Served, Fresh, Hosted, HostIsServed
  <1> QED
    BY <1>3, <1>4 DEF PowerUp

LEMMA FwGoneServed ==
    ASSUME IInv, TypeOK', Served, FwGone
    PROVE  Served'
  <1>1. /\ fw.state = "dead" /\ fw' = [fw EXCEPT !.sent = @ \cup {"DEL"}]
        /\ wire' = Append(wire, Message("DEL", <<>>))
        /\ UNCHANGED <<boot, linkVars, events, worker, host>>
    BY DEF FwGone
  <1>2. fw'.state = "dead" /\ fw'.accepted = fw.accepted
    BY <1>1 DEF IInv, TypeOK, FwType
  <1>3. Quiet
    BY <1>1, <1>2 DEF Quiet, QuietEvents, QuietWorker, QuietWire, QuietFw, linkVars
  <1>4. QuietHost
    BY <1>1, <1>2 DEF QuietHost
  <1> QED
    BY <1>3, <1>4, QuietKeeps

\* The event that the worker takes, if it has to do with an indication, was the
\* only one of it.
LEMMA TakeEventServed ==
    ASSUME IInv, TypeOK', Served, TakeEvent
    PROVE  Served'
  <1>1. /\ worker = Resting /\ events # <<>> /\ events' = Tail(events)
        /\ worker' = [steps |-> Chain[Head(events).ev], of |-> Head(events).of]
        /\ UNCHANGED <<fw, boot, wire, lookup, peer, connected, del_server, host>>
    BY DEF TakeEvent, fwVars, linkVars
  <1>2. /\ Head(events) \in Events /\ Head(events) = events[1]
        /\ 1 \in DOMAIN events
        /\ \A i \in DOMAIN events' :
              events'[i] = events[i + 1] /\ i + 1 \in DOMAIN events /\ i \in Nat \ {0}
    BY <1>1, Taken DEF IInv, TypeOK
  <1>3. /\ \A i \in DOMAIN events' : /\ i + 1 \in DOMAIN events /\ i \in Nat \ {0}
                                     /\ Arriving(i)' => Arriving(i + 1)
                                     /\ \A ind : Queued(ind, i)' => Queued(ind, i + 1)
    BY <1>1, <1>2 DEF Arriving, Arrives, Queued
  <1>4. /\ Connecting' => Arriving(1)
        /\ \A ind \in Asking : Working(ind)' => Queued(ind, 1)
        /\ LastSteps'
    <2>1. /\ events[1].ev \in DOMAIN Chain /\ worker'.steps = Chain[events[1].ev]
          /\ worker'.of = events[1].of
      BY <1>1, <1>2 DEF Events
    <2>2. At("connect")' => events[1].ev = "SERVER_ARRIVE"
      BY <2>1, ChainSteps DEF At
    <2>3. Connecting' => Arriving(1)
      BY <1>1, <2>1, <2>2 DEF Connecting, Arriving, Arrives
    <2> QED
      BY <2>1, <2>3, ChainHandles DEF Working, Queued, LastSteps
  <1>5. NoLater /\ LastSteps /\ Fresh /\ Hosted
    BY DEF Served
  <1>6. NoLater'
    BY <1>1, <1>2, <1>5 DEF NoLater
  <1>7. \A ind \in Asking : ~Working(ind)
    BY <1>1 DEF Working, Resting
  <1>8. /\ \A ind \in Asking : (Unheard(ind)' <=> Unheard(ind))
        /\ \A i \in DOMAIN wire : (Announced(i)' <=> Announced(i)) /\ (Dels(i)' <=> Dels(i))
        /\ \A i \in DOMAIN wire, ind \in Asking : OnWire(ind, i)' <=> OnWire(ind, i)
    BY <1>1 DEF Unheard, Announced, News, Dels, OnWire
  <1>9. \A ind \in Asking : Nothing(ind) => Nothing(ind)'
    BY <1>2, <1>3, <1>4, <1>8 DEF Nothing, Idle, Unqueued
  <1>10. \A ind \in Asking : OneOf(ind) => OneOf(ind)'
    <2> SUFFICES ASSUME NEW ind \in Asking, OneOf(ind) PROVE OneOf(ind)'
      OBVIOUS
    <2>1. \A i, j \in DOMAIN wire' : OnWire(ind, i)' /\ OnWire(ind, j)' => i = j
      BY <1>1 DEF OneOf, AtOnce, Idle, OnWire
    <2>2. \A i, j \in DOMAIN events' : Queued(ind, i)' /\ Queued(ind, j)' => i = j
      <3> SUFFICES ASSUME NEW i \in DOMAIN events', NEW j \in DOMAIN events',
                             Queued(ind, i)', Queued(ind, j)'
                   PROVE  i = j
        OBVIOUS
      <3>1. i + 1 = j + 1
        BY <1>3 DEF OneOf, AtOnce, Idle
      <3> QED
        BY <1>3, <3>1
    <2>3. Unqueued(ind)' \/ ~Working(ind)'
      <3> SUFFICES ASSUME Working(ind)', NEW i \in DOMAIN events', Queued(ind, i)' PROVE FALSE
        BY DEF Unqueued
      <3>1. Queued(ind, 1) /\ Queued(ind, i + 1)
        BY <1>3, <1>4
      <3>2. 1 = i + 1
        BY <1>2, <1>3, <3>1 DEF OneOf, AtOnce, Idle
      <3> QED
        BY <1>3, <3>2
    <2>4. Unheard(ind)' \/ (Unqueued(ind)' /\ ~Working(ind)')
      <3>1. CASE Unheard(ind)
        BY <1>8, <3>1
      <3>2. CASE Unqueued(ind)
        BY <1>2, <1>3, <1>4, <3>2 DEF Unqueued
      <3> QED
        BY <3>1, <3>2 DEF OneOf, AtOnce, Idle
    <2> QED
      BY <2>1, <2>2, <2>3, <2>4 DEF OneOf, AtOnce, Idle
  <1>11. Met' => Met
    BY <1>1, <1>2, <1>3, <1>4 DEF Met
  <1>12. Fresh'
    <2> SUFFICES ASSUME fw.state = "up" PROVE Fresh'
      BY <1>1 DEF Fresh
    <2>1. /\ AnnouncedFirst /\ NoExit /\ NothingBehind /\ NothingQueued
          /\ NotAsked /\ AskedOnce /\ NoTraceYet
      BY <1>5 DEF Fresh
    <2>2. AnnouncedFirst' /\ NoExit' /\ NothingBehind'
      <3>1. AnnouncedFirst'
        BY <1>1, <1>8, <1>11, <2>1 DEF AnnouncedFirst
      <3>2. NoExit'
        BY <1>1, <1>8, <1>11, <2>1 DEF NoExit
      <3>3. NothingBehind'
        BY <1>1, <1>8, <2>1 DEF NothingBehind
      <3> QED
        BY <3>1, <3>2, <3>3
    <2>3. NothingQueued'
      <3> SUFFICES ASSUME NEW i \in DOMAIN events', Arriving(i)', NEW ind \in Asking
                   PROVE  Unheard(ind)' /\ \A j \in DOMAIN events' : j > i => ~Queued(ind, j)'
        BY DEF NothingQueued
      <3>1. Unheard(ind) /\ \A j \in DOMAIN events : j > i + 1 => ~Queued(ind, j)
        BY <1>3, <2>1 DEF NothingQueued
      <3> QED
        BY <1>3, <1>8, <3>1
    <2>4. NothingThere'
      <3> SUFFICES ASSUME Connecting', NEW ind \in Asking PROVE Nothing(ind)'
        BY DEF NothingThere
      <3>1. Arriving(1) /\ Unheard(ind) /\ \A j \in DOMAIN events : j > 1 => ~Queued(ind, j)
        BY <1>2, <1>4, <2>1 DEF NothingQueued
      <3>2. ~Queued(ind, 1)
        BY <3>1, AskingFacts DEF Arriving, Arrives, Queued, NoServerEvent
      <3>3. Unqueued(ind)'
        BY <1>3, <3>1 DEF Unqueued
      <3> QED
        BY <1>4, <1>8, <3>1, <3>2, <3>3 DEF Nothing, Idle
    <2>5. NotAsked' /\ AskedOnce' /\ NoTraceYet'
      <3>1. NotAsked'
        BY <1>1, <1>9, <2>1 DEF NotAsked
      <3>2. AskedOnce'
        BY <1>1, <1>10, <2>1, AskingFacts DEF AskedOnce
      <3>3. NoTraceYet'
        BY <1>1, <2>1 DEF NoTraceYet
      <3> QED
        BY <3>1, <3>2, <3>3
    <2> QED
      BY <2>2, <2>3, <2>4, <2>5 DEF Fresh
  <1>13. QuietHost
    BY <1>1, SameFwQuiet DEF IInv
  <1>14. Hosted'
    BY <1>5, <1>9, <1>13, HostedStays DEF IInv, Asking
  <1> QED
    BY <1>4, <1>6, <1>12, <1>14 DEF Served

\* A message that is sent.
LEMMA Sent ==
    ASSUME TypeOK, NEW m \in Messages, wire' = Append(wire, m), boot' = boot
    PROVE  /\ Len(wire) \in Nat /\ DOMAIN wire = 1..Len(wire)
           /\ DOMAIN wire' = 1..Len(wire) + 1 /\ wire'[Len(wire) + 1] = m
           /\ \A i \in DOMAIN wire : /\ wire'[i] = wire[i]
                                     /\ Announced(i)' <=> Announced(i)
                                     /\ Dels(i)' <=> Dels(i)
                                     /\ \A ind \in Asking : OnWire(ind, i)' <=> OnWire(ind, i)
           /\ \A ind \in Asking : m.ind # ind => (Unheard(ind)' <=> Unheard(ind))
  <1>1. wire \in Seq(Messages)
    BY DEF TypeOK
  <1>2. /\ Len(wire) \in Nat /\ DOMAIN wire = 1..Len(wire)
        /\ DOMAIN wire' = 1..Len(wire) + 1 /\ wire'[Len(wire) + 1] = m
        /\ \A i \in DOMAIN wire : wire'[i] = wire[i]
    BY <1>1, Appended
  <1>3. \A i \in DOMAIN wire : /\ Announced(i)' <=> Announced(i)
                               /\ Dels(i)' <=> Dels(i)
                               /\ \A ind \in Asking : OnWire(ind, i)' <=> OnWire(ind, i)
    BY <1>2 DEF Announced, News, Dels, OnWire
  <1>4. \A ind \in Asking : m.ind # ind => (Unheard(ind)' <=> Unheard(ind))
    BY <1>2 DEF Unheard, OnWire
  <1> QED
    BY <1>2, <1>3, <1>4

\* The announcement: nobody met this firmware before.
LEMMA FwAnnounceServed ==
    ASSUME IInv, TypeOK', Served, FwAnnounce
    PROVE  Served'
  <1>1. /\ fw.state = "up" /\ "NEW" \notin fw.sent
        /\ fw' = [fw EXCEPT !.sent = @ \cup {"NEW"}]
        /\ UNCHANGED wire \/ wire' = Append(wire, Message("NEW", <<>>))
        /\ UNCHANGED <<boot, lookup, peer, connected, del_server, events, worker, host>>
    BY DEF FwAnnounce, linkVars
  <1>2. /\ fw'.state = "up" /\ fw'.sent = fw.sent \cup {"NEW"} /\ fw'.accepted = fw.accepted
        /\ fw'.tracing = fw.tracing /\ fw'.traceMem = fw.traceMem /\ fw.accepted \in 0..7
    BY <1>1 DEF IInv, TypeOK, FwType
  <1>3. NoLater /\ LastSteps /\ Fresh /\ Hosted /\ TypeOK
    BY DEF Served, IInv
  <1>4. /\ AnnouncedFirst /\ NothingBehind /\ NoTraceYet
        /\ ~Met /\ \A ind \in SentOnce : ind \notin fw.sent
        /\ \A i \in DOMAIN wire : ~Announced(i)
    BY <1>1, <1>3 DEF Fresh, AnnouncedFirst
  <1>5. ~Met'
    BY <1>1, <1>4 DEF Met, Connecting, At, Arriving, Arrives
  <1>6. Message("NEW", <<>>) \in Messages /\ Message("NEW", <<>>).ind = "NEW" /\ Message("NEW", <<>>).of = boot
    BY <1>3, WlfwAssumption DEF TypeOK, Message, Messages, Indications, Wanted
  <1>7. /\ \A i \in DOMAIN wire' : i \in DOMAIN wire \/ i = Len(wire) + 1
        /\ \A i \in DOMAIN wire : /\ i \in 1..Len(wire) /\ wire'[i] = wire[i]
                                  /\ Announced(i)' <=> Announced(i)
        /\ Len(wire) \in Nat
        /\ DOMAIN wire' = 1..Len(wire) \/ DOMAIN wire' = 1..Len(wire) + 1
    <2>1. CASE UNCHANGED wire
      <3>1. wire \in Seq(Messages)
        BY <1>3 DEF TypeOK
      <3>2. DOMAIN wire = 1..Len(wire) /\ Len(wire) \in Nat
        BY <3>1
      <3> QED
        BY <1>1, <2>1, <3>2 DEF Announced, News
    <2>2. CASE wire' = Append(wire, Message("NEW", <<>>))
      BY <1>1, <1>3, <1>6, <2>2, Sent
    <2> QED
      BY <1>1, <2>1, <2>2
  <1>8. \A i \in DOMAIN wire' : i \notin DOMAIN wire => wire'[i] = Message("NEW", <<>>)
    BY <1>1, <1>3, <1>6, Sent
  <1>9. NoLater'
    <2>1. \A i \in DOMAIN wire' : wire'[i].of <= boot'
      BY <1>1, <1>3, <1>6, <1>7, <1>8 DEF NoLater, TypeOK
    <2> QED
      BY <1>1, <1>3, <2>1 DEF NoLater
  <1>10. LastSteps'
    BY <1>1, <1>3 DEF LastSteps
  <1>11. AnnouncedFirst' /\ NoExit'
    BY <1>2, <1>5 DEF AnnouncedFirst, NoExit
  <1>12. NothingBehind'
    BY <1>4, <1>7 DEF NothingBehind
  <1>13. NothingQueued' /\ NothingThere' /\ NotAsked'
    BY <1>5 DEF Met, NothingQueued, NothingThere, NotAsked
  <1>14. AskedOnce' /\ NoTraceYet'
    BY <1>2, <1>4 DEF AskedOnce, NoTraceYet, SentOnce
  <1>15. WireAsks /\ EventsFrom /\ WorkerFrom
    <2>1. WireAsks
      BY <1>6, <1>7, <1>8 DEF WireAsks, Asking
    <2>2. EventsFrom /\ WorkerFrom
      BY <1>1 DEF EventsFrom, WorkerFrom, At
    <2> QED
      BY <2>1, <2>2
  <1>16. Nothing("FW_INIT_DONE") => Nothing("FW_INIT_DONE")'
    BY <1>1, <1>3, <1>15, NothingFades DEF Asking
  <1>17. QuietHost
    BY <1>1, <1>2 DEF QuietHost
  <1>18. Hosted'
    BY <1>3, <1>16, <1>17, HostedStays
  <1> QED
    BY <1>9, <1>10, <1>11, <1>12, <1>13, <1>14, <1>18 DEF Served, Fresh

\* The worker connects to the server of this boot, of which nothing is there, or
\* to one that has gone.
LEMMA ConnectServed ==
    ASSUME IInv, TypeOK', Served, Connect
    PROVE  Served'
  <1>1. /\ At("connect") /\ worker.steps # <<>>
        /\ UNCHANGED <<fw, boot, wire, lookup, del_server, events, host>>
        /\ \/ UNCHANGED <<connected, peer>> /\ Go(FALSE)
           \/ ~connected /\ connected' = TRUE /\ peer' = worker.of /\ Go(TRUE)
    BY DEF Connect, At, fwVars
  <1>2. QuietWorker /\ QuietFw /\ QuietHost
    BY <1>1, SameFwQuiet DEF QuietWorker, IInv
  <1>3. CASE UNCHANGED <<connected, peer>>
    <2>1. Quiet
      BY <1>1, <1>2, <1>3 DEF Quiet, QuietEvents, QuietWire
    <2> QED
      BY <1>2, <2>1, QuietKeeps
  <1>4. CASE ~connected /\ connected' = TRUE /\ peer' = worker.of /\ Go(TRUE)
    <2>1. NoLater /\ LastSteps /\ Fresh /\ Hosted /\ TypeOK /\ FirstSteps
      BY DEF Served, IInv, Server
    <2>2. WorkerFrom /\ LastSteps' /\ worker'.of <= boot /\ ~At("connect")'
      BY <1>1, <1>2, <1>4, <2>1, QuietWorkerFrom, GoKeeps
    <2>3. NoLater'
      BY <1>1, <1>4, <2>1, <2>2 DEF NoLater
    <2>4. /\ \A i \in DOMAIN events : Arriving(i)' <=> Arriving(i)
          /\ \A ind \in Asking : /\ Unheard(ind)' <=> Unheard(ind)
                                 /\ Unqueued(ind)' <=> Unqueued(ind)
                                 /\ ~Working(ind) => ~Working(ind)'
          /\ \A i \in DOMAIN wire : (Announced(i)' <=> Announced(i)) /\ (Dels(i)' <=> Dels(i))
          /\ ~Connecting'
      <3>1. /\ \A i \in DOMAIN events : Arriving(i)' <=> Arriving(i)
            /\ \A i \in DOMAIN wire : (Announced(i)' <=> Announced(i)) /\ (Dels(i)' <=> Dels(i))
        BY <1>1 DEF Arriving, Arrives, Announced, News, Dels
      <3>2. \A ind \in Asking : /\ Unheard(ind)' <=> Unheard(ind)
                                /\ Unqueued(ind)' <=> Unqueued(ind)
                                /\ ~Working(ind) => ~Working(ind)'
        BY <1>1, <2>2, WorkerFades DEF Unheard, Unqueued, OnWire, Queued
      <3> QED
        BY <2>2, <3>1, <3>2 DEF Connecting
    <2>5. \A ind \in Asking : Nothing(ind) => Nothing(ind)'
      BY <2>4 DEF Nothing, Idle
    <2>6. \A ind \in Asking : OneOf(ind) => OneOf(ind)'
      BY <1>1, <2>4 DEF OneOf, AtOnce, Idle, OnWire, Queued
    <2>7. Met' => Met
      BY <1>1, <1>4, <2>4 DEF Met, Connecting
    <2>8. Fresh'
      <3> SUFFICES ASSUME fw.state = "up" PROVE Fresh'
        BY <1>1 DEF Fresh
      <3>1. /\ AnnouncedFirst /\ NoExit /\ NothingBehind /\ NothingQueued /\ NothingThere
            /\ NotAsked /\ AskedOnce /\ NoTraceYet
        BY <2>1 DEF Fresh
      <3>2. AnnouncedFirst' /\ NoExit'
        BY <1>1, <2>4, <2>7, <3>1 DEF AnnouncedFirst, NoExit
      <3>3. NothingBehind' /\ NothingQueued'
        BY <1>1, <2>4, <3>1 DEF NothingBehind, NothingQueued, OnWire, Queued
      <3>4. NothingThere' /\ NoTraceYet'
        BY <1>1, <2>4, <3>1 DEF NothingThere, NoTraceYet
      <3>5. NotAsked'
        <4> SUFFICES ASSUME peer' = boot PROVE \A ind \in Asking : Nothing(ind)'
          BY <1>1 DEF NotAsked
        <4>1. Connecting
          BY <1>1, <1>4 DEF Connecting
        <4> QED
          BY <2>5, <3>1, <4>1 DEF NothingThere
      <3>6. AskedOnce'
        <4> SUFFICES ASSUME NEW ind \in SentOnce, ind \in fw.sent PROVE FALSE
          BY <1>1 DEF AskedOnce
        <4>1. peer = boot /\ peer = 0 /\ boot > 0
          BY <1>4, <2>1, <3>1 DEF AskedOnce, NoLater
        <4> QED
          BY <4>1
      <3> QED
        BY <3>2, <3>3, <3>4, <3>5, <3>6 DEF Fresh
    <2>9. Hosted'
      BY <1>2, <2>1, <2>5, HostedStays DEF Asking
    <2> QED
      BY <2>2, <2>3, <2>8, <2>9 DEF Served
  <1> QED
    BY <1>1, <1>3, <1>4

\* The exit is of a server that nobody will ask.
LEMMA ServerExitServed ==
    ASSUME IInv, TypeOK', Served, ServerExit
    PROVE  Served'
  <1>1. /\ At("exit") /\ worker.steps # <<>> /\ Go(TRUE)
        /\ connected' = FALSE /\ peer' = 0 /\ del_server' = FALSE
        /\ UNCHANGED <<fw, boot, events, host>>
        /\ \/ wire' = <<>>
           \/ "NEW" \in fw.sent /\ wire' = <<Message("NEW", <<>>)>>
    BY DEF ServerExit, At, fwVars
  <1>2. NoLater /\ LastSteps /\ Fresh /\ Hosted /\ TypeOK /\ FirstSteps /\ boot \in Nat
    BY DEF Served, IInv, Server, TypeOK
  <1>3. del_server /\ \A i \in DOMAIN events : ~Arrives(i)
    BY <1>1 DEF IInv, Server, OneExit
  <1>4. WorkerFrom /\ LastSteps' /\ worker'.of <= boot /\ ~At("connect")'
    BY <1>1, <1>2, QuietWorkerFrom, GoKeeps DEF QuietWorker
  <1>5. Message("NEW", <<>>).ind = "NEW" /\ Message("NEW", <<>>).of = boot
    BY DEF Message
  <1>6. /\ \A i \in DOMAIN wire' : i = 1 /\ wire'[i] = Message("NEW", <<>>)
        /\ DOMAIN wire' # {} => "NEW" \in fw.sent
    BY <1>1
  <1>7. NoLater'
    BY <1>1, <1>2, <1>4, <1>5, <1>6 DEF NoLater
  <1>8. WireAsks /\ EventsFrom
    BY <1>1, <1>5, <1>6 DEF WireAsks, EventsFrom, Asking
  <1>9. \A ind \in Asking : Nothing(ind) => Nothing(ind)'
    BY <1>1, <1>2, <1>4, <1>8, NothingFades
  <1>10. Fresh'
    <2> SUFFICES ASSUME fw.state = "up" PROVE Fresh'
      BY <1>1 DEF Fresh
    <2>1. NoExit /\ AskedOnce /\ NoTraceYet /\ boot > 0
      BY <1>2 DEF Fresh, NoLater
    <2>2. ~Met
      BY <1>3, <2>1 DEF NoExit
    <2>3. \A ind \in SentOnce : ind \notin fw'.sent
      BY <1>1, <2>1, <2>2 DEF AskedOnce, Met
    <2>4. peer' # boot' /\ ~Connecting' /\ \A i \in DOMAIN events' : ~Arriving(i)'
      BY <1>1, <1>2, <1>3, <1>4, <2>1 DEF Connecting, Arriving, Arrives
    <2>5. ~Met'
      BY <2>4 DEF Met
    <2>6. AnnouncedFirst' /\ NoExit'
      BY <1>1, <1>6, <2>3, <2>5 DEF AnnouncedFirst, NoExit
    <2>7. NothingBehind' /\ NothingQueued' /\ NothingThere'
      BY <1>6, <2>4 DEF NothingBehind, NothingQueued, NothingThere
    <2>8. NotAsked' /\ AskedOnce' /\ NoTraceYet'
      BY <1>1, <2>1, <2>3, <2>4 DEF NotAsked, AskedOnce, NoTraceYet
    <2> QED
      BY <2>6, <2>7, <2>8 DEF Fresh
  <1>11. QuietHost
    BY <1>1, SameFwQuiet DEF IInv
  <1>12. Hosted'
    BY <1>2, <1>9, <1>11, HostedStays DEF Asking
  <1> QED
    BY <1>4, <1>7, <1>10, <1>12 DEF Served

\* The connected firmware asks for what it did not ask for.
LEMMA FwAsksServed ==
    ASSUME IInv, TypeOK', Served, NEW ind \in Asking, NEW segs \in Wanted, FwIndicate(ind, segs)
    PROVE  Served'
  <1>1. /\ fw.state = "up" /\ ind \notin fw.sent /\ peer = boot
        /\ fw' = [fw EXCEPT !.sent = IF ind = "QDSS_FREE" THEN @ ELSE @ \cup {ind},
                            !.asked = IF ind = "REQUEST_MEM" THEN segs ELSE @,
                            !.traceMem = IF ind = "QDSS_FREE" THEN {} ELSE @]
        /\ wire' = Append(wire, Message(ind, segs))
        /\ UNCHANGED <<boot, lookup, peer, connected, del_server, events, worker, host>>
    BY DEF FwIndicate, Due, linkVars
  <1>2. /\ fw'.state = "up" /\ fw'.accepted = fw.accepted /\ fw'.tracing = fw.tracing
        /\ fw'.sent = IF ind = "QDSS_FREE" THEN fw.sent ELSE fw.sent \cup {ind}
        /\ fw'.traceMem = IF ind = "QDSS_FREE" THEN {} ELSE fw.traceMem
        /\ fw.accepted \in 0..7
    BY <1>1 DEF IInv, TypeOK, FwType
  <1>3. NoLater /\ LastSteps /\ Fresh /\ Hosted /\ TypeOK
    BY DEF Served, IInv
  <1>4. /\ AnnouncedFirst /\ NoExit /\ NothingBehind /\ NothingQueued /\ NothingThere
        /\ NotAsked /\ AskedOnce /\ NoTraceYet
    BY <1>1, <1>3 DEF Fresh
  <1>5. ind \in {"QDSS_REQ_MEM", "QDSS_FREE"} => "FW_INIT_DONE" \in fw.sent
    BY <1>4 DEF NoTraceYet, FwIndicate, Due
  <1>6. Met /\ "NEW" \in fw.sent /\ ~del_server /\ \A i \in DOMAIN wire : ~Dels(i)
    BY <1>1, <1>4 DEF Met, AnnouncedFirst, NoExit
  <1>7. connected /\ ~At("connect") /\ \A i \in DOMAIN events : ~Arrives(i)
    BY <1>1, <1>3 DEF NoLater, IInv, Server, OneArrival, TypeOK
  <1>8. \A i \in DOMAIN wire : ~News(i)
    BY <1>6, <1>7 DEF IInv, Server, Alternate, Known, DelFirst
  <1>9. /\ Message(ind, segs) \in Messages /\ Message(ind, segs).ind = ind /\ Message(ind, segs).of = boot
        /\ ind \notin NoServer
    BY <1>3, AskingFacts DEF TypeOK, Message, Messages, Indications, Asking
  <1>10. /\ Len(wire) \in Nat /\ DOMAIN wire = 1..Len(wire)
         /\ DOMAIN wire' = 1..Len(wire) + 1 /\ wire'[Len(wire) + 1] = Message(ind, segs)
         /\ \A i \in DOMAIN wire : /\ wire'[i] = wire[i]
                                   /\ Announced(i)' <=> Announced(i)
                                   /\ Dels(i)' <=> Dels(i)
                                   /\ \A x \in Asking : OnWire(x, i)' <=> OnWire(x, i)
         /\ \A x \in Asking : ind # x => (Unheard(x)' <=> Unheard(x))
    BY <1>1, <1>3, <1>9, Sent
  <1>11. \A i \in DOMAIN wire' : ~Dels(i)' /\ ~Announced(i)'
    <2>1. \A i : i = Len(wire) + 1 => ~Dels(i)' /\ ~Announced(i)'
      BY <1>9, <1>10 DEF Dels, News, Announced, NoServer
    <2>2. \A i \in DOMAIN wire : ~Dels(i)' /\ ~Announced(i)'
      BY <1>6, <1>8, <1>10 DEF Announced
    <2>3. \A i \in DOMAIN wire' : i \in DOMAIN wire \/ i = Len(wire) + 1
      BY <1>10
    <2> QED
      BY <2>1, <2>2, <2>3
  <1>12. NoLater'
    <2>1. boot <= boot /\ \A i \in DOMAIN wire : wire[i].of <= boot
      BY <1>3 DEF NoLater, TypeOK
    <2>2. \A i \in DOMAIN wire' : i \in DOMAIN wire \/ i = Len(wire) + 1
      BY <1>10
    <2>3. \A i \in DOMAIN wire' : wire'[i].of <= boot
      BY <1>9, <1>10, <2>1, <2>2
    <2> QED
      BY <1>1, <1>3, <2>3 DEF NoLater
  <1>13. LastSteps'
    BY <1>1, <1>3 DEF LastSteps
  <1>14. /\ ~Connecting' /\ \A i \in DOMAIN events' : ~Arriving(i)'
         /\ \A x \in Asking : (Unqueued(x)' <=> Unqueued(x)) /\ (Working(x)' <=> Working(x))
    BY <1>1, <1>7 DEF Connecting, At, Arriving, Arrives, Unqueued, Queued, Working
  <1>15. \A x \in Asking \ {ind} : Nothing(x) => Nothing(x)'
    BY <1>10, <1>14 DEF Nothing, Idle
  <1>16. \A x \in Asking \ {ind} : OneOf(x) => OneOf(x)'
    <2> SUFFICES ASSUME NEW x \in Asking \ {ind}, OneOf(x) PROVE OneOf(x)'
      OBVIOUS
    <2>1. \A i \in DOMAIN wire' : OnWire(x, i)' => i \in DOMAIN wire /\ OnWire(x, i)
      BY <1>9, <1>10 DEF OnWire
    <2>2. \A i, j \in DOMAIN wire' : OnWire(x, i)' /\ OnWire(x, j)' => i = j
      BY <2>1 DEF OneOf, AtOnce, Idle
    <2>3. \A i, j \in DOMAIN events' : Queued(x, i)' /\ Queued(x, j)' => i = j
      BY <1>1 DEF OneOf, AtOnce, Idle, Queued
    <2> QED
      BY <1>10, <1>14, <2>2, <2>3 DEF OneOf, AtOnce, Idle
  <1>17. Nothing(ind) => OneOf(ind)'
    <2> SUFFICES ASSUME Nothing(ind) PROVE OneOf(ind)'
      OBVIOUS
    <2>1. \A i \in DOMAIN wire' : OnWire(ind, i)' => i = Len(wire) + 1
      BY <1>10 DEF Nothing, Idle, Unheard
    <2>2. Unqueued(ind)' /\ ~Working(ind)'
      BY <1>14 DEF Nothing, Idle
    <2> QED
      BY <2>1, <2>2 DEF OneOf, AtOnce, Idle, Unqueued
  <1>18. AnnouncedFirst' /\ NoExit'
    BY <1>1, <1>2, <1>6, <1>11 DEF AnnouncedFirst, NoExit
  <1>19. NothingBehind' /\ NothingQueued' /\ NothingThere'
    BY <1>11, <1>14 DEF NothingBehind, NothingQueued, NothingThere
  <1>20. NotAsked'
    <2> SUFFICES ASSUME NEW x \in Asking, Opens[x] \notin fw'.sent PROVE Nothing(x)'
      BY DEF NotAsked
    <2>1. Opens[x] \notin fw.sent
      BY <1>2
    <2>2. Nothing(x)
      BY <1>1, <1>4, <2>1 DEF NotAsked
    <2>3. x # ind
      <3> SUFFICES ASSUME x = ind PROVE FALSE
        OBVIOUS
      <3>1. CASE ind \in {"REQUEST_MEM", "FW_INIT_DONE"}
        BY <1>2, <3>1, AskingFacts DEF SentOnce
      <3>2. CASE ind \in {"QDSS_REQ_MEM", "QDSS_FREE"}
        BY <1>5, <2>1, <3>2 DEF Opens
      <3> QED
        BY <3>1, <3>2 DEF Asking
    <2> QED
      BY <1>15, <2>2, <2>3
  <1>21. AskedOnce'
    <2> SUFFICES ASSUME NEW x \in SentOnce, x \in fw'.sent PROVE OneOf(x)'
      BY <1>1 DEF AskedOnce
    <2>1. x \in Asking /\ Opens[x] = x
      BY AskingFacts
    <2>2. CASE x = ind
      <3>1. Nothing(ind)
        BY <1>1, <1>4, <2>1, <2>2 DEF NotAsked
      <3> QED
        BY <1>17, <2>2, <3>1
    <2>3. CASE x # ind
      <3>1. x \in fw.sent
        BY <1>2, <2>3
      <3> QED
        BY <1>4, <1>16, <2>1, <2>3, <3>1 DEF AskedOnce
    <2> QED
      BY <2>2, <2>3
  <1>22. NoTraceYet'
    BY <1>2, <1>4, <1>5 DEF NoTraceYet
  <1>23. Hosted'
    <2>1. QuietHost
      BY <1>1, <1>2 DEF QuietHost
    <2>2. CASE ind = "FW_INIT_DONE"
      <3>1. host' = "none"
        BY <1>1, <1>3, <2>2 DEF Hosted
      <3> QED
        BY <3>1 DEF Hosted, HostIsServed
    <2>3. CASE ind # "FW_INIT_DONE"
      <3>1. Nothing("FW_INIT_DONE") => Nothing("FW_INIT_DONE")'
        BY <1>15, <2>3 DEF Asking
      <3> QED
        BY <1>3, <2>1, <3>1, HostedStays
    <2> QED
      BY <2>2, <2>3
  <1> QED
    BY <1>12, <1>13, <1>18, <1>19, <1>20, <1>21, <1>22, <1>23 DEF Served, Fresh

\* ... and says that its memory is ready, which is of no account here.
LEMMA FwMemReadyServed ==
    ASSUME IInv, TypeOK', Served, FwIndicate("FW_MEM_READY", <<>>)
    PROVE  Served'
  <1>1. /\ fw.state = "up"
        /\ fw' = [fw EXCEPT !.sent = @ \cup {"FW_MEM_READY"}, !.asked = @, !.traceMem = @]
        /\ wire' = Append(wire, Message("FW_MEM_READY", <<>>))
        /\ UNCHANGED <<boot, lookup, peer, connected, del_server, events, worker, host>>
    BY DEF FwIndicate, Due, linkVars
  <1>2. /\ fw'.state = "up" /\ fw'.accepted = fw.accepted /\ fw'.tracing = fw.tracing
        /\ fw'.sent = fw.sent \cup {"FW_MEM_READY"} /\ fw'.traceMem = fw.traceMem
        /\ fw.accepted \in 0..7
    BY <1>1 DEF IInv, TypeOK, FwType
  <1>3. NoLater /\ LastSteps /\ Fresh /\ Hosted /\ TypeOK
    BY DEF Served, IInv
  <1>4. /\ Message("FW_MEM_READY", <<>>) \in Messages /\ Message("FW_MEM_READY", <<>>).ind = "FW_MEM_READY"
        /\ Message("FW_MEM_READY", <<>>).of = boot
    BY <1>3, WlfwAssumption DEF TypeOK, Message, Messages, Indications, Wanted
  <1>5. "FW_MEM_READY" \notin Asking \cup NoServer
    BY DEF Asking, NoServer
  <1>6. /\ Len(wire) \in Nat /\ DOMAIN wire = 1..Len(wire)
         /\ DOMAIN wire' = 1..Len(wire) + 1 /\ wire'[Len(wire) + 1] = Message("FW_MEM_READY", <<>>)
         /\ \A i \in DOMAIN wire : wire'[i] = wire[i]
    BY <1>1, <1>3, <1>4, Sent
  <1>7. WireFrom(0) /\ WireAsks /\ \A i \in DOMAIN wire' : wire'[i].of <= boot
    <2>1. boot <= boot /\ \A i \in DOMAIN wire : wire[i].of <= boot
      BY <1>3 DEF NoLater, TypeOK
    <2>2. \A i \in DOMAIN wire' : (i \in DOMAIN wire /\ i + 0 = i) \/ i = Len(wire) + 1
      BY <1>6
    <2>3. \A i \in DOMAIN wire' : wire'[i].of <= boot
      BY <1>4, <1>6, <2>1, <2>2
    <2>4. WireFrom(0) /\ WireAsks
      BY <1>4, <1>5, <1>6, <2>2 DEF WireFrom, WireAsks
    <2> QED
      BY <2>3, <2>4
  <1>8. EventsFrom /\ WorkerFrom
    BY <1>1 DEF EventsFrom, WorkerFrom, At
  <1>9. SaidFrom /\ (NoTraceYet => NoTraceYet') /\ QuietHost
    BY <1>1, <1>2 DEF SaidFrom, SentOnce, NoTraceYet, QuietHost
  <1>10. NoLater' /\ LastSteps'
    BY <1>1, <1>3, <1>7 DEF NoLater, LastSteps
  <1>11. Fresh'
    <2>1. NoTraceYet'
      BY <1>1, <1>3, <1>9 DEF Fresh
    <2> QED
      BY <1>1, <1>3, <1>7, <1>8, <1>9, <2>1, FreshFades
  <1>12. Hosted'
    BY <1>1, <1>3, <1>7, <1>8, <1>9, NothingFades, HostedStays DEF Asking
  <1> QED
    BY <1>10, <1>11, <1>12 DEF Served

\* A message that is received, and of which nothing comes.
LEMMA IgnoredServed ==
    ASSUME IInv, TypeOK', Served, NEW ind, Receive(ind), UNCHANGED del_server, QuietEvents
    PROVE  Served'
  <1>1. /\ wire # <<>> /\ wire' = Tail(wire)
        /\ UNCHANGED <<fw, boot, peer, connected, worker, host>>
    BY Received
  <1>2. QuietFw /\ QuietHost
    BY <1>1, SameFwQuiet DEF IInv
  <1>3. Quiet
    BY <1>1, <1>2 DEF Quiet, QuietWorker, QuietWire
  <1> QED
    BY <1>2, <1>3, QuietKeeps

\* What is left of the wire when its first message is taken.
LEMMA TakenFromWire ==
    ASSUME IInv, TypeOK', NoLater, NEW ind, Receive(ind)
    PROVE  /\ 1 \in DOMAIN wire /\ wire[1] = Head(wire) /\ wire[1] \in Messages /\ wire[1].ind = ind
           /\ boot' = boot /\ WireFrom(1) /\ WireAsks
           /\ \A i \in DOMAIN wire' : i \in Nat \ {0} /\ i + 1 \in DOMAIN wire /\ wire'[i] = wire[i + 1]
           /\ \A i \in DOMAIN wire' : wire'[i].of <= boot'
  <1>1. /\ wire # <<>> /\ wire' = Tail(wire) /\ wire \in Seq(Messages) /\ boot' = boot
        /\ wire[1] = Head(wire) /\ 1 \in DOMAIN wire /\ Head(wire) \in Messages /\ Head(wire).ind = ind
    BY Received DEF IInv, TypeOK
  <1>2. \A i \in DOMAIN wire' : i \in Nat \ {0} /\ i + 1 \in DOMAIN wire /\ wire'[i] = wire[i + 1]
    BY <1>1, Taken
  <1>3. WireFrom(1) /\ WireAsks
    BY <1>2 DEF WireFrom, WireAsks
  <1> QED
    BY <1>1, <1>2, <1>3 DEF NoLater

\* An event that is posted.
LEMMA Posted ==
    ASSUME TypeOK, boot' = boot, NEW e \in Events, events' = Append(events, e)
    PROVE  /\ Len(events) \in Nat /\ DOMAIN events = 1..Len(events)
           /\ DOMAIN events' = 1..Len(events) + 1 /\ events'[Len(events) + 1] = e
           /\ \A i \in DOMAIN events : /\ events'[i] = events[i]
                                       /\ Arriving(i)' <=> Arriving(i)
                                       /\ \A ind \in Asking : Queued(ind, i)' <=> Queued(ind, i)
           /\ \A ind \in Asking : e.ev # Handled[ind] => (Unqueued(ind)' <=> Unqueued(ind))
  <1>1. events \in Seq(Events)
    BY DEF TypeOK
  <1>2. /\ Len(events) \in Nat /\ DOMAIN events = 1..Len(events)
        /\ DOMAIN events' = 1..Len(events) + 1 /\ events'[Len(events) + 1] = e
        /\ \A i \in DOMAIN events : events'[i] = events[i]
    BY <1>1, Appended
  <1>3. \A i \in DOMAIN events : /\ Arriving(i)' <=> Arriving(i)
                                 /\ \A ind \in Asking : Queued(ind, i)' <=> Queued(ind, i)
    BY <1>2 DEF Arriving, Arrives, Queued
  <1>4. \A ind \in Asking : e.ev # Handled[ind] => (Unqueued(ind)' <=> Unqueued(ind))
    BY <1>2 DEF Unqueued, Queued
  <1> QED
    BY <1>2, <1>3, <1>4

\* An indication that is queued was on the wire once, and nowhere else.
LEMMA AskedServed ==
    ASSUME IInv, TypeOK', Served, NEW ind \in Asking, Receive(ind), UNCHANGED del_server,
           events' = Append(events, [ev |-> Handled[ind], of |-> 0])
    PROVE  Served'
  <1> DEFINE e == [ev |-> Handled[ind], of |-> 0]
  <1>1. NoLater /\ LastSteps /\ Fresh /\ Hosted /\ TypeOK /\ boot \in Nat
    BY DEF Served, IInv, TypeOK
  <1>2. UNCHANGED <<fw, boot, lookup, peer, connected, worker, host>>
    BY Received
  <1>3. e.ev = Handled[ind] /\ e.of = 0 /\ e \in Events /\ events' = Append(events, e)
        /\ e.ev # "SERVER_ARRIVE" /\ \A x \in Asking : Handled[x] = e.ev => x = ind
    BY WlfwAssumption, AskingFacts DEF Events, NoServerEvent
  <1> HIDE DEF e
  <1>4. /\ 1 \in DOMAIN wire /\ wire[1].ind = ind
        /\ boot' = boot /\ WireFrom(1) /\ WireAsks
        /\ \A i \in DOMAIN wire' : i \in Nat \ {0} /\ i + 1 \in DOMAIN wire /\ wire'[i] = wire[i + 1]
        /\ \A i \in DOMAIN wire' : wire'[i].of <= boot'
    BY <1>1, TakenFromWire
  <1>5. OnWire(ind, 1) /\ ~Unheard(ind) /\ ~Nothing(ind)
    BY <1>4 DEF OnWire, Unheard, Nothing, Idle
  <1>6. /\ Len(events) \in Nat /\ DOMAIN events = 1..Len(events)
        /\ DOMAIN events' = 1..Len(events) + 1 /\ events'[Len(events) + 1] = e
        /\ \A i \in DOMAIN events : /\ events'[i] = events[i]
                                    /\ Arriving(i)' <=> Arriving(i)
                                    /\ \A x \in Asking : Queued(x, i)' <=> Queued(x, i)
        /\ \A x \in Asking : e.ev # Handled[x] => (Unqueued(x)' <=> Unqueued(x))
    BY <1>1, <1>2, <1>3, Posted
  <1>7.    /\ \A i \in DOMAIN wire' :
                 /\ i \in Nat \ {0} /\ i + 1 \in Nat \ {0}
                 /\ News(i)' => i + 1 \in DOMAIN wire /\ News(i + 1)
                 /\ Dels(i)' => i + 1 \in DOMAIN wire /\ Dels(i + 1)
                 /\ Announced(i)' => i + 1 \in DOMAIN wire /\ Announced(i + 1)
                 /\ \A x \in Asking : OnWire(x, i)' => i + 1 \in DOMAIN wire /\ OnWire(x, i + 1)
           /\ \A x \in Asking : Unheard(x) => Unheard(x)'
           /\ \A x \in Asking :
                 (\A i, j \in DOMAIN wire : OnWire(x, i) /\ OnWire(x, j) => i = j)
                 => (\A i, j \in DOMAIN wire' : OnWire(x, i)' /\ OnWire(x, j)' => i = j)
    BY <1>1, <1>2, <1>4, WireFades
  <1>8. /\ Connecting' <=> Connecting
        /\ \A x \in Asking : Working(x)' <=> Working(x)
    BY <1>2 DEF Connecting, At, Working
  <1>9. \A i \in DOMAIN events' : i \in DOMAIN events \/ i = Len(events) + 1
    BY <1>6
  <1>10. \A i \in DOMAIN events' : Arriving(i)' => i \in DOMAIN events /\ Arriving(i)
    <2>1. \A i : i = Len(events) + 1 => ~Arriving(i)'
      BY <1>3, <1>6 DEF Arriving, Arrives
    <2> QED
      BY <1>6, <1>9, <2>1
  <1>11. Met' => Met
    BY <1>2, <1>8, <1>10 DEF Met
  <1>12. \A x \in Asking \ {ind} : Nothing(x) => Nothing(x)'
    BY <1>3, <1>6, <1>7, <1>8 DEF Nothing, Idle
  <1>13. \A x \in Asking \ {ind} : \A i \in DOMAIN events' : Queued(x, i)' =>
                i \in DOMAIN events /\ Queued(x, i)
    <2>1. \A x \in Asking \ {ind} : \A i : i = Len(events) + 1 => ~Queued(x, i)'
      BY <1>3, <1>6 DEF Queued
    <2> QED
      BY <1>6, <1>9, <2>1
  <1>14. \A x \in Asking \ {ind} : OneOf(x) => OneOf(x)'
    <2> SUFFICES ASSUME NEW x \in Asking \ {ind}, OneOf(x) PROVE OneOf(x)'
      OBVIOUS
    <2>1. \A i, j \in DOMAIN events' : Queued(x, i)' /\ Queued(x, j)' => i = j
      BY <1>13 DEF OneOf, AtOnce, Idle
    <2>2. Unqueued(x) => Unqueued(x)'
      BY <1>13 DEF Unqueued
    <2> QED
      BY <1>7, <1>8, <2>1, <2>2 DEF OneOf, AtOnce, Idle
  <1>15. OneOf(ind) => OneOf(ind)'
    <2> SUFFICES ASSUME OneOf(ind) PROVE OneOf(ind)'
      OBVIOUS
    <2>1. Unqueued(ind) /\ ~Working(ind)
      BY <1>5 DEF OneOf, AtOnce, Idle
    <2>2. Unheard(ind)'
      <3> SUFFICES ASSUME NEW i \in DOMAIN wire', OnWire(ind, i)' PROVE FALSE
        BY DEF Unheard
      <3>1. i + 1 \in DOMAIN wire /\ OnWire(ind, i + 1) /\ i \in Nat \ {0}
        BY <1>7
      <3>2. i + 1 = 1
        BY <1>4, <1>5, <3>1 DEF OneOf, AtOnce, Idle
      <3> QED
        BY <3>1, <3>2
    <2>3. \A i \in DOMAIN events' : Queued(ind, i)' => i = Len(events) + 1
      BY <1>6, <1>9, <2>1 DEF Unqueued
    <2> QED
      BY <1>7, <1>8, <2>1, <2>2, <2>3 DEF OneOf, AtOnce, Idle
  <1>16. NoLater' /\ LastSteps'
    <2>1. \A i \in DOMAIN events' : events'[i].of <= boot'
      BY <1>1, <1>2, <1>3, <1>6, <1>9 DEF NoLater
    <2> QED
      BY <1>1, <1>2, <1>4, <2>1 DEF NoLater, LastSteps
  <1>17. Fresh'
    <2> SUFFICES ASSUME fw.state = "up" PROVE Fresh'
      BY <1>2 DEF Fresh
    <2>1. /\ AnnouncedFirst /\ NoExit /\ NothingBehind /\ NothingQueued /\ NothingThere
          /\ NotAsked /\ AskedOnce /\ NoTraceYet
      BY <1>1 DEF Fresh
    <2>2. AnnouncedFirst' /\ NoExit'
      BY <1>2, <1>7, <1>11, <2>1 DEF AnnouncedFirst, NoExit
    <2>3. NothingBehind'
      <3> SUFFICES ASSUME NEW i \in DOMAIN wire', NEW j \in DOMAIN wire', Announced(i)', j > i
                   PROVE  ~Dels(j)' /\ \A x \in Asking : ~OnWire(x, j)'
        BY DEF NothingBehind
      <3>1. i + 1 \in DOMAIN wire /\ Announced(i + 1) /\ j + 1 > i + 1
        BY <1>7
      <3> QED
        BY <1>7, <2>1, <3>1 DEF NothingBehind
    <2>4. NothingQueued'
      BY <1>5, <1>10, <2>1 DEF NothingQueued
    <2>5. NothingThere'
      BY <1>5, <1>8, <2>1 DEF NothingThere
    <2>6. NotAsked'
      BY <1>2, <1>5, <1>12, <2>1 DEF NotAsked
    <2>7. AskedOnce'
      BY <1>2, <1>14, <1>15, <2>1, AskingFacts DEF AskedOnce
    <2>8. NoTraceYet'
      BY <1>2, <2>1 DEF NoTraceYet
    <2> QED
      BY <2>2, <2>3, <2>4, <2>5, <2>6, <2>7, <2>8 DEF Fresh
  <1>18. Hosted'
    <2>1. QuietHost
      BY <1>1, <1>2, SameFwQuiet
    <2>2. Nothing("FW_INIT_DONE") => Nothing("FW_INIT_DONE")'
      BY <1>5, <1>12 DEF Asking
    <2> QED
      BY <1>1, <2>1, <2>2, HostedStays
  <1> QED
    BY <1>16, <1>17, <1>18 DEF Served

LEMMA IndicationServed ==
    ASSUME IInv, TypeOK', Served,
           RequestMemInd \/ FwMemReadyInd \/ FwInitDoneInd \/ QdssReqMemInd \/ QdssFreeInd
    PROVE  Served'
  <1>1. PICK ind \in Asking \cup {"FW_MEM_READY"} :
           /\ Receive(ind) /\ UNCHANGED del_server
           /\ \/ UNCHANGED events
              \/ ind = "FW_MEM_READY" /\ events' = Append(events, [ev |-> "FW_MEM_READY", of |-> 0])
              \/ ind # "FW_MEM_READY" /\ events' = Append(events, [ev |-> Handled[ind], of |-> 0])
    BY DEF RequestMemInd, FwMemReadyInd, FwInitDoneInd, QdssReqMemInd, QdssFreeInd, Post, Asking,
       Handled
  <1>2. CASE QuietEvents
    BY <1>1, <1>2, IgnoredServed
  <1>3. CASE ind \in Asking /\ events' = Append(events, [ev |-> Handled[ind], of |-> 0])
    BY <1>1, <1>3, AskedServed
  <1> QED
    BY <1>1, <1>2, <1>3 DEF QuietEvents

\* The exit of a server that nobody met.
LEMMA DelServerServed ==
    ASSUME IInv, TypeOK', Served, DelServer
    PROVE  Served'
  <1>1. NoLater /\ LastSteps /\ Fresh /\ Hosted /\ TypeOK /\ boot \in Nat
    BY DEF Served, IInv, TypeOK
  <1>2. UNCHANGED <<fw, boot, lookup, peer, connected, worker, host>> /\ Dels(1)
    BY Received DEF DelServer
  <1>3. /\ 1 \in DOMAIN wire /\ WireFrom(1) /\ WireAsks
        /\ \A i \in DOMAIN wire' : wire'[i].of <= boot'
    BY <1>1, TakenFromWire DEF DelServer
  <1>4. EventsFrom /\ \A i \in DOMAIN events' : events'[i].of <= boot'
    <2>1. CASE UNCHANGED events
      BY <1>1, <1>2, <2>1 DEF EventsFrom, NoLater
    <2>2. CASE events' = Append(events, [ev |-> "SERVER_EXIT", of |-> 0])
      <3> DEFINE e == [ev |-> "SERVER_EXIT", of |-> 0]
      <3>1. e.ev = "SERVER_EXIT" /\ e.of = 0 /\ e \in Events /\ events' = Append(events, e)
            /\ ~HandledBy("SERVER_EXIT")
        BY <2>2, WlfwAssumption, AskingFacts DEF Events, Chain, HandledBy, NoServerEvent
      <3> HIDE DEF e
      <3>2. /\ Len(events) \in Nat /\ DOMAIN events = 1..Len(events)
            /\ DOMAIN events' = 1..Len(events) + 1 /\ events'[Len(events) + 1] = e
            /\ \A i \in DOMAIN events : events'[i] = events[i]
        BY <1>1, <1>2, <3>1, Posted
      <3>3. \A i \in DOMAIN events' : i \in DOMAIN events \/ i = Len(events) + 1
        BY <3>2
      <3>4. EventsFrom
        BY <3>1, <3>2, <3>3 DEF EventsFrom, Arriving, Arrives
      <3> QED
        BY <1>1, <1>2, <3>1, <3>2, <3>3, <3>4 DEF NoLater
    <2> QED
      BY <2>1, <2>2 DEF DelServer, Post
  <1>5. WorkerFrom /\ SaidFrom /\ QuietHost
    BY <1>1, <1>2, SameFwQuiet DEF WorkerFrom, At, SaidFrom
  <1>6. NoLater' /\ LastSteps'
    BY <1>1, <1>2, <1>3, <1>4 DEF NoLater, LastSteps
  <1>7. Fresh'
    <2>1. CASE fw.state = "up"
      <3>1. ~Met /\ NoTraceYet'
        BY <1>1, <1>2, <1>3, <2>1 DEF Fresh, NoExit, NoTraceYet
      <3> QED
        BY <1>1, <1>2, <1>3, <1>4, <1>5, <2>1, <3>1, FreshFades
    <2>2. CASE fw.state # "up"
      BY <1>2, <2>2 DEF Fresh
    <2> QED
      BY <2>1, <2>2
  <1>8. Hosted'
    BY <1>1, <1>2, <1>3, <1>4, <1>5, NothingFades, HostedStays DEF Asking
  <1> QED
    BY <1>6, <1>7, <1>8 DEF Served

\* A server that is posted: if it is of this boot, nothing is behind it.
LEMMA NewServerServed ==
    ASSUME IInv, TypeOK', Served, NewServer
    PROVE  Served'
  <1>1. NoLater /\ LastSteps /\ Fresh /\ Hosted /\ TypeOK /\ boot \in Nat
    BY DEF Served, IInv, TypeOK
  <1>2. UNCHANGED <<fw, boot, lookup, peer, connected, worker, host, del_server>> /\ News(1)
    BY Received DEF NewServer
  <1>3. /\ 1 \in DOMAIN wire /\ wire[1] = Head(wire) /\ wire[1] \in Messages /\ WireFrom(1) /\ WireAsks
        /\ \A i \in DOMAIN wire' : i \in Nat \ {0} /\ i + 1 \in DOMAIN wire /\ wire'[i] = wire[i + 1]
        /\ \A i \in DOMAIN wire' : wire'[i].of <= boot'
    BY <1>1, TakenFromWire DEF NewServer
  <1>4. CASE UNCHANGED events
    BY <1>2, <1>4, IgnoredServed DEF NewServer, QuietEvents
  <1>5. CASE events' = Append(events, [ev |-> "SERVER_ARRIVE", of |-> wire[1].of]) /\ ~del_server
    <2> DEFINE e == [ev |-> "SERVER_ARRIVE", of |-> wire[1].of]
    <2>1. e.ev = "SERVER_ARRIVE" /\ e.of = wire[1].of /\ e \in Events /\ events' = Append(events, e)
          /\ e.of <= boot /\ \A x \in Asking : Handled[x] # e.ev
      BY <1>1, <1>3, <1>5, AskingFacts DEF Events, Chain, Messages, NoServerEvent, NoLater
    <2> HIDE DEF e
    <2>2. /\ Len(events) \in Nat /\ DOMAIN events = 1..Len(events)
          /\ DOMAIN events' = 1..Len(events) + 1 /\ events'[Len(events) + 1] = e
          /\ \A i \in DOMAIN events : /\ events'[i] = events[i]
                                      /\ Arriving(i)' <=> Arriving(i)
                                      /\ \A x \in Asking : Queued(x, i)' <=> Queued(x, i)
          /\ \A x \in Asking : e.ev # Handled[x] => (Unqueued(x)' <=> Unqueued(x))
      BY <1>1, <1>2, <2>1, Posted
    <2>3. \A i \in DOMAIN events' : i \in DOMAIN events \/ i = Len(events) + 1
      BY <2>2
    <2>4. \A x \in Asking : \A i \in DOMAIN events' : Queued(x, i)' =>
                 i \in DOMAIN events /\ Queued(x, i)
      <3>1. \A x \in Asking : \A i : i = Len(events) + 1 => ~Queued(x, i)'
        BY <2>1, <2>2 DEF Queued
      <3> QED
        BY <2>2, <2>3, <3>1
    <2>5.    /\ \A i \in DOMAIN wire' :
                   /\ i \in Nat \ {0} /\ i + 1 \in Nat \ {0}
                   /\ News(i)' => i + 1 \in DOMAIN wire /\ News(i + 1)
                   /\ Dels(i)' => i + 1 \in DOMAIN wire /\ Dels(i + 1)
                   /\ Announced(i)' => i + 1 \in DOMAIN wire /\ Announced(i + 1)
                   /\ \A x \in Asking : OnWire(x, i)' => i + 1 \in DOMAIN wire /\ OnWire(x, i + 1)
             /\ \A x \in Asking : Unheard(x) => Unheard(x)'
             /\ \A x \in Asking :
                   (\A i, j \in DOMAIN wire : OnWire(x, i) /\ OnWire(x, j) => i = j)
                   => (\A i, j \in DOMAIN wire' : OnWire(x, i)' /\ OnWire(x, j)' => i = j)
      BY <1>1, <1>2, <1>3, WireFades
    <2>6. /\ Connecting' <=> Connecting
          /\ \A x \in Asking : Working(x)' <=> Working(x)
      BY <1>2 DEF Connecting, At, Working
    <2>7. \A x \in Asking : Unqueued(x) => Unqueued(x)'
      BY <2>4 DEF Unqueued
    <2>8. \A x \in Asking : Nothing(x) => Nothing(x)'
      BY <2>5, <2>6, <2>7 DEF Nothing, Idle
    <2>9. \A x \in Asking : OneOf(x) => OneOf(x)'
      BY <2>4, <2>5, <2>6, <2>7 DEF OneOf, AtOnce, Idle
    <2>10. NoLater' /\ LastSteps'
      <3>1. \A i \in DOMAIN events' : events'[i].of <= boot'
        BY <1>1, <1>2, <2>1, <2>2, <2>3 DEF NoLater
      <3> QED
        BY <1>1, <1>2, <1>3, <3>1 DEF NoLater, LastSteps
    <2>11. Fresh'
      <3> SUFFICES ASSUME fw.state = "up" PROVE Fresh'
        BY <1>2 DEF Fresh
      <3>1. /\ AnnouncedFirst /\ NoExit /\ NothingBehind /\ NothingQueued /\ NothingThere
            /\ NotAsked /\ AskedOnce /\ NoTraceYet
        BY <1>1 DEF Fresh
      <3>2. NothingThere'
        BY <2>6, <2>8, <3>1 DEF NothingThere
      <3>3. NotAsked'
        BY <1>2, <2>8, <3>1 DEF NotAsked
      <3>4. AskedOnce'
        BY <1>2, <2>9, <3>1, AskingFacts DEF AskedOnce
      <3>5. NoTraceYet'
        BY <1>2, <3>1 DEF NoTraceYet
      <3>6. CASE e.of = boot
        <4>1. Announced(1)
          BY <1>2, <2>1, <3>6 DEF Announced
        <4>2. \A i \in DOMAIN wire' : ~Dels(i)' /\ \A x \in Asking : ~OnWire(x, i)'
          <5> SUFFICES ASSUME NEW i \in DOMAIN wire'
                       PROVE  ~Dels(i)' /\ \A x \in Asking : ~OnWire(x, i)'
            OBVIOUS
          <5>1. i + 1 \in DOMAIN wire /\ i + 1 > 1
            BY <1>3
          <5>2. ~Dels(i + 1) /\ \A x \in Asking : ~OnWire(x, i + 1)
            BY <1>3, <3>1, <4>1, <5>1 DEF NothingBehind
          <5> QED
            BY <2>5, <5>2
        <4>3. \A x \in Asking : Unheard(x)'
          BY <4>2 DEF Unheard
        <4>4. AnnouncedFirst' /\ NoExit' /\ NothingBehind'
          <5>1. "NEW" \in fw'.sent
            BY <1>2, <1>3, <3>1, <4>1 DEF AnnouncedFirst
          <5> QED
            BY <1>2, <1>5, <4>2, <5>1 DEF AnnouncedFirst, NoExit, NothingBehind
        <4>5. NothingQueued'
          <5> SUFFICES ASSUME NEW i \in DOMAIN events', Arriving(i)', NEW x \in Asking,
                              NEW j \in DOMAIN events', j > i, Queued(x, j)'
                       PROVE  FALSE
            BY <4>3 DEF NothingQueued
          <5>1. j \in DOMAIN events /\ Queued(x, j) /\ i \in DOMAIN events
            BY <2>2, <2>4
          <5>2. Arriving(i)
            BY <2>2, <5>1
          <5> QED
            BY <3>1, <5>1, <5>2 DEF NothingQueued
        <4> QED
          BY <4>4, <4>5, <3>2, <3>3, <3>4, <3>5 DEF Fresh
      <3>7. CASE e.of # boot
        <4>1. \A i \in DOMAIN events' : Arriving(i)' => i \in DOMAIN events /\ Arriving(i)
          <5>1. \A i : i = Len(events) + 1 => ~Arriving(i)'
            BY <1>2, <2>2, <3>7 DEF Arriving
          <5> QED
            BY <2>2, <2>3, <5>1
        <4>2. Met' => Met
          BY <1>2, <2>6, <4>1 DEF Met
        <4>3. AnnouncedFirst' /\ NoExit'
          BY <1>2, <2>5, <3>1, <4>2 DEF AnnouncedFirst, NoExit
        <4>4. NothingBehind'
          <5> SUFFICES ASSUME NEW i \in DOMAIN wire', NEW j \in DOMAIN wire', Announced(i)', j > i
                       PROVE  ~Dels(j)' /\ \A x \in Asking : ~OnWire(x, j)'
            BY DEF NothingBehind
          <5>1. i + 1 \in DOMAIN wire /\ Announced(i + 1) /\ j + 1 > i + 1
            BY <2>5
          <5> QED
            BY <2>5, <3>1, <5>1 DEF NothingBehind
        <4>5. NothingQueued'
          BY <2>4, <2>5, <3>1, <4>1 DEF NothingQueued
        <4> QED
          BY <4>3, <4>4, <4>5, <3>2, <3>3, <3>4, <3>5 DEF Fresh
      <3> QED
        BY <3>6, <3>7
    <2>12. QuietHost
      BY <1>1, <1>2, SameFwQuiet
    <2>13. Hosted'
      BY <1>1, <2>8, <2>12, HostedStays DEF Asking
    <2> QED
      BY <2>10, <2>11, <2>13 DEF Served
  <1> QED
    BY <1>3, <1>4, <1>5 DEF NewServer, Post

LEMMA InitServed == Init => Served
  <1> SUFFICES ASSUME Init PROVE Served
    OBVIOUS
  <1>1. /\ fw.state = "off" /\ boot = 0 /\ peer = 0 /\ ~connected /\ host = "none"
        /\ worker.steps = <<>> /\ worker.of = 0 /\ DOMAIN worker.steps = {}
        /\ DOMAIN events = {} /\ DOMAIN wire = {}
    BY DEF Init, NoFw, Resting
  <1>2. NoLater /\ LastSteps
    BY <1>1 DEF NoLater, LastSteps
  <1>3. Fresh /\ Hosted
    BY <1>1 DEF Fresh, Hosted, HostIsServed
  <1> QED
    BY <1>2, <1>3 DEF Served

LEMMA StepServed == IInv /\ TypeOK' /\ Served /\ [Next]_vars => Served'
  <1> SUFFICES ASSUME IInv, TypeOK', Served, [Next]_vars PROVE Served'
    OBVIOUS
  <1>1. ASSUME Quiet /\ QuietHost PROVE Served'
    BY <1>1, QuietKeeps
  <1>2. CASE Firmware
    <2>1. Requests \subseteq Wanted /\ <<>> \in Wanted
      BY DEF Wanted
    <2>2. CASE FwAnnounce
      BY <2>2, FwAnnounceServed
    <2>3. CASE FwIndicate("FW_MEM_READY", <<>>)
      BY <2>3, FwMemReadyServed
    <2>4. CASE \E ind \in Asking, segs \in Wanted : FwIndicate(ind, segs)
      BY <2>4, FwAsksServed
    <2> QED
      BY <1>2, <2>1, <2>2, <2>3, <2>4 DEF Firmware, Asking
  <1>3. CASE FwGone
    BY <1>3, FwGoneServed
  <1>4. CASE Crash
    BY <1>1, <1>4, ShutdownQuiet
  <1>5. CASE QmiThread
    BY <1>5, NewServerServed, DelServerServed, IndicationServed DEF QmiThread
  <1>6. CASE Worker
    <2>1. CASE TakeEvent \/ Connect \/ ServerExit \/ PowerUp
      BY <2>1, TakeEventServed, ConnectServed, ServerExitServed, PowerUpServed
    <2>2. CASE IndRegister \/ HostCap \/ RespondMem \/ TgtCap \/ BdfDnld \/ M3Dnld
               \/ SetupDmsMac \/ TraceMemInfo
      BY <1>1, <2>2, WorkerRequestsQuiet
    <2>3. CASE FwMemReady \/ FwReady \/ GenSpeed \/ Files \/ QdssDnld \/ AllocFwMem \/ LoadM3
               \/ AllocQdssMem \/ FreeQdssMem
      BY <1>1, <2>3, WorkerQuiet DEF Files, QdssDnld
    <2>4. CASE WlanCfg \/ WlanMode
      <3>1. ("wlan_cfg" = "wlan_mode") = FALSE /\ ("wlan_mode" = "wlan_mode") = TRUE
        OBVIOUS
      <3>2. CASE WlanCfg
        BY <3>1, <3>2, ProbeServed DEF WlanCfg
      <3>3. CASE WlanMode
        BY <3>1, <3>3, ProbeServed DEF WlanMode
      <3> QED
        BY <2>4, <3>2, <3>3
    <2>5. CASE Shutdown
      BY <1>1, <2>5, ShutdownQuiet
    <2> QED
      BY <1>6, <2>1, <2>2, <2>3, <2>4, <2>5 DEF Worker, ServerArrive, RequestMem, MemReady, Ready,
         QdssEvents
  <1>7. CASE Host \/ User
    BY <1>1, <1>7, HostQuiet DEF Host, User
  <1>8. CASE UNCHANGED vars
    <2>1. UNCHANGED <<fw, boot, wire, lookup, peer, connected, del_server, events, worker, bits,
                      fw_mem, m3_mem, qdss_mem, host, faults, traces>>
      BY <1>8 DEF vars, fwVars, linkVars, memVars
    <2>2. QuietFw /\ QuietHost
      BY <2>1, SameFwQuiet DEF IInv
    <2> QED
      BY <1>1, <2>1, <2>2 DEF Quiet, QuietEvents, QuietWorker, QuietWire
  <1> QED
    BY <1>2, <1>3, <1>4, <1>5, <1>6, <1>7, <1>8 DEF Next

\* What is left of earlier boots, and what this one has asked for.
THEOREM ServedInvariant == Spec => [](IInv /\ Served)
  <1>1. Init => IInv /\ Served
    BY InitHolds, InitServed
  <1>2. IInv /\ Served /\ [Next]_vars => (IInv /\ Served)'
    <2>1. IInv' => TypeOK'
      BY DEF IInv
    <2> QED
      BY <2>1, StepHolds, StepServed
  <1> QED
    BY <1>1, <1>2, PTL DEF Spec

\* The host driver is up only on a firmware that went through the whole
\* handshake in this boot and is in the mode asked for, or has died since.
THEOREM ServesTheHost == Spec => []HostIsServed
  <1>1. IInv /\ Served => HostIsServed
    BY DEF Served, Hosted
  <1> QED
    BY <1>1, ServedInvariant, PTL

-----------------------------------------------------------------------------
(***************************************************************************)
(* The memory that was asked for                                           *)
(***************************************************************************)

\* What the firmware asks for is on the wire, then in fw_mem, and then given.
MemoryAsked ==
    fw.state = "up" =>
       IF "REQUEST_MEM" \in fw.sent
          THEN /\ \A i \in DOMAIN wire : OnWire("REQUEST_MEM", i) => wire[i].segs = fw.asked
               /\ Unheard("REQUEST_MEM") => fw_mem.segs = fw.asked
               /\ fw.accepted >= 3 => Unheard("REQUEST_MEM") /\ fw.mem = fw.asked
          ELSE fw.accepted < 3

\* Memory is allocated just before the firmware is told of it.
TraceSteps ==
    \A i \in DOMAIN worker.steps :
       /\ worker.steps[i] = "trace_mem" => i = 1 \/ (i = 2 /\ At("alloc_qdss_mem"))
       /\ worker.steps[i] = "free_qdss_mem" => Len(worker.steps) = 1

\* It is asked for in segments.
TraceLens == \A i \in DOMAIN wire : OnWire("QDSS_REQ_MEM", i) => Len(wire[i].segs) # 0

\* While WLAN is enabled and nothing failed, trace memory is requested, given and
\* freed in turn: there is at most one event of each, and the firmware has the
\* memory only when there is none.
Tracing ==
    fw.state = "up" /\ "FW_INIT_DONE" \in fw.sent /\ faults = 0 /\ host \in {"none", "up"}
Given ==
    /\ fw.traceMem = 1..qdss_mem.len /\ fw.traceMem \subseteq qdss_mem.va
    /\ qdss_mem.len # 0
InTurn ==
    /\ AtOnce("QDSS_REQ_MEM") /\ OneOf("QDSS_FREE")
    /\ ~Idle("QDSS_REQ_MEM") => qdss_mem.len # 0 /\ Nothing("QDSS_FREE") /\ fw.traceMem = {}
    /\ ~Nothing("QDSS_FREE") => qdss_mem.len # 0 /\ fw.traceMem = {}
    /\ fw.traceMem # {} => Given
    /\ At("trace_mem") => 1..qdss_mem.len \subseteq qdss_mem.va
Traced == Tracing => InTurn

Backed == MemoryAsked /\ TraceSteps /\ TraceLens /\ Traced

\* A step that brings no indication, no event of one.
TraceInds == {"QDSS_REQ_MEM", "QDSS_FREE"}
Unsent(inds) ==
    \/ UNCHANGED wire
    \/ wire # <<>> /\ wire' = Tail(wire)
    \/ \E m \in Messages : m.ind \notin inds /\ wire' = Append(wire, m)
    \/ \A i \in DOMAIN wire' : wire'[i].ind \notin inds
Unposted(inds) ==
    \/ UNCHANGED events
    \/ \E e \in Events : (\A ind \in inds : e.ev # Handled[ind]) /\ events' = Append(events, e)

\* A step that leaves what was asked for, and one that leaves the trace memory.
StillAsked ==
    \/ UNCHANGED wire
    \/ \E m \in Messages : m.ind # "REQUEST_MEM" /\ wire' = Append(wire, m)
    \/ wire # <<>> /\ Head(wire).ind # "REQUEST_MEM" /\ wire' = Tail(wire)
    \/ "REQUEST_MEM" \notin fw.sent
MemoryCalm ==
    fw'.state = "up" =>
       /\ fw.state = "up" /\ fw'.asked = fw.asked /\ fw_mem'.segs = fw_mem.segs
       /\ "REQUEST_MEM" \in fw'.sent <=> "REQUEST_MEM" \in fw.sent
       /\ fw'.accepted >= 3 => fw.accepted >= 3 /\ fw'.mem = fw.mem
       /\ StillAsked
TraceCalm ==
    Tracing' => /\ Tracing /\ fw'.traceMem = fw.traceMem /\ qdss_mem' = qdss_mem
                /\ ~At("alloc_qdss_mem") \/ worker' = worker \/ worker' = Resting

\* The steps of the worker about trace memory.
LEMMA StepsStay ==
    ASSUME TypeOK, TraceSteps, QuietWorker
    PROVE  /\ TraceSteps'
           /\ At("trace_mem")' => At("trace_mem") \/ At("alloc_qdss_mem")
           /\ worker' = worker => (At("trace_mem")' <=> At("trace_mem"))
  <1> DEFINE s == worker.steps
  <1>0. s \in Seq(Steps)
    BY DEF TypeOK
  <1>1. CASE UNCHANGED worker
    BY <1>1 DEF TraceSteps, At
  <1>2. CASE s # <<>> /\ worker'.steps = <<>>
    BY <1>2 DEF TraceSteps, At
  <1>3. CASE s # <<>> /\ worker'.steps = Tail(s)
    <2>1. /\ s[1] = Head(s) /\ Len(s) \in Nat \ {0} /\ DOMAIN s = 1..Len(s)
          /\ DOMAIN Tail(s) = 1..Len(s) - 1 /\ Len(Tail(s)) = Len(s) - 1
          /\ \A i \in DOMAIN Tail(s) : Tail(s)[i] = s[i + 1] /\ i + 1 \in DOMAIN s
      BY <1>0, <1>3, Taken
    <2>2. At("alloc_qdss_mem") => s[1] = "alloc_qdss_mem"
      BY <2>1 DEF At
    <2>3. \A i \in DOMAIN Tail(s) : Tail(s)[i] # "free_qdss_mem"
      BY <2>1 DEF TraceSteps
    <2>4. \A i \in DOMAIN Tail(s) : Tail(s)[i] = "trace_mem" => i = 1 /\ At("alloc_qdss_mem")
      BY <2>1 DEF TraceSteps
    <2>5. TraceSteps'
      BY <1>3, <2>3, <2>4 DEF TraceSteps
    <2>6. At("trace_mem")' => At("alloc_qdss_mem")
      <3> SUFFICES ASSUME Tail(s) # <<>>, Head(Tail(s)) = "trace_mem" PROVE At("alloc_qdss_mem")
        BY <1>3 DEF At
      <3>1. 1 \in DOMAIN Tail(s) /\ Tail(s)[1] = Head(Tail(s))
        <4>1. Tail(s) \in Seq(Steps)
          BY <1>0, <1>3, Taken
        <4> QED
          BY <4>1, Taken
      <3> QED
        BY <2>4, <3>1
    <2> QED
      BY <2>5, <2>6 DEF At
  <1> QED
    BY <1>0, <1>1, <1>2, <1>3 DEF QuietWorker, Go, Resting, TypeOK

\* What a request that is accepted changes of the memory.
LEMMA DoneMemory ==
    ASSUME TypeOK, NEW req \in DOMAIN WaitsFor, Accepts(req), fw' = Done(req)
    PROVE  /\ fw.state = "up" /\ fw'.state = "up" /\ fw'.asked = fw.asked
           /\ \A ind \in SentOnce : ind \in fw'.sent <=> ind \in fw.sent
           /\ req # "respond_mem" => fw'.mem = fw.mem /\ (fw'.accepted >= 3 => fw.accepted >= 3)
           /\ req = "respond_mem" => fw'.mem = fw_mem.segs /\ "REQUEST_MEM" \in fw.sent
           /\ req \notin {"trace_mem", "mode_off"} => fw'.traceMem = fw.traceMem
           /\ req = "trace_mem" => fw'.traceMem = 1..qdss_mem.len
  <1>1. /\ fw \in FwType /\ fw.state = "up" /\ WaitsFor[req] \in fw.sent
        /\ req \in DOMAIN Protocol => Protocol[req] <= fw.accepted + 1
    BY DEF TypeOK, Accepts
  <1>2. SaidFrom /\ fw'.state = "up" /\ fw'.asked = fw.asked
    BY DoneSays
  <1>3. \A ind \in SentOnce : ind \in fw'.sent <=> ind \in fw.sent
    BY <1>2 DEF SaidFrom
  <1>4. req # "respond_mem" => fw'.mem = fw.mem
    BY <1>1 DEF Done, FwType
  <1>5. req = "respond_mem" => fw'.mem = fw_mem.segs /\ "REQUEST_MEM" \in fw.sent
    BY <1>1 DEF Done, FwType, WaitsFor
  <1>6. /\ req \notin {"trace_mem", "mode_off"} => fw'.traceMem = fw.traceMem
        /\ req = "trace_mem" => fw'.traceMem = 1..qdss_mem.len
    BY <1>1 DEF Done, FwType
  <1>7. req # "respond_mem" /\ fw'.accepted >= 3 => fw.accepted >= 3
    <2>1. fw'.accepted = CASE req = "mode_off" /\ fw.accepted = 7 -> 5
                          [] req \in DOMAIN Protocol /\ Protocol[req] > fw.accepted -> Protocol[req]
                          [] OTHER -> fw.accepted
      BY <1>1 DEF Done, FwType
    <2>2. CASE req = "mode_off"
      BY <1>1, <2>1, <2>2 DEF Protocol, FwType
    <2>3. CASE req \notin DOMAIN Protocol /\ req # "mode_off"
      BY <2>1, <2>3
    <2>4. CASE req \in DOMAIN Protocol
      <3>1. Protocol[req] \in 1..7 /\ (Protocol[req] = 3 => req = "respond_mem")
        BY <2>4 DEF Protocol
      <3>2. fw'.accepted = fw.accepted \/ fw'.accepted = Protocol[req]
        BY <1>1, <2>1, <2>4 DEF Protocol
      <3> QED
        BY <1>1, <3>1, <3>2, <2>4 DEF FwType
    <2> QED
      BY <2>2, <2>3, <2>4
  <1> QED
    BY <1>1, <1>2, <1>3, <1>4, <1>5, <1>6, <1>7

\* A step that brings nothing new: what is nowhere stays so, and what is in one
\* place is so still.
LEMMA UnsentFrom ==
    ASSUME TypeOK, TypeOK', NEW inds, Unsent(inds)
    PROVE  \E d \in {0, 1} : \A i \in DOMAIN wire' : wire'[i].ind \in inds =>
              i \in Nat /\ i + d \in DOMAIN wire /\ wire[i + d] = wire'[i]
  <1>1. wire \in Seq(Messages) /\ wire' \in Seq(Messages) /\ \A i \in DOMAIN wire' : i \in Nat
    <2>1. wire \in Seq(Messages) /\ wire' \in Seq(Messages)
      BY DEF TypeOK
    <2>2. DOMAIN wire' = 1..Len(wire') /\ Len(wire') \in Nat
      BY <2>1
    <2> QED
      BY <2>1, <2>2
  <1>2. CASE UNCHANGED wire
    <2>1. \A i \in DOMAIN wire' : i + 0 \in DOMAIN wire /\ wire[i + 0] = wire'[i]
      BY <1>1, <1>2
    <2> QED
      BY <1>1, <2>1
  <1>3. CASE wire # <<>> /\ wire' = Tail(wire)
    <2>1. \A i \in DOMAIN wire' : i + 1 \in DOMAIN wire /\ wire[i + 1] = wire'[i]
      BY <1>1, <1>3, Taken
    <2> QED
      BY <1>1, <2>1
  <1>4. ASSUME NEW m \in Messages, m.ind \notin inds, wire' = Append(wire, m)
        PROVE  \A i \in DOMAIN wire' : wire'[i].ind \in inds =>
                  i + 0 \in DOMAIN wire /\ wire[i + 0] = wire'[i]
    <2>1. /\ Len(wire) \in Nat /\ DOMAIN wire = 1..Len(wire)
          /\ DOMAIN wire' = 1..Len(wire) + 1 /\ wire'[Len(wire) + 1] = m
          /\ \A i \in DOMAIN wire : wire'[i] = wire[i]
      BY <1>1, <1>4, Appended
    <2>2. \A i \in DOMAIN wire' : (i \in DOMAIN wire /\ i + 0 = i) \/ i = Len(wire) + 1
      BY <2>1
    <2> QED
      BY <1>4, <2>1, <2>2
  <1>5. CASE \A i \in DOMAIN wire' : wire'[i].ind \notin inds
    BY <1>5
  <1> QED
    BY <1>1, <1>2, <1>3, <1>4, <1>5 DEF Unsent

LEMMA UnpostedFrom ==
    ASSUME TypeOK, NEW inds, Unposted(inds), NEW ind \in inds
    PROVE  \A i \in DOMAIN events' : Queued(ind, i)' => i \in DOMAIN events /\ Queued(ind, i)
  <1>1. CASE UNCHANGED events
    BY <1>1 DEF Queued
  <1>2. ASSUME NEW e \in Events, e.ev # Handled[ind], events' = Append(events, e)
        PROVE  \A i \in DOMAIN events' : Queued(ind, i)' => i \in DOMAIN events /\ Queued(ind, i)
    <2>1. events \in Seq(Events)
      BY DEF TypeOK
    <2>2. /\ Len(events) \in Nat /\ DOMAIN events = 1..Len(events)
          /\ DOMAIN events' = 1..Len(events) + 1 /\ events'[Len(events) + 1] = e
          /\ \A i \in DOMAIN events : events'[i] = events[i]
      BY <1>2, <2>1, Appended
    <2>3. \A i \in DOMAIN events' : i \in DOMAIN events \/ i = Len(events) + 1
      BY <2>2
    <2>4. \A i : i = Len(events) + 1 => ~Queued(ind, i)'
      BY <1>2, <2>2 DEF Queued
    <2> QED
      BY <2>2, <2>3, <2>4 DEF Queued
  <1> QED
    BY <1>1, <1>2 DEF Unposted

LEMMA QuietWorking ==
    ASSUME TypeOK, QuietWorker, NEW ind
    PROVE  Working(ind)' => Working(ind)
  <1>0. worker.steps \in Seq(Steps)
    BY DEF TypeOK
  <1>1. CASE UNCHANGED worker
    BY <1>1 DEF Working
  <1>2. CASE worker' = Resting
    BY <1>2 DEF Working, Resting
  <1>3. CASE worker.steps # <<>> /\ worker' = [worker EXCEPT !.steps = Tail(@)]
    <2>1. worker'.steps = Tail(worker.steps)
      BY <1>3 DEF TypeOK
    <2>2. \A i \in DOMAIN worker'.steps :
             i + 1 \in DOMAIN worker.steps /\ worker'.steps[i] = worker.steps[i + 1]
      BY <1>0, <1>3, <2>1, Taken
    <2> QED
      BY <2>2 DEF Working
  <1> QED
    BY <1>1, <1>2, <1>3 DEF QuietWorker, Go

LEMMA PlacesFade ==
    ASSUME TypeOK, TypeOK', NEW inds \in SUBSET Asking, Unsent(inds), Unposted(inds), QuietWorker,
           NEW ind \in inds
    PROVE  /\ Idle(ind) => Idle(ind)'
           /\ Nothing(ind) => Nothing(ind)'
           /\ AtOnce(ind) => AtOnce(ind)'
           /\ OneOf(ind) => OneOf(ind)'
  <1>1. PICK d \in {0, 1} : \A i \in DOMAIN wire' : wire'[i].ind \in inds =>
              i \in Nat /\ i + d \in DOMAIN wire /\ wire[i + d] = wire'[i]
    BY UnsentFrom
  <1>2. \A i \in DOMAIN wire' : OnWire(ind, i)' =>
           i \in Nat /\ i + d \in DOMAIN wire /\ OnWire(ind, i + d)
    BY <1>1 DEF OnWire
  <1>3. \A i \in DOMAIN events' : Queued(ind, i)' => i \in DOMAIN events /\ Queued(ind, i)
    BY UnpostedFrom
  <1>4. ~Working(ind) => ~Working(ind)'
    BY QuietWorking
  <1>5. Unheard(ind) => Unheard(ind)'
    BY <1>2 DEF Unheard
  <1>6. Unqueued(ind) => Unqueued(ind)'
    BY <1>3 DEF Unqueued
  <1>7. (\A i, j \in DOMAIN wire : OnWire(ind, i) /\ OnWire(ind, j) => i = j)
        => (\A i, j \in DOMAIN wire' : OnWire(ind, i)' /\ OnWire(ind, j)' => i = j)
    <2> SUFFICES ASSUME \A i, j \in DOMAIN wire : OnWire(ind, i) /\ OnWire(ind, j) => i = j,
                        NEW i \in DOMAIN wire', NEW j \in DOMAIN wire', OnWire(ind, i)', OnWire(ind, j)'
                 PROVE  i = j
      OBVIOUS
    <2>1. i + d = j + d /\ i \in Nat /\ j \in Nat
      BY <1>2
    <2> QED
      BY <2>1
  <1>8. (\A i, j \in DOMAIN events : Queued(ind, i) /\ Queued(ind, j) => i = j)
        => (\A i, j \in DOMAIN events' : Queued(ind, i)' /\ Queued(ind, j)' => i = j)
    BY <1>3
  <1>9. Idle(ind) => Idle(ind)'
    BY <1>4, <1>6 DEF Idle
  <1>10. Nothing(ind) => Nothing(ind)'
    BY <1>5, <1>9 DEF Nothing
  <1>11. AtOnce(ind) => AtOnce(ind)'
    BY <1>4, <1>6, <1>8 DEF AtOnce
  <1>12. OneOf(ind) => OneOf(ind)'
    BY <1>5, <1>7, <1>9, <1>11 DEF OneOf
  <1> QED
    BY <1>9, <1>10, <1>11, <1>12

LEMMA TracedFades ==
    ASSUME TypeOK, TypeOK', TraceSteps, Traced, TraceCalm,
           Tracing' => Unsent(TraceInds) /\ Unposted(TraceInds) /\ QuietWorker
    PROVE  Traced'
  <1> SUFFICES ASSUME Tracing' PROVE InTurn'
    BY DEF Traced
  <1>1. TraceInds \in SUBSET Asking /\ "QDSS_REQ_MEM" \in TraceInds /\ "QDSS_FREE" \in TraceInds
    BY DEF Asking, TraceInds
  <1>2. InTurn /\ fw'.traceMem = fw.traceMem /\ qdss_mem' = qdss_mem
        /\ (~At("alloc_qdss_mem") \/ worker' = worker \/ worker' = Resting)
    BY DEF Traced, TraceCalm
  <1>3. /\ Idle("QDSS_REQ_MEM") => Idle("QDSS_REQ_MEM")'
        /\ AtOnce("QDSS_REQ_MEM") => AtOnce("QDSS_REQ_MEM")'
        /\ Nothing("QDSS_FREE") => Nothing("QDSS_FREE")'
        /\ OneOf("QDSS_FREE") => OneOf("QDSS_FREE")'
    BY <1>1, PlacesFade
  <1>4. Given <=> Given'
    BY <1>2 DEF Given
  <1>5. At("trace_mem")' => At("trace_mem")
    <2>1. ~(Resting.steps # <<>>)
      BY DEF Resting
    <2> QED
      BY <1>2, <2>1, StepsStay DEF At
  <1>6. AtOnce("QDSS_REQ_MEM")' /\ OneOf("QDSS_FREE")'
    BY <1>2, <1>3 DEF InTurn
  <1>7. ~Idle("QDSS_REQ_MEM")' => qdss_mem'.len # 0 /\ Nothing("QDSS_FREE")' /\ fw'.traceMem = {}
    BY <1>2, <1>3 DEF InTurn
  <1>8. ~Nothing("QDSS_FREE")' => qdss_mem'.len # 0 /\ fw'.traceMem = {}
    BY <1>2, <1>3 DEF InTurn
  <1>9. fw'.traceMem # {} => Given'
    BY <1>2, <1>4 DEF InTurn
  <1>10. At("trace_mem")' => 1..qdss_mem'.len \subseteq qdss_mem'.va
    BY <1>2, <1>5 DEF InTurn
  <1> QED
    BY <1>6, <1>7, <1>8, <1>9, <1>10 DEF InTurn

\* What was asked for is on the wire until it is in fw_mem.
LEMMA StillThere ==
    ASSUME TypeOK, TypeOK', StillAsked, "REQUEST_MEM" \in fw.sent
    PROVE  /\ \A i \in DOMAIN wire' : OnWire("REQUEST_MEM", i)' =>
                 \E j \in DOMAIN wire : wire[j] = wire'[i]
           /\ Unheard("REQUEST_MEM")' => Unheard("REQUEST_MEM")
  <1>1. wire \in Seq(Messages)
    BY DEF TypeOK
  <1>2. CASE UNCHANGED wire
    BY <1>2 DEF Unheard, OnWire
  <1>3. ASSUME NEW m \in Messages, m.ind # "REQUEST_MEM", wire' = Append(wire, m)
        PROVE  /\ \A i \in DOMAIN wire' : OnWire("REQUEST_MEM", i)' =>
                     \E j \in DOMAIN wire : wire[j] = wire'[i]
               /\ Unheard("REQUEST_MEM")' => Unheard("REQUEST_MEM")
    <2>1. /\ Len(wire) \in Nat /\ DOMAIN wire = 1..Len(wire)
          /\ DOMAIN wire' = 1..Len(wire) + 1 /\ wire'[Len(wire) + 1] = m
          /\ \A i \in DOMAIN wire : wire'[i] = wire[i]
      BY <1>1, <1>3, Appended
    <2>2. \A i \in DOMAIN wire' : i \in DOMAIN wire \/ i = Len(wire) + 1
      BY <2>1
    <2>3. DOMAIN wire \subseteq DOMAIN wire'
      BY <2>1
    <2> QED
      BY <1>3, <2>1, <2>2, <2>3 DEF Unheard, OnWire
  <1>4. CASE wire # <<>> /\ Head(wire).ind # "REQUEST_MEM" /\ wire' = Tail(wire)
    <2>1. /\ Len(wire) \in Nat \ {0} /\ DOMAIN wire = 1..Len(wire) /\ Head(wire) = wire[1]
          /\ DOMAIN wire' = 1..Len(wire) - 1
          /\ \A i \in DOMAIN wire' : i + 1 \in DOMAIN wire /\ wire'[i] = wire[i + 1]
      BY <1>1, <1>4, Taken
    <2>2. \A i \in DOMAIN wire : i = 1 \/ (i - 1 \in DOMAIN wire' /\ wire'[i - 1] = wire[i])
      <3> SUFFICES ASSUME NEW i \in DOMAIN wire, i # 1
                   PROVE  i - 1 \in DOMAIN wire' /\ wire'[i - 1] = wire[i]
        OBVIOUS
      <3>1. i - 1 \in DOMAIN wire' /\ (i - 1) + 1 = i
        BY <2>1
      <3> QED
        BY <2>1, <3>1
    <2> QED
      BY <1>4, <2>1, <2>2 DEF Unheard, OnWire
  <1> QED
    BY <1>2, <1>3, <1>4 DEF StillAsked

LEMMA MemoryFades ==
    ASSUME TypeOK, TypeOK', MemoryAsked, MemoryCalm
    PROVE  MemoryAsked'
  <1> SUFFICES ASSUME fw'.state = "up" PROVE MemoryAsked'
    BY DEF MemoryAsked
  <1>1. /\ fw.state = "up" /\ fw'.asked = fw.asked /\ fw_mem'.segs = fw_mem.segs
        /\ "REQUEST_MEM" \in fw'.sent <=> "REQUEST_MEM" \in fw.sent
        /\ fw'.accepted >= 3 => fw.accepted >= 3 /\ fw'.mem = fw.mem
        /\ StillAsked
    BY DEF MemoryCalm
  <1>2. CASE "REQUEST_MEM" \in fw.sent
    <2>0. /\ \A i \in DOMAIN wire' : OnWire("REQUEST_MEM", i)' =>
                 \E j \in DOMAIN wire : wire[j] = wire'[i]
          /\ Unheard("REQUEST_MEM")' => Unheard("REQUEST_MEM")
      BY <1>1, <1>2, StillThere
    <2>1. \A i \in DOMAIN wire' : OnWire("REQUEST_MEM", i)' => wire'[i].segs = fw'.asked
      BY <1>1, <1>2, <2>0 DEF MemoryAsked, OnWire
    <2>2. Unheard("REQUEST_MEM")' => fw_mem'.segs = fw'.asked
      BY <1>1, <1>2, <2>0 DEF MemoryAsked
    <2>3. fw'.accepted >= 3 => Unheard("REQUEST_MEM")' /\ fw'.mem = fw'.asked
      <3>1. Unheard("REQUEST_MEM") => Unheard("REQUEST_MEM")'
        BY <2>0 DEF Unheard, OnWire
      <3> QED
        BY <1>1, <1>2, <3>1 DEF MemoryAsked
    <2> QED
      BY <1>1, <1>2, <2>1, <2>2, <2>3 DEF MemoryAsked
  <1>3. CASE "REQUEST_MEM" \notin fw.sent
    <2>1. fw.accepted < 3
      BY <1>1, <1>3 DEF MemoryAsked
    <2>3. fw.accepted \in 0..7 /\ fw'.accepted \in 0..7
      BY DEF TypeOK, FwType
    <2>2. fw'.accepted < 3
      BY <1>1, <2>1, <2>3
    <2> QED
      BY <1>1, <1>3, <2>2 DEF MemoryAsked
  <1> QED
    BY <1>2, <1>3

LEMMA LensFade ==
    ASSUME TypeOK, TypeOK', TraceLens, NEW inds, "QDSS_REQ_MEM" \in inds, Unsent(inds)
    PROVE  TraceLens'
  <1>1. PICK d \in {0, 1} : \A i \in DOMAIN wire' : wire'[i].ind \in inds =>
              i \in Nat /\ i + d \in DOMAIN wire /\ wire[i + d] = wire'[i]
    BY UnsentFrom
  <1> QED
    BY <1>1 DEF TraceLens, OnWire

\* Most steps leave what the firmware asked for and has.
FwCalm ==
    /\ fw'.state = "up" =>
          /\ fw.state = "up" /\ fw'.asked = fw.asked
          /\ \A ind \in SentOnce : ind \in fw'.sent <=> ind \in fw.sent
          /\ fw'.accepted >= 3 => fw.accepted >= 3 /\ fw'.mem = fw.mem
          /\ host' \in {"none", "up"} => host \in {"none", "up"} /\ fw'.traceMem = fw.traceMem
    /\ faults' = 0 => faults = 0

LEMMA CalmBacked ==
    ASSUME TypeOK, TypeOK', Backed, FwCalm, QuietWorker,
           Unsent(TraceInds), Unposted(TraceInds),
           ~At("alloc_qdss_mem") \/ worker' = worker,
           fw'.state = "up" => StillAsked /\ fw_mem'.segs = fw_mem.segs,
           Tracing' => qdss_mem' = qdss_mem
    PROVE  Backed'
  <1>1. MemoryCalm
    BY DEF FwCalm, MemoryCalm, SentOnce
  <1>2. TraceCalm
    BY DEF FwCalm, TraceCalm, Tracing, SentOnce
  <1>3. TypeOK /\ TraceSteps /\ MemoryAsked /\ TraceLens /\ Traced /\ "QDSS_REQ_MEM" \in TraceInds
    BY DEF Backed, TraceInds
  <1>4. MemoryAsked'
    BY <1>1, <1>3, MemoryFades
  <1>5. Traced'
    BY <1>2, <1>3, TracedFades
  <1>6. TraceLens'
    BY <1>3, LensFade
  <1>7. TraceSteps'
    BY <1>3, StepsStay
  <1> QED
    BY <1>4, <1>5, <1>6, <1>7 DEF Backed

LEMMA SameFwCalm ==
    ASSUME UNCHANGED <<fw, host>>, faults' = 0 => faults = 0
    PROVE  FwCalm
  BY DEF FwCalm

LEMMA FaultCalm == TypeOK /\ (UNCHANGED faults \/ Fault) => (faults' = 0 => faults = 0)
  BY DEF TypeOK, Fault

LEMMA RequestCalm ==
    ASSUME TypeOK, NEW req \in DOMAIN WaitsFor, NEW ok \in BOOLEAN, Request(req, ok),
           req \notin {"respond_mem", "trace_mem"},
           host' \in {"none", "up"} => req # "mode_off" /\ host \in {"none", "up"}
    PROVE  FwCalm
  <1>1. fw' = fw \/ (Accepts(req) /\ fw' = Done(req))
    BY DEF Request
  <1>2. faults' = 0 => faults = 0
    BY FaultCalm DEF Request
  <1>3. CASE fw' = fw
    BY <1>2, <1>3 DEF FwCalm
  <1>4. CASE Accepts(req) /\ fw' = Done(req)
    BY <1>2, <1>4, DoneMemory DEF FwCalm
  <1> QED
    BY <1>1, <1>3, <1>4

\* Steps of the worker that change neither wire nor queue.
LEMMA WorkerCalm ==
    ASSUME TypeOK, TypeOK', Backed, FwCalm, UNCHANGED <<wire, events>>,
           worker.steps # <<>>, NEW ok \in BOOLEAN, Go(ok), ~At("alloc_qdss_mem"),
           fw_mem'.segs = fw_mem.segs, qdss_mem' = qdss_mem
    PROVE  Backed'
  <1>1. QuietWorker /\ Unsent(TraceInds) /\ Unposted(TraceInds) /\ StillAsked
    BY DEF QuietWorker, Unsent, Unposted, StillAsked
  <1> QED
    BY <1>1, CalmBacked

LEMMA SendOrStopBacked ==
    ASSUME IInv, TypeOK', Backed,
           IndRegister \/ HostCap \/ TgtCap \/ BdfDnld \/ M3Dnld \/ SetupDmsMac
    PROVE  Backed'
  <1>0. TypeOK
    BY DEF IInv
  <1>1. ASSUME NEW req \in {"ind_register", "host_cap", "tgt_cap", "bdf", "m3_info"}, SendOrStop(req)
        PROVE  Backed'
    <2>1. /\ req \in DOMAIN WaitsFor /\ req \notin {"respond_mem", "trace_mem", "mode_off"}
          /\ req # "alloc_qdss_mem"
      BY DEF WaitsFor
    <2>2. /\ worker.steps # <<>> /\ ~At("alloc_qdss_mem") /\ UNCHANGED <<wire, events, memVars, host>>
          /\ \E ok \in BOOLEAN : Request(req, ok) /\ Go(ok)
      BY <1>1, <2>1 DEF SendOrStop, At
    <2>3. FwCalm
      BY <1>0, <2>1, <2>2, RequestCalm
    <2> QED
      BY <1>0, <2>2, <2>3, WorkerCalm DEF memVars
  <1>2. CASE SetupDmsMac
    <2>1. "mac_addr" \in DOMAIN WaitsFor
      BY DEF WaitsFor
    <2>2. /\ worker.steps # <<>> /\ ~At("alloc_qdss_mem") /\ UNCHANGED <<wire, events, memVars, host>>
          /\ Go(TRUE)
          /\ \/ UNCHANGED <<fw, faults>>
             \/ \E ok \in BOOLEAN : Request("mac_addr", ok)
      BY <1>2 DEF SetupDmsMac, At
    <2>3. FwCalm
      BY <1>0, <2>1, <2>2, RequestCalm, SameFwCalm
    <2> QED
      BY <1>0, <2>2, <2>3, WorkerCalm DEF memVars
  <1>3. CASE IndRegister /\ ~SendOrStop("ind_register")
    <2>1. /\ worker.steps # <<>> /\ ~At("alloc_qdss_mem") /\ Go(FALSE)
          /\ UNCHANGED <<fw, wire, events, memVars, host, faults>>
      BY <1>3 DEF IndRegister, At, fwVars
    <2>2. FwCalm
      BY <2>1, SameFwCalm
    <2> QED
      BY <1>0, <2>1, <2>2, WorkerCalm DEF memVars
  <1> QED
    BY <1>1, <1>2, <1>3 DEF IndRegister, HostCap, TgtCap, BdfDnld, M3Dnld

LEMMA WorkerBacked ==
    ASSUME IInv, TypeOK', Backed,
           FwMemReady \/ FwReady \/ GenSpeed \/ Files \/ QdssDnld \/ AllocFwMem \/ LoadM3
    PROVE  Backed'
  <1>1. /\ UNCHANGED <<fw, wire, events, host, qdss_mem>>
        /\ worker.steps # <<>> /\ ~At("alloc_qdss_mem")
        /\ \E ok \in BOOLEAN : Go(ok)
        /\ UNCHANGED faults \/ Fault
    BY DEF FwMemReady, FwReady, GenSpeed, Files, QdssDnld, OptionalFiles, AllocFwMem, LoadM3, At,
           fwVars, memVars
  <1>2. fw_mem'.segs = fw_mem.segs
    <2>1. CASE AllocFwMem
      BY <2>1 DEF AllocFwMem, IInv, TypeOK, FwMemory
    <2>2. CASE FwMemReady \/ FwReady \/ GenSpeed \/ Files \/ QdssDnld \/ LoadM3
      BY <2>2 DEF FwMemReady, FwReady, GenSpeed, Files, QdssDnld, OptionalFiles, LoadM3, memVars
    <2> QED
      BY <2>1, <2>2
  <1>3. FwCalm
    BY <1>1, SameFwCalm, FaultCalm DEF IInv
  <1> QED
    BY <1>1, <1>2, <1>3, WorkerCalm DEF IInv

\* The firmware is gone, or never was.
LEMMA DeadBacked ==
    ASSUME IInv, TypeOK', Backed, FwGone \/ Crash \/ Shutdown
    PROVE  Backed'
  <1>0. TypeOK /\ boot \in 0..MaxBoots /\ 0 \in 0..MaxBoots /\ <<>> \in Wanted
    BY WlfwAssumption DEF IInv, TypeOK, Wanted
  <1>1. Message("DEL", <<>>) \in Messages /\ Message("DEL", <<>>).ind = "DEL"
    BY <1>0 DEF Message, Messages, Indications
  <1>2. fw'.state # "up"
    <2>1. fw \in FwType
      BY <1>0 DEF TypeOK
    <2>2. CASE FwGone
      <3>1. fw.state = "dead" /\ fw' = [fw EXCEPT !.sent = @ \cup {"DEL"}]
        BY <2>2 DEF FwGone
      <3>2. fw'.state = fw.state
        BY <2>1, <3>1 DEF FwType
      <3> QED
        BY <3>1, <3>2
    <2>3. CASE Crash
      BY <2>1, <2>3 DEF Crash, FwType
    <2>4. CASE Shutdown
      BY <2>4 DEF Shutdown, PowerOff, NoFw
    <2> QED
      BY <2>2, <2>3, <2>4
  <1>3. Unsent(TraceInds)
    BY <1>1 DEF FwGone, Crash, Shutdown, PowerOff, Unsent, TraceInds
  <1>4. Unposted(TraceInds)
    <2>1. CASE Crash
      <3>1. [ev |-> "RECOVERY", of |-> 0] \in Events
        BY <1>0 DEF Events, Chain
      <3>2. \A ind \in TraceInds : Handled[ind] # "RECOVERY"
        BY DEF TraceInds, Handled
      <3> QED
        BY <2>1, <3>1, <3>2 DEF Crash, Unposted
    <2>2. CASE FwGone \/ Shutdown
      BY <2>2 DEF FwGone, Shutdown, Unposted
    <2> QED
      BY <2>1, <2>2
  <1>5. QuietWorker /\ (~At("alloc_qdss_mem") \/ worker' = worker)
    BY DEF FwGone, Crash, Shutdown, QuietWorker, At
  <1>6. FwCalm
    BY <1>2 DEF FwCalm, FwGone, Crash, Shutdown
  <1>7. ~Tracing'
    BY <1>2 DEF Tracing
  <1> QED
    BY <1>0, <1>2, <1>3, <1>4, <1>5, <1>6, <1>7, CalmBacked

\* The probe: there was no host driver before it.
LEMMA ProbeBacked ==
    ASSUME IInv, TypeOK', Served, Backed, NEW req \in {"wlan_cfg", "wlan_mode"},
           ProbeStep(req, req = "wlan_mode")
    PROVE  Backed'
  <1>0. TypeOK /\ worker.steps \in Seq(Steps)
    BY DEF IInv, TypeOK
  <1>1. /\ At(req) /\ worker.steps # <<>> /\ ~At("alloc_qdss_mem")
        /\ UNCHANGED <<boot, linkVars, events, fw_mem, qdss_mem>>
        /\ req \in DOMAIN WaitsFor /\ req \notin {"respond_mem", "trace_mem", "mode_off"}
    BY DEF ProbeStep, At, WaitsFor, memVars
  <1>2. PICK ok \in BOOLEAN :
          \/ Request(req, ok) /\ Go(ok) /\ host' \in {"up", host} /\ UNCHANGED wire
          \/ PowerOff /\ Go(FALSE)
    BY DEF ProbeStep
  <1>3. host = "none"
    <2>1. 1 \in DOMAIN worker.steps /\ worker.steps[1] = req
      BY <1>0, <1>1, Taken DEF At
    <2>2. Working("FW_INIT_DONE")
      BY <2>1 DEF Working, StepsOf
    <2> QED
      BY <2>2 DEF Served, Hosted, Nothing, Idle
  <1>4. CASE Request(req, ok) /\ Go(ok) /\ UNCHANGED wire
    <2>1. FwCalm
      BY <1>0, <1>1, <1>3, <1>4, RequestCalm
    <2> QED
      BY <1>0, <1>1, <1>4, <2>1, WorkerCalm
  <1>5. CASE PowerOff /\ Go(FALSE)
    <2>1. fw'.state # "up" /\ (UNCHANGED wire \/ wire' = Append(wire, Message("DEL", <<>>)))
      BY <1>5 DEF PowerOff, NoFw
    <2>2. Message("DEL", <<>>) \in Messages /\ Message("DEL", <<>>).ind = "DEL"
      BY <1>0, WlfwAssumption DEF TypeOK, Message, Messages, Indications, Wanted
    <2>3. Unsent(TraceInds) /\ Unposted(TraceInds) /\ QuietWorker
      BY <1>1, <1>5, <2>1, <2>2 DEF Unsent, Unposted, QuietWorker, TraceInds
    <2>5. MemoryAsked' /\ Traced'
      BY <2>1 DEF MemoryAsked, Traced, Tracing
    <2>6. TraceLens'
      BY <1>0, <2>3, LensFade DEF Backed, TraceInds
    <2>7. TraceSteps'
      BY <1>0, <2>3, StepsStay DEF Backed
    <2> QED
      BY <2>5, <2>6, <2>7 DEF Backed
  <1> QED
    BY <1>2, <1>4, <1>5

\* The host driver and the user.
LEMMA HostBacked ==
    ASSUME IInv, TypeOK', Backed,
           WlanDisable \/ WlanDisableFree \/ Leave \/ Come \/ SetGenSpeed \/ TraceStart \/ TraceStop
           \/ UNCHANGED vars
    PROVE  Backed'
  <1>0. TypeOK /\ 0 \in 0..MaxBoots
    BY WlfwAssumption DEF IInv, TypeOK
  <1>1. {"mode_off", "trace_on", "trace_off"} \subseteq DOMAIN WaitsFor
    BY DEF WaitsFor
  <1>2. UNCHANGED <<wire, worker, fw_mem>>
    BY DEF WlanDisable, WlanDisableFree, Leave, Come, SetGenSpeed, TraceStart, TraceStop, Send, vars,
           memVars
  <1>3. Unposted(TraceInds)
    <2>1. ASSUME NEW ev \in {"SHUTDOWN", "POWER_UP"}, Post(ev, 0)
          PROVE  Unposted(TraceInds)
      <3>1. [ev |-> ev, of |-> 0] \in Events
        BY <1>0 DEF Events, Chain
      <3>2. \A ind \in TraceInds : Handled[ind] # ev
        BY DEF TraceInds, Handled
      <3> QED
        BY <2>1, <3>1, <3>2 DEF Post, Unposted
    <2>2. CASE Leave \/ Come
      BY <2>1, <2>2 DEF Leave, Come
    <2>3. CASE UNCHANGED events
      BY <2>3 DEF Unposted
    <2> QED
      BY <2>2, <2>3 DEF WlanDisable, WlanDisableFree, SetGenSpeed, TraceStart, TraceStop, Send, vars
  <1>4. FwCalm
    <2>1. CASE WlanDisable
      <3>1. host' = "disabling"
        BY <2>1 DEF WlanDisable
      <3>2. UNCHANGED <<fw, faults>> \/ \E ok \in BOOLEAN : Request("mode_off", ok)
        BY <2>1 DEF WlanDisable, Send, fwVars
      <3>3. CASE UNCHANGED <<fw, faults>>
        BY <3>1, <3>3 DEF FwCalm
      <3> QED
        BY <1>0, <1>1, <3>1, <3>2, <3>3, RequestCalm
    <2>2. CASE WlanDisableFree
      BY <2>2 DEF WlanDisableFree, FwCalm, fwVars
    <2>3. CASE Leave
      <3>1. host' = "leaving" /\ UNCHANGED fw /\ (faults' = 0 => faults = 0)
        BY <1>0, <2>3, FaultCalm DEF Leave, Post, fwVars
      <3> QED
        BY <3>1 DEF FwCalm
    <2>4. CASE Come \/ SetGenSpeed \/ UNCHANGED vars
      <3>1. UNCHANGED <<fw, host>> /\ (faults' = 0 => faults = 0)
        BY <1>0, <2>4, FaultCalm DEF Come, SetGenSpeed, vars, Post, fwVars
      <3> QED
        BY <3>1, SameFwCalm
    <2>5. CASE TraceStart \/ TraceStop
      <3>1. UNCHANGED host /\ \E req \in {"trace_on", "trace_off"}, ok \in BOOLEAN : Request(req, ok)
        BY <2>5 DEF TraceStart, TraceStop, Send
      <3> QED
        BY <1>0, <1>1, <3>1, RequestCalm
    <2> QED
      BY <2>1, <2>2, <2>3, <2>4, <2>5
  <1>5. Tracing' => qdss_mem' = qdss_mem
    BY DEF WlanDisable, WlanDisableFree, Leave, Come, SetGenSpeed, TraceStart, TraceStop, Send, vars,
           memVars, Tracing
  <1>6. QuietWorker /\ Unsent(TraceInds) /\ StillAsked
    BY <1>2 DEF QuietWorker, Unsent, StillAsked
  <1> QED
    BY <1>0, <1>2, <1>3, <1>4, <1>5, <1>6, CalmBacked

\* The announcement, and that the memory is ready.
LEMMA SaysBacked ==
    ASSUME IInv, TypeOK', Backed, FwAnnounce \/ FwIndicate("FW_MEM_READY", <<>>)
    PROVE  Backed'
  <1>0. TypeOK /\ fw \in FwType /\ boot \in 0..MaxBoots /\ <<>> \in Wanted
    BY WlfwAssumption DEF IInv, TypeOK, Wanted
  <1>1. PICK ind \in {"NEW", "FW_MEM_READY"} :
           /\ fw' = [fw EXCEPT !.sent = @ \cup {ind}] \/
              fw' = [fw EXCEPT !.sent = @ \cup {ind}, !.asked = @, !.traceMem = @]
           /\ UNCHANGED wire \/ wire' = Append(wire, Message(ind, <<>>))
           /\ fw.state = "up" /\ UNCHANGED <<events, worker, memVars, host, faults>>
    BY DEF FwAnnounce, FwIndicate, Due
  <1>2. /\ fw'.state = fw.state /\ fw'.asked = fw.asked /\ fw'.sent = fw.sent \cup {ind}
        /\ fw'.accepted = fw.accepted /\ fw'.mem = fw.mem /\ fw'.traceMem = fw.traceMem
    BY <1>0, <1>1 DEF FwType
  <1>3. Message(ind, <<>>) \in Messages /\ Message(ind, <<>>).ind = ind /\ ind \notin TraceInds
        /\ ind # "REQUEST_MEM"
    BY <1>0, <1>1 DEF Message, Messages, Indications, TraceInds
  <1>4. Unsent(TraceInds) /\ Unposted(TraceInds) /\ QuietWorker /\ StillAsked
    BY <1>1, <1>3 DEF Unsent, Unposted, QuietWorker, StillAsked
  <1>5. FwCalm
    BY <1>1, <1>2 DEF FwCalm, SentOnce
  <1> QED
    BY <1>0, <1>1, <1>4, <1>5, CalmBacked DEF memVars

\* The server, its exit, and the indications of no memory.
LEMMA HeardBacked ==
    ASSUME IInv, TypeOK', Backed, NewServer \/ DelServer \/ FwMemReadyInd \/ FwInitDoneInd
    PROVE  Backed'
  <1>0. TypeOK /\ wire \in Seq(Messages) /\ 0 \in 0..MaxBoots
    BY WlfwAssumption DEF IInv, TypeOK
  <1>1. PICK ind \in {"NEW", "DEL", "FW_MEM_READY", "FW_INIT_DONE"} : Receive(ind)
    BY DEF NewServer, DelServer, FwMemReadyInd, FwInitDoneInd
  <1>2. /\ wire # <<>> /\ Head(wire).ind # "REQUEST_MEM" /\ wire' = Tail(wire)
        /\ UNCHANGED <<fw, worker, host, fw_mem, qdss_mem>>
    BY <1>1 DEF Receive, NewServer, DelServer, FwMemReadyInd, FwInitDoneInd, fwVars
  <1>3. Head(wire).of \in 0..MaxBoots
    <2>1. Head(wire) \in Messages
      BY <1>0, <1>2, Taken
    <2> QED
      BY <2>1 DEF Messages
  <1>4. Unposted(TraceInds) /\ (faults' = 0 => faults = 0)
    <2>1. ASSUME NEW ev \in {"SERVER_ARRIVE", "SERVER_EXIT", "FW_MEM_READY", "FW_READY"},
                 NEW of \in 0..MaxBoots, Post(ev, of) \/ UNCHANGED <<events, faults>>
          PROVE  Unposted(TraceInds) /\ (faults' = 0 => faults = 0)
      <3>1. [ev |-> ev, of |-> of] \in Events
        BY DEF Events, Chain
      <3>2. \A x \in TraceInds : Handled[x] # ev
        BY DEF TraceInds, Handled
      <3>3. faults' = 0 => faults = 0
        BY <1>0, <2>1, FaultCalm DEF Post
      <3> QED
        BY <2>1, <3>1, <3>2, <3>3 DEF Post, Unposted
    <2> QED
      BY <1>0, <1>3, <2>1 DEF NewServer, DelServer, FwMemReadyInd, FwInitDoneInd
  <1>5. Unsent(TraceInds) /\ QuietWorker /\ StillAsked
    BY <1>2 DEF Unsent, QuietWorker, StillAsked
  <1>6. FwCalm
    BY <1>2, <1>4, SameFwCalm
  <1> QED
    BY <1>0, <1>2, <1>4, <1>5, <1>6, CalmBacked

\* The socket.
LEMMA SocketBacked ==
    ASSUME IInv, TypeOK', Served, Backed, Connect \/ ServerExit
    PROVE  Backed'
  <1>0. TypeOK
    BY DEF IInv
  <1>1. /\ UNCHANGED <<fw, events, host, fw_mem, qdss_mem>> /\ worker.steps # <<>>
        /\ ~At("alloc_qdss_mem") /\ \E ok \in BOOLEAN : Go(ok)
        /\ UNCHANGED faults \/ Fault
    BY DEF Connect, ServerExit, At, fwVars, memVars
  <1>2. FwCalm /\ QuietWorker /\ Unposted(TraceInds)
    BY <1>0, <1>1, SameFwCalm, FaultCalm DEF QuietWorker, Unposted
  <1>3. Unsent(TraceInds)
    <2>1. CASE Connect
      BY <2>1 DEF Connect, Unsent
    <2>2. CASE ServerExit
      <3>1. wire' = <<>> \/ wire' = <<Message("NEW", <<>>)>>
        BY <2>2 DEF ServerExit
      <3>2. \A i \in DOMAIN wire' : wire'[i].ind = "NEW"
        BY <3>1 DEF Message
      <3> QED
        BY <3>2 DEF Unsent, TraceInds
    <2> QED
      BY <2>1, <2>2
  <1>4. fw'.state = "up" => StillAsked
    <2>1. CASE Connect
      BY <2>1 DEF Connect, StillAsked
    <2>2. CASE ServerExit /\ fw'.state = "up"
      <3>1. del_server
        BY <2>2 DEF ServerExit, IInv, Server, OneExit
      <3>2. ~Met
        BY <1>1, <2>2, <3>1 DEF Served, Fresh, NoExit
      <3> QED
        BY <1>1, <2>2, <3>2 DEF Served, Fresh, AskedOnce, SentOnce, Met, StillAsked
    <2> QED
      BY <2>1, <2>2
  <1> QED
    BY <1>0, <1>1, <1>2, <1>3, <1>4, CalmBacked

\* A boot.
LEMMA PowerUpBacked ==
    ASSUME IInv, TypeOK', Backed, PowerUp
    PROVE  Backed'
  <1>0. TypeOK
    BY DEF IInv
  <1>1. /\ UNCHANGED <<wire, events, host, fw_mem, qdss_mem>> /\ worker.steps # <<>> /\ Go(TRUE)
        /\ ~At("alloc_qdss_mem")
    BY DEF PowerUp, At, memVars
  <1>2. CASE UNCHANGED fw /\ (UNCHANGED faults \/ Fault)
    <2>1. FwCalm
      BY <1>0, <1>1, <1>2, SameFwCalm, FaultCalm
    <2> QED
      BY <1>0, <1>1, <2>1, WorkerCalm
  <1>3. CASE fw' = [NoFw EXCEPT !.state = "up"]
    <2>1. fw'.sent = {} /\ fw'.accepted = 0
      BY <1>3 DEF NoFw
    <2>2. MemoryAsked' /\ Traced'
      BY <2>1 DEF MemoryAsked, Traced, Tracing
    <2>3. TraceLens' /\ TraceSteps'
      BY <1>0, <1>1, StepsStay DEF Backed, QuietWorker, TraceLens, OnWire
    <2> QED
      BY <2>2, <2>3 DEF Backed
  <1> QED
    BY <1>2, <1>3 DEF PowerUp, fwVars

\* The answer: the segments are those it asked for.
LEMMA RespondMemBacked ==
    ASSUME IInv, TypeOK', Served, Backed, RespondMem
    PROVE  Backed'
  <1>0. TypeOK /\ worker.steps \in Seq(Steps) /\ "respond_mem" \in DOMAIN WaitsFor
    BY DEF IInv, TypeOK, WaitsFor
  <1>1. /\ UNCHANGED <<wire, events, host, fw_mem, qdss_mem>> /\ worker.steps # <<>>
        /\ At("respond_mem") /\ ~At("alloc_qdss_mem")
        /\ \E ok \in BOOLEAN : Go(ok) /\ (UNCHANGED <<fw, faults>> \/ Request("respond_mem", ok))
    BY DEF RespondMem, At, memVars
  <1>2. CASE UNCHANGED fw /\ (faults' = 0 => faults = 0)
    BY <1>0, <1>1, <1>2, SameFwCalm, WorkerCalm
  <1>3. CASE Accepts("respond_mem") /\ fw' = Done("respond_mem") /\ (faults' = 0 => faults = 0)
    <2>1. /\ fw.state = "up" /\ fw'.state = "up" /\ fw'.asked = fw.asked
          /\ \A ind \in SentOnce : ind \in fw'.sent <=> ind \in fw.sent
          /\ fw'.mem = fw_mem.segs /\ "REQUEST_MEM" \in fw.sent /\ fw'.traceMem = fw.traceMem
      BY <1>0, <1>3, DoneMemory
    <2>2. Working("REQUEST_MEM")
      <3>1. 1 \in DOMAIN worker.steps /\ worker.steps[1] = "respond_mem"
        BY <1>0, <1>1, Taken DEF At
      <3> QED
        BY <3>1 DEF Working, StepsOf
    <2>3. Unheard("REQUEST_MEM")
      BY <2>1, <2>2 DEF Served, Fresh, AskedOnce, SentOnce, OneOf, Idle
    <2>4. fw_mem.segs = fw.asked
      BY <2>1, <2>3 DEF Backed, MemoryAsked
    <2>5. MemoryAsked'
      <3>1. "REQUEST_MEM" \in fw'.sent
        BY <2>1 DEF SentOnce
      <3> QED
        BY <1>1, <2>1, <2>3, <2>4, <3>1 DEF Backed, MemoryAsked, OnWire, Unheard
    <2>6. QuietWorker /\ Unsent(TraceInds) /\ Unposted(TraceInds)
      BY <1>1 DEF QuietWorker, Unsent, Unposted
    <2>7. TraceCalm
      BY <1>1, <1>3, <2>1 DEF TraceCalm, Tracing, SentOnce
    <2>8. Traced'
      BY <1>0, <2>6, <2>7, TracedFades DEF Backed
    <2>9. TraceLens' /\ TraceSteps'
      BY <1>0, <1>1, <2>6, StepsStay DEF Backed, TraceLens, OnWire
    <2> QED
      BY <2>5, <2>8, <2>9 DEF Backed
  <1>4. UNCHANGED <<fw, faults>> \/ \E ok \in BOOLEAN : Request("respond_mem", ok)
    BY <1>1
  <1> QED
    BY <1>0, <1>2, <1>3, <1>4, FaultCalm DEF Request

\* The steps about the trace memory.
LEMMA QdssMemory ==
    ASSUME IInv, TypeOK', Backed, AllocQdssMem \/ TraceMemInfo \/ FreeQdssMem
    PROVE  /\ TypeOK /\ worker.steps \in Seq(Steps) /\ worker.steps # <<>> /\ QuietWorker
           /\ UNCHANGED <<wire, events, host, fw_mem>>
           /\ MemoryAsked' /\ TraceLens' /\ TraceSteps'
           /\ Tracing' => Tracing
           /\ \A ind \in TraceInds : /\ Idle(ind) => Idle(ind)'
                                     /\ Nothing(ind) => Nothing(ind)'
                                     /\ AtOnce(ind) => AtOnce(ind)'
                                     /\ OneOf(ind) => OneOf(ind)'
  <1>0. TypeOK /\ worker.steps \in Seq(Steps) /\ "trace_mem" \in DOMAIN WaitsFor
    BY DEF IInv, TypeOK, WaitsFor
  <1>1. /\ UNCHANGED <<wire, events, host, fw_mem>> /\ worker.steps # <<>>
        /\ \E ok \in BOOLEAN : Go(ok)
        /\ \/ UNCHANGED fw /\ (UNCHANGED faults \/ Fault)
           \/ \E ok \in BOOLEAN : Request("trace_mem", ok)
    BY DEF AllocQdssMem, TraceMemInfo, FreeQdssMem, SendOrStop, At, fwVars, memVars
  <1>2. QuietWorker /\ Unsent(TraceInds) /\ Unposted(TraceInds) /\ StillAsked
    BY <1>1 DEF QuietWorker, Unsent, Unposted, StillAsked
  <1>3. /\ faults' = 0 => faults = 0
        /\ fw' = fw \/ (Accepts("trace_mem") /\ fw' = Done("trace_mem"))
    BY <1>0, <1>1, FaultCalm DEF Request
  <1>4. fw'.state = "up" =>
           /\ fw.state = "up" /\ fw'.asked = fw.asked
           /\ \A ind \in SentOnce : ind \in fw'.sent <=> ind \in fw.sent
           /\ fw'.accepted >= 3 => fw.accepted >= 3 /\ fw'.mem = fw.mem
    <2>1. CASE fw' = fw
      BY <2>1
    <2>2. CASE Accepts("trace_mem") /\ fw' = Done("trace_mem")
      BY <1>0, <2>2, DoneMemory
    <2> QED
      BY <1>3, <2>1, <2>2
  <1>5. MemoryCalm
    BY <1>1, <1>2, <1>4 DEF MemoryCalm, SentOnce
  <1>6. MemoryAsked'
    BY <1>0, <1>5, MemoryFades DEF Backed
  <1>7. TraceLens' /\ TraceSteps'
    BY <1>0, <1>1, <1>2, StepsStay DEF Backed, TraceLens, OnWire
  <1>8. Tracing' => Tracing
    BY <1>1, <1>3, <1>4 DEF Tracing, SentOnce
  <1>9. TraceInds \in SUBSET Asking
    BY DEF Asking, TraceInds
  <1>10. \A ind \in TraceInds : /\ Idle(ind) => Idle(ind)'
                                /\ Nothing(ind) => Nothing(ind)'
                                /\ AtOnce(ind) => AtOnce(ind)'
                                /\ OneOf(ind) => OneOf(ind)'
    BY <1>0, <1>2, <1>9, PlacesFade
  <1> QED
    BY <1>0, <1>1, <1>2, <1>6, <1>7, <1>8, <1>10

LEMMA AllocQdssBacked ==
    ASSUME IInv, TypeOK', Backed, AllocQdssMem
    PROVE  Backed'
  <1>1. /\ TypeOK /\ MemoryAsked' /\ TraceLens' /\ TraceSteps' /\ (Tracing' => Tracing)
        /\ \A ind \in TraceInds : /\ Idle(ind) => Idle(ind)'
                                  /\ Nothing(ind) => Nothing(ind)'
                                  /\ AtOnce(ind) => AtOnce(ind)'
                                  /\ OneOf(ind) => OneOf(ind)'
    BY QdssMemory
  <1>2. ASSUME Tracing' PROVE InTurn'
    <2>1. InTurn /\ "QDSS_REQ_MEM" \in TraceInds /\ "QDSS_FREE" \in TraceInds
      BY <1>1, <1>2 DEF Backed, Traced, TraceInds
    <2>2. qdss_mem' = [qdss_mem EXCEPT !.va = @ \cup 1..qdss_mem.len] /\ fw' = fw
      BY <1>1, <1>2 DEF AllocQdssMem, Tracing, Fault, TypeOK, fwVars
    <2>3. qdss_mem'.len = qdss_mem.len /\ qdss_mem'.va = qdss_mem.va \cup 1..qdss_mem.len
      BY <1>1, <2>2 DEF TypeOK, Memory
    <2>4. Given => Given'
      BY <2>2, <2>3 DEF Given
    <2> QED
      BY <1>1, <2>1, <2>2, <2>3, <2>4 DEF InTurn
  <1> QED
    BY <1>1, <1>2 DEF Backed, Traced

\* What is left to do after the last step is nothing.
LEMMA LastStep ==
    ASSUME TypeOK, worker.steps # <<>>, Len(worker.steps) = 1, NEW ok \in BOOLEAN, Go(ok)
    PROVE  worker' = Resting /\ (\A ind : ~Working(ind)') /\ \A step : ~At(step)'
  <1>1. worker' = Resting
    BY DEF Go
  <1> QED
    BY <1>1 DEF Resting, Working, At

LEMMA TraceMemInfoBacked ==
    ASSUME IInv, TypeOK', Served, Backed, TraceMemInfo
    PROVE  Backed'
  <1>1. /\ TypeOK /\ MemoryAsked' /\ TraceLens' /\ TraceSteps' /\ (Tracing' => Tracing)
        /\ worker.steps \in Seq(Steps) /\ worker.steps # <<>> /\ QuietWorker
        /\ UNCHANGED <<wire, events, host, fw_mem>>
        /\ \A ind \in TraceInds : /\ Idle(ind) => Idle(ind)'
                                  /\ Nothing(ind) => Nothing(ind)'
                                  /\ AtOnce(ind) => AtOnce(ind)'
                                  /\ OneOf(ind) => OneOf(ind)'
    BY QdssMemory
  <1>2. ASSUME Tracing' PROVE InTurn'
    <2>0. "QDSS_REQ_MEM" \in TraceInds /\ "QDSS_FREE" \in TraceInds /\ "trace_mem" \in DOMAIN WaitsFor
      BY DEF TraceInds, WaitsFor
    <2>1. InTurn /\ At("trace_mem") /\ qdss_mem' = qdss_mem
      BY <1>1, <1>2 DEF Backed, Traced, TraceMemInfo, SendOrStop, memVars
    <2>2. PICK ok \in BOOLEAN : Request("trace_mem", ok) /\ Go(ok)
      BY DEF TraceMemInfo, SendOrStop
    <2>3. /\ 1 \in DOMAIN worker.steps /\ worker.steps[1] = "trace_mem"
          /\ Len(worker.steps) = 1
      <3>1. 1 \in DOMAIN worker.steps /\ worker.steps[1] = "trace_mem"
        BY <1>1, <2>1, Taken DEF At
      <3> QED
        BY <3>1 DEF Served, LastSteps
    <2>4. worker' = Resting /\ ~Working("QDSS_REQ_MEM")' /\ ~At("trace_mem")'
      BY <1>1, <2>2, <2>3, LastStep
    <2>5. Working("QDSS_REQ_MEM") /\ ~Idle("QDSS_REQ_MEM")
      BY <2>3 DEF Working, StepsOf, Idle
    <2>6. /\ AtOnce("QDSS_REQ_MEM") /\ OneOf("QDSS_FREE") /\ qdss_mem.len # 0
          /\ Nothing("QDSS_FREE") /\ fw.traceMem = {} /\ 1..qdss_mem.len \subseteq qdss_mem.va
      BY <2>1, <2>5 DEF InTurn
    <2>7. Unqueued("QDSS_REQ_MEM")'
      BY <1>1, <2>5, <2>6 DEF AtOnce, Unqueued, Queued
    <2>8. /\ Idle("QDSS_REQ_MEM")' /\ AtOnce("QDSS_REQ_MEM")' /\ OneOf("QDSS_FREE")'
          /\ Nothing("QDSS_FREE")'
      BY <1>1, <2>0, <2>4, <2>6, <2>7 DEF Idle
    <2>9. fw'.traceMem = {} \/ fw'.traceMem = 1..qdss_mem.len
      <3>1. fw' = fw \/ (Accepts("trace_mem") /\ fw' = Done("trace_mem"))
        BY <2>2 DEF Request
      <3> QED
        BY <1>1, <2>0, <2>6, <3>1, DoneMemory
    <2>10. fw'.traceMem # {} => Given'
      BY <2>1, <2>6, <2>9 DEF Given
    <2> QED
      BY <2>4, <2>8, <2>10 DEF InTurn
  <1> QED
    BY <1>1, <1>2 DEF Backed, Traced

LEMMA FreeQdssBacked ==
    ASSUME IInv, TypeOK', Backed, FreeQdssMem
    PROVE  Backed'
  <1>1. /\ TypeOK /\ MemoryAsked' /\ TraceLens' /\ TraceSteps' /\ (Tracing' => Tracing)
        /\ worker.steps \in Seq(Steps) /\ worker.steps # <<>> /\ QuietWorker
        /\ UNCHANGED <<wire, events, host, fw_mem>>
        /\ \A ind \in TraceInds : /\ Idle(ind) => Idle(ind)'
                                  /\ Nothing(ind) => Nothing(ind)'
                                  /\ AtOnce(ind) => AtOnce(ind)'
                                  /\ OneOf(ind) => OneOf(ind)'
    BY QdssMemory
  <1>2. ASSUME Tracing' PROVE InTurn'
    <2>0. "QDSS_REQ_MEM" \in TraceInds /\ "QDSS_FREE" \in TraceInds
      BY DEF TraceInds
    <2>1. InTurn /\ At("free_qdss_mem") /\ Go(TRUE) /\ fw' = fw
      BY <1>1, <1>2 DEF Backed, Traced, FreeQdssMem, fwVars
    <2>2. 1 \in DOMAIN worker.steps /\ worker.steps[1] = "free_qdss_mem" /\ Len(worker.steps) = 1
      <3>1. 1 \in DOMAIN worker.steps /\ worker.steps[1] = "free_qdss_mem"
        BY <1>1, <2>1, Taken DEF At
      <3> QED
        BY <3>1 DEF Backed, TraceSteps
    <2>3. ~Working("QDSS_REQ_MEM")' /\ ~Working("QDSS_FREE")' /\ ~At("trace_mem")'
      BY <1>1, <2>1, <2>2, LastStep
    <2>4. Working("QDSS_FREE") /\ ~Nothing("QDSS_FREE")
      BY <2>2 DEF Working, StepsOf, Idle, Nothing
    <2>5. /\ AtOnce("QDSS_REQ_MEM") /\ OneOf("QDSS_FREE") /\ fw.traceMem = {}
          /\ Idle("QDSS_REQ_MEM")
      BY <2>1, <2>4 DEF InTurn
    <2>6. Unheard("QDSS_FREE") /\ Unqueued("QDSS_FREE")
      BY <2>4, <2>5 DEF OneOf, AtOnce, Idle
    <2>7. Nothing("QDSS_FREE")'
      BY <1>1, <2>3, <2>6 DEF Nothing, Idle, Unheard, Unqueued, OnWire, Queued
    <2> QED
      BY <1>1, <2>0, <2>1, <2>3, <2>5, <2>7 DEF InTurn
  <1> QED
    BY <1>1, <1>2 DEF Backed, Traced

\* The event that the worker takes.
LEMMA ChainTraces ==
    \A ev \in DOMAIN Chain :
       /\ \A i \in DOMAIN Chain[ev] :
             /\ Chain[ev][i] = "trace_mem" => i = 2 /\ ev = "QDSS_TRACE_REQ_MEM"
             /\ Chain[ev][i] = "free_qdss_mem" => Len(Chain[ev]) = 1
       /\ Chain[ev] # <<>> /\ Chain[ev] \in Seq(Steps)
       /\ Head(Chain[ev]) # "trace_mem"
       /\ ev = "QDSS_TRACE_REQ_MEM" => Head(Chain[ev]) = "alloc_qdss_mem"
  <1> TAKE ev \in DOMAIN Chain
  <1>1. Chain[ev] \in Seq(Steps)
    BY ChainSteps
  <1>2. CASE ev = "SERVER_ARRIVE"
    <2>1. Chain[ev] = <<"connect", "ind_register", "host_cap">>
      BY <1>2 DEF Chain
    <2> QED
      BY <1>1, <1>2, <2>1
  <1>3. CASE ev = "SERVER_EXIT"
    <2>1. Chain[ev] = <<"exit">>
      BY <1>3 DEF Chain
    <2> QED
      BY <1>1, <1>3, <2>1
  <1>4. CASE ev = "REQUEST_MEM"
    <2>1. Chain[ev] = <<"alloc_fw_mem", "respond_mem">>
      BY <1>4 DEF Chain
    <2> QED
      BY <1>1, <1>4, <2>1
  <1>5. CASE ev = "FW_MEM_READY"
    <2>1. Chain[ev] = <<"mem_ready", "tgt_cap", "files", "bdf", "load_m3", "m3_info", "qdss_cfg">>
      BY <1>5 DEF Chain
    <2> QED
      BY <1>1, <1>5, <2>1
  <1>6. CASE ev = "FW_READY"
    <2>1. Chain[ev] = <<"fw_ready", "gen_speed", "dms_mac", "wlan_cfg", "wlan_mode">>
      BY <1>6 DEF Chain
    <2> QED
      BY <1>1, <1>6, <2>1
  <1>7. CASE ev = "QDSS_TRACE_REQ_MEM"
    <2>1. Chain[ev] = <<"alloc_qdss_mem", "trace_mem">>
      BY <1>7 DEF Chain
    <2> QED
      BY <1>1, <1>7, <2>1
  <1>8. CASE ev = "QDSS_TRACE_FREE"
    <2>1. Chain[ev] = <<"free_qdss_mem">>
      BY <1>8 DEF Chain
    <2> QED
      BY <1>1, <1>8, <2>1
  <1>9. CASE ev = "RECOVERY"
    <2>1. Chain[ev] = <<"shutdown", "power_up">>
      BY <1>9 DEF Chain
    <2> QED
      BY <1>1, <1>9, <2>1
  <1>10. CASE ev = "SHUTDOWN"
    <2>1. Chain[ev] = <<"shutdown">>
      BY <1>10 DEF Chain
    <2> QED
      BY <1>1, <1>10, <2>1
  <1>11. CASE ev = "POWER_UP"
    <2>1. Chain[ev] = <<"power_up">>
      BY <1>11 DEF Chain
    <2> QED
      BY <1>1, <1>11, <2>1
  <1> QED
    BY <1>2, <1>3, <1>4, <1>5, <1>6, <1>7, <1>8, <1>9, <1>10, <1>11 DEF Chain

LEMMA TakeEventBacked ==
    ASSUME IInv, TypeOK', Backed, TakeEvent
    PROVE  Backed'
  <1>0. TypeOK /\ events \in Seq(Events)
    BY DEF IInv, TypeOK
  <1>1. /\ worker = Resting /\ events # <<>> /\ events' = Tail(events)
        /\ worker' = [steps |-> Chain[Head(events).ev], of |-> Head(events).of]
        /\ UNCHANGED <<fw, wire, host, fw_mem, qdss_mem, faults>>
    BY DEF TakeEvent, fwVars, memVars
  <1>2. /\ Head(events) \in Events /\ Head(events) = events[1] /\ 1 \in DOMAIN events
        /\ \A i \in DOMAIN events' :
              events'[i] = events[i + 1] /\ i + 1 \in DOMAIN events /\ i \in Nat \ {0}
    BY <1>0, <1>1, Taken
  <1>3. events[1].ev \in DOMAIN Chain /\ worker'.steps = Chain[events[1].ev]
    BY <1>1, <1>2 DEF Events
  <1>4. TraceSteps' /\ ~At("trace_mem")'
    <2>1. ~At("trace_mem")'
      BY <1>3, ChainTraces DEF At
    <2>2. \A i \in DOMAIN worker'.steps :
             /\ worker'.steps[i] = "trace_mem" => i = 2 /\ events[1].ev = "QDSS_TRACE_REQ_MEM"
             /\ worker'.steps[i] = "free_qdss_mem" => Len(worker'.steps) = 1
      BY <1>3, ChainTraces
    <2>3. events[1].ev = "QDSS_TRACE_REQ_MEM" => At("alloc_qdss_mem")'
      BY <1>3, ChainTraces DEF At
    <2> QED
      BY <2>1, <2>2, <2>3 DEF TraceSteps
  <1>5. \A ind \in Asking : /\ Working(ind)' => Queued(ind, 1)
                            /\ \A i \in DOMAIN events' : Queued(ind, i)' => Queued(ind, i + 1)
    BY <1>2, <1>3, ChainHandles DEF Working, Queued
  <1>6. \A ind \in Asking : Idle(ind) => Idle(ind)'
    BY <1>2, <1>5 DEF Idle, Unqueued
  <1>7. \A ind \in Asking : Unheard(ind)' <=> Unheard(ind)
    BY <1>1 DEF Unheard, OnWire
  <1>8. \A ind \in Asking : AtOnce(ind) => AtOnce(ind)'
    <2> SUFFICES ASSUME NEW ind \in Asking, AtOnce(ind) PROVE AtOnce(ind)'
      OBVIOUS
    <2>1. \A i, j \in DOMAIN events' : Queued(ind, i)' /\ Queued(ind, j)' => i = j
      <3> SUFFICES ASSUME NEW i \in DOMAIN events', NEW j \in DOMAIN events',
                          Queued(ind, i)', Queued(ind, j)'
                   PROVE  i = j
        OBVIOUS
      <3>1. i + 1 = j + 1
        BY <1>2, <1>5 DEF AtOnce
      <3> QED
        BY <1>2, <3>1
    <2>2. Unqueued(ind)' \/ ~Working(ind)'
      <3> SUFFICES ASSUME Working(ind)', NEW i \in DOMAIN events', Queued(ind, i)' PROVE FALSE
        BY DEF Unqueued
      <3>1. 1 = i + 1
        BY <1>2, <1>5 DEF AtOnce
      <3> QED
        BY <1>2, <3>1
    <2> QED
      BY <2>1, <2>2 DEF AtOnce
  <1>9. /\ "QDSS_REQ_MEM" \in Asking /\ "QDSS_FREE" \in Asking
    BY DEF Asking
  <1>10. Traced'
    <2> SUFFICES ASSUME Tracing' PROVE InTurn'
      BY DEF Traced
    <2>1. InTurn
      BY <1>1 DEF Backed, Traced, Tracing
    <2>2. OneOf("QDSS_FREE")'
      BY <1>1, <1>6, <1>7, <1>8, <1>9, <2>1 DEF InTurn, OneOf, OnWire
    <2>3. Nothing("QDSS_FREE") => Nothing("QDSS_FREE")'
      BY <1>6, <1>7, <1>9 DEF Nothing
    <2>4. Given <=> Given'
      BY <1>1 DEF Given
    <2> QED
      BY <1>1, <1>4, <1>6, <1>8, <1>9, <2>1, <2>2, <2>3, <2>4 DEF InTurn
  <1>11. MemoryAsked' /\ TraceLens'
    BY <1>1 DEF Backed, MemoryAsked, TraceLens, OnWire, Unheard
  <1> QED
    BY <1>4, <1>10, <1>11 DEF Backed

\* The firmware asks: what the wire is after it.
LEMMA Asks ==
    ASSUME IInv, TypeOK', Served, NEW ind \in Asking, NEW segs \in Wanted, FwIndicate(ind, segs)
    PROVE  /\ TypeOK /\ fw.state = "up" /\ fw'.state = "up" /\ peer = boot /\ ind \notin fw.sent
           /\ fw'.asked = IF ind = "REQUEST_MEM" THEN segs ELSE fw.asked
           /\ fw'.sent = IF ind = "QDSS_FREE" THEN fw.sent ELSE fw.sent \cup {ind}
           /\ fw'.traceMem = IF ind = "QDSS_FREE" THEN {} ELSE fw.traceMem
           /\ fw'.accepted = fw.accepted /\ fw'.mem = fw.mem
           /\ UNCHANGED <<events, worker, host, fw_mem, qdss_mem, faults>>
           /\ Len(wire) \in Nat /\ DOMAIN wire = 1..Len(wire) /\ DOMAIN wire' = 1..Len(wire) + 1
           /\ \A i \in DOMAIN wire : wire'[i] = wire[i]
           /\ wire'[Len(wire) + 1].ind = ind /\ wire'[Len(wire) + 1].segs = segs
           /\ \A inds : ind \notin inds => Unsent(inds)
           /\ \A inds : Unposted(inds)
           /\ QuietWorker /\ TraceSteps' = TraceSteps
           /\ \A x \in Asking : (Idle(x)' <=> Idle(x)) /\ (AtOnce(x)' <=> AtOnce(x))
  <1>1. /\ fw.state = "up" /\ ind \notin fw.sent /\ peer = boot
        /\ fw' = [fw EXCEPT !.sent = IF ind = "QDSS_FREE" THEN @ ELSE @ \cup {ind},
                            !.asked = IF ind = "REQUEST_MEM" THEN segs ELSE @,
                            !.traceMem = IF ind = "QDSS_FREE" THEN {} ELSE @]
        /\ wire' = Append(wire, Message(ind, segs))
        /\ UNCHANGED <<events, worker, host, fw_mem, qdss_mem, faults>>
    BY DEF FwIndicate, Due, memVars
  <1>2. TypeOK /\ wire \in Seq(Messages) /\ fw \in FwType /\ boot \in 0..MaxBoots
    BY DEF IInv, TypeOK
  <1>3. /\ fw'.state = "up" /\ fw'.accepted = fw.accepted /\ fw'.mem = fw.mem
        /\ fw'.asked = IF ind = "REQUEST_MEM" THEN segs ELSE fw.asked
        /\ fw'.sent = IF ind = "QDSS_FREE" THEN fw.sent ELSE fw.sent \cup {ind}
        /\ fw'.traceMem = IF ind = "QDSS_FREE" THEN {} ELSE fw.traceMem
    BY <1>1, <1>2 DEF FwType
  <1>4. Message(ind, segs) \in Messages /\ Message(ind, segs).ind = ind /\ Message(ind, segs).segs = segs
    BY <1>2 DEF Message, Messages, Indications, Asking
  <1>5. /\ Len(wire) \in Nat /\ DOMAIN wire = 1..Len(wire) /\ DOMAIN wire' = 1..Len(wire) + 1
        /\ \A i \in DOMAIN wire : wire'[i] = wire[i]
        /\ wire'[Len(wire) + 1] = Message(ind, segs)
    BY <1>1, <1>2, <1>4, Appended
  <1>6. \A inds : ind \notin inds => Unsent(inds)
    BY <1>1, <1>4 DEF Unsent
  <1>7. \A inds : Unposted(inds)
    BY <1>1 DEF Unposted
  <1>8. QuietWorker /\ TraceSteps' = TraceSteps
    BY <1>1 DEF QuietWorker, TraceSteps, At
  <1>9. \A x \in Asking : (Idle(x)' <=> Idle(x)) /\ (AtOnce(x)' <=> AtOnce(x))
    BY <1>1 DEF Idle, AtOnce, Unqueued, Queued, Working
  <1> QED
    BY <1>1, <1>2, <1>3, <1>4, <1>5, <1>6, <1>7, <1>8, <1>9

LEMMA AskedOfMemory ==
    ASSUME IInv, TypeOK', Served, Backed, NEW segs \in Requests, FwIndicate("REQUEST_MEM", segs)
    PROVE  Backed'
  <1> DEFINE ind == "REQUEST_MEM"
  <1>0. segs \in Wanted /\ ind \in Asking /\ ind \notin TraceInds /\ "QDSS_REQ_MEM" \in TraceInds
    BY DEF Wanted, Asking, TraceInds
  <1>1. fw.accepted = 2
    BY DEF FwIndicate, Due
  <1>2. /\ TypeOK /\ fw.state = "up" /\ fw'.state = "up" /\ peer = boot /\ ind \notin fw.sent
        /\ fw'.asked = segs /\ fw'.sent = fw.sent \cup {ind} /\ fw'.traceMem = fw.traceMem
        /\ fw'.accepted = fw.accepted /\ fw'.mem = fw.mem
        /\ UNCHANGED <<events, worker, host, fw_mem, qdss_mem, faults>>
        /\ Len(wire) \in Nat /\ DOMAIN wire = 1..Len(wire) /\ DOMAIN wire' = 1..Len(wire) + 1
        /\ \A i \in DOMAIN wire : wire'[i] = wire[i]
        /\ wire'[Len(wire) + 1].ind = ind /\ wire'[Len(wire) + 1].segs = segs
        /\ Unsent(TraceInds) /\ Unposted(TraceInds) /\ QuietWorker /\ TraceSteps' = TraceSteps
    BY <1>0, Asks
  <1>3. Unheard(ind)
    BY <1>0, <1>2 DEF Served, Fresh, NotAsked, Opens, Nothing
  <1>4. MemoryAsked'
    <2>1. \A i \in DOMAIN wire' : i \in DOMAIN wire \/ i = Len(wire) + 1
      BY <1>2
    <2>2. \A i \in DOMAIN wire' : OnWire(ind, i)' => wire'[i].segs = segs
      BY <1>2, <1>3, <2>1 DEF Unheard, OnWire
    <2>3. ~Unheard(ind)'
      BY <1>2 DEF Unheard, OnWire
    <2> QED
      BY <1>1, <1>2, <2>2, <2>3 DEF MemoryAsked
  <1>5. TraceCalm
    BY <1>2 DEF TraceCalm, Tracing
  <1>6. Traced'
    BY <1>2, <1>5, TracedFades DEF Backed
  <1>7. TraceLens'
    BY <1>0, <1>2, LensFade DEF Backed
  <1> QED
    BY <1>2, <1>4, <1>6, <1>7 DEF Backed

\* It is ready: nothing was said of trace memory before.
LEMMA ReadyBacked ==
    ASSUME IInv, TypeOK', Served, Backed, FwIndicate("FW_INIT_DONE", <<>>)
    PROVE  Backed'
  <1> DEFINE ind == "FW_INIT_DONE"
  <1>0. /\ <<>> \in Wanted /\ ind \in Asking /\ ind \notin TraceInds /\ TraceInds \in SUBSET Asking
        /\ "QDSS_REQ_MEM" \in TraceInds /\ "QDSS_FREE" \in TraceInds /\ ind \notin {"REQUEST_MEM"}
    BY DEF Wanted, Asking, TraceInds
  <1>1. /\ TypeOK /\ fw.state = "up" /\ fw'.state = "up" /\ peer = boot /\ ind \notin fw.sent
        /\ fw'.asked = fw.asked /\ fw'.sent = fw.sent \cup {ind} /\ fw'.traceMem = fw.traceMem
        /\ fw'.accepted = fw.accepted /\ fw'.mem = fw.mem
        /\ UNCHANGED <<events, worker, host, fw_mem, qdss_mem, faults>>
        /\ Unsent(TraceInds) /\ Unposted(TraceInds) /\ QuietWorker /\ TraceSteps' = TraceSteps
    BY <1>0, Asks
  <1>2. wire' = Append(wire, Message(ind, <<>>)) /\ Message(ind, <<>>) \in Messages
        /\ Message(ind, <<>>).ind = ind
    BY <1>0, <1>1 DEF FwIndicate, Message, Messages, Indications, TypeOK
  <1>3. MemoryAsked'
    <2>1. MemoryCalm
      BY <1>1, <1>2 DEF MemoryCalm, StillAsked
    <2> QED
      BY <1>1, <2>1, MemoryFades DEF Backed
  <1>4. Nothing("QDSS_REQ_MEM") /\ Nothing("QDSS_FREE") /\ fw.traceMem = {}
    BY <1>0, <1>1 DEF Served, Fresh, NotAsked, Opens, NoTraceYet
  <1>5. Nothing("QDSS_REQ_MEM")' /\ Nothing("QDSS_FREE")'
    BY <1>0, <1>1, <1>4, PlacesFade
  <1>6. Idle("QDSS_REQ_MEM")' /\ AtOnce("QDSS_REQ_MEM")' /\ OneOf("QDSS_FREE")'
    BY <1>5 DEF Nothing, Idle, Unheard, Unqueued, OneOf, AtOnce
  <1>7. ~At("trace_mem")'
    <2>1. worker'.steps \in Seq(Steps)
      BY DEF TypeOK
    <2>2. worker'.steps # <<>> => 1 \in DOMAIN worker'.steps /\ worker'.steps[1] = Head(worker'.steps)
      BY <2>1
    <2>3. At("trace_mem")' => Working("QDSS_REQ_MEM")'
      BY <2>2 DEF At, Working, StepsOf
    <2> QED
      BY <1>6, <2>3 DEF Idle
  <1>8. Traced'
    BY <1>1, <1>4, <1>5, <1>6, <1>7 DEF Traced, InTurn
  <1>9. TraceLens'
    BY <1>0, <1>1, LensFade DEF Backed
  <1> QED
    BY <1>1, <1>3, <1>8, <1>9 DEF Backed

LEMMA AskedOfTrace ==
    ASSUME IInv, TypeOK', Served, Backed, NEW segs \in Requests, FwIndicate("QDSS_REQ_MEM", segs)
    PROVE  Backed'
  <1> DEFINE ind == "QDSS_REQ_MEM"
  <1>0. /\ segs \in Wanted /\ Len(segs) # 0 /\ ind \in Asking /\ "QDSS_FREE" \in Asking
        /\ ind \notin {"QDSS_FREE"}
    BY WlfwAssumption DEF Wanted, Asking
  <1>1. /\ TypeOK /\ fw.state = "up" /\ fw'.state = "up"
        /\ fw'.asked = fw.asked /\ fw'.sent = fw.sent \cup {ind} /\ fw'.traceMem = fw.traceMem
        /\ fw'.accepted = fw.accepted /\ fw'.mem = fw.mem
        /\ UNCHANGED <<events, worker, host, fw_mem, qdss_mem, faults>>
        /\ Len(wire) \in Nat /\ DOMAIN wire = 1..Len(wire) /\ DOMAIN wire' = 1..Len(wire) + 1
        /\ \A i \in DOMAIN wire : wire'[i] = wire[i]
        /\ wire'[Len(wire) + 1].ind = ind /\ wire'[Len(wire) + 1].segs = segs
        /\ Unsent({"QDSS_FREE"}) /\ Unposted({"QDSS_FREE"}) /\ QuietWorker
        /\ TraceSteps' = TraceSteps
        /\ Idle(ind)' <=> Idle(ind)
        /\ AtOnce(ind)' <=> AtOnce(ind)
    BY <1>0, Asks
  <1>2. wire' = Append(wire, Message(ind, segs)) /\ Message(ind, segs) \in Messages
        /\ Message(ind, segs).ind = ind
    BY <1>0, <1>1 DEF FwIndicate, Message, Messages, Indications, TypeOK
  <1>3. MemoryAsked'
    <2>1. MemoryCalm
      BY <1>1, <1>2 DEF MemoryCalm, StillAsked
    <2> QED
      BY <1>1, <2>1, MemoryFades DEF Backed
  <1>4. TraceLens'
    <2>1. \A i \in DOMAIN wire' : i \in DOMAIN wire \/ i = Len(wire) + 1
      BY <1>1
    <2> QED
      BY <1>0, <1>1, <2>1 DEF Backed, TraceLens, OnWire
  <1>5. /\ OneOf("QDSS_FREE") => OneOf("QDSS_FREE")'
        /\ Nothing("QDSS_FREE") => Nothing("QDSS_FREE")'
    BY <1>0, <1>1, PlacesFade
  <1>6. Traced'
    <2> SUFFICES ASSUME Tracing' PROVE InTurn'
      BY DEF Traced
    <2>1. InTurn
      BY <1>1 DEF Backed, Traced, Tracing
    <2>2. (Given <=> Given') /\ (At("trace_mem")' <=> At("trace_mem"))
      BY <1>1 DEF Given, At
    <2> QED
      BY <1>1, <1>5, <2>1, <2>2 DEF InTurn
  <1> QED
    BY <1>1, <1>3, <1>4, <1>6 DEF Backed

LEMMA TraceFreed ==
    ASSUME IInv, TypeOK', Served, Backed, FwIndicate("QDSS_FREE", <<>>)
    PROVE  Backed'
  <1> DEFINE ind == "QDSS_FREE"
  <1>0. /\ <<>> \in Wanted /\ ind \in Asking /\ "QDSS_REQ_MEM" \in Asking
        /\ ind \notin {"QDSS_REQ_MEM"}
    BY WlfwAssumption DEF Asking, Wanted
  <1>1. /\ TypeOK /\ fw.state = "up" /\ fw'.state = "up"
        /\ fw'.asked = fw.asked /\ fw'.sent = fw.sent /\ fw'.traceMem = {}
        /\ fw'.accepted = fw.accepted /\ fw'.mem = fw.mem
        /\ UNCHANGED <<events, worker, host, fw_mem, qdss_mem, faults>>
        /\ Len(wire) \in Nat /\ DOMAIN wire = 1..Len(wire) /\ DOMAIN wire' = 1..Len(wire) + 1
        /\ \A i \in DOMAIN wire : wire'[i] = wire[i]
        /\ Unsent({"QDSS_REQ_MEM"}) /\ QuietWorker
        /\ TraceSteps' = TraceSteps
        /\ Idle("QDSS_REQ_MEM")' <=> Idle("QDSS_REQ_MEM")
        /\ AtOnce("QDSS_REQ_MEM")' <=> AtOnce("QDSS_REQ_MEM")
        /\ Idle(ind)' <=> Idle(ind)
        /\ AtOnce(ind)' <=> AtOnce(ind)
    BY <1>0, Asks
  <1>2. wire' = Append(wire, Message(ind, <<>>)) /\ Message(ind, <<>>) \in Messages
        /\ Message(ind, <<>>).ind = ind /\ fw.traceMem # {}
    BY <1>0, <1>1 DEF FwIndicate, Due, Message, Messages, Indications, TypeOK
  <1>3. MemoryAsked'
    <2>1. MemoryCalm
      BY <1>1, <1>2 DEF MemoryCalm, StillAsked
    <2> QED
      BY <1>1, <2>1, MemoryFades DEF Backed
  <1>4. TraceLens'
    BY <1>1, LensFade DEF Backed
  <1>5. Traced'
    <2> SUFFICES ASSUME Tracing' PROVE InTurn'
      BY DEF Traced
    <2>1. InTurn
      BY <1>1 DEF Backed, Traced, Tracing
    <2>2. /\ AtOnce("QDSS_REQ_MEM") /\ Idle("QDSS_REQ_MEM") /\ Nothing(ind) /\ qdss_mem.len # 0
      BY <1>2, <2>1 DEF InTurn, Given
    <2>3. OneOf(ind)'
      <3>1. \A i \in DOMAIN wire' : i \in DOMAIN wire \/ i = Len(wire) + 1
        BY <1>1
      <3>2. \A i \in DOMAIN wire' : OnWire(ind, i)' => i = Len(wire) + 1
        BY <1>1, <2>2, <3>1 DEF Nothing, Unheard, OnWire
      <3>3. Idle(ind)' /\ AtOnce(ind)'
        BY <1>1, <2>2 DEF Nothing, Idle, AtOnce, Unqueued
      <3> QED
        BY <3>2, <3>3 DEF OneOf
    <2>4. At("trace_mem")' <=> At("trace_mem")
      BY <1>1 DEF At
    <2> QED
      BY <1>1, <2>1, <2>2, <2>3, <2>4 DEF InTurn
  <1> QED
    BY <1>1, <1>3, <1>4, <1>5 DEF Backed

\* What it asked for is heard: fw_mem is what was asked for, or the indication is
\* still on its way.
LEMMA MemoryHeard ==
    ASSUME IInv, TypeOK', Backed, RequestMemInd
    PROVE  Backed'
  <1>0. TypeOK /\ wire \in Seq(Messages) /\ fw_mem \in FwMemory /\ 0 \in 0..MaxBoots
        /\ "QDSS_REQ_MEM" \in TraceInds
    BY WlfwAssumption DEF IInv, TypeOK, TraceInds
  <1>1. /\ wire # <<>> /\ Head(wire).ind = "REQUEST_MEM" /\ wire' = Tail(wire)
        /\ UNCHANGED <<fw, worker, host, qdss_mem>>
        /\ fw_mem' = [fw_mem EXCEPT !.segs = Head(wire).segs, !.grown = Outgrown(Head(wire).segs)]
        /\ Post("REQUEST_MEM", 0)
    BY DEF RequestMemInd, Receive, fwVars
  <1>2. /\ 1 \in DOMAIN wire /\ Head(wire) = wire[1] /\ fw_mem'.segs = Head(wire).segs
        /\ \A i \in DOMAIN wire' : i + 1 \in DOMAIN wire /\ wire'[i] = wire[i + 1]
    BY <1>0, <1>1, Taken DEF FwMemory
  <1>3. MemoryAsked'
    <2> SUFFICES ASSUME fw.state = "up" PROVE MemoryAsked'
      BY <1>1 DEF MemoryAsked
    <2>1. CASE "REQUEST_MEM" \in fw.sent
      <3>1. /\ \A i \in DOMAIN wire : OnWire("REQUEST_MEM", i) => wire[i].segs = fw.asked
            /\ fw.accepted >= 3 => Unheard("REQUEST_MEM")
        BY <2>1 DEF Backed, MemoryAsked
      <3>2. fw_mem'.segs = fw.asked
        BY <1>1, <1>2, <3>1 DEF OnWire
      <3>3. \A i \in DOMAIN wire' : OnWire("REQUEST_MEM", i)' => wire'[i].segs = fw.asked
        BY <1>2, <3>1 DEF OnWire
      <3>4. ~Unheard("REQUEST_MEM")
        BY <1>1, <1>2 DEF Unheard, OnWire
      <3>5. ~(fw.accepted >= 3)
        BY <3>1, <3>4
      <3> QED
        BY <1>1, <2>1, <3>2, <3>3, <3>5 DEF MemoryAsked
    <2>2. CASE "REQUEST_MEM" \notin fw.sent
      BY <1>1, <2>2 DEF Backed, MemoryAsked
    <2> QED
      BY <2>1, <2>2
  <1>4. Unposted(TraceInds) /\ (faults' = 0 => faults = 0)
    <2>1. [ev |-> "REQUEST_MEM", of |-> 0] \in Events
      BY <1>0 DEF Events, Chain
    <2>2. \A ind \in TraceInds : Handled[ind] # "REQUEST_MEM"
      BY DEF TraceInds, Handled
    <2>3. faults' = 0 => faults = 0
      BY <1>0, <1>1, FaultCalm DEF Post
    <2> QED
      BY <1>1, <2>1, <2>2, <2>3 DEF Post, Unposted
  <1>5. Unsent(TraceInds) /\ QuietWorker
    BY <1>1 DEF Unsent, QuietWorker
  <1>6. TraceCalm
    BY <1>1, <1>4 DEF TraceCalm, Tracing
  <1>7. Traced'
    BY <1>0, <1>4, <1>5, <1>6, TracedFades DEF Backed
  <1>8. TraceLens' /\ TraceSteps'
    BY <1>0, <1>5, LensFade, StepsStay DEF Backed
  <1> QED
    BY <1>3, <1>7, <1>8 DEF Backed

\* What is heard of the trace memory.
LEMMA TraceHeard ==
    ASSUME IInv, TypeOK', Backed, NEW ind \in TraceInds, Receive(ind),
           QdssReqMemInd \/ QdssFreeInd
    PROVE  /\ TypeOK /\ TraceInds \in SUBSET Asking
           /\ 1 \in DOMAIN wire /\ wire[1] = Head(wire) /\ OnWire(ind, 1)
           /\ UNCHANGED <<fw, worker, host>> /\ (faults' = 0 => faults = 0)
           /\ \A inds : Unsent(inds)
           /\ QuietWorker
           /\ MemoryAsked' /\ TraceLens' /\ TraceSteps'
           /\ Tracing' => InTurn
  <1>0. TypeOK /\ wire \in Seq(Messages) /\ TraceInds \in SUBSET Asking
        /\ "QDSS_REQ_MEM" \in TraceInds /\ ind # "REQUEST_MEM"
    BY DEF IInv, TypeOK, TraceInds, Asking
  <1>1. /\ wire # <<>> /\ Head(wire).ind = ind /\ wire' = Tail(wire)
        /\ UNCHANGED <<fw, worker, host, fw_mem>>
    BY DEF QdssReqMemInd, QdssFreeInd, Receive, fwVars
  <1>2. 1 \in DOMAIN wire /\ wire[1] = Head(wire) /\ OnWire(ind, 1)
    BY <1>0, <1>1, Taken DEF OnWire
  <1>3. faults' = 0 => faults = 0
    BY <1>0, FaultCalm DEF QdssReqMemInd, QdssFreeInd, Post
  <1>4. (\A inds : Unsent(inds)) /\ QuietWorker
    BY <1>1 DEF Unsent, QuietWorker
  <1>5. MemoryCalm
    BY <1>0, <1>1 DEF MemoryCalm, StillAsked
  <1>6. MemoryAsked'
    BY <1>0, <1>5, MemoryFades DEF Backed
  <1>7. TraceLens' /\ TraceSteps'
    BY <1>0, <1>4, LensFade, StepsStay DEF Backed
  <1>8. Tracing' => InTurn
    BY <1>1, <1>3 DEF Backed, Traced, Tracing
  <1> QED
    BY <1>0, <1>1, <1>2, <1>3, <1>4, <1>6, <1>7, <1>8

LEMMA TraceRequested ==
    ASSUME IInv, TypeOK', Backed, QdssReqMemInd
    PROVE  Backed'
  <1> DEFINE ind == "QDSS_REQ_MEM"
             e == [ev |-> "QDSS_TRACE_REQ_MEM", of |-> 0]
  <1>0. /\ ind \in TraceInds /\ "QDSS_FREE" \in TraceInds /\ Receive(ind)
        /\ Handled[ind] = "QDSS_TRACE_REQ_MEM" /\ Handled["QDSS_FREE"] # "QDSS_TRACE_REQ_MEM"
    BY DEF TraceInds, Handled, QdssReqMemInd
  <1>1. /\ TypeOK /\ TraceInds \in SUBSET Asking
        /\ 1 \in DOMAIN wire /\ wire[1] = Head(wire) /\ OnWire(ind, 1)
        /\ UNCHANGED <<fw, worker, host>> /\ (faults' = 0 => faults = 0)
        /\ \A inds : Unsent(inds)
        /\ QuietWorker
        /\ MemoryAsked' /\ TraceLens' /\ TraceSteps'
        /\ Tracing' => InTurn
    BY <1>0, TraceHeard
  <1>2. CASE qdss_mem.len # 0
    <2>1. UNCHANGED <<qdss_mem, events>>
      BY <1>2 DEF QdssReqMemInd
    <2>2. Unposted(TraceInds) /\ TraceCalm
      BY <1>1, <2>1 DEF Unposted, TraceCalm, Tracing
    <2>3. Traced'
      BY <1>1, <2>2, TracedFades DEF Backed
    <2> QED
      BY <1>1, <2>3 DEF Backed
  <1>3. CASE qdss_mem.len = 0
    <2> SUFFICES ASSUME Tracing' PROVE InTurn'
      BY <1>1 DEF Backed, Traced
    <2>1. qdss_mem' = [qdss_mem EXCEPT !.len = Len(Head(wire).segs)] /\ Post("QDSS_TRACE_REQ_MEM", 0)
      BY <1>3 DEF QdssReqMemInd
    <2>2. events' = Append(events, e)
      BY <1>1, <2>1 DEF Post, Fault, TypeOK, Tracing
    <2>3. e \in Events /\ e.ev = "QDSS_TRACE_REQ_MEM"
      BY <1>1, WlfwAssumption DEF Events, Chain
    <2>4. /\ Idle(ind) /\ Nothing("QDSS_FREE") /\ fw.traceMem = {} /\ OneOf("QDSS_FREE")
          /\ ~At("trace_mem")
      <3>1. InTurn
        BY <1>1
      <3>2. Idle(ind) /\ Nothing("QDSS_FREE") /\ fw.traceMem = {} /\ OneOf("QDSS_FREE")
        BY <1>3, <3>1 DEF InTurn, Given
      <3>3. ~At("trace_mem")
        <4>1. worker.steps \in Seq(Steps)
          BY <1>1 DEF TypeOK
        <4>2. At("trace_mem") => 1 \in DOMAIN worker.steps /\ worker.steps[1] = "trace_mem"
          BY <4>1, Taken DEF At
        <4> QED
          BY <3>2, <4>2 DEF Idle, Working, StepsOf
      <3> QED
        BY <3>2, <3>3
    <2>5. qdss_mem'.len = Len(Head(wire).segs) /\ qdss_mem'.len # 0
      <3>1. qdss_mem'.len = Len(Head(wire).segs)
        BY <1>1, <2>1 DEF TypeOK, Memory
      <3> QED
        BY <1>1, <3>1 DEF Backed, TraceLens
    <2>6. Unposted({"QDSS_FREE"}) /\ Unsent({"QDSS_FREE"}) /\ {"QDSS_FREE"} \in SUBSET Asking
      BY <1>0, <1>1, <2>2, <2>3 DEF Unposted
    <2>7. Nothing("QDSS_FREE")' /\ OneOf("QDSS_FREE")'
      BY <1>1, <2>4, <2>6, PlacesFade
    <2>8. AtOnce(ind)'
      <3> HIDE DEF e
      <3>1. /\ Len(events) \in Nat /\ DOMAIN events = 1..Len(events)
            /\ DOMAIN events' = 1..Len(events) + 1 /\ events'[Len(events) + 1] = e
            /\ \A i \in DOMAIN events : events'[i] = events[i]
        BY <1>1, <2>2, <2>3, Appended DEF TypeOK
      <3>2. \A i \in DOMAIN events' : i \in DOMAIN events \/ i = Len(events) + 1
        BY <3>1
      <3>3. \A i \in DOMAIN events' : Queued(ind, i)' => i = Len(events) + 1
        BY <2>4, <3>1, <3>2 DEF Idle, Unqueued, Queued
      <3>4. ~Working(ind)'
        BY <1>1, <2>4 DEF Idle, Working
      <3> QED
        BY <3>3, <3>4 DEF AtOnce
    <2>9. ~At("trace_mem")' /\ fw'.traceMem = {}
      BY <1>1, <2>4 DEF At
    <2> QED
      BY <2>5, <2>7, <2>8, <2>9 DEF InTurn
  <1> QED
    BY <1>2, <1>3

LEMMA TraceGivenBack ==
    ASSUME IInv, TypeOK', Backed, QdssFreeInd
    PROVE  Backed'
  <1> DEFINE ind == "QDSS_FREE"
             e == [ev |-> "QDSS_TRACE_FREE", of |-> 0]
  <1>0. /\ ind \in TraceInds /\ "QDSS_REQ_MEM" \in TraceInds /\ Receive(ind)
        /\ Handled[ind] = "QDSS_TRACE_FREE" /\ Handled["QDSS_REQ_MEM"] # "QDSS_TRACE_FREE"
    BY DEF TraceInds, Handled, QdssFreeInd
  <1>1. /\ TypeOK /\ TraceInds \in SUBSET Asking
        /\ 1 \in DOMAIN wire /\ wire[1] = Head(wire) /\ OnWire(ind, 1)
        /\ UNCHANGED <<fw, worker, host>> /\ (faults' = 0 => faults = 0)
        /\ \A inds : Unsent(inds)
        /\ QuietWorker
        /\ MemoryAsked' /\ TraceLens' /\ TraceSteps'
        /\ Tracing' => InTurn
    BY <1>0, TraceHeard
  <1> SUFFICES ASSUME Tracing' PROVE InTurn'
    BY <1>1 DEF Backed, Traced
  <1>2. qdss_mem' = qdss_mem /\ Post("QDSS_TRACE_FREE", 0) /\ wire' = Tail(wire) /\ wire # <<>>
        /\ wire \in Seq(Messages)
    BY <1>1 DEF QdssFreeInd, Receive, TypeOK
  <1>3. events' = Append(events, e)
    BY <1>1, <1>2 DEF Post, Fault, TypeOK, Tracing
  <1>4. e \in Events /\ e.ev = "QDSS_TRACE_FREE"
    BY <1>1, WlfwAssumption DEF Events, Chain
  <1>5. ~Unheard(ind) /\ ~Nothing(ind)
    BY <1>1 DEF Unheard, Nothing
  <1>6. /\ qdss_mem.len # 0 /\ fw.traceMem = {} /\ Idle("QDSS_REQ_MEM") /\ OneOf(ind) /\ Idle(ind)
    BY <1>1, <1>5 DEF InTurn, OneOf
  <1>7. {"QDSS_REQ_MEM"} \in SUBSET Asking /\ Unposted({"QDSS_REQ_MEM"}) /\ Unsent({"QDSS_REQ_MEM"})
    BY <1>0, <1>1, <1>3, <1>4 DEF Unposted
  <1>8. Idle("QDSS_REQ_MEM")' /\ AtOnce("QDSS_REQ_MEM")'
    <2>1. AtOnce("QDSS_REQ_MEM")
      BY <1>1 DEF InTurn
    <2> QED
      BY <1>1, <1>6, <1>7, <2>1, PlacesFade
  <1>9. OneOf(ind)'
    <2>1. Unheard(ind)'
      <3>1. \A i \in DOMAIN wire' : i \in Nat \ {0} /\ i + 1 \in DOMAIN wire /\ wire'[i] = wire[i + 1]
        BY <1>2, Taken
      <3>2. \A i \in DOMAIN wire : OnWire(ind, i) => i = 1
        BY <1>1, <1>6 DEF OneOf
      <3>3. \A i \in DOMAIN wire' : i + 1 # 1
        BY <3>1
      <3> QED
        BY <3>1, <3>2, <3>3 DEF Unheard, OnWire
    <2>2. AtOnce(ind)'
      <3> HIDE DEF e
      <3>1. /\ Len(events) \in Nat /\ DOMAIN events = 1..Len(events)
            /\ DOMAIN events' = 1..Len(events) + 1 /\ events'[Len(events) + 1] = e
            /\ \A i \in DOMAIN events : events'[i] = events[i]
        BY <1>1, <1>3, <1>4, Appended DEF TypeOK
      <3>2. \A i \in DOMAIN events' : i \in DOMAIN events \/ i = Len(events) + 1
        BY <3>1
      <3>3. \A i \in DOMAIN events' : Queued(ind, i)' => i = Len(events) + 1
        BY <1>6, <3>1, <3>2 DEF Idle, Unqueued, Queued
      <3>4. ~Working(ind)'
        BY <1>1, <1>6 DEF Idle, Working
      <3> QED
        BY <3>3, <3>4 DEF AtOnce
    <2> QED
      BY <2>1, <2>2 DEF OneOf, Unheard
  <1>10. ~At("trace_mem")' /\ fw'.traceMem = {} /\ qdss_mem'.len # 0
    <2>1. worker.steps \in Seq(Steps)
      BY <1>1 DEF TypeOK
    <2>2. At("trace_mem") => 1 \in DOMAIN worker.steps /\ worker.steps[1] = "trace_mem"
      BY <2>1, Taken DEF At
    <2>3. ~At("trace_mem")
      BY <1>6, <2>2 DEF Idle, Working, StepsOf
    <2> QED
      BY <1>1, <1>2, <1>6, <2>3 DEF At
  <1> QED
    BY <1>8, <1>9, <1>10 DEF InTurn

LEMMA InitBacked == Init => Backed
  <1> SUFFICES ASSUME Init PROVE Backed
    OBVIOUS
  <1>1. fw.state = "off" /\ wire = <<>> /\ worker.steps = <<>>
    BY DEF Init, NoFw, Resting
  <1> QED
    BY <1>1 DEF Backed, MemoryAsked, TraceSteps, TraceLens, Traced, Tracing

LEMMA StepBacked == IInv /\ TypeOK' /\ Served /\ Backed /\ [Next]_vars => Backed'
  <1> SUFFICES ASSUME IInv, TypeOK', Served, Backed, [Next]_vars PROVE Backed'
    OBVIOUS
  <1>1. CASE Firmware
    BY <1>1, SaysBacked, AskedOfMemory, ReadyBacked, AskedOfTrace, TraceFreed DEF Firmware
  <1>2. CASE FwGone \/ Crash
    BY <1>2, DeadBacked
  <1>3. CASE QmiThread
    BY <1>3, HeardBacked, MemoryHeard, TraceRequested, TraceGivenBack DEF QmiThread
  <1>4. CASE Worker
    <2>1. CASE WlanCfg \/ WlanMode
      <3>1. ("wlan_cfg" = "wlan_mode") = FALSE /\ ("wlan_mode" = "wlan_mode") = TRUE
        OBVIOUS
      <3>2. CASE WlanCfg
        BY <3>1, <3>2, ProbeBacked DEF WlanCfg
      <3>3. CASE WlanMode
        BY <3>1, <3>3, ProbeBacked DEF WlanMode
      <3> QED
        BY <2>1, <3>2, <3>3
    <2>2. CASE TakeEvent \/ Connect \/ ServerExit \/ PowerUp \/ Shutdown
      BY <2>2, TakeEventBacked, SocketBacked, PowerUpBacked, DeadBacked
    <2>3. CASE IndRegister \/ HostCap \/ TgtCap \/ BdfDnld \/ M3Dnld \/ SetupDmsMac
      BY <2>3, SendOrStopBacked
    <2>4. CASE FwMemReady \/ FwReady \/ GenSpeed \/ Files \/ QdssDnld \/ AllocFwMem \/ LoadM3
      BY <2>4, WorkerBacked
    <2>5. CASE RespondMem \/ AllocQdssMem \/ TraceMemInfo \/ FreeQdssMem
      BY <2>5, RespondMemBacked, AllocQdssBacked, TraceMemInfoBacked, FreeQdssBacked
    <2> QED
      BY <1>4, <2>1, <2>2, <2>3, <2>4, <2>5 DEF Worker, ServerArrive, RequestMem, MemReady, Ready,
         QdssEvents
  <1>5. CASE Host \/ User \/ UNCHANGED vars
    BY <1>5, HostBacked DEF Host, User
  <1> QED
    BY <1>1, <1>2, <1>3, <1>4, <1>5 DEF Next

\* What is there of a segment is enough for it, unless it is of an earlier boot;
\* the trace memory is all there or not at all; and a firmware that was not yet
\* answered was given nothing.
Enough ==
    \A i \in DOMAIN fw_mem.segs :
       fw_mem.va[i] = 0 \/ fw_mem.segs[i] <= fw_mem.va[i] \/ i \in fw_mem.grown
AllOrNone == qdss_mem.va \in {{}, 1..qdss_mem.len}
Ungiven   == fw.accepted < 3 => fw.mem = <<>>

Kept == Enough /\ AllOrNone /\ Ungiven

LEMMA FwMemStep ==
    ASSUME [Next]_vars
    PROVE  UNCHANGED fw_mem \/ RequestMemInd \/ AllocFwMem
  <1>1. CASE Firmware \/ FwGone \/ Crash
    <2>1. \A ind, segs : FwIndicate(ind, segs) => UNCHANGED memVars
      BY DEF FwIndicate
    <2>2. FwAnnounce \/ FwGone \/ Crash => UNCHANGED memVars
      BY DEF FwAnnounce, FwGone, Crash
    <2> QED
      BY <1>1, <2>1, <2>2 DEF Firmware, memVars
  <1>2. CASE QmiThread
    BY <1>2 DEF QmiThread, NewServer, DelServer, FwMemReadyInd, FwInitDoneInd, QdssReqMemInd,
       QdssFreeInd
  <1>3. CASE Worker
    <2>1. CASE TakeEvent \/ ServerArrive \/ ServerExit \/ RespondMem \/ QdssEvents
      BY <2>1 DEF TakeEvent, ServerArrive, Connect, IndRegister, HostCap, SendOrStop, ServerExit,
         RespondMem, QdssEvents, AllocQdssMem, TraceMemInfo, FreeQdssMem, memVars
    <2>2. CASE MemReady \/ Ready
      BY <2>2 DEF MemReady, FwMemReady, TgtCap, Files, QdssDnld, OptionalFiles, BdfDnld, LoadM3, M3Dnld,
         SendOrStop, Ready, FwReady, GenSpeed, SetupDmsMac, WlanCfg, WlanMode, ProbeStep, memVars
    <2>3. CASE Shutdown \/ PowerUp
      BY <2>3 DEF Shutdown, PowerUp, memVars
    <2> QED
      BY <1>3, <2>1, <2>2, <2>3 DEF Worker, RequestMem
  <1>4. CASE Host \/ User \/ UNCHANGED vars
    BY <1>4 DEF Host, WlanDisable, WlanDisableFree, Leave, Come, SetGenSpeed, User, TraceStart,
       TraceStop, Send, memVars, vars
  <1> QED
    BY <1>1, <1>2, <1>3, <1>4 DEF Next

LEMMA EnoughStays ==
    ASSUME TypeOK, Enough, [Next]_vars
    PROVE  Enough'
  <1>1. CASE UNCHANGED fw_mem
    BY <1>1 DEF Enough
  <1>2. /\ fw_mem \in FwMemory /\ fw_mem.segs \in Wanted
        /\ DOMAIN fw_mem.segs = 1..Len(fw_mem.segs) /\ Len(fw_mem.segs) \in Nat
        /\ DOMAIN fw_mem.segs \subseteq Segs
        /\ \A i \in DOMAIN fw_mem.segs : fw_mem.segs[i] \in Nat /\ fw_mem.va[i] \in Nat
    BY WantedFacts DEF TypeOK, FwMemory
  <1>3. CASE RequestMemInd
    <2> DEFINE segs == Head(wire).segs
    <2>1. /\ wire # <<>> /\ fw_mem' = [fw_mem EXCEPT !.segs = segs, !.grown = Outgrown(segs)]
          /\ wire[1] \in Messages /\ segs = wire[1].segs
      BY <1>3, Taken DEF RequestMemInd, Receive, TypeOK
    <2>2. fw_mem'.segs = segs /\ fw_mem'.grown = Outgrown(segs) /\ fw_mem'.va = fw_mem.va
      BY <1>2, <2>1 DEF FwMemory
    <2>3. \A i \in DOMAIN segs : segs[i] \in Nat /\ fw_mem.va[i] \in Nat
      BY <1>2, <2>1, WantedFacts DEF FwMemory, Messages
    <2> QED
      BY <2>2, <2>3 DEF Enough, Outgrown
  <1>4. CASE AllocFwMem
    <2>1. PICK n \in 0..Len(fw_mem.segs) : fw_mem' = [fw_mem EXCEPT !.va = Allocated(n)]
      <3>1. Len(fw_mem.segs) \in 0..Len(fw_mem.segs)
        BY <1>2
      <3>2. 0..Len(fw_mem.segs) - 1 \subseteq 0..Len(fw_mem.segs)
        BY <1>2
      <3> QED
        BY <1>4, <3>1, <3>2, Zenon DEF AllocFwMem
    <2>2. /\ fw_mem'.segs = fw_mem.segs /\ fw_mem'.grown = fw_mem.grown
          /\ \A i \in DOMAIN fw_mem.segs :
                /\ fw_mem.va[i] # 0 => fw_mem'.va[i] = fw_mem.va[i]
                /\ fw_mem.va[i] = 0 => fw_mem'.va[i] \in {0, fw_mem.segs[i]}
      BY <1>2, <2>1, AllocatedFacts
    <2> QED
      BY <1>2, <2>2 DEF Enough
  <1> QED
    BY <1>1, <1>3, <1>4, FwMemStep

LEMMA QdssMemStep ==
    ASSUME [Next]_vars
    PROVE  UNCHANGED qdss_mem \/ QdssReqMemInd \/ AllocQdssMem \/ qdss_mem' = NoTraceMem
  <1>1. CASE Firmware \/ FwGone \/ Crash
    <2>1. \A ind, segs : FwIndicate(ind, segs) => UNCHANGED memVars
      BY DEF FwIndicate
    <2>2. FwAnnounce \/ FwGone \/ Crash => UNCHANGED memVars
      BY DEF FwAnnounce, FwGone, Crash
    <2> QED
      BY <1>1, <2>1, <2>2 DEF Firmware, memVars
  <1>2. CASE QmiThread
    BY <1>2 DEF QmiThread, NewServer, DelServer, RequestMemInd, FwMemReadyInd, FwInitDoneInd,
       QdssFreeInd
  <1>3. CASE Worker
    <2>1. CASE TakeEvent \/ ServerArrive \/ ServerExit \/ RequestMem \/ QdssEvents
      BY <2>1 DEF TakeEvent, ServerArrive, Connect, IndRegister, HostCap, SendOrStop, ServerExit,
         RequestMem, AllocFwMem, RespondMem, QdssEvents, TraceMemInfo, FreeQdssMem, memVars
    <2>2. CASE MemReady \/ Ready
      BY <2>2 DEF MemReady, FwMemReady, TgtCap, Files, QdssDnld, OptionalFiles, BdfDnld, LoadM3, M3Dnld,
         SendOrStop, Ready, FwReady, GenSpeed, SetupDmsMac, WlanCfg, WlanMode, ProbeStep, memVars
    <2>3. CASE Shutdown \/ PowerUp
      BY <2>3 DEF Shutdown, PowerUp, memVars
    <2> QED
      BY <1>3, <2>1, <2>2, <2>3 DEF Worker
  <1>4. CASE Host \/ User \/ UNCHANGED vars
    BY <1>4 DEF Host, WlanDisable, WlanDisableFree, Leave, Come, SetGenSpeed, User, TraceStart,
       TraceStop, Send, memVars, vars
  <1> QED
    BY <1>1, <1>2, <1>3, <1>4 DEF Next

LEMMA AllOrNoneStays ==
    ASSUME TypeOK, AllOrNone, [Next]_vars
    PROVE  AllOrNone'
  <1>1. qdss_mem \in Memory /\ qdss_mem.len \in Nat
    BY DEF TypeOK, Memory
  <1>2. CASE UNCHANGED qdss_mem
    BY <1>2 DEF AllOrNone
  <1>3. CASE QdssReqMemInd
    <2>1. CASE qdss_mem.len # 0
      BY <1>2, <1>3, <2>1 DEF QdssReqMemInd
    <2>2. CASE qdss_mem.len = 0
      <3>1. qdss_mem.va = {}
        BY <2>2 DEF AllOrNone
      <3>2. qdss_mem' = [qdss_mem EXCEPT !.len = Len(Head(wire).segs)]
        BY <1>3, <2>2 DEF QdssReqMemInd
      <3>3. qdss_mem'.va = {}
        BY <1>1, <3>1, <3>2 DEF Memory
      <3> QED
        BY <3>3 DEF AllOrNone
    <2> QED
      BY <2>1, <2>2
  <1>4. CASE AllocQdssMem
    <2>1. CASE qdss_mem' = [qdss_mem EXCEPT !.va = @ \cup 1..qdss_mem.len]
      <3>1. qdss_mem'.len = qdss_mem.len /\ qdss_mem'.va = qdss_mem.va \cup 1..qdss_mem.len
        BY <1>1, <2>1 DEF Memory
      <3>2. qdss_mem'.va = 1..qdss_mem.len
        BY <3>1 DEF AllOrNone
      <3> QED
        BY <3>1, <3>2 DEF AllOrNone
    <2>2. ASSUME NEW n \in 0..qdss_mem.len - 1, n + 1 \notin qdss_mem.va,
                 qdss_mem' = [len |-> n, va |-> qdss_mem.va \cup 1..n]
          PROVE  AllOrNone'
      <3>1. qdss_mem.va = {}
        BY <1>1, <2>2 DEF AllOrNone
      <3>2. qdss_mem'.len = n /\ qdss_mem'.va = 1..n
        BY <2>2, <3>1
      <3> QED
        BY <3>2 DEF AllOrNone
    <2> QED
      BY <1>4, <2>1, <2>2 DEF AllocQdssMem
  <1>5. CASE qdss_mem' = NoTraceMem
    <2>1. qdss_mem'.va = {}
      BY <1>5 DEF NoTraceMem, AllOrNone
    <2> QED
      BY <2>1 DEF AllOrNone
  <1> QED
    BY <1>2, <1>3, <1>4, <1>5, QdssMemStep

\* What a step does to the memory that the firmware was given.
FwKeepsMem == fw'.mem = fw.mem /\ fw'.accepted = fw.accepted
FwDoes ==
    \/ FwKeepsMem \/ fw'.mem = <<>>
    \/ \E req \in DOMAIN WaitsFor : Accepts(req) /\ fw' = Done(req)

LEMMA RequestDoes ==
    ASSUME NEW req \in DOMAIN WaitsFor, NEW ok \in BOOLEAN, Request(req, ok)
    PROVE  FwDoes
  BY DEF Request, FwDoes, FwKeepsMem

LEMMA FwSteps ==
    ASSUME TypeOK, [Next]_vars
    PROVE  FwDoes
  <1>1. fw \in FwType
    BY DEF TypeOK
  <1>2. {"ind_register", "host_cap", "respond_mem", "tgt_cap", "bdf", "m3_info", "wlan_cfg",
         "wlan_mode", "mac_addr", "mode_off", "trace_on", "trace_off", "trace_mem"}
           \subseteq DOMAIN WaitsFor
    BY DEF WaitsFor
  <1>3. UNCHANGED fw => FwDoes
    BY DEF FwDoes, FwKeepsMem
  <1>4. CASE FwAnnounce \/ FwGone \/ Crash
    BY <1>1, <1>4 DEF FwAnnounce, FwGone, Crash, FwDoes, FwKeepsMem, FwType
  <1>5. ASSUME NEW ind, NEW segs, FwIndicate(ind, segs) PROVE FwDoes
    BY <1>1, <1>5 DEF FwIndicate, FwDoes, FwKeepsMem, FwType
  <1>6. CASE QmiThread
    BY <1>3, <1>6 DEF QmiThread, NewServer, DelServer, RequestMemInd, FwMemReadyInd, FwInitDoneInd,
       QdssReqMemInd, QdssFreeInd, Receive, fwVars
  <1>7. ASSUME NEW req \in DOMAIN WaitsFor, SendOrStop(req) PROVE FwDoes
    BY <1>7, RequestDoes DEF SendOrStop
  <1>8. CASE TakeEvent \/ ServerArrive \/ ServerExit \/ RequestMem
    <2>1. CASE TakeEvent \/ Connect \/ ServerExit \/ AllocFwMem
      BY <1>3, <2>1 DEF TakeEvent, Connect, ServerExit, AllocFwMem, fwVars
    <2>2. CASE IndRegister \/ HostCap
      BY <1>2, <1>3, <1>7, <2>2 DEF IndRegister, HostCap, fwVars
    <2>3. CASE RespondMem
      BY <1>2, <1>3, <2>3, RequestDoes DEF RespondMem
    <2> QED
      BY <1>8, <2>1, <2>2, <2>3 DEF ServerArrive, RequestMem
  <1>9. CASE MemReady \/ QdssEvents
    <2>1. CASE FwMemReady \/ Files \/ LoadM3 \/ QdssDnld \/ AllocQdssMem \/ FreeQdssMem
      BY <1>3, <2>1 DEF FwMemReady, Files, LoadM3, QdssDnld, OptionalFiles, AllocQdssMem, FreeQdssMem,
         fwVars
    <2>2. CASE TgtCap \/ BdfDnld \/ M3Dnld \/ TraceMemInfo
      BY <1>2, <1>7, <2>2 DEF TgtCap, BdfDnld, M3Dnld, TraceMemInfo
    <2> QED
      BY <1>9, <2>1, <2>2 DEF MemReady, QdssEvents
  <1>10. PowerOff => FwDoes
    BY DEF PowerOff, NoFw, FwDoes
  <1>11. CASE Ready
    <2>1. CASE FwReady \/ GenSpeed
      BY <1>3, <2>1 DEF FwReady, GenSpeed, fwVars
    <2>2. CASE SetupDmsMac
      BY <1>2, <1>3, <2>2, RequestDoes DEF SetupDmsMac
    <2>3. CASE WlanCfg
      <3>1. PowerOff \/ \E ok \in BOOLEAN : Request("wlan_cfg", ok)
        BY <2>3 DEF WlanCfg, ProbeStep
      <3> QED
        BY <1>2, <1>10, <3>1, RequestDoes
    <2>4. CASE WlanMode
      <3>1. PowerOff \/ \E ok \in BOOLEAN : Request("wlan_mode", ok)
        BY <2>4 DEF WlanMode, ProbeStep
      <3> QED
        BY <1>2, <1>10, <3>1, RequestDoes
    <2> QED
      BY <1>11, <2>1, <2>2, <2>3, <2>4 DEF Ready
  <1>12. CASE Shutdown \/ PowerUp
    BY <1>3, <1>10, <1>12 DEF Shutdown, PowerUp, NoFw, FwDoes, fwVars
  <1>13. CASE Host \/ User
    <2>1. CASE WlanDisableFree \/ Leave \/ Come \/ SetGenSpeed
      BY <1>3, <2>1 DEF WlanDisableFree, Leave, Come, SetGenSpeed, fwVars
    <2>2. CASE WlanDisable \/ TraceStart \/ TraceStop
      BY <1>2, <1>3, <2>2, RequestDoes DEF WlanDisable, TraceStart, TraceStop, Send, fwVars
    <2> QED
      BY <1>13, <2>1, <2>2 DEF Host, User
  <1>14. CASE UNCHANGED vars
    BY <1>3, <1>14 DEF vars, fwVars
  <1> QED
    BY <1>4, <1>5, <1>6, <1>8, <1>9, <1>11, <1>12, <1>13, <1>14 DEF Next, Firmware, Worker

LEMMA UngivenStays ==
    ASSUME TypeOK, Ungiven, [Next]_vars
    PROVE  Ungiven'
  <1>1. FwDoes
    BY FwSteps
  <1>2. CASE FwKeepsMem \/ fw'.mem = <<>>
    BY <1>2 DEF FwKeepsMem, Ungiven
  <1>3. ASSUME NEW req \in DOMAIN WaitsFor, Accepts(req), fw' = Done(req)
        PROVE  Ungiven'
    <2>1. CASE req = "respond_mem"
      <3>1. fw.accepted \in 0..7 /\ Protocol["respond_mem"] = 3 /\ "respond_mem" \in DOMAIN Protocol
        BY DEF TypeOK, FwType, Protocol
      <3>2. fw'.accepted = IF 3 > fw.accepted THEN 3 ELSE fw.accepted
        BY <1>3, <2>1, <3>1 DEF Done, TypeOK, FwType
      <3> QED
        BY <3>1, <3>2 DEF Ungiven
    <2>2. CASE req # "respond_mem"
      <3>1. fw'.mem = fw.mem /\ fw \in FwType /\ fw.accepted \in 0..7
        BY <1>3, <2>2, DoneMemory DEF TypeOK, FwType
      <3>2. fw'.accepted = CASE req = "mode_off" /\ fw.accepted = 7 -> 5
                            [] req \in DOMAIN Protocol /\ Protocol[req] > fw.accepted -> Protocol[req]
                            [] OTHER -> fw.accepted
        BY <1>3, <3>1 DEF Done, FwType
      <3>3. "mode_off" \notin DOMAIN Protocol /\ \A r \in DOMAIN Protocol : Protocol[r] \in 1..7
        BY DEF Protocol
      <3>4. fw'.accepted < 3 => fw.accepted < 3
        <4>1. CASE req = "mode_off"
          BY <3>1, <3>2, <3>3, <4>1
        <4>2. CASE req # "mode_off" /\ req \in DOMAIN Protocol
          BY <3>1, <3>2, <3>3, <4>2
        <4>3. CASE req # "mode_off" /\ req \notin DOMAIN Protocol
          BY <3>1, <3>2, <4>3
        <4> QED
          BY <4>1, <4>2, <4>3
      <3> QED
        BY <3>1, <3>4 DEF Ungiven
    <2> QED
      BY <2>1, <2>2
  <1> QED
    BY <1>1, <1>2, <1>3 DEF FwDoes

LEMMA InitKept == Init => Kept
  <1> SUFFICES ASSUME Init PROVE Kept
    OBVIOUS
  <1>1. fw_mem.segs = <<>> /\ qdss_mem.va = {} /\ fw.mem = <<>>
    BY DEF Init, NoFw
  <1> QED
    BY <1>1, WantedFacts DEF Kept, Enough, AllOrNone, Ungiven

LEMMA StepKept == TypeOK /\ Kept /\ [Next]_vars => Kept'
  BY EnoughStays, AllOrNoneStays, UngivenStays DEF Kept

\* The memory that was asked for: what is on the wire, in fw_mem and given, how
\* much of it there is, and the trace memory that is requested, given and freed in
\* turn.
THEOREM BackedInvariant == Spec => [](IInv /\ Served /\ Backed /\ Kept)
  <1>1. Init => IInv /\ Served /\ Backed /\ Kept
    BY InitHolds, InitServed, InitBacked, InitKept
  <1>2. IInv /\ Served /\ Backed /\ Kept /\ [Next]_vars => (IInv /\ Served /\ Backed /\ Kept)'
    <2>1. (IInv => TypeOK) /\ (IInv' => TypeOK')
      BY DEF IInv
    <2> QED
      BY <2>1, StepHolds, StepServed, StepBacked, StepKept
  <1> QED
    BY <1>1, <1>2, PTL DEF Spec

\* A firmware that is up was given the memory it asked for in this boot, every
\* segment of it is there and as large as it was told, unless it is one of an
\* earlier boot that asked for less, and M3 is there once it was told of it; the
\* trace memory it has, if nothing failed, is there as long as WLAN is enabled,
\* and none is left that is not wanted.
THEOREM MemoryAlwaysBacked == Spec => []MemoryIsBacked
  <1>1. IInv /\ Served /\ Backed /\ Kept => MemoryIsBacked
    <2> SUFFICES ASSUME IInv, Served, Backed, Kept PROVE MemoryIsBacked
      OBVIOUS
    <2>1. MemoryIsThere
      BY DEF IInv
    <2>2. fw.state = "up" /\ fw.accepted >= 3 =>
             fw.mem = fw.asked /\ Unheard("REQUEST_MEM") /\ "REQUEST_MEM" \in fw.sent
      <3>1. fw.accepted \in 0..7
        BY DEF IInv, TypeOK, FwType
      <3> QED
        BY <3>1 DEF Backed, MemoryAsked
    <2>3. fw.state = "up" /\ host = "up" /\ faults = 0 => fw.traceMem \subseteq qdss_mem.va
      <3> SUFFICES ASSUME fw.state = "up", host = "up", faults = 0
                   PROVE  fw.traceMem \subseteq qdss_mem.va
        OBVIOUS
      <3>1. Tracing
        BY DEF Served, Hosted, Tracing
      <3>2. fw.traceMem # {} => Given
        BY <3>1 DEF Backed, Traced, InTurn
      <3> QED
        BY <3>2 DEF Given
    <2>4. ASSUME fw.state = "up", NEW i \in DOMAIN fw.mem
          PROVE  fw.mem[i] <= fw_mem.va[i] \/ i \in fw_mem.grown
      <3>1. fw.accepted \in 0..7 /\ i \in DOMAIN fw.mem
        BY <2>4 DEF IInv, TypeOK, FwType
      <3>2. fw.accepted >= 3
        <4>1. fw.accepted < 3 => DOMAIN fw.mem = {}
          BY WantedFacts DEF Kept, Ungiven
        <4> QED
          BY <3>1, <4>1
      <3>3. fw_mem.segs = fw.mem
        BY <2>2, <2>4, <3>2 DEF Backed, MemoryAsked
      <3>4. fw_mem.va[i] # 0
        BY <2>1, <2>4 DEF MemoryIsThere
      <3> QED
        BY <3>1, <3>3, <3>4 DEF Kept, Enough
    <2>5. qdss_mem.va \subseteq 1..qdss_mem.len
      BY DEF Kept, AllOrNone
    <2> QED
      BY <2>1, <2>2, <2>3, <2>4, <2>5 DEF MemoryIsBacked
  <1> QED
    BY <1>1, BackedInvariant, PTL
==============================================================================
