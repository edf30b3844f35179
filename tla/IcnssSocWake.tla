----------------------------- MODULE IcnssSocWake -----------------------------
(***************************************************************************)
(* The wake requests of icnss2: threads of the host driver that need the   *)
(* device awake take and give back a share of soc_wake_ref_count, and a    *)
(* worker of its own tells the firmware when the first share is taken and  *)
(* the last is given back (icnss2/main.c).                                 *)
(*                                                                         *)
(* Three kinds of thread change the count without a lock: the host         *)
(* driver's, the worker, and the event worker, which resets it when a      *)
(* firmware is ready, and only then stops the host driver of the firmware  *)
(* before and starts it again.  Each operation on the atomic is one step.  *)
(*                                                                         *)
(* The firmware is external: it obeys the message it finds in the shared   *)
(* memory and acknowledges it by an interrupt.  It may crash, and the      *)
(* driver learns of that later.  So is the host driver: its threads ask    *)
(* while it is in service, and it has none left when it is stopped.  The   *)
(* queue is CnssEventQueue's without a synchronous post.                   *)
(***************************************************************************)
EXTENDS Naturals, Sequences, FiniteSets

CONSTANTS
    Users,        \* threads of the host driver
    MaxRequests,  \* how many requests are made (bound)
    MaxFaults,    \* how many posts, messages and answers are lost (bound)
    MaxCrashes    \* how often the firmware crashes (bound)

ASSUME SocWakeAssumption ==
    /\ IsFiniteSet(Users)
    /\ {MaxRequests, MaxFaults, MaxCrashes} \subseteq Nat

VARIABLES
    count,     \* soc_wake_ref_count
    events,    \* soc_wake_msg_list
    worker,    \* the step of soc_wake_msg_work
    acked,     \* the completion smp2p_soc_wake_wait
    user,      \* the step of each thread of the host driver
    fw,        \* the firmware; FW_DOWN is set while it is "down"
    message,   \* what the firmware finds in the shared memory
    ack,       \* its acknowledging interrupt is under way
    awake,     \* the device is awake
    host,      \* the host driver and the callback that it is in
    carried,   \* what was left of an earlier firmware when the count was reset
    disorder,  \* a release was posted in the middle of another thread's request,
               \* or a thread gave up on a firmware in service
    requests, faults, crashes

device == <<fw, message, ack, awake>>
record == <<carried, disorder>>
vars == <<count, events, worker, acked, user, device, host, record, requests, faults, crashes>>

Fault == faults < MaxFaults /\ faults' = faults + 1
Goes(u, step) == user' = [user EXCEPT ![u] = step]

-----------------------------------------------------------------------------
(***************************************************************************)
(* The host driver                                                         *)
(***************************************************************************)

\* icnss_soc_wake_event_post.  Its callers ignore that there is no memory.
Post(u, type, next) ==
    /\ Goes(u, next)
    /\ \/ events' = Append(events, type) /\ UNCHANGED faults
       \/ Fault /\ UNCHANGED events
    /\ UNCHANGED <<count, worker, acked, device, host, carried, requests, crashes>>

\* icnss_force_wake_request: another share, or the first, for which the worker
\* is to ask, whatever the state of the firmware.
InService == host \in {"starting", "up", "stopping"}
ForceWakeRequest(u) ==
    /\ user[u] = "out" /\ InService /\ requests < MaxRequests
    /\ requests' = requests + 1
    /\ \/ count # 0 /\ count' = count + 1 /\ Goes(u, "asked")
       \/ count = 0 /\ Goes(u, "post_request") /\ UNCHANGED count
    /\ UNCHANGED <<events, worker, acked, device, host, record, faults, crashes>>
PostRequest(u) ==
    user[u] = "post_request" /\ Post(u, "REQUEST", "asked") /\ UNCHANGED disorder

\* icnss_is_device_awake, which the host driver asks until it is.
IsDeviceAwake(u) ==
    /\ user[u] = "asked" /\ count # 0 /\ Goes(u, "uses")
    /\ UNCHANGED <<count, events, worker, acked, device, host, record, requests, faults, crashes>>

\* icnss_force_wake_release, by a thread that has used the device or gives up
\* on it.  The count is read and then decremented if it is greater than one;
\* a count that has become 0 in between is taken for a successful decrement.
ForceWakeRelease(u) ==
    /\ user[u] \in {"asked", "uses"}
    /\ Goes(u, IF count = 0 THEN "post_release" ELSE "decrement")
    /\ disorder' = (disorder \/ (user[u] = "asked" /\ fw = "ready"))
    /\ UNCHANGED <<count, events, worker, acked, device, host, carried, requests, faults, crashes>>

\* Mutant: the last share is given back twice, here and by the worker.
DecIfGreaterOne_Too(u) ==
    /\ user[u] = "decrement"
    /\ count' = count - 1 /\ Goes(u, IF count > 1 THEN "out" ELSE "post_release")
    /\ UNCHANGED <<events, worker, acked, device, host, record, requests, faults, crashes>>
\* icnss_atomic_dec_if_greater_one
DecIfGreaterOne(u) ==
    /\ user[u] = "decrement"
    /\ \/ count > 1 /\ count' = count - 1 /\ Goes(u, "out")
       \/ count = 1 /\ Goes(u, "post_release") /\ UNCHANGED count
       \/ count = 0 /\ Goes(u, "out") /\ UNCHANGED count
    /\ UNCHANGED <<events, worker, acked, device, host, record, requests, faults, crashes>>
PostRelease(u) ==
    /\ user[u] = "post_release" /\ Post(u, "RELEASE", "out")
    /\ disorder' = (disorder \/ \E v \in Users : user[v] = "post_request")

User(u) ==
    \/ ForceWakeRequest(u) \/ PostRequest(u) \/ IsDeviceAwake(u)
    \/ ForceWakeRelease(u) \/ DecIfGreaterOne(u) \/ PostRelease(u)

-----------------------------------------------------------------------------
(***************************************************************************)
(* icnss_soc_wake_msg_work                                                 *)
(***************************************************************************)
Takes(type) ==
    /\ worker = "idle" /\ events # <<>> /\ Head(events) = type
    /\ events' = Tail(events)
    /\ UNCHANGED <<acked, user, device, host, record, requests, faults, crashes>>

\* Mutant: a request that comes when the device is awake takes no share.
SocWakeRequest_NoShare ==
    /\ Takes("REQUEST")
    /\ IF count # 0 THEN UNCHANGED worker ELSE worker' = "send_req"
    /\ UNCHANGED count
\* icnss_event_soc_wake_request: atomic_inc_not_zero, or a message.
SocWakeRequest ==
    /\ Takes("REQUEST")
    /\ \/ count # 0 /\ count' = count + 1 /\ UNCHANGED worker
       \/ count = 0 /\ worker' = "send_req" /\ UNCHANGED count

\* Mutant: the firmware is not told of the last release.
SocWakeRelease_Silent ==
    /\ Takes("RELEASE")
    /\ count' = (IF count = 0 THEN 0 ELSE count - 1) /\ UNCHANGED worker
\* icnss_event_soc_wake_release: atomic_dec_if_positive, whose result is not 0
\* unless the last share was given back.
SocWakeRelease ==
    /\ Takes("RELEASE")
    /\ \/ count = 0 /\ UNCHANGED <<count, worker>>
       \/ count > 1 /\ count' = count - 1 /\ UNCHANGED worker
       \/ count = 1 /\ count' = 0 /\ worker' = "send_rel"

\* icnss_send_smp2p: nothing is sent while the firmware is known to be down.
Sending == worker \in {"send_req", "send_rel"}
SendRefused ==
    /\ Sending /\ worker' = "idle"
    /\ IF fw = "down" THEN UNCHANGED faults ELSE Fault
    /\ UNCHANGED <<count, events, acked, user, device, host, record, requests, crashes>>
SendSmp2p ==
    /\ Sending /\ fw # "down"
    /\ acked' = FALSE
    /\ worker' = IF worker = "send_req" THEN "wait_req" ELSE "wait_rel"
    /\ message' = IF fw = "dead" THEN message ELSE worker
    /\ UNCHANGED <<count, events, user, fw, ack, awake, host, record, requests, faults, crashes>>

\* ... and waits for the acknowledgement.  A message that is not answered in
\* time counts as one that was: ret is 0.
Waiting == worker \in {"wait_req", "wait_rel"}
\* Mutant: the first share is not counted.
Sent_Uncounted ==
    /\ worker' = "idle"
    /\ UNCHANGED <<count, events, user, device, host, record, requests, crashes>>
Sent ==
    /\ worker' = "idle"
    /\ count' = IF worker = "wait_req" THEN count + 1 ELSE count
    /\ UNCHANGED <<events, user, device, host, record, requests, crashes>>
Acknowledged == Waiting /\ acked /\ acked' = FALSE /\ Sent /\ UNCHANGED faults

\* A firmware that lives answers in time but for a fault.
Answers == message # "none" \/ ack
TimedOut ==
    /\ Waiting /\ ~acked /\ UNCHANGED acked
    /\ Sent
    /\ IF Answers THEN Fault ELSE UNCHANGED faults

Worker ==
    \/ SocWakeRequest \/ SocWakeRelease \/ SendRefused \/ SendSmp2p
    \/ Acknowledged \/ TimedOut

\* fw_soc_wake_ack_handler
SocWakeAck ==
    /\ ack /\ ack' = FALSE /\ acked' = TRUE
    /\ UNCHANGED <<count, events, worker, user, fw, message, awake, host, record, requests, faults, crashes>>

-----------------------------------------------------------------------------
(***************************************************************************)
(* The firmware                                                            *)
(***************************************************************************)
Obey ==
    /\ message # "none" /\ fw \in {"booting", "ready"}
    /\ message' = "none" /\ ack' = TRUE
    /\ awake' = (message = "send_req")
    /\ UNCHANGED <<count, events, worker, acked, user, fw, host, record, requests, faults, crashes>>

Crash ==
    /\ fw \in {"booting", "ready"} /\ crashes < MaxCrashes /\ crashes' = crashes + 1
    /\ fw' = "dead" /\ awake' = FALSE /\ message' = "none"
    /\ UNCHANGED <<count, events, worker, acked, user, ack, host, record, requests, faults>>
FwDown ==
    /\ fw = "dead" /\ fw' = "down"
    /\ UNCHANGED <<count, events, worker, acked, user, message, ack, awake, host, record, requests, faults, crashes>>

\* The event worker is not in a callback of the host driver.
EventWorkerIdle == host \in {"absent", "up", "stopped"}

\* icnss_driver_event_server_arrive: FW_DOWN is cleared.
ServerArrive ==
    /\ fw = "down" /\ EventWorkerIdle /\ fw' = "booting"
    /\ UNCHANGED <<count, events, worker, acked, user, message, ack, awake, host, record, requests, faults, crashes>>

\* A message to the firmware before is under way, a thread holds or asks for a
\* share of its time, or the device is awake already.
Left ==
    {left \in {"message", "share"}:
        CASE left = "message" -> worker # "idle" \/ message # "none" \/ ack
          [] left = "share"   -> \/ events # <<>> \/ awake
                                 \/ \E u \in Users : user[u] # "out"}

\* Mutant: the count of the dead firmware stays.
FwReadyInd_CountStays ==
    /\ fw = "booting" /\ fw' = "ready"
    /\ EventWorkerIdle
    /\ host' = CASE host = "absent" -> "starting" [] host = "up" -> "stopping" [] OTHER -> "coming"
    /\ carried' = Left /\ disorder' = FALSE
    /\ UNCHANGED <<count, events, worker, acked, user, message, ack, awake, requests, faults, crashes>>
\* icnss_driver_event_fw_ready_ind resets the count, and then has the host driver
\* probed, or stopped and started again (icnss_pd_restart_complete).
FwReadyInd ==
    /\ fw = "booting" /\ fw' = "ready"
    /\ EventWorkerIdle
    /\ host' = CASE host = "absent" -> "starting" [] host = "up" -> "stopping" [] OTHER -> "coming"
    /\ count' = 0 /\ carried' = Left /\ disorder' = FALSE
    /\ UNCHANGED <<events, worker, acked, user, message, ack, awake, requests, faults, crashes>>

\* icnss_call_driver_shutdown: the host driver waits for its threads.
DriverShutdown ==
    /\ host = "stopping" /\ host' = "coming"
    /\ \A u \in Users : user[u] = "out"
    /\ UNCHANGED <<count, events, worker, acked, user, device, record, requests, faults, crashes>>
\* The reinit is left to the next firmware when FW_DOWN is set.
DriverReinit ==
    /\ host = "coming" /\ host' = IF fw = "down" THEN "stopped" ELSE "starting"
    /\ UNCHANGED <<count, events, worker, acked, user, device, record, requests, faults, crashes>>
\* The probe or the reinit returns.
DriverStarted ==
    /\ host = "starting" /\ host' = "up"
    /\ UNCHANGED <<count, events, worker, acked, user, device, record, requests, faults, crashes>>

EventWorker == ServerArrive \/ FwReadyInd \/ DriverShutdown \/ DriverReinit \/ DriverStarted

-----------------------------------------------------------------------------
Init ==
    /\ count = 0 /\ events = <<>> /\ worker = "idle" /\ acked = FALSE
    /\ user = [u \in Users |-> "out"]
    /\ fw = "booting" /\ message = "none" /\ ack = FALSE /\ awake = FALSE
    /\ host = "absent" /\ carried = {} /\ disorder = FALSE /\ requests = 0 /\ faults = 0 /\ crashes = 0

Next ==
    \/ \E u \in Users : User(u)
    \/ Worker \/ SocWakeAck
    \/ Obey \/ Crash \/ FwDown \/ EventWorker

\* The worker, the interrupt and the firmware go on, and so does a thread in
\* the middle of a call or that asks whether the device is awake.
Proceeds(u) == PostRequest(u) \/ IsDeviceAwake(u) \/ DecIfGreaterOne(u) \/ PostRelease(u)
Spec ==
    /\ Init /\ [][Next]_vars
    /\ WF_vars(Worker) /\ WF_vars(SocWakeAck) /\ WF_vars(Obey)
    /\ \A u \in Users : WF_vars(Proceeds(u))

-----------------------------------------------------------------------------
(***************************************************************************)
(* Properties                                                              *)
(***************************************************************************)

WorkerSteps == {"idle", "send_req", "send_rel", "wait_req", "wait_rel"}
UserSteps == {"out", "post_request", "asked", "uses", "decrement", "post_release"}

\* Every variable has its type.
TypeOK ==
    /\ count \in Nat /\ events \in Seq({"REQUEST", "RELEASE"})
    /\ worker \in WorkerSteps /\ acked \in BOOLEAN
    /\ user \in [Users -> UserSteps]
    /\ fw \in {"booting", "ready", "dead", "down"}
    /\ message \in {"none", "send_req", "send_rel"}
    /\ ack \in BOOLEAN /\ awake \in BOOLEAN /\ disorder \in BOOLEAN
    /\ host \in {"absent", "starting", "up", "stopping", "coming", "stopped"}
    /\ carried \subseteq {"message", "share"}
    /\ requests \in Nat /\ faults \in Nat /\ crashes \in Nat

\* What icnss_is_device_awake says is true of a firmware in service, however
\* many came before it: the count of an earlier one does not pass for this
\* one's, even of threads that hold a share across the restart.  (A message to
\* the earlier one that is still waited for then may: it counts as answered.)
CountIsTrue ==
    fw = "ready" /\ count # 0 /\ faults = 0 /\ "message" \notin carried => awake

\* This firmware was taken into service when the host driver was done with the
\* one before it, nothing failed, and since then no release overtook a request and
\* no thread gave up before it was told that the device is awake.
Orderly == fw = "ready" /\ faults = 0 /\ ~disorder /\ carried = {}

\* Every share in the count is that of a thread that has asked and not given
\* back yet: none is lost or counted twice on its way through the queue.
Holders == {u \in Users : user[u] \in {"asked", "uses", "decrement", "post_release"}}
Pending(type) == Cardinality({i \in DOMAIN events : events[i] = type})
SharesBalance ==
    Orderly =>
        count + Pending("REQUEST") + (IF worker \in {"send_req", "wait_req"} THEN 1 ELSE 0)
        = Cardinality(Holders) + Pending("RELEASE")

\* A thread that was told that the device is awake finds it awake until it
\* releases it, whoever else releases it meanwhile.
AwakeForUsers ==
    Orderly => \A u \in Users : user[u] = "uses" => count # 0

\* When nobody needs the device and all is done, it is asleep.
SleepsWhenUnused ==
    Orderly /\ events = <<>> /\ worker = "idle" /\ (\A u \in Users : user[u] = "out")
        => ~awake

\* The device is awake for those who were told so and for nobody else.
AwakeJustForUsers == AwakeForUsers /\ SleepsWhenUnused

\* A thread that asks for the device and does not give up is told that it is
\* awake, unless the firmware fails, something is lost, or something was left of
\* the firmware before.
RequestIsGranted ==
    \A u \in Users :
        (user[u] = "asked" /\ faults = 0 /\ carried = {})
            ~> (user[u] # "asked" \/ fw # "ready" \/ faults > 0 \/ carried # {})
===============================================================================
