--------------------------- MODULE CnssDriverProofs ---------------------------
(***************************************************************************)
(* Proofs about the life of the device under cnss2, for any number of      *)
(* faults and calls, whatever callbacks fail and reboots happen.           *)
(*                                                                         *)
(* Four arguments.  driver_ops_lock is released with the call that took    *)
(* it, because every event has one poster, who waits for it (Callers).     *)
(* DRIVER_UNLOADING and DRIVER_IDLE_SHUTDOWN are set only while the worker *)
(* is in the shutdown that clears them, whatever the recovery work does to *)
(* them meanwhile (Transition).  driver_ops goes with DRIVER_REGISTERED,   *)
(* since the steps that end a handler have its own event in hand           *)
(* (OpsOwned).  While the device has not failed, its power, the bits of    *)
(* driver_state and what the host driver was told follow from the step of  *)
(* the worker and the events under way (Unfailed).                         *)
(***************************************************************************)
EXTENDS CnssDriver, TLAPS

-----------------------------------------------------------------------------
(***************************************************************************)
(* The inductive invariant                                                 *)
(***************************************************************************)

\* A thread that switches MHI off knows where to go on.
MhiOffLabels == {"mhi_off", "mhi_power_off", "device_off"}
ContIsSet == \A t \in Threads : pc[t] \in MhiOffLabels => cont[t] # "idle"

\* An event that is queued or handled has a poster that waits for it, and
\* holds or does not hold driver_ops_lock.
PosterWaits(type) ==
    /\ type = "REGISTER_DRIVER"   => call["module"] = "registering"
    /\ type = "UNREGISTER_DRIVER" => call["module"] = "going_down"
    /\ type = "IDLE_RESTART"      => call["idle"] = "restarting"
    /\ type = "IDLE_SHUTDOWN"     => call["idle"] = "going_down" /\ driver_ops_lock # "idle"
    /\ type = "POWER_DOWN"        => call["idle"] = "going_down" /\ driver_ops_lock = "idle"

Pending == {event.type} \cup {event_list[i].type : i \in DOMAIN event_list}

PostersWait == \A type \in Pending : PosterWaits(type)

\* It is posted once.
Unwaited == {"FW_READY", "RECOVERY"}
PostedOnce ==
    /\ \A i, j \in DOMAIN event_list :
          event_list[i].type = event_list[j].type => i = j \/ event_list[i].type \in Unwaited
    /\ \A i \in DOMAIN event_list :
          event_list[i].type = event.type => event.type \in Unwaited

\* Who holds driver_ops_lock is in the middle of the call that took it.
Unloading == {"unregister_wait", "check_recovery", "reinit_recovery", "recovery_wait",
              "post_down", "going_down"}
LockIsHeld ==
    /\ (driver_ops_lock = "module") = (call["module"] \in Unloading)
    /\ call["idle"] \in {"restarting", "power_up_wait"} => driver_ops_lock = "idle"
    /\ driver_ops_lock = "idle" =>
          call["idle"] \in {"restarting", "power_up_wait", "going_down"}

IdleHasNoEvent == pc["worker"] = "idle" => event = NoEvent

Callers == IdleHasNoEvent /\ PostersWait /\ PostedOnce /\ LockIsHeld

\* A transition is in the hands of the worker, which will clear its bit.
Done == {"DRIVER_UNLOADING", "DRIVER_IDLE_SHUTDOWN"}
Transition ==
    HasAny(Done) =>
        /\ pc["worker"] \in {"shutdown", "off", "clear"} \cup MhiOffLabels
        /\ pc["worker"] \in MhiOffLabels => cont["worker"] = "clear"

IInv == TypeOK /\ ContIsSet /\ Callers /\ Transition

-----------------------------------------------------------------------------
(***************************************************************************)
(* Type correctness                                                        *)
(***************************************************************************)

ContLabels == {"idle", "clear", "power_on", "powerup"}

\* The types, in two halves: who stands where, and the state of the device.
Positions ==
    /\ event_list \in Seq(EventSet) /\ event \in EventSet \cup {NoEvent}
    /\ pc \in [Threads -> Labels] /\ cont \in [Threads -> ContLabels]
    /\ call \in [Contexts -> CallLabels] /\ driver_ops_lock \in Contexts \cup {"none"}
    /\ calls \in Nat /\ faults \in 0..MaxFaults
DeviceTyped ==
    /\ driver_state \subseteq Bits /\ driver_ops \in BOOLEAN /\ recovery_work \in BOOLEAN
    /\ powered_on \in BOOLEAN /\ link_up \in BOOLEAN /\ link_down_ind \in BOOLEAN
    /\ mhi_state \subseteq {"INIT", "POWER_ON", "RDDM_DONE"} /\ dump_valid \in BOOLEAN
    /\ fw \in {"off", "booting", "up", "failed", "rddm"} /\ timers \subseteq {"fw_boot", "rddm"}
    /\ completions \subseteq {"power_up", "power_up_once", "recovery"}
    /\ power_up_error \in BOOLEAN
    /\ host \in {"absent", "up", "halted", "asleep"}

LEMMA TypesSplit == TypeOK <=> Positions /\ DeviceTyped
  BY DEF TypeOK, Positions, DeviceTyped, ContLabels

LEMMA TypesSplitNext == Positions' /\ DeviceTyped' => TypeOK'
  BY DEF TypeOK, Positions, DeviceTyped, ContLabels

\* A thread goes to a step that is not one of switching MHI off, ...
LEMMA GotoKeeps ==
    ASSUME TypeOK, ContIsSet, NEW t \in Threads, NEW label \in Labels \ MhiOffLabels,
           Goto(t, label), UNCHANGED cont
    PROVE  /\ pc' \in [Threads -> Labels] /\ pc'[t] = label
           /\ \A s \in Threads : s # t => pc'[s] = pc[s]
           /\ cont' \in [Threads -> ContLabels] /\ ContIsSet'
  BY DEF TypeOK, Goto, ContIsSet, ContLabels

\* ... begins to switch MHI off, ...
LEMMA BeginMhiOff ==
    ASSUME TypeOK, ContIsSet, NEW t \in Threads, NEW label \in MhiOffLabels,
           NEW next \in ContLabels \ {"idle"},
           Goto(t, label), cont' = [cont EXCEPT ![t] = next]
    PROVE  /\ pc' \in [Threads -> Labels] /\ pc'[t] = label /\ cont'[t] = next
           /\ \A s \in Threads : s # t => pc'[s] = pc[s] /\ cont'[s] = cont[s]
           /\ cont' \in [Threads -> ContLabels] /\ ContIsSet'
  BY DEF TypeOK, Goto, ContIsSet, ContLabels, MhiOffLabels, Labels

\* ... or continues to.
LEMMA GoOnMhiOff ==
    ASSUME TypeOK, ContIsSet, NEW t \in Threads, NEW label \in MhiOffLabels,
           pc[t] \in MhiOffLabels, Goto(t, label), UNCHANGED cont
    PROVE  /\ pc' \in [Threads -> Labels] /\ pc'[t] = label
           /\ \A s \in Threads : s # t => pc'[s] = pc[s]
           /\ cont' \in [Threads -> ContLabels] /\ ContIsSet'
  BY DEF TypeOK, Goto, ContIsSet, ContLabels, MhiOffLabels, Labels

LEMMA EndMhiOff ==
    ASSUME TypeOK, ContIsSet, NEW t \in Threads, pc[t] = "device_off",
           Goto(t, cont[t]), cont' = [cont EXCEPT ![t] = "idle"]
    PROVE  /\ pc' \in [Threads -> Labels]
           /\ pc'[t] = cont[t] /\ cont[t] \in ContLabels \ {"idle"}
           /\ \A s \in Threads : s # t => pc'[s] = pc[s] /\ cont'[s] = cont[s]
           /\ cont' \in [Threads -> ContLabels] /\ ContIsSet'
  <1>1. cont[t] \in ContLabels \ {"idle"}
    BY DEF TypeOK, ContIsSet, ContLabels, MhiOffLabels
  <1>2. cont[t] \in Labels \ MhiOffLabels
    BY <1>1 DEF ContLabels, Labels, MhiOffLabels
  <1> QED
    BY <1>1, <1>2 DEF TypeOK, Goto, ContIsSet, ContLabels

LEMMA ReplyKeeps ==
    ASSUME TypeOK, NEW c \in Contexts, NEW label \in CallLabels,
           call' = [call EXCEPT ![c] = label]
    PROVE  /\ call' \in [Contexts -> CallLabels] /\ call'[c] = label
           /\ \A d \in Contexts : d # c => call'[d] = call[d]
  BY DEF TypeOK

LEMMA AppendKeeps ==
    ASSUME TypeOK, NEW e \in EventSet
    PROVE  /\ Append(event_list, e) \in Seq(EventSet)
           /\ DOMAIN Append(event_list, e) = 1..Len(event_list) + 1
           /\ DOMAIN event_list = 1..Len(event_list) /\ Len(event_list) \in Nat
           /\ \A i \in DOMAIN event_list : Append(event_list, e)[i] = event_list[i]
           /\ Append(event_list, e)[Len(event_list) + 1] = e
  BY DEF TypeOK

LEMMA TailKeeps ==
    ASSUME TypeOK, event_list # <<>>
    PROVE  /\ Head(event_list) \in EventSet /\ Tail(event_list) \in Seq(EventSet)
           /\ Head(event_list) = event_list[1] /\ 1 \in DOMAIN event_list
           /\ \A i \in DOMAIN Tail(event_list) :
                 /\ i \in Nat \ {0} /\ i + 1 \in DOMAIN event_list
                 /\ Tail(event_list)[i] = event_list[i + 1]
  BY DEF TypeOK

LEMMA PostedEvents ==
    /\ \A type \in EventTypes \ {"RECOVERY"} : Event(type) \in EventSet
    /\ \A reason \in Reasons : Recovery(reason) \in EventSet
  BY DEF Event, Recovery, EventSet, EventTypes

\* What a recovery that is scheduled does to the event list.
Added == event_list' = event_list
         \/ \E e \in EventSet : e.type \in Unwaited /\ event_list' = Append(event_list, e)

LEMMA RecoveryAdds ==
    ASSUME TypeOK, NEW reason \in Reasons, event_list' = WithRecovery(reason)
    PROVE  Added
  BY PostedEvents DEF WithRecovery, Added, Recovery, Unwaited

LEMMA AddedKeeps == TypeOK /\ Added => event_list' \in Seq(EventSet)
  BY AppendKeeps DEF Added, TypeOK

LEMMA FaultKeeps ==
    ASSUME TypeOK
    PROVE  /\ CanFail /\ faults' = faults + 1 => faults' \in 0..MaxFaults
           /\ Fault => faults' \in 0..MaxFaults
  BY DriverAssumption DEF TypeOK, CanFail, Fault

\* The power sequences.
LEMMA PowerTypes ==
    ASSUME TypeOK, ContIsSet, NEW t \in Threads, Power(t)
    PROVE  /\ TypeOK' /\ ContIsSet' /\ Added
           /\ UNCHANGED <<event, call, driver_ops_lock>>
           /\ pc'[t] # "idle"
           /\ \A s \in Threads : s # t => pc'[s] = pc[s] /\ cont'[s] = cont[s]
           /\ driver_state' \subseteq driver_state
  <1>1. CASE CallDriverRemove(t)
    <2>1. /\ pc' \in [Threads -> Labels] /\ cont' \in [Threads -> ContLabels] /\ ContIsSet'
          /\ pc'[t] # "idle" /\ \A s \in Threads : s # t => pc'[s] = pc[s] /\ cont'[s] = cont[s]
      BY <1>1, GotoKeeps DEF CallDriverRemove, Labels, MhiOffLabels, ContLabels
    <2>2. /\ driver_state' \subseteq driver_state /\ Added
          /\ UNCHANGED <<event, call, driver_ops_lock>>
      BY <1>1 DEF CallDriverRemove, Added, ClearBits, busVars, deviceVars, callVars,
         threadVars
    <2>3. event_list' \in Seq(EventSet)
      BY <2>2, AddedKeeps
    <2>4. Positions'
      BY <1>1, <2>1, <2>2, <2>3, TypesSplit DEF CallDriverRemove, Positions, callVars,
         deviceVars
    <2>5. DeviceTyped'
      BY <1>1, <2>2, TypesSplit DEF CallDriverRemove, DeviceTyped, busVars, deviceVars
    <2> QED
      BY <2>1, <2>2, <2>4, <2>5, TypesSplitNext
  <1>2. CASE ShutdownOff(t)
    <2>1. /\ pc' \in [Threads -> Labels] /\ cont' \in [Threads -> ContLabels] /\ ContIsSet'
          /\ pc'[t] # "idle" /\ \A s \in Threads : s # t => pc'[s] = pc[s] /\ cont'[s] = cont[s]
      BY <1>2, GotoKeeps, BeginMhiOff DEF ShutdownOff, Labels, MhiOffLabels, ContLabels
    <2>2. /\ driver_state' \subseteq driver_state /\ Added
          /\ UNCHANGED <<event, call, driver_ops_lock>>
      BY <1>2 DEF ShutdownOff, Added, ClearBits, busVars, deviceVars, callVars,
         threadVars
    <2>3. event_list' \in Seq(EventSet)
      BY <2>2, AddedKeeps
    <2>4. Positions'
      BY <1>2, <2>1, <2>2, <2>3, TypesSplit DEF ShutdownOff, Positions, callVars,
         deviceVars
    <2>5. DeviceTyped'
      BY <1>2, TypesSplit, SMTT(20), ZenonT(20) DEF ShutdownOff, DeviceTyped, busVars,
         deviceVars, ClearBits
    <2> QED
      BY <2>1, <2>2, <2>4, <2>5, TypesSplitNext
  <1>3. CASE MhiPowerOffTest(t)
    <2>1. /\ pc' \in [Threads -> Labels] /\ cont' \in [Threads -> ContLabels] /\ ContIsSet'
          /\ pc'[t] # "idle" /\ \A s \in Threads : s # t => pc'[s] = pc[s] /\ cont'[s] = cont[s]
      BY <1>3, GoOnMhiOff DEF MhiPowerOffTest, Labels, MhiOffLabels, ContLabels
    <2>2. /\ driver_state' \subseteq driver_state /\ Added
          /\ UNCHANGED <<event, call, driver_ops_lock>>
      BY <1>3 DEF MhiPowerOffTest, Added, ClearBits, busVars, deviceVars, callVars,
         threadVars
    <2>3. event_list' \in Seq(EventSet)
      BY <2>2, AddedKeeps
    <2>4. Positions'
      BY <1>3, <2>1, <2>2, <2>3, TypesSplit DEF MhiPowerOffTest, Positions, callVars,
         deviceVars
    <2>5. DeviceTyped'
      BY <1>3, TypesSplit, SMTT(20), ZenonT(20) DEF MhiPowerOffTest, DeviceTyped,
         busVars, deviceVars, ClearBits
    <2> QED
      BY <2>1, <2>2, <2>4, <2>5, TypesSplitNext
  <1>4. CASE MhiPowerOff(t)
    <2>1. /\ pc' \in [Threads -> Labels] /\ cont' \in [Threads -> ContLabels] /\ ContIsSet'
          /\ pc'[t] # "idle" /\ \A s \in Threads : s # t => pc'[s] = pc[s] /\ cont'[s] = cont[s]
      BY <1>4, GoOnMhiOff DEF MhiPowerOff, Labels, MhiOffLabels, ContLabels
    <2>2. /\ driver_state' \subseteq driver_state /\ Added
          /\ UNCHANGED <<event, call, driver_ops_lock>>
      BY <1>4 DEF MhiPowerOff, Added, ClearBits, busVars, deviceVars, callVars,
         threadVars
    <2>3. event_list' \in Seq(EventSet)
      BY <2>2, AddedKeeps
    <2>4. Positions'
      BY <1>4, <2>1, <2>2, <2>3, TypesSplit DEF MhiPowerOff, Positions, callVars,
         deviceVars
    <2>5. DeviceTyped'
      BY <1>4, TypesSplit, SMTT(20), ZenonT(20) DEF MhiPowerOff, DeviceTyped, busVars,
         deviceVars, ClearBits
    <2> QED
      BY <2>1, <2>2, <2>4, <2>5, TypesSplitNext
  <1>5. CASE DeviceOff(t)
    <2>1. /\ pc' \in [Threads -> Labels] /\ cont' \in [Threads -> ContLabels] /\ ContIsSet'
          /\ pc'[t] # "idle" /\ \A s \in Threads : s # t => pc'[s] = pc[s] /\ cont'[s] = cont[s]
      BY <1>5, EndMhiOff DEF DeviceOff, Labels, MhiOffLabels, ContLabels
    <2>2. /\ driver_state' \subseteq driver_state /\ Added
          /\ UNCHANGED <<event, call, driver_ops_lock>>
      BY <1>5 DEF DeviceOff, Added, ClearBits, busVars, deviceVars, callVars, threadVars
    <2>3. event_list' \in Seq(EventSet)
      BY <2>2, AddedKeeps
    <2>4. Positions'
      BY <1>5, <2>1, <2>2, <2>3, TypesSplit DEF DeviceOff, Positions, callVars,
         deviceVars
    <2>5. DeviceTyped'
      BY <1>5, TypesSplit, SMTT(20), ZenonT(20) DEF DeviceOff, DeviceTyped, busVars,
         deviceVars, ClearBits
    <2> QED
      BY <2>1, <2>2, <2>4, <2>5, TypesSplitNext
  <1>6. CASE ShutdownClear(t)
    <2>1. /\ pc' \in [Threads -> Labels] /\ cont' \in [Threads -> ContLabels] /\ ContIsSet'
          /\ pc'[t] # "idle" /\ \A s \in Threads : s # t => pc'[s] = pc[s] /\ cont'[s] = cont[s]
      BY <1>6, GotoKeeps DEF ShutdownClear, Labels, MhiOffLabels, ContLabels
    <2>2. /\ driver_state' \subseteq driver_state /\ Added
          /\ UNCHANGED <<event, call, driver_ops_lock>>
      BY <1>6 DEF ShutdownClear, Added, ClearBits, busVars, deviceVars, callVars,
         threadVars
    <2>3. event_list' \in Seq(EventSet)
      BY <2>2, AddedKeeps
    <2>4. Positions'
      BY <1>6, <2>1, <2>2, <2>3, TypesSplit DEF ShutdownClear, Positions, callVars,
         deviceVars
    <2>5. DeviceTyped'
      BY <1>6, TypesSplit, SMTT(20), ZenonT(20) DEF ShutdownClear, DeviceTyped, busVars,
         deviceVars, ClearBits
    <2> QED
      BY <2>1, <2>2, <2>4, <2>5, TypesSplitNext
  <1>7. CASE PowerupBegin(t)
    <2>1. /\ pc' \in [Threads -> Labels] /\ cont' \in [Threads -> ContLabels] /\ ContIsSet'
          /\ pc'[t] # "idle" /\ \A s \in Threads : s # t => pc'[s] = pc[s] /\ cont'[s] = cont[s]
      BY <1>7, GotoKeeps, BeginMhiOff DEF PowerupBegin, Labels, MhiOffLabels, ContLabels
    <2>2. /\ driver_state' \subseteq driver_state /\ Added
          /\ UNCHANGED <<event, call, driver_ops_lock>>
      BY <1>7 DEF PowerupBegin, Added, ClearBits, busVars, deviceVars, callVars,
         threadVars
    <2>3. event_list' \in Seq(EventSet)
      BY <2>2, AddedKeeps
    <2>4. Positions'
      BY <1>7, <2>1, <2>2, <2>3, TypesSplit DEF PowerupBegin, Positions, callVars,
         deviceVars
    <2>5. DeviceTyped'
      BY <1>7, TypesSplit, SMTT(20), ZenonT(20) DEF PowerupBegin, DeviceTyped, busVars,
         deviceVars, ClearBits
    <2> QED
      BY <2>1, <2>2, <2>4, <2>5, TypesSplitNext
  <1>8. CASE PowerOnDevice(t)
    <2>1. /\ pc' \in [Threads -> Labels] /\ cont' \in [Threads -> ContLabels] /\ ContIsSet'
          /\ pc'[t] # "idle" /\ \A s \in Threads : s # t => pc'[s] = pc[s] /\ cont'[s] = cont[s]
      <3>1. UNCHANGED cont /\ (Goto(t, "start_mhi") \/ Goto(t, "up_failed"))
        BY <1>8 DEF PowerOnDevice
      <3> QED
        BY <3>1, GotoKeeps DEF Labels, MhiOffLabels
    <2>2. /\ driver_state' \subseteq driver_state /\ Added
          /\ UNCHANGED <<event, call, driver_ops_lock>>
      BY <1>8 DEF PowerOnDevice, Added, ClearBits, busVars, deviceVars, callVars,
         threadVars
    <2>3. event_list' \in Seq(EventSet)
      BY <2>2, AddedKeeps
    <2>4. Positions'
      BY <1>8, <2>1, <2>2, <2>3, TypesSplit, FaultKeeps DEF PowerOnDevice, Positions,
         callVars, deviceVars
    <2>5. DeviceTyped'
      BY <1>8, TypesSplit, SMTT(20), ZenonT(20) DEF PowerOnDevice, DeviceTyped, busVars,
         deviceVars, ClearBits
    <2> QED
      BY <2>1, <2>2, <2>4, <2>5, TypesSplitNext
  <1>9. CASE StartMhi(t)
    <2>1. /\ pc' \in [Threads -> Labels] /\ cont' \in [Threads -> ContLabels] /\ ContIsSet'
          /\ pc'[t] # "idle" /\ \A s \in Threads : s # t => pc'[s] = pc[s] /\ cont'[s] = cont[s]
      BY <1>9, GotoKeeps DEF StartMhi, Labels, MhiOffLabels, ContLabels
    <2>2. /\ driver_state' \subseteq driver_state /\ Added
          /\ UNCHANGED <<event, call, driver_ops_lock>>
      BY <1>9, RecoveryAdds DEF StartMhi, Added, ClearBits, busVars, deviceVars,
         callVars, threadVars, Reasons
    <2>3. event_list' \in Seq(EventSet)
      BY <2>2, AddedKeeps
    <2>4. Positions'
      BY <1>9, <2>1, <2>2, <2>3, TypesSplit, FaultKeeps DEF StartMhi, Positions,
         callVars, deviceVars, MhiStarts, MhiTimesOutInRddm, MhiFails
    <2>5. DeviceTyped'
      BY <1>9, TypesSplit, SMTT(20), ZenonT(20) DEF StartMhi, DeviceTyped, busVars,
         deviceVars, ClearBits, MhiStarts, MhiTimesOutInRddm, MhiFails
    <2> QED
      BY <2>1, <2>2, <2>4, <2>5, TypesSplitNext
  <1> QED
    BY <1>1, <1>2, <1>3, <1>4, <1>5, <1>6, <1>7, <1>8, <1>9 DEF Power

\* The device.
LEMMA DeviceTypes ==
    ASSUME TypeOK, Device
    PROVE  /\ TypeOK' /\ Added
           /\ UNCHANGED <<event, pc, cont, call, driver_ops_lock>>
           /\ driver_state' \subseteq driver_state \cup {"DEV_ERR_NOTIFY", "IN_REBOOT"}
  <1> USE DEF TypeOK, busVars, deviceVars, callVars, threadVars
  <1>1. CASE FwInitDone
    <2>1. Added
      BY <1>1, PostedEvents DEF FwInitDone, Reasons, EventTypes, Event, Unwaited, Added
    <2>2. event_list' \in Seq(EventSet)
      BY <2>1, AddedKeeps
    <2> QED
      BY <1>1, <2>1, <2>2, FaultKeeps DEF FwInitDone, deviceRest, SetBit, Bits
  <1>2. CASE MhiFatalError
    <2>1. Added
      BY <1>2, RecoveryAdds DEF MhiFatalError, Reasons
    <2>2. event_list' \in Seq(EventSet)
      BY <2>1, AddedKeeps
    <2> QED
      BY <1>2, <2>1, <2>2, FaultKeeps DEF MhiFatalError, deviceRest, SetBit, Bits
  <1>3. CASE MhiSysError
    BY <1>3, FaultKeeps DEF MhiSysError, deviceRest, SetBit, Bits, Added
  <1>4. CASE MhiRddm
    <2>1. Added
      BY <1>4, RecoveryAdds DEF MhiRddm, Reasons
    <2>2. event_list' \in Seq(EventSet)
      BY <2>1, AddedKeeps
    <2> QED
      BY <1>4, <2>1, <2>2, FaultKeeps DEF MhiRddm, deviceRest, SetBit, Bits
  <1>5. CASE LinkDown
    <2>1. Added
      BY <1>5, RecoveryAdds DEF LinkDown, Reasons
    <2>2. event_list' \in Seq(EventSet)
      BY <2>1, AddedKeeps
    <2> QED
      BY <1>5, <2>1, <2>2, FaultKeeps DEF LinkDown, deviceRest, SetBit, Bits
  <1>6. CASE FwBootTimeout
    <2>1. Added
      BY <1>6, RecoveryAdds DEF FwBootTimeout, Reasons
    <2>2. event_list' \in Seq(EventSet)
      BY <2>1, AddedKeeps
    <2> QED
      BY <1>6, <2>1, <2>2, FaultKeeps DEF FwBootTimeout, deviceRest, SetBit, Bits
  <1>7. CASE RddmTimeout
    <2>1. Added
      BY <1>7, RecoveryAdds DEF RddmTimeout, Reasons
    <2>2. event_list' \in Seq(EventSet)
      BY <2>1, AddedKeeps
    <2> QED
      BY <1>7, <2>1, <2>2, FaultKeeps DEF RddmTimeout, deviceRest, SetBit, Bits
  <1>8. CASE Reboot
    BY <1>8 DEF Reboot, SetBit, Bits, Added
  <1> QED
    BY <1>1, <1>2, <1>3, <1>4, <1>5, <1>6, <1>7, <1>8 DEF Device

\* The rest of the recovery work.
LEMMA RecoveryTypes ==
    ASSUME TypeOK, ContIsSet, RecoveryWork \/ RecoveryRamdump \/ RecoveryDone
    PROVE  /\ TypeOK' /\ ContIsSet'
           /\ UNCHANGED <<event_list, event, call, driver_ops_lock, driver_state>>
           /\ pc'["worker"] = pc["worker"] /\ cont'["worker"] = cont["worker"]
  <1>1. CASE RecoveryWork
    <2>1. /\ pc' \in [Threads -> Labels] /\ cont' \in [Threads -> ContLabels] /\ ContIsSet'
          /\ pc'["worker"] = pc["worker"] /\ cont'["worker"] = cont["worker"]
      BY <1>1, GotoKeeps DEF RecoveryWork, recoveryRest, Threads, Labels, MhiOffLabels,
         ContLabels
    <2>2. Positions'
      BY <1>1, <2>1, TypesSplit DEF RecoveryWork, recoveryRest, Positions, callVars,
         deviceVars
    <2>3. DeviceTyped'
      BY <1>1, TypesSplit DEF RecoveryWork, recoveryRest, DeviceTyped, deviceVars
    <2> QED
      BY <1>1, <2>1, <2>2, <2>3, TypesSplitNext DEF RecoveryWork, recoveryRest, callVars
  <1>2. CASE RecoveryRamdump
    <2>1. /\ pc' \in [Threads -> Labels] /\ cont' \in [Threads -> ContLabels] /\ ContIsSet'
          /\ pc'["worker"] = pc["worker"] /\ cont'["worker"] = cont["worker"]
      BY <1>2, GotoKeeps, BeginMhiOff DEF RecoveryRamdump, recoveryRest, Threads,
         Labels, MhiOffLabels, ContLabels
    <2>2. Positions'
      BY <1>2, <2>1, TypesSplit DEF RecoveryRamdump, recoveryRest, Positions, callVars,
         deviceVars
    <2>3. DeviceTyped'
      BY <1>2, TypesSplit DEF RecoveryRamdump, recoveryRest, DeviceTyped, deviceVars
    <2> QED
      BY <1>2, <2>1, <2>2, <2>3, TypesSplitNext DEF RecoveryRamdump, recoveryRest,
         callVars
  <1>3. CASE RecoveryDone
    <2>1. /\ pc' \in [Threads -> Labels] /\ cont' \in [Threads -> ContLabels] /\ ContIsSet'
          /\ pc'["worker"] = pc["worker"] /\ cont'["worker"] = cont["worker"]
      BY <1>3, GotoKeeps DEF RecoveryDone, recoveryRest, Threads, Labels, MhiOffLabels,
         ContLabels
    <2>2. Positions'
      BY <1>3, <2>1, TypesSplit DEF RecoveryDone, recoveryRest, Positions, callVars,
         deviceVars
    <2>3. DeviceTyped'
      BY <1>3, TypesSplit DEF RecoveryDone, recoveryRest, DeviceTyped, deviceVars
    <2> QED
      BY <1>3, <2>1, <2>2, <2>3, TypesSplitNext DEF RecoveryDone, recoveryRest, callVars
  <1> QED
    BY <1>1, <1>2, <1>3

\* The handlers of the worker, besides the power sequences.
Handlers ==
    \/ RegisterDriverHdlr \/ RegisterDriverDone \/ UnregisterDriverHdlr
    \/ UnregisterDriverDone \/ IdleRestartHdlr \/ IdleRestartPowered
    \/ IdleShutdownHdlr \/ PowerDownHdlr \/ PowerDownDone
    \/ FwReadyHdlr \/ CallDriverProbe \/ ProbeEnd
    \/ FwReadyFailed \/ FwReadyDown \/ RecoveryRefused
    \/ RecoveryHdlr \/ LinkDownSkipped \/ LinkDownHdlr
    \/ RecoverLinkDown

LEMMA HandlerTypes ==
    ASSUME TypeOK, ContIsSet, Handlers
    PROVE  TypeOK' /\ ContIsSet'
  <1>1. CASE RegisterDriverHdlr
    <2>1. pc' \in [Threads -> Labels] /\ cont' \in [Threads -> ContLabels] /\ ContIsSet'
      <3>1. CASE Has("IN_REBOOT")
        BY <1>1, <3>1 DEF RegisterDriverHdlr, Drop, workerRest, TypeOK, ContIsSet,
           ContLabels
      <3>2. CASE ~Has("IN_REBOOT")
        BY <1>1, <3>2, GotoKeeps DEF RegisterDriverHdlr, Threads, Labels, MhiOffLabels,
           ContLabels, Continue, workerRest
      <3> QED
        BY <3>1, <3>2
    <2>2. event_list' \in Seq(EventSet) /\ event' \in EventSet \cup {NoEvent}
      BY <1>1, TailKeeps DEF RegisterDriverHdlr, Take, Continue, Drop, TypeOK
    <2>3. call' \in [Contexts -> CallLabels] /\ driver_ops_lock' \in Contexts \cup {"none"}
      BY <1>1, ReplyKeeps DEF RegisterDriverHdlr, Reply, Contexts, CallLabels, TypeOK
    <2>4. driver_state' \subseteq Bits
      BY <1>1 DEF RegisterDriverHdlr, SetBit, ClearBits, Bits, TypeOK, ProbeFails,
         RecoveryBits
    <2>5. Positions'
      BY <1>1, <2>1, <2>2, <2>3, TypesSplit DEF RegisterDriverHdlr, Positions, Reply,
         callVars, workerRest, deviceVars
    <2>6. DeviceTyped'
      BY <1>1, <2>4, TypesSplit, SMTT(20), ZenonT(20) DEF RegisterDriverHdlr,
         DeviceTyped, workerRest, busVars, deviceVars, ProbeFails
    <2> QED
      BY <2>1, <2>5, <2>6, TypesSplitNext
  <1>2. CASE RegisterDriverDone
    <2>1. pc' \in [Threads -> Labels] /\ cont' \in [Threads -> ContLabels] /\ ContIsSet'
      BY <1>2, GotoKeeps DEF RegisterDriverDone, Threads, Labels, MhiOffLabels,
         ContLabels, Continue, Finish, ProbeFails, workerRest
    <2>2. event_list' \in Seq(EventSet) /\ event' \in EventSet \cup {NoEvent}
      BY <1>2 DEF RegisterDriverDone, Finish, ProbeFails, TypeOK
    <2>3. call' \in [Contexts -> CallLabels] /\ driver_ops_lock' \in Contexts \cup {"none"}
      BY <1>2, ReplyKeeps DEF RegisterDriverDone, Reply, Contexts, CallLabels, TypeOK
    <2>4. driver_state' \subseteq Bits
      BY <1>2 DEF RegisterDriverDone, SetBit, ClearBits, Bits, TypeOK, ProbeFails,
         RecoveryBits
    <2>5. Positions'
      BY <1>2, <2>1, <2>2, <2>3, TypesSplit DEF RegisterDriverDone, Positions, Reply,
         callVars, workerRest, deviceVars
    <2>6. DeviceTyped'
      BY <1>2, <2>4, TypesSplit, SMTT(20), ZenonT(20) DEF RegisterDriverDone,
         DeviceTyped, workerRest, busVars, deviceVars, ProbeFails
    <2> QED
      BY <2>1, <2>5, <2>6, TypesSplitNext
  <1>3. CASE UnregisterDriverHdlr
    <2>1. pc' \in [Threads -> Labels] /\ cont' \in [Threads -> ContLabels] /\ ContIsSet'
      BY <1>3, GotoKeeps DEF UnregisterDriverHdlr, Threads, Labels, MhiOffLabels,
         ContLabels, Continue, Finish, ProbeFails, workerRest
    <2>2. event_list' \in Seq(EventSet) /\ event' \in EventSet \cup {NoEvent}
      BY <1>3, TailKeeps DEF UnregisterDriverHdlr, Take, Continue, Drop, TypeOK
    <2>3. call' \in [Contexts -> CallLabels] /\ driver_ops_lock' \in Contexts \cup {"none"}
      BY <1>3 DEF UnregisterDriverHdlr, callVars, TypeOK
    <2>4. driver_state' \subseteq Bits
      BY <1>3 DEF UnregisterDriverHdlr, SetBit, ClearBits, Bits, TypeOK, ProbeFails,
         RecoveryBits
    <2>5. Positions'
      BY <1>3, <2>1, <2>2, <2>3, TypesSplit DEF UnregisterDriverHdlr, Positions, Reply,
         callVars, workerRest, deviceVars
    <2>6. DeviceTyped'
      BY <1>3, <2>4, TypesSplit, SMTT(20), ZenonT(20) DEF UnregisterDriverHdlr,
         DeviceTyped, workerRest, busVars, deviceVars, ProbeFails
    <2> QED
      BY <2>1, <2>5, <2>6, TypesSplitNext
  <1>4. CASE UnregisterDriverDone
    <2>1. pc' \in [Threads -> Labels] /\ cont' \in [Threads -> ContLabels] /\ ContIsSet'
      BY <1>4, GotoKeeps DEF UnregisterDriverDone, Threads, Labels, MhiOffLabels,
         ContLabels, Continue, Finish, ProbeFails, workerRest
    <2>2. event_list' \in Seq(EventSet) /\ event' \in EventSet \cup {NoEvent}
      BY <1>4 DEF UnregisterDriverDone, Finish, ProbeFails, TypeOK
    <2>3. call' \in [Contexts -> CallLabels] /\ driver_ops_lock' \in Contexts \cup {"none"}
      BY <1>4, ReplyKeeps DEF UnregisterDriverDone, Reply, Contexts, CallLabels, TypeOK
    <2>4. driver_state' \subseteq Bits
      BY <1>4 DEF UnregisterDriverDone, SetBit, ClearBits, Bits, TypeOK, ProbeFails,
         RecoveryBits
    <2>5. Positions'
      BY <1>4, <2>1, <2>2, <2>3, TypesSplit DEF UnregisterDriverDone, Positions, Reply,
         callVars, workerRest, deviceVars
    <2>6. DeviceTyped'
      BY <1>4, <2>4, TypesSplit, SMTT(20), ZenonT(20) DEF UnregisterDriverDone,
         DeviceTyped, workerRest, busVars, deviceVars, ProbeFails
    <2> QED
      BY <2>1, <2>5, <2>6, TypesSplitNext
  <1>5. CASE IdleRestartHdlr
    <2>1. pc' \in [Threads -> Labels] /\ cont' \in [Threads -> ContLabels] /\ ContIsSet'
      BY <1>5, GotoKeeps DEF IdleRestartHdlr, Threads, Labels, MhiOffLabels, ContLabels,
         Continue, Finish, ProbeFails, workerRest
    <2>2. event_list' \in Seq(EventSet) /\ event' \in EventSet \cup {NoEvent}
      BY <1>5, TailKeeps DEF IdleRestartHdlr, Take, Continue, Drop, TypeOK
    <2>3. call' \in [Contexts -> CallLabels] /\ driver_ops_lock' \in Contexts \cup {"none"}
      BY <1>5 DEF IdleRestartHdlr, callVars, TypeOK
    <2>4. driver_state' \subseteq Bits
      BY <1>5 DEF IdleRestartHdlr, SetBit, ClearBits, Bits, TypeOK, ProbeFails,
         RecoveryBits
    <2>5. Positions'
      BY <1>5, <2>1, <2>2, <2>3, TypesSplit DEF IdleRestartHdlr, Positions, Reply,
         callVars, workerRest, deviceVars
    <2>6. DeviceTyped'
      BY <1>5, <2>4, TypesSplit, SMTT(20), ZenonT(20) DEF IdleRestartHdlr, DeviceTyped,
         workerRest, busVars, deviceVars, ProbeFails
    <2> QED
      BY <2>1, <2>5, <2>6, TypesSplitNext
  <1>6. CASE IdleRestartPowered
    <2>1. pc' \in [Threads -> Labels] /\ cont' \in [Threads -> ContLabels] /\ ContIsSet'
      BY <1>6, GotoKeeps DEF IdleRestartPowered, Threads, Labels, MhiOffLabels,
         ContLabels, Continue, Finish, ProbeFails, workerRest
    <2>2. event_list' \in Seq(EventSet) /\ event' \in EventSet \cup {NoEvent}
      BY <1>6 DEF IdleRestartPowered, Finish, ProbeFails, TypeOK
    <2>3. call' \in [Contexts -> CallLabels] /\ driver_ops_lock' \in Contexts \cup {"none"}
      BY <1>6, ReplyKeeps DEF IdleRestartPowered, Reply, Contexts, CallLabels, TypeOK
    <2>4. driver_state' \subseteq Bits
      BY <1>6 DEF IdleRestartPowered, SetBit, ClearBits, Bits, TypeOK, ProbeFails,
         RecoveryBits
    <2>5. Positions'
      BY <1>6, <2>1, <2>2, <2>3, TypesSplit DEF IdleRestartPowered, Positions, Reply,
         callVars, workerRest, deviceVars
    <2>6. DeviceTyped'
      BY <1>6, <2>4, TypesSplit, SMTT(20), ZenonT(20) DEF IdleRestartPowered,
         DeviceTyped, workerRest, busVars, deviceVars, ProbeFails
    <2> QED
      BY <2>1, <2>5, <2>6, TypesSplitNext
  <1>7. CASE IdleShutdownHdlr
    <2>1. pc' \in [Threads -> Labels] /\ cont' \in [Threads -> ContLabels] /\ ContIsSet'
      BY <1>7, GotoKeeps DEF IdleShutdownHdlr, Threads, Labels, MhiOffLabels,
         ContLabels, Continue, Finish, ProbeFails, workerRest
    <2>2. event_list' \in Seq(EventSet) /\ event' \in EventSet \cup {NoEvent}
      BY <1>7, TailKeeps DEF IdleShutdownHdlr, Take, Continue, Drop, TypeOK
    <2>3. call' \in [Contexts -> CallLabels] /\ driver_ops_lock' \in Contexts \cup {"none"}
      BY <1>7 DEF IdleShutdownHdlr, callVars, TypeOK
    <2>4. driver_state' \subseteq Bits
      BY <1>7 DEF IdleShutdownHdlr, SetBit, ClearBits, Bits, TypeOK, ProbeFails,
         RecoveryBits
    <2>5. Positions'
      BY <1>7, <2>1, <2>2, <2>3, TypesSplit DEF IdleShutdownHdlr, Positions, Reply,
         callVars, workerRest, deviceVars
    <2>6. DeviceTyped'
      BY <1>7, <2>4, TypesSplit, SMTT(20), ZenonT(20) DEF IdleShutdownHdlr, DeviceTyped,
         workerRest, busVars, deviceVars, ProbeFails
    <2> QED
      BY <2>1, <2>5, <2>6, TypesSplitNext
  <1>8. CASE PowerDownHdlr
    <2>1. pc' \in [Threads -> Labels] /\ cont' \in [Threads -> ContLabels] /\ ContIsSet'
      BY <1>8, GotoKeeps DEF PowerDownHdlr, Threads, Labels, MhiOffLabels, ContLabels,
         Continue, Finish, ProbeFails, workerRest
    <2>2. event_list' \in Seq(EventSet) /\ event' \in EventSet \cup {NoEvent}
      BY <1>8, TailKeeps DEF PowerDownHdlr, Take, Continue, Drop, TypeOK
    <2>3. call' \in [Contexts -> CallLabels] /\ driver_ops_lock' \in Contexts \cup {"none"}
      BY <1>8 DEF PowerDownHdlr, callVars, TypeOK
    <2>4. driver_state' \subseteq Bits
      BY <1>8 DEF PowerDownHdlr, SetBit, ClearBits, Bits, TypeOK, ProbeFails,
         RecoveryBits
    <2>5. Positions'
      BY <1>8, <2>1, <2>2, <2>3, TypesSplit DEF PowerDownHdlr, Positions, Reply,
         callVars, workerRest, deviceVars
    <2>6. DeviceTyped'
      BY <1>8, <2>4, TypesSplit, SMTT(20), ZenonT(20) DEF PowerDownHdlr, DeviceTyped,
         workerRest, busVars, deviceVars, ProbeFails
    <2> QED
      BY <2>1, <2>5, <2>6, TypesSplitNext
  <1>9. CASE PowerDownDone
    <2>1. pc' \in [Threads -> Labels] /\ cont' \in [Threads -> ContLabels] /\ ContIsSet'
      BY <1>9, GotoKeeps DEF PowerDownDone, Threads, Labels, MhiOffLabels, ContLabels,
         Continue, Finish, ProbeFails, workerRest
    <2>2. event_list' \in Seq(EventSet) /\ event' \in EventSet \cup {NoEvent}
      BY <1>9 DEF PowerDownDone, Finish, ProbeFails, TypeOK
    <2>3. call' \in [Contexts -> CallLabels] /\ driver_ops_lock' \in Contexts \cup {"none"}
      BY <1>9, ReplyKeeps DEF PowerDownDone, Reply, Contexts, CallLabels, TypeOK
    <2>4. driver_state' \subseteq Bits
      BY <1>9 DEF PowerDownDone, SetBit, ClearBits, Bits, TypeOK, ProbeFails,
         RecoveryBits
    <2>5. Positions'
      BY <1>9, <2>1, <2>2, <2>3, TypesSplit DEF PowerDownDone, Positions, Reply,
         callVars, workerRest, deviceVars
    <2>6. DeviceTyped'
      BY <1>9, <2>4, TypesSplit, SMTT(20), ZenonT(20) DEF PowerDownDone, DeviceTyped,
         workerRest, busVars, deviceVars, ProbeFails
    <2> QED
      BY <2>1, <2>5, <2>6, TypesSplitNext
  <1>10. CASE FwReadyHdlr
    <2>1. pc' \in [Threads -> Labels] /\ cont' \in [Threads -> ContLabels] /\ ContIsSet'
      <3>1. CASE Has("IN_REBOOT")
        BY <1>10, <3>1 DEF FwReadyHdlr, Drop, workerRest, TypeOK, ContIsSet, ContLabels
      <3>2. CASE ~Has("IN_REBOOT")
        BY <1>10, <3>2, GotoKeeps DEF FwReadyHdlr, Threads, Labels, MhiOffLabels,
           ContLabels, Continue, workerRest
      <3> QED
        BY <3>1, <3>2
    <2>2. event_list' \in Seq(EventSet) /\ event' \in EventSet \cup {NoEvent}
      BY <1>10, TailKeeps DEF FwReadyHdlr, Take, Continue, Drop, TypeOK
    <2>3. call' \in [Contexts -> CallLabels] /\ driver_ops_lock' \in Contexts \cup {"none"}
      BY <1>10 DEF FwReadyHdlr, callVars, TypeOK
    <2>4. driver_state' \subseteq Bits
      BY <1>10 DEF FwReadyHdlr, SetBit, ClearBits, Bits, TypeOK, ProbeFails,
         RecoveryBits
    <2>5. Positions'
      BY <1>10, <2>1, <2>2, <2>3, TypesSplit DEF FwReadyHdlr, Positions, Reply,
         callVars, workerRest, deviceVars
    <2>6. DeviceTyped'
      BY <1>10, <2>4, TypesSplit, SMTT(20), ZenonT(20) DEF FwReadyHdlr, DeviceTyped,
         workerRest, busVars, deviceVars, ProbeFails
    <2> QED
      BY <2>1, <2>5, <2>6, TypesSplitNext
  <1>11. CASE CallDriverProbe
    <2>1. pc' \in [Threads -> Labels] /\ cont' \in [Threads -> ContLabels] /\ ContIsSet'
      BY <1>11, GotoKeeps DEF CallDriverProbe, Threads, Labels, MhiOffLabels,
         ContLabels, Continue, Finish, ProbeFails, workerRest
    <2>2. event_list' \in Seq(EventSet) /\ event' \in EventSet \cup {NoEvent}
      BY <1>11 DEF CallDriverProbe, Finish, ProbeFails, TypeOK
    <2>3. call' \in [Contexts -> CallLabels] /\ driver_ops_lock' \in Contexts \cup {"none"}
      BY <1>11 DEF CallDriverProbe, callVars, TypeOK
    <2>4. driver_state' \subseteq Bits
      BY <1>11 DEF CallDriverProbe, SetBit, ClearBits, Bits, TypeOK, ProbeFails,
         RecoveryBits
    <2>5. Positions'
      BY <1>11, <2>1, <2>2, <2>3, TypesSplit DEF CallDriverProbe, Positions, Reply,
         callVars, workerRest, deviceVars
    <2>6. DeviceTyped'
      <3>1. /\ host' \in {host, "up"} /\ power_up_error' \in {power_up_error, TRUE}
            /\ completions' \subseteq completions \cup {"power_up", "power_up_once", "recovery"}
            /\ UNCHANGED <<driver_ops, workerRest, timers>>
        BY <1>11 DEF CallDriverProbe, ProbeFails
      <3>2. completions' \subseteq {"power_up", "power_up_once", "recovery"}
        BY <3>1, TypesSplit DEF DeviceTyped
      <3>3. host' \in {"absent", "up", "halted", "asleep"} /\ power_up_error' \in BOOLEAN
        BY <3>1, TypesSplit DEF DeviceTyped
      <3> QED
        BY <2>4, <3>1, <3>2, <3>3, TypesSplit DEF DeviceTyped, workerRest, busVars
    <2> QED
      BY <2>1, <2>5, <2>6, TypesSplitNext
  <1>12. CASE ProbeEnd
    <2>1. pc' \in [Threads -> Labels] /\ cont' \in [Threads -> ContLabels] /\ ContIsSet'
      BY <1>12, GotoKeeps DEF ProbeEnd, Threads, Labels, MhiOffLabels, ContLabels,
         Continue, Finish, ProbeFails, workerRest
    <2>2. event_list' \in Seq(EventSet) /\ event' \in EventSet \cup {NoEvent}
      BY <1>12 DEF ProbeEnd, Finish, ProbeFails, TypeOK
    <2>3. call' \in [Contexts -> CallLabels] /\ driver_ops_lock' \in Contexts \cup {"none"}
      BY <1>12 DEF ProbeEnd, callVars, TypeOK
    <2>4. driver_state' \subseteq Bits
      BY <1>12 DEF ProbeEnd, SetBit, ClearBits, Bits, TypeOK, ProbeFails, RecoveryBits
    <2>5. Positions'
      BY <1>12, <2>1, <2>2, <2>3, TypesSplit DEF ProbeEnd, Positions, Reply, callVars,
         workerRest, deviceVars
    <2>6. DeviceTyped'
      BY <1>12, <2>4, TypesSplit, SMTT(20), ZenonT(20) DEF ProbeEnd, DeviceTyped,
         workerRest, busVars, deviceVars, ProbeFails
    <2> QED
      BY <2>1, <2>5, <2>6, TypesSplitNext
  <1>13. CASE FwReadyFailed
    <2>1. pc' \in [Threads -> Labels] /\ cont' \in [Threads -> ContLabels] /\ ContIsSet'
      BY <1>13, GotoKeeps DEF FwReadyFailed, Threads, Labels, MhiOffLabels, ContLabels,
         Continue, Finish, ProbeFails, workerRest
    <2>2. event_list' \in Seq(EventSet) /\ event' \in EventSet \cup {NoEvent}
      BY <1>13 DEF FwReadyFailed, Finish, ProbeFails, TypeOK
    <2>3. call' \in [Contexts -> CallLabels] /\ driver_ops_lock' \in Contexts \cup {"none"}
      BY <1>13 DEF FwReadyFailed, callVars, TypeOK
    <2>4. driver_state' \subseteq Bits
      BY <1>13 DEF FwReadyFailed, SetBit, ClearBits, Bits, TypeOK, ProbeFails,
         RecoveryBits
    <2>5. Positions'
      BY <1>13, <2>1, <2>2, <2>3, TypesSplit DEF FwReadyFailed, Positions, Reply,
         callVars, workerRest, deviceVars
    <2>6. DeviceTyped'
      BY <1>13, <2>4, TypesSplit, SMTT(20), ZenonT(20) DEF FwReadyFailed, DeviceTyped,
         workerRest, busVars, deviceVars, ProbeFails
    <2> QED
      BY <2>1, <2>5, <2>6, TypesSplitNext
  <1>14. CASE FwReadyDown
    <2>1. pc' \in [Threads -> Labels] /\ cont' \in [Threads -> ContLabels] /\ ContIsSet'
      BY <1>14, GotoKeeps DEF FwReadyDown, Threads, Labels, MhiOffLabels, ContLabels,
         Continue, Finish, ProbeFails, workerRest
    <2>2. event_list' \in Seq(EventSet) /\ event' \in EventSet \cup {NoEvent}
      BY <1>14 DEF FwReadyDown, Finish, ProbeFails, TypeOK
    <2>3. call' \in [Contexts -> CallLabels] /\ driver_ops_lock' \in Contexts \cup {"none"}
      BY <1>14 DEF FwReadyDown, callVars, TypeOK
    <2>4. driver_state' \subseteq Bits
      BY <1>14 DEF FwReadyDown, SetBit, ClearBits, Bits, TypeOK, ProbeFails,
         RecoveryBits
    <2>5. Positions'
      BY <1>14, <2>1, <2>2, <2>3, TypesSplit DEF FwReadyDown, Positions, Reply,
         callVars, workerRest, deviceVars
    <2>6. DeviceTyped'
      BY <1>14, <2>4, TypesSplit, SMTT(20), ZenonT(20) DEF FwReadyDown, DeviceTyped,
         workerRest, busVars, deviceVars, ProbeFails
    <2> QED
      BY <2>1, <2>5, <2>6, TypesSplitNext
  <1>15. CASE RecoveryRefused
    <2>1. pc' \in [Threads -> Labels] /\ cont' \in [Threads -> ContLabels] /\ ContIsSet'
      BY <1>15 DEF RecoveryRefused, Drop, workerRest, TypeOK, ContIsSet, ContLabels
    <2>2. event_list' \in Seq(EventSet) /\ event' \in EventSet \cup {NoEvent}
      BY <1>15, TailKeeps DEF RecoveryRefused, Take, Continue, Drop, TypeOK
    <2>3. call' \in [Contexts -> CallLabels] /\ driver_ops_lock' \in Contexts \cup {"none"}
      BY <1>15 DEF RecoveryRefused, callVars, TypeOK
    <2>4. driver_state' \subseteq Bits
      BY <1>15 DEF RecoveryRefused, SetBit, ClearBits, Bits, TypeOK, ProbeFails,
         RecoveryBits
    <2>5. Positions'
      BY <1>15, <2>1, <2>2, <2>3, TypesSplit DEF RecoveryRefused, Positions, Reply,
         callVars, workerRest, deviceVars
    <2>6. DeviceTyped'
      BY <1>15, <2>4, TypesSplit, SMTT(20), ZenonT(20) DEF RecoveryRefused, DeviceTyped,
         workerRest, busVars, deviceVars, ProbeFails
    <2> QED
      BY <2>1, <2>5, <2>6, TypesSplitNext
  <1>16. CASE RecoveryHdlr
    <2>1. pc' \in [Threads -> Labels] /\ cont' \in [Threads -> ContLabels] /\ ContIsSet'
      BY <1>16 DEF RecoveryHdlr, Drop, workerRest, TypeOK, ContIsSet, ContLabels
    <2>2. event_list' \in Seq(EventSet) /\ event' \in EventSet \cup {NoEvent}
      BY <1>16, TailKeeps DEF RecoveryHdlr, Take, Continue, Drop, TypeOK
    <2>3. call' \in [Contexts -> CallLabels] /\ driver_ops_lock' \in Contexts \cup {"none"}
      BY <1>16 DEF RecoveryHdlr, callVars, TypeOK
    <2>4. driver_state' \subseteq Bits
      BY <1>16 DEF RecoveryHdlr, SetBit, ClearBits, Bits, TypeOK, ProbeFails,
         RecoveryBits
    <2>5. Positions'
      BY <1>16, <2>1, <2>2, <2>3, TypesSplit DEF RecoveryHdlr, Positions, Reply,
         callVars, workerRest, deviceVars
    <2>6. DeviceTyped'
      BY <1>16, <2>4, TypesSplit, SMTT(20), ZenonT(20) DEF RecoveryHdlr, DeviceTyped,
         workerRest, busVars, deviceVars, ProbeFails
    <2> QED
      BY <2>1, <2>5, <2>6, TypesSplitNext
  <1>17. CASE LinkDownSkipped
    <2>1. pc' \in [Threads -> Labels] /\ cont' \in [Threads -> ContLabels] /\ ContIsSet'
      BY <1>17 DEF LinkDownSkipped, Drop, workerRest, TypeOK, ContIsSet, ContLabels
    <2>2. event_list' \in Seq(EventSet) /\ event' \in EventSet \cup {NoEvent}
      BY <1>17, TailKeeps DEF LinkDownSkipped, Take, Continue, Drop, TypeOK
    <2>3. call' \in [Contexts -> CallLabels] /\ driver_ops_lock' \in Contexts \cup {"none"}
      BY <1>17 DEF LinkDownSkipped, callVars, TypeOK
    <2>4. driver_state' \subseteq Bits
      BY <1>17 DEF LinkDownSkipped, SetBit, ClearBits, Bits, TypeOK, ProbeFails,
         RecoveryBits
    <2>5. Positions'
      BY <1>17, <2>1, <2>2, <2>3, TypesSplit DEF LinkDownSkipped, Positions, Reply,
         callVars, workerRest, deviceVars
    <2>6. DeviceTyped'
      BY <1>17, <2>4, TypesSplit, SMTT(20), ZenonT(20) DEF LinkDownSkipped, DeviceTyped,
         workerRest, busVars, deviceVars, ProbeFails
    <2> QED
      BY <2>1, <2>5, <2>6, TypesSplitNext
  <1>18. CASE LinkDownHdlr
    <2>1. pc' \in [Threads -> Labels] /\ cont' \in [Threads -> ContLabels] /\ ContIsSet'
      BY <1>18, GotoKeeps DEF LinkDownHdlr, Threads, Labels, MhiOffLabels, ContLabels,
         Continue, Finish, ProbeFails, workerRest
    <2>2. event_list' \in Seq(EventSet) /\ event' \in EventSet \cup {NoEvent}
      BY <1>18, TailKeeps DEF LinkDownHdlr, Take, Continue, Drop, TypeOK
    <2>3. call' \in [Contexts -> CallLabels] /\ driver_ops_lock' \in Contexts \cup {"none"}
      BY <1>18 DEF LinkDownHdlr, callVars, TypeOK
    <2>4. driver_state' \subseteq Bits
      BY <1>18 DEF LinkDownHdlr, SetBit, ClearBits, Bits, TypeOK, ProbeFails,
         RecoveryBits
    <2>5. Positions'
      BY <1>18, <2>1, <2>2, <2>3, TypesSplit DEF LinkDownHdlr, Positions, Reply,
         callVars, workerRest, deviceVars
    <2>6. DeviceTyped'
      BY <1>18, <2>4, TypesSplit, SMTT(20), ZenonT(20) DEF LinkDownHdlr, DeviceTyped,
         workerRest, busVars, deviceVars, ProbeFails
    <2> QED
      BY <2>1, <2>5, <2>6, TypesSplitNext
  <1>19. CASE RecoverLinkDown
    <2>1. pc' \in [Threads -> Labels] /\ cont' \in [Threads -> ContLabels] /\ ContIsSet'
      BY <1>19, GotoKeeps DEF RecoverLinkDown, Threads, Labels, MhiOffLabels,
         ContLabels, Continue, Finish, ProbeFails, workerRest
    <2>2. event_list' \in Seq(EventSet) /\ event' \in EventSet \cup {NoEvent}
      BY <1>19 DEF RecoverLinkDown, Finish, ProbeFails, TypeOK
    <2>3. call' \in [Contexts -> CallLabels] /\ driver_ops_lock' \in Contexts \cup {"none"}
      BY <1>19 DEF RecoverLinkDown, callVars, TypeOK
    <2>4. driver_state' \subseteq Bits
      BY <1>19 DEF RecoverLinkDown, SetBit, ClearBits, Bits, TypeOK, ProbeFails,
         RecoveryBits
    <2>5. Positions'
      BY <1>19, <2>1, <2>2, <2>3, TypesSplit, FaultKeeps DEF RecoverLinkDown, Positions,
         Reply, callVars, workerRest, deviceVars
    <2>6. DeviceTyped'
      BY <1>19, <2>4, TypesSplit, SMTT(20), ZenonT(20) DEF RecoverLinkDown, DeviceTyped,
         workerRest, busVars, deviceVars, ProbeFails
    <2> QED
      BY <2>1, <2>5, <2>6, TypesSplitNext
  <1> QED
    BY <1>1, <1>2, <1>3, <1>4, <1>5, <1>6, <1>7, <1>8, <1>9, <1>10, <1>11, <1>12, <1>13,
       <1>14, <1>15, <1>16, <1>17, <1>18, <1>19 DEF Handlers

\* The host driver.
LEMMA HostTypes ==
    ASSUME TypeOK, ContIsSet, Host
    PROVE  /\ TypeOK' /\ ContIsSet' /\ UNCHANGED <<event, pc, cont>>
           /\ driver_state' \subseteq driver_state
  <1>1. CASE RegisterDriver
    <2>1. call' \in [Contexts -> CallLabels] /\ calls' \in Nat
      BY <1>1, ReplyKeeps DEF RegisterDriver, Begin, Contexts, CallLabels, TypeOK
    <2>2. event_list' \in Seq(EventSet)
      BY <1>1, AppendKeeps, PostedEvents DEF RegisterDriver, Post, EventTypes, callRest,
         TypeOK
    <2>3. driver_ops_lock' \in Contexts \cup {"none"}
      BY <1>1 DEF RegisterDriver, Contexts, TypeOK
    <2> QED
      BY <1>1, <2>1, <2>2, <2>3 DEF RegisterDriver, callRest, TypeOK, ContIsSet,
         UsePowerUp, NewPowerUp, ClearBits, Begin, Reply, busVars, deviceVars, callVars,
         threadVars
  <1>2. CASE UnregisterDriver
    <2>1. call' \in [Contexts -> CallLabels] /\ calls' \in Nat
      BY <1>2, ReplyKeeps DEF UnregisterDriver, Begin, Contexts, CallLabels, TypeOK
    <2>2. event_list' \in Seq(EventSet)
      BY <1>2 DEF UnregisterDriver, callRest, TypeOK
    <2>3. driver_ops_lock' \in Contexts \cup {"none"}
      BY <1>2 DEF UnregisterDriver, Contexts, TypeOK
    <2> QED
      BY <1>2, <2>1, <2>2, <2>3 DEF UnregisterDriver, callRest, TypeOK, ContIsSet,
         UsePowerUp, NewPowerUp, ClearBits, Begin, Reply, busVars, deviceVars, callVars,
         threadVars
  <1>3. CASE UnregisterPoweredUp
    <2>1. call' \in [Contexts -> CallLabels] /\ calls' \in Nat
      BY <1>3, ReplyKeeps DEF UnregisterPoweredUp, Reply, Contexts, CallLabels, TypeOK
    <2>2. event_list' \in Seq(EventSet)
      BY <1>3 DEF UnregisterPoweredUp, callRest, TypeOK
    <2>3. driver_ops_lock' \in Contexts \cup {"none"}
      BY <1>3 DEF UnregisterPoweredUp, Contexts, TypeOK
    <2> QED
      BY <1>3, <2>1, <2>2, <2>3 DEF UnregisterPoweredUp, callRest, TypeOK, ContIsSet,
         UsePowerUp, NewPowerUp, ClearBits, Begin, Reply, busVars, deviceVars, callVars,
         threadVars
  <1>4. CASE UnregisterTimeout
    <2>1. call' \in [Contexts -> CallLabels] /\ calls' \in Nat
      BY <1>4, ReplyKeeps DEF UnregisterTimeout, Reply, Contexts, CallLabels, TypeOK
    <2>2. event_list' \in Seq(EventSet)
      BY <1>4 DEF UnregisterTimeout, callRest, TypeOK
    <2>3. driver_ops_lock' \in Contexts \cup {"none"}
      BY <1>4 DEF UnregisterTimeout, Contexts, TypeOK
    <2> QED
      BY <1>4, <2>1, <2>2, <2>3 DEF UnregisterTimeout, callRest, TypeOK, ContIsSet,
         UsePowerUp, NewPowerUp, ClearBits, Begin, Reply, busVars, deviceVars, callVars,
         threadVars
  <1>5. CASE IdleShutdown
    <2>1. call' \in [Contexts -> CallLabels] /\ calls' \in Nat
      BY <1>5, ReplyKeeps DEF IdleShutdown, Begin, Contexts, CallLabels, TypeOK
    <2>2. event_list' \in Seq(EventSet)
      BY <1>5 DEF IdleShutdown, callRest, TypeOK
    <2>3. driver_ops_lock' \in Contexts \cup {"none"}
      BY <1>5 DEF IdleShutdown, Contexts, TypeOK
    <2> QED
      BY <1>5, <2>1, <2>2, <2>3 DEF IdleShutdown, callRest, TypeOK, ContIsSet,
         UsePowerUp, NewPowerUp, ClearBits, Begin, Reply, busVars, deviceVars, callVars,
         threadVars
  <1>6. CASE \E c \in Contexts : CheckRecovery(c)
    <2> PICK c \in Contexts : CheckRecovery(c)
      BY <1>6
    <2>1. call' \in [Contexts -> CallLabels] /\ calls' \in Nat
      BY ReplyKeeps DEF CheckRecovery, Reply, Contexts, CallLabels, TypeOK
    <2>2. event_list' \in Seq(EventSet)
      BY  DEF CheckRecovery, callRest, TypeOK
    <2>3. driver_ops_lock' \in Contexts \cup {"none"}
      BY  DEF CheckRecovery, Contexts, TypeOK
    <2> QED
      BY <2>1, <2>2, <2>3 DEF CheckRecovery, callRest, TypeOK, ContIsSet, UsePowerUp,
         NewPowerUp, ClearBits, Begin, Reply, busVars, deviceVars, callVars, threadVars
  <1>7. CASE \E c \in Contexts : ReinitRecovery(c)
    <2> PICK c \in Contexts : ReinitRecovery(c)
      BY <1>7
    <2>1. call' \in [Contexts -> CallLabels] /\ calls' \in Nat
      BY ReplyKeeps DEF ReinitRecovery, Reply, Contexts, CallLabels, TypeOK
    <2>2. event_list' \in Seq(EventSet)
      BY  DEF ReinitRecovery, callRest, TypeOK
    <2>3. driver_ops_lock' \in Contexts \cup {"none"}
      BY  DEF ReinitRecovery, Contexts, TypeOK
    <2> QED
      BY <2>1, <2>2, <2>3 DEF ReinitRecovery, callRest, TypeOK, ContIsSet, UsePowerUp,
         NewPowerUp, ClearBits, Begin, Reply, busVars, deviceVars, callVars, threadVars
  <1>8. CASE \E c \in Contexts : RecoveryCompleted(c)
    <2> PICK c \in Contexts : RecoveryCompleted(c)
      BY <1>8
    <2>1. call' \in [Contexts -> CallLabels] /\ calls' \in Nat
      BY ReplyKeeps DEF RecoveryCompleted, Reply, Contexts, CallLabels, TypeOK
    <2>2. event_list' \in Seq(EventSet)
      BY  DEF RecoveryCompleted, callRest, TypeOK
    <2>3. driver_ops_lock' \in Contexts \cup {"none"}
      BY  DEF RecoveryCompleted, Contexts, TypeOK
    <2> QED
      BY <2>1, <2>2, <2>3 DEF RecoveryCompleted, callRest, TypeOK, ContIsSet,
         UsePowerUp, NewPowerUp, ClearBits, Begin, Reply, busVars, deviceVars, callVars,
         threadVars
  <1>9. CASE \E c \in Contexts : RecoveryWaitTimeout(c)
    <2> PICK c \in Contexts : RecoveryWaitTimeout(c)
      BY <1>9
    <2>1. call' \in [Contexts -> CallLabels] /\ calls' \in Nat
      BY ReplyKeeps DEF RecoveryWaitTimeout, Reply, Contexts, CallLabels, TypeOK
    <2>2. event_list' \in Seq(EventSet)
      BY  DEF RecoveryWaitTimeout, callRest, TypeOK
    <2>3. driver_ops_lock' \in Contexts \cup {"none"}
      BY  DEF RecoveryWaitTimeout, Contexts, TypeOK
    <2> QED
      BY <2>1, <2>2, <2>3 DEF RecoveryWaitTimeout, callRest, TypeOK, ContIsSet,
         UsePowerUp, NewPowerUp, ClearBits, Begin, Reply, busVars, deviceVars, callVars,
         threadVars
  <1>10. CASE \E c \in Contexts : PostDown(c)
    <2> PICK c \in Contexts : PostDown(c)
      BY <1>10
    <2>1. call' \in [Contexts -> CallLabels] /\ calls' \in Nat
      BY ReplyKeeps DEF PostDown, Reply, Contexts, CallLabels, TypeOK
    <2>2. event_list' \in Seq(EventSet)
      BY AppendKeeps, PostedEvents DEF PostDown, Post, EventTypes, callRest, TypeOK
    <2>3. driver_ops_lock' \in Contexts \cup {"none"}
      BY  DEF PostDown, Contexts, TypeOK
    <2> QED
      BY <2>1, <2>2, <2>3 DEF PostDown, callRest, TypeOK, ContIsSet, UsePowerUp,
         NewPowerUp, ClearBits, Begin, Reply, busVars, deviceVars, callVars, threadVars
  <1>11. CASE IdleRestart
    <2>1. call' \in [Contexts -> CallLabels] /\ calls' \in Nat
      BY <1>11, ReplyKeeps DEF IdleRestart, Begin, Contexts, CallLabels, TypeOK
    <2>2. event_list' \in Seq(EventSet)
      BY <1>11, AppendKeeps, PostedEvents DEF IdleRestart, Post, EventTypes, callRest,
         TypeOK
    <2>3. driver_ops_lock' \in Contexts \cup {"none"}
      BY <1>11 DEF IdleRestart, Contexts, TypeOK
    <2> QED
      BY <1>11, <2>1, <2>2, <2>3 DEF IdleRestart, callRest, TypeOK, ContIsSet,
         UsePowerUp, NewPowerUp, ClearBits, Begin, Reply, busVars, deviceVars, callVars,
         threadVars
  <1>12. CASE IdleRestartDone
    <2>1. call' \in [Contexts -> CallLabels] /\ calls' \in Nat
      BY <1>12, ReplyKeeps DEF IdleRestartDone, Reply, Contexts, CallLabels, TypeOK
    <2>2. event_list' \in Seq(EventSet)
      BY <1>12 DEF IdleRestartDone, callRest, TypeOK
    <2>3. driver_ops_lock' \in Contexts \cup {"none"}
      BY <1>12 DEF IdleRestartDone, Contexts, TypeOK
    <2> QED
      BY <1>12, <2>1, <2>2, <2>3 DEF IdleRestartDone, callRest, TypeOK, ContIsSet,
         UsePowerUp, NewPowerUp, ClearBits, Begin, Reply, busVars, deviceVars, callVars,
         threadVars
  <1>13. CASE IdleRestartTimeout
    <2>1. call' \in [Contexts -> CallLabels] /\ calls' \in Nat
      BY <1>13, ReplyKeeps DEF IdleRestartTimeout, Reply, Contexts, CallLabels, TypeOK
    <2>2. event_list' \in Seq(EventSet)
      BY <1>13, AppendKeeps, PostedEvents DEF IdleRestartTimeout, Post, EventTypes,
         callRest, TypeOK
    <2>3. driver_ops_lock' \in Contexts \cup {"none"}
      BY <1>13 DEF IdleRestartTimeout, Contexts, TypeOK
    <2> QED
      BY <1>13, <2>1, <2>2, <2>3 DEF IdleRestartTimeout, callRest, TypeOK, ContIsSet,
         UsePowerUp, NewPowerUp, ClearBits, Begin, Reply, busVars, deviceVars, callVars,
         threadVars
  <1> QED
    BY <1>1, <1>2, <1>3, <1>4, <1>5, <1>6, <1>7, <1>8, <1>9, <1>10, <1>11, <1>12, <1>13
       DEF Host

-----------------------------------------------------------------------------
(***************************************************************************)
(* driver_ops_lock                                                         *)
(***************************************************************************)

LEMMA PendingTypes == TypeOK => \A i \in DOMAIN event_list : event_list[i].type \in EventTypes
  BY DEF TypeOK, EventSet, EventTypes

\* A recovery, or the firmware that is ready, is announced.
LEMMA QueueAdded ==
    ASSUME TypeOK, PostedOnce, Added, UNCHANGED event
    PROVE  Pending' \subseteq Pending \cup Unwaited /\ PostedOnce'
  <1>1. CASE UNCHANGED event_list
    BY <1>1 DEF Pending, PostedOnce
  <1>2. ASSUME NEW e \in EventSet, e.type \in Unwaited, event_list' = Append(event_list, e)
        PROVE  Pending' \subseteq Pending \cup Unwaited /\ PostedOnce'
    <2>1. \A i \in DOMAIN event_list' : \/ i \in DOMAIN event_list /\ event_list'[i] = event_list[i]
                                        \/ i = Len(event_list) + 1 /\ event_list'[i] = e
      BY <1>2, AppendKeeps
    <2> QED
      BY <1>2, <2>1 DEF Pending, PostedOnce
  <1> QED
    BY <1>1, <1>2 DEF Added

\* A caller posts an event that is not pending.
LEMMA QueuePosted ==
    ASSUME TypeOK, PostedOnce, NEW type \in EventTypes \ {"RECOVERY"}, type \notin Pending,
           Post(type), UNCHANGED event
    PROVE  Pending' \subseteq Pending \cup {type} /\ PostedOnce'
  <1>1. Event(type) \in EventSet /\ Event(type).type = type
    BY PostedEvents DEF Event
  <1>2. \A i \in DOMAIN event_list' :
           \/ i \in DOMAIN event_list /\ event_list'[i] = event_list[i]
           \/ i = Len(event_list) + 1 /\ event_list'[i] = Event(type)
    BY <1>1, AppendKeeps DEF Post
  <1> QED
    BY <1>1, <1>2 DEF Pending, PostedOnce

\* The worker takes an event and keeps it, ...
LEMMA QueueTaken ==
    ASSUME TypeOK, PostedOnce, NEW type, Take(type), NEW label, Continue(label)
    PROVE  Pending' \subseteq Pending /\ PostedOnce' /\ event'.type = type
  BY TailKeeps DEF Take, Continue, Pending, PostedOnce

\* ... or is done with it at once, ...
LEMMA QueueDropped ==
    ASSUME TypeOK, PostedOnce, IdleHasNoEvent, NEW type, Take(type), Drop
    PROVE  /\ Pending' \subseteq Pending /\ PostedOnce'
           /\ type \in Pending' => type \in Unwaited
  <1>1. event = NoEvent /\ event' = NoEvent /\ NoEvent.type = "none"
    BY DEF IdleHasNoEvent, Take, Drop, NoEvent, Event
  <1>2. /\ event_list[1].type = type /\ 1 \in DOMAIN event_list /\ type # "none"
        /\ \A i \in DOMAIN event_list' : /\ i \in Nat \ {0} /\ i + 1 \in DOMAIN event_list
                                         /\ event_list'[i] = event_list[i + 1]
    BY TailKeeps, PendingTypes DEF Take, Drop, EventTypes
  <1> QED
    BY <1>1, <1>2 DEF Pending, PostedOnce

\* ... or ends a handler.
LEMMA QueueFinished ==
    ASSUME TypeOK, PostedOnce, Finish, UNCHANGED event_list
    PROVE  /\ Pending' \subseteq Pending \cup {"none"} /\ PostedOnce'
           /\ event.type \in Pending' => event.type \in Unwaited \cup {"none"}
           /\ event'.type = "none" /\ pc'["worker"] = "idle" /\ event' = NoEvent
  <1>1. event' = NoEvent /\ NoEvent.type = "none" /\ pc'["worker"] = "idle"
    BY DEF Finish, NoEvent, Event, Goto, TypeOK, Threads
  <1>2. \A i \in DOMAIN event_list : event_list[i].type # "none"
    BY PendingTypes DEF EventTypes
  <1> QED
    BY <1>1, <1>2 DEF Pending, PostedOnce

\* A step that only adds unwaited events, and moves no caller.
LEMMA Elsewhere ==
    ASSUME TypeOK, Callers, Added, UNCHANGED <<event, call, driver_ops_lock>>,
           pc'["worker"] = "idle" => pc["worker"] = "idle"
    PROVE  Callers'
  <1>1. Pending' \subseteq Pending \cup Unwaited /\ PostedOnce'
    BY QueueAdded DEF Callers
  <1> QED
    BY <1>1 DEF Callers, IdleHasNoEvent, PostersWait, PosterWaits, LockIsHeld, Unwaited,
       NoEvent

\* A handler goes on with its event.
LEMMA HandlerBegins ==
    ASSUME TypeOK, Callers, NEW type, Take(type), NEW label \in Labels \ {"idle"},
           Continue(label), UNCHANGED <<call, driver_ops_lock>>
    PROVE  Callers'
  <1>1. Pending' \subseteq Pending /\ PostedOnce'
    BY QueueTaken DEF Callers
  <1>2. pc'["worker"] = label
    BY DEF Continue, Goto, TypeOK, Threads
  <1> QED
    BY <1>1, <1>2 DEF Callers, IdleHasNoEvent, PostersWait, PosterWaits, LockIsHeld

\* A handler that nobody waits for ends.
LEMMA UnwaitedEnds ==
    ASSUME TypeOK, Callers, UNCHANGED <<call, driver_ops_lock>>,
           (Finish /\ UNCHANGED event_list) \/ \E type \in Unwaited : Take(type) /\ Drop
    PROVE  Callers'
  <1>1. CASE Finish /\ UNCHANGED event_list
    <2>1. Pending' \subseteq Pending \cup {"none"} /\ PostedOnce' /\ event' = NoEvent
      BY <1>1, QueueFinished DEF Callers
    <2> QED
      BY <2>1 DEF Callers, IdleHasNoEvent, PostersWait, PosterWaits, LockIsHeld
  <1>2. CASE \E type \in Unwaited : Take(type) /\ Drop
    <2>1. Pending' \subseteq Pending /\ PostedOnce' /\ UNCHANGED <<event, pc>>
      BY <1>2, QueueDropped DEF Callers, Drop
    <2> QED
      BY <2>1 DEF Callers, IdleHasNoEvent, PostersWait, PosterWaits, LockIsHeld
  <1> QED
    BY <1>1, <1>2

\* The handlers.
LEMMA HandlerCallers ==
    ASSUME TypeOK, Callers, Handlers
    PROVE  Callers'
  <1>1. CASE RegisterDriverHdlr
    <2>1. CASE Has("IN_REBOOT")
      <3>1. /\ Pending' \subseteq Pending /\ PostedOnce' /\ "REGISTER_DRIVER" \notin Pending'
            /\ UNCHANGED <<event, pc, driver_ops_lock>>
        BY <1>1, <2>1, QueueDropped DEF RegisterDriverHdlr, Callers, Unwaited, Drop
      <3>2. "REGISTER_DRIVER" \in Pending
        BY <1>1, TailKeeps DEF RegisterDriverHdlr, Take, Pending
      <3>3. call' = [call EXCEPT !["module"] = "idle"]
        BY <1>1, <2>1 DEF RegisterDriverHdlr, Reply
      <3>4. call'["module"] = "idle" /\ call'["idle"] = call["idle"]
        BY <3>3, ReplyKeeps DEF Contexts, CallLabels
      <3> QED
        BY <3>1, <3>2, <3>4 DEF Callers, IdleHasNoEvent, PostersWait, PosterWaits,
           LockIsHeld, Unloading
    <2>2. CASE ~Has("IN_REBOOT")
      BY <1>1, <2>2, HandlerBegins DEF RegisterDriverHdlr, Labels
    <2> QED
      BY <2>1, <2>2
  <1>2. CASE RegisterDriverDone
    <2>1. /\ Pending' \subseteq Pending \cup {"none"} /\ PostedOnce' /\ event' = NoEvent
          /\ event.type \in Pending' => event.type \in Unwaited \cup {"none"}
      BY <1>2, QueueFinished DEF RegisterDriverDone, Callers
    <2>2. call' = [call EXCEPT !["module"] = "idle"]
      BY <1>2 DEF RegisterDriverDone, Reply
    <2>3. call'["module"] = "idle" /\ call'["idle"] = call["idle"]
      BY <2>2, ReplyKeeps DEF Contexts, CallLabels
    <2>4. event.type \in Pending /\ event.type = "REGISTER_DRIVER" /\ UNCHANGED driver_ops_lock
      BY <1>2 DEF RegisterDriverDone, Pending
    <2> QED
      BY <1>2, <2>1, <2>3, <2>4 DEF RegisterDriverDone, Callers, IdleHasNoEvent,
         PostersWait, PosterWaits, LockIsHeld, Unloading, Unwaited
  <1>3. CASE UnregisterDriverHdlr
    BY <1>3, HandlerBegins DEF UnregisterDriverHdlr, Labels, callVars, workerRest
  <1>4. CASE UnregisterDriverDone
    <2>1. /\ Pending' \subseteq Pending \cup {"none"} /\ PostedOnce' /\ event' = NoEvent
          /\ event.type \in Pending' => event.type \in Unwaited \cup {"none"}
      BY <1>4, QueueFinished DEF UnregisterDriverDone, Callers
    <2>2. call' = [call EXCEPT !["module"] = "idle"]
      BY <1>4 DEF UnregisterDriverDone, Reply
    <2>3. call'["module"] = "idle" /\ call'["idle"] = call["idle"]
      BY <2>2, ReplyKeeps DEF Contexts, CallLabels
    <2>4. event.type \in Pending /\ event.type = "UNREGISTER_DRIVER" /\ driver_ops_lock' = "none"
      BY <1>4 DEF UnregisterDriverDone, Pending
    <2> QED
      BY <1>4, <2>1, <2>3, <2>4 DEF UnregisterDriverDone, Callers, IdleHasNoEvent,
         PostersWait, PosterWaits, LockIsHeld, Unloading, Unwaited
  <1>5. CASE IdleRestartHdlr
    BY <1>5, HandlerBegins DEF IdleRestartHdlr, Labels, callVars, workerRest
  <1>6. CASE IdleRestartPowered
    <2>1. CASE pc["worker"] = "up"
      <3>1. /\ Pending' \subseteq Pending \cup {"none"} /\ PostedOnce' /\ event' = NoEvent
            /\ event.type \in Pending' => event.type \in Unwaited \cup {"none"}
        BY <1>6, <2>1, QueueFinished DEF IdleRestartPowered, Callers
      <3>2. call' = [call EXCEPT !["idle"] = "power_up_wait"]
        BY <1>6, <2>1 DEF IdleRestartPowered, Reply
      <3>3. call'["idle"] = "power_up_wait" /\ call'["module"] = call["module"]
        BY <3>2, ReplyKeeps DEF Contexts, CallLabels
      <3>4. event.type \in Pending /\ event.type = "IDLE_RESTART" /\ UNCHANGED driver_ops_lock
        BY <1>6, <2>1 DEF IdleRestartPowered, Pending
      <3> QED
        BY <1>6, <2>1, <3>1, <3>3, <3>4 DEF IdleRestartPowered, Callers, IdleHasNoEvent,
           PostersWait, PosterWaits, LockIsHeld, Unloading, Unwaited
    <2>2. CASE pc["worker"] # "up"
      <3>1. /\ Pending' \subseteq Pending \cup {"none"} /\ PostedOnce' /\ event' = NoEvent
            /\ event.type \in Pending' => event.type \in Unwaited \cup {"none"}
        BY <1>6, <2>2, QueueFinished DEF IdleRestartPowered, Callers
      <3>2. call' = [call EXCEPT !["idle"] = "idle"]
        BY <1>6, <2>2 DEF IdleRestartPowered, Reply
      <3>3. call'["idle"] = "idle" /\ call'["module"] = call["module"]
        BY <3>2, ReplyKeeps DEF Contexts, CallLabels
      <3>4. event.type \in Pending /\ event.type = "IDLE_RESTART" /\ driver_ops_lock' = "none"
        BY <1>6, <2>2 DEF IdleRestartPowered, Pending
      <3> QED
        BY <1>6, <2>2, <3>1, <3>3, <3>4 DEF IdleRestartPowered, Callers, IdleHasNoEvent,
           PostersWait, PosterWaits, LockIsHeld, Unloading, Unwaited
    <2> QED
      BY <2>1, <2>2
  <1>7. CASE IdleShutdownHdlr
    BY <1>7, HandlerBegins DEF IdleShutdownHdlr, Labels, callVars, workerRest
  <1>8. CASE PowerDownHdlr
    BY <1>8, HandlerBegins DEF PowerDownHdlr, Labels, callVars, workerRest
  <1>9. CASE PowerDownDone
    <2>1. /\ Pending' \subseteq Pending \cup {"none"} /\ PostedOnce' /\ event' = NoEvent
          /\ event.type \in Pending' => event.type \in Unwaited \cup {"none"}
      BY <1>9, QueueFinished DEF PowerDownDone, Callers
    <2>2. call' = [call EXCEPT !["idle"] = "idle"]
      BY <1>9 DEF PowerDownDone, Reply
    <2>3. call'["idle"] = "idle" /\ call'["module"] = call["module"]
      BY <2>2, ReplyKeeps DEF Contexts, CallLabels
    <2>4. event.type \in Pending /\ event.type \in {"IDLE_SHUTDOWN", "POWER_DOWN"}
      BY <1>9 DEF PowerDownDone, Pending
    <2> QED
      BY <1>9, <2>1, <2>3, <2>4 DEF PowerDownDone, Callers, IdleHasNoEvent, PostersWait,
         PosterWaits, LockIsHeld, Unloading, Unwaited
  <1>10. CASE FwReadyHdlr
    <2>1. CASE Has("IN_REBOOT")
      BY <1>10, <2>1, UnwaitedEnds DEF FwReadyHdlr, Unwaited, callVars
    <2>2. CASE ~Has("IN_REBOOT")
      BY <1>10, <2>2, HandlerBegins DEF FwReadyHdlr, Labels, callVars
    <2> QED
      BY <2>1, <2>2
  <1>11. CASE CallDriverProbe
    <2>1. UNCHANGED <<event_list, event, call, driver_ops_lock>>
      BY <1>11 DEF CallDriverProbe, callVars
    <2>2. Goto("worker", "probe_end") \/ Goto("worker", "probe_failed")
      BY <1>11 DEF CallDriverProbe, ProbeFails
    <2>3. pc'["worker"] # "idle"
      BY <2>2 DEF Goto, TypeOK, Threads
    <2> QED
      BY <2>1, <2>3, Elsewhere DEF Added
  <1>12. CASE ProbeEnd
    BY <1>12, UnwaitedEnds DEF ProbeEnd, Unwaited, callVars, workerRest
  <1>13. CASE FwReadyFailed
    <2>1. CASE Has("DEV_ERR_NOTIFY")
      BY <1>13, <2>1, UnwaitedEnds DEF FwReadyFailed, callVars
    <2>2. CASE ~Has("DEV_ERR_NOTIFY")
      BY <1>13, <2>2, Elsewhere DEF FwReadyFailed, Added, callVars, Goto, TypeOK,
         Threads
    <2> QED
      BY <2>1, <2>2
  <1>14. CASE FwReadyDown
    BY <1>14, UnwaitedEnds DEF FwReadyDown, Unwaited, callVars, workerRest
  <1>15. CASE RecoveryRefused
    BY <1>15, UnwaitedEnds DEF RecoveryRefused, Unwaited, callVars, workerRest
  <1>16. CASE RecoveryHdlr
    BY <1>16, UnwaitedEnds DEF RecoveryHdlr, Unwaited, callVars, workerRest
  <1>17. CASE LinkDownSkipped
    BY <1>17, UnwaitedEnds DEF LinkDownSkipped, Unwaited, callVars, workerRest
  <1>18. CASE LinkDownHdlr
    BY <1>18, HandlerBegins DEF LinkDownHdlr, Labels, callVars, workerRest
  <1>19. CASE RecoverLinkDown
    BY <1>19, UnwaitedEnds DEF RecoverLinkDown, Unwaited, callVars, workerRest
  <1> QED
    BY <1>1, <1>2, <1>3, <1>4, <1>5, <1>6, <1>7, <1>8, <1>9, <1>10, <1>11, <1>12, <1>13,
       <1>14, <1>15, <1>16, <1>17, <1>18, <1>19 DEF Handlers

\* The host driver.
LEMMA HostCallers ==
    ASSUME TypeOK, Callers, Host
    PROVE  Callers'
  <1>1. CASE RegisterDriver
    <2>1. call' = [call EXCEPT !["module"] = "registering"]
      BY <1>1 DEF RegisterDriver, Begin, Reply
    <2>2. call'["module"] = "registering" /\ call'["idle"] = call["idle"]
      BY <2>1, ReplyKeeps DEF Contexts, CallLabels
    <2>3. "REGISTER_DRIVER" \notin Pending /\ UNCHANGED <<event, pc>>
      BY <1>1 DEF RegisterDriver, Begin, callRest, threadVars, Callers, IdleHasNoEvent,
         PostersWait, PosterWaits, LockIsHeld, Unloading
    <2>4. Pending' \subseteq Pending \cup {"REGISTER_DRIVER"} /\ PostedOnce'
      BY <1>1, <2>3, QueuePosted DEF RegisterDriver, EventTypes, Callers
    <2> QED
      BY <1>1, <2>2, <2>3, <2>4 DEF RegisterDriver, Begin, Callers, IdleHasNoEvent,
         PostersWait, PosterWaits, LockIsHeld, Unloading
  <1>2. CASE UnregisterDriver
    <2>1. call' = [call EXCEPT !["module"] = "unregister_wait"]
      BY <1>2 DEF UnregisterDriver, Begin, Reply
    <2>2. call'["module"] = "unregister_wait" /\ call'["idle"] = call["idle"]
      BY <2>1, ReplyKeeps DEF Contexts, CallLabels
    <2>3. UNCHANGED <<event_list, event, pc>>
      BY <1>2 DEF UnregisterDriver, callRest, threadVars
    <2>4. Pending' = Pending /\ (PostedOnce => PostedOnce')
      BY <2>3 DEF Pending, PostedOnce
    <2> QED
      BY <1>2, <2>2, <2>3, <2>4 DEF UnregisterDriver, Begin, Contexts, Callers,
         IdleHasNoEvent, PostersWait, PosterWaits, LockIsHeld, Unloading
  <1>3. CASE UnregisterPoweredUp
    <2>1. call' = [call EXCEPT !["module"] = "check_recovery"]
      BY <1>3 DEF UnregisterPoweredUp, Begin, Reply
    <2>2. call'["module"] = "check_recovery" /\ call'["idle"] = call["idle"]
      BY <2>1, ReplyKeeps DEF Contexts, CallLabels
    <2>3. UNCHANGED <<event_list, event, pc>>
      BY <1>3 DEF UnregisterPoweredUp, callRest, threadVars
    <2>4. Pending' = Pending /\ (PostedOnce => PostedOnce')
      BY <2>3 DEF Pending, PostedOnce
    <2> QED
      BY <1>3, <2>2, <2>3, <2>4 DEF UnregisterPoweredUp, Begin, Contexts, Callers,
         IdleHasNoEvent, PostersWait, PosterWaits, LockIsHeld, Unloading
  <1>4. CASE UnregisterTimeout
    <2>1. call' = [call EXCEPT !["module"] = "check_recovery"]
      BY <1>4 DEF UnregisterTimeout, Begin, Reply
    <2>2. call'["module"] = "check_recovery" /\ call'["idle"] = call["idle"]
      BY <2>1, ReplyKeeps DEF Contexts, CallLabels
    <2>3. UNCHANGED <<event_list, event, pc>>
      BY <1>4 DEF UnregisterTimeout, callRest, threadVars
    <2>4. Pending' = Pending /\ (PostedOnce => PostedOnce')
      BY <2>3 DEF Pending, PostedOnce
    <2> QED
      BY <1>4, <2>2, <2>3, <2>4 DEF UnregisterTimeout, Begin, Contexts, Callers,
         IdleHasNoEvent, PostersWait, PosterWaits, LockIsHeld, Unloading
  <1>5. CASE IdleShutdown
    <2>1. call' = [call EXCEPT !["idle"] = "check_recovery"]
      BY <1>5 DEF IdleShutdown, Begin, Reply
    <2>2. call'["idle"] = "check_recovery" /\ call'["module"] = call["module"]
      BY <2>1, ReplyKeeps DEF Contexts, CallLabels
    <2>3. UNCHANGED <<event_list, event, pc>>
      BY <1>5 DEF IdleShutdown, callRest, threadVars
    <2>4. Pending' = Pending /\ (PostedOnce => PostedOnce')
      BY <2>3 DEF Pending, PostedOnce
    <2> QED
      BY <1>5, <2>2, <2>3, <2>4 DEF IdleShutdown, Begin, Contexts, Callers,
         IdleHasNoEvent, PostersWait, PosterWaits, LockIsHeld, Unloading
  <1>6. CASE \E c \in Contexts : CheckRecovery(c)
    <2> PICK c \in Contexts : CheckRecovery(c)
      BY <1>6
    <2>1. PICK label \in {"reinit_recovery", "post_down"} : call' = [call EXCEPT ![c] = label]
      BY  DEF CheckRecovery, Reply
    <2>2. call'[c] = label /\ \A d \in Contexts : d # c => call'[d] = call[d]
      BY <2>1, ReplyKeeps DEF CallLabels
    <2>3. UNCHANGED <<event_list, event, pc>>
      BY  DEF CheckRecovery, callRest, threadVars
    <2>4. Pending' = Pending /\ (PostedOnce => PostedOnce')
      BY <2>3 DEF Pending, PostedOnce
    <2> QED
      BY <2>2, <2>3, <2>4 DEF CheckRecovery, Begin, Contexts, Callers, IdleHasNoEvent,
         PostersWait, PosterWaits, LockIsHeld, Unloading
  <1>7. CASE \E c \in Contexts : ReinitRecovery(c)
    <2> PICK c \in Contexts : ReinitRecovery(c)
      BY <1>7
    <2>1. PICK label \in {"recovery_wait"} : call' = [call EXCEPT ![c] = label]
      BY  DEF ReinitRecovery, Reply
    <2>2. call'[c] = label /\ \A d \in Contexts : d # c => call'[d] = call[d]
      BY <2>1, ReplyKeeps DEF CallLabels
    <2>3. UNCHANGED <<event_list, event, pc>>
      BY  DEF ReinitRecovery, callRest, threadVars
    <2>4. Pending' = Pending /\ (PostedOnce => PostedOnce')
      BY <2>3 DEF Pending, PostedOnce
    <2> QED
      BY <2>2, <2>3, <2>4 DEF ReinitRecovery, Begin, Contexts, Callers, IdleHasNoEvent,
         PostersWait, PosterWaits, LockIsHeld, Unloading
  <1>8. CASE \E c \in Contexts : RecoveryCompleted(c)
    <2> PICK c \in Contexts : RecoveryCompleted(c)
      BY <1>8
    <2>1. PICK label \in {"post_down"} : call' = [call EXCEPT ![c] = label]
      BY  DEF RecoveryCompleted, Reply
    <2>2. call'[c] = label /\ \A d \in Contexts : d # c => call'[d] = call[d]
      BY <2>1, ReplyKeeps DEF CallLabels
    <2>3. UNCHANGED <<event_list, event, pc>>
      BY  DEF RecoveryCompleted, callRest, threadVars
    <2>4. Pending' = Pending /\ (PostedOnce => PostedOnce')
      BY <2>3 DEF Pending, PostedOnce
    <2> QED
      BY <2>2, <2>3, <2>4 DEF RecoveryCompleted, Begin, Contexts, Callers,
         IdleHasNoEvent, PostersWait, PosterWaits, LockIsHeld, Unloading
  <1>9. CASE \E c \in Contexts : RecoveryWaitTimeout(c)
    <2> PICK c \in Contexts : RecoveryWaitTimeout(c)
      BY <1>9
    <2>1. PICK label \in {"post_down"} : call' = [call EXCEPT ![c] = label]
      BY  DEF RecoveryWaitTimeout, Reply
    <2>2. call'[c] = label /\ \A d \in Contexts : d # c => call'[d] = call[d]
      BY <2>1, ReplyKeeps DEF CallLabels
    <2>3. UNCHANGED <<event_list, event, pc>>
      BY  DEF RecoveryWaitTimeout, callRest, threadVars
    <2>4. Pending' = Pending /\ (PostedOnce => PostedOnce')
      BY <2>3 DEF Pending, PostedOnce
    <2> QED
      BY <2>2, <2>3, <2>4 DEF RecoveryWaitTimeout, Begin, Contexts, Callers,
         IdleHasNoEvent, PostersWait, PosterWaits, LockIsHeld, Unloading
  <1>10. CASE \E c \in Contexts : PostDown(c)
    <2> PICK c \in Contexts : PostDown(c)
      BY <1>10
    <2>1. call' = [call EXCEPT ![c] = "going_down"] /\ UNCHANGED <<event, pc, driver_ops_lock>>
      BY DEF PostDown, Reply, callRest, threadVars
    <2>2. call'[c] = "going_down" /\ \A d \in Contexts : d # c => call'[d] = call[d]
      BY <2>1, ReplyKeeps DEF CallLabels
    <2>3. CASE c = "module"
      <3>1. "UNREGISTER_DRIVER" \notin Pending
        BY <2>3 DEF PostDown, Callers, IdleHasNoEvent, PostersWait, PosterWaits,
           LockIsHeld, Unloading
      <3>2. Pending' \subseteq Pending \cup {"UNREGISTER_DRIVER"} /\ PostedOnce'
        BY <2>1, <2>3, <3>1, QueuePosted DEF PostDown, EventTypes, Callers
      <3> QED
        BY <2>1, <2>2, <2>3, <3>2 DEF PostDown, Contexts, Callers, IdleHasNoEvent,
           PostersWait, PosterWaits, LockIsHeld, Unloading
    <2>4. CASE c = "idle"
      <3>1. "IDLE_SHUTDOWN" \notin Pending
        BY <2>4 DEF PostDown, Callers, IdleHasNoEvent, PostersWait, PosterWaits,
           LockIsHeld, Unloading
      <3>2. Pending' \subseteq Pending \cup {"IDLE_SHUTDOWN"} /\ PostedOnce'
        BY <2>1, <2>4, <3>1, QueuePosted DEF PostDown, EventTypes, Callers
      <3> QED
        BY <2>1, <2>2, <2>4, <3>2 DEF PostDown, Contexts, Callers, IdleHasNoEvent,
           PostersWait, PosterWaits, LockIsHeld, Unloading
    <2> QED
      BY <2>3, <2>4 DEF Contexts
  <1>11. CASE IdleRestart
    <2>1. CASE Has("IN_REBOOT")
      <3>1. call' = [call EXCEPT !["idle"] = "idle"] /\ call["idle"] = "idle"
            /\ UNCHANGED <<event_list, event, pc, driver_ops_lock>>
        BY <1>11, <2>1 DEF IdleRestart, Begin, callRest, threadVars
      <3>2. UNCHANGED call
        BY <3>1 DEF TypeOK, Contexts
      <3> QED
        BY <3>1, <3>2, Elsewhere DEF Added
    <2>2. CASE ~Has("IN_REBOOT")
      <3>1. call' = [call EXCEPT !["idle"] = "restarting"] /\ call["idle"] = "idle"
            /\ UNCHANGED <<event, pc>> /\ driver_ops_lock' = "idle" /\ driver_ops_lock = "none"
        BY <1>11, <2>2 DEF IdleRestart, Begin, callRest, threadVars
      <3>2. call'["idle"] = "restarting" /\ call'["module"] = call["module"]
        BY <3>1, ReplyKeeps DEF Contexts, CallLabels
      <3>3. "IDLE_RESTART" \notin Pending
        BY <3>1 DEF Callers, IdleHasNoEvent, PostersWait, PosterWaits, LockIsHeld,
           Unloading
      <3>4. Pending' \subseteq Pending \cup {"IDLE_RESTART"} /\ PostedOnce'
        BY <1>11, <2>2, <3>1, <3>3, QueuePosted DEF IdleRestart, EventTypes, Callers
      <3> QED
        BY <3>1, <3>2, <3>4 DEF Callers, IdleHasNoEvent, PostersWait, PosterWaits,
           LockIsHeld, Unloading
    <2> QED
      BY <2>1, <2>2
  <1>12. CASE IdleRestartDone
    <2>1. call' = [call EXCEPT !["idle"] = "idle"]
      BY <1>12 DEF IdleRestartDone, Begin, Reply
    <2>2. call'["idle"] = "idle" /\ call'["module"] = call["module"]
      BY <2>1, ReplyKeeps DEF Contexts, CallLabels
    <2>3. UNCHANGED <<event_list, event, pc>>
      BY <1>12 DEF IdleRestartDone, callRest, threadVars
    <2>4. Pending' = Pending /\ (PostedOnce => PostedOnce')
      BY <2>3 DEF Pending, PostedOnce
    <2> QED
      BY <1>12, <2>2, <2>3, <2>4 DEF IdleRestartDone, Begin, Contexts, Callers,
         IdleHasNoEvent, PostersWait, PosterWaits, LockIsHeld, Unloading
  <1>13. CASE IdleRestartTimeout
    <2>1. call' = [call EXCEPT !["idle"] = "going_down"]
      BY <1>13 DEF IdleRestartTimeout, Begin, Reply
    <2>2. call'["idle"] = "going_down" /\ call'["module"] = call["module"]
      BY <2>1, ReplyKeeps DEF Contexts, CallLabels
    <2>3. "POWER_DOWN" \notin Pending /\ UNCHANGED <<event, pc>>
      BY <1>13 DEF IdleRestartTimeout, Begin, callRest, threadVars, Callers,
         IdleHasNoEvent, PostersWait, PosterWaits, LockIsHeld, Unloading
    <2>4. Pending' \subseteq Pending \cup {"POWER_DOWN"} /\ PostedOnce'
      BY <1>13, <2>3, QueuePosted DEF IdleRestartTimeout, EventTypes, Callers
    <2> QED
      BY <1>13, <2>2, <2>3, <2>4 DEF IdleRestartTimeout, Begin, Callers, IdleHasNoEvent,
         PostersWait, PosterWaits, LockIsHeld, Unloading
  <1> QED
    BY <1>1, <1>2, <1>3, <1>4, <1>5, <1>6, <1>7, <1>8, <1>9, <1>10, <1>11, <1>12, <1>13
       DEF Host

-----------------------------------------------------------------------------
(***************************************************************************)
(* DRIVER_UNLOADING and DRIVER_IDLE_SHUTDOWN                               *)
(***************************************************************************)

\* Who does not touch the worker, and sets neither bit, keeps Transition.
LEMMA TransitionElsewhere ==
    ASSUME Transition, driver_state' \cap Done \subseteq driver_state,
           pc'["worker"] = pc["worker"], cont'["worker"] = cont["worker"]
    PROVE  Transition'
  BY DEF Transition, HasAny

\* The power sequence of the worker clears the bit it was begun for.
LEMMA TransitionEnds ==
    ASSUME TypeOK, ContIsSet, Transition, Power("worker")
    PROVE  Transition'
  <1> "worker" \in Threads
    BY DEF Threads
  <1>1. CASE CallDriverRemove("worker")
    <2>1. CASE pc'["worker"] = "off"
      BY <2>1 DEF Transition, MhiOffLabels
    <2>2. CASE pc'["worker"] # "off"
      <3>1. driver_state' = driver_state \ {"DRIVER_IDLE_SHUTDOWN"} /\ ~Has("DRIVER_UNLOADING")
        BY <1>1, <2>2 DEF CallDriverRemove, Goto, TypeOK, ClearBits
      <3> QED
        BY <3>1 DEF Transition, HasAny, Has, Done
    <2> QED
      BY <2>1, <2>2
  <1>2. CASE ShutdownOff("worker")
    <2>1. pc'["worker"] = "clear" \/ (pc'["worker"] = "mhi_off" /\ cont'["worker"] = "clear")
      BY <1>2 DEF ShutdownOff, Goto, TypeOK
    <2> QED
      BY <2>1 DEF Transition, MhiOffLabels
  <1>3. CASE MhiPowerOffTest("worker")
    <2>1. /\ pc["worker"] \in MhiOffLabels /\ pc'["worker"] \in MhiOffLabels
          /\ UNCHANGED <<driver_state, cont>>
      BY <1>3 DEF MhiPowerOffTest, Goto, TypeOK, MhiOffLabels
    <2> QED
      BY <2>1 DEF Transition, HasAny
  <1>4. CASE MhiPowerOff("worker")
    <2>1. /\ pc["worker"] \in MhiOffLabels /\ pc'["worker"] \in MhiOffLabels
          /\ UNCHANGED <<driver_state, cont>>
      BY <1>4 DEF MhiPowerOff, Goto, TypeOK, MhiOffLabels
    <2> QED
      BY <2>1 DEF Transition, HasAny
  <1>5. CASE DeviceOff("worker")
    <2>1. pc["worker"] = "device_off" /\ pc'["worker"] = cont["worker"] /\ UNCHANGED driver_state
      BY <1>5 DEF DeviceOff, Goto, TypeOK
    <2> QED
      BY <2>1 DEF Transition, HasAny, MhiOffLabels
  <1>6. CASE ShutdownClear("worker")
    <2>1. driver_state' \cap Done = {}
      BY <1>6 DEF ShutdownClear, ClearBits, HasAny, Done
    <2> QED
      BY <2>1 DEF Transition, HasAny
  <1>7. CASE PowerupBegin("worker")
    <2>1. ~HasAny(Done) /\ UNCHANGED driver_state
      BY <1>7 DEF PowerupBegin, Transition, MhiOffLabels
    <2> QED
      BY <2>1 DEF Transition, HasAny
  <1>8. CASE PowerOnDevice("worker")
    <2>1. ~HasAny(Done) /\ UNCHANGED driver_state
      BY <1>8 DEF PowerOnDevice, Transition, MhiOffLabels
    <2> QED
      BY <2>1 DEF Transition, HasAny
  <1>9. CASE StartMhi("worker")
    <2>1. ~HasAny(Done) /\ UNCHANGED driver_state
      BY <1>9 DEF StartMhi, Transition, MhiOffLabels
    <2> QED
      BY <2>1 DEF Transition, HasAny
  <1> QED
    BY <1>1, <1>2, <1>3, <1>4, <1>5, <1>6, <1>7, <1>8, <1>9 DEF Power

\* A handler begins it, or runs while neither bit is set.
LEMMA TransitionBegins ==
    ASSUME TypeOK, Transition, Handlers
    PROVE  Transition'
  <1>1. CASE RegisterDriverHdlr
    <2>1. ~HasAny(Done)
      BY <1>1 DEF RegisterDriverHdlr, Take, Transition, MhiOffLabels
    <2>2. driver_state' \cap Done \subseteq driver_state
      BY <1>1 DEF RegisterDriverHdlr, SetBit, ClearBits, ProbeFails, RecoveryBits, Done
    <2> QED
      BY <2>1, <2>2 DEF Transition, HasAny
  <1>2. CASE RegisterDriverDone
    <2>1. ~HasAny(Done)
      BY <1>2 DEF RegisterDriverDone, Take, Transition, MhiOffLabels
    <2>2. driver_state' \cap Done \subseteq driver_state
      BY <1>2 DEF RegisterDriverDone, SetBit, ClearBits, ProbeFails, RecoveryBits, Done
    <2> QED
      BY <2>1, <2>2 DEF Transition, HasAny
  <1>3. CASE UnregisterDriverHdlr
    BY <1>3 DEF UnregisterDriverHdlr, Continue, Goto, TypeOK, Threads, Transition,
       MhiOffLabels
  <1>4. CASE UnregisterDriverDone
    <2>1. ~HasAny(Done)
      BY <1>4 DEF UnregisterDriverDone, Take, Transition, MhiOffLabels
    <2>2. driver_state' \cap Done \subseteq driver_state
      BY <1>4 DEF UnregisterDriverDone, SetBit, ClearBits, ProbeFails, RecoveryBits,
         Done
    <2> QED
      BY <2>1, <2>2 DEF Transition, HasAny
  <1>5. CASE IdleRestartHdlr
    <2>1. ~HasAny(Done)
      BY <1>5 DEF IdleRestartHdlr, Take, Transition, MhiOffLabels
    <2>2. driver_state' \cap Done \subseteq driver_state
      BY <1>5 DEF IdleRestartHdlr, SetBit, ClearBits, ProbeFails, RecoveryBits, Done
    <2> QED
      BY <2>1, <2>2 DEF Transition, HasAny
  <1>6. CASE IdleRestartPowered
    <2>1. ~HasAny(Done)
      BY <1>6 DEF IdleRestartPowered, Take, Transition, MhiOffLabels
    <2>2. driver_state' \cap Done \subseteq driver_state
      BY <1>6 DEF IdleRestartPowered, SetBit, ClearBits, ProbeFails, RecoveryBits, Done
    <2> QED
      BY <2>1, <2>2 DEF Transition, HasAny
  <1>7. CASE IdleShutdownHdlr
    BY <1>7 DEF IdleShutdownHdlr, Continue, Goto, TypeOK, Threads, Transition,
       MhiOffLabels
  <1>8. CASE PowerDownHdlr
    <2>1. ~HasAny(Done)
      BY <1>8 DEF PowerDownHdlr, Take, Transition, MhiOffLabels
    <2>2. driver_state' \cap Done \subseteq driver_state
      BY <1>8 DEF PowerDownHdlr, SetBit, ClearBits, ProbeFails, RecoveryBits, Done
    <2> QED
      BY <2>1, <2>2 DEF Transition, HasAny
  <1>9. CASE PowerDownDone
    <2>1. ~HasAny(Done)
      BY <1>9 DEF PowerDownDone, Take, Transition, MhiOffLabels
    <2>2. driver_state' \cap Done \subseteq driver_state
      BY <1>9 DEF PowerDownDone, SetBit, ClearBits, ProbeFails, RecoveryBits, Done
    <2> QED
      BY <2>1, <2>2 DEF Transition, HasAny
  <1>10. CASE FwReadyHdlr
    <2>1. ~HasAny(Done)
      BY <1>10 DEF FwReadyHdlr, Take, Transition, MhiOffLabels
    <2>2. driver_state' \cap Done \subseteq driver_state
      BY <1>10 DEF FwReadyHdlr, SetBit, ClearBits, ProbeFails, RecoveryBits, Done
    <2> QED
      BY <2>1, <2>2 DEF Transition, HasAny
  <1>11. CASE CallDriverProbe
    <2>1. ~HasAny(Done)
      BY <1>11 DEF CallDriverProbe, Take, Transition, MhiOffLabels
    <2>2. driver_state' \cap Done \subseteq driver_state
      BY <1>11 DEF CallDriverProbe, SetBit, ClearBits, ProbeFails, RecoveryBits, Done
    <2> QED
      BY <2>1, <2>2 DEF Transition, HasAny
  <1>12. CASE ProbeEnd
    <2>1. ~HasAny(Done)
      BY <1>12 DEF ProbeEnd, Take, Transition, MhiOffLabels
    <2>2. driver_state' \cap Done \subseteq driver_state
      BY <1>12 DEF ProbeEnd, SetBit, ClearBits, ProbeFails, RecoveryBits, Done
    <2> QED
      BY <2>1, <2>2 DEF Transition, HasAny
  <1>13. CASE FwReadyFailed
    <2>1. ~HasAny(Done)
      BY <1>13 DEF FwReadyFailed, Take, Transition, MhiOffLabels
    <2>2. driver_state' \cap Done \subseteq driver_state
      BY <1>13 DEF FwReadyFailed, SetBit, ClearBits, ProbeFails, RecoveryBits, Done
    <2> QED
      BY <2>1, <2>2 DEF Transition, HasAny
  <1>14. CASE FwReadyDown
    <2>1. ~HasAny(Done)
      BY <1>14 DEF FwReadyDown, Take, Transition, MhiOffLabels
    <2>2. driver_state' \cap Done \subseteq driver_state
      BY <1>14 DEF FwReadyDown, SetBit, ClearBits, ProbeFails, RecoveryBits, Done
    <2> QED
      BY <2>1, <2>2 DEF Transition, HasAny
  <1>15. CASE RecoveryRefused
    <2>1. ~HasAny(Done)
      BY <1>15 DEF RecoveryRefused, Take, Transition, MhiOffLabels
    <2>2. driver_state' \cap Done \subseteq driver_state
      BY <1>15 DEF RecoveryRefused, SetBit, ClearBits, ProbeFails, RecoveryBits, Done
    <2> QED
      BY <2>1, <2>2 DEF Transition, HasAny
  <1>16. CASE RecoveryHdlr
    <2>1. ~HasAny(Done)
      BY <1>16 DEF RecoveryHdlr, Take, Transition, MhiOffLabels
    <2>2. driver_state' \cap Done \subseteq driver_state
      BY <1>16 DEF RecoveryHdlr, SetBit, ClearBits, ProbeFails, RecoveryBits, Done
    <2> QED
      BY <2>1, <2>2 DEF Transition, HasAny
  <1>17. CASE LinkDownSkipped
    <2>1. ~HasAny(Done)
      BY <1>17 DEF LinkDownSkipped, Take, Transition, MhiOffLabels
    <2>2. driver_state' \cap Done \subseteq driver_state
      BY <1>17 DEF LinkDownSkipped, SetBit, ClearBits, ProbeFails, RecoveryBits, Done
    <2> QED
      BY <2>1, <2>2 DEF Transition, HasAny
  <1>18. CASE LinkDownHdlr
    <2>1. ~HasAny(Done)
      BY <1>18 DEF LinkDownHdlr, Take, Transition, MhiOffLabels
    <2>2. driver_state' \cap Done \subseteq driver_state
      BY <1>18 DEF LinkDownHdlr, SetBit, ClearBits, ProbeFails, RecoveryBits, Done
    <2> QED
      BY <2>1, <2>2 DEF Transition, HasAny
  <1>19. CASE RecoverLinkDown
    <2>1. ~HasAny(Done)
      BY <1>19 DEF RecoverLinkDown, Take, Transition, MhiOffLabels
    <2>2. driver_state' \cap Done \subseteq driver_state
      BY <1>19 DEF RecoverLinkDown, SetBit, ClearBits, ProbeFails, RecoveryBits, Done
    <2> QED
      BY <2>1, <2>2 DEF Transition, HasAny
  <1> QED
    BY <1>1, <1>2, <1>3, <1>4, <1>5, <1>6, <1>7, <1>8, <1>9, <1>10, <1>11, <1>12, <1>13,
       <1>14, <1>15, <1>16, <1>17, <1>18, <1>19 DEF Handlers

-----------------------------------------------------------------------------
(***************************************************************************)
(* The theorems                                                            *)
(***************************************************************************)

LEMMA InitInvariant == Init => IInv
  <1> SUFFICES ASSUME Init PROVE IInv
    OBVIOUS
  <1>1. TypeOK
    <2>1. Positions
      <3>1. event_list \in Seq(EventSet)
        BY DEF Init
      <3>2. pc \in [Threads -> Labels] /\ cont \in [Threads -> ContLabels]
        BY DEF Init, Labels, ContLabels
      <3>3. call \in [Contexts -> CallLabels]
        BY DEF Init, CallLabels
      <3> QED
        BY <3>1, <3>2, <3>3, DriverAssumption DEF Init, Positions
    <2>2. DeviceTyped
      BY ZenonT(30) DEF Init, DeviceTyped
    <2> QED
      BY <2>1, <2>2, TypesSplit
  <1>2. ContIsSet /\ Transition
    BY DEF Init, ContIsSet, MhiOffLabels, Transition, HasAny
  <1>3. Pending = {"none"} /\ PostedOnce
    BY DEF Init, Pending, PostedOnce, NoEvent, Event
  <1>4. Callers
    BY <1>3 DEF Init, Callers, IdleHasNoEvent, PostersWait, PosterWaits, LockIsHeld,
       Unloading,
       Contexts
  <1> QED
    BY <1>1, <1>2, <1>4 DEF IInv

LEMMA NextInvariant == IInv /\ [Next]_vars => IInv'
  <1> SUFFICES ASSUME IInv, [Next]_vars PROVE IInv'
    OBVIOUS
  <1> USE DEF IInv
  <1> "worker" \in Threads /\ "recovery" \in Threads /\ "recovery" # "worker"
    BY DEF Threads
  <1>1. CASE Power("worker")
    BY <1>1, PowerTypes, Elsewhere, TransitionEnds
  <1>2. CASE Power("recovery")
    <2>1. /\ TypeOK' /\ ContIsSet' /\ Added /\ UNCHANGED <<event, call, driver_ops_lock>>
          /\ pc'["worker"] = pc["worker"] /\ cont'["worker"] = cont["worker"]
          /\ driver_state' \subseteq driver_state
      BY <1>2, PowerTypes
    <2> QED
      BY <2>1, Elsewhere, TransitionElsewhere
  <1>3. CASE Handlers
    BY <1>3, HandlerTypes, HandlerCallers, TransitionBegins
  <1>4. CASE RecoveryWork \/ RecoveryRamdump \/ RecoveryDone
    BY <1>4, RecoveryTypes, Elsewhere, TransitionElsewhere DEF Added
  <1>5. CASE Device
    <2>1. /\ TypeOK' /\ Added /\ UNCHANGED <<event, pc, cont, call, driver_ops_lock>>
          /\ driver_state' \cap Done \subseteq driver_state
      BY <1>5, DeviceTypes DEF Done
    <2> QED
      BY <2>1, Elsewhere, TransitionElsewhere DEF ContIsSet
  <1>6. CASE Host
    BY <1>6, HostTypes, HostCallers, TransitionElsewhere
  <1>7. CASE UNCHANGED vars
    <2>1. UNCHANGED <<pc, cont, event_list, event, call, driver_ops_lock, driver_state>> /\ TypeOK'
      BY <1>7 DEF vars, threadVars, busVars, deviceVars, callVars, TypeOK
    <2> QED
      BY <2>1, Elsewhere, TransitionElsewhere DEF Added, ContIsSet
  <1> QED
    BY <1>1, <1>2, <1>3, <1>4, <1>5, <1>6, <1>7
    DEF Next, Worker, RecoveryThread, Handlers

\* The inductive invariant holds of every behaviour of the lifecycle.
THEOREM Invariant == Spec => []IInv
  BY InitInvariant, NextInvariant, PTL DEF Spec

\* The variables have their types whatever fails.
THEOREM TypeCorrect == Spec => []TypeOK
  BY Invariant, PTL DEF IInv

\* driver_ops_lock is never left behind by a call that has returned.
THEOREM LockReleased == Spec => []OpsLockReleased
  <1>1. IInv => OpsLockReleased
    BY DEF IInv, Callers, LockIsHeld, Unloading, OpsLockReleased, TypeOK, Contexts
  <1> QED
    BY <1>1, Invariant, PTL

\* An unload or an idle shutdown ends with its bit cleared, although the
\* recovery work may run the same sequence at the same time.
THEOREM TransitionEndsClean == Spec => []NoStuckTransition
  <1>1. IInv => NoStuckTransition
    BY DEF IInv, Transition, Done, MhiOffLabels, NoStuckTransition
  <1> QED
    BY <1>1, Invariant, PTL

-----------------------------------------------------------------------------
(***************************************************************************)
(* The callbacks of the host driver are kept while it is registered        *)
(***************************************************************************)

\* Only its own event is at the steps of a handler that end it.
StepsFit ==
    /\ pc["worker"] \in {"probe", "probe_end", "probe_failed"} => event.type = "FW_READY"
    /\ pc["worker"] = "recover_link" => event.type = "RECOVERY"

OpsOwned == OpsAreRegistered /\ StepsFit

\* The worker goes on.
LEMMA WorkerGoes ==
    ASSUME TypeOK, NEW label, Goto("worker", label)
    PROVE  pc'["worker"] = label /\ pc'["recovery"] = pc["recovery"]
  BY DEF TypeOK, Goto, Threads

\* A power sequence and the device do not touch what this is about.
LEMMA OpsUntouched ==
    ASSUME OpsOwned, UNCHANGED <<driver_ops, event>>,
           Has("DRIVER_REGISTERED") => Has("DRIVER_REGISTERED")',
           \/ pc'["worker"] = pc["worker"]
           \/ pc'["worker"] \notin {"probe", "probe_end", "probe_failed", "recover_link"}
    PROVE  OpsOwned'
  BY DEF OpsOwned, OpsAreRegistered, StepsFit

LEMMA PowerKeepsOps ==
    ASSUME IInv, OpsOwned, NEW t \in Threads, Power(t)
    PROVE  OpsOwned'
  <1>1. UNCHANGED <<driver_ops, event>>
    BY DEF Power, CallDriverRemove, ShutdownOff, MhiPowerOffTest, MhiPowerOff, DeviceOff,
       ShutdownClear, PowerupBegin, PowerOnDevice, StartMhi
  <1>2. Has("DRIVER_REGISTERED") => Has("DRIVER_REGISTERED")'
    BY DEF Power, CallDriverRemove, ShutdownOff, MhiPowerOffTest, MhiPowerOff, DeviceOff,
       ShutdownClear, PowerupBegin, PowerOnDevice, StartMhi, Has, ClearBits
  <1>3. \/ pc'["worker"] = pc["worker"]
        \/ pc'["worker"] \notin {"probe", "probe_end", "probe_failed", "recover_link"}
    <2>1. /\ cont \in [Threads -> ContLabels] /\ pc \in [Threads -> Labels]
          /\ "worker" \in Threads
      BY DEF IInv, TypeOK, ContLabels, Threads
    <2> QED
      BY <2>1 DEF Power, CallDriverRemove, ShutdownOff, MhiPowerOffTest, MhiPowerOff,
         DeviceOff, ShutdownClear, PowerupBegin, PowerOnDevice, StartMhi, Goto, ContLabels
  <1> QED
    BY <1>1, <1>2, <1>3, OpsUntouched

LEMMA HandlersKeepOps ==
    ASSUME IInv, OpsOwned, Handlers
    PROVE  OpsOwned'
  <1>1. TypeOK /\ (pc["worker"] = "idle" => event.type = "none")
    BY DEF IInv, Callers, IdleHasNoEvent, NoEvent, Event
  <1>2. \A label : Goto("worker", label) => pc'["worker"] = label
    BY <1>1, WorkerGoes
  <1>3. NoEvent.type = "none"
    BY DEF NoEvent, Event
  <1> USE <1>1, <1>2, <1>3 DEF OpsOwned, OpsAreRegistered, StepsFit, Has
  <1>4. CASE RegisterDriverHdlr \/ RegisterDriverDone
    BY <1>4 DEF RegisterDriverHdlr, RegisterDriverDone, Take, Drop, Continue, Finish, SetBit
  <1>5. CASE UnregisterDriverHdlr \/ UnregisterDriverDone
    BY <1>5 DEF UnregisterDriverHdlr, UnregisterDriverDone, Take, Continue, Finish, SetBit
  <1>6. CASE IdleRestartHdlr \/ IdleRestartPowered
    BY <1>6 DEF IdleRestartHdlr, IdleRestartPowered, Take, Continue, Finish, SetBit, ClearBits
  <1>7. CASE IdleShutdownHdlr \/ PowerDownHdlr \/ PowerDownDone
    BY <1>7 DEF IdleShutdownHdlr, PowerDownHdlr, PowerDownDone, Take, Continue, Finish, SetBit
  <1>8. CASE FwReadyHdlr
    BY <1>8 DEF FwReadyHdlr, Take, Drop, Continue
  <1>9. CASE CallDriverProbe
    BY <1>9 DEF CallDriverProbe, ProbeFails, ClearBits
  <1>10. CASE ProbeEnd \/ FwReadyFailed \/ FwReadyDown
    BY <1>10 DEF ProbeEnd, FwReadyFailed, FwReadyDown, Finish, ClearBits
  <1>11. CASE RecoveryRefused \/ RecoveryHdlr \/ LinkDownSkipped
    BY <1>11 DEF RecoveryRefused, RecoveryHdlr, LinkDownSkipped, Drop
  <1>12. CASE LinkDownHdlr
    BY <1>12 DEF LinkDownHdlr, Take, Continue
  <1>13. CASE RecoverLinkDown
    BY <1>13 DEF RecoverLinkDown, Finish, SetBit, ClearBits
  <1> QED
    BY <1>4, <1>5, <1>6, <1>7, <1>8, <1>9, <1>10, <1>11, <1>12, <1>13 DEF Handlers

LEMMA NextOpsOwned == IInv /\ OpsOwned /\ [Next]_vars => OpsOwned'
  <1> SUFFICES ASSUME IInv, OpsOwned, [Next]_vars
               PROVE  OpsOwned'
    OBVIOUS
  <1>1. TypeOK
    BY DEF IInv
  <1>2. CASE \E t \in Threads : Power(t)
    BY <1>2, PowerKeepsOps
  <1>3. CASE Handlers
    BY <1>3, HandlersKeepOps
  <1>4. CASE RecoveryWork \/ RecoveryRamdump \/ RecoveryDone
    <2>1. pc'["worker"] = pc["worker"]
      BY <1>1, <1>4 DEF RecoveryWork, RecoveryRamdump, RecoveryDone, Goto, TypeOK, Threads
    <2> QED
      BY <1>4, <2>1, OpsUntouched DEF RecoveryWork, RecoveryRamdump, RecoveryDone,
         recoveryRest, Has
  <1>5. CASE Device
    <2>1. UNCHANGED driver_ops /\ UNCHANGED <<event, pc>>
      BY <1>1, <1>5, DeviceTypes DEF Device, FwInitDone, MhiFatalError, MhiSysError, MhiRddm,
         LinkDown, FwBootTimeout, RddmTimeout, Reboot, deviceRest
    <2>2. Has("DRIVER_REGISTERED") => Has("DRIVER_REGISTERED")'
      BY <1>5 DEF Device, FwInitDone, MhiFatalError, MhiSysError, MhiRddm, LinkDown,
         FwBootTimeout, RddmTimeout, Reboot, deviceRest, Has, SetBit
    <2> QED
      BY <2>1, <2>2, OpsUntouched
  <1>6. CASE Host
    <2>1. UNCHANGED <<driver_ops, event, pc>>
      BY <1>6 DEF Host, RegisterDriver, UnregisterDriver, UnregisterPoweredUp,
         UnregisterTimeout, IdleShutdown, CheckRecovery, ReinitRecovery, RecoveryCompleted,
         RecoveryWaitTimeout, PostDown, IdleRestart, IdleRestartDone, IdleRestartTimeout,
         callRest, threadVars
    <2>2. Has("DRIVER_REGISTERED") => Has("DRIVER_REGISTERED")'
      BY <1>6 DEF Host, RegisterDriver, UnregisterDriver, UnregisterPoweredUp,
         UnregisterTimeout, IdleShutdown, CheckRecovery, ReinitRecovery, RecoveryCompleted,
         RecoveryWaitTimeout, PostDown, IdleRestart, IdleRestartDone, IdleRestartTimeout,
         callRest, Has, ClearBits
    <2> QED
      BY <2>1, <2>2, OpsUntouched
  <1>7. CASE UNCHANGED vars
    BY <1>7, OpsUntouched DEF vars, threadVars, Has
  <1> QED
    BY <1>2, <1>3, <1>4, <1>5, <1>6, <1>7
       DEF Next, Worker, RecoveryThread, Handlers, Threads

\* Whatever fails, a host driver that is not registered has no callbacks.
THEOREM OpsInvariant == Spec => []OpsAreRegistered
  <1>1. Init => OpsOwned
    BY DEF Init, OpsOwned, OpsAreRegistered, StepsFit, Threads
  <1>2. OpsOwned => OpsAreRegistered
    BY DEF OpsOwned
  <1> QED
    BY <1>1, <1>2, NextOpsOwned, Invariant, PTL DEF Spec

-----------------------------------------------------------------------------
(***************************************************************************)
(* The device that has not failed                                          *)
(***************************************************************************)

Queued(type) == \E i \in DOMAIN event_list : event_list[i].type = type
\* An event that is queued or handled.
Underway(type) == Queued(type) \/ event.type = type

PowerUpLabels  == {"powerup", "power_on", "start_mhi", "up"}
ShutdownLabels == {"shutdown", "off", "clear", "down"} \cup MhiOffLabels

Off == ~powered_on /\ mhi_state = {} /\ fw = "off"
On  == powered_on /\ mhi_state = {"INIT", "POWER_ON"} /\ fw \in {"booting", "up"}

\* The firmware was started, and the host driver was not told yet.
Booting == fw = "booting" \/ Queued("FW_READY") \/ pc["worker"] = "probe"

\* It tells once.
FwReadyOnce ==
    \A i, j \in DOMAIN event_list :
       event_list[i].type = "FW_READY" /\ event_list[j].type = "FW_READY" => i = j

\* There is no trace of a failure, and nobody recovers from one.
Healthy ==
    /\ ~dump_valid /\ timers \subseteq {"fw_boot"}
    /\ driver_state \cap {"DRIVER_RECOVERY", "FW_BOOT_RECOVERY", "DEV_ERR_NOTIFY"} = {}
    /\ pc["recovery"] = "idle" /\ ~recovery_work
    /\ Queued("RECOVERY") => Has("IN_REBOOT")

\* The power of the device, by the step of the worker.
Powered ==
    /\ pc["worker"] \in {"idle", "shutdown", "off", "down"} => On \/ Off
    /\ pc["worker"] \in {"up", "probe", "probe_end", "probe_failed", "mhi_off", "mhi_power_off"} => On
    /\ pc["worker"] \in {"clear", "powerup", "power_on"} => Off
    /\ pc["worker"] = "start_mhi"  => powered_on /\ mhi_state = {} /\ fw = "off"
    /\ pc["worker"] = "device_off" => powered_on /\ mhi_state = {"INIT"} /\ fw = "off"
    /\ pc["worker"] = "down" => Off \/ (event.type = "IDLE_SHUTDOWN" /\ host # "asleep")

\* The steps that an event is handled in, and the bit that it sets.
Handling ==
    /\ event.type = "none" => pc["worker"] = "idle"
    /\ event.type \in {"REGISTER_DRIVER", "IDLE_RESTART"} => pc["worker"] \in PowerUpLabels
    /\ event.type \in {"UNREGISTER_DRIVER", "IDLE_SHUTDOWN", "POWER_DOWN"} =>
          pc["worker"] \in ShutdownLabels
    /\ event.type = "FW_READY" =>
          pc["worker"] \in {"probe", "probe_end", "probe_failed"} \cup ShutdownLabels
    /\ event.type # "RECOVERY"
    /\ pc["worker"] \in MhiOffLabels => cont["worker"] = "clear"
    /\ Has("DRIVER_UNLOADING") => event.type = "UNREGISTER_DRIVER"
    /\ Has("DRIVER_IDLE_SHUTDOWN") => event.type = "IDLE_SHUTDOWN"
    /\ event.type = "UNREGISTER_DRIVER" /\ pc["worker"] = "shutdown" => Has("DRIVER_UNLOADING")
    /\ event.type = "REGISTER_DRIVER" => Has("DRIVER_LOADING")
    /\ event.type = "IDLE_RESTART" => Has("DRIVER_IDLE_RESTART")

\* A host driver that is not registered is nowhere, and its device is off; it
\* is gone before it is unregistered.
Registration ==
    /\ Has("DRIVER_REGISTERED") => ~Underway("REGISTER_DRIVER")
    /\ Has("DRIVER_REGISTERED") \/ event.type = "REGISTER_DRIVER" => driver_ops
    /\ ~Has("DRIVER_REGISTERED") =>
          /\ host = "absent" /\ ~Has("DRIVER_PROBED")
          /\ event.type # "REGISTER_DRIVER" => Off /\ ~driver_ops
    /\ call["module"] \in Unloading \/ event.type = "FW_READY" => Has("DRIVER_REGISTERED")
    /\ event.type = "UNREGISTER_DRIVER" /\ pc["worker"] # "shutdown" =>
          host = "absent" /\ ~Has("DRIVER_PROBED")

\* A host driver that is loaded does not sleep; one that wakes up does, with
\* the device off.
Sleeping ==
    /\ Underway("IDLE_RESTART") => host = "asleep"
    /\ Queued("IDLE_RESTART") /\ pc["worker"] = "idle" => Off
    /\ \/ call["idle"] \in Unloading \ {"going_down"}
       \/ Queued("IDLE_SHUTDOWN")
       \/ event.type = "IDLE_SHUTDOWN" /\ pc["worker"] = "shutdown"
       => host # "asleep"
    /\ Has("DRIVER_LOADING") \/ Underway("REGISTER_DRIVER") => host = "absent" /\ call["idle"] = "idle"
    /\ pc["worker"] = "probe_end" => host = "up"

\* While the firmware boots, the host driver waits for it.
Boots == ~Has("IN_REBOOT") =>
    /\ FwReadyOnce
    /\ fw = "booting" => ~Queued("FW_READY") /\ pc["worker"] # "probe"
    /\ Queued("FW_READY") => pc["worker"] # "probe"
    /\ "fw_boot" \in timers => fw = "booting" \/ Queued("FW_READY")
    /\ pc["worker"] = "up" => Booting
    /\ pc["worker"] = "idle" /\ host = "asleep" /\ On => Booting
    /\ Booting \/ Underway("REGISTER_DRIVER") \/ Underway("IDLE_RESTART") => ~PowerUpCompleted
    /\ Booting =>
          /\ On /\ pc["worker"] \in {"idle", "up", "probe"}
          /\ \/ /\ Has("DRIVER_LOADING")
                /\ call["module"] \in {"registering", "idle", "unregister_wait"}
             \/ /\ Has("DRIVER_IDLE_RESTART") /\ host = "asleep"
                /\ call["idle"] = "power_up_wait" \/ event.type = "IDLE_RESTART"

Sound == Healthy /\ Powered /\ Handling /\ Registration /\ Sleeping /\ Boots
Unfailed == faults = 0 => Sound

\* What a post and a taken event do to the queue.
LEMMA QueueGrows ==
    ASSUME TypeOK, NEW e \in EventSet, event_list' = Append(event_list, e)
    PROVE  /\ \A type : Queued(type)' <=> Queued(type) \/ type = e.type
           /\ FwReadyOnce /\ (e.type # "FW_READY" \/ ~Queued("FW_READY")) => FwReadyOnce'
  <1> DEFINE n == Len(event_list) + 1
  <1>1. /\ DOMAIN event_list = 1..Len(event_list) /\ DOMAIN event_list' = 1..n
        /\ Len(event_list) \in Nat
        /\ \A i \in DOMAIN event_list : event_list'[i] = event_list[i]
        /\ event_list'[n] = e
    BY AppendKeeps
  <1>2. \A i \in DOMAIN event_list' : i \in DOMAIN event_list \/ i = n
    BY <1>1
  <1>3. DOMAIN event_list \subseteq DOMAIN event_list' /\ n \in DOMAIN event_list'
    BY <1>1
  <1> HIDE DEF n
  <1>4. \A type : Queued(type)' <=> Queued(type) \/ type = e.type
    BY <1>1, <1>2, <1>3 DEF Queued
  <1>5. FwReadyOnce /\ (e.type # "FW_READY" \/ ~Queued("FW_READY")) => FwReadyOnce'
    BY <1>1, <1>2 DEF Queued, FwReadyOnce
  <1> QED
    BY <1>4, <1>5

LEMMA QueueShrinks ==
    ASSUME TypeOK, event_list # <<>>, event_list' = Tail(event_list)
    PROVE  /\ Queued(Head(event_list).type)
           /\ \A type : Queued(type)' => Queued(type)
           /\ \A type : type # Head(event_list).type => (Queued(type)' <=> Queued(type))
           /\ FwReadyOnce => FwReadyOnce'
           /\ FwReadyOnce /\ Head(event_list).type = "FW_READY" => ~Queued("FW_READY")'
           /\ PostedOnce => \A type : type = Head(event_list).type /\ type \notin Unwaited =>
                               ~Queued(type)'
  <1>1. /\ Head(event_list) = event_list[1] /\ 1 \in DOMAIN event_list
        /\ \A i \in DOMAIN event_list' : /\ i \in Nat \ {0} /\ i + 1 \in DOMAIN event_list
                                          /\ event_list'[i] = event_list[i + 1]
    BY TailKeeps
  <1>2. \A i \in DOMAIN event_list : i = 1 \/ i - 1 \in DOMAIN event_list'
    <2>1. /\ Len(event_list) \in Nat \ {0} /\ DOMAIN event_list = 1..Len(event_list)
          /\ DOMAIN event_list' = 1..Len(event_list) - 1
      BY DEF TypeOK
    <2> QED
      BY <2>1
  <1>3. \A i \in DOMAIN event_list : i # 1 =>
               i - 1 \in DOMAIN event_list' /\ event_list'[i - 1] = event_list[i]
    <2> SUFFICES ASSUME NEW i \in DOMAIN event_list, i # 1
                 PROVE  i - 1 \in DOMAIN event_list' /\ event_list'[i - 1] = event_list[i]
      OBVIOUS
    <2>1. i - 1 \in DOMAIN event_list' /\ i \in Nat
      BY <1>2 DEF TypeOK
    <2>2. (i - 1) + 1 = i
      BY <2>1
    <2> QED
      BY <1>1, <2>1, <2>2
  <1>4. \A i \in DOMAIN event_list' : i + 1 # 1
    BY <1>1
  <1>5. \A i, j \in DOMAIN event_list' : i + 1 = j + 1 => i = j
    BY <1>1
  <1>6. Queued(Head(event_list).type) /\ \A type : Queued(type)' => Queued(type)
    BY <1>1 DEF Queued
  <1>7. \A type : type # Head(event_list).type => (Queued(type) => Queued(type)')
    BY <1>1, <1>3 DEF Queued
  <1>8. FwReadyOnce => FwReadyOnce'
    BY <1>1, <1>5 DEF FwReadyOnce
  <1>9. FwReadyOnce /\ Head(event_list).type = "FW_READY" => ~Queued("FW_READY")'
    BY <1>1, <1>4 DEF FwReadyOnce, Queued
  <1>10. ASSUME PostedOnce, NEW type, type = Head(event_list).type, type \notin Unwaited
         PROVE  ~Queued(type)'
    <2> SUFFICES ASSUME NEW i \in DOMAIN event_list', event_list'[i].type = type PROVE FALSE
      BY DEF Queued
    <2>1. i + 1 \in DOMAIN event_list /\ event_list[i + 1].type = event_list[1].type
      BY <1>1, <1>10
    <2>2. i + 1 = 1
      BY <1>1, <1>10, <2>1 DEF PostedOnce
    <2> QED
      BY <1>4, <2>2
  <1> QED
    BY <1>6, <1>7, <1>8, <1>9, <1>10

\* The queue as it was.
LEMMA QueueStays ==
    ASSUME UNCHANGED event_list
    PROVE  /\ \A type : Queued(type)' <=> Queued(type)
           /\ FwReadyOnce' <=> FwReadyOnce
  BY DEF Queued, FwReadyOnce

\* Who waits for an event that is under way.
LEMMA UnderwayWaits ==
    ASSUME PostersWait, NEW type, Underway(type)
    PROVE  PosterWaits(type)
  BY DEF Underway, Queued, PostersWait, Pending

\* A fault is counted.
LEMMA FaultCounts ==
    ASSUME TypeOK
    PROVE  faults \in Nat /\ (faults' = faults + 1 => faults' # 0) /\ (Fault => faults' # 0)
  BY DriverAssumption DEF TypeOK, Fault

LEMMA EventTyped == TypeOK => event.type \in EventTypes \cup {"none"}
  BY DEF TypeOK, EventSet, EventTypes, NoEvent, Event

\* Only a registration or an idle restart powers the device up.
LEMMA PowersUp ==
    ASSUME IInv, Sound, pc["worker"] \in PowerUpLabels
    PROVE  /\ \/ /\ event.type = "REGISTER_DRIVER" /\ call["module"] = "registering"
                 /\ Has("DRIVER_LOADING")
              \/ /\ event.type = "IDLE_RESTART" /\ Has("DRIVER_IDLE_RESTART")
                 /\ host = "asleep" /\ Has("DRIVER_REGISTERED")
           /\ Has("IN_REBOOT") \/ ~PowerUpCompleted
  <1> USE DEF IInv, Sound
  <1>1. event.type \in {"REGISTER_DRIVER", "IDLE_RESTART"}
    BY EventTyped DEF Handling, EventTypes, PowerUpLabels, ShutdownLabels, MhiOffLabels
  <1>2. Underway(event.type)
    BY DEF Underway
  <1>3. event.type = "REGISTER_DRIVER" => call["module"] = "registering"
    BY <1>2, UnderwayWaits DEF Callers, PosterWaits
  <1>4. event.type = "IDLE_RESTART" => host = "asleep" /\ Has("DRIVER_REGISTERED")
    BY <1>2 DEF Sleeping, Registration
  <1>5. Has("IN_REBOOT") \/ ~PowerUpCompleted
    BY <1>1, <1>2 DEF Boots
  <1> QED
    BY <1>1, <1>3, <1>4, <1>5 DEF Handling

\* Events that exclude each other: whoever posted the one does not post the other.
LEMMA Excludes ==
    ASSUME IInv
    PROVE  /\ event.type \notin Unwaited => ~Queued(event.type)
           /\ Underway("UNREGISTER_DRIVER") =>
                 /\ ~Underway("REGISTER_DRIVER") /\ ~Underway("IDLE_RESTART")
                 /\ ~Underway("POWER_DOWN")
                 /\ call["module"] = "going_down"
                 /\ call["idle"] \notin {"restarting", "power_up_wait"}
           /\ Underway("IDLE_SHUTDOWN") \/ Underway("POWER_DOWN") =>
                 call["idle"] = "going_down" /\ ~Underway("IDLE_RESTART")
           /\ Underway("IDLE_RESTART") => call["idle"] = "restarting"
           /\ Underway("REGISTER_DRIVER") => call["module"] = "registering"
  <1> USE DEF IInv, Callers
  <1>1. event.type \notin Unwaited => ~Queued(event.type)
    BY DEF Queued, PostedOnce
  <1>2. \A type : Underway(type) => PosterWaits(type)
    BY UnderwayWaits
  <1> QED
    BY <1>1, <1>2 DEF PosterWaits, LockIsHeld, Unloading

\* An event is taken from the queue.
LEMMA Takes ==
    ASSUME IInv, NEW type, Take(type), event_list' = Tail(event_list)
    PROVE  /\ pc["worker"] = "idle" /\ event.type = "none" /\ Head(event_list).type = type
           /\ Queued(type)
           /\ \A other : Queued(other)' => Queued(other)
           /\ \A other : other # type => (Queued(other)' <=> Queued(other))
           /\ type \notin Unwaited => ~Queued(type)'
           /\ FwReadyOnce => FwReadyOnce'
           /\ FwReadyOnce /\ type = "FW_READY" => ~Queued(type)'
  <1>1. /\ pc["worker"] = "idle" /\ event_list # <<>> /\ Head(event_list).type = type /\ TypeOK
        /\ PostedOnce
    BY DEF Take, IInv, Callers
  <1>2. event.type = "none"
    BY <1>1 DEF IInv, Callers, IdleHasNoEvent, NoEvent, Event
  <1> QED
    BY <1>1, <1>2, QueueShrinks

LEMMA Replies ==
    ASSUME TypeOK, NEW label
    PROVE  /\ call' = [call EXCEPT !["module"] = label] =>
                 call'["module"] = label /\ call'["idle"] = call["idle"]
           /\ call' = [call EXCEPT !["idle"] = label] =>
                 call'["idle"] = label /\ call'["module"] = call["module"]
  BY DEF TypeOK, Contexts

\* The power sequences, which only the worker runs.
LEMMA PowerSound ==
    ASSUME IInv, Sound, faults = 0, faults' = 0, Power("worker")
    PROVE  Sound'
  <1> TypeOK /\ "worker" \in Threads
    BY DEF IInv, Threads
  <1> USE DEF Sound
  <1>1. CASE CallDriverRemove("worker")
    <2>1. /\ pc["worker"] = "shutdown" /\ pc'["recovery"] = pc["recovery"]
          /\ \/ /\ ~driver_ops /\ pc'["worker"] = "off" /\ UNCHANGED <<driver_state, host>>
             \/ /\ driver_ops /\ Has("DRIVER_UNLOADING") /\ pc'["worker"] = "off"
                /\ host' = "absent" /\ driver_state' = driver_state \ {"DRIVER_PROBED"}
             \/ /\ driver_ops /\ ~Has("DRIVER_UNLOADING") /\ Has("DRIVER_IDLE_SHUTDOWN")
                /\ pc'["worker"] = "off" /\ host' = "asleep" /\ UNCHANGED driver_state
             \/ /\ driver_ops /\ ~Has("DRIVER_UNLOADING") /\ Has("DRIVER_IDLE_SHUTDOWN")
                /\ pc'["worker"] = "down" /\ UNCHANGED host
                /\ driver_state' = driver_state \ {"DRIVER_IDLE_SHUTDOWN"}
             \/ /\ ~Has("DRIVER_UNLOADING") /\ ~Has("DRIVER_IDLE_SHUTDOWN")
                /\ pc'["worker"] = "off" /\ UNCHANGED <<driver_state, host>>
          /\ UNCHANGED <<event_list, event, call, completions, recovery_work, timers,
                         driver_ops, powered_on, mhi_state, fw, dump_valid, cont>>
      BY <1>1, WorkerGoes, FaultCounts DEF CallDriverRemove, busVars, deviceVars, callVars,
         Healthy, Has, HasAny, ClearBits, Powered, On, Off
    <2>2. (\A type : Queued(type)' <=> Queued(type)) /\ (FwReadyOnce' <=> FwReadyOnce)
      BY <2>1, QueueStays
    <2>3. /\ Has("DRIVER_UNLOADING") => /\ event.type = "UNREGISTER_DRIVER"
                                       /\ ~Underway("REGISTER_DRIVER") /\ ~Underway("IDLE_RESTART")
          /\ Has("DRIVER_IDLE_SHUTDOWN") =>
                /\ event.type = "IDLE_SHUTDOWN" /\ call["idle"] = "going_down"
                /\ ~Underway("IDLE_RESTART") /\ ~Queued("IDLE_SHUTDOWN")
      BY Excludes DEF Handling, Underway, Unwaited
    <2>4. Healthy'
      BY <2>1, <2>2, <2>3 DEF Healthy, Has
    <2>5. Powered'
      BY <2>1, <2>2, <2>3 DEF Powered, On, Off, Handling, Has, MhiOffLabels, PowerUpLabels,
         ShutdownLabels, Sleeping, Underway, Unloading
    <2>6. Handling'
      BY <2>1, <2>2, <2>3 DEF Handling, Has, MhiOffLabels, PowerUpLabels, ShutdownLabels
    <2>7. Registration'
      BY <2>1, <2>2, <2>3 DEF Registration, Has, Off, Underway, Unloading, Handling,
         MhiOffLabels, PowerUpLabels, ShutdownLabels
    <2>8. Sleeping'
      BY <2>1, <2>2, <2>3 DEF Sleeping, Has, Off, Underway, Unloading, Handling, MhiOffLabels,
         PowerUpLabels, ShutdownLabels
    <2>9. Boots'
      BY <2>1, <2>2, <2>3 DEF Boots, Booting, On, Has, Underway, PowerUpCompleted
    <2> QED
      BY <2>4, <2>5, <2>6, <2>7, <2>8, <2>9 DEF Sound
  <1>2. CASE ShutdownOff("worker")
    <2>1. /\ pc["worker"] = "off" /\ pc'["recovery"] = pc["recovery"]
          /\ \/ On /\ pc'["worker"] = "mhi_off" /\ cont'["worker"] = "clear"
             \/ Off /\ pc'["worker"] = "clear" /\ UNCHANGED cont
          /\ timers' \subseteq timers
          /\ UNCHANGED <<event_list, event, call, completions, recovery_work, driver_ops,
                         driver_state, host, powered_on, mhi_state, fw, dump_valid>>
      BY <1>2, WorkerGoes, FaultCounts DEF ShutdownOff, busVars, callVars, Healthy, Has,
         HasAny, ClearBits, CanDump, Powered, On, Off, TypeOK
    <2>2. (\A type : Queued(type)' <=> Queued(type)) /\ (FwReadyOnce' <=> FwReadyOnce)
      BY <2>1, QueueStays
    <2>3. Healthy'
      BY <2>1, <2>2 DEF Healthy, Has
    <2>4. Powered'
      BY <2>1, <2>2 DEF Powered, On, Off
    <2>5. Handling'
      BY <2>1, <2>2 DEF Handling, Has, MhiOffLabels, PowerUpLabels, ShutdownLabels
    <2>6. Registration'
      BY <2>1, <2>2 DEF Registration, Has, Off, Underway, Unloading
    <2>7. Sleeping'
      BY <2>1, <2>2 DEF Sleeping, Has, Off, Underway, Unloading
    <2>8. Boots'
      BY <2>1, <2>2 DEF Boots, Booting, On, Off, Has, Underway, PowerUpCompleted
    <2> QED
      BY <2>3, <2>4, <2>5, <2>6, <2>7, <2>8 DEF Sound
  <1>3. CASE MhiPowerOffTest("worker")
    <2>1. /\ pc["worker"] = "mhi_off" /\ pc'["worker"] = "mhi_power_off"
          /\ pc'["recovery"] = pc["recovery"]
          /\ UNCHANGED <<event_list, event, call, completions, recovery_work, timers,
                         driver_ops, driver_state, host, powered_on, mhi_state, fw,
                         dump_valid, cont>>
      BY <1>3, WorkerGoes, FaultCounts DEF MhiPowerOffTest, busVars, deviceVars, callVars,
         Healthy, Has, MhiOn, HasAny, ClearBits, Powered, On, Off
    <2>2. (\A type : Queued(type)' <=> Queued(type)) /\ (FwReadyOnce' <=> FwReadyOnce)
      BY <2>1, QueueStays
    <2>3. Healthy'
      BY <2>1, <2>2 DEF Healthy, Has
    <2>4. Powered'
      BY <2>1, <2>2 DEF Powered, On, Off
    <2>5. Handling'
      BY <2>1, <2>2 DEF Handling, Has, MhiOffLabels, PowerUpLabels, ShutdownLabels
    <2>6. Registration'
      BY <2>1, <2>2 DEF Registration, Has, Off, Underway, Unloading
    <2>7. Sleeping'
      BY <2>1, <2>2 DEF Sleeping, Has, Off, Underway, Unloading
    <2>8. Boots'
      BY <2>1, <2>2 DEF Boots, Booting, On, Has, Underway, PowerUpCompleted
    <2> QED
      BY <2>3, <2>4, <2>5, <2>6, <2>7, <2>8 DEF Sound
  <1>4. CASE MhiPowerOff("worker")
    <2>1. /\ pc["worker"] = "mhi_power_off" /\ pc'["worker"] = "device_off"
          /\ pc'["recovery"] = pc["recovery"]
          /\ mhi_state' = {"INIT"} /\ fw' = "off"
          /\ UNCHANGED <<event_list, event, call, completions, recovery_work, timers,
                         driver_ops, driver_state, host, powered_on, dump_valid, cont>>
      BY <1>4, WorkerGoes, FaultCounts DEF MhiPowerOff, busVars, callVars, Healthy, Has,
         MhiOn, HasAny, ClearBits, Powered, On, Off
    <2>2. (\A type : Queued(type)' <=> Queued(type)) /\ (FwReadyOnce' <=> FwReadyOnce)
      BY <2>1, QueueStays
    <2>3. Healthy'
      BY <2>1, <2>2 DEF Healthy, Has
    <2>4. Powered'
      BY <2>1, <2>2 DEF Powered, On, Off
    <2>5. Handling'
      BY <2>1, <2>2 DEF Handling, Has, MhiOffLabels, PowerUpLabels, ShutdownLabels
    <2>6. Registration'
      BY <2>1, <2>2 DEF Registration, Has, Off, Underway, Unloading, Powered, On
    <2>7. Sleeping'
      BY <2>1, <2>2 DEF Sleeping, Has, Off, Underway, Unloading, Powered, On
    <2>8. Boots'
      BY <2>1, <2>2 DEF Boots, Booting, On, Has, Underway, PowerUpCompleted
    <2> QED
      BY <2>3, <2>4, <2>5, <2>6, <2>7, <2>8 DEF Sound
  <1>5. CASE DeviceOff("worker")
    <2>1. /\ pc["worker"] = "device_off" /\ pc'["worker"] = "clear"
          /\ pc'["recovery"] = pc["recovery"]
          /\ mhi_state' = {} /\ fw' = "off" /\ ~powered_on'
          /\ UNCHANGED <<event_list, event, call, completions, recovery_work, timers,
                         driver_ops, driver_state, host, dump_valid>>
      BY <1>5, WorkerGoes, FaultCounts DEF DeviceOff, busVars, callVars, Healthy, Has, MhiOn,
         HasAny, ClearBits, Powered, On, Off, Handling, MhiOffLabels
    <2>2. (\A type : Queued(type)' <=> Queued(type)) /\ (FwReadyOnce' <=> FwReadyOnce)
      BY <2>1, QueueStays
    <2>3. Healthy'
      BY <2>1, <2>2 DEF Healthy, Has
    <2>4. Powered'
      BY <2>1, <2>2 DEF Powered, On, Off
    <2>5. Handling'
      BY <2>1, <2>2 DEF Handling, Has, MhiOffLabels, PowerUpLabels, ShutdownLabels
    <2>6. Registration'
      BY <2>1, <2>2 DEF Registration, Has, Off, Underway, Unloading
    <2>7. Sleeping'
      BY <2>1, <2>2 DEF Sleeping, Has, Off, Underway, Unloading
    <2>8. Boots'
      BY <2>1, <2>2 DEF Boots, Booting, On, Has, Underway, PowerUpCompleted
    <2> QED
      BY <2>3, <2>4, <2>5, <2>6, <2>7, <2>8 DEF Sound
  <1>6. CASE ShutdownClear("worker")
    <2>1. /\ pc["worker"] = "clear" /\ pc'["worker"] = "down" /\ pc'["recovery"] = pc["recovery"]
          /\ driver_state' \subseteq driver_state /\ ~Has("DRIVER_UNLOADING")'
          /\ ~Has("DRIVER_IDLE_SHUTDOWN")'
          /\ \A b \in {"IN_REBOOT", "DRIVER_LOADING", "DRIVER_IDLE_RESTART", "DRIVER_REGISTERED",
                 "DRIVER_PROBED"} :
                Has(b)' = Has(b)
          /\ UNCHANGED <<event_list, event, call, completions, recovery_work, timers,
                         driver_ops, host, powered_on, mhi_state, fw, dump_valid, cont>>
      BY <1>6, WorkerGoes, FaultCounts DEF ShutdownClear, busVars, deviceVars, callVars,
         Healthy, Has, HasAny, ClearBits, Powered, On, Off
    <2>2. (\A type : Queued(type)' <=> Queued(type)) /\ (FwReadyOnce' <=> FwReadyOnce)
      BY <2>1, QueueStays
    <2>3. Healthy'
      BY <2>1, <2>2 DEF Healthy, Has
    <2>4. Powered'
      BY <2>1, <2>2 DEF Powered, On, Off
    <2>5. Handling'
      BY <2>1, <2>2 DEF Handling, Has, MhiOffLabels, PowerUpLabels, ShutdownLabels
    <2>6. Registration'
      BY <2>1, <2>2 DEF Registration, Has, Off, Underway, Unloading
    <2>7. Sleeping'
      BY <2>1, <2>2 DEF Sleeping, Has, Off, Underway, Unloading
    <2>8. Boots'
      BY <2>1, <2>2 DEF Boots, Booting, On, Has, Underway, PowerUpCompleted
    <2> QED
      BY <2>3, <2>4, <2>5, <2>6, <2>7, <2>8 DEF Sound
  <1>7. CASE PowerupBegin("worker")
    <2>1. /\ pc["worker"] = "powerup" /\ pc'["worker"] = "power_on"
          /\ pc'["recovery"] = pc["recovery"]
          /\ ~dump_valid'
          /\ UNCHANGED <<event_list, event, call, completions, recovery_work, timers,
                         driver_ops, driver_state, host, powered_on, mhi_state, fw, cont>>
      BY <1>7, WorkerGoes, FaultCounts DEF PowerupBegin, busVars, deviceVars, callVars,
         Healthy, Has, HasAny, ClearBits, Powered, On, Off
    <2>2. (\A type : Queued(type)' <=> Queued(type)) /\ (FwReadyOnce' <=> FwReadyOnce)
      BY <2>1, QueueStays
    <2>3. Healthy'
      BY <2>1, <2>2 DEF Healthy, Has
    <2>4. Powered'
      BY <2>1, <2>2 DEF Powered, On, Off
    <2>5. Handling'
      BY <2>1, <2>2 DEF Handling, Has, MhiOffLabels, PowerUpLabels, ShutdownLabels
    <2>6. Registration'
      BY <2>1, <2>2 DEF Registration, Has, Off, Underway, Unloading
    <2>7. Sleeping'
      BY <2>1, <2>2 DEF Sleeping, Has, Off, Underway, Unloading
    <2>8. Boots'
      BY <2>1, <2>2 DEF Boots, Booting, On, Has, Underway, PowerUpCompleted
    <2> QED
      BY <2>3, <2>4, <2>5, <2>6, <2>7, <2>8 DEF Sound
  <1>8. CASE PowerOnDevice("worker")
    <2>1. /\ pc["worker"] = "power_on" /\ pc'["worker"] = "start_mhi"
          /\ pc'["recovery"] = pc["recovery"]
          /\ powered_on'
          /\ UNCHANGED <<event_list, event, call, completions, recovery_work, timers,
                         driver_ops, driver_state, host, mhi_state, fw, dump_valid, cont>>
      BY <1>8, WorkerGoes, FaultCounts DEF PowerOnDevice, busVars, callVars, Healthy, Has,
         HasAny, ClearBits, Powered, On, Off
    <2>2. (\A type : Queued(type)' <=> Queued(type)) /\ (FwReadyOnce' <=> FwReadyOnce)
      BY <2>1, QueueStays
    <2>3. /\ \/ /\ event.type = "REGISTER_DRIVER" /\ call["module"] = "registering"
                /\ Has("DRIVER_LOADING")
             \/ /\ event.type = "IDLE_RESTART" /\ Has("DRIVER_IDLE_RESTART")
                /\ host = "asleep" /\ Has("DRIVER_REGISTERED")
          /\ Has("IN_REBOOT") \/ ~PowerUpCompleted
      BY <2>1, PowersUp DEF PowerUpLabels
    <2>4. Healthy'
      BY <2>1, <2>2, <2>3 DEF Healthy, Has
    <2>5. Powered'
      BY <2>1, <2>2, <2>3 DEF Powered, On, Off
    <2>6. Handling'
      BY <2>1, <2>2, <2>3 DEF Handling, Has, MhiOffLabels, PowerUpLabels, ShutdownLabels
    <2>7. Registration'
      BY <2>1, <2>2, <2>3 DEF Registration, Has, Off, Underway, Unloading, Powered, On
    <2>8. Sleeping'
      BY <2>1, <2>2, <2>3 DEF Sleeping, Has, Off, Underway, Unloading
    <2>9. Boots'
      BY <2>1, <2>2, <2>3 DEF Boots, Booting, On, Has, Underway, PowerUpCompleted
    <2> QED
      BY <2>4, <2>5, <2>6, <2>7, <2>8, <2>9 DEF Sound
  <1>9. CASE StartMhi("worker")
    <2>1. /\ pc["worker"] = "start_mhi" /\ pc'["worker"] = "up" /\ pc'["recovery"] = pc["recovery"]
          /\ mhi_state' = {"INIT", "POWER_ON"} /\ fw' = "booting"
          /\ timers' = timers \cup {"fw_boot"}
          /\ UNCHANGED <<event_list, event, call, completions, recovery_work, driver_ops,
                         driver_state, host, powered_on, dump_valid, cont>>
      BY <1>9, WorkerGoes, FaultCounts DEF StartMhi, busVars, callVars, Healthy, Has, HasAny,
         ClearBits, Powered, On, Off, MhiStarts, MhiFails, MhiTimesOutInRddm
    <2>2. (\A type : Queued(type)' <=> Queued(type)) /\ (FwReadyOnce' <=> FwReadyOnce)
      BY <2>1, QueueStays
    <2>3. /\ \/ /\ event.type = "REGISTER_DRIVER" /\ call["module"] = "registering"
                /\ Has("DRIVER_LOADING")
             \/ /\ event.type = "IDLE_RESTART" /\ Has("DRIVER_IDLE_RESTART")
                /\ host = "asleep" /\ Has("DRIVER_REGISTERED")
          /\ Has("IN_REBOOT") \/ ~PowerUpCompleted
      BY <2>1, PowersUp DEF PowerUpLabels
    <2>4. Healthy'
      BY <2>1, <2>2, <2>3 DEF Healthy, Has
    <2>5. Powered'
      BY <2>1, <2>2, <2>3 DEF Powered, On, Off
    <2>6. Handling'
      BY <2>1, <2>2, <2>3 DEF Handling, Has, MhiOffLabels, PowerUpLabels, ShutdownLabels
    <2>7. Registration'
      BY <2>1, <2>2, <2>3 DEF Registration, Has, Off, Underway, Unloading
    <2>8. Sleeping'
      BY <2>1, <2>2, <2>3 DEF Sleeping, Has, Off, Underway, Unloading
    <2>9. Boots'
      BY <2>1, <2>2, <2>3 DEF Boots, Booting, On, Off, Has, Underway, PowerUpCompleted, Powered
    <2> QED
      BY <2>4, <2>5, <2>6, <2>7, <2>8, <2>9 DEF Sound
  <1> QED
    BY <1>1, <1>2, <1>3, <1>4, <1>5, <1>6, <1>7, <1>8, <1>9 DEF Power

\* The handlers of the worker.
LEMMA HandlersSound ==
    ASSUME IInv, Sound, faults = 0, faults' = 0, Handlers
    PROVE  Sound'
  <1> TypeOK /\ "worker" \in Threads
    BY DEF IInv, Threads
  <1> USE DEF Sound
  <1>1. CASE RegisterDriverHdlr
    <2>1. Take("REGISTER_DRIVER") /\ event_list' = Tail(event_list)
      BY <1>1 DEF RegisterDriverHdlr, Continue, Drop
    <2>2. /\ pc["worker"] = "idle" /\ event.type = "none"
          /\ Head(event_list).type = "REGISTER_DRIVER"
          /\ Queued("REGISTER_DRIVER")
          /\ \A other : Queued(other)' => Queued(other)
          /\ \A other : other # "REGISTER_DRIVER" => (Queued(other)' <=> Queued(other))
          /\ FwReadyOnce => FwReadyOnce'
          /\ ~Queued("REGISTER_DRIVER")'
      BY <2>1, Takes DEF Unwaited
    <2>3. /\ pc'["recovery"] = pc["recovery"]
          /\ \/ /\ Has("IN_REBOOT") /\ call'["module"] = "idle" /\ call'["idle"] = call["idle"]
                /\ UNCHANGED <<event, driver_state, driver_ops>> /\ pc'["worker"] = "idle"
             \/ /\ ~Has("IN_REBOOT") /\ pc'["worker"] = "powerup" /\ event'.type = "REGISTER_DRIVER"
                /\ driver_state' = driver_state \cup {"DRIVER_LOADING"} /\ driver_ops'
                /\ UNCHANGED call
          /\ UNCHANGED <<completions, recovery_work, timers, host, powered_on, mhi_state, fw,
                         dump_valid, cont>>
      BY <1>1, <2>2, WorkerGoes, Replies DEF RegisterDriverHdlr, workerRest, busVars,
         callVars, Reply, Has, HasAny, SetBit, ClearBits, Continue, Drop
    <2>4. Healthy'
      BY <2>1, <2>2, <2>3 DEF Healthy, Has
    <2>5. Powered'
      BY <2>1, <2>2, <2>3 DEF Powered, On, Off, Registration, Has, Underway, Unloading
    <2>6. Handling'
      BY <2>1, <2>2, <2>3 DEF Handling, Has, MhiOffLabels, PowerUpLabels, ShutdownLabels
    <2>7. Registration'
      BY <2>1, <2>2, <2>3 DEF Registration, Has, Off, Underway, Unloading
    <2>8. Sleeping'
      BY <2>1, <2>2, <2>3 DEF Sleeping, Has, Off, Underway, Unloading, Registration
    <2>9. Boots'
      BY <2>1, <2>2, <2>3 DEF Boots, Booting, On, Off, Has, Underway, PowerUpCompleted,
         Registration, Unloading, Powered
    <2> QED
      BY <2>4, <2>5, <2>6, <2>7, <2>8, <2>9 DEF Sound
  <1>2. CASE RegisterDriverDone
    <2>1. /\ pc'["recovery"] = pc["recovery"] /\ pc["worker"] = "up"
          /\ event.type = "REGISTER_DRIVER"
          /\ pc'["worker"] = "idle" /\ event'.type = "none"
          /\ driver_state' = driver_state \cup {"DRIVER_REGISTERED"}
          /\ call'["module"] = "idle" /\ call'["idle"] = call["idle"]
          /\ UNCHANGED <<event_list, completions, recovery_work, timers, driver_ops, host,
                         powered_on, mhi_state, fw, dump_valid, cont>>
      BY <1>2, WorkerGoes, Replies DEF RegisterDriverDone, workerRest, busVars, callVars,
         Reply, Has, HasAny, SetBit, ClearBits, Finish, NoEvent, Event, Handling, PowerUpLabels
    <2>2. (\A type : Queued(type)' <=> Queued(type)) /\ (FwReadyOnce' <=> FwReadyOnce)
      BY <2>1, QueueStays
    <2>3. ~Queued(event.type)
      BY <2>1, Excludes DEF Unwaited
    <2>4. Healthy'
      BY <2>1, <2>2, <2>3 DEF Healthy, Has
    <2>5. Powered'
      BY <2>1, <2>2, <2>3 DEF Powered, On, Off
    <2>6. Handling'
      BY <2>1, <2>2, <2>3 DEF Handling, Has, MhiOffLabels, PowerUpLabels, ShutdownLabels
    <2>7. Registration'
      BY <2>1, <2>2, <2>3 DEF Registration, Has, Off, Underway, Unloading
    <2>8. Sleeping'
      BY <2>1, <2>2, <2>3 DEF Sleeping, Has, Off, Underway, Unloading
    <2>9. Boots'
      BY <2>1, <2>2, <2>3 DEF Boots, Booting, On, Has, Underway, PowerUpCompleted
    <2> QED
      BY <2>4, <2>5, <2>6, <2>7, <2>8, <2>9 DEF Sound
  <1>3. CASE UnregisterDriverHdlr
    <2>1. Take("UNREGISTER_DRIVER") /\ event_list' = Tail(event_list)
      BY <1>3 DEF UnregisterDriverHdlr, Continue
    <2>2. /\ pc["worker"] = "idle" /\ event.type = "none"
          /\ Head(event_list).type = "UNREGISTER_DRIVER"
          /\ Queued("UNREGISTER_DRIVER")
          /\ \A other : Queued(other)' => Queued(other)
          /\ \A other : other # "UNREGISTER_DRIVER" => (Queued(other)' <=> Queued(other))
          /\ FwReadyOnce => FwReadyOnce'
          /\ ~Queued("UNREGISTER_DRIVER")'
      BY <2>1, Takes DEF Unwaited
    <2>3. /\ pc'["recovery"] = pc["recovery"] /\ pc'["worker"] = "shutdown"
          /\ event'.type = "UNREGISTER_DRIVER"
          /\ driver_state' = driver_state \cup {"DRIVER_UNLOADING"}
          /\ UNCHANGED <<call, completions, recovery_work, timers, driver_ops, host,
                         powered_on, mhi_state, fw, dump_valid, cont>>
      BY <1>3, <2>2, WorkerGoes, Replies DEF UnregisterDriverHdlr, workerRest, busVars,
         callVars, Has, HasAny, SetBit, ClearBits, Continue
    <2>4. /\ call["module"] = "going_down" /\ call["idle"] \notin {"restarting", "power_up_wait"}
          /\ ~Underway("IDLE_RESTART")
      BY <2>2, Excludes DEF Underway
    <2>5. Healthy'
      BY <2>1, <2>2, <2>3, <2>4 DEF Healthy, Has
    <2>6. Powered'
      BY <2>1, <2>2, <2>3, <2>4 DEF Powered, On, Off
    <2>7. Handling'
      BY <2>1, <2>2, <2>3, <2>4 DEF Handling, Has, MhiOffLabels, PowerUpLabels, ShutdownLabels
    <2>8. Registration'
      BY <2>1, <2>2, <2>3, <2>4 DEF Registration, Has, Off, Underway, Unloading
    <2>9. Sleeping'
      BY <2>1, <2>2, <2>3, <2>4 DEF Sleeping, Has, Off, Underway, Unloading
    <2>10. Boots'
      BY <2>1, <2>2, <2>3, <2>4 DEF Boots, Booting, On, Has, Underway, PowerUpCompleted
    <2> QED
      BY <2>5, <2>6, <2>7, <2>8, <2>9, <2>10 DEF Sound
  <1>4. CASE UnregisterDriverDone
    <2>1. /\ pc'["recovery"] = pc["recovery"] /\ pc["worker"] = "down"
          /\ event.type = "UNREGISTER_DRIVER"
          /\ pc'["worker"] = "idle" /\ event'.type = "none" /\ ~driver_ops'
          /\ driver_state' = driver_state \ {"DRIVER_REGISTERED"}
          /\ call'["module"] = "idle" /\ call'["idle"] = call["idle"]
          /\ UNCHANGED <<event_list, completions, recovery_work, timers, host, powered_on,
                         mhi_state, fw, dump_valid, cont>>
      BY <1>4, WorkerGoes, Replies DEF UnregisterDriverDone, workerRest, busVars, callVars,
         Reply, Has, HasAny, SetBit, ClearBits, Finish, NoEvent, Event
    <2>2. (\A type : Queued(type)' <=> Queued(type)) /\ (FwReadyOnce' <=> FwReadyOnce)
      BY <2>1, QueueStays
    <2>3. ~Has("DRIVER_UNLOADING") /\ ~Has("DRIVER_IDLE_SHUTDOWN")
      BY <2>1 DEF IInv, Transition, HasAny, Done, MhiOffLabels, Has
    <2>4. /\ call["module"] = "going_down" /\ call["idle"] \notin {"restarting", "power_up_wait"}
          /\ ~Underway("IDLE_RESTART") /\ ~Underway("REGISTER_DRIVER")
          /\ ~Queued("UNREGISTER_DRIVER")
      BY <2>1, Excludes DEF Underway, Unwaited
    <2>5. Off /\ host = "absent" /\ ~Has("DRIVER_PROBED")
      BY <2>1 DEF Powered, Registration, Has
    <2>6. Healthy'
      BY <2>1, <2>2, <2>3, <2>4, <2>5 DEF Healthy, Has
    <2>7. Powered'
      BY <2>1, <2>2, <2>3, <2>4, <2>5 DEF Powered, On, Off
    <2>8. Handling'
      BY <2>1, <2>2, <2>3, <2>4, <2>5 DEF Handling, Has, MhiOffLabels, PowerUpLabels,
         ShutdownLabels
    <2>9. Registration'
      BY <2>1, <2>2, <2>3, <2>4, <2>5 DEF Registration, Has, Off, Underway, Unloading
    <2>10. Sleeping'
      BY <2>1, <2>2, <2>3, <2>4, <2>5 DEF Sleeping, Has, Off, Underway, Unloading
    <2>11. Boots'
      BY <2>1, <2>2, <2>3, <2>4, <2>5 DEF Boots, Booting, On, Off, Has, Underway,
         PowerUpCompleted
    <2> QED
      BY <2>6, <2>7, <2>8, <2>9, <2>10, <2>11 DEF Sound
  <1>5. CASE IdleRestartHdlr
    <2>1. Take("IDLE_RESTART") /\ event_list' = Tail(event_list)
      BY <1>5 DEF IdleRestartHdlr, Continue
    <2>2. /\ pc["worker"] = "idle" /\ event.type = "none" /\ Head(event_list).type = "IDLE_RESTART"
          /\ Queued("IDLE_RESTART")
          /\ \A other : Queued(other)' => Queued(other)
          /\ \A other : other # "IDLE_RESTART" => (Queued(other)' <=> Queued(other))
          /\ FwReadyOnce => FwReadyOnce'
          /\ ~Queued("IDLE_RESTART")'
      BY <2>1, Takes DEF Unwaited
    <2>3. /\ pc'["recovery"] = pc["recovery"] /\ pc'["worker"] = "powerup"
          /\ event'.type = "IDLE_RESTART"
          /\ driver_state' = driver_state \cup {"DRIVER_IDLE_RESTART"}
          /\ UNCHANGED <<call, completions, recovery_work, timers, driver_ops, host,
                         powered_on, mhi_state, fw, dump_valid, cont>>
      BY <1>5, <2>2, WorkerGoes, Replies DEF IdleRestartHdlr, workerRest, busVars, callVars,
         Has, HasAny, SetBit, ClearBits, Continue
    <2>4. call["idle"] = "restarting"
      BY <2>2, Excludes DEF Underway
    <2>5. Healthy'
      BY <2>1, <2>2, <2>3, <2>4 DEF Healthy, Has
    <2>6. Powered'
      BY <2>1, <2>2, <2>3, <2>4 DEF Powered, On, Off, Sleeping, Has, Underway, Unloading
    <2>7. Handling'
      BY <2>1, <2>2, <2>3, <2>4 DEF Handling, Has, MhiOffLabels, PowerUpLabels, ShutdownLabels
    <2>8. Registration'
      BY <2>1, <2>2, <2>3, <2>4 DEF Registration, Has, Off, Underway, Unloading
    <2>9. Sleeping'
      BY <2>1, <2>2, <2>3, <2>4 DEF Sleeping, Has, Off, Underway, Unloading
    <2>10. Boots'
      BY <2>1, <2>2, <2>3, <2>4 DEF Boots, Booting, On, Off, Has, Underway, PowerUpCompleted,
         Sleeping, Unloading, Powered
    <2> QED
      BY <2>5, <2>6, <2>7, <2>8, <2>9, <2>10 DEF Sound
  <1>6. CASE IdleRestartPowered
    <2>1. /\ pc'["recovery"] = pc["recovery"] /\ pc["worker"] = "up" /\ event.type = "IDLE_RESTART"
          /\ pc'["worker"] = "idle" /\ event'.type = "none"
          /\ call'["idle"] = "power_up_wait" /\ call'["module"] = call["module"]
          /\ UNCHANGED <<event_list, completions, recovery_work, timers, driver_ops,
                         driver_state, host, powered_on, mhi_state, fw, dump_valid, cont>>
      BY <1>6, WorkerGoes, Replies DEF IdleRestartPowered, workerRest, busVars, callVars,
         Reply, Has, HasAny, SetBit, ClearBits, Finish, NoEvent, Event, Handling, PowerUpLabels
    <2>2. (\A type : Queued(type)' <=> Queued(type)) /\ (FwReadyOnce' <=> FwReadyOnce)
      BY <2>1, QueueStays
    <2>3. ~Queued(event.type)
      BY <2>1, Excludes DEF Unwaited
    <2>4. Healthy'
      BY <2>1, <2>2, <2>3 DEF Healthy, Has
    <2>5. Powered'
      BY <2>1, <2>2, <2>3 DEF Powered, On, Off
    <2>6. Handling'
      BY <2>1, <2>2, <2>3 DEF Handling, Has, MhiOffLabels, PowerUpLabels, ShutdownLabels
    <2>7. Registration'
      BY <2>1, <2>2, <2>3 DEF Registration, Has, Off, Underway, Unloading
    <2>8. Sleeping'
      BY <2>1, <2>2, <2>3 DEF Sleeping, Has, Off, Underway, Unloading
    <2>9. Boots'
      BY <2>1, <2>2, <2>3 DEF Boots, Booting, On, Has, Underway, PowerUpCompleted
    <2> QED
      BY <2>4, <2>5, <2>6, <2>7, <2>8, <2>9 DEF Sound
  <1>7. CASE IdleShutdownHdlr
    <2>1. Take("IDLE_SHUTDOWN") /\ event_list' = Tail(event_list)
      BY <1>7 DEF IdleShutdownHdlr, Continue
    <2>2. /\ pc["worker"] = "idle" /\ event.type = "none" /\ Head(event_list).type = "IDLE_SHUTDOWN"
          /\ Queued("IDLE_SHUTDOWN")
          /\ \A other : Queued(other)' => Queued(other)
          /\ \A other : other # "IDLE_SHUTDOWN" => (Queued(other)' <=> Queued(other))
          /\ FwReadyOnce => FwReadyOnce'
          /\ ~Queued("IDLE_SHUTDOWN")'
      BY <2>1, Takes DEF Unwaited
    <2>3. /\ pc'["recovery"] = pc["recovery"] /\ pc'["worker"] = "shutdown"
          /\ event'.type = "IDLE_SHUTDOWN"
          /\ driver_state' = driver_state \cup {"DRIVER_IDLE_SHUTDOWN"}
          /\ UNCHANGED <<call, completions, recovery_work, timers, driver_ops, host,
                         powered_on, mhi_state, fw, dump_valid, cont>>
      BY <1>7, <2>2, WorkerGoes, Replies DEF IdleShutdownHdlr, workerRest, busVars, callVars,
         Has, HasAny, SetBit, ClearBits, Continue
    <2>4. call["idle"] = "going_down" /\ ~Underway("IDLE_RESTART")
      BY <2>2, Excludes DEF Underway
    <2>5. Healthy'
      BY <2>1, <2>2, <2>3, <2>4 DEF Healthy, Has
    <2>6. Powered'
      BY <2>1, <2>2, <2>3, <2>4 DEF Powered, On, Off
    <2>7. Handling'
      BY <2>1, <2>2, <2>3, <2>4 DEF Handling, Has, MhiOffLabels, PowerUpLabels, ShutdownLabels
    <2>8. Registration'
      BY <2>1, <2>2, <2>3, <2>4 DEF Registration, Has, Off, Underway, Unloading
    <2>9. Sleeping'
      BY <2>1, <2>2, <2>3, <2>4 DEF Sleeping, Has, Off, Underway, Unloading
    <2>10. Boots'
      BY <2>1, <2>2, <2>3, <2>4 DEF Boots, Booting, On, Off, Has, Underway, PowerUpCompleted,
         Sleeping, Unloading
    <2> QED
      BY <2>5, <2>6, <2>7, <2>8, <2>9, <2>10 DEF Sound
  <1>8. CASE PowerDownHdlr
    <2>1. Take("POWER_DOWN") /\ event_list' = Tail(event_list)
      BY <1>8 DEF PowerDownHdlr, Continue
    <2>2. /\ pc["worker"] = "idle" /\ event.type = "none" /\ Head(event_list).type = "POWER_DOWN"
          /\ Queued("POWER_DOWN")
          /\ \A other : Queued(other)' => Queued(other)
          /\ \A other : other # "POWER_DOWN" => (Queued(other)' <=> Queued(other))
          /\ FwReadyOnce => FwReadyOnce'
          /\ ~Queued("POWER_DOWN")'
      BY <2>1, Takes DEF Unwaited
    <2>3. /\ pc'["recovery"] = pc["recovery"] /\ pc'["worker"] = "shutdown"
          /\ event'.type = "POWER_DOWN"
          /\ UNCHANGED <<call, completions, recovery_work, timers, driver_ops, driver_state,
                         host, powered_on, mhi_state, fw, dump_valid, cont>>
      BY <1>8, <2>2, WorkerGoes, Replies DEF PowerDownHdlr, workerRest, busVars, callVars,
         Has, HasAny, SetBit, ClearBits, Continue
    <2>4. call["idle"] = "going_down" /\ ~Underway("IDLE_RESTART")
      BY <2>2, Excludes DEF Underway
    <2>5. Healthy'
      BY <2>1, <2>2, <2>3, <2>4 DEF Healthy, Has
    <2>6. Powered'
      BY <2>1, <2>2, <2>3, <2>4 DEF Powered, On, Off
    <2>7. Handling'
      BY <2>1, <2>2, <2>3, <2>4 DEF Handling, Has, MhiOffLabels, PowerUpLabels, ShutdownLabels
    <2>8. Registration'
      BY <2>1, <2>2, <2>3, <2>4 DEF Registration, Has, Off, Underway, Unloading
    <2>9. Sleeping'
      BY <2>1, <2>2, <2>3, <2>4 DEF Sleeping, Has, Off, Underway, Unloading
    <2>10. Boots'
      BY <2>1, <2>2, <2>3, <2>4 DEF Boots, Booting, On, Off, Has, Underway, PowerUpCompleted,
         Sleeping, Unloading
    <2> QED
      BY <2>5, <2>6, <2>7, <2>8, <2>9, <2>10 DEF Sound
  <1>9. CASE PowerDownDone
    <2>1. /\ pc'["recovery"] = pc["recovery"] /\ pc["worker"] = "down"
          /\ event.type \in {"IDLE_SHUTDOWN", "POWER_DOWN"}
          /\ pc'["worker"] = "idle" /\ event'.type = "none"
          /\ call'["idle"] = "idle" /\ call'["module"] = call["module"]
          /\ UNCHANGED <<event_list, completions, recovery_work, timers, driver_ops,
                         driver_state, host, powered_on, mhi_state, fw, dump_valid, cont>>
      BY <1>9, WorkerGoes, Replies DEF PowerDownDone, workerRest, busVars, callVars, Reply,
         Has, HasAny, SetBit, ClearBits, Finish, NoEvent, Event
    <2>2. (\A type : Queued(type)' <=> Queued(type)) /\ (FwReadyOnce' <=> FwReadyOnce)
      BY <2>1, QueueStays
    <2>3. ~Has("DRIVER_UNLOADING") /\ ~Has("DRIVER_IDLE_SHUTDOWN")
      BY <2>1 DEF IInv, Transition, HasAny, Done, MhiOffLabels, Has
    <2>4. call["idle"] = "going_down" /\ ~Underway("IDLE_RESTART") /\ ~Queued(event.type)
      BY <2>1, Excludes DEF Underway, Unwaited
    <2>5. Healthy'
      BY <2>1, <2>2, <2>3, <2>4 DEF Healthy, Has
    <2>6. Powered'
      BY <2>1, <2>2, <2>3, <2>4 DEF Powered, On, Off
    <2>7. Handling'
      BY <2>1, <2>2, <2>3, <2>4 DEF Handling, Has, MhiOffLabels, PowerUpLabels, ShutdownLabels
    <2>8. Registration'
      BY <2>1, <2>2, <2>3, <2>4 DEF Registration, Has, Off, Underway, Unloading
    <2>9. Sleeping'
      BY <2>1, <2>2, <2>3, <2>4 DEF Sleeping, Has, Off, Underway, Unloading, Powered, On
    <2>10. Boots'
      BY <2>1, <2>2, <2>3, <2>4 DEF Boots, Booting, On, Off, Has, Underway, PowerUpCompleted,
         Powered, Sleeping, Unloading
    <2> QED
      BY <2>5, <2>6, <2>7, <2>8, <2>9, <2>10 DEF Sound
  <1>10. CASE FwReadyHdlr
    <2>1. Take("FW_READY") /\ event_list' = Tail(event_list)
      BY <1>10 DEF FwReadyHdlr, Continue, Drop
    <2>2. /\ pc["worker"] = "idle" /\ event.type = "none" /\ Head(event_list).type = "FW_READY"
          /\ Queued("FW_READY")
          /\ \A other : Queued(other)' => Queued(other)
          /\ \A other : other # "FW_READY" => (Queued(other)' <=> Queued(other))
          /\ FwReadyOnce => FwReadyOnce'
          /\ FwReadyOnce => ~Queued("FW_READY")'
      BY <2>1, Takes DEF Unwaited
    <2>3. /\ pc'["recovery"] = pc["recovery"]
          /\ \/ /\ Has("IN_REBOOT") /\ UNCHANGED <<event, driver_state,
                                                   timers>> /\ pc'["worker"] = "idle"
             \/ /\ ~Has("IN_REBOOT") /\ pc'["worker"] = "probe" /\ event'.type = "FW_READY"
                /\ timers' = timers \ {"fw_boot"}
                /\ driver_state' \subseteq driver_state \cup {"FW_READY"}
                /\ \A b \in {"IN_REBOOT", "DRIVER_LOADING", "DRIVER_IDLE_RESTART", "DRIVER_REGISTERED",
                             "DRIVER_PROBED"} : Has(b)' = Has(b)
          /\ UNCHANGED <<call, completions, recovery_work, driver_ops, host, powered_on,
                         mhi_state, fw, dump_valid, cont>>
      BY <1>10, <2>2, WorkerGoes, Replies DEF FwReadyHdlr, workerRest, busVars, callVars, Has,
         HasAny, SetBit, ClearBits, Continue, Drop, Healthy
    <2>4. Healthy'
      BY <2>1, <2>2, <2>3 DEF Healthy, Has
    <2>5. Powered'
      BY <2>1, <2>2, <2>3 DEF Powered, On, Off, Boots, Booting, Has, Underway, PowerUpCompleted
    <2>6. Handling'
      BY <2>1, <2>2, <2>3 DEF Handling, Has, MhiOffLabels, PowerUpLabels, ShutdownLabels
    <2>7. Registration'
      BY <2>1, <2>2, <2>3 DEF Registration, Has, Off, Underway, Unloading, Boots, Booting, On,
         PowerUpCompleted
    <2>8. Sleeping'
      BY <2>1, <2>2, <2>3 DEF Sleeping, Has, Off, Underway, Unloading, Boots, Booting, On,
         PowerUpCompleted
    <2>9. Boots'
      BY <2>1, <2>2, <2>3 DEF Boots, Booting, On, Has, Underway, PowerUpCompleted, Healthy
    <2> QED
      BY <2>4, <2>5, <2>6, <2>7, <2>8, <2>9 DEF Sound
  <1>11. CASE ProbeEnd
    <2>1. /\ pc'["recovery"] = pc["recovery"] /\ pc["worker"] = "probe_end"
          /\ pc'["worker"] = "idle" /\ event'.type = "none"
          /\ UNCHANGED driver_state
          /\ UNCHANGED <<event_list, call, completions, recovery_work, timers, driver_ops,
                         host, powered_on, mhi_state, fw, dump_valid, cont>>
      BY <1>11, WorkerGoes, Replies DEF ProbeEnd, workerRest, busVars, callVars, Has, HasAny,
         SetBit, ClearBits, Finish, NoEvent, Event, Healthy
    <2>2. (\A type : Queued(type)' <=> Queued(type)) /\ (FwReadyOnce' <=> FwReadyOnce)
      BY <2>1, QueueStays
    <2>3. ~Has("DRIVER_UNLOADING") /\ ~Has("DRIVER_IDLE_SHUTDOWN")
      BY <2>1 DEF IInv, Transition, HasAny, Done, MhiOffLabels, Has
    <2>4. Healthy'
      BY <2>1, <2>2, <2>3 DEF Healthy, Has
    <2>5. Powered'
      BY <2>1, <2>2, <2>3 DEF Powered, On, Off
    <2>6. Handling'
      BY <2>1, <2>2, <2>3 DEF Handling, Has, MhiOffLabels, PowerUpLabels, ShutdownLabels
    <2>7. Registration'
      BY <2>1, <2>2, <2>3 DEF Registration, Has, Off, Underway, Unloading, Sleeping, Handling,
         MhiOffLabels, PowerUpLabels, ShutdownLabels
    <2>8. Sleeping'
      BY <2>1, <2>2, <2>3 DEF Sleeping, Has, Off, Underway, Unloading
    <2>9. Boots'
      BY <2>1, <2>2, <2>3 DEF Boots, Booting, On, Off, Has, Underway, PowerUpCompleted,
         Sleeping, Unloading
    <2> QED
      BY <2>4, <2>5, <2>6, <2>7, <2>8, <2>9 DEF Sound
  <1>12. CASE FwReadyFailed
    <2>1. /\ pc'["recovery"] = pc["recovery"] /\ pc["worker"] = "probe_failed"
          /\ pc'["worker"] = "shutdown"
          /\ UNCHANGED <<event_list, event, call, completions, recovery_work, timers,
                         driver_ops, driver_state, host, powered_on, mhi_state, fw,
                         dump_valid, cont>>
      BY <1>12, WorkerGoes, Replies DEF FwReadyFailed, workerRest, busVars, callVars, Has,
         HasAny, SetBit, ClearBits, Finish, NoEvent, Event, Healthy
    <2>2. (\A type : Queued(type)' <=> Queued(type)) /\ (FwReadyOnce' <=> FwReadyOnce)
      BY <2>1, QueueStays
    <2>3. Healthy'
      BY <2>1, <2>2 DEF Healthy, Has
    <2>4. Powered'
      BY <2>1, <2>2 DEF Powered, On, Off
    <2>5. Handling'
      BY <2>1, <2>2 DEF Handling, Has, MhiOffLabels, PowerUpLabels, ShutdownLabels
    <2>6. Registration'
      BY <2>1, <2>2 DEF Registration, Has, Off, Underway, Unloading
    <2>7. Sleeping'
      BY <2>1, <2>2 DEF Sleeping, Has, Off, Underway, Unloading, Handling, MhiOffLabels,
         PowerUpLabels, ShutdownLabels
    <2>8. Boots'
      BY <2>1, <2>2 DEF Boots, Booting, On, Has, Underway, PowerUpCompleted
    <2> QED
      BY <2>3, <2>4, <2>5, <2>6, <2>7, <2>8 DEF Sound
  <1>13. CASE FwReadyDown
    <2>1. /\ pc'["recovery"] = pc["recovery"] /\ pc["worker"] = "down" /\ event.type = "FW_READY"
          /\ pc'["worker"] = "idle" /\ event'.type = "none"
          /\ driver_state' = driver_state \ {"FW_READY"}
          /\ UNCHANGED <<event_list, call, completions, recovery_work, timers, driver_ops,
                         host, powered_on, mhi_state, fw, dump_valid, cont>>
      BY <1>13, WorkerGoes, Replies DEF FwReadyDown, workerRest, busVars, callVars, Has,
         HasAny, SetBit, ClearBits, Finish, NoEvent, Event
    <2>2. (\A type : Queued(type)' <=> Queued(type)) /\ (FwReadyOnce' <=> FwReadyOnce)
      BY <2>1, QueueStays
    <2>3. ~Has("DRIVER_UNLOADING") /\ ~Has("DRIVER_IDLE_SHUTDOWN")
      BY <2>1 DEF IInv, Transition, HasAny, Done, MhiOffLabels, Has
    <2>4. Healthy'
      BY <2>1, <2>2, <2>3 DEF Healthy, Has
    <2>5. Powered'
      BY <2>1, <2>2, <2>3 DEF Powered, On, Off
    <2>6. Handling'
      BY <2>1, <2>2, <2>3 DEF Handling, Has, MhiOffLabels, PowerUpLabels, ShutdownLabels
    <2>7. Registration'
      BY <2>1, <2>2, <2>3 DEF Registration, Has, Off, Underway, Unloading
    <2>8. Sleeping'
      BY <2>1, <2>2, <2>3 DEF Sleeping, Has, Off, Underway, Unloading, Powered, On
    <2>9. Boots'
      BY <2>1, <2>2, <2>3 DEF Boots, Booting, On, Off, Has, Underway, PowerUpCompleted, Powered
    <2> QED
      BY <2>4, <2>5, <2>6, <2>7, <2>8, <2>9 DEF Sound
  <1>14. CASE RecoveryRefused
    <2>1. Take("RECOVERY") /\ event_list' = Tail(event_list)
      BY <1>14 DEF RecoveryRefused, Drop
    <2>2. /\ pc["worker"] = "idle" /\ event.type = "none" /\ Head(event_list).type = "RECOVERY"
          /\ Queued("RECOVERY")
          /\ \A other : Queued(other)' => Queued(other)
          /\ \A other : other # "RECOVERY" => (Queued(other)' <=> Queued(other))
          /\ FwReadyOnce => FwReadyOnce'

      BY <2>1, Takes DEF Unwaited
    <2>3. /\ pc'["recovery"] = pc["recovery"] /\ pc'["worker"] = "idle"
          /\ UNCHANGED <<event, call, completions, recovery_work, timers, driver_ops,
                         driver_state, host, powered_on, mhi_state, fw, dump_valid, cont>>
      BY <1>14, <2>2, WorkerGoes, Replies DEF RecoveryRefused, workerRest, busVars, callVars,
         Has, HasAny, SetBit, ClearBits, Drop
    <2>4. Healthy'
      BY <2>1, <2>2, <2>3 DEF Healthy, Has
    <2>5. Powered'
      BY <2>1, <2>2, <2>3 DEF Powered, On, Off
    <2>6. Handling'
      BY <2>1, <2>2, <2>3 DEF Handling, Has, MhiOffLabels, PowerUpLabels, ShutdownLabels
    <2>7. Registration'
      BY <2>1, <2>2, <2>3 DEF Registration, Has, Off, Underway, Unloading
    <2>8. Sleeping'
      BY <2>1, <2>2, <2>3 DEF Sleeping, Has, Off, Underway, Unloading
    <2>9. Boots'
      BY <2>1, <2>2, <2>3 DEF Boots, Booting, On, Has, Underway, PowerUpCompleted
    <2> QED
      BY <2>4, <2>5, <2>6, <2>7, <2>8, <2>9 DEF Sound
  <1>15. CASE CallDriverProbe
    <2>1. /\ pc'["recovery"] = pc["recovery"] /\ pc["worker"] = "probe"
          /\ \/ pc'["worker"] = "probe_failed" /\ UNCHANGED <<driver_state, host>>
             \/ /\ pc'["worker"] = "probe_end" /\ ~Has("IN_REBOOT") /\ Has("DRIVER_LOADING")
                /\ host' = "up"
                /\ driver_state' = (driver_state \ {"DRIVER_LOADING"}) \cup {"DRIVER_PROBED"}
             \/ /\ pc'["worker"] = "probe_end" /\ ~Has("IN_REBOOT") /\ ~Has("DRIVER_LOADING")
                /\ host' = "up" /\ driver_state' = driver_state \ {"DRIVER_IDLE_RESTART"}
          /\ UNCHANGED <<event_list, event, call, recovery_work, timers, driver_ops,
                         powered_on, mhi_state, fw, dump_valid, cont>>
      BY <1>15, WorkerGoes, Replies DEF CallDriverProbe, workerRest, busVars, callVars, Has,
         HasAny, SetBit, ClearBits, NoEvent, Event, Healthy, ProbeFails, Boots, Booting
    <2>2. (\A type : Queued(type)' <=> Queued(type)) /\ (FwReadyOnce' <=> FwReadyOnce)
      BY <2>1, QueueStays
    <2>3. /\ event.type = "FW_READY" /\ Has("DRIVER_REGISTERED") /\ ~Underway("REGISTER_DRIVER")
          /\ Has("IN_REBOOT") \/ ~Underway("IDLE_RESTART")
      <3>1. event.type = "FW_READY" /\ Has("DRIVER_REGISTERED") /\ ~Underway("REGISTER_DRIVER")
        BY <2>1, EventTyped DEF Handling, Registration, EventTypes, PowerUpLabels,
           ShutdownLabels, MhiOffLabels
      <3>2. Has("IN_REBOOT") \/ ~Underway("IDLE_RESTART")
        BY <2>1, <3>1, Excludes DEF Boots, Booting, Sleeping
      <3> QED
        BY <3>1, <3>2
    <2>4. Healthy'
      BY <2>1, <2>2, <2>3 DEF Healthy, Has
    <2>5. Powered'
      BY <2>1, <2>2, <2>3 DEF Powered, On, Off, Boots, Booting, Has, Underway, PowerUpCompleted
    <2>6. Handling'
      BY <2>1, <2>2, <2>3 DEF Handling, Has, MhiOffLabels, PowerUpLabels, ShutdownLabels
    <2>7. Registration'
      BY <2>1, <2>2, <2>3 DEF Registration, Has, Off, Underway, Unloading
    <2>8. Sleeping'
      BY <2>1, <2>2, <2>3 DEF Sleeping, Has, Off, Underway, Unloading, Boots, Booting, On,
         PowerUpCompleted
    <2>9. Boots'
      BY <2>1, <2>2, <2>3 DEF Boots, Booting, On, Off, Has, Underway, PowerUpCompleted,
         Sleeping, Unloading
    <2> QED
      BY <2>4, <2>5, <2>6, <2>7, <2>8, <2>9 DEF Sound
  <1>16. CASE RecoveryHdlr
    <2>1. Take("RECOVERY") /\ ~Has("IN_REBOOT") /\ event_list # <<>>
      BY <1>16 DEF RecoveryHdlr, RecoveryIgnored, HasAny, Has, Take
    <2>2. Queued("RECOVERY")
      BY <2>1, TailKeeps DEF Take, Queued
    <2> QED
      BY <2>1, <2>2 DEF Healthy
  <1>17. CASE LinkDownSkipped
    <2>1. Take("RECOVERY") /\ ~Has("IN_REBOOT") /\ event_list # <<>>
      BY <1>17 DEF LinkDownSkipped, RecoveryIgnored, HasAny, Has, Take
    <2>2. Queued("RECOVERY")
      BY <2>1, TailKeeps DEF Take, Queued
    <2> QED
      BY <2>1, <2>2 DEF Healthy
  <1>18. CASE LinkDownHdlr
    <2>1. Take("RECOVERY") /\ ~Has("IN_REBOOT") /\ event_list # <<>>
      BY <1>18 DEF LinkDownHdlr, RecoveryIgnored, HasAny, Has, Take
    <2>2. Queued("RECOVERY")
      BY <2>1, TailKeeps DEF Take, Queued
    <2> QED
      BY <2>1, <2>2 DEF Healthy
  <1>19. CASE RecoverLinkDown
    BY <1>19, EventTyped DEF RecoverLinkDown, Handling, EventTypes, PowerUpLabels,
       ShutdownLabels, MhiOffLabels, IInv, Callers, IdleHasNoEvent
  <1> QED
    BY <1>1, <1>2, <1>3, <1>4, <1>5, <1>6, <1>7, <1>8, <1>9, <1>10, <1>11, <1>12, <1>13,
       <1>14, <1>15, <1>16, <1>17, <1>18, <1>19 DEF Handlers

\* The firmware is off or works.
LEMMA FirmwareWorks ==
    ASSUME IInv, Sound
    PROVE  fw \in {"off", "booting", "up"} /\ (MhiOn /\ fw = "booting" => On)
  <1>1. event.type \in EventTypes \cup {"none"}
    BY EventTyped DEF IInv
  <1>2. pc["worker"] \in {"idle", "probe", "probe_end", "probe_failed"}
                           \cup PowerUpLabels \cup ShutdownLabels
    BY <1>1 DEF Sound, Handling, EventTypes, IInv, Callers, IdleHasNoEvent
  <1> QED
    BY <1>2 DEF Sound, Powered, On, Off, MhiOn, PowerUpLabels, ShutdownLabels, MhiOffLabels

\* Nothing boots when all is quiet.
LEMMA QuietBoots == Quiet => ~Booting
  BY DEF Quiet, Booting, Queued, Threads

\* The device and its timers.
LEMMA DeviceSound ==
    ASSUME IInv, Sound, faults = 0, faults' = 0, Device
    PROVE  Sound'
  <1> TypeOK /\ "worker" \in Threads
    BY DEF IInv, Threads
  <1> USE DEF Sound
  <1>1. CASE FwInitDone
    <2>1. /\ fw = "booting" /\ fw' = "up" /\ MhiOn
          /\ event_list' = Append(event_list, Event("FW_READY"))
          /\ UNCHANGED <<event, call, completions, recovery_work, timers, driver_ops,
                         driver_state, host, powered_on, mhi_state, dump_valid, cont, pc>>
      BY <1>1, FaultCounts DEF FwInitDone, deviceRest, busVars, callVars, threadVars, Has,
         HasAny, SetBit, ClearBits
    <2>2. /\ \A type : Queued(type)' <=> Queued(type) \/ type = "FW_READY"
          /\ FwReadyOnce /\ ~Queued("FW_READY") => FwReadyOnce'
      <3>1. Event("FW_READY") \in EventSet /\ Event("FW_READY").type = "FW_READY"
        BY PostedEvents DEF Event, EventTypes
      <3> QED
        BY <2>1, <3>1, QueueGrows
    <2>3. On
      BY <2>1, FirmwareWorks
    <2>4. Healthy'
      BY <2>1, <2>2, <2>3 DEF Healthy, Has
    <2>5. Powered'
      BY <2>1, <2>2, <2>3 DEF Powered, On, Off
    <2>6. Handling'
      BY <2>1, <2>2, <2>3 DEF Handling, Has, MhiOffLabels, PowerUpLabels, ShutdownLabels
    <2>7. Registration'
      BY <2>1, <2>2, <2>3 DEF Registration, Has, Off, Underway, Unloading
    <2>8. Sleeping'
      BY <2>1, <2>2, <2>3 DEF Sleeping, Has, Off, Underway, Unloading
    <2>9. Boots'
      BY <2>1, <2>2, <2>3 DEF Boots, Booting, On, Has, Underway, PowerUpCompleted
    <2> QED
      BY <2>4, <2>5, <2>6, <2>7, <2>8, <2>9 DEF Sound
  <1>2. CASE FwBootTimeout
    <2>1. fw = "off"
      BY <1>2, FirmwareWorks, FaultCounts DEF FwBootTimeout
    <2>2. Has("IN_REBOOT")
      BY <1>2, <2>1 DEF FwBootTimeout, Boots, Booting, On
    <2>3. /\ "fw_boot" \in timers /\ timers' = timers \ {"fw_boot"} /\ Has("IN_REBOOT")
          /\ event_list' = WithRecovery("TIMEOUT")
          /\ UNCHANGED <<event, call, completions, recovery_work, driver_ops, driver_state,
                         host, powered_on, mhi_state, fw, dump_valid, cont, pc>>
      BY <1>2, <2>1, <2>2, FaultCounts DEF FwBootTimeout, deviceRest, busVars, callVars,
         threadVars, Has, HasAny, SetBit, ClearBits
    <2>4. \A type : type # "RECOVERY" => (Queued(type)' <=> Queued(type))
      <3>1. Recovery("TIMEOUT") \in EventSet /\ Recovery("TIMEOUT").type = "RECOVERY"
        BY PostedEvents DEF Recovery, Reasons
      <3>2. CASE UNCHANGED event_list
        BY <3>2, QueueStays
      <3>3. CASE event_list' = Append(event_list, Recovery("TIMEOUT"))
        BY <3>1, <3>3, QueueGrows
      <3> QED
        BY <2>3, <3>2, <3>3 DEF WithRecovery
    <2>5. Healthy'
      BY <2>1, <2>2, <2>3, <2>4 DEF Healthy, Has
    <2>6. Powered'
      BY <2>1, <2>2, <2>3, <2>4 DEF Powered, On, Off
    <2>7. Handling'
      BY <2>1, <2>2, <2>3, <2>4 DEF Handling, Has, MhiOffLabels, PowerUpLabels, ShutdownLabels
    <2>8. Registration'
      BY <2>1, <2>2, <2>3, <2>4 DEF Registration, Has, Off, Underway, Unloading
    <2>9. Sleeping'
      BY <2>1, <2>2, <2>3, <2>4 DEF Sleeping, Has, Off, Underway, Unloading
    <2>10. Boots'
      BY <2>1, <2>2, <2>3, <2>4 DEF Boots, Booting, On, Has, Underway, PowerUpCompleted
    <2> QED
      BY <2>5, <2>6, <2>7, <2>8, <2>9, <2>10 DEF Sound
  <1>3. CASE Reboot
    <2>1. /\ driver_state' = driver_state \cup {"IN_REBOOT"} /\ timers' \subseteq timers
          /\ UNCHANGED <<event_list, event, call, recovery_work, driver_ops, host, powered_on,
                         mhi_state, fw, dump_valid, cont, pc>>
      BY <1>3, FaultCounts DEF Reboot, busVars, callVars, threadVars, Has, HasAny, SetBit,
         ClearBits
    <2>2. (\A type : Queued(type)' <=> Queued(type)) /\ (FwReadyOnce' <=> FwReadyOnce)
      BY <2>1, QueueStays
    <2>3. Healthy'
      BY <2>1, <2>2 DEF Healthy, Has
    <2>4. Powered'
      BY <2>1, <2>2 DEF Powered, On, Off
    <2>5. Handling'
      BY <2>1, <2>2 DEF Handling, Has, MhiOffLabels, PowerUpLabels, ShutdownLabels
    <2>6. Registration'
      BY <2>1, <2>2 DEF Registration, Has, Off, Underway, Unloading
    <2>7. Sleeping'
      BY <2>1, <2>2 DEF Sleeping, Has, Off, Underway, Unloading
    <2>8. Boots'
      BY <2>1, <2>2 DEF Boots, Booting, On, Has, Underway, PowerUpCompleted
    <2> QED
      BY <2>3, <2>4, <2>5, <2>6, <2>7, <2>8 DEF Sound
  <1>4. CASE MhiFatalError
    BY <1>4, FaultCounts DEF MhiFatalError
  <1>5. CASE MhiSysError
    BY <1>5, FaultCounts DEF MhiSysError
  <1>6. CASE MhiRddm
    BY <1>6, FirmwareWorks DEF MhiRddm
  <1>7. CASE LinkDown
    BY <1>7, FaultCounts DEF LinkDown
  <1>8. CASE RddmTimeout
    BY <1>8 DEF RddmTimeout, Healthy
  <1> QED
    BY <1>1, <1>2, <1>3, <1>4, <1>5, <1>6, <1>7, <1>8 DEF Device

\* The calls of the host driver.
LEMMA HostSound ==
    ASSUME IInv, Sound, faults = 0, faults' = 0, Host
    PROVE  Sound'
  <1> TypeOK /\ "worker" \in Threads /\ "idle" \in Contexts /\ "module" \in Contexts
    BY DEF IInv, Threads, Contexts
  <1> USE DEF Sound
  <1>1. CASE RegisterDriver
    <2>1. /\ call["module"] = "idle" /\ call["idle"] = "idle"
          /\ call'["module"] = "registering" /\ call'["idle"] = call["idle"]
          /\ ~Has("DRIVER_REGISTERED") /\ ~Has("IN_REBOOT") /\ ~PowerUpCompleted'
          /\ event_list' = Append(event_list, Event("REGISTER_DRIVER"))
          /\ UNCHANGED <<event, recovery_work, timers, driver_ops, driver_state, host,
                         powered_on, mhi_state, fw, dump_valid, cont, pc>>
      BY <1>1, Replies, FaultCounts DEF RegisterDriver, callRest, busVars, deviceVars,
         callVars, threadVars, Has, HasAny, SetBit, ClearBits, Begin, Post, NewPowerUp,
         PowerUpCompleted
    <2>2. /\ \A type : Queued(type)' <=> Queued(type) \/ type = "REGISTER_DRIVER"
          /\ FwReadyOnce => FwReadyOnce'
      <3>1. Event("REGISTER_DRIVER") \in EventSet /\ Event("REGISTER_DRIVER").type = "REGISTER_DRIVER"
        BY PostedEvents DEF Event, EventTypes
      <3> QED
        BY <2>1, <3>1, QueueGrows
    <2>3. event.type # "REGISTER_DRIVER" /\ Off
      BY <2>1, Excludes DEF Underway, Registration
    <2>4. Healthy'
      BY <2>1, <2>2, <2>3 DEF Healthy, Has
    <2>5. Powered'
      BY <2>1, <2>2, <2>3 DEF Powered, On, Off
    <2>6. Handling'
      BY <2>1, <2>2, <2>3 DEF Handling, Has, MhiOffLabels, PowerUpLabels, ShutdownLabels
    <2>7. Registration'
      BY <2>1, <2>2, <2>3 DEF Registration, Has, Off, Underway, Unloading
    <2>8. Sleeping'
      BY <2>1, <2>2, <2>3 DEF Sleeping, Has, Off, Underway, Unloading, Registration
    <2>9. Boots'
      BY <2>1, <2>2, <2>3 DEF Boots, Booting, On, Off, Has, Underway, PowerUpCompleted
    <2> QED
      BY <2>4, <2>5, <2>6, <2>7, <2>8, <2>9 DEF Sound
  <1>2. CASE UnregisterDriver
    <2>1. /\ call["module"] = "idle" /\ call'["module"] = "unregister_wait"
          /\ call'["idle"] = call["idle"]
          /\ Has("DRIVER_REGISTERED")
          /\ UNCHANGED <<event_list, event, completions, recovery_work, timers, driver_ops,
                         driver_state, host, powered_on, mhi_state, fw, dump_valid, cont, pc>>
      BY <1>2, Replies, FaultCounts DEF UnregisterDriver, callRest, busVars, deviceVars,
         callVars, threadVars, Has, HasAny, SetBit, ClearBits, Begin
    <2>2. (\A type : Queued(type)' <=> Queued(type)) /\ (FwReadyOnce' <=> FwReadyOnce)
      BY <2>1, QueueStays
    <2>3. Healthy'
      BY <2>1, <2>2 DEF Healthy, Has
    <2>4. Powered'
      BY <2>1, <2>2 DEF Powered, On, Off
    <2>5. Handling'
      BY <2>1, <2>2 DEF Handling, Has, MhiOffLabels, PowerUpLabels, ShutdownLabels
    <2>6. Registration'
      BY <2>1, <2>2 DEF Registration, Has, Off, Underway, Unloading
    <2>7. Sleeping'
      BY <2>1, <2>2 DEF Sleeping, Has, Off, Underway, Unloading
    <2>8. Boots'
      BY <2>1, <2>2 DEF Boots, Booting, On, Has, Underway, PowerUpCompleted
    <2> QED
      BY <2>3, <2>4, <2>5, <2>6, <2>7, <2>8 DEF Sound
  <1>3. CASE UnregisterPoweredUp
    <2>1. /\ call["module"] = "unregister_wait" /\ call'["module"] = "check_recovery"
          /\ call'["idle"] = call["idle"]
          /\ PowerUpCompleted /\ completions' \subseteq completions
          /\ UNCHANGED <<event_list, event, recovery_work, timers, driver_ops, driver_state,
                         host, powered_on, mhi_state, fw, dump_valid, cont, pc>>
      BY <1>3, Replies, FaultCounts DEF UnregisterPoweredUp, callRest, busVars, deviceVars,
         callVars, threadVars, Has, HasAny, SetBit, ClearBits, Reply, UsePowerUp,
         PowerUpCompleted
    <2>2. (\A type : Queued(type)' <=> Queued(type)) /\ (FwReadyOnce' <=> FwReadyOnce)
      BY <2>1, QueueStays
    <2>3. Healthy'
      BY <2>1, <2>2 DEF Healthy, Has
    <2>4. Powered'
      BY <2>1, <2>2 DEF Powered, On, Off
    <2>5. Handling'
      BY <2>1, <2>2 DEF Handling, Has, MhiOffLabels, PowerUpLabels, ShutdownLabels
    <2>6. Registration'
      BY <2>1, <2>2 DEF Registration, Has, Off, Underway, Unloading
    <2>7. Sleeping'
      BY <2>1, <2>2 DEF Sleeping, Has, Off, Underway, Unloading
    <2>8. Boots'
      BY <2>1, <2>2 DEF Boots, Booting, On, Has, Underway, PowerUpCompleted
    <2> QED
      BY <2>3, <2>4, <2>5, <2>6, <2>7, <2>8 DEF Sound
  <1>4. CASE UnregisterTimeout
    <2>1. ~Booting
      BY <1>4, QuietBoots DEF UnregisterTimeout
    <2>2. /\ call["module"] = "unregister_wait" /\ call'["module"] = "check_recovery"
          /\ call'["idle"] = call["idle"]
          /\ ~Booting
          /\ UNCHANGED <<event_list, event, completions, recovery_work, timers, driver_ops,
                         driver_state, host, powered_on, mhi_state, fw, dump_valid, cont, pc>>
      BY <1>4, <2>1, Replies, FaultCounts DEF UnregisterTimeout, callRest, busVars,
         deviceVars, callVars, threadVars, Has, HasAny, SetBit, ClearBits, Reply
    <2>3. (\A type : Queued(type)' <=> Queued(type)) /\ (FwReadyOnce' <=> FwReadyOnce)
      BY <2>2, QueueStays
    <2>4. Healthy'
      BY <2>1, <2>2, <2>3 DEF Healthy, Has
    <2>5. Powered'
      BY <2>1, <2>2, <2>3 DEF Powered, On, Off
    <2>6. Handling'
      BY <2>1, <2>2, <2>3 DEF Handling, Has, MhiOffLabels, PowerUpLabels, ShutdownLabels
    <2>7. Registration'
      BY <2>1, <2>2, <2>3 DEF Registration, Has, Off, Underway, Unloading
    <2>8. Sleeping'
      BY <2>1, <2>2, <2>3 DEF Sleeping, Has, Off, Underway, Unloading
    <2>9. Boots'
      BY <2>1, <2>2, <2>3 DEF Boots, Booting, On, Has, Underway, PowerUpCompleted
    <2> QED
      BY <2>4, <2>5, <2>6, <2>7, <2>8, <2>9 DEF Sound
  <1>5. CASE IdleShutdown
    <2>1. /\ call["idle"] = "idle" /\ call'["idle"] = "check_recovery"
          /\ call'["module"] = call["module"] /\ host # "asleep" /\ host # "absent"
          /\ UNCHANGED <<event_list, event, completions, recovery_work, timers, driver_ops,
                         driver_state, host, powered_on, mhi_state, fw, dump_valid, cont, pc>>
      BY <1>5, Replies, FaultCounts DEF IdleShutdown, callRest, busVars, deviceVars, callVars,
         threadVars, Has, HasAny, SetBit, ClearBits, Begin
    <2>2. (\A type : Queued(type)' <=> Queued(type)) /\ (FwReadyOnce' <=> FwReadyOnce)
      BY <2>1, QueueStays
    <2>3. Healthy'
      BY <2>1, <2>2 DEF Healthy, Has
    <2>4. Powered'
      BY <2>1, <2>2 DEF Powered, On, Off
    <2>5. Handling'
      BY <2>1, <2>2 DEF Handling, Has, MhiOffLabels, PowerUpLabels, ShutdownLabels
    <2>6. Registration'
      BY <2>1, <2>2 DEF Registration, Has, Off, Underway, Unloading
    <2>7. Sleeping'
      BY <2>1, <2>2 DEF Sleeping, Has, Off, Underway, Unloading
    <2>8. Boots'
      BY <2>1, <2>2 DEF Boots, Booting, On, Has, Underway, PowerUpCompleted
    <2> QED
      BY <2>3, <2>4, <2>5, <2>6, <2>7, <2>8 DEF Sound
  <1>6. CASE IdleRestart
    <2>1. /\ call["idle"] = "idle" /\ call'["module"] = call["module"] /\ host = "asleep"
          /\ completions' \subseteq completions
          /\ \/ Has("IN_REBOOT") /\ call'["idle"] = call["idle"] /\ UNCHANGED event_list
             \/ /\ ~Has("IN_REBOOT") /\ call'["idle"] = "restarting" /\ ~PowerUpCompleted'
                /\ event_list' = Append(event_list, Event("IDLE_RESTART"))
          /\ UNCHANGED <<event, recovery_work, timers, driver_ops, driver_state, host,
                         powered_on, mhi_state, fw, dump_valid, cont, pc>>
      BY <1>6, Replies, FaultCounts DEF IdleRestart, callRest, busVars, deviceVars, callVars,
         threadVars, Has, HasAny, SetBit, ClearBits, Begin, Post, NewPowerUp, PowerUpCompleted
    <2>2. /\ \A type : Queued(type)' <=> Queued(type) \/ (type = "IDLE_RESTART" /\ ~Has("IN_REBOOT"))
          /\ FwReadyOnce => FwReadyOnce'
      <3>1. Event("IDLE_RESTART") \in EventSet /\ Event("IDLE_RESTART").type = "IDLE_RESTART"
        BY PostedEvents DEF Event, EventTypes
      <3> QED
        BY <2>1, <3>1, QueueGrows, QueueStays
    <2>3. ~Underway("IDLE_RESTART") /\ ~Has("DRIVER_LOADING") /\ ~Underway("REGISTER_DRIVER")
      BY <2>1, Excludes DEF Sleeping
    <2>4. Has("IN_REBOOT") \/ (~Booting /\ (pc["worker"] = "idle" => Off))
      BY <2>1, <2>3 DEF Boots, Powered, Underway
    <2>5. Healthy'
      BY <2>1, <2>2, <2>3, <2>4 DEF Healthy, Has
    <2>6. Powered'
      BY <2>1, <2>2, <2>3, <2>4 DEF Powered, On, Off
    <2>7. Handling'
      BY <2>1, <2>2, <2>3, <2>4 DEF Handling, Has, MhiOffLabels, PowerUpLabels, ShutdownLabels
    <2>8. Registration'
      BY <2>1, <2>2, <2>3, <2>4 DEF Registration, Has, Off, Underway, Unloading
    <2>9. Sleeping'
      BY <2>1, <2>2, <2>3, <2>4 DEF Sleeping, Has, Off, Underway, Unloading
    <2>10. Boots'
      BY <2>1, <2>2, <2>3, <2>4 DEF Boots, Booting, On, Off, Has, Underway, PowerUpCompleted
    <2> QED
      BY <2>5, <2>6, <2>7, <2>8, <2>9, <2>10 DEF Sound
  <1>7. CASE IdleRestartDone
    <2>1. /\ call["idle"] = "power_up_wait" /\ call'["idle"] = "idle"
          /\ call'["module"] = call["module"]
          /\ PowerUpCompleted /\ completions' \subseteq completions /\ timers' \subseteq timers
          /\ (timers' = timers \/ Has("IN_REBOOT"))
          /\ (driver_state' = driver_state \/ driver_state' = driver_state \ {"DRIVER_IDLE_RESTART"})
          /\ UNCHANGED <<event_list, event, recovery_work, driver_ops, host, powered_on,
                         mhi_state, fw, dump_valid, cont, pc>>
      BY <1>7, Replies, FaultCounts DEF IdleRestartDone, busVars, callVars, threadVars, Has,
         HasAny, SetBit, ClearBits, Reply, UsePowerUp, PowerUpCompleted
    <2>2. (\A type : Queued(type)' <=> Queued(type)) /\ (FwReadyOnce' <=> FwReadyOnce)
      BY <2>1, QueueStays
    <2>3. ~Underway("IDLE_RESTART") /\ event.type # "IDLE_RESTART"
      BY <2>1, Excludes DEF Underway
    <2>4. Healthy'
      BY <2>1, <2>2, <2>3 DEF Healthy, Has
    <2>5. Powered'
      BY <2>1, <2>2, <2>3 DEF Powered, On, Off
    <2>6. Handling'
      BY <2>1, <2>2, <2>3 DEF Handling, Has, MhiOffLabels, PowerUpLabels, ShutdownLabels
    <2>7. Registration'
      BY <2>1, <2>2, <2>3 DEF Registration, Has, Off, Underway, Unloading
    <2>8. Sleeping'
      BY <2>1, <2>2, <2>3 DEF Sleeping, Has, Off, Underway, Unloading
    <2>9. Boots'
      BY <2>1, <2>2, <2>3 DEF Boots, Booting, On, Has, Underway, PowerUpCompleted
    <2> QED
      BY <2>4, <2>5, <2>6, <2>7, <2>8, <2>9 DEF Sound
  <1>8. CASE IdleRestartTimeout
    <2>1. ~Booting
      BY <1>8, QuietBoots DEF UnregisterTimeout, IdleRestartTimeout
    <2>2. /\ call["idle"] = "power_up_wait" /\ call'["idle"] = "going_down"
          /\ call'["module"] = call["module"] /\ ~Booting
          /\ event_list' = Append(event_list, Event("POWER_DOWN"))
          /\ UNCHANGED <<event, completions, recovery_work, timers, driver_ops, driver_state,
                         host, powered_on, mhi_state, fw, dump_valid, cont, pc>>
      BY <1>8, <2>1, Replies, FaultCounts DEF IdleRestartTimeout, callRest, busVars,
         deviceVars, callVars, threadVars, Has, HasAny, SetBit, ClearBits, Reply, Post
    <2>3. /\ \A type : Queued(type)' <=> Queued(type) \/ type = "POWER_DOWN"
          /\ FwReadyOnce => FwReadyOnce'
      <3>1. Event("POWER_DOWN") \in EventSet /\ Event("POWER_DOWN").type = "POWER_DOWN"
        BY PostedEvents DEF Event, EventTypes
      <3> QED
        BY <2>2, <3>1, QueueGrows
    <2>4. Healthy'
      BY <2>1, <2>2, <2>3 DEF Healthy, Has
    <2>5. Powered'
      BY <2>1, <2>2, <2>3 DEF Powered, On, Off
    <2>6. Handling'
      BY <2>1, <2>2, <2>3 DEF Handling, Has, MhiOffLabels, PowerUpLabels, ShutdownLabels
    <2>7. Registration'
      BY <2>1, <2>2, <2>3 DEF Registration, Has, Off, Underway, Unloading
    <2>8. Sleeping'
      BY <2>1, <2>2, <2>3 DEF Sleeping, Has, Off, Underway, Unloading
    <2>9. Boots'
      BY <2>1, <2>2, <2>3 DEF Boots, Booting, On, Has, Underway, PowerUpCompleted
    <2> QED
      BY <2>4, <2>5, <2>6, <2>7, <2>8, <2>9 DEF Sound
  <1>9. ASSUME NEW c \in Contexts, CheckRecovery(c)
         PROVE  Sound'
    <2>1. /\ call[c] \in {"check_recovery", "reinit_recovery", "recovery_wait", "post_down"}
          /\ call'[c] \in {"check_recovery", "reinit_recovery", "recovery_wait", "post_down"}
          /\ \A d \in Contexts : d # c => call'[d] = call[d]
          /\ completions' \subseteq completions
          /\ UNCHANGED <<event_list, event, recovery_work, timers, driver_ops, driver_state,
                         host, powered_on, mhi_state, fw, dump_valid, cont, pc>>
      BY <1>9, Replies, FaultCounts DEF CheckRecovery, callRest, busVars, deviceVars,
         callVars, threadVars, Has, HasAny, SetBit, ClearBits, Reply
    <2>2. (\A type : Queued(type)' <=> Queued(type)) /\ (FwReadyOnce' <=> FwReadyOnce)
      BY <2>1, QueueStays
    <2>3. c = "module" \/ c = "idle"
      BY DEF Contexts
    <2>4. Healthy'
      BY <2>1, <2>2, <2>3 DEF Healthy, Has
    <2>5. Powered'
      BY <2>1, <2>2, <2>3 DEF Powered, On, Off
    <2>6. Handling'
      BY <2>1, <2>2, <2>3 DEF Handling, Has, MhiOffLabels, PowerUpLabels, ShutdownLabels
    <2>7. Registration'
      BY <2>1, <2>2, <2>3 DEF Registration, Has, Off, Underway, Unloading
    <2>8. Sleeping'
      BY <2>1, <2>2, <2>3 DEF Sleeping, Has, Off, Underway, Unloading
    <2>9. Boots'
      BY <2>1, <2>2, <2>3 DEF Boots, Booting, On, Has, Underway, PowerUpCompleted
    <2> QED
      BY <2>4, <2>5, <2>6, <2>7, <2>8, <2>9 DEF Sound
  <1>10. ASSUME NEW c \in Contexts, ReinitRecovery(c)
         PROVE  Sound'
    <2>1. /\ call[c] \in {"check_recovery", "reinit_recovery", "recovery_wait", "post_down"}
          /\ call'[c] \in {"check_recovery", "reinit_recovery", "recovery_wait", "post_down"}
          /\ \A d \in Contexts : d # c => call'[d] = call[d]
          /\ completions' \subseteq completions
          /\ UNCHANGED <<event_list, event, recovery_work, timers, driver_ops, driver_state,
                         host, powered_on, mhi_state, fw, dump_valid, cont, pc>>
      BY <1>10, Replies, FaultCounts DEF ReinitRecovery, callRest, busVars, deviceVars,
         callVars, threadVars, Has, HasAny, SetBit, ClearBits, Reply
    <2>2. (\A type : Queued(type)' <=> Queued(type)) /\ (FwReadyOnce' <=> FwReadyOnce)
      BY <2>1, QueueStays
    <2>3. c = "module" \/ c = "idle"
      BY DEF Contexts
    <2>4. Healthy'
      BY <2>1, <2>2, <2>3 DEF Healthy, Has
    <2>5. Powered'
      BY <2>1, <2>2, <2>3 DEF Powered, On, Off
    <2>6. Handling'
      BY <2>1, <2>2, <2>3 DEF Handling, Has, MhiOffLabels, PowerUpLabels, ShutdownLabels
    <2>7. Registration'
      BY <2>1, <2>2, <2>3 DEF Registration, Has, Off, Underway, Unloading
    <2>8. Sleeping'
      BY <2>1, <2>2, <2>3 DEF Sleeping, Has, Off, Underway, Unloading
    <2>9. Boots'
      BY <2>1, <2>2, <2>3 DEF Boots, Booting, On, Has, Underway, PowerUpCompleted
    <2> QED
      BY <2>4, <2>5, <2>6, <2>7, <2>8, <2>9 DEF Sound
  <1>11. ASSUME NEW c \in Contexts, RecoveryCompleted(c)
         PROVE  Sound'
    <2>1. /\ call[c] \in {"check_recovery", "reinit_recovery", "recovery_wait", "post_down"}
          /\ call'[c] \in {"check_recovery", "reinit_recovery", "recovery_wait", "post_down"}
          /\ \A d \in Contexts : d # c => call'[d] = call[d]
          /\ completions' \subseteq completions
          /\ UNCHANGED <<event_list, event, recovery_work, timers, driver_ops, driver_state,
                         host, powered_on, mhi_state, fw, dump_valid, cont, pc>>
      BY <1>11, Replies, FaultCounts DEF RecoveryCompleted, callRest, busVars, deviceVars,
         callVars, threadVars, Has, HasAny, SetBit, ClearBits, Reply
    <2>2. (\A type : Queued(type)' <=> Queued(type)) /\ (FwReadyOnce' <=> FwReadyOnce)
      BY <2>1, QueueStays
    <2>3. c = "module" \/ c = "idle"
      BY DEF Contexts
    <2>4. Healthy'
      BY <2>1, <2>2, <2>3 DEF Healthy, Has
    <2>5. Powered'
      BY <2>1, <2>2, <2>3 DEF Powered, On, Off
    <2>6. Handling'
      BY <2>1, <2>2, <2>3 DEF Handling, Has, MhiOffLabels, PowerUpLabels, ShutdownLabels
    <2>7. Registration'
      BY <2>1, <2>2, <2>3 DEF Registration, Has, Off, Underway, Unloading
    <2>8. Sleeping'
      BY <2>1, <2>2, <2>3 DEF Sleeping, Has, Off, Underway, Unloading
    <2>9. Boots'
      BY <2>1, <2>2, <2>3 DEF Boots, Booting, On, Has, Underway, PowerUpCompleted
    <2> QED
      BY <2>4, <2>5, <2>6, <2>7, <2>8, <2>9 DEF Sound
  <1>12. ASSUME NEW c \in Contexts, RecoveryWaitTimeout(c)
         PROVE  Sound'
    <2>1. /\ call[c] \in {"check_recovery", "reinit_recovery", "recovery_wait", "post_down"}
          /\ call'[c] \in {"check_recovery", "reinit_recovery", "recovery_wait", "post_down"}
          /\ \A d \in Contexts : d # c => call'[d] = call[d]
          /\ completions' \subseteq completions
          /\ UNCHANGED <<event_list, event, recovery_work, timers, driver_ops, driver_state,
                         host, powered_on, mhi_state, fw, dump_valid, cont, pc>>
      BY <1>12, Replies, FaultCounts DEF RecoveryWaitTimeout, callRest, busVars, deviceVars,
         callVars, threadVars, Has, HasAny, SetBit, ClearBits, Reply
    <2>2. (\A type : Queued(type)' <=> Queued(type)) /\ (FwReadyOnce' <=> FwReadyOnce)
      BY <2>1, QueueStays
    <2>3. c = "module" \/ c = "idle"
      BY DEF Contexts
    <2>4. Healthy'
      BY <2>1, <2>2, <2>3 DEF Healthy, Has
    <2>5. Powered'
      BY <2>1, <2>2, <2>3 DEF Powered, On, Off
    <2>6. Handling'
      BY <2>1, <2>2, <2>3 DEF Handling, Has, MhiOffLabels, PowerUpLabels, ShutdownLabels
    <2>7. Registration'
      BY <2>1, <2>2, <2>3 DEF Registration, Has, Off, Underway, Unloading
    <2>8. Sleeping'
      BY <2>1, <2>2, <2>3 DEF Sleeping, Has, Off, Underway, Unloading
    <2>9. Boots'
      BY <2>1, <2>2, <2>3 DEF Boots, Booting, On, Has, Underway, PowerUpCompleted
    <2> QED
      BY <2>4, <2>5, <2>6, <2>7, <2>8, <2>9 DEF Sound
  <1>13. CASE PostDown("module")
    <2>1. /\ call["module"] = "post_down" /\ call'["module"] = "going_down"
          /\ call'["idle"] = call["idle"]
          /\ event_list' = Append(event_list, Event("UNREGISTER_DRIVER"))
          /\ UNCHANGED <<event, completions, recovery_work, timers, driver_ops, driver_state,
                         host, powered_on, mhi_state, fw, dump_valid, cont, pc>>
      BY <1>13, Replies, FaultCounts DEF PostDown, callRest, busVars, deviceVars, callVars,
         threadVars, Has, HasAny, SetBit, ClearBits, Reply, Post
    <2>2. /\ \A type : Queued(type)' <=> Queued(type) \/ type = "UNREGISTER_DRIVER"
          /\ FwReadyOnce => FwReadyOnce'
      <3>1. /\ Event("UNREGISTER_DRIVER") \in EventSet
            /\ Event("UNREGISTER_DRIVER").type = "UNREGISTER_DRIVER"
        BY PostedEvents DEF Event, EventTypes
      <3> QED
        BY <2>1, <3>1, QueueGrows
    <2>3. Healthy'
      BY <2>1, <2>2 DEF Healthy, Has
    <2>4. Powered'
      BY <2>1, <2>2 DEF Powered, On, Off
    <2>5. Handling'
      BY <2>1, <2>2 DEF Handling, Has, MhiOffLabels, PowerUpLabels, ShutdownLabels
    <2>6. Registration'
      BY <2>1, <2>2 DEF Registration, Has, Off, Underway, Unloading
    <2>7. Sleeping'
      BY <2>1, <2>2 DEF Sleeping, Has, Off, Underway, Unloading
    <2>8. Boots'
      BY <2>1, <2>2 DEF Boots, Booting, On, Has, Underway, PowerUpCompleted
    <2> QED
      BY <2>3, <2>4, <2>5, <2>6, <2>7, <2>8 DEF Sound
  <1>14. CASE PostDown("idle")
    <2>1. /\ call["idle"] = "post_down" /\ call'["idle"] = "going_down"
          /\ call'["module"] = call["module"]
          /\ event_list' = Append(event_list, Event("IDLE_SHUTDOWN"))
          /\ UNCHANGED <<event, completions, recovery_work, timers, driver_ops, driver_state,
                         host, powered_on, mhi_state, fw, dump_valid, cont, pc>>
      BY <1>14, Replies, FaultCounts DEF PostDown, callRest, busVars, deviceVars, callVars,
         threadVars, Has, HasAny, SetBit, ClearBits, Reply, Post
    <2>2. /\ \A type : Queued(type)' <=> Queued(type) \/ type = "IDLE_SHUTDOWN"
          /\ FwReadyOnce => FwReadyOnce'
      <3>1. Event("IDLE_SHUTDOWN") \in EventSet /\ Event("IDLE_SHUTDOWN").type = "IDLE_SHUTDOWN"
        BY PostedEvents DEF Event, EventTypes
      <3> QED
        BY <2>1, <3>1, QueueGrows
    <2>3. Healthy'
      BY <2>1, <2>2 DEF Healthy, Has
    <2>4. Powered'
      BY <2>1, <2>2 DEF Powered, On, Off
    <2>5. Handling'
      BY <2>1, <2>2 DEF Handling, Has, MhiOffLabels, PowerUpLabels, ShutdownLabels
    <2>6. Registration'
      BY <2>1, <2>2 DEF Registration, Has, Off, Underway, Unloading
    <2>7. Sleeping'
      BY <2>1, <2>2 DEF Sleeping, Has, Off, Underway, Unloading
    <2>8. Boots'
      BY <2>1, <2>2 DEF Boots, Booting, On, Has, Underway, PowerUpCompleted
    <2> QED
      BY <2>3, <2>4, <2>5, <2>6, <2>7, <2>8 DEF Sound
  <1> QED
    BY <1>1, <1>2, <1>3, <1>4, <1>5, <1>6, <1>7, <1>8, <1>9, <1>10, <1>11, <1>12, <1>13,
       <1>14 DEF Host, Contexts

LEMMA InitUnfailed == Init => Unfailed
  <1> SUFFICES ASSUME Init PROVE Sound
    BY DEF Unfailed
  <1>1. /\ pc["worker"] = "idle" /\ pc["recovery"] = "idle" /\ event.type = "none"
        /\ \A type : ~Queued(type)
        /\ call["module"] = "idle" /\ call["idle"] = "idle"
    BY DEF Init, Threads, Contexts, NoEvent, Event, Queued
  <1>2. Off /\ ~Booting
    BY <1>1 DEF Init, Off, Booting
  <1>3. Healthy
    BY <1>1 DEF Init, Healthy
  <1>4. Powered
    BY <1>1, <1>2 DEF Powered
  <1>5. Handling
    BY <1>1 DEF Init, Handling, Has, MhiOffLabels
  <1>6. Registration
    BY <1>1, <1>2 DEF Init, Registration, Has, Unloading, Underway
  <1>7. Sleeping
    BY <1>1, <1>2 DEF Init, Sleeping, Has, Underway, Unloading
  <1>8. Boots
    BY <1>1, <1>2 DEF Init, Boots, Has, Underway, FwReadyOnce
  <1> QED
    BY <1>3, <1>4, <1>5, <1>6, <1>7, <1>8 DEF Sound

LEMMA NextUnfailed == IInv /\ Unfailed /\ [Next]_vars => Unfailed'
  <1> SUFFICES ASSUME IInv, Unfailed, [Next]_vars, faults' = 0
               PROVE  Sound'
    BY DEF Unfailed
  <1> TypeOK /\ "worker" \in Threads /\ "recovery" \in Threads
    BY DEF IInv, Threads
  <1>1. faults = 0
    <2>1. faults \in Nat
      BY FaultCounts
    <2>2. faults' = faults \/ faults' = faults + 1
      <3>1. CASE Power("worker") \/ Power("recovery")
        BY <3>1 DEF Power, CallDriverRemove, ShutdownOff, MhiPowerOffTest, MhiPowerOff,
           DeviceOff, ShutdownClear, PowerupBegin, PowerOnDevice, StartMhi, MhiStarts,
           MhiTimesOutInRddm, MhiFails, Fault, deviceVars
      <3>2. CASE Handlers
        BY <3>2 DEF Handlers, RegisterDriverHdlr, RegisterDriverDone, UnregisterDriverHdlr,
           UnregisterDriverDone, IdleRestartHdlr, IdleRestartPowered, IdleShutdownHdlr,
           PowerDownHdlr, PowerDownDone, FwReadyHdlr, CallDriverProbe, ProbeEnd,
           FwReadyFailed, FwReadyDown, RecoveryRefused, RecoveryHdlr, LinkDownSkipped,
           LinkDownHdlr, RecoverLinkDown, Fault, workerRest
      <3>3. CASE RecoveryWork \/ RecoveryRamdump \/ RecoveryDone
        BY <3>3 DEF RecoveryWork, RecoveryRamdump, RecoveryDone, recoveryRest, deviceVars
      <3>4. CASE Device
        BY <3>4 DEF Device, FwInitDone, MhiFatalError, MhiSysError, MhiRddm, LinkDown,
           FwBootTimeout, RddmTimeout, Reboot, Fault
      <3>5. CASE Host
        BY <3>5 DEF Host, RegisterDriver, UnregisterDriver, UnregisterPoweredUp,
           UnregisterTimeout, IdleShutdown, CheckRecovery, ReinitRecovery, RecoveryCompleted,
           RecoveryWaitTimeout, PostDown, IdleRestart, IdleRestartDone, IdleRestartTimeout,
           callRest, deviceVars
      <3>6. CASE UNCHANGED vars
        BY <3>6 DEF vars, deviceVars
      <3> QED
        BY <3>1, <3>2, <3>3, <3>4, <3>5, <3>6 DEF Next, Worker, RecoveryThread, Handlers
    <2> QED
      BY <2>1, <2>2
  <1>2. Sound
    BY <1>1 DEF Unfailed
  <1>3. CASE Power("worker")
    BY <1>1, <1>2, <1>3, PowerSound
  <1>4. CASE Power("recovery") \/ RecoveryWork \/ RecoveryRamdump \/ RecoveryDone
    <2>1. pc["recovery"] = "idle" /\ ~recovery_work
      BY <1>2 DEF Sound, Healthy
    <2> QED
      BY <1>4, <2>1 DEF RecoveryWork, RecoveryRamdump, RecoveryDone, Power, CallDriverRemove,
         ShutdownOff, MhiPowerOffTest, MhiPowerOff, DeviceOff, ShutdownClear, PowerupBegin,
         PowerOnDevice, StartMhi
  <1>5. CASE Handlers
    BY <1>1, <1>2, <1>5, HandlersSound
  <1>6. CASE Device
    BY <1>1, <1>2, <1>6, DeviceSound
  <1>7. CASE Host
    BY <1>1, <1>2, <1>7, HostSound
  <1>8. CASE UNCHANGED vars
    <2>1. UNCHANGED <<driver_state, driver_ops, event_list, event, pc, cont, recovery_work,
             powered_on, mhi_state, dump_valid, fw, timers, completions, call, host>>
      BY <1>8 DEF vars, threadVars, busVars, deviceVars, callVars
    <2>2. (\A type : Queued(type)' <=> Queued(type)) /\ (FwReadyOnce' <=> FwReadyOnce)
      BY <2>1, QueueStays
    <2>3. Healthy' /\ Powered' /\ Handling'
      BY <1>2, <2>1, <2>2 DEF Sound, Healthy, Powered, Handling, Has, On, Off
    <2>4. Registration' /\ Sleeping'
      BY <1>2, <2>1, <2>2 DEF Sound, Registration, Sleeping, Has, Off, Underway
    <2>5. Boots'
      BY <1>2, <2>1, <2>2 DEF Sound, Boots, Booting, On, Has, Underway, PowerUpCompleted
    <2> QED
      BY <2>3, <2>4, <2>5 DEF Sound
  <1> QED
    BY <1>3, <1>4, <1>5, <1>6, <1>7, <1>8 DEF Next, Worker, RecoveryThread, Handlers

\* A device that has not failed is in the state that the step of the worker and
\* the events under way say.
THEOREM UnfailedInvariant == Spec => [](IInv /\ Unfailed)
  BY InitInvariant, NextInvariant, InitUnfailed, NextUnfailed, PTL DEF Spec

\* MHI is powered off, deinitialised and started in the order that it asserts,
\* as long as the device does not fail.
THEOREM MhiIsLegal == Spec => []MhiLegalWithoutFault
  <1>1. IInv /\ Unfailed => MhiLegalWithoutFault
    BY DEF Unfailed, Sound, Healthy, Powered, On, MhiLegalWithoutFault, MhiSequenceLegal,
       MhiOn, Threads
  <1> QED
    BY <1>1, UnfailedInvariant, PTL

\* Whatever fails, no callbacks stay without a registration. As long as the device
\* does not, a host driver that goes leaves neither itself nor a device that is
\* on, and one that sleeps leaves the device off, however many of its calls failed.
THEOREM LeavesNothing == Spec => []NothingLeftBehind
  <1>1. IInv /\ Unfailed => UnregisteredIsGone
    BY DEF Unfailed, Sound, Registration, UnregisteredIsGone
  <1>2. IInv /\ Unfailed => DeviceOffWhenUnused
    <2> SUFFICES ASSUME IInv, Unfailed, faults = 0, Quiet
                 PROVE  /\ ~Has("DRIVER_REGISTERED") => ~powered_on
                        /\ host = "asleep" /\ ~Has("IN_REBOOT") => ~powered_on
      BY DEF DeviceOffWhenUnused
    <2>1. Sound /\ ~Booting /\ pc["worker"] = "idle"
      BY QuietBoots DEF Unfailed, Quiet, Threads
    <2>2. event.type = "none" /\ (On \/ Off)
      BY <2>1 DEF IInv, Callers, IdleHasNoEvent, NoEvent, Event, Sound, Powered
    <2> QED
      BY <2>1, <2>2 DEF Sound, Registration, Boots, Off
  <1> QED
    BY <1>1, <1>2, OpsInvariant, UnfailedInvariant, PTL DEF NothingLeftBehind

\* The host driver is probed when it is out, and woken up when it sleeps, as
\* long as the device does not fail: nothing but that wait ends in a callback.
THEOREM ProbesInOrder == Spec => ProbedInOrder
  <1>1. IInv /\ Unfailed /\ [Next]_vars =>
          [faults = 0 /\ Called =>
             /\ Probes   => host = "absent"
             /\ Restarts => host = "asleep"]_vars
    <2> SUFFICES ASSUME IInv, Unfailed, [Next]_vars, faults = 0, pc["worker"] = "probe",
                        pc'["worker"] = "probe_end"
                 PROVE  /\ Probes   => host = "absent"
                        /\ Restarts => host = "asleep"
      BY DEF Called
    <2>1. Sound /\ Booting
      BY DEF Unfailed, Booting
    <2>2. ~Has("IN_REBOOT")
      <3>1. TypeOK /\ "worker" \in Threads /\ "recovery" \in Threads /\ "worker" # "recovery"
        BY DEF IInv, Threads
      <3>2. CallDriverProbe
        <4>1. pc' # pc
          OBVIOUS
        <4>2. CASE Power("worker")
          BY <4>2 DEF Power, CallDriverRemove, ShutdownOff, MhiPowerOffTest, MhiPowerOff,
             DeviceOff, ShutdownClear, PowerupBegin, PowerOnDevice, StartMhi
        <4>3. CASE RecoveryThread
          BY <2>1, <4>3 DEF Sound, Healthy, RecoveryThread, RecoveryWork, RecoveryRamdump,
             RecoveryDone, Power, CallDriverRemove, ShutdownOff, MhiPowerOffTest, MhiPowerOff,
             DeviceOff, ShutdownClear, PowerupBegin, PowerOnDevice, StartMhi
        <4>4. CASE Handlers
          BY <4>4 DEF Handlers, RegisterDriverHdlr, RegisterDriverDone, UnregisterDriverHdlr,
             UnregisterDriverDone, IdleRestartHdlr, IdleRestartPowered, IdleShutdownHdlr,
             PowerDownHdlr, PowerDownDone, FwReadyHdlr, ProbeEnd, FwReadyFailed, FwReadyDown,
             RecoveryRefused, RecoveryHdlr, LinkDownSkipped, LinkDownHdlr, RecoverLinkDown, Take
        <4>5. ~Device
          BY <3>1, <4>1, DeviceTypes
        <4>6. ~Host
          BY <3>1, <4>1, HostTypes DEF IInv
        <4>7. ~UNCHANGED vars
          BY <4>1 DEF vars, threadVars
        <4> QED
          BY <4>2, <4>3, <4>4, <4>5, <4>6, <4>7 DEF Next, Worker, Handlers
      <3> QED
        BY <3>1, <3>2, WorkerGoes DEF CallDriverProbe, ProbeFails
    <2> QED
      BY <2>1, <2>2 DEF Sound, Healthy, Boots, Sleeping, Reinits, Probes, Restarts, Has
  <1> QED
    BY <1>1, UnfailedInvariant, PTL DEF Spec, ProbedInOrder

==============================================================================
