------------------------- MODULE CnssColdBootCalProofs -------------------------
(***************************************************************************)
(* Proofs about the cold boot calibration, for any number of faults, of    *)
(* writes to fs_ready, of COEX servers and of retries of the delayed work. *)
(*                                                                         *)
(* The registration is not guarded where it is handled: that no driver is  *)
(* loaded in a calibration rests on the order of the queue, in which every *)
(* registration comes after an end of the calibration.  The inductive      *)
(* invariant says so, for the queue and for the delayed work that is       *)
(* about to post, and says which bits stand at each step of the worker.    *)
(***************************************************************************)
EXTENDS CnssColdBootCal, TLAPS

-----------------------------------------------------------------------------
(***************************************************************************)
(* The inductive invariant                                                 *)
(***************************************************************************)

\* The attempt was started; this never becomes false again.
Started == Is("IN_CAL") \/ Is("CAL_DONE") \/ worker = "mark_done"

\* The end of the attempt is being handled or was.
Ending ==
    \/ Is("CAL_DONE") \/ worker = "mark_done"
    \/ Is("IN_CAL") /\ worker \in {"CAL_DONE", "release_antenna", "shutdown",
       "clear_cal"}

\* One of the first n events of the queue ends the calibration.
EndQueued(n) == \E j \in 1..n : events[j] \in {"DONE", "TIMEOUT"}

\* The bits at each step of the worker.
BitsOfStep ==
    /\ ~(Is("IN_CAL") /\ Is("CAL_DONE"))
    /\ worker \in {"start_cancel", "start_power_up", "antenna", "cal_mode",
                   "release_antenna", "shutdown", "clear_cal"} => Is("IN_CAL")
    /\ worker = "mark_done" => ~Is("IN_CAL")
    /\ worker = "probe" => Is("CAL_DONE")
    /\ worker = "REGISTER" => Is("CAL_DONE") \/ unended

\* A device that is on, and what it reports, are of an attempt that was started.
NothingBefore ==
    /\ device # "off" => Started
    /\ \A i \in 1..Len(events) : events[i] # "CAL_START" => Started
    /\ worker \notin {"idle", "CAL_START"} => Started
    /\ work \in {"timeout", "register"} => Started

\* Every registration comes after an end of the calibration, if it has one.
RegistersLast ==
    ~unended =>
        /\ \A i \in 1..Len(events) :
              events[i] = "REGISTER" => Ending \/ (Is("IN_CAL") /\ EndQueued(i - 1))
        /\ work = "register" => Ending \/ (Is("IN_CAL") /\ EndQueued(Len(events)))

\* A driver is there after the attempt only.
DriverIsLast ==
    {"LOADING", "REGISTERED", "PROBED"} \cap state # {} => Is("CAL_DONE") \/ unended

\* What holds as long as nothing failed.
FaultFree ==
    /\ antenna = "wlan" => Is("COEX")
    /\ faults = 0 =>
          /\ ~unended
          /\ worker # "RECOVERY"
          /\ \A i \in 1..Len(events) : events[i] # "RECOVERY"
          /\ worker \in {"shutdown", "clear_cal"} => antenna = "modem"
          /\ antenna = "wlan" => Is("IN_CAL")
          /\ worker \in {"clear_cal", "mark_done"} => device = "off"
          /\ Is("CAL_DONE") /\ ~Is("REGISTERED") => device = "off"

IInv == TypeOK /\ BitsOfStep /\ NothingBefore /\ RegistersLast /\ DriverIsLast /\
   FaultFree

-----------------------------------------------------------------------------
(***************************************************************************)
(* The queue                                                               *)
(***************************************************************************)

\* Posting an event keeps the queue and puts the event at its end.
LEMMA PostProperties ==
    ASSUME NEW q \in Seq(EventTypes), NEW e \in EventTypes
    PROVE  /\ Append(q, e) \in Seq(EventTypes)
           /\ Len(Append(q, e)) = Len(q) + 1 /\ Len(q) \in Nat
           /\ \A i \in 1..Len(q) : Append(q, e)[i] = q[i]
           /\ Append(q, e)[Len(q) + 1] = e
  OBVIOUS

\* Taking an event moves the others up.
LEMMA TakeProperties ==
    ASSUME NEW q \in Seq(EventTypes), q # <<>>
    PROVE  /\ Tail(q) \in Seq(EventTypes) /\ Head(q) \in EventTypes
           /\ Head(q) = q[1] /\ 1 \in 1..Len(q)
           /\ Len(Tail(q)) = Len(q) - 1 /\ Len(q) \in Nat \ {0}
           /\ \A i \in 1..(Len(q) - 1) : Tail(q)[i] = q[i + 1]
  OBVIOUS

-----------------------------------------------------------------------------
(***************************************************************************)
(* Type correctness                                                        *)
(***************************************************************************)

\* The bounds are numbers, one by one.
LEMMA Bounds == MaxFaults \in Nat /\ MaxWrites \in Nat /\ MaxServers \in Nat /\
   MaxRetries \in Nat
  BY CalAssumption

\* A fault is counted up to its bound.
LEMMA FaultCounts ==
    ASSUME TypeOK, Fault
    PROVE  faults' \in 0..MaxFaults /\ faults' # 0
  BY Bounds DEF Fault, TypeOK

LEMMA TypeInit == Init => TypeOK
  <1> SUFFICES ASSUME Init PROVE TypeOK
    OBVIOUS
  <1>1. /\ state \in SUBSET Bits /\ cal_done \in {"no", "yes", "failure"}
        /\ status \in {"DONE", "TIMEOUT"} /\ saved \in BOOLEAN /\ canceling \in BOOLEAN
        /\ unended \in BOOLEAN
        /\ antenna \in {"modem", "wlan"}
    BY DEF Init
  <1>2. worker \in WorkerSteps /\ work \in WorkSteps /\ host \in HostSteps
        /\ device \in DeviceStates
    BY DEF Init, WorkerSteps, WorkSteps, HostSteps, DeviceStates
  <1>3. /\ faults \in 0..MaxFaults /\ writes \in 0..MaxWrites
        /\ servers \in 0..MaxServers /\ retries \in 0..MaxRetries
    BY Bounds DEF Init
  <1>4. events \in Seq(EventTypes)
    BY DEF Init
  <1> QED
    BY <1>1, <1>2, <1>3, <1>4 DEF TypeOK

\* Every step keeps the types.
LEMMA TypeNext ==
    ASSUME TypeOK, [Next]_vars
    PROVE  TypeOK'
  <1> USE DEF TypeOK, calVars, workVars, modemVars
  <1>1. CASE FsReady
    BY <1>1, PostProperties, Bounds DEF FsReady, EventTypes
  <1>2. CASE Reboot
    BY <1>2 DEF Reboot, Bits
  <1>3. CASE FwCrash
    BY <1>3, PostProperties, FaultCounts DEF FwCrash, DeviceStates, EventTypes
  <1>4. CASE CoexServer
    <2>1. CASE Is("COEX")
      BY <1>4, <2>1 DEF CoexServer
    <2>2. CASE ~Is("COEX")
      <3>1. servers' \in 0..MaxServers
        BY <1>4, <2>2, Bounds DEF CoexServer
      <3>2. state' \in SUBSET Bits
        BY <1>4, <2>2 DEF CoexServer, Bits
      <3> QED
        BY <1>4, <2>2, <3>1, <3>2 DEF CoexServer
    <2> QED
      BY <2>1, <2>2
  <1>5. CASE FwInitDone
    BY <1>5, PostProperties, FaultCounts DEF FwInitDone, Posted, Unposted, DeviceStates, EventTypes
  <1>6. CASE CalDoneInd
    BY <1>6, PostProperties, FaultCounts DEF CalDoneInd, Posted, Unposted, DeviceStates, EventTypes
  <1>7. CASE RegisterCall
    BY <1>7 DEF RegisterCall, HostSteps, Bits
  <1>8. CASE RegisterCheck
    <2>1. CASE Is("CAL_DONE") /\ host' = "waiting" /\ Posted("REGISTER") /\ UNCHANGED work
      BY <1>8, <2>1, PostProperties DEF RegisterCheck, Posted, HostSteps, EventTypes
    <2>2. CASE Is("CAL_DONE") /\ host' = "refused" /\ Unposted /\ UNCHANGED work
      BY <1>8, <2>2, FaultCounts DEF RegisterCheck, Unposted, HostSteps
    <2>3. CASE host' = "deferred" /\ work' = "pending" /\ UNCHANGED <<events, faults>>
      BY <1>8, <2>3 DEF RegisterCheck, HostSteps, WorkSteps
    <2> QED
      BY <1>8, <2>1, <2>2, <2>3 DEF RegisterCheck
  <1>9. CASE WorkStart
    BY <1>9 DEF WorkStart, WorkSteps
  <1>10. CASE WorkCheckDone
    BY <1>10 DEF WorkCheckDone, WorkSteps
  <1>11. CASE WorkCheckCal
    BY <1>11 DEF WorkCheckCal, WorkSteps
  <1>12. CASE WorkRequeue
    BY <1>12, Bounds DEF WorkRequeue, WorkSteps
  <1>13. CASE WorkTimeout
    BY <1>13, PostProperties, FaultCounts DEF WorkTimeout, Posted, Unposted, WorkSteps, EventTypes
  <1>14. CASE WorkRegister
    BY <1>14, PostProperties, FaultCounts DEF WorkRegister, Posted, Unposted, WorkSteps, EventTypes
  <1>15. CASE TakeEvent
    BY <1>15, TakeProperties DEF TakeEvent, EventTypes, WorkerSteps
  <1>16. CASE CalStart
    BY <1>16, FaultCounts DEF CalStart, MarkCalFail, WorkerSteps, Bits
  <1>17. CASE CalStartCancel
    BY <1>17 DEF CalStartCancel, CancelAndSchedule, Running, WorkerSteps
  <1>18. CASE CalStartPowerUp
    BY <1>18, FaultCounts DEF CalStartPowerUp, MarkCalFail, WorkerSteps, Bits,
       DeviceStates
  <1>19. CASE FwReady
    BY <1>19 DEF FwReady, WorkerSteps, Bits
  <1>20. CASE RequestAntenna
    BY <1>20, FaultCounts DEF RequestAntenna, WorkerSteps
  <1>21. CASE CalMode
    BY <1>21, FaultCounts DEF CalMode, Off, WorkerSteps, Bits, DeviceStates
  <1>22. CASE Probe
    BY <1>22, FaultCounts DEF Probe, Off, WorkerSteps, Bits, DeviceStates
  <1>23. CASE CalDone
    BY <1>23 DEF CalDone, WorkerSteps
  <1>24. CASE ReleaseAntenna
    BY <1>24, FaultCounts DEF ReleaseAntenna, WorkerSteps
  <1>25. CASE CalShutdown
    BY <1>25 DEF CalShutdown, Off, WorkerSteps, Bits, DeviceStates
  <1>26. CASE CalClear
    BY <1>26 DEF CalClear, WorkerSteps, Bits
  <1>27. CASE CalMark
    BY <1>27 DEF CalMark, WorkerSteps, Bits
  <1>28. CASE CalUpload
    BY <1>28, FaultCounts DEF CalUpload, Attempt, WorkerSteps
  <1>29. CASE CalDoneCancel
    BY <1>29 DEF CalDoneCancel, CancelAndSchedule, Running, WorkerSteps
  <1>30. CASE RegisterDriver
    <2>1. state' \in SUBSET Bits
      BY <1>30 DEF RegisterDriver, Bits
    <2>2. faults' \in 0..MaxFaults
      BY <1>30, FaultCounts DEF RegisterDriver
    <2>3. device' \in DeviceStates /\ worker' \in WorkerSteps
      BY <1>30 DEF RegisterDriver, DeviceStates, WorkerSteps
    <2>4. host' \in HostSteps /\ work' \in WorkSteps
      BY <1>30 DEF RegisterDriver, HostSteps, WorkSteps
    <2> QED
      BY <1>30, <2>1, <2>2, <2>3, <2>4 DEF RegisterDriver
  <1>31. CASE Recover
    BY <1>31 DEF Recover, WorkerSteps, Bits, DeviceStates
  <1>32. CASE UNCHANGED vars
    BY <1>32 DEF vars
  <1> QED
    BY <1>1, <1>2, <1>3, <1>4, <1>5, <1>6, <1>7, <1>8, <1>9, <1>10, <1>11, <1>12, <1>13,
       <1>14, <1>15, <1>16, <1>17, <1>18, <1>19, <1>20, <1>21, <1>22, <1>23, <1>24,
       <1>25, <1>26, <1>27, <1>28, <1>29, <1>30, <1>31, <1>32 DEF Next, Environment,
       Firmware, Registration, RegDriverWork,
       Worker, CalStartHandler, FwReadyHandler, CalDoneHandler

-----------------------------------------------------------------------------
(***************************************************************************)
(* The parts of the inductive invariant                                    *)
(***************************************************************************)

\* Every step keeps the bits that stand at the steps of the worker.
LEMMA BitsNext ==
    ASSUME TypeOK, BitsOfStep, NothingBefore, RegistersLast, [Next]_vars
    PROVE  BitsOfStep'
  <1> USE DEF calVars, workVars, modemVars, BitsOfStep, NothingBefore, RegistersLast,
     Started, Ending, EndQueued, Is
  <1> events \in Seq(EventTypes)
    BY DEF TypeOK
  <1>1. CASE FsReady
    BY <1>1, PostProperties DEF FsReady, EventTypes
  <1>2. CASE Reboot
    BY <1>2 DEF Reboot
  <1>3. CASE FwCrash
    BY <1>3, PostProperties DEF FwCrash, EventTypes
  <1>4. CASE CoexServer
    BY <1>4 DEF CoexServer
  <1>5. CASE FwInitDone
    BY <1>5, PostProperties, FaultCounts DEF FwInitDone, Posted, Unposted, EventTypes
  <1>6. CASE CalDoneInd
    BY <1>6, PostProperties DEF CalDoneInd, Posted, Unposted, EventTypes
  <1>7. CASE RegisterCall
    BY <1>7 DEF RegisterCall
  <1>8. CASE RegisterCheck
    BY <1>8, PostProperties, FaultCounts DEF RegisterCheck, Posted, Unposted, EventTypes
  <1>9. CASE WorkStart
    BY <1>9 DEF WorkStart
  <1>10. CASE WorkCheckDone
    BY <1>10 DEF WorkCheckDone
  <1>11. CASE WorkCheckCal
    BY <1>11 DEF WorkCheckCal
  <1>12. CASE WorkRequeue
    BY <1>12 DEF WorkRequeue
  <1>13. CASE WorkTimeout
    BY <1>13, PostProperties DEF WorkTimeout, Posted, Unposted, EventTypes
  <1>14. CASE WorkRegister
    BY <1>14, PostProperties, FaultCounts, SMTT(30) DEF WorkRegister, Posted, Unposted, EventTypes
  <1>15. CASE TakeEvent
    <2>1. /\ worker = "idle" /\ Head(events) \in EventTypes
          /\ Head(events) = events[1] /\ 1 \in 1..Len(events)
      BY <1>15, TakeProperties DEF TakeEvent
    <2>2. Head(events) = "REGISTER" => Is("CAL_DONE") \/ unended
      BY <2>1
    <2> QED
      BY <1>15, <2>1, <2>2 DEF TakeEvent, EventTypes
  <1>16. CASE CalStart
    BY <1>16 DEF CalStart, MarkCalFail
  <1>17. CASE CalStartCancel
    BY <1>17 DEF CalStartCancel, CancelAndSchedule, Running
  <1>18. CASE CalStartPowerUp
    BY <1>18 DEF CalStartPowerUp, MarkCalFail
  <1>19. CASE FwReady
    BY <1>19 DEF FwReady
  <1>20. CASE RequestAntenna
    BY <1>20 DEF RequestAntenna
  <1>21. CASE CalMode
    BY <1>21 DEF CalMode, Off
  <1>22. CASE Probe
    BY <1>22 DEF Probe, Off
  <1>23. CASE CalDone
    BY <1>23 DEF CalDone
  <1>24. CASE ReleaseAntenna
    BY <1>24 DEF ReleaseAntenna
  <1>25. CASE CalShutdown
    BY <1>25 DEF CalShutdown, Off
  <1>26. CASE CalClear
    BY <1>26 DEF CalClear
  <1>27. CASE CalMark
    BY <1>27 DEF CalMark
  <1>28. CASE CalUpload
    BY <1>28 DEF CalUpload, Attempt
  <1>29. CASE CalDoneCancel
    BY <1>29 DEF CalDoneCancel, CancelAndSchedule, Running
  <1>30. CASE RegisterDriver
    BY <1>30 DEF RegisterDriver
  <1>31. CASE Recover
    BY <1>31 DEF Recover
  <1>32. CASE UNCHANGED vars
    BY <1>32 DEF vars
  <1> QED
    BY <1>1, <1>2, <1>3, <1>4, <1>5, <1>6, <1>7, <1>8, <1>9, <1>10, <1>11, <1>12, <1>13,
       <1>14, <1>15, <1>16, <1>17, <1>18, <1>19, <1>20, <1>21, <1>22, <1>23, <1>24,
       <1>25, <1>26, <1>27, <1>28, <1>29, <1>30, <1>31, <1>32 DEF Next, Environment,
       Firmware, Registration, RegDriverWork,
       Worker, CalStartHandler, FwReadyHandler, CalDoneHandler

\* What was started stays started.
LEMMA BeforeNext ==
    ASSUME TypeOK, BitsOfStep, NothingBefore, [Next]_vars
    PROVE  NothingBefore'
  <1> USE DEF calVars, workVars, modemVars, BitsOfStep, NothingBefore, Started, Is
  <1> events \in Seq(EventTypes)
    BY DEF TypeOK
  <1>1. CASE FsReady
    BY <1>1, PostProperties DEF FsReady, EventTypes
  <1>2. CASE Reboot
    BY <1>2 DEF Reboot
  <1>3. CASE FwCrash
    BY <1>3, PostProperties DEF FwCrash, EventTypes
  <1>4. CASE CoexServer
    BY <1>4 DEF CoexServer
  <1>5. CASE FwInitDone
    BY <1>5, PostProperties, FaultCounts DEF FwInitDone, Posted, Unposted, EventTypes
  <1>6. CASE CalDoneInd
    BY <1>6, PostProperties DEF CalDoneInd, Posted, Unposted, EventTypes
  <1>7. CASE RegisterCall
    BY <1>7 DEF RegisterCall
  <1>8. CASE RegisterCheck
    BY <1>8, PostProperties, FaultCounts DEF RegisterCheck, Posted, Unposted, EventTypes
  <1>9. CASE WorkStart
    BY <1>9 DEF WorkStart
  <1>10. CASE WorkCheckDone
    BY <1>10 DEF WorkCheckDone
  <1>11. CASE WorkCheckCal
    BY <1>11 DEF WorkCheckCal
  <1>12. CASE WorkRequeue
    BY <1>12 DEF WorkRequeue
  <1>13. CASE WorkTimeout
    BY <1>13, PostProperties DEF WorkTimeout, Posted, Unposted, EventTypes
  <1>14. CASE WorkRegister
    BY <1>14, PostProperties, FaultCounts, SMTT(30) DEF WorkRegister, Posted, Unposted, EventTypes
  <1>15. CASE TakeEvent
    BY <1>15, TakeProperties DEF TakeEvent
  <1>16. CASE CalStart
    BY <1>16 DEF CalStart, MarkCalFail
  <1>17. CASE CalStartCancel
    BY <1>17 DEF CalStartCancel, CancelAndSchedule, Running
  <1>18. CASE CalStartPowerUp
    BY <1>18 DEF CalStartPowerUp, MarkCalFail
  <1>19. CASE FwReady
    BY <1>19 DEF FwReady
  <1>20. CASE RequestAntenna
    BY <1>20 DEF RequestAntenna
  <1>21. CASE CalMode
    BY <1>21 DEF CalMode, Off
  <1>22. CASE Probe
    BY <1>22 DEF Probe, Off
  <1>23. CASE CalDone
    BY <1>23 DEF CalDone
  <1>24. CASE ReleaseAntenna
    BY <1>24 DEF ReleaseAntenna
  <1>25. CASE CalShutdown
    BY <1>25 DEF CalShutdown, Off
  <1>26. CASE CalClear
    BY <1>26 DEF CalClear
  <1>27. CASE CalMark
    BY <1>27 DEF CalMark
  <1>28. CASE CalUpload
    BY <1>28 DEF CalUpload, Attempt
  <1>29. CASE CalDoneCancel
    BY <1>29 DEF CalDoneCancel, CancelAndSchedule, Running
  <1>30. CASE RegisterDriver
    BY <1>30 DEF RegisterDriver
  <1>31. CASE Recover
    BY <1>31 DEF Recover
  <1>32. CASE UNCHANGED vars
    BY <1>32 DEF vars
  <1> QED
    BY <1>1, <1>2, <1>3, <1>4, <1>5, <1>6, <1>7, <1>8, <1>9, <1>10, <1>11, <1>12, <1>13,
       <1>14, <1>15, <1>16, <1>17, <1>18, <1>19, <1>20, <1>21, <1>22, <1>23, <1>24,
       <1>25, <1>26, <1>27, <1>28, <1>29, <1>30, <1>31, <1>32 DEF Next, Environment,
       Firmware, Registration, RegDriverWork,
       Worker, CalStartHandler, FwReadyHandler, CalDoneHandler

\* No registration overtakes the end of the calibration.
LEMMA RegistersNext ==
    ASSUME TypeOK, BitsOfStep, NothingBefore, RegistersLast, [Next]_vars
    PROVE  RegistersLast'
  <1> USE DEF calVars, workVars, modemVars, BitsOfStep, NothingBefore, RegistersLast,
     Started, Ending, EndQueued, Is
  <1> events \in Seq(EventTypes)
    BY DEF TypeOK
  <1>1. CASE FsReady
    BY <1>1, PostProperties DEF FsReady, EventTypes
  <1>2. CASE Reboot
    BY <1>2 DEF Reboot
  <1>3. CASE FwCrash
    BY <1>3, PostProperties DEF FwCrash, EventTypes
  <1>4. CASE CoexServer
    BY <1>4 DEF CoexServer
  <1>5. CASE FwInitDone
    <2>1. UNCHANGED <<state, worker, work, unended>>
      BY <1>5 DEF FwInitDone
    <2>2. CASE Posted("FW_READY")
      BY <2>1, <2>2, PostProperties DEF Posted, EventTypes
    <2>3. CASE Unposted
      BY <2>1, <2>3 DEF Unposted
    <2> QED
      BY <1>5, <2>2, <2>3 DEF FwInitDone
  <1>6. CASE CalDoneInd
    BY <1>6, PostProperties DEF CalDoneInd, Posted, Unposted, EventTypes
  <1>7. CASE RegisterCall
    BY <1>7 DEF RegisterCall
  <1>8. CASE RegisterCheck
    BY <1>8, PostProperties, FaultCounts DEF RegisterCheck, Posted, Unposted, EventTypes
  <1>9. CASE WorkStart
    BY <1>9 DEF WorkStart
  <1>10. CASE WorkCheckDone
    BY <1>10 DEF WorkCheckDone
  <1>11. CASE WorkCheckCal
    BY <1>11 DEF WorkCheckCal
  <1>12. CASE WorkRequeue
    BY <1>12 DEF WorkRequeue
  <1>13. CASE WorkTimeout
    <2>1. CASE Posted("TIMEOUT") /\ UNCHANGED unended
      BY <1>13, <2>1, PostProperties DEF WorkTimeout, Posted, EventTypes
    <2>2. CASE unended'
      BY <2>2
    <2>3. CASE work' = "idle" /\ UNCHANGED <<events, unended>>
      BY <1>13, <2>3 DEF WorkTimeout
    <2> QED
      BY <1>13, <2>1, <2>2, <2>3 DEF WorkTimeout
  <1>14. CASE WorkRegister
    BY <1>14, PostProperties, FaultCounts, SMTT(30) DEF WorkRegister, Posted, Unposted, EventTypes
  <1>15. CASE TakeEvent
    <2>1. /\ worker = "idle" /\ events # <<>> /\ events' = Tail(events)
          /\ Head(events) \in {"DONE", "TIMEOUT"} => worker' = "CAL_DONE"
          /\ UNCHANGED <<state, work, unended>>
      BY <1>15 DEF TakeEvent
    <2>2. /\ Head(events) = events[1] /\ Len(events) \in Nat \ {0}
          /\ Len(events') = Len(events) - 1
          /\ \A i \in 1..(Len(events) - 1) : events'[i] = events[i + 1]
      BY <2>1, TakeProperties
    <2>3. ASSUME NEW n \in 1..Len(events), EndQueued(n), Is("IN_CAL")
          PROVE  Ending' \/ (Is("IN_CAL") /\ EndQueued(n - 1))'
      <3>1. PICK j \in 1..n : events[j] \in {"DONE", "TIMEOUT"}
        BY <2>3
      <3>2. CASE j = 1
        BY <2>1, <2>2, <2>3, <3>1, <3>2
      <3>3. CASE j # 1
        <4>1. j - 1 \in 1..(n - 1) /\ j - 1 \in 1..(Len(events) - 1)
          BY <2>2, <3>3
        <4>2. events'[j - 1] = events[j]
          BY <2>2, <4>1
        <4> QED
          BY <2>1, <2>3, <3>1, <4>1, <4>2
      <3> QED
        BY <3>2, <3>3
    <2>4. Ending => Ending'
      BY <2>1
    <2>5. ASSUME ~unended, NEW i \in 1..Len(events'), events'[i] = "REGISTER"
          PROVE  Ending' \/ (Is("IN_CAL") /\ EndQueued(i - 1))'
      <3>1. i + 1 \in 1..Len(events) /\ events[i + 1] = "REGISTER" /\ i \in
         1..Len(events)
        BY <2>2, <2>5
      <3>2. Ending \/ (Is("IN_CAL") /\ EndQueued(i))
        BY <2>5, <3>1
      <3> QED
        BY <2>3, <2>4, <3>1, <3>2
    <2>6. ~unended /\ work = "register" => Ending' \/ (Is("IN_CAL") /\ EndQueued(Len(events)))'
      <3>1. Len(events) \in 1..Len(events)
        BY <2>2
      <3> QED
        BY <2>2, <2>3, <2>4, <3>1
    <2> HIDE DEF Ending, EndQueued
    <2> QED
      BY <2>1, <2>5, <2>6
  <1>16. CASE CalStart
    BY <1>16 DEF CalStart, MarkCalFail
  <1>17. CASE CalStartCancel
    BY <1>17 DEF CalStartCancel, CancelAndSchedule, Running
  <1>18. CASE CalStartPowerUp
    BY <1>18 DEF CalStartPowerUp, MarkCalFail
  <1>19. CASE FwReady
    BY <1>19 DEF FwReady
  <1>20. CASE RequestAntenna
    BY <1>20 DEF RequestAntenna
  <1>21. CASE CalMode
    BY <1>21 DEF CalMode, Off
  <1>22. CASE Probe
    BY <1>22 DEF Probe, Off
  <1>23. CASE CalDone
    BY <1>23 DEF CalDone
  <1>24. CASE ReleaseAntenna
    BY <1>24 DEF ReleaseAntenna
  <1>25. CASE CalShutdown
    BY <1>25 DEF CalShutdown, Off
  <1>26. CASE CalClear
    BY <1>26 DEF CalClear
  <1>27. CASE CalMark
    BY <1>27 DEF CalMark
  <1>28. CASE CalUpload
    BY <1>28 DEF CalUpload, Attempt
  <1>29. CASE CalDoneCancel
    BY <1>29 DEF CalDoneCancel, CancelAndSchedule, Running
  <1>30. CASE RegisterDriver
    BY <1>30 DEF RegisterDriver
  <1>31. CASE Recover
    BY <1>31 DEF Recover
  <1>32. CASE UNCHANGED vars
    BY <1>32 DEF vars
  <1> QED
    BY <1>1, <1>2, <1>3, <1>4, <1>5, <1>6, <1>7, <1>8, <1>9, <1>10, <1>11, <1>12, <1>13,
       <1>14, <1>15, <1>16, <1>17, <1>18, <1>19, <1>20, <1>21, <1>22, <1>23, <1>24,
       <1>25, <1>26, <1>27, <1>28, <1>29, <1>30, <1>31, <1>32 DEF Next, Environment,
       Firmware, Registration, RegDriverWork,
       Worker, CalStartHandler, FwReadyHandler, CalDoneHandler

\* A driver is loaded, registered or probed after the attempt only.
LEMMA DriverNext ==
    ASSUME BitsOfStep, DriverIsLast, [Next]_vars
    PROVE  DriverIsLast'
  <1> USE DEF calVars, workVars, modemVars, BitsOfStep, DriverIsLast, Is
  <1>1. CASE FsReady
    BY <1>1 DEF FsReady
  <1>2. CASE Reboot
    BY <1>2 DEF Reboot
  <1>3. CASE FwCrash
    BY <1>3 DEF FwCrash
  <1>4. CASE CoexServer
    BY <1>4 DEF CoexServer
  <1>5. CASE FwInitDone
    BY <1>5 DEF FwInitDone, Posted, Unposted
  <1>6. CASE CalDoneInd
    BY <1>6 DEF CalDoneInd, Posted, Unposted
  <1>7. CASE RegisterCall
    BY <1>7 DEF RegisterCall
  <1>8. CASE RegisterCheck
    BY <1>8 DEF RegisterCheck, Posted, Unposted
  <1>9. CASE WorkStart
    BY <1>9 DEF WorkStart
  <1>10. CASE WorkCheckDone
    BY <1>10 DEF WorkCheckDone
  <1>11. CASE WorkCheckCal
    BY <1>11 DEF WorkCheckCal
  <1>12. CASE WorkRequeue
    BY <1>12 DEF WorkRequeue
  <1>13. CASE WorkTimeout
    BY <1>13 DEF WorkTimeout, Posted, Unposted
  <1>14. CASE WorkRegister
    BY <1>14 DEF WorkRegister, Posted, Unposted
  <1>15. CASE TakeEvent
    BY <1>15 DEF TakeEvent
  <1>16. CASE CalStart
    BY <1>16 DEF CalStart, MarkCalFail
  <1>17. CASE CalStartCancel
    BY <1>17 DEF CalStartCancel, CancelAndSchedule, Running
  <1>18. CASE CalStartPowerUp
    BY <1>18 DEF CalStartPowerUp, MarkCalFail
  <1>19. CASE FwReady
    BY <1>19 DEF FwReady
  <1>20. CASE RequestAntenna
    BY <1>20 DEF RequestAntenna
  <1>21. CASE CalMode
    BY <1>21 DEF CalMode, Off
  <1>22. CASE Probe
    BY <1>22 DEF Probe, Off
  <1>23. CASE CalDone
    BY <1>23 DEF CalDone
  <1>24. CASE ReleaseAntenna
    BY <1>24 DEF ReleaseAntenna
  <1>25. CASE CalShutdown
    BY <1>25 DEF CalShutdown, Off
  <1>26. CASE CalClear
    BY <1>26 DEF CalClear
  <1>27. CASE CalMark
    BY <1>27 DEF CalMark
  <1>28. CASE CalUpload
    BY <1>28 DEF CalUpload, Attempt
  <1>29. CASE CalDoneCancel
    BY <1>29 DEF CalDoneCancel, CancelAndSchedule, Running
  <1>30. CASE RegisterDriver
    BY <1>30 DEF RegisterDriver
  <1>31. CASE Recover
    BY <1>31 DEF Recover
  <1>32. CASE UNCHANGED vars
    BY <1>32 DEF vars
  <1> QED
    BY <1>1, <1>2, <1>3, <1>4, <1>5, <1>6, <1>7, <1>8, <1>9, <1>10, <1>11, <1>12, <1>13,
       <1>14, <1>15, <1>16, <1>17, <1>18, <1>19, <1>20, <1>21, <1>22, <1>23, <1>24,
       <1>25, <1>26, <1>27, <1>28, <1>29, <1>30, <1>31, <1>32 DEF Next, Environment,
       Firmware, Registration, RegDriverWork,
       Worker, CalStartHandler, FwReadyHandler, CalDoneHandler

\* Every step without a fault keeps what the end of the attempt found.
LEMMA FaultFreeNext ==
    ASSUME TypeOK, BitsOfStep, DriverIsLast, FaultFree, [Next]_vars
    PROVE  FaultFree'
  <1> USE DEF calVars, workVars, modemVars, BitsOfStep, DriverIsLast, FaultFree, Is
  <1> events \in Seq(EventTypes)
    BY DEF TypeOK
  <1>1. CASE FsReady
    BY <1>1, PostProperties DEF FsReady, EventTypes
  <1>2. CASE Reboot
    BY <1>2 DEF Reboot
  <1>3. CASE FwCrash
    BY <1>3, PostProperties, FaultCounts DEF FwCrash, EventTypes
  <1>4. CASE CoexServer
    BY <1>4 DEF CoexServer
  <1>5. CASE FwInitDone
    BY <1>5, PostProperties, FaultCounts DEF FwInitDone, Posted, Unposted, EventTypes
  <1>6. CASE CalDoneInd
    BY <1>6, PostProperties, FaultCounts DEF CalDoneInd, Posted, Unposted, EventTypes
  <1>7. CASE RegisterCall
    BY <1>7 DEF RegisterCall
  <1>8. CASE RegisterCheck
    BY <1>8, PostProperties, FaultCounts DEF RegisterCheck, Posted, Unposted, EventTypes
  <1>9. CASE WorkStart
    BY <1>9 DEF WorkStart
  <1>10. CASE WorkCheckDone
    BY <1>10 DEF WorkCheckDone
  <1>11. CASE WorkCheckCal
    BY <1>11 DEF WorkCheckCal
  <1>12. CASE WorkRequeue
    BY <1>12 DEF WorkRequeue
  <1>13. CASE WorkTimeout
    BY <1>13, PostProperties, FaultCounts DEF WorkTimeout, Posted, Unposted, EventTypes
  <1>14. CASE WorkRegister
    BY <1>14, PostProperties, FaultCounts, SMTT(30) DEF WorkRegister, Posted, Unposted, EventTypes
  <1>15. CASE TakeEvent
    <2>1. /\ worker = "idle" /\ events # <<>> /\ events' = Tail(events)
          /\ worker' \in {"CAL_DONE", Head(events)}
          /\ UNCHANGED <<state, antenna, device, faults, unended>>
      BY <1>15 DEF TakeEvent
    <2>2. /\ Head(events) \in EventTypes
          /\ Head(events) = events[1] /\ 1 \in 1..Len(events) /\ Len(events) \in Nat
          /\ Len(events') = Len(events) - 1
          /\ \A i \in 1..(Len(events) - 1) : events'[i] = events[i + 1]
      BY <2>1, TakeProperties
    <2>3. faults = 0 => \A i \in 1..Len(events') : events'[i] # "RECOVERY"
      BY <2>2
    <2>4. faults = 0 => worker' # "RECOVERY"
      BY <2>1, <2>2
    <2>5. worker' \notin {"shutdown", "clear_cal", "mark_done"}
      BY <2>1, <2>2 DEF EventTypes
    <2> QED
      BY <2>1, <2>3, <2>4, <2>5
  <1>16. CASE CalStart
    BY <1>16, FaultCounts DEF CalStart, MarkCalFail
  <1>17. CASE CalStartCancel
    BY <1>17 DEF CalStartCancel, CancelAndSchedule, Running
  <1>18. CASE CalStartPowerUp
    BY <1>18, FaultCounts DEF CalStartPowerUp, MarkCalFail
  <1>19. CASE FwReady
    BY <1>19 DEF FwReady
  <1>20. CASE RequestAntenna
    BY <1>20, FaultCounts DEF RequestAntenna
  <1>21. CASE CalMode
    BY <1>21, FaultCounts DEF CalMode, Off
  <1>22. CASE Probe
    BY <1>22, FaultCounts DEF Probe, Off
  <1>23. CASE CalDone
    BY <1>23 DEF CalDone
  <1>24. CASE ReleaseAntenna
    BY <1>24, FaultCounts DEF ReleaseAntenna, TypeOK
  <1>25. CASE CalShutdown
    BY <1>25 DEF CalShutdown, Off
  <1>26. CASE CalClear
    BY <1>26 DEF CalClear
  <1>27. CASE CalMark
    BY <1>27 DEF CalMark
  <1>28. CASE CalUpload
    BY <1>28, FaultCounts DEF CalUpload, Attempt
  <1>29. CASE CalDoneCancel
    BY <1>29 DEF CalDoneCancel, CancelAndSchedule, Running
  <1>30. CASE RegisterDriver
    BY <1>30, FaultCounts DEF RegisterDriver
  <1>31. CASE Recover
    BY <1>31 DEF Recover
  <1>32. CASE UNCHANGED vars
    BY <1>32 DEF vars
  <1> QED
    BY <1>1, <1>2, <1>3, <1>4, <1>5, <1>6, <1>7, <1>8, <1>9, <1>10, <1>11, <1>12, <1>13,
       <1>14, <1>15, <1>16, <1>17, <1>18, <1>19, <1>20, <1>21, <1>22, <1>23, <1>24,
       <1>25, <1>26, <1>27, <1>28, <1>29, <1>30, <1>31, <1>32 DEF Next, Environment,
       Firmware, Registration, RegDriverWork,
       Worker, CalStartHandler, FwReadyHandler, CalDoneHandler

-----------------------------------------------------------------------------
(***************************************************************************)
(* The theorems                                                            *)
(***************************************************************************)

LEMMA InvariantInit == Init => IInv
  BY TypeInit DEF Init, IInv, BitsOfStep, NothingBefore, RegistersLast, DriverIsLast,
                  FaultFree, Started, Ending, EndQueued, Is

LEMMA InvariantNext == IInv /\ [Next]_vars => IInv'
  BY TypeNext, BitsNext, BeforeNext, RegistersNext, DriverNext, FaultFreeNext DEF IInv

\* The inductive invariant holds in every state.
THEOREM Invariant == Spec => []IInv
  BY InvariantInit, InvariantNext, PTL DEF Spec

\* Every variable of the calibration keeps its type.
THEOREM TypeCorrect == Spec => []TypeOK
  <1>1. IInv => TypeOK
    BY DEF IInv
  <1> QED
    BY <1>1, Invariant, PTL

\* However many faults, timeouts and registrations race, and unless the end of a
\* calibration that took too long could not be posted, no host driver is
\* loaded, registered or probed before the calibration is over.
THEOREM CalibrationIsAlone == Spec => []CalibratesAlone
  <1>1. IInv => CalibratesAlone
    BY DEF IInv, DriverIsLast, BitsOfStep, CalibratesAlone, DeferredUntilComplete, Is
  <1> QED
    BY <1>1, Invariant, PTL

\* An attempt without faults leaves the device off for the host driver.
LEMMA OffAfterwards == Spec => []OffAfterCalibration
  <1>1. IInv => OffAfterCalibration
    BY DEF IInv, FaultFree, OffAfterCalibration, Is
  <1> QED
    BY <1>1, Invariant, PTL

\* Without faults the modem has its antenna back when the calibration is over.
LEMMA AntennaIsReturned == Spec => []AntennaReturned
  <1>1. IInv => AntennaReturned
    BY DEF IInv, FaultFree, AntennaReturned, Is
  <1> QED
    BY <1>1, Invariant, PTL

\* However the calibration ends, the host driver and the modem find what they
\* need.
THEOREM CleanAfterwards == Spec => []CalibrationCleansUp
  <1>1. OffAfterCalibration /\ AntennaReturned => CalibrationCleansUp
    BY DEF CalibrationCleansUp
  <1> QED
    BY <1>1, OffAfterwards, AntennaIsReturned, PTL

\* No step changes the result of a calibration or starts another.
THEOREM OneCalibration == Spec => CalibratedOnce
  <1>1. ASSUME IInv, [Next]_vars PROVE ResultStands
    <2> USE DEF calVars, workVars, modemVars, BitsOfStep, ResultStands, Is
    <2>1. BitsOfStep
      BY <1>1 DEF IInv
    <2>2. CASE FsReady
      BY <2>1, <2>2 DEF FsReady
    <2>3. CASE Reboot
      BY <2>1, <2>3 DEF Reboot
    <2>4. CASE FwCrash
      BY <2>1, <2>4 DEF FwCrash
    <2>5. CASE CoexServer
      BY <2>1, <2>5 DEF CoexServer
    <2>6. CASE FwInitDone
      BY <2>1, <2>6 DEF FwInitDone
    <2>7. CASE CalDoneInd
      BY <2>1, <2>7 DEF CalDoneInd
    <2>8. CASE RegisterCall
      BY <2>1, <2>8 DEF RegisterCall
    <2>9. CASE RegisterCheck
      BY <2>1, <2>9 DEF RegisterCheck
    <2>10. CASE WorkStart
      BY <2>1, <2>10 DEF WorkStart
    <2>11. CASE WorkCheckDone
      BY <2>1, <2>11 DEF WorkCheckDone
    <2>12. CASE WorkCheckCal
      BY <2>1, <2>12 DEF WorkCheckCal
    <2>13. CASE WorkRequeue
      BY <2>1, <2>13 DEF WorkRequeue
    <2>14. CASE WorkTimeout
      BY <2>1, <2>14 DEF WorkTimeout
    <2>15. CASE WorkRegister
      BY <2>1, <2>15 DEF WorkRegister
    <2>16. CASE TakeEvent
      BY <2>1, <2>16 DEF TakeEvent
    <2>17. CASE CalStart
      BY <2>1, <2>17 DEF CalStart, MarkCalFail
    <2>18. CASE CalStartCancel
      BY <2>1, <2>18 DEF CalStartCancel, CancelAndSchedule, Running
    <2>19. CASE CalStartPowerUp
      BY <2>1, <2>19 DEF CalStartPowerUp, MarkCalFail
    <2>20. CASE FwReady
      BY <2>1, <2>20 DEF FwReady
    <2>21. CASE RequestAntenna
      BY <2>1, <2>21 DEF RequestAntenna
    <2>22. CASE CalMode
      BY <2>1, <2>22 DEF CalMode, Off
    <2>23. CASE Probe
      BY <2>1, <2>23 DEF Probe, Off
    <2>24. CASE CalDone
      BY <2>1, <2>24 DEF CalDone
    <2>25. CASE ReleaseAntenna
      BY <2>1, <2>25 DEF ReleaseAntenna
    <2>26. CASE CalShutdown
      BY <2>1, <2>26 DEF CalShutdown, Off
    <2>27. CASE CalClear
      BY <2>1, <2>27 DEF CalClear
    <2>28. CASE CalMark
      BY <2>1, <2>28 DEF CalMark
    <2>29. CASE CalUpload
      BY <2>1, <2>29 DEF CalUpload, Attempt
    <2>30. CASE CalDoneCancel
      BY <2>1, <2>30 DEF CalDoneCancel, CancelAndSchedule, Running
    <2>31. CASE RegisterDriver
      BY <2>1, <2>31 DEF RegisterDriver
    <2>32. CASE Recover
      BY <2>1, <2>32 DEF Recover
    <2>33. CASE UNCHANGED vars
      BY <2>1, <2>33 DEF vars
    <2> QED
      BY <1>1, <2>2, <2>3, <2>4, <2>5, <2>6, <2>7, <2>8, <2>9, <2>10, <2>11, <2>12,
         <2>13, <2>14, <2>15, <2>16, <2>17, <2>18, <2>19, <2>20, <2>21, <2>22, <2>23,
         <2>24, <2>25, <2>26, <2>27, <2>28, <2>29, <2>30, <2>31, <2>32, <2>33 DEF Next,
         Environment, Firmware,
         Registration, RegDriverWork, Worker, CalStartHandler, FwReadyHandler,
            CalDoneHandler
  <1> QED
    BY <1>1, Invariant, PTL DEF Spec, CalibratedOnce

==============================================================================
