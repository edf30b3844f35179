------------------------------ MODULE IcnssProofs ------------------------------
(***************************************************************************)
(* Proofs about the recovery of icnss2, for any set of devices and any     *)
(* number of boots, failures and registrations.                            *)
(*                                                                         *)
(* Only the handlers of a few events touch the host driver.  The inductive *)
(* invariant ties the callback it is in to the step of the worker and to   *)
(* the bits PROBED and SHUTDOWN_DONE, and the votes to PD_RESTART; every   *)
(* other step leaves these alone, which is one lemma.                      *)
(*                                                                         *)
(* Timely strengthens it for failures that come in time, when each crash   *)
(* is told of once; Course does for a boot without faults, and follows     *)
(* each message of the firmware over the wire and the queue to the worker. *)
(***************************************************************************)
EXTENDS Icnss, TLAPS

-----------------------------------------------------------------------------
(***************************************************************************)
(* The inductive invariant                                                 *)
(***************************************************************************)

\* The host driver is in a callback exactly while the worker calls it.
CallbackIsCalled ==
    /\ (callback = "probe")  = (worker.at = "probe_end")
    /\ (callback = "reinit") = (worker.at = "reinit_end")
    /\ (callback = "remove") = (worker.at = "remove_end")
    /\ callback = "shutdown" => worker.at = "restarted"

\* What the bits say of the host driver.
BitsAreTrue ==
    /\ Is("PROBED") = (callback \notin {"out", "probe"})
    /\ callback \in {"shutdown", "stopped", "reinit"} => Is("SHUTDOWN_DONE")
    /\ callback # "out" => ops
    /\ worker.at = "restarted" /\ Is("PROBED") => Is("SHUTDOWN_DONE")
    /\ worker.at = "reinit" => Is("PROBED") /\ Is("SHUTDOWN_DONE")

\* A restart that is completed was begun, with a vote.
VotesAreHeld ==
    /\ worker.at = "restart" => Is("PD_RESTART")
    /\ AwakeInRestart

IInv == TypeOK /\ CallbackIsCalled /\ BitsAreTrue /\ VotesAreHeld

-----------------------------------------------------------------------------
(***************************************************************************)
(* The steps that leave the host driver alone                              *)
(***************************************************************************)

DriverBits == {"PROBED", "SHUTDOWN_DONE", "PD_RESTART"}
InCallback == {"probe_end", "reinit_end", "remove_end", "restarted"}
Calling    == InCallback \cup {"restart", "reinit", "call_probe"}

\* The host driver, its bits and the votes stay, and the worker is not about to
\* call it.
Aside ==
    /\ UNCHANGED <<ops, callback, votes>>
    /\ \A b \in DriverBits : (b \in state') = (b \in state)
    /\ worker' = worker \/ (worker.at \notin InCallback /\ worker'.at \notin Calling)

LEMMA AsideKeeps ==
    ASSUME IInv, TypeOK', Aside
    PROVE  IInv'
  <1> USE DEF Aside, DriverBits, InCallback, Calling, Is
  <1>1. CASE worker' = worker
    BY <1>1 DEF IInv, CallbackIsCalled, BitsAreTrue, VotesAreHeld, AwakeInRestart, At
  <1>2. CASE worker.at \notin InCallback /\ worker'.at \notin Calling
    BY <1>2 DEF IInv, CallbackIsCalled, BitsAreTrue, VotesAreHeld, AwakeInRestart, At
  <1> QED
    BY <1>1, <1>2

\* Sequences of events and messages.
LEMMA AppendEvent ==
    ASSUME NEW q \in Seq(Events), NEW ev \in EventTypes, NEW of \in Nat,
           NEW by \in Threads \cup {"nobody"}
    PROVE  Append(q, Event(ev, of, by)) \in Seq(Events)
  BY DEF Event, Events

LEMMA AppendMessage ==
    ASSUME NEW q \in Seq(Messages), NEW ind \in {"NEW", "DEL", "FW_READY", "FW_INIT_DONE",
       "CAL_DONE"},
           NEW n \in Nat
    PROVE  /\ Append(q, [ind |-> ind, of |-> n]) \in Seq(Messages)
           /\ <<[ind |-> ind, of |-> n]>> \in Seq(Messages)
  BY DEF Messages

LEMMA HeadAndTail ==
    ASSUME NEW S, NEW q \in Seq(S), q # <<>>
    PROVE  Head(q) \in S /\ Tail(q) \in Seq(S)
  OBVIOUS

\* An event that is posted, or lost.
LEMMA PostKeeps ==
    ASSUME TypeOK, NEW ev \in EventTypes, NEW of \in Nat, Post(ev, of)
    PROVE  events' \in Seq(Events) /\ faults' \in Nat
  <1>1. events \in Seq(Events) /\ faults \in Nat /\ "nobody" \in Threads \cup {"nobody"}
    BY DEF TypeOK
  <1>2. Append(events, Event(ev, of, "nobody")) \in Seq(Events)
    BY <1>1, AppendEvent
  <1>3. CASE events' = Append(events, Event(ev, of, "nobody")) /\ UNCHANGED faults
    BY <1>1, <1>2, <1>3
  <1>4. CASE Fault /\ UNCHANGED events
    BY <1>1, <1>4 DEF Fault
  <1> QED
    BY <1>3, <1>4 DEF Post

LEMMA PostSyncKeeps ==
    ASSUME TypeOK, NEW ev \in EventTypes, NEW by \in Threads, PostSync(ev, by)
    PROVE  events' \in Seq(Events) /\ faults' \in Nat /\ waits' \in SUBSET Threads
  <1>1. events \in Seq(Events) /\ faults \in Nat /\ waits \in SUBSET Threads
    BY DEF TypeOK
  <1>2. Append(events, Event(ev, 0, by)) \in Seq(Events)
    BY <1>1, AppendEvent
  <1>3. CASE /\ events' = Append(events, Event(ev, 0, by))
             /\ waits' = waits \cup {by} /\ UNCHANGED faults
    BY <1>1, <1>2, <1>3
  <1>4. CASE Fault /\ UNCHANGED <<events, waits>>
    BY <1>1, <1>4 DEF Fault
  <1> QED
    BY <1>3, <1>4 DEF PostSync

LEMMA FaultKeeps == TypeOK /\ Fault => faults' \in Nat
  BY DEF TypeOK, Fault

\* Where the worker may go.
LEMMA GoKeeps ==
    ASSUME TypeOK, NEW step \in WorkerSteps, Go(step)
    PROVE  /\ worker' \in [at : WorkerSteps, ev : Events \cup {Resting.ev}]
           /\ worker'.at = step /\ waits' \in SUBSET Threads
  BY DEF TypeOK, Go

LEMMA FinishKeeps ==
    ASSUME TypeOK, Finish
    PROVE  /\ worker' \in [at : WorkerSteps, ev : Events \cup {Resting.ev}]
           /\ worker'.at = "idle" /\ waits' \in SUBSET Threads
  BY DEF TypeOK, Finish, Resting, Event, Events, WorkerSteps

-----------------------------------------------------------------------------
(***************************************************************************)
(* The firmware, the QMI thread, the notifiers and the host driver         *)
(***************************************************************************)

LEMMA GoneKeeps == TypeOK => FwGone \in Seq(Messages)
  BY AppendMessage DEF TypeOK, FwGone

LEMMA FwStepKeeps ==
    ASSUME TypeOK, NEW from \in Stages, NEW to \in Stages,
           NEW ind \in {"NEW", "DEL", "FW_READY", "FW_INIT_DONE", "CAL_DONE"}, FwStep(from,
              to, ind)
    PROVE  TypeOK' /\ Aside
  <1>1. wire' \in Seq(Messages)
    BY AppendMessage DEF FwStep, TypeOK
  <1>2. fw' \in [life : {"off", "up", "dead"}, stage : Stages \cup {"signalled"}]
    BY DEF FwStep, TypeOK
  <1> QED
    BY <1>1, <1>2 DEF FwStep, TypeOK, Aside, driverVars, threadVars, hostVars

LEMMA FailKeeps ==
    ASSUME TypeOK, NEW first \in SsrSteps, NEW c \in BOOLEAN, Fail(first, c),
           pdr' \in {"idle", "down", "up"}
    PROVE  TypeOK' /\ Aside
  <1>1. wire' \in Seq(Messages)
    BY GoneKeeps DEF Fail, TypeOK
  <1>2. fw' \in [life : {"off", "up", "dead"}, stage : Stages \cup {"signalled"}]
    BY DEF Fail, TypeOK
  <1>3. untimely' \in Nat /\ ssr' \in [at : SsrSteps, crashed : BOOLEAN]
    BY DEF Fail, TypeOK
  <1> QED
    BY <1>1, <1>2, <1>3 DEF Fail, TypeOK, Aside, driverVars, threadVars, hostVars

\* What the firmware does.
LEMMA FirmwareAside ==
    ASSUME TypeOK, Firmware \/ Failures \/ Restart
    PROVE  TypeOK' /\ Aside
  <1> USE DEF TypeOK, Aside, DriverBits, fwVars, hostVars, threadVars, driverVars
  <1>1. CASE Firmware
    BY <1>1, FwStepKeeps DEF Firmware, Stages
  <1>2. CASE WpssFails
    <2>1. PICK c \in BOOLEAN : Fail("early_nb", c) /\ UNCHANGED pdr
      BY <1>2 DEF WpssFails
    <2> QED
      BY <2>1, FailKeeps DEF SsrSteps
  <1>3. CASE ModemFails
    <2>1. PICK c \in BOOLEAN : Fail("modem_nb", c) /\ UNCHANGED pdr
      BY <1>3 DEF ModemFails
    <2> QED
      BY <2>1, FailKeeps DEF SsrSteps
  <1>4. CASE PdCrashes
    BY <1>4, FailKeeps DEF PdCrashes, SsrSteps
  <1>5. CASE SubsystemOff
    BY <1>5, GoneKeeps DEF SubsystemOff, SsrSteps
  <1>6. CASE FwBoots
    BY <1>6 DEF FwBoots, SsrSteps, Stages
  <1> QED
    BY <1>1, <1>2, <1>3, <1>4, <1>5, <1>6 DEF Failures, Restart

\* What the QMI thread does.
LEMMA QmiAside ==
    ASSUME TypeOK, QmiThread
    PROVE  TypeOK' /\ Aside
  <1> USE DEF TypeOK, Aside, DriverBits, fwVars, hostVars, threadVars, driverVars
  <1>1. CASE NewServer
    <2>1. Head(wire) \in Messages /\ wire' \in Seq(Messages)
      BY <1>1, HeadAndTail DEF NewServer, Receive
    <2>2. Head(wire).of \in Nat /\ "SERVER_ARRIVE" \in EventTypes
      BY <2>1 DEF Messages, EventTypes
    <2>3. events' \in Seq(Events) /\ faults' \in Nat
      BY <1>1, <2>2, PostKeeps DEF NewServer
    <2> QED
      BY <1>1, <2>1, <2>3 DEF NewServer, Receive
  <1>2. CASE DelServer
    BY <1>2, HeadAndTail, PostKeeps DEF DelServer, Receive, EventTypes, Bits
  <1>3. CASE FwReadyInd
    BY <1>3, HeadAndTail, PostKeeps DEF FwReadyInd, Receive, EventTypes
  <1>4. CASE FwInitDoneInd
    BY <1>4, HeadAndTail, PostKeeps DEF FwInitDoneInd, Receive, EventTypes
  <1>5. CASE CalDoneInd
    BY <1>5, HeadAndTail DEF CalDoneInd, Receive
  <1> QED
    BY <1>1, <1>2, <1>3, <1>4, <1>5 DEF QmiThread

\* Where the thread that restarts the subsystem goes.
LEMMA SsrGoKeeps ==
    ASSUME TypeOK, NEW step \in SsrSteps, SsrGo(step)
    PROVE  ssr' \in [at : SsrSteps, crashed : BOOLEAN]
  BY DEF TypeOK, SsrGo

LEMMA EarlyCrashAside ==
    ASSUME TypeOK, EarlyCrash
    PROVE  TypeOK' /\ Aside
  <1>1. "EARLY_CRASH" \in EventTypes /\ 0 \in Nat /\ "nobody" \in Threads \cup {"nobody"}
    BY DEF EventTypes
  <1>2. events \in Seq(Events) /\ faults \in Nat /\ untimely \in Nat
    BY DEF TypeOK
  <1>3. Append(events, Event("EARLY_CRASH", 0, "nobody")) \in Seq(Events)
    BY <1>2 DEF Events, Event, EventTypes
  <1>4. \/ Post("EARLY_CRASH", 0) /\ UNCHANGED untimely
        \/ /\ untimely' = untimely + 1 /\ UNCHANGED faults
           /\ events' = Append(events, Event("EARLY_CRASH", 0, "nobody"))
    BY DEF EarlyCrash
  <1>5. Post("EARLY_CRASH", 0) => events' \in Seq(Events) /\ faults' \in Nat
    BY <1>2, <1>3 DEF Post, Fault
  <1>6. events' \in Seq(Events) /\ faults' \in Nat /\ untimely' \in Nat
    <2>1. untimely' \in Nat
      BY <1>2, <1>4
    <2>2. events' \in Seq(Events) /\ faults' \in Nat
      <3>1. CASE Post("EARLY_CRASH", 0)
        BY <1>5, <3>1
      <3>2. CASE UNCHANGED faults /\ events' = Append(events, Event("EARLY_CRASH", 0, "nobody"))
        <4>1. faults' = faults
          BY <3>2
        <4> QED
          BY <1>2, <1>3, <3>2, <4>1
      <3> QED
        BY <1>4, <3>1, <3>2
    <2> QED
      BY <2>1, <2>2
  <1>7. /\ fw' \in [life : {"off", "up", "dead"}, stage : Stages \cup {"signalled"}]
        /\ state' \in SUBSET Bits
    <2>1. fw \in [life : {"off", "up", "dead"}, stage : Stages \cup {"signalled"}]
          /\ state \in SUBSET Bits /\ "FW_DOWN" \in Bits
      BY DEF TypeOK, Bits
    <2> QED
      BY <2>1 DEF EarlyCrash
  <1>8. \A b \in DriverBits : (b \in state') = (b \in state)
    BY DEF EarlyCrash, DriverBits
  <1>9. UNCHANGED <<device, boot, wire, worker, ops, callback, votes, ssr, pdr, waits, host, calls>>
    BY DEF EarlyCrash, driverVars, threadVars, hostVars
  <1> QED
    BY <1>6, <1>7, <1>8, <1>9 DEF TypeOK, Aside

LEMMA PdrDownAside ==
    ASSUME TypeOK, PdrDown
    PROVE  TypeOK' /\ Aside
  <1>1. "PD_SERVICE_DOWN" \in EventTypes /\ "pdr" \in Threads
    BY DEF EventTypes, Threads
  <1>2. events' \in Seq(Events) /\ faults' \in Nat /\ waits' \in SUBSET Threads
    <2>1. CASE PostSync("PD_SERVICE_DOWN", "pdr")
      BY <1>1, <2>1, PostSyncKeeps
    <2>2. CASE Fault /\ UNCHANGED <<events, waits>>
      <3>1. events \in Seq(Events) /\ waits \in SUBSET Threads
        BY DEF TypeOK
      <3> QED
        BY <2>2, <3>1, FaultKeeps
    <2> QED
      BY <2>1, <2>2 DEF PdrDown
  <1>3. /\ state' \in SUBSET Bits /\ pdr' = "up"
        /\ \A b \in DriverBits : (b \in state') = (b \in state)
    <2>1. state \in SUBSET Bits /\ {"FW_DOWN", "PDR"} \subseteq Bits
      BY DEF TypeOK, Bits
    <2>2. \/ state' = state
          \/ \E more \in SUBSET {"FW_DOWN", "PDR"}, less \in SUBSET {"FW_READY"} :
                state' = (state \cup more) \ less
      <3>1. CASE UNCHANGED state
        BY <3>1
      <3>2. CASE ~UNCHANGED state
        BY <3>2 DEF PdrDown
      <3> QED
        BY <3>1, <3>2
    <2> QED
      BY <2>1, <2>2 DEF PdrDown, DriverBits
  <1>4. UNCHANGED <<device, boot, untimely, fw, wire, worker, ops, callback, votes, ssr, host, calls>>
    BY DEF PdrDown, fwVars, driverVars, hostVars
  <1> QED
    BY <1>2, <1>3, <1>4 DEF TypeOK, Aside

\* What the notifiers do.
LEMMA NotifiersAside ==
    ASSUME TypeOK, Notifiers \/ Pdr
    PROVE  TypeOK' /\ Aside
  <1> USE DEF TypeOK, Aside, DriverBits, fwVars, hostVars, threadVars, driverVars
  <1>1. CASE EarlyCrash
    BY <1>1, EarlyCrashAside DEF Aside
  <1>2. CASE WpssEarlyNotifier
    <2>1. ssr' \in [at : SsrSteps, crashed : BOOLEAN]
      BY <1>2, SsrGoKeeps DEF WpssEarlyNotifier, SsrSteps
    <2> QED
      BY <1>2, <2>1 DEF WpssEarlyNotifier, ssrRest, Bits
  <1>3. CASE WpssNotifier
    <2>1. ssr' \in [at : SsrSteps, crashed : BOOLEAN]
      BY <1>3, SsrGoKeeps DEF WpssNotifier, SsrSteps
    <2> QED
      BY <1>3, <2>1 DEF WpssNotifier, ssrRest, Bits
  <1>4. CASE NotifierDown
    <2>1. "PD_SERVICE_DOWN" \in EventTypes /\ "ssr" \in Threads
      BY DEF EventTypes, Threads
    <2>2. events' \in Seq(Events) /\ faults' \in Nat /\ waits' \in SUBSET Threads
      BY <1>4, <2>1, PostSyncKeeps, FaultKeeps DEF NotifierDown
    <2> QED
      BY <1>4, <2>2 DEF NotifierDown, SsrGo, ssrRest, SsrSteps
  <1>5. CASE ModemNotifier
    <2>1. ssr' \in [at : SsrSteps, crashed : BOOLEAN]
      BY <1>5, SsrGoKeeps DEF ModemNotifier, SsrSteps
    <2> QED
      BY <1>5, <2>1 DEF ModemNotifier, ssrRest, Bits
  <1>6. CASE ModemStop
    <2>1. ssr' \in [at : SsrSteps, crashed : BOOLEAN]
      BY <1>6, SsrGoKeeps DEF ModemStop, SsrSteps
    <2>2. "UNREGISTER" \in EventTypes /\ "ssr" \in Threads
      BY DEF EventTypes, Threads
    <2>3. events' \in Seq(Events) /\ faults' \in Nat /\ waits' \in SUBSET Threads
      BY <1>6, <2>2, PostSyncKeeps DEF ModemStop
    <2> QED
      BY <1>6, <2>1, <2>3 DEF ModemStop, ssrRest
  <1>7. CASE ModemUnblock
    BY <1>7, FaultKeeps DEF ModemUnblock, SsrAt, SsrGo, ssrRest, SsrSteps
  <1>8. CASE ModemDown
    BY <1>8 DEF ModemDown, SsrAt, SsrGo, ssrRest, SsrSteps, Bits
  <1>9. CASE PdrDown
    BY <1>9, PdrDownAside DEF Aside
  <1>10. CASE PdrUp
    BY <1>10 DEF PdrUp
  <1> QED
    BY <1>1, <1>2, <1>3, <1>4, <1>5, <1>6, <1>7, <1>8, <1>9, <1>10 DEF Notifiers, Pdr

\* What the host driver and the user do.
LEMMA HostAside ==
    ASSUME TypeOK, Host \/ AnnounceShutdown
    PROVE  TypeOK' /\ Aside
  <1> USE DEF TypeOK, Aside, DriverBits, fwVars, hostVars, threadVars, driverVars
  <1>1. CASE Register
    BY <1>1, PostKeeps DEF Register, hostRest, EventTypes
  <1>2. CASE Unregister
    BY <1>2, PostSyncKeeps DEF Unregister, hostRest, EventTypes, Threads
  <1>3. CASE Unregistered
    BY <1>3 DEF Unregistered, hostRest
  <1>4. CASE AnnounceShutdown
    BY <1>4 DEF AnnounceShutdown, hostRest, Bits
  <1> QED
    BY <1>1, <1>2, <1>3, <1>4 DEF Host

-----------------------------------------------------------------------------
(***************************************************************************)
(* The steps of the worker that do not call the host driver                *)
(***************************************************************************)

\* An event's handler starts.  None is a callback, nor calls one at once.
LEMMA TakeEventAside ==
    ASSUME TypeOK, TakeEvent
    PROVE  TypeOK' /\ Aside
  <1>1. Head(events) \in Events /\ events' \in Seq(Events)
    BY HeadAndTail DEF TypeOK, TakeEvent
  <1>2. /\ worker' \in [at : WorkerSteps, ev : Events \cup {Resting.ev}]
        /\ worker'.at \in EventTypes
    BY <1>1 DEF TakeEvent, Events, WorkerSteps
  <1>3. worker.at = "idle" /\ worker'.at \notin Calling
    BY <1>2 DEF TakeEvent, Resting, EventTypes, Calling, InCallback
  <1> QED
    BY <1>1, <1>2, <1>3 DEF TakeEvent, TypeOK, Aside, InCallback, DriverBits, fwVars,
       driverVars, threadVars, hostVars

\* Steps that are neither in a callback nor about to call one.
Apart == WorkerSteps \ Calling

\* A step of the handshake that touches none of the host driver's bits.
LEMMA HandshakeAside ==
    ASSUME TypeOK, NEW this \in Apart, NEW next \in Apart, NEW stage \in Stages \cup
       {"signalled"},
           NEW bits, NEW failed,
           \A b \in {bits} \cup failed :
               b \subseteq Bits /\ b \cap DriverBits = state \cap DriverBits,
           HandshakeStep(this, next, bits, failed, stage)
    PROVE  TypeOK' /\ Aside
  <1>1. worker.at = this /\ UNCHANGED <<driverVars, workerRest>>
    BY DEF HandshakeStep, At
  <1>2. CASE /\ Go(next) /\ state' = bits
             /\ fw' = [fw EXCEPT !.stage = stage] /\ UNCHANGED faults
    <2>1. /\ worker' \in [at : WorkerSteps, ev : Events \cup {Resting.ev}]
          /\ worker'.at = next /\ waits' \in SUBSET Threads
      BY <1>2, GoKeeps DEF Apart
    <2>2. /\ state' \in SUBSET Bits /\ faults' \in Nat
          /\ fw' \in [life : {"off", "up", "dead"}, stage : Stages \cup {"signalled"}]
      BY <1>2 DEF TypeOK
    <2>3. \A b \in DriverBits : (b \in state') = (b \in state)
      BY <1>2
    <2> QED
      BY <1>1, <2>1, <2>2, <2>3 DEF TypeOK, Aside, Apart, Calling, workerRest, driverVars,
         hostVars
  <1>3. CASE Finish /\ state' \in failed /\ UNCHANGED fw /\ (Fault \/ UNCHANGED faults)
    <2>1. /\ worker' \in [at : WorkerSteps, ev : Events \cup {Resting.ev}]
          /\ worker'.at = "idle" /\ waits' \in SUBSET Threads
      BY <1>3, FinishKeeps
    <2>2. state' \in SUBSET Bits /\ faults' \in Nat
      BY <1>3, FaultKeeps DEF TypeOK
    <2>3. \A b \in DriverBits : (b \in state') = (b \in state)
      BY <1>3
    <2> QED
      BY <1>1, <1>3, <2>1, <2>2, <2>3 DEF TypeOK, Aside, Apart, Calling, InCallback,
         workerRest, driverVars, hostVars
  <1> QED
    BY <1>2, <1>3 DEF HandshakeStep

LEMMA RequestAside ==
    ASSUME TypeOK, NEW this \in Apart, NEW next \in Apart, Request(this, next)
    PROVE  TypeOK' /\ Aside
  <1>1. /\ fw.stage \in Stages \cup {"signalled"}
        /\ \A b \in {state} \cup {state} : b \subseteq Bits
      BY DEF TypeOK
  <1> QED
    BY <1>1, HandshakeAside DEF Request

LEMMA PoweredAside ==
    ASSUME TypeOK, NEW this \in Apart, NEW next \in Apart, NEW stage \in Stages \cup
       {"signalled"},
           Powered(this, next, stage)
    PROVE  TypeOK' /\ Aside
  <1>1. \A b \in {state} \cup {PowerOff(state)} :
            b \subseteq Bits /\ b \cap DriverBits = state \cap DriverBits
      BY DEF TypeOK, PowerOff, DriverBits
  <1> QED
    BY <1>1, HandshakeAside DEF Powered

\* The whole handshake.
LEMMA HandshakeKeeps ==
    ASSUME TypeOK, Handshake
    PROVE  TypeOK' /\ Aside
  <1>0. fw.stage \in Stages \cup {"signalled"} /\ "served" \in Stages
    BY DEF TypeOK, Stages
  <1>1. {"connect", "ind_register", "host_cap", "msa_info", "msa_ready", "cap",
         "device_info", "bdf", "cal_report", "notifications"} \subseteq Apart
    BY DEF Apart, WorkerSteps, Calling, InCallback
  <1>2. CASE Connect
    <2>1. \A b \in {state \cup {"CONNECTED"}} \cup {state, state \cup {"CONNECTED"}} :
              b \subseteq Bits /\ b \cap DriverBits = state \cap DriverBits
      BY DEF TypeOK, Bits, DriverBits
    <2> QED
      BY <1>0, <1>1, <1>2, <2>1, HandshakeAside DEF Connect
  <1>3. CASE Cap
    <2>1. \A b \in {PowerOn(state)} \cup {state} :
              b \subseteq Bits /\ b \cap DriverBits = state \cap DriverBits
      BY DEF TypeOK, Bits, DriverBits, PowerOn
    <2> DEFINE next  == IF device = "wcn6750" THEN "device_info"
                        ELSE IF device = "adrastea" THEN "bdf" ELSE "notifications"
               stage == IF device = "no_pdr" THEN "served" ELSE fw.stage
    <2>2. next \in Apart /\ stage \in Stages \cup {"signalled"}
      BY <1>0, <1>1
    <2> HIDE DEF next, stage
    <2>3. HandshakeStep("cap", next, PowerOn(state), {state}, stage)
      BY <1>3 DEF Cap, next, stage
    <2> QED
      BY <1>1, <2>1, <2>2, <2>3, HandshakeAside
  <1>4. CASE IndRegister
    BY <1>1, <1>4, RequestAside DEF IndRegister
  <1>5. CASE HostCap \/ MsaInfo \/ MsaReady
    BY <1>1, <1>5, RequestAside DEF HostCap, MsaInfo, MsaReady
  <1>6. CASE DeviceInfo
    BY <1>0, <1>1, <1>6, PoweredAside DEF DeviceInfo
  <1>7. CASE BdfDownload
    BY <1>0, <1>1, <1>7, PoweredAside DEF BdfDownload
  <1>8. CASE CalReport
    <2>1. CASE ~Is("FW_DOWN") /\ Powered("cal_report", "notifications", "served")
      BY <1>0, <1>1, <2>1, PoweredAside
    <2>2. CASE At("cal_report") /\ Finish /\ UNCHANGED <<state, fw, faults, driverVars,
       workerRest>>
      BY <2>2, FinishKeeps DEF At, TypeOK, Aside, Calling, InCallback, workerRest,
         driverVars, hostVars
    <2> QED
      BY <1>8, <2>1, <2>2 DEF CalReport
  <1>9. CASE Notifications
    BY <1>9, FinishKeeps DEF Notifications, At, TypeOK, Aside, Calling, InCallback, Bits,
       DriverBits, workerRest, driverVars, hostVars
  <1> QED
    BY <1>2, <1>3, <1>4, <1>5, <1>6, <1>7, <1>8, <1>9 DEF Handshake

\* The handlers of the server's arrival and exit, and of what the firmware says.
LEMMA ServerAside ==
    ASSUME TypeOK, ServerArrive \/ ServerExit \/ FwInitDone \/ FwReady
    PROVE  TypeOK' /\ Aside
  <1> USE DEF At, TypeOK, Aside, Calling, InCallback, DriverBits, workerRest, driverVars,
          hostVars
  <1>0. {"connect", "FW_READY", "power_off"} \subseteq WorkerSteps
    BY DEF WorkerSteps, EventTypes
  <1>1. CASE ServerArrive
    BY <1>0, <1>1, GoKeeps DEF ServerArrive, Bits
  <1>2. CASE ServerExit
    <2>1. <<[ind |-> "NEW", of |-> boot]>> \in Seq(Messages)
      <3>1. wire \in Seq(Messages) /\ boot \in Nat
        OBVIOUS
      <3> QED
        BY <3>1, AppendMessage
    <2>2. wire' \in Seq(Messages)
      BY <1>2, <2>1 DEF ServerExit
    <2> QED
      BY <1>2, <2>2, FinishKeeps DEF ServerExit, fwVars
  <1>3. CASE FwInitDone
    <2>1. /\ UNCHANGED state /\ faults' \in Nat
          /\ fw' \in [life : {"off", "up", "dead"}, stage : Stages \cup {"signalled"}]
      BY <1>3, FaultKeeps DEF FwInitDone, Stages
    <2>2. Go("FW_READY") \/ Finish
      BY <1>3 DEF FwInitDone
    <2> QED
      BY <1>0, <1>3, <2>1, <2>2, GoKeeps, FinishKeeps DEF FwInitDone
  <1>4. CASE FwReady
    <2>1. fw' \in [life : {"off", "up", "dead"}, stage : Stages \cup {"signalled"}]
      BY <1>4 DEF FwReady, Stages
    <2> QED
      BY <1>0, <1>4, <2>1, GoKeeps DEF FwReady, Bits
  <1> QED
    BY <1>1, <1>2, <1>3, <1>4

-----------------------------------------------------------------------------
(***************************************************************************)
(* The steps of the worker that touch the host driver                      *)
(***************************************************************************)

HostDriverStep ==
    \/ FwReadyPowerOff \/ RestartComplete \/ RestartCleared \/ CallReinit \/ ReinitEnd
    \/ CallProbe \/ ProbeEnd \/ RegisterDriver \/ UnregisterDriver \/ RemoveEnd
    \/ PdServiceDown \/ EarlyCrashInd

\* The step keeps the types: the worker ends, or goes on to a step that it has.
LEMMA HostDriverTypes ==
    ASSUME IInv, HostDriverStep
    PROVE  /\ TypeOK'
           /\ worker'.at \in {"idle", "restart", "call_probe", "restarted", "reinit",
                              "reinit_end", "probe_end", "remove_end"}
  <1> DEFINE Steps == {"restart", "call_probe", "restarted", "reinit", "reinit_end",
                       "probe_end", "remove_end"}
  <1>0. Steps \subseteq WorkerSteps /\ TypeOK
    BY DEF WorkerSteps, IInv
  <1>1. Finish \/ \E step \in Steps : Go(step)
    BY DEF HostDriverStep, FwReadyPowerOff, RestartComplete, RestartCleared, CallReinit,
       ReinitEnd, CallProbe, ProbeEnd, RegisterDriver, UnregisterDriver, RemoveEnd,
       PdServiceDown, EarlyCrashInd
  <1>2. /\ worker' \in [at : WorkerSteps, ev : Events \cup {Resting.ev}]
        /\ waits' \in SUBSET Threads /\ worker'.at \in {"idle"} \cup Steps
    BY <1>0, <1>1, GoKeeps, FinishKeeps
  <1>3. state' \in SUBSET Bits
    BY <1>0, ZenonT(40) DEF HostDriverStep, TypeOK, Bits, PowerOn, PowerOff, FwCrashed, FwReadyPowerOff,
       RestartComplete, RestartCleared, CallReinit, ReinitEnd, CallProbe, ProbeEnd,
       RegisterDriver, UnregisterDriver, RemoveEnd, PdServiceDown, EarlyCrashInd
  <1>4. votes' \in Nat
    <2>1. CASE RestartComplete
      BY <1>0, <2>1 DEF RestartComplete, At, TypeOK, IInv, VotesAreHeld, AwakeInRestart
    <2>2. CASE PdServiceDown \/ EarlyCrashInd
      BY <1>0, <2>2 DEF PdServiceDown, EarlyCrashInd, FwCrashed, TypeOK
    <2> QED
      BY <1>0, <2>1, <2>2 DEF HostDriverStep, TypeOK, driverVars, FwReadyPowerOff,
         RestartCleared, CallReinit, ReinitEnd, CallProbe, ProbeEnd, RegisterDriver,
         UnregisterDriver, RemoveEnd
  <1>5. ops' \in BOOLEAN /\ callback' \in DOMAIN After
    BY <1>0 DEF HostDriverStep, TypeOK, After, driverVars, FwReadyPowerOff, RestartComplete,
       RestartCleared, CallReinit, ReinitEnd, CallProbe, ProbeEnd, RegisterDriver,
       UnregisterDriver, RemoveEnd, PdServiceDown, EarlyCrashInd
  <1>6. faults' \in Nat
    BY <1>0, FaultKeeps DEF HostDriverStep, TypeOK, FwReadyPowerOff, RestartComplete,
       RestartCleared, CallReinit, ReinitEnd, CallProbe, ProbeEnd, RegisterDriver,
       UnregisterDriver, RemoveEnd, PdServiceDown, EarlyCrashInd
  <1>7. UNCHANGED <<fw, workerRest>>
    BY DEF HostDriverStep, FwReadyPowerOff, RestartComplete, RestartCleared, CallReinit,
       ReinitEnd, CallProbe, ProbeEnd, RegisterDriver, UnregisterDriver, RemoveEnd,
       PdServiceDown, EarlyCrashInd
  <1> QED
    BY <1>0, <1>2, <1>3, <1>4, <1>5, <1>6, <1>7 DEF TypeOK, workerRest, hostVars

\* It keeps the rest, too, and the host driver's callbacks in order.
LEMMA HostDriverKeeps ==
    ASSUME IInv, HostDriverStep
    PROVE  IInv' /\ (~StaleShutdown => InOrder)
  <1>0. TypeOK /\ TypeOK' /\ callback \in DOMAIN After
    BY HostDriverTypes DEF IInv, TypeOK
  <1> USE DEF IInv, CallbackIsCalled, BitsAreTrue, VotesAreHeld, AwakeInRestart,
     StaleShutdown,
          InOrder, After, Is, At
  <1> SUFFICES /\ CallbackIsCalled' /\ BitsAreTrue' /\ VotesAreHeld'
               /\ ~StaleShutdown => InOrder
    BY <1>0
  <1>1. CASE FwReadyPowerOff
    <2>1. CallbackIsCalled'
      BY <1>0, <1>1 DEF FwReadyPowerOff, TypeOK, Go, PowerOff, driverVars
    <2>2. BitsAreTrue'
      BY <1>0, <1>1 DEF FwReadyPowerOff, TypeOK, Go, PowerOff, driverVars
    <2>3. VotesAreHeld'
      BY <1>0, <1>1 DEF FwReadyPowerOff, TypeOK, Go, PowerOff, driverVars
    <2>4. ~StaleShutdown => InOrder
      BY <1>0, <1>1 DEF FwReadyPowerOff, driverVars
    <2> QED
      BY <2>1, <2>2, <2>3, <2>4
  <1>2. CASE RestartComplete
    <2>1. CallbackIsCalled'
      BY <1>0, <1>2 DEF RestartComplete, TypeOK, Go
    <2>2. BitsAreTrue'
      BY <1>0, <1>2 DEF RestartComplete, TypeOK, Go
    <2>3. VotesAreHeld'
      BY <1>0, <1>2 DEF RestartComplete, TypeOK, Go
    <2>4. ~StaleShutdown => InOrder
      BY <1>0, <1>2 DEF RestartComplete
    <2> QED
      BY <2>1, <2>2, <2>3, <2>4
  <1>3. CASE RestartCleared
    <2>1. CallbackIsCalled'
      BY <1>0, <1>3 DEF RestartCleared, TypeOK, Go, Finish, Resting
    <2>2. BitsAreTrue'
      BY <1>0, <1>3 DEF RestartCleared, TypeOK, Go, Finish, Resting
    <2>3. VotesAreHeld'
      BY <1>0, <1>3 DEF RestartCleared, TypeOK, Go, Finish, Resting
    <2>4. ~StaleShutdown => InOrder
      BY <1>0, <1>3 DEF RestartCleared
    <2> QED
      BY <2>1, <2>2, <2>3, <2>4
  <1>4. CASE CallReinit
    <2>1. CallbackIsCalled'
      BY <1>0, <1>4 DEF CallReinit, TypeOK, Go, PowerOn
    <2>2. BitsAreTrue'
      BY <1>0, <1>4 DEF CallReinit, TypeOK, Go, PowerOn
    <2>3. VotesAreHeld'
      BY <1>0, <1>4 DEF CallReinit, TypeOK, Go, PowerOn
    <2>4. ~StaleShutdown => InOrder
      BY <1>0, <1>4 DEF CallReinit
    <2> QED
      BY <2>1, <2>2, <2>3, <2>4
  <1>5. CASE ReinitEnd
    <2>1. CallbackIsCalled'
      BY <1>0, <1>5 DEF ReinitEnd, TypeOK, Finish, Resting, PowerOff
    <2>2. BitsAreTrue'
      BY <1>0, <1>5 DEF ReinitEnd, TypeOK, Finish, Resting, PowerOff
    <2>3. VotesAreHeld'
      BY <1>0, <1>5 DEF ReinitEnd, TypeOK, Finish, Resting, PowerOff
    <2>4. ~StaleShutdown => InOrder
      BY <1>0, <1>5 DEF ReinitEnd
    <2> QED
      BY <2>1, <2>2, <2>3, <2>4
  <1>6. CASE CallProbe
    <2>1. CASE ~ops \/ Is("PROBED")
      <3>1. CallbackIsCalled'
        BY <1>0, <1>6, <2>1 DEF CallProbe, TypeOK, Go, Finish, Resting, PowerOn
      <3>2. BitsAreTrue'
        BY <1>0, <1>6, <2>1 DEF CallProbe, TypeOK, Go, Finish, Resting, PowerOn
      <3>3. VotesAreHeld'
        BY <1>0, <1>6, <2>1 DEF CallProbe, TypeOK, Go, Finish, Resting, PowerOn
      <3>4. ~StaleShutdown => InOrder
        BY <1>0, <1>6, <2>1 DEF CallProbe
      <3> QED
        BY <3>1, <3>2, <3>3, <3>4
    <2>2. CASE ~(~ops \/ Is("PROBED"))
      <3>1. CallbackIsCalled'
        BY <1>0, <1>6, <2>2, SMTT(30) DEF CallProbe, TypeOK, Go, Finish, Resting, PowerOn
      <3>2. BitsAreTrue'
        BY <1>0, <1>6, <2>2, SMTT(30) DEF CallProbe, TypeOK, Go, Finish, Resting, PowerOn
      <3>3. VotesAreHeld'
        BY <1>0, <1>6, <2>2, SMTT(30) DEF CallProbe, TypeOK, Go, Finish, Resting, PowerOn
      <3>4. ~StaleShutdown => InOrder
        BY <1>0, <1>6, <2>2 DEF CallProbe
      <3> QED
        BY <3>1, <3>2, <3>3, <3>4
    <2> QED
      BY <2>1, <2>2
  <1>7. CASE ProbeEnd
    <2>1. CallbackIsCalled'
      BY <1>0, <1>7 DEF ProbeEnd, TypeOK, Finish, Resting, PowerOff
    <2>2. BitsAreTrue'
      BY <1>0, <1>7 DEF ProbeEnd, TypeOK, Finish, Resting, PowerOff
    <2>3. VotesAreHeld'
      BY <1>0, <1>7 DEF ProbeEnd, TypeOK, Finish, Resting, PowerOff
    <2>4. ~StaleShutdown => InOrder
      BY <1>0, <1>7 DEF ProbeEnd
    <2> QED
      BY <2>1, <2>2, <2>3, <2>4
  <1>8. CASE RegisterDriver
    <2>1. CASE ops \/ Is("FW_DOWN") \/ ~Is("FW_READY")
      <3>1. CallbackIsCalled'
        BY <1>0, <1>8, <2>1 DEF RegisterDriver, TypeOK, Go, Finish, Resting, PowerOn
      <3>2. BitsAreTrue'
        BY <1>0, <1>8, <2>1 DEF RegisterDriver, TypeOK, Go, Finish, Resting, PowerOn
      <3>3. VotesAreHeld'
        BY <1>0, <1>8, <2>1 DEF RegisterDriver, TypeOK, Go, Finish, Resting, PowerOn
      <3>4. ~StaleShutdown => InOrder
        BY <1>0, <1>8, <2>1 DEF RegisterDriver
      <3> QED
        BY <3>1, <3>2, <3>3, <3>4
    <2>2. CASE ~(ops \/ Is("FW_DOWN") \/ ~Is("FW_READY"))
      <3>1. /\ ops' /\ votes' = votes /\ worker.at = "REGISTER" /\ ~ops
            /\ \A b \in {"PROBED", "SHUTDOWN_DONE", "PD_RESTART"} : (b \in state') = (b \in state)
        BY <1>8, <2>2 DEF RegisterDriver, PowerOn, driverVars
      <3>2. callback = "out" /\ "PROBED" \notin state
        BY <1>0, <3>1
      <3>3. \/ callback' = "probe" /\ worker'.at = "probe_end"
            \/ callback' = callback /\ worker'.at = "idle"
        BY <1>0, <1>8, <2>2 DEF RegisterDriver, Go, Finish, Resting, TypeOK
      <3> QED
        BY <3>1, <3>2, <3>3
    <2> QED
      BY <2>1, <2>2
  <1>9. CASE UnregisterDriver
    <2>1. CASE ~Is("PROBED")
      <3>1. CallbackIsCalled'
        BY <1>0, <1>9, <2>1 DEF UnregisterDriver, TypeOK, Go, Finish, Resting
      <3>2. BitsAreTrue'
        BY <1>0, <1>9, <2>1 DEF UnregisterDriver, TypeOK, Go, Finish, Resting
      <3>3. VotesAreHeld'
        BY <1>0, <1>9, <2>1 DEF UnregisterDriver, TypeOK, Go, Finish, Resting
      <3>4. ~StaleShutdown => InOrder
        BY <1>0, <1>9, <2>1 DEF UnregisterDriver
      <3> QED
        BY <3>1, <3>2, <3>3, <3>4
    <2>2. CASE ~(~Is("PROBED"))
      <3>1. CallbackIsCalled'
        BY <1>0, <1>9, <2>2 DEF UnregisterDriver, TypeOK, Go, Finish, Resting
      <3>2. BitsAreTrue'
        BY <1>0, <1>9, <2>2 DEF UnregisterDriver, TypeOK, Go, Finish, Resting
      <3>3. VotesAreHeld'
        <4>1. /\ votes' = votes /\ worker.at = "UNREGISTER" /\ worker'.at = "remove_end"
              /\ ("PD_RESTART" \in state') = ("PD_RESTART" \in state)
          BY <1>0, <1>9, <2>2 DEF UnregisterDriver, Go, TypeOK
        <4> QED
          BY <4>1
      <3>4. ~StaleShutdown => InOrder
        BY <1>0, <1>9, <2>2 DEF UnregisterDriver
      <3> QED
        BY <3>1, <3>2, <3>3, <3>4
    <2> QED
      BY <2>1, <2>2
  <1>10. CASE RemoveEnd
    <2>1. CallbackIsCalled'
      BY <1>0, <1>10 DEF RemoveEnd, TypeOK, Finish, Resting, PowerOff
    <2>2. BitsAreTrue'
      BY <1>0, <1>10 DEF RemoveEnd, TypeOK, Finish, Resting, PowerOff
    <2>3. VotesAreHeld'
      BY <1>0, <1>10 DEF RemoveEnd, TypeOK, Finish, Resting, PowerOff
    <2>4. ~StaleShutdown => InOrder
      BY <1>0, <1>10 DEF RemoveEnd
    <2> QED
      BY <2>1, <2>2, <2>3, <2>4
  <1>11. CASE PdServiceDown
    <2>1. CallbackIsCalled'
      BY <1>0, <1>11 DEF PdServiceDown, TypeOK, Finish, Resting, FwCrashed
    <2>2. BitsAreTrue'
      BY <1>0, <1>11 DEF PdServiceDown, TypeOK, Finish, Resting, FwCrashed
    <2>3. VotesAreHeld'
      BY <1>0, <1>11 DEF PdServiceDown, TypeOK, Finish, Resting, FwCrashed
    <2>4. ~StaleShutdown => InOrder
      BY <1>0, <1>11 DEF PdServiceDown
    <2> QED
      BY <2>1, <2>2, <2>3, <2>4
  <1>12. CASE EarlyCrashInd
    <2>1. CASE Is("EXISTS")
      <3>1. CallbackIsCalled'
        BY <1>0, <1>12, <2>1 DEF EarlyCrashInd, TypeOK, Finish, Resting, FwCrashed
      <3>2. BitsAreTrue'
        <4>1. /\ UNCHANGED <<ops, callback>>
              /\ worker.at = "EARLY_CRASH" /\ worker'.at = "idle"
              /\ \A b \in {"PROBED", "SHUTDOWN_DONE"} : (b \in state') = (b \in state)
          BY <1>12, <2>1 DEF EarlyCrashInd, FwCrashed, Finish, Resting
        <4> QED
          BY <4>1
      <3>3. VotesAreHeld'
        BY <1>0, <1>12, <2>1 DEF EarlyCrashInd, TypeOK, Finish, Resting, FwCrashed
      <3>4. ~StaleShutdown => InOrder
        BY <1>0, <1>12, <2>1 DEF EarlyCrashInd
      <3> QED
        BY <3>1, <3>2, <3>3, <3>4
    <2>2. CASE ~(Is("EXISTS"))
      <3>1. CallbackIsCalled'
        BY <1>0, <1>12, <2>2 DEF EarlyCrashInd, TypeOK, Finish, Resting, FwCrashed
      <3>2. BitsAreTrue'
        BY <1>0, <1>12, <2>2 DEF EarlyCrashInd, TypeOK, Finish, Resting, FwCrashed
      <3>3. VotesAreHeld'
        BY <1>0, <1>12, <2>2 DEF EarlyCrashInd, TypeOK, Finish, Resting, FwCrashed
      <3>4. ~StaleShutdown => InOrder
        BY <1>0, <1>12, <2>2 DEF EarlyCrashInd
      <3> QED
        BY <3>1, <3>2, <3>3, <3>4
    <2> QED
      BY <2>1, <2>2
  <1> QED
    BY <1>1, <1>2, <1>3, <1>4, <1>5, <1>6, <1>7, <1>8, <1>9, <1>10, <1>11, <1>12 DEF
       HostDriverStep

-----------------------------------------------------------------------------
(***************************************************************************)
(* The theorems                                                            *)
(***************************************************************************)

LEMMA InvariantInit == Init => IInv
  <1> SUFFICES ASSUME Init PROVE IInv
    OBVIOUS
  <1>1. TypeOK
    <2>1. wire \in Seq(Messages) /\ events \in Seq(Events)
      BY DEF Init
    <2>2. worker \in [at : WorkerSteps, ev : Events \cup {Resting.ev}]
      BY DEF Init, Resting, WorkerSteps
    <2> QED
      BY <2>1, <2>2 DEF Init, TypeOK, Bits, Stages, After, SsrSteps, Threads
  <1>2. CallbackIsCalled /\ BitsAreTrue /\ VotesAreHeld
    BY DEF Init, Resting, CallbackIsCalled, BitsAreTrue, VotesAreHeld, AwakeInRestart, At,
       Is
  <1> QED
    BY <1>1, <1>2 DEF IInv

LEMMA InvariantNext == IInv /\ [Next]_vars => IInv' /\ (~StaleShutdown => InOrder)
  <1> SUFFICES ASSUME IInv, [Next]_vars PROVE IInv' /\ (~StaleShutdown => InOrder)
    OBVIOUS
  <1>0. TypeOK
    BY DEF IInv
  <1>1. CASE TypeOK' /\ Aside
    BY <1>1, AsideKeeps DEF Aside, InOrder
  <1>2. CASE HostDriverStep
    BY <1>2, HostDriverKeeps
  <1>3. CASE Firmware \/ Failures \/ Restart
    BY <1>0, <1>1, <1>3, FirmwareAside
  <1>4. CASE QmiThread
    BY <1>0, <1>1, <1>4, QmiAside
  <1>5. CASE Notifiers \/ Pdr
    BY <1>0, <1>1, <1>5, NotifiersAside
  <1>6. CASE Host \/ AnnounceShutdown
    BY <1>0, <1>1, <1>6, HostAside
  <1>7. CASE TakeEvent \/ Handshake
    BY <1>0, <1>1, <1>7, TakeEventAside, HandshakeKeeps
  <1>8. CASE ServerArrive \/ ServerExit \/ FwInitDone \/ FwReady
    BY <1>0, <1>1, <1>8, ServerAside
  <1>9. CASE UNCHANGED vars
    BY <1>9 DEF vars, fwVars, hostVars, threadVars, driverVars, IInv, TypeOK,
       CallbackIsCalled, BitsAreTrue, VotesAreHeld, AwakeInRestart, At, Is, InOrder
  <1> QED
    BY <1>2, <1>3, <1>4, <1>5, <1>6, <1>7, <1>8, <1>9 DEF Next, Worker, HostDriverStep

\* The inductive invariant holds of every behaviour of icnss2.
THEOREM Invariant == Spec => []IInv
  BY InvariantInit, InvariantNext, PTL DEF Spec

\* Every variable has its type.
THEOREM TypeCorrect == Spec => []TypeOK
  <1>1. IInv => TypeOK
    BY DEF IInv
  <1> QED
    BY <1>1, Invariant, PTL

\* A recovery that has not completed keeps the system awake: icnss_fw_crashed
\* took a vote that only icnss_pd_restart_complete gives back.
THEOREM AwakeUntilRestarted == Spec => []AwakeInRestart
  <1>1. IInv => AwakeInRestart
    BY DEF IInv, VotesAreHeld
  <1> QED
    BY <1>1, Invariant, PTL

-----------------------------------------------------------------------------
(***************************************************************************)
(* Failures that come in time                                              *)
(***************************************************************************)

Crashes == {"EARLY_CRASH", "PD_SERVICE_DOWN"}

Queued(type)   == \E i \in DOMAIN events : events[i].ev = type
Underway(type) == Queued(type) \/ At(type)
\* Nobody is to be told of a crash any more.
CrashesHandled == \A type \in Crashes : ~Underway(type)

\* The firmware runs, and nobody stops it.
Up == Alive /\ ssr.at = "idle"
\* It was served by the handshake.
Served == Up /\ fw.stage \notin {"booting", "announced"}

\* Only arrivals are marked with a boot, which was not after this one.
BootsMark ==
    /\ \A i \in DOMAIN wire : wire[i].of <= boot
    /\ \A i \in DOMAIN events :
          events[i].of <= boot /\ (events[i].ev \in Crashes => events[i].of = 0)
    /\ worker.ev.of <= boot /\ (worker.at \in Crashes => worker.ev.of = 0)

\* What the restart of the subsystem says of the firmware.
Restarts ==
    /\ Alive => boot # 0 /\ ssr.at # "boot"
    /\ fw.life = "dead" => ssr.at # "idle"
    /\ pdr = "down" => ssr.at = "boot"
    /\ boot = 0 => ssr.at = "idle"

\* The crash of an earlier firmware is handled before the arrival of this one.
CrashesFirst ==
    /\ Up => /\ \A i, j \in DOMAIN events :
                   events[i].of = boot /\ events[j].ev \in Crashes => j < i
             /\ worker.ev.of = boot => CrashesHandled
    /\ Served => CrashesHandled

\* A crash that the interrupt has not told of yet: nobody else has, either.
Unheard ==
    /\ fw.life = "dead" /\ fw.stage # "signalled"
    /\ ssr.at \in {"early_nb", "modem_nb"} \/ pdr = "down"
    => ~Is("PD_RESTART") /\ CrashesHandled

\* The interrupt tells first.
EarlyFirst ==
    /\ At("EARLY_CRASH") => ~Is("PD_RESTART")
    /\ \A i \in DOMAIN events : events[i].ev = "EARLY_CRASH" =>
          /\ ~Is("PD_RESTART") /\ worker.at \notin Crashes
          /\ \A j \in DOMAIN events : j < i => events[j].ev \notin Crashes

OneVote ==
    /\ votes = IF Is("PD_RESTART") /\ ~At("restarted") THEN 1 ELSE 0
    /\ At("restarted") => Is("PD_RESTART")

TimelyInv == BootsMark /\ Restarts /\ CrashesFirst /\ Unheard /\ EarlyFirst /\ OneVote
Timely == untimely = 0 => TimelyInv

-----------------------------------------------------------------------------
(***************************************************************************)
(* The course of a boot without faults                                     *)
(***************************************************************************)

\* The events that the firmware gives rise to.
ReadyEvents == {"FW_READY", "FW_INIT_DONE"}
FwEvents    == {"SERVER_ARRIVE", "SERVER_EXIT"} \cup ReadyEvents
HandshakeSteps == {"connect", "ind_register", "host_cap", "msa_info", "msa_ready", "cap",
                   "device_info", "bdf", "cal_report"}

OnWire(ind) == \E i \in DOMAIN wire : wire[i].ind = ind

\* The events of a firmware are queued once.
Once ==
    \A i, j \in DOMAIN events :
       \/ events[i].ev = events[j].ev /\ events[i].ev \in FwEvents
       \/ events[i].ev \in ReadyEvents /\ events[j].ev \in ReadyEvents
       => i = j

\* What is on the wire, by the stage of the firmware.
One(a)    == Len(wire) = 1 /\ wire[1].ind = a
Two(a, b) == Len(wire) = 2 /\ wire[1].ind = a /\ wire[2].ind = b
OnTheWire ==
    /\ ~Alive \/ fw.stage = "booting" => wire = <<>> \/ One("DEL")
    /\ Alive =>
       /\ fw.stage # "signalled"
       /\ fw.stage = "announced" => wire = <<>> \/ One("NEW") \/ Two("DEL", "NEW")
       /\ fw.stage \in {"served", "calibrating"} => wire = <<>>
       /\ fw.stage = "calibrated" => wire = <<>> \/ One("CAL_DONE")
       /\ fw.stage = "init" => \/ wire = <<>> \/ One("FW_INIT_DONE")
                               \/ Two("CAL_DONE", "FW_INIT_DONE")
       /\ fw.stage = "ready" => wire = <<>> \/ One("FW_READY")
       /\ \A i \in DOMAIN wire : wire[i].ind = "NEW" => wire[i].of = boot

\* A server that is gone is told of before the next one.
Exits ==
    /\ Is("DEL_SERVER") <=> Underway("SERVER_EXIT")
    /\ ~(Queued("SERVER_EXIT") /\ At("SERVER_EXIT"))
    /\ Is("DEL_SERVER") => ~OnWire("DEL")
    /\ Alive /\ fw.stage \notin {"booting", "announced"} => ~Is("DEL_SERVER")

\* A server that is announced is served, by a handshake that nothing disturbs.
Arrives ==
    /\ Up /\ fw.stage = "announced" =>
          \/ OnWire("NEW") \/ Is("DEL_SERVER") \/ Underway("SERVER_ARRIVE")
          \/ worker.at \in HandshakeSteps
    /\ \A i \in DOMAIN events : events[i].ev = "SERVER_ARRIVE" => events[i].of = boot
    /\ Underway("SERVER_ARRIVE") \/ worker.at \in HandshakeSteps =>
          Up /\ fw.stage = "announced" /\ wire = <<>> /\ ~Is("DEL_SERVER")
    /\ worker.at \in {"SERVER_ARRIVE"} \cup HandshakeSteps =>
          worker.ev.of = boot /\ ~Queued("SERVER_ARRIVE")
    /\ At("notifications") => Served
    /\ worker.at \in HandshakeSteps \cup {"notifications"} \/ Served =>
          /\ Is("EXISTS") /\ ~Is("FW_DOWN")
          /\ At("connect") \/ Is("CONNECTED")
          /\ At("notifications") \/ fw.stage # "ready" => ~Is("FW_READY")

\* The firmware says that it is ready, and once.
Handled   == fw.stage = "ready" /\ Is("FW_READY")
Expecting == Up /\ (fw.stage = "init" \/ (fw.stage = "ready" /\ ~Is("FW_READY")))
Sent   == \E ind \in ReadyEvents : OnWire(ind)
Listed == \E type \in ReadyEvents : Queued(type)
InHand == \E type \in ReadyEvents : At(type)
Ready ==
    /\ Expecting <=> Sent \/ Listed \/ InHand
    /\ ~(Sent /\ Listed) /\ ~(Sent /\ InHand) /\ ~(Listed /\ InHand)
    /\ OnWire("FW_INIT_DONE") \/ Underway("FW_INIT_DONE") => fw.stage = "init"
    /\ ssr.at # "idle" /\ Alive => fw.stage = "ready"

\* A recovery is begun by the failure and completed by the firmware that follows.
Told == Is("PD_RESTART") \/ Underway("PD_SERVICE_DOWN")
Recovers ==
    /\ boot > 1 \/ ssr.at # "idle" => Is("EXISTS")
    /\ Is("early_crash_ind") => Is("PD_RESTART")
    /\ worker.at \in {"restart", "restarted"} => Up /\ Handled
    /\ At("power_off") /\ Is("PD_RESTART") => Up /\ Handled
    /\ ssr.at = "off" /\ device # "adrastea" => Told
    /\ ssr.at = "boot" /\ pdr # "down" => Told
    /\ Up /\ boot > 1 /\ ~Handled => Told
    /\ Up /\ Handled /\ worker.at \notin {"power_off", "restart", "restarted"} => ~Is("PD_RESTART")

\* Nothing was ready before the first firmware was.
DriverSteps == {"power_off", "restart", "restarted", "reinit", "reinit_end", "call_probe",
                "probe_end", "remove_end"}
First ==
    /\ boot <= 1 /\ ssr.at = "idle" => CrashesHandled
    /\ boot <= 1 /\ ssr.at = "idle" /\ ~(Up /\ Handled) =>
          ~Is("FW_READY") /\ callback = "out" /\ worker.at \notin DriverSteps

\* The host driver gets its power and its firmware back.
Serves ==
    /\ worker.at \in {"FW_READY", "power_off"} /\ Is("PROBED") => Is("PD_RESTART")
    /\ At("probe_end") \/ (Is("PROBED") /\ worker.at \notin {"restart", "restarted", "reinit"}) =>
          Is("POWER_ON")
    /\ callback = "stopped" => At("reinit")
    /\ Up /\ Handled /\ ops /\ callback = "out" =>
          worker.at \in {"power_off", "restart", "restarted", "call_probe"}

Course ==
    /\ Once /\ OnTheWire /\ Exits /\ Arrives /\ Ready /\ Recovers /\ First /\ Serves
Faultless == faults = 0 /\ untimely = 0 => Course

-----------------------------------------------------------------------------
(***************************************************************************)
(* What posts and taken events do to the queue                             *)
(***************************************************************************)

LEMMA Appended ==
    ASSUME TypeOK, NEW e \in Events, events' = Append(events, e)
    PROVE  \E n \in DOMAIN events' :
              /\ events'[n] = e
              /\ \A i \in DOMAIN events :
                    i \in Nat /\ i < n /\ i \in DOMAIN events' /\ events'[i] = events[i]
              /\ \A i \in DOMAIN events' : i = n \/ i \in DOMAIN events
  <1> DEFINE n == Len(events) + 1
  <1>1. /\ events \in Seq(Events) /\ Len(events) \in Nat
        /\ DOMAIN events = 1..Len(events) /\ DOMAIN events' = 1..n
    BY DEF TypeOK
  <1>2. events'[n] = e /\ \A i \in DOMAIN events : events'[i] = events[i]
    BY <1>1
  <1>3. \A i \in DOMAIN events : i \in Nat /\ i < n /\ i \in DOMAIN events'
    BY <1>1
  <1>4. n \in DOMAIN events' /\ \A i \in DOMAIN events' : i = n \/ i \in DOMAIN events
    BY <1>1
  <1> HIDE DEF n
  <1> QED
    BY <1>2, <1>3, <1>4

LEMMA Taken ==
    ASSUME TypeOK, events # <<>>, events' = Tail(events)
    PROVE  /\ 1 \in DOMAIN events /\ Head(events) = events[1]
           /\ \A i \in DOMAIN events' :
                 i \in Nat \ {0} /\ i + 1 \in DOMAIN events /\ events'[i] = events[i + 1]
           /\ \A i \in DOMAIN events :
                 i # 1 => i - 1 \in DOMAIN events' /\ events'[i - 1] = events[i]
  <1>1. /\ events \in Seq(Events) /\ Len(events) \in Nat \ {0}
        /\ DOMAIN events = 1..Len(events) /\ DOMAIN events' = 1..(Len(events) - 1)
    BY DEF TypeOK
  <1>2. 1 \in DOMAIN events /\ Head(events) = events[1]
    BY <1>1
  <1>3. \A i \in DOMAIN events' :
           i \in Nat \ {0} /\ i + 1 \in DOMAIN events /\ events'[i] = events[i + 1]
    BY <1>1
  <1>4. ASSUME NEW i \in DOMAIN events, i # 1
        PROVE  i - 1 \in DOMAIN events' /\ events'[i - 1] = events[i]
    <2>1. i - 1 \in DOMAIN events' /\ (i - 1) + 1 = i
      BY <1>1, <1>4
    <2> QED
      BY <1>3, <2>1
  <1> QED
    BY <1>2, <1>3, <1>4

LEMMA QueueGrows ==
    ASSUME TypeOK, NEW e \in Events, events' = Append(events, e)
    PROVE  /\ \A type : Queued(type)' <=> Queued(type) \/ type = e.ev
           /\ Once /\ (e.ev \in FwEvents => ~Queued(e.ev))
                   /\ (e.ev \in ReadyEvents => \A type \in ReadyEvents : ~Queued(type)) => Once'
  <1>1. PICK n \in DOMAIN events' :
           /\ events'[n] = e
           /\ \A i \in DOMAIN events :
                 i \in Nat /\ i < n /\ i \in DOMAIN events' /\ events'[i] = events[i]
           /\ \A i \in DOMAIN events' : i = n \/ i \in DOMAIN events
    BY Appended
  <1>2. \A type : Queued(type)' <=> Queued(type) \/ type = e.ev
    BY <1>1 DEF Queued
  <1>3. ASSUME Once, e.ev \in FwEvents => ~Queued(e.ev),
               e.ev \in ReadyEvents => \A type \in ReadyEvents : ~Queued(type)
        PROVE  Once'
    BY <1>1, <1>3 DEF Once, Queued
  <1> QED
    BY <1>2, <1>3

LEMMA QueueShrinks ==
    ASSUME TypeOK, events # <<>>, events' = Tail(events)
    PROVE  /\ Queued(Head(events).ev)
           /\ \A type : Queued(type)' => Queued(type)
           /\ \A type : type # Head(events).ev => (Queued(type)' <=> Queued(type))
           /\ Once => /\ Once'
                      /\ \A type : type = Head(events).ev /\ type \in FwEvents => ~Queued(type)'
                      /\ Head(events).ev \in ReadyEvents =>
                            \A type \in ReadyEvents : ~Queued(type)'
  <1>1. /\ 1 \in DOMAIN events /\ Head(events) = events[1]
        /\ \A i \in DOMAIN events' :
              i \in Nat \ {0} /\ i + 1 \in DOMAIN events /\ events'[i] = events[i + 1]
        /\ \A i \in DOMAIN events :
              i # 1 => i - 1 \in DOMAIN events' /\ events'[i - 1] = events[i]
    BY Taken
  <1>2. \A i \in DOMAIN events' : i + 1 # 1
    BY <1>1
  <1>3. \A i, j \in DOMAIN events' : i + 1 = j + 1 => i = j
    BY <1>1
  <1>4. Queued(Head(events).ev) /\ \A type : Queued(type)' => Queued(type)
    BY <1>1 DEF Queued
  <1>5. \A type : type # Head(events).ev => (Queued(type) => Queued(type)')
    BY <1>1 DEF Queued
  <1>6. Once => Once'
    BY <1>1, <1>3 DEF Once
  <1>7. ASSUME Once, NEW type, NEW i \in DOMAIN events', events'[i].ev = type,
               \/ type = Head(events).ev /\ type \in FwEvents
               \/ type \in ReadyEvents /\ Head(events).ev \in ReadyEvents
        PROVE  FALSE
    <2>1. i + 1 = 1
      BY <1>1, <1>7 DEF Once
    <2> QED
      BY <1>2, <2>1
  <1> QED
    BY <1>4, <1>5, <1>6, <1>7 DEF Queued

LEMMA QueueStays ==
    ASSUME UNCHANGED events
    PROVE  (\A type : Queued(type)' <=> Queued(type)) /\ (Once' <=> Once)
  BY DEF Queued, Once

-----------------------------------------------------------------------------
(***************************************************************************)
(* Steps that nobody is told of a crash by                                 *)
(***************************************************************************)

\* They neither begin nor end a failure, nor a recovery.
Calm ==
    /\ UNCHANGED <<boot, votes>> /\ fw'.life = fw.life /\ (~Alive => fw' = fw)
    /\ Is("PD_RESTART")' = Is("PD_RESTART")
    /\ Served' => Served \/ worker.ev.of = boot
    /\ \A at \in {"idle", "boot"} : (ssr'.at = at) = (ssr.at = at)
    /\ ssr'.at \in {"early_nb", "modem_nb"} => ssr'.at = ssr.at
    /\ pdr' = "down" => pdr = "down"
    /\ \A i \in DOMAIN wire' : wire'[i].of <= boot
    /\ \/ worker' = worker
       \/ /\ worker.at # "restarted" /\ worker'.at \notin Crashes \cup {"restarted"}
          /\ worker'.ev \in {worker.ev, Resting.ev}
    /\ \/ UNCHANGED events
       \/ \E e \in Events : events' = Append(events, e) /\ e.ev \notin Crashes /\ e.of <= boot

LEMMA CalmTimely ==
    ASSUME TypeOK, TypeOK', TimelyInv, Calm
    PROVE  TimelyInv'
  <1> USE DEF TimelyInv
  <1>1. /\ boot' = boot /\ votes' = votes /\ boot \in Nat /\ worker.ev.of \in Nat
        /\ Up' = Up /\ Resting.ev.of = 0
        /\ worker'.ev.of \in {worker.ev.of, 0}
        /\ At("restarted")' = At("restarted")
        /\ Is("PD_RESTART")' = Is("PD_RESTART")
        /\ \A type \in Crashes : At(type)' => At(type)
    BY DEF Calm, Up, Alive, TypeOK, Events, Resting, Event, At, Crashes
  <1>2. /\ \A type \in Crashes : Queued(type)' => Queued(type)
        /\ \A i \in DOMAIN events' :
              \/ i \in DOMAIN events /\ events'[i] = events[i]
              \/ /\ events'[i].ev \notin Crashes /\ events'[i].of <= boot
                 /\ \A j \in DOMAIN events : j < i
        /\ DOMAIN events \subseteq DOMAIN events'
        /\ \A i \in DOMAIN events : events'[i] = events[i]
    <2>1. CASE UNCHANGED events
      BY <2>1, QueueStays
    <2>2. CASE ~UNCHANGED events
      <3>1. PICK e \in Events : events' = Append(events, e) /\ e.ev \notin Crashes /\ e.of <= boot
        BY <2>2 DEF Calm
      <3>2. PICK n \in DOMAIN events' :
               /\ events'[n] = e
               /\ \A i \in DOMAIN events :
                     i \in Nat /\ i < n /\ i \in DOMAIN events' /\ events'[i] = events[i]
               /\ \A i \in DOMAIN events' : i = n \/ i \in DOMAIN events
        BY <3>1, Appended
      <3>3. \A type \in Crashes : Queued(type)' => Queued(type)
        BY <3>1, QueueGrows
      <3> QED
        BY <3>1, <3>2, <3>3
    <2> QED
      BY <2>1, <2>2
  <1>3. CrashesHandled => CrashesHandled'
    BY <1>1, <1>2 DEF CrashesHandled, Underway
  <1>4. BootsMark'
    <2>1. \A i \in DOMAIN wire' : wire'[i].of <= boot'
      BY <1>1 DEF Calm
    <2>2. \A i \in DOMAIN events' :
             events'[i].of <= boot' /\ (events'[i].ev \in Crashes => events'[i].of = 0)
      BY <1>1, <1>2 DEF BootsMark
    <2>3. worker'.ev.of <= boot'
      BY <1>1 DEF BootsMark
    <2>4. worker'.at \in Crashes => worker'.ev.of = 0
      BY <1>1 DEF BootsMark, Calm, Crashes
    <2> QED
      BY <2>1, <2>2, <2>3, <2>4 DEF BootsMark
  <1>5. Restarts'
    BY <1>1 DEF Restarts, Calm, Alive
  <1>6. CrashesFirst'
    <2>1. ASSUME Up', NEW i \in DOMAIN events', NEW j \in DOMAIN events',
                 events'[i].of = boot', events'[j].ev \in Crashes
          PROVE  j < i
      <3>1. j \in DOMAIN events /\ events'[j] = events[j] /\ Up
        BY <1>1, <1>2, <2>1
      <3>2. CASE i \in DOMAIN events /\ events'[i] = events[i]
        BY <1>1, <2>1, <3>1, <3>2 DEF CrashesFirst
      <3> QED
        BY <1>2, <3>1, <3>2
    <2>2. Up' /\ worker'.ev.of = boot' => CrashesHandled'
      BY <1>1, <1>3 DEF CrashesFirst, Restarts, Up
    <2>3. Served' => CrashesHandled'
      BY <1>1, <1>3 DEF CrashesFirst, Calm, Served
    <2> QED
      BY <2>1, <2>2, <2>3 DEF CrashesFirst
  <1>7. Unheard'
    BY <1>1, <1>3 DEF Unheard, Calm, Alive, Restarts
  <1>8. EarlyFirst'
    <2>1. At("EARLY_CRASH")' => ~Is("PD_RESTART")'
      BY <1>1 DEF EarlyFirst, Crashes
    <2>2. ASSUME NEW i \in DOMAIN events', events'[i].ev = "EARLY_CRASH"
          PROVE  /\ ~Is("PD_RESTART")' /\ worker'.at \notin Crashes
                 /\ \A j \in DOMAIN events' : j < i => events'[j].ev \notin Crashes
      <3>1. i \in DOMAIN events /\ events[i].ev = "EARLY_CRASH"
        BY <1>2, <2>2 DEF Crashes
      <3>2. /\ ~Is("PD_RESTART") /\ worker.at \notin Crashes
            /\ \A j \in DOMAIN events : j < i => events[j].ev \notin Crashes
        BY <3>1 DEF EarlyFirst
      <3>3. worker'.at \notin Crashes
        BY <3>2 DEF Calm
      <3>4. \A j \in DOMAIN events' : j < i => events'[j].ev \notin Crashes
        BY <1>2, <3>2
      <3> QED
        BY <1>1, <3>2, <3>3, <3>4
    <2> QED
      BY <2>1, <2>2 DEF EarlyFirst
  <1>9. OneVote'
    BY <1>1 DEF OneVote
  <1> QED
    BY <1>4, <1>5, <1>6, <1>7, <1>8, <1>9

LEMMA PostCalm ==
    ASSUME TypeOK, NEW ev \in EventTypes \ Crashes, NEW of \in Nat, of <= boot,
           Post(ev, of) \/ (of = 0 /\ \E by \in Threads : PostSync(ev, by))
    PROVE  \/ UNCHANGED events
           \/ \E e \in Events : events' = Append(events, e) /\ e.ev \notin Crashes /\ e.of <= boot
  <1>1. CASE Post(ev, of)
    <2>1. Event(ev, of, "nobody") \in Events
      BY DEF Event, Events
    <2> QED
      BY <1>1, <2>1 DEF Post, Event
  <1>2. CASE of = 0 /\ \E by \in Threads : PostSync(ev, by)
    <2>1. PICK by \in Threads : PostSync(ev, by)
      BY <1>2
    <2>2. Event(ev, 0, by) \in Events
      BY DEF Event, Events
    <2> QED
      BY <1>2, <2>1, <2>2 DEF PostSync, Event
  <1> QED
    BY <1>1, <1>2

\* What changes on the wire.
LEMMA WireMarks ==
    ASSUME TypeOK, BootsMark,
           \/ UNCHANGED wire
           \/ wire # <<>> /\ wire' = Tail(wire)
           \/ \E ind : wire' = Append(wire, [ind |-> ind, of |-> boot])
           \/ wire' = <<>>
           \/ \E ind : wire' = <<[ind |-> ind, of |-> boot]>>
    PROVE  \A i \in DOMAIN wire' : wire'[i].of <= boot
  <1>1. wire \in Seq(Messages) /\ boot \in Nat
    BY DEF TypeOK
  <1>2. CASE wire # <<>> /\ wire' = Tail(wire)
    BY <1>1, <1>2 DEF BootsMark
  <1>3. ASSUME NEW ind, wire' = Append(wire, [ind |-> ind, of |-> boot])
        PROVE  \A i \in DOMAIN wire' : wire'[i].of <= boot
    BY <1>1, <1>3 DEF BootsMark
  <1>4. ASSUME NEW ind, wire' = <<[ind |-> ind, of |-> boot]>>
        PROVE  \A i \in DOMAIN wire' : wire'[i].of <= boot
    BY <1>1, <1>4
  <1>5. CASE UNCHANGED wire \/ wire' = <<>>
    BY <1>5 DEF BootsMark
  <1> QED
    BY <1>2, <1>3, <1>4, <1>5

LEMMA FirmwareCalm ==
    ASSUME TypeOK, TimelyInv, Firmware
    PROVE  Calm
  <1>1. PICK from \in Stages, to \in Stages, ind \in {"NEW", "FW_READY", "FW_INIT_DONE", "CAL_DONE"} :
           /\ FwStep(from, to, ind)
           /\ to \notin {"booting", "announced"} => from \notin {"booting", "announced"}
    BY DEF Firmware, Stages
  <1>2. \A i \in DOMAIN wire' : wire'[i].of <= boot
    BY <1>1, WireMarks DEF FwStep, TimelyInv
  <1> QED
    BY <1>1, <1>2 DEF FwStep, Calm, TypeOK, Alive, Served, Up, driverVars, threadVars, Is

LEMMA QmiCalm ==
    ASSUME TypeOK, TimelyInv, QmiThread
    PROVE  Calm
  <1>1. /\ wire # <<>> /\ wire' = Tail(wire)
        /\ UNCHANGED <<fw, boot, worker, votes, ssr, pdr>>
        /\ Is("PD_RESTART")' = Is("PD_RESTART")
    BY DEF QmiThread, NewServer, DelServer, FwReadyInd, FwInitDoneInd, CalDoneInd, Receive,
       driverVars, threadVars, Is
  <1>2. \A i \in DOMAIN wire' : wire'[i].of <= boot
    BY <1>1, WireMarks DEF TimelyInv
  <1>3. \/ UNCHANGED events
        \/ \E e \in Events : events' = Append(events, e) /\ e.ev \notin Crashes /\ e.of <= boot
    <2>1. Head(wire).of \in Nat /\ Head(wire).of <= boot
      <3>1. Head(wire) = wire[1] /\ 1 \in DOMAIN wire /\ Head(wire) \in Messages
        BY <1>1 DEF TypeOK
      <3> QED
        BY <3>1 DEF TimelyInv, BootsMark, Messages
    <2>2. CASE NewServer
      <3>1. "SERVER_ARRIVE" \in EventTypes \ Crashes
        BY DEF EventTypes, Crashes
      <3>2. UNCHANGED events \/ Post("SERVER_ARRIVE", Head(wire).of)
        BY <2>2 DEF NewServer
      <3> QED
        BY <2>1, <3>1, <3>2, PostCalm
    <2>3. CASE DelServer
      <3>1. "SERVER_EXIT" \in EventTypes \ Crashes /\ 0 \in Nat /\ 0 <= boot
        BY DEF EventTypes, Crashes, TypeOK
      <3>2. UNCHANGED events \/ Post("SERVER_EXIT", 0)
        BY <2>3 DEF DelServer
      <3> QED
        BY <3>1, <3>2, PostCalm
    <2>4. CASE FwReadyInd
      BY <2>4, PostCalm DEF FwReadyInd, EventTypes, Crashes, TypeOK
    <2>5. CASE FwInitDoneInd
      BY <2>5, PostCalm DEF FwInitDoneInd, EventTypes, Crashes, TypeOK
    <2> QED
      BY <2>2, <2>3, <2>4, <2>5 DEF QmiThread, CalDoneInd
  <1> QED
    BY <1>1, <1>2, <1>3 DEF Calm, Served, Up, Alive

LEMMA NotifiersCalm ==
    ASSUME TypeOK, TimelyInv,
           \/ WpssEarlyNotifier \/ WpssNotifier
           \/ ModemNotifier \/ ModemStop \/ ModemUnblock \/ ModemDown \/ PdrUp
    PROVE  Calm
  <1>1. /\ UNCHANGED <<fw, boot, wire, worker, votes>>
        /\ Is("PD_RESTART")' = Is("PD_RESTART")
        /\ pdr' = "down" => pdr = "down"
    BY DEF WpssEarlyNotifier, WpssNotifier, ModemNotifier, ModemStop, ModemUnblock, ModemDown,
       PdrUp, ssrRest, fwVars, driverVars, Is
  <1>2. /\ \A at \in {"idle", "boot"} : (ssr'.at = at) = (ssr.at = at)
        /\ ssr'.at \in {"early_nb", "modem_nb"} => ssr'.at = ssr.at
    BY DEF WpssEarlyNotifier, WpssNotifier, ModemNotifier, ModemStop, ModemUnblock, ModemDown,
       PdrUp, SsrAt, SsrGo, TypeOK
  <1>3. \/ UNCHANGED events
        \/ \E e \in Events : events' = Append(events, e) /\ e.ev \notin Crashes /\ e.of <= boot
    <2>1. CASE ModemStop
      BY <2>1, PostCalm DEF ModemStop, EventTypes, Crashes, Threads, TypeOK
    <2> QED
      BY <2>1 DEF WpssEarlyNotifier, WpssNotifier, ModemNotifier, ModemUnblock, ModemDown, PdrUp
  <1>4. \A i \in DOMAIN wire' : wire'[i].of <= boot
    BY <1>1, WireMarks DEF TimelyInv
  <1> QED
    BY <1>1, <1>2, <1>3, <1>4 DEF Calm, Served, Up, Alive

LEMMA HostCalm ==
    ASSUME TypeOK, TimelyInv, Host \/ AnnounceShutdown
    PROVE  Calm
  <1>1. /\ UNCHANGED <<fw, boot, wire, worker, votes, ssr, pdr>>
        /\ Is("PD_RESTART")' = Is("PD_RESTART")
    BY DEF Host, Register, Unregister, Unregistered, AnnounceShutdown, hostRest, fwVars,
       driverVars, Is
  <1>2. \/ UNCHANGED events
        \/ \E e \in Events : events' = Append(events, e) /\ e.ev \notin Crashes /\ e.of <= boot
    <2>1. CASE Register
      <3>1. "REGISTER" \in EventTypes \ Crashes /\ 0 \in Nat /\ 0 <= boot
        BY DEF EventTypes, Crashes, TypeOK
      <3>2. UNCHANGED events \/ Post("REGISTER", 0)
        BY <2>1 DEF Register
      <3> QED
        BY <3>1, <3>2, PostCalm
    <2>2. CASE Unregister
      <3>1. /\ "UNREGISTER" \in EventTypes \ Crashes /\ 0 \in Nat /\ 0 <= boot
            /\ "host" \in Threads
        BY DEF EventTypes, Crashes, Threads, TypeOK
      <3>2. UNCHANGED events \/ PostSync("UNREGISTER", "host")
        BY <2>2 DEF Unregister
      <3> QED
        BY <3>1, <3>2, PostCalm
    <2> QED
      BY <2>1, <2>2 DEF Host, Unregistered, AnnounceShutdown
  <1>3. \A i \in DOMAIN wire' : wire'[i].of <= boot
    BY <1>1, WireMarks DEF TimelyInv
  <1> QED
    BY <1>1, <1>2, <1>3 DEF Calm, Served, Up, Alive


-----------------------------------------------------------------------------
(***************************************************************************)
(* The handshake                                                           *)
(***************************************************************************)

PowerBits == {"CONNECTED", "POWER_ON"}

\* A step that succeeds.  The firmware begins to work with the last one.
HandshakeGoesOn ==
    /\ Alive /\ worker.ev.of = boot /\ worker.at \in HandshakeSteps
    /\ \E next \in (HandshakeSteps \cup {"notifications"}) \ {"connect"} :
          /\ worker' = [worker EXCEPT !.at = next]
          /\ fw' = [fw EXCEPT !.stage = IF next = "notifications" THEN "served" ELSE @]
    /\ \A b \in Bits \ PowerBits : (b \in state') = (b \in state)
    /\ At("connect") \/ Is("CONNECTED") => Is("CONNECTED")'
    /\ Is("POWER_ON") => Is("POWER_ON")'
    /\ UNCHANGED <<driverVars, workerRest, faults>>

\* One that fails.
HandshakeFails ==
    /\ worker.at \in HandshakeSteps /\ worker' = Resting /\ UNCHANGED fw
    /\ \A b \in Bits \ PowerBits : (b \in state') = (b \in state)
    /\ Alive /\ worker.ev.of = boot => Fault \/ (At("cal_report") /\ Is("FW_DOWN"))
    /\ UNCHANGED <<driverVars, workerRest>>

LEMMA HandshakeSplits ==
    ASSUME TypeOK, Handshake
    PROVE  HandshakeGoesOn \/ HandshakeFails \/ Notifications
  <1>1. CASE Connect
    <2>1. CASE /\ Alive /\ worker.ev.of = boot /\ UNCHANGED faults
               /\ ~(worker' = Resting /\ UNCHANGED fw)
      BY <1>1, <2>1, SMTT(30) DEF HandshakeGoesOn, Connect, HandshakeStep, Go, Finish, At, Is,
         Alive, TypeOK, Bits, PowerBits, PowerOn, PowerOff, HandshakeSteps, Resting, Fault
    <2>2. CASE worker' = Resting /\ UNCHANGED fw
      BY <1>1, <2>2, SMTT(30) DEF HandshakeFails, Connect, HandshakeStep, Go, Finish, At, Is,
         Alive, TypeOK, Bits, PowerBits, PowerOn, PowerOff, HandshakeSteps, Resting
    <2> QED
      BY <1>1, <2>1, <2>2 DEF Connect, HandshakeStep, Finish, Alive
  <1>2. CASE IndRegister
    <2>1. CASE /\ Alive /\ worker.ev.of = boot /\ UNCHANGED faults
               /\ ~(worker' = Resting /\ UNCHANGED fw)
      BY <1>2, <2>1, SMTT(30) DEF HandshakeGoesOn, IndRegister, Request, HandshakeStep, Go,
         Finish, At, Is, Alive, TypeOK, Bits, PowerBits, PowerOn, PowerOff, HandshakeSteps,
         Resting, Fault
    <2>2. CASE worker' = Resting /\ UNCHANGED fw
      BY <1>2, <2>2, SMTT(30) DEF HandshakeFails, IndRegister, Request, HandshakeStep, Go,
         Finish, At, Is, Alive, TypeOK, Bits, PowerBits, PowerOn, PowerOff, HandshakeSteps,
         Resting
    <2> QED
      BY <1>2, <2>1, <2>2 DEF IndRegister, Request, HandshakeStep, Finish, Alive
  <1>3. CASE HostCap
    <2>1. CASE /\ Alive /\ worker.ev.of = boot /\ UNCHANGED faults
               /\ ~(worker' = Resting /\ UNCHANGED fw)
      BY <1>3, <2>1, SMTT(30) DEF HandshakeGoesOn, HostCap, Request, HandshakeStep, Go,
         Finish, At, Is, Alive, TypeOK, Bits, PowerBits, PowerOn, PowerOff, HandshakeSteps,
         Resting, Fault
    <2>2. CASE worker' = Resting /\ UNCHANGED fw
      BY <1>3, <2>2, SMTT(30) DEF HandshakeFails, HostCap, Request, HandshakeStep, Go, Finish,
         At, Is, Alive, TypeOK, Bits, PowerBits, PowerOn, PowerOff, HandshakeSteps, Resting
    <2> QED
      BY <1>3, <2>1, <2>2 DEF HostCap, Request, HandshakeStep, Finish, Alive
  <1>4. CASE MsaInfo
    <2>1. CASE /\ Alive /\ worker.ev.of = boot /\ UNCHANGED faults
               /\ ~(worker' = Resting /\ UNCHANGED fw)
      BY <1>4, <2>1, SMTT(30) DEF HandshakeGoesOn, MsaInfo, Request, HandshakeStep, Go,
         Finish, At, Is, Alive, TypeOK, Bits, PowerBits, PowerOn, PowerOff, HandshakeSteps,
         Resting, Fault
    <2>2. CASE worker' = Resting /\ UNCHANGED fw
      BY <1>4, <2>2, SMTT(30) DEF HandshakeFails, MsaInfo, Request, HandshakeStep, Go, Finish,
         At, Is, Alive, TypeOK, Bits, PowerBits, PowerOn, PowerOff, HandshakeSteps, Resting
    <2> QED
      BY <1>4, <2>1, <2>2 DEF MsaInfo, Request, HandshakeStep, Finish, Alive
  <1>5. CASE MsaReady
    <2>1. CASE /\ Alive /\ worker.ev.of = boot /\ UNCHANGED faults
               /\ ~(worker' = Resting /\ UNCHANGED fw)
      BY <1>5, <2>1, SMTT(30) DEF HandshakeGoesOn, MsaReady, Request, HandshakeStep, Go,
         Finish, At, Is, Alive, TypeOK, Bits, PowerBits, PowerOn, PowerOff, HandshakeSteps,
         Resting, Fault
    <2>2. CASE worker' = Resting /\ UNCHANGED fw
      BY <1>5, <2>2, SMTT(30) DEF HandshakeFails, MsaReady, Request, HandshakeStep, Go,
         Finish, At, Is, Alive, TypeOK, Bits, PowerBits, PowerOn, PowerOff, HandshakeSteps,
         Resting
    <2> QED
      BY <1>5, <2>1, <2>2 DEF MsaReady, Request, HandshakeStep, Finish, Alive
  <1>6. CASE Cap
    <2>1. CASE HandshakeStep("cap", "device_info", PowerOn(state), {state}, fw.stage)
      BY <2>1, SMTT(30) DEF HandshakeGoesOn, HandshakeFails, HandshakeStep, Go, Finish, At,
         Is, Alive, TypeOK, Bits, PowerBits, PowerOn, HandshakeSteps, Resting
    <2>2. CASE HandshakeStep("cap", "bdf", PowerOn(state), {state}, fw.stage)
      BY <2>2, SMTT(30) DEF HandshakeGoesOn, HandshakeFails, HandshakeStep, Go, Finish, At,
         Is, Alive, TypeOK, Bits, PowerBits, PowerOn, HandshakeSteps, Resting
    <2>3. CASE HandshakeStep("cap", "notifications", PowerOn(state), {state}, "served")
      BY <2>3, SMTT(30) DEF HandshakeGoesOn, HandshakeFails, HandshakeStep, Go, Finish, At,
         Is, Alive, TypeOK, Bits, PowerBits, PowerOn, HandshakeSteps, Resting
    <2> QED
      BY <1>6, <2>1, <2>2, <2>3, IcnssAssumption DEF Cap, TypeOK
  <1>7. CASE DeviceInfo
    <2>1. CASE /\ Alive /\ worker.ev.of = boot /\ UNCHANGED faults
               /\ ~(worker' = Resting /\ UNCHANGED fw)
      BY <1>7, <2>1, SMTT(30) DEF HandshakeGoesOn, DeviceInfo, Powered, HandshakeStep, Go,
         Finish, At, Is, Alive, TypeOK, Bits, PowerBits, PowerOn, PowerOff, HandshakeSteps,
         Resting, Fault
    <2>2. CASE worker' = Resting /\ UNCHANGED fw
      BY <1>7, <2>2, SMTT(30) DEF HandshakeFails, DeviceInfo, Powered, HandshakeStep, Go,
         Finish, At, Is, Alive, TypeOK, Bits, PowerBits, PowerOn, PowerOff, HandshakeSteps,
         Resting
    <2> QED
      BY <1>7, <2>1, <2>2 DEF DeviceInfo, Powered, HandshakeStep, Finish, Alive
  <1>8. CASE BdfDownload
    <2>1. CASE /\ Alive /\ worker.ev.of = boot /\ UNCHANGED faults
               /\ ~(worker' = Resting /\ UNCHANGED fw)
      BY <1>8, <2>1, SMTT(30) DEF HandshakeGoesOn, BdfDownload, Powered, HandshakeStep, Go,
         Finish, At, Is, Alive, TypeOK, Bits, PowerBits, PowerOn, PowerOff, HandshakeSteps,
         Resting, Fault
    <2>2. CASE worker' = Resting /\ UNCHANGED fw
      BY <1>8, <2>2, SMTT(30) DEF HandshakeFails, BdfDownload, Powered, HandshakeStep, Go,
         Finish, At, Is, Alive, TypeOK, Bits, PowerBits, PowerOn, PowerOff, HandshakeSteps,
         Resting
    <2> QED
      BY <1>8, <2>1, <2>2 DEF BdfDownload, Powered, HandshakeStep, Finish, Alive
  <1>9. CASE CalReport
    <2>1. CASE /\ Alive /\ worker.ev.of = boot /\ UNCHANGED faults
               /\ ~(worker' = Resting /\ UNCHANGED fw)
      BY <1>9, <2>1, SMTT(30) DEF HandshakeGoesOn, CalReport, Powered, HandshakeStep, Go,
         Finish, At, Is, Alive, TypeOK, Bits, PowerBits, PowerOn, PowerOff, HandshakeSteps,
         Resting, Fault
    <2>2. CASE worker' = Resting /\ UNCHANGED fw
      BY <1>9, <2>2, SMTT(30) DEF HandshakeFails, CalReport, Powered, HandshakeStep, Go,
         Finish, At, Is, Alive, TypeOK, Bits, PowerBits, PowerOn, PowerOff, HandshakeSteps,
         Resting
    <2> QED
      BY <1>9, <2>1, <2>2 DEF CalReport, Powered, HandshakeStep, Finish, Alive
  <1> QED
    BY <1>1, <1>2, <1>3, <1>4, <1>5, <1>6, <1>7, <1>8, <1>9 DEF Handshake

\* The other steps of the worker but for those that take an event, and that
\* begin or end a recovery.
LEMMA WorkerCalm ==
    ASSUME TypeOK, TimelyInv,
           \/ ServerArrive \/ Handshake \/ ServerExit \/ FwInitDone \/ FwReady
           \/ FwReadyPowerOff \/ CallReinit \/ ReinitEnd \/ CallProbe \/ ProbeEnd
           \/ RegisterDriver \/ UnregisterDriver \/ RemoveEnd
    PROVE  Calm
  <1>1. CASE HandshakeGoesOn
    <2>1. PICK next \in (HandshakeSteps \cup {"notifications"}) \ {"connect"} :
             /\ worker' = [worker EXCEPT !.at = next]
             /\ fw' = [fw EXCEPT !.stage = IF next = "notifications" THEN "served" ELSE @]
      BY <1>1 DEF HandshakeGoesOn
    <2>2. worker'.at = next /\ worker'.ev = worker.ev /\ fw'.life = fw.life /\ Alive
      BY <1>1, <2>1 DEF HandshakeGoesOn, TypeOK
    <2>3. worker.at # "restarted" /\ next \notin Crashes \cup {"restarted"}
      BY <1>1 DEF HandshakeGoesOn, HandshakeSteps, Crashes
    <2>4. UNCHANGED <<boot, votes, ssr, pdr, events, wire>> /\ worker.ev.of = boot
      BY <1>1 DEF HandshakeGoesOn, workerRest, driverVars
    <2>5. Is("PD_RESTART")' = Is("PD_RESTART")
      BY <1>1 DEF HandshakeGoesOn, Bits, PowerBits, Is
    <2>6. \A i \in DOMAIN wire' : wire'[i].of <= boot
      BY <2>4, WireMarks DEF TimelyInv
    <2> QED
      BY <2>2, <2>3, <2>4, <2>5, <2>6 DEF Calm
  <1>2. CASE /\ ~HandshakeGoesOn /\ \/ ServerArrive \/ Handshake \/ FwReadyPowerOff
                                    \/ CallReinit \/ ReinitEnd \/ CallProbe \/ ProbeEnd
                                    \/ RegisterDriver \/ UnregisterDriver \/ RemoveEnd
    <2>1. CASE HandshakeFails \/ Notifications
      <3>1. /\ UNCHANGED <<fw, boot, votes, ssr, pdr, events, wire>>
            /\ Is("PD_RESTART")' = Is("PD_RESTART")
        BY <2>1 DEF HandshakeFails, Notifications, workerRest, driverVars, Bits, PowerBits, Is
      <3>2. /\ worker.at # "restarted" /\ worker'.at \notin Crashes \cup {"restarted"}
            /\ worker'.ev \in {worker.ev, Resting.ev}
        BY <2>1 DEF HandshakeFails, Notifications, HandshakeSteps, At, Finish, Resting, Crashes
      <3>3. \A i \in DOMAIN wire' : wire'[i].of <= boot
        BY <3>1, WireMarks DEF TimelyInv
      <3> QED
        BY <3>1, <3>2, <3>3 DEF Calm, Served, Up, Alive
    <2>2. CASE ~Handshake
      <3>1. /\ UNCHANGED <<fw, boot, votes, ssr, pdr, events, wire>>
            /\ Is("PD_RESTART")' = Is("PD_RESTART")
        BY <1>2, <2>2 DEF ServerArrive, FwReadyPowerOff, CallReinit, ReinitEnd, CallProbe,
           ProbeEnd, RegisterDriver, UnregisterDriver, RemoveEnd, workerRest, driverVars,
           PowerOn, PowerOff, Is
      <3>2. /\ worker.at # "restarted" /\ worker'.at \notin Crashes \cup {"restarted"}
            /\ worker'.ev \in {worker.ev, Resting.ev}
        BY <1>2, <2>2 DEF ServerArrive, FwReadyPowerOff, CallReinit, ReinitEnd, CallProbe,
           ProbeEnd, RegisterDriver, UnregisterDriver, RemoveEnd, At, Go, Finish, Resting,
           Crashes, TypeOK
      <3>3. \A i \in DOMAIN wire' : wire'[i].of <= boot
        BY <3>1, WireMarks DEF TimelyInv
      <3> QED
        BY <3>1, <3>2, <3>3 DEF Calm, Served, Up, Alive
    <2> QED
      BY <1>2, <2>1, <2>2, HandshakeSplits
  <1>3. CASE ServerExit
    <2>1. /\ UNCHANGED <<fw, boot, votes, ssr, pdr, events>>
          /\ Is("PD_RESTART")' = Is("PD_RESTART")
          /\ worker.at = "SERVER_EXIT" /\ worker' = Resting
          /\ wire' = <<>> \/ wire' = <<[ind |-> "NEW", of |-> boot]>>
      BY <1>3 DEF ServerExit, fwVars, driverVars, At, Finish, Is
    <2>2. \A i \in DOMAIN wire' : wire'[i].of <= boot
      BY <2>1, WireMarks DEF TimelyInv
    <2> QED
      BY <2>1, <2>2 DEF Calm, Served, Up, Alive, Resting, Crashes
  <1>4. CASE FwInitDone \/ FwReady
    <2>1. /\ UNCHANGED <<boot, votes, ssr, pdr, events, wire>>
          /\ Is("PD_RESTART")' = Is("PD_RESTART")
      BY <1>4 DEF FwInitDone, FwReady, workerRest, driverVars, Is
    <2>2. /\ worker.at # "restarted" /\ worker'.at \notin Crashes \cup {"restarted"}
          /\ worker'.ev \in {worker.ev, Resting.ev}
      BY <1>4 DEF FwInitDone, FwReady, At, Go, Finish, Resting, Crashes, TypeOK
    <2>3. fw'.life = fw.life /\ (fw' = fw \/ (Alive /\ fw.stage = "init"))
      BY <1>4 DEF FwInitDone, FwReady, TypeOK
    <2>4. \A i \in DOMAIN wire' : wire'[i].of <= boot
      BY <2>1, WireMarks DEF TimelyInv
    <2> QED
      BY <2>1, <2>2, <2>3, <2>4 DEF Calm, Served, Up, Alive
  <1> QED
    BY <1>1, <1>2, <1>3, <1>4

\* What is on the wire or queued, and from which boot.
LEMMA Elements ==
    ASSUME TypeOK
    PROVE  /\ \A i \in DOMAIN wire : wire[i].of \in Nat
           /\ \A i \in DOMAIN events : events[i].of \in Nat
  <1>1. /\ wire \in Seq(Messages) /\ events \in Seq(Events)
        /\ \A m \in Messages : m.of \in Nat
        /\ \A e \in Events : e.of \in Nat
    BY DEF TypeOK, Messages, Events
  <1>2. \A i \in DOMAIN wire : wire[i] \in Messages
    BY <1>1
  <1>3. \A i \in DOMAIN events : events[i] \in Events
    BY <1>1
  <1> QED
    BY <1>1, <1>2, <1>3

\* What a fault and a failure are counted as.
LEMMA Counts ==
    ASSUME TypeOK
    PROVE  /\ faults \in Nat /\ untimely \in Nat
           /\ Fault => faults' # 0
           /\ \A first, crashed : Fail(first, crashed) /\ untimely' = 0 => InService
  BY DEF TypeOK, Fault, Fail

\* What else happens without changing what is underway.
LEMMA FailureTimely ==
    ASSUME IInv, TimelyInv, untimely' = 0, NEW first \in {"early_nb", "modem_nb", "boot"},
           NEW crashed \in BOOLEAN, Fail(first, crashed),
           first = "boot" => crashed, pdr' = "down" => pdr = "down" \/ first = "boot"
    PROVE  TimelyInv'
  <1>1. /\ Up /\ fw.stage = "ready" /\ ~Is("PD_RESTART") /\ boot # 0
        /\ ssr'.at = first /\ boot' = boot /\ (fw'.life = "up" => ~crashed)
        /\ UNCHANGED <<state, events, worker, votes>>
    <2>1. TypeOK /\ InService
      BY Counts DEF IInv
    <2>2. Up /\ fw.stage = "ready" /\ ~Is("PD_RESTART") /\ boot # 0
      BY <2>1 DEF InService, Fail, Up, TimelyInv, Restarts
    <2>3. ssr'.at = first /\ boot' = boot /\ UNCHANGED <<state, events, worker, votes>>
      BY DEF Fail, driverVars
    <2>4. fw'.life = "up" => ~crashed
      BY <2>1 DEF Fail, TypeOK
    <2> QED
      BY <2>2, <2>3, <2>4
  <1>2. CrashesHandled
    BY <1>1 DEF TimelyInv, CrashesFirst, Served
  <1>3. CrashesHandled'
    BY <1>1, <1>2 DEF CrashesHandled, Underway, Queued, At
  <1>4. BootsMark'
    <2>1. \A i \in DOMAIN wire' : wire'[i].of <= boot
      BY WireMarks DEF Fail, FwGone, IInv, TimelyInv
    <2> QED
      BY <1>1, <2>1 DEF BootsMark, TimelyInv
  <1>5. Restarts'
    BY <1>1 DEF Restarts, Alive, TimelyInv, Up
  <1>6. CrashesFirst'
    BY <1>1 DEF CrashesFirst, Served, Up
  <1>7. Unheard'
    BY <1>1, <1>3 DEF Unheard, Is
  <1>8. EarlyFirst'
    BY <1>1, <1>3 DEF EarlyFirst, CrashesHandled, Underway, Queued, Crashes, At
  <1>9. OneVote'
    BY <1>1 DEF OneVote, Is, At, TimelyInv
  <1> QED
    BY <1>4, <1>5, <1>6, <1>7, <1>8, <1>9 DEF TimelyInv

LEMMA OtherTimely ==
    ASSUME IInv, TypeOK', TimelyInv, untimely' = 0,
           \/ SubsystemOff \/ FwBoots \/ EarlyCrash \/ NotifierDown \/ PdrDown \/ TakeEvent
           \/ RestartComplete \/ RestartCleared \/ PdServiceDown \/ EarlyCrashInd
    PROVE  TimelyInv'
  <1>0. TypeOK
    BY DEF IInv
  <1> USE DEF TimelyInv
  <1>1. CASE SubsystemOff
    <2>1. /\ ssr.at = "off" /\ ssr'.at = "boot" /\ fw'.life = "off"
          /\ UNCHANGED <<boot, state, events, worker, votes>>
      BY <1>0, <1>1 DEF SubsystemOff, TypeOK, driverVars
    <2>2. \A i \in DOMAIN wire' : wire'[i].of <= boot
      BY <1>0, <1>1, WireMarks DEF SubsystemOff, FwGone
    <2>3. BootsMark'
      BY <2>1, <2>2 DEF BootsMark
    <2>4. Restarts'
      BY <2>1, <2>2 DEF Restarts, Alive
    <2>5. CrashesFirst'
      BY <2>1, <2>2 DEF CrashesFirst, Up, Served, Alive
    <2>6. Unheard'
      BY <2>1, <2>2 DEF Unheard
    <2>7. EarlyFirst'
      BY <2>1, <2>2 DEF EarlyFirst, At, Is
    <2>8. OneVote'
      BY <2>1, <2>2 DEF OneVote, Is, At
    <2> QED
      BY <2>3, <2>4, <2>5, <2>6, <2>7, <2>8 DEF TimelyInv
  <1>2. CASE FwBoots
    <2>1. /\ boot' = boot + 1 /\ boot \in Nat /\ fw'.stage = "booting" /\ fw'.life = "up"
          /\ ssr'.at = "idle"
          /\ pdr' = pdr /\ (boot = 0 \/ pdr # "down") /\ UNCHANGED <<wire, state, events,
                                                                     worker, votes>>
      BY <1>0, <1>2 DEF FwBoots, TypeOK, driverVars
    <2>2. \A i \in DOMAIN wire : wire[i].of \in Nat
      BY <1>0, Elements
    <2>3. \A i \in DOMAIN events : events[i].of \in Nat
      BY <1>0, Elements
    <2>4. worker.ev.of \in Nat
      BY <1>0 DEF TypeOK, Events, Resting, Event
    <2>5. BootsMark'
      BY <2>1, <2>2, <2>3, <2>4 DEF BootsMark
    <2>6. Restarts'
      BY <2>1, <2>2, <2>3, <2>4 DEF Restarts, Alive
    <2>7. CrashesFirst'
      <3>1. /\ \A i \in DOMAIN events' : events'[i].of # boot'
            /\ worker'.ev.of # boot' /\ fw'.stage = "booting"
        BY <2>1, <2>3, <2>4 DEF BootsMark
      <3> QED
        BY <3>1 DEF CrashesFirst, Served
    <2>8. Unheard'
      BY <2>1, <2>2, <2>3, <2>4 DEF Unheard
    <2>9. EarlyFirst'
      BY <2>1, <2>2, <2>3, <2>4 DEF EarlyFirst, At, Is
    <2>10. OneVote'
      BY <2>1, <2>2, <2>3, <2>4 DEF OneVote, Is, At
    <2> QED
      BY <2>5, <2>6, <2>7, <2>8, <2>9, <2>10 DEF TimelyInv
  <1>3. CASE EarlyCrash
    <2>1. /\ fw.life = "dead" /\ fw'.life = "dead" /\ fw'.stage = "signalled"
          /\ ~Is("PD_RESTART") /\ ~Is("PD_RESTART")' /\ CrashesHandled
          /\ UNCHANGED <<boot, wire, worker, votes, ssr, pdr>>
      BY <1>0, <1>3 DEF EarlyCrash, TypeOK, Unheard, driverVars, threadVars, Is
    <2>2. \/ UNCHANGED events
          \/ \E e \in Events : e.ev = "EARLY_CRASH" /\ e.of = 0 /\ events' = Append(events, e)
      BY <1>3 DEF EarlyCrash, Post, Event, Events, EventTypes
    <2>3. BootsMark'
      BY <1>0, <2>1, <2>2, Appended DEF BootsMark, TypeOK
    <2>4. Restarts'
      BY <2>1, <2>2 DEF Restarts, Alive
    <2>5. CrashesFirst'
      BY <2>1, <2>2 DEF CrashesFirst, Up, Served, Alive
    <2>6. Unheard'
      BY <2>1, <2>2 DEF Unheard
    <2>7. EarlyFirst'
      BY <1>0, <2>1, <2>2, Appended DEF EarlyFirst, CrashesHandled, Underway, Queued, Crashes,
         At
    <2>8. OneVote'
      BY <2>1, <2>2 DEF OneVote, Is, At
    <2> QED
      BY <2>3, <2>4, <2>5, <2>6, <2>7, <2>8 DEF TimelyInv
  <1>4. CASE NotifierDown
    <2>1. /\ ssr.at = "down" /\ ssr'.at = "off" /\ pdr' = pdr
          /\ Is("PD_RESTART")' = Is("PD_RESTART")
          /\ UNCHANGED <<fw, boot, wire, worker, votes>>
      BY <1>0, <1>4 DEF NotifierDown, TypeOK, driverVars, fwVars, ssrRest, SsrAt, SsrGo, Is
    <2>2. \/ UNCHANGED events
          \/ \E e \in Events : e.ev = "PD_SERVICE_DOWN" /\ e.of = 0 /\ events' = Append(events, e)
      BY <1>4 DEF NotifierDown, PostSync, Event, Events, EventTypes, Threads
    <2>3. BootsMark'
      BY <1>0, <2>1, <2>2, Appended DEF BootsMark, TypeOK
    <2>4. Restarts'
      BY <2>1, <2>2 DEF Restarts, Alive
    <2>5. CrashesFirst'
      BY <2>1, <2>2 DEF CrashesFirst, Up, Served, Alive, Restarts
    <2>6. Unheard'
      BY <2>1, <2>2 DEF Unheard, Restarts
    <2>7. EarlyFirst'
      BY <1>0, <2>1, <2>2, Appended DEF EarlyFirst, At
    <2>8. OneVote'
      BY <2>1, <2>2 DEF OneVote, Is, At
    <2> QED
      BY <2>3, <2>4, <2>5, <2>6, <2>7, <2>8 DEF TimelyInv
  <1>5. CASE PdrDown
    <2>1. /\ pdr = "down" /\ pdr' = "up" /\ ssr' = ssr
          /\ Is("PD_RESTART")' = Is("PD_RESTART")
          /\ UNCHANGED <<fw, boot, wire, worker, votes>>
      BY <1>0, <1>5 DEF PdrDown, TypeOK, driverVars, fwVars, ssrRest, SsrAt, SsrGo, Is
    <2>2. \/ UNCHANGED events
          \/ \E e \in Events : e.ev = "PD_SERVICE_DOWN" /\ e.of = 0 /\ events' = Append(events, e)
      BY <1>5 DEF PdrDown, PostSync, Event, Events, EventTypes, Threads
    <2>3. BootsMark'
      BY <1>0, <2>1, <2>2, Appended DEF BootsMark, TypeOK
    <2>4. Restarts'
      BY <2>1, <2>2 DEF Restarts, Alive
    <2>5. CrashesFirst'
      BY <2>1, <2>2 DEF CrashesFirst, Up, Served, Alive, Restarts
    <2>6. Unheard'
      BY <2>1, <2>2 DEF Unheard, Restarts
    <2>7. EarlyFirst'
      BY <1>0, <2>1, <2>2, Appended DEF EarlyFirst, At
    <2>8. OneVote'
      BY <2>1, <2>2 DEF OneVote, Is, At
    <2> QED
      BY <2>3, <2>4, <2>5, <2>6, <2>7, <2>8 DEF TimelyInv
  <1>6. CASE TakeEvent
    <2>1. /\ worker.at = "idle" /\ worker'.at = Head(events).ev /\ worker'.ev = Head(events)
          /\ events # <<>> /\ events' = Tail(events) /\ Head(events) \in Events
          /\ UNCHANGED <<fw, boot, wire, state, votes, ssr, pdr>>
      BY <1>0, <1>6 DEF TakeEvent, TypeOK, Resting, fwVars, driverVars, threadVars
    <2>2. /\ 1 \in DOMAIN events /\ Head(events) = events[1]
          /\ \A i \in DOMAIN events' :
                i \in Nat \ {0} /\ i + 1 \in DOMAIN events /\ events'[i] = events[i + 1]
      BY <1>0, <2>1, Taken
    <2>3. CrashesHandled => CrashesHandled'
      BY <2>1, <2>2 DEF CrashesHandled, Underway, Queued, At
    <2>4. boot # 0 /\ Head(events).of = boot =>
             /\ Head(events).ev \notin Crashes
             /\ Up => \A j \in DOMAIN events : events[j].ev \notin Crashes
      <3>1. \A j \in DOMAIN events : j \in Nat \ {0}
        BY <1>0 DEF TypeOK
      <3> QED
        BY <2>2, <3>1 DEF BootsMark, CrashesFirst
    <2>5. BootsMark'
      BY <2>1, <2>2, <2>3, <2>4 DEF BootsMark
    <2>6. Restarts'
      BY <2>1, <2>2, <2>3, <2>4 DEF Restarts, Alive
    <2>7. CrashesFirst'
      <3>1. Up' = Up /\ Served' = Served /\ (Up => boot # 0)
        BY <2>1 DEF Up, Served, Alive, Restarts
      <3>2. ASSUME Up', NEW i \in DOMAIN events', NEW j \in DOMAIN events',
                   events'[i].of = boot', events'[j].ev \in Crashes
            PROVE  j < i
        <4>1. j + 1 < i + 1 /\ i \in Nat /\ j \in Nat
          BY <2>1, <2>2, <3>1, <3>2 DEF CrashesFirst
        <4> QED
          BY <4>1
      <3>3. ASSUME Up', worker'.ev.of = boot'
            PROVE  CrashesHandled'
        <4>1. /\ Head(events).ev \notin Crashes
              /\ \A j \in DOMAIN events : events[j].ev \notin Crashes
          BY <2>1, <2>4, <3>1, <3>3
        <4> QED
          BY <2>1, <2>2, <4>1 DEF CrashesHandled, Underway, Queued, At
      <3> QED
        BY <2>1, <2>3, <3>1, <3>2, <3>3 DEF CrashesFirst
    <2>8. Unheard'
      BY <2>1, <2>2, <2>3, <2>4 DEF Unheard, Is
    <2>9. EarlyFirst'
      <3>1. At("EARLY_CRASH")' => ~Is("PD_RESTART")'
        BY <2>1, <2>2 DEF EarlyFirst, At, Is
      <3>2. ASSUME NEW i \in DOMAIN events', events'[i].ev = "EARLY_CRASH"
            PROVE  /\ ~Is("PD_RESTART")' /\ worker'.at \notin Crashes
                   /\ \A j \in DOMAIN events' : j < i => events'[j].ev \notin Crashes
        <4>1. i \in Nat \ {0} /\ i + 1 \in DOMAIN events /\ events[i + 1].ev = "EARLY_CRASH"
          BY <2>2, <3>2
        <4>2. ~Is("PD_RESTART") /\ \A j \in DOMAIN events : j < i + 1 => events[j].ev \notin Crashes
          BY <4>1 DEF EarlyFirst
        <4>3. events[1].ev \notin Crashes
          BY <2>2, <4>1, <4>2
        <4>4. ASSUME NEW j \in DOMAIN events', j < i PROVE events'[j].ev \notin Crashes
          <5>1. j + 1 < i + 1 /\ j + 1 \in DOMAIN events /\ events'[j] = events[j + 1]
            BY <2>2, <4>1, <4>4
          <5> QED
            BY <4>2, <5>1
        <4> QED
          BY <2>1, <2>2, <4>2, <4>3, <4>4 DEF Is
      <3> QED
        BY <3>1, <3>2 DEF EarlyFirst
    <2>10. OneVote'
      BY <2>1, <2>2, <2>3, <2>4 DEF OneVote, Is, At, Events, EventTypes
    <2> QED
      BY <2>5, <2>6, <2>7, <2>8, <2>9, <2>10 DEF TimelyInv
  <1>7. CASE RestartComplete
    <2>1. /\ worker.at = "restart" /\ worker'.at = "restarted" /\ worker'.ev = worker.ev
          /\ Is("PD_RESTART")' = Is("PD_RESTART") /\ votes' = votes - 1
          /\ UNCHANGED <<fw, boot, wire, events, ssr, pdr>>
      BY <1>0, <1>7 DEF RestartComplete, TypeOK, At, Go, workerRest, Is
    <2>2. Is("PD_RESTART") /\ (CrashesHandled => CrashesHandled')
      BY <2>1 DEF IInv, VotesAreHeld, CrashesHandled, Underway, Queued, At, Crashes
    <2>3. BootsMark'
      BY <2>1, <2>2 DEF BootsMark, Crashes
    <2>4. Restarts'
      BY <2>1, <2>2 DEF Restarts, Alive
    <2>5. CrashesFirst'
      BY <2>1, <2>2 DEF CrashesFirst, Up, Served, Alive
    <2>6. Unheard'
      BY <2>1, <2>2 DEF Unheard
    <2>7. EarlyFirst'
      BY <2>1, <2>2 DEF EarlyFirst, At, Crashes
    <2>8. OneVote'
      BY <2>1, <2>2 DEF OneVote, Is, At
    <2> QED
      BY <2>3, <2>4, <2>5, <2>6, <2>7, <2>8 DEF TimelyInv
  <1>8. CASE RestartCleared
    <2>1. /\ worker.at = "restarted" /\ worker'.at \in {"idle", "reinit", "call_probe"}
          /\ worker'.ev \in {worker.ev, Resting.ev}
          /\ ~Is("PD_RESTART")' /\ votes' = votes
          /\ UNCHANGED <<fw, boot, wire, events, ssr, pdr>>
      BY <1>0, <1>8 DEF RestartCleared, TypeOK, At, Go, Finish, Resting, workerRest, Is
    <2>2. /\ CrashesHandled => CrashesHandled'
          /\ Resting.ev.of = 0 /\ boot \in Nat
      BY <1>0, <2>1 DEF CrashesHandled, Underway, Queued, At, Crashes, Resting, Event, TypeOK
    <2>3. BootsMark'
      BY <2>1, <2>2 DEF BootsMark, Crashes
    <2>4. Restarts'
      BY <2>1, <2>2 DEF Restarts, Alive
    <2>5. CrashesFirst'
      BY <2>1, <2>2 DEF CrashesFirst, Up, Served, Alive, Restarts
    <2>6. Unheard'
      BY <2>1, <2>2 DEF Unheard
    <2>7. EarlyFirst'
      BY <2>1, <2>2 DEF EarlyFirst, At, Crashes
    <2>8. OneVote'
      BY <2>1, <2>2 DEF OneVote, Is, At
    <2> QED
      BY <2>3, <2>4, <2>5, <2>6, <2>7, <2>8 DEF TimelyInv
  <1>9. CASE PdServiceDown
    <2>1. /\ worker.at = "PD_SERVICE_DOWN" /\ worker'.at = "idle" /\ worker'.ev = Resting.ev
          /\ UNCHANGED <<fw, boot, wire, events, ssr, pdr>>
      BY <1>0, <1>9 DEF PdServiceDown, At, Finish, Resting, workerRest
    <2>2. \/ Is("PD_RESTART")' = Is("PD_RESTART") /\ votes' = votes
          \/ ~Is("PD_RESTART") /\ Is("PD_RESTART")' /\ votes' = votes + 1
      BY <1>9 DEF PdServiceDown, FwCrashed, Is
    <2>3. /\ ~CrashesHandled /\ ~Queued("EARLY_CRASH")
          /\ Resting.ev.of = 0 /\ boot \in Nat
      BY <1>0, <2>1 DEF CrashesHandled, Underway, Queued, At, Crashes, Resting, Event, TypeOK,
         EarlyFirst
    <2>4. BootsMark'
      BY <2>1, <2>2, <2>3 DEF BootsMark, Crashes
    <2>5. Restarts'
      BY <2>1, <2>2, <2>3 DEF Restarts, Alive
    <2>6. CrashesFirst'
      BY <2>1, <2>2, <2>3 DEF CrashesFirst, Up, Served, Alive, Restarts
    <2>7. Unheard'
      BY <2>1, <2>2, <2>3 DEF Unheard
    <2>8. EarlyFirst'
      BY <2>1, <2>2, <2>3 DEF EarlyFirst, At, Crashes, Queued
    <2>9. OneVote'
      BY <2>1, <2>2, <2>3 DEF OneVote, Is, At
    <2> QED
      BY <2>4, <2>5, <2>6, <2>7, <2>8, <2>9 DEF TimelyInv
  <1>10. CASE EarlyCrashInd
    <2>1. /\ worker.at = "EARLY_CRASH" /\ worker'.at = "idle" /\ worker'.ev = Resting.ev
          /\ UNCHANGED <<fw, boot, wire, events, ssr, pdr>>
      BY <1>0, <1>10 DEF EarlyCrashInd, At, Finish, Resting, workerRest
    <2>2. \/ Is("PD_RESTART")' = Is("PD_RESTART") /\ votes' = votes
          \/ ~Is("PD_RESTART") /\ Is("PD_RESTART")' /\ votes' = votes + 1
      BY <1>10, <2>1 DEF EarlyCrashInd, FwCrashed, Is, EarlyFirst, At
    <2>3. /\ ~CrashesHandled /\ ~Queued("EARLY_CRASH")
          /\ Resting.ev.of = 0 /\ boot \in Nat
      BY <1>0, <2>1 DEF CrashesHandled, Underway, Queued, At, Crashes, Resting, Event, TypeOK,
         EarlyFirst
    <2>4. BootsMark'
      BY <2>1, <2>2, <2>3 DEF BootsMark, Crashes
    <2>5. Restarts'
      BY <2>1, <2>2, <2>3 DEF Restarts, Alive
    <2>6. CrashesFirst'
      BY <2>1, <2>2, <2>3 DEF CrashesFirst, Up, Served, Alive, Restarts
    <2>7. Unheard'
      BY <2>1, <2>2, <2>3 DEF Unheard
    <2>8. EarlyFirst'
      BY <2>1, <2>2, <2>3 DEF EarlyFirst, At, Crashes, Queued
    <2>9. OneVote'
      BY <2>1, <2>2, <2>3 DEF OneVote, Is, At
    <2> QED
      BY <2>4, <2>5, <2>6, <2>7, <2>8, <2>9 DEF TimelyInv
  <1> QED
    BY <1>1, <1>2, <1>3, <1>4, <1>5, <1>6, <1>7, <1>8, <1>9, <1>10

\* Faults and failures are counted, and the counts stay.
LEMMA CountsGrow ==
    ASSUME TypeOK, [Next]_vars
    PROVE  (faults' = 0 => faults = 0) /\ (untimely' = 0 => untimely = 0)
  <1>1. faults \in Nat /\ untimely \in Nat
    BY DEF TypeOK
  <1>2. untimely' = untimely \/ untimely' = untimely + 1
    BY DEF Next, Firmware, FwStep, Failures, WpssFails, ModemFails, PdCrashes, Fail, Restart,
       SubsystemOff, FwBoots, QmiThread, NewServer, DelServer, FwReadyInd, FwInitDoneInd,
       CalDoneInd, Receive, Notifiers, EarlyCrash, WpssEarlyNotifier, WpssNotifier,
       NotifierDown, ModemNotifier, ModemStop, ModemUnblock, ModemDown, Pdr, PdrDown, PdrUp,
       ssrRest, hostRest, workerRest, fwVars, hostVars, Host, Register, Unregister,
       Unregistered, AnnounceShutdown, Worker, TakeEvent, ServerArrive, Handshake,
       HandshakeStep, Connect, IndRegister, HostCap, MsaInfo, MsaReady, Cap, DeviceInfo,
       BdfDownload, CalReport, Request, Powered, Notifications, ServerExit, FwInitDone,
       FwReady, FwReadyPowerOff, RestartComplete, RestartCleared, CallReinit, ReinitEnd,
       CallProbe, ProbeEnd, RegisterDriver, UnregisterDriver, RemoveEnd, PdServiceDown,
       EarlyCrashInd, vars
  <1>3. faults' = faults \/ Fault
    BY DEF Post, PostSync, Next, Firmware, FwStep, Failures, WpssFails, ModemFails, PdCrashes,
       Fail, Restart, SubsystemOff, FwBoots, QmiThread, NewServer, DelServer, FwReadyInd,
       FwInitDoneInd, CalDoneInd, Receive, Notifiers, EarlyCrash, WpssEarlyNotifier,
       WpssNotifier, NotifierDown, ModemNotifier, ModemStop, ModemUnblock, ModemDown, Pdr,
       PdrDown, PdrUp, ssrRest, hostRest, workerRest, fwVars, hostVars, Host, Register,
       Unregister, Unregistered, AnnounceShutdown, Worker, TakeEvent, ServerArrive, Handshake,
       HandshakeStep, Connect, IndRegister, HostCap, MsaInfo, MsaReady, Cap, DeviceInfo,
       BdfDownload, CalReport, Request, Powered, Notifications, ServerExit, FwInitDone,
       FwReady, FwReadyPowerOff, RestartComplete, RestartCleared, CallReinit, ReinitEnd,
       CallProbe, ProbeEnd, RegisterDriver, UnregisterDriver, RemoveEnd, PdServiceDown,
       EarlyCrashInd, vars
  <1> QED
    BY <1>1, <1>2, <1>3 DEF Fault

LEMMA TimelyNext ==
    ASSUME IInv, IInv', Timely, [Next]_vars
    PROVE  Timely'
  <1> SUFFICES ASSUME untimely' = 0 PROVE TimelyInv'
    BY DEF Timely
  <1>0. TypeOK /\ TypeOK'
    BY DEF IInv
  <1>1. untimely = 0
    BY <1>0, CountsGrow
  <1>2. TimelyInv
    BY <1>1 DEF Timely
  <1>3. CASE Calm
    BY <1>0, <1>2, <1>3, CalmTimely
  <1>4. CASE Firmware \/ QmiThread
    BY <1>0, <1>2, <1>3, <1>4, FirmwareCalm, QmiCalm
  <1>5. CASE Host \/ AnnounceShutdown
    BY <1>0, <1>2, <1>3, <1>5, HostCalm
  <1>6. CASE \/ WpssEarlyNotifier \/ WpssNotifier \/ ModemNotifier \/ ModemStop
             \/ ModemUnblock \/ ModemDown \/ PdrUp
    BY <1>0, <1>2, <1>3, <1>6, NotifiersCalm
  <1>7. CASE \/ ServerArrive \/ Handshake \/ ServerExit \/ FwInitDone \/ FwReady
             \/ FwReadyPowerOff \/ CallReinit \/ ReinitEnd \/ CallProbe \/ ProbeEnd
             \/ RegisterDriver \/ UnregisterDriver \/ RemoveEnd
    BY <1>0, <1>2, <1>3, <1>7, WorkerCalm
  <1>8. CASE \/ SubsystemOff \/ FwBoots \/ EarlyCrash \/ NotifierDown \/ PdrDown \/ TakeEvent
             \/ RestartComplete \/ RestartCleared \/ PdServiceDown \/ EarlyCrashInd
    BY <1>0, <1>2, <1>8, OtherTimely
  <1>9. CASE Failures
    <2>1. PICK first \in {"early_nb", "modem_nb", "boot"}, crashed \in BOOLEAN :
             /\ Fail(first, crashed) /\ (first = "boot" => crashed)
             /\ pdr' = "down" => pdr = "down" \/ first = "boot"
      BY <1>9 DEF Failures, WpssFails, ModemFails, PdCrashes
    <2> QED
      BY <1>2, <2>1, FailureTimely
  <1>10. CASE UNCHANGED vars
    <2>1. /\ UNCHANGED <<boot, votes, fw, state, ssr, pdr, wire, worker, events>>
      BY <1>10 DEF vars, fwVars, threadVars, driverVars
    <2>2. \A i \in DOMAIN wire' : wire'[i].of <= boot
      BY <1>2, <2>1 DEF TimelyInv, BootsMark
    <2> QED
      BY <1>3, <2>1, <2>2 DEF Calm, Is, Served, Up, Alive
  <1> QED
    BY <1>4, <1>5, <1>6, <1>7, <1>8, <1>9, <1>10 DEF Next, Restart, Notifiers, Pdr, Worker

LEMMA TimelyInit == Init => Timely
  <1> SUFFICES ASSUME Init PROVE TimelyInv
    BY DEF Timely
  <1>1. /\ wire = <<>> /\ events = <<>> /\ boot = 0 /\ votes = 0 /\ fw.life = "off"
        /\ worker.at = "idle" /\ worker.ev.of = 0 /\ ssr.at = "idle" /\ pdr = "idle"
        /\ "PD_RESTART" \notin state
    BY DEF Init, Resting, Event
  <1>2. BootsMark
    BY <1>1 DEF BootsMark, Crashes
  <1>3. Restarts /\ CrashesFirst /\ Unheard /\ EarlyFirst /\ OneVote
    BY <1>1 DEF Restarts, CrashesFirst, Unheard, EarlyFirst, OneVote, Up, Served, Alive, At, Is
  <1> QED
    BY <1>2, <1>3 DEF TimelyInv

\* While failures come in time, a crash is told of once: by the interrupt first,
\* and before the next firmware arrives.
THEOREM TimelyInvariant == Spec => [](IInv /\ Timely)
  <1>1. Init => IInv /\ Timely
    BY InvariantInit, TimelyInit
  <1>2. IInv /\ Timely /\ [Next]_vars => (IInv /\ Timely)'
    BY InvariantNext, TimelyNext
  <1> QED
    BY <1>1, <1>2, PTL DEF Spec

\* Each recovery takes a vote to keep the system awake, and gives it back: the
\* interrupt and the notifiers both tell of a crash, and only one is counted.
THEOREM OneVoteForARecovery == Spec => []VoteHeldInRestart
  <1>1. IInv /\ Timely => VoteHeldInRestart
    BY DEF IInv, VotesAreHeld, Timely, TimelyInv, OneVote, VoteHeldInRestart, At, Resting
  <1> QED
    BY <1>1, TimelyInvariant, PTL

-----------------------------------------------------------------------------
(***************************************************************************)
(* What a message does to the wire                                         *)
(***************************************************************************)

LEMMA OnWireIs ==
    ASSUME TypeOK
    PROVE  /\ wire = <<>> => \A ind : ~OnWire(ind)
           /\ \A a : One(a) => wire # <<>> /\ \A ind : OnWire(ind) <=> ind = a
           /\ \A a, b : Two(a, b) => wire # <<>> /\ \A ind : OnWire(ind) <=> ind \in {a, b}
  <1>1. wire \in Seq(Messages)
    BY DEF TypeOK
  <1>2. wire = <<>> => \A ind : ~OnWire(ind)
    BY DEF OnWire
  <1>3. ASSUME NEW a, One(a)
        PROVE  wire # <<>> /\ \A ind : OnWire(ind) <=> ind = a
    <2>0. Len(wire) = 1 /\ wire[1].ind = a
      BY <1>3 DEF One
    <2>1. DOMAIN wire = 1..1 /\ wire # <<>>
      <3>1. DOMAIN wire = 1..Len(wire)
        BY <1>1
      <3>2. wire # <<>>
        BY <2>0
      <3> QED
        BY <2>0, <3>1, <3>2
    <2>2. \A i \in 1..1 : i = 1
      OBVIOUS
    <2> QED
      BY <2>0, <2>1, <2>2 DEF OnWire
  <1>4. ASSUME NEW a, NEW b, Two(a, b)
        PROVE  wire # <<>> /\ \A ind : OnWire(ind) <=> ind \in {a, b}
    <2>1. DOMAIN wire = {1, 2} /\ wire[1].ind = a /\ wire[2].ind = b /\ wire # <<>>
      BY <1>1, <1>4 DEF Two
    <2> QED
      BY <2>1 DEF OnWire
  <1> QED
    BY <1>2, <1>3, <1>4

LEMMA WireGrows ==
    ASSUME TypeOK, NEW a, wire' = Append(wire, [ind |-> a, of |-> boot])
    PROVE  /\ wire = <<>> => One(a)'
           /\ \A b : One(b) => Two(b, a)'
           /\ \A ind : OnWire(ind)' <=> OnWire(ind) \/ ind = a
           /\ (\A i \in DOMAIN wire : wire[i].ind = "NEW" => wire[i].of = boot)
              => \A i \in DOMAIN wire' : wire'[i].ind = "NEW" => wire'[i].of = boot
  <1>1. wire \in Seq(Messages)
    BY DEF TypeOK
  <1>2. wire = <<>> => One(a)'
    BY <1>1 DEF One
  <1>3. ASSUME NEW b, One(b)
        PROVE  Two(b, a)'
    <2>1. Len(wire) = 1 /\ wire[1].ind = b
      BY <1>3 DEF One
    <2>0. Len(wire') = Len(wire) + 1 /\ wire'[Len(wire) + 1] = [ind |-> a, of |-> boot]
      BY <1>1
    <2>2. Len(wire') = 2
      BY <2>0, <2>1
    <2>3. wire'[1] = wire[1]
      BY <1>1, <2>1
    <2>4. wire'[2] = [ind |-> a, of |-> boot]
      BY <2>0, <2>1
    <2> QED
      BY <2>1, <2>2, <2>3, <2>4 DEF Two
  <1>4. (\A i \in DOMAIN wire : wire[i].ind = "NEW" => wire[i].of = boot)
        => \A i \in DOMAIN wire' : wire'[i].ind = "NEW" => wire'[i].of = boot
    BY <1>1
  <1>5. \A ind : OnWire(ind)' <=> OnWire(ind) \/ ind = a
    <2>1. \A i \in DOMAIN wire : i \in DOMAIN wire' /\ wire'[i] = wire[i]
      BY <1>1
    <2>2. Len(wire) + 1 \in DOMAIN wire' /\ wire'[Len(wire) + 1].ind = a
      BY <1>1
    <2>3. \A i \in DOMAIN wire' : i \in DOMAIN wire \/ i = Len(wire) + 1
      BY <1>1
    <2> QED
      BY <2>1, <2>2, <2>3 DEF OnWire
  <1> QED
    BY <1>2, <1>3, <1>4, <1>5

LEMMA WireShrinks ==
    ASSUME TypeOK, wire # <<>>, wire' = Tail(wire)
    PROVE  /\ Head(wire) = wire[1] /\ 1 \in DOMAIN wire
           /\ \A a : One(a) => Head(wire).ind = a /\ wire' = <<>>
           /\ \A a, b : Two(a, b) => Head(wire).ind = a /\ One(b)'
           /\ (\A i \in DOMAIN wire : wire[i].ind = "NEW" => wire[i].of = boot)
              => \A i \in DOMAIN wire' : wire'[i].ind = "NEW" => wire'[i].of = boot
  <1>1. wire \in Seq(Messages)
    BY DEF TypeOK
  <1>2. Head(wire) = wire[1] /\ 1 \in DOMAIN wire
    BY <1>1
  <1>3. \A a : One(a) => Head(wire).ind = a /\ wire' = <<>>
    BY <1>1 DEF One
  <1>4. \A a, b : Two(a, b) => Head(wire).ind = a /\ One(b)'
    BY <1>1 DEF One, Two
  <1>5. (\A i \in DOMAIN wire : wire[i].ind = "NEW" => wire[i].of = boot)
        => \A i \in DOMAIN wire' : wire'[i].ind = "NEW" => wire'[i].of = boot
    BY <1>1
  <1> QED
    BY <1>2, <1>3, <1>4, <1>5

LEMMA WireOne ==
    ASSUME NEW a, wire' = <<[ind |-> a, of |-> boot]>>
    PROVE  One(a)' /\ \A i \in DOMAIN wire' : wire'[i].of = boot
  BY DEF One

LEMMA WireStays ==
    ASSUME UNCHANGED wire
    PROVE  /\ \A ind : OnWire(ind)' <=> OnWire(ind)
           /\ \A a : One(a)' <=> One(a)
           /\ \A a, b : Two(a, b)' <=> Two(a, b)
  BY DEF OnWire, One, Two

-----------------------------------------------------------------------------
(***************************************************************************)
(* Steps beside the boot of the firmware                                   *)
(***************************************************************************)

\* Those of the notifiers and of the host driver's threads: they tell of a
\* failure and change what the firmware is taken for during a restart only.
Beside ==
    /\ UNCHANGED <<boot, wire, worker, callback, ops, device>>
    /\ \A b \in {"DEL_SERVER", "EXISTS", "CONNECTED", "PROBED", "PD_RESTART", "POWER_ON",
                 "early_crash_ind"} : (b \in state') = (b \in state)
    /\ fw'.life = fw.life /\ (ssr.at = "idle" \/ Alive => fw' = fw)
    /\ ssr.at = "idle" =>
          Is("FW_READY")' = Is("FW_READY") /\ (Is("FW_DOWN")' => Is("FW_DOWN"))
    /\ \A at \in {"idle", "boot"} : (ssr'.at = at) = (ssr.at = at)
    /\ ssr'.at = "off" /\ device # "adrastea" => ssr.at = "off" \/ Told'
    /\ pdr = "down" /\ pdr' # "down" => Told'
    /\ \/ UNCHANGED events
       \/ \E e \in Events : /\ events' = Append(events, e) /\ e.ev \notin FwEvents
                            /\ e.ev \in Crashes => ssr.at # "idle"

LEMMA BesideCourse ==
    ASSUME TypeOK, TimelyInv, Course, Beside
    PROVE  Course'
  <1> USE DEF Course
  <1>1. /\ \A type \in FwEvents : Queued(type)' <=> Queued(type)
        /\ Once' /\ (Queued("PD_SERVICE_DOWN") => Queued("PD_SERVICE_DOWN")')
        /\ ssr.at = "idle" => \A type \in Crashes : Queued(type)' => Queued(type)
        /\ \A i \in DOMAIN events' : events'[i].ev \in FwEvents =>
              i \in DOMAIN events /\ events'[i] = events[i]
    <2>1. CASE UNCHANGED events
      BY <2>1, QueueStays
    <2>2. CASE ~UNCHANGED events
      <3>1. PICK e \in Events : /\ events' = Append(events, e) /\ e.ev \notin FwEvents
                                /\ e.ev \in Crashes => ssr.at # "idle"
        BY <2>2 DEF Beside
      <3>2. PICK n \in DOMAIN events' :
               /\ events'[n] = e
               /\ \A i \in DOMAIN events :
                     i \in Nat /\ i < n /\ i \in DOMAIN events' /\ events'[i] = events[i]
               /\ \A i \in DOMAIN events' : i = n \/ i \in DOMAIN events
        BY <3>1, Appended
      <3> QED
        BY <3>1, <3>2, QueueGrows DEF ReadyEvents, FwEvents
    <2> QED
      BY <2>1, <2>2
  <1>2. \A at : At(at)' <=> At(at)
    BY DEF Beside, At
  <1>3. /\ \A type \in FwEvents : Underway(type)' <=> Underway(type)
        /\ Underway("PD_SERVICE_DOWN") => Underway("PD_SERVICE_DOWN")'
        /\ ssr.at = "idle" => (CrashesHandled => CrashesHandled')
    BY <1>1, <1>2 DEF Underway, CrashesHandled
  <1>4. /\ \A ind : OnWire(ind)' <=> OnWire(ind)
        /\ \A a : One(a)' <=> One(a)
        /\ \A a, b : Two(a, b)' <=> Two(a, b)
    BY WireStays DEF Beside
  <1>5. /\ \A b \in {"DEL_SERVER", "EXISTS", "CONNECTED", "PROBED", "PD_RESTART", "POWER_ON",
                     "early_crash_ind"} : Is(b)' = Is(b)
        /\ Told => Told'
    BY <1>3 DEF Beside, Is, Told
  <1>6. /\ boot' = boot /\ wire' = wire /\ worker' = worker /\ Alive' = Alive /\ Up' = Up
        /\ Served' = Served /\ (Alive => fw' = fw)
        /\ (ssr'.at = "idle") = (ssr.at = "idle")
    BY DEF Beside, Alive, Up, Served
  <1>7. /\ ssr.at = "idle" => Is("FW_READY")' = Is("FW_READY") /\ Handled' = Handled /\ fw' = fw
        /\ Up /\ Is("FW_DOWN")' => Is("FW_DOWN")
    BY DEF Beside, Handled, Up
  <1>8. OnTheWire'
    BY <1>4, <1>6 DEF OnTheWire
  <1>9. Exits'
    BY <1>1, <1>2, <1>3, <1>4, <1>5, <1>6 DEF Exits, FwEvents
  <1>10. Arrives'
    <2>1. \A i \in DOMAIN events' : events'[i].ev = "SERVER_ARRIVE" => events'[i].of = boot'
      BY <1>1, <1>6 DEF Arrives, FwEvents
    <2>2. Up' /\ fw'.stage = "announced" =>
             \/ OnWire("NEW")' \/ Is("DEL_SERVER")' \/ Underway("SERVER_ARRIVE")'
             \/ worker'.at \in HandshakeSteps
      BY <1>3, <1>4, <1>5, <1>6 DEF Arrives, FwEvents, Up
    <2>3. Underway("SERVER_ARRIVE")' \/ worker'.at \in HandshakeSteps =>
             Up' /\ fw'.stage = "announced" /\ wire' = <<>> /\ ~Is("DEL_SERVER")'
      BY <1>3, <1>5, <1>6 DEF Arrives, FwEvents, Up
    <2>4. worker'.at \in {"SERVER_ARRIVE"} \cup HandshakeSteps =>
             worker'.ev.of = boot' /\ ~Queued("SERVER_ARRIVE")'
      BY <1>1, <1>6 DEF Arrives, FwEvents
    <2>5. At("notifications")' => Served'
      BY <1>2, <1>6 DEF Arrives
    <2>6. worker.at \in HandshakeSteps \cup {"notifications"} \/ Served => Up
      BY DEF Arrives, Served, At
    <2>7. worker'.at \in HandshakeSteps \cup {"notifications"} \/ Served' =>
             /\ Is("EXISTS")' /\ ~Is("FW_DOWN")'
             /\ At("connect")' \/ Is("CONNECTED")'
             /\ At("notifications")' \/ fw'.stage # "ready" => ~Is("FW_READY")'
      BY <1>2, <1>5, <1>6, <1>7, <2>6 DEF Arrives, Up
    <2> QED
      BY <2>1, <2>2, <2>3, <2>4, <2>5, <2>7 DEF Arrives
  <1>11. Ready'
    <2>1. Expecting' = Expecting
      BY <1>6, <1>7 DEF Expecting, Up
    <2>2. (Sent' <=> Sent) /\ (Listed' <=> Listed) /\ (InHand' <=> InHand)
      BY <1>1, <1>2, <1>4 DEF Sent, Listed, InHand, FwEvents, ReadyEvents
    <2>3. OnWire("FW_INIT_DONE")' \/ Underway("FW_INIT_DONE")' => fw'.stage = "init"
      <3>1. OnWire("FW_INIT_DONE") \/ Underway("FW_INIT_DONE") => Up /\ fw.stage = "init"
        BY DEF Ready, Sent, Listed, InHand, Underway, ReadyEvents, Expecting
      <3> QED
        BY <1>3, <1>4, <1>6, <3>1 DEF FwEvents, ReadyEvents, Up
    <2> QED
      BY <1>6, <2>1, <2>2, <2>3 DEF Ready
  <1>12. Recovers'
    BY <1>2, <1>5, <1>6, <1>7 DEF Recovers, Beside, Up
  <1>13. First'
    BY <1>3, <1>6, <1>7 DEF First, Beside
  <1>14. Serves'
    BY <1>2, <1>5, <1>6, <1>7 DEF Serves, Beside, Up
  <1> QED
    BY <1>1, <1>8, <1>9, <1>10, <1>11, <1>12, <1>13, <1>14

LEMMA BesideSteps ==
    ASSUME TypeOK, TypeOK', TimelyInv, faults' = 0,
           Notifiers \/ Pdr \/ Host \/ AnnounceShutdown \/ UNCHANGED vars
    PROVE  Beside
  <1>0. ~Fault /\ (fw.life = "dead" \/ pdr = "down" => ssr.at # "idle")
    BY Counts DEF TimelyInv, Restarts
  <1>1. UNCHANGED <<boot, wire, worker, callback, ops, device>>
    BY DEF Notifiers, Pdr, Host, EarlyCrash, WpssEarlyNotifier, WpssNotifier, NotifierDown,
       ModemNotifier, ModemStop, ModemUnblock, ModemDown, PdrDown, PdrUp, Register,
       Unregister, Unregistered, AnnounceShutdown, ssrRest, hostRest, fwVars, driverVars, vars
  <1>2. \A b \in {"DEL_SERVER", "EXISTS", "CONNECTED", "PROBED", "PD_RESTART", "POWER_ON",
                  "early_crash_ind"} : (b \in state') = (b \in state)
    BY DEF Notifiers, Pdr, Host, EarlyCrash, WpssEarlyNotifier, WpssNotifier, NotifierDown,
       ModemNotifier, ModemStop, ModemUnblock, ModemDown, PdrDown, PdrUp, Register,
       Unregister, Unregistered, AnnounceShutdown, vars
  <1>3. fw'.life = fw.life /\ (ssr.at = "idle" \/ Alive => fw' = fw)
    BY <1>0 DEF Notifiers, Pdr, Host, EarlyCrash, WpssEarlyNotifier, WpssNotifier,
       NotifierDown, ModemNotifier, ModemStop, ModemUnblock, ModemDown, PdrDown, PdrUp,
       Register, Unregister, Unregistered, AnnounceShutdown, ssrRest, hostRest, fwVars, vars,
       TypeOK, Alive
  <1>4. ssr.at = "idle" =>
           Is("FW_READY")' = Is("FW_READY") /\ (Is("FW_DOWN")' => Is("FW_DOWN"))
    BY <1>0 DEF Notifiers, Pdr, Host, EarlyCrash, WpssEarlyNotifier, WpssNotifier,
       NotifierDown, ModemNotifier, ModemStop, ModemUnblock, ModemDown, PdrDown, PdrUp,
       Register, Unregister, Unregistered, AnnounceShutdown, SsrAt, vars, Is
  <1>5. \A at \in {"idle", "boot"} : (ssr'.at = at) = (ssr.at = at)
    BY DEF Notifiers, Pdr, Host, EarlyCrash, WpssEarlyNotifier, WpssNotifier, NotifierDown,
       ModemNotifier, ModemStop, ModemUnblock, ModemDown, PdrDown, PdrUp, Register,
       Unregister, Unregistered, AnnounceShutdown, SsrAt, SsrGo, hostRest, threadVars, vars,
       TypeOK
  <1>6. \/ UNCHANGED events
        \/ \E e \in Events : /\ events' = Append(events, e) /\ e.ev \notin FwEvents
                             /\ e.ev \in Crashes => ssr.at # "idle"
    <2>1. CASE EarlyCrash
      BY <1>0, <2>1 DEF EarlyCrash, Post, Event, Events, EventTypes, FwEvents, ReadyEvents
    <2>2. CASE NotifierDown
      BY <1>0, <2>2 DEF NotifierDown, SsrAt, PostSync, Event, Events, EventTypes, Threads,
         FwEvents, ReadyEvents
    <2>3. CASE PdrDown
      BY <1>0, <2>3 DEF PdrDown, PostSync, Event, Events, EventTypes, Threads, FwEvents,
         ReadyEvents
    <2>4. CASE ModemStop
      BY <1>0, <2>4 DEF ModemStop, SsrAt, PostSync, Event, Events, EventTypes, Threads,
         FwEvents, ReadyEvents
    <2>5. CASE Register
      BY <1>0, <2>5 DEF Register, Post, Event, Events, EventTypes, FwEvents, ReadyEvents,
         Crashes
    <2>6. CASE Unregister
      BY <1>0, <2>6 DEF Unregister, PostSync, Event, Events, EventTypes, Threads, FwEvents,
         ReadyEvents, Crashes
    <2> QED
      BY <2>1, <2>2, <2>3, <2>4, <2>5, <2>6 DEF Notifiers, Pdr, Host, WpssEarlyNotifier,
         WpssNotifier, ModemNotifier, ModemUnblock, ModemDown, PdrUp, Unregistered,
         AnnounceShutdown, vars
  <1>7. /\ ssr'.at = "off" /\ device # "adrastea" => ssr.at = "off" \/ Told'
        /\ pdr = "down" /\ pdr' # "down" => Told'
    <2>1. ASSUME NEW by \in Threads, PostSync("PD_SERVICE_DOWN", by)
          PROVE  Told'
      <3>1. Event("PD_SERVICE_DOWN", 0, by) \in Events
        BY DEF Event, Events, EventTypes
      <3>2. /\ events' = Append(events, Event("PD_SERVICE_DOWN", 0, by))
            /\ Event("PD_SERVICE_DOWN", 0, by).ev = "PD_SERVICE_DOWN"
        BY <1>0, <2>1 DEF PostSync, Event
      <3> QED
        BY <3>1, <3>2, QueueGrows DEF Told, Underway
    <2>2. CASE NotifierDown
      BY <1>0, <2>1, <2>2 DEF NotifierDown, Threads, ssrRest
    <2>3. CASE PdrDown
      BY <1>0, <2>1, <2>3 DEF PdrDown, Threads
    <2>4. CASE ~NotifierDown /\ ~PdrDown
      BY <2>4 DEF Notifiers, Pdr, Host, EarlyCrash, WpssEarlyNotifier, WpssNotifier,
         ModemNotifier, ModemStop, ModemUnblock, ModemDown, PdrUp, Register, Unregister,
         Unregistered, AnnounceShutdown, SsrAt, SsrGo, ssrRest, hostRest, threadVars, vars,
         TypeOK
    <2> QED
      BY <2>2, <2>3, <2>4
  <1> QED
    BY <1>1, <1>2, <1>3, <1>4, <1>5, <1>6, <1>7 DEF Beside

\* Those of the event worker that call the host driver, or count a failure.
Driver ==
    /\ UNCHANGED <<fw, boot, wire, events, ssr, pdr, device>>
    /\ worker.at \in DriverSteps \cup Crashes \cup {"REGISTER", "UNREGISTER"}
    /\ worker'.at \in DriverSteps \cup {"idle"}
    /\ \A b \in {"DEL_SERVER", "EXISTS", "FW_DOWN", "CONNECTED"} : Is(b)' = Is(b)
    /\ Served => Is("FW_READY")' = Is("FW_READY")
    /\ worker.at \in Crashes \/ Is("FW_READY")' = Is("FW_READY")

LEMMA DriverCourse ==
    ASSUME TypeOK, TimelyInv, Course, Driver
    PROVE  /\ Once' /\ OnTheWire' /\ Exits' /\ Arrives' /\ Ready'
           /\ Up' = Up /\ Served' = Served /\ (Up => Handled' = Handled)
           /\ worker.at \in Crashes \/ Handled' = Handled
           /\ CrashesHandled => CrashesHandled'
           /\ \A type : Queued(type)' <=> Queued(type)
  <1> USE DEF Course
  <1>1. /\ Once' /\ \A type : Queued(type)' <=> Queued(type)
        /\ \A ind : OnWire(ind)' <=> OnWire(ind)
        /\ \A a : One(a)' <=> One(a)
        /\ \A a, b : Two(a, b)' <=> Two(a, b)
    BY QueueStays, WireStays DEF Driver
  <1>2. /\ Up' = Up /\ Served' = Served /\ Alive' = Alive
        /\ UNCHANGED <<fw, boot, wire, events, ssr>>
        /\ \A b \in {"DEL_SERVER", "EXISTS", "FW_DOWN", "CONNECTED"} : Is(b)' = Is(b)
    BY DEF Driver, Up, Served, Alive
  <1>3. /\ worker.at \notin FwEvents \cup HandshakeSteps \cup {"notifications"}
        /\ worker'.at \notin FwEvents \cup HandshakeSteps \cup {"notifications"}
    BY DEF Driver, DriverSteps, Crashes, FwEvents, ReadyEvents, HandshakeSteps
  <1>4. \A type \in FwEvents : (Underway(type)' <=> Underway(type)) /\ ~At(type) /\ ~At(type)'
    BY <1>1, <1>3 DEF Underway, At
  <1>5. /\ Up => Handled' = Handled
        /\ worker.at \in Crashes \/ Handled' = Handled
        /\ CrashesHandled => CrashesHandled'
    <2>1. (Up => Handled' = Handled) /\ (worker.at \in Crashes \/ Handled' = Handled)
      BY <1>2 DEF Handled, Driver, Served
    <2>2. worker'.at \notin Crashes
      BY DEF Driver, DriverSteps, Crashes
    <2> QED
      BY <1>1, <2>1, <2>2 DEF CrashesHandled, Underway, At
  <1>6. OnTheWire'
    BY <1>1, <1>2 DEF OnTheWire
  <1>7. Exits'
    BY <1>1, <1>2, <1>4 DEF Exits, FwEvents
  <1>8. Arrives'
    <2>1. Served' => ~(fw'.stage # "ready") \/ ~Is("FW_READY")'
      BY <1>2 DEF Arrives, Driver
    <2>2. ~At("notifications")' /\ ~At("connect") /\ ~At("connect")'
      BY <1>3 DEF At, HandshakeSteps
    <2>3. ~Underway("SERVER_ARRIVE") <=> ~Underway("SERVER_ARRIVE")'
      BY <1>4 DEF FwEvents
    <2> QED
      BY <1>1, <1>2, <1>3, <2>1, <2>2, <2>3 DEF Arrives, FwEvents
  <1>9. Ready'
    <2>1. Expecting' <=> Expecting
      BY <1>2 DEF Expecting, Driver, Served, Up
    <2>2. (Sent' <=> Sent) /\ (Listed' <=> Listed) /\ (InHand' <=> InHand)
      BY <1>1, <1>4 DEF Sent, Listed, InHand, FwEvents
    <2>3. Underway("FW_INIT_DONE")' <=> Underway("FW_INIT_DONE")
      BY <1>4 DEF FwEvents, ReadyEvents
    <2> QED
      BY <1>1, <1>2, <2>1, <2>2, <2>3 DEF Ready
  <1> QED
    BY <1>1, <1>2, <1>5, <1>6, <1>7, <1>8, <1>9

LEMMA DriverSplits ==
    ASSUME IInv, TimelyInv, HostDriverStep
    PROVE  Driver
  <1>0. TypeOK
    BY DEF IInv
  <1>1. UNCHANGED <<fw, boot, wire, events, ssr, pdr, device>>
    BY DEF HostDriverStep, FwReadyPowerOff, RestartComplete, RestartCleared, CallReinit,
       ReinitEnd, CallProbe, ProbeEnd, RegisterDriver, UnregisterDriver, RemoveEnd,
       PdServiceDown, EarlyCrashInd, workerRest
  <1>2. worker.at \in DriverSteps \cup Crashes \cup {"REGISTER", "UNREGISTER"}
    BY DEF HostDriverStep, FwReadyPowerOff, RestartComplete, RestartCleared, CallReinit,
       ReinitEnd, CallProbe, ProbeEnd, RegisterDriver, UnregisterDriver, RemoveEnd,
       PdServiceDown, EarlyCrashInd, At, DriverSteps, Crashes
  <1>3. worker'.at \in DriverSteps \cup {"idle"}
    BY HostDriverTypes DEF DriverSteps
  <1>4. \A b \in {"DEL_SERVER", "EXISTS", "FW_DOWN", "CONNECTED"} : Is(b)' = Is(b)
    BY DEF HostDriverStep, FwReadyPowerOff, RestartComplete, RestartCleared, CallReinit,
       ReinitEnd, CallProbe, ProbeEnd, RegisterDriver, UnregisterDriver, RemoveEnd,
       PdServiceDown, EarlyCrashInd, PowerOn, PowerOff, FwCrashed, Is
  <1>5. worker.at \in Crashes \/ Is("FW_READY")' = Is("FW_READY")
    BY DEF HostDriverStep, FwReadyPowerOff, RestartComplete, RestartCleared, CallReinit,
       ReinitEnd, CallProbe, ProbeEnd, RegisterDriver, UnregisterDriver, RemoveEnd,
       PdServiceDown, EarlyCrashInd, PowerOn, PowerOff, Is, At, Crashes
  <1>6. Served => Is("FW_READY")' = Is("FW_READY")
    <2>1. Served => ~PdServiceDown /\ ~EarlyCrashInd
      BY DEF TimelyInv, CrashesFirst, CrashesHandled, Underway, Crashes, PdServiceDown,
         EarlyCrashInd
    <2> QED
      BY <2>1 DEF HostDriverStep, FwReadyPowerOff, RestartComplete, RestartCleared,
         CallReinit, ReinitEnd, CallProbe, ProbeEnd, RegisterDriver, UnregisterDriver,
         RemoveEnd, PdServiceDown, EarlyCrashInd, PowerOn, PowerOff, Is
  <1> QED
    BY <1>1, <1>2, <1>3, <1>4, <1>5, <1>6 DEF Driver

LEMMA DriverKeepsCourse ==
    ASSUME IInv, TypeOK', faults' = 0, TimelyInv, Course, HostDriverStep
    PROVE  Course'
  <1>0. TypeOK /\ ~Fault
    BY Counts DEF IInv
  <1>1. /\ Driver /\ Once' /\ OnTheWire' /\ Exits' /\ Arrives' /\ Ready'
        /\ Up' = Up /\ Served' = Served /\ (Up => Handled' = Handled)
        /\ worker.at \in Crashes \/ Handled' = Handled
        /\ CrashesHandled => CrashesHandled'
        /\ \A type : Queued(type)' <=> Queued(type)
    BY <1>0, DriverSplits, DriverCourse
  <1>2. /\ Up /\ Handled => Served /\ CrashesHandled /\ ~Is("FW_DOWN") /\ Is("FW_READY")
        /\ worker.at \in Crashes => ~CrashesHandled
    BY DEF Handled, Served, TimelyInv, CrashesFirst, CrashesHandled, Underway, At, Crashes,
       Course, Arrives
  <1>3. /\ UNCHANGED <<boot, ssr, pdr, device>> /\ CallbackIsCalled /\ BitsAreTrue
        /\ Recovers /\ First /\ Serves
        /\ Is("EXISTS")' = Is("EXISTS")
        /\ worker.at \in Crashes \/ Is("FW_READY")' = Is("FW_READY")
    BY <1>1 DEF Driver, IInv, Course
  <1>4. CASE FwReadyPowerOff
    <2>1. worker.at = "power_off"
      BY <1>4 DEF FwReadyPowerOff, At
    <2>2. worker'.at = IF Is("PD_RESTART") THEN "restart" ELSE "call_probe"
      BY <1>0, <1>4 DEF FwReadyPowerOff, PowerOff, driverVars, At, Go, Finish, Resting,
         TypeOK, Is
    <2>3. UNCHANGED <<callback, ops>>
      BY <1>0, <1>4 DEF FwReadyPowerOff, PowerOff, driverVars, At, Go, Finish, Resting,
         TypeOK, Is
    <2>4. \A b \in {"PROBED", "PD_RESTART", "early_crash_ind"} : Is(b)' = Is(b)
      BY <1>0, <1>4 DEF FwReadyPowerOff, PowerOff, driverVars, Is
    <2>5. Recovers'
      BY <1>1, <1>2, <1>3, <2>1, <2>2, <2>3, <2>4 DEF Recovers, Told, Underway, At, Crashes, Up
    <2>6. First'
      BY <1>1, <1>2, <1>3, <2>1, <2>2, <2>3, <2>4 DEF First, DriverSteps, CallbackIsCalled,
         BitsAreTrue, Crashes, Handled, Is
    <2>7. Serves'
      BY <1>1, <1>2, <1>3, <2>1, <2>2, <2>3, <2>4 DEF Serves, Recovers, At, CallbackIsCalled,
         BitsAreTrue, Crashes
    <2> QED
      BY <1>1, <2>5, <2>6, <2>7 DEF Course
  <1>5. CASE RestartComplete
    <2>1. worker.at = "restart"
      BY <1>5 DEF RestartComplete, At
    <2>2. worker'.at = "restarted" /\ ops' = ops
      BY <1>0, <1>5 DEF RestartComplete, At, Go, Finish, Resting, TypeOK, Is
    <2>3. callback' = callback \/ (Is("PROBED") /\ callback' = "shutdown")
      BY <1>0, <1>5 DEF RestartComplete, At, Go, Finish, Resting, TypeOK, Is
    <2>4. \A b \in {"PROBED", "PD_RESTART", "POWER_ON", "early_crash_ind"} : Is(b)' = Is(b)
      BY <1>0, <1>5 DEF RestartComplete, Is
    <2>5. Recovers'
      BY <1>1, <1>2, <1>3, <2>1, <2>2, <2>3, <2>4 DEF Recovers, Told, Underway, At, Crashes, Up
    <2>6. First'
      BY <1>1, <1>2, <1>3, <2>1, <2>2, <2>3, <2>4 DEF First, DriverSteps, CallbackIsCalled,
         BitsAreTrue, Crashes, Handled, Is
    <2>7. Serves'
      BY <1>1, <1>2, <1>3, <2>1, <2>2, <2>3, <2>4 DEF Serves, Recovers, At, CallbackIsCalled,
         BitsAreTrue, Crashes
    <2> QED
      BY <1>1, <2>5, <2>6, <2>7 DEF Course
  <1>6. CASE RestartCleared
    <2>1. worker.at = "restarted"
      BY <1>6 DEF RestartCleared, At
    <2>2. callback' = (IF callback = "shutdown" THEN "stopped" ELSE callback) /\ ops' = ops
      BY <1>0, <1>6 DEF RestartCleared, At, Go, Finish, Resting, TypeOK, Is
    <2>3. worker'.at = IF ~ops \/ Is("FW_DOWN") THEN "idle" ELSE IF Is("PROBED") THEN "reinit"
                      ELSE "call_probe"
      BY <1>0, <1>6 DEF RestartCleared, At, Go, Finish, Resting, TypeOK, Is
    <2>4. ~Is("PD_RESTART")' /\ ~Is("early_crash_ind")'
      BY <1>0, <1>6 DEF RestartCleared, At, Go, Finish, Resting, TypeOK, Is
    <2>5. \A b \in {"PROBED", "POWER_ON"} : Is(b)' = Is(b)
      BY <1>0, <1>6 DEF RestartCleared, Is
    <2>6. Recovers'
      BY <1>1, <1>2, <1>3, <2>1, <2>2, <2>3, <2>4, <2>5 DEF Recovers, Told, Underway, At,
         Crashes, Up
    <2>7. First'
      BY <1>1, <1>2, <1>3, <2>1, <2>2, <2>3, <2>4, <2>5 DEF First, DriverSteps,
         CallbackIsCalled, BitsAreTrue, Crashes, Handled, Is
    <2>8. Serves'
      BY <1>1, <1>2, <1>3, <2>1, <2>2, <2>3, <2>4, <2>5 DEF Serves, Recovers, At,
         CallbackIsCalled, BitsAreTrue, Crashes
    <2> QED
      BY <1>1, <2>6, <2>7, <2>8 DEF Course
  <1>7. CASE CallReinit
    <2>1. worker.at = "reinit"
      BY <1>7 DEF CallReinit, At
    <2>2. worker'.at = "reinit_end" /\ callback' = "reinit" /\ ops' = ops
      BY <1>0, <1>7 DEF CallReinit, PowerOn, At, Go, Finish, Resting, TypeOK, Is
    <2>3. Is("POWER_ON")'
      BY <1>0, <1>7 DEF CallReinit, PowerOn, At, Go, Finish, Resting, TypeOK, Is
    <2>4. \A b \in {"PROBED", "PD_RESTART", "early_crash_ind"} : Is(b)' = Is(b)
      BY <1>0, <1>7 DEF CallReinit, PowerOn, Is
    <2>5. Recovers'
      BY <1>1, <1>2, <1>3, <2>1, <2>2, <2>3, <2>4 DEF Recovers, Told, Underway, At, Crashes, Up
    <2>6. First'
      BY <1>1, <1>2, <1>3, <2>1, <2>2, <2>3, <2>4 DEF First, DriverSteps, CallbackIsCalled,
         BitsAreTrue, Crashes, Handled, Is
    <2>7. Serves'
      BY <1>1, <1>2, <1>3, <2>1, <2>2, <2>3, <2>4 DEF Serves, Recovers, At, CallbackIsCalled,
         BitsAreTrue, Crashes
    <2> QED
      BY <1>1, <2>5, <2>6, <2>7 DEF Course
  <1>8. CASE ReinitEnd
    <2>1. worker.at = "reinit_end"
      BY <1>8 DEF ReinitEnd, At
    <2>2. worker'.at = "idle" /\ callback' = "in" /\ ops' = ops
      BY <1>0, <1>8 DEF ReinitEnd, PowerOff, At, Go, Finish, Resting, TypeOK, Is
    <2>3. \A b \in {"PROBED", "PD_RESTART", "POWER_ON", "early_crash_ind"} : Is(b)' = Is(b)
      BY <1>0, <1>8 DEF ReinitEnd, PowerOff, Is
    <2>4. Recovers'
      BY <1>1, <1>2, <1>3, <2>1, <2>2, <2>3 DEF Recovers, Told, Underway, At, Crashes, Up
    <2>5. First'
      BY <1>1, <1>2, <1>3, <2>1, <2>2, <2>3 DEF First, DriverSteps, CallbackIsCalled,
         BitsAreTrue, Crashes, Handled, Is
    <2>6. Serves'
      BY <1>1, <1>2, <1>3, <2>1, <2>2, <2>3 DEF Serves, Recovers, At, CallbackIsCalled,
         BitsAreTrue, Crashes
    <2> QED
      BY <1>1, <2>4, <2>5, <2>6 DEF Course
  <1>9. CASE CallProbe
    <2>1. worker.at = "call_probe"
      BY <1>9 DEF CallProbe, At
    <2>2. \/ /\ ~ops \/ Is("PROBED")
             /\ worker'.at = "idle" /\ Is("POWER_ON")' = Is("POWER_ON") /\ UNCHANGED callback
          \/ ~Is("PROBED") /\ worker'.at = "probe_end" /\ callback' = "probe" /\ Is("POWER_ON")'
      BY <1>0, <1>9 DEF CallProbe, PowerOn, At, Go, Finish, Resting, TypeOK, Is
    <2>3. ops' = ops
      BY <1>0, <1>9 DEF CallProbe, PowerOn, At, Go, Finish, Resting, TypeOK, Is
    <2>4. \A b \in {"PROBED", "PD_RESTART", "early_crash_ind"} : Is(b)' = Is(b)
      BY <1>0, <1>9 DEF CallProbe, PowerOn, Is
    <2>5. Recovers'
      BY <1>1, <1>2, <1>3, <2>1, <2>2, <2>3, <2>4 DEF Recovers, Told, Underway, At, Crashes, Up
    <2>6. First'
      BY <1>1, <1>2, <1>3, <2>1, <2>2, <2>3, <2>4 DEF First, DriverSteps, CallbackIsCalled,
         BitsAreTrue, Crashes, Handled, Is
    <2>7. Serves'
      BY <1>1, <1>2, <1>3, <2>1, <2>2, <2>3, <2>4 DEF Serves, Recovers, At, CallbackIsCalled,
         BitsAreTrue, Crashes
    <2> QED
      BY <1>1, <2>5, <2>6, <2>7 DEF Course
  <1>10. CASE ProbeEnd
    <2>1. worker.at = "probe_end"
      BY <1>10 DEF ProbeEnd, At
    <2>2. worker'.at = "idle" /\ callback' = "in" /\ ops' = ops /\ Is("PROBED")'
      BY <1>0, <1>10 DEF ProbeEnd, PowerOff, At, Go, Finish, Resting, TypeOK, Is
    <2>3. \A b \in {"PD_RESTART", "POWER_ON", "early_crash_ind"} : Is(b)' = Is(b)
      BY <1>0, <1>10 DEF ProbeEnd, PowerOff, Is
    <2>4. Recovers'
      BY <1>1, <1>2, <1>3, <2>1, <2>2, <2>3 DEF Recovers, Told, Underway, At, Crashes, Up
    <2>5. First'
      BY <1>1, <1>2, <1>3, <2>1, <2>2, <2>3 DEF First, DriverSteps, CallbackIsCalled,
         BitsAreTrue, Crashes, Handled, Is
    <2>6. Serves'
      BY <1>1, <1>2, <1>3, <2>1, <2>2, <2>3 DEF Serves, Recovers, At, CallbackIsCalled,
         BitsAreTrue, Crashes
    <2> QED
      BY <1>1, <2>4, <2>5, <2>6 DEF Course
  <1>11. CASE RegisterDriver
    <2>1. worker.at = "REGISTER"
      BY <1>11 DEF RegisterDriver, At
    <2>2. \/ /\ ops \/ Is("FW_DOWN") \/ ~Is("FW_READY")
             /\ worker'.at = "idle" /\ Is("POWER_ON")' = Is("POWER_ON") /\ UNCHANGED callback
          \/ /\ ~ops /\ Is("FW_READY")
             /\ worker'.at = "probe_end" /\ callback' = "probe" /\ Is("POWER_ON")'
      BY <1>0, <1>11 DEF RegisterDriver, PowerOn, At, Go, Finish, Resting, TypeOK, Is
    <2>3. ops'
      BY <1>0, <1>11 DEF RegisterDriver, PowerOn, At, Go, Finish, Resting, TypeOK, Is
    <2>4. \A b \in {"PROBED", "PD_RESTART", "early_crash_ind"} : Is(b)' = Is(b)
      BY <1>0, <1>11 DEF RegisterDriver, PowerOn, Is
    <2>5. Recovers'
      BY <1>1, <1>2, <1>3, <2>1, <2>2, <2>3, <2>4 DEF Recovers, Told, Underway, At, Crashes, Up
    <2>6. First'
      BY <1>1, <1>2, <1>3, <2>1, <2>2, <2>3, <2>4 DEF First, DriverSteps, CallbackIsCalled,
         BitsAreTrue, Crashes, Handled, Is
    <2>7. Serves'
      BY <1>1, <1>2, <1>3, <2>1, <2>2, <2>3, <2>4 DEF Serves, Recovers, At, CallbackIsCalled,
         BitsAreTrue, Crashes
    <2> QED
      BY <1>1, <2>5, <2>6, <2>7 DEF Course
  <1>12. CASE UnregisterDriver
    <2>1. worker.at = "UNREGISTER"
      BY <1>12 DEF UnregisterDriver, At
    <2>2. \/ ~Is("PROBED") /\ ~ops' /\ worker'.at = "idle" /\ UNCHANGED callback
          \/ /\ Is("PROBED") /\ ops' = ops
             /\ worker'.at = "remove_end" /\ callback' = "remove"
      BY <1>0, <1>12 DEF UnregisterDriver, At, Go, Finish, Resting, TypeOK, Is
    <2>3. \A b \in {"PROBED", "PD_RESTART", "POWER_ON", "early_crash_ind"} : Is(b)' = Is(b)
      BY <1>0, <1>12 DEF UnregisterDriver, Is
    <2>4. Recovers'
      BY <1>1, <1>2, <1>3, <2>1, <2>2, <2>3 DEF Recovers, Told, Underway, At, Crashes, Up
    <2>5. First'
      BY <1>1, <1>2, <1>3, <2>1, <2>2, <2>3 DEF First, DriverSteps, CallbackIsCalled,
         BitsAreTrue, Crashes, Handled, Is
    <2>6. Serves'
      BY <1>1, <1>2, <1>3, <2>1, <2>2, <2>3 DEF Serves, Recovers, At, CallbackIsCalled,
         BitsAreTrue, Crashes
    <2> QED
      BY <1>1, <2>4, <2>5, <2>6 DEF Course
  <1>13. CASE RemoveEnd
    <2>1. worker.at = "remove_end"
      BY <1>13 DEF RemoveEnd, At
    <2>2. worker'.at = "idle" /\ callback' = "out" /\ ~ops' /\ ~Is("PROBED")'
      BY <1>0, <1>13 DEF RemoveEnd, PowerOff, At, Go, Finish, Resting, TypeOK, Is
    <2>3. \A b \in {"PD_RESTART", "early_crash_ind"} : Is(b)' = Is(b)
      BY <1>0, <1>13 DEF RemoveEnd, PowerOff, Is
    <2>4. Recovers'
      BY <1>1, <1>2, <1>3, <2>1, <2>2, <2>3 DEF Recovers, Told, Underway, At, Crashes, Up
    <2>5. First'
      BY <1>1, <1>2, <1>3, <2>1, <2>2, <2>3 DEF First, DriverSteps, CallbackIsCalled,
         BitsAreTrue, Crashes, Handled, Is
    <2>6. Serves'
      BY <1>1, <1>2, <1>3, <2>1, <2>2, <2>3 DEF Serves, Recovers, At, CallbackIsCalled,
         BitsAreTrue, Crashes
    <2> QED
      BY <1>1, <2>4, <2>5, <2>6 DEF Course
  <1>14. CASE PdServiceDown
    <2>1. worker.at = "PD_SERVICE_DOWN"
      BY <1>14 DEF PdServiceDown, At
    <2>2. worker'.at = "idle" /\ UNCHANGED <<callback, ops>>
      BY <1>0, <1>14 DEF PdServiceDown, FwCrashed, At, Go, Finish, Resting, TypeOK, Is
    <2>3. \/ /\ Is("PD_RESTART")' = Is("PD_RESTART")
             /\ Is("PD_RESTART") \/ ~Is("EXISTS") \/ Is("early_crash_ind")
          \/ Is("EXISTS") /\ Is("PD_RESTART")'
      BY <1>0, <1>14 DEF PdServiceDown, FwCrashed, At, Go, Finish, Resting, TypeOK, Is
    <2>4. \A b \in {"PROBED", "POWER_ON", "early_crash_ind"} : Is(b)' = Is(b)
      BY <1>0, <1>14 DEF PdServiceDown, FwCrashed, Is
    <2>5. Recovers'
      BY <1>1, <1>2, <1>3, <2>1, <2>2, <2>3, <2>4 DEF Recovers, Told, Underway, At, Crashes, Up
    <2>6. First'
      BY <1>1, <1>2, <1>3, <2>1, <2>2, <2>3, <2>4 DEF First, DriverSteps, CallbackIsCalled,
         BitsAreTrue, Crashes, Handled, Is
    <2>7. Serves'
      BY <1>1, <1>2, <1>3, <2>1, <2>2, <2>3, <2>4 DEF Serves, Recovers, At, CallbackIsCalled,
         BitsAreTrue, Crashes
    <2> QED
      BY <1>1, <2>5, <2>6, <2>7 DEF Course
  <1>15. CASE EarlyCrashInd
    <2>1. worker.at = "EARLY_CRASH"
      BY <1>15 DEF EarlyCrashInd, At
    <2>2. worker'.at = "idle" /\ UNCHANGED <<callback, ops>>
      BY <1>0, <1>15 DEF EarlyCrashInd, FwCrashed, At, Go, Finish, Resting, TypeOK, Is
    <2>3. \/ /\ ~Is("EXISTS") /\ Is("PD_RESTART")' = Is("PD_RESTART")
             /\ Is("early_crash_ind")' = Is("early_crash_ind")
          \/ Is("EXISTS") /\ Is("PD_RESTART")'
      BY <1>0, <1>15 DEF EarlyCrashInd, FwCrashed, At, Go, Finish, Resting, TypeOK, Is
    <2>4. \A b \in {"PROBED", "POWER_ON"} : Is(b)' = Is(b)
      BY <1>0, <1>15 DEF EarlyCrashInd, FwCrashed, Is
    <2>5. Recovers'
      BY <1>1, <1>2, <1>3, <2>1, <2>2, <2>3, <2>4 DEF Recovers, Told, Underway, At, Crashes, Up
    <2>6. First'
      BY <1>1, <1>2, <1>3, <2>1, <2>2, <2>3, <2>4 DEF First, DriverSteps, CallbackIsCalled,
         BitsAreTrue, Crashes, Handled, Is
    <2>7. Serves'
      BY <1>1, <1>2, <1>3, <2>1, <2>2, <2>3, <2>4 DEF Serves, Recovers, At, CallbackIsCalled,
         BitsAreTrue, Crashes
    <2> QED
      BY <1>1, <2>5, <2>6, <2>7 DEF Course
  <1> QED
    BY <1>4, <1>5, <1>6, <1>7, <1>8, <1>9, <1>10, <1>11, <1>12, <1>13, <1>14, <1>15
       DEF HostDriverStep

-----------------------------------------------------------------------------
(***************************************************************************)
(* The steps of a boot                                                     *)
(***************************************************************************)

LEMMA CourseTells ==
    ASSUME IInv, TimelyInv, Course
    PROVE  /\ Alive /\ fw.stage # "ready" => Up
           /\ Sent \/ Listed \/ InHand => Served /\ fw.stage \in {"init", "ready"} /\ ~Handled
           /\ Served /\ ~Handled /\ Is("PROBED") => Is("PD_RESTART")
           /\ Up /\ Handled => wire = <<>>
           /\ Alive /\ ssr.at # "idle" => wire = <<>>
  <1> USE DEF Course
  <1>0. TypeOK /\ BitsAreTrue /\ CrashesFirst
    BY DEF IInv, TimelyInv
  <1>1. Alive /\ fw.stage # "ready" => Up
    BY DEF Ready, Up
  <1>2. Sent \/ Listed \/ InHand => Served /\ fw.stage \in {"init", "ready"} /\ ~Handled
    BY DEF Ready, Expecting, Served, Handled
  <1>3. Served /\ ~Handled /\ Is("PROBED") => Is("PD_RESTART")
    <2>1. CASE boot > 1
      BY <1>0, <2>1 DEF Recovers, Told, CrashesFirst, CrashesHandled, Crashes, Served
    <2>2. CASE boot <= 1
      BY <1>0, <2>2 DEF First, BitsAreTrue, Served, Up
    <2> QED
      BY <1>0, <2>1, <2>2 DEF TypeOK
  <1>4. One("FW_READY") => Sent
    BY <1>0, OnWireIs DEF Sent, ReadyEvents
  <1>5. Up /\ Handled => wire = <<>>
    BY <1>2, <1>4 DEF OnTheWire, Up, Handled
  <1>6. Alive /\ ssr.at # "idle" => wire = <<>>
    BY <1>2, <1>4 DEF OnTheWire, Ready, Served, Up
  <1> QED
    BY <1>1, <1>2, <1>3, <1>5, <1>6

LEMMA OnWirePrimed ==
    ASSUME TypeOK'
    PROVE  /\ wire' = <<>> => \A ind : ~OnWire(ind)'
           /\ \A a : One(a)' => \A ind : OnWire(ind)' <=> ind = a
  <1>1. wire' \in Seq(Messages)
    BY DEF TypeOK
  <1>2. ASSUME NEW a, One(a)'
        PROVE  \A ind : OnWire(ind)' <=> ind = a
    <2>1. DOMAIN wire' = 1..Len(wire')
      BY <1>1
    <2>2. Len(wire') = 1 /\ wire'[1].ind = a
      BY <1>2 DEF One
    <2>3. DOMAIN wire' = 1..1 /\ \A i \in 1..1 : i = 1
      BY <2>1, <2>2
    <2> QED
      BY <2>2, <2>3 DEF OnWire
  <1> QED
    BY <1>2 DEF OnWire

LEMMA WireHead ==
    ASSUME TypeOK, OnTheWire, wire # <<>>, wire' = Tail(wire)
    PROVE  /\ Head(wire) = wire[1] /\ 1 \in DOMAIN wire
           /\ Alive => \A i \in DOMAIN wire' : wire'[i].ind = "NEW" => wire'[i].of = boot
           /\ Head(wire).ind = "NEW" =>
                 /\ Alive /\ fw.stage = "announced" /\ One("NEW") /\ wire' = <<>>
                 /\ Head(wire).of = boot
           /\ Head(wire).ind = "DEL" =>
                 /\ Alive => fw.stage \in {"booting", "announced"}
                 /\ ~Alive \/ fw.stage = "booting" => wire' = <<>>
                 /\ Alive /\ fw.stage = "announced" => One("NEW")'
           /\ Head(wire).ind = "FW_READY" =>
                 Alive /\ fw.stage = "ready" /\ One("FW_READY") /\ wire' = <<>>
           /\ Head(wire).ind = "FW_INIT_DONE" =>
                 Alive /\ fw.stage = "init" /\ One("FW_INIT_DONE") /\ wire' = <<>>
           /\ Head(wire).ind = "CAL_DONE" =>
                 /\ Alive
                 /\ \/ fw.stage = "calibrated" /\ One("CAL_DONE") /\ wire' = <<>>
                    \/ /\ fw.stage = "init" /\ Two("CAL_DONE", "FW_INIT_DONE")
                       /\ One("FW_INIT_DONE")'
  <1>1. /\ Head(wire) = wire[1] /\ 1 \in DOMAIN wire
        /\ \A a : One(a) => Head(wire).ind = a /\ wire' = <<>>
        /\ \A a, b : Two(a, b) => Head(wire).ind = a /\ One(b)'
        /\ (\A i \in DOMAIN wire : wire[i].ind = "NEW" => wire[i].of = boot)
           => \A i \in DOMAIN wire' : wire'[i].ind = "NEW" => wire'[i].of = boot
    BY WireShrinks
  <1>2. Alive => fw.stage \in Stages
    BY DEF TypeOK, OnTheWire
  <1>3. CASE ~Alive \/ fw.stage = "booting"
    <2>1. One("DEL")
      BY <1>3 DEF OnTheWire
    <2> QED
      BY <1>1, <1>3, <2>1 DEF OnTheWire
  <1>4. CASE Alive /\ fw.stage = "announced"
    <2>1. One("NEW") \/ Two("DEL", "NEW")
      BY <1>4 DEF OnTheWire
    <2> QED
      BY <1>1, <1>4, <2>1 DEF OnTheWire
  <1>5. CASE Alive /\ fw.stage \in {"served", "calibrating"}
    BY <1>5 DEF OnTheWire
  <1>6. CASE Alive /\ fw.stage = "calibrated"
    <2>1. One("CAL_DONE")
      BY <1>6 DEF OnTheWire
    <2> QED
      BY <1>1, <1>6, <2>1 DEF OnTheWire
  <1>7. CASE Alive /\ fw.stage = "init"
    <2>1. One("FW_INIT_DONE") \/ Two("CAL_DONE", "FW_INIT_DONE")
      BY <1>7 DEF OnTheWire
    <2> QED
      BY <1>1, <1>7, <2>1 DEF OnTheWire
  <1>8. CASE Alive /\ fw.stage = "ready"
    <2>1. One("FW_READY")
      BY <1>8 DEF OnTheWire
    <2> QED
      BY <1>1, <1>8, <2>1 DEF OnTheWire
  <1> QED
    BY <1>2, <1>3, <1>4, <1>5, <1>6, <1>7, <1>8 DEF Stages

\* The firmware goes on.
LEMMA FirmwareCourse ==
    ASSUME IInv, TypeOK', faults' = 0, untimely' = 0, TimelyInv, Course, Firmware
    PROVE  Course'
  <1> USE DEF Course
  <1>0. TypeOK /\ ~Fault
    BY Counts DEF IInv
  <1>1. /\ Alive /\ fw.stage # "ready" => Up
        /\ Sent \/ Listed \/ InHand => Served /\ fw.stage \in {"init", "ready"} /\ ~Handled
        /\ Served /\ ~Handled /\ Is("PROBED") => Is("PD_RESTART")
        /\ Up /\ Handled => wire = <<>>
        /\ Alive /\ ssr.at # "idle" => wire = <<>>
    BY CourseTells
  <1>2. CASE FwStep("booting", "announced", "NEW")
    <2>1. /\ Alive /\ Up /\ fw.stage = "booting" /\ fw' = [fw EXCEPT !.stage = "announced"]
          /\ fw'.life = "up" /\ fw'.stage = "announced"
          /\ UNCHANGED <<boot, state, events, worker, ops, callback, ssr, pdr, device>>
          /\ wire' = Append(wire, [ind |-> "NEW", of |-> boot])
      BY <1>0, <1>1, <1>2 DEF FwStep, driverVars, threadVars, Alive, TypeOK
    <2>2. /\ Once' /\ \A type : Queued(type)' <=> Queued(type)
          /\ \A b : Is(b)' = Is(b)
      BY <2>1, QueueStays DEF Is
    <2>3. wire = <<>> \/ One("DEL")
      BY <2>1 DEF OnTheWire
    <2>4. /\ wire = <<>> => One("NEW")'
          /\ \A b : One(b) => Two(b, "NEW")'
          /\ \A ind : OnWire(ind)' <=> OnWire(ind) \/ ind = "NEW"
          /\ \A i \in DOMAIN wire' : wire'[i].ind = "NEW" => wire'[i].of = boot
      BY <1>0, <2>1, WireGrows DEF OnTheWire
    <2>5. ~(Up /\ Handled) /\ ~(Up' /\ Handled')
      BY <2>1, <2>2 DEF Arrives, Served, Handled, Up
    <2>6. OnTheWire'
      BY <1>1, <2>1, <2>2, <2>3, <2>4, <2>5 DEF OnTheWire, Alive
    <2>7. Exits'
      BY <1>1, <2>1, <2>2, <2>3, <2>4, <2>5 DEF Exits, Underway, At, Alive
    <2>8. Arrives'
      BY <1>1, <2>1, <2>2, <2>3, <2>4, <2>5 DEF Arrives, Underway, At, Served, Up, Alive,
         HandshakeSteps
    <2>9. Ready'
      BY <1>1, <2>1, <2>2, <2>3, <2>4, <2>5 DEF Ready, Expecting, Sent, Listed, InHand,
         Underway, At, Up, Alive, ReadyEvents
    <2>10. Recovers'
      BY <1>1, <2>1, <2>2, <2>3, <2>4, <2>5 DEF Recovers, Told, Underway, At, Up, Alive, Handled
    <2>11. First'
      BY <1>1, <2>1, <2>2, <2>3, <2>4, <2>5 DEF First, CrashesHandled, Underway, At, Up,
         Alive, Handled, Crashes, DriverSteps
    <2>12. Serves'
      BY <1>1, <2>1, <2>2, <2>3, <2>4, <2>5 DEF Serves, At, Up, Alive, Handled
    <2> QED
      BY <2>1, <2>2, <2>3, <2>4, <2>5, <2>6, <2>7, <2>8, <2>9, <2>10, <2>11, <2>12 DEF Course
  <1>3. CASE FwStep("served", "ready", "FW_READY")
    <2>1. /\ Alive /\ Up /\ fw.stage = "served" /\ fw' = [fw EXCEPT !.stage = "ready"]
          /\ fw'.life = "up" /\ fw'.stage = "ready"
          /\ UNCHANGED <<boot, state, events, worker, ops, callback, ssr, pdr, device>>
          /\ wire' = Append(wire, [ind |-> "FW_READY", of |-> boot])
      BY <1>0, <1>1, <1>3 DEF FwStep, driverVars, threadVars, Alive, TypeOK
    <2>2. /\ Once' /\ \A type : Queued(type)' <=> Queued(type)
          /\ \A b : Is(b)' = Is(b)
      BY <2>1, QueueStays DEF Is
    <2>3. wire = <<>>
      BY <2>1 DEF OnTheWire
    <2>4. /\ wire = <<>> => One("FW_READY")'
          /\ \A b : One(b) => Two(b, "FW_READY")'
          /\ \A ind : OnWire(ind)' <=> OnWire(ind) \/ ind = "FW_READY"
          /\ \A i \in DOMAIN wire' : wire'[i].ind = "NEW" => wire'[i].of = boot
      BY <1>0, <2>1, WireGrows DEF OnTheWire
    <2>5. ~Is("FW_READY") /\ ~(Up /\ Handled) /\ ~(Up' /\ Handled')
      BY <2>1, <2>2 DEF Arrives, Served, Handled, Up
    <2>6. OnTheWire'
      BY <1>1, <2>1, <2>2, <2>3, <2>4, <2>5 DEF OnTheWire, Alive
    <2>7. Exits'
      BY <1>1, <2>1, <2>2, <2>3, <2>4, <2>5 DEF Exits, Underway, At, Alive
    <2>8. Arrives'
      BY <1>1, <2>1, <2>2, <2>3, <2>4, <2>5 DEF Arrives, Underway, At, Served, Up, Alive,
         HandshakeSteps
    <2>9. Ready'
      BY <1>1, <2>1, <2>2, <2>3, <2>4, <2>5 DEF Ready, Expecting, Sent, Listed, InHand,
         Underway, At, Up, Alive, ReadyEvents
    <2>10. Recovers'
      BY <1>1, <2>1, <2>2, <2>3, <2>4, <2>5 DEF Recovers, Told, Underway, At, Up, Alive, Handled
    <2>11. First'
      BY <1>1, <2>1, <2>2, <2>3, <2>4, <2>5 DEF First, CrashesHandled, Underway, At, Up,
         Alive, Handled, Crashes, DriverSteps
    <2>12. Serves'
      BY <1>1, <2>1, <2>2, <2>3, <2>4, <2>5 DEF Serves, At, Up, Alive, Handled
    <2> QED
      BY <2>1, <2>2, <2>3, <2>4, <2>5, <2>6, <2>7, <2>8, <2>9, <2>10, <2>11, <2>12 DEF Course
  <1>4. CASE FwStep("served", "init", "FW_INIT_DONE")
    <2>1. /\ Alive /\ Up /\ fw.stage = "served" /\ fw' = [fw EXCEPT !.stage = "init"]
          /\ fw'.life = "up" /\ fw'.stage = "init"
          /\ UNCHANGED <<boot, state, events, worker, ops, callback, ssr, pdr, device>>
          /\ wire' = Append(wire, [ind |-> "FW_INIT_DONE", of |-> boot])
      BY <1>0, <1>1, <1>4 DEF FwStep, driverVars, threadVars, Alive, TypeOK
    <2>2. /\ Once' /\ \A type : Queued(type)' <=> Queued(type)
          /\ \A b : Is(b)' = Is(b)
      BY <2>1, QueueStays DEF Is
    <2>3. wire = <<>>
      BY <2>1 DEF OnTheWire
    <2>4. /\ wire = <<>> => One("FW_INIT_DONE")'
          /\ \A b : One(b) => Two(b, "FW_INIT_DONE")'
          /\ \A ind : OnWire(ind)' <=> OnWire(ind) \/ ind = "FW_INIT_DONE"
          /\ \A i \in DOMAIN wire' : wire'[i].ind = "NEW" => wire'[i].of = boot
      BY <1>0, <2>1, WireGrows DEF OnTheWire
    <2>5. ~Is("FW_READY") /\ ~(Up /\ Handled) /\ ~(Up' /\ Handled')
      BY <2>1, <2>2 DEF Arrives, Served, Handled, Up
    <2>6. OnTheWire'
      BY <1>1, <2>1, <2>2, <2>3, <2>4, <2>5 DEF OnTheWire, Alive
    <2>7. Exits'
      BY <1>1, <2>1, <2>2, <2>3, <2>4, <2>5 DEF Exits, Underway, At, Alive
    <2>8. Arrives'
      BY <1>1, <2>1, <2>2, <2>3, <2>4, <2>5 DEF Arrives, Underway, At, Served, Up, Alive,
         HandshakeSteps
    <2>9. Ready'
      BY <1>1, <2>1, <2>2, <2>3, <2>4, <2>5 DEF Ready, Expecting, Sent, Listed, InHand,
         Underway, At, Up, Alive, ReadyEvents
    <2>10. Recovers'
      BY <1>1, <2>1, <2>2, <2>3, <2>4, <2>5 DEF Recovers, Told, Underway, At, Up, Alive, Handled
    <2>11. First'
      BY <1>1, <2>1, <2>2, <2>3, <2>4, <2>5 DEF First, CrashesHandled, Underway, At, Up,
         Alive, Handled, Crashes, DriverSteps
    <2>12. Serves'
      BY <1>1, <2>1, <2>2, <2>3, <2>4, <2>5 DEF Serves, At, Up, Alive, Handled
    <2> QED
      BY <2>1, <2>2, <2>3, <2>4, <2>5, <2>6, <2>7, <2>8, <2>9, <2>10, <2>11, <2>12 DEF Course
  <1>5. CASE FwStep("calibrating", "calibrated", "CAL_DONE")
    <2>1. /\ Alive /\ Up /\ fw.stage = "calibrating" /\ fw' = [fw EXCEPT !.stage = "calibrated"]
          /\ fw'.life = "up" /\ fw'.stage = "calibrated"
          /\ UNCHANGED <<boot, state, events, worker, ops, callback, ssr, pdr, device>>
          /\ wire' = Append(wire, [ind |-> "CAL_DONE", of |-> boot])
      BY <1>0, <1>1, <1>5 DEF FwStep, driverVars, threadVars, Alive, TypeOK
    <2>2. /\ Once' /\ \A type : Queued(type)' <=> Queued(type)
          /\ \A b : Is(b)' = Is(b)
      BY <2>1, QueueStays DEF Is
    <2>3. wire = <<>>
      BY <2>1 DEF OnTheWire
    <2>4. /\ wire = <<>> => One("CAL_DONE")'
          /\ \A b : One(b) => Two(b, "CAL_DONE")'
          /\ \A ind : OnWire(ind)' <=> OnWire(ind) \/ ind = "CAL_DONE"
          /\ \A i \in DOMAIN wire' : wire'[i].ind = "NEW" => wire'[i].of = boot
      BY <1>0, <2>1, WireGrows DEF OnTheWire
    <2>5. ~(Up /\ Handled) /\ ~(Up' /\ Handled')
      BY <2>1, <2>2 DEF Arrives, Served, Handled, Up
    <2>6. OnTheWire'
      BY <1>1, <2>1, <2>2, <2>3, <2>4, <2>5 DEF OnTheWire, Alive
    <2>7. Exits'
      BY <1>1, <2>1, <2>2, <2>3, <2>4, <2>5 DEF Exits, Underway, At, Alive
    <2>8. Arrives'
      BY <1>1, <2>1, <2>2, <2>3, <2>4, <2>5 DEF Arrives, Underway, At, Served, Up, Alive,
         HandshakeSteps
    <2>9. Ready'
      BY <1>1, <2>1, <2>2, <2>3, <2>4, <2>5 DEF Ready, Expecting, Sent, Listed, InHand,
         Underway, At, Up, Alive, ReadyEvents
    <2>10. Recovers'
      BY <1>1, <2>1, <2>2, <2>3, <2>4, <2>5 DEF Recovers, Told, Underway, At, Up, Alive, Handled
    <2>11. First'
      BY <1>1, <2>1, <2>2, <2>3, <2>4, <2>5 DEF First, CrashesHandled, Underway, At, Up,
         Alive, Handled, Crashes, DriverSteps
    <2>12. Serves'
      BY <1>1, <2>1, <2>2, <2>3, <2>4, <2>5 DEF Serves, At, Up, Alive, Handled
    <2> QED
      BY <2>1, <2>2, <2>3, <2>4, <2>5, <2>6, <2>7, <2>8, <2>9, <2>10, <2>11, <2>12 DEF Course
  <1>6. CASE FwStep("calibrated", "init", "FW_INIT_DONE")
    <2>1. /\ Alive /\ Up /\ fw.stage = "calibrated" /\ fw' = [fw EXCEPT !.stage = "init"]
          /\ fw'.life = "up" /\ fw'.stage = "init"
          /\ UNCHANGED <<boot, state, events, worker, ops, callback, ssr, pdr, device>>
          /\ wire' = Append(wire, [ind |-> "FW_INIT_DONE", of |-> boot])
      BY <1>0, <1>1, <1>6 DEF FwStep, driverVars, threadVars, Alive, TypeOK
    <2>2. /\ Once' /\ \A type : Queued(type)' <=> Queued(type)
          /\ \A b : Is(b)' = Is(b)
      BY <2>1, QueueStays DEF Is
    <2>3. wire = <<>> \/ One("CAL_DONE")
      BY <2>1 DEF OnTheWire
    <2>4. /\ wire = <<>> => One("FW_INIT_DONE")'
          /\ \A b : One(b) => Two(b, "FW_INIT_DONE")'
          /\ \A ind : OnWire(ind)' <=> OnWire(ind) \/ ind = "FW_INIT_DONE"
          /\ \A i \in DOMAIN wire' : wire'[i].ind = "NEW" => wire'[i].of = boot
      BY <1>0, <2>1, WireGrows DEF OnTheWire
    <2>5. ~(Up /\ Handled) /\ ~(Up' /\ Handled')
      BY <2>1, <2>2 DEF Arrives, Served, Handled, Up
    <2>6. OnTheWire'
      BY <1>1, <2>1, <2>2, <2>3, <2>4, <2>5 DEF OnTheWire, Alive
    <2>7. Exits'
      BY <1>1, <2>1, <2>2, <2>3, <2>4, <2>5 DEF Exits, Underway, At, Alive
    <2>8. Arrives'
      BY <1>1, <2>1, <2>2, <2>3, <2>4, <2>5 DEF Arrives, Underway, At, Served, Up, Alive,
         HandshakeSteps
    <2>9. Ready'
      BY <1>1, <2>1, <2>2, <2>3, <2>4, <2>5 DEF Ready, Expecting, Sent, Listed, InHand,
         Underway, At, Up, Alive, ReadyEvents
    <2>10. Recovers'
      BY <1>1, <2>1, <2>2, <2>3, <2>4, <2>5 DEF Recovers, Told, Underway, At, Up, Alive, Handled
    <2>11. First'
      BY <1>1, <2>1, <2>2, <2>3, <2>4, <2>5 DEF First, CrashesHandled, Underway, At, Up,
         Alive, Handled, Crashes, DriverSteps
    <2>12. Serves'
      BY <1>1, <2>1, <2>2, <2>3, <2>4, <2>5 DEF Serves, At, Up, Alive, Handled
    <2> QED
      BY <2>1, <2>2, <2>3, <2>4, <2>5, <2>6, <2>7, <2>8, <2>9, <2>10, <2>11, <2>12 DEF Course
  <1> QED
    BY <1>2, <1>3, <1>4, <1>5, <1>6 DEF Firmware

\* The firmware fails, and boots again.
LEMMA FailureCourse ==
    ASSUME IInv, TypeOK', faults' = 0, untimely' = 0, TimelyInv, Course, Failures \/ Restart
    PROVE  Course'
  <1> USE DEF Course
  <1>0. TypeOK /\ ~Fault
    BY Counts DEF IInv
  <1>1. /\ Alive /\ fw.stage # "ready" => Up
        /\ Sent \/ Listed \/ InHand => Served /\ fw.stage \in {"init", "ready"} /\ ~Handled
        /\ Served /\ ~Handled /\ Is("PROBED") => Is("PD_RESTART")
        /\ Up /\ Handled => wire = <<>>
        /\ Alive /\ ssr.at # "idle" => wire = <<>>
    BY CourseTells
  <1>2. CASE \E first \in {"early_nb", "modem_nb", "boot"} :
                 \E crashed \in BOOLEAN :
                    Fail(first, crashed) /\ (first = "boot" => crashed /\ pdr' = "down")
    <2>1. /\ Up /\ Handled /\ ~Is("PD_RESTART") /\ Is("FW_READY")
          /\ ssr'.at \in {"early_nb", "modem_nb", "boot"}
          /\ ssr'.at = "boot" => fw'.life = "dead" /\ pdr' = "down"
          /\ UNCHANGED <<device, boot, state, events, worker, ops, callback>>
          /\ \/ Alive /\ fw' = fw /\ wire' = wire
             \/ /\ fw'.life = "dead" /\ fw'.stage = "ready"
                /\ wire' = Append(wire, [ind |-> "DEL", of |-> boot])
      <3>1. PICK first \in {"early_nb", "modem_nb", "boot"}, crashed \in BOOLEAN :
                Fail(first, crashed) /\ (first = "boot" => crashed /\ pdr' = "down")
        BY <1>2
      <3>2. InService
        BY <1>0, <3>1, Counts
      <3>3. Up /\ Handled /\ ~Is("PD_RESTART") /\ Is("FW_READY")
        BY <3>1, <3>2 DEF InService, Fail, Up, Handled
      <3>4. ssr'.at = first /\ UNCHANGED <<device, boot, state, events, worker, ops, callback>>
        BY <3>1 DEF Fail, driverVars
      <3>5. IF crashed THEN fw'.life = "dead" /\ fw'.stage = "ready" /\ wire' = FwGone
                       ELSE UNCHANGED <<fw, wire>>
        BY <1>0, <3>1, <3>3 DEF Fail, TypeOK, Handled
      <3>6. fw.stage = "ready"
        BY <3>3 DEF Handled
      <3> QED
        BY <3>1, <3>3, <3>4, <3>5, <3>6 DEF FwGone, Up
    <2>2. /\ Once' /\ \A type : Queued(type)' <=> Queued(type)
          /\ \A b : Is(b)' = Is(b)
      BY <2>1, QueueStays DEF Is
    <2>3. /\ wire = <<>> /\ \A ind : ~OnWire(ind)
          /\ \/ Alive' /\ fw' = fw /\ wire' = <<>> /\ \A ind : ~OnWire(ind)'
             \/ ~Alive' /\ fw'.stage = "ready" /\ One("DEL")' /\ \A ind : OnWire(ind)' <=> ind = "DEL"
      BY <1>0, <1>1, <2>1, WireGrows, OnWireIs, WireStays DEF Alive
    <2>4. /\ ~Up' /\ fw.stage = "ready" /\ Served /\ ~Is("DEL_SERVER") /\ Is("EXISTS")
          /\ ~Sent /\ ~Listed /\ ~InHand
          /\ worker.at \notin {"restart", "restarted", "notifications"}
      <3>1. worker.at \notin {"restart", "restarted"}
        BY <2>1 DEF IInv, VotesAreHeld, TimelyInv, OneVote, At
      <3>2. ~Up' /\ fw.stage = "ready" /\ Served /\ ~Sent /\ ~Listed /\ ~InHand
        BY <1>1, <2>1 DEF Up, Served, Handled
      <3> QED
        BY <2>1, <3>1, <3>2 DEF Arrives, Exits, Served, Up, At
    <2>5. OnTheWire'
      BY <1>1, <2>1, <2>2, <2>3, <2>4 DEF OnTheWire, Alive
    <2>6. Exits'
      BY <1>1, <2>1, <2>2, <2>3, <2>4 DEF Exits, Underway, At, Alive
    <2>7. Arrives'
      BY <1>1, <2>1, <2>2, <2>3, <2>4 DEF Arrives, Underway, At, Served, Up, Alive,
         HandshakeSteps
    <2>8. Ready'
      BY <1>1, <2>1, <2>2, <2>3, <2>4 DEF Ready, Expecting, Sent, Listed, InHand, Underway,
         At, Up, Alive, ReadyEvents
    <2>9. Recovers'
      BY <1>1, <2>1, <2>2, <2>3, <2>4 DEF Recovers, Told, Underway, At, Up, Alive, Handled
    <2>10. First'
      BY <1>1, <2>1, <2>2, <2>3, <2>4 DEF First, CrashesHandled, Underway, At, Up, Alive,
         Handled, Crashes, DriverSteps
    <2>11. Serves'
      BY <1>1, <2>1, <2>2, <2>3, <2>4 DEF Serves, At, Up, Alive, Handled
    <2> QED
      BY <2>1, <2>2, <2>3, <2>4, <2>5, <2>6, <2>7, <2>8, <2>9, <2>10, <2>11 DEF Course
  <1>3. CASE SubsystemOff
    <2>1. /\ ssr.at = "off" /\ ssr'.at = "boot" /\ fw'.life = "off"
          /\ pdr' = (IF device = "adrastea" THEN "down" ELSE pdr)
          /\ wire' = (IF Alive THEN FwGone ELSE wire)
          /\ UNCHANGED <<device, boot, state, events, worker, ops, callback>>
      BY <1>0, <1>3 DEF SubsystemOff, TypeOK, driverVars
    <2>2. /\ Once' /\ \A type : Queued(type)' <=> Queued(type)
          /\ \A b : Is(b)' = Is(b)
      BY <2>1, QueueStays DEF Is
    <2>3. /\ ~Up /\ ~Up' /\ ~Alive' /\ ~Sent /\ ~Listed /\ ~InHand
          /\ Alive => fw.stage = "ready" /\ ~Is("DEL_SERVER")
      BY <1>1, <2>1 DEF Up, Alive, Served, Ready, Exits
    <2>4. \/ ~Alive /\ wire' = wire /\ (wire = <<>> \/ One("DEL"))
          \/ Alive /\ wire = <<>> /\ wire' = Append(wire, [ind |-> "DEL", of |-> boot])
      BY <1>1, <2>1, <2>3 DEF OnTheWire, FwGone
    <2>5. /\ wire' = <<>> \/ One("DEL")'
          /\ \A ind : OnWire(ind)' => ind = "DEL"
          /\ ~Alive => (OnWire("DEL")' <=> OnWire("DEL"))
      BY <1>0, <2>4, WireGrows, OnWireIs, WireStays
    <2>6. OnTheWire'
      BY <1>1, <2>1, <2>2, <2>3, <2>4, <2>5 DEF OnTheWire, Alive
    <2>7. Exits'
      BY <1>1, <2>1, <2>2, <2>3, <2>4, <2>5 DEF Exits, Underway, At, Alive
    <2>8. Arrives'
      BY <1>1, <2>1, <2>2, <2>3, <2>4, <2>5 DEF Arrives, Underway, At, Served, Up, Alive,
         HandshakeSteps
    <2>9. Ready'
      BY <1>1, <2>1, <2>2, <2>3, <2>4, <2>5 DEF Ready, Expecting, Sent, Listed, InHand,
         Underway, At, Up, Alive, ReadyEvents
    <2>10. Recovers'
      BY <1>1, <2>1, <2>2, <2>3, <2>4, <2>5 DEF Recovers, Told, Underway, At, Up, Alive, Handled
    <2>11. First'
      BY <1>1, <2>1, <2>2, <2>3, <2>4, <2>5 DEF First, CrashesHandled, Underway, At, Up,
         Alive, Handled, Crashes, DriverSteps
    <2>12. Serves'
      BY <1>1, <2>1, <2>2, <2>3, <2>4, <2>5 DEF Serves, At, Up, Alive, Handled
    <2> QED
      BY <2>1, <2>2, <2>3, <2>4, <2>5, <2>6, <2>7, <2>8, <2>9, <2>10, <2>11, <2>12 DEF Course
  <1>4. CASE FwBoots
    <2>1. /\ boot = 0 \/ (ssr.at = "boot" /\ pdr # "down")
          /\ boot \in Nat /\ boot' = boot + 1
          /\ fw'.life = "up" /\ fw'.stage = "booting" /\ ssr'.at = "idle"
          /\ UNCHANGED <<wire, device, pdr, state, events, worker, ops, callback>>
      BY <1>0, <1>4 DEF FwBoots, TypeOK, driverVars
    <2>2. /\ Once' /\ (\A type : Queued(type)' <=> Queued(type))
          /\ (\A b : Is(b)' = Is(b))
          /\ \A ind : OnWire(ind)' <=> OnWire(ind)
      BY <2>1, QueueStays, WireStays DEF Is
    <2>3. /\ ~Alive /\ ~Up /\ ~Served /\ ~Sent /\ ~Listed /\ ~InHand
          /\ boot = 0 => ssr.at = "idle"
          /\ boot # 0 => ssr.at = "boot"
          /\ wire = <<>> \/ One("DEL")
      BY <1>1, <2>1 DEF Up, Served, Alive, TimelyInv, Restarts, OnTheWire
    <2>4. /\ wire' = <<>> \/ One("DEL")'
          /\ ~Underway("SERVER_ARRIVE") /\ worker.at \notin HandshakeSteps \cup {"notifications"}
          /\ \A ind : OnWire(ind)' => ind = "DEL"
      BY <1>0, <2>1, <2>2, <2>3, WireStays, OnWireIs DEF Arrives, At
    <2>5. OnTheWire'
      BY <1>1, <2>1, <2>2, <2>3, <2>4 DEF OnTheWire, Alive, OnWire
    <2>6. Exits'
      BY <1>1, <2>1, <2>2, <2>3, <2>4 DEF Exits, Underway, At, Alive
    <2>7. Arrives'
      BY <1>1, <2>1, <2>2, <2>3, <2>4 DEF Arrives, Underway, At, Served, Up, Alive,
         HandshakeSteps, Queued
    <2>8. Ready'
      BY <1>1, <2>1, <2>2, <2>3, <2>4 DEF Ready, Expecting, Sent, Listed, InHand, Underway,
         At, Up, Alive, ReadyEvents
    <2>9. Recovers'
      BY <1>1, <2>1, <2>2, <2>3, <2>4 DEF Recovers, Told, Underway, At, Up, Alive, Handled
    <2>10. First'
      BY <1>1, <2>1, <2>2, <2>3, <2>4 DEF First, CrashesHandled, Underway, At, Up, Alive,
         Handled, Crashes, DriverSteps
    <2>11. Serves'
      BY <1>1, <2>1, <2>2, <2>3, <2>4 DEF Serves, At, Up, Alive, Handled
    <2> QED
      BY <2>1, <2>2, <2>3, <2>4, <2>5, <2>6, <2>7, <2>8, <2>9, <2>10, <2>11 DEF Course
  <1> QED
    BY <1>2, <1>3, <1>4 DEF Failures, WpssFails, ModemFails, PdCrashes, Restart

\* The QMI thread takes a message.
LEMMA QmiCourse ==
    ASSUME IInv, TypeOK', faults' = 0, untimely' = 0, TimelyInv, Course, QmiThread
    PROVE  Course'
  <1> USE DEF Course
  <1>0. TypeOK /\ ~Fault
    BY Counts DEF IInv
  <1>1. /\ Alive /\ fw.stage # "ready" => Up
        /\ Sent \/ Listed \/ InHand => Served /\ fw.stage \in {"init", "ready"} /\ ~Handled
        /\ Served /\ ~Handled /\ Is("PROBED") => Is("PD_RESTART")
        /\ Up /\ Handled => wire = <<>>
        /\ Alive /\ ssr.at # "idle" => wire = <<>>
    BY CourseTells
  <1>2. CASE NewServer
    <2>1. /\ wire # <<>> /\ Head(wire).ind = "NEW" /\ wire' = Tail(wire)
          /\ UNCHANGED <<device, boot, fw, worker, ops, callback, ssr, pdr>>
          /\ UNCHANGED state
      BY <1>2 DEF NewServer, driverVars, threadVars, Receive
    <2>2. /\ Head(wire) = wire[1] /\ 1 \in DOMAIN wire
          /\ Alive => \A i \in DOMAIN wire' : wire'[i].ind = "NEW" => wire'[i].of = boot
      BY <1>0, <2>1, WireHead
    <2>3. /\ Alive /\ Up /\ fw.stage = "announced" /\ One("NEW") /\ wire' = <<>>
          /\ wire[1].of = boot
      BY <1>0, <1>1, <2>1, <2>2, WireHead
    <2>4. /\ ~Sent /\ ~Listed /\ ~InHand /\ ~Served /\ ~Handled /\ ~Underway("SERVER_ARRIVE")
          /\ worker.at \notin HandshakeSteps \cup {"notifications"}
          /\ (\A ind : ~OnWire(ind)') /\ ~OnWire("DEL")
      BY <1>0, <1>1, <2>1, <2>3, OnWireIs DEF Arrives, Served, Handled, OnWire, One, At
    <2>5. /\ Once'
          /\ \A type : Queued(type)' <=> Queued(type) \/ (~Is("DEL_SERVER") /\ type = "SERVER_ARRIVE")
          /\ \A i \in DOMAIN events' : events'[i].ev = "SERVER_ARRIVE" => events'[i].of = boot
      <3>1. CASE Is("DEL_SERVER")
        <4>1. UNCHANGED events
          BY <1>2, <3>1 DEF NewServer
        <4> QED
          BY <3>1, <4>1, QueueStays DEF Arrives
      <3>2. CASE ~Is("DEL_SERVER")
        <4>1. boot \in Nat
          BY <1>0 DEF TypeOK
        <4>2. PICK e \in Events : e.ev = "SERVER_ARRIVE" /\ e.of = boot /\ events' = Append(events, e)
          BY <1>0, <1>2, <2>2, <2>3, <3>2, <4>1 DEF NewServer, Post, Event, Events, EventTypes
        <4>3. /\ Once' /\ \A type : Queued(type)' <=> Queued(type) \/ type = "SERVER_ARRIVE"
          BY <1>0, <2>4, <4>2, QueueGrows DEF Underway, ReadyEvents
        <4>4. \A i \in DOMAIN events' : events'[i].ev = "SERVER_ARRIVE" => events'[i].of = boot
          BY <1>0, <4>2, Appended DEF Arrives
        <4> QED
          BY <3>2, <4>3, <4>4
      <3> QED
        BY <3>1, <3>2
    <2>6. \A b : Is(b)' = Is(b)
      BY <2>1 DEF Is
    <2>7. OnTheWire'
      BY <1>1, <2>1, <2>2, <2>3, <2>4, <2>5, <2>6 DEF OnTheWire, Alive
    <2>8. Exits'
      BY <1>1, <2>1, <2>2, <2>3, <2>4, <2>5, <2>6 DEF Exits, Underway, At, Alive
    <2>9. Arrives'
      BY <1>1, <2>1, <2>2, <2>3, <2>4, <2>5, <2>6 DEF Arrives, Underway, At, Served, Up,
         Alive, HandshakeSteps
    <2>10. Ready'
      BY <1>1, <2>1, <2>2, <2>3, <2>4, <2>5, <2>6 DEF Ready, Expecting, Sent, Listed, InHand,
         Underway, At, Up, Alive, ReadyEvents
    <2>11. Recovers'
      BY <1>1, <2>1, <2>2, <2>3, <2>4, <2>5, <2>6 DEF Recovers, Told, Underway, At, Up, Alive,
         Handled
    <2>12. First'
      BY <1>1, <2>1, <2>2, <2>3, <2>4, <2>5, <2>6 DEF First, CrashesHandled, Underway, At, Up,
         Alive, Handled, Crashes, DriverSteps
    <2>13. Serves'
      BY <1>1, <2>1, <2>2, <2>3, <2>4, <2>5, <2>6 DEF Serves, At, Up, Alive, Handled
    <2> QED
      BY <2>1, <2>2, <2>3, <2>4, <2>5, <2>6, <2>7, <2>8, <2>9, <2>10, <2>11, <2>12, <2>13
         DEF Course
  <1>3. CASE DelServer
    <2>1. /\ wire # <<>> /\ Head(wire).ind = "DEL" /\ wire' = Tail(wire)
          /\ UNCHANGED <<device, boot, fw, worker, ops, callback, ssr, pdr>>
          /\ state' = (IF Is("DEL_SERVER") THEN state ELSE state \cup {"DEL_SERVER", "FW_DOWN"})
      BY <1>3 DEF DelServer, driverVars, threadVars, Receive
    <2>2. /\ Head(wire) = wire[1] /\ 1 \in DOMAIN wire
          /\ Alive => \A i \in DOMAIN wire' : wire'[i].ind = "NEW" => wire'[i].of = boot
      BY <1>0, <2>1, WireHead
    <2>3. OnWire("DEL") /\ ~Is("DEL_SERVER") /\ ~Underway("SERVER_EXIT")
      BY <2>1, <2>2 DEF OnWire, Exits
    <2>4. /\ Alive => fw.stage \in {"booting", "announced"}
          /\ ~Alive \/ fw.stage = "booting" => wire' = <<>>
          /\ Alive /\ fw.stage = "announced" => One("NEW")'
      BY <1>0, <2>1, WireHead
    <2>5. /\ ~Sent /\ ~Listed /\ ~InHand /\ ~Served /\ ~(Up /\ Handled)
          /\ ~Underway("SERVER_ARRIVE")
          /\ worker.at \notin HandshakeSteps \cup {"notifications"}
      <3>1. ~Served /\ ~(Up /\ Handled)
        BY <2>4 DEF Served, Up, Handled
      <3> QED
        BY <1>1, <2>1, <3>1 DEF Arrives, At
    <2>6. /\ Once' /\ \A type : Queued(type)' <=> Queued(type) \/ type = "SERVER_EXIT"
      <3>1. PICK e \in Events : e.ev = "SERVER_EXIT" /\ events' = Append(events, e)
        BY <1>0, <1>3, <2>3 DEF DelServer, Post, Event, Events, EventTypes
      <3> QED
        BY <1>0, <2>3, <3>1, QueueGrows DEF Underway, ReadyEvents
    <2>7. /\ Is("DEL_SERVER")'
          /\ \A b : b \notin {"DEL_SERVER", "FW_DOWN"} => Is(b)' = Is(b)
      BY <2>1, <2>3 DEF Is
    <2>8. /\ (\A ind : OnWire(ind)' => ind = "NEW")
          /\ (Alive /\ fw.stage = "announced" => OnWire("NEW")')
          /\ wire' = <<>> \/ One("NEW")'
      <3>1. wire' = <<>> \/ One("NEW")'
        BY <1>0, <2>4 DEF TypeOK, Alive
      <3>2. /\ wire' = <<>> => \A ind : ~OnWire(ind)'
            /\ One("NEW")' => \A ind : OnWire(ind)' <=> ind = "NEW"
        BY <1>0, OnWirePrimed
      <3> QED
        BY <2>4, <3>1, <3>2
    <2>9. \A i \in DOMAIN events' : events'[i].ev = "SERVER_ARRIVE" => events'[i].of = boot
      BY <2>5, <2>6 DEF Queued, Underway
    <2>10. OnTheWire'
      BY <1>1, <2>1, <2>2, <2>3, <2>4, <2>5, <2>6, <2>7, <2>8, <2>9 DEF OnTheWire, Alive
    <2>11. Exits'
      BY <1>1, <2>1, <2>2, <2>3, <2>4, <2>5, <2>6, <2>7, <2>8, <2>9 DEF Exits, Underway, At,
         Alive
    <2>12. Arrives'
      BY <1>1, <2>1, <2>2, <2>3, <2>4, <2>5, <2>6, <2>7, <2>8, <2>9 DEF Arrives, Underway, At,
         Served, Up, Alive, HandshakeSteps
    <2>13. Ready'
      BY <1>1, <2>1, <2>2, <2>3, <2>4, <2>5, <2>6, <2>7, <2>8, <2>9 DEF Ready, Expecting,
         Sent, Listed, InHand, Underway, At, Up, Alive, ReadyEvents
    <2>14. Recovers'
      BY <1>1, <2>1, <2>2, <2>3, <2>4, <2>5, <2>6, <2>7, <2>8, <2>9 DEF Recovers, Told,
         Underway, At, Up, Alive, Handled
    <2>15. First'
      BY <1>1, <2>1, <2>2, <2>3, <2>4, <2>5, <2>6, <2>7, <2>8, <2>9 DEF First, CrashesHandled,
         Underway, At, Up, Alive, Handled, Crashes, DriverSteps
    <2>16. Serves'
      BY <1>1, <2>1, <2>2, <2>3, <2>4, <2>5, <2>6, <2>7, <2>8, <2>9 DEF Serves, At, Up, Alive,
         Handled
    <2> QED
      BY <2>1, <2>2, <2>3, <2>4, <2>5, <2>6, <2>7, <2>8, <2>9, <2>10, <2>11, <2>12, <2>13,
         <2>14, <2>15, <2>16 DEF Course
  <1>4. CASE FwReadyInd
    <2>1. /\ wire # <<>> /\ Head(wire).ind = "FW_READY" /\ wire' = Tail(wire)
          /\ UNCHANGED <<device, boot, fw, worker, ops, callback, ssr, pdr>>
          /\ UNCHANGED state
      BY <1>4 DEF FwReadyInd, driverVars, threadVars, Receive
    <2>2. /\ Head(wire) = wire[1] /\ 1 \in DOMAIN wire
          /\ Alive => \A i \in DOMAIN wire' : wire'[i].ind = "NEW" => wire'[i].of = boot
      BY <1>0, <2>1, WireHead
    <2>3. /\ Alive /\ Up /\ Served /\ fw.stage = "ready" /\ One("FW_READY") /\ wire' = <<>>
          /\ Sent /\ ~Listed /\ ~InHand /\ Expecting /\ ~Handled
      <3>1. OnWire("FW_READY") /\ Sent
        BY <2>1, <2>2 DEF OnWire, Sent, ReadyEvents
      <3>2. Up /\ Alive /\ Served /\ ~Listed /\ ~InHand /\ Expecting /\ ~Handled
        BY <1>1, <3>1 DEF Ready, Served, Up
      <3> QED
        BY <1>0, <2>1, <3>1, <3>2, WireHead
    <2>4. /\ Once' /\ \A type : Queued(type)' <=> Queued(type) \/ type = "FW_READY"
      <3>1. PICK e \in Events : e.ev = "FW_READY" /\ events' = Append(events, e)
        BY <1>0, <1>4 DEF FwReadyInd, Post, Event, Events, EventTypes
      <3> QED
        BY <1>0, <2>3, <3>1, QueueGrows DEF Listed, ReadyEvents
    <2>5. /\ (\A b : Is(b)' = Is(b)) /\ (\A ind : ~OnWire(ind)')
          /\ \A ind : OnWire(ind) <=> ind = "FW_READY"
      <3>1. \A ind : ~OnWire(ind)'
        BY <2>3 DEF OnWire
      <3> QED
        BY <1>0, <2>1, <2>3, <3>1, OnWireIs DEF Is
    <2>6. /\ ~Underway("SERVER_ARRIVE") /\ worker.at \notin HandshakeSteps
          /\ \A i \in DOMAIN events' : events'[i].ev = "SERVER_ARRIVE" => events'[i].of = boot
      BY <2>1, <2>3, <2>4 DEF Arrives, Queued, Underway
    <2>7. OnTheWire'
      BY <1>1, <2>1, <2>2, <2>3, <2>4, <2>5, <2>6 DEF OnTheWire, Alive
    <2>8. Exits'
      BY <1>1, <2>1, <2>2, <2>3, <2>4, <2>5, <2>6 DEF Exits, Underway, At, Alive
    <2>9. Arrives'
      BY <1>1, <2>1, <2>2, <2>3, <2>4, <2>5, <2>6 DEF Arrives, Underway, At, Served, Up,
         Alive, HandshakeSteps
    <2>10. Ready'
      BY <1>1, <2>1, <2>2, <2>3, <2>4, <2>5, <2>6 DEF Ready, Expecting, Sent, Listed, InHand,
         Underway, At, Up, Alive, ReadyEvents
    <2>11. Recovers'
      BY <1>1, <2>1, <2>2, <2>3, <2>4, <2>5, <2>6 DEF Recovers, Told, Underway, At, Up, Alive,
         Handled
    <2>12. First'
      BY <1>1, <2>1, <2>2, <2>3, <2>4, <2>5, <2>6 DEF First, CrashesHandled, Underway, At, Up,
         Alive, Handled, Crashes, DriverSteps
    <2>13. Serves'
      BY <1>1, <2>1, <2>2, <2>3, <2>4, <2>5, <2>6 DEF Serves, At, Up, Alive, Handled
    <2> QED
      BY <2>1, <2>2, <2>3, <2>4, <2>5, <2>6, <2>7, <2>8, <2>9, <2>10, <2>11, <2>12, <2>13
         DEF Course
  <1>5. CASE FwInitDoneInd
    <2>1. /\ wire # <<>> /\ Head(wire).ind = "FW_INIT_DONE" /\ wire' = Tail(wire)
          /\ UNCHANGED <<device, boot, fw, worker, ops, callback, ssr, pdr>>
          /\ UNCHANGED state
      BY <1>5 DEF FwInitDoneInd, driverVars, threadVars, Receive
    <2>2. /\ Head(wire) = wire[1] /\ 1 \in DOMAIN wire
          /\ Alive => \A i \in DOMAIN wire' : wire'[i].ind = "NEW" => wire'[i].of = boot
      BY <1>0, <2>1, WireHead
    <2>3. /\ Alive /\ Up /\ Served /\ fw.stage = "init" /\ One("FW_INIT_DONE") /\ wire' = <<>>
          /\ Sent /\ ~Listed /\ ~InHand /\ Expecting /\ ~Handled
      <3>1. OnWire("FW_INIT_DONE") /\ Sent
        BY <2>1, <2>2 DEF OnWire, Sent, ReadyEvents
      <3>2. Up /\ Alive /\ Served /\ ~Listed /\ ~InHand /\ Expecting /\ ~Handled
        BY <1>1, <3>1 DEF Ready, Served, Up
      <3> QED
        BY <1>0, <2>1, <3>1, <3>2, WireHead
    <2>4. /\ Once' /\ \A type : Queued(type)' <=> Queued(type) \/ type = "FW_INIT_DONE"
      <3>1. PICK e \in Events : e.ev = "FW_INIT_DONE" /\ events' = Append(events, e)
        BY <1>0, <1>5 DEF FwInitDoneInd, Post, Event, Events, EventTypes
      <3> QED
        BY <1>0, <2>3, <3>1, QueueGrows DEF Listed, ReadyEvents
    <2>5. /\ (\A b : Is(b)' = Is(b)) /\ (\A ind : ~OnWire(ind)')
          /\ \A ind : OnWire(ind) <=> ind = "FW_INIT_DONE"
      <3>1. \A ind : ~OnWire(ind)'
        BY <2>3 DEF OnWire
      <3> QED
        BY <1>0, <2>1, <2>3, <3>1, OnWireIs DEF Is
    <2>6. /\ ~Underway("SERVER_ARRIVE") /\ worker.at \notin HandshakeSteps
          /\ \A i \in DOMAIN events' : events'[i].ev = "SERVER_ARRIVE" => events'[i].of = boot
      BY <2>1, <2>3, <2>4 DEF Arrives, Queued, Underway
    <2>7. OnTheWire'
      BY <1>1, <2>1, <2>2, <2>3, <2>4, <2>5, <2>6 DEF OnTheWire, Alive
    <2>8. Exits'
      BY <1>1, <2>1, <2>2, <2>3, <2>4, <2>5, <2>6 DEF Exits, Underway, At, Alive
    <2>9. Arrives'
      BY <1>1, <2>1, <2>2, <2>3, <2>4, <2>5, <2>6 DEF Arrives, Underway, At, Served, Up,
         Alive, HandshakeSteps
    <2>10. Ready'
      BY <1>1, <2>1, <2>2, <2>3, <2>4, <2>5, <2>6 DEF Ready, Expecting, Sent, Listed, InHand,
         Underway, At, Up, Alive, ReadyEvents
    <2>11. Recovers'
      BY <1>1, <2>1, <2>2, <2>3, <2>4, <2>5, <2>6 DEF Recovers, Told, Underway, At, Up, Alive,
         Handled
    <2>12. First'
      BY <1>1, <2>1, <2>2, <2>3, <2>4, <2>5, <2>6 DEF First, CrashesHandled, Underway, At, Up,
         Alive, Handled, Crashes, DriverSteps
    <2>13. Serves'
      BY <1>1, <2>1, <2>2, <2>3, <2>4, <2>5, <2>6 DEF Serves, At, Up, Alive, Handled
    <2> QED
      BY <2>1, <2>2, <2>3, <2>4, <2>5, <2>6, <2>7, <2>8, <2>9, <2>10, <2>11, <2>12, <2>13
         DEF Course
  <1>6. CASE CalDoneInd
    <2>1. /\ wire # <<>> /\ Head(wire).ind = "CAL_DONE" /\ wire' = Tail(wire)
          /\ UNCHANGED <<device, boot, fw, worker, ops, callback, ssr, pdr>>
          /\ UNCHANGED events /\ state' = state \ {"COLD_BOOT_CAL"}
      BY <1>6 DEF CalDoneInd, driverVars, threadVars, Receive
    <2>2. /\ Head(wire) = wire[1] /\ 1 \in DOMAIN wire
          /\ Alive => \A i \in DOMAIN wire' : wire'[i].ind = "NEW" => wire'[i].of = boot
      BY <1>0, <2>1, WireHead
    <2>3. /\ Alive /\ Up /\ Served /\ ~Handled
          /\ \/ fw.stage = "calibrated" /\ One("CAL_DONE") /\ wire' = <<>>
             \/ fw.stage = "init" /\ Two("CAL_DONE", "FW_INIT_DONE") /\ One("FW_INIT_DONE")'
      <3>1. /\ Alive
            /\ \/ fw.stage = "calibrated" /\ One("CAL_DONE") /\ wire' = <<>>
               \/ /\ fw.stage = "init" /\ Two("CAL_DONE", "FW_INIT_DONE")
                  /\ One("FW_INIT_DONE")'
        BY <1>0, <2>1, WireHead
      <3> QED
        BY <1>1, <3>1 DEF Served, Handled
    <2>4. /\ Once' /\ (\A type : Queued(type)' <=> Queued(type))
          /\ \A b : b # "COLD_BOOT_CAL" => Is(b)' = Is(b)
      BY <2>1, QueueStays DEF Is
    <2>5. \A ind : ind # "CAL_DONE" => (OnWire(ind)' <=> OnWire(ind))
      <3>1. /\ wire' = <<>> => \A ind : ~OnWire(ind)'
            /\ One("FW_INIT_DONE")' => \A ind : OnWire(ind)' <=> ind = "FW_INIT_DONE"
        BY OnWirePrimed
      <3>2. /\ One("CAL_DONE") => \A ind : OnWire(ind) <=> ind = "CAL_DONE"
            /\ Two("CAL_DONE", "FW_INIT_DONE") =>
                  \A ind : OnWire(ind) <=> ind \in {"CAL_DONE", "FW_INIT_DONE"}
        BY <1>0, OnWireIs
      <3> QED
        BY <2>3, <3>1, <3>2
    <2>6. wire # <<>>
      BY <2>1
    <2>7. OnTheWire'
      BY <1>1, <2>1, <2>2, <2>3, <2>4, <2>5, <2>6 DEF OnTheWire, Alive
    <2>8. Exits'
      BY <1>1, <2>1, <2>2, <2>3, <2>4, <2>5, <2>6 DEF Exits, Underway, At, Alive
    <2>9. Arrives'
      BY <1>1, <2>1, <2>2, <2>3, <2>4, <2>5, <2>6 DEF Arrives, Underway, At, Served, Up,
         Alive, HandshakeSteps
    <2>10. Ready'
      BY <1>1, <2>1, <2>2, <2>3, <2>4, <2>5, <2>6 DEF Ready, Expecting, Sent, Listed, InHand,
         Underway, At, Up, Alive, ReadyEvents
    <2>11. Recovers'
      BY <1>1, <2>1, <2>2, <2>3, <2>4, <2>5, <2>6 DEF Recovers, Told, Underway, At, Up, Alive,
         Handled
    <2>12. First'
      BY <1>1, <2>1, <2>2, <2>3, <2>4, <2>5, <2>6 DEF First, CrashesHandled, Underway, At, Up,
         Alive, Handled, Crashes, DriverSteps
    <2>13. Serves'
      BY <1>1, <2>1, <2>2, <2>3, <2>4, <2>5, <2>6 DEF Serves, At, Up, Alive, Handled
    <2> QED
      BY <2>1, <2>2, <2>3, <2>4, <2>5, <2>6, <2>7, <2>8, <2>9, <2>10, <2>11, <2>12, <2>13
         DEF Course
  <1> QED
    BY <1>2, <1>3, <1>4, <1>5, <1>6 DEF QmiThread

\* The worker handles what the firmware gave rise to.
LEMMA ArrivalCourse ==
    ASSUME IInv, TypeOK', faults' = 0, untimely' = 0, TimelyInv, Course,
           TakeEvent \/ ServerArrive \/ Handshake \/ ServerExit \/ FwInitDone \/ FwReady
    PROVE  Course'
  <1> USE DEF Course
  <1>0. TypeOK /\ ~Fault
    BY Counts DEF IInv
  <1>1. /\ Alive /\ fw.stage # "ready" => Up
        /\ Sent \/ Listed \/ InHand => Served /\ fw.stage \in {"init", "ready"} /\ ~Handled
        /\ Served /\ ~Handled /\ Is("PROBED") => Is("PD_RESTART")
        /\ Up /\ Handled => wire = <<>>
        /\ Alive /\ ssr.at # "idle" => wire = <<>>
    BY CourseTells
  <1>2. CASE TakeEvent
    <2>1. /\ worker.at = "idle" /\ worker'.at = Head(events).ev /\ worker'.ev = Head(events)
          /\ events # <<>> /\ events' = Tail(events) /\ Head(events) \in Events
          /\ UNCHANGED <<device, fw, boot, wire, state, ops, callback, ssr, pdr>>
      BY <1>0, <1>2 DEF TakeEvent, TypeOK, Resting, fwVars, driverVars, threadVars
    <2>2. /\ Queued(Head(events).ev) /\ Once'
          /\ (\A type : type # Head(events).ev => (Queued(type)' <=> Queued(type)))
          /\ (\A type : type = Head(events).ev /\ type \in FwEvents => ~Queued(type)')
          /\ Head(events).ev \in ReadyEvents => \A type \in ReadyEvents : ~Queued(type)'
      BY <1>0, <2>1, QueueShrinks
    <2>3. /\ 1 \in DOMAIN events /\ Head(events) = events[1]
          /\ \A i \in DOMAIN events' :
                i \in Nat \ {0} /\ i + 1 \in DOMAIN events /\ events'[i] = events[i + 1]
      BY <1>0, <2>1, Taken
    <2>4. /\ worker'.at \in EventTypes /\ Alive' = Alive /\ Up' = Up /\ Served' = Served
          /\ Handled' = Handled /\ \A b : Is(b)' = Is(b)
      BY <2>1 DEF Events, Alive, Up, Served, Handled, Is
    <2>5. /\ \A type \in EventTypes : ~At(type)
          /\ \A at : At(at)' <=> at = Head(events).ev
          /\ \A type \in EventTypes \ Crashes : Underway(type)' <=> Underway(type)
          /\ \A type \in Crashes : Underway(type)' <=> Underway(type)
      <3>1. (\A type \in EventTypes : ~At(type)) /\ \A at : At(at)' <=> at = Head(events).ev
        BY <2>1 DEF At, EventTypes
      <3>2. \A type \in EventTypes : Underway(type)' <=> Underway(type)
        <4>1. ASSUME NEW type \in EventTypes, type = Head(events).ev
              PROVE  Underway(type)' <=> Underway(type)
          BY <2>2, <3>1, <4>1 DEF Underway
        <4>2. ASSUME NEW type \in EventTypes, type # Head(events).ev
              PROVE  Underway(type)' <=> Underway(type)
          BY <2>2, <3>1, <4>2 DEF Underway
        <4> QED
          BY <4>1, <4>2
      <3> QED
        BY <3>1, <3>2 DEF EventTypes, Crashes
    <2>6. /\ CrashesHandled' <=> CrashesHandled
          /\ \A ind : OnWire(ind)' <=> OnWire(ind)
          /\ \A a : One(a)' <=> One(a)
          /\ \A a, b : Two(a, b)' <=> Two(a, b)
          /\ Told' <=> Told
      BY <2>1, <2>4, <2>5, WireStays DEF CrashesHandled, Crashes, Told, EventTypes
    <2>7. /\ \A i \in DOMAIN events' : events'[i].ev = "SERVER_ARRIVE" => events'[i].of = boot
          /\ worker'.at = "SERVER_ARRIVE" => worker'.ev.of = boot /\ ~Queued("SERVER_ARRIVE")'
          /\ worker'.at \notin HandshakeSteps \cup {"notifications"} \cup DriverSteps
          /\ worker.at \notin HandshakeSteps \cup {"notifications"}
          /\ ~At("connect")' /\ ~At("notifications")' /\ ~At("connect") /\ ~At("notifications")
      BY <2>1, <2>2, <2>3, <2>4 DEF Arrives, FwEvents, EventTypes, HandshakeSteps,
         DriverSteps, At
    <2>8. worker'.at = "FW_READY" => (Is("PROBED") => Is("PD_RESTART"))
      BY <1>1, <2>1, <2>2 DEF Listed, ReadyEvents
    <2>9. OnTheWire'
      BY <2>1, <2>4, <2>6 DEF OnTheWire
    <2>10. Exits'
      BY <2>1, <2>2, <2>4, <2>5, <2>6 DEF Exits, EventTypes, Crashes, FwEvents
    <2>11. Arrives'
      <3>1. Underway("SERVER_ARRIVE")' <=> Underway("SERVER_ARRIVE")
        BY <2>5 DEF EventTypes, Crashes
      <3> QED
        BY <2>1, <2>4, <2>6, <2>7, <3>1 DEF Arrives
    <2>12. Ready'
      <3>1. /\ Sent' <=> Sent
            /\ Expecting' <=> Expecting
            /\ Underway("FW_INIT_DONE")' <=> Underway("FW_INIT_DONE")
        BY <2>1, <2>4, <2>5, <2>6 DEF Sent, Expecting, EventTypes, Crashes
      <3>2. Listed' \/ InHand' <=> Listed \/ InHand
        BY <2>2, <2>4, <2>5 DEF Listed, InHand, Underway, ReadyEvents, EventTypes
      <3>3. ~(Listed' /\ InHand')
        BY <2>2, <2>5 DEF Listed, InHand
      <3> QED
        BY <2>1, <2>4, <2>6, <3>1, <3>2, <3>3 DEF Ready
    <2>13. Recovers'
      BY <2>1, <2>4, <2>5, <2>6, <2>7 DEF Recovers, EventTypes, DriverSteps
    <2>14. First'
      BY <2>1, <2>4, <2>6, <2>7 DEF First
    <2>15. Serves'
      BY <2>1, <2>4, <2>8 DEF Serves, EventTypes, At
    <2> QED
      BY <2>1, <2>2, <2>3, <2>4, <2>5, <2>6, <2>7, <2>8, <2>9, <2>10, <2>11, <2>12, <2>13,
         <2>14, <2>15 DEF Course
  <1>3. CASE ServerArrive
    <2>1. /\ worker.at = "SERVER_ARRIVE" /\ worker'.at = "connect" /\ worker'.ev = worker.ev
          /\ UNCHANGED <<device, fw, boot, wire, events, ops, callback, ssr, pdr>>
      BY <1>0, <1>3 DEF ServerArrive, Go, At, TypeOK, workerRest, driverVars
    <2>2. /\ Once' /\ (\A type : Queued(type)' <=> Queued(type))
          /\ (\A ind : OnWire(ind)' <=> OnWire(ind))
      BY <2>1, QueueStays, WireStays
    <2>3. /\ Is("EXISTS")' /\ ~Is("FW_DOWN")' /\ ~Is("FW_READY")'
          /\ \A b : b \notin {"EXISTS", "FW_DOWN", "FW_READY"} => Is(b)' = Is(b)
      BY <1>3 DEF ServerArrive, Is
    <2>4. /\ Up /\ Alive /\ fw.stage = "announced" /\ wire = <<>> /\ ~Is("DEL_SERVER")
          /\ worker.ev.of = boot /\ ~Queued("SERVER_ARRIVE") /\ ~Sent /\ ~Listed /\ ~InHand
          /\ (\A ind : ~OnWire(ind))
      BY <1>0, <1>1, <2>1, OnWireIs DEF Arrives, Underway, At, Served, Up
    <2>5. OnTheWire'
      BY <1>1, <2>1, <2>2, <2>3, <2>4 DEF OnTheWire, Alive
    <2>6. Exits'
      BY <1>1, <2>1, <2>2, <2>3, <2>4 DEF Exits, Underway, At, Alive
    <2>7. Arrives'
      BY <1>1, <2>1, <2>2, <2>3, <2>4 DEF Arrives, Underway, At, Served, Up, Alive,
         HandshakeSteps
    <2>8. Ready'
      BY <1>1, <2>1, <2>2, <2>3, <2>4 DEF Ready, Expecting, Sent, Listed, InHand, Underway,
         At, Up, Alive, ReadyEvents
    <2>9. Recovers'
      BY <1>1, <2>1, <2>2, <2>3, <2>4 DEF Recovers, Told, Underway, At, Up, Alive, Handled
    <2>10. First'
      BY <1>1, <2>1, <2>2, <2>3, <2>4 DEF First, CrashesHandled, Underway, At, Up, Alive,
         Handled, Crashes, DriverSteps
    <2>11. Serves'
      BY <1>1, <2>1, <2>2, <2>3, <2>4 DEF Serves, At, Up, Alive, Handled
    <2> QED
      BY <2>1, <2>2, <2>3, <2>4, <2>5, <2>6, <2>7, <2>8, <2>9, <2>10, <2>11 DEF Course
  <1>4. CASE HandshakeGoesOn
    <2>1. /\ worker.at \in HandshakeSteps
          /\ worker'.at \in (HandshakeSteps \cup {"notifications"}) \ {"connect"}
          /\ worker'.ev = worker.ev /\ fw'.life = fw.life
          /\ fw'.stage = (IF worker'.at = "notifications" THEN "served" ELSE fw.stage)
      BY <1>0, <1>4 DEF HandshakeGoesOn, TypeOK, HandshakeSteps
    <2>2. UNCHANGED <<device, boot, wire, events, ops, callback, ssr, pdr>>
      BY <1>4 DEF HandshakeGoesOn, workerRest, driverVars
    <2>3. /\ Once' /\ (\A type : Queued(type)' <=> Queued(type))
          /\ (\A ind : OnWire(ind)' <=> OnWire(ind))
      BY <2>2, QueueStays, WireStays
    <2>4. /\ \A b \in Bits \ PowerBits : Is(b)' = Is(b)
          /\ (At("connect") \/ Is("CONNECTED") => Is("CONNECTED")')
          /\ (Is("POWER_ON") => Is("POWER_ON")')
      BY <1>4 DEF HandshakeGoesOn, Is
    <2>5. /\ \A b \in {"DEL_SERVER", "EXISTS", "FW_DOWN", "FW_READY", "PROBED", "PD_RESTART",
                          "early_crash_ind"} : Is(b)' = Is(b)
      BY <2>4 DEF Bits, PowerBits
    <2>6. /\ Up /\ Alive /\ fw.stage = "announced" /\ wire = <<>> /\ ~Is("DEL_SERVER")
          /\ Is("CONNECTED")'
          /\ worker.ev.of = boot /\ ~Queued("SERVER_ARRIVE") /\ ~Sent /\ ~Listed /\ ~InHand
          /\ (\A ind : ~OnWire(ind)) /\ Is("EXISTS") /\ ~Is("FW_DOWN") /\ ~Is("FW_READY")
      BY <1>0, <1>1, <2>1, <2>4, OnWireIs DEF Arrives, Served, Up, At, HandshakeSteps
    <2>7. /\ worker.at \notin FwEvents \cup Crashes \cup DriverSteps
          /\ worker'.at \notin FwEvents \cup Crashes \cup DriverSteps
      BY <2>1 DEF FwEvents, ReadyEvents, Crashes, DriverSteps, HandshakeSteps
    <2>8. OnTheWire'
      BY <1>1, <2>1, <2>2, <2>3, <2>4, <2>5, <2>6, <2>7 DEF OnTheWire, Alive
    <2>9. Exits'
      BY <1>1, <2>1, <2>2, <2>3, <2>4, <2>5, <2>6, <2>7 DEF Exits, Underway, At, Alive, FwEvents
    <2>10. Arrives'
      BY <1>1, <2>1, <2>2, <2>3, <2>4, <2>5, <2>6, <2>7 DEF Arrives, Underway, At, Served, Up,
         Alive, HandshakeSteps, FwEvents
    <2>11. Ready'
      BY <1>1, <2>1, <2>2, <2>3, <2>4, <2>5, <2>6, <2>7 DEF Ready, Expecting, Sent, Listed,
         InHand, Underway, At, Up, Alive, ReadyEvents, FwEvents
    <2>12. Recovers'
      BY <1>1, <2>1, <2>2, <2>3, <2>4, <2>5, <2>6, <2>7 DEF Recovers, Told, Underway, At, Up,
         Alive, Handled, Crashes, DriverSteps
    <2>13. First'
      BY <1>1, <2>1, <2>2, <2>3, <2>4, <2>5, <2>6, <2>7 DEF First, CrashesHandled, Underway,
         At, Up, Alive, Handled, Crashes, DriverSteps
    <2>14. Serves'
      BY <1>1, <2>1, <2>2, <2>3, <2>4, <2>5, <2>6, <2>7 DEF Serves, At, Up, Alive, Handled,
         FwEvents, ReadyEvents, DriverSteps
    <2> QED
      BY <2>1, <2>2, <2>3, <2>4, <2>5, <2>6, <2>7, <2>8, <2>9, <2>10, <2>11, <2>12, <2>13,
         <2>14 DEF Course
  <1>5. CASE Notifications
    <2>1. /\ worker.at = "notifications" /\ worker'.at = "idle"
          /\ UNCHANGED <<device, fw, boot, wire, events, ops, callback, ssr, pdr>>
      BY <1>5 DEF Notifications, Finish, Resting, At, workerRest, driverVars
    <2>2. /\ Once' /\ (\A type : Queued(type)' <=> Queued(type))
          /\ (\A ind : OnWire(ind)' <=> OnWire(ind))
      BY <2>1, QueueStays, WireStays
    <2>3. \A b : b # "fw_early_crash_irq" => Is(b)' = Is(b)
      BY <1>5 DEF Notifications, Is
    <2>4. (\A a : One(a)' <=> One(a)) /\ \A a, b : Two(a, b)' <=> Two(a, b)
      BY <2>1, WireStays
    <2>5. OnTheWire'
      BY <1>1, <2>1, <2>2, <2>3, <2>4 DEF OnTheWire, Alive
    <2>6. Exits'
      BY <1>1, <2>1, <2>2, <2>3, <2>4 DEF Exits, Underway, At, Alive
    <2>7. Arrives'
      BY <1>1, <2>1, <2>2, <2>3, <2>4 DEF Arrives, Underway, At, Served, Up, Alive,
         HandshakeSteps
    <2>8. Ready'
      BY <1>1, <2>1, <2>2, <2>3, <2>4 DEF Ready, Expecting, Sent, Listed, InHand, Underway,
         At, Up, Alive, ReadyEvents
    <2>9. Recovers'
      BY <1>1, <2>1, <2>2, <2>3, <2>4 DEF Recovers, Told, Underway, At, Up, Alive, Handled
    <2>10. First'
      BY <1>1, <2>1, <2>2, <2>3, <2>4 DEF First, CrashesHandled, Underway, At, Up, Alive,
         Handled, Crashes, DriverSteps
    <2>11. Serves'
      BY <1>1, <2>1, <2>2, <2>3, <2>4 DEF Serves, At, Up, Alive, Handled
    <2> QED
      BY <2>1, <2>2, <2>3, <2>4, <2>5, <2>6, <2>7, <2>8, <2>9, <2>10, <2>11 DEF Course
  <1>6. CASE ServerExit
    <2>1. /\ worker.at = "SERVER_EXIT" /\ worker'.at = "idle"
          /\ wire' = (IF Alive /\ fw.stage # "booting" THEN <<[ind |-> "NEW", of |-> boot]>> ELSE <<>>)
          /\ UNCHANGED <<device, fw, boot, events, ops, callback, ssr, pdr>>
      BY <1>6 DEF ServerExit, Finish, Resting, At, fwVars, driverVars
    <2>2. /\ Once' /\ (\A type : Queued(type)' <=> Queued(type))
      BY <2>1, QueueStays
    <2>3. /\ ~Is("DEL_SERVER")' /\ \A b : b \notin {"CONNECTED", "DEL_SERVER"} => Is(b)' = Is(b)
      BY <1>6 DEF ServerExit, Is
    <2>4. /\ Is("DEL_SERVER") /\ ~Queued("SERVER_EXIT") /\ ~Served /\ ~(Up /\ Handled)
          /\ Alive => fw.stage \in {"booting", "announced"}
          /\ ~Sent /\ ~Listed /\ ~InHand
          /\ ~Underway("SERVER_ARRIVE") /\ worker.at \notin HandshakeSteps \cup {"notifications"}
      BY <1>0, <1>1, <2>1 DEF Exits, Arrives, Underway, At, Served, Up, Handled,
         HandshakeSteps, TypeOK, Stages, OnTheWire
    <2>5. /\ Alive /\ fw.stage = "announced" => /\ One("NEW")' /\ OnWire("NEW")'
                                                /\ \A i \in DOMAIN wire' : wire'[i].of = boot
          /\ ~(Alive /\ fw.stage = "announced") => wire' = <<>>
          /\ (\A ind : OnWire(ind)' => ind = "NEW")
      <3>1. CASE Alive /\ fw.stage = "announced"
        BY <2>1, <3>1, WireOne, OnWirePrimed
      <3>2. CASE ~(Alive /\ fw.stage = "announced")
        BY <2>1, <2>4, <3>2, OnWirePrimed
      <3> QED
        BY <3>1, <3>2
    <2>6. OnTheWire'
      BY <1>1, <2>1, <2>2, <2>3, <2>4, <2>5 DEF OnTheWire, Alive
    <2>7. Exits'
      BY <1>1, <2>1, <2>2, <2>3, <2>4, <2>5 DEF Exits, Underway, At, Alive
    <2>8. Arrives'
      BY <1>1, <2>1, <2>2, <2>3, <2>4, <2>5 DEF Arrives, Underway, At, Served, Up, Alive,
         HandshakeSteps
    <2>9. Ready'
      BY <1>1, <2>1, <2>2, <2>3, <2>4, <2>5 DEF Ready, Expecting, Sent, Listed, InHand,
         Underway, At, Up, Alive, ReadyEvents
    <2>10. Recovers'
      BY <1>1, <2>1, <2>2, <2>3, <2>4, <2>5 DEF Recovers, Told, Underway, At, Up, Alive, Handled
    <2>11. First'
      BY <1>1, <2>1, <2>2, <2>3, <2>4, <2>5 DEF First, CrashesHandled, Underway, At, Up,
         Alive, Handled, Crashes, DriverSteps
    <2>12. Serves'
      BY <1>1, <2>1, <2>2, <2>3, <2>4, <2>5 DEF Serves, At, Up, Alive, Handled
    <2> QED
      BY <2>1, <2>2, <2>3, <2>4, <2>5, <2>6, <2>7, <2>8, <2>9, <2>10, <2>11, <2>12 DEF Course
  <1>7. CASE FwInitDone
    <2>1. /\ worker.at = "FW_INIT_DONE"
          /\ UNCHANGED <<device, state, boot, wire, events, ops, callback, ssr, pdr>>
          /\ \/ worker'.at = "FW_READY" /\ fw' = fw
             \/ /\ worker'.at = "idle" /\ Is("COLD_BOOT_CAL")
                /\ Alive /\ fw.stage = "init" /\ Is("CONNECTED") =>
                      fw'.stage = "calibrating" /\ fw'.life = fw.life
      BY <1>0, <1>7 DEF FwInitDone, Go, Finish, Resting, At, TypeOK, workerRest, driverVars
    <2>2. /\ Once' /\ (\A type : Queued(type)' <=> Queued(type))
          /\ (\A ind : OnWire(ind)' <=> OnWire(ind))
      BY <2>1, QueueStays, WireStays
    <2>3. /\ Up /\ Alive /\ Served /\ fw.stage = "init" /\ wire = <<>> /\ ~Sent /\ ~Listed
          /\ ~Handled
          /\ Is("CONNECTED") /\ (Is("PROBED") => Is("PD_RESTART"))
          /\ (\A ind : ~OnWire(ind)) /\ \A b : Is(b)' = Is(b)
      <3>1. InHand /\ fw.stage = "init"
        BY <2>1 DEF InHand, At, Ready, Underway, ReadyEvents
      <3>2. Up /\ Alive /\ Served /\ ~Sent /\ ~Listed /\ ~Handled /\ (Is("PROBED") => Is("PD_RESTART"))
        BY <1>1, <3>1 DEF Ready, Served, Up
      <3>3. Is("CONNECTED")
        BY <2>1, <3>2 DEF Arrives, At
      <3>4. ~OnWire("FW_INIT_DONE")
        BY <3>2 DEF Sent, ReadyEvents
      <3>5. wire = <<>>
        BY <1>0, <3>1, <3>2, <3>4, OnWireIs DEF OnTheWire
      <3> QED
        BY <1>0, <2>1, <3>1, <3>2, <3>3, <3>5, OnWireIs DEF Is
    <2>4. ~(Up' /\ Handled') /\ Up' /\ Served' /\ Alive'
      BY <2>1, <2>3 DEF Up, Served, Alive, Handled
    <2>5. OnTheWire'
      BY <1>1, <2>1, <2>2, <2>3, <2>4 DEF OnTheWire, Alive
    <2>6. Exits'
      BY <1>1, <2>1, <2>2, <2>3, <2>4 DEF Exits, Underway, At, Alive
    <2>7. Arrives'
      BY <1>1, <2>1, <2>2, <2>3, <2>4 DEF Arrives, Underway, At, Served, Up, Alive,
         HandshakeSteps
    <2>8. Ready'
      BY <1>1, <2>1, <2>2, <2>3, <2>4 DEF Ready, Expecting, Sent, Listed, InHand, Underway,
         At, Up, Alive, ReadyEvents
    <2>9. Recovers'
      BY <1>1, <2>1, <2>2, <2>3, <2>4 DEF Recovers, Told, Underway, At, Up, Alive, Handled
    <2>10. First'
      BY <1>1, <2>1, <2>2, <2>3, <2>4 DEF First, CrashesHandled, Underway, At, Up, Alive,
         Handled, Crashes, DriverSteps
    <2>11. Serves'
      BY <1>1, <2>1, <2>2, <2>3, <2>4 DEF Serves, At, Up, Alive, Handled
    <2> QED
      BY <2>1, <2>2, <2>3, <2>4, <2>5, <2>6, <2>7, <2>8, <2>9, <2>10, <2>11 DEF Course
  <1>8. CASE FwReady
    <2>1. /\ worker.at = "FW_READY" /\ worker'.at = "power_off"
          /\ UNCHANGED <<device, boot, wire, events, ops, callback, ssr, pdr>>
          /\ fw'.life = fw.life
          /\ fw'.stage = (IF Alive /\ fw.stage = "init" THEN "ready" ELSE fw.stage)
      BY <1>0, <1>8 DEF FwReady, Go, At, TypeOK, workerRest, driverVars
    <2>2. /\ Once' /\ (\A type : Queued(type)' <=> Queued(type))
          /\ (\A ind : OnWire(ind)' <=> OnWire(ind))
      BY <2>1, QueueStays, WireStays
    <2>3. Is("FW_READY")' /\ \A b : b # "FW_READY" => Is(b)' = Is(b)
      BY <1>8 DEF FwReady, Is
    <2>4. /\ Up /\ Alive /\ Served /\ fw.stage \in {"init", "ready"} /\ wire = <<>> /\ ~Sent
          /\ ~Listed
          /\ (\A ind : ~OnWire(ind)) /\ (Is("PROBED") => Is("PD_RESTART"))
      <3>1. InHand
        BY <2>1 DEF InHand, At, ReadyEvents
      <3>2. /\ Up /\ Alive /\ Served /\ fw.stage \in {"init", "ready"} /\ ~Sent /\ ~Listed
            /\ Is("PROBED") => Is("PD_RESTART")
        BY <1>1, <3>1 DEF Ready, Served, Up
      <3>3. ~OnWire("FW_INIT_DONE") /\ ~OnWire("FW_READY")
        BY <3>2 DEF Sent, ReadyEvents
      <3>4. wire = <<>>
        BY <1>0, <3>2, <3>3, OnWireIs DEF OnTheWire
      <3> QED
        BY <1>0, <3>2, <3>4, OnWireIs
    <2>5. fw'.stage = "ready" /\ Up' /\ Handled' /\ Served' /\ Alive'
      BY <2>1, <2>3, <2>4 DEF Up, Served, Alive, Handled
    <2>6. OnTheWire'
      BY <1>1, <2>1, <2>2, <2>3, <2>4, <2>5 DEF OnTheWire, Alive
    <2>7. Exits'
      BY <1>1, <2>1, <2>2, <2>3, <2>4, <2>5 DEF Exits, Underway, At, Alive
    <2>8. Arrives'
      BY <1>1, <2>1, <2>2, <2>3, <2>4, <2>5 DEF Arrives, Underway, At, Served, Up, Alive,
         HandshakeSteps
    <2>9. Ready'
      BY <1>1, <2>1, <2>2, <2>3, <2>4, <2>5 DEF Ready, Expecting, Sent, Listed, InHand,
         Underway, At, Up, Alive, ReadyEvents
    <2>10. Recovers'
      BY <1>1, <2>1, <2>2, <2>3, <2>4, <2>5 DEF Recovers, Told, Underway, At, Up, Alive, Handled
    <2>11. First'
      BY <1>1, <2>1, <2>2, <2>3, <2>4, <2>5 DEF First, CrashesHandled, Underway, At, Up,
         Alive, Handled, Crashes, DriverSteps
    <2>12. Serves'
      BY <1>1, <2>1, <2>2, <2>3, <2>4, <2>5 DEF Serves, At, Up, Alive, Handled
    <2> QED
      BY <2>1, <2>2, <2>3, <2>4, <2>5, <2>6, <2>7, <2>8, <2>9, <2>10, <2>11, <2>12 DEF Course
  <1>9. CASE HandshakeFails
    <2>1. /\ worker.at \in HandshakeSteps
          /\ Alive /\ worker.ev.of = boot => Is("FW_DOWN")
      BY <1>0, <1>9 DEF HandshakeFails
    <2> QED
      BY <2>1 DEF Arrives, Up
  <1> QED
    BY <1>2, <1>3, <1>4, <1>5, <1>6, <1>7, <1>8, <1>9, <1>0, HandshakeSplits

LEMMA CourseNext ==
    ASSUME IInv, IInv', Timely, Timely', Faultless, [Next]_vars
    PROVE  Faultless'
  <1> SUFFICES ASSUME faults' = 0, untimely' = 0 PROVE Course'
    BY DEF Faultless
  <1>0. TypeOK /\ TypeOK'
    BY DEF IInv
  <1>1. faults = 0 /\ untimely = 0
    BY <1>0, CountsGrow
  <1>2. TimelyInv /\ Course
    BY <1>1 DEF Timely, Faultless
  <1>3. CASE Firmware
    BY <1>0, <1>2, <1>3, FirmwareCourse
  <1>4. CASE Failures \/ Restart
    BY <1>0, <1>2, <1>4, FailureCourse
  <1>5. CASE QmiThread
    BY <1>0, <1>2, <1>5, QmiCourse
  <1>6. CASE Notifiers \/ Pdr \/ Host \/ AnnounceShutdown \/ UNCHANGED vars
    BY <1>0, <1>2, <1>6, BesideSteps, BesideCourse
  <1>7. CASE TakeEvent \/ ServerArrive \/ Handshake \/ ServerExit \/ FwInitDone \/ FwReady
    BY <1>0, <1>2, <1>7, ArrivalCourse
  <1>8. CASE HostDriverStep
    BY <1>0, <1>2, <1>8, DriverKeepsCourse
  <1> QED
    BY <1>3, <1>4, <1>5, <1>6, <1>7, <1>8 DEF Next, Worker, HostDriverStep

LEMMA CourseInit == Init => Faultless
  <1> SUFFICES ASSUME Init PROVE Course
    BY DEF Faultless
  <1>1. /\ wire = <<>> /\ events = <<>> /\ boot = 0 /\ fw.life = "off" /\ fw.stage = "booting"
        /\ worker.at = "idle" /\ ssr.at = "idle" /\ pdr = "idle" /\ callback = "out"
        /\ state \subseteq {"COLD_BOOT_CAL"}
    BY DEF Init, Resting
  <1>2. (\A type : ~Queued(type)) /\ \A ind : ~OnWire(ind)
    BY <1>1 DEF Queued, OnWire
  <1>3. Once /\ OnTheWire /\ Exits
    BY <1>1, <1>2 DEF Once, OnTheWire, Exits, Alive, Underway, At, Is
  <1>4. Arrives /\ Ready
    BY <1>1, <1>2 DEF Arrives, Ready, Sent, Listed, InHand, Expecting, Up, Served, Alive,
       Underway, At, Is, HandshakeSteps, ReadyEvents
  <1>5. Recovers /\ First /\ Serves
    BY <1>1, <1>2 DEF Recovers, First, Serves, CrashesHandled, Crashes, DriverSteps, Up,
       Alive, Underway, At, Is
  <1> QED
    BY <1>3, <1>4, <1>5 DEF Course

\* Without faults each boot runs its course: every message of it is in one
\* place, and the handshake and the recovery follow the stages of the firmware.
THEOREM CourseInvariant == Spec => [](IInv /\ Timely /\ Faultless)
  <1>1. Init => IInv /\ Timely /\ Faultless
    BY InvariantInit, TimelyInit, CourseInit
  <1>2. IInv /\ Timely /\ Faultless /\ [Next]_vars => (IInv /\ Timely /\ Faultless)'
    BY InvariantNext, TimelyNext, CourseNext
  <1> QED
    BY <1>1, <1>2, PTL DEF Spec

\* A host driver that is in service has power, and when all is quiet after a
\* recovery it is in service again.
THEOREM ServiceComesBack == Spec => []ServiceRestored
  <1>1. IInv /\ Timely /\ Faultless => ServiceRestored
    <2> SUFFICES ASSUME IInv, Timely, Faultless PROVE ServiceRestored
      OBVIOUS
    <2>1. TypeOK /\ CallbackIsCalled /\ BitsAreTrue
      BY DEF IInv
    <2>2. faults + untimely = 0 => Course /\ TimelyInv
      BY <2>1 DEF TypeOK, Faultless, Timely
    <2>3. PoweredInService
      BY <2>2 DEF PoweredInService, Course, Serves, Resting
    <2>4. ASSUME Quiet, faults + untimely = 0
          PROVE  ~Is("PD_RESTART") /\ callback = (IF ops THEN "in" ELSE "out") /\ Is("FW_READY")
      <3>1. /\ wire = <<>> /\ worker.at = "idle" /\ Up
            /\ fw.stage \in {"announced", "init", "ready"}
            /\ (\A type : ~Queued(type)) /\ \A ind : ~OnWire(ind)
        BY <2>4 DEF Quiet, Resting, Up, Queued, OnWire
      <3>2. ~Sent /\ ~Listed /\ ~InHand /\ Arrives /\ Exits /\ Ready /\ Recovers /\ Serves
        BY <2>2, <2>4, <3>1 DEF Course, Sent, Listed, InHand, At, ReadyEvents
      <3>3. Handled
        BY <3>1, <3>2 DEF Arrives, Exits, Ready, Expecting, Handled, Underway, At,
           HandshakeSteps
      <3>4. ~Is("PD_RESTART") /\ Is("FW_READY") /\ (ops => callback # "out")
        BY <3>1, <3>2, <3>3 DEF Recovers, Serves, Handled
      <3>5. callback \notin {"probe", "reinit", "remove", "shutdown", "stopped"}
        BY <2>1, <3>1, <3>2 DEF CallbackIsCalled, Serves, At
      <3>6. callback \in {"out", "in"} /\ (callback # "out" => ops)
        BY <2>1, <3>5 DEF TypeOK, After, BitsAreTrue
      <3> QED
        BY <3>4, <3>6
    <2> QED
      BY <2>3, <2>4 DEF ServiceRestored, BackInService
  <1> QED
    BY <1>1, CourseInvariant, PTL

-----------------------------------------------------------------------------
(***************************************************************************)
(* Nobody inherits SHUTDOWN_DONE                                           *)
(***************************************************************************)

\* The bit stands for a host driver that was stopped and is still there.
Stopped == {"shutdown", "stopped", "reinit"}
ForTheStopped == faults = 0 /\ untimely = 0 => (Is("SHUTDOWN_DONE") => callback \in Stopped)

LEMMA StoppedNext ==
    ASSUME IInv, TypeOK', Faultless, ForTheStopped, [Next]_vars
    PROVE  ForTheStopped'
  <1> SUFFICES ASSUME faults' = 0, untimely' = 0, Is("SHUTDOWN_DONE")'
               PROVE  callback' \in Stopped
    BY DEF ForTheStopped
  <1>0. TypeOK /\ CallbackIsCalled /\ BitsAreTrue
    BY DEF IInv
  <1>1. faults = 0 /\ untimely = 0
    BY <1>0, CountsGrow
  <1>2. Is("SHUTDOWN_DONE") => callback \in Stopped
    BY <1>1 DEF ForTheStopped
  <1>3. callback = "stopped" => At("reinit")
    BY <1>1 DEF Faultless, Course, Serves
  <1>4. CASE Aside
    BY <1>2, <1>4 DEF Aside, DriverBits, Is
  <1>5. CASE HostDriverStep
    <2>1. ASSUME ~RestartComplete PROVE "SHUTDOWN_DONE" \in state
      BY <1>5, <2>1 DEF HostDriverStep, Is, PowerOn, PowerOff, FwCrashed, driverVars,
         FwReadyPowerOff, RestartCleared, CallReinit, ReinitEnd, CallProbe, ProbeEnd,
         RegisterDriver, UnregisterDriver, RemoveEnd, PdServiceDown, EarlyCrashInd
    <2>2. CASE RestartComplete
      BY <1>2, <2>2 DEF RestartComplete, Is, Stopped
    <2>3. CASE RestartCleared
      BY <1>2, <2>1, <2>3 DEF RestartCleared, RestartComplete, At, Is, Stopped
    <2>4. CASE CallReinit
      BY <2>4 DEF CallReinit, Stopped
    <2>5. CASE ReinitEnd
      BY <1>0, <1>1, <2>5 DEF ReinitEnd, Is, Stopped, TypeOK
    <2>6. CASE CallProbe \/ ProbeEnd \/ RegisterDriver
      <3>1. callback \in {"out", "probe"} \/ callback' = callback
        BY <1>0, <2>6 DEF CallProbe, ProbeEnd, RegisterDriver, CallbackIsCalled, BitsAreTrue, At
      <3>2. ~RestartComplete
        BY <2>6 DEF CallProbe, ProbeEnd, RegisterDriver, RestartComplete, At
      <3> QED
        BY <1>2, <2>1, <3>1, <3>2 DEF Is, Stopped
    <2>7. CASE UnregisterDriver \/ RemoveEnd
      <3>1. ~RestartComplete /\ ~At("reinit") /\ ~At("reinit_end") /\ ~At("restarted")
        BY <2>7 DEF UnregisterDriver, RemoveEnd, RestartComplete, At
      <3>2. callback \notin Stopped
        BY <1>0, <1>3, <3>1 DEF CallbackIsCalled, At, Stopped
      <3> QED
        BY <1>2, <2>1, <3>1, <3>2 DEF Is
    <2>8. CASE FwReadyPowerOff \/ PdServiceDown \/ EarlyCrashInd
      <3>1. ~RestartComplete /\ callback' = callback
        BY <2>8 DEF FwReadyPowerOff, PdServiceDown, EarlyCrashInd, RestartComplete, At, driverVars
      <3> QED
        BY <1>2, <2>1, <3>1 DEF Is
    <2> QED
      BY <1>5, <2>2, <2>3, <2>4, <2>5, <2>6, <2>7, <2>8 DEF HostDriverStep
  <1>6. CASE UNCHANGED vars
    BY <1>2, <1>6 DEF vars, driverVars, threadVars, Is
  <1>7. ASSUME \/ Firmware \/ Failures \/ Restart \/ QmiThread \/ Notifiers \/ Pdr \/ Host
               \/ AnnounceShutdown \/ TakeEvent \/ Handshake \/ ServerArrive \/ ServerExit
               \/ FwInitDone \/ FwReady
        PROVE  Aside
    BY <1>0, <1>7, FirmwareAside, QmiAside, NotifiersAside, HostAside, TakeEventAside,
       HandshakeKeeps, ServerAside
  <1> QED
    BY <1>4, <1>5, <1>6, <1>7 DEF Next, Worker, HostDriverStep

\* Without faults the callbacks of the host driver come in order; with faults
\* they do unless the driver inherited SHUTDOWN_DONE from the one before it.
THEOREM CallbacksComeInOrder == Spec => CallbacksInOrder
  <1>1. Init => ForTheStopped
    BY DEF Init, ForTheStopped, Is
  <1>2. IInv /\ Faultless /\ ForTheStopped /\ [Next]_vars => ForTheStopped'
    BY InvariantNext, StoppedNext DEF IInv
  <1>3. TypeOK /\ faults + untimely = 0 /\ ForTheStopped => ~StaleShutdown
    BY DEF TypeOK, ForTheStopped, StaleShutdown, Stopped
  <1>4. /\ IInv /\ ForTheStopped /\ [Next]_vars
        => [faults + untimely = 0 \/ ~StaleShutdown => InOrder]_vars
    BY <1>3, InvariantNext DEF IInv
  <1>5. Spec => []ForTheStopped
    BY <1>1, <1>2, CourseInvariant, PTL DEF Spec
  <1> QED
    BY <1>4, <1>5, Invariant, PTL DEF Spec, CallbacksInOrder

==============================================================================
