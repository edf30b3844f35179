---------------------------- MODULE CnssEventQueue ----------------------------
(***************************************************************************)
(* The driver event queue of cnss2 (cnss2/main.c).                         *)
(*                                                                         *)
(* Any context of the driver posts an event with cnss_driver_event_post;   *)
(* one ordered work item, cnss_driver_event_work, drains the list and runs *)
(* the handlers one at a time.  A poster may wait for the result, and a    *)
(* signal may end the wait: the two sides then have to agree who frees the *)
(* event.  A section under event_lock is one action; everything between    *)
(* two sections is an action of its own.                                   *)
(***************************************************************************)
EXTENDS Integers, Sequences, FiniteSets

CONSTANTS
    Posters,    \* the contexts that call cnss_driver_event_post
    Events,     \* the addresses kzalloc can return for a cnss_driver_event
    Results,    \* what a handler can return
    NoEvent,    \* the NULL pointer
    PENDING,    \* CNSS_EVENT_PENDING: no handler has reported yet
    EINTR,      \* the wait was given up on a signal
    ENOMEM      \* kzalloc failed

ASSUME EventQueueAssumption ==
    /\ NoEvent \notin Events
    /\ PENDING \notin Results
    /\ 0 \in Results
    /\ IsFiniteSet(Posters)

(***************************************************************************)
(* How the caller waits: the flags CNSS_EVENT_SYNC (interruptible),        *)
(* SYNC_UNINTERRUPTIBLE (killable) and SYNC_UNKILLABLE of cnss2/main.h,    *)
(* and no flag at all (async).                                             *)
(***************************************************************************)
Modes      == {"async", "interruptible", "killable", "unkillable"}
Signalable == {"interruptible", "killable"}

VARIABLES
    list,         \* event_list
    live,         \* the addresses that are allocated
    sync,         \* event->sync
    ret,          \* event->ret
    done,         \* event->complete has been completed
    workPending,  \* event_work is queued on event_wq
    wpc,          \* where cnss_driver_event_work stands
    wevent,       \* its local variable event
    wret,         \* its local variable ret
    ppc,          \* where each poster stands in cnss_driver_event_post
    pevent,       \* its local variable event
    pmode,        \* its argument flags
    psignal,      \* its wait returned -ERESTARTSYS
    pret,         \* what its last call returned
    pmCount       \* pm_count, the votes that keep the system awake

heapVars   == <<live, sync, ret, done>>
workerVars == <<wpc, wevent, wret>>
posterVars == <<ppc, pevent, pmode, psignal, pret>>
vars == <<list, heapVars, workPending, workerVars, posterVars, pmCount>>

-----------------------------------------------------------------------------

Init ==
    /\ list = <<>>
    /\ live = {}
    /\ sync = [e \in Events |-> FALSE]
    /\ ret  = [e \in Events |-> PENDING]
    /\ done = [e \in Events |-> FALSE]
    /\ workPending = FALSE
    /\ wpc = "idle"
    /\ wevent = NoEvent
    /\ wret = 0
    /\ ppc = [p \in Posters |-> "idle"]
    /\ pevent = [p \in Posters |-> NoEvent]
    /\ pmode = [p \in Posters |-> "async"]
    /\ psignal = [p \in Posters |-> FALSE]
    /\ pret = [p \in Posters |-> 0]
    /\ pmCount = 0

StayAwake == pmCount' = pmCount + 1
Relax     == pmCount' = pmCount - 1

Goto(p, label) == ppc' = [ppc EXCEPT ![p] = label]

\* kfree(event).  The contents of freed memory mean nothing to anybody: they
\* are reset so that no state differs in them only.
Kfree(e) ==
    /\ live' = live \ {e}
    /\ sync' = [sync EXCEPT ![e] = FALSE]
    /\ ret'  = [ret  EXCEPT ![e] = PENDING]
    /\ done' = [done EXCEPT ![e] = FALSE]

-----------------------------------------------------------------------------
(***************************************************************************)
(* cnss_driver_event_post                                                  *)
(***************************************************************************)

\* Mutant: the vote is taken before the allocation can fail.
PostNoMemory_AfterVote(p) ==
    /\ ppc[p] = "idle"
    /\ pret' = [pret EXCEPT ![p] = ENOMEM]
    /\ StayAwake
    /\ UNCHANGED <<list, heapVars, workPending, workerVars,
                   ppc, pevent, pmode, psignal>>

\* kzalloc fails: return -ENOMEM before any vote is taken.
PostNoMemory(p) ==
    /\ ppc[p] = "idle"
    /\ pret' = [pret EXCEPT ![p] = ENOMEM]
    /\ UNCHANGED <<list, heapVars, workPending, workerVars,
                   ppc, pevent, pmode, psignal, pmCount>>

\* Allocate and initialise an event, and vote to stay awake.
PostAlloc(p, e, mode) ==
    /\ ppc[p] = "idle"
    /\ e \notin live
    /\ live' = live \cup {e}
    /\ sync' = [sync EXCEPT ![e] = mode # "async"]
    /\ pret' = [pret EXCEPT ![p] = 0]
    /\ pevent' = [pevent EXCEPT ![p] = e]
    /\ pmode'  = [pmode  EXCEPT ![p] = mode]
    /\ StayAwake
    /\ Goto(p, "enqueue")
    /\ UNCHANGED <<list, ret, done, workPending, workerVars, psignal>>

\* list_add_tail under event_lock.  From here on an asynchronous poster no
\* longer owns the event.
PostEnqueue(p) ==
    /\ ppc[p] = "enqueue"
    /\ list' = Append(list, pevent[p])
    /\ Goto(p, "kick")
    /\ UNCHANGED <<heapVars, workPending, workerVars,
                   pevent, pmode, psignal, pret, pmCount>>

\* Mutant: the work is not queued while it is running.
PostKick_UnlessRunning(p) ==
    /\ ppc[p] = "kick"
    /\ workPending' = (workPending \/ wpc = "idle")
    /\ IF pmode[p] = "async"
          THEN Goto(p, "out")
          ELSE Goto(p, "wait")
    /\ UNCHANGED <<list, heapVars, workerVars,
                   pevent, pmode, psignal, pret, pmCount>>

\* queue_work: no effect when the work is already queued.
PostKick(p) ==
    /\ ppc[p] = "kick"
    /\ workPending' = TRUE
    /\ IF pmode[p] = "async"
          THEN Goto(p, "out")
          ELSE Goto(p, "wait")
    /\ UNCHANGED <<list, heapVars, workerVars,
                   pevent, pmode, psignal, pret, pmCount>>

\* The wait ends because the worker completed the event.
PostCompleted(p) ==
    /\ ppc[p] = "wait"
    /\ done[pevent[p]]
    /\ psignal' = [psignal EXCEPT ![p] = FALSE]
    /\ Goto(p, "collect")
    /\ UNCHANGED <<list, heapVars, workPending, workerVars,
                   pevent, pmode, pret, pmCount>>

\* The wait ends on a signal.  The completion may arrive at the same moment.
PostSignalled(p) ==
    /\ ppc[p] = "wait"
    /\ pmode[p] \in Signalable
    /\ psignal' = [psignal EXCEPT ![p] = TRUE]
    /\ Goto(p, "collect")
    /\ UNCHANGED <<list, heapVars, workPending, workerVars,
                   pevent, pmode, pret, pmCount>>

\* Mutant: the event stays synchronous although nobody waits.
PostGiveUp_StaysSync(p) ==
    /\ ppc[p] = "collect"
    /\ psignal[p] /\ ret[pevent[p]] = PENDING
    /\ pret' = [pret EXCEPT ![p] = EINTR]
    /\ Goto(p, "out")
    /\ UNCHANGED <<list, heapVars, workPending, workerVars,
                   pevent, pmode, psignal, pmCount>>

\* Mutant: a signal gives the event up whether or not it was reported.
PostGiveUp_Reported(p) ==
    /\ ppc[p] = "collect"
    /\ psignal[p]
    /\ sync' = [sync EXCEPT ![pevent[p]] = FALSE]
    /\ pret' = [pret EXCEPT ![p] = EINTR]
    /\ Goto(p, "out")
    /\ UNCHANGED <<list, live, ret, done, workPending, workerVars,
                   pevent, pmode, psignal, pmCount>>

\* After the wait, under event_lock: give the event up when the handler has
\* not reported yet, otherwise keep it.
PostGiveUp(p) ==
    /\ ppc[p] = "collect"
    /\ psignal[p] /\ ret[pevent[p]] = PENDING
    /\ sync' = [sync EXCEPT ![pevent[p]] = FALSE]
    /\ pret' = [pret EXCEPT ![p] = EINTR]
    /\ Goto(p, "out")
    /\ UNCHANGED <<list, live, ret, done, workPending, workerVars,
                   pevent, pmode, psignal, pmCount>>

PostKeep(p) ==
    /\ ppc[p] = "collect"
    /\ ~(psignal[p] /\ ret[pevent[p]] = PENDING)
    /\ Goto(p, "reap")
    /\ UNCHANGED <<list, heapVars, workPending, workerVars,
                   pevent, pmode, psignal, pret, pmCount>>

\* ret = event->ret; kfree(event), after the lock is dropped.
PostReap(p) ==
    /\ ppc[p] = "reap"
    /\ pret' = [pret EXCEPT ![p] = ret[pevent[p]]]
    /\ Kfree(pevent[p])
    /\ Goto(p, "out")
    /\ UNCHANGED <<list, workPending, workerVars,
                   pevent, pmode, psignal, pmCount>>

\* out: withdraw the vote and return; the locals are gone.
PostOut(p) ==
    /\ ppc[p] = "out"
    /\ Relax
    /\ pevent' = [pevent EXCEPT ![p] = NoEvent]
    /\ pmode' = [pmode EXCEPT ![p] = "async"]
    /\ psignal' = [psignal EXCEPT ![p] = FALSE]
    /\ Goto(p, "idle")
    /\ UNCHANGED <<list, heapVars, workPending, workerVars, pret>>

-----------------------------------------------------------------------------
(***************************************************************************)
(* cnss_driver_event_work                                                  *)
(***************************************************************************)

\* Mutant: the newest event first.
TakeNext_Newest ==
    IF list = <<>>
       THEN /\ wpc' = "relax"
            /\ wevent' = NoEvent
            /\ UNCHANGED list
       ELSE /\ wpc' = "handle"
            /\ wevent' = list[Len(list)]
            /\ list' = SubSeq(list, 1, Len(list) - 1)

\* The head of the while loop, always reached with event_lock held: take the
\* first event off the list, or leave.
TakeNext ==
    IF list = <<>>
       THEN /\ wpc' = "relax"
            /\ wevent' = NoEvent
            /\ UNCHANGED list
       ELSE /\ wpc' = "handle"
            /\ wevent' = Head(list)
            /\ list' = Tail(list)

\* The workqueue runs the work item; it may be queued again from now on.
WorkStart ==
    /\ wpc = "idle"
    /\ workPending
    /\ workPending' = FALSE
    /\ StayAwake
    /\ wpc' = "first"
    /\ UNCHANGED <<list, heapVars, wevent, wret, posterVars>>

WorkFirst ==
    /\ wpc = "first"
    /\ TakeNext
    /\ UNCHANGED <<heapVars, workPending, wret, posterVars, pmCount>>

\* The switch: run the handler of the event, with the lock dropped.
WorkHandle(r) ==
    /\ wpc = "handle"
    /\ wret' = r
    /\ wpc' = "report"
    /\ UNCHANGED <<list, heapVars, workPending, wevent, posterVars, pmCount>>

\* Mutant: the result is stored and the caller never woken.
WorkReport_NoComplete ==
    /\ wpc = "report"
    /\ sync[wevent]
    /\ ret'  = [ret  EXCEPT ![wevent] = wret]
    /\ TakeNext
    /\ wret' = 0
    /\ UNCHANGED <<live, sync, done, workPending, posterVars, pmCount>>

\* Somebody waits: report, complete and take the next event in one section.
WorkReport ==
    /\ wpc = "report"
    /\ sync[wevent]
    /\ ret'  = [ret  EXCEPT ![wevent] = wret]
    /\ done' = [done EXCEPT ![wevent] = TRUE]
    /\ TakeNext
    /\ wret' = 0
    /\ UNCHANGED <<live, sync, workPending, posterVars, pmCount>>

\* Mutant: the worker frees every event it has handled.
WorkOrphan_Always ==
    /\ wpc = "report"
    /\ wpc' = "free"
    /\ UNCHANGED <<list, heapVars, workPending, wevent, wret,
                   posterVars, pmCount>>

\* Nobody waits: drop the lock in order to free the event ...
WorkOrphan ==
    /\ wpc = "report"
    /\ ~sync[wevent]
    /\ wpc' = "free"
    /\ UNCHANGED <<list, heapVars, workPending, wevent, wret,
                   posterVars, pmCount>>

\* ... kfree(event) ...
WorkFree ==
    /\ wpc = "free"
    /\ Kfree(wevent)
    /\ wpc' = "first"
    /\ wevent' = NoEvent
    /\ wret' = 0
    /\ UNCHANGED <<list, workPending, posterVars, pmCount>>

\* The list was empty: withdraw the vote and return.
WorkRelax ==
    /\ wpc = "relax"
    /\ Relax
    /\ wpc' = "idle"
    /\ UNCHANGED <<list, heapVars, workPending, wevent, wret, posterVars>>

-----------------------------------------------------------------------------

Post(p) ==
    \/ PostNoMemory(p)
    \/ \E e \in Events, mode \in Modes : PostAlloc(p, e, mode)
    \/ PostEnqueue(p)
    \/ PostKick(p)
    \/ PostCompleted(p)
    \/ PostSignalled(p)
    \/ PostGiveUp(p)
    \/ PostKeep(p)
    \/ PostReap(p)
    \/ PostOut(p)

Work ==
    \/ WorkStart
    \/ WorkFirst
    \/ \E r \in Results : WorkHandle(r)
    \/ WorkReport
    \/ WorkOrphan
    \/ WorkFree
    \/ WorkRelax

Next == Work \/ \E p \in Posters : Post(p)

Spec == Init /\ [][Next]_vars

(***************************************************************************)
(* A poster that is inside the call keeps running unless it is waiting,    *)
(* and the workqueue runs what is queued and a handler returns.  Nobody is *)
(* obliged to post an event or to send a signal.                           *)
(***************************************************************************)
PostContinues(p) ==
    \/ PostEnqueue(p) \/ PostKick(p) \/ PostCompleted(p)
    \/ PostGiveUp(p) \/ PostKeep(p) \/ PostReap(p) \/ PostOut(p)

Fairness ==
    /\ WF_vars(Work)
    /\ \A p \in Posters : WF_vars(PostContinues(p))

FairSpec == Spec /\ Fairness

-----------------------------------------------------------------------------
(***************************************************************************)
(* Properties                                                              *)
(***************************************************************************)

PosterLabels == {"idle", "enqueue", "kick", "wait", "collect", "reap", "out"}
WorkerLabels == {"idle", "first", "handle", "report", "free", "relax"}

\* Type correctness of the queue, the heap, and the two kinds of threads.
TypeOK ==
    /\ list \in Seq(Events)
    /\ live \subseteq Events
    /\ sync \in [Events -> BOOLEAN]
    /\ ret  \in [Events -> Results \cup {PENDING}]
    /\ done \in [Events -> BOOLEAN]
    /\ workPending \in BOOLEAN
    /\ wpc \in WorkerLabels
    /\ wevent \in Events \cup {NoEvent}
    /\ wret \in Results
    /\ ppc \in [Posters -> PosterLabels]
    /\ pevent \in [Posters -> Events \cup {NoEvent}]
    /\ pmode \in [Posters -> Modes]
    /\ psignal \in [Posters -> BOOLEAN]
    /\ pret \in [Posters -> Results \cup {PENDING, EINTR, ENOMEM}]
    /\ pmCount \in Int

\* The events on the list, as a set.
Listed == {list[i] : i \in 1..Len(list)}

\* The event the worker has taken off the list and may still touch.
InHand == IF wpc \in {"handle", "report", "free"} THEN {wevent} ELSE {}

\* The code of cnss_driver_event_post that still dereferences its event: all
\* of it for a synchronous caller, up to list_add_tail for an asynchronous
\* one, and nothing once the event was given up.
Holds(p) ==
    \/ ppc[p] \in {"enqueue", "wait", "collect", "reap"}
    \/ ppc[p] = "kick" /\ pmode[p] # "async"

Held == {pevent[p] : p \in {q \in Posters : Holds(q)}}

\* Nobody holds a freed event: the list, the worker and every poster that is
\* still going to dereference its event point to allocated memory, and no
\* event is queued twice or queued and in hand (use after free and double
\* free of cnss_driver_event, whose freeing is split between the poster and
\* the worker).
NoDanglingEvent ==
    /\ Listed \cup InHand \cup Held \subseteq live
    /\ Listed \cap InHand = {}
    /\ \A i, j \in 1..Len(list) : list[i] = list[j] => i = j
    /\ \A p, q \in Posters :
           Holds(p) /\ Holds(q) /\ pevent[p] = pevent[q] => p = q

\* No event leaks: whatever is allocated is still reached by the list, the
\* worker or a poster, one of which is going to free it.
NoLeakedEvent == live \subseteq Listed \cup InHand \cup Held

\* The two together: at every moment an event is allocated exactly as long as
\* one of the list, the worker and a poster is going to free it.
EventHasOwner == NoDanglingEvent /\ NoLeakedEvent

\* The votes of cnss_pm_stay_awake and cnss_pm_relax balance: pm_count is
\* exactly the number of threads inside, so that WARN_ON(r < 0) never fires
\* and the system may suspend again once all of them are out.
Insiders == Cardinality({p \in Posters : ppc[p] # "idle"})
PmBalanced == pmCount = Insiders + (IF wpc = "idle" THEN 0 ELSE 1)

\* A signal never loses a result: the caller is told -EINTR only while the
\* handler of its event has not reported, and once it reported the caller is
\* given what it reported.
GiveUpOnlyUnreported ==
    [][\A p \in Posters :
          /\ ppc[p] = "collect" /\ ppc'[p] = "out" => ~done[pevent[p]]
          /\ ppc[p] = "reap" /\ ppc'[p] = "out" =>
                 done[pevent[p]] /\ pret'[p] \in Results]_vars

\* A posted event is never stranded on the list: the worker empties it again
\* and again, although queue_work is called outside event_lock.
ListDrains == \A e \in Events : (e \in Listed) ~> (e \notin Listed)

\* A synchronous caller always comes back, even one that no signal can reach
\* (CNSS_EVENT_UNKILLABLE).
CallerReturns == \A p \in Posters : (ppc[p] = "wait") ~> (ppc[p] = "idle")

(***************************************************************************)
(* The queue implements the serial executor.  A ticket is the address of   *)
(* an event from list_add_tail until its owner lets go of it; an event     *)
(* that is being freed no longer runs.                                     *)
(***************************************************************************)
Waits(p) == ppc[p] \in {"kick", "wait", "collect", "reap"} /\ pmode[p] # "async"

Executor == INSTANCE SerialExecutor WITH
    Callers  <- Posters,
    Tickets  <- Events,
    Answers  <- Results,
    NoTicket <- NoEvent,
    NoAnswer <- PENDING,
    line     <- list,
    running  <- IF wpc \in {"handle", "report"} THEN wevent ELSE NoEvent,
    answer   <- [e \in Events |-> IF \E p \in Posters : Waits(p) /\ pevent[p] = e
                                  THEN ret[e] ELSE PENDING],
    waiting  <- [p \in Posters |-> IF Waits(p) THEN pevent[p] ELSE NoEvent]

\* Requests run one at a time, in the order of the list, once each, and a
\* caller is only ever given the result of its own request.
ImplementsExecutor == Executor!SSpec

=============================================================================
