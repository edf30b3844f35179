------------------------- MODULE CnssEventQueueProofs -------------------------
(***************************************************************************)
(* Proofs about the driver event queue, for any number of posters and any  *)
(* set of addresses.                                                       *)
(*                                                                         *)
(* Who frees an event is decided by event->sync, which the poster sets     *)
(* before the event is on the list and withdraws when it gives up.  The    *)
(* inductive invariant says what the flag stands for: an event that is     *)
(* queued or in hand is synchronous exactly when somebody waits for it,    *)
(* and an event somebody waits for has been completed exactly when the     *)
(* worker is done with it.                                                 *)
(*                                                                         *)
(* With the same invariant each step of the queue is one of the executor   *)
(* or a stutter (ExecutorStep).                                            *)
(***************************************************************************)
EXTENDS CnssEventQueue, SequenceTheorems, FiniteSetTheorems, TLAPS

-----------------------------------------------------------------------------
(***************************************************************************)
(* The inductive invariant                                                 *)
(***************************************************************************)

\* The events the worker is going to handle or is handling.
Queued == Listed \cup InHand

\* The poster waits for its event, or is about to.
Waiting(p) ==
    \/ ppc[p] \in {"wait", "collect", "reap"}
    \/ ppc[p] = "kick" /\ pmode[p] # "async"

\* An event is completed in the step that stores its result.
CompletedIsReported == \A e \in Events : done[e] <=> ret[e] # PENDING

\* Nothing is left in an event that is going to be allocated.
FreedIsBlank == \A e \in Events \ live : ~done[e]

\* An event that is not on the list yet is its poster's only.
EnqueuingIsPrivate ==
    \A p \in Posters : ppc[p] = "enqueue" =>
        /\ pevent[p] \notin Queued
        /\ ~done[pevent[p]]
        /\ sync[pevent[p]] = (pmode[p] # "async")

\* Whoever waits has marked the event, and it is completed exactly when the
\* worker has let go of it.
WaitedIsMarked ==
    \A p \in Posters : Waiting(p) =>
        /\ sync[pevent[p]]
        /\ done[pevent[p]] <=> pevent[p] \notin Queued

\* Whatever is marked is waited for.
MarkedIsWaited ==
    \A e \in Queued : sync[e] => \E p \in Posters : Waiting(p) /\ pevent[p] = e

\* A wait that no signal ended was ended by the worker, and so was one whose
\* event the poster is going to free.
CollectedIsDone ==
    \A p \in Posters :
        /\ ppc[p] = "collect" /\ ~psignal[p] => done[pevent[p]]
        /\ ppc[p] = "reap" => done[pevent[p]]

\* The worker only frees what nobody waits for.
FreedIsUnmarked == wpc = "free" => ~sync[wevent]

Ownership ==
    /\ CompletedIsReported
    /\ FreedIsBlank
    /\ EnqueuingIsPrivate
    /\ WaitedIsMarked
    /\ MarkedIsWaited
    /\ CollectedIsDone
    /\ FreedIsUnmarked

-----------------------------------------------------------------------------
(***************************************************************************)
(* Type correctness                                                        *)
(***************************************************************************)

USE DEF vars, heapVars, workerVars, posterVars

LEMMA TakeNextType ==
    ASSUME TypeOK, TakeNext
    PROVE  /\ list' \in Seq(Events)
           /\ wpc' \in {"relax", "handle"}
           /\ wpc' = "handle" => wevent' \in Events
           /\ wevent' \in Events \cup {NoEvent}
<1> USE DEF TypeOK, TakeNext
<1>1. CASE list = <<>>
    BY <1>1
<1>2. CASE list # <<>>
    <2>1. Head(list) \in Events /\ Tail(list) \in Seq(Events)
        BY <1>2, HeadTailProperties
    <2> QED
        BY <1>2, <2>1
<1> QED
    BY <1>1, <1>2

\* A thread that is inside holds the address of an event, so that only
\* addresses ever reach the list.
InsideHasEvent ==
    /\ \A p \in Posters : ppc[p] # "idle" => pevent[p] \in Events
    /\ wpc \in {"handle", "report", "free"} => wevent \in Events

TypeInv == TypeOK /\ InsideHasEvent

\* Every step keeps every variable in its type.
LEMMA TypeStep ==
    ASSUME TypeInv, [Next]_vars
    PROVE  TypeInv'
<1> USE EventQueueAssumption DEF TypeInv, TypeOK, InsideHasEvent, PosterLabels, WorkerLabels, Modes
<1>1. CASE UNCHANGED vars
    BY <1>1
<1>2. ASSUME NEW p \in Posters, Post(p) PROVE TypeInv'
    <2> USE DEF Goto
    <2>1. CASE PostNoMemory(p)
        BY <2>1 DEF PostNoMemory
    <2>2. ASSUME NEW e \in Events, NEW mode \in Modes, PostAlloc(p, e, mode)
          PROVE  TypeInv'
        BY <2>2 DEF PostAlloc, StayAwake
    <2>3. CASE PostEnqueue(p)
        BY <2>3 DEF PostEnqueue
    <2>4. CASE PostKick(p)
        BY <2>4 DEF PostKick
    <2>5. CASE PostCompleted(p)
        BY <2>5 DEF PostCompleted
    <2>6. CASE PostSignalled(p)
        BY <2>6 DEF PostSignalled, Signalable
    <2>7. CASE PostGiveUp(p)
        BY <2>7 DEF PostGiveUp
    <2>8. CASE PostKeep(p)
        BY <2>8 DEF PostKeep
    <2>9. CASE PostReap(p)
        BY <2>9 DEF PostReap, Kfree
    <2>10. CASE PostOut(p)
        BY <2>10 DEF PostOut, Relax
    <2> QED
        BY <1>2, <2>1, <2>2, <2>3, <2>4, <2>5, <2>6, <2>7, <2>8, <2>9, <2>10 DEF Post
<1>3. ASSUME Work PROVE TypeInv'
    <2>1. CASE WorkStart
        <3>1. workPending' \in BOOLEAN
            BY <2>1 DEF WorkStart
        <3>2. pmCount' \in Int
            BY <2>1 DEF WorkStart, StayAwake
        <3> QED
            BY <2>1, <3>1, <3>2 DEF WorkStart
    <2>2. CASE WorkFirst
        BY <2>2, TakeNextType DEF WorkFirst
    <2>3. ASSUME NEW r \in Results, WorkHandle(r) PROVE TypeInv'
        BY <2>3 DEF WorkHandle
    <2>4. CASE WorkReport
        BY <2>4, TakeNextType DEF WorkReport
    <2>5. CASE WorkOrphan
        BY <2>5 DEF WorkOrphan
    <2>6. CASE WorkFree
        BY <2>6 DEF WorkFree, Kfree
    <2>7. CASE WorkRelax
        BY <2>7 DEF WorkRelax, Relax
    <2> QED
        BY <1>3, <2>1, <2>2, <2>3, <2>4, <2>5, <2>6, <2>7 DEF Work
<1> QED
    BY <1>1, <1>2, <1>3 DEF Next

LEMMA TypeInvariant == Spec => []TypeInv
<1>1. Init => TypeInv
    <2> SUFFICES ASSUME Init PROVE TypeInv
        OBVIOUS
    <2> USE DEF Init
    <2>1. list \in Seq(Events) /\ live \subseteq Events
        BY EmptySeq
    <2>2. /\ sync \in [Events -> BOOLEAN]
          /\ ret  \in [Events -> Results \cup {PENDING}]
          /\ done \in [Events -> BOOLEAN]
        OBVIOUS
    <2>3. workPending \in BOOLEAN
        OBVIOUS
    <2>4. /\ wpc \in WorkerLabels
          /\ wevent \in Events \cup {NoEvent}
          /\ wret \in Results
          /\ pmCount \in Int
        BY EventQueueAssumption DEF WorkerLabels
    <2>5. /\ ppc \in [Posters -> PosterLabels]
          /\ pevent \in [Posters -> Events \cup {NoEvent}]
          /\ pmode \in [Posters -> Modes]
          /\ psignal \in [Posters -> BOOLEAN]
          /\ pret \in [Posters -> Results \cup {PENDING, EINTR, ENOMEM}]
        BY EventQueueAssumption DEF PosterLabels, Modes
    <2>6. InsideHasEvent
        BY DEF InsideHasEvent
    <2> QED
        BY <2>1, <2>2, <2>3, <2>4, <2>5, <2>6 DEF TypeInv, TypeOK
<1>2. TypeInv /\ [Next]_vars => TypeInv'
    BY TypeStep
<1> QED
    BY <1>1, <1>2, PTL DEF Spec

\* cnss_driver_event_post and cnss_driver_event_work keep the list, the heap
\* and their local state well typed.
THEOREM TypeCorrect == Spec => []TypeOK
<1>1. TypeInv => TypeOK
    BY DEF TypeInv
<1> QED
    BY <1>1, TypeInvariant, PTL

-----------------------------------------------------------------------------
(***************************************************************************)
(* The votes                                                               *)
(***************************************************************************)

Inside == {p \in Posters : ppc[p] # "idle"}

LEMMA InsideFinite == IsFiniteSet(Inside) /\ Cardinality(Inside) \in Nat
    BY EventQueueAssumption, FS_Subset, FS_CardinalityType DEF Inside

\* A poster that moves on inside the call changes no count ...
LEMMA InsidersStay ==
    ASSUME NEW p \in Posters, NEW label, TypeOK,
           ppc[p] # "idle", label # "idle", Goto(p, label)
    PROVE  Insiders' = Insiders
<1>1. Inside' = Inside
    BY DEF Inside, Goto, TypeOK
<1> QED
    BY <1>1 DEF Insiders, Inside

\* ... one that enters adds one, and one that returns takes one away.
LEMMA InsidersEnter ==
    ASSUME NEW p \in Posters, NEW label, TypeOK,
           ppc[p] = "idle", label # "idle", Goto(p, label)
    PROVE  Insiders' = Insiders + 1
<1>1. Inside' = Inside \cup {p} /\ p \notin Inside
    BY DEF Inside, Goto, TypeOK
<1>2. Cardinality(Inside') = Cardinality(Inside) + 1
    BY <1>1, InsideFinite, FS_AddElement
<1> QED
    BY <1>2 DEF Insiders, Inside

LEMMA InsidersLeave ==
    ASSUME NEW p \in Posters, TypeOK, ppc[p] # "idle", Goto(p, "idle")
    PROVE  Insiders' = Insiders - 1
<1>1. Inside' = Inside \ {p} /\ p \in Inside
    BY DEF Inside, Goto, TypeOK
<1>2. Cardinality(Inside') = Cardinality(Inside) - 1
    BY <1>1, InsideFinite, FS_RemoveElement
<1> QED
    BY <1>2 DEF Insiders, Inside

LEMMA InsidersSame ==
    ASSUME UNCHANGED ppc
    PROVE  Insiders' = Insiders
    BY DEF Insiders

LEMMA InsidersNat == Insiders \in Nat
    BY InsideFinite DEF Insiders, Inside

\* Every step keeps the votes balanced.
LEMMA PmStep ==
    ASSUME TypeInv, PmBalanced, [Next]_vars
    PROVE  PmBalanced'
<1> USE InsidersNat DEF TypeInv, PmBalanced
<1>1. CASE UNCHANGED vars
    BY <1>1, InsidersSame
<1>2. ASSUME NEW p \in Posters, Post(p) PROVE PmBalanced'
    <2>1. CASE PostNoMemory(p)
        BY <2>1, InsidersSame DEF PostNoMemory
    <2>2. ASSUME NEW e \in Events, NEW mode \in Modes, PostAlloc(p, e, mode)
          PROVE  PmBalanced'
        <3>1. Insiders' = Insiders + 1
            BY <2>2, InsidersEnter DEF PostAlloc
        <3> QED
            BY <2>2, <3>1 DEF PostAlloc, StayAwake
    <2>3. CASE PostEnqueue(p)
        <3>1. Insiders' = Insiders
            BY <2>3, InsidersStay DEF PostEnqueue
        <3> QED
            BY <2>3, <3>1 DEF PostEnqueue
    <2>4. CASE PostKick(p)
        <3>1. Insiders' = Insiders
            BY <2>4, InsidersStay DEF PostKick
        <3> QED
            BY <2>4, <3>1 DEF PostKick
    <2>5. CASE PostCompleted(p)
        <3>1. Insiders' = Insiders
            BY <2>5, InsidersStay DEF PostCompleted
        <3> QED
            BY <2>5, <3>1 DEF PostCompleted
    <2>6. CASE PostSignalled(p)
        <3>1. Insiders' = Insiders
            BY <2>6, InsidersStay DEF PostSignalled
        <3> QED
            BY <2>6, <3>1 DEF PostSignalled
    <2>7. CASE PostGiveUp(p)
        <3>1. Insiders' = Insiders
            BY <2>7, InsidersStay DEF PostGiveUp
        <3> QED
            BY <2>7, <3>1 DEF PostGiveUp
    <2>8. CASE PostKeep(p)
        <3>1. Insiders' = Insiders
            BY <2>8, InsidersStay DEF PostKeep
        <3> QED
            BY <2>8, <3>1 DEF PostKeep
    <2>9. CASE PostReap(p)
        <3>1. Insiders' = Insiders
            BY <2>9, InsidersStay DEF PostReap
        <3> QED
            BY <2>9, <3>1 DEF PostReap
    <2>10. CASE PostOut(p)
        <3>1. Insiders' = Insiders - 1
            BY <2>10, InsidersLeave DEF PostOut
        <3> QED
            BY <2>10, <3>1 DEF PostOut, Relax
    <2> QED
        BY <1>2, <2>1, <2>2, <2>3, <2>4, <2>5, <2>6, <2>7, <2>8, <2>9, <2>10
        DEF Post
<1>3. ASSUME Work PROVE PmBalanced'
    <2>1. Insiders' = Insiders
        BY <1>3, InsidersSame
        DEF Work, WorkStart, WorkFirst, WorkHandle, WorkReport, WorkOrphan,
            WorkFree, WorkRelax
    <2>2. CASE WorkStart
        BY <2>1, <2>2 DEF WorkStart, StayAwake
    <2>3. CASE WorkRelax
        BY <2>1, <2>3 DEF WorkRelax, Relax
    <2>4. CASE ~WorkStart /\ ~WorkRelax
        <3>1. wpc # "idle" /\ wpc' # "idle" /\ UNCHANGED pmCount
            BY <1>3, <2>4
            DEF Work, WorkFirst, WorkHandle, WorkReport, WorkOrphan, WorkFree,
                TakeNext
        <3> QED
            BY <2>1, <3>1
    <2> QED
        BY <2>2, <2>3, <2>4
<1> QED
    BY <1>1, <1>2, <1>3 DEF Next

\* cnss_pm_stay_awake and cnss_pm_relax balance on every way through
\* cnss_driver_event_post and cnss_driver_event_work.
THEOREM VotesBalance == Spec => []PmBalanced
<1>1. Init => PmBalanced
    <2> SUFFICES ASSUME Init PROVE PmBalanced
        OBVIOUS
    <2>1. {p \in Posters : ppc[p] # "idle"} = {}
        BY DEF Init
    <2>2. Insiders = 0
        BY <2>1, FS_EmptySet DEF Insiders
    <2> QED
        BY <2>2 DEF Init, PmBalanced
<1>2. Spec => []TypeInv
    BY TypeInvariant
<1>3. TypeInv /\ PmBalanced /\ [Next]_vars => PmBalanced'
    BY PmStep
<1> QED
    BY <1>1, <1>2, <1>3, PTL DEF Spec

-----------------------------------------------------------------------------
(***************************************************************************)
(* Ownership                                                               *)
(***************************************************************************)

Items(s)    == {s[i] : i \in 1..Len(s)}
Distinct(s) == \A i, j \in 1..Len(s) : s[i] = s[j] => i = j

LEMMA ItemsAppend ==
    ASSUME NEW S, NEW s \in Seq(S), NEW x \in S
    PROVE  /\ Items(Append(s, x)) = Items(s) \cup {x}
           /\ Distinct(s) /\ x \notin Items(s) => Distinct(Append(s, x))
<1> DEFINE t == Append(s, x)
<1>1. /\ Len(s) \in Nat /\ Len(t) = Len(s) + 1
      /\ \A i \in 1..Len(s) : t[i] = s[i]
      /\ t[Len(s) + 1] = x
    BY AppendProperties, LenProperties
<1> HIDE DEF t
<1>2. Items(t) = Items(s) \cup {x}
    BY <1>1 DEF Items
<1>3. Distinct(s) /\ x \notin Items(s) => Distinct(t)
    BY <1>1 DEF Items, Distinct
<1> QED
    BY <1>2, <1>3 DEF t

LEMMA ItemsTail ==
    ASSUME NEW S, NEW s \in Seq(S), s # <<>>, Distinct(s)
    PROVE  /\ Head(s) \in Items(s)
           /\ Items(Tail(s)) = Items(s) \ {Head(s)}
           /\ Distinct(Tail(s))
<1> DEFINE t == Tail(s)
<1>1. /\ Len(s) \in Nat \ {0} /\ Len(t) = Len(s) - 1
      /\ \A i \in 1..Len(t) : t[i] = s[i + 1]
      /\ Head(s) = s[1]
    BY EmptySeq, HeadTailProperties
<1> HIDE DEF t
<1>2. Head(s) \in Items(s)
    BY <1>1 DEF Items
<1>3. Items(t) \subseteq Items(s) \ {Head(s)}
    BY <1>1 DEF Items, Distinct
<1>4. ASSUME NEW x \in Items(s), x # Head(s) PROVE x \in Items(t)
    <2>1. PICK i \in 1..Len(s) : x = s[i]
        BY DEF Items
    <2>2. i - 1 \in 1..Len(t) /\ t[i - 1] = x
        BY <1>1, <1>4, <2>1
    <2> QED
        BY <2>2 DEF Items
<1>5. Distinct(t)
    BY <1>1 DEF Distinct
<1> QED
    BY <1>2, <1>3, <1>4, <1>5 DEF t

\* The head of the worker's loop moves one event from the list to its hand.
LEMMA TakeMoves ==
    ASSUME TypeOK, Distinct(list), TakeNext
    PROVE  /\ Listed' \cup InHand' = Listed
           /\ Listed' \cap InHand' = {}
           /\ Distinct(list')
           /\ wpc' # "free"
<1>1. CASE list = <<>>
    BY <1>1 DEF TakeNext, InHand, Listed
<1>2. CASE list # <<>>
    <2>1. /\ Head(list) \in Items(list)
          /\ Items(Tail(list)) = Items(list) \ {Head(list)}
          /\ Distinct(Tail(list))
        BY <1>2, ItemsTail DEF TypeOK
    <2>2. list' = Tail(list) /\ wpc' = "handle" /\ wevent' = Head(list)
        BY <1>2 DEF TakeNext
    <2>3. Listed = Items(list) /\ Listed' = Items(Tail(list))
        BY <2>2 DEF Listed, Items
    <2>4. InHand' = {Head(list)}
        BY <2>2 DEF InHand
    <2> QED
        BY <2>1, <2>2, <2>3, <2>4
<1> QED
    BY <1>1, <1>2

(***************************************************************************)
(* NoDanglingEvent and NoLeakedEvent element by element, as the proofs use *)
(* them.                                                                   *)
(***************************************************************************)

NothingTwice == Distinct(list) /\ Listed \cap InHand = {}

QueuedIsLive == \A e \in Queued : e \in live

HeldIsLive == \A p \in Posters : Holds(p) => pevent[p] \in live

OneHolder ==
    \A p, q \in Posters : Holds(p) /\ Holds(q) /\ pevent[p] = pevent[q] => p = q

LiveIsReached ==
    \A e \in live : e \in Queued \/ \E p \in Posters : Holds(p) /\ pevent[p] = e

Custody ==
    NothingTwice /\ QueuedIsLive /\ HeldIsLive /\ OneHolder /\ LiveIsReached

LEMMA CustodyMeans == Custody <=> NoDanglingEvent /\ NoLeakedEvent
    BY DEF Custody, NothingTwice, QueuedIsLive, HeldIsLive, OneHolder,
           LiveIsReached, NoDanglingEvent, NoLeakedEvent, Distinct, Queued, Held

\* Steps that move no event and change nothing in one.
LEMMA Frame ==
    ASSUME Custody, Ownership,
           UNCHANGED <<list, live, sync, ret, done>>,
           InHand' = InHand,
           \A q \in Posters :
               /\ Waiting(q)' <=> Waiting(q)
               /\ ppc'[q] = "enqueue" <=> ppc[q] = "enqueue"
               /\ Holds(q) => pevent'[q] = pevent[q] /\ pmode'[q] = pmode[q],
           CollectedIsDone', FreedIsUnmarked'
    PROVE  Custody' /\ Ownership'
<1>1. Listed' = Listed /\ Queued' = Queued
    BY DEF Listed, Queued
<1>2. \A q \in Posters :
          /\ Holds(q) <=> ppc[q] = "enqueue" \/ Waiting(q)
          /\ Holds(q)' <=> Holds(q)
    BY DEF Holds, Waiting
<1>3. Custody'
    <2> USE <1>1, <1>2 DEF Custody
    <2>1. NothingTwice'
        BY DEF NothingTwice, Distinct
    <2>2. QueuedIsLive'
        BY DEF QueuedIsLive
    <2>3. HeldIsLive'
        BY DEF HeldIsLive
    <2>4. OneHolder'
        BY DEF OneHolder
    <2>5. LiveIsReached'
        BY DEF LiveIsReached
    <2> QED
        BY <2>1, <2>2, <2>3, <2>4, <2>5
<1>4. Ownership'
    <2> USE <1>1, <1>2 DEF Ownership
    <2>1. CompletedIsReported' /\ FreedIsBlank'
        BY DEF CompletedIsReported, FreedIsBlank
    <2>2. EnqueuingIsPrivate'
        BY DEF EnqueuingIsPrivate
    <2>3. WaitedIsMarked'
        BY DEF WaitedIsMarked
    <2>4. MarkedIsWaited'
        BY DEF MarkedIsWaited
    <2> QED
        BY <2>1, <2>2, <2>3, <2>4
<1> QED
    BY <1>3, <1>4

\* The steps of a poster that only move it on.
LEMMA PosterMoves ==
    ASSUME TypeInv, Custody, Ownership, NEW p \in Posters,
           \/ PostNoMemory(p) \/ PostKick(p) \/ PostCompleted(p)
           \/ PostSignalled(p) \/ PostKeep(p) \/ PostOut(p)
    PROVE  Custody' /\ Ownership'
<1> USE DEF TypeInv, TypeOK
<1>1. /\ UNCHANGED <<list, live, sync, ret, done>>
      /\ UNCHANGED <<wpc, wevent>>
      /\ \A q \in Posters : Holds(q) => pevent'[q] = pevent[q] /\ pmode'[q] = pmode[q]
    BY DEF PostNoMemory, PostKick, PostCompleted, PostSignalled, PostKeep,
           PostOut, Holds
<1>2. InHand' = InHand /\ FreedIsUnmarked'
    BY <1>1 DEF InHand, FreedIsUnmarked, Ownership
<1>3. \A q \in Posters : /\ Waiting(q)' <=> Waiting(q)
                         /\ ppc'[q] = "enqueue" <=> ppc[q] = "enqueue"
    BY DEF PostNoMemory, PostKick, PostCompleted, PostSignalled, PostKeep,
           PostOut, Goto, Waiting
<1>4. CollectedIsDone'
    <2> USE DEF CollectedIsDone, Goto, Ownership
    <2>1. CASE PostNoMemory(p)
        BY <2>1 DEF PostNoMemory
    <2>2. CASE PostKick(p)
        BY <2>2 DEF PostKick
    <2>3. CASE PostCompleted(p)
        BY <2>3 DEF PostCompleted
    <2>4. CASE PostSignalled(p)
        BY <2>4 DEF PostSignalled
    <2>5. CASE PostKeep(p)
        <3>1. done[pevent[p]]
            <4>1. ppc[p] = "collect" /\ pevent[p] \in Events
                BY <2>5 DEF PostKeep, InsideHasEvent
            <4>2. ~psignal[p] \/ ret[pevent[p]] # PENDING
                BY <2>5 DEF PostKeep
            <4> QED
                BY <4>1, <4>2 DEF CompletedIsReported
        <3> QED
            BY <2>5, <3>1 DEF PostKeep
    <2>6. CASE PostOut(p)
        BY <2>6 DEF PostOut
    <2> QED
        BY <2>1, <2>2, <2>3, <2>4, <2>5, <2>6
<1> QED
    BY <1>1, <1>2, <1>3, <1>4, Frame

\* The steps of the worker that move no event.
LEMMA WorkerMoves ==
    ASSUME TypeInv, Custody, Ownership,
           \/ WorkStart \/ (\E r \in Results : WorkHandle(r))
           \/ WorkOrphan \/ WorkRelax
    PROVE  Custody' /\ Ownership'
<1>1. /\ UNCHANGED <<list, live, sync, ret, done>>
      /\ UNCHANGED <<ppc, pevent, pmode, psignal, wevent>>
    BY DEF WorkStart, WorkHandle, WorkOrphan, WorkRelax
<1>2. InHand' = InHand
    BY DEF WorkStart, WorkHandle, WorkOrphan, WorkRelax, InHand
<1>3. \A q \in Posters : /\ Waiting(q)' <=> Waiting(q)
                         /\ ppc'[q] = "enqueue" <=> ppc[q] = "enqueue"
                         /\ Holds(q) => pevent'[q] = pevent[q] /\ pmode'[q] = pmode[q]
    BY <1>1 DEF Waiting
<1>4. CollectedIsDone'
    BY <1>1 DEF CollectedIsDone, Ownership
<1>5. FreedIsUnmarked'
    BY DEF WorkStart, WorkHandle, WorkOrphan, WorkRelax, FreedIsUnmarked
<1> QED
    BY <1>1, <1>2, <1>3, <1>4, <1>5, Frame

LEMMA HoldsSplit ==
    \A p \in Posters : Holds(p) <=> ppc[p] = "enqueue" \/ Waiting(p)
    BY DEF Holds, Waiting

\* What the invariants say of the event of a poster, wherever it stands.
LEMMA WaitedIsHeld ==
    ASSUME TypeInv, NEW p \in Posters, Holds(p)
    PROVE  pevent[p] \in Events
    BY DEF TypeInv, TypeOK, InsideHasEvent, Holds

\* A fresh address is nobody's, and becomes the poster's.
LEMMA AllocStep ==
    ASSUME TypeInv, Custody, Ownership, NEW p \in Posters,
           NEW e \in Events, NEW mode \in Modes, PostAlloc(p, e, mode)
    PROVE  Custody' /\ Ownership'
<1> USE DEF TypeInv, TypeOK
<1>1. /\ e \notin live /\ live' = live \cup {e}
      /\ UNCHANGED <<list, ret, done, wpc, wevent, psignal>>
      /\ sync'[e] = (mode # "async")
      /\ \A x \in Events : x # e => sync'[x] = sync[x]
    BY DEF PostAlloc
<1>2. /\ ppc[p] = "idle" /\ ppc'[p] = "enqueue"
      /\ pevent'[p] = e /\ pmode'[p] = mode
      /\ \A q \in Posters : q # p => /\ ppc'[q] = ppc[q]
                                     /\ pevent'[q] = pevent[q]
                                     /\ pmode'[q] = pmode[q]
    BY DEF PostAlloc, Goto
<1>3. Queued' = Queued /\ Listed' = Listed /\ InHand' = InHand /\ e \notin Queued
    BY <1>1 DEF Queued, Listed, InHand, Custody, QueuedIsLive
<1>4. /\ ~Waiting(p) /\ ~Holds(p) /\ ~Waiting(p)' /\ Holds(p)'
      /\ \A q \in Posters : q # p => /\ Waiting(q)' <=> Waiting(q)
                                     /\ Holds(q)' <=> Holds(q)
    BY <1>2 DEF Waiting, Holds
<1>5. \A q \in Posters : Holds(q) => pevent[q] # e /\ pevent[q] \in Events
    BY <1>1, WaitedIsHeld DEF Custody, HeldIsLive
<1>6. Custody'
    <2>1. NothingTwice'
        BY <1>1, <1>3 DEF Custody, NothingTwice, Distinct
    <2>2. QueuedIsLive'
        BY <1>1, <1>3 DEF Custody, QueuedIsLive
    <2>3. HeldIsLive'
        BY <1>1, <1>2, <1>4 DEF Custody, HeldIsLive
    <2>4. OneHolder'
        BY <1>2, <1>4, <1>5 DEF Custody, OneHolder
    <2>5. LiveIsReached'
        BY <1>1, <1>2, <1>3, <1>4 DEF Custody, LiveIsReached
    <2> QED
        BY <2>1, <2>2, <2>3, <2>4, <2>5 DEF Custody
<1>7. Ownership'
    <2> USE DEF Ownership
    <2>1. CompletedIsReported' /\ FreedIsBlank'
        BY <1>1 DEF CompletedIsReported, FreedIsBlank
    <2>2. EnqueuingIsPrivate'
        BY <1>1, <1>2, <1>3, <1>5, HoldsSplit DEF EnqueuingIsPrivate, FreedIsBlank
    <2>3. WaitedIsMarked'
        BY <1>1, <1>2, <1>3, <1>4, <1>5, HoldsSplit DEF WaitedIsMarked
    <2>4. MarkedIsWaited'
        <3>1. \A x \in Queued : x \in live /\ x # e /\ x \in Events
            BY <1>3 DEF Custody, QueuedIsLive
        <3> QED
            BY <1>1, <1>2, <1>3, <1>4, <3>1 DEF MarkedIsWaited
    <2>5. CollectedIsDone'
        BY <1>1, <1>2 DEF CollectedIsDone
    <2>6. FreedIsUnmarked'
        <3>1. wpc = "free" => wevent \in Queued
            BY DEF Queued, InHand
        <3>2. wpc = "free" => wevent \in Events
            BY DEF InsideHasEvent
        <3> QED
            BY <1>1, <1>3, <3>1, <3>2 DEF FreedIsUnmarked
    <2> QED
        BY <2>1, <2>2, <2>3, <2>4, <2>5, <2>6
<1> QED
    BY <1>6, <1>7

\* list_add_tail: the event is the worker's, and still the poster's when it
\* is going to wait.
LEMMA EnqueueStep ==
    ASSUME TypeInv, Custody, Ownership, NEW p \in Posters, PostEnqueue(p)
    PROVE  Custody' /\ Ownership'
<1> DEFINE e == pevent[p]
<1> USE DEF TypeInv, TypeOK
<1>1. /\ UNCHANGED <<live, sync, ret, done, wpc, wevent, pevent, pmode, psignal>>
      /\ ppc[p] = "enqueue" /\ ppc'[p] = "kick"
      /\ \A q \in Posters : q # p => ppc'[q] = ppc[q]
      /\ list' = Append(list, e)
    BY DEF PostEnqueue, Goto
<1>2. /\ e \in Events /\ e \in live /\ e \notin Queued /\ ~done[e]
      /\ sync[e] = (pmode[p] # "async")
    BY <1>1 DEF InsideHasEvent, Custody, HeldIsLive, Holds, Ownership,
                EnqueuingIsPrivate
<1>3. /\ Items(list') = Items(list) \cup {e}
      /\ Distinct(list) /\ e \notin Items(list) => Distinct(list')
    BY <1>1, <1>2, ItemsAppend
<1>4. Listed' = Items(list') /\ Listed = Items(list) /\ InHand' = InHand
    BY <1>1 DEF Listed, Items, InHand
<1>5. /\ Listed' = Listed \cup {e} /\ Queued' = Queued \cup {e}
      /\ e \notin Listed /\ e \notin InHand /\ (Distinct(list) => Distinct(list'))
    BY <1>2, <1>3, <1>4 DEF Queued
<1>6. /\ ~Waiting(p) /\ Holds(p)
      /\ Waiting(p)' <=> pmode[p] # "async"
      /\ Holds(p)' <=> pmode[p] # "async"
      /\ \A q \in Posters : q # p => /\ Waiting(q)' <=> Waiting(q)
                                     /\ Holds(q)' <=> Holds(q)
    BY <1>1 DEF Waiting, Holds
<1>7. \A q \in Posters : q # p /\ Holds(q) => pevent[q] # e
    BY <1>6 DEF Custody, OneHolder
<1>8. Custody'
    <2> HIDE DEF e
    <2>1. NothingTwice'
        BY <1>4, <1>5 DEF Custody, NothingTwice
    <2>2. QueuedIsLive'
        BY <1>1, <1>2, <1>5 DEF Custody, QueuedIsLive
    <2>3. HeldIsLive'
        BY <1>1, <1>6 DEF Custody, HeldIsLive
    <2>4. OneHolder'
        BY <1>1, <1>6 DEF Custody, OneHolder
    <2>5. LiveIsReached'
        <3> USE DEF e
        <3> QED
            BY <1>1, <1>5, <1>6 DEF Custody, LiveIsReached
    <2> QED
        BY <2>1, <2>2, <2>3, <2>4, <2>5 DEF Custody
<1>9. Ownership'
    <2> USE DEF Ownership
    <2>1. CompletedIsReported' /\ FreedIsBlank'
        BY <1>1 DEF CompletedIsReported, FreedIsBlank
    <2>2. EnqueuingIsPrivate'
        BY <1>1, <1>5, <1>7, HoldsSplit DEF EnqueuingIsPrivate
    <2>3. WaitedIsMarked'
        BY <1>1, <1>2, <1>5, <1>6, <1>7, HoldsSplit DEF WaitedIsMarked
    <2>4. MarkedIsWaited'
        BY <1>1, <1>2, <1>5, <1>6 DEF MarkedIsWaited
    <2>5. CollectedIsDone'
        BY <1>1 DEF CollectedIsDone
    <2>6. FreedIsUnmarked'
        BY <1>1 DEF FreedIsUnmarked
    <2> QED
        BY <2>1, <2>2, <2>3, <2>4, <2>5, <2>6
<1> QED
    BY <1>8, <1>9

\* A caller that gives up leaves an event that is not reported to the worker.
LEMMA GiveUpStep ==
    ASSUME TypeInv, Custody, Ownership, NEW p \in Posters, PostGiveUp(p)
    PROVE  Custody' /\ Ownership'
<1> DEFINE e == pevent[p]
<1> USE DEF TypeInv, TypeOK
<1>1. /\ UNCHANGED <<list, live, ret, done, wpc, wevent, pevent, pmode, psignal>>
      /\ ppc[p] = "collect" /\ ppc'[p] = "out" /\ ret[e] = PENDING
      /\ \A q \in Posters : q # p => ppc'[q] = ppc[q]
      /\ e \in Events /\ ~sync'[e]
      /\ \A x \in Events : x # e => sync'[x] = sync[x]
    BY DEF PostGiveUp, Goto, InsideHasEvent
<1>2. Listed' = Listed /\ InHand' = InHand /\ Queued' = Queued
    BY <1>1 DEF Listed, InHand, Queued
<1>3. /\ Waiting(p) /\ Holds(p) /\ ~Waiting(p)' /\ ~Holds(p)'
      /\ \A q \in Posters : q # p => /\ Waiting(q)' <=> Waiting(q)
                                     /\ Holds(q)' <=> Holds(q)
    BY <1>1 DEF Waiting, Holds
<1>4. ~done[e] /\ e \in Queued
    BY <1>1, <1>3 DEF Ownership, CompletedIsReported, WaitedIsMarked
<1>5. \A q \in Posters : q # p /\ Holds(q) => pevent[q] # e /\ pevent[q] \in Events
    BY <1>3, WaitedIsHeld DEF Custody, OneHolder
<1>6. Custody'
    <2>1. NothingTwice'
        BY <1>1, <1>2 DEF Custody, NothingTwice, Distinct
    <2>2. QueuedIsLive'
        BY <1>1, <1>2 DEF Custody, QueuedIsLive
    <2>3. HeldIsLive'
        BY <1>1, <1>3 DEF Custody, HeldIsLive
    <2>4. OneHolder'
        BY <1>1, <1>3 DEF Custody, OneHolder
    <2>5. LiveIsReached'
        BY <1>1, <1>2, <1>3, <1>4 DEF Custody, LiveIsReached
    <2> QED
        BY <2>1, <2>2, <2>3, <2>4, <2>5 DEF Custody
<1>7. Ownership'
    <2> USE DEF Ownership
    <2>1. CompletedIsReported' /\ FreedIsBlank'
        BY <1>1 DEF CompletedIsReported, FreedIsBlank
    <2>2. EnqueuingIsPrivate'
        BY <1>1, <1>2, <1>5, HoldsSplit DEF EnqueuingIsPrivate
    <2>3. WaitedIsMarked'
        BY <1>1, <1>2, <1>3, <1>5, HoldsSplit DEF WaitedIsMarked
    <2>4. MarkedIsWaited'
        <3>1. \A x \in Queued : x \in Events
            BY DEF Custody, QueuedIsLive
        <3> QED
            BY <1>1, <1>2, <1>3, <3>1 DEF MarkedIsWaited
    <2>5. CollectedIsDone'
        BY <1>1 DEF CollectedIsDone
    <2>6. FreedIsUnmarked'
        <3>1. wpc = "free" => wevent \in Events
            BY DEF InsideHasEvent
        <3> QED
            BY <1>1, <3>1 DEF FreedIsUnmarked
    <2> QED
        BY <2>1, <2>2, <2>3, <2>4, <2>5, <2>6
<1> QED
    BY <1>6, <1>7

\* The caller frees an event the worker has let go of.
LEMMA ReapStep ==
    ASSUME TypeInv, Custody, Ownership, NEW p \in Posters, PostReap(p)
    PROVE  Custody' /\ Ownership'
<1> DEFINE e == pevent[p]
<1> USE DEF TypeInv, TypeOK
<1>1. /\ UNCHANGED <<list, wpc, wevent, pevent, pmode, psignal>>
      /\ ppc[p] = "reap" /\ ppc'[p] = "out"
      /\ \A q \in Posters : q # p => ppc'[q] = ppc[q]
      /\ e \in Events /\ live' = live \ {e}
      /\ ~done'[e] /\ ret'[e] = PENDING
      /\ \A x \in Events : x # e => /\ sync'[x] = sync[x]
                                    /\ ret'[x] = ret[x]
                                    /\ done'[x] = done[x]
    BY DEF PostReap, Kfree, Goto, InsideHasEvent
<1>2. Listed' = Listed /\ InHand' = InHand /\ Queued' = Queued
    BY <1>1 DEF Listed, InHand, Queued
<1>3. /\ Waiting(p) /\ Holds(p) /\ ~Waiting(p)' /\ ~Holds(p)'
      /\ \A q \in Posters : q # p => /\ Waiting(q)' <=> Waiting(q)
                                     /\ Holds(q)' <=> Holds(q)
    BY <1>1 DEF Waiting, Holds
<1>4. done[e] /\ e \notin Queued
    BY <1>1, <1>3 DEF Ownership, CollectedIsDone, WaitedIsMarked
<1>5. \A q \in Posters : q # p /\ Holds(q) => pevent[q] # e /\ pevent[q] \in Events
    BY <1>3, WaitedIsHeld DEF Custody, OneHolder
<1>6. Custody'
    <2>1. NothingTwice'
        BY <1>1, <1>2 DEF Custody, NothingTwice, Distinct
    <2>2. QueuedIsLive'
        BY <1>1, <1>2, <1>4 DEF Custody, QueuedIsLive
    <2>3. HeldIsLive'
        BY <1>1, <1>3, <1>5 DEF Custody, HeldIsLive
    <2>4. OneHolder'
        BY <1>1, <1>3 DEF Custody, OneHolder
    <2>5. LiveIsReached'
        BY <1>1, <1>2, <1>3 DEF Custody, LiveIsReached
    <2> QED
        BY <2>1, <2>2, <2>3, <2>4, <2>5 DEF Custody
<1>7. Ownership'
    <2> USE DEF Ownership
    <2>1. CompletedIsReported' /\ FreedIsBlank'
        BY <1>1 DEF CompletedIsReported, FreedIsBlank
    <2>2. EnqueuingIsPrivate'
        BY <1>1, <1>2, <1>5, HoldsSplit DEF EnqueuingIsPrivate
    <2>3. WaitedIsMarked'
        BY <1>1, <1>2, <1>3, <1>5, HoldsSplit DEF WaitedIsMarked
    <2>4. MarkedIsWaited'
        <3>1. \A x \in Queued : x \in Events /\ x # e
            BY <1>4 DEF Custody, QueuedIsLive
        <3> QED
            BY <1>1, <1>2, <1>3, <3>1 DEF MarkedIsWaited
    <2>5. CollectedIsDone'
        <3>1. \A q \in Posters : q # p /\ ppc[q] \in {"collect", "reap"} =>
                  pevent[q] # e /\ pevent[q] \in Events
            BY <1>5 DEF Holds
        <3> QED
            BY <1>1, <3>1 DEF CollectedIsDone
    <2>6. FreedIsUnmarked'
        <3>1. wpc = "free" => wevent \in Events /\ wevent # e
            BY <1>4 DEF InsideHasEvent, Queued, InHand
        <3> QED
            BY <1>1, <3>1 DEF FreedIsUnmarked
    <2> QED
        BY <2>1, <2>2, <2>3, <2>4, <2>5, <2>6
<1> QED
    BY <1>6, <1>7

\* The worker enters its loop: nothing is in its hand, and it takes the
\* first event.
LEMMA FirstStep ==
    ASSUME TypeInv, Custody, Ownership, WorkFirst
    PROVE  Custody' /\ Ownership'
<1> USE DEF TypeInv
<1>1. /\ UNCHANGED <<live, sync, ret, done, ppc, pevent, pmode, psignal>>
      /\ wpc = "first" /\ TakeNext
    BY DEF WorkFirst
<1>2. /\ Listed' \cup InHand' = Listed /\ Listed' \cap InHand' = {}
      /\ Distinct(list') /\ wpc' # "free"
    BY <1>1, TakeMoves DEF Custody, NothingTwice
<1>3. Queued' = Queued
    BY <1>1, <1>2 DEF Queued, InHand
<1>4. \A q \in Posters : Waiting(q)' = Waiting(q) /\ Holds(q)' = Holds(q)
    BY <1>1 DEF Waiting, Holds
<1>5. Custody'
    BY <1>1, <1>2, <1>3, <1>4
    DEF Custody, NothingTwice, QueuedIsLive, HeldIsLive, OneHolder, LiveIsReached
<1>6. Ownership'
    <2> USE DEF Ownership
    <2>1. CompletedIsReported' /\ FreedIsBlank'
        BY <1>1 DEF CompletedIsReported, FreedIsBlank
    <2>2. EnqueuingIsPrivate'
        BY <1>1, <1>3 DEF EnqueuingIsPrivate
    <2>3. WaitedIsMarked'
        BY <1>1, <1>3, <1>4 DEF WaitedIsMarked
    <2>4. MarkedIsWaited'
        BY <1>1, <1>3, <1>4 DEF MarkedIsWaited
    <2>5. CollectedIsDone' /\ FreedIsUnmarked'
        BY <1>1, <1>2 DEF CollectedIsDone, FreedIsUnmarked
    <2> QED
        BY <2>1, <2>2, <2>3, <2>4, <2>5
<1> QED
    BY <1>5, <1>6

\* The worker reports an event somebody waits for, and lets go of it.
LEMMA ReportStep ==
    ASSUME TypeInv, Custody, Ownership, WorkReport
    PROVE  Custody' /\ Ownership'
<1> DEFINE e == wevent
<1> USE EventQueueAssumption DEF TypeInv, TypeOK
<1>1. /\ UNCHANGED <<live, sync, ppc, pevent, pmode, psignal>>
      /\ wpc = "report" /\ sync[e] /\ TakeNext
      /\ e \in Events /\ done'[e] /\ ret'[e] # PENDING
      /\ \A x \in Events : x # e => ret'[x] = ret[x] /\ done'[x] = done[x]
    BY DEF WorkReport, InsideHasEvent
<1>2. /\ Listed' \cup InHand' = Listed /\ Listed' \cap InHand' = {}
      /\ Distinct(list') /\ wpc' # "free"
    BY <1>1, TakeMoves DEF Custody, NothingTwice
<1>3. Queued' = Queued \ {e} /\ e \in Queued
    BY <1>1, <1>2 DEF Queued, InHand, Custody, NothingTwice
<1>4. \A q \in Posters : Waiting(q)' = Waiting(q) /\ Holds(q)' = Holds(q)
    BY <1>1 DEF Waiting, Holds
<1>5. PICK p \in Posters : Waiting(p) /\ pevent[p] = e
    BY <1>1, <1>3 DEF Ownership, MarkedIsWaited
<1>6. \A q \in Posters : Holds(q) => pevent[q] \in Events
    BY WaitedIsHeld
<1>7. Custody'
    <2>1. NothingTwice'
        BY <1>2 DEF NothingTwice
    <2>2. QueuedIsLive'
        BY <1>1, <1>3 DEF Custody, QueuedIsLive
    <2>3. HeldIsLive' /\ OneHolder'
        BY <1>1, <1>4 DEF Custody, HeldIsLive, OneHolder
    <2>4. LiveIsReached'
        BY <1>1, <1>3, <1>4, <1>5, HoldsSplit DEF Custody, LiveIsReached
    <2> QED
        BY <2>1, <2>2, <2>3, <2>4 DEF Custody
<1>8. Ownership'
    <2> USE DEF Ownership
    <2>1. CompletedIsReported'
        BY <1>1 DEF CompletedIsReported
    <2>2. FreedIsBlank'
        BY <1>1, <1>3 DEF FreedIsBlank, Custody, QueuedIsLive
    <2>3. EnqueuingIsPrivate'
        BY <1>1, <1>3, <1>6, HoldsSplit DEF EnqueuingIsPrivate
    <2>4. WaitedIsMarked'
        BY <1>1, <1>3, <1>4, <1>6, HoldsSplit DEF WaitedIsMarked
    <2>5. MarkedIsWaited'
        BY <1>1, <1>3, <1>4 DEF MarkedIsWaited
    <2>6. CollectedIsDone'
        <3>1. \A q \in Posters : ppc[q] \in {"collect", "reap"} => pevent[q] \in Events
            BY <1>6 DEF Holds
        <3> QED
            BY <1>1, <3>1 DEF CollectedIsDone
    <2>7. FreedIsUnmarked'
        BY <1>2 DEF FreedIsUnmarked
    <2> QED
        BY <2>1, <2>2, <2>3, <2>4, <2>5, <2>6, <2>7
<1> QED
    BY <1>7, <1>8

\* The worker frees an event nobody waits for.
LEMMA FreeStep ==
    ASSUME TypeInv, Custody, Ownership, WorkFree
    PROVE  Custody' /\ Ownership'
<1> DEFINE e == wevent
<1> USE DEF TypeInv, TypeOK
<1>1. /\ UNCHANGED <<list, ppc, pevent, pmode, psignal>>
      /\ wpc = "free" /\ wpc' = "first"
      /\ e \in Events /\ live' = live \ {e}
      /\ ~done'[e] /\ ret'[e] = PENDING
      /\ \A x \in Events : x # e => /\ sync'[x] = sync[x]
                                    /\ ret'[x] = ret[x]
                                    /\ done'[x] = done[x]
    BY DEF WorkFree, Kfree, InsideHasEvent
<1>2. /\ Listed' = Listed /\ InHand' = {} /\ e \notin Listed
      /\ Queued' = Queued \ {e} /\ e \in Queued
    BY <1>1, SMTT(30) DEF Listed, InHand, Queued, Custody, NothingTwice
<1>3. \A q \in Posters : Waiting(q)' = Waiting(q) /\ Holds(q)' = Holds(q)
    BY <1>1 DEF Waiting, Holds
<1>4. ~sync[e]
    BY <1>1 DEF Ownership, FreedIsUnmarked
<1>5. \A q \in Posters : Holds(q) => pevent[q] # e /\ pevent[q] \in Events
    BY <1>2, <1>4, WaitedIsHeld, HoldsSplit
    DEF Ownership, EnqueuingIsPrivate, WaitedIsMarked
<1>6. Custody'
    <2>1. NothingTwice'
        BY <1>1, <1>2 DEF Custody, NothingTwice, Distinct
    <2>2. QueuedIsLive'
        BY <1>1, <1>2 DEF Custody, QueuedIsLive
    <2>3. HeldIsLive' /\ OneHolder'
        BY <1>1, <1>3, <1>5 DEF Custody, HeldIsLive, OneHolder
    <2>4. LiveIsReached'
        BY <1>1, <1>2, <1>3 DEF Custody, LiveIsReached
    <2> QED
        BY <2>1, <2>2, <2>3, <2>4 DEF Custody
<1>7. Ownership'
    <2> USE DEF Ownership
    <2>1. CompletedIsReported' /\ FreedIsBlank'
        BY <1>1 DEF CompletedIsReported, FreedIsBlank
    <2>2. EnqueuingIsPrivate'
        BY <1>1, <1>2, <1>5, HoldsSplit DEF EnqueuingIsPrivate
    <2>3. WaitedIsMarked'
        BY <1>1, <1>2, <1>3, <1>5, HoldsSplit DEF WaitedIsMarked
    <2>4. MarkedIsWaited'
        <3>1. \A x \in Queued : x \in Events
            BY DEF Custody, QueuedIsLive
        <3> QED
            BY <1>1, <1>2, <1>3, <3>1 DEF MarkedIsWaited
    <2>5. CollectedIsDone'
        <3>1. \A q \in Posters : ppc[q] \in {"collect", "reap"} =>
                  pevent[q] # e /\ pevent[q] \in Events
            BY <1>5 DEF Holds
        <3> QED
            BY <1>1, <3>1 DEF CollectedIsDone
    <2>6. FreedIsUnmarked'
        BY <1>1 DEF FreedIsUnmarked
    <2> QED
        BY <2>1, <2>2, <2>3, <2>4, <2>5, <2>6
<1> QED
    BY <1>6, <1>7

\* No step of the poster or of the worker breaks the ownership protocol.
LEMMA OwnershipStep ==
    ASSUME TypeInv, Custody, Ownership, [Next]_vars
    PROVE  Custody' /\ Ownership'
<1>1. CASE UNCHANGED vars
    BY <1>1 DEF Custody, NothingTwice, Distinct, QueuedIsLive, HeldIsLive,
                OneHolder, LiveIsReached, Ownership, CompletedIsReported,
                FreedIsBlank, EnqueuingIsPrivate, WaitedIsMarked,
                MarkedIsWaited, CollectedIsDone, FreedIsUnmarked, Queued,
                Listed, InHand, Holds, Waiting
<1>2. ASSUME NEW p \in Posters, Post(p) PROVE Custody' /\ Ownership'
    BY <1>2, PosterMoves, AllocStep, EnqueueStep, GiveUpStep, ReapStep DEF Post
<1>3. CASE Work
    BY <1>3, WorkerMoves, FirstStep, ReportStep, FreeStep DEF Work
<1> QED
    BY <1>1, <1>2, <1>3 DEF Next

LEMMA OwnershipInvariant == Spec => [](TypeInv /\ Custody /\ Ownership)
<1>1. Init => Custody /\ Ownership
    <2> SUFFICES ASSUME Init PROVE Custody /\ Ownership
        OBVIOUS
    <2>1. /\ list = <<>> /\ live = {} /\ wpc = "idle"
          /\ \A p \in Posters : ppc[p] = "idle"
          /\ \A e \in Events : ~done[e] /\ ret[e] = PENDING
        BY DEF Init
    <2>2. Listed = {} /\ InHand = {} /\ Queued = {}
        BY <2>1 DEF Listed, InHand, Queued
    <2>3. \A p \in Posters : ~Holds(p) /\ ~Waiting(p)
        BY <2>1 DEF Holds, Waiting
    <2>4. Custody
        BY <2>1, <2>2, <2>3
        DEF Custody, NothingTwice, Distinct, QueuedIsLive, HeldIsLive,
            OneHolder, LiveIsReached
    <2>5. Ownership
        BY <2>1, <2>2, <2>3
        DEF Ownership, CompletedIsReported, FreedIsBlank, EnqueuingIsPrivate,
            WaitedIsMarked, MarkedIsWaited, CollectedIsDone, FreedIsUnmarked
    <2> QED
        BY <2>4, <2>5
<1>2. TypeInv /\ Custody /\ Ownership /\ [Next]_vars => (Custody /\ Ownership)'
    BY OwnershipStep
<1> QED
    BY <1>1, <1>2, TypeInvariant, PTL DEF Spec

\* cnss_driver_event_post and cnss_driver_event_work, which share the freeing
\* of an event, never use it or free it once it is freed, and whatever kzalloc
\* returned is on its way to the kfree of one of them.
THEOREM OwnerFrees == Spec => []EventHasOwner
<1>1. TypeInv /\ Custody /\ Ownership => EventHasOwner
    BY CustodyMeans DEF EventHasOwner
<1> QED
    BY <1>1, OwnershipInvariant, PTL

\* What a caller of cnss_driver_event_post is told agrees with what the
\* handler did: -EINTR before it reported, its result afterwards.
THEOREM SignalLosesNoResult == Spec => GiveUpOnlyUnreported
<1> DEFINE A == \A p \in Posters :
               /\ ppc[p] = "collect" /\ ppc'[p] = "out" => ~done[pevent[p]]
               /\ ppc[p] = "reap" /\ ppc'[p] = "out" =>
                      done[pevent[p]] /\ pret'[p] \in Results
<1>1. ASSUME TypeInv, Ownership, Next PROVE A
    <2> SUFFICES ASSUME NEW p \in Posters, ppc[p] \in {"collect", "reap"}, ppc'[p] = "out"
                 PROVE  /\ ppc[p] = "collect" => ~done[pevent[p]]
                        /\ ppc[p] = "reap" => done[pevent[p]] /\ pret'[p] \in Results
        OBVIOUS
    <2> USE <1>1 DEF TypeInv, TypeOK
    <2>1. pevent[p] \in Events
        BY DEF InsideHasEvent
    <2>2. PostGiveUp(p) \/ PostReap(p)
        BY DEF Next, Post, Work, WorkStart, WorkFirst, WorkHandle, WorkReport,
               WorkOrphan, WorkFree, WorkRelax, PostNoMemory, PostAlloc,
               PostEnqueue, PostKick, PostCompleted, PostSignalled, PostGiveUp,
               PostKeep, PostReap, PostOut, Goto
    <2>3. CASE PostGiveUp(p)
        BY <2>1, <2>3 DEF PostGiveUp, Ownership, CompletedIsReported
    <2>4. CASE PostReap(p)
        BY <2>1, <2>4 DEF PostReap, Ownership, CompletedIsReported, CollectedIsDone
    <2> QED
        BY <2>2, <2>3, <2>4
<1>2. TypeInv /\ Custody /\ Ownership /\ [Next]_vars => [A]_vars
    BY <1>1
<1> QED
    BY <1>2, OwnershipInvariant, PTL DEF Spec, GiveUpOnlyUnreported

-----------------------------------------------------------------------------
(***************************************************************************)
(* The queue implements the serial executor                                *)
(***************************************************************************)

\* What the executor's variables stand for.
Running    == IF wpc \in {"handle", "report"} THEN wevent ELSE NoEvent
AnswerOf   == [e \in Events |-> IF \E p \in Posters : Waits(p) /\ pevent[p] = e
                                THEN ret[e] ELSE PENDING]
WaitingFor == [p \in Posters |-> IF Waits(p) THEN pevent[p] ELSE NoEvent]

\* Only a synchronous caller comes to wait.
AsyncNeverWaits ==
    \A p \in Posters : ppc[p] \in {"wait", "collect", "reap"} => pmode[p] # "async"

QueueInv == TypeInv /\ Custody /\ Ownership /\ AsyncNeverWaits

LEMMA AsyncStep ==
    ASSUME TypeInv, AsyncNeverWaits, [Next]_vars
    PROVE  AsyncNeverWaits'
<1> USE DEF TypeInv, TypeOK, AsyncNeverWaits, Goto
<1>1. ASSUME NEW p \in Posters, Post(p) PROVE AsyncNeverWaits'
    BY <1>1 DEF Post, PostNoMemory, PostAlloc, PostEnqueue, PostKick, PostCompleted,
                PostSignalled, PostGiveUp, PostKeep, PostReap, PostOut
<1>2. CASE Work
    BY <1>2 DEF Work, WorkStart, WorkFirst, WorkHandle, WorkReport, WorkOrphan,
                WorkFree, WorkRelax
<1>3. CASE UNCHANGED vars
    BY <1>3
<1> QED
    BY <1>1, <1>2, <1>3 DEF Next

LEMMA QueueInvariant == Spec => []QueueInv
<1>1. Init => AsyncNeverWaits
    BY DEF Init, AsyncNeverWaits
<1>2. TypeInv /\ AsyncNeverWaits /\ [Next]_vars => AsyncNeverWaits'
    BY AsyncStep
<1> QED
    BY <1>1, <1>2, OwnershipInvariant, PTL DEF Spec, QueueInv

\* Whoever is said to wait holds an event that is marked, and nobody else does.
LEMMA WaitsMeans ==
    ASSUME QueueInv
    PROVE  /\ NoEvent \notin Events
           /\ \A p \in Posters : Waits(p) <=> Waiting(p)
           /\ \A p \in Posters : Waits(p) => Holds(p) /\ pevent[p] \in Events
           /\ \A p, q \in Posters :
                  Holds(p) /\ Waits(q) /\ pevent[p] = pevent[q] => p = q
           /\ \A p \in Posters : WaitingFor[p] = IF Waits(p) THEN pevent[p] ELSE NoEvent
<1>1. \A p \in Posters : Waits(p) <=> Waiting(p)
    BY DEF QueueInv, AsyncNeverWaits, Waits, Waiting
<1>2. \A p \in Posters : Waits(p) => Holds(p) /\ pevent[p] \in Events
    BY DEF QueueInv, TypeInv, InsideHasEvent, Waits, Holds
<1>3. \A p, q \in Posters : Holds(p) /\ Holds(q) /\ pevent[p] = pevent[q] => p = q
    BY DEF QueueInv, Custody, OneHolder
<1> QED
    BY <1>1, <1>2, <1>3, EventQueueAssumption DEF WaitingFor

\* The steps that neither the executor nor its callers can see.
LEMMA Unseen ==
    ASSUME UNCHANGED <<list, ret>>, Running' = Running,
           \A p \in Posters : Waits(p)' = Waits(p) /\ (Waits(p) => pevent'[p] = pevent[p])
    PROVE  UNCHANGED Executor!svars
<1>1. WaitingFor' = WaitingFor
    BY DEF WaitingFor
<1>2. AnswerOf' = AnswerOf
    BY DEF AnswerOf
<1> QED
    BY <1>1, <1>2 DEF Executor!svars, Running, WaitingFor, AnswerOf

\* A caller that moves on inside the call without list_add_tail, its answer or
\* giving up is not seen.
LEMMA QuietPoster ==
    ASSUME QueueInv, NEW p \in Posters,
           \/ PostNoMemory(p)
           \/ \E e \in Events, mode \in Modes : PostAlloc(p, e, mode)
           \/ PostKick(p) \/ PostCompleted(p) \/ PostSignalled(p) \/ PostKeep(p)
           \/ PostOut(p)
    PROVE  UNCHANGED Executor!svars
<1> USE DEF QueueInv, TypeInv, TypeOK, Goto
<1>1. UNCHANGED <<list, ret, wpc, wevent>>
    BY DEF PostNoMemory, PostAlloc, PostKick, PostCompleted, PostSignalled, PostKeep, PostOut
<1>2. \A q \in Posters : Waits(q)' = Waits(q) /\ (Waits(q) => pevent'[q] = pevent[q])
    <2> SUFFICES ASSUME NEW q \in Posters
                 PROVE  Waits(q)' = Waits(q) /\ (Waits(q) => pevent'[q] = pevent[q])
        OBVIOUS
    <2>1. CASE q # p
        BY <2>1 DEF Waits, PostNoMemory, PostAlloc, PostKick, PostCompleted, PostSignalled,
                    PostKeep, PostOut
    <2>2. CASE q = p
        BY <2>2 DEF Waits, AsyncNeverWaits, PostNoMemory, PostAlloc, PostKick, PostCompleted,
                    PostSignalled, PostKeep, PostOut
    <2> QED
        BY <2>1, <2>2
<1>3. Running' = Running
    BY <1>1 DEF Running
<1> QED
    BY <1>1, <1>2, <1>3, Unseen

\* list_add_tail accepts a request, for which its caller waits or not.
LEMMA EnqueueSubmits ==
    ASSUME QueueInv, NEW p \in Posters, PostEnqueue(p)
    PROVE  \E t \in Events : Executor!Submit(p, t)
<1>0. PICK t \in Events : t = pevent[p]
    BY DEF PostEnqueue, QueueInv, TypeInv, InsideHasEvent
<1>1. /\ ppc[p] = "enqueue" /\ ppc' = [ppc EXCEPT ![p] = "kick"]
      /\ list' = Append(list, t)
      /\ UNCHANGED <<ret, wpc, wevent, pevent, pmode>>
    BY <1>0 DEF PostEnqueue, Goto
<1>2. t # NoEvent /\ t \notin Listed /\ t \notin InHand /\ ret[t] = PENDING
    BY <1>0, <1>1, EventQueueAssumption
    DEF QueueInv, TypeInv, InsideHasEvent, Ownership, EnqueuingIsPrivate,
        CompletedIsReported, Queued
<1>3. ~Waits(p) /\ WaitingFor[p] = NoEvent
    BY <1>1 DEF Waits, WaitingFor
<1>4. Running # t /\ Running' = Running
    BY <1>1, <1>2 DEF Running, InHand
<1>5. \A c \in Posters : WaitingFor[c] # t
    <2>1. Holds(p)
        BY <1>1 DEF Holds
    <2> QED
        BY <1>0, <1>2, <1>3, <2>1, WaitsMeans
<1>6. ~\E i \in 1..Len(list) : list[i] = t
    BY <1>2 DEF Listed
<1>7. \A q \in Posters : Waits(q)' = (Waits(q) \/ (q = p /\ pmode[p] # "async"))
    BY <1>1 DEF Waits, QueueInv, TypeInv, TypeOK
<1>8. WaitingFor' \in {WaitingFor, [WaitingFor EXCEPT ![p] = t]}
    <2>1. CASE pmode[p] = "async"
        BY <1>0, <1>1, <1>7, <2>1 DEF WaitingFor
    <2>2. CASE pmode[p] # "async"
        BY <1>0, <1>1, <1>3, <1>7, <2>2 DEF WaitingFor
    <2> QED
        BY <2>1, <2>2
<1>9. AnswerOf' = AnswerOf
    BY <1>0, <1>1, <1>2, <1>7 DEF AnswerOf
<1>10. Executor!Submit(p, t)
    BY <1>1, <1>3, <1>4, <1>5, <1>6, <1>8, <1>9
    DEF Executor!Submit, Executor!Fresh, Executor!InLine, Executor!Awaited,
        Running, AnswerOf, WaitingFor
<1> QED
    BY <1>10

\* -EINTR: the caller abandons a request that has no answer.
LEMMA GiveUpAbandons ==
    ASSUME QueueInv, NEW p \in Posters, PostGiveUp(p)
    PROVE  Executor!Abandon(p)
<1>1. /\ ppc[p] = "collect" /\ ppc' = [ppc EXCEPT ![p] = "out"]
      /\ ret[pevent[p]] = PENDING
      /\ UNCHANGED <<list, ret, wpc, wevent, pevent, pmode>>
    BY DEF PostGiveUp, Goto
<1>2. Waits(p) /\ pevent[p] \in Events
    BY <1>1 DEF Waits, QueueInv, AsyncNeverWaits, TypeInv, InsideHasEvent
<1>3. \A q \in Posters : Waits(q)' = (Waits(q) /\ q # p)
    BY <1>1 DEF Waits, QueueInv, TypeInv, TypeOK
<1>4. WaitingFor' = [WaitingFor EXCEPT ![p] = NoEvent]
    BY <1>1, <1>3 DEF WaitingFor
<1>5. AnswerOf' = AnswerOf
    BY <1>1, <1>3 DEF AnswerOf
<1>6. WaitingFor[p] = pevent[p] /\ WaitingFor[p] # NoEvent /\ AnswerOf[WaitingFor[p]] = PENDING
    BY <1>1, <1>2, EventQueueAssumption DEF WaitingFor, AnswerOf
<1>7. Running' = Running
    BY <1>1 DEF Running
<1> QED
    BY <1>1, <1>4, <1>5, <1>6, <1>7 DEF Executor!Abandon, Running, AnswerOf, WaitingFor

\* The caller is given the result of its event, which is freed.
LEMMA ReapAnswers ==
    ASSUME QueueInv, NEW p \in Posters, PostReap(p)
    PROVE  Executor!Answered(p)
<1> DEFINE e == pevent[p]
<1>1. /\ ppc[p] = "reap" /\ ppc' = [ppc EXCEPT ![p] = "out"]
      /\ ret' = [ret EXCEPT ![e] = PENDING]
      /\ UNCHANGED <<list, wpc, wevent, pevent, pmode>>
    BY DEF PostReap, Kfree, Goto
<1>2. Waits(p) /\ e \in Events
    BY <1>1 DEF Waits, QueueInv, AsyncNeverWaits, TypeInv, InsideHasEvent
<1>3. ret[e] # PENDING
    BY <1>1, <1>2 DEF QueueInv, Ownership, CollectedIsDone, CompletedIsReported
<1>4. \A q \in Posters : Waits(q)' = (Waits(q) /\ q # p)
    BY <1>1 DEF Waits, QueueInv, TypeInv, TypeOK
<1>5. WaitingFor' = [WaitingFor EXCEPT ![p] = NoEvent]
    BY <1>1, <1>4 DEF WaitingFor
<1>6. WaitingFor[p] = e /\ e # NoEvent /\ AnswerOf[e] # PENDING
    BY <1>1, <1>2, <1>3, EventQueueAssumption DEF WaitingFor, AnswerOf
<1>7. AnswerOf' = [AnswerOf EXCEPT ![e] = PENDING]
    <2> SUFFICES ASSUME NEW x \in Events
                 PROVE  AnswerOf'[x] = IF x = e THEN PENDING ELSE AnswerOf[x]
        BY DEF AnswerOf
    <2>1. ret'[x] = IF x = e THEN PENDING ELSE ret[x]
        BY <1>1 DEF QueueInv, TypeInv, TypeOK
    <2>2. x # e => ((\E q \in Posters : Waits(q) /\ pevent[q] = x)'
                    <=> \E q \in Posters : Waits(q) /\ pevent[q] = x)
        BY <1>1, <1>4
    <2> QED
        BY <2>1, <2>2 DEF AnswerOf
<1>8. Running' = Running
    BY <1>1 DEF Running
<1> QED
    BY <1>1, <1>5, <1>6, <1>7, <1>8 DEF Executor!Answered, Running, AnswerOf, WaitingFor

\* The worker enters, leaves, runs a handler, or frees what nobody waits for.
LEMMA QuietWorker ==
    ASSUME QueueInv,
           \/ WorkStart \/ WorkFree \/ WorkRelax
           \/ \E r \in Results : WorkHandle(r)
    PROVE  UNCHANGED Executor!svars
<1>1. /\ UNCHANGED <<list, ppc, pevent, pmode>> /\ Running' = Running
    BY DEF WorkStart, WorkFree, WorkRelax, WorkHandle, Running
<1>2. \A q \in Posters : Waits(q)' = Waits(q)
    BY <1>1 DEF Waits
<1>3. CASE UNCHANGED ret
    BY <1>1, <1>2, <1>3, Unseen
<1>4. CASE WorkFree
    <2>1. wpc = "free" /\ ret' = [ret EXCEPT ![wevent] = PENDING] /\ ~sync[wevent]
        BY <1>4 DEF WorkFree, Kfree, QueueInv, Ownership, FreedIsUnmarked
    <2>2. \A q \in Posters : Waits(q) => pevent[q] # wevent
        BY <2>1, WaitsMeans DEF QueueInv, Ownership, WaitedIsMarked
    <2>3. AnswerOf' = AnswerOf
        BY <1>1, <1>2, <2>1, <2>2 DEF AnswerOf, QueueInv, TypeInv, TypeOK
    <2>4. WaitingFor' = WaitingFor
        BY <1>1, <1>2 DEF WaitingFor
    <2> QED
        BY <1>1, <2>3, <2>4 DEF Executor!svars, Running, WaitingFor, AnswerOf
<1> QED
    BY <1>3, <1>4 DEF WorkStart, WorkRelax, WorkHandle

\* The head of the worker's loop: it runs the oldest event of the list.
LEMMA TakeNextRuns ==
    ASSUME TypeInv, TakeNext
    PROVE  \/ list = <<>> /\ UNCHANGED list /\ Running' = NoEvent
           \/ list # <<>> /\ list' = Tail(list) /\ Running' = Head(list)
    BY DEF TakeNext, Running

LEMMA FirstStarts ==
    ASSUME QueueInv, WorkFirst
    PROVE  Executor!Start \/ UNCHANGED Executor!svars
<1>1. /\ wpc = "first" /\ TakeNext
      /\ UNCHANGED <<ret, ppc, pevent, pmode>>
    BY DEF WorkFirst
<1>2. \A q \in Posters : Waits(q)' = Waits(q)
    BY <1>1 DEF Waits
<1>3. WaitingFor' = WaitingFor /\ AnswerOf' = AnswerOf
    BY <1>1, <1>2 DEF WaitingFor, AnswerOf
<1>4. Running = NoEvent
    BY <1>1 DEF Running
<1>5. CASE list = <<>>
    <2>1. UNCHANGED list /\ Running' = NoEvent
        BY <1>1, <1>5, TakeNextRuns DEF QueueInv
    <2> QED
        BY <1>3, <1>4, <2>1 DEF Executor!svars, Running, WaitingFor, AnswerOf
<1>6. CASE list # <<>>
    <2>1. list' = Tail(list) /\ Running' = Head(list)
        BY <1>1, <1>6, TakeNextRuns DEF QueueInv
    <2> QED
        BY <1>3, <1>4, <1>6, <2>1 DEF Executor!Start, Running, WaitingFor, AnswerOf
<1> QED
    BY <1>5, <1>6

\* The result of an event is stored, and the next event runs at once.
LEMMA ReportFinishes ==
    ASSUME QueueInv, WorkReport
    PROVE  Executor!Finish(wret)
<1>1. /\ wpc = "report" /\ sync[wevent] /\ TakeNext
      /\ ret' = [ret EXCEPT ![wevent] = wret]
      /\ UNCHANGED <<ppc, pevent, pmode>>
    BY DEF WorkReport
<1>2. wevent \in Events /\ Running = wevent /\ Running # NoEvent
    BY <1>1, EventQueueAssumption DEF Running, QueueInv, TypeInv, InsideHasEvent
<1>3. PICK p \in Posters : Waits(p) /\ pevent[p] = wevent
    <2>1. wevent \in Queued
        BY <1>1 DEF Queued, InHand
    <2> QED
        BY <1>1, <2>1, WaitsMeans DEF QueueInv, Ownership, MarkedIsWaited
<1>4. \E c \in Posters : WaitingFor[c] = Running
    BY <1>2, <1>3 DEF WaitingFor
<1>5. \A q \in Posters : Waits(q)' = Waits(q)
    BY <1>1 DEF Waits
<1>6. WaitingFor' = WaitingFor
    BY <1>1, <1>5 DEF WaitingFor
<1>7. AnswerOf' = [AnswerOf EXCEPT ![Running] = wret]
    <2> SUFFICES ASSUME NEW x \in Events
                 PROVE  AnswerOf'[x] = IF x = wevent THEN wret ELSE AnswerOf[x]
        BY <1>2 DEF AnswerOf
    <2>1. ret'[x] = IF x = wevent THEN wret ELSE ret[x]
        BY <1>1 DEF QueueInv, TypeInv, TypeOK
    <2>2. (\E q \in Posters : Waits(q) /\ pevent[q] = x)'
          <=> \E q \in Posters : Waits(q) /\ pevent[q] = x
        BY <1>1, <1>5
    <2> QED
        BY <1>3, <2>1, <2>2 DEF AnswerOf
<1>8. \/ list = <<>> /\ UNCHANGED list /\ Running' = NoEvent
      \/ list # <<>> /\ list' = Tail(list) /\ Running' = Head(list)
    BY <1>1, TakeNextRuns DEF QueueInv
<1> QED
    BY <1>2, <1>4, <1>6, <1>7, <1>8
    DEF Executor!Finish, Executor!Awaited, Running, WaitingFor, AnswerOf

\* The event nobody waits for ends without an answer.
LEMMA OrphanFinishes ==
    ASSUME QueueInv, WorkOrphan
    PROVE  Executor!Finish(wret)
<1>1. /\ wpc = "report" /\ wpc' = "free" /\ ~sync[wevent]
      /\ UNCHANGED <<list, ret, ppc, pevent, pmode>>
    BY DEF WorkOrphan
<1>2. wevent \in Events /\ Running = wevent /\ Running # NoEvent /\ Running' = NoEvent
    BY <1>1, EventQueueAssumption DEF Running, QueueInv, TypeInv, InsideHasEvent
<1>3. \A q \in Posters : Waits(q) => pevent[q] # wevent
    BY <1>1, WaitsMeans DEF QueueInv, Ownership, WaitedIsMarked
<1>4. ~\E c \in Posters : WaitingFor[c] = Running
    BY <1>2, <1>3 DEF WaitingFor
<1>5. \A q \in Posters : Waits(q)' = Waits(q)
    BY <1>1 DEF Waits
<1>6. WaitingFor' = WaitingFor /\ AnswerOf' = AnswerOf
    BY <1>1, <1>5 DEF WaitingFor, AnswerOf
<1> QED
    BY <1>1, <1>2, <1>4, <1>6
    DEF Executor!Finish, Executor!Awaited, Running, WaitingFor, AnswerOf

LEMMA ExecutorStep ==
    ASSUME QueueInv, [Next]_vars
    PROVE  [Executor!SNext]_(Executor!svars)
<1>1. ASSUME NEW p \in Posters, Post(p) PROVE Executor!SNext \/ UNCHANGED Executor!svars
    <2>1. CASE PostEnqueue(p)
        BY <2>1, EnqueueSubmits DEF Executor!SNext
    <2>2. CASE PostGiveUp(p)
        BY <2>2, GiveUpAbandons DEF Executor!SNext
    <2>3. CASE PostReap(p)
        BY <2>3, ReapAnswers DEF Executor!SNext
    <2> QED
        BY <1>1, <2>1, <2>2, <2>3, QuietPoster DEF Post
<1>2. ASSUME Work PROVE Executor!SNext \/ UNCHANGED Executor!svars
    <2>1. CASE WorkFirst
        BY <2>1, FirstStarts DEF Executor!SNext
    <2>2. CASE WorkReport \/ WorkOrphan
        <3>1. PICK a \in Results : a = wret
            BY DEF QueueInv, TypeInv, TypeOK
        <3>2. Executor!Finish(a)
            BY <2>2, <3>1, ReportFinishes, OrphanFinishes DEF Executor!Finish
        <3> QED
            BY <3>2 DEF Executor!SNext
    <2> QED
        BY <1>2, <2>1, <2>2, QuietWorker DEF Work
<1>3. CASE UNCHANGED vars
    <2>1. Running' = Running
        BY <1>3 DEF Running
    <2>2. \A q \in Posters : Waits(q)' = Waits(q)
        BY <1>3 DEF Waits
    <2> QED
        BY <1>3, <2>1, <2>2, Unseen
<1> QED
    BY <1>1, <1>2, <1>3 DEF Next

\* The driver event queue runs what is posted one at a time, in the order of
\* event_list and once each, and gives a caller that waits the result of its own
\* event, or -EINTR before there is one: every step of cnss_driver_event_post and
\* cnss_driver_event_work is one of the executor's or is not seen by it.
THEOREM RunsSerially == Spec => ImplementsExecutor
<1>1. Init => Executor!SInit
    <2> SUFFICES ASSUME Init PROVE Executor!SInit
        OBVIOUS
    <2>1. \A p \in Posters : ~Waits(p)
        BY DEF Init, Waits
    <2>2. Running = NoEvent /\ list = <<>>
        BY DEF Init, Running
    <2>3. /\ AnswerOf = [e \in Events |-> PENDING]
          /\ WaitingFor = [p \in Posters |-> NoEvent]
        BY <2>1 DEF AnswerOf, WaitingFor
    <2> QED
        BY <2>2, <2>3 DEF Executor!SInit, Running, AnswerOf, WaitingFor
<1>2. QueueInv /\ [Next]_vars => [Executor!SNext]_(Executor!svars)
    BY ExecutorStep
<1> QED
    BY <1>1, <1>2, QueueInvariant, PTL DEF Spec, ImplementsExecutor, Executor!SSpec

=============================================================================
