-------------------------- MODULE IcnssSocWakeProofs --------------------------
(***************************************************************************)
(* Proofs about the wake requests of icnss2, for any set of threads and    *)
(* any number of requests, faults and crashes.                             *)
(*                                                                         *)
(* The count is not 0 only when the worker rests, so that what the worker  *)
(* sends changes a device whose count says that it is asleep.  A message,  *)
(* its interrupt and the completion follow each other, unless one of them  *)
(* outlives the firmware it was meant for, which `carried' records.        *)
(*                                                                         *)
(* The balance of the shares rests on the order of the queue: a request is *)
(* handled before any release, so that the release with which the count    *)
(* becomes 0 is that of the last holder.                                   *)
(***************************************************************************)
EXTENDS IcnssSocWake, FiniteSetTheorems, TLAPS

-----------------------------------------------------------------------------
(***************************************************************************)
(* The inductive invariant                                                 *)
(***************************************************************************)

\* Only the worker raises the count from 0, when it is done.
BusyMeansNone == worker # "idle" => count = 0

\* A firmware in service that found no message of the one before it and was not
\* failed by one: the request is on its way, or obeyed and on its way back, or
\* acknowledged.
Exchange ==
    fw = "ready" /\ faults = 0 /\ "message" \notin carried =>
        /\ ~Waiting => message = "none" /\ ~ack
        /\ worker = "wait_req" =>
              \/ message = "send_req" /\ ~ack /\ ~acked
              \/ message = "none" /\ ack # acked /\ awake
        /\ worker = "wait_rel" =>
              \/ message = "send_rel" /\ ~ack /\ ~acked
              \/ message = "none" /\ ack # acked

IInv == TypeOK /\ BusyMeansNone /\ Exchange /\ CountIsTrue

-----------------------------------------------------------------------------
(***************************************************************************)
(* Each step keeps it                                                      *)
(***************************************************************************)

USE DEF WorkerSteps, UserSteps, device, record, Waiting, Sending, Goes, Fault

\* Appending to the list and taking its head keep it a list of events.
LEMMA ListTyped ==
    ASSUME NEW q \in Seq({"REQUEST", "RELEASE"})
    PROVE  /\ \A t \in {"REQUEST", "RELEASE"} : Append(q, t) \in Seq({"REQUEST", "RELEASE"})
           /\ q # <<>> => Tail(q) \in Seq({"REQUEST", "RELEASE"})
  OBVIOUS

\* A thread of the host driver changes neither the device nor the worker, and
\* raises the count only if it is not 0.
LEMMA UserKeeps ==
    ASSUME IInv, NEW u \in Users, User(u)
    PROVE  IInv'
  <1>1. /\ UNCHANGED <<worker, acked, device, crashes>>
        /\ (count' = count \/ count # 0)
        /\ count' \in Nat
        /\ user' \in [Users -> UserSteps]
        /\ UNCHANGED <<host, carried>>
        /\ requests' \in Nat /\ faults' \in Nat /\ (faults' = 0 => faults = 0)
    <2>1. CASE ForceWakeRequest(u)
      BY <2>1 DEF IInv, TypeOK, ForceWakeRequest
    <2>2. CASE PostRequest(u)
      BY <2>2 DEF IInv, TypeOK, PostRequest, Post
    <2>3. CASE IsDeviceAwake(u)
      BY <2>3 DEF IInv, TypeOK, IsDeviceAwake
    <2>4. CASE ForceWakeRelease(u)
      BY <2>4 DEF IInv, TypeOK, ForceWakeRelease
    <2>5. CASE DecIfGreaterOne(u)
      BY <2>5 DEF IInv, TypeOK, DecIfGreaterOne
    <2>6. CASE PostRelease(u)
      BY <2>6 DEF IInv, TypeOK, PostRelease, Post
    <2> QED
      BY <2>1, <2>2, <2>3, <2>4, <2>5, <2>6 DEF User
  <1>2. events' \in Seq({"REQUEST", "RELEASE"})
    BY ListTyped DEF IInv, TypeOK, User, ForceWakeRequest, PostRequest, IsDeviceAwake,
       ForceWakeRelease, DecIfGreaterOne, PostRelease, Post
  <1>3. disorder' \in BOOLEAN
    BY Zenon DEF IInv, TypeOK, User, ForceWakeRequest, PostRequest, IsDeviceAwake,
       ForceWakeRelease, DecIfGreaterOne, PostRelease
  <1>4. TypeOK'
    BY <1>1, <1>2, <1>3 DEF IInv, TypeOK
  <1> QED
    BY <1>1, <1>4 DEF IInv, BusyMeansNone, Exchange, CountIsTrue

\* The worker sends when the count is 0, and counts what was obeyed.
LEMMA WorkerKeeps ==
    ASSUME IInv, Worker
    PROVE  IInv'
  <1>1. CASE SocWakeRequest
    <2>1. TypeOK'
      BY <1>1, ListTyped DEF IInv, TypeOK, SocWakeRequest, Takes
    <2> QED
      BY <1>1, <2>1 DEF IInv, TypeOK, BusyMeansNone, Exchange,
         CountIsTrue, SocWakeRequest, Takes
  <1>2. CASE SocWakeRelease
    <2>1. TypeOK'
      BY <1>2, ListTyped DEF IInv, TypeOK, SocWakeRelease, Takes
    <2> QED
      BY <1>2, <2>1 DEF IInv, TypeOK, BusyMeansNone, Exchange,
         CountIsTrue, SocWakeRelease, Takes
  <1>3. CASE SendRefused
    BY <1>3 DEF IInv, TypeOK, BusyMeansNone, Exchange,
       CountIsTrue, SendRefused
  <1>4. CASE SendSmp2p
    BY <1>4 DEF IInv, TypeOK, BusyMeansNone, Exchange,
       CountIsTrue, SendSmp2p
  <1>5. CASE Acknowledged
    <2>1. /\ Waiting /\ acked /\ acked' = FALSE /\ worker' = "idle"
          /\ UNCHANGED <<events, user, fw, message, ack, awake, host, record, requests, faults, crashes>>
      BY <1>5 DEF Acknowledged, Sent
    <2>2. fw = "ready" /\ faults = 0 /\ "message" \notin carried =>
            message = "none" /\ ack = FALSE /\ (worker = "wait_req" => awake)
      BY <2>1, Zenon DEF IInv, TypeOK, Exchange
    <2>3. TypeOK'
      <3>1. count' \in Nat /\ UNCHANGED <<user, requests, crashes>>
        BY <1>5 DEF IInv, TypeOK, Acknowledged, Sent
      <3> QED
        BY <2>1, <3>1 DEF IInv, TypeOK
    <2>4. CountIsTrue'
      BY <1>5, <2>1, <2>2 DEF IInv, BusyMeansNone, CountIsTrue, Acknowledged, Sent
    <2> QED
      BY <2>1, <2>2, <2>3, <2>4 DEF IInv, BusyMeansNone, Exchange
  <1>6. CASE TimedOut
    BY <1>6 DEF IInv, TypeOK, BusyMeansNone, Exchange,
       CountIsTrue, TimedOut, Sent, Answers
  <1> QED
    BY <1>1, <1>2, <1>3, <1>4, <1>5, <1>6 DEF Worker

\* The firmware answers, dies and comes back.
LEMMA DeviceKeeps ==
    ASSUME IInv, SocWakeAck \/ Obey \/ Crash \/ FwDown \/ EventWorker
    PROVE  IInv'
  <1>1. CASE SocWakeAck
    <2>1. /\ ack /\ ack' = FALSE /\ acked' = TRUE
          /\ UNCHANGED <<count, events, worker, user, fw, message, awake, host, record,
                         requests, faults, crashes>>
      BY <1>1 DEF SocWakeAck
    <2>2. TypeOK'
      BY <2>1 DEF IInv, TypeOK
    <2>3. Exchange'
      BY <2>1 DEF IInv, TypeOK, Exchange
    <2> QED
      BY <2>1, <2>2, <2>3 DEF IInv, BusyMeansNone, CountIsTrue
  <1>2. CASE Obey
    BY <1>2 DEF IInv, TypeOK, BusyMeansNone, Exchange,
       CountIsTrue, Obey
  <1>3. CASE Crash
    <2>1. /\ awake' = FALSE /\ message' = "none" /\ fw' = "dead"
          /\ crashes' = crashes + 1
          /\ UNCHANGED <<count, events, worker, acked, user, ack, host, record, requests, faults>>
      BY <1>3 DEF Crash
    <2>2. crashes' \in Nat
      BY <2>1 DEF IInv, TypeOK
    <2>3. awake' \in BOOLEAN
      BY <2>1, Zenon
    <2>4. TypeOK'
      BY <2>1, <2>2, <2>3 DEF IInv, TypeOK
    <2> QED
      BY <1>3, <2>4 DEF IInv, BusyMeansNone, Exchange,
         CountIsTrue, Crash
  <1>4. CASE FwDown
    BY <1>4 DEF IInv, TypeOK, BusyMeansNone, Exchange,
       CountIsTrue, FwDown
  <1>5. CASE ServerArrive
    BY <1>5 DEF IInv, TypeOK, BusyMeansNone, Exchange,
       CountIsTrue, ServerArrive
  <1>6. CASE FwReadyInd
    <2>1. /\ fw' = "ready" /\ count' = 0 /\ carried' = Left /\ disorder' = FALSE
          /\ host' \in {"starting", "stopping", "coming"}
          /\ UNCHANGED <<events, worker, acked, user, message, ack, awake, requests, faults, crashes>>
      BY <1>6 DEF FwReadyInd
    <2>2. Left \subseteq {"message", "share"}
      BY DEF Left
    <2>3. TypeOK'
      BY <2>1, <2>2 DEF IInv, TypeOK
    <2>4. "message" \notin Left => worker = "idle" /\ message = "none" /\ ~ack
      BY DEF Left
    <2> QED
      BY <2>1, <2>3, <2>4 DEF IInv, BusyMeansNone, Exchange, CountIsTrue
  <1>7. CASE DriverShutdown \/ DriverReinit \/ DriverStarted
    <2>1. /\ host' \in {"coming", "stopped", "starting", "up"}
          /\ UNCHANGED <<count, events, worker, acked, user, device, record, requests, faults, crashes>>
      BY <1>7 DEF DriverShutdown, DriverReinit, DriverStarted
    <2> QED
      BY <2>1 DEF IInv, TypeOK, BusyMeansNone, Exchange, CountIsTrue
  <1> QED
    BY <1>1, <1>2, <1>3, <1>4, <1>5, <1>6, <1>7 DEF EventWorker

\* The invariant holds in every state.
THEOREM Invariant == Spec => []IInv
  <1>1. Init => IInv
    <2> SUFFICES ASSUME Init PROVE IInv
      OBVIOUS
    <2>1. /\ count \in Nat /\ events \in Seq({"REQUEST", "RELEASE"})
          /\ user \in [Users -> UserSteps]
          /\ requests \in Nat /\ faults \in Nat /\ crashes \in Nat
      BY DEF Init
    <2>2. /\ worker \in WorkerSteps /\ acked \in BOOLEAN /\ ack \in BOOLEAN
          /\ awake \in BOOLEAN /\ disorder \in BOOLEAN
      BY DEF Init
    <2>3. /\ fw \in {"booting", "ready", "dead", "down"}
          /\ message \in {"none", "send_req", "send_rel"}
          /\ host \in {"absent", "starting", "up", "stopping", "coming", "stopped"}
          /\ carried \subseteq {"message", "share"}
      BY DEF Init
    <2>4. TypeOK
      BY <2>1, <2>2, <2>3 DEF TypeOK
    <2> QED
      BY <2>4 DEF Init, IInv, BusyMeansNone, Exchange, CountIsTrue
  <1>2. IInv /\ [Next]_vars => IInv'
    <2> SUFFICES ASSUME IInv, [Next]_vars PROVE IInv'
      OBVIOUS
    <2>1. CASE \E u \in Users : User(u)
      BY <2>1, UserKeeps
    <2>2. CASE Worker
      BY <2>2, WorkerKeeps
    <2>3. CASE SocWakeAck \/ Obey \/ Crash \/ FwDown \/ EventWorker
      BY <2>3, DeviceKeeps
    <2>4. CASE UNCHANGED vars
      BY <2>4 DEF vars, IInv, TypeOK, BusyMeansNone, Exchange,
         CountIsTrue
    <2> QED
      BY <2>1, <2>2, <2>3, <2>4 DEF Next
  <1> QED
    BY <1>1, <1>2, PTL DEF Spec

-----------------------------------------------------------------------------
(***************************************************************************)
(* The balance of the shares                                               *)
(***************************************************************************)

Types == {"REQUEST", "RELEASE"}
Count(q, type) == Cardinality({i \in DOMAIN q : q[i] = type})

\* A request in the queue is handled before any release: a release is posted
\* when no thread is about to post a request, and a thread that comes later
\* finds a count that is not 0.
InOrder(q) == \A i, j \in DOMAIN q : q[i] = "REQUEST" /\ q[j] = "RELEASE" => i < j
RequestsFirst ==
    /\ InOrder(events)
    /\ Pending("RELEASE") # 0 =>
          count # 0 /\ \A u \in Users : user[u] # "post_request"

\* Who was told that the device is awake finds a count that is not 0 until the
\* release is handled.
CountedForUsers ==
    \A u \in Users : user[u] \in {"uses", "decrement", "post_release"} => count # 0

Requested == IF worker \in {"send_req", "wait_req"} THEN 1 ELSE 0
Balance == count + Pending("REQUEST") + Requested = Cardinality(Holders) + Pending("RELEASE")

SharesInv == Orderly => Balance /\ RequestsFirst /\ CountedForUsers

\* The device is awake for a count that is not 0, or the worker has its message.
SleepsInv ==
    fw = "ready" /\ faults = 0 /\ carried = {} =>
        /\ awake => count # 0 \/ worker \in {"wait_req", "send_rel", "wait_rel"}
        /\ worker = "wait_rel" /\ message = "none" => ~awake

\* An event more and an event less.
LEMMA CountAppend ==
    ASSUME NEW q \in Seq(Types), NEW e \in Types, NEW t \in Types
    PROVE  /\ Count(q, t) \in Nat
           /\ Count(Append(q, e), t) = Count(q, t) + (IF e = t THEN 1 ELSE 0)
  <1> DEFINE A == {i \in DOMAIN q : q[i] = t}
             B == {i \in DOMAIN Append(q, e) : Append(q, e)[i] = t}
  <1>0. Count(q, t) = Cardinality(A) /\ Count(Append(q, e), t) = Cardinality(B)
    BY DEF Count
  <1>1. /\ Len(q) \in Nat /\ DOMAIN q = 1..Len(q) /\ DOMAIN Append(q, e) = 1..Len(q) + 1
        /\ \A i \in DOMAIN q : Append(q, e)[i] = q[i]
        /\ Append(q, e)[Len(q) + 1] = e
    OBVIOUS
  <1>2. IsFiniteSet(A)
    <2>1. IsFiniteSet(1..Len(q)) /\ A \in SUBSET (1..Len(q))
      BY <1>1, FS_Interval
    <2> QED
      BY <2>1, FS_Subset
  <1>3. Cardinality(A) \in Nat
    BY <1>2, FS_CardinalityType
  <1>4. Len(q) + 1 \notin A
    BY <1>1
  <1>5. CASE e = t
    <2>1. B = A \cup {Len(q) + 1}
      BY <1>1, <1>5
    <2>2. Cardinality(A \cup {Len(q) + 1}) = Cardinality(A) + 1
      BY <1>2, <1>4, FS_AddElement
    <2> HIDE DEF A, B
    <2> QED
      BY <1>0, <1>3, <1>5, <2>1, <2>2
  <1>6. CASE e # t
    <2>1. B = A
      BY <1>1, <1>6
    <2> HIDE DEF A, B
    <2> QED
      BY <1>0, <1>3, <1>6, <2>1
  <1> QED
    BY <1>5, <1>6

LEMMA CountTail ==
    ASSUME NEW q \in Seq(Types), q # <<>>, NEW t \in Types
    PROVE  /\ Count(q, t) \in Nat /\ Count(Tail(q), t) \in Nat
           /\ Count(Tail(q), t) = Count(q, t) - (IF Head(q) = t THEN 1 ELSE 0)
  <1> DEFINE A == {i \in DOMAIN q : q[i] = t}
             B == {i \in DOMAIN Tail(q) : Tail(q)[i] = t}
             f == [i \in A \ {1} |-> i - 1]
  <1>0. Count(q, t) = Cardinality(A) /\ Count(Tail(q), t) = Cardinality(B)
    BY DEF Count
  <1>1. /\ Len(q) \in Nat \ {0} /\ DOMAIN q = 1..Len(q) /\ DOMAIN Tail(q) = 1..Len(q) - 1
        /\ \A i \in DOMAIN Tail(q) : Tail(q)[i] = q[i + 1]
        /\ Head(q) = q[1]
    OBVIOUS
  <1>2. IsFiniteSet(A)
    <2>1. IsFiniteSet(1..Len(q)) /\ A \in SUBSET (1..Len(q))
      BY <1>1, FS_Interval
    <2> QED
      BY <2>1, FS_Subset
  <1>3. /\ Cardinality(A) \in Nat /\ IsFiniteSet(A \ {1})
        /\ Cardinality(A \ {1}) = IF 1 \in A THEN Cardinality(A) - 1 ELSE Cardinality(A)
    BY <1>2, FS_CardinalityType, FS_RemoveElement
  <1>4. f \in Bijection(A \ {1}, B)
    <2>1. f \in [A \ {1} -> B]
      BY <1>1
    <2>2. \A i, j \in A \ {1} : f[i] = f[j] => i = j
      BY <1>1
    <2>3. \A k \in B : k + 1 \in A \ {1} /\ f[k + 1] = k
      BY <1>1
    <2>4. \A k \in B : \E i \in A \ {1} : f[i] = k
      BY <2>3
    <2> HIDE DEF f, A, B
    <2> QED
      BY <2>1, <2>2, <2>4 DEF Bijection, Injection, Surjection, IsInjective
  <1>5. IsFiniteSet(B) /\ Cardinality(B) = Cardinality(A \ {1})
    <2>1. ExistsBijection(A \ {1}, B)
      BY <1>4 DEF ExistsBijection
    <2> HIDE DEF A, B
    <2> QED
      BY <1>3, <2>1, FS_Bijection
  <1>6. Cardinality(B) \in Nat
    BY <1>5, FS_CardinalityType
  <1>7. 1 \in A <=> Head(q) = t
    BY <1>1
  <1> HIDE DEF A, B
  <1> QED
    BY <1>0, <1>3, <1>5, <1>6, <1>7

\* A thread that takes and one that gives back.
LEMMA HoldersChange ==
    ASSUME TypeOK, NEW u \in Users, NEW step \in UserSteps, user' = [user EXCEPT ![u] = step]
    PROVE  LET held == {"asked", "uses", "decrement", "post_release"}
           IN  /\ Cardinality(Holders) \in Nat /\ Cardinality(Holders') \in Nat
               /\ (user[u] \in held <=> step \in held) => Cardinality(Holders') = Cardinality(Holders)
               /\ user[u] \notin held /\ step \in held =>
                      Cardinality(Holders') = Cardinality(Holders) + 1
               /\ user[u] \in held /\ step \notin held =>
                      Cardinality(Holders') = Cardinality(Holders) - 1
  <1> DEFINE held == {"asked", "uses", "decrement", "post_release"}
  <1>1. IsFiniteSet(Holders) /\ IsFiniteSet(Holders')
    <2>1. Holders \in SUBSET Users /\ Holders' \in SUBSET Users
      BY DEF Holders
    <2> QED
      BY <2>1, FS_Subset, SocWakeAssumption
  <1>2. Cardinality(Holders) \in Nat /\ Cardinality(Holders') \in Nat
    BY <1>1, FS_CardinalityType
  <1>3. /\ user'[u] = step /\ \A v \in Users : v # u => user'[v] = user[v]
        /\ u \in Holders <=> user[u] \in held
        /\ u \in Holders' <=> step \in held
    BY DEF TypeOK, Holders
  <1>4. CASE user[u] \in held <=> step \in held
    <2>1. Holders' = Holders
      BY <1>3, <1>4 DEF Holders
    <2> QED
      BY <1>2, <1>4, <2>1
  <1>5. CASE user[u] \notin held /\ step \in held
    <2>1. Holders' = Holders \cup {u} /\ u \notin Holders
      BY <1>3, <1>5 DEF Holders
    <2>2. Cardinality(Holders \cup {u}) = Cardinality(Holders) + 1
      BY <1>1, <2>1, FS_AddElement
    <2> QED
      BY <1>2, <1>5, <2>1, <2>2
  <1>6. CASE user[u] \in held /\ step \notin held
    <2>1. Holders' = Holders \ {u} /\ u \in Holders
      BY <1>3, <1>6 DEF Holders
    <2>2. Cardinality(Holders \ {u}) = Cardinality(Holders) - 1
      BY <1>1, <2>1, FS_RemoveElement
    <2> QED
      BY <1>2, <1>6, <2>1, <2>2
  <1> QED
    BY <1>4, <1>5, <1>6

LEMMA OrderChange ==
    ASSUME NEW q \in Seq(Types), InOrder(q)
    PROVE  /\ InOrder(Append(q, "RELEASE"))
           /\ Count(q, "RELEASE") = 0 => InOrder(Append(q, "REQUEST"))
           /\ q # <<>> => InOrder(Tail(q))
           /\ q # <<>> /\ Head(q) = "RELEASE" => Count(q, "REQUEST") = 0
  <1>1. /\ Len(q) \in Nat /\ DOMAIN q = 1..Len(q)
        /\ \A e \in Types : /\ DOMAIN Append(q, e) = 1..Len(q) + 1
                            /\ \A i \in DOMAIN q : Append(q, e)[i] = q[i]
                            /\ Append(q, e)[Len(q) + 1] = e
    OBVIOUS
  <1>2. InOrder(Append(q, "RELEASE"))
    BY <1>1 DEF InOrder, Types
  <1>3. ASSUME Count(q, "RELEASE") = 0 PROVE InOrder(Append(q, "REQUEST"))
    <2> DEFINE A == {i \in DOMAIN q : q[i] = "RELEASE"}
    <2>1. IsFiniteSet(A)
      <3>1. IsFiniteSet(1..Len(q)) /\ A \in SUBSET (1..Len(q))
        BY <1>1, FS_Interval
      <3> QED
        BY <3>1, FS_Subset
    <2>2. A = {}
      BY <1>3, <2>1, FS_EmptySet DEF Count
    <2> QED
      BY <1>1, <2>2 DEF InOrder, Types
  <1>4. ASSUME q # <<>> PROVE InOrder(Tail(q))
    <2>1. /\ DOMAIN Tail(q) = 1..Len(q) - 1
          /\ \A i \in DOMAIN Tail(q) : Tail(q)[i] = q[i + 1] /\ i + 1 \in DOMAIN q
      BY <1>4
    <2> QED
      BY <1>1, <2>1 DEF InOrder
  <1>5. ASSUME q # <<>>, Head(q) = "RELEASE" PROVE Count(q, "REQUEST") = 0
    <2>1. 1 \in DOMAIN q /\ q[1] = "RELEASE"
      BY <1>5
    <2>2. {i \in DOMAIN q : q[i] = "REQUEST"} = {}
      BY <1>1, <2>1 DEF InOrder
    <2> QED
      BY <2>2, FS_EmptySet DEF Count
  <1> QED
    BY <1>2, <1>3, <1>4, <1>5

\* The numbers the balance is about.
LEMMA Numbers ==
    ASSUME TypeOK
    PROVE  /\ events \in Seq(Types) /\ count \in Nat
           /\ \A t \in Types : Pending(t) = Count(events, t) /\ Pending(t)' = Count(events', t)
           /\ \A t \in Types : Pending(t) \in Nat
           /\ Cardinality(Holders) \in Nat
           /\ Requested \in {0, 1}
  <1>1. events \in Seq(Types) /\ count \in Nat
    BY DEF TypeOK, Types
  <1>2. \A t \in Types : Pending(t) = Count(events, t) /\ Pending(t)' = Count(events', t)
    BY DEF Pending, Count
  <1>3. \A t \in Types : Pending(t) \in Nat
    BY <1>1, <1>2, CountAppend
  <1>4. Cardinality(Holders) \in Nat
    <2>1. Holders \in SUBSET Users
      BY DEF Holders
    <2> QED
      BY <2>1, FS_Subset, FS_CardinalityType, SocWakeAssumption
  <1> QED
    BY <1>1, <1>2, <1>3, <1>4 DEF Requested

LEMMA Sums ==
    ASSUME NEW c \in Int, NEW p \in Int, NEW r \in Int, NEW h \in Int, NEW l \in Int,
           NEW cc \in Int, NEW pp \in Int, NEW rr \in Int, NEW hh \in Int, NEW ll \in Int,
           c + p + r = h + l,
           (cc - c) + (pp - p) + (rr - r) = (hh - h) + (ll - l)
    PROVE  cc + pp + rr = hh + ll
  OBVIOUS

\* The balance is kept when both sides change by as much.
LEMMA BalanceKept ==
    ASSUME Balance,
           count \in Int, Pending("REQUEST") \in Int, Requested \in Int,
           Cardinality(Holders) \in Int, Pending("RELEASE") \in Int,
           count' \in Int, Pending("REQUEST")' \in Int, Requested' \in Int,
           Cardinality(Holders') \in Int, Pending("RELEASE")' \in Int,
           (count' - count) + (Pending("REQUEST")' - Pending("REQUEST")) + (Requested' - Requested)
           = (Cardinality(Holders') - Cardinality(Holders))
             + (Pending("RELEASE")' - Pending("RELEASE"))
    PROVE  Balance'
  <1> DEFINE c == count
             p == Pending("REQUEST")
             r == Requested
             h == Cardinality(Holders)
             l == Pending("RELEASE")
             cc == count'
             pp == Pending("REQUEST")'
             rr == Requested'
             hh == Cardinality(Holders')
             ll == Pending("RELEASE")'
  <1>1. /\ c + p + r = h + l
        /\ (cc - c) + (pp - p) + (rr - r) = (hh - h) + (ll - l)
    BY DEF Balance
  <1>2. c \in Int /\ p \in Int /\ r \in Int /\ h \in Int /\ l \in Int
    OBVIOUS
  <1>3. cc \in Int /\ pp \in Int /\ rr \in Int /\ hh \in Int /\ ll \in Int
    OBVIOUS
  <1>4. cc + pp + rr = hh + ll
    <2> HIDE DEF c, p, r, h, l, cc, pp, rr, hh, ll
    <2> QED
      BY <1>1, <1>2, <1>3, Sums
  <1> QED
    BY <1>4 DEF Balance

\* A thread takes its share, or posts for it, and gives it back: the release of
\* the last share is posted with the count still at 1.
LEMMA UserKeepsShares ==
    ASSUME IInv, SharesInv, NEW u \in Users, User(u)
    PROVE  SharesInv'
  <1> SUFFICES ASSUME Orderly' PROVE Balance' /\ RequestsFirst' /\ CountedForUsers'
    BY DEF SharesInv
  <1>t. TypeOK
    BY DEF IInv
  <1>0. /\ Balance /\ RequestsFirst /\ CountedForUsers
        /\ fw = "ready" /\ faults = 0 /\ ~disorder /\ UNCHANGED worker
        /\ ~disorder'
        /\ faults' = 0 /\ Requested' = Requested
    <2>1. UNCHANGED <<worker, fw, carried>> /\ (faults' = 0 => faults = 0)
      BY <1>t DEF TypeOK, User, ForceWakeRequest, PostRequest, IsDeviceAwake, ForceWakeRelease,
         DecIfGreaterOne, PostRelease, Post
    <2>2. disorder => disorder'
      BY <1>t DEF TypeOK, User, ForceWakeRequest, PostRequest, IsDeviceAwake, ForceWakeRelease,
         DecIfGreaterOne, PostRelease
    <2> QED
      BY <2>1, <2>2 DEF SharesInv, Orderly, Requested
  <1>n. /\ events \in Seq(Types) /\ count \in Nat
        /\ \A t \in Types : Pending(t) = Count(events, t) /\ Pending(t)' = Count(events', t)
        /\ \A t \in Types : Pending(t) \in Nat
        /\ Cardinality(Holders) \in Nat
        /\ Requested \in {0, 1}
        /\ Types = {"REQUEST", "RELEASE"}
    BY <1>t, Numbers DEF Types
  <1>s. /\ UNCHANGED events => \A t \in Types : Pending(t)' = Pending(t)
        /\ \A e \in Types : events' = Append(events, e) =>
              \A t \in Types : Pending(t)' = Pending(t) + (IF e = t THEN 1 ELSE 0)
    <2>1. \A e \in Types, t \in Types :
             Count(Append(events, e), t) = Count(events, t) + (IF e = t THEN 1 ELSE 0)
      BY <1>n, CountAppend
    <2>2. UNCHANGED events => \A t \in Types : Count(events', t) = Count(events, t)
      BY DEF Count
    <2>3. ASSUME UNCHANGED events, NEW t \in Types PROVE Pending(t)' = Pending(t)
      BY <1>n, <2>2, <2>3
    <2>4. ASSUME NEW e \in Types, events' = Append(events, e), NEW t \in Types
          PROVE  Pending(t)' = Pending(t) + (IF e = t THEN 1 ELSE 0)
      <3>1. Pending(t) = Count(events, t) /\ Pending(t)' = Count(events', t)
        BY <1>n
      <3>2. Count(events', t) = Count(Append(events, e), t)
        BY <2>4
      <3> QED
        BY <2>1, <3>1, <3>2
    <2> QED
      BY <2>3, <2>4
  <1>u. \A v \in Users, step \in UserSteps : user' = [user EXCEPT ![u] = step] =>
           user'[v] = IF v = u THEN step ELSE user[v]
    BY <1>t DEF TypeOK
  <1>1. CASE ForceWakeRequest(u)
    <2>1. UNCHANGED events /\ user[u] = "out"
      BY <1>1 DEF ForceWakeRequest
    <2>2. CASE count # 0 /\ count' = count + 1 /\ Goes(u, "asked")
      <3>1. Cardinality(Holders') = Cardinality(Holders) + 1
        BY <1>t, <2>1, <2>2, HoldersChange
      <3>2. Pending("REQUEST")' = Pending("REQUEST") /\ Pending("RELEASE")' = Pending("RELEASE")
        BY <1>n, <1>s, <2>1
      <3>3. Balance'
        <4>1. /\ count' \in Int /\ Cardinality(Holders') \in Int
              /\ count' - count = Cardinality(Holders') - Cardinality(Holders)
          BY <1>n, <2>2, <3>1
        <4> QED
          BY <1>0, <1>n, <3>2, <4>1, BalanceKept
      <3>4. RequestsFirst'
        BY <1>0, <1>n, <1>u, <2>1, <2>2, <3>2 DEF RequestsFirst
      <3>5. CountedForUsers'
        BY <1>0, <1>n, <1>u, <2>1, <2>2 DEF CountedForUsers
      <3> QED
        BY <3>3, <3>4, <3>5
    <2>3. CASE count = 0 /\ Goes(u, "post_request") /\ UNCHANGED count
      <3>1. Cardinality(Holders') = Cardinality(Holders)
        BY <1>t, <2>1, <2>3, HoldersChange
      <3> QED
        BY <1>0, <1>n, <1>s, <1>u, <2>1, <2>3, <3>1 DEF Balance, RequestsFirst, CountedForUsers
    <2> QED
      BY <1>1, <2>2, <2>3 DEF ForceWakeRequest
  <1>2. CASE PostRequest(u)
    <2>1. /\ user[u] = "post_request" /\ Goes(u, "asked") /\ UNCHANGED count
          /\ events' = Append(events, "REQUEST")
      BY <1>0, <1>2 DEF PostRequest, Post
    <2>2. Cardinality(Holders') = Cardinality(Holders) + 1
      BY <1>t, <2>1, HoldersChange
    <2>3. Pending("RELEASE") = 0
      BY <1>0, <2>1 DEF RequestsFirst
    <2>4. InOrder(events')
      BY <1>0, <1>n, <2>1, <2>3, OrderChange DEF RequestsFirst
    <2>5. Pending("REQUEST")' = Pending("REQUEST") + 1 /\ Pending("RELEASE")' = Pending("RELEASE")
      BY <1>n, <1>s, <2>1
    <2> QED
      BY <1>0, <1>n, <1>u, <2>1, <2>2, <2>3, <2>4, <2>5 DEF Balance, RequestsFirst, CountedForUsers
  <1>3. CASE IsDeviceAwake(u)
    <2>1. user[u] = "asked" /\ count # 0 /\ Goes(u, "uses") /\ UNCHANGED <<count, events>>
      BY <1>3 DEF IsDeviceAwake
    <2>2. Cardinality(Holders') = Cardinality(Holders)
      BY <1>t, <2>1, HoldersChange
    <2> QED
      BY <1>0, <1>n, <1>s, <1>u, <2>1, <2>2 DEF Balance, RequestsFirst, CountedForUsers
  <1>4. CASE ForceWakeRelease(u)
    <2>1. /\ user[u] = "uses" /\ count # 0 /\ Goes(u, "decrement") /\ UNCHANGED <<count, events>>
      BY <1>0, <1>4 DEF ForceWakeRelease, CountedForUsers
    <2>2. Cardinality(Holders') = Cardinality(Holders)
      BY <1>t, <2>1, HoldersChange
    <2> QED
      BY <1>0, <1>n, <1>s, <1>u, <2>1, <2>2 DEF Balance, RequestsFirst, CountedForUsers
  <1>5. CASE DecIfGreaterOne(u)
    <2>1. user[u] = "decrement" /\ count # 0 /\ UNCHANGED events
      BY <1>0, <1>5 DEF DecIfGreaterOne, CountedForUsers
    <2>2. CASE count > 1 /\ count' = count - 1 /\ Goes(u, "out")
      <3>1. Cardinality(Holders') = Cardinality(Holders) - 1
        BY <1>t, <2>1, <2>2, HoldersChange
      <3>2. Pending("REQUEST")' = Pending("REQUEST") /\ Pending("RELEASE")' = Pending("RELEASE")
        BY <1>n, <1>s, <2>1
      <3>3. Balance'
        <4>1. /\ count' \in Int /\ Cardinality(Holders') \in Int
              /\ count' - count = Cardinality(Holders') - Cardinality(Holders)
          BY <1>n, <2>2, <3>1
        <4> QED
          BY <1>0, <1>n, <3>2, <4>1, BalanceKept
      <3>4. RequestsFirst'
        BY <1>0, <1>n, <1>u, <2>1, <2>2, <3>2 DEF RequestsFirst
      <3>5. CountedForUsers'
        BY <1>0, <1>n, <1>u, <2>1, <2>2 DEF CountedForUsers
      <3> QED
        BY <3>3, <3>4, <3>5
    <2>3. CASE count = 1 /\ Goes(u, "post_release") /\ UNCHANGED count
      <3>1. Cardinality(Holders') = Cardinality(Holders)
        BY <1>t, <2>1, <2>3, HoldersChange
      <3> QED
        BY <1>0, <1>n, <1>s, <1>u, <2>1, <2>3, <3>1 DEF Balance, RequestsFirst, CountedForUsers
    <2> QED
      BY <1>5, <2>1, <2>2, <2>3 DEF DecIfGreaterOne
  <1>6. CASE PostRelease(u)
    <2>1. /\ user[u] = "post_release" /\ Goes(u, "out") /\ UNCHANGED count
          /\ events' = Append(events, "RELEASE")
          /\ \A v \in Users : user[v] # "post_request"
      <3>1. \A v \in Users : user[v] # "post_request"
        BY <1>6, Zenon DEF PostRelease, Orderly
      <3> QED
        BY <1>0, <1>6, <3>1 DEF PostRelease, Post
    <2>2. Cardinality(Holders') = Cardinality(Holders) - 1
      BY <1>t, <2>1, HoldersChange
    <2>3. count # 0
      BY <1>0, <2>1 DEF CountedForUsers
    <2>4. InOrder(events')
      BY <1>0, <1>n, <2>1, OrderChange DEF RequestsFirst
    <2>5. Pending("REQUEST")' = Pending("REQUEST") /\ Pending("RELEASE")' = Pending("RELEASE") + 1
      BY <1>n, <1>s, <2>1
    <2>6. Balance'
      BY <1>0, <1>n, <2>1, <2>2, <2>5, BalanceKept
    <2>7. RequestsFirst'
      BY <1>u, <2>1, <2>3, <2>4 DEF RequestsFirst
    <2>8. CountedForUsers'
      BY <1>0, <1>u, <2>1 DEF CountedForUsers
    <2> QED
      BY <2>6, <2>7, <2>8
  <1> QED
    BY <1>1, <1>2, <1>3, <1>4, <1>5, <1>6 DEF User

\* The worker takes the first event.
LEMMA EventTaken ==
    ASSUME IInv, SharesInv, Orderly, NEW e \in Types, Takes(e)
    PROVE  /\ worker = "idle" /\ UNCHANGED user
           /\ InOrder(events')
           /\ \A t \in Types : Pending(t)' = Pending(t) - (IF e = t THEN 1 ELSE 0)
           /\ Pending("REQUEST")' \in Nat /\ Pending("RELEASE")' \in Nat
           /\ e = "RELEASE" => Pending("REQUEST") = 0
  <1>1. /\ worker = "idle" /\ UNCHANGED user
        /\ events # <<>> /\ Head(events) = e /\ events' = Tail(events)
    BY DEF Takes
  <1>2. /\ events \in Seq(Types)
        /\ \A t \in Types : Pending(t) = Count(events, t) /\ Pending(t)' = Count(events', t)
    BY Numbers DEF IInv
  <1>3. InOrder(events)
    BY DEF SharesInv, RequestsFirst
  <1>4. InOrder(events') /\ (e = "RELEASE" => Count(events, "REQUEST") = 0)
    BY <1>1, <1>2, <1>3, OrderChange
  <1>5. \A t \in Types : /\ Count(Tail(events), t) \in Nat
                        /\ Count(Tail(events), t) = Count(events, t) - (IF e = t THEN 1 ELSE 0)
    BY <1>1, <1>2, CountTail
  <1>6. ASSUME NEW t \in Types
        PROVE  Pending(t)' \in Nat /\ Pending(t)' = Pending(t) - (IF e = t THEN 1 ELSE 0)
    <2>1. Count(events', t) = Count(Tail(events), t)
      BY <1>1
    <2> QED
      BY <1>2, <1>5, <2>1
  <1>7. "REQUEST" \in Types /\ "RELEASE" \in Types
    BY DEF Types
  <1> QED
    BY <1>1, <1>2, <1>4, <1>6, <1>7

\* The worker turns a request into a share, by itself or through a message, and
\* takes the share of a release: with the last one nobody holds one.
LEMMA WorkerKeepsShares ==
    ASSUME IInv, SharesInv, Worker
    PROVE  SharesInv'
  <1> SUFFICES ASSUME Orderly' PROVE Balance' /\ RequestsFirst' /\ CountedForUsers'
    BY DEF SharesInv
  <1>t. TypeOK
    BY DEF IInv
  <1>0. Orderly /\ Balance /\ RequestsFirst /\ CountedForUsers
    <2>1. UNCHANGED <<fw, disorder, carried>> /\ (faults' = 0 => faults = 0)
      BY <1>t DEF TypeOK, Worker, SocWakeRequest, SocWakeRelease, SendRefused, SendSmp2p,
         Acknowledged, TimedOut, Takes, Sent
    <2> QED
      BY <2>1 DEF SharesInv, Orderly
  <1>n. /\ count \in Nat /\ Requested \in {0, 1}
        /\ Pending("REQUEST") \in Nat /\ Pending("RELEASE") \in Nat
        /\ Cardinality(Holders) \in Nat
        /\ "REQUEST" \in Types /\ "RELEASE" \in Types
    BY <1>t, Numbers DEF Types
  <1>h. UNCHANGED user => Holders' = Holders /\ Cardinality(Holders') = Cardinality(Holders)
    BY DEF Holders
  <1>e. UNCHANGED events => /\ Pending("REQUEST")' = Pending("REQUEST")
                            /\ Pending("RELEASE")' = Pending("RELEASE")
    BY DEF Pending
  <1>1. CASE SocWakeRequest
    <2>1. /\ worker = "idle" /\ UNCHANGED user /\ InOrder(events')
          /\ Pending("REQUEST")' = Pending("REQUEST") - 1
          /\ Pending("RELEASE")' = Pending("RELEASE")
          /\ Pending("REQUEST")' \in Nat /\ Pending("RELEASE")' \in Nat
      BY <1>0, <1>1, <1>n, EventTaken DEF SocWakeRequest
    <2>2. \/ count # 0 /\ count' = count + 1 /\ Requested = 0 /\ Requested' = 0
          \/ count = 0 /\ count' = 0 /\ Requested = 0 /\ Requested' = 1
      BY <1>1, <2>1 DEF SocWakeRequest, Requested
    <2>3. Balance'
      <3>1. Cardinality(Holders') = Cardinality(Holders)
        BY <1>h, <2>1
      <3>2. CASE count # 0 /\ count' = count + 1 /\ Requested = 0 /\ Requested' = 0
        BY <1>0, <1>n, <2>1, <3>1, <3>2, BalanceKept
      <3>3. CASE count = 0 /\ count' = 0 /\ Requested = 0 /\ Requested' = 1
        BY <1>0, <1>n, <2>1, <3>1, <3>3, BalanceKept
      <3> QED
        BY <2>2, <3>2, <3>3
    <2>4. RequestsFirst' /\ CountedForUsers'
      BY <1>0, <1>n, <2>1, <2>2 DEF RequestsFirst, CountedForUsers
    <2> QED
      BY <2>3, <2>4
  <1>2. CASE SocWakeRelease
    <2>1. /\ worker = "idle" /\ UNCHANGED user /\ InOrder(events')
          /\ Pending("REQUEST")' = Pending("REQUEST") /\ Pending("REQUEST") = 0
          /\ Pending("RELEASE")' = Pending("RELEASE") - 1
          /\ Pending("REQUEST")' \in Nat /\ Pending("RELEASE")' \in Nat
      BY <1>0, <1>2, <1>n, EventTaken DEF SocWakeRelease
    <2>2. count # 0 /\ \A u \in Users : user[u] # "post_request"
      BY <1>0, <1>n, <2>1 DEF RequestsFirst
    <2>3. /\ count' = count - 1 /\ count' \in Nat /\ Requested = 0 /\ Requested' = 0
      BY <1>2, <1>n, <2>1, <2>2 DEF SocWakeRelease, Requested
    <2>4. Balance'
      BY <1>0, <1>n, <1>h, <2>1, <2>3, BalanceKept
    <2>5. CASE count = 1
      <3>1. Cardinality(Holders) = 0 /\ Pending("RELEASE")' = 0
        <4> DEFINE h == Cardinality(Holders)
                   l == Pending("RELEASE")
        <4>1. 1 = h + l /\ h \in Nat /\ l \in Nat /\ l - 1 \in Nat
          BY <1>0, <1>n, <2>1, <2>3, <2>5 DEF Balance
        <4>2. h = 0 /\ l - 1 = 0
          <5> HIDE DEF h, l
          <5> QED
            BY <4>1
        <4> QED
          BY <2>1, <4>2
      <3>2. Holders = {}
        <4>1. IsFiniteSet(Holders)
          <5>1. Holders \in SUBSET Users
            BY DEF Holders
          <5> QED
            BY <5>1, FS_Subset, SocWakeAssumption
        <4> QED
          BY <3>1, <4>1, FS_EmptySet
      <3>3. CountedForUsers'
        BY <2>1, <3>2 DEF CountedForUsers, Holders
      <3> QED
        BY <2>1, <2>4, <3>1, <3>3 DEF RequestsFirst
    <2>6. CASE count > 1
      BY <1>n, <2>1, <2>2, <2>3, <2>4, <2>6 DEF RequestsFirst, CountedForUsers
    <2> QED
      BY <1>n, <2>2, <2>5, <2>6
  <1>3. CASE SendRefused
    <2>1. faults' # 0
      BY <1>0, <1>3, <1>t DEF TypeOK, SendRefused, Orderly
    <2> QED
      BY <2>1 DEF Orderly
  <1>4. CASE SendSmp2p
    <2>1. UNCHANGED <<count, events, user>> /\ Requested' = Requested
      BY <1>4 DEF SendSmp2p, Requested
    <2>2. Balance'
      BY <1>0, <1>n, <1>h, <1>e, <2>1, BalanceKept
    <2> QED
      BY <1>0, <1>e, <2>1, <2>2 DEF RequestsFirst, CountedForUsers
  <1>5. CASE Acknowledged \/ TimedOut
    <2>1. Waiting /\ Sent
      BY <1>5 DEF Acknowledged, TimedOut
    <2>2. count = 0
      BY <2>1 DEF IInv, BusyMeansNone
    <2>3. UNCHANGED <<events, user>> /\ count' \in Nat
      BY <2>1, <1>n DEF Sent
    <2>4. /\ Requested' = 0
          /\ \/ Requested = 1 /\ count' = 1
             \/ Requested = 0 /\ count' = 0
      BY <2>1, <2>2 DEF Sent, Requested
    <2>5. Balance'
      BY <1>0, <1>n, <1>h, <1>e, <2>2, <2>3, <2>4, BalanceKept
    <2> QED
      BY <1>0, <1>e, <2>2, <2>3, <2>5 DEF RequestsFirst, CountedForUsers
  <1> QED
    BY <1>1, <1>2, <1>3, <1>4, <1>5 DEF Worker

\* A firmware that finds nothing of the one before it starts with no share and no
\* thread that holds one.
LEMMA DeviceKeepsShares ==
    ASSUME IInv, SharesInv, SocWakeAck \/ Obey \/ Crash \/ FwDown \/ EventWorker
    PROVE  SharesInv'
  <1>1. CASE SocWakeAck \/ Obey
    BY <1>1 DEF SocWakeAck, Obey, SharesInv, Orderly, Balance, RequestsFirst, CountedForUsers,
       Requested, Pending, Holders, InOrder
  <1>2. CASE Crash \/ FwDown \/ ServerArrive
    BY <1>2 DEF Crash, FwDown, ServerArrive, SharesInv, Orderly
  <1>3. CASE FwReadyInd
    <2> SUFFICES ASSUME carried' = {} PROVE SharesInv'
      BY DEF SharesInv, Orderly
    <2>0. "message" \notin Left /\ "share" \notin Left
      BY <1>3 DEF FwReadyInd
    <2>1. /\ count' = 0 /\ events' = <<>> /\ worker' = "idle"
          /\ \A u \in Users : user'[u] = "out"
      BY <1>3, <2>0 DEF FwReadyInd, Left
    <2>2. /\ Holders' = {}
          /\ {i \in DOMAIN events' : events'[i] = "REQUEST"} = {}
          /\ {i \in DOMAIN events' : events'[i] = "RELEASE"} = {}
      BY <2>1 DEF Holders
    <2>3. Cardinality({}) = 0
      BY FS_EmptySet
    <2>4. /\ Cardinality(Holders') = 0 /\ Requested' = 0
          /\ Pending("REQUEST")' = 0 /\ Pending("RELEASE")' = 0
      BY <2>1, <2>2, <2>3 DEF Requested, Pending
    <2> QED
      BY <2>1, <2>4 DEF SharesInv, Balance, RequestsFirst, CountedForUsers, InOrder
  <1>4. CASE DriverShutdown \/ DriverReinit \/ DriverStarted
    BY <1>4 DEF DriverShutdown, DriverReinit, DriverStarted, SharesInv, Orderly, Balance,
       RequestsFirst, CountedForUsers, Requested, Pending, Holders, InOrder
  <1> QED
    BY <1>1, <1>2, <1>3, <1>4 DEF EventWorker

\* The device falls asleep with the last share.
LEMMA KeepsSleeping ==
    ASSUME IInv, SleepsInv, Next
    PROVE  SleepsInv'
  <1>1. CASE \E u \in Users : User(u)
    <2>1. PICK u \in Users : User(u)
      BY <1>1
    <2>2. /\ UNCHANGED <<worker, device, carried>> /\ (count # 0 => count' # 0)
          /\ (faults' = 0 => faults = 0)
      BY <2>1 DEF IInv, TypeOK, User, ForceWakeRequest, PostRequest, IsDeviceAwake,
         ForceWakeRelease, DecIfGreaterOne, PostRelease, Post
    <2> QED
      BY <2>2 DEF SleepsInv
  <1>2. CASE SocWakeRequest
    BY <1>2 DEF IInv, TypeOK, SleepsInv, SocWakeRequest, Takes
  <1>3. CASE SocWakeRelease
    BY <1>3 DEF IInv, TypeOK, SleepsInv, SocWakeRelease, Takes
  <1>4. CASE SendRefused
    BY <1>4 DEF IInv, TypeOK, SleepsInv, SendRefused
  <1>5. CASE SendSmp2p
    BY <1>5 DEF IInv, TypeOK, SleepsInv, SendSmp2p
  <1>6. CASE Acknowledged
    <2>1. /\ Waiting /\ acked /\ worker' = "idle"
          /\ UNCHANGED <<fw, message, ack, awake, faults, carried>>
          /\ count' = IF worker = "wait_req" THEN count + 1 ELSE count
      BY <1>6 DEF Acknowledged, Sent
    <2>2. fw = "ready" /\ faults = 0 /\ carried = {} => message = "none"
      BY <2>1, Zenon DEF IInv, Exchange
    <2>3. count \in Nat
      BY DEF IInv, TypeOK
    <2> QED
      BY <2>1, <2>2, <2>3 DEF SleepsInv
  <1>7. CASE TimedOut
    BY <1>7 DEF IInv, TypeOK, Exchange, SleepsInv, TimedOut, Sent, Answers
  <1>8. CASE SocWakeAck
    BY <1>8 DEF SleepsInv, SocWakeAck
  <1>9. CASE Obey
    BY <1>9 DEF IInv, TypeOK, Exchange, SleepsInv, Obey
  <1>10. CASE Crash \/ FwDown \/ ServerArrive
    BY <1>10 DEF SleepsInv, Crash, FwDown, ServerArrive
  <1>11. CASE FwReadyInd
    <2>1. carried' = {} => worker = "idle" /\ ~awake
      BY <1>11 DEF FwReadyInd, Left
    <2> QED
      BY <1>11, <2>1 DEF SleepsInv, FwReadyInd
  <1>12. CASE DriverShutdown \/ DriverReinit \/ DriverStarted
    BY <1>12 DEF SleepsInv, DriverShutdown, DriverReinit, DriverStarted
  <1> QED
    BY <1>1, <1>2, <1>3, <1>4, <1>5, <1>6, <1>7, <1>8, <1>9, <1>10, <1>11, <1>12
       DEF Next, Worker, EventWorker

\* Both hold in every state.
LEMMA SharesInvariant == Spec => [](SharesInv /\ SleepsInv)
  <1>1. Init => SharesInv /\ SleepsInv
    BY DEF Init, SharesInv, Orderly, SleepsInv
  <1>2. IInv /\ SharesInv /\ SleepsInv /\ [Next]_vars => SharesInv' /\ SleepsInv'
    <2> SUFFICES ASSUME IInv, SharesInv, SleepsInv, [Next]_vars PROVE SharesInv' /\ SleepsInv'
      OBVIOUS
    <2>1. CASE Next
      <3>1. SharesInv'
        BY <2>1, UserKeepsShares, WorkerKeepsShares, DeviceKeepsShares DEF Next
      <3> QED
        BY <2>1, <3>1, KeepsSleeping
    <2>2. CASE UNCHANGED vars
      BY <2>2 DEF vars, SharesInv, Orderly, Balance, RequestsFirst, CountedForUsers, Requested,
         Pending, Holders, InOrder, SleepsInv
    <2> QED
      BY <2>1, <2>2
  <1> QED
    BY <1>1, <1>2, Invariant, PTL DEF Spec

-----------------------------------------------------------------------------
(***************************************************************************)
(* Theorems                                                                *)
(***************************************************************************)

\* For any threads and bounds every variable of the wake requests keeps its type.
THEOREM TypeCorrect == Spec => []TypeOK
  <1>1. IInv => TypeOK
    BY DEF IInv
  <1> QED
    BY <1>1, Invariant, PTL

\* icnss_is_device_awake tells the truth of every firmware in service, however
\* many threads, messages and crashes there were, as long as no message fails.
THEOREM AwakeIsTrue == Spec => []CountIsTrue
  <1>1. IInv => CountIsTrue
    BY DEF IInv
  <1> QED
    BY <1>1, Invariant, PTL

\* No share is lost or counted twice, with any number of threads and of requests
\* on their way, unless something fails or a release overtakes a request.
THEOREM SharesAreBalanced == Spec => []SharesBalance
  <1>1. SharesInv => SharesBalance
    BY DEF SharesInv, Orderly, SharesBalance, Balance, Requested
  <1> QED
    BY <1>1, SharesInvariant, PTL

\* The device stays awake for every thread that was told so, and sleeps when no
\* thread needs it.
THEOREM AwakeForThemAlone == Spec => []AwakeJustForUsers
  <1>1. IInv /\ SharesInv /\ SleepsInv => AwakeJustForUsers
    <2> SUFFICES ASSUME IInv, SharesInv, SleepsInv PROVE AwakeForUsers /\ SleepsWhenUnused
      BY DEF AwakeJustForUsers
    <2>1. AwakeForUsers
      BY DEF SharesInv, Orderly, CountedForUsers, AwakeForUsers
    <2>2. SleepsWhenUnused
      <3> SUFFICES ASSUME faults = 0, ~disorder, fw = "ready", carried = {}, events = <<>>, worker = "idle",
                          \A u \in Users : user[u] = "out"
                   PROVE  ~awake
        BY DEF SleepsWhenUnused, Orderly
      <3>1. /\ Holders = {}
            /\ {i \in DOMAIN events : events[i] = "REQUEST"} = {}
            /\ {i \in DOMAIN events : events[i] = "RELEASE"} = {}
        BY DEF Holders
      <3>2. /\ Cardinality(Holders) = 0 /\ Requested = 0
            /\ Pending("REQUEST") = 0 /\ Pending("RELEASE") = 0
        BY <3>1, FS_EmptySet DEF Requested, Pending
      <3>3. count = 0
        <4>1. count \in Nat /\ Balance
          BY DEF IInv, TypeOK, SharesInv, Orderly
        <4> QED
          BY <3>2, <4>1 DEF Balance
      <3> QED
        BY <3>3 DEF SleepsInv
    <2> QED
      BY <2>1, <2>2
  <1> QED
    BY <1>1, Invariant, SharesInvariant, PTL
===============================================================================
