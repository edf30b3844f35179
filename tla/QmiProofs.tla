------------------------------- MODULE QmiProofs -------------------------------
(***************************************************************************)
(* Proofs about what goes over QMI: the file transfers with the daemon,    *)
(* for any set of callers, addresses and sizes and any number of transfers *)
(* and sessions, and the encoding of messages, however they are filled.    *)
(*                                                                         *)
(* Files.  The QMI thread uses a file after it has given up                *)
(* file_idr_lock, and may so write to a file that was freed and whose      *)
(* address another transfer has by now.  What it writes never changes an   *)
(* id and never takes back a completion, which is all that the invariant   *)
(* needs: it is about the ids, the entries of file_idr and who holds which *)
(* file.  What a transfer has moved is known while it is calm, when a file *)
(* in use is that of a caller that still waits for it: CalmInv says how    *)
(* far each transfer has come, at every step of the QMI thread.            *)
(*                                                                         *)
(* Messages.  Here the theorems rest on TableIsSound, a condition on the   *)
(* tables alone, which TLC evaluates on each of them.  ExchangeInv says    *)
(* how far the sender and the receiver have come.                          *)
(***************************************************************************)
EXTENDS PlatIpcFile, QmiExchange, FiniteSetTheorems, WellFoundedInduction, TLAPS

-----------------------------------------------------------------------------
(***************************************************************************)
(* The inductive invariant                                                 *)
(***************************************************************************)

Entered == {"send", "wait", "collect", "deinit"}
Holding == Entered \cup {"free"}

\* The QMI thread has a file in the middle of a request.
QmiHasFile ==
    qpc \in {"up_check", "up_respond", "up_advance", "down", "down_end"} => qfd \in Addrs

\* A caller holds an allocated file with an id that was handed out.
HoldersOwn ==
    \A c \in Callers : pc[c] \in Holding =>
        /\ file[c] \in live
        /\ fd[file[c]].id \in Ids /\ fd[file[c]].id < next_id

\* No two callers hold files with the same id.
IdsDiffer ==
    \A c, d \in Callers : pc[c] \in Holding /\ pc[d] \in Holding /\ c # d =>
        fd[file[c]].id # fd[file[d]].id

\* A file is in file_idr exactly as long as its caller has not withdrawn it.
EnteredFiles ==
    \A c \in Callers : pc[c] \in Entered => file_idr[fd[file[c]].id] = file[c]
EntriesHeld ==
    \A i \in Ids : file_idr[i] # NULL =>
        \E c \in Callers : pc[c] \in Entered /\ file[c] = file_idr[i] /\ fd[file[c]].id = i

\* The socket is that of a daemon that is connected.
SocketIsDaemon == socket => "daemon" \in clients

IInv == /\ TypeOK /\ QmiHasFile /\ HoldersOwn /\ IdsDiffer /\ EnteredFiles /\ EntriesHeld
        /\ SocketIsDaemon /\ NoWaitForDeadDaemon

-----------------------------------------------------------------------------
(***************************************************************************)
(* Types                                                                   *)
(***************************************************************************)

\* The number of segments of a file is a number.
LEMMA SegLenIsNat == ASSUME NEW n \in Nat PROVE SegLen(n) \in Nat
  <1>1. n \div SegMax \in Nat /\ SegMax \in Nat \ {0}
    BY PlatIpcAssumption
  <1> QED
    BY <1>1 DEF SegLen

LEMMA TypeInit == Init => TypeOK
  <1> SUFFICES ASSUME Init PROVE TypeOK
    OBVIOUS
  <1> USE PlatIpcAssumption DEF Init
  <1>1. Blank \in FileData /\ NoCall \in Arguments /\ NoRequest \in Request
    BY DEF Blank, FileData, NoCall, Arguments, NoRequest, Request
  <1>2. /\ calm \in BOOLEAN /\ clients \in SUBSET Clients /\ socket \in BOOLEAN
        /\ session \in Nat /\ live \in SUBSET Addrs
    BY DEF Clients
  <1>6. next_id \in 1..MaxIds + 1
    OBVIOUS
  <1>7. file_idr \in [Ids -> Addrs \cup {NULL}] /\ told \in [Ids -> Nat]
    OBVIOUS
  <1>3. fd \in [Addrs -> FileData]
    BY <1>1
  <1>4. /\ pc \in [Callers -> CallerSteps] /\ file \in [Callers -> Addrs \cup {NULL}]
        /\ args \in [Callers -> Arguments] /\ size \in [Callers -> Nat]
    BY <1>1 DEF CallerSteps
  <1>5. qpc \in QmiSteps /\ qfd \in Addrs \cup {NULL} /\ req \in Request
    BY <1>1 DEF QmiSteps
  <1> QED
    BY <1>2, <1>3, <1>4, <1>5, <1>6, <1>7 DEF TypeOK

\* A store of the QMI thread to a file keeps the ids and the completions.
LEMMA SetKeeps ==
    ASSUME TypeOK, NEW a \in Addrs, NEW new \in FileData, Set(a, new),
           new.id = fd[a].id, fd[a].complete => new.complete
    PROVE  /\ fd' \in [Addrs -> FileData]
           /\ \A b \in Addrs : fd'[b].id = fd[b].id /\ (fd[b].complete => fd'[b].complete)
  BY DEF TypeOK, Set

\* What each handler of the QMI thread does to the files.
FilesKept == /\ fd' \in [Addrs -> FileData]
             /\ \A b \in Addrs : fd'[b].id = fd[b].id /\ (fd[b].complete => fd'[b].complete)

LEMMA SameFilesKept == TypeOK /\ UNCHANGED fd => FilesKept
  BY DEF TypeOK, FilesKept

LEMMA LeastIsNat == ASSUME NEW a \in Nat, NEW b \in Nat PROVE Least(a, b) \in Nat
  BY DEF Least

\* The handlers of requests.
UseFile ==
    \/ UploadRequest \/ UploadCheck \/ UploadNoMemory
    \/ UploadRespond \/ UploadSendFails \/ UploadAdvance
    \/ DownloadRequest \/ DownloadRefused \/ DownloadCopy \/ DownloadEnd

\* They find the file they use, keep the ids and the completions, and end
\* where the thread takes another request.
LEMMA UseFileKeeps ==
    ASSUME TypeOK, QmiHasFile, HoldersOwn, UseFile
    PROVE  /\ FilesKept
           /\ qpc # "fail_files" /\ qpc' # "fail_files"
           /\ qpc' \in QmiSteps /\ qfd' \in Addrs \cup {NULL} /\ req' \in Request
           /\ QmiHasFile'
           /\ UNCHANGED <<linkVars, file_idr, next_id, live, callerVars, told>>
  <1> USE DEF qmiRest, linkVars, callerVars, heapVars
  <1>0. NoRequest \in Request
    BY PlatIpcAssumption DEF NoRequest, Request
  <1>1. CASE UploadRequest
    <2>0. PICK i \in Known("upload") : \E k \in 0..fd[file_idr[i]].seg_len - 1 :
             Lookup("up_check", [NoRequest EXCEPT !.id = i, !.seg_index = k])
      BY <1>1 DEF UploadRequest
    <2>1. PICK k \in 0..fd[file_idr[i]].seg_len - 1 :
             Lookup("up_check", [NoRequest EXCEPT !.id = i, !.seg_index = k])
      BY <2>0
    <2>2. i \in Ids /\ file_idr[i] \in Addrs
      BY DEF Known, TypeOK
    <2>3. k \in Nat
      OBVIOUS
    <2>4. [NoRequest EXCEPT !.id = i, !.seg_index = k] \in Request
      <3>1. i \in 0..MaxIds
        BY <2>2, PlatIpcAssumption DEF Ids
      <3> QED
        BY <1>0, <2>3, <3>1 DEF Request
    <2>5. FilesKept
      BY <2>1, SameFilesKept DEF Lookup
    <2> QED
      BY <2>1, <2>2, <2>4, <2>5 DEF Lookup, QmiHasFile, QmiSteps
  <1>2. CASE UploadCheck
    <2>1. qfd \in Addrs /\ Completed(qfd) \in FileData
          /\ Completed(qfd).id = fd[qfd].id /\ Completed(qfd).complete
      BY <1>2 DEF UploadCheck, QmiHasFile, TypeOK, Completed, FileData
    <2>2. FilesKept
      BY <1>2, <2>1, SetKeeps, SameFilesKept DEF UploadCheck, FilesKept
    <2> QED
      BY <1>2, <2>1, <2>2 DEF UploadCheck, QmiHasFile, QmiSteps, TypeOK
  <1>3. CASE UploadNoMemory
    BY <1>0, <1>3, SameFilesKept DEF UploadNoMemory, Done, QmiHasFile, QmiSteps
  <1>4. CASE UploadRespond
    <2> DEFINE new == [fd[qfd] EXCEPT !.seg_index = @ + 1]
               len == Least(fd[qfd].buf_size, SegMax)
    <2>1. qfd \in Addrs /\ fd[qfd] \in FileData
      BY <1>4 DEF UploadRespond, QmiHasFile, TypeOK
    <2>2. new \in FileData /\ new.id = fd[qfd].id /\ new.complete = fd[qfd].complete
      BY <2>1 DEF FileData
    <2>3. FilesKept
      BY <1>4, <2>1, <2>2, SetKeeps DEF UploadRespond, FilesKept
    <2>4. len \in Nat
      <3>1. fd[qfd].buf_size \in Nat
        BY <2>1, PlatIpcAssumption DEF FileData
      <3>2. SegMax \in Nat
        BY PlatIpcAssumption
      <3> QED
        BY <3>1, <3>2, LeastIsNat
    <2>5. req' \in Request
      BY <1>4, <2>4 DEF UploadRespond, TypeOK, Request
    <2> QED
      BY <1>4, <2>1, <2>3, <2>5 DEF UploadRespond, QmiHasFile, QmiSteps, TypeOK
  <1>5. CASE UploadSendFails
    <2> DEFINE new == [fd[qfd] EXCEPT !.seg_index = @ + 1]
    <2>1. qfd \in Addrs /\ fd[qfd] \in FileData
      BY <1>5 DEF UploadSendFails, QmiHasFile, TypeOK
    <2>2. new \in FileData /\ new.id = fd[qfd].id /\ new.complete = fd[qfd].complete
      BY <2>1 DEF FileData
    <2>3. FilesKept
      BY <1>5, <2>1, <2>2, SetKeeps DEF UploadSendFails, FilesKept
    <2> QED
      BY <1>0, <1>5, <2>3 DEF UploadSendFails, Done, QmiHasFile, QmiSteps
  <1>6. CASE UploadAdvance
    <2> DEFINE g == [fd[qfd] EXCEPT !.buf_size = (@ - req.len) % U32, !.buf = @ + req.len]
               h == [g EXCEPT !.end = TRUE, !.complete = TRUE]
    <2>1. qfd \in Addrs /\ fd[qfd] \in FileData /\ req.len \in Nat
      BY <1>6 DEF UploadAdvance, QmiHasFile, TypeOK, Request
    <2>2. (fd[qfd].buf_size - req.len) % U32 \in 0..U32 - 1
      BY <2>1, PlatIpcAssumption DEF FileData
    <2>3. g \in FileData /\ g.id = fd[qfd].id /\ g.complete = fd[qfd].complete
      <3>1. fd[qfd].buf + req.len \in Nat
        BY <2>1 DEF FileData
      <3> DEFINE n == (fd[qfd].buf_size - req.len) % U32
                 m == fd[qfd].buf + req.len
      <3>2. g = [fd[qfd] EXCEPT !.buf_size = n, !.buf = m]
        BY <2>1 DEF FileData
      <3> HIDE DEF n, m
      <3>3. n \in 0..U32 - 1 /\ m \in Nat
        BY <2>2, <3>1 DEF n, m
      <3> QED
        BY <2>1, <3>2, <3>3 DEF FileData
    <2>4. h \in FileData /\ h.id = fd[qfd].id /\ h.complete
      BY <2>3 DEF FileData
    <2>5. Set(qfd, IF req.end THEN h ELSE g)
      BY <1>6 DEF UploadAdvance
    <2> HIDE DEF g, h
    <2>6. FilesKept
      BY <2>1, <2>3, <2>4, <2>5, SetKeeps DEF FilesKept
    <2> QED
      BY <1>0, <1>6, <2>6 DEF UploadAdvance, Done, QmiHasFile, QmiSteps
  <1>7. CASE DownloadRequest
    <2>1. PICK i \in Known("download"), k \in 0..Max(Sizes[calm]), len \in 1..SegMax,
               last \in BOOLEAN, n \in {0, U32 - 1} :
             Lookup("down", [id |-> i, seg_index |-> k, file_size |-> n, len |-> len,
                             end |-> last])
      BY <1>7 DEF DownloadRequest
    <2>2. i \in Ids /\ file_idr[i] \in Addrs
      BY DEF Known, TypeOK
    <2>3. [id |-> i, seg_index |-> k, file_size |-> n, len |-> len, end |-> last] \in Request
      BY <2>2, PlatIpcAssumption DEF Request, Ids
    <2>4. FilesKept
      BY <2>1, SameFilesKept DEF Lookup
    <2> QED
      BY <2>1, <2>2, <2>3, <2>4 DEF Lookup, QmiHasFile, QmiSteps
  <1>8. CASE DownloadRefused
    <2>1. qfd \in Addrs /\ Completed(qfd) \in FileData
          /\ Completed(qfd).id = fd[qfd].id /\ Completed(qfd).complete
      BY <1>8 DEF DownloadRefused, QmiHasFile, TypeOK, Completed, FileData
    <2>2. FilesKept
      BY <1>8, <2>1, SetKeeps DEF DownloadRefused, FilesKept
    <2> QED
      BY <1>0, <1>8, <2>2 DEF DownloadRefused, Done, QmiHasFile, QmiSteps
  <1>9. CASE DownloadCopy
    <2> DEFINE new == [fd[qfd] EXCEPT !.seg_index = @ + 1, !.buf = @ + req.len,
                                      !.file_size = @ + req.len]
    <2>1. qfd \in Addrs /\ fd[qfd] \in FileData /\ req.len \in Nat
      BY <1>9 DEF DownloadCopy, QmiHasFile, TypeOK, Request
    <2>2. new \in FileData /\ new.id = fd[qfd].id /\ new.complete = fd[qfd].complete
      <3> DEFINE m == fd[qfd].buf + req.len
                 n == fd[qfd].file_size + req.len
                 k == fd[qfd].seg_index + 1
      <3>1. m \in Nat /\ n \in Nat /\ k \in Nat
        BY <2>1 DEF FileData
      <3>2. new = [fd[qfd] EXCEPT !.seg_index = k, !.buf = m, !.file_size = n]
        BY <2>1 DEF FileData
      <3> HIDE DEF m, n, k
      <3> QED
        BY <2>1, <3>1, <3>2 DEF FileData
    <2>3. Set(qfd, new)
      BY <1>9 DEF DownloadCopy
    <2> HIDE DEF new
    <2>4. FilesKept
      BY <2>1, <2>2, <2>3, SetKeeps DEF FilesKept
    <2> QED
      BY <1>0, <1>9, <2>1, <2>4 DEF DownloadCopy, Done, QmiHasFile, QmiSteps, TypeOK
  <1>10. CASE DownloadEnd
    <2> DEFINE new == [fd[qfd] EXCEPT !.end = TRUE, !.complete = TRUE]
    <2>1. qfd \in Addrs /\ fd[qfd] \in FileData
      BY <1>10 DEF DownloadEnd, QmiHasFile, TypeOK
    <2>2. new \in FileData /\ new.id = fd[qfd].id /\ new.complete
      BY <2>1 DEF FileData
    <2>3. FilesKept
      BY <1>10, <2>1, <2>2, SetKeeps DEF DownloadEnd, FilesKept
    <2> QED
      BY <1>0, <1>10, <2>3 DEF DownloadEnd, Done, QmiHasFile, QmiSteps
  <1> QED
    BY <1>1, <1>2, <1>3, <1>4, <1>5, <1>6, <1>7, <1>8, <1>9, <1>10 DEF UseFile

-----------------------------------------------------------------------------
(***************************************************************************)
(* The QMI thread                                                          *)
(***************************************************************************)

\* What the invariant needs of a step that leaves the entries, the callers and
\* the socket alone.
LEMMA FilesKeptKeeps ==
    ASSUME IInv, FilesKept, qpc # "fail_files" \/ qpc' = "fail_files",
           qpc' \in QmiSteps, qfd' \in Addrs \cup {NULL}, req' \in Request, QmiHasFile',
           UNCHANGED <<linkVars, file_idr, next_id, live, callerVars, told>>
    PROVE  IInv'
  <1> USE DEF linkVars, callerVars
  <1>1. TypeOK'
    BY DEF IInv, TypeOK, FilesKept
  <1>2. \A c \in Callers : pc[c] \in Holding => file[c] \in Addrs
    BY DEF IInv, TypeOK, HoldersOwn
  <1>3. \A c \in Callers : pc[c] \in Holding => fd'[file[c]].id = fd[file[c]].id
    BY <1>2 DEF FilesKept
  <1>4. HoldersOwn'
    BY <1>3 DEF IInv, HoldersOwn
  <1>5. IdsDiffer'
    BY <1>3 DEF IInv, IdsDiffer
  <1>6. EnteredFiles' /\ EntriesHeld'
    BY <1>3 DEF IInv, EnteredFiles, EntriesHeld, Holding
  <1>7. SocketIsDaemon'
    BY DEF IInv, SocketIsDaemon
  <1>8. NoWaitForDeadDaemon'
    BY <1>2, <1>3 DEF IInv, NoWaitForDeadDaemon, FilesKept, Holding, Entered
  <1> QED
    BY <1>1, <1>4, <1>5, <1>6, <1>7, <1>8 DEF IInv

LEMMA UseFileNext == IInv /\ UseFile => IInv'
  BY UseFileKeeps, FilesKeptKeeps DEF IInv

\* A daemon registers when nobody waits for it: it was not connected.
LEMMA RegisterNext ==
    ASSUME IInv, NEW cl \in Clients, RegisterClient(cl)
    PROVE  IInv'
  <1> USE DEF RegisterClient, heapVars, callerVars, qmiVars
  <1>1. TypeOK'
    <2>1. clients' \in SUBSET Clients
      BY DEF IInv, TypeOK
    <2>2. session' \in Nat
      BY DEF IInv, TypeOK
    <2>3. socket' \in BOOLEAN
      BY DEF IInv, TypeOK
    <2> QED
      BY <2>1, <2>2, <2>3 DEF IInv, TypeOK
  <1>2. QmiHasFile' /\ HoldersOwn' /\ IdsDiffer' /\ EnteredFiles' /\ EntriesHeld'
    BY DEF IInv, QmiHasFile, HoldersOwn, IdsDiffer, EnteredFiles, EntriesHeld
  <1>3. SocketIsDaemon'
    BY DEF IInv, SocketIsDaemon
  <1>4. NoWaitForDeadDaemon'
    BY DEF IInv, SocketIsDaemon, NoWaitForDeadDaemon
  <1> QED
    BY <1>1, <1>2, <1>3, <1>4 DEF IInv

LEMMA DisconnectNext ==
    ASSUME IInv, NEW cl \in Clients, Disconnect(cl)
    PROVE  IInv'
  <1> USE DEF Disconnect, heapVars, callerVars
  <1>1. TypeOK'
    BY DEF IInv, TypeOK, QmiSteps
  <1>2. QmiHasFile' /\ HoldersOwn' /\ IdsDiffer' /\ EnteredFiles' /\ EntriesHeld'
    BY DEF IInv, QmiHasFile, HoldersOwn, IdsDiffer, EnteredFiles, EntriesHeld
  <1>3. SocketIsDaemon' /\ NoWaitForDeadDaemon'
    BY DEF IInv, SocketIsDaemon, NoWaitForDeadDaemon
  <1> QED
    BY <1>1, <1>2, <1>3 DEF IInv

\* Every file in file_idr is completed, and so the file of everyone who waits.
LEMMA FailFilesNext == IInv /\ FailFiles => IInv'
  <1> SUFFICES ASSUME IInv, FailFiles PROVE IInv'
    OBVIOUS
  <1> USE DEF qmiRest, linkVars, callerVars
  <1>1. ASSUME NEW a \in Addrs
        PROVE  /\ fd'[a] \in FileData /\ fd'[a].id = fd[a].id
               /\ (\E i \in Ids : file_idr[i] = a) => fd'[a].complete
    BY ZenonT(40) DEF FailFiles, IInv, TypeOK, Completed, FileData
  <1>2. fd' \in [Addrs -> FileData]
    BY <1>1 DEF FailFiles
  <1>3. TypeOK'
    BY <1>2 DEF FailFiles, IInv, TypeOK, QmiSteps
  <1>4. \A c \in Callers : pc[c] \in Holding => file[c] \in Addrs /\ fd'[file[c]].id = fd[file[c]].id
    BY <1>1 DEF IInv, TypeOK, HoldersOwn
  <1>5. QmiHasFile' /\ SocketIsDaemon'
    BY DEF FailFiles, IInv, QmiHasFile, SocketIsDaemon
  <1>6. HoldersOwn' /\ IdsDiffer'
    BY <1>4 DEF FailFiles, IInv, HoldersOwn, IdsDiffer
  <1>7. EnteredFiles' /\ EntriesHeld'
    BY <1>4 DEF FailFiles, IInv, EnteredFiles, EntriesHeld, Holding
  <1>8. ASSUME NEW c \in Callers, pc[c] = "wait" PROVE fd'[file[c]].complete
    BY <1>1, <1>4, <1>8 DEF IInv, HoldersOwn, EnteredFiles, Holding, Entered
  <1>9. NoWaitForDeadDaemon'
    BY <1>8 DEF FailFiles, NoWaitForDeadDaemon
  <1> QED
    BY <1>3, <1>5, <1>6, <1>7, <1>9 DEF IInv

-----------------------------------------------------------------------------
(***************************************************************************)
(* The callers                                                             *)
(***************************************************************************)

\* A caller that goes on, while its file and its entry stay as they are.
GoesOn(c, label) ==
    /\ Goto(c, label)
    /\ UNCHANGED <<linkVars, file_idr, next_id, live, file, qmiVars>>

\* The invariant does not care where in Entered a caller is, unless it waits.
LEMMA GoesOnKeeps ==
    ASSUME IInv, NEW c \in Callers, NEW label \in Entered, pc[c] \in Entered, GoesOn(c, label),
           TypeOK', \A b \in Addrs : fd'[b].id = fd[b].id,
           \A d \in Callers \ {c} : pc[d] = "wait" =>
               /\ fd[file[d]].complete => fd'[file[d]].complete
               /\ told'[fd[file[d]].id] = told[fd[file[d]].id],
           label = "wait" => socket /\ told'[fd[file[c]].id] = session
    PROVE  IInv'
  <1> USE DEF GoesOn, Goto, linkVars, qmiVars
  <1>1. \A d \in Callers : /\ pc'[d] = IF d = c THEN label ELSE pc[d]
                          /\ (pc'[d] \in Entered) = (pc[d] \in Entered)
                          /\ (pc'[d] \in Holding) = (pc[d] \in Holding)
    BY DEF IInv, TypeOK, Holding
  <1>2. \A d \in Callers : pc[d] \in Holding => file[d] \in Addrs
    BY DEF IInv, TypeOK, HoldersOwn
  <1>3. \A d \in Callers : pc[d] \in Holding => fd'[file[d]].id = fd[file[d]].id
    BY <1>2
  <1>4. QmiHasFile' /\ SocketIsDaemon'
    BY DEF IInv, QmiHasFile, SocketIsDaemon
  <1>5. HoldersOwn' /\ IdsDiffer'
    BY <1>1, <1>3 DEF IInv, HoldersOwn, IdsDiffer
  <1>6. EnteredFiles' /\ EntriesHeld'
    BY <1>1, <1>3 DEF IInv, EnteredFiles, EntriesHeld, Holding
  <1>7. NoWaitForDeadDaemon'
    <2> SUFFICES ASSUME NEW d \in Callers, pc'[d] = "wait", ~fd'[file[d]].complete
                 PROVE  \/ qpc = "fail_files"
                        \/ socket /\ told'[fd'[file[d]].id] = session
      BY DEF NoWaitForDeadDaemon
    <2>1. pc[d] \in Holding
      BY <1>1 DEF Holding, Entered
    <2>2. CASE d = c
      BY <1>1, <1>3, <2>1, <2>2
    <2>3. CASE d # c
      BY <1>1, <1>3, <2>1, <2>3 DEF IInv, NoWaitForDeadDaemon
    <2> QED
      BY <2>2, <2>3
  <1> QED
    BY <1>4, <1>5, <1>6, <1>7 DEF IInv

LEMMA CallNext ==
    ASSUME IInv, NEW c \in Callers,
           NoMemory(c) \/ \E kind \in Kinds[calm], n \in Sizes[calm] : Call(c, kind, n)
    PROVE  IInv'
  <1> USE DEF linkVars, heapVars, qmiVars, Goto
  <1>1. /\ pc[c] \in {"idle", "init"} /\ \E l \in {"idle", "init"} : pc' = [pc EXCEPT ![c] = l]
        /\ args' \in [Callers -> Arguments]
        /\ UNCHANGED <<linkVars, heapVars, file, size, qmiVars, told>>
    <2>1. CASE NoMemory(c)
      BY <2>1, PlatIpcAssumption DEF NoMemory, IInv, TypeOK, NoCall, Arguments
    <2>2. ASSUME NEW kind \in Kinds[calm], NEW n \in Sizes[calm], Call(c, kind, n)
          PROVE  args' \in [Callers -> Arguments]
      <3>1. kind \in {"upload", "download"} /\ n \in 1..U32 - 1
        BY PlatIpcAssumption DEF IInv, TypeOK
      <3>2. [kind |-> kind, n |-> n] \in Arguments
        BY <3>1, PlatIpcAssumption DEF Arguments
      <3> QED
        BY <2>2, <3>2 DEF Call, IInv, TypeOK
    <2> QED
      BY <2>1, <2>2 DEF Call, NoMemory
  <1>2. TypeOK'
    BY <1>1 DEF IInv, TypeOK, CallerSteps
  <1>3. \A d \in Callers : /\ pc[d] \in Holding => pc'[d] = pc[d]
                          /\ pc'[d] \in Holding => pc'[d] = pc[d]
    BY <1>1 DEF IInv, TypeOK, Holding, Entered
  <1>4. QmiHasFile' /\ SocketIsDaemon' /\ HoldersOwn' /\ IdsDiffer'
    BY <1>1, <1>3 DEF IInv, QmiHasFile, SocketIsDaemon, HoldersOwn, IdsDiffer
  <1>5. EnteredFiles' /\ EntriesHeld' /\ NoWaitForDeadDaemon'
    BY <1>1, <1>3 DEF IInv, EnteredFiles, EntriesHeld, NoWaitForDeadDaemon, Holding, Entered
  <1> QED
    BY <1>2, <1>4, <1>5 DEF IInv

\* The new file has an id and an address that nobody holds.
LEMMA InitFileDataNext ==
    ASSUME IInv, NEW c \in Callers, InitFileData(c)
    PROVE  IInv'
  <1> USE DEF linkVars, qmiVars, Goto
  <1> DEFINE n == IF args[c].kind = "upload" THEN args[c].n ELSE 0
             New == [Blank EXCEPT !.id = next_id, !.buf_size = args[c].n,
                                  !.file_size = n, !.seg_len = SegLen(n)]
  <1>1. PICK a \in Addrs \ live :
           /\ live' = live \cup {a} /\ fd' = [fd EXCEPT ![a] = New]
           /\ file_idr' = [file_idr EXCEPT ![next_id] = a]
           /\ file' = [file EXCEPT ![c] = a]
    BY DEF InitFileData
  <1>2. args[c].n \in 0..U32 - 1 /\ n \in Nat /\ SegLen(n) \in Nat
    <2>1. args[c].n \in 0..U32 - 1
      BY DEF IInv, TypeOK, Arguments
    <2>2. n \in Nat
      BY <2>1, PlatIpcAssumption
    <2> QED
      BY <2>1, <2>2, SegLenIsNat
  <1>3. next_id \in Ids /\ next_id \in 0..MaxIds /\ next_id' = next_id + 1
        /\ next_id' \in 1..MaxIds + 1
    BY PlatIpcAssumption DEF InitFileData, IInv, TypeOK, Ids
  <1>4. New \in FileData /\ New.id = next_id
    <2> DEFINE len == SegLen(n)
    <2> HIDE DEF n, len
    <2>1. len \in Nat /\ n \in Nat
      BY <1>2 DEF len
    <2> QED
      BY <1>2, <1>3, <2>1 DEF Blank, FileData, len
  <1> HIDE DEF New, n
  <1>5. TypeOK'
    <2>1. fd' \in [Addrs -> FileData] /\ live' \in SUBSET Addrs
      BY <1>1, <1>4 DEF IInv, TypeOK
    <2>2. file_idr' \in [Ids -> Addrs \cup {NULL}] /\ file' \in [Callers -> Addrs \cup {NULL}]
      BY <1>1 DEF IInv, TypeOK
    <2>3. pc' \in [Callers -> CallerSteps]
      BY DEF InitFileData, IInv, TypeOK, CallerSteps
    <2> QED
      BY <1>3, <2>1, <2>2, <2>3 DEF InitFileData, IInv, TypeOK
  <1>6. /\ pc[c] = "init" /\ pc'[c] = "send" /\ file'[c] = a
        /\ fd'[a].id = next_id /\ file_idr'[next_id] = a
    BY <1>1, <1>3, <1>4 DEF InitFileData, IInv, TypeOK
  <1>7. \A d \in Callers \ {c} :
           /\ pc'[d] = pc[d] /\ file'[d] = file[d]
           /\ pc[d] \in Holding => /\ file[d] # a /\ fd'[file[d]] = fd[file[d]]
                                   /\ fd[file[d]].id \in Ids /\ fd[file[d]].id < next_id
    BY <1>1 DEF InitFileData, IInv, TypeOK, HoldersOwn
  <1>8. QmiHasFile' /\ SocketIsDaemon'
    BY DEF InitFileData, IInv, QmiHasFile, SocketIsDaemon
  <1>9. HoldersOwn'
    BY <1>1, <1>3, <1>6, <1>7 DEF IInv, HoldersOwn, Ids
  <1>10. IdsDiffer'
    BY <1>3, <1>6, <1>7 DEF IInv, IdsDiffer, Ids
  <1>11. EnteredFiles'
    BY <1>1, <1>3, <1>6, <1>7 DEF IInv, TypeOK, EnteredFiles, Holding, Ids
  <1>12. EntriesHeld'
    <2> SUFFICES ASSUME NEW i \in Ids, file_idr'[i] # NULL
                 PROVE  \E d \in Callers : /\ pc'[d] \in Entered /\ file'[d] = file_idr'[i]
                                            /\ fd'[file'[d]].id = i
      BY DEF EntriesHeld
    <2>1. CASE i = next_id
      BY <1>6, <2>1 DEF Entered
    <2>2. CASE i # next_id
      <3>1. file_idr'[i] = file_idr[i]
        BY <1>1, <2>2 DEF IInv, TypeOK
      <3>2. PICK d \in Callers : pc[d] \in Entered /\ file[d] = file_idr[i] /\ fd[file[d]].id = i
        BY <3>1 DEF IInv, EntriesHeld
      <3>3. d # c
        BY <1>6, <3>2 DEF Entered
      <3> QED
        BY <1>7, <3>1, <3>2, <3>3 DEF Holding
    <2> QED
      BY <2>1, <2>2
  <1>13. NoWaitForDeadDaemon'
    <2> SUFFICES ASSUME NEW d \in Callers, pc'[d] = "wait", ~fd'[file'[d]].complete
                 PROVE  \/ qpc' = "fail_files"
                        \/ socket' /\ told'[fd'[file'[d]].id] = session'
      BY DEF NoWaitForDeadDaemon
    <2>1. d # c
      BY <1>6
    <2>2. pc[d] = "wait" /\ file'[d] = file[d] /\ fd'[file[d]] = fd[file[d]]
      BY <1>7, <2>1 DEF Holding, Entered
    <2>3. UNCHANGED <<qpc, socket, told, session>>
      BY DEF InitFileData
    <2> QED
      BY <2>2, <2>3 DEF IInv, NoWaitForDeadDaemon
  <1> QED
    BY <1>5, <1>8, <1>9, <1>10, <1>11, <1>12, <1>13 DEF IInv

LEMMA SendNext ==
    ASSUME IInv, NEW c \in Callers, SendIndication(c) \/ SendFails(c)
    PROVE  IInv'
  <1> USE DEF heapVars, linkVars, callerVars, qmiVars, Goto
  <1>1. pc[c] = "send" /\ fd[file[c]].id \in Ids
    BY DEF SendIndication, SendFails, IInv, HoldersOwn, Holding, Entered
  <1>2. \A d \in Callers \ {c} : pc[d] = "wait" => fd[file[d]].id # fd[file[c]].id
    BY <1>1 DEF IInv, IdsDiffer, Holding, Entered
  <1>3. CASE SendIndication(c)
    <2>1. TypeOK'
      BY <1>3 DEF SendIndication, IInv, TypeOK, CallerSteps
    <2>2. \A d \in Callers \ {c} : pc[d] = "wait" => told'[fd[file[d]].id] = told[fd[file[d]].id]
      BY <1>2, <1>3 DEF SendIndication, IInv, TypeOK
    <2>3. socket /\ told'[fd[file[c]].id] = session
      BY <1>1, <1>3 DEF SendIndication, IInv, TypeOK
    <2> QED
      BY <1>1, <1>3, <2>1, <2>2, <2>3, GoesOnKeeps DEF SendIndication, GoesOn, Entered
  <1>4. CASE SendFails(c)
    <2>1. TypeOK'
      BY <1>4 DEF SendFails, IInv, TypeOK, CallerSteps
    <2> QED
      BY <1>1, <1>4, <2>1, GoesOnKeeps DEF SendFails, GoesOn, Entered
  <1> QED
    BY <1>3, <1>4

LEMMA WaitNext ==
    ASSUME IInv, NEW c \in Callers, WaitCompleted(c) \/ WaitTimeout(c) \/ ReadSize(c)
    PROVE  IInv'
  <1> USE DEF heapVars, linkVars, callerVars, qmiVars, Goto
  <1>1. pc[c] \in {"wait", "collect"} /\ file[c] \in Addrs /\ fd[file[c]] \in FileData
    BY DEF WaitCompleted, WaitTimeout, ReadSize, IInv, TypeOK, HoldersOwn, Holding, Entered
  <1>2. CASE WaitCompleted(c)
    <2>1. /\ fd' \in [Addrs -> FileData]
          /\ \A b \in Addrs : fd'[b].id = fd[b].id /\ (b # file[c] => fd'[b] = fd[b])
      BY <1>1, <1>2 DEF WaitCompleted, IInv, TypeOK, FileData
    <2>2. TypeOK'
      BY <1>2, <2>1 DEF WaitCompleted, IInv, TypeOK, CallerSteps
    <2>3. \A d \in Callers \ {c} : pc[d] = "wait" => file[d] # file[c] /\ file[d] \in Addrs
      BY <1>1 DEF IInv, TypeOK, HoldersOwn, IdsDiffer, Holding, Entered
    <2> QED
      BY <1>1, <1>2, <2>1, <2>2, <2>3, GoesOnKeeps, ZenonT(40) DEF WaitCompleted, GoesOn, Entered
  <1>3. CASE WaitTimeout(c)
    <2>1. TypeOK'
      BY <1>3 DEF WaitTimeout, IInv, TypeOK, CallerSteps
    <2> QED
      BY <1>1, <1>3, <2>1, GoesOnKeeps DEF WaitTimeout, GoesOn, Entered
  <1>4. CASE ReadSize(c)
    <2>1. size' \in [Callers -> Nat]
      BY <1>1, <1>4 DEF ReadSize, IInv, TypeOK, FileData
    <2>2. TypeOK'
      BY <1>4, <2>1 DEF ReadSize, IInv, TypeOK, CallerSteps
    <2> QED
      BY <1>1, <1>4, <2>2, GoesOnKeeps DEF ReadSize, GoesOn, Entered
  <1> QED
    BY <1>2, <1>3, <1>4

LEMMA RemoveEntryNext ==
    ASSUME IInv, NEW c \in Callers, RemoveEntry(c)
    PROVE  IInv'
  <1> USE DEF linkVars, qmiVars, Goto, RemoveEntry
  <1>1. TypeOK'
    BY DEF IInv, TypeOK, CallerSteps
  <1>2. /\ pc[c] = "deinit" /\ pc'[c] = "free"
        /\ \A d \in Callers \ {c} : /\ pc'[d] = pc[d]
                                    /\ pc[d] \in Holding => fd[file[d]].id # fd[file[c]].id
    BY DEF IInv, TypeOK, IdsDiffer, Holding, Entered
  <1>3. \A d \in Callers : (pc'[d] \in Holding) = (pc[d] \in Holding)
    BY <1>2 DEF Holding, Entered
  <1>4. QmiHasFile' /\ SocketIsDaemon' /\ HoldersOwn' /\ IdsDiffer'
    BY <1>3 DEF IInv, QmiHasFile, SocketIsDaemon, HoldersOwn, IdsDiffer
  <1>5. EnteredFiles'
    BY <1>2 DEF IInv, TypeOK, EnteredFiles, HoldersOwn, Holding, Entered
  <1>6. EntriesHeld'
    BY <1>2 DEF IInv, TypeOK, EntriesHeld, EnteredFiles, HoldersOwn, Holding, Entered
  <1>7. NoWaitForDeadDaemon'
    BY <1>2 DEF IInv, NoWaitForDeadDaemon
  <1> QED
    BY <1>1, <1>4, <1>5, <1>6, <1>7 DEF IInv

LEMMA FreeFileNext ==
    ASSUME IInv, NEW c \in Callers, FreeFile(c)
    PROVE  IInv'
  <1> USE DEF linkVars, qmiVars, Goto
  <1>1. file[c] \in Addrs /\ pc[c] = "free"
    BY DEF FreeFile, IInv, TypeOK, HoldersOwn, Holding
  <1>2. /\ live' = live \ {file[c]} /\ fd' = [fd EXCEPT ![file[c]] = Blank]
        /\ file' = [file EXCEPT ![c] = NULL] /\ args' = [args EXCEPT ![c] = NoCall]
        /\ size' = [size EXCEPT ![c] = 0] /\ pc' = [pc EXCEPT ![c] = "idle"]
        /\ told' = [told EXCEPT ![fd[file[c]].id] = 0]
        /\ UNCHANGED <<linkVars, file_idr, next_id, qmiVars>>
    BY DEF FreeFile
  <1>3. Blank \in FileData /\ NoCall \in Arguments
    BY PlatIpcAssumption DEF Blank, FileData, NoCall, Arguments
  <1>4. TypeOK'
    <2>1. fd' \in [Addrs -> FileData] /\ live' \in SUBSET Addrs
      BY <1>2, <1>3 DEF IInv, TypeOK
    <2>2. /\ file' \in [Callers -> Addrs \cup {NULL}] /\ args' \in [Callers -> Arguments]
          /\ size' \in [Callers -> Nat] /\ pc' \in [Callers -> CallerSteps]
          /\ told' \in [Ids -> Nat]
      BY <1>2, <1>3 DEF IInv, TypeOK, CallerSteps
    <2> QED
      BY <1>2, <2>1, <2>2 DEF IInv, TypeOK
  <1>5. pc'[c] = "idle"
    BY <1>2 DEF IInv, TypeOK
  <1>6. \A d \in Callers \ {c} :
           /\ pc'[d] = pc[d] /\ file'[d] = file[d]
           /\ pc[d] \in Holding =>
                 /\ fd[file[d]].id # fd[file[c]].id /\ file[d] # file[c] /\ file[d] \in Addrs
    BY <1>1, <1>2 DEF IInv, TypeOK, HoldersOwn, IdsDiffer, Holding
  <1>7. \A d \in Callers \ {c} : pc[d] \in Holding =>
           /\ fd'[file[d]] = fd[file[d]] /\ told'[fd[file[d]].id] = told[fd[file[d]].id]
    BY <1>2, <1>6 DEF IInv, TypeOK, HoldersOwn
  <1>8. QmiHasFile' /\ SocketIsDaemon'
    BY <1>2 DEF IInv, QmiHasFile, SocketIsDaemon
  <1>9. HoldersOwn' /\ IdsDiffer'
    BY <1>2, <1>5, <1>6, <1>7 DEF IInv, HoldersOwn, IdsDiffer, Holding, Entered
  <1>10. EnteredFiles'
    BY <1>2, <1>5, <1>6, <1>7 DEF IInv, EnteredFiles, Holding, Entered
  <1>11. EntriesHeld'
    BY <1>1, <1>2, <1>6, <1>7 DEF IInv, EntriesHeld, Holding, Entered
  <1>12. NoWaitForDeadDaemon'
    BY <1>2, <1>5, <1>6, <1>7 DEF IInv, NoWaitForDeadDaemon, Holding, Entered
  <1> QED
    BY <1>4, <1>8, <1>9, <1>10, <1>11, <1>12 DEF IInv

-----------------------------------------------------------------------------
(***************************************************************************)
(* The theorems                                                            *)
(***************************************************************************)

LEMMA InvariantInit == Init => IInv
  <1> SUFFICES ASSUME Init PROVE IInv
    OBVIOUS
  <1>1. TypeOK
    BY TypeInit
  <1>2. \A c \in Callers : pc[c] = "idle"
    BY DEF Init
  <1>3. QmiHasFile /\ SocketIsDaemon
    BY DEF Init, QmiHasFile, SocketIsDaemon
  <1>4. HoldersOwn /\ IdsDiffer /\ EnteredFiles /\ NoWaitForDeadDaemon
    BY <1>2 DEF HoldersOwn, IdsDiffer, EnteredFiles, NoWaitForDeadDaemon, Holding, Entered
  <1>5. EntriesHeld
    BY DEF Init, EntriesHeld
  <1> QED
    BY <1>1, <1>3, <1>4, <1>5 DEF IInv

LEMMA InvariantNext == IInv /\ [Next]_vars => IInv'
  <1> SUFFICES ASSUME IInv, [Next]_vars PROVE IInv'
    OBVIOUS
  <1>1. CASE UseFile
    BY <1>1, UseFileNext
  <1>2. ASSUME NEW cl \in Clients, RegisterClient(cl) \/ Disconnect(cl) PROVE IInv'
    BY <1>2, RegisterNext, DisconnectNext
  <1>3. CASE FailFiles
    BY <1>3, FailFilesNext
  <1>4. ASSUME NEW c \in Callers, Caller(c) PROVE IInv'
    BY <1>4, CallNext, InitFileDataNext, SendNext, WaitNext, RemoveEntryNext, FreeFileNext
       DEF Caller
  <1>5. CASE UNCHANGED vars
    <2>1. FilesKept
      BY <1>5, SameFilesKept DEF IInv, vars, heapVars
    <2> QED
      BY <1>5, <2>1, FilesKeptKeeps DEF IInv, TypeOK, QmiHasFile, vars, heapVars, qmiVars
  <1> QED
    BY <1>1, <1>2, <1>3, <1>4, <1>5 DEF Next, QmiThread, UseFile

\* The inductive invariant holds in every state.
THEOREM Invariant == Spec => []IInv
  BY InvariantInit, InvariantNext, PTL DEF Spec

\* Every variable of the file transfers keeps its type: what a stale handler
\* writes to the file of another transfer is still a file.
THEOREM TypeCorrect == Spec => []TypeOK
  <1>1. IInv => TypeOK
    BY DEF IInv
  <1> QED
    BY <1>1, Invariant, PTL

\* An id in file_idr always stands for the allocated file of that id, whose
\* caller will withdraw the id before it frees the file.
THEOREM EntriesAreLive == Spec => []EntryIsLive
  <1>1. IInv => EntryIsLive
    BY DEF IInv, EntriesHeld, HoldersOwn, EntryIsLive, Holding, Entered
  <1> QED
    BY <1>1, Invariant, PTL

\* However often the daemon disconnects and comes back, no caller is left
\* waiting for one that was not told of its transfer.
THEOREM NobodyWaitsForTheDead == Spec => []NoWaitForDeadDaemon
  <1>1. IInv => NoWaitForDeadDaemon
    BY DEF IInv
  <1> QED
    BY <1>1, Invariant, PTL

-----------------------------------------------------------------------------
(***************************************************************************)
(* What a calm transfer has moved                                          *)
(***************************************************************************)

\* The QMI thread is in the middle of a request.
UpSteps   == {"up_check", "up_respond", "up_advance"}
DownSteps == {"down", "down_end"}
Busy      == qpc \in UpSteps \cup DownSteps

Segment(n, k) == <<k - 1, (k - 1) * SegMax, Least(SegMax, n - (k - 1) * SegMax)>>
Moves   == Nat \X Nat \X Nat
Copies  == [id : Nat, seg_index : Nat, last : BOOLEAN, upto : Nat]
Results == [kind : {"none", "upload", "download"}, n : Nat, id : Nat, ok : BOOLEAN, size : Nat]

MovesTyped == /\ sent \in [Ids -> Seq(Moves)] /\ copied \in [Ids -> Seq(Copies)]
              /\ result \in [Callers -> Results]

\* The file f of an upload of n has sent s: the first seg_index segments.
SentSoFar(f, n, s) ==
    /\ f.seg_len = SegLen(n) /\ f.seg_index <= f.seg_len
    /\ Len(s) = f.seg_index /\ \A k \in 1..f.seg_index : s[k] = Segment(n, k)
    /\ f.end => f.seg_index = f.seg_len

\* Its buffer starts after them, but for the one that is being sent.
AtRest(f, n) == f.buf = Least(f.seg_index * SegMax, n) /\ f.buf_size = n - f.buf
Advancing(f, n, r) ==
    /\ f.seg_index >= 1 /\ f.buf = (f.seg_index - 1) * SegMax
    /\ f.buf < n /\ f.buf_size = n - f.buf
    /\ r.len = Least(f.buf_size, SegMax) /\ r.end = (f.seg_index = f.seg_len)

Uploading(c) ==
    pc[c] \in Holding /\ args[c].kind = "upload" =>
        /\ SentSoFar(fd[file[c]], args[c].n, sent[fd[file[c]].id])
        /\ IF qpc = "up_advance" /\ qfd = file[c]
              THEN Advancing(fd[file[c]], args[c].n, req)
              ELSE AtRest(fd[file[c]], args[c].n)
        /\ qpc \in {"up_check", "up_respond"} /\ qfd = file[c] =>
              fd[file[c]].seg_index < fd[file[c]].seg_len

\* The file f of a download was given s: its own segments, in order.
LastCopied(s) == s # <<>> /\ s[Len(s)].last
CopiedSoFar(f, s) ==
    /\ f.seg_len = 0 /\ Len(s) = f.seg_index
    /\ \A k \in 1..Len(s) : s[k].id = f.id /\ s[k].seg_index = k - 1
    /\ s # <<>> => s[Len(s)].upto = f.file_size
    /\ f.end => LastCopied(s)

Downloading(c) ==
    pc[c] \in Holding /\ args[c].kind = "download" =>
        /\ CopiedSoFar(fd[file[c]], copied[fd[file[c]].id])
        /\ qpc = "down_end" /\ qfd = file[c] => LastCopied(copied[fd[file[c]].id])
        /\ qpc = "down" /\ qfd = file[c] /\ fd[file[c]].end =>
              req.seg_index < fd[file[c]].seg_index
        /\ pc[c] \in {"deinit", "free"} => size[c] = fd[file[c]].file_size

\* A file the QMI thread uses is that of a caller that still waits for it.
InUse ==
    Busy => \E c \in Callers :
        /\ pc[c] \in {"send", "wait", "collect"} /\ file[c] = qfd
        /\ fd[qfd].id = req.id
        /\ args[c].kind = IF qpc \in DownSteps THEN "download" ELSE "upload"

CallsKnown ==
    \A c \in Callers : pc[c] \in Holding \cup {"init"} =>
        args[c].kind \in {"upload", "download"} /\ args[c].n >= 1

\* Nothing was moved for an id that was not handed out yet, and nothing more is
\* for one whose transfer has returned.
Unused == \A i \in Ids : i >= next_id => sent[i] = <<>> /\ copied[i] = <<>>
Returned ==
    \A c \in Callers : result[c].ok =>
        /\ result[c].id \in Ids /\ result[c].id < next_id
        /\ \A d \in Callers : pc[d] \in Holding => fd[file[d]].id # result[c].id

CalmInv ==
    calm => /\ MovesTyped /\ InUse /\ CallsKnown /\ Unused /\ Returned
            /\ \A c \in Callers : Uploading(c) /\ Downloading(c)
            /\ UploadMovesFile /\ DownloadMovesFile

-----------------------------------------------------------------------------
(***************************************************************************)
(* Segments                                                                *)
(***************************************************************************)

LEMMA Division ==
    ASSUME NEW n \in Nat
    PROVE  /\ n \div SegMax \in Nat /\ n % SegMax \in 0..SegMax - 1
           /\ n = SegMax * (n \div SegMax) + (n % SegMax)
  BY PlatIpcAssumption

LEMMA SomeSegments == ASSUME NEW n \in Nat, n >= 1 PROVE SegLen(n) \in Nat /\ SegLen(n) >= 1
  <1> DEFINE q == n \div SegMax
             r == n % SegMax
  <1>1. q \in Nat /\ r \in Nat /\ n = SegMax * q + r /\ SegMax \in Nat
    BY Division, PlatIpcAssumption
  <1>2. SegLen(n) = q + (IF r = 0 THEN 0 ELSE 1)
    BY DEF SegLen
  <1> HIDE DEF q, r
  <1>3. q = 0 => r # 0
    BY <1>1
  <1> QED
    BY <1>1, <1>2, <1>3

LEMMA Larger ==
    ASSUME NEW a \in Nat, NEW b \in Nat, a <= b, NEW m \in Nat
    PROVE  a * m \in Nat /\ b * m \in Nat /\ a * m <= b * m
  <1>1. b * m = a * m + (b - a) * m
    OBVIOUS
  <1>2. (b - a) * m \in Nat /\ a * m \in Nat
    OBVIOUS
  <1> QED
    BY <1>1, <1>2

\* A segment begins within the buffer.
LEMMA SegmentBegins ==
    ASSUME NEW n \in Nat, NEW k \in Nat, k < SegLen(n)
    PROVE  k * SegMax \in Nat /\ k * SegMax < n
  <1> DEFINE q == n \div SegMax
             r == n % SegMax
  <1>1. /\ q \in Nat /\ r \in 0..SegMax - 1 /\ n = SegMax * q + r
        /\ SegMax \in Nat \ {0}
    BY Division, PlatIpcAssumption
  <1>2. SegLen(n) = q + (IF r = 0 THEN 0 ELSE 1)
    BY DEF SegLen
  <1> HIDE DEF q, r
  <1>3. CASE r = 0
    <2>1. k + 1 <= q /\ k + 1 \in Nat
      BY <1>1, <1>2, <1>3
    <2>2. k * SegMax \in Nat /\ (k + 1) * SegMax \in Nat /\ (k + 1) * SegMax <= q * SegMax
      BY <1>1, <2>1, Larger
    <2>3. (k + 1) * SegMax = k * SegMax + SegMax
      BY <1>1
    <2> QED
      BY <1>1, <1>3, <2>2, <2>3
  <1>4. CASE r # 0
    <2>1. k <= q
      BY <1>1, <1>2, <1>4
    <2>2. k * SegMax \in Nat /\ q * SegMax \in Nat /\ k * SegMax <= q * SegMax
      BY <1>1, <2>1, Larger
    <2> QED
      BY <1>1, <1>4, <2>2
  <1> QED
    BY <1>3, <1>4

\* The buffer is advanced by the segment, or to its end.
LEMMA SegmentEnds ==
    ASSUME NEW n \in Nat, NEW k \in Nat, k >= 1, (k - 1) * SegMax < n
    PROVE  (k - 1) * SegMax + Least(n - (k - 1) * SegMax, SegMax) = Least(k * SegMax, n)
  <1>1. SegMax \in Nat
    BY PlatIpcAssumption
  <1>2. k * SegMax = (k - 1) * SegMax + SegMax /\ (k - 1) * SegMax \in Nat
    BY <1>1
  <1> DEFINE m == (k - 1) * SegMax
             l == k * SegMax
  <1> HIDE DEF m, l
  <1>3. m + Least(n - m, SegMax) = Least(l, n)
    BY <1>1, <1>2 DEF Least, m, l
  <1> QED
    BY <1>3 DEF m, l

-----------------------------------------------------------------------------
(***************************************************************************)
(* What a step leaves alone                                                *)
(***************************************************************************)

\* A step that completes a file moves nothing.
SameParts(f, g) ==
    /\ f.id = g.id /\ f.buf = g.buf /\ f.buf_size = g.buf_size /\ f.file_size = g.file_size
    /\ f.seg_index = g.seg_index /\ f.seg_len = g.seg_len /\ f.end = g.end

LEMMA TransferKept ==
    ASSUME CalmInv, calm, NEW c \in Callers,
           pc'[c] \in Holding =>
               /\ pc[c] \in Holding /\ args'[c] = args[c] /\ file'[c] = file[c]
               /\ SameParts(fd'[file[c]], fd[file[c]])
               /\ sent'[fd[file[c]].id] = sent[fd[file[c]].id]
               /\ copied'[fd[file[c]].id] = copied[fd[file[c]].id]
               /\ \/ UNCHANGED <<qpc, qfd, req>>
                  \/ (Busy => qfd # file[c]) /\ (Busy' => qfd' # file[c])
               /\ pc'[c] \in {"deinit", "free"} /\ args[c].kind = "download" =>
                     size'[c] = fd[file[c]].file_size
    PROVE  Uploading(c)' /\ Downloading(c)'
  <1> SUFFICES ASSUME pc'[c] \in Holding PROVE Uploading(c)' /\ Downloading(c)'
    BY DEF Uploading, Downloading
  <1> DEFINE f == fd[file[c]]
             g == fd'[file'[c]]
  <1>1. /\ pc[c] \in Holding /\ args'[c] = args[c] /\ file'[c] = file[c]
        /\ sent'[g.id] = sent[f.id] /\ copied'[g.id] = copied[f.id]
        /\ g.id = f.id /\ g.buf = f.buf /\ g.buf_size = f.buf_size /\ g.file_size = f.file_size
        /\ g.seg_index = f.seg_index /\ g.seg_len = f.seg_len /\ g.end = f.end
    BY DEF SameParts
  <1>2. Uploading(c) /\ Downloading(c)
    BY DEF CalmInv
  <1>3. /\ (qpc = "up_advance" /\ qfd = file[c])' <=> (qpc = "up_advance" /\ qfd = file[c])
        /\ (qpc \in {"up_check", "up_respond"} /\ qfd = file[c])'
           <=> (qpc \in {"up_check", "up_respond"} /\ qfd = file[c])
        /\ (qpc = "down_end" /\ qfd = file[c])' <=> (qpc = "down_end" /\ qfd = file[c])
        /\ (qpc = "down" /\ qfd = file[c])' <=> (qpc = "down" /\ qfd = file[c])
        /\ (qpc \in UpSteps \cup DownSteps /\ qfd = file[c])' => req' = req
    BY <1>1 DEF Busy, UpSteps, DownSteps
  <1>4. Uploading(c)'
    <2> SUFFICES ASSUME args[c].kind = "upload" PROVE Uploading(c)'
      BY <1>1 DEF Uploading
    <2>1. SentSoFar(g, args[c].n, sent'[g.id])
      BY <1>1, <1>2 DEF Uploading, SentSoFar
    <2>2. IF (qpc = "up_advance" /\ qfd = file[c])'
             THEN Advancing(g, args[c].n, req') ELSE AtRest(g, args[c].n)
      BY <1>1, <1>2, <1>3 DEF Uploading, Advancing, AtRest, UpSteps
    <2>3. (qpc \in {"up_check", "up_respond"} /\ qfd = file[c])' => g.seg_index < g.seg_len
      BY <1>1, <1>2, <1>3 DEF Uploading
    <2> QED
      BY <1>1, <2>1, <2>2, <2>3 DEF Uploading
  <1>5. Downloading(c)'
    <2> SUFFICES ASSUME args[c].kind = "download" PROVE Downloading(c)'
      BY <1>1 DEF Downloading
    <2>1. CopiedSoFar(g, copied'[g.id])
      BY <1>1, <1>2 DEF Downloading, CopiedSoFar
    <2>2. (qpc = "down_end" /\ qfd = file[c])' => LastCopied(copied'[g.id])
      BY <1>1, <1>2, <1>3 DEF Downloading
    <2>3. (qpc = "down" /\ qfd = file[c])' /\ g.end => req'.seg_index < g.seg_index
      BY <1>1, <1>2, <1>3 DEF Downloading, DownSteps
    <2>4. pc'[c] \in {"deinit", "free"} => size'[c] = g.file_size
      BY <1>1
    <2> QED
      BY <1>1, <2>1, <2>2, <2>3, <2>4 DEF Downloading
  <1> QED
    BY <1>4, <1>5

\* What has returned, and what was not handed out yet, is touched by no step
\* that moves something for a transfer under way.
LEMMA ResultsKept ==
    ASSUME IInv, CalmInv, calm, UNCHANGED <<calm, result, next_id>>,
           \A d \in Callers : pc'[d] \in Holding =>
               pc[d] \in Holding /\ file'[d] = file[d] /\ fd'[file[d]].id = fd[file[d]].id,
           \A i \in Ids : \/ sent'[i] = sent[i] /\ copied'[i] = copied[i]
                          \/ \E o \in Callers : pc[o] \in Holding /\ fd[file[o]].id = i
    PROVE  Unused' /\ Returned' /\ UploadMovesFile' /\ DownloadMovesFile'
  <1>1. /\ Unused /\ Returned /\ UploadMovesFile /\ DownloadMovesFile
    BY DEF CalmInv
  <1>2. Unused'
    <2>1. \A o \in Callers : pc[o] \in Holding => fd[file[o]].id < next_id
      BY DEF IInv, HoldersOwn
    <2>2. next_id \in Int /\ \A i \in Ids : i \in Int
      BY DEF IInv, TypeOK, Ids
    <2>3. ASSUME NEW i \in Ids, i >= next_id PROVE sent'[i] = sent[i] /\ copied'[i] = copied[i]
      <3>1. ~\E o \in Callers : pc[o] \in Holding /\ fd[file[o]].id = i
        BY <2>1, <2>2, <2>3
      <3> QED
        BY <3>1
    <2> QED
      BY <1>1, <2>3 DEF Unused
  <1>3. Returned'
    BY <1>1 DEF Returned
  <1>4. ASSUME NEW c \in Callers, result[c].ok
        PROVE  sent'[result[c].id] = sent[result[c].id] /\ copied'[result[c].id] = copied[result[c].id]
    BY <1>1, <1>4 DEF Returned
  <1>5. UploadMovesFile'
    BY <1>1, <1>4 DEF UploadMovesFile, UploadComplete
  <1>6. DownloadMovesFile'
    BY <1>1, <1>4 DEF DownloadMovesFile
  <1> QED
    BY <1>2, <1>3, <1>5, <1>6

\* The caller of the file that the QMI thread uses, and the others.
Owns(o) ==
    /\ pc[o] \in {"send", "wait", "collect"} /\ file[o] = qfd
    /\ fd[qfd].id = req.id
    /\ args[o].kind = IF qpc \in DownSteps THEN "download" ELSE "upload"

LEMMA OwnerAlone ==
    ASSUME IInv, NEW o \in Callers, Owns(o)
    PROVE  /\ pc[o] \in Holding
           /\ qfd \in live /\ qfd \in Addrs /\ qfd # NULL /\ req.id \in Ids
           /\ \A d \in Callers \ {o} : pc[d] \in Holding =>
                  file[d] # qfd /\ file[d] \in Addrs /\ fd[file[d]].id # req.id
  <1>1. pc[o] \in Holding
    BY DEF Owns, Holding, Entered
  <1>2. qfd \in live /\ req.id \in Ids
    BY <1>1 DEF Owns, IInv, HoldersOwn
  <1>3. qfd \in Addrs /\ qfd # NULL
    BY <1>2, PlatIpcAssumption DEF IInv, TypeOK
  <1>4. ASSUME NEW d \in Callers \ {o}, pc[d] \in Holding
        PROVE  file[d] # qfd /\ file[d] \in Addrs /\ fd[file[d]].id # req.id
    <2>1. fd[file[d]].id # fd[file[o]].id
      BY <1>1, <1>4 DEF IInv, IdsDiffer
    <2>2. file[d] \in Addrs
      BY <1>4 DEF IInv, HoldersOwn, TypeOK
    <2> QED
      BY <2>1, <2>2 DEF Owns
  <1> QED
    BY <1>1, <1>2, <1>3, <1>4

\* A handler that works on the file of o.
LEMMA HandlerKeeps ==
    ASSUME IInv, CalmInv, calm, NEW o \in Callers, Owns(o), UNCHANGED <<calm, next_id, callerVars>>,
           fd' = fd \/ \E new \in FileData : new.id = fd[qfd].id /\ fd' = [fd EXCEPT ![qfd] = new],
           \A i \in Ids \ {req.id} : sent'[i] = sent[i] /\ copied'[i] = copied[i],
           Busy' => qfd' = qfd /\ req'.id = req.id /\ (qpc' \in DownSteps <=> qpc \in DownSteps),
           MovesTyped', Uploading(o)', Downloading(o)'
    PROVE  CalmInv'
  <1> USE DEF callerVars
  <1>1. /\ pc[o] \in Holding
        /\ qfd \in live /\ qfd \in Addrs /\ qfd # NULL /\ req.id \in Ids
        /\ \A d \in Callers \ {o} : pc[d] \in Holding =>
               file[d] # qfd /\ file[d] \in Addrs /\ fd[file[d]].id # req.id
    BY OwnerAlone
  <1>2. \A d \in Callers : pc[d] \in Holding => fd[file[d]].id \in Ids
    BY DEF IInv, HoldersOwn
  <1>3. \A b \in Addrs : fd'[b].id = fd[b].id /\ (b # qfd => fd'[b] = fd[b])
    BY <1>1 DEF IInv, TypeOK
  <1>4. file[o] = qfd /\ fd[qfd].id = req.id
    BY DEF Owns
  <1>5. ASSUME NEW d \in Callers PROVE Uploading(d)' /\ Downloading(d)'
    <2>1. CASE d = o
      BY <2>1
    <2>2. CASE d # o
      <3>1. pc[d] \in Holding =>
               /\ SameParts(fd'[file[d]], fd[file[d]])
               /\ sent'[fd[file[d]].id] = sent[fd[file[d]].id]
               /\ copied'[fd[file[d]].id] = copied[fd[file[d]].id]
               /\ qfd # file[d]
        BY <1>1, <1>2, <1>3, <2>2 DEF SameParts
      <3>2. pc[d] \in {"deinit", "free"} /\ args[d].kind = "download" =>
               size[d] = fd[file[d]].file_size
        BY DEF CalmInv, Downloading, Holding, Entered
      <3> QED
        BY <3>1, <3>2, TransferKept DEF Holding, Entered
    <2> QED
      BY <2>1, <2>2
  <1>6. Unused' /\ Returned' /\ UploadMovesFile' /\ DownloadMovesFile'
    <2>1. \A d \in Callers : pc[d] \in Holding => file[d] \in Addrs
      BY <1>1, <1>4
    <2>2. \A d \in Callers : pc'[d] \in Holding =>
               pc[d] \in Holding /\ file'[d] = file[d] /\ fd'[file[d]].id = fd[file[d]].id
      BY <1>3, <2>1
    <2>3. \A i \in Ids : \/ sent'[i] = sent[i] /\ copied'[i] = copied[i]
                         \/ \E e \in Callers : pc[e] \in Holding /\ fd[file[e]].id = i
      BY <1>1, <1>4
    <2> QED
      BY <2>2, <2>3, ResultsKept
  <1>7. InUse'
    BY <1>1, <1>3 DEF InUse, Owns
  <1>8. CallsKnown'
    BY DEF CalmInv, CallsKnown
  <1> QED
    BY <1>5, <1>6, <1>7, <1>8 DEF CalmInv

-----------------------------------------------------------------------------
(***************************************************************************)
(* The handlers of a calm QMI thread                                       *)
(***************************************************************************)

LEMMA BusyOwner == CalmInv /\ calm /\ Busy => \E o \in Callers : Owns(o)
  BY DEF CalmInv, InUse, Owns

\* The file in use, and what is known of it while it is uploaded or downloaded.
LEMMA FileInUse ==
    ASSUME IInv, CalmInv, calm, NEW o \in Callers, Owns(o)
    PROVE  /\ pc[o] \in Holding /\ file[o] = qfd /\ fd[qfd].id = req.id
           /\ qfd \in live /\ qfd \in Addrs /\ req.id \in Ids /\ fd[qfd] \in FileData
           /\ args[o].n \in Nat /\ args[o].n >= 1
           /\ sent[req.id] \in Seq(Moves) /\ copied[req.id] \in Seq(Copies)
           /\ Uploading(o) /\ Downloading(o)
           /\ qpc \in UpSteps => args[o].kind = "upload"
           /\ qpc \in DownSteps => args[o].kind = "download"
  <1>1. /\ pc[o] \in Holding /\ qfd \in live /\ qfd \in Addrs /\ req.id \in Ids
    BY OwnerAlone
  <1>2. args[o].n >= 1
    BY <1>1 DEF CalmInv, CallsKnown
  <1>3. args[o].n \in Nat
    BY PlatIpcAssumption DEF IInv, TypeOK, Arguments
  <1>4. qpc \in UpSteps => qpc \notin DownSteps
    BY DEF UpSteps, DownSteps
  <1> QED
    BY <1>1, <1>2, <1>3, <1>4 DEF Owns, CalmInv, MovesTyped, IInv, TypeOK

LEMMA Appended ==
    ASSUME NEW S, NEW s \in Seq(S), NEW e \in S
    PROVE  /\ Append(s, e) \in Seq(S) /\ Len(Append(s, e)) = Len(s) + 1 /\ Len(s) \in Nat
           /\ \A j \in 1..Len(s) : Append(s, e)[j] = s[j]
           /\ Append(s, e)[Len(s) + 1] = e
  OBVIOUS

LEMMA UploadCheckCalm ==
    ASSUME IInv, CalmInv, calm, UploadCheck
    PROVE  CalmInv'
  <1> USE DEF UploadCheck, qmiRest, linkVars, callerVars
  <1>0. qpc = "up_check" /\ qpc' = "up_respond" /\ qpc \in UpSteps /\ Busy
    BY DEF Busy, UpSteps
  <1>1. PICK o \in Callers : Owns(o)
    BY <1>0, BusyOwner
  <1>2. /\ pc[o] \in Holding /\ file[o] = qfd /\ fd[qfd].id = req.id /\ qfd \in live
        /\ qfd \in Addrs /\ fd[qfd] \in FileData /\ Uploading(o) /\ args[o].kind = "upload"
    BY <1>0, <1>1, FileInUse
  <1> DEFINE new == Completed(qfd)
  <1>3. new \in FileData /\ SameParts(new, fd[qfd])
    BY <1>2 DEF FileData, Completed, SameParts
  <1>4. fd' = fd \/ fd' = [fd EXCEPT ![qfd] = new]
    BY <1>2 DEF Set
  <1> HIDE DEF new
  <1>5. SameParts(fd'[qfd], fd[qfd])
    BY <1>2, <1>3, <1>4 DEF SameParts, IInv, TypeOK
  <1>6. Uploading(o)'
    <2> DEFINE g == fd'[qfd]
    <2>1. SentSoFar(g, args[o].n, sent[g.id])
      BY <1>2, <1>5 DEF Uploading, SentSoFar, SameParts
    <2>2. AtRest(g, args[o].n) /\ g.seg_index < g.seg_len
      BY <1>0, <1>2, <1>5 DEF Uploading, AtRest, SameParts
    <2> QED
      BY <1>0, <1>2, <2>1, <2>2 DEF Uploading
  <1>7. Downloading(o)'
    BY <1>2 DEF Downloading
  <1>8. MovesTyped'
    BY DEF CalmInv, MovesTyped
  <1>9. fd' = fd \/ \E f \in FileData : f.id = fd[qfd].id /\ fd' = [fd EXCEPT ![qfd] = f]
    BY <1>3, <1>4 DEF SameParts
  <1>10. UNCHANGED <<calm, next_id, callerVars>> /\ qfd' = qfd /\ req' = req
         /\ (qpc' \in DownSteps <=> qpc \in DownSteps) /\ sent' = sent /\ copied' = copied
    BY <1>0 DEF DownSteps
  <1> QED
    BY <1>1, <1>6, <1>7, <1>8, <1>9, <1>10, HandlerKeeps

\* A request that there is no memory to answer leaves the transfer as it is.
LEMMA UploadNoMemoryCalm ==
    ASSUME IInv, CalmInv, calm, UploadNoMemory
    PROVE  CalmInv'
  <1> USE DEF UploadNoMemory, qmiRest, linkVars, callerVars
  <1>1. qpc = "up_respond" /\ qpc' = "idle" /\ qpc \in UpSteps /\ Busy /\ ~Busy'
    BY DEF Busy, UpSteps, DownSteps, Done
  <1>2. PICK o \in Callers : Owns(o)
    BY <1>1, BusyOwner
  <1>3. /\ pc[o] \in Holding /\ file[o] = qfd /\ Uploading(o) /\ args[o].kind = "upload"
    BY <1>1, <1>2, FileInUse
  <1>4. SentSoFar(fd[file[o]], args[o].n, sent[fd[file[o]].id]) /\ AtRest(fd[file[o]], args[o].n)
    BY <1>1, <1>3 DEF Uploading
  <1>5. Uploading(o)'
    BY <1>1, <1>4 DEF Uploading
  <1>6. Downloading(o)' /\ MovesTyped'
    BY <1>3 DEF Downloading, CalmInv, MovesTyped
  <1>7. UNCHANGED <<calm, next_id, callerVars>> /\ fd' = fd /\ sent' = sent /\ copied' = copied
    OBVIOUS
  <1> QED
    BY <1>1, <1>2, <1>5, <1>6, <1>7, HandlerKeeps

LEMMA UploadRespondCalm ==
    ASSUME IInv, CalmInv, calm, UploadRespond
    PROVE  CalmInv'
  <1>0. qpc = "up_respond" /\ qpc' = "up_advance" /\ qpc \in UpSteps /\ Busy
    BY DEF UploadRespond, Busy, UpSteps
  <1>1. PICK o \in Callers : Owns(o)
    BY <1>0, BusyOwner
  <1>2. /\ pc[o] \in Holding /\ file[o] = qfd /\ fd[qfd].id = req.id /\ qfd \in live
        /\ qfd \in Addrs /\ fd[qfd] \in FileData /\ Uploading(o) /\ args[o].kind = "upload"
        /\ args[o].n \in Nat /\ req.id \in Ids /\ sent[req.id] \in Seq(Moves)
    BY <1>0, <1>1, FileInUse
  <1>15. /\ UNCHANGED <<calm, next_id, callerVars, pc, file, args, result>>
         /\ (qpc' \in DownSteps <=> qpc \in DownSteps)
    BY <1>0 DEF UploadRespond, qmiRest, linkVars, callerVars, DownSteps
  <1> DEFINE n   == args[o].n
             f   == fd[qfd]
             k   == f.seg_index
             new == [f EXCEPT !.seg_index = @ + 1]
             s   == sent[req.id]
             len == Least(f.buf_size, SegMax)
  <1>3. /\ SentSoFar(f, n, s) /\ AtRest(f, n) /\ k < f.seg_len
    BY <1>0, <1>2 DEF Uploading
  <1>4. /\ k \in Nat /\ f.seg_len \in Nat /\ f.buf \in Nat /\ n \in Nat
        /\ SegMax \in Nat /\ f.end \in BOOLEAN
    BY <1>2, PlatIpcAssumption DEF FileData
  <1>5. k * SegMax \in Nat /\ k * SegMax < n /\ f.buf = k * SegMax /\ f.buf_size = n - k * SegMax
    <2>1. k * SegMax \in Nat /\ k * SegMax < n
      BY <1>3, <1>4, SegmentBegins DEF SentSoFar
    <2> QED
      BY <1>3, <1>4, <2>1 DEF AtRest, Least
  <1>6. /\ fd' = [fd EXCEPT ![qfd] = new]
        /\ sent' = [sent EXCEPT ![req.id] = Append(s, <<k, f.buf, len>>)]
        /\ req'.id = req.id /\ req'.len = len /\ req'.end = (k + 1 = f.seg_len)
        /\ qfd' = qfd /\ copied' = copied
    BY <1>2 DEF UploadRespond, Set, IInv, TypeOK, Request
  <1>7. /\ new \in FileData /\ new.id = f.id /\ new.seg_index = k + 1 /\ new.buf = f.buf
        /\ new.buf_size = f.buf_size /\ new.seg_len = f.seg_len /\ new.end = f.end
    <2>1. k + 1 \in Nat
      BY <1>4
    <2> QED
      BY <1>2, <2>1 DEF FileData
  <1>8. len \in Nat
    BY <1>4, <1>5 DEF Least
  <1>9. <<k, f.buf, len>> \in Moves /\ <<k, f.buf, len>> = Segment(n, k + 1)
    <2>1. k + 1 - 1 = k
      BY <1>4
    <2>2. len = Least(SegMax, n - k * SegMax)
      BY <1>4, <1>5 DEF Least
    <2> HIDE DEF len
    <2> QED
      BY <1>4, <1>5, <1>8, <2>1, <2>2 DEF Segment, Moves
  <1> HIDE DEF new, len
  <1>10. MovesTyped'
    <2> DEFINE t == Append(s, <<k, f.buf, len>>)
    <2>1. t \in Seq(Moves)
      BY <1>2, <1>9, Appended
    <2>2. sent' = [sent EXCEPT ![req.id] = t]
      BY <1>6
    <2> HIDE DEF t
    <2> QED
      BY <1>6, <1>15, <2>1, <2>2 DEF CalmInv, MovesTyped
  <1>11. Uploading(o)'
    <2> DEFINE t == Append(s, <<k, f.buf, len>>)
    <2>1. fd'[qfd] = new /\ sent'[req.id] = t
      BY <1>2, <1>6 DEF IInv, TypeOK, CalmInv, MovesTyped
    <2>2. Len(t) = k + 1 /\ \A j \in 1..k + 1 : t[j] = Segment(n, j)
      <3>1. Len(s) = k /\ \A j \in 1..k : s[j] = Segment(n, j)
        BY <1>3 DEF SentSoFar
      <3>2. /\ Len(t) = Len(s) + 1 /\ \A j \in 1..Len(s) : t[j] = s[j]
            /\ t[Len(s) + 1] = <<k, f.buf, len>>
        BY <1>2, <1>9, Appended
      <3> HIDE DEF t, s, k
      <3>3. k \in Nat /\ t[k + 1] = Segment(n, k + 1)
        BY <1>4, <1>9, <3>1, <3>2
      <3> QED
        BY <3>1, <3>2, <3>3
    <2>3. SentSoFar(new, n, t)
      <3>1. f.end => k = f.seg_len
        BY <1>3 DEF SentSoFar
      <3>2. new.end = FALSE
        BY <1>3, <1>4, <1>7, <3>1
      <3>3. new.seg_index <= new.seg_len /\ new.seg_len = SegLen(n)
        BY <1>3, <1>4, <1>7 DEF SentSoFar
      <3> HIDE DEF t, f
      <3> QED
        BY <1>7, <2>2, <3>2, <3>3 DEF SentSoFar
    <2> HIDE DEF t, s, n, f, k
    <2>4. Advancing(new, n, req')
      <3>1. new.seg_index >= 1 /\ new.seg_index - 1 = k
        BY <1>4, <1>7
      <3>2. new.buf = (new.seg_index - 1) * SegMax /\ new.buf < n /\ new.buf_size = n - new.buf
        BY <1>5, <1>7, <3>1
      <3>3. req'.len = Least(new.buf_size, SegMax) /\ req'.end = (new.seg_index = new.seg_len)
        BY <1>6, <1>7 DEF len
      <3> QED
        BY <3>1, <3>2, <3>3 DEF Advancing
    <2> USE DEF t, s, n, f, k
    <2> HIDE DEF t
    <2> QED
      BY <1>0, <1>2, <1>6, <1>7, <1>15, <2>1, <2>3, <2>4 DEF Uploading
  <1>12. Downloading(o)'
    BY <1>2, <1>15 DEF Downloading
  <1>13. fd' = fd \/ \E g \in FileData : g.id = fd[qfd].id /\ fd' = [fd EXCEPT ![qfd] = g]
    BY <1>6, <1>7
  <1>14. \A i \in Ids \ {req.id} : sent'[i] = sent[i] /\ copied'[i] = copied[i]
    BY <1>6 DEF CalmInv, MovesTyped
  <1> QED
    BY <1>1, <1>6, <1>10, <1>11, <1>12, <1>13, <1>14, <1>15, HandlerKeeps

LEMMA UploadAdvanceCalm ==
    ASSUME IInv, CalmInv, calm, UploadAdvance
    PROVE  CalmInv'
  <1> USE DEF UploadAdvance, qmiRest, linkVars, callerVars, Done
  <1>0. qpc = "up_advance" /\ qpc' = "idle" /\ qpc \in UpSteps /\ Busy
    BY DEF Busy, UpSteps
  <1>1. PICK o \in Callers : Owns(o)
    BY <1>0, BusyOwner
  <1>2. /\ pc[o] \in Holding /\ file[o] = qfd /\ fd[qfd].id = req.id /\ qfd \in live
        /\ qfd \in Addrs /\ fd[qfd] \in FileData /\ Uploading(o) /\ args[o].kind = "upload"
        /\ args[o].n \in Nat /\ req.id \in Ids /\ sent[req.id] \in Seq(Moves)
    BY <1>0, <1>1, FileInUse
  <1> DEFINE n   == args[o].n
             f   == fd[qfd]
             k   == f.seg_index
             g   == [f EXCEPT !.buf_size = (@ - req.len) % U32, !.buf = @ + req.len]
             new == IF req.end THEN [g EXCEPT !.end = TRUE, !.complete = TRUE] ELSE g
             s   == sent[req.id]
  <1>3. SentSoFar(f, n, s) /\ Advancing(f, n, req)
    BY <1>0, <1>2 DEF Uploading
  <1>4. /\ k \in Nat /\ f.seg_len \in Nat /\ f.buf \in Nat /\ f.end \in BOOLEAN
        /\ f.buf_size \in 0..U32 - 1 /\ SegMax \in Nat /\ U32 \in Nat \ {0}
        /\ req.len \in Nat /\ req.end \in BOOLEAN /\ n \in Nat
    BY <1>2, PlatIpcAssumption DEF FileData, IInv, TypeOK, Request
  <1>5. f.buf + req.len = Least(k * SegMax, n) /\ f.buf_size - req.len = n - (f.buf + req.len)
        /\ f.buf_size - req.len \in 0..U32 - 1
    <2>1. k >= 1 /\ f.buf = (k - 1) * SegMax /\ f.buf < n /\ f.buf_size = n - f.buf
          /\ req.len = Least(f.buf_size, SegMax)
      BY <1>3 DEF Advancing
    <2>2. (k - 1) * SegMax + Least(n - (k - 1) * SegMax, SegMax) = Least(k * SegMax, n)
      BY <1>4, <2>1, SegmentEnds
    <2>3. f.buf_size - req.len \in 0..U32 - 1
      BY <1>4, <2>1 DEF Least
    <2>4. f.buf_size - req.len = n - (f.buf + req.len)
      BY <1>4, <2>1
    <2> QED
      BY <2>1, <2>2, <2>3, <2>4
  <1>6. (f.buf_size - req.len) % U32 = f.buf_size - req.len
    <2> DEFINE m == f.buf_size - req.len
    <2> HIDE DEF m
    <2>1. m \in 0..U32 - 1 => m % U32 = m
      BY <1>4
    <2> QED
      BY <1>5, <2>1 DEF m
  <1>7. /\ new \in FileData /\ new.id = f.id /\ new.seg_index = k /\ new.seg_len = f.seg_len
        /\ new.buf = f.buf + req.len /\ new.buf_size = f.buf_size - req.len
        /\ new.end = (f.end \/ req.end)
    <2> DEFINE a == f.buf_size - req.len
               b == f.buf + req.len
    <2>1. g = [f EXCEPT !.buf_size = a, !.buf = b]
      BY <1>2, <1>6 DEF FileData
    <2>2. a \in 0..U32 - 1 /\ b \in Nat
      BY <1>4, <1>5
    <2> HIDE DEF a, b, g
    <2>3. /\ g \in FileData /\ g.id = f.id /\ g.seg_index = k /\ g.seg_len = f.seg_len
          /\ g.buf = b /\ g.buf_size = a /\ g.end = f.end
      BY <1>2, <2>1, <2>2 DEF FileData
    <2>4. /\ new \in FileData /\ new.id = f.id /\ new.seg_index = k /\ new.seg_len = f.seg_len
          /\ new.buf = b /\ new.buf_size = a /\ new.end = (f.end \/ req.end)
      <3>1. CASE req.end
        BY <1>4, <2>3, <3>1 DEF FileData
      <3>2. CASE ~req.end
        BY <1>4, <2>3, <3>2 DEF FileData
      <3> QED
        BY <3>1, <3>2
    <2> QED
      BY <2>4 DEF a, b
  <1>8. fd' = [fd EXCEPT ![qfd] = new]
    BY <1>2 DEF Set
  <1> HIDE DEF new, g
  <1>9. fd'[qfd] = new
    BY <1>2, <1>8 DEF IInv, TypeOK
  <1>10. SentSoFar(new, n, s)
    <2>1. req.end => k = f.seg_len
      BY <1>3 DEF Advancing
    <2> QED
      BY <1>3, <1>7, <2>1 DEF SentSoFar
  <1>11. AtRest(new, n)
    BY <1>5, <1>7 DEF AtRest
  <1>12. Uploading(o)'
    BY <1>0, <1>2, <1>7, <1>9, <1>10, <1>11 DEF Uploading
  <1>13. Downloading(o)'
    BY <1>2 DEF Downloading
  <1>14. fd' = fd \/ \E h \in FileData : h.id = fd[qfd].id /\ fd' = [fd EXCEPT ![qfd] = h]
    BY <1>7, <1>8
  <1>15. ~Busy' /\ MovesTyped' /\ sent' = sent /\ copied' = copied
         /\ UNCHANGED <<calm, next_id, callerVars>>
    BY <1>0 DEF Busy, UpSteps, DownSteps, CalmInv, MovesTyped
  <1> QED
    BY <1>1, <1>12, <1>13, <1>14, <1>15, HandlerKeeps


LEMMA DownloadRefusedCalm ==
    ASSUME IInv, CalmInv, calm, DownloadRefused
    PROVE  CalmInv'
  <1> USE DEF DownloadRefused, qmiRest, linkVars, callerVars, Done
  <1>0. qpc = "down" /\ qpc' = "idle" /\ qpc \in DownSteps /\ Busy /\ ~Busy'
    BY DEF Busy, UpSteps, DownSteps
  <1>1. PICK o \in Callers : Owns(o)
    BY <1>0, BusyOwner
  <1>2. /\ pc[o] \in Holding /\ file[o] = qfd /\ fd[qfd].id = req.id /\ qfd \in live
        /\ qfd \in Addrs /\ fd[qfd] \in FileData /\ Downloading(o) /\ args[o].kind = "download"
        /\ pc[o] \notin {"deinit", "free"}
    BY <1>0, <1>1, FileInUse DEF Owns
  <1> DEFINE new == Completed(qfd)
  <1>3. new \in FileData /\ SameParts(new, fd[qfd])
    BY <1>2 DEF FileData, Completed, SameParts
  <1>4. fd' = [fd EXCEPT ![qfd] = new]
    BY <1>2 DEF Set
  <1> HIDE DEF new
  <1>5. SameParts(fd'[qfd], fd[qfd])
    BY <1>2, <1>3, <1>4 DEF IInv, TypeOK
  <1>6. Uploading(o)'
    BY <1>2 DEF Uploading
  <1>7. Downloading(o)'
    <2>1. CopiedSoFar(fd'[qfd], copied[fd'[qfd].id])
      BY <1>2, <1>5 DEF Downloading, CopiedSoFar, SameParts
    <2> QED
      BY <1>0, <1>2, <2>1 DEF Downloading
  <1>8. MovesTyped'
    BY DEF CalmInv, MovesTyped
  <1>9. fd' = fd \/ \E f \in FileData : f.id = fd[qfd].id /\ fd' = [fd EXCEPT ![qfd] = f]
    BY <1>3, <1>4 DEF SameParts
  <1>10. UNCHANGED <<calm, next_id, callerVars>> /\ sent' = sent /\ copied' = copied
    OBVIOUS
  <1> QED
    BY <1>0, <1>1, <1>6, <1>7, <1>8, <1>9, <1>10, HandlerKeeps

LEMMA DownloadCopyCalm ==
    ASSUME IInv, CalmInv, calm, DownloadCopy
    PROVE  CalmInv'
  <1>0. /\ qpc = "down" /\ qpc \in DownSteps /\ Busy
        /\ req.end => qpc' = "down_end" /\ UNCHANGED <<qfd, req>>
        /\ ~req.end => qpc' = "idle"
    BY DEF DownloadCopy, Busy, DownSteps, Done
  <1>1. PICK o \in Callers : Owns(o)
    BY <1>0, BusyOwner
  <1>2. /\ pc[o] \in Holding /\ file[o] = qfd /\ fd[qfd].id = req.id /\ qfd \in live
        /\ qfd \in Addrs /\ fd[qfd] \in FileData /\ Downloading(o) /\ args[o].kind = "download"
        /\ req.id \in Ids /\ copied[req.id] \in Seq(Copies) /\ pc[o] \notin {"deinit", "free"}
    BY <1>0, <1>1, FileInUse DEF Owns
  <1>3. UNCHANGED <<calm, next_id, callerVars, pc, file, args, size, result, sent>>
    BY DEF DownloadCopy, qmiRest, linkVars, callerVars
  <1> DEFINE f   == fd[qfd]
             k   == f.seg_index
             m   == f.file_size + req.len
             e   == [id |-> req.id, seg_index |-> req.seg_index, last |-> req.end, upto |-> m]
             new == [f EXCEPT !.seg_index = @ + 1, !.buf = @ + req.len,
                              !.file_size = @ + req.len]
             s   == copied[req.id]
             t   == Append(s, e)
  <1>4. CopiedSoFar(f, s) /\ req.seg_index = k /\ ~f.end
    <2>1. CopiedSoFar(f, s) /\ (f.end => req.seg_index < k)
      BY <1>0, <1>2 DEF Downloading
    <2>2. req.seg_index = k
      BY DEF DownloadCopy, Refused
    <2>3. k \in Nat
      BY <1>2 DEF FileData
    <2> QED
      BY <2>1, <2>2, <2>3
  <1>5. k \in Nat /\ m \in Nat /\ f.buf + req.len \in Nat /\ req.end \in BOOLEAN
    BY <1>2 DEF FileData, IInv, TypeOK, Request
  <1>6. /\ fd' = [fd EXCEPT ![qfd] = new]
        /\ copied' = [copied EXCEPT ![req.id] = t]
    BY <1>2 DEF DownloadCopy, Set
  <1>7. /\ new \in FileData /\ new.id = f.id /\ new.seg_index = k + 1 /\ new.file_size = m
        /\ new.seg_len = f.seg_len /\ new.end = f.end
    <2> DEFINE a == k + 1
               b == f.buf + req.len
    <2>1. new = [f EXCEPT !.seg_index = a, !.buf = b, !.file_size = m]
      BY <1>2 DEF FileData
    <2>2. a \in Nat /\ b \in Nat
      BY <1>5
    <2> HIDE DEF a, b, m, new
    <2>3. /\ new \in FileData /\ new.id = f.id /\ new.seg_index = a /\ new.file_size = m
          /\ new.seg_len = f.seg_len /\ new.end = f.end
      BY <1>2, <1>5, <2>1, <2>2 DEF FileData
    <2> QED
      BY <2>3 DEF a
  <1> HIDE DEF new
  <1>8. e \in Copies /\ e.id = req.id /\ e.seg_index = k /\ e.last = req.end /\ e.upto = m
    BY <1>2, <1>4, <1>5, PlatIpcAssumption DEF Copies, Ids
  <1> HIDE DEF m, e
  <1>9. /\ t \in Seq(Copies) /\ Len(t) = Len(s) + 1 /\ Len(s) \in Nat
        /\ \A j \in 1..Len(s) : t[j] = s[j]
        /\ t[Len(s) + 1] = e
    BY <1>2, <1>8, Appended
  <1> HIDE DEF t
  <1>10. /\ MovesTyped' /\ fd'[qfd] = new /\ copied'[req.id] = t
    BY <1>2, <1>3, <1>6, <1>9 DEF CalmInv, MovesTyped, IInv, TypeOK
  <1>11. Uploading(o)'
    BY <1>2, <1>3 DEF Uploading
  <1>12. Downloading(o)'
    <2>1. Len(s) = k /\ f.seg_len = 0 /\ \A j \in 1..Len(s) : s[j].id = f.id /\ s[j].seg_index = j - 1
      BY <1>4 DEF CopiedSoFar
    <2>2. t[Len(t)] = e /\ t # <<>>
      BY <1>9
    <2> HIDE DEF s, k, f
    <2>3. \A j \in 1..Len(t) : t[j].id = req.id /\ t[j].seg_index = j - 1
      <3>1. \A j \in 1..Len(s) : t[j].id = req.id /\ t[j].seg_index = j - 1
        BY <1>2, <1>9, <2>1 DEF f
      <3>2. t[k + 1].id = req.id /\ t[k + 1].seg_index = k + 1 - 1
        BY <1>5, <1>8, <1>9, <2>1
      <3> QED
        BY <1>5, <1>9, <2>1, <3>1, <3>2
    <2>4. CopiedSoFar(new, t)
      BY <1>2, <1>4, <1>7, <1>8, <1>9, <2>1, <2>2, <2>3 DEF CopiedSoFar, f
    <2>5. req.end => LastCopied(t)
      BY <1>8, <2>2 DEF LastCopied
    <2> QED
      BY <1>0, <1>2, <1>3, <1>7, <1>10, <2>4, <2>5 DEF Downloading, f
  <1>13. fd' = fd \/ \E g \in FileData : g.id = fd[qfd].id /\ fd' = [fd EXCEPT ![qfd] = g]
    BY <1>6, <1>7
  <1>14. \A i \in Ids \ {req.id} : sent'[i] = sent[i] /\ copied'[i] = copied[i]
    BY <1>3, <1>6 DEF CalmInv, MovesTyped
  <1>15. Busy' => qfd' = qfd /\ req'.id = req.id /\ (qpc' \in DownSteps <=> qpc \in DownSteps)
    BY <1>0 DEF Busy, DownSteps, UpSteps
  <1> QED
    BY <1>1, <1>3, <1>10, <1>11, <1>12, <1>13, <1>14, <1>15, HandlerKeeps

LEMMA DownloadEndCalm ==
    ASSUME IInv, CalmInv, calm, DownloadEnd
    PROVE  CalmInv'
  <1> USE DEF DownloadEnd, qmiRest, linkVars, callerVars, Done
  <1>0. qpc = "down_end" /\ qpc' = "idle" /\ qpc \in DownSteps /\ Busy /\ ~Busy'
    BY DEF Busy, UpSteps, DownSteps
  <1>1. PICK o \in Callers : Owns(o)
    BY <1>0, BusyOwner
  <1>2. /\ pc[o] \in Holding /\ file[o] = qfd /\ fd[qfd].id = req.id /\ qfd \in live
        /\ qfd \in Addrs /\ fd[qfd] \in FileData /\ Downloading(o) /\ args[o].kind = "download"
        /\ pc[o] \notin {"deinit", "free"}
    BY <1>0, <1>1, FileInUse DEF Owns
  <1> DEFINE new == [fd[qfd] EXCEPT !.end = TRUE, !.complete = TRUE]
  <1>3. /\ new \in FileData /\ new.id = fd[qfd].id /\ new.file_size = fd[qfd].file_size
        /\ new.seg_index = fd[qfd].seg_index /\ new.seg_len = fd[qfd].seg_len
    BY <1>2 DEF FileData
  <1>4. fd' = [fd EXCEPT ![qfd] = new]
    BY <1>2 DEF Set
  <1> HIDE DEF new
  <1>5. fd'[qfd] = new
    BY <1>2, <1>4 DEF IInv, TypeOK
  <1>6. Uploading(o)'
    BY <1>2 DEF Uploading
  <1>7. Downloading(o)'
    <2>1. LastCopied(copied[fd[qfd].id])
      BY <1>0, <1>2 DEF Downloading
    <2>2. CopiedSoFar(new, copied[new.id])
      BY <1>2, <1>3, <2>1 DEF Downloading, CopiedSoFar
    <2> QED
      BY <1>0, <1>2, <1>5, <2>2 DEF Downloading
  <1>8. MovesTyped'
    BY DEF CalmInv, MovesTyped
  <1>9. fd' = fd \/ \E f \in FileData : f.id = fd[qfd].id /\ fd' = [fd EXCEPT ![qfd] = f]
    BY <1>3, <1>4
  <1>10. UNCHANGED <<calm, next_id, callerVars>> /\ sent' = sent /\ copied' = copied
    OBVIOUS
  <1> QED
    BY <1>0, <1>1, <1>6, <1>7, <1>8, <1>9, <1>10, HandlerKeeps

-----------------------------------------------------------------------------
(***************************************************************************)
(* The requests a calm QMI thread takes, and its other messages            *)
(***************************************************************************)

LEMMA HoldersHaveFiles ==
    ASSUME IInv, NEW d \in Callers, pc[d] \in Holding
    PROVE  file[d] \in Addrs /\ fd[file[d]] \in FileData /\ fd[file[d]].id \in Ids
  BY DEF IInv, HoldersOwn, TypeOK

LEMMA NothingMoved ==
    ASSUME IInv, CalmInv, calm, UNCHANGED <<calm, next_id, callerVars, sent, copied>>,
           \A b \in Addrs : SameParts(fd'[b], fd[b]),
           UNCHANGED <<qpc, qfd, req>> \/ (~Busy /\ ~Busy')
    PROVE  CalmInv'
  <1> USE DEF callerVars
  <1>1. ASSUME NEW d \in Callers, pc[d] \in Holding
        PROVE  file[d] \in Addrs /\ SameParts(fd'[file[d]], fd[file[d]])
               /\ fd'[file[d]].id = fd[file[d]].id
    BY <1>1, HoldersHaveFiles DEF SameParts
  <1>2. ASSUME NEW d \in Callers PROVE Uploading(d)' /\ Downloading(d)'
    <2>1. pc[d] \in {"deinit", "free"} /\ args[d].kind = "download" =>
             size[d] = fd[file[d]].file_size
      BY DEF CalmInv, Downloading, Holding, Entered
    <2> QED
      BY <1>1, <2>1, TransferKept DEF Holding, Entered
  <1>3. Unused' /\ Returned' /\ UploadMovesFile' /\ DownloadMovesFile'
    BY <1>1, ResultsKept
  <1>4. InUse'
    <2> SUFFICES ASSUME Busy' PROVE InUse'
      BY DEF InUse
    <2>1. UNCHANGED <<qpc, qfd, req>> /\ Busy
      BY DEF Busy
    <2>2. PICK o \in Callers : Owns(o)
      BY <2>1, BusyOwner
    <2>3. fd'[qfd].id = req.id
      BY <1>1, <2>2, OwnerAlone DEF Owns
    <2> QED
      BY <2>1, <2>2, <2>3 DEF InUse, Owns
  <1>5. CallsKnown' /\ MovesTyped'
    BY DEF CalmInv, CallsKnown, MovesTyped
  <1> QED
    BY <1>2, <1>3, <1>4, <1>5 DEF CalmInv

LEMMA MessagesCalm ==
    ASSUME IInv, CalmInv, calm,
           FailFiles \/ \E cl \in Clients : RegisterClient(cl) \/ Disconnect(cl)
    PROVE  CalmInv'
  <1>1. CASE FailFiles
    <2>1. \A b \in Addrs : SameParts(fd'[b], fd[b])
      BY <1>1 DEF FailFiles, Completed, SameParts, IInv, TypeOK, FileData
    <2>2. ~Busy /\ ~Busy'
      BY <1>1 DEF FailFiles, Busy, UpSteps, DownSteps
    <2> QED
      BY <1>1, <2>1, <2>2, NothingMoved DEF FailFiles, qmiRest, linkVars
  <1>2. ASSUME NEW cl \in Clients, RegisterClient(cl) \/ Disconnect(cl) PROVE CalmInv'
    <2>1. \A b \in Addrs : SameParts(fd'[b], fd[b])
      BY <1>2 DEF RegisterClient, Disconnect, heapVars, SameParts
    <2>2. ~Busy /\ ~Busy'
      BY <1>2 DEF RegisterClient, Disconnect, qmiVars, Busy, UpSteps, DownSteps
    <2>3. UNCHANGED <<calm, next_id, callerVars, sent, copied>>
      BY <1>2 DEF RegisterClient, Disconnect, heapVars, callerVars
    <2> QED
      BY <2>1, <2>2, <2>3, NothingMoved
  <1> QED
    BY <1>1, <1>2

\* A file that the daemon knows of is that of a caller, of the same kind.
LEMMA KnownOwner ==
    ASSUME IInv, CalmInv, calm, NEW kind \in {"upload", "download"}, NEW i \in Known(kind),
           MayHandle(file_idr[i])
    PROVE  \E o \in Callers :
               /\ pc[o] \in {"send", "wait", "collect"} /\ file[o] = file_idr[i]
               /\ fd[file[o]].id = i /\ args[o].kind = kind
  <1>1. PICK o \in Callers : pc[o] \in Entered /\ file[o] = file_idr[i] /\ fd[file[o]].id = i
    BY DEF Known, IInv, EntriesHeld
  <1>2. pc[o] \in Holding /\ pc[o] \in {"send", "wait", "collect"}
    BY <1>1 DEF MayHandle, Entered, Holding
  <1>3. args[o].kind \in {"upload", "download"} /\ args[o].n >= 1 /\ args[o].n \in Nat
    BY <1>2, PlatIpcAssumption DEF CalmInv, CallsKnown, IInv, TypeOK, Arguments
  <1>4. args[o].kind = "upload" => fd[file[o]].seg_len > 0
    <2>1. SegLen(args[o].n) \in Nat /\ SegLen(args[o].n) >= 1
      BY <1>3, SomeSegments
    <2> QED
      BY <1>2, <2>1 DEF CalmInv, Uploading, SentSoFar
  <1>5. args[o].kind = "download" => ~(fd[file[o]].seg_len > 0)
    BY <1>2 DEF CalmInv, Downloading, CopiedSoFar
  <1>6. (fd[file[o]].seg_len > 0) = (kind = "upload")
    BY <1>1 DEF Known
  <1>7. args[o].kind = kind
    BY <1>3, <1>4, <1>5, <1>6
  <1> QED
    BY <1>1, <1>2, <1>7

LEMMA RequestKeeps ==
    ASSUME IInv, CalmInv, calm, NEW kind \in {"upload", "download"}, NEW i \in Known(kind),
           NEW r, r.id = i,
           Lookup(IF kind = "upload" THEN "up_check" ELSE "down", r),
           kind = "upload" => fd[file_idr[i]].seg_index < fd[file_idr[i]].seg_len,
           kind = "download" /\ fd[file_idr[i]].end => r.seg_index < fd[file_idr[i]].seg_index
    PROVE  CalmInv'
  <1>1. /\ qpc = "idle" /\ MayHandle(file_idr[i]) /\ qfd' = file_idr[i] /\ req' = r
        /\ qpc' = IF kind = "upload" THEN "up_check" ELSE "down"
    BY DEF Lookup
  <1>2. UNCHANGED <<calm, next_id, callerVars, pc, file, args, size, result, fd, sent, copied>>
    BY DEF Lookup, linkVars, heapVars, callerVars
  <1>3. ~Busy /\ i \in Ids
    BY <1>1 DEF Busy, UpSteps, DownSteps, Known
  <1>4. PICK o \in Callers :
               /\ pc[o] \in {"send", "wait", "collect"} /\ file[o] = file_idr[i]
               /\ fd[file[o]].id = i /\ args[o].kind = kind
    BY <1>1, KnownOwner
  <1>5. pc[o] \in Holding /\ file[o] = qfd'
    BY <1>1, <1>4 DEF Holding, Entered
  <1>6. Uploading(o)' /\ Downloading(o)'
    <2>1. Uploading(o) /\ Downloading(o)
      BY DEF CalmInv
    <2>2. CASE kind = "upload"
      <3>1. SentSoFar(fd[file[o]], args[o].n, sent[fd[file[o]].id]) /\ AtRest(fd[file[o]], args[o].n)
        BY <1>1, <1>4, <1>5, <2>1, <2>2 DEF Uploading
      <3>2. Uploading(o)'
        BY <1>1, <1>2, <1>4, <1>5, <2>2, <3>1 DEF Uploading
      <3>3. Downloading(o)'
        BY <1>2, <1>4, <2>2 DEF Downloading
      <3> QED
        BY <3>2, <3>3
    <2>3. CASE kind = "download"
      <3>1. CopiedSoFar(fd[file[o]], copied[fd[file[o]].id])
        BY <1>4, <1>5, <2>1, <2>3 DEF Downloading
      <3>2. Downloading(o)'
        BY <1>1, <1>2, <1>4, <1>5, <2>3, <3>1 DEF Downloading
      <3>3. Uploading(o)'
        BY <1>2, <1>4, <2>3 DEF Uploading
      <3> QED
        BY <3>2, <3>3
    <2> QED
      BY <2>2, <2>3
  <1>7. ASSUME NEW d \in Callers PROVE Uploading(d)' /\ Downloading(d)'
    <2>1. CASE d = o
      BY <1>6, <2>1
    <2>2. CASE d # o
      <3>1. pc[d] \in Holding => file[d] # qfd'
        BY <1>4, <1>5, <2>2 DEF IInv, IdsDiffer
      <3>2. pc[d] \in {"deinit", "free"} /\ args[d].kind = "download" =>
               size[d] = fd[file[d]].file_size
        BY DEF CalmInv, Downloading, Holding, Entered
      <3> QED
        BY <1>2, <1>3, <3>1, <3>2, TransferKept DEF SameParts, Holding, Entered
    <2> QED
      BY <2>1, <2>2
  <1>8. Unused' /\ Returned' /\ UploadMovesFile' /\ DownloadMovesFile'
    BY <1>2, ResultsKept
  <1>9. InUse'
    BY <1>1, <1>2, <1>4, <1>5 DEF InUse, DownSteps
  <1>10. CallsKnown' /\ MovesTyped'
    BY <1>2 DEF CalmInv, CallsKnown, MovesTyped
  <1> QED
    BY <1>7, <1>8, <1>9, <1>10 DEF CalmInv

LEMMA RequestsCalm ==
    ASSUME IInv, CalmInv, calm, UploadRequest \/ DownloadRequest
    PROVE  CalmInv'
  <1>1. CASE UploadRequest
    <2>1. PICK i \in Known("upload") : \E k \in 0..fd[file_idr[i]].seg_len - 1 :
             /\ fd[file_idr[i]].seg_index < fd[file_idr[i]].seg_len
             /\ Lookup("up_check", [NoRequest EXCEPT !.id = i, !.seg_index = k])
      BY <1>1 DEF UploadRequest
    <2>2. PICK k \in 0..fd[file_idr[i]].seg_len - 1 :
             /\ fd[file_idr[i]].seg_index < fd[file_idr[i]].seg_len
             /\ Lookup("up_check", [NoRequest EXCEPT !.id = i, !.seg_index = k])
      BY <2>1
    <2>3. [NoRequest EXCEPT !.id = i, !.seg_index = k].id = i
      BY DEF NoRequest
    <2> QED
      BY <2>2, <2>3, RequestKeeps
  <1>2. CASE DownloadRequest
    <2>1. PICK i \in Known("download"), k \in 0..Max(Sizes[calm]), len \in 1..SegMax,
               last \in BOOLEAN, n \in {0, U32 - 1} :
             /\ fd[file_idr[i]].end => k < fd[file_idr[i]].seg_index
             /\ Lookup("down", [id |-> i, seg_index |-> k, file_size |-> n, len |-> len,
                                end |-> last])
      BY <1>2 DEF DownloadRequest
    <2> DEFINE r == [id |-> i, seg_index |-> k, file_size |-> n, len |-> len, end |-> last]
    <2>2. r.id = i /\ r.seg_index = k
      OBVIOUS
    <2> HIDE DEF r
    <2>3. Lookup("down", r)
      BY <2>1 DEF r
    <2> QED
      BY <2>1, <2>2, <2>3, RequestKeeps
  <1> QED
    BY <1>1, <1>2

-----------------------------------------------------------------------------
(***************************************************************************)
(* The steps of calm callers                                               *)
(***************************************************************************)

LEMMA OthersKept ==
    ASSUME IInv, CalmInv, calm, NEW c \in Callers, UNCHANGED <<qpc, qfd, req>>,
           \A d \in Callers \ {c} :
               /\ pc'[d] = pc[d] /\ args'[d] = args[d] /\ file'[d] = file[d] /\ size'[d] = size[d]
               /\ pc[d] \in Holding =>
                     /\ SameParts(fd'[file[d]], fd[file[d]])
                     /\ sent'[fd[file[d]].id] = sent[fd[file[d]].id]
                     /\ copied'[fd[file[d]].id] = copied[fd[file[d]].id]
    PROVE  \A d \in Callers \ {c} : Uploading(d)' /\ Downloading(d)'
  <1> SUFFICES ASSUME NEW d \in Callers \ {c} PROVE Uploading(d)' /\ Downloading(d)'
    OBVIOUS
  <1>1. pc[d] \in {"deinit", "free"} /\ args[d].kind = "download" =>
           size[d] = fd[file[d]].file_size
    BY DEF CalmInv, Downloading, Holding, Entered
  <1>2. pc'[d] \in Holding =>
               /\ pc[d] \in Holding /\ args'[d] = args[d] /\ file'[d] = file[d]
               /\ SameParts(fd'[file[d]], fd[file[d]])
               /\ sent'[fd[file[d]].id] = sent[fd[file[d]].id]
               /\ copied'[fd[file[d]].id] = copied[fd[file[d]].id]
               /\ pc'[d] \in {"deinit", "free"} /\ args[d].kind = "download" =>
                     size'[d] = fd[file[d]].file_size
    BY <1>1
  <1> QED
    BY <1>2, TransferKept

\* A caller that goes on with its file moves nothing.
LEMMA HolderGoesOn ==
    ASSUME IInv, CalmInv, calm, NEW c \in Callers, NEW label \in Holding, pc[c] \in Holding,
           Goto(c, label),
           UNCHANGED <<calm, next_id, file, args, result, qmiVars, sent, copied>>,
           \A b \in Addrs : SameParts(fd'[b], fd[b]),
           \A d \in Callers \ {c} : size'[d] = size[d],
           label \in {"deinit", "free"} /\ args[c].kind = "download" =>
               size'[c] = fd[file[c]].file_size,
           Busy /\ qfd = file[c] => label \in {"send", "wait", "collect"}
    PROVE  CalmInv'
  <1> USE DEF qmiVars
  <1>1. ASSUME NEW d \in Callers, pc[d] \in Holding
        PROVE  file[d] \in Addrs /\ SameParts(fd'[file[d]], fd[file[d]])
               /\ fd'[file[d]].id = fd[file[d]].id
    BY <1>1, HoldersHaveFiles DEF SameParts
  <1>2. /\ pc'[c] = label
        /\ \A d \in Callers \ {c} : pc'[d] = pc[d]
    BY DEF Goto, IInv, TypeOK
  <1>3. \A d \in Callers \ {c} : Uploading(d)' /\ Downloading(d)'
    BY <1>1, <1>2, OthersKept
  <1>4. Uploading(c)' /\ Downloading(c)'
    BY <1>1, <1>2, TransferKept
  <1>5. Unused' /\ Returned' /\ UploadMovesFile' /\ DownloadMovesFile'
    <2>1. \A d \in Callers : pc'[d] \in Holding =>
               pc[d] \in Holding /\ file'[d] = file[d] /\ fd'[file[d]].id = fd[file[d]].id
      BY <1>1, <1>2
    <2> QED
      BY <2>1, ResultsKept
  <1>6. InUse'
    <2> SUFFICES ASSUME Busy' PROVE InUse'
      BY DEF InUse
    <2>1. Busy
      BY DEF Busy
    <2>2. PICK o \in Callers : Owns(o)
      BY <2>1, BusyOwner
    <2>3. fd'[qfd].id = req.id
      BY <1>1, <2>2, OwnerAlone DEF Owns
    <2>4. pc'[o] \in {"send", "wait", "collect"}
      BY <1>2, <2>1, <2>2 DEF Owns
    <2> QED
      BY <2>2, <2>3, <2>4 DEF InUse, Owns
  <1>7. CallsKnown' /\ MovesTyped'
    BY <1>2 DEF CalmInv, CallsKnown, MovesTyped
  <1> QED
    BY <1>3, <1>4, <1>5, <1>6, <1>7 DEF CalmInv

LEMMA HoldersCalm ==
    ASSUME IInv, CalmInv, calm, NEW c \in Callers,
           \/ SendIndication(c) \/ SendFails(c) \/ WaitCompleted(c) \/ WaitTimeout(c)
           \/ ReadSize(c) \/ RemoveEntry(c)
    PROVE  CalmInv'
  <1> USE DEF linkVars, heapVars
  <1>1. CASE SendIndication(c) \/ SendFails(c) \/ WaitTimeout(c)
    <2>1. PICK label \in {"wait", "collect"} : Goto(c, label)
      BY <1>1 DEF SendIndication, SendFails, WaitTimeout
    <2>2. label \in Holding /\ pc[c] \in Holding /\ label \in {"send", "wait", "collect"}
      BY <1>1 DEF SendIndication, SendFails, WaitTimeout, Holding, Entered
    <2>3. UNCHANGED <<calm, next_id, file, args, size, result, qmiVars, sent, copied, fd>>
      BY <1>1 DEF SendIndication, SendFails, WaitTimeout
    <2>4. \A b \in Addrs : SameParts(fd'[b], fd[b])
      BY <2>3 DEF SameParts
    <2> QED
      BY <2>1, <2>2, <2>3, <2>4, HolderGoesOn
  <1>2. CASE WaitCompleted(c)
    <2>1. "collect" \in Holding /\ pc[c] \in Holding
      BY <1>2 DEF WaitCompleted, Holding, Entered
    <2>2. \A b \in Addrs : SameParts(fd'[b], fd[b])
      BY <1>2 DEF WaitCompleted, SameParts, IInv, TypeOK, FileData
    <2> QED
      BY <1>2, <2>1, <2>2, HolderGoesOn DEF WaitCompleted
  <1>3. CASE ReadSize(c)
    <2>1. "deinit" \in Holding /\ pc[c] \in Holding
      BY <1>3 DEF ReadSize, Holding, Entered
    <2>2. qfd # file[c]
      BY <1>3 DEF ReadSize, MayCollect
    <2>3. \A b \in Addrs : SameParts(fd'[b], fd[b])
      BY <1>3 DEF ReadSize, SameParts
    <2>4. size'[c] = fd[file[c]].file_size /\ \A d \in Callers \ {c} : size'[d] = size[d]
      BY <1>3 DEF ReadSize, IInv, TypeOK
    <2> QED
      BY <1>3, <2>1, <2>2, <2>3, <2>4, HolderGoesOn DEF ReadSize
  <1>4. CASE RemoveEntry(c)
    <2>1. "free" \in Holding /\ pc[c] \in Holding
      BY <1>4 DEF RemoveEntry, Holding, Entered
    <2>2. ~(Busy /\ qfd = file[c])
      <3> SUFFICES ASSUME Busy, qfd = file[c] PROVE FALSE
        OBVIOUS
      <3>1. PICK o \in Callers : Owns(o)
        BY BusyOwner
      <3>2. o # c
        BY <1>4, <3>1 DEF RemoveEntry, Owns
      <3> QED
        BY <2>1, <3>1, <3>2, OwnerAlone
    <2>3. \A b \in Addrs : SameParts(fd'[b], fd[b])
      BY <1>4 DEF RemoveEntry, SameParts
    <2>4. args[c].kind = "download" => size[c] = fd[file[c]].file_size
      BY <1>4, <2>1 DEF RemoveEntry, CalmInv, Downloading
    <2> QED
      BY <1>4, <2>1, <2>2, <2>3, <2>4, HolderGoesOn DEF RemoveEntry
  <1> QED
    BY <1>1, <1>2, <1>3, <1>4

\* A caller that has no file yet.
LEMMA CallCalm ==
    ASSUME IInv, CalmInv, calm, NEW c \in Callers,
           NoMemory(c) \/ \E kind \in Kinds[calm], n \in Sizes[calm] : Call(c, kind, n)
    PROVE  CalmInv'
  <1> USE DEF linkVars, heapVars, qmiVars
  <1>1. UNCHANGED <<calm, next_id, fd, file, size, qmiVars, qpc, qfd, req, sent, copied>>
    BY DEF NoMemory, Call
  <1>2. /\ pc[c] \notin Holding /\ pc'[c] \notin Holding
        /\ \A d \in Callers \ {c} : pc'[d] = pc[d] /\ args'[d] = args[d] /\ result'[d] = result[d]
    BY DEF NoMemory, Call, Goto, IInv, TypeOK, Holding, Entered, CalmInv, MovesTyped
  <1>3. result'[c] = result[c] \/ result'[c] = NoResult
    BY DEF NoMemory, Call, CalmInv, MovesTyped
  <1>4. \A d \in Callers \ {c} : Uploading(d)' /\ Downloading(d)'
    BY <1>1, <1>2, OthersKept DEF SameParts
  <1>5. Uploading(c)' /\ Downloading(c)'
    BY <1>2 DEF Uploading, Downloading
  <1>6. \A d \in Callers : result'[d].ok => result'[d] = result[d]
    BY <1>2, <1>3 DEF NoResult
  <1>7. Unused' /\ Returned'
    BY <1>1, <1>2, <1>6 DEF CalmInv, Unused, Returned
  <1>8. UploadMovesFile' /\ DownloadMovesFile'
    BY <1>1, <1>6 DEF CalmInv, UploadMovesFile, UploadComplete, DownloadMovesFile
  <1>9. InUse'
    BY <1>1, <1>2 DEF CalmInv, InUse, Busy, Holding, Entered
  <1>10. CallsKnown'
    <2>1. CASE NoMemory(c)
      BY <1>2, <2>1 DEF NoMemory, Goto, IInv, TypeOK, CalmInv, CallsKnown, Holding, Entered
    <2>2. ASSUME NEW kind \in Kinds[calm], NEW n \in Sizes[calm], Call(c, kind, n)
          PROVE  CallsKnown'
      <3>1. kind \in {"upload", "download"} /\ n >= 1
        <4>1. calm \in BOOLEAN
          BY DEF IInv, TypeOK
        <4>2. Kinds[calm] \in SUBSET {"upload", "download"}
              /\ Sizes[calm] \in SUBSET (1..U32 - 1)
          BY <4>1, PlatIpcAssumption
        <4>3. kind \in {"upload", "download"} /\ n \in 1..U32 - 1
          BY <4>2
        <4> QED
          BY <4>3, PlatIpcAssumption
      <3>2. args'[c].kind = kind /\ args'[c].n = n
        BY <2>2 DEF Call, IInv, TypeOK
      <3> QED
        BY <1>2, <3>1, <3>2 DEF CalmInv, CallsKnown
    <2> QED
      BY <2>1, <2>2
  <1>11. MovesTyped'
    <2>1. NoResult \in Results
      BY DEF NoResult, Results
    <2>2. result' \in [Callers -> Results]
      BY <2>1 DEF NoMemory, Call, CalmInv, MovesTyped
    <2> QED
      BY <1>1, <2>2 DEF CalmInv, MovesTyped
  <1> QED
    BY <1>4, <1>5, <1>7, <1>8, <1>9, <1>10, <1>11 DEF CalmInv

LEMMA NoSegments == SegLen(0) = 0
  BY PlatIpcAssumption DEF SegLen

LEMMA InitFileDataCalm ==
    ASSUME IInv, CalmInv, calm, NEW c \in Callers, InitFileData(c)
    PROVE  CalmInv'
  <1>1. PICK a \in Addrs \ live :
          LET n == IF args[c].kind = "upload" THEN args[c].n ELSE 0 IN
          /\ fd' = [fd EXCEPT ![a] =
                      [Blank EXCEPT !.id = next_id, !.buf_size = args[c].n,
                                    !.file_size = n, !.seg_len = SegLen(n)]]
          /\ file' = [file EXCEPT ![c] = a]
    BY DEF InitFileData
  <1>2. /\ UNCHANGED <<calm, args, size, result, qpc, qfd, req, sent, copied>>
        /\ pc[c] = "init" /\ pc'[c] = "send" /\ \A d \in Callers \ {c} : pc'[d] = pc[d]
        /\ next_id \in Ids /\ next_id \in Nat /\ next_id' = next_id + 1
    BY PlatIpcAssumption
       DEF InitFileData, Goto, linkVars, qmiVars, IInv, TypeOK, Ids
  <1> DEFINE m   == args[c].n
             up  == args[c].kind = "upload"
             n   == IF up THEN m ELSE 0
             new == [Blank EXCEPT !.id = next_id, !.buf_size = m,
                                  !.file_size = n, !.seg_len = SegLen(n)]
  <1>3. /\ new.id = next_id /\ new.buf = 0 /\ new.buf_size = m /\ new.seg_index = 0
        /\ new.file_size = n /\ new.seg_len = SegLen(n) /\ new.end = FALSE
    BY DEF Blank
  <1>4. /\ fd' = [fd EXCEPT ![a] = new] /\ fd'[a] = new /\ file'[c] = a
        /\ \A b \in Addrs \ {a} : fd'[b] = fd[b]
        /\ \A d \in Callers \ {c} : file'[d] = file[d]
    BY <1>1 DEF IInv, TypeOK
  <1> HIDE DEF new
  <1>5. ASSUME NEW d \in Callers \ {c}, pc[d] \in Holding
        PROVE  /\ file[d] \in Addrs \ {a} /\ fd'[file[d]] = fd[file[d]]
               /\ fd[file[d]].id # next_id
    <2>1. file[d] \in live /\ file[d] \in Addrs /\ fd[file[d]].id \in Ids /\ fd[file[d]].id < next_id
      BY <1>5 DEF IInv, TypeOK, HoldersOwn
    <2>2. fd[file[d]].id # next_id
      BY <1>2, <2>1 DEF Ids
    <2> QED
      BY <1>4, <2>1, <2>2
  <1>6. \A d \in Callers \ {c} : Uploading(d)' /\ Downloading(d)'
    <2>1. \A d \in Callers \ {c} :
               /\ pc'[d] = pc[d] /\ args'[d] = args[d] /\ file'[d] = file[d] /\ size'[d] = size[d]
      BY <1>2, <1>4
    <2>2. \A d \in Callers \ {c} : pc[d] \in Holding => SameParts(fd'[file[d]], fd[file[d]])
      BY <1>5 DEF SameParts
    <2>3. UNCHANGED <<qpc, qfd, req, sent, copied>>
      BY <1>2
    <2> QED
      BY <2>1, <2>2, <2>3, OthersKept
  <1>7. Busy => qfd # a
    <2> SUFFICES ASSUME Busy PROVE qfd # a
      OBVIOUS
    <2>1. PICK o \in Callers : Owns(o)
      BY BusyOwner
    <2> QED
      BY <2>1, OwnerAlone
  <1>8. m \in Nat /\ SegMax \in Nat
    BY PlatIpcAssumption DEF IInv, TypeOK, Arguments
  <1>9. sent[next_id] = <<>> /\ copied[next_id] = <<>>
    BY <1>2 DEF CalmInv, Unused
  <1>10. Uploading(c)'
    <2> SUFFICES ASSUME up PROVE Uploading(c)'
      BY <1>2 DEF Uploading
    <2>1. SegLen(m) \in Nat
      BY <1>8, SegLenIsNat
    <2>2. SentSoFar(new, m, <<>>)
      BY <1>3, <2>1 DEF SentSoFar
    <2>3. AtRest(new, m)
      <3>1. 0 * SegMax = 0
        BY <1>8
      <3> QED
        BY <1>3, <1>8, <3>1 DEF AtRest, Least
    <2>4. ~(Busy' /\ qfd' = a)
      BY <1>2, <1>7 DEF Busy
    <2> QED
      BY <1>2, <1>3, <1>4, <1>9, <2>2, <2>3, <2>4 DEF Uploading, Busy, UpSteps
  <1>11. Downloading(c)'
    <2> SUFFICES ASSUME ~up PROVE Downloading(c)'
      BY <1>2 DEF Downloading
    <2>1. CopiedSoFar(new, <<>>)
      BY <1>3, NoSegments DEF CopiedSoFar
    <2>2. ~(Busy' /\ qfd' = a)
      BY <1>2, <1>7 DEF Busy
    <2> QED
      BY <1>2, <1>3, <1>4, <1>9, <2>1, <2>2 DEF Downloading, Busy, DownSteps
  <1>12. Unused'
    <2>1. \A i \in Ids : i >= next_id' => i >= next_id
      BY <1>2 DEF Ids
    <2> QED
      BY <1>2, <2>1 DEF CalmInv, Unused
  <1>13. Returned'
    <2>1. ASSUME NEW e \in Callers, result[e].ok
          PROVE  /\ result[e].id \in Ids /\ result[e].id < next_id' /\ result[e].id # next_id
                 /\ \A d \in Callers : pc[d] \in Holding => fd[file[d]].id # result[e].id
      BY <1>2, <2>1 DEF CalmInv, Returned, Ids
    <2>2. ASSUME NEW e \in Callers, result[e].ok, NEW d \in Callers, pc'[d] \in Holding
          PROVE  fd'[file'[d]].id # result[e].id
      <3>1. CASE d = c
        BY <1>3, <1>4, <2>1, <2>2, <3>1
      <3>2. CASE d # c
        BY <1>2, <1>4, <1>5, <2>1, <2>2, <3>2
      <3> QED
        BY <3>1, <3>2
    <2> QED
      BY <1>2, <2>1, <2>2 DEF Returned
  <1>14. UploadMovesFile' /\ DownloadMovesFile'
    BY <1>2 DEF CalmInv, UploadMovesFile, UploadComplete, DownloadMovesFile
  <1>15. InUse'
    <2> SUFFICES ASSUME Busy' PROVE InUse'
      BY DEF InUse
    <2>1. Busy
      BY <1>2 DEF Busy
    <2>2. PICK o \in Callers : Owns(o)
      BY <2>1, BusyOwner
    <2>3. o # c /\ pc[o] \in Holding
      BY <1>2, <2>2 DEF Owns, Holding, Entered
    <2>4. fd'[qfd].id = req.id
      BY <1>5, <2>2, <2>3 DEF Owns
    <2>5. /\ pc'[o] = pc[o] /\ file'[o] = file[o] /\ args'[o] = args[o]
          /\ qpc' = qpc /\ qfd' = qfd /\ req' = req
      BY <1>2, <1>4, <2>3
    <2> QED
      BY <2>2, <2>4, <2>5 DEF InUse, Owns
  <1>16. CallsKnown' /\ MovesTyped'
    BY <1>2 DEF CalmInv, CallsKnown, MovesTyped
  <1> QED
    BY <1>6, <1>10, <1>11, <1>12, <1>13, <1>14, <1>15, <1>16 DEF CalmInv

\* A transfer that succeeds has moved its file: this is what is remembered.
LEMMA UploadSucceeds ==
    ASSUME NEW n \in Nat, NEW f, NEW s \in Seq(Moves), SentSoFar(f, n, s), f.end
    PROVE  IsPrefix(Segments(n), s)
  <1>1. Len(s) = SegLen(n) /\ \A k \in 1..SegLen(n) : s[k] = Segment(n, k)
    BY DEF SentSoFar
  <1>2. SegLen(n) \in Nat
    BY SegLenIsNat
  <1>3. s = [k \in 1..Len(s) |-> s[k]]
    OBVIOUS
  <1>4. Segments(n) = [k \in 1..SegLen(n) |-> s[k]]
    BY <1>1 DEF Segments, Segment
  <1>5. Segments(n) = s
    BY <1>1, <1>3, <1>4
  <1>6. IsPrefix(s, s)
    <2>1. Len(s) <= Len(s)
      BY <1>1, <1>2
    <2> QED
      BY <2>1 DEF IsPrefix
  <1> QED
    BY <1>5, <1>6

LEMMA FreeFileCalm ==
    ASSUME IInv, CalmInv, calm, NEW c \in Callers, FreeFile(c)
    PROVE  CalmInv'
  <1> DEFINE a == file[c]
             f == fd[a]
             r == [kind |-> args[c].kind, n |-> args[c].n, id |-> f.id,
                   size |-> size[c], ok |-> TRUE]
  <1>1. /\ UNCHANGED <<calm, next_id, qpc, qfd, req>>
        /\ pc[c] = "free" /\ pc'[c] = "idle"
        /\ \A d \in Callers \ {c} : /\ pc'[d] = pc[d] /\ args'[d] = args[d] /\ file'[d] = file[d]
                                    /\ size'[d] = size[d]
    BY DEF FreeFile, Goto, linkVars, qmiVars, IInv, TypeOK
  <1>2. /\ pc[c] \in Holding /\ pc'[c] \notin Holding
        /\ a \in Addrs /\ f \in FileData /\ f.id \in Ids /\ f.id < next_id
    BY <1>1, HoldersHaveFiles DEF Holding, Entered, IInv, HoldersOwn
  <1>3. /\ result'[c] = IF f.end THEN r ELSE NoResult
        /\ \A d \in Callers \ {c} : result'[d] = result[d]
        /\ fd' = [fd EXCEPT ![a] = Blank]
        /\ IF f.end THEN UNCHANGED <<sent, copied>>
                    ELSE /\ sent' = [sent EXCEPT ![f.id] = <<>>]
                         /\ copied' = [copied EXCEPT ![f.id] = <<>>]
    BY DEF FreeFile, CalmInv, MovesTyped
  <1>4. /\ \A b \in Addrs \ {a} : fd'[b] = fd[b]
        /\ \A i \in Ids \ {f.id} : sent'[i] = sent[i] /\ copied'[i] = copied[i]
    BY <1>2, <1>3 DEF CalmInv, MovesTyped, IInv, TypeOK
  <1>5. ASSUME NEW d \in Callers \ {c}, pc[d] \in Holding
        PROVE  /\ file[d] \in Addrs \ {a} /\ fd'[file[d]] = fd[file[d]]
               /\ fd[file[d]].id \in Ids \ {f.id}
    <2>1. file[d] \in Addrs /\ fd[file[d]].id \in Ids
      BY <1>5, HoldersHaveFiles
    <2>2. fd[file[d]].id # f.id
      BY <1>2, <1>5 DEF IInv, IdsDiffer
    <2> QED
      BY <1>4, <2>1, <2>2
  <1>6. \A d \in Callers \ {c} : Uploading(d)' /\ Downloading(d)'
    BY <1>1, <1>4, <1>5, OthersKept DEF SameParts
  <1>7. Uploading(c)' /\ Downloading(c)'
    BY <1>2 DEF Uploading, Downloading
  <1>8. /\ args[c].kind \in {"upload", "download"} /\ args[c].n \in Nat /\ size[c] \in Nat
        /\ sent[f.id] \in Seq(Moves) /\ copied[f.id] \in Seq(Copies)
    BY <1>2, PlatIpcAssumption DEF CalmInv, CallsKnown, MovesTyped, IInv, TypeOK, Arguments
  <1>9. MovesTyped'
    <2>1. r \in Results /\ NoResult \in Results
      BY <1>2, <1>8, PlatIpcAssumption DEF Results, NoResult, Ids
    <2>2. result' \in [Callers -> Results]
      BY <2>1 DEF FreeFile, CalmInv, MovesTyped
    <2>3. <<>> \in Seq(Moves) /\ <<>> \in Seq(Copies)
      OBVIOUS
    <2>4. sent' \in [Ids -> Seq(Moves)] /\ copied' \in [Ids -> Seq(Copies)]
      BY <1>2, <1>3, <2>3 DEF CalmInv, MovesTyped
    <2> QED
      BY <2>2, <2>4 DEF MovesTyped
  <1>10. InUse'
    <2> SUFFICES ASSUME Busy' PROVE InUse'
      BY DEF InUse
    <2>1. Busy
      BY <1>1 DEF Busy
    <2>2. PICK o \in Callers : Owns(o)
      BY <2>1, BusyOwner
    <2>3. o # c /\ pc[o] \in Holding
      BY <1>1, <2>2 DEF Owns, Holding, Entered
    <2>4. fd'[qfd].id = req.id
      BY <1>5, <2>2, <2>3 DEF Owns
    <2> QED
      BY <1>1, <2>2, <2>3, <2>4 DEF InUse, Owns
  <1>11. CallsKnown'
    BY <1>1, <1>2 DEF CalmInv, CallsKnown, Holding, Entered
  <1>12. Unused'
    <2>1. \A i \in Ids : i >= next_id => i # f.id
      BY <1>2 DEF IInv, TypeOK, Ids
    <2> QED
      BY <1>1, <1>4, <2>1 DEF CalmInv, Unused
  <1>13. ASSUME NEW d \in Callers \ {c}, result[d].ok
         PROVE  result[d].id \in Ids \ {f.id}
    BY <1>2, <1>13 DEF CalmInv, Returned
  <1>14. result'[c].ok => f.end /\ result'[c] = r
    BY <1>3 DEF NoResult
  <1>15. Returned'
    <2>1. ASSUME NEW d \in Callers, result'[d].ok
          PROVE  result'[d].id \in Ids /\ result'[d].id < next_id
                 /\ \A e \in Callers \ {c} : pc[e] \in Holding => fd[file[e]].id # result'[d].id
      <3>1. CASE d = c
        BY <1>2, <1>5, <1>14, <2>1, <3>1
      <3>2. CASE d # c
        BY <1>3, <2>1, <3>2 DEF CalmInv, Returned
      <3> QED
        BY <3>1, <3>2
    <2> QED
      BY <1>1, <1>2, <1>5, <2>1 DEF Returned
  <1>16. UploadMovesFile'
    <2> SUFFICES ASSUME NEW d \in Callers, result'[d].kind = "upload", result'[d].ok
                 PROVE  IsPrefix(Segments(result'[d].n), sent'[result'[d].id])
      BY DEF UploadMovesFile, UploadComplete
    <2>1. CASE d = c
      <3>1. f.end /\ result'[c] = r /\ sent' = sent
        BY <1>3, <1>14, <2>1
      <3>2. args[c].kind = "upload"
        BY <2>1, <3>1
      <3>3. SentSoFar(f, args[c].n, sent[f.id])
        BY <1>2, <3>2 DEF CalmInv, Uploading
      <3>4. IsPrefix(Segments(args[c].n), sent[f.id])
        BY <1>8, <3>1, <3>3, UploadSucceeds
      <3> QED
        BY <2>1, <3>1, <3>4
    <2>2. CASE d # c
      <3>1. result'[d] = result[d] /\ sent'[result[d].id] = sent[result[d].id]
        BY <1>3, <1>4, <1>13, <2>2
      <3> QED
        BY <3>1 DEF CalmInv, UploadMovesFile, UploadComplete
    <2> QED
      BY <2>1, <2>2
  <1>17. DownloadMovesFile'
    <2> SUFFICES ASSUME NEW d \in Callers, result'[d].kind = "download", result'[d].ok
                 PROVE  LET s == copied'[result'[d].id] IN
                        /\ s # <<>> /\ Last(s).last /\ Last(s).upto = result'[d].size
                        /\ \A k \in 1..Len(s) : s[k].id = result'[d].id /\ s[k].seg_index = k - 1
      BY DEF DownloadMovesFile
    <2>1. CASE d = c
      <3>1. f.end /\ result'[c] = r /\ copied' = copied
        BY <1>3, <1>14, <2>1
      <3>2. args[c].kind = "download"
        BY <2>1, <3>1
      <3>3. CopiedSoFar(f, copied[f.id]) /\ size[c] = f.file_size
        BY <1>1, <1>2, <3>2 DEF CalmInv, Downloading
      <3> HIDE DEF f
      <3>4. LastCopied(copied[f.id])
        BY <3>1, <3>3 DEF CopiedSoFar
      <3> QED
        BY <2>1, <3>1, <3>3, <3>4 DEF CopiedSoFar, LastCopied, Last
    <2>2. CASE d # c
      <3>1. result'[d] = result[d] /\ copied'[result[d].id] = copied[result[d].id]
        BY <1>3, <1>4, <1>13, <2>2
      <3> QED
        BY <3>1 DEF CalmInv, DownloadMovesFile
    <2> QED
      BY <2>1, <2>2
  <1> QED
    BY <1>6, <1>7, <1>9, <1>10, <1>11, <1>12, <1>15, <1>16, <1>17 DEF CalmInv

-----------------------------------------------------------------------------
(***************************************************************************)
(* The theorems about what is moved                                        *)
(***************************************************************************)

LEMMA CalmInit == Init => CalmInv
  <1> SUFFICES ASSUME Init PROVE CalmInv
    OBVIOUS
  <1> USE DEF Init
  <1>1. NoResult \in Results /\ ~NoResult.ok
    BY DEF NoResult, Results
  <1>2. MovesTyped
    BY <1>1 DEF MovesTyped
  <1>3. InUse
    BY DEF InUse, Busy, UpSteps, DownSteps
  <1>4. \A c \in Callers : pc[c] = "idle" /\ ~result[c].ok
    BY <1>1
  <1>5. CallsKnown /\ Unused /\ Returned
    BY <1>4 DEF CallsKnown, Unused, Returned, Holding, Entered
  <1>6. \A c \in Callers : Uploading(c) /\ Downloading(c)
    BY <1>4 DEF Uploading, Downloading, Holding, Entered
  <1>7. UploadMovesFile /\ DownloadMovesFile
    BY <1>4 DEF UploadMovesFile, UploadComplete, DownloadMovesFile
  <1> QED
    BY <1>2, <1>3, <1>5, <1>6, <1>7 DEF CalmInv

LEMMA CalmNext == IInv /\ CalmInv /\ [Next]_vars => CalmInv'
  <1> SUFFICES ASSUME IInv, CalmInv, [Next]_vars PROVE CalmInv'
    OBVIOUS
  <1>1. CASE ~calm
    <2>1. QmiThread => calm' = calm
      BY DEF QmiThread, UploadRequest, UploadCheck, UploadNoMemory, UploadRespond,
             UploadSendFails, UploadAdvance, DownloadRequest, DownloadRefused, DownloadCopy,
             DownloadEnd, RegisterClient, Disconnect, FailFiles, Lookup, qmiRest, linkVars
    <2>2. ASSUME NEW c \in Callers, Caller(c) PROVE calm' = calm
      BY <2>2 DEF Caller, Call, NoMemory, InitFileData, SendIndication, SendFails,
             WaitCompleted, WaitTimeout, ReadSize, RemoveEntry, FreeFile, linkVars
    <2> QED
      BY <1>1, <2>1, <2>2 DEF CalmInv, Next, vars, linkVars
  <1>2. CASE calm
    <2>1. CASE QmiThread
      <3>1. ~UploadSendFails
        BY <1>2 DEF UploadSendFails
      <3>2. CASE UploadRequest \/ DownloadRequest
        BY <1>2, <3>2, RequestsCalm
      <3>3. CASE UploadCheck \/ UploadNoMemory \/ UploadRespond \/ UploadAdvance
        BY <1>2, <3>3, UploadCheckCalm, UploadNoMemoryCalm, UploadRespondCalm, UploadAdvanceCalm
      <3>4. CASE DownloadRefused \/ DownloadCopy \/ DownloadEnd
        BY <1>2, <3>4, DownloadRefusedCalm, DownloadCopyCalm, DownloadEndCalm
      <3>5. CASE FailFiles \/ \E cl \in Clients : RegisterClient(cl) \/ Disconnect(cl)
        BY <1>2, <3>5, MessagesCalm
      <3> QED
        BY <2>1, <3>1, <3>2, <3>3, <3>4, <3>5 DEF QmiThread
    <2>2. ASSUME NEW c \in Callers, Caller(c) PROVE CalmInv'
      BY <1>2, <2>2, CallCalm, InitFileDataCalm, HoldersCalm, FreeFileCalm DEF Caller
    <2>3. CASE UNCHANGED vars
      BY <1>2, <2>3, NothingMoved DEF SameParts, vars, linkVars, heapVars, callerVars, qmiVars
    <2> QED
      BY <2>1, <2>2, <2>3 DEF Next
  <1> QED
    BY <1>1, <1>2

LEMMA CalmInvariant == Spec => []CalmInv
  BY CalmInit, CalmNext, Invariant, PTL DEF Spec

\* As long as no response of the kernel fails to be sent and no caller gives up in
\* the middle of a handler for its file: an upload that returns 0 has sent the
\* daemon every byte of the buffer once, in order, however many transfers overlap,
\* whatever segments the daemon asks for, how often it disconnects and comes back,
\* and whenever the wait times out.
THEOREM UploadsMoveTheFile == Spec => []UploadMovesFile
  <1>1. CalmInv => UploadMovesFile
    BY DEF CalmInv, UploadMovesFile
  <1> QED
    BY <1>1, CalmInvariant, PTL

\* In the same circumstances a download that returns 0 has copied the segments
\* of its own file, in order and up to the last one, and returns its size.
THEOREM DownloadsMoveTheFile == Spec => []DownloadMovesFile
  <1>1. CalmInv => DownloadMovesFile
    BY DEF CalmInv, DownloadMovesFile
  <1> QED
    BY <1>1, CalmInvariant, PTL

-----------------------------------------------------------------------------
(***************************************************************************)
(* Messages: numbers, sets and sequences                                   *)
(***************************************************************************)

\* The least of a set of numbers is one of them.
LEMMA MinIs ==
    ASSUME NEW S \in SUBSET Nat, S # {}
    PROVE  Min(S) \in S /\ \A x \in S: Min(S) <= x
  <1> DEFINE Below(x) == 0..x
             T == {Below(x): x \in S}
             R == StrictSubsetOrdering(Nat)
  <1>1. \A x \in S: IsFiniteSet(Below(x)) /\ Below(x) \subseteq Nat
    BY FS_Interval
  <1>2. T \subseteq FiniteSubsetsOf(Nat) /\ T # {}
    BY <1>1 DEF FiniteSubsetsOf
  <1>3. PICK U \in T: \A V \in T: ~ (<<V, U>> \in R)
    <2> HIDE DEF T, R
    <2> QED
      BY <1>2, FS_StrictSubsetOrderingWellFounded, WFMin DEF R
  <1>4. PICK x \in S: U = Below(x)
    OBVIOUS
  <1>5. ASSUME NEW y \in S, y < x  PROVE FALSE
    <2>1. Below(y) \subseteq Below(x) /\ x \in Below(x) /\ x \notin Below(y)
      BY <1>5
    <2>2. <<Below(y), Below(x)>> \in R
      BY <2>1, <1>1 DEF StrictSubsetOrdering
    <2> QED
      BY <2>2, <1>3, <1>4
  <1>6. \A y \in S: x <= y
    BY <1>5
  <1> QED
    BY <1>6 DEF Min

\* Products of larger numbers are larger.
LEMMA Products ==
    ASSUME NEW a \in Nat, NEW b \in Nat, NEW c \in Nat, NEW d \in Nat, a <= c, b <= d
    PROVE  a * b \in Nat /\ c * d \in Nat /\ a * b <= c * d
  <1>1. a * b <= c * b
    BY SMT
  <1>2. c * b <= c * d
    BY SMT
  <1> QED
    BY <1>1, <1>2

\* A number below m is its own remainder.
LEMMA LengthKept ==
    ASSUME NEW n \in Nat, NEW m \in Nat, n < m
    PROVE  n % m = n
  BY SMT

\* The elements of a finite set make a sequence.
LEMMA SetToSeqIs ==
    ASSUME NEW S, IsFiniteSet(S)
    PROVE  SetToSeq(S) \in Seq(S)
  <1>1. PICK f: f \in Bijection(1..Cardinality(S), S)
    BY FS_CardinalityType DEF ExistsBijection
  <1>2. f \in [1..Cardinality(S) -> S] /\ IsInjective(f)
    BY <1>1 DEF Bijection, Injection, IsInjective
  <1>3. SetToSeq(S) \in [1..Cardinality(S) -> S]
    BY <1>2 DEF SetToSeq
  <1> QED
    BY <1>3, FS_CardinalityType

\* An array has no more items than it has room for.
LEMMA FilledIs ==
    ASSUME fill \in {"none", "one", "full"}, NEW n \in Nat \ {0}
    PROVE  Filled(n) \in 0..n
  BY DEF Filled

-----------------------------------------------------------------------------
(***************************************************************************)
(* Messages: the inductive invariant                                       *)
(***************************************************************************)

\* The TLV of field k, as the sender means it.
TlvOf(k) ==
    LET e     == Ei[k]
        array == e.kind = "items" /\ e.array = "var"
        items == IF e.kind = "string" THEN 1 ELSE IF array THEN Filled(e.n) ELSE e.n
    IN  [tlv |-> e.tlv, count |-> items,
         width |-> IF array THEN Ei[k - 1].width ELSE 0,
         bytes |-> IF e.kind = "string" THEN Filled(e.n - 1) ELSE items * ItemSize(e)]

\* What the receiver finds in it.
FieldOf(k) == <<k, TlvOf(k).count, TlvOf(k).bytes>>

\* The fields that the sender sets.
Chosen == {k \in Fields(Ei): Ei[k].tlv \in Optional(Ei) => Ei[k].tlv \in opts}

\* The TLVs that only a newer peer knows.
Strays == [tlv: Unknown, count: {1}, width: {0}, bytes: {1}]

\* A message that is on its way is one of the tables.
Composed ==
    phase # "idle" =>
        /\ msg \in DOMAIN Messages
        /\ fill \in {"none", "one", "full"}

\* What was used and what the rest of the table needs is together no more than
\* the table needs.
RoomLeft ==
    phase = "encoding" =>
        /\ pos \in 1..(Len(Ei) + 1)
        /\ room \in Nat
        /\ Messages[msg].len - room + Need(Ei)[pos] <= Need(Ei)[1]

\* The length of an array was coded just before it, and the sender is inside an
\* optional field only if that is set.
InPlace ==
    phase = "encoding" /\ pos \in DOMAIN Ei =>
        /\ Ei[pos].kind = "items" /\ Ei[pos].array = "var" => count = Filled(Ei[pos].n)
        /\ Ei[pos].kind # "flag" /\ Ei[pos].tlv \in Optional(Ei) => Ei[pos].tlv \in opts

\* The sender has encoded all fields behind it, and none that is not set.
Encoded ==
    phase = "encoding" =>
        /\ got = {}
        /\ wire \in Seq({TlvOf(k): k \in Chosen})
        /\ \A k \in Chosen: k < pos => TlvOf(k) \in Range(wire)

\* Every field that was set is decoded or still under way, and nothing else is but
\* what a newer peer has added.
OnItsWay ==
    phase = "sent" =>
        /\ room \in Nat /\ Messages[msg].len - room <= Need(Ei)[1]
        /\ wire \in Seq({TlvOf(k): k \in Chosen} \cup Strays)
        /\ got \subseteq {FieldOf(k): k \in Chosen}
        /\ \A k \in Chosen: FieldOf(k) \in got \/ TlvOf(k) \in Range(wire)

\* A message that was read is the one that was sent.
Arrived == phase = "read" => got = {FieldOf(k): k \in Chosen}

\* The inductive invariant of an exchange.
ExchangeInv ==
    /\ phase \in {"idle", "encoding", "sent", "read"}
    /\ phase = "idle" => wire = <<>> /\ got = {}
    /\ Composed /\ RoomLeft /\ InPlace /\ Encoded /\ OnItsWay /\ Arrived

-----------------------------------------------------------------------------
\* What a sound table has, by itself ...
LEMMA TableOf ==
    ASSUME NEW m, SoundMessage(m)
    PROVE  /\ Len(m.ei) \in Nat /\ DOMAIN m.ei = 1..Len(m.ei)
           /\ \A k \in DOMAIN m.ei: SoundElement(m.ei, k)
           /\ SoundTypes(m.ei)
           /\ Need(m.ei) \in [1..(Len(m.ei) + 1) -> Nat]
           /\ m.len \in Nat
  BY DEF SoundMessage, SoundLengths

\* ... and for the message that is on its way.
LEMMA Table ==
    ASSUME SoundMessage(Messages[msg])
    PROVE  /\ Len(Ei) \in Nat /\ DOMAIN Ei = 1..Len(Ei)
           /\ \A k \in DOMAIN Ei: SoundElement(Ei, k)
           /\ SoundTypes(Ei)
           /\ Need(Ei) \in [1..(Len(Ei) + 1) -> Nat]
           /\ \A k \in DOMAIN Ei: LongestTlv(Ei, k) + Need(Ei)[k + 1] <= Need(Ei)[k]
           /\ \A j, k \in 1..(Len(Ei) + 1): j <= k => Need(Ei)[k] <= Need(Ei)[j]
           /\ Messages[msg].len \in Nat /\ Need(Ei)[1] <= Messages[msg].len
           /\ TablesFor(Messages[msg]) = {Ei}
  BY DEF SoundMessage, SoundLengths, Ei

\* What a sequence holds after it grew, and without its head.
LEMMA RangeOf ==
    ASSUME NEW S, NEW s \in Seq(S)
    PROVE  /\ \A x: Range(Append(s, x)) = Range(s) \cup {x}
           /\ s # <<>> => Range(s) = {Head(s)} \cup Range(Tail(s))
           /\ \A t \in Seq(S): Range(s) \subseteq Range(s \o t)
  <1>1. ASSUME NEW x
        PROVE  Range(Append(s, x)) = Range(s) \cup {x}
    BY DEF Range
  <1>2. ASSUME s # <<>>
        PROVE  Range(s) = {Head(s)} \cup Range(Tail(s))
    <2>1. Len(s) \in Nat \ {0} /\ DOMAIN s = 1..Len(s) /\ DOMAIN Tail(s) = 1..(Len(s) - 1)
      BY <1>2
    <2>2. \A i \in 1..(Len(s) - 1): Tail(s)[i] = s[i + 1]
      BY <1>2
    <2>3. ASSUME NEW i \in DOMAIN s
          PROVE  s[i] \in {Head(s)} \cup Range(Tail(s))
      <3>1. CASE i = 1
        BY <3>1, <1>2
      <3>2. CASE i # 1
        <4>1. i - 1 \in 1..(Len(s) - 1) /\ Tail(s)[i - 1] = s[i]
          BY <3>2, <2>1, <2>2
        <4> QED
          BY <4>1, <2>1 DEF Range
      <3> QED
        BY <3>1, <3>2
    <2>4. Head(s) \in Range(s)
      BY <2>1 DEF Range
    <2>5. Range(Tail(s)) \subseteq Range(s)
      BY <2>1, <2>2 DEF Range
    <2> QED
      BY <2>3, <2>4, <2>5 DEF Range
  <1>3. ASSUME NEW t \in Seq(S)
        PROVE  Range(s) \subseteq Range(s \o t)
    <2>1. \A i \in DOMAIN s: i \in DOMAIN (s \o t) /\ (s \o t)[i] = s[i]
      OBVIOUS
    <2> QED
      BY <2>1 DEF Range
  <1> QED
    BY <1>1, <1>2, <1>3

\* A field, as the sender encodes it, takes no more than its table allows.
LEMMA TlvFits ==
    ASSUME SoundMessage(Messages[msg]), fill \in {"none", "one", "full"},
           NEW k \in Fields(Ei)
    PROVE  /\ TlvOf(k).width \in Nat /\ TlvOf(k).bytes \in Nat
           /\ 3 + TlvOf(k).width + TlvOf(k).bytes <= LongestTlv(Ei, k)
           /\ LongestTlv(Ei, k) \in Nat
           /\ WellFormed(TlvOf(k), Ei, k)
  <1>1. k \in DOMAIN Ei /\ Ei[k].kind \in {"items", "string"} /\ SoundElement(Ei, k)
    BY Table DEF Fields
  <1>2. CASE Ei[k].kind = "string"
    <2>1. Ei[k].n \in Nat /\ Ei[k].n - 1 \in Nat \ {0}
      BY <1>1, <1>2 DEF SoundElement
    <2>2. Filled(Ei[k].n - 1) \in 0..(Ei[k].n - 1)
      BY <2>1, FilledIs
    <2>3. TlvOf(k).width = 0 /\ TlvOf(k).bytes = Filled(Ei[k].n - 1)
      BY <1>2 DEF TlvOf
    <2>4. LongestTlv(Ei, k) = 3 + (Ei[k].n - 1)
      BY <1>2 DEF LongestTlv
    <2>5. TlvOf(k).bytes \in Nat /\ TlvOf(k).bytes <= Ei[k].n - 1
      BY <2>1, <2>2, <2>3
    <2>6. WellFormed(TlvOf(k), Ei, k)
      BY <2>1, <2>3, <2>5, <1>2 DEF WellFormed
    <2>7. 3 + TlvOf(k).width + TlvOf(k).bytes <= LongestTlv(Ei, k)
      BY <2>1, <2>3, <2>4, <2>5
    <2>8. LongestTlv(Ei, k) \in Nat
      BY <2>1, <2>4
    <2> QED
      BY <2>3, <2>5, <2>6, <2>7, <2>8
  <1>3. CASE Ei[k].kind = "items"
    <2> DEFINE e == Ei[k]
    <2>1. /\ e.n \in Nat \ {0} /\ e.least \in Nat /\ e.most \in Nat /\ e.least <= e.most
          /\ e.array = "var" => k > 1 /\ Ei[k - 1].kind = "len"
      BY <1>1, <1>3 DEF SoundElement
    <2>2. ItemSize(e) \in Nat /\ e.least <= ItemSize(e) /\ ItemSize(e) <= e.most
      BY <2>1 DEF ItemSize
    <2>3. /\ TlvOf(k).count \in Nat /\ TlvOf(k).count <= e.n
          /\ e.array # "var" => TlvOf(k).count = e.n
      BY <2>1, FilledIs, <1>3 DEF TlvOf
    <2>4. TlvOf(k).width = (IF e.array = "var" THEN Ei[k - 1].width ELSE 0)
      BY <1>3 DEF TlvOf
    <2>5. TlvOf(k).width \in Nat
      <3>1. CASE e.array = "var"
        <4>1. k - 1 \in DOMAIN Ei
          BY <3>1, <2>1, <1>1, Table
        <4>2. SoundElement(Ei, k - 1)
          BY <4>1, Table
        <4> QED
          BY <4>2, <3>1, <2>1, <2>4 DEF SoundElement
      <3>2. CASE e.array # "var"
        BY <3>2, <2>4
      <3> QED
        BY <3>1, <3>2
    <2>6. TlvOf(k).bytes = TlvOf(k).count * ItemSize(e)
      BY <1>3 DEF TlvOf
    <2>7. /\ TlvOf(k).bytes \in Nat
          /\ TlvOf(k).count * e.least \in Nat /\ TlvOf(k).count * e.least <= TlvOf(k).bytes
          /\ TlvOf(k).count * e.most \in Nat /\ TlvOf(k).bytes <= TlvOf(k).count * e.most
          /\ e.n * e.most \in Nat /\ TlvOf(k).bytes <= e.n * e.most
      <3>1. TlvOf(k).count * e.least <= TlvOf(k).count * ItemSize(e)
        BY <2>1, <2>2, <2>3, Products
      <3>2. TlvOf(k).count * ItemSize(e) <= TlvOf(k).count * e.most
        BY <2>1, <2>2, <2>3, Products
      <3>3. TlvOf(k).count * ItemSize(e) <= e.n * e.most
        BY <2>1, <2>2, <2>3, Products
      <3>4. /\ TlvOf(k).count * e.least \in Nat /\ TlvOf(k).count * ItemSize(e) \in Nat
            /\ TlvOf(k).count * e.most \in Nat /\ e.n * e.most \in Nat
        BY <2>1, <2>2, <2>3
      <3> QED
        BY <3>1, <3>2, <3>3, <3>4, <2>6
    <2>8. LongestTlv(Ei, k) = 3 + TlvOf(k).width + e.n * e.most
      BY <1>3, <2>4 DEF LongestTlv
    <2>9. WellFormed(TlvOf(k), Ei, k)
      BY <1>3, <2>3, <2>4, <2>7 DEF WellFormed
    <2> HIDE DEF e
    <2> QED
      BY <2>5, <2>7, <2>8, <2>9
  <1> QED
    BY <1>1, <1>2, <1>3

-----------------------------------------------------------------------------
\* While the message is the same, so is what its fields are.
LEMMA SameMessage ==
    ASSUME UNCHANGED message
    PROVE  /\ Ei' = Ei /\ Chosen' = Chosen /\ Messages[msg]' = Messages[msg]
           /\ \A k: TlvOf(k)' = TlvOf(k) /\ FieldOf(k)' = FieldOf(k)
  BY DEF message, Ei, Chosen, TlvOf, FieldOf, Filled, ItemSize

\* The table of the message that is on its way is sound.
Sound == SoundMessage(Messages[msg])

\* A field k has been encoded and the sender goes on behind it.
LEMMA FieldEncoded ==
    ASSUME ExchangeInv, Sound, phase = "encoding", pos \in DOMAIN Ei,
           NEW k \in Chosen, k \in {pos, pos + 1},
           \A j \in Chosen: j <= k => j < pos \/ j = k,
           Emit(TlvOf(k).tlv, TlvOf(k).count, TlvOf(k).width, TlvOf(k).bytes),
           pos' = k + 1, UNCHANGED <<message, got>>
    PROVE  phase' = "encoding" /\ RoomLeft' /\ Encoded'
  <1>1. /\ Len(Ei) \in Nat /\ DOMAIN Ei = 1..Len(Ei)
        /\ Need(Ei) \in [1..(Len(Ei) + 1) -> Nat]
        /\ Messages[msg].len \in Nat /\ Need(Ei)[1] <= Messages[msg].len
    BY Table DEF Sound
  <1>2. k \in Fields(Ei) /\ k \in 1..Len(Ei) /\ k + 1 \in 1..(Len(Ei) + 1)
    BY <1>1 DEF Chosen, Fields
  <1>3. fill \in {"none", "one", "full"}
    BY DEF ExchangeInv, Composed
  <1>4. /\ TlvOf(k).width \in Nat /\ TlvOf(k).bytes \in Nat
        /\ 3 + TlvOf(k).width + TlvOf(k).bytes <= LongestTlv(Ei, k)
        /\ LongestTlv(Ei, k) \in Nat
    BY <1>2, <1>3, TlvFits DEF Sound
  <1>5. /\ room \in Nat /\ pos \in 1..(Len(Ei) + 1)
        /\ Messages[msg].len - room + Need(Ei)[pos] <= Need(Ei)[1]
    BY DEF ExchangeInv, RoomLeft
  <1>6. /\ LongestTlv(Ei, k) + Need(Ei)[k + 1] <= Need(Ei)[k]
        /\ Need(Ei)[k] <= Need(Ei)[pos]
    <2>1. pos <= k
      BY <1>5
    <2> QED
      BY <1>1, <1>2, <1>5, <2>1, Table DEF Sound
  <1>7. /\ Need(Ei)[1] \in Nat /\ Need(Ei)[k] \in Nat /\ Need(Ei)[k + 1] \in Nat
        /\ Need(Ei)[pos] \in Nat
    BY <1>1, <1>2, <1>5
  <1> DEFINE taken == 3 + TlvOf(k).width + TlvOf(k).bytes
  <1>8. taken \in Nat
    BY <1>4
  <1>8a. /\ taken <= room
         /\ Messages[msg].len - (room - taken) + Need(Ei)[k + 1] <= Need(Ei)[1]
    <2> HIDE DEF taken
    <2>1. taken <= LongestTlv(Ei, k)
      BY <1>4 DEF taken
    <2> DEFINE len   == Messages[msg].len
               all   == Need(Ei)[1]
               from  == Need(Ei)[pos]
               after == Need(Ei)[k + 1]
    <2>2. taken + after <= from
      BY <1>4, <1>6, <1>7, <1>8, <2>1
    <2>3. /\ len \in Nat /\ all \in Nat /\ from \in Nat /\ after \in Nat /\ room \in Nat
          /\ all <= len /\ len - room + from <= all
      BY <1>1, <1>5, <1>7
    <2> HIDE DEF len, all, from, after
    <2>4. taken <= room /\ len - (room - taken) + after <= all
      BY <1>8, <2>2, <2>3
    <2> QED
      BY <2>4 DEF len, all, from, after
  <1>9. /\ room' = room - taken /\ phase' = phase
        /\ wire' = Append(wire, [tlv |-> TlvOf(k).tlv, count |-> TlvOf(k).count,
                                 width |-> TlvOf(k).width, bytes |-> TlvOf(k).bytes])
    <2>1. ~ (3 + TlvOf(k).width + TlvOf(k).bytes > room)
      BY <1>5, <1>8, <1>8a
    <2> QED
      BY <2>1 DEF Emit
  <1>10. wire' = Append(wire, TlvOf(k))
    BY <1>9 DEF TlvOf
  <1>11. RoomLeft'
    <2>1. room' \in Nat /\ Messages[msg].len - room' + Need(Ei)[k + 1] <= Need(Ei)[1]
      BY <1>5, <1>8, <1>8a, <1>9
    <2> QED
      BY <2>1, <1>2, SameMessage DEF RoomLeft
  <1>12. Encoded'
    <2>1. /\ got = {} /\ wire \in Seq({TlvOf(j): j \in Chosen})
          /\ \A j \in Chosen: j < pos => TlvOf(j) \in Range(wire)
      BY DEF ExchangeInv, Encoded
    <2>2. wire' \in Seq({TlvOf(j): j \in Chosen})
      BY <2>1, <1>10
    <2>3. Range(wire') = Range(wire) \cup {TlvOf(k)}
      BY <2>1, <1>10, RangeOf
    <2>4. \A j \in Chosen: j < pos' => j <= k
      BY <1>1, <1>2 DEF Chosen, Fields
    <2>5. \A j \in Chosen: j < pos' => TlvOf(j) \in Range(wire')
      BY <2>1, <2>3, <2>4
    <2> QED
      BY <2>1, <2>2, <2>5, SameMessage DEF Encoded
  <1> QED
    BY <1>9, <1>11, <1>12

\* The elements up to k have been passed over; none of them is a field to send.
LEMMA PassedOver ==
    ASSUME ExchangeInv, Sound, phase = "encoding", pos \in DOMAIN Ei,
           pos' \in (pos + 1)..(Len(Ei) + 1),
           \A j \in Chosen: j < pos' => j < pos,
           UNCHANGED <<phase, message, room, wire, got>>
    PROVE  RoomLeft' /\ Encoded'
  <1>1. Messages[msg].len \in Nat /\ Need(Ei) \in [1..(Len(Ei) + 1) -> Nat] /\ Len(Ei) \in Nat
    BY Table DEF Sound
  <1>2. /\ room \in Nat /\ pos \in 1..(Len(Ei) + 1)
        /\ Messages[msg].len - room + Need(Ei)[pos] <= Need(Ei)[1]
    BY DEF ExchangeInv, RoomLeft
  <1>3. Need(Ei)[pos'] <= Need(Ei)[pos] /\ pos' \in 1..(Len(Ei) + 1)
    <2>1. pos <= pos' /\ pos' \in 1..(Len(Ei) + 1)
      BY <1>1, <1>2
    <2> QED
      BY <1>2, <2>1, Table DEF Sound
  <1>4. Messages[msg].len - room + Need(Ei)[pos'] <= Need(Ei)[1]
    <2>1. Need(Ei)[pos'] \in Nat /\ Need(Ei)[pos] \in Nat /\ Need(Ei)[1] \in Nat
      BY <1>1, <1>2, <1>3
    <2> QED
      BY <1>1, <1>2, <1>3, <2>1
  <1>5. RoomLeft'
    BY <1>2, <1>3, <1>4, SameMessage DEF RoomLeft
  <1>6. Encoded'
    BY SameMessage DEF ExchangeInv, Encoded
  <1> QED
    BY <1>5, <1>6

\* What is at the place behind an element that is not skipped.
LEMMA NextElement ==
    ASSUME ExchangeInv, Sound, phase = "encoding", pos \in DOMAIN Ei,
           Ei[pos].kind = "flag" => Ei[pos].tlv \in opts,
           pos + 1 \in DOMAIN Ei
    PROVE  /\ Ei[pos + 1].kind = "items" /\ Ei[pos + 1].array = "var" => Ei[pos].kind = "len"
           /\ Ei[pos + 1].kind # "flag" /\ Ei[pos + 1].tlv \in Optional(Ei) =>
                  Ei[pos + 1].tlv \in opts
  <1>1. SoundElement(Ei, pos + 1) /\ SoundTypes(Ei) /\ pos \in Nat /\ (pos + 1) - 1 = pos
    BY Table DEF Sound
  <1>2. ASSUME Ei[pos + 1].kind # "flag", Ei[pos + 1].tlv \in Optional(Ei)
        PROVE  Ei[pos + 1].tlv \in opts
    <2>1. Ei[pos].tlv = Ei[pos + 1].tlv
      BY <1>1, <1>2 DEF SoundTypes
    <2> QED
      BY <2>1, <1>2 DEF ExchangeInv, InPlace
  <1> QED
    BY <1>1, <1>2 DEF SoundElement

\* The field at pos is meant to be sent.
LEMMA HereIsChosen ==
    ASSUME ExchangeInv, phase = "encoding", pos \in DOMAIN Ei,
           Ei[pos].kind \in {"items", "string"}
    PROVE  pos \in Chosen
  BY DEF ExchangeInv, InPlace, Chosen, Fields

-----------------------------------------------------------------------------
\* The invariant holds when a message is composed, ...
LEMMA StepCompose ==
    ASSUME ExchangeInv, TableIsSound', Compose
    PROVE  ExchangeInv'
  <1> DEFINE m == Messages[msg']
  <1>1. /\ phase = "idle" /\ phase' = "encoding" /\ msg' \in DOMAIN Messages
        /\ fill' \in {"none", "one", "full"} /\ room' = m.len /\ pos' = 1
        /\ wire' = <<>> /\ got' = {}
    BY ExchangeAssumption DEF Compose, ExchangeInv
  <1>2. SoundMessage(m)
    BY <1>1 DEF TableIsSound
  <1>3. Ei' = m.ei
    BY DEF Ei
  <1>4. /\ Len(m.ei) \in Nat /\ DOMAIN m.ei = 1..Len(m.ei)
        /\ \A k \in DOMAIN m.ei: SoundElement(m.ei, k)
        /\ SoundTypes(m.ei)
        /\ Need(m.ei) \in [1..(Len(m.ei) + 1) -> Nat]
        /\ m.len \in Nat
    <2> HIDE DEF m
    <2> QED
      BY <1>2, TableOf
  <1>5. RoomLeft'
    <2>1. 1 \in 1..(Len(m.ei) + 1) /\ Need(m.ei)[1] \in Nat
      BY <1>4
    <2>2. m.len - m.len + Need(m.ei)[1] = Need(m.ei)[1]
      BY <1>4, <2>1
    <2> QED
      BY <1>1, <1>3, <1>4, <2>1, <2>2 DEF RoomLeft
  <1>6. InPlace'
    BY <1>1, <1>3, <1>4 DEF InPlace, SoundElement, SoundTypes
  <1>7. Encoded'
    <2>1. <<>> \in Seq({TlvOf(k)': k \in Chosen'})
      OBVIOUS
    <2>2. \A k \in Chosen': ~ (k < 1)
      BY <1>3, <1>4 DEF Chosen, Fields
    <2> QED
      BY <1>1, <2>1, <2>2 DEF Encoded
  <1> QED
    BY <1>1, <1>5, <1>6, <1>7 DEF ExchangeInv, Composed, OnItsWay, Arrived

\* ... when a field that is not set is skipped, ...
LEMMA StepSkipField ==
    ASSUME ExchangeInv, Sound, SkipField
    PROVE  ExchangeInv'
  <1> DEFINE later == {k \in DOMAIN Ei: k > pos /\ Ei[k].tlv # Ei[pos].tlv}
  <1>1. /\ phase = "encoding" /\ pos \in DOMAIN Ei
        /\ Ei[pos].kind = "flag" /\ Ei[pos].tlv \notin opts
        /\ pos' = IF later = {} THEN Len(Ei) + 1 ELSE Min(later)
        /\ UNCHANGED <<phase, message, count, room, wire, got>>
    BY DEF SkipField
  <1>2. /\ Len(Ei) \in Nat /\ DOMAIN Ei = 1..Len(Ei) /\ SoundTypes(Ei)
        /\ \A k \in DOMAIN Ei: SoundElement(Ei, k)
    BY Table DEF Sound
  <1>3. /\ pos' \in (pos + 1)..(Len(Ei) + 1)
        /\ \A k \in DOMAIN Ei: pos <= k /\ k < pos' => Ei[k].tlv = Ei[pos].tlv
        /\ pos' \in DOMAIN Ei => Ei[pos'].tlv # Ei[pos].tlv
    <2>1. CASE later = {}
      BY <1>1, <1>2, <2>1
    <2>2. CASE later # {}
      <3>1. later \subseteq Nat
        BY <1>2
      <3>2. pos' \in later /\ \A k \in later: pos' <= k
        <4> HIDE DEF later
        <4> QED
          BY <1>1, <2>2, <3>1, MinIs
      <3>3. pos' \in DOMAIN Ei /\ pos' > pos /\ Ei[pos'].tlv # Ei[pos].tlv
        BY <3>2
      <3>4. ASSUME NEW k \in DOMAIN Ei, pos <= k, k < pos'
            PROVE  Ei[k].tlv = Ei[pos].tlv
        <4>1. k = pos \/ k > pos
          BY <1>1, <1>2, <3>4
        <4>2. k > pos => k \in later \/ Ei[k].tlv = Ei[pos].tlv
          OBVIOUS
        <4>3. k \notin later
          BY <1>2, <3>2, <3>3, <3>4
        <4> QED
          BY <4>1, <4>2, <4>3
      <3>5. pos' \in (pos + 1)..(Len(Ei) + 1)
        BY <1>1, <1>2, <3>3
      <3> QED
        BY <3>3, <3>4, <3>5
    <2> QED
      BY <2>1, <2>2
  <1>4. Ei[pos].tlv \in Optional(Ei)
    BY <1>1 DEF Optional, Range
  <1>5. \A j \in Chosen: j < pos' => j < pos
    BY <1>1, <1>2, <1>3, <1>4 DEF Chosen, Fields
  <1>6. RoomLeft' /\ Encoded'
    BY <1>1, <1>3, <1>5, PassedOver
  <1>7. InPlace'
    <2> SUFFICES ASSUME pos' \in DOMAIN Ei
                 PROVE  /\ ~ (Ei[pos'].kind = "items" /\ Ei[pos'].array = "var")
                        /\ ~ (Ei[pos'].kind # "flag" /\ Ei[pos'].tlv \in Optional(Ei))
      BY <1>1, SameMessage DEF InPlace
    <2>1. /\ pos' - 1 \in DOMAIN Ei /\ (pos' - 1) + 1 = pos' /\ pos' > 1
          /\ pos <= pos' - 1 /\ pos' - 1 < pos'
      BY <1>1, <1>2, <1>3
    <2>2. Ei[pos' - 1].tlv # Ei[pos'].tlv
      BY <1>1, <1>2, <1>3, <2>1
    <2>3. SoundElement(Ei, pos') /\ SoundElement(Ei, pos' - 1)
      BY <1>2, <2>1
    <2>4. ~ (Ei[pos'].kind = "items" /\ Ei[pos'].array = "var")
      BY <2>1, <2>2, <2>3 DEF SoundElement
    <2> QED
      BY <1>2, <2>2, <2>4 DEF SoundTypes
  <1> QED
    BY <1>1, <1>6, <1>7, SameMessage DEF ExchangeInv, Composed, OnItsWay, Arrived, message

\* ... at the flag of one that is set, ...
LEMMA StepEncodeFlag ==
    ASSUME ExchangeInv, Sound, EncodeFlag
    PROVE  ExchangeInv'
  <1>1. /\ phase = "encoding" /\ pos \in DOMAIN Ei
        /\ Ei[pos].kind = "flag" /\ Ei[pos].tlv \in opts /\ pos' = pos + 1
        /\ UNCHANGED <<phase, message, count, room, wire, got>>
    BY DEF EncodeFlag
  <1>2. Len(Ei) \in Nat /\ DOMAIN Ei = 1..Len(Ei)
    BY Table DEF Sound
  <1>3. RoomLeft' /\ Encoded'
    <2>1. \A j \in Chosen: j < pos' => j < pos
      BY <1>1, <1>2 DEF Chosen, Fields
    <2>2. pos' \in (pos + 1)..(Len(Ei) + 1)
      BY <1>1, <1>2
    <2> QED
      BY <1>1, <2>1, <2>2, PassedOver
  <1>4. InPlace'
    BY <1>1, NextElement, SameMessage DEF InPlace, message
  <1> QED
    BY <1>1, <1>3, <1>4, SameMessage DEF ExchangeInv, Composed, OnItsWay, Arrived, message

\* ... when the length of an array is coded, which fits its width, ...
LEMMA StepEncodeLen ==
    ASSUME ExchangeInv, Sound, EncodeLen
    PROVE  ExchangeInv'
  <1> DEFINE e == Ei[pos + 1]
             n == Filled(e.n) % (256 ^ Ei[pos].width)
  <1>1. /\ phase = "encoding" /\ pos \in DOMAIN Ei /\ Ei[pos].kind = "len"
        /\ count' = n
        /\ IF count' = 0
              THEN Emit(Ei[pos].tlv, 0, Ei[pos].width, 0) /\ pos' = pos + 2
              ELSE pos' = pos + 1 /\ UNCHANGED <<phase, room, wire>>
        /\ UNCHANGED <<message, got>>
    BY DEF EncodeLen
  <1>2. /\ Len(Ei) \in Nat /\ DOMAIN Ei = 1..Len(Ei) /\ SoundTypes(Ei)
        /\ \A k \in DOMAIN Ei: SoundElement(Ei, k)
    BY Table DEF Sound
  <1>3. /\ pos + 1 \in DOMAIN Ei /\ e.tlv = Ei[pos].tlv
        /\ e.kind = "items" /\ e.array = "var"
        /\ Ei[pos].width \in Nat /\ 256 ^ Ei[pos].width \in Nat
        /\ e.n < 256 ^ Ei[pos].width
    BY <1>1, <1>2 DEF SoundElement
  <1>4. /\ e.n \in Nat \ {0} /\ e.least \in Nat /\ e.most \in Nat
        /\ fill \in {"none", "one", "full"}
    BY <1>1, <1>2, <1>3 DEF SoundElement, ExchangeInv, Composed
  <1>5. n = Filled(e.n)
    <2> DEFINE span == 256 ^ Ei[pos].width
    <2>1. span \in Nat /\ e.n < span
      BY <1>3
    <2>2. Filled(e.n) \in 0..e.n
      BY <1>4, FilledIs
    <2>3. Filled(e.n) \in Nat /\ Filled(e.n) < span
      <3> HIDE DEF span, e
      <3> QED
        BY <1>4, <2>1, <2>2
    <2>4. Filled(e.n) % span = Filled(e.n)
      <3> HIDE DEF span, e
      <3> QED
        BY <2>1, <2>3, LengthKept
    <2> QED
      BY <2>4
  <1>6. pos + 1 \in Chosen /\ pos \notin Fields(Ei) /\ pos \in Nat
    <2>1. pos + 1 \in Fields(Ei)
      BY <1>3 DEF Fields
    <2>2. Ei[pos].kind = "flag" => Ei[pos].tlv \in opts
      BY <1>1
    <2>3. Ei[pos + 1].tlv \in Optional(Ei) => Ei[pos + 1].tlv \in opts
      BY <1>1, <1>3, <2>2, NextElement
    <2> QED
      BY <1>1, <1>2, <2>1, <2>3 DEF Chosen, Fields
  <1>7. CASE count' = 0
    <2>1. /\ TlvOf(pos + 1).tlv = Ei[pos].tlv /\ TlvOf(pos + 1).count = 0
          /\ TlvOf(pos + 1).width = Ei[pos].width /\ TlvOf(pos + 1).bytes = 0
      <3>1. Filled(e.n) = 0 /\ (pos + 1) - 1 = pos
        BY <1>1, <1>5, <1>6, <1>7
      <3>2. 0 * ItemSize(e) = 0
        <4>1. ItemSize(e) \in Nat
          BY <1>4 DEF ItemSize
        <4> QED
          BY <4>1
      <3> QED
        BY <1>3, <3>1, <3>2 DEF TlvOf
    <2>2. Emit(TlvOf(pos + 1).tlv, TlvOf(pos + 1).count, TlvOf(pos + 1).width,
               TlvOf(pos + 1).bytes)
      BY <1>1, <1>7, <2>1
    <2>3. pos' = (pos + 1) + 1
      BY <1>1, <1>6, <1>7
    <2>4. \A j \in Chosen: j <= pos + 1 => j < pos \/ j = pos + 1
      BY <1>2, <1>6 DEF Chosen, Fields
    <2>5. phase' = "encoding" /\ RoomLeft' /\ Encoded'
      BY <1>1, <1>6, <2>2, <2>3, <2>4, FieldEncoded
    <2>6. InPlace'
      <3> SUFFICES ASSUME pos' \in DOMAIN Ei
                   PROVE  /\ ~ (Ei[pos'].kind = "items" /\ Ei[pos'].array = "var")
                          /\ Ei[pos'].kind # "flag" /\ Ei[pos'].tlv \in Optional(Ei) =>
                                 Ei[pos'].tlv \in opts
        BY <1>1, SameMessage DEF InPlace, message
      <3>1. pos' - 1 = pos + 1 /\ SoundElement(Ei, pos')
        BY <1>2, <1>6, <2>3
      <3>2. ~ (Ei[pos'].kind = "items" /\ Ei[pos'].array = "var")
        BY <1>3, <3>1 DEF SoundElement
      <3>3. ASSUME Ei[pos'].kind # "flag", Ei[pos'].tlv \in Optional(Ei)
            PROVE  Ei[pos'].tlv \in opts
        <4>1. Ei[pos'].tlv = Ei[pos + 1].tlv
          BY <1>2, <3>1, <3>3 DEF SoundTypes
        <4> QED
          BY <1>6, <3>3, <4>1 DEF Chosen
      <3> QED
        BY <3>2, <3>3
    <2> QED
      BY <1>1, <2>5, <2>6, SameMessage DEF ExchangeInv, Composed, OnItsWay, Arrived, message
  <1>8. CASE count' # 0
    <2>1. pos' = pos + 1 /\ UNCHANGED <<phase, message, room, wire, got>>
      BY <1>1, <1>8
    <2>2. RoomLeft' /\ Encoded'
      <3>1. \A j \in Chosen: j < pos' => j < pos
        BY <1>2, <1>6, <2>1 DEF Chosen, Fields
      <3>2. pos' \in (pos + 1)..(Len(Ei) + 1)
        BY <1>2, <1>3, <1>6, <2>1
      <3> QED
        BY <1>1, <2>1, <3>1, <3>2, PassedOver
    <2>3. InPlace'
      <3>1. count' = Filled(Ei[pos'].n)
        BY <1>1, <1>5, <2>1
      <3>3. Ei[pos'].tlv \in Optional(Ei) => Ei[pos'].tlv \in opts
        BY <1>6, <2>1 DEF Chosen
      <3> QED
        BY <2>1, <3>1, <3>3, SameMessage DEF InPlace, message, Filled
    <2> QED
      BY <1>1, <2>1, <2>2, <2>3, SameMessage DEF ExchangeInv, Composed, OnItsWay, Arrived, message
  <1> QED
    BY <1>7, <1>8

\* Behind a field that has no length before it the sender is in place again.
LEMMA BehindField ==
    ASSUME ExchangeInv, Sound, phase = "encoding", pos \in DOMAIN Ei,
           Ei[pos].kind \in {"items", "string"},
           Emit(TlvOf(pos).tlv, TlvOf(pos).count, TlvOf(pos).width, TlvOf(pos).bytes),
           pos' = pos + 1, UNCHANGED <<message, got>>
    PROVE  ExchangeInv'
  <1>1. Len(Ei) \in Nat /\ DOMAIN Ei = 1..Len(Ei)
    BY Table DEF Sound
  <1>2. pos \in Chosen
    BY HereIsChosen
  <1>3. \A j \in Chosen: j <= pos => j < pos \/ j = pos
    BY <1>1 DEF Chosen, Fields
  <1>4. phase' = "encoding" /\ RoomLeft' /\ Encoded'
    BY <1>2, <1>3, FieldEncoded
  <1>5. InPlace'
    BY NextElement, SameMessage DEF InPlace, message
  <1> QED
    BY <1>4, <1>5, SameMessage DEF ExchangeInv, Composed, OnItsWay, Arrived, message

\* ... when items ...
LEMMA StepEncodeItems ==
    ASSUME ExchangeInv, Sound, EncodeItems
    PROVE  ExchangeInv'
  <1> DEFINE e == Ei[pos]
             n == IF e.array = "var" THEN count ELSE e.n
             width == IF e.array = "var" THEN Ei[pos - 1].width ELSE 0
  <1>1. /\ phase = "encoding" /\ pos \in DOMAIN Ei /\ Ei[pos].kind = "items"
        /\ Emit(e.tlv, n, width, n * ItemSize(e))
        /\ pos' = pos + 1 /\ UNCHANGED <<message, got>>
    BY DEF EncodeItems
  <1>2. e.array = "var" => count = Filled(e.n)
    BY <1>1 DEF ExchangeInv, InPlace
  <1>3. /\ TlvOf(pos).tlv = e.tlv /\ TlvOf(pos).count = n
        /\ TlvOf(pos).width = width /\ TlvOf(pos).bytes = n * ItemSize(e)
    BY <1>1, <1>2 DEF TlvOf
  <1> HIDE DEF e, n, width
  <1>4. Emit(TlvOf(pos).tlv, TlvOf(pos).count, TlvOf(pos).width, TlvOf(pos).bytes)
    BY <1>1, <1>3
  <1> QED
    BY <1>1, <1>4, BehindField

\* ... or a string are encoded, ...
LEMMA StepEncodeString ==
    ASSUME ExchangeInv, Sound, EncodeString
    PROVE  ExchangeInv'
  <1>1. /\ phase = "encoding" /\ pos \in DOMAIN Ei /\ Ei[pos].kind = "string"
        /\ Emit(Ei[pos].tlv, 1, 0, Filled(Ei[pos].n - 1))
        /\ pos' = pos + 1 /\ UNCHANGED <<message, got>>
    BY DEF EncodeString
  <1>2. /\ TlvOf(pos).tlv = Ei[pos].tlv /\ TlvOf(pos).count = 1
        /\ TlvOf(pos).width = 0 /\ TlvOf(pos).bytes = Filled(Ei[pos].n - 1)
    BY <1>1 DEF TlvOf
  <1>3. Emit(TlvOf(pos).tlv, TlvOf(pos).count, TlvOf(pos).width, TlvOf(pos).bytes)
    BY <1>1, <1>2
  <1> QED
    BY <1>1, <1>3, BehindField

\* ... when a newer peer adds its fields, ...
LEMMA StepSend ==
    ASSUME ExchangeInv, Sound, Send
    PROVE  ExchangeInv'
  <1>1. PICK more \in SUBSET Unknown:
            wire' = wire \o SetToSeq({[tlv |-> t, count |-> 1, width |-> 0, bytes |-> 1]: t \in more})
    BY DEF Send
  <1> DEFINE strays == {[tlv |-> t, count |-> 1, width |-> 0, bytes |-> 1]: t \in more}
             S == {TlvOf(k): k \in Chosen}
  <1>2. /\ phase = "encoding" /\ pos = Len(Ei) + 1 /\ phase' = "sent"
        /\ UNCHANGED <<message, pos, count, room, got>>
    BY DEF Send
  <1>3. /\ Len(Ei) \in Nat /\ DOMAIN Ei = 1..Len(Ei)
        /\ Need(Ei) \in [1..(Len(Ei) + 1) -> Nat]
        /\ Messages[msg].len \in Nat
    BY Table DEF Sound
  <1>4. room' \in Nat /\ Messages[msg].len - room' <= Need(Ei)[1]
    <2>1. Need(Ei)[pos] \in Nat /\ Need(Ei)[1] \in Nat
      BY <1>2, <1>3
    <2>2. room \in Nat /\ Messages[msg].len - room + Need(Ei)[pos] <= Need(Ei)[1]
      BY <1>2 DEF ExchangeInv, RoomLeft
    <2> DEFINE used == Messages[msg].len - room
               from == Need(Ei)[pos]
               all  == Need(Ei)[1]
    <2>3. used \in Int /\ from \in Nat /\ all \in Nat /\ used + from <= all
      BY <1>3, <2>1, <2>2
    <2>4. used <= all
      <3> HIDE DEF used, from, all
      <3> QED
        BY <2>3
    <2> QED
      BY <1>2, <2>2, <2>4
  <1>5. strays \subseteq Strays /\ IsFiniteSet(strays)
    <2>1. IsFiniteSet(more)
      BY ExchangeAssumption, FS_Subset
    <2> DEFINE f == [t \in more |-> [tlv |-> t, count |-> 1, width |-> 0, bytes |-> 1]]
    <2>2. f \in Surjection(more, strays)
      BY DEF Surjection
    <2>3. IsFiniteSet(strays)
      <3> HIDE DEF f, strays
      <3> QED
        BY <2>1, <2>2, FS_Surjection
    <2>4. strays \subseteq Strays
      BY DEF Strays
    <2> QED
      BY <2>3, <2>4
  <1>6. SetToSeq(strays) \in Seq(S \cup Strays)
    <2>1. SetToSeq(strays) \in Seq(strays)
      <3> HIDE DEF strays
      <3> QED
        BY <1>5, SetToSeqIs
    <2> HIDE DEF strays, S
    <2> QED
      BY <1>5, <2>1
  <1>7. /\ got = {} /\ wire \in Seq(S) /\ wire \in Seq(S \cup Strays)
        /\ \A k \in Chosen: TlvOf(k) \in Range(wire)
    <2>1. got = {} /\ wire \in Seq(S) /\ \A k \in Chosen: k < pos => TlvOf(k) \in Range(wire)
      BY <1>2 DEF ExchangeInv, Encoded
    <2>2. \A k \in Chosen: k < pos
      BY <1>2, <1>3 DEF Chosen, Fields
    <2>3. wire \in Seq(S \cup Strays)
      <3> HIDE DEF S
      <3> QED
        BY <2>1
    <2> QED
      BY <2>1, <2>2, <2>3
  <1>8. wire' \in Seq(S \cup Strays) /\ Range(wire) \subseteq Range(wire')
    <2>1. wire' = wire \o SetToSeq(strays)
      BY <1>1
    <2> HIDE DEF S, strays
    <2> QED
      BY <1>6, <1>7, <2>1, RangeOf
  <1>9. OnItsWay'
    <2>1. wire' \in Seq(S \cup Strays) /\ got' = {} /\ \A k \in Chosen: TlvOf(k) \in Range(wire')
      BY <1>2, <1>7, <1>8
    <2> QED
      BY <1>2, <1>4, <2>1, SameMessage DEF OnItsWay
  <1> QED
    BY <1>2, <1>9, SameMessage DEF ExchangeInv, Composed, RoomLeft, InPlace, Encoded, Arrived, message

\* ... when a TLV is decoded, by the field of its type, ...
LEMMA StepReceive ==
    ASSUME ExchangeInv, Sound, Receive
    PROVE  ExchangeInv'
  <1> DEFINE t == Head(wire)
             S == {TlvOf(k): k \in Chosen}
             own == {k \in Fields(Ei): Ei[k].tlv = t.tlv}
  <1>1. /\ phase = "sent" /\ wire # <<>> /\ wire' = Tail(wire)
        /\ Decode(t, Ei)
        /\ UNCHANGED <<message, pos, count, room>>
    BY Table DEF Receive, Sound
  <1>2. /\ DOMAIN Ei = 1..Len(Ei) /\ Len(Ei) \in Nat /\ SoundTypes(Ei)
        /\ msg \in DOMAIN Messages /\ fill \in {"none", "one", "full"}
    BY <1>1, Table DEF Sound, ExchangeInv, Composed
  <1>3. /\ room \in Nat /\ Messages[msg].len - room <= Need(Ei)[1]
        /\ wire \in Seq(S \cup Strays)
        /\ got \subseteq {FieldOf(k): k \in Chosen}
        /\ \A k \in Chosen: FieldOf(k) \in got \/ TlvOf(k) \in Range(wire)
    BY <1>1 DEF ExchangeInv, OnItsWay
  <1>4. /\ t \in S \cup Strays /\ wire' \in Seq(S \cup Strays)
        /\ Range(wire) = {t} \cup Range(wire')
    <2> DEFINE A == S \cup Strays
    <2> HIDE DEF A, S
    <2>1. wire \in Seq(A) /\ wire # <<>> /\ wire' = Tail(wire)
      BY <1>1, <1>3 DEF A
    <2>2. t \in A /\ wire' \in Seq(A)
      BY <2>1
    <2>3. Range(wire) = {t} \cup Range(wire')
      BY <2>1, RangeOf
    <2> QED
      BY <2>2, <2>3 DEF A
  <1>5. /\ phase' = "sent"
        /\ got' \subseteq {FieldOf(k): k \in Chosen}
        /\ \A k \in Chosen: FieldOf(k) \in got' \/ TlvOf(k) \in Range(wire')
    <2>1. CASE t \in S
      <3>1. PICK k \in Chosen: t = TlvOf(k)
        BY <2>1
      <3>2. k \in Fields(Ei) /\ t.tlv = Ei[k].tlv
        BY <3>1 DEF Chosen, TlvOf
      <3>3. own = {k}
        BY <1>2, <3>2 DEF SoundTypes
      <3>4. Min(own) = k
        <4>1. {k} \subseteq Nat /\ {k} # {}
          BY <1>2, <3>2 DEF Fields
        <4>2. Min({k}) \in {k}
          BY <4>1, MinIs
        <4> QED
          BY <3>3, <4>2
      <3>5. WellFormed(t, Ei, k)
        BY <1>2, <3>1, <3>2, TlvFits DEF Sound
      <3>6. own # {} /\ WellFormed(t, Ei, Min(own))
        <4> HIDE DEF own, t
        <4> QED
          BY <3>3, <3>4, <3>5
      <3>7. got' = got \cup {<<Min(own), t.count, t.bytes>>} /\ phase' = phase
        BY <1>1, <3>6 DEF Decode
      <3>8. got' = got \cup {FieldOf(k)}
        BY <3>1, <3>4, <3>7 DEF FieldOf
      <3>9. ASSUME NEW j \in Chosen, TlvOf(j) = t
            PROVE  j = k
        <4>1. j \in Fields(Ei) /\ Ei[j].tlv = Ei[k].tlv
          BY <3>2, <3>9 DEF Chosen, TlvOf
        <4> QED
          BY <1>2, <3>2, <4>1 DEF SoundTypes
      <3> QED
        BY <1>1, <1>3, <1>4, <3>7, <3>8, <3>9
    <2>2. CASE t \in Strays
      <3>1. t.tlv \in Unknown
        BY <2>2 DEF Strays
      <3>2. \A k \in DOMAIN Ei: Ei[k].tlv \notin Unknown
        BY <1>2, ExchangeAssumption DEF Ei, Range
      <3>3. own = {} /\ t.tlv >= 16
        BY <3>1, <3>2, ExchangeAssumption DEF Fields
      <3>4. phase' = phase /\ got' = got
        BY <1>1, <3>3 DEF Decode
      <3>5. \A k \in Chosen: TlvOf(k) # t
        BY <3>1, <3>2 DEF Chosen, Fields, TlvOf
      <3> QED
        BY <1>1, <1>3, <1>4, <3>4, <3>5
    <2> QED
      BY <1>4, <2>1, <2>2
  <1>6. OnItsWay'
    BY <1>1, <1>3, <1>4, <1>5, SameMessage DEF OnItsWay
  <1> QED
    BY <1>1, <1>5, <1>6, SameMessage
    DEF ExchangeInv, Composed, RoomLeft, InPlace, Encoded, Arrived, message

\* ... and when all have been.
LEMMA StepDeliver ==
    ASSUME ExchangeInv, Deliver
    PROVE  ExchangeInv'
  <1>1. /\ phase = "sent" /\ wire = <<>> /\ phase' = "read"
        /\ UNCHANGED <<message, pos, count, room, wire, got>>
    BY DEF Deliver
  <1>2. Range(wire) = {}
    BY <1>1 DEF Range
  <1>3. got = {FieldOf(k): k \in Chosen}
    BY <1>1, <1>2 DEF ExchangeInv, OnItsWay
  <1> QED
    BY <1>1, <1>3, SameMessage
    DEF ExchangeInv, Composed, RoomLeft, InPlace, Encoded, OnItsWay, Arrived, message

\* It holds at the start.
LEMMA ExchangeInvStart == ExchangeInit => ExchangeInv
  BY DEF ExchangeInit, ExchangeInv, Composed, RoomLeft, InPlace, Encoded, OnItsWay, Arrived

\* Every step preserves it, as long as the table of the message is sound.
LEMMA ExchangeInvNext ==
    ASSUME ExchangeInv, TableIsSound, TableIsSound', [ExchangeNext]_exchangeVars
    PROVE  ExchangeInv'
  <1>1. CASE Compose
    BY <1>1, StepCompose
  <1>2. CASE phase # "idle" /\ ExchangeNext
    <2>1. Sound
      BY <1>2 DEF TableIsSound, Sound
    <2> QED
      BY <1>1, <1>2, <2>1, StepSkipField, StepEncodeFlag, StepEncodeLen, StepEncodeItems,
         StepEncodeString, StepSend, StepReceive, StepDeliver
      DEF ExchangeNext, Sender, Receiver
  <1>3. CASE UNCHANGED exchangeVars
    <2>1. UNCHANGED <<phase, message, pos, count, room, wire, got>>
      BY <1>3 DEF exchangeVars
    <2>2. Composed' /\ RoomLeft'
      BY <2>1, SameMessage DEF ExchangeInv, Composed, RoomLeft, message
    <2>3. InPlace'
      BY <2>1, SameMessage DEF ExchangeInv, InPlace, message, Filled
    <2>4. Encoded' /\ OnItsWay' /\ Arrived'
      BY <2>1, SameMessage DEF ExchangeInv, Encoded, OnItsWay, Arrived
    <2> QED
      BY <2>1, <2>2, <2>3, <2>4 DEF ExchangeInv
  <1> QED
    BY <1>1, <1>2, <1>3
    DEF ExchangeNext, Sender, Receiver, Compose, SkipField, EncodeFlag, EncodeLen, EncodeItems,
        EncodeString, Send, Receive, Deliver

\* The sender and the receiver keep to the invariant whatever is sent, as long as
\* the tables are sound.
THEOREM ExchangeInvariant ==
    ExchangeSpec /\ []TableIsSound => []ExchangeInv
  BY ExchangeInvStart, ExchangeInvNext, PTL DEF ExchangeSpec

\* The fields that were meant are those that the invariant speaks of.
LEMMA MeantIs == Meant = {FieldOf(k): k \in Chosen}
  <1>1. \A k \in Chosen:
            LET e == Ei[k]
                n == IF e.kind = "string" THEN 1
                     ELSE IF e.array = "var" THEN Filled(e.n) ELSE e.n
            IN  <<k, n, IF e.kind = "string" THEN Filled(e.n - 1) ELSE n * ItemSize(e)>>
                = FieldOf(k)
    BY DEF Chosen, Fields, FieldOf, TlvOf
  <1> QED
    BY <1>1 DEF Meant, Chosen

\* With sound tables, a receiver accepts every message and finds exactly the fields
\* that the sender set, for any number of fields that a newer peer adds.
THEOREM EverythingIsRead ==
    ExchangeSpec /\ []TableIsSound => []ReadsWhatWasSent
  <1>1. ExchangeInv => ReadsWhatWasSent
    BY MeantIs DEF ExchangeInv, Arrived, ReadsWhatWasSent
  <1> QED
    BY <1>1, ExchangeInvariant, PTL

\* What a message takes fits in the buffers of its receivers.
LEMMA BuffersSuffice ==
    ASSUME ExchangeInv, TableIsSound, phase = "sent",
           NEW h \in Handles, Receives(h, Messages[msg])
    PROVE  Messages[msg].len - room <= h.buffer
  <1> DEFINE len == Messages[msg].len
             all == Need(Ei)[1]
  <1>1. len \in Nat /\ all \in Nat /\ all <= h.buffer /\ h.buffer \in Nat
    <2>1. Sound
      BY DEF TableIsSound, Sound
    <2>2. all <= h.buffer /\ h.buffer \in Nat
      BY <2>1 DEF Sound, SoundMessage, SoundLengths, Ei
    <2>3. 1 \in 1..(Len(Ei) + 1)
      BY <2>1, Table DEF Sound
    <2> QED
      BY <2>1, <2>2, <2>3, Table DEF Sound
  <1>2. room \in Nat /\ len - room <= all
    BY DEF ExchangeInv, OnItsWay
  <1> HIDE DEF len, all
  <1>3. len - room <= h.buffer
    BY <1>1, <1>2
  <1> QED
    BY <1>3 DEF len

\* With sound tables every message fits, whichever fields are set and however full
\* they are: the length that qmi_send_request is given has room for it, so that
\* encoding never fails, and so has the buffer that the receiver gave to
\* qmi_handle_init, so that the kernel never drops it.
THEOREM EverythingFits ==
    ExchangeSpec /\ []TableIsSound => []MessageFits
  <1>1. ExchangeInv => NeverTruncated
    BY DEF ExchangeInv, NeverTruncated
  <1>2. ExchangeInv /\ TableIsSound => FitsReceiveBuffer
    BY BuffersSuffice DEF FitsReceiveBuffer
  <1>3. ExchangeInv /\ TableIsSound => MessageFits
    BY <1>1, <1>2 DEF MessageFits
  <1> QED
    BY <1>3, ExchangeInvariant, PTL

================================================================================
