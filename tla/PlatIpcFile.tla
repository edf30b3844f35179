------------------------------ MODULE PlatIpcFile ------------------------------
(***************************************************************************)
(* File transfers between the kernel and the user space daemon             *)
(* (cnss_utils/cnss_plat_ipc_qmi.c).                                       *)
(*                                                                         *)
(* A caller allocates a file_data, enters it in file_idr, tells the daemon *)
(* its id and waits.  The daemon then asks for the segments of an upload,  *)
(* or hands over those of a download, one request at a time.  Requests and *)
(* disconnections are handled by the one thread of the QMI library, which  *)
(* looks the file up under file_idr_lock and uses it after the unlock.     *)
(*                                                                         *)
(* The daemon is external: it may name any transfer it was told of, with   *)
(* any segment.  Sizes are in units of which SegMax fit a segment.         *)
(***************************************************************************)
EXTENDS Integers, Sequences, FiniteSetsExt, SequencesExt

CONSTANTS
    Callers,     \* the threads that transfer files
    Addrs,       \* the addresses kmalloc can return for a file_data
    NULL,        \* the null pointer
    SegMax,      \* CNSS_PLAT_IPC_QMI_MAX_DATA_SIZE_V01
    Sizes,       \* the sizes of the callers' buffers, when calm and when not
    U32,         \* the modulus of u32, far above any size
    Kinds,       \* the calls that are made then: "upload", "download"
    MaxIds,      \* how many transfers there are (bound)
    Registers,   \* the clients that register then
    MaxSessions  \* how many times the daemon registers then (bound)

ASSUME PlatIpcAssumption ==
    /\ NULL \notin Addrs
    /\ SegMax \in Nat \ {0} /\ U32 \in Nat \ {0}
    /\ Sizes \in [BOOLEAN -> SUBSET (1..U32 - 1)]
    /\ Kinds \in [BOOLEAN -> SUBSET {"upload", "download"}]
    /\ Registers \in [BOOLEAN -> SUBSET {"bt", "daemon"}]
    /\ MaxIds \in Nat /\ MaxSessions \in [BOOLEAN -> Nat]

Ids == 1..MaxIds

VARIABLES
    calm,      \* throughout a behaviour every response to an upload request is
               \* sent, and the end of a transfer does not overlap the handler
               \* of a request for it
    clients,   \* qmi_client_ctx[].client_connected
    socket,    \* the client_sq of the daemon is a QRTR address
    session,   \* how many times the daemon has registered
    file_idr,  \* the file each id stands for, or NULL
    next_id,   \* the next id idr_alloc_cyclic hands out
    live,      \* the addresses that are allocated
    fd,        \* the file_data at each address
    pc,        \* where each caller stands
    file,      \* its local variable fd
    args,      \* its arguments
    size,      \* *size as a download leaves it
    result,    \* what its last call returned, and for which transfer
    qpc,       \* where the QMI thread stands
    qfd,       \* its local variable fd
    req,       \* the request it handles
    told,      \* the session in which the daemon was told of each transfer
    sent,      \* the segments the daemon was sent, by file id
    copied     \* the segments copied to the buffer of each transfer

qmiVars    == <<qpc, qfd, req>>
callerVars == <<pc, file, args, size, result>>
heapVars   == <<file_idr, next_id, live, fd>>
linkVars   == <<calm, clients, socket, session>>
vars == <<linkVars, heapVars, callerVars, qmiVars, told, sent, copied>>

Clients == {"bt", "daemon"}

Least(a, b) == IF a < b THEN a ELSE b

\* The number of segments of a file.
SegLen(n) == (n \div SegMax) + (IF n % SegMax = 0 THEN 0 ELSE 1)

Blank == [id |-> 0, buf |-> 0, buf_size |-> 0, file_size |-> 0,
          seg_index |-> 0, seg_len |-> 0, end |-> FALSE, complete |-> FALSE]

NoCall    == [kind |-> "none", n |-> 0]
NoResult  == [kind |-> "none", n |-> 0, id |-> 0, ok |-> FALSE, size |-> 0]
NoRequest == [id |-> 0, seg_index |-> 0, file_size |-> 0, len |-> 0, end |-> FALSE]

Init ==
    /\ calm \in BOOLEAN
    /\ clients = {} /\ socket = FALSE /\ session = 0
    /\ file_idr = [i \in Ids |-> NULL] /\ next_id = 1
    /\ live = {} /\ fd = [a \in Addrs |-> Blank]
    /\ pc = [c \in Callers |-> "idle"]
    /\ file = [c \in Callers |-> NULL]
    /\ args = [c \in Callers |-> NoCall]
    /\ size = [c \in Callers |-> 0]
    /\ result = [c \in Callers |-> NoResult]
    /\ qpc = "idle" /\ qfd = NULL /\ req = NoRequest
    /\ told = [i \in Ids |-> 0]
    /\ sent = [i \in Ids |-> <<>>]
    /\ copied = [i \in Ids |-> <<>>]

\* A calm caller does not end its transfer within the handler of one of its
\* requests, ...
MayCollect(c) == calm => qfd # file[c]

\* ... and no request is looked up while its caller ends the transfer.
MayHandle(a) == calm => \A c \in Callers : file[c] = a => pc[c] \notin {"deinit", "free"}

-----------------------------------------------------------------------------
(***************************************************************************)
(* The callers: cnss_plat_ipc_qmi_file_upload and _download                *)
(***************************************************************************)

Goto(c, label) == pc' = [pc EXCEPT ![c] = label]

\* The checks of the arguments and of the connection; the call is refused
\* with -EINVAL when the daemon is not there.
Call(c, kind, n) ==
    /\ pc[c] = "idle" /\ next_id <= MaxIds
    /\ "daemon" \in clients
    /\ args' = [args EXCEPT ![c] = [kind |-> kind, n |-> n]]
    /\ Goto(c, "init")
    /\ result' = [result EXCEPT ![c] = NoResult]
    /\ UNCHANGED <<linkVars, heapVars, file, size, qmiVars, told, sent, copied>>

\* kmalloc fails in cnss_plat_ipc_init_file_data.
NoMemory(c) ==
    /\ pc[c] = "init"
    /\ args' = [args EXCEPT ![c] = NoCall]
    /\ Goto(c, "idle")
    /\ UNCHANGED <<linkVars, heapVars, file, size, result, qmiVars, told, sent, copied>>

\* cnss_plat_ipc_init_file_data: the file is filled in and entered under a
\* new id.  A download starts with a file size of zero.
InitFileData(c) ==
    /\ pc[c] = "init" /\ next_id <= MaxIds
    /\ \E a \in Addrs \ live :
         LET n == IF args[c].kind = "upload" THEN args[c].n ELSE 0 IN
         /\ live' = live \cup {a}
         /\ fd' = [fd EXCEPT ![a] =
                      [Blank EXCEPT !.id = next_id, !.buf_size = args[c].n,
                                    !.file_size = n, !.seg_len = SegLen(n)]]
         /\ file_idr' = [file_idr EXCEPT ![next_id] = a]
         /\ file' = [file EXCEPT ![c] = a]
    /\ next_id' = next_id + 1
    /\ Goto(c, "send")
    /\ UNCHANGED <<linkVars, args, size, result, qmiVars, told, sent, copied>>

\* Mutant: a disconnection leaves the address in client_sq.
SendIndication_AnySocket(c) ==
    /\ pc[c] = "send"
    /\ told' = [told EXCEPT ![fd[file[c]].id] = session]
    /\ Goto(c, "wait")
    /\ UNCHANGED <<linkVars, heapVars, file, args, size, result, qmiVars, sent, copied>>

\* The daemon is told of the transfer.  A socket that was cleared by a
\* disconnection is not a QRTR address, and the send is refused.
SendIndication(c) ==
    /\ pc[c] = "send"
    /\ socket
    /\ told' = [told EXCEPT ![fd[file[c]].id] = session]
    /\ Goto(c, "wait")
    /\ UNCHANGED <<linkVars, heapVars, file, args, size, result, qmiVars, sent, copied>>

SendFails(c) ==
    /\ pc[c] = "send"
    /\ Goto(c, "collect")
    /\ UNCHANGED <<linkVars, heapVars, file, args, size, result, qmiVars, told, sent, copied>>

\* wait_for_completion_timeout.
WaitCompleted(c) ==
    /\ pc[c] = "wait" /\ fd[file[c]].complete
    /\ fd' = [fd EXCEPT ![file[c]].complete = FALSE]
    /\ Goto(c, "collect")
    /\ UNCHANGED <<linkVars, file_idr, next_id, live, file, args, size, result,
                   qmiVars, told, sent, copied>>

WaitTimeout(c) ==
    /\ pc[c] = "wait" /\ ~fd[file[c]].complete
    /\ Goto(c, "collect")
    /\ UNCHANGED <<linkVars, heapVars, file, args, size, result, qmiVars, told, sent, copied>>

\* *size = fd->file_size, for a download.
ReadSize(c) ==
    /\ pc[c] = "collect" /\ MayCollect(c)
    /\ size' = [size EXCEPT ![c] = fd[file[c]].file_size]
    /\ Goto(c, "deinit")
    /\ UNCHANGED <<linkVars, heapVars, file, args, result, qmiVars, told, sent, copied>>

\* Mutant: the id is left in file_idr.
RemoveEntry_Skipped(c) ==
    /\ pc[c] = "deinit"
    /\ Goto(c, "free")
    /\ UNCHANGED <<linkVars, heapVars, file, args, size, result,
                   qmiVars, told, sent, copied>>

\* cnss_plat_ipc_deinit_file_data: the id is withdrawn under the lock, ...
RemoveEntry(c) ==
    /\ pc[c] = "deinit"
    /\ file_idr' = [file_idr EXCEPT ![fd[file[c]].id] = NULL]
    /\ Goto(c, "free")
    /\ UNCHANGED <<linkVars, next_id, live, fd, file, args, size, result,
                   qmiVars, told, sent, copied>>

\* ... fd->end decides the result, and the file is freed.  What was moved is
\* remembered for a transfer that succeeded only.
FreeFile(c) ==
    LET a == file[c]
        f == fd[a] IN
    /\ pc[c] = "free"
    /\ result' = [result EXCEPT ![c] =
                     IF f.end THEN [kind |-> args[c].kind, n |-> args[c].n,
                                    id |-> f.id, size |-> size[c], ok |-> TRUE]
                              ELSE NoResult]
    /\ live' = live \ {a}
    /\ fd' = [fd EXCEPT ![a] = Blank]
    /\ file' = [file EXCEPT ![c] = NULL]
    /\ args' = [args EXCEPT ![c] = NoCall]
    /\ size' = [size EXCEPT ![c] = 0]
    /\ Goto(c, "idle")
    /\ told' = [told EXCEPT ![f.id] = 0]
    /\ IF f.end THEN UNCHANGED <<sent, copied>>
                ELSE /\ sent' = [sent EXCEPT ![f.id] = <<>>]
                     /\ copied' = [copied EXCEPT ![f.id] = <<>>]
    /\ UNCHANGED <<linkVars, file_idr, next_id, qmiVars>>

-----------------------------------------------------------------------------
(***************************************************************************)
(* The QMI thread.  What a handler does to a file that has been freed has  *)
(* no effect until its address is allocated again: from then on it is done *)
(* to another transfer.                                                    *)
(***************************************************************************)

Set(a, new) == fd' = IF a \in live THEN [fd EXCEPT ![a] = new] ELSE fd

Completed(a) == [fd[a] EXCEPT !.complete = TRUE]

Done == qpc' = "idle" /\ qfd' = NULL /\ req' = NoRequest

qmiRest == <<linkVars, file_idr, next_id, live, callerVars, told>>

\* The transfers of a kind that the daemon knows of.
Known(kind) ==
    {i \in Ids : /\ told[i] # 0 /\ file_idr[i] # NULL
                 /\ (fd[file_idr[i]].seg_len > 0) = (kind = "upload")}

\* Both request handlers look the file up under file_idr_lock; a request for
\* an id that is not there is dropped.
Lookup(label, r) ==
    /\ qpc = "idle" /\ MayHandle(file_idr[r.id])
    /\ qpc' = label /\ qfd' = file_idr[r.id] /\ req' = r
    /\ UNCHANGED <<linkVars, heapVars, callerVars, told, sent, copied>>

UploadRequest ==
    \E i \in Known("upload") : \E k \in 0..fd[file_idr[i]].seg_len - 1 :
        /\ fd[file_idr[i]].seg_index < fd[file_idr[i]].seg_len
        /\ Lookup("up_check", [NoRequest EXCEPT !.id = i, !.seg_index = k])

\* A request for another segment than the next one completes the transfer,
\* and is then answered all the same.
UploadCheck ==
    /\ qpc = "up_check"
    /\ IF req.seg_index # fd[qfd].seg_index
          THEN Set(qfd, Completed(qfd))
          ELSE UNCHANGED fd
    /\ qpc' = "up_respond"
    /\ UNCHANGED <<qmiRest, qfd, req, sent, copied>>

\* There is no memory for the response.
UploadNoMemory ==
    /\ qpc = "up_respond"
    /\ Done
    /\ UNCHANGED <<qmiRest, fd, sent, copied>>

\* Mutant: the segment is not cut to the maximum.
UploadRespond_LongSegment ==
    LET f   == fd[qfd]
        len == f.buf_size IN
    /\ qpc = "up_respond"
    /\ Set(qfd, [f EXCEPT !.seg_index = @ + 1])
    /\ sent' = IF qfd \in live
                  THEN [sent EXCEPT ![f.id] = Append(@, <<f.seg_index, f.buf, len>>)]
                  ELSE sent
    /\ req' = [req EXCEPT !.len = len, !.end = f.seg_index + 1 = f.seg_len]
    /\ qpc' = "up_advance"
    /\ UNCHANGED <<qmiRest, qfd, copied>>

\* The next segment: seg_index is advanced before the segment is sent, the
\* buffer (UploadAdvance) afterwards.
UploadRespond ==
    LET f   == fd[qfd]
        len == Least(f.buf_size, SegMax) IN
    /\ qpc = "up_respond"
    /\ Set(qfd, [f EXCEPT !.seg_index = @ + 1])
    /\ sent' = IF qfd \in live
                  THEN [sent EXCEPT ![f.id] = Append(@, <<f.seg_index, f.buf, len>>)]
                  ELSE sent
    /\ req' = [req EXCEPT !.len = len, !.end = f.seg_index + 1 = f.seg_len]
    /\ qpc' = "up_advance"
    /\ UNCHANGED <<qmiRest, qfd, copied>>

\* qmi_send_response fails.
UploadSendFails ==
    /\ qpc = "up_respond" /\ ~calm
    /\ Set(qfd, [fd[qfd] EXCEPT !.seg_index = @ + 1])
    /\ Done
    /\ UNCHANGED <<qmiRest, sent, copied>>

\* The buffer is advanced; the last segment ends the transfer.
UploadAdvance ==
    LET f == fd[qfd]
        g == [f EXCEPT !.buf_size = (@ - req.len) % U32, !.buf = @ + req.len] IN
    /\ qpc = "up_advance"
    /\ Set(qfd, IF req.end THEN [g EXCEPT !.end = TRUE, !.complete = TRUE] ELSE g)
    /\ Done
    /\ UNCHANGED <<qmiRest, sent, copied>>

\* The daemon hands over no segment after the last one, but may repeat one. The
\* size of the file that it gives fits the buffer or does not.
DownloadRequest ==
    \E i \in Known("download"), k \in 0..Max(Sizes[calm]), n \in {0, U32 - 1},
       len \in 1..SegMax, last \in BOOLEAN :
        /\ fd[file_idr[i]].end => k < fd[file_idr[i]].seg_index
        /\ Lookup("down", [id |-> i, seg_index |-> k, file_size |-> n, len |-> len, end |-> last])

\* Mutant: a repeated segment is taken for the next one.
Refused_AnySegment(f) == req.file_size > f.buf_size \/ f.file_size + req.len > f.buf_size

\* A segment that does not fit or is not the next one fails the transfer.
Refused(f) ==
    \/ req.file_size > f.buf_size
    \/ f.file_size + req.len > f.buf_size
    \/ req.seg_index # f.seg_index

DownloadRefused ==
    /\ qpc = "down" /\ Refused(fd[qfd])
    /\ Set(qfd, Completed(qfd))
    /\ Done
    /\ UNCHANGED <<qmiRest, sent, copied>>

\* A segment is copied to the caller's buffer, and acknowledged whether or
\* not the response can be sent.
DownloadCopy ==
    LET f == fd[qfd] IN
    /\ qpc = "down" /\ ~Refused(f)
    /\ Set(qfd, [f EXCEPT !.seg_index = @ + 1, !.buf = @ + req.len,
                          !.file_size = @ + req.len])
    /\ copied' = IF qfd \in live
                    THEN [copied EXCEPT ![f.id] = Append(@,
                            [id |-> req.id, seg_index |-> req.seg_index,
                             last |-> req.end, upto |-> f.file_size + req.len])]
                    ELSE copied
    /\ IF req.end THEN qpc' = "down_end" /\ UNCHANGED <<qfd, req>> ELSE Done
    /\ UNCHANGED <<qmiRest, sent>>

DownloadEnd ==
    /\ qpc = "down_end"
    /\ Set(qfd, [fd[qfd] EXCEPT !.end = TRUE, !.complete = TRUE])
    /\ Done
    /\ UNCHANGED <<qmiRest, sent, copied>>

-----------------------------------------------------------------------------

\* cnss_plat_ipc_qmi_reg_client_req_handler.
RegisterClient(cl) ==
    /\ qpc = "idle"
    /\ cl \in Registers[calm] \ clients
    /\ clients' = clients \cup {cl}
    /\ IF cl = "daemon"
          THEN session < MaxSessions[calm] /\ session' = session + 1 /\ socket' = TRUE
          ELSE UNCHANGED <<session, socket>>
    /\ UNCHANGED <<calm, heapVars, callerVars, qmiVars, told, sent, copied>>

\* cnss_plat_ipc_qmi_disconnect_cb: the address is cleared first; ...
Disconnect(cl) ==
    /\ qpc = "idle"
    /\ cl \in clients
    /\ clients' = clients \ {cl}
    /\ socket' = (socket /\ cl # "daemon")
    /\ qpc' = "fail_files"
    /\ UNCHANGED <<calm, session, heapVars, callerVars, qfd, req, told, sent, copied>>

\* ... then every transfer in progress is completed, whoever disconnected.
FailFiles ==
    /\ qpc = "fail_files"
    /\ fd' = [a \in Addrs |-> IF \E i \in Ids : file_idr[i] = a THEN Completed(a) ELSE fd[a]]
    /\ qpc' = "idle"
    /\ UNCHANGED <<qmiRest, qfd, req, sent, copied>>

Caller(c) ==
    \/ \E kind \in Kinds[calm], n \in Sizes[calm] : Call(c, kind, n)
    \/ NoMemory(c) \/ InitFileData(c)
    \/ SendIndication(c) \/ SendFails(c)
    \/ WaitCompleted(c) \/ WaitTimeout(c)
    \/ ReadSize(c) \/ RemoveEntry(c) \/ FreeFile(c)

QmiThread ==
    \/ UploadRequest \/ UploadCheck \/ UploadNoMemory
    \/ UploadRespond \/ UploadSendFails \/ UploadAdvance
    \/ DownloadRequest \/ DownloadRefused \/ DownloadCopy \/ DownloadEnd
    \/ \E cl \in Clients : RegisterClient(cl) \/ Disconnect(cl)
    \/ FailFiles

Next == QmiThread \/ \E c \in Callers : Caller(c)

Spec == Init /\ [][Next]_vars

-----------------------------------------------------------------------------
(***************************************************************************)
(* Properties                                                              *)
(***************************************************************************)

FileData == [id : 0..MaxIds, buf : Nat, buf_size : 0..U32 - 1, file_size : Nat,
             seg_index : Nat, seg_len : Nat, end : BOOLEAN, complete : BOOLEAN]
Request  == [id : 0..MaxIds, seg_index : Nat, file_size : Nat, len : Nat, end : BOOLEAN]
Arguments == [kind : {"none", "upload", "download"}, n : 0..U32 - 1]

CallerSteps == {"idle", "init", "send", "wait", "collect", "deinit", "free"}
QmiSteps    == {"idle", "up_check", "up_respond", "up_advance", "down", "down_end",
                "fail_files"}

\* The variables have their types; result, sent and copied record what was
\* done and nothing is read from them.
TypeOK ==
    /\ calm \in BOOLEAN /\ clients \in SUBSET Clients /\ socket \in BOOLEAN /\ session \in Nat
    /\ file_idr \in [Ids -> Addrs \cup {NULL}] /\ next_id \in 1..MaxIds + 1
    /\ live \in SUBSET Addrs /\ fd \in [Addrs -> FileData]
    /\ pc \in [Callers -> CallerSteps] /\ file \in [Callers -> Addrs \cup {NULL}]
    /\ args \in [Callers -> Arguments] /\ size \in [Callers -> Nat]
    /\ qpc \in QmiSteps /\ qfd \in Addrs \cup {NULL} /\ req \in Request
    /\ told \in [Ids -> Nat]

\* An id in file_idr stands for an allocated file of that id, whose caller
\* has not freed it and will not before it has withdrawn the id.
EntryIsLive ==
    \A i \in Ids : file_idr[i] # NULL =>
        /\ file_idr[i] \in live
        /\ fd[file_idr[i]].id = i
        /\ \E c \in Callers :
              file[c] = file_idr[i] /\ pc[c] \in {"send", "wait", "collect", "deinit"}

\* "Daemon killed. Fail any download / upload in progress": no caller goes on
\* waiting for a daemon that is gone, even if the daemon has disconnected
\* (and another one has registered) between the checks and the indication.
NoWaitForDeadDaemon ==
    \A c \in Callers : pc[c] = "wait" /\ ~fd[file[c]].complete =>
        \/ qpc = "fail_files"
        \/ socket /\ told[fd[file[c]].id] = session

\* The segments of an upload, in order: index, offset and length.
Segments(n) ==
    [k \in 1..SegLen(n) |-> <<k - 1, (k - 1) * SegMax, Least(SegMax, n - (k - 1) * SegMax)>>]

\* "Return: 0 on success": an upload that returns 0 has sent the daemon every
\* byte of the buffer once, under the right index.
UploadComplete ==
    \A c \in Callers : LET r == result[c] IN
        r.kind = "upload" /\ r.ok => IsPrefix(Segments(r.n), sent[r.id])

\* It has, however callers and transfers overlap, time out and are refused, and
\* whatever the daemon asks for, as long as no response of the kernel fails to
\* be sent and no caller gives up in the middle of a handler for its file. A
\* response that fails has advanced seg_index and not the buffer, and a handler
\* that goes on after the caller has freed the file may advance another.
UploadMovesFile == calm => UploadComplete

\* "It is updated to reflect the file size at the end of file download": a
\* download that returns 0 has copied the segments of its own file in order
\* up to the last one, and *size is where that one ends, if no caller gives up
\* in the middle of a handler for its file.
DownloadMovesFile ==
    \A c \in Callers : LET r == result[c] IN
        calm /\ r.kind = "download" /\ r.ok =>
            LET s == copied[r.id] IN
            /\ s # <<>> /\ Last(s).last /\ Last(s).upto = r.size
            /\ \A k \in 1..Len(s) : s[k].id = r.id /\ s[k].seg_index = k - 1

=============================================================================
