------------------------------ MODULE QmiExchange ------------------------------
(***************************************************************************)
(* One QMI message on its way: the sender encodes it by its table into a   *)
(* buffer of the length that it declares, the receiver finds the table by  *)
(* the id of the message and decodes it.                                   *)
(*                                                                         *)
(* The tables, ids and lengths are those of QmiTables; the buffers into    *)
(* which this code receives are from cnss2/qmi.c, icnss2/qmi.c and         *)
(* cnss_utils/cnss_plat_ipc_qmi.c.  The coding itself is the kernel's      *)
(* (qmi_encdec), and external.                                             *)
(*                                                                         *)
(* What fields contain is left out: a field is its TLV type, the number of *)
(* its items and its bytes.                                                *)
(***************************************************************************)
EXTENDS QmiTables

CONSTANTS
    Fills,    \* how full arrays and strings are: "none", "one" item or "full"
    Unknown   \* TLV types that a newer peer adds, and that no table has

ASSUME ExchangeAssumption ==
    /\ Fills \subseteq {"none", "one", "full"}
    /\ IsFiniteSet(Unknown)
    /\ \A t \in Unknown: t \in Nat /\ t >= 16
    /\ \A i \in DOMAIN Messages: {e.tlv: e \in Range(Messages[i].ei)} \cap Unknown = {}

VARIABLES
    phase,   \* idle, encoding, sent, read, or why it failed: too small, malformed
    msg,     \* the message: its place in Messages
    opts,    \* the TLV types of the optional fields that are set
    fill,    \* how full it is
    pos,     \* the next element to encode
    count,   \* the length that was coded last
    room,    \* what is left of the sender's buffer
    wire,    \* the TLVs
    got      \* the fields that were decoded
message == <<msg, opts, fill>>
exchangeVars == <<phase, message, pos, count, room, wire, got>>

Ei == Messages[msg].ei
Optional(ei) == {e.tlv: e \in {f \in Range(ei): f.kind = "flag"}}

\* How many items the sender has for an array, and how long its string is.
Filled(n) == CASE fill = "none" -> 0 [] fill = "one" -> 1 [] fill = "full" -> n
ItemSize(e) == IF fill = "full" THEN e.most ELSE e.least

-----------------------------------------------------------------------------
(***************************************************************************)
(* The receivers of this code                                              *)
(***************************************************************************)
Handle(service, buffer, types, unasked) ==
    [service |-> service, buffer |-> buffer, types |-> types, unasked |-> unasked]

Client(service, buffer, unasked) == Handle(service, buffer, {"response", "indication"}, unasked)

\* Mutant: a buffer for the largest message that is sent at the start.
IcnssWlfw_Small == Client("wlfw", wlfw_host_cap_req_msg_v01.len, {wlfw_cal_update_req_msg_v01.id})

\* icnss2 has no buffer for the calibration data, which it never asks for, and
\* the client of IMS none for the invitations, to which it does not subscribe.
CnssWlfw   == Client("wlfw", 8192, {})
IcnssWlfw  == Client("wlfw", wlfw_bdf_download_req_msg_v01.len, {wlfw_cal_update_req_msg_v01.id})
CnssDms    == Client("dms", 256, {})
IcnssDms   == Client("dms", 256, {})
CnssCoex   == Client("coex", 8204, {})
CnssIms    == Client("ims", 8192, {ims_private_service_mt_invite_ind_msg_v01.id})
PlatIpcServer == Handle("plat_ipc", 65535, {"request"}, {})
Handles == {CnssWlfw, IcnssWlfw, CnssDms, IcnssDms, CnssCoex, CnssIms, PlatIpcServer}

Receives(h, m) == m.service = h.service /\ m.type \in h.types /\ m.id \notin h.unasked

-----------------------------------------------------------------------------
(***************************************************************************)
(* The sender                                                              *)
(***************************************************************************)

\* A message, with all optional fields, none, or one of them.
Compose ==
    /\ phase = "idle" /\ phase' = "encoding"
    /\ msg' \in DOMAIN Messages
    /\ LET all == Optional(Messages[msg'].ei)
       IN  opts' \in {{}, all} \cup {{t}: t \in all}
    /\ fill' \in Fills
    /\ room' = Messages[msg'].len
    /\ pos' = 1
    /\ UNCHANGED <<count, wire, got>>

\* The elements of a field that is not set are skipped.
SkipField ==
    /\ phase = "encoding" /\ pos \in DOMAIN Ei
    /\ Ei[pos].kind = "flag" /\ Ei[pos].tlv \notin opts
    /\ LET later == {k \in DOMAIN Ei: k > pos /\ Ei[k].tlv # Ei[pos].tlv}
       IN  pos' = IF later = {} THEN Len(Ei) + 1 ELSE Min(later)
    /\ UNCHANGED <<phase, message, count, room, wire, got>>
EncodeFlag ==
    /\ phase = "encoding" /\ pos \in DOMAIN Ei
    /\ Ei[pos].kind = "flag" /\ Ei[pos].tlv \in opts
    /\ pos' = pos + 1
    /\ UNCHANGED <<phase, message, count, room, wire, got>>

\* A TLV of that many bytes, if there is room for them and for its header.
Emit(t, n, width, bytes) ==
    IF 3 + width + bytes > room
       THEN phase' = "too small" /\ UNCHANGED <<room, wire>>
       ELSE /\ room' = room - (3 + width + bytes)
            /\ wire' = Append(wire, [tlv |-> t, count |-> n, width |-> width, bytes |-> bytes])
            /\ UNCHANGED phase

\* The length of an array has the width that the table says.  Nothing follows
\* it when it is zero.
EncodeLen ==
    /\ phase = "encoding" /\ pos \in DOMAIN Ei /\ Ei[pos].kind = "len"
    /\ count' = Filled(Ei[pos + 1].n) % (256 ^ Ei[pos].width)
    /\ IF count' = 0
          THEN Emit(Ei[pos].tlv, 0, Ei[pos].width, 0) /\ pos' = pos + 2
          ELSE pos' = pos + 1 /\ UNCHANGED <<phase, room, wire>>
    /\ UNCHANGED <<message, got>>
EncodeItems ==
    /\ phase = "encoding" /\ pos \in DOMAIN Ei /\ Ei[pos].kind = "items"
    /\ LET e == Ei[pos]
           n == IF e.array = "var" THEN count ELSE e.n
           width == IF e.array = "var" THEN Ei[pos - 1].width ELSE 0
       IN  Emit(e.tlv, n, width, n * ItemSize(e))
    /\ pos' = pos + 1
    /\ UNCHANGED <<message, count, got>>
EncodeString ==
    /\ phase = "encoding" /\ pos \in DOMAIN Ei /\ Ei[pos].kind = "string"
    /\ Emit(Ei[pos].tlv, 1, 0, Filled(Ei[pos].n - 1))
    /\ pos' = pos + 1
    /\ UNCHANGED <<message, count, got>>

\* A newer peer knows more optional fields.
Send ==
    /\ phase = "encoding" /\ pos = Len(Ei) + 1
    /\ phase' = "sent"
    /\ \E more \in SUBSET Unknown:
           wire' = wire \o SetToSeq({[tlv |-> t, count |-> 1, width |-> 0, bytes |-> 1]: t \in more})
    /\ UNCHANGED <<message, pos, count, room, got>>

Sender == Compose \/ SkipField \/ EncodeFlag \/ EncodeLen \/ EncodeItems \/ EncodeString \/ Send

-----------------------------------------------------------------------------
(***************************************************************************)
(* The receiver                                                            *)
(***************************************************************************)

\* The table of a response is the one that the caller waits with; that of a
\* request or an indication is found by its id.
TablesFor(m) ==
    IF m.type = "response"
       THEN {m.ei}
       ELSE {Messages[i].ei: i \in {k \in DOMAIN Messages:
                 /\ Messages[k].service = m.service
                 /\ Messages[k].type = m.type /\ Messages[k].id = m.id}}

\* A TLV is decoded by the elements of its type: an optional one that is not in
\* the table is skipped.
Fields(ei) == {k \in DOMAIN ei: ei[k].kind \in {"items", "string"}}
WellFormed(t, ei, k) ==
    IF ei[k].kind = "string"
       THEN t.width = 0 /\ t.bytes <= ei[k].n
       ELSE LET var == ei[k].array = "var"
            IN  /\ t.width = (IF var THEN ei[k - 1].width ELSE 0)
                /\ IF var THEN t.count <= ei[k].n ELSE t.count = ei[k].n
                /\ t.bytes \in (t.count * ei[k].least)..(t.count * ei[k].most)
Decode(t, ei) ==
    LET own == {k \in Fields(ei): ei[k].tlv = t.tlv}
    IN  IF own = {}
           THEN (IF t.tlv >= 16 THEN UNCHANGED phase ELSE phase' = "malformed") /\ UNCHANGED got
           ELSE IF WellFormed(t, ei, Min(own))
                   THEN got' = got \cup {<<Min(own), t.count, t.bytes>>} /\ UNCHANGED phase
                   ELSE phase' = "malformed" /\ UNCHANGED got

Receive ==
    /\ phase = "sent" /\ wire # <<>>
    /\ \E ei \in TablesFor(Messages[msg]): Decode(Head(wire), ei)
    /\ wire' = Tail(wire)
    /\ UNCHANGED <<message, pos, count, room>>
Deliver ==
    /\ phase = "sent" /\ wire = <<>> /\ phase' = "read"
    /\ UNCHANGED <<message, pos, count, room, wire, got>>

Receiver == Receive \/ Deliver

-----------------------------------------------------------------------------
ExchangeInit ==
    /\ phase = "idle" /\ msg = 1 /\ opts = {} /\ fill = "none"
    /\ pos = 1 /\ count = 0 /\ room = 0 /\ wire = <<>> /\ got = {}
ExchangeNext == Sender \/ Receiver
ExchangeSpec == ExchangeInit /\ [][ExchangeNext]_exchangeVars

-----------------------------------------------------------------------------
(***************************************************************************)
(* Properties                                                              *)
(***************************************************************************)

\* The TLV of a field at its longest, and what all TLVs from element k on need.
LongestTlv(ei, k) ==
    CASE ei[k].kind = "string" -> 3 + (ei[k].n - 1)
      [] ei[k].kind = "items"  ->
            3 + (IF ei[k].array = "var" THEN ei[k - 1].width ELSE 0) + ei[k].n * ei[k].most
      [] OTHER                 -> 0
Need(ei) ==
    LET need[k \in 1..(Len(ei) + 1)] ==
            IF k = Len(ei) + 1 THEN 0 ELSE LongestTlv(ei, k) + need[k + 1]
    IN  need

\* An array of variable length follows its length, which is wide enough for it.
SoundElement(ei, k) ==
    /\ ei[k].kind \in {"flag", "len", "items", "string"}
    /\ ei[k].kind = "len" =>
          /\ k + 1 \in DOMAIN ei /\ ei[k + 1].tlv = ei[k].tlv
          /\ ei[k + 1].kind = "items" /\ ei[k + 1].array = "var"
          /\ ei[k].width \in Nat /\ 256 ^ ei[k].width \in Nat
          /\ ei[k + 1].n < 256 ^ ei[k].width
    /\ ei[k].kind = "items" =>
          /\ ei[k].n \in Nat \ {0}
          /\ ei[k].least \in Nat /\ ei[k].most \in Nat /\ ei[k].least <= ei[k].most
          /\ ei[k].array = "var" => k > 1 /\ ei[k - 1].kind = "len"
    /\ ei[k].kind = "string" => ei[k].n \in Nat /\ ei[k].n >= 2

\* No two fields share a type, and all elements of an optional field, of which
\* the flag is the first, are next to each other.
SoundTypes(ei) ==
    /\ \A j, k \in Fields(ei): ei[j].tlv = ei[k].tlv => j = k
    /\ \A k \in DOMAIN ei:
          ei[k].kind # "flag" /\ ei[k].tlv \in Optional(ei) =>
              k > 1 /\ ei[k - 1].tlv = ei[k].tlv

\* The declared length and the buffers of the receivers have room for all fields.
SoundLengths(m) ==
    LET need == Need(m.ei)
    IN  /\ need \in [1..(Len(m.ei) + 1) -> Nat]
        /\ \A k \in DOMAIN m.ei: LongestTlv(m.ei, k) + need[k + 1] <= need[k]
        /\ \A j, k \in DOMAIN need: j <= k => need[k] <= need[j]
        /\ m.len \in Nat /\ need[1] <= m.len
        /\ \A h \in Handles: Receives(h, m) => h.buffer \in Nat /\ need[1] <= h.buffer

\* The table with which the sender encodes a message and the one with which the
\* receiver decodes it are the same and are sound: every array follows a length
\* that is wide enough for it, no two fields share a type, the flag of an optional
\* field is next to it, and the longest message fits in the length that is
\* declared with it and in the buffer of every receiver.
SoundMessage(m) ==
    /\ Len(m.ei) \in Nat /\ DOMAIN m.ei = 1..Len(m.ei)
    /\ \A k \in DOMAIN m.ei: SoundElement(m.ei, k)
    /\ SoundTypes(m.ei) /\ SoundLengths(m)
    /\ TablesFor(m) = {m.ei}
TableIsSound == phase # "idle" => SoundMessage(Messages[msg])

\* The length that the sender declares with the message (the *_MAX_MSG_LEN of
\* the headers) has room for whatever its table can encode, so that
\* qmi_send_request never fails for want of room.
NeverTruncated == phase # "too small"

\* The fields that the sender set, by their place in its table: how many items
\* there are and how long they are together.
Meant ==
    {LET e == Ei[k]
         n == IF e.kind = "string" THEN 1
              ELSE IF e.array = "var" THEN Filled(e.n) ELSE e.n
     IN  <<k, n, IF e.kind = "string" THEN Filled(e.n - 1) ELSE n * ItemSize(e)>>:
     k \in {j \in Fields(Ei): Ei[j].tlv \in Optional(Ei) => Ei[j].tlv \in opts}}

\* Whatever table of its id a message is read with, the receiver accepts it and
\* finds exactly the fields that the sender set: no array is too long for the
\* width of its length, no two fields share a type, a message that is declared
\* several times is declared alike, and a newer peer is understood.
ReadsWhatWasSent ==
    /\ phase # "malformed"
    /\ phase = "read" => got = Meant

\* A message that arrives fits in the buffer that the receiver gave to
\* qmi_handle_init: the kernel drops a longer one, and the sender waits for an
\* answer in vain.
FitsReceiveBuffer ==
    phase = "sent" /\ got = {} /\ wire # <<>> =>
        \A h \in Handles:
            Receives(h, Messages[msg]) => Messages[msg].len - room <= h.buffer

\* A message fits at both ends: in the length that its sender declares, and in
\* the buffer of every receiver.
MessageFits == NeverTruncated /\ FitsReceiveBuffer

===============================================================================
