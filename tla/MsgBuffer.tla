------------------------------ MODULE MsgBuffer ------------------------------
(***************************************************************************)
(* The message buffer of a channel on the worker that owns it              *)
(* (store/memory/memstore.c): how messages get their (time, tag) ids and   *)
(* prev_ids, how they leave the buffer, and how the next message after an  *)
(* id is found.  Publisher locations with different buffer lengths and     *)
(* timeouts may publish to the same channel.                               *)
(***************************************************************************)
EXTENDS Integers, Sequences

CONSTANTS
    Lengths,   \* nchan_message_buffer_length of the publisher locations
    Timeouts,  \* nchan_message_timeout of the publisher locations, in seconds
    TagMax,    \* the largest tag, 2^15 - 1 in the code (int16_t)
    MayDelete  \* whether the channel may be deleted

ASSUME MsgBufferAssumption ==
    /\ Lengths \subseteq Nat
    /\ Timeouts \subseteq Nat \ {0}
    /\ TagMax \in Nat
    /\ MayDelete \in BOOLEAN

VARIABLES
    now,     \* ngx_time()
    max,     \* max_messages: that of the last publisher, -1 before any
    buf,     \* the stored messages, from msg_first to msg_last
    latest,  \* latest_msgid
    before,  \* the latest_msgid before that
    prev     \* prev_id of the message published last

bufferVars == <<now, max, buf, latest, before, prev>>

Tags == (-TagMax - 1) .. TagMax
Ids == [time : Nat, tag : Tags]
Zero == [time |-> 0, tag |-> 0]

Messages == [id : Ids, expires : Nat]

(* The buffer is a sequence of messages with ids and expiry times, and the
   ids that the channel remembers are ids of messages or zero. *)
BufferTypeOK ==
    /\ now \in Nat \ {0}
    /\ max \in Nat \cup {-1}
    /\ buf \in Seq(Messages)
    /\ latest \in Ids /\ before \in Ids /\ prev \in Ids

BufferInit ==
    /\ now = 1
    /\ max = -1
    /\ buf = <<>>
    /\ latest = Zero /\ before = Zero /\ prev = Zero

-----------------------------------------------------------------------------
(* The order of message ids. *)
Before(a, b) == a.time < b.time \/ (a.time = b.time /\ a.tag < b.tag)

(* tag + 1 in an int16_t. *)
NextTag(t) == IF t = TagMax THEN -TagMax - 1 ELSE t + 1

(* chanhead_messages_gc_custom: the index of the first message that stays.
   The messages over the limit go, then the expired ones that are oldest. *)
FirstKept(b, limit) ==
    LET over == IF limit >= 0 /\ Len(b) > limit THEN Len(b) - limit ELSE 0
        stop == {k \in over + 1 .. Len(b) : now <= b[k].expires} \cup {Len(b) + 1}
    IN  CHOOSE k \in stop : \A j \in stop : k <= j

chanhead_messages_gc_custom(b, limit) == SubSeq(b, FirstKept(b, limit), Len(b))

LastId(b) == IF b = <<>> THEN Zero ELSE b[Len(b)].id

(* Fault: the tag does not count up. *)
PushedTagSame(b) == IF b # <<>> /\ LastId(b).time = now THEN LastId(b).tag ELSE 0

(* chanhead_push_message: the tag counts up within a second as long as the
   last message of that second is in the buffer. *)
PushedTag(b) == IF b # <<>> /\ LastId(b).time = now THEN NextTag(LastId(b).tag) ELSE 0

(* Fault: prev_id is never set. *)
PrevIdZero(b) == Zero

(* chanhead_push_message: prev_id is that of the last stored message. *)
PrevId(b) == LastId(b)

(* An unbuffered message is numbered after latest_msgid instead. *)
UnbufferedTag == IF latest.time = now THEN NextTag(latest.tag) ELSE 0

(* nchan_store_chanhead_publish_message_generic on the owner. *)
publish(limit, timeout) ==
    LET kept == chanhead_messages_gc_custom(buf, limit)
        id == [time |-> now,
               tag |-> IF limit = 0 THEN UnbufferedTag ELSE PushedTag(kept)]
        pushed == Append(kept, [id |-> id, expires |-> now + timeout])
    IN  /\ max' = limit
        /\ buf' = IF limit = 0 THEN kept ELSE chanhead_messages_gc_custom(pushed, limit)
        /\ prev' = IF limit = 0 THEN Zero ELSE PrevId(kept)
        /\ latest' = id
        /\ before' = latest
        /\ UNCHANGED now

(* memstore_chanhead_messages_gc, at the head of chanhead_find_next_message
   and by the chanhead reaper. *)
memstore_chanhead_messages_gc ==
    /\ buf' = chanhead_messages_gc_custom(buf, max)
    /\ UNCHANGED <<now, max, latest, before, prev>>

(* nchan_memstore_force_delete_chanhead; the chanhead stays for a while and
   may be published to again. *)
nchan_memstore_force_delete_chanhead ==
    /\ MayDelete
    /\ buf' = <<>>
    /\ UNCHANGED <<now, max, latest, before, prev>>

tick ==
    /\ now' = now + 1
    /\ UNCHANGED <<max, buf, latest, before, prev>>

BufferNext ==
    \/ \E limit \in Lengths, timeout \in Timeouts : publish(limit, timeout)
    \/ memstore_chanhead_messages_gc
    \/ nchan_memstore_force_delete_chanhead
    \/ tick

BufferSpec == BufferInit /\ [][BufferNext]_bufferVars

-----------------------------------------------------------------------------
(* The statuses of a lookup that finds no message, apart from any index. *)
MSG_EXPECTED == 0
MSG_NOTFOUND == -1

(* Fault: the scan starts at the first message. *)
find_next_from_first(b, id) ==
    IF b = <<>>
      THEN IF id.time = 0 \/ max = 0 THEN MSG_EXPECTED ELSE MSG_NOTFOUND
    ELSE IF Before(id, b[1].id) THEN 1
    ELSE IF Len(b) > 1 THEN 2 ELSE MSG_EXPECTED

(* chanhead_find_next_message for the message after id, in a buffer b that
   has been garbage-collected: the index of the message, or a status.  The
   scan starts at the last message. *)
chanhead_find_next_message(b, id) ==
    IF b = <<>>
      THEN IF id.time = 0 \/ max = 0 THEN MSG_EXPECTED ELSE MSG_NOTFOUND
    ELSE IF Before(id, b[1].id) THEN 1
    ELSE LET k == CHOOSE k \in DOMAIN b :
                    /\ ~Before(id, b[k].id)
                    /\ \A j \in k + 1 .. Len(b) : Before(id, b[j].id)
         IN  IF k < Len(b) THEN k + 1 ELSE MSG_EXPECTED

-----------------------------------------------------------------------------
(* Message ids increase: a message is never published with an id that is
   not greater than the one before it ("monotonicity is still preserved",
   memstore.c:3141). *)
IncreasingIds == latest # Zero => Before(before, latest)

(* A subscriber that has seen the last message is sent the next one: its
   position is in the range [prev_id, id) that spooler_respond_message looks
   up.  And nobody in that range has an older message left to read in the
   buffer. *)
PushReachesCaughtUp ==
    latest # Zero =>
        /\ ~Before(before, prev) /\ Before(before, latest)
        /\ \A k \in DOMAIN buf : buf[k].id = latest \/ ~Before(prev, buf[k].id)

(* For every id that a client may ask about, chanhead_find_next_message
   finds the stored message with the least greater id, and says MSG_EXPECTED
   exactly when a nonempty buffer has none. *)
FindsNext ==
    \A id \in [time : 0 .. now, tag : 0 .. TagMax] :
        LET b == chanhead_messages_gc_custom(buf, max)
            later == {k \in DOMAIN b : Before(id, b[k].id)}
            found == chanhead_find_next_message(b, id)
        IN  b # <<>> =>
              IF later = {} THEN found = MSG_EXPECTED
              ELSE /\ found \in later
                   /\ \A k \in later : k = found \/ Before(b[found].id, b[k].id)
=============================================================================
