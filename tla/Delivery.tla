------------------------------- MODULE Delivery -------------------------------
(***************************************************************************)
(* One channel across two workers: the owner, which stores the messages    *)
(* (store/memory/memstore.c), and a worker that has the subscribers and    *)
(* runs the Spooler.  The owner's ipc subscriber forwards every published  *)
(* message, and get_message requests are answered over the same pipe       *)
(* (store/memory/ipc-handlers.c), which is first-in first-out (IpcQueue).  *)
(*                                                                         *)
(* Messages 1 .. pub have been published and first .. pub are stored.      *)
(* got[s] is what subscriber s has been sent, in order; it starts with the *)
(* position 0 for a subscriber that asked for the oldest message.          *)
(***************************************************************************)
EXTENDS Spooler, Sequences

CONSTANTS
    MaxStored,  \* nchan_message_buffer_length, at least 1
    NthTag,     \* which message an Nth subscriber asks for (from the end if < 0)
    MayExhaust  \* whether the shared memory may be exhausted

ASSUME DeliveryAssumption ==
    /\ MaxStored \in Nat \ {0}
    /\ NthTag \in Int \ {0}
    /\ MayExhaust \in BOOLEAN

VARIABLES pub, first, subscribed, pipe, got

ownerVars == <<pub, first, subscribed>>
vars == <<spoolerVars, ownerVars, pipe, got>>

Packets ==
    [type : {"subscribed"}]
      \cup [type : {"msg"}, prev : 0 .. MaxId, id : MsgIds]
      \cup [type : {"reply"}, req : TreeIds, code : {"EXPECTED", "NOTFOUND"}]
      \cup [type : {"reply"}, req : TreeIds, code : {"FOUND"}, id : MsgIds]

(* What the owner stores is a range of published ids, the pipe holds alerts
   of ipc-handlers.c, and the spooler keeps its types. *)
DeliveryTypeOK ==
    /\ SpoolerTypeOK
    /\ pub \in 0 .. MaxId
    /\ first \in 1 .. pub + 1
    /\ subscribed \in BOOLEAN
    /\ pipe \in Seq(Packets)
    /\ got \in [Subs -> Seq(0 .. MaxId)]

DeliveryInit ==
    /\ SpoolerInit
    /\ pub = 0
    /\ first = 1
    /\ subscribed = FALSE
    /\ pipe = <<>>
    /\ got = [s \in Subs |-> IF last[s] = Oldest THEN <<0>> ELSE <<>>]

-----------------------------------------------------------------------------
(* The owner. *)

(* receive_subscribe: the ipc subscriber joins the owner's spooler, at the
   newest message, and the reply goes out after that. *)
receive_subscribe ==
    /\ ~subscribed
    /\ subscribed' = TRUE
    /\ pipe' = Append(pipe, [type |-> "subscribed"])
    /\ UNCHANGED <<spoolerVars, pub, first, got>>

(* Fault: chanhead_push_message leaves prev_id at zero. *)
PrevIdZero == 0

PrevId == IF first <= pub THEN pub ELSE 0

(* chanhead_push_message: prev_id is that of the last stored message, the
   zero id if there is none, and the oldest message over the limit goes.
   nchan_memstore_publish_generic hands it to the ipc subscriber, whose alert
   is not sent when there is no shared memory left for the channel's id. *)
publish ==
    /\ pub < MaxId
    /\ pub' = pub + 1
    /\ first' = IF pub + 1 - first >= MaxStored THEN first + 1 ELSE first
    /\ \/ /\ subscribed
          /\ pipe' = Append(pipe, [type |-> "msg", id |-> pub + 1, prev |-> PrevId])
       \/ /\ MayExhaust \/ ~subscribed
          /\ pipe' = pipe
    /\ UNCHANGED <<spoolerVars, subscribed, got>>

(* chanhead_messages_gc_custom finds the oldest message expired. *)
expire ==
    /\ first <= pub
    /\ first' = first + 1
    /\ UNCHANGED <<spoolerVars, pub, subscribed, pipe, got>>

(* The message an Nth subscriber gets, the buffer being nonempty. *)
NthMessage ==
    LET n == IF NthTag > 0 THEN first + NthTag - 1 ELSE pub + NthTag + 1
    IN  IF n < first THEN first ELSE IF n > pub THEN pub ELSE n

(* Fault: the id of the first message counts as being before it. *)
AfterOrFirst(i) == IF i <= first THEN first ELSE i + 1

(* The message after id i that is stored, or would be. *)
After(i) == IF i < first THEN first ELSE i + 1

(* chanhead_find_next_message *)
chanhead_find_next_message(i) ==
    LET found(m) == [type |-> "reply", req |-> i, code |-> "FOUND", id |-> m]
        none(code) == [type |-> "reply", req |-> i, code |-> code]
    IN  IF first > pub
          THEN none(IF i = Oldest THEN "EXPECTED" ELSE "NOTFOUND")
          ELSE IF i = Nth THEN found(NthMessage)
          ELSE IF After(i) <= pub THEN found(After(i)) ELSE none("EXPECTED")

(* Requests for i that the owner has not answered yet. *)
Unanswered(i) ==
    fetches[i] - Cardinality({k \in DOMAIN pipe :
                                pipe[k].type = "reply" /\ pipe[k].req = i})

(* receive_get_message *)
receive_get_message(i) ==
    /\ Unanswered(i) > 0
    /\ pipe' = Append(pipe, chanhead_find_next_message(i))
    /\ UNCHANGED <<spoolerVars, ownerVars, got>>

-----------------------------------------------------------------------------
(* The worker that has the subscribers: the next packet of the pipe. *)

received == pipe # <<>> /\ pipe' = Tail(pipe)

(* Subscribers of the spools in From are sent m. *)
sent(From, m) == [s \in Subs |-> IF at[s] \in From THEN Append(got[s], m) ELSE got[s]]

(* receive_subscribe_reply, which makes the chanhead READY. *)
receive_subscribe_reply ==
    /\ received
    /\ Head(pipe).type = "subscribed"
    /\ spooler_channel_status_changed
    /\ UNCHANGED <<ownerVars, got>>

(* receive_publish_message on a worker that does not own the channel. *)
receive_publish_message ==
    /\ received
    /\ Head(pipe).type = "msg"
    /\ LET p == Head(pipe)
       IN  /\ spooler_respond_message(p.prev, p.id)
           /\ got' = sent(InRange(p.prev, p.id) \cup {Newest}, p.id)
    /\ UNCHANGED ownerVars

(* receive_get_message_reply *)
receive_get_message_reply ==
    /\ received
    /\ Head(pipe).type = "reply"
    /\ LET p == Head(pipe)
       IN  \/ /\ p.code = "FOUND"
              /\ fetch_callback_found(p.req, p.id)
              /\ got' = sent({p.req}, p.id)
           \/ /\ p.code = "EXPECTED"
              /\ fetch_callback_expected(p.req)
              /\ UNCHANGED got
           \/ /\ p.code = "NOTFOUND"
              /\ fetch_callback_notfound(p.req)
              /\ UNCHANGED got
           \/ /\ fetch_callback_discard(p.req)
              /\ UNCHANGED got
    /\ UNCHANGED ownerVars

(* nchan_store_subscribe on this worker, and the other local events. *)
local(A) == A /\ UNCHANGED <<ownerVars, pipe, got>>
subscribe(s) == local(spooler_add_subscriber(s))
disconnect(s) == local(spool_sub_dequeue_callback(s))
timeout(i) == local(fetchmsg_ev_handler(i))

DeliveryNext ==
    \/ receive_subscribe
    \/ publish
    \/ expire
    \/ \E i \in TreeIds : receive_get_message(i) \/ timeout(i)
    \/ receive_subscribe_reply
    \/ receive_publish_message
    \/ receive_get_message_reply
    \/ \E s \in Subs : subscribe(s) \/ disconnect(s)

(* Both event loops keep running: the owner serves what it is asked, the
   worker reads its pipe and its timers fire.  Publishers and clients owe
   nothing. *)
Fairness ==
    /\ WF_vars(receive_subscribe)
    /\ \A i \in TreeIds : WF_vars(receive_get_message(i)) /\ WF_vars(timeout(i))
    /\ WF_vars(receive_subscribe_reply \/ receive_publish_message
                 \/ receive_get_message_reply)

DeliverySpec == DeliveryInit /\ [][DeliveryNext]_vars /\ Fairness

-----------------------------------------------------------------------------
(* No subscriber is sent a message twice or out of order, however its fetch
   and the published messages race. *)
InOrder ==
    \A s \in Subs : \A k \in 1 .. Len(got[s]) - 1 : got[s][k] < got[s][k + 1]

(* No subscriber misses a message: those between two that it was sent had
   been dropped from the channel's buffer.  One whose alert was not sent is
   not skipped either: the next one names it, and reaches nobody before it. *)
NoGap ==
    \A s \in Subs : \A k \in 1 .. Len(got[s]) - 1 :
        \A m \in MsgIds : got[s][k] < m /\ m < got[s][k + 1] => m < first

(* A subscriber that stays connected gets past every message that stays
   stored, unless the worker aborts or the shared memory is exhausted: nobody
   sends an alert again. *)
EventuallyPast ==
    \A s \in Subs : \A m \in MsgIds :
        (~MayExhaust /\ at[s] # Idle /\ last[s] \in 0 .. m - 1 /\ m <= pub)
          ~> (at[s] = Idle \/ last[s] >= m \/ m < first \/ crash # "none")
=============================================================================
