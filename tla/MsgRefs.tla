------------------------------- MODULE MsgRefs -------------------------------
(***************************************************************************)
(* The reference count of one message in shared memory (util/nchan_msg.c): *)
(* who reserves it, who releases it, and when the owner of its channel     *)
(* reaps it.  The worker MsgOwner keeps the channel; the others get the    *)
(* message in alerts, and each runs in parallel with the owner, so that    *)
(* their handlers are modelled reservation by reservation.                 *)
(***************************************************************************)
EXTENDS Integers, FiniteSets, Functions

CONSTANTS
    Workers, MsgOwner,
    Requests,   \* clients with output that the kernel may not take at once
    WorkerOf,   \* the worker that serves a request
    MaxAlerts   \* alerts with the message on the way to a worker

ASSUME MsgRefsAssumption ==
    /\ MsgOwner \in Workers /\ WorkerOf \in [Requests -> Workers] /\ MaxAlerts \in Nat
    /\ IsFiniteSet(Workers) /\ IsFiniteSet(Requests)

VARIABLES
    refcount,
    place,    \* where the owner keeps it
    toOwner,  \* it is on the way from the worker that published it
    alerts,   \* how many alerts carry it to a worker
    busy,     \* workers in a handler of such an alert
    out       \* how a request's output queue holds it

refsVars == <<refcount, place, toOwner, alerts, busy, out>>

MSG_REFCOUNT_INVALID == -9000

Others == Workers \ {MsgOwner}

(* "new": not handed to the owner yet.  "nobuffer" and "reaper": on the list
   of a reaper.  "freed": reaped. *)
Places == {"none", "new", "buffer", "nobuffer", "reaper", "freed"}

RefsInit ==
    /\ refcount = 0 /\ place = "none" /\ toOwner = FALSE
    /\ alerts = [w \in Others |-> 0]
    /\ busy = {}
    /\ out = [r \in Requests |-> "none"]

-----------------------------------------------------------------------------
(* msg_reserve and msg_release, of a shared message or through a derived one. *)
reserved(n) == refcount' = refcount + n
given_back(n) == refcount' = refcount - n

(* Any of the requests in R have output left, and reserve the message: as it
   is, or in a derived copy on the heap (nchan_output_reserve_message_queue). *)
outputs(R, S, how) == out' = [r \in Requests |-> IF r \in S THEN how ELSE out[r]]

Idle(w) == {r \in Requests : WorkerOf[r] = w /\ out[r] = "none"}

(* The owner publishes: its clients and the ipc subscribers of the workers in
   W get the message in one go; a message with no place in a buffer is with
   the reaper for unbuffered messages already. *)
publish_to(W, S, how, n) ==
    /\ S \subseteq Idle(MsgOwner)
    /\ outputs(Requests, S, how)
    /\ \A w \in W : alerts[w] < MaxAlerts
    /\ alerts' = [w \in Others |-> IF w \in W THEN alerts[w] + 1 ELSE alerts[w]]
    /\ place' \in {"buffer", "nobuffer"}
    /\ reserved(Cardinality(W) + Cardinality(S) - n)

(* nchan_store_chanhead_publish_message_generic on the owner. *)
publish_here ==
    /\ place = "none"
    /\ \E W \in SUBSET Others, S \in SUBSET Requests, how \in {"direct", "derived"} :
          publish_to(W, S, how, 0)
    /\ UNCHANGED <<toOwner, busy>>

(* The same on another worker: memstore_ipc_send_publish_message. *)
publish_there ==
    /\ place = "none"
    /\ place' = "new" /\ toOwner' = TRUE
    /\ reserved(1)
    /\ UNCHANGED <<alerts, busy, out>>

(* receive_publish_message on the owner *)
owner_receive_publish_message ==
    /\ toOwner /\ toOwner' = FALSE
    /\ \E W \in SUBSET Others, S \in SUBSET Requests, how \in {"direct", "derived"} :
          publish_to(W, S, how, 1)
    /\ UNCHANGED busy

(* Fault: the message in a reply is not reserved. *)
receive_get_message_free(w) ==
    /\ place = "buffer" /\ alerts[w] < MaxAlerts
    /\ alerts' = [alerts EXCEPT ![w] = @ + 1]
    /\ UNCHANGED <<refcount, place, toOwner, busy, out>>

(* receive_get_message on the owner, for a request of w. *)
receive_get_message(w) ==
    /\ place = "buffer" /\ alerts[w] < MaxAlerts
    /\ alerts' = [alerts EXCEPT ![w] = @ + 1]
    /\ reserved(1)
    /\ UNCHANGED <<place, toOwner, busy, out>>

(* A client of the owner gets it from the buffer. *)
get_message_here(r) ==
    /\ place = "buffer" /\ r \in Idle(MsgOwner)
    /\ \E how \in {"direct", "derived"} : outputs(Requests, {r}, how)
    /\ reserved(1)
    /\ UNCHANGED <<place, toOwner, alerts, busy>>

(* A worker takes an alert from its pipe and starts handling it ... *)
begin_handler(w) ==
    /\ alerts[w] > 0 /\ w \notin busy
    /\ alerts' = [alerts EXCEPT ![w] = @ - 1]
    /\ busy' = busy \cup {w}
    /\ UNCHANGED <<refcount, place, toOwner, out>>

(* ... in which a client's output may reserve the message ... *)
reserve_output(w, r) ==
    /\ w \in busy /\ r \in Idle(w)
    /\ \E how \in {"direct", "derived"} : outputs(Requests, {r}, how)
    /\ reserved(1)
    /\ UNCHANGED <<place, toOwner, alerts, busy>>

(* Fault: the alert's reservation is kept. *)
end_handler_kept(w) ==
    /\ w \in busy
    /\ busy' = busy \ {w}
    /\ UNCHANGED <<refcount, place, toOwner, alerts, out>>

(* ... and which ends with the release of the alert's reservation. *)
end_handler(w) ==
    /\ w \in busy
    /\ busy' = busy \ {w}
    /\ given_back(1)
    /\ UNCHANGED <<place, toOwner, alerts, out>>

(* The output has been sent, or the request ends: its queue of reserved
   messages is flushed. *)
flush_output(r) ==
    /\ out[r] # "none"
    /\ outputs(Requests, {r}, "none")
    /\ given_back(1)
    /\ UNCHANGED <<place, toOwner, alerts, busy>>

(* nchan_memstore_store_msg_ready_to_reap_generic and memstore_reap_message:
   the count is compared with 0 and invalidated atomically. *)
reap(from) ==
    /\ place = from /\ refcount = 0
    /\ refcount' = MSG_REFCOUNT_INVALID
    /\ place' = "freed"

(* chanhead_delete_message: out of the buffer, and to the reaper, which reaps
   it at once if it can. *)
chanhead_delete_message ==
    /\ place = "buffer"
    /\ reap("buffer") \/ (refcount # 0 /\ place' = "reaper" /\ UNCHANGED refcount)
    /\ UNCHANGED <<toOwner, alerts, busy, out>>

(* A later round of either reaper. *)
reap_later ==
    /\ reap("reaper") \/ reap("nobuffer")
    /\ UNCHANGED <<toOwner, alerts, busy, out>>

-----------------------------------------------------------------------------
RefsNext ==
    \/ publish_here \/ publish_there \/ owner_receive_publish_message
    \/ \E w \in Others : receive_get_message(w) \/ begin_handler(w) \/ end_handler(w)
    \/ \E r \in Requests : get_message_here(r) \/ flush_output(r)
    \/ \E w \in Others, r \in Requests : reserve_output(w, r)
    \/ chanhead_delete_message
    \/ reap_later

(* Pipes are read, handlers end, output is sent or times out, messages
   expire, and the reapers' timers run: none of these is left undone for
   good.  Each formula is weak fairness of the action that ends the state
   it names. *)
RefsFairness ==
    /\ \A w \in Others : []<>(alerts[w] = 0 \/ w \in busy) /\ []<>(w \notin busy)
    /\ \A r \in Requests : []<>(out[r] = "none")
    /\ []<>(~toOwner)
    /\ []<>(place # "buffer")
    /\ []<>(refcount # 0 \/ place \notin {"reaper", "nobuffer"})

RefsSpec == RefsInit /\ [][RefsNext]_refsVars /\ RefsFairness

-----------------------------------------------------------------------------
(* The count is a number of holders or the mark of a message that is freed. *)
RefsTypeOK ==
    /\ place \in Places /\ refcount \in Nat \cup {MSG_REFCOUNT_INVALID}
    /\ toOwner \in BOOLEAN /\ alerts \in [Others -> 0 .. MaxAlerts] /\ busy \subseteq Others
    /\ out \in [Requests -> {"none", "direct", "derived"}]

Holders ==
    (IF toOwner THEN 1 ELSE 0) + Cardinality(busy)
    + SumFunction(alerts)
    + Cardinality({r \in Requests : out[r] # "none"})

(* Until it is reaped, the message's count is that of its holders: the alerts
   that carry it, the handlers that use it, and the output that is not sent. *)
RefcountExact == place # "freed" => refcount = Holders

(* A message that has been freed is in nobody's hands. *)
NoUseAfterFree == place = "freed" => Holders = 0

(* No holder of a message finds it freed, because the count never differs
   from the number of holders, whichever workers reserve and release it. *)
RefsSafe == RefsTypeOK /\ RefcountExact /\ NoUseAfterFree

(* A published message does not stay in shared memory for good. *)
EventuallyFreed == (place # "none") ~> (place = "freed")
=============================================================================
