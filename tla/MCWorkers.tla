------------------------------ MODULE MCWorkers ------------------------------
(***************************************************************************)
(* Four instances in one run, of which a behaviour takes one (part):       *)
(*   "buffer"    MsgBuffer with publishers that all buffer;                *)
(*   "lookup"    MsgBuffer with publishers that do not, and deletions;     *)
(*   "ipc"       IpcQueue;                                                 *)
(*   "progress"  Delivery, with the fairness of the workers.               *)
(***************************************************************************)
EXTENDS MCMsgBuffer, IpcQueue

CONSTANTS
    MaxSent,                                    \* "ipc": alerts sent
    Subs, LongPoll, MaxId, Starts, MayDefer, MayFail, MaxStored, NthTag, MayExhaust,
    MaxPipe,                                    \* "progress": packets in the pipe
    MaxFetches                                  \* "progress": requests that the owner may owe

VARIABLES
    part,
    lnow, lmax, lbuf, llatest, lbefore, lprev,  \* of "lookup"
    status, spool, at, last, timer, fetches, stale, crash, pub, dfirst, subscribed, dpipe, got

L == INSTANCE MCMsgBuffer WITH
        Lengths <- {0, 1, 3}, TagMax <- 3, MayDelete <- TRUE, MaxTime <- 4, MaxTag <- 2,
        now <- lnow, max <- lmax, buf <- lbuf, latest <- llatest, before <- lbefore, prev <- lprev

D == INSTANCE Delivery WITH first <- dfirst, pipe <- dpipe

lookupVars == <<lnow, lmax, lbuf, llatest, lbefore, lprev>>
deliveryVars == <<status, spool, at, last, timer, fetches, stale, crash, pub, dfirst, subscribed,
                  dpipe, got>>
MCvars == <<part, bufferVars, lookupVars, ipcVars, deliveryVars>>

MCStarts == {0, -1, -2}   \* oldest, newest and Nth message

MCInit ==
    /\ part \in {"buffer", "lookup", "ipc", "progress"}
    /\ BufferInit /\ L!BufferInit /\ IpcInit
    /\ D!DeliveryInit
    /\ part # "progress" => last = [s \in Subs |-> 0]

MCNext ==
    /\ UNCHANGED part
    /\ IF part = "buffer" THEN BufferBoundedNext ELSE UNCHANGED bufferVars
    /\ IF part = "lookup" THEN L!BufferBoundedNext ELSE UNCHANGED lookupVars
    /\ IF part = "ipc" THEN IpcNext /\ sent' <= MaxSent ELSE UNCHANGED ipcVars
    /\ IF part = "progress"
         THEN /\ D!DeliveryNext
              /\ Len(dpipe') <= MaxPipe
              /\ \A k \in D!TreeIds : fetches'[k] <= MaxFetches
         ELSE UNCHANGED deliveryVars

(* IpcFairness and the Fairness of Delivery, each in its own part. *)
MCFairness ==
    /\ WF_ipcVars(part = "ipc" /\ write_event)
    /\ WF_ipcVars(part = "ipc" /\ (ipc_write_alert_fd \/ write_loop_ends))
    /\ WF_ipcVars(part = "ipc" /\ memstore_ready)
    /\ WF_ipcVars(part = "ipc" /\ ipc_read_handler)
    /\ WF_deliveryVars(part = "progress" /\ D!receive_subscribe)
    /\ \A k \in D!TreeIds :
          /\ WF_deliveryVars(part = "progress" /\ D!receive_get_message(k))
          /\ WF_deliveryVars(part = "progress" /\ D!timeout(k))
    /\ WF_deliveryVars(part = "progress" /\ (D!receive_subscribe_reply \/ D!receive_publish_message
                                                \/ D!receive_get_message_reply))

MCSpec == MCInit /\ [][MCNext]_MCvars /\ MCFairness

-----------------------------------------------------------------------------
(* See FindsNext: what a reader is given is the message after its own, however
   publishers with and without a buffer and deletions took turns. *)
LookupFindsNext == L!FindsNext

(* Every alert that ipc_alert takes is received in the end, however often the
   pipe is full, the ring overflows or the memory store starts late. *)
AllReceived == \A k \in 1 .. MaxSent : EventuallyReceived(k)

(* A subscriber that stays connected gets past every message that stays
   stored, unless its worker aborts or the shared memory is exhausted
   (Delivery, with spool_fetch_msg's limit). *)
EventuallyPast == D!EventuallyPast
=============================================================================
