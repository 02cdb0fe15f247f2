------------------------------ MODULE IpcQueue ------------------------------
(***************************************************************************)
(* Alerts from one worker to another (store/memory/ipc.c): the sender's    *)
(* write buffer, a ring of IPC_WRITEBUF_SIZE slots with an overflow list   *)
(* behind it, and the pipe.  The sender is one thread; the receiver drains *)
(* the pipe at the same time.  Alerts are numbered in the order in which   *)
(* ipc_alert is called.                                                    *)
(***************************************************************************)
EXTENDS Integers, Sequences

CONSTANTS
    SIZE,      \* IPC_WRITEBUF_SIZE, 32 in the code
    FirstMod,  \* wbuf.first is stored modulo this, 2^16 in the code (uint16_t)
    PipeCap    \* alerts that fit into the pipe

ASSUME IpcAssumption ==
    /\ SIZE \in Nat \ {0}
    /\ FirstMod \in Nat \ {0}
    /\ FirstMod % SIZE = 0
    /\ PipeCap \in Nat \ {0}

VARIABLES
    first, n,  \* wbuf.first, wbuf.n
    alerts,    \* wbuf.alerts
    overflow,  \* the overflow list
    i,         \* the loop index of the ipc_write_handler that is running, or -1
    wake,      \* what the write event waits for: a writable pipe, its timer
    store,     \* "ready" once memstore_ready()
    pipe,      \* alerts written and not read
    sent,      \* alerts that ipc_alert has accepted
    received   \* alerts given to the receiver's handler

ipcVars == <<first, n, alerts, overflow, i, wake, store, pipe, sent, received>>

(* The ring of ipc.c stays within its size, and the number of its alerts and
   the overflow queue keep their types. *)
IpcTypeOK ==
    /\ first \in 0 .. FirstMod - 1
    /\ n \in 0 .. SIZE
    /\ alerts \in [0 .. SIZE - 1 -> Nat]
    /\ overflow \in Seq(Nat)
    /\ i \in Nat \cup {-1}
    /\ wake \subseteq {"writable", "timer"}
    /\ store \in {"starting", "ready"}
    /\ pipe \in Seq(Nat)
    /\ sent \in Nat /\ received \in Nat

IpcInit ==
    /\ first = 0 /\ n = 0
    /\ alerts = [k \in 0 .. SIZE - 1 |-> 0]
    /\ overflow = <<>>
    /\ i = -1
    /\ wake = {}
    /\ store = "starting"
    /\ pipe = <<>>
    /\ sent = 0 /\ received = 0

Slot(k) == k % SIZE
Running == i # -1

-----------------------------------------------------------------------------
(* The sender. *)

(* The head of ipc_write_handler, called when the event waits for w: try
   again in a second if the memory store has not started, else go through
   the ring. *)
ipc_write_handler(w) ==
    IF store = "ready" THEN i' = first /\ wake' = w
    ELSE i' = i /\ wake' = w \cup {"timer"}

(* ipc_alert: into the ring, or behind the overflow list when it is full. *)
ipc_alert ==
    /\ ~Running
    /\ sent' = sent + 1
    /\ IF n < SIZE
         THEN /\ alerts' = [alerts EXCEPT ![Slot(first + n)] = sent + 1]
              /\ n' = n + 1
              /\ UNCHANGED overflow
         ELSE /\ overflow' = Append(overflow, sent + 1)
              /\ UNCHANGED <<alerts, n>>
    /\ ipc_write_handler(wake)
    /\ UNCHANGED <<first, store, pipe, received>>

(* Fault: a timer that runs out is ignored, as in ipc_read_handler. *)
write_event_untimed ==
    /\ ~Running
    /\ "writable" \in wake /\ Len(pipe) < PipeCap /\ ipc_write_handler(wake \ {"writable"})
    /\ UNCHANGED <<first, n, alerts, overflow, store, pipe, sent, received>>

(* The event loop calls ipc_write_handler: the pipe is writable again, or the
   timer has run out. *)
write_event ==
    /\ ~Running
    /\ \/ "writable" \in wake /\ Len(pipe) < PipeCap /\ ipc_write_handler(wake \ {"writable"})
       \/ "timer" \in wake /\ ipc_write_handler(wake \ {"timer"})
    /\ UNCHANGED <<first, n, alerts, overflow, store, pipe, sent, received>>

(* Fault: each turn writes the first alert of the ring. *)
ipc_write_alert_fd_first ==
    /\ Running
    /\ i < first + n
    /\ Len(pipe) < PipeCap
    /\ pipe' = Append(pipe, alerts[Slot(first)])
    /\ i' = i + 1
    /\ UNCHANGED <<first, n, alerts, overflow, wake, store, sent, received>>

(* One turn of the write loop; the kernel takes the alert. *)
ipc_write_alert_fd ==
    /\ Running
    /\ i < first + n
    /\ Len(pipe) < PipeCap
    /\ pipe' = Append(pipe, alerts[Slot(i)])
    /\ i' = i + 1
    /\ UNCHANGED <<first, n, alerts, overflow, wake, store, sent, received>>

(* The rest of ipc_write_handler, after the loop ended or the kernel said
   EAGAIN: the ring is advanced, overflow moves up into the slots that are
   free, and the handler starts over or waits for the pipe. *)
Squeezed(room) == IF Len(overflow) < room THEN Len(overflow) ELSE room

write_loop_ends ==
    LET aborted == i < first + n
        first1 == IF aborted THEN i % FirstMod ELSE 0
        n1 == IF aborted THEN n - (i - first) ELSE 0
        squeeze == overflow # <<>> /\ i > first
        m == IF squeeze THEN Squeezed(SIZE - n1) ELSE 0
    IN  /\ Running
        /\ aborted => Len(pipe) >= PipeCap
        /\ first' = first1
        /\ n' = n1 + m
        /\ alerts' = [k \in 0 .. SIZE - 1 |->
                        LET j == (k - Slot(first1 + n1)) % SIZE
                        IN  IF j < m THEN overflow[j + 1] ELSE alerts[k]]
        /\ overflow' = SubSeq(overflow, m + 1, Len(overflow))
        /\ i' = IF squeeze /\ ~aborted THEN first1 ELSE -1
        /\ wake' = IF aborted THEN wake \cup {"writable"} ELSE wake
        /\ UNCHANGED <<store, pipe, sent, received>>

memstore_ready ==
    /\ store = "starting"
    /\ store' = "ready"
    /\ UNCHANGED <<first, n, alerts, overflow, i, wake, pipe, sent, received>>

-----------------------------------------------------------------------------
(* The receiver: ipc_read_handler hands the next alert to its handler. *)
ipc_read_handler ==
    /\ pipe # <<>>
    /\ pipe' = Tail(pipe)
    /\ received' = Head(pipe)
    /\ UNCHANGED <<first, n, alerts, overflow, i, wake, store, sent>>

IpcNext ==
    \/ ipc_alert
    \/ write_event
    \/ ipc_write_alert_fd
    \/ write_loop_ends
    \/ memstore_ready
    \/ ipc_read_handler

(* Both event loops run, writable pipes and timers are reported, and the
   memory store starts. *)
IpcFairness ==
    /\ WF_ipcVars(write_event)
    /\ WF_ipcVars(ipc_write_alert_fd \/ write_loop_ends)
    /\ WF_ipcVars(memstore_ready)
    /\ WF_ipcVars(ipc_read_handler)

IpcSpec == IpcInit /\ [][IpcNext]_ipcVars /\ IpcFairness

-----------------------------------------------------------------------------
(* The alerts still in the ring: those the write loop has not passed. *)
InRing ==
    LET from == IF Running THEN i ELSE first
    IN  [k \in 1 .. first + n - from |-> alerts[Slot(from + k - 1)]]

(* Alerts arrive exactly once and in the order in which they were sent: what
   is in the pipe, then in the ring, then in the overflow list continues what
   has been received, without a gap, a repetition or a swap. *)
Fifo ==
    pipe \o InRing \o overflow = [k \in 1 .. sent - received |-> received + k]

(* The overflow list is used only behind a full ring, so that an alert that
   finds room in the ring cannot overtake it. *)
OverflowBehindFullRing == overflow # <<>> => n = SIZE

(* Alerts that ipc_write_handler leaves behind will be looked at again. *)
NotStranded == ~Running /\ n > 0 => wake # {}

(* The k-th alert is received in the end. *)
EventuallyReceived(k) == sent >= k ~> received >= k
=============================================================================
