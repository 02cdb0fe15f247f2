-------------------------------- MODULE RwLock --------------------------------
(***************************************************************************)
(* The readers-writer lock of ngx_rwlock.c, in memory shared by the        *)
(* workers.  The word lock counts readers, or is -1 for a writer; it is    *)
(* read without the mutex first, and read again and changed with it.  A    *)
(* process is at a place of the code, pc[p].                               *)
(***************************************************************************)
EXTENDS Integers, FiniteSets

CONSTANTS Procs,    \* the pids of the workers
          NoPid     \* the pid 0

ASSUME ProcsAssumption == IsFiniteSet(Procs) /\ NoPid \notin Procs

NGX_RWLOCK_WRITE == -1

VARIABLES mutex, lock, write_pid, pc
rwVars == <<mutex, lock, write_pid, pc>>

\* Places of reserve_read, release_read, reserve_write and release_write: the first test (check), the wait
\* for the mutex (mutex), the second test (in), the change (do), and the unlocking, with what was asked for
\* (out) or without (failed).
Places == {"idle", "reading", "writing",
           "read_check", "read_mutex", "read_in", "read_do", "read_out", "read_failed",
           "unread_check", "unread_mutex", "unread_in", "unread_do", "unread_out",
           "write_check", "write_mutex", "write_in", "write_do", "write_out", "write_failed",
           "unwrite_check", "unwrite_mutex", "unwrite_in", "unwrite_do", "unwrite_out"}

ngx_rwlock_init == mutex = NoPid /\ lock = 0 /\ write_pid = NoPid /\ pc = [p \in Procs |-> "idle"]

goes(p, from, to) == pc[p] = from /\ pc' = [pc EXCEPT ![p] = to]

\* A call begins; a process releases what it holds.
calls(p) ==
    /\ \/ goes(p, "idle", "read_check") \/ goes(p, "reading", "unread_check")
       \/ goes(p, "idle", "write_check") \/ goes(p, "writing", "unwrite_check")
    /\ UNCHANGED <<mutex, lock, write_pid>>

rwl_lock_mutex(p) ==
    /\ mutex = NoPid /\ mutex' = p
    /\ \/ goes(p, "read_mutex", "read_in") \/ goes(p, "unread_mutex", "unread_in")
       \/ goes(p, "write_mutex", "write_in") \/ goes(p, "unwrite_mutex", "unwrite_in")
    /\ UNCHANGED <<lock, write_pid>>

\* A failed reservation begins again.
rwl_unlock_mutex(p) ==
    /\ mutex' = IF mutex = p THEN NoPid ELSE mutex
    /\ \/ goes(p, "read_out", "reading") \/ goes(p, "read_failed", "read_check")
       \/ goes(p, "write_out", "writing") \/ goes(p, "write_failed", "write_check")
       \/ goes(p, "unread_out", "idle") \/ goes(p, "unwrite_out", "idle")
    /\ UNCHANGED <<lock, write_pid>>

ngx_rwlock_reserve_read(p) ==
    \/ /\ lock # NGX_RWLOCK_WRITE /\ goes(p, "read_check", "read_mutex")
       /\ UNCHANGED <<mutex, lock, write_pid>>
    \/ /\ goes(p, "read_in", IF lock # NGX_RWLOCK_WRITE THEN "read_do" ELSE "read_failed")
       /\ UNCHANGED <<mutex, lock, write_pid>>
    \/ goes(p, "read_do", "read_out") /\ lock' = lock + 1 /\ UNCHANGED <<mutex, write_pid>>

\* A read lock that the word lock does not count is not released, and nobody hears of it.
ngx_rwlock_release_read(p) ==
    LET counted == lock # NGX_RWLOCK_WRITE /\ lock # 0
    IN \/ /\ goes(p, "unread_check", IF counted THEN "unread_mutex" ELSE "idle")
          /\ UNCHANGED <<mutex, lock, write_pid>>
       \/ /\ goes(p, "unread_in", IF counted THEN "unread_do" ELSE "unread_out")
          /\ UNCHANGED <<mutex, lock, write_pid>>
       \/ goes(p, "unread_do", "unread_out") /\ lock' = lock - 1 /\ UNCHANGED <<mutex, write_pid>>

\* Fault: a writer does not wait for the readers.
write_among_readers(p) ==
    \/ lock >= 0 /\ goes(p, "write_check", "write_mutex") /\ UNCHANGED <<mutex, lock, write_pid>>
    \/ /\ goes(p, "write_in", IF lock >= 0 THEN "write_do" ELSE "write_failed")
       /\ UNCHANGED <<mutex, lock, write_pid>>
    \/ /\ goes(p, "write_do", "write_out")
       /\ lock' = NGX_RWLOCK_WRITE /\ write_pid' = p /\ UNCHANGED mutex

ngx_rwlock_write_check(p) ==
    \/ lock = 0 /\ goes(p, "write_check", "write_mutex") /\ UNCHANGED <<mutex, lock, write_pid>>
    \/ /\ goes(p, "write_in", IF lock = 0 THEN "write_do" ELSE "write_failed")
       /\ UNCHANGED <<mutex, lock, write_pid>>
    \/ /\ goes(p, "write_do", "write_out")
       /\ lock' = NGX_RWLOCK_WRITE /\ write_pid' = p /\ UNCHANGED mutex

ngx_rwlock_release_write(p) ==
    \/ /\ goes(p, "unwrite_check", IF lock = NGX_RWLOCK_WRITE THEN "unwrite_mutex" ELSE "idle")
       /\ UNCHANGED <<mutex, lock, write_pid>>
    \/ /\ goes(p, "unwrite_in", IF lock = NGX_RWLOCK_WRITE THEN "unwrite_do" ELSE "unwrite_out")
       /\ UNCHANGED <<mutex, lock, write_pid>>
    \/ /\ goes(p, "unwrite_do", "unwrite_out")
       /\ lock' = 0 /\ write_pid' = NoPid /\ UNCHANGED mutex

rwStep(p) ==
    \/ rwl_lock_mutex(p) \/ rwl_unlock_mutex(p)
    \/ ngx_rwlock_reserve_read(p) \/ ngx_rwlock_release_read(p)
    \/ ngx_rwlock_write_check(p) \/ ngx_rwlock_release_write(p)

RwNext == \E p \in Procs : calls(p) \/ rwStep(p)

RwSpec == ngx_rwlock_init /\ [][RwNext]_rwVars

-------------------------------------------------------------------------------
\* Properties

Readers == {p \in Procs : pc[p] \in {"read_out", "reading", "unread_check", "unread_mutex", "unread_in", "unread_do"}}
Writers == {p \in Procs : pc[p] \in {"write_out", "writing", "unwrite_check", "unwrite_mutex",
                                     "unwrite_in", "unwrite_do"}}
InMutex == {p \in Procs : pc[p] \in {"read_in", "read_do", "read_out", "read_failed",
                                     "unread_in", "unread_do", "unread_out",
                                     "write_in", "write_do", "write_out", "write_failed",
                                     "unwrite_in", "unwrite_do", "unwrite_out"}}

\* The variables have their types.
RwTypeOK ==
    /\ mutex \in Procs \cup {NoPid} /\ write_pid \in Procs \cup {NoPid}
    /\ lock \in Int /\ lock >= NGX_RWLOCK_WRITE
    /\ pc \in [Procs -> Places]

\* The word lock says who holds it: -1 and the pid of the writer, or the number of the readers.  So what
\* release_read and release_write test always holds, and no release is lost.
LockExact ==
    /\ lock = NGX_RWLOCK_WRITE <=> Writers # {}
    /\ lock # NGX_RWLOCK_WRITE => lock = Cardinality(Readers)
    /\ \A p \in Writers : write_pid = p
    /\ Writers # {} => Readers = {}

\* The inductive invariant: the process in the mutex is the one it names, and what that process found in
\* its second test still holds when it changes the lock.
RwInvariant ==
    /\ RwTypeOK /\ LockExact
    /\ \A p \in Procs : p \in InMutex <=> mutex = p
    /\ \A p \in Procs : pc[p] = "read_do" => lock # NGX_RWLOCK_WRITE
    /\ \A p \in Procs : pc[p] = "write_do" => lock = 0

Abstract == INSTANCE ReadersWriter WITH readers <- Readers, writers <- Writers

\* Between the two tests of a call others may come and go, and still there are readers or one writer: the
\* code implements the lock that ReadersWriter specifies.
LockPromise == Abstract!RWSpec
===============================================================================
