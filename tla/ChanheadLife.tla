---------------------------- MODULE ChanheadLife ----------------------------
(***************************************************************************)
(* The life of one channel's heads (memstore_channel_head_t) on the worker *)
(* that owns the channel and on another worker, F, that has subscribers of *)
(* it: creation, readiness, the ipc subscriber that F keeps on the owner,  *)
(* its keepalive, deletion of the channel, garbage collection and reaping. *)
(* Messages are those of store/memory/ipc-handlers.c, in two FIFO pipes.   *)
(* Without Redis, multi-channels and worker shutdown.                      *)
(*                                                                         *)
(* Addresses are numbered: the k-th head that a worker allocates is k, and *)
(* so is the k-th ipc subscriber; 0 is NULL.                               *)
(***************************************************************************)
EXTENDS Integers, Sequences, FiniteSets

CONSTANTS
    MaxSubs,    \* clients of each worker
    MaxIpcSubs, \* ipc subscribers that the owner creates
    MayCrash,   \* TRUE if the worker F may be killed once and respawned
    MayFull     \* TRUE if shared memory may be exhausted

ASSUME ChanheadAssumption ==
    MaxSubs \in Nat /\ MaxIpcSubs \in Nat /\ {MayCrash, MayFull} \subseteq BOOLEAN

VARIABLES
    own,    \* the owner's head
    fgn,    \* F's head
    ipc,    \* the ipc subscribers, in order of creation
    toF,    \* alerts on the way to F
    toOwn,  \* alerts on the way to the owner
    crashes,\* how often F has been killed
    failed  \* the assertion or the stale pointer that stops a worker

chanheadVars == <<own, fgn, ipc, toF, toOwn, crashes, failed>>

(* status "none": there is no head.  addr numbers the latest one. *)
Owner == [status : {"none", "READY", "INACTIVE"}, addr : Nat, subs : 0 .. MaxSubs,
          reserved : Nat, refs : Int, shsubs : Int, msgs : 0 .. 1]
Foreign == [status : {"none", "NOTREADY", "WAITING", "READY", "INACTIVE"}, addr : Nat,
            subs : 0 .. MaxSubs, sub : Nat, shared : Nat]
IpcSub == [st : {"enqueued", "lingering", "freed"}, origin : Nat,
           hooked : BOOLEAN, reserved : Nat, timer : BOOLEAN]

ChanheadInit ==
    /\ own = [status |-> "none", addr |-> 0, subs |-> 0, reserved |-> 0, refs |-> 0,
              shsubs |-> 0, msgs |-> 0]
    /\ fgn = [status |-> "none", addr |-> 0, subs |-> 0, sub |-> 0, shared |-> 0]
    /\ ipc = <<>> /\ toF = <<>> /\ toOwn = <<>>
    /\ crashes = 0 /\ failed = "none"

fail(line) == failed' = line /\ UNCHANGED <<own, fgn, ipc, toF, toOwn, crashes>>

-----------------------------------------------------------------------------
(* The owner's head. *)

Enqueued == {s \in DOMAIN ipc : ipc[s].st = "enqueued"}

(* nchan_memstore_get_chanhead on the owner: the head leaves the gc queue, is
   READY, and is in the churn queue; a new one has new shared data. *)
get_own ==
    IF own.status = "none"
      THEN [own EXCEPT !.status = "READY", !.addr = @ + 1, !.refs = 0, !.shsubs = 0]
      ELSE [own EXCEPT !.status = "READY"]

(* chanhead_gc_add on the owner. *)
gc_own(o) == [o EXCEPT !.status = "INACTIVE"]

(* Fault: workers that hold the shared data do not keep the head. *)
in_use_but_for_refs(o) == o.subs > 0 \/ Enqueued # {} \/ o.reserved > 0 \/ o.msgs > 0

memstore_chanhead_reserved_or_in_use(o) ==
    \/ o.subs > 0 \/ Enqueued # {}
    \/ o.reserved > 0
    \/ o.msgs > 0
    \/ o.refs > 0

(* memstore_reap_chanhead, by the chanhead reaper or the churner. *)
reap_own ==
    /\ own.status # "none"
    /\ ~memstore_chanhead_reserved_or_in_use(own)
    /\ own' = [own EXCEPT !.status = "none"]
    /\ UNCHANGED <<fgn, ipc, toF, toOwn, crashes, failed>>

subscribe_own ==
    /\ own.subs < MaxSubs
    /\ own' = [get_own EXCEPT !.subs = @ + 1, !.shsubs = @ + 1]
    /\ UNCHANGED <<fgn, ipc, toF, toOwn, crashes, failed>>

(* memstore_spooler_bulk_dequeue_handler for one client. *)
unsubscribe_own ==
    /\ own.subs > 0
    /\ LET o == [own EXCEPT !.subs = @ - 1, !.shsubs = @ - 1]
       IN  own' = IF o.subs = 0 /\ Enqueued = {} THEN gc_own(o) ELSE o
    /\ UNCHANGED <<fgn, ipc, toF, toOwn, crashes, failed>>

(* What the hooked ipc subscribers in S send F, one after the other, each the
   alerts in what. *)
sent_by(S, what) ==
    toF \o [k \in 1 .. Len(what) * Cardinality({s \in S : ipc[s].hooked}) |->
               what[((k - 1) % Len(what)) + 1]]

(* nchan_memstore_publish_generic with a message, on the owner: ipc
   subscribers forward it, and the head goes to the gc queue. *)
publish_own ==
    /\ \E stored \in 0 .. 1 : own' = gc_own([get_own EXCEPT !.msgs = stored])
    /\ toF' = sent_by(Enqueued, <<[type |-> "publish_message"]>>)
    /\ UNCHANGED <<fgn, ipc, toOwn, crashes, failed>>

(* chanhead_messages_gc_custom drops the last stored message. *)
expire_own ==
    /\ own.msgs > 0
    /\ own' = [own EXCEPT !.msgs = 0]
    /\ UNCHANGED <<fgn, ipc, toF, toOwn, crashes, failed>>

(* internal_dequeue and internal_subscriber_destroy of an ipc subscriber. *)
dequeued(i) ==
    IF i.st # "enqueued" THEN i
    ELSE [i EXCEPT !.timer = FALSE, !.st = IF i.reserved > 0 THEN "lingering" ELSE "freed"]

(* nchan_memstore_force_delete_chanhead: everybody is told that the channel
   is gone.  An ipc subscriber passes that on and is dequeued, which it
   reports too. *)
delete_own ==
    /\ own.status # "none"
    /\ own' = gc_own([own EXCEPT !.shsubs = @ - own.subs, !.subs = 0, !.msgs = 0])
    /\ ipc' = [s \in DOMAIN ipc |-> dequeued(ipc[s])]
    /\ toF' = sent_by(Enqueued, <<[type |-> "publish_status"], [type |-> "unsubscribed"]>>)
    /\ UNCHANGED <<fgn, toOwn, crashes, failed>>

-----------------------------------------------------------------------------
(* F's head.  Handlers compute a new head h, and whether an alert subscribe
   is sent for it, from the one they find. *)

Subscribe(h) == [type |-> "subscribe", origin |-> h.addr]

(* The condition of memstore_ensure_chanhead_is_ready for asking the owner. *)
must_ask(h) == h.sub = 0 /\ h.status # "WAITING"

(* memstore_ensure_chanhead_is_ready, which takes it from the gc queue too. *)
ensured(h) ==
    IF must_ask(h) THEN [h EXCEPT !.status = "WAITING"]
    ELSE IF h.sub # 0 THEN [h EXCEPT !.status = "READY"] ELSE h

(* chanhead_memstore_create *)
created == [status |-> "NOTREADY", addr |-> fgn.addr + 1, subs |-> 0, sub |-> 0, shared |-> 0]

found == IF fgn.status = "none" THEN created ELSE fgn

(* chanhead_gc_add on F: the shared data is given up first, and a WAITING
   head is not queued. *)
gc_fgn(h) ==
    [h EXCEPT !.shared = 0, !.status = IF @ = "WAITING" THEN @ ELSE "INACTIVE"]

(* The reference that gc_fgn gives back. *)
given_up(h) == IF h.shared # 0 THEN 1 ELSE 0

(* memstore_spooler_bulk_dequeue_handler for n clients of h. *)
bulk_dequeue(h, n) ==
    LET h1 == [h EXCEPT !.subs = @ - n]
    IN  IF n > 0 /\ h1.subs = 0 /\ h.sub = 0 THEN gc_fgn(h1) ELSE h1

(* F has head h0, n clients of which leave, and the owner's shared data
   changes accordingly; alerts are sent in reply. *)
leave(h0, n, alerts) ==
    LET h == bulk_dequeue(h0, n)
    IN  /\ fgn' = h
        /\ own' = IF h0.shared = 0 THEN own
                  ELSE [own EXCEPT !.shsubs = @ - n,
                                   !.refs = @ - (given_up(h0) - given_up(h))]
        /\ toOwn' = toOwn \o alerts

ask(h) == IF must_ask(h) THEN <<Subscribe(h)>> ELSE <<>>

(* CHANHEAD_SHARED_OKAY, and the assertion of nchan_memstore_publish_generic. *)
shared_okay(h) == h.shared # 0 => h.status = "READY"

(* nchan_store_subscribe_continued with memstore_spooler_add_handler. *)
subscribe_fgn ==
    /\ fgn.subs < MaxSubs
    /\ LET h == ensured(found)
       IN  IF ~shared_okay(h) THEN fail("memstore.c:759")
           ELSE /\ fgn' = [h EXCEPT !.subs = @ + 1]
                /\ own' = IF h.shared # 0 THEN [own EXCEPT !.shsubs = @ + 1] ELSE own
                /\ toOwn' = toOwn \o ask(found)
                /\ UNCHANGED <<ipc, toF, crashes, failed>>

unsubscribe_fgn ==
    /\ fgn.subs > 0
    /\ leave(fgn, 1, <<>>)
    /\ UNCHANGED <<ipc, toF, crashes, failed>>

(* The chanhead reaper of F. *)
reap_fgn ==
    /\ fgn.status = "INACTIVE" /\ fgn.subs = 0
    /\ fgn' = [fgn EXCEPT !.status = "none"]
    /\ UNCHANGED <<own, ipc, toF, toOwn, crashes, failed>>

(* F is killed; its successor inherits the pipes. *)
respawn_fgn ==
    /\ MayCrash /\ crashes = 0
    /\ crashes' = 1
    /\ fgn' = [status |-> "none", addr |-> fgn.addr, subs |-> 0, sub |-> 0, shared |-> 0]
    /\ UNCHANGED <<own, ipc, toF, toOwn, failed>>

-----------------------------------------------------------------------------
(* Subscribing to the owner. *)

to_own(type) == toOwn # <<>> /\ Head(toOwn).type = type
to_fgn(type) == toF # <<>> /\ Head(toF).type = type

(* Fault: no reply is sent if the head cannot be created. *)
receive_subscribe_silent ==
    /\ to_own("subscribe")
    /\ toOwn' = Tail(toOwn)
    /\ MayFull /\ own.status = "none"
    /\ UNCHANGED <<own, ipc, toF, fgn, crashes, failed>>

(* receive_subscribe.  The reply carries the head, which is reserved until
   it is released, and the shared data, which is referenced; it has neither
   if the head cannot be created. *)
receive_subscribe ==
    /\ to_own("subscribe")
    /\ toOwn' = Tail(toOwn)
    /\ \/ /\ Len(ipc) < MaxIpcSubs
          /\ own' = [get_own EXCEPT !.reserved = @ + 1, !.refs = @ + 1]
          /\ ipc' = Append(ipc, [st |-> "enqueued", origin |-> Head(toOwn).origin,
                                 hooked |-> TRUE, reserved |-> 0, timer |-> TRUE])
          /\ toF' = Append(toF, [type |-> "subscribe_reply", origin |-> Head(toOwn).origin,
                                 head |-> own'.addr, sub |-> Len(ipc) + 1])
       \/ /\ MayFull /\ own.status = "none"
          /\ toF' = Append(toF, [type |-> "subscribe_reply", origin |-> Head(toOwn).origin,
                                 head |-> 0, sub |-> 0])
          /\ UNCHANGED <<own, ipc>>
    /\ UNCHANGED <<fgn, crashes, failed>>

(* receive_subscribe_reply.  The head is found or created and ensured, but
   without asking the owner.  It may be another head than the one that asked. *)
receive_subscribe_reply ==
    /\ to_fgn("subscribe_reply")
    /\ LET d == Head(toF)
           h == ensured(found)
           release(type) == [type |-> type, head |-> d.head, sub |-> d.sub]
           taken == [h EXCEPT !.shared = d.head, !.status = "READY"]
       IN  IF h.addr # d.origin
             THEN IF d.head = 0 THEN fail("ipc-handlers.c:185")
                  ELSE /\ fgn' = h
                       /\ toOwn' = Append(toOwn, release("nevermind_release"))
                       /\ toF' = Tail(toF)
                       /\ UNCHANGED <<own, ipc, crashes, failed>>
           ELSE IF d.head = 0
             THEN LET gone == bulk_dequeue(h, h.subs)
                  IN  IF h.sub # 0 THEN fail("memstore.c:1251")
                      ELSE /\ fgn' = [gc_fgn(gone) EXCEPT !.status = "INACTIVE"]
                           /\ own' = IF h.shared = 0 THEN own
                                     ELSE [own EXCEPT !.shsubs = @ - h.subs, !.refs = @ - 1]
                           /\ toF' = Tail(toF)
                           /\ UNCHANGED <<ipc, toOwn, crashes, failed>>
           ELSE IF h.shared \notin {0, d.head} THEN fail("ipc-handlers.c:199")
           ELSE /\ own' = IF h.shared = 0 THEN [own EXCEPT !.shsubs = @ + h.subs] ELSE own
                /\ IF h.sub \notin {0, d.sub}
                     THEN /\ fgn' = taken
                          /\ toOwn' = Append(toOwn, release("nevermind_release"))
                     ELSE /\ fgn' = [taken EXCEPT !.sub = d.sub]
                          /\ toOwn' = Append(toOwn, release("chanhead_release"))
                /\ toF' = Tail(toF)
                /\ UNCHANGED <<ipc, crashes, failed>>

(* receive_subscribe_chanhead_release trusts the head in the alert. *)
receive_subscribe_chanhead_release ==
    /\ to_own("chanhead_release")
    /\ IF own.status = "none" \/ own.addr # Head(toOwn).head THEN fail("ipc-handlers.c:240")
       ELSE /\ own' = [own EXCEPT !.reserved = @ - 1]
            /\ toOwn' = Tail(toOwn)
            /\ UNCHANGED <<fgn, ipc, toF, crashes, failed>>

(* receive_subscribe_chanhead_nevermind_release: the subscriber goes, but
   the reference to the shared data stays. *)
receive_subscribe_chanhead_nevermind_release ==
    /\ to_own("nevermind_release")
    /\ LET d == Head(toOwn)
           s == d.sub
       IN  IF own.status = "none" \/ own.addr # d.head
             THEN /\ toOwn' = Tail(toOwn)
                  /\ own' = IF own.status = "none" THEN own ELSE get_own
                  /\ UNCHANGED <<fgn, ipc, toF, crashes, failed>>
           ELSE IF ipc[s].st = "freed" THEN fail("ipc-handlers.c:251")
           ELSE LET o == [get_own EXCEPT !.reserved = @ - 1]
                IN  /\ ipc' = [ipc EXCEPT ![s] = dequeued([@ EXCEPT !.hooked = FALSE])]
                    /\ own' = IF own.subs = 0 /\ Enqueued = {s} THEN gc_own(o) ELSE o
                    /\ toOwn' = Tail(toOwn)
                    /\ UNCHANGED <<fgn, toF, crashes, failed>>

(* receive_unsubscribed: the head is ensured before it loses the ipc
   subscriber, so that it stays READY if it has clients. *)
receive_unsubscribed ==
    /\ to_fgn("unsubscribed")
    /\ toF' = Tail(toF)
    /\ IF fgn.status = "none" THEN UNCHANGED <<own, fgn, toOwn>>
       ELSE LET h == [ensured(fgn) EXCEPT !.sub = 0]
            IN  /\ fgn' = IF h.subs = 0 THEN gc_fgn(h) ELSE h
                /\ own' = [own EXCEPT !.refs = @ - (given_up(h) - given_up(fgn'))]
                /\ toOwn' = toOwn \o ask(fgn)
    /\ UNCHANGED <<ipc, crashes, failed>>

(* receive_publish_status: every client is told and leaves. *)
receive_publish_status ==
    /\ to_fgn("publish_status")
    /\ LET h == ensured(fgn)
       IN  IF fgn.status = "none"
             THEN toF' = Tail(toF) /\ UNCHANGED <<own, fgn, ipc, toOwn, crashes, failed>>
           ELSE IF ~shared_okay(h) THEN fail("memstore.c:1366")
           ELSE /\ leave(h, h.subs, ask(fgn))
                /\ toF' = Tail(toF)
                /\ UNCHANGED <<ipc, crashes, failed>>

(* receive_publish_message on F: the head is created if need be; any number
   of clients leave once they have the message. *)
receive_publish_message ==
    /\ to_fgn("publish_message")
    /\ LET h == ensured(found)
       IN  IF ~shared_okay(h) THEN fail("memstore.c:1366")
           ELSE /\ \E n \in 0 .. h.subs : leave(h, n, ask(found))
                /\ toF' = Tail(toF)
                /\ UNCHANGED <<ipc, crashes, failed>>

-----------------------------------------------------------------------------
(* The keepalive of an ipc subscriber. *)

(* timeout_ev_handler of memstore_ipc.c *)
timeout_ev_handler(s) ==
    /\ ipc[s].timer
    /\ IF ipc[s].st = "freed" THEN fail("memstore_ipc.c:142")
       ELSE /\ ipc' = [ipc EXCEPT ![s].timer = FALSE,
                                  ![s].reserved = IF ipc[s].hooked THEN @ + 1 ELSE @]
            /\ toF' = IF ipc[s].hooked
                        THEN Append(toF, [type |-> "keepalive", sub |-> s,
                                          origin |-> ipc[s].origin])
                        ELSE toF
            /\ UNCHANGED <<own, fgn, toOwn, crashes, failed>>

(* receive_subscriber_keepalive.  A head without clients is kept if it had
   one lately. *)
receive_subscriber_keepalive ==
    /\ to_fgn("keepalive")
    /\ LET d == Head(toF)
           h == ensured(fgn)
           reply(action) == <<[type |-> "keepalive_reply", sub |-> d.sub, action |-> action]>>
           answer(action) ==
               /\ fgn' = h
               /\ toOwn' = toOwn \o ask(fgn) \o reply(action)
               /\ toF' = Tail(toF)
               /\ UNCHANGED <<own, ipc, crashes, failed>>
       IN  IF fgn.status = "none"
             THEN /\ toOwn' = toOwn \o reply("NORENEW")
                  /\ toF' = Tail(toF)
                  /\ UNCHANGED <<own, fgn, ipc, crashes, failed>>
           ELSE IF h.addr # d.origin THEN answer("UNHOOK")
           ELSE IF h.status # "READY" THEN fail("memstore.c:1526")
           ELSE IF h.sub # d.sub THEN answer("UNHOOK")
           ELSE \/ answer("RENEW")
                \/ h.subs = 0 /\ answer("NORENEW")

(* internal_release of a subscriber i. *)
released(i) ==
    [i EXCEPT !.reserved = @ - 1,
              !.st = IF @ = "lingering" /\ i.reserved = 1 THEN "freed" ELSE @]

(* receive_subscriber_keepalive_reply.  A subscriber that has been dequeued
   meanwhile gets a timer too if it is renewed. *)
receive_subscriber_keepalive_reply ==
    /\ to_own("keepalive_reply")
    /\ LET d == Head(toOwn)
           s == d.sub
           i == ipc[s]
           report == d.action = "NORENEW" /\ i.st = "enqueued" /\ i.hooked
       IN  /\ ipc' = [ipc EXCEPT ![s] = released(
                        IF d.action = "NORENEW" THEN dequeued(i)
                        ELSE IF d.action = "RENEW" THEN [i EXCEPT !.timer = TRUE]
                        ELSE [i EXCEPT !.hooked = FALSE])]
           /\ own' = IF d.action = "NORENEW" /\ Enqueued = {s} /\ own.subs = 0
                       THEN gc_own(own) ELSE own
           /\ toF' = IF report THEN Append(toF, [type |-> "unsubscribed"]) ELSE toF
    /\ toOwn' = Tail(toOwn)
    /\ UNCHANGED <<fgn, crashes, failed>>

-----------------------------------------------------------------------------
OwnerReads ==
    \/ receive_subscribe
    \/ receive_subscribe_chanhead_release
    \/ receive_subscribe_chanhead_nevermind_release
    \/ receive_subscriber_keepalive_reply

ForeignReads ==
    \/ receive_subscribe_reply
    \/ receive_unsubscribed
    \/ receive_publish_status
    \/ receive_publish_message
    \/ receive_subscriber_keepalive

ChanheadNext ==
    /\ failed = "none"
    /\ \/ OwnerReads \/ ForeignReads
       \/ subscribe_own \/ unsubscribe_own \/ publish_own \/ expire_own \/ delete_own
       \/ reap_own
       \/ subscribe_fgn \/ unsubscribe_fgn \/ reap_fgn \/ respawn_fgn
       \/ \E s \in DOMAIN ipc : timeout_ev_handler(s)

(* Both workers keep reading their pipes. *)
ChanheadFairness ==
    /\ WF_chanheadVars(failed = "none" /\ OwnerReads)
    /\ WF_chanheadVars(failed = "none" /\ ForeignReads)

ChanheadSpec == ChanheadInit /\ [][ChanheadNext]_chanheadVars /\ ChanheadFairness

-----------------------------------------------------------------------------
(* The heads, the ipc subscribers and the count of crashes have their types. *)
ChanheadTypeOK ==
    /\ own \in Owner /\ fgn \in Foreign
    /\ \A s \in DOMAIN ipc : ipc[s] \in IpcSub
    /\ crashes \in 0 .. 1

Replies == {k \in DOMAIN toF : toF[k].type = "subscribe_reply" /\ toF[k].head # 0}

(* The shared data that F's head points at, and the one that is on its way to
   F, has not been freed by the owner: outside_refcount covers it. *)
SharedAlive ==
    failed = "none" =>
        /\ fgn.shared # 0 => own.status # "none" /\ own.addr = fgn.shared
        /\ \A k \in Replies : own.status # "none" /\ own.addr = toF[k].head
        /\ own.status # "none" => own.refs >= given_up(fgn) + Cardinality(Replies)

(* A head that the owner releases, whose address went to F and back, is
   still there: receive_subscribe_chanhead_release does not look. *)
ReleaseFindsHead == failed # "ipc-handlers.c:240"

(* The channel's subscriber count, which limits and channel information are
   based on, is that of the clients of both workers once F is subscribed. *)
SubCountExact ==
    failed = "none" /\ crashes = 0 /\ own.status # "none" =>
        own.shsubs = own.subs + IF fgn.shared # 0 THEN fgn.subs ELSE 0

(* As long as F does not crash, it is never told the keepalive of a
   subscriber it is not waiting for, and never gets a second subscriber: the
   paths for "very heavy delays" are not taken, and its head is never queued
   for reaping while it has an ipc subscriber. *)
NoCrossedReplies ==
    crashes = 0 => failed \notin {"ipc-handlers.c:185", "ipc-handlers.c:199",
                                  "ipc-handlers.c:251", "memstore.c:1251",
                                  "memstore.c:1366", "memstore.c:1526"}

(* The two workers agree on the heads, on the shared data between them and on
   its counters, whatever alerts cross in the pipes. *)
HeadsSafe == ChanheadTypeOK /\ SharedAlive /\ SubCountExact /\ ReleaseFindsHead /\ NoCrossedReplies

(* A client of F does not wait for the owner forever. *)
WaitingEnds ==
    (fgn.status = "WAITING" /\ crashes = 0)
        ~> (fgn.status # "WAITING" \/ crashes > 0 \/ failed # "none")

(* Whoever joins a head that has shared data finds it READY: the assertion
   CHANHEAD_SHARED_OKAY of memstore_spooler_add_handler. *)
AddFindsSharedOkay == failed # "memstore.c:759"
=============================================================================
