------------------------------- MODULE Spooler -------------------------------
(***************************************************************************)
(* The channel spooler of one worker (store/spool.c): the subscribers of   *)
(* one channel, grouped into spools by the id of the last message they     *)
(* have seen.  A spool asks the store for the message after its id; the    *)
(* store calls back later, and messages published meanwhile are pushed     *)
(* into the spooler as well.                                               *)
(*                                                                         *)
(* Message ids are naturals in publishing order: the spooler only compares *)
(* ids (MsgBuffer assigns the real (time, tag) pairs and shows when they   *)
(* increase).  Id 0 is NCHAN_OLDEST_MSGID.  Every handler that the event   *)
(* loop runs to completion is one action.  An assertion that fails ends    *)
(* the worker: `crash` holds its line.                                     *)
(***************************************************************************)
EXTENDS Integers, FiniteSets

CONSTANTS
    Subs,      \* subscribers of the channel on this worker
    LongPoll,  \* those that are dequeued by the response they wait for
    MaxId,     \* largest message id
    Starts,    \* ids that clients without a message id may start from
    MayDefer,  \* whether spool_fetch_msg may hit its same-millisecond limit
    MayFail    \* whether the store may answer MSG_ERROR

ASSUME ConstantsAssumption ==
    /\ LongPoll \subseteq Subs
    /\ MaxId \in Nat \ {0}
    /\ Starts \subseteq {0, -1, -2}
    /\ MayDefer \in BOOLEAN
    /\ MayFail \in BOOLEAN

Oldest == 0
Newest == -1
Nth == -2
Idle == -3

MsgIds == 1 .. MaxId
TreeIds == (0 .. MaxId) \cup {Nth}      \* ids of the spools in the rbtree
SpoolIds == TreeIds \cup {Newest}       \* Newest: the current_msg_spool

VARIABLES
    status,   \* *channel_status
    spool,    \* msg_status of each spool, "none" if it is not in the tree
    at,       \* the spool that holds each subscriber, or Idle
    last,     \* last_msgid of each subscriber
    timer,    \* spools whose fetchmsg_ev timer is set
    fetches,  \* fetchmsg_cb_data_list: requests to the store not yet answered
    stale,    \* requests whose spooler has been stopped (data->spooler = NULL)
    crash     \* the assertion that aborted the worker, or "none"

spoolerVars == <<status, spool, at, last, timer, fetches, stale, crash>>

SpoolStatus == {"none", "INVALID", "PENDING", "EXPECTED", "NOTREADY"}
CrashSites == {"none", "spool.c:311", "spool.c:479"}

(* The fields of the spooler and of its spools keep their types; a timer is set
   or not set, and no counter of fetches goes below zero. *)
SpoolerTypeOK ==
    /\ status \in {"WAITING", "READY"}
    /\ spool \in [SpoolIds -> SpoolStatus]
    /\ at \in [Subs -> SpoolIds \cup {Idle}]
    /\ last \in [Subs -> SpoolIds]
    /\ timer \subseteq TreeIds
    /\ fetches \in [TreeIds -> Nat]
    /\ stale \in [TreeIds -> Nat]
    /\ crash \in CrashSites

(* start_spooler: only the current_msg_spool exists. *)
start_spooler == [i \in SpoolIds |-> IF i = Newest THEN "EXPECTED" ELSE "none"]

SpoolerInit ==
    /\ status = "WAITING"
    /\ spool = start_spooler
    /\ at = [s \in Subs |-> Idle]
    /\ last \in [Subs -> Starts]
    /\ timer = {}
    /\ fetches = [i \in TreeIds |-> 0]
    /\ stale = [i \in TreeIds |-> 0]
    /\ crash = "none"

-----------------------------------------------------------------------------
(* Helpers shared by the handlers. *)

Exists(i) == spool[i] # "none"

SubsIn(a, i) == {s \in Subs : a[s] = i}

(* get_spool: the spool with id i, created MSG_INVALID if it is not there. *)
get_spool(sp, i) == IF sp[i] = "none" THEN "INVALID" ELSE sp[i]

(* The spools of F whose fetch the stack-overflow protector puts off. *)
Deferrals(F) == IF MayDefer THEN SUBSET F ELSE {{}}

(* spool_fetch_msg for every spool of F, given the other parts of the state
   (sp, tm, ft) as the caller leaves them.  The spools of D are put off to
   the zero timer; on a channel that is not READY the spool waits; else the
   request goes to the store, and the spool has to be MSG_INVALID. *)
spool_fetch_msg(F, D, sp, tm, ft) ==
    LET ask == IF status = "READY" THEN F \ D ELSE {}
        now == IF status = "READY" THEN "PENDING" ELSE "NOTREADY"
    IN  /\ spool' = [i \in SpoolIds |-> IF i \in F \ D THEN now ELSE sp[i]]
        /\ timer' = tm \cup D
        /\ fetches' = [i \in TreeIds |-> IF i \in ask THEN ft[i] + 1 ELSE ft[i]]
        /\ crash' = IF \E i \in ask : sp[i] # "INVALID"
                      THEN "spool.c:479" ELSE crash

(* spool_respond_general with message m, for the spools of From, then
   spool_nextmsg from each of them to m: long-polling subscribers leave, the
   others move to the spool of m, which is one of From under a new id unless
   it existed already.  A re-keyed spool takes its timer along. *)
respond_and_nextmsg(From, m, ft) ==
    LET at1 == [s \in Subs |-> IF at[s] \notin From THEN at[s]
                               ELSE IF s \in LongPoll THEN Idle ELSE m]
        st == IF get_spool(spool, m) = "NOTREADY" /\ SubsIn(at1, m) # {}
                THEN "INVALID" ELSE get_spool(spool, m)
        sp1 == [i \in SpoolIds |-> IF i \in From \ {Newest} THEN "none"
                                   ELSE IF i = m /\ From # {} THEN st
                                   ELSE spool[i]]
        fetch == IF From # {} /\ st = "INVALID" /\ SubsIn(at1, m) # {}
                   THEN {m} ELSE {}
        kept == IF ~Exists(m) /\ From \cap timer # {} THEN {m} ELSE {}
    IN  /\ at' = at1
        /\ last' = [s \in Subs |-> IF at[s] \in From THEN m ELSE last[s]]
        /\ \E T \in SUBSET kept, D \in Deferrals(fetch) :
              spool_fetch_msg(fetch, D, sp1, (timer \ From) \cup T, ft)

(* Fault: spool_transfer_subscribers without update_subscriber_last_msgid. *)
transfer_last_kept(i, j) == last

(* spool_transfer_subscribers(spool i, spool j, 1) and destroy_spool(i). *)
transfer_at(i, j) == [s \in Subs |-> IF at[s] = i THEN j ELSE at[s]]
transfer_last(i, j) == [s \in Subs |-> IF at[s] = i THEN j ELSE last[s]]

-----------------------------------------------------------------------------
(* Subscribers come and go. *)

(* spooler_add_subscriber.  A spool that is waiting or expecting just takes
   the subscriber in; a new one asks for its message. *)
spooler_add_subscriber(s) ==
    /\ crash = "none"
    /\ at[s] = Idle
    /\ LET i == last[s]
           sp1 == [spool EXCEPT ![i] = get_spool(spool, i)]
           fetch == IF sp1[i] = "INVALID" THEN {i} ELSE {}
       IN  /\ at' = [at EXCEPT ![s] = i]
           /\ UNCHANGED status
           /\ \E D \in Deferrals(fetch) :
                 spool_fetch_msg(fetch, D, sp1, timer, fetches)
    /\ UNCHANGED <<last, stale>>

(* spool_sub_dequeue_callback: the client went away or timed out.  The spool
   stays, even when it is left empty. *)
spool_sub_dequeue_callback(s) ==
    /\ crash = "none"
    /\ at[s] # Idle
    /\ at' = [at EXCEPT ![s] = Idle]
    /\ UNCHANGED <<status, spool, last, timer, fetches, stale, crash>>

(* spooler_broadcast_status with a code that ends subscriptions (410, 5xx). *)
spooler_broadcast_status ==
    /\ crash = "none"
    /\ at' = [s \in Subs |-> Idle]
    /\ UNCHANGED <<status, spool, last, timer, fetches, stale, crash>>

-----------------------------------------------------------------------------
(* Messages pushed by the channel, and answers of the store. *)

(* Fault: the range of spools has no upper end. *)
InRange_open(prev, m) == {i \in TreeIds : Exists(i) /\ prev <= i}

(* spooler_respond_message(msg): every spool with an id in [prev_id, id),
   and the current_msg_spool if it has subscribers. *)
InRange(prev, m) == {i \in TreeIds : Exists(i) /\ prev <= i /\ i < m}

spooler_respond_message(prev, m) ==
    /\ crash = "none"
    /\ LET current == IF SubsIn(at, Newest) # {} THEN {Newest} ELSE {}
       IN  respond_and_nextmsg(InRange(prev, m) \cup current, m, fetches)
    /\ UNCHANGED <<status, stale>>

(* The request data unlinked at the head of spool_fetch_msg_callback. *)
unlinked(i) == [fetches EXCEPT ![i] = fetches[i] - 1]

Answered(i) == crash = "none" /\ fetches[i] > 0

(* spool_fetch_msg_callback when the spool that asked has moved on. *)
fetch_callback_discard(i) ==
    /\ Answered(i)
    /\ ~Exists(i)
    /\ fetches' = unlinked(i)
    /\ UNCHANGED <<status, spool, at, last, timer, stale, crash>>

(* ... MSG_FOUND *)
fetch_callback_found(i, m) ==
    /\ Answered(i)
    /\ Exists(i)
    /\ respond_and_nextmsg({i}, m, unlinked(i))
    /\ UNCHANGED <<status, stale>>

(* ... MSG_EXPECTED: the message does not exist yet.  The spool of an Nth
   message joins the current_msg_spool instead of waiting. *)
fetch_callback_expected(i) ==
    /\ Answered(i)
    /\ Exists(i)
    /\ IF i = Nth
         THEN /\ at' = transfer_at(i, Newest)
              /\ spool' = [spool EXCEPT ![i] = "none"]
              /\ timer' = timer \ {i}
         ELSE /\ spool' = [spool EXCEPT ![i] = "EXPECTED"]
              /\ UNCHANGED <<at, timer>>
    /\ fetches' = unlinked(i)
    /\ UNCHANGED <<status, last, stale, crash>>

(* ... MSG_NOTFOUND, MSG_EXPIRED: start over from the oldest message, or,
   when even that is not there, wait for the next one. *)
fetch_callback_notfound(i) ==
    LET nuspool == IF i = Oldest THEN Newest ELSE Oldest
        sp1 == [spool EXCEPT ![i] = "none", ![nuspool] = get_spool(spool, nuspool)]
        fetch == {nuspool} \ {Newest}
    IN  /\ Answered(i)
        /\ Exists(i)
        /\ at' = transfer_at(i, nuspool)
        /\ last' = transfer_last(i, nuspool)
        /\ UNCHANGED <<status, stale>>
        /\ \E D \in Deferrals(fetch) :
              spool_fetch_msg(fetch, D, sp1, timer \ {i}, unlinked(i))

(* ... MSG_ERROR: the subscribers get a 500.  msg_status is left alone. *)
fetch_callback_error(i) ==
    /\ MayFail
    /\ Answered(i)
    /\ Exists(i)
    /\ at' = transfer_at(i, Idle)
    /\ fetches' = unlinked(i)
    /\ UNCHANGED <<status, spool, last, timer, stale, crash>>

(* fetchmsg_ev_handler: the put-off fetch, with its counter back at 0. *)
fetchmsg_ev_handler(i) ==
    /\ crash = "none"
    /\ i \in timer
    /\ UNCHANGED <<status, at, last, stale>>
    /\ spool_fetch_msg(IF spool[i] = "INVALID" THEN {i} ELSE {}, {},
                       spool, timer \ {i}, fetches)

-----------------------------------------------------------------------------
(* The channel's own transitions. *)

(* Fault: only the spools that were put off are looked at. *)
its_time_for_invalid_spools == {i \in TreeIds : spool[i] = "INVALID"}

its_time_for_a_spooling == {i \in TreeIds : spool[i] \in {"NOTREADY", "INVALID"}}

(* spooler_channel_status_changed on READY.  Every waiting spool fetches;
   spool_release then destroys those that nobody subscribes to, with their
   requests already on the way. *)
spooler_channel_status_changed ==
    /\ crash = "none"
    /\ status' = "READY"
    /\ LET F == its_time_for_a_spooling
           empty == {i \in F : SubsIn(at, i) = {}}
       IN  \E D \in Deferrals(F) :
              /\ spool' = [i \in SpoolIds |-> IF i \in empty THEN "none"
                                              ELSE IF i \in D THEN "INVALID"
                                              ELSE IF i \in F THEN "PENDING"
                                              ELSE spool[i]]
              /\ timer' = (timer \cup D) \ empty
              /\ fetches' = [i \in TreeIds |->
                               IF i \in F \ D THEN fetches[i] + 1 ELSE fetches[i]]
    /\ UNCHANGED <<at, last, stale, crash>>

(* The chanhead lost its source of messages (memstore sets WAITING). *)
channel_waits ==
    /\ crash = "none"
    /\ status = "READY"
    /\ status' = "WAITING"
    /\ UNCHANGED <<spool, at, last, timer, fetches, stale, crash>>

(* spooler_catch_up, after a reconnect: ask again, also for what is already
   being asked. *)
spooler_catch_up ==
    /\ crash = "none"
    /\ UNCHANGED <<status, at, last, stale>>
    /\ LET F == {i \in TreeIds : spool[i] \in {"EXPECTED", "PENDING"}}
           sp1 == [i \in SpoolIds |-> IF i \in F THEN "INVALID" ELSE spool[i]]
       IN  \E D \in Deferrals(F) : spool_fetch_msg(F, D, sp1, timer, fetches)

(* stop_spooler when an unused chanhead is reaped, and the chanhead created
   for the channel's next use. *)
stop_spooler ==
    /\ crash = "none"
    /\ \A s \in Subs : at[s] = Idle
    /\ status' = "WAITING"
    /\ spool' = start_spooler
    /\ timer' = {}
    /\ stale' = [i \in TreeIds |-> stale[i] + fetches[i]]
    /\ fetches' = [i \in TreeIds |-> 0]
    /\ UNCHANGED <<at, last, crash>>

(* spool_fetch_msg_callback after that: it reads spl->fetching_strategy
   through the NULL pointer before it looks whether spl is NULL. *)
stale_fetch_callback(i) ==
    /\ crash = "none"
    /\ stale[i] > 0
    /\ stale' = [stale EXCEPT ![i] = stale[i] - 1]
    /\ crash' = "spool.c:311"
    /\ UNCHANGED <<status, spool, at, last, timer, fetches>>

(* The master process starts a new worker in place of the one that aborted;
   its connections are gone, the clients keep their last message id. *)
respawn ==
    /\ crash # "none"
    /\ crash' = "none"
    /\ status' = "WAITING"
    /\ spool' = start_spooler
    /\ at' = [s \in Subs |-> Idle]
    /\ timer' = {}
    /\ fetches' = [i \in TreeIds |-> 0]
    /\ stale' = [i \in TreeIds |-> 0]
    /\ UNCHANGED last

-----------------------------------------------------------------------------
(* The spooler with any store and any channel: the store answers a request
   for i with a later message or with any other code, at any time and in any
   order, and the channel pushes any message with any earlier prev_id. *)
SpoolerNext ==
    \/ \E s \in Subs : spooler_add_subscriber(s) \/ spool_sub_dequeue_callback(s)
    \/ spooler_broadcast_status
    \/ \E m \in MsgIds : \E prev \in 0 .. m - 1 : spooler_respond_message(prev, m)
    \/ \E i \in TreeIds :
          \/ fetch_callback_discard(i)
          \/ \E m \in MsgIds : i < m /\ fetch_callback_found(i, m)
          \/ fetch_callback_expected(i)
          \/ fetch_callback_notfound(i)
          \/ fetch_callback_error(i)
          \/ fetchmsg_ev_handler(i)
          \/ stale_fetch_callback(i)
    \/ spooler_channel_status_changed
    \/ channel_waits
    \/ spooler_catch_up
    \/ stop_spooler
    \/ respawn

SpoolerSpec == SpoolerInit /\ [][SpoolerNext]_spoolerVars

-----------------------------------------------------------------------------
(* A subscriber is in a spool that exists and whose id is the subscriber's
   own position in the channel, so that the next fetch or message in range
   continues where the subscriber is.  Only a subscriber of the Nth message
   waits in the current_msg_spool instead.  (spool_nextmsg,
   spool_transfer_subscribers, destroy_spool) *)
SubscriberInItsSpool ==
    \A s \in Subs : at[s] # Idle =>
        /\ Exists(at[s])
        /\ at[s] = last[s] \/ (at[s] = Newest /\ last[s] = Nth)

(* On a READY channel a spool with subscribers always waits for something
   that will come: the next message (MSG_EXPECTED), an answer that the store
   owes (MSG_PENDING) or its timer (MSG_INVALID).  No transfer, re-keying,
   stale answer or put-off fetch leaves subscribers in a spool that nothing
   will wake up. *)
WaitsForSomething ==
    crash = "none" /\ status = "READY" =>
        \A s \in Subs : at[s] # Idle =>
            \/ spool[at[s]] = "EXPECTED"
            \/ spool[at[s]] = "PENDING" /\ fetches[at[s]] > 0
            \/ spool[at[s]] = "INVALID" /\ at[s] \in timer

(* The callback of a request that outlives its spooler is ignored: "channel
   already deleted" (spool.c:323). *)
StaleCallbackIgnored == crash # "spool.c:311"

(* spool_fetch_msg is only ever called for a spool that is MSG_INVALID, as
   it asserts (spool.c:479). *)
FetchOnlyInvalid == crash # "spool.c:479"

(* A handler never moves a subscriber backwards in the channel, except to
   the oldest message when the store has lost the subscriber's own. *)
NeverBack ==
    [][\A s \in Subs : last[s] \in MsgIds =>
          last'[s] >= last[s] \/ last'[s] = Oldest]_spoolerVars
=============================================================================
