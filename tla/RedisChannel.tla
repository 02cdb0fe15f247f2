----------------------------- MODULE RedisChannel -----------------------------
(***************************************************************************)
(* One channel of a worker in the Redis store (rdsstore.c) and the         *)
(* subscriber that fills the worker's memory store from it                 *)
(* (memstore_redis.c): the life of the channel's head, its subscription,   *)
(* the lists of channels of the nodes, the commands sent for it with their *)
(* retries, and the messages that reach the memory store.  There are two   *)
(* servers: a and b are two masters of a cluster, or a is a master and b   *)
(* its slave.  Connecting them is in Nodeset; here a node is up or not and *)
(* the set of nodes is ready or not.  Every handler is a function of the   *)
(* record rc.                                                              *)
(***************************************************************************)
EXTENDS Integers, Sequences, SequencesExt, FiniteSets

\* Each setup bounds what happens around the channel: cluster or not, nchan_redis_retry_commands on or off
\* (retry), the messages published and their sizes, subscribers of the memory store one after another,
\* keepalives, deletions, and faults (lost connections, moved keyslots, expired retries).
CONSTANT RcSetups

ASSUME RcSetupsAssumption ==
    \A s \in RcSetups :
       /\ {s.cluster, s.retry} \subseteq BOOLEAN /\ s.sizes \subseteq {"small", "large"}
       /\ \A f \in {"published", "subs", "keepalives", "deletes", "faults"} : s[f] \in Nat

RcNodes == {"a", "b"}
NoNode == "-"
Latest == 99                        \* the id of the spool of the newest message

VARIABLE rc
rcVars == <<rc>>

RcCommands == {"get", "register", "unregister", "keepalive", "msgkey"}
NoHead == [live |-> FALSE, gen |-> 0, status |-> "INACTIVE", ps |-> "UNSUBSCRIBED", cmd |-> NoNode,
           pub |-> NoNode, dcmd |-> FALSE, dpub |-> FALSE, fetching |-> 0, reserved |-> 0,
           timer |-> FALSE, gc |-> FALSE, pos |-> 0, st |-> "INVALID"]
NoChan == [on |-> FALSE, subs |-> 0]    \* the channel at the server, with the number of registrations
NoSub == [n |-> 0, enq |-> FALSE, waits |-> FALSE, got |-> 0]

rc_fail(c, what) == [c EXCEPT !.failed = @ \cup {what}]
rc_check(c, holds, what) == IF holds THEN c ELSE rc_fail(c, what)
rc_lose(c, what) == [c EXCEPT !.lost = @ \cup {what}]

\* The nodes a channel may be subscribed on: the master of its keyslot, or a slave of it that is up.
nodeset_node_random_master_or_slave(c) ==
    {c.view} \cup {n \in c.up \ {c.view} : ~c.conf.cluster}

-------------------------------------------------------------------------------
\* The spool of the memory store's subscriber

redis_command(c, n, op, id, sub) ==
    [c EXCEPT !.cmd[n] = Append(@, [op |-> op, id |-> id, gen |-> c.head.gen, sub |-> sub])]

nodeset_node_find_by_chanhead(c) ==
    IF c.head.cmd # NoNode THEN c
    ELSE rc_check([c EXCEPT !.head.cmd = c.view], ~c.head.dcmd, "associated while in disconnected_cmd")

nchan_store_async_get_message_send(c, id) ==
    IF c.ready THEN redis_command(c, c.view, "get", id, 0) ELSE rc_lose(c, "fetch")

spool_fetch(c) ==
    IF c.head.status # "READY" THEN [c EXCEPT !.head.st = "NOTREADY"]
    ELSE nchan_store_async_get_message_send(
             [c EXCEPT !.head.st = "PENDING", !.head.fetching = @ + 1], c.head.pos)

\* The memory store only takes a message newer than the ones it has.
sub_respond_message(c, m) ==
    IF c.sub.enq /\ m > c.sub.got
    THEN [c EXCEPT !.sub.got = m, !.gap = @ \/ m # c.sub.got + 1]
    ELSE c

\* spool_nextmsg: the spool waits for the message after m.
spool_next(c, m) ==
    LET d == [c EXCEPT !.head.pos = m, !.head.st = "INVALID"]
    IN IF c.sub.enq THEN spool_fetch(d) ELSE d

respond_message(c, m, prev) ==
    IF c.head.pos = Latest \/ (c.head.pos >= prev /\ c.head.pos < m)
    THEN spool_next(sub_respond_message(c, m), m) ELSE c

\* Fault: spools that wait for the channel to be ready stay as they are.
status_changed_silently(c) == c

handle_channel_status_change(c) ==
    IF c.head.status = "READY" /\ c.head.st \in {"NOTREADY", "INVALID"} /\ c.head.pos # Latest
    THEN spool_fetch([c EXCEPT !.head.st = "INVALID"]) ELSE c

\* Spools that wait for a message fetch it again; the spool of the newest message is not among them.
redis_chanhead_catch_up_after_reconnect(c) ==
    IF c.head.st \in {"EXPECTED", "PENDING"} /\ c.head.pos # Latest
    THEN spool_fetch([c EXCEPT !.head.st = "INVALID"]) ELSE c

spool_fetch_msg_callback(c, id, res) ==
    LET d == [c EXCEPT !.head.fetching = @ - 1]
    IN IF c.head.pos # id THEN d
       ELSE CASE res.is = "found" -> spool_next(sub_respond_message(d, res.m), res.m)
              [] res.is = "expected" -> [d EXCEPT !.head.st = "EXPECTED"]
              [] res.is = "notfound" /\ id # 0 ->
                   spool_fetch([d EXCEPT !.head.pos = 0, !.head.st = "INVALID"])
              [] res.is = "notfound" /\ id = 0 ->
                   [d EXCEPT !.head.pos = Latest, !.head.st = "EXPECTED"]

-------------------------------------------------------------------------------
\* The head: its subscription, its lists and its garbage collection

\* node is NoNode where the code passes NULL; logging with a NULL node reads node->role.
pubsub_unsubscribed(c, node) ==
    rc_check([c EXCEPT !.head.ps = "UNSUBSCRIBED", !.head.pub = NoNode, !.head.dpub = TRUE],
             c.head.ps # "SUBSCRIBING" \/ node # NoNode, "log of a NULL node")

pubsub_subscribed(c, node) ==
    LET held == rc_check(c, c.head.pub \in {node, NoNode}, "subscribed on another node")
        free == rc_check(held, c.head.pub = node \/ ~c.head.dpub, "subscribed while in disconnected_pubsub")
        d == [free EXCEPT !.head.ps = "SUBSCRIBED", !.head.pub = node]
    IN IF d.head.status = "NOTREADY"
       THEN handle_channel_status_change([d EXCEPT !.head.status = "READY"]) ELSE d

nodeset_node_pubsub_find_by_chanhead(c) ==
    IF c.head.pub # NoNode THEN c
    ELSE rc_check([c EXCEPT !.head.pub = c.pick], ~c.head.dpub, "associated while in disconnected_pubsub")

\* hiredis keeps a callback for the subscription, with the number of acknowledgements to come.
redis_subscribe(c, n) ==
    [c EXCEPT !.req[n] = Append(@, "SUBSCRIBE"), !.dict[n] = IF @ = 0 THEN 2 ELSE @ + 1]

ensure_chanhead_pubsub_subscribed_if_needed(c) ==
    IF c.head.ps = "UNSUBSCRIBED" /\ c.ready
    THEN LET d == nodeset_node_pubsub_find_by_chanhead(c)
         IN redis_subscribe([d EXCEPT !.head.ps = "SUBSCRIBING"], d.head.pub)
    ELSE c

create_chanhead(c) ==
    ensure_chanhead_pubsub_subscribed_if_needed(
        [c EXCEPT !.head = [NoHead EXCEPT !.live = TRUE, !.gen = c.gens + 1, !.status = "NOTREADY"],
                  !.gens = @ + 1, !.unready = ~c.ready])

redis_chanhead_gc_withdraw(c) == [c EXCEPT !.head.gc = FALSE]

nchan_store_get_chanhead(c) ==
    LET d == IF c.head.live THEN c ELSE create_chanhead(c)
        e == redis_chanhead_gc_withdraw(ensure_chanhead_pubsub_subscribed_if_needed(d))
    IN IF d.head.status # "INACTIVE" THEN d
       ELSE [e EXCEPT !.head.status = IF e.head.ps = "SUBSCRIBED" THEN "READY" ELSE "NOTREADY"]

redis_chanhead_gc_add(c) ==
    LET d == rc_check(c, ~c.sub.enq, "collected with subscribers")
    IN IF d.head.gc THEN d
       ELSE rc_check([d EXCEPT !.head.gc = TRUE, !.head.status = "INACTIVE"],
                     d.head.status # "INACTIVE", "collected twice")

\* Fault: a head with commands on their way is collected.
ready_to_reap_unreserved(c) ==
    /\ c.head.status = "INACTIVE" /\ ~c.sub.enq
    /\ c.head.fetching = 0

nchan_redis_chanhead_ready_to_reap(c) ==
    /\ c.head.status = "INACTIVE" /\ c.head.reserved = 0 /\ ~c.sub.enq
    /\ c.head.fetching = 0

redis_unsubscribe(c, n) == [c EXCEPT !.req[n] = Append(@, "UNSUBSCRIBE")]

\* Only a head that is SUBSCRIBED unsubscribes.  A head's id is in dissociate_chanhead's lists no more.
redis_store_reap_chanhead(c) ==
    LET d == IF c.head.ps = "SUBSCRIBED" THEN redis_unsubscribe(c, c.head.pub) ELSE c
    IN [d EXCEPT !.head = NoHead, !.orphan = @ \/ c.head.ps = "SUBSCRIBING"]

\* An INACTIVE head is made READY again, or a head is made for a message whose key was asked for, and nobody adds it to the reaper: see the flag recycled.
nchan_store_publish_generic(c, m, prev) ==
    LET d == nchan_store_get_chanhead(c)
    IN IF d.sub.enq THEN respond_message(d, m, prev)
       ELSE [d EXCEPT !.recycled = @ \/ c.head.gc \/ ~c.head.live]

-------------------------------------------------------------------------------
\* Commands whose reply was an error of the cluster run again when the set of nodes is ready

\* sub is 0 once the subscriber of a reconnect_callback is destroyed.
on_ready(c, op, id, gen, sub) ==
    [c EXCEPT !.onready = Append(@, [op |-> op, id |-> id, gen |-> gen, sub |-> sub])]

internal_subscriber_free(c, n) ==
    [c EXCEPT !.alive = @ \ {n}, !.dying = @ \ {n},
              !.onready = [i \in DOMAIN @ |->
                               IF @[i].op = "reconnect" /\ @[i].sub = n THEN [@[i] EXCEPT !.sub = 0] ELSE @[i]]]

internal_subscriber_destroy(c, n) ==
    IF c.held[n] > 0 THEN [c EXCEPT !.dying = @ \cup {n}] ELSE internal_subscriber_free(c, n)

internal_release(c, n) ==
    LET d == rc_check([c EXCEPT !.held[n] = @ - 1], n \in c.alive, "release of a freed subscriber")
    IN IF n \in c.dying /\ d.held[n] = 0 THEN internal_subscriber_free(d, n) ELSE d

\* head: a command that names the head of generation gen finds that head.
names_head(c, gen) == rc_check(c, c.head.live /\ c.head.gen = gen, "command of a freed head")

redis_subscriber_register_send(c, gen, n) ==
    IF c.ready
    THEN LET d == nodeset_node_find_by_chanhead(names_head(c, gen))
         IN redis_command([d EXCEPT !.head.reserved = @ + 1], d.head.cmd, "register", 0, n)
    ELSE rc_lose(internal_release(c, n), "registration")

redis_subscriber_register(c) ==
    redis_subscriber_register_send([c EXCEPT !.held[c.sub.n] = @ + 1], c.head.gen, c.sub.n)

redis_subscriber_unregister_send(c) ==
    IF c.ready THEN redis_command(c, c.view, "unregister", 0, 0) ELSE c

\* With the set of nodes not ready nothing is sent, and the timer is not set again.
redisChannelKeepaliveCallback_send(c, gen) ==
    IF c.ready THEN redis_command([names_head(c, gen) EXCEPT !.head.reserved = @ + 1], c.view, "keepalive", 0, 0)
    ELSE rc_lose(c, "keepalive")

get_msg_from_msgkey_send(c, m) ==
    IF c.ready THEN redis_command(c, c.view, "msgkey", m, 0) ELSE rc_lose(c, "message")

\* The subscriber a reconnect_callback is about was deleted with its channel.
reconnect_callback(c) == rc_fail(c, "reconnect_callback of a deleted channel")

\* What a callback of the list does, the set of nodes being ready or its wait over.
on_ready_callback(c, r) ==
    LET released == [names_head(c, r.gen) EXCEPT !.head.reserved = @ - 1]
    IN CASE r.op = "get" -> nchan_store_async_get_message_send(c, r.id)
         [] r.op = "register" -> redis_subscriber_register_send(released, r.gen, r.sub)
         [] r.op = "unregister" -> redis_subscriber_unregister_send(c)
         [] r.op = "keepalive" -> redisChannelKeepaliveCallback_send(released, r.gen)
         [] r.op = "msgkey" -> get_msg_from_msgkey_send(c, r.id)
         [] r.op = "reconnect" -> reconnect_callback(c)

nodeset_callback_on_ready(c, r) ==
    IF c.ready THEN on_ready_callback(c, r) ELSE on_ready(c, r.op, r.id, r.gen, r.sub)

nodeset_run_on_ready_callbacks(c) ==
    FoldLeft(on_ready_callback, [c EXCEPT !.onready = <<>>], c.onready)

-------------------------------------------------------------------------------
\* Subscribers of the channel

\* spooler_dequeue_handler: a head whose last message is still being fetched is not collected.
spooler_dequeue_handler(c) ==
    LET d == redis_subscriber_unregister_send([c EXCEPT !.sub.enq = FALSE])
    IN IF d.head.fetching = 0 THEN redis_chanhead_gc_add(d)
       ELSE [d EXCEPT !.uncollected = TRUE]

\* A spool left waiting for the channel to be ready, which it became while INACTIVE, is not woken up;
\* one whose id was asked for takes that answer, older though it is than what was announced since.
\* spooler_add_handler, then the spool of the oldest message fetches it.
nchan_store_subscribe_continued(c) ==
    LET d == nchan_store_get_chanhead(c)
        n == c.subs + 1
        e == redis_subscriber_register([d EXCEPT !.sub = [NoSub EXCEPT !.n = n, !.enq = TRUE], !.subs = n,
                                                 !.alive = @ \cup {n}])
        new == [e EXCEPT !.head.pos = 0, !.head.st = IF d.head.pos = 0 THEN @ ELSE "INVALID",
                         !.uncollected = FALSE, !.recycled = FALSE,
                         !.missed = @ \/ d.head.fetching > 0,
                         !.lost = IF d.head.pos = 0 /\ d.head.st = "NOTREADY" /\ d.head.status = "READY"
                                  THEN @ \cup {"wakeup"} ELSE @]
    IN IF new.head.st = "INVALID" THEN spool_fetch(new) ELSE new

\* memstore_reap_chanhead: the memory store gives its channel up.
memstore_redis_subscriber_destroy(c) ==
    LET d == IF c.sub.enq THEN spooler_dequeue_handler(c) ELSE c
    IN [internal_subscriber_destroy(d, c.sub.n) EXCEPT !.sub = NoSub]

\* The memory store's channel is deleted, and the subscriber with it.
sub_respond_status_gone(c) ==
    LET waits == ~c.ready /\ ~c.sub.waits
        d == IF waits THEN on_ready([c EXCEPT !.sub.waits = TRUE], "reconnect", 0, c.head.gen, c.sub.n) ELSE c
    IN memstore_redis_subscriber_destroy(d)

delete_channel_alert(c) ==
    LET d == nchan_store_get_chanhead(c)
        e == IF d.sub.enq THEN sub_respond_status_gone(d) ELSE d
    IN [redis_chanhead_gc_add(nchan_store_get_chanhead(e)) EXCEPT !.uncollected = FALSE]

-------------------------------------------------------------------------------
\* Replies

keyslot_error(c, res) == IF res.is = "keyslot" THEN [c EXCEPT !.ready = FALSE] ELSE c
no_reply(res) == res.is \in {"null", "keyslot"}

\* Whether the command is to run again.
nodeset_node_can_retry_commands(c, res) == res.is = "keyslot" /\ c.conf.retry

redis_get_message_callback(c, r, res) ==
    IF ~c.ready THEN nodeset_callback_on_ready(c, r)
    ELSE IF nodeset_node_can_retry_commands(c, res) THEN nodeset_callback_on_ready(keyslot_error(c, res), r)
    ELSE IF no_reply(res) THEN rc_lose(keyslot_error(c, res), "fetch")
    ELSE IF c.head.live /\ c.head.gen = r.gen THEN spool_fetch_msg_callback(c, r.id, res) ELSE c

redis_subscriber_register_cb(c, r, res) ==
    LET d == [keyslot_error(names_head(c, r.gen), res) EXCEPT !.head.reserved = @ - 1]
    IN IF nodeset_node_can_retry_commands(c, res)
       THEN nodeset_callback_on_ready([d EXCEPT !.head.reserved = @ + 1], r)
       ELSE IF no_reply(res) THEN rc_lose(internal_release(d, r.sub), "registration")
       ELSE [internal_release(d, r.sub) EXCEPT !.head.timer = TRUE]

\* An error in a script that is not its own is not retried: only errors of the script name the channel.
redis_subscriber_unregister_cb(c, r, res) ==
    IF res.is = "keyslot" THEN nodeset_callback_on_ready(keyslot_error(c, res), r) ELSE c

\* The server answered with the next keepalive, or that the channel has no subscribers.
redisChannelKeepaliveCallback(c, r, res) ==
    LET d == [keyslot_error(names_head(c, r.gen), res) EXCEPT !.head.reserved = @ - 1]
    IN IF nodeset_node_can_retry_commands(c, res)
       THEN nodeset_callback_on_ready([d EXCEPT !.head.reserved = @ + 1], r)
       ELSE IF res.is = "deserted" THEN d ELSE [d EXCEPT !.head.timer = TRUE]

get_msg_from_msgkey_callback(c, r, res) ==
    IF nodeset_node_can_retry_commands(c, res) THEN nodeset_callback_on_ready(keyslot_error(c, res), r)
    ELSE IF res.is = "found" THEN nchan_store_publish_generic(c, res.m, res.prev)
    ELSE rc_lose(keyslot_error(c, res), "message")

reply(c, r, res) ==
    CASE r.op = "get" -> redis_get_message_callback(c, r, res)
      [] r.op = "register" -> redis_subscriber_register_cb(c, r, res)
      [] r.op = "unregister" -> redis_subscriber_unregister_cb(c, r, res)
      [] r.op = "keepalive" -> redisChannelKeepaliveCallback(c, r, res)
      [] r.op = "msgkey" -> get_msg_from_msgkey_callback(c, r, res)

\* A large message is announced by its key, and fetched.
get_msg_from_msgkey(c, m) ==
    LET d == nchan_store_get_chanhead(c)
    IN IF d.sub.enq THEN get_msg_from_msgkey_send(d, m) ELSE [d EXCEPT !.recycled = @ \/ c.head.gc]

\* redis_subscriber_callback finds the head by the id of the channel, whoever subscribed.
pubsub_acknowledgement(c, n, r) ==
    IF ~c.head.live THEN c
    ELSE IF r.is = "subscribe" THEN pubsub_subscribed(c, n)
    ELSE IF c.head.ps = "UNSUBSCRIBED" THEN c ELSE [pubsub_unsubscribed(c, n) EXCEPT !.crossed = TRUE]

pubsub_message(c, r) ==
    CASE r.is = "msg" -> IF c.head.live THEN nchan_store_publish_generic(c, r.m, r.prev) ELSE c
      [] r.is = "msgkey" -> IF c.head.live THEN get_msg_from_msgkey(c, r.m) ELSE c
      [] r.is = "delete" -> delete_channel_alert(c)

redis_subscriber_callback(c, n, r) ==
    IF r.is \in {"subscribe", "unsubscribe"} THEN pubsub_acknowledgement(c, n, r) ELSE pubsub_message(c, r)

-------------------------------------------------------------------------------
\* Nodes

\* A lost connection: replies that will not come are NULL, then the channels of the node are listed as
\* disconnected, and the set of nodes is not ready unless the node is a slave.
node_disconnect_channels(c, n) ==
    LET null(acc, r) == reply(acc, r, [is |-> "null"])
        nulled == FoldLeft(null, [c EXCEPT !.cmd[n] = <<>>, !.ans[n] = <<>>],
                           [i \in DOMAIN c.ans[n] |-> c.ans[n][i].r] \o c.cmd[n])
        down == [nulled EXCEPT !.up = @ \ {n}, !.req[n] = <<>>, !.rep[n] = <<>>, !.dict[n] = 0,
                               !.subscribed = @ \ {n}]
        cmd == IF down.head.cmd # n THEN down
               ELSE [down EXCEPT !.head.cmd = NoNode, !.head.dcmd = TRUE,
                                 !.head.status = IF @ = "READY" THEN "NOTREADY" ELSE @]
    IN IF cmd.head.pub = n THEN pubsub_unsubscribed(cmd, NoNode) ELSE cmd

\* A slave that is lost is forgotten, and the set of nodes stays ready.
node_lost(c, n) ==
    [node_disconnect_channels(c, n) EXCEPT !.ready = @ /\ ~c.conf.cluster /\ n # c.view]

\* In a cluster a node that is made ready gives up the channels that are not in its keyslots.
node_make_ready_channels(c, n) ==
    LET cmd == IF c.conf.cluster /\ c.head.cmd = n /\ c.slot # n
               THEN [c EXCEPT !.head.cmd = NoNode, !.head.dcmd = TRUE,
                              !.head.status = IF @ = "READY" THEN "NOTREADY" ELSE @]
               ELSE c
    IN IF c.conf.cluster /\ c.head.pub = n /\ c.slot # n /\ c.head.ps # "UNSUBSCRIBED"
       THEN redis_unsubscribe(pubsub_unsubscribed(cmd, NoNode), n) ELSE cmd

\* The head is made READY here without a word to its spools.
update_chanhead_status_on_reconnect(c) ==
    IF c.head.cmd # NoNode /\ c.head.pub # NoNode /\ c.head.ps = "SUBSCRIBED" /\ c.head.status = "NOTREADY"
    THEN [c EXCEPT !.head.status = "READY",
                   !.lost = IF c.head.st = "NOTREADY" THEN @ \cup {"wakeup"} ELSE @]
    ELSE c

\* A head that stayed READY catches up before its new subscription begins.
nodeset_reconnect_disconnected_channels(c) ==
    LET cmd == IF c.head.dcmd
               THEN update_chanhead_status_on_reconnect(
                        nodeset_node_find_by_chanhead([c EXCEPT !.head.dcmd = FALSE]))
               ELSE c
        missed == [cmd EXCEPT !.head.dpub = FALSE, !.missed = @ \/ (c.sub.enq /\ (\/ c.head.pos = Latest
                                                                          \/ c.head.fetching > 0
                                                                          \/ cmd.head.status = "READY"))]
    IN IF ~c.head.dpub THEN cmd
       ELSE update_chanhead_status_on_reconnect(
                ensure_chanhead_pubsub_subscribed_if_needed(
                    redis_chanhead_catch_up_after_reconnect(nodeset_node_pubsub_find_by_chanhead(missed))))

\* The set of nodes becomes ready; a cluster was asked for its keyslots first.
nodeset_set_status_ready(c) ==
    LET made == node_make_ready_channels(node_make_ready_channels(c, "a"), "b")
    IN nodeset_run_on_ready_callbacks(
           nodeset_reconnect_disconnected_channels([made EXCEPT !.view = c.slot, !.ready = TRUE]))

-------------------------------------------------------------------------------
\* Actions

running == rc.failed = {}
RcDoes(next) == running /\ rc' = [next EXCEPT !.pick = "a"]
\* The handler runs with a choice of the node to subscribe on.
chosen(p) == [rc EXCEPT !.pick = p]
Picks == nodeset_node_random_master_or_slave(rc)
rc_fault(c) == [c EXCEPT !.faults = @ + 1]
may_fault == rc.faults < rc.conf.faults

memstore_subscribes ==
    /\ rc.sub.n = 0 /\ rc.subs < rc.conf.subs
    /\ \E p \in Picks : RcDoes(nchan_store_subscribe_continued(chosen(p)))

memstore_unsubscribes == rc.sub.n # 0 /\ RcDoes(memstore_redis_subscriber_destroy(rc))

redis_reaper == rc.head.live /\ rc.head.gc /\ nchan_redis_chanhead_ready_to_reap(rc)
                /\ RcDoes(redis_store_reap_chanhead(rc))

redis_channel_keepalive_timer_handler ==
    /\ rc.keepalives < rc.conf.keepalives
    /\ rc.head.timer /\ rc.head.ps = "SUBSCRIBED" /\ rc.head.status # "NOTREADY"
    /\ RcDoes(redisChannelKeepaliveCallback_send([rc EXCEPT !.head.timer = FALSE, !.keepalives = @ + 1], rc.head.gen))

\* A server runs the next command of a connection.
found(m) == [is |-> "found", m |-> m, prev |-> IF m - 1 > rc.base THEN m - 1 ELSE 0]
get_message(id) ==
    IF id # 0 /\ id <= rc.base THEN [is |-> "notfound"]
    ELSE IF (IF id < rc.base THEN rc.base ELSE id) < Len(rc.list)
         THEN found((IF id < rc.base THEN rc.base ELSE id) + 1)
    ELSE IF id = 0 THEN [is |-> "notfound"] ELSE [is |-> "expected"]

server_answer(n, r) ==
    IF rc.conf.cluster /\ rc.slot # n THEN [is |-> "keyslot"]
    ELSE CASE r.op = "get" -> get_message(r.id)
           [] r.op = "msgkey" -> IF r.id > rc.base THEN found(r.id) ELSE [is |-> "absent"]
           [] r.op = "keepalive" -> [is |-> IF rc.chan.subs > 0 THEN "ok" ELSE "deserted"]
           [] r.op \in {"register", "unregister"} -> [is |-> "ok"]

\* The server counts who registers; a channel that is not there has nobody to count out.
server_chan(r, res) ==
    IF res.is # "ok" THEN rc.chan
    ELSE IF r.op = "register" THEN [on |-> TRUE, subs |-> rc.chan.subs + 1]
    ELSE IF r.op = "unregister" /\ rc.chan.on THEN [rc.chan EXCEPT !.subs = @ - 1] ELSE rc.chan

ServerRuns(n) ==
    /\ rc.cmd[n] # <<>>
    /\ LET r == Head(rc.cmd[n])
           res == server_answer(n, r)
       IN RcDoes([rc EXCEPT !.cmd[n] = Tail(@), !.ans[n] = Append(@, [r |-> r, res |-> res]),
                            !.chan = server_chan(r, res)])

ServerSubscribes(n) ==
    /\ rc.req[n] # <<>>
    /\ RcDoes([rc EXCEPT !.req[n] = Tail(@),
                         !.rep[n] = Append(@, [is |-> IF Head(rc.req[n]) = "SUBSCRIBE"
                                                      THEN "subscribe" ELSE "unsubscribe"]),
                         !.subscribed = IF Head(rc.req[n]) = "SUBSCRIBE" THEN @ \cup {n} ELSE @ \ {n}])

Announce(c, r) ==
    [c EXCEPT !.rep = [n \in RcNodes |-> IF n \in c.subscribed THEN Append(@[n], r) ELSE @[n]]]

SomeonePublishes(size) ==
    /\ Len(rc.list) < rc.conf.published /\ size \in rc.conf.sizes
    /\ LET c == [rc EXCEPT !.list = Append(@, size), !.chan.on = TRUE]
       IN RcDoes(Announce(c, [is |-> IF size = "large" THEN "msgkey" ELSE "msg", m |-> Len(c.list),
                              prev |-> IF Len(rc.list) > rc.base THEN Len(rc.list) ELSE 0]))

\* The registrations go with the channel.
SomeoneDeletes ==
    /\ rc.deletes < rc.conf.deletes /\ rc.base < Len(rc.list)
    /\ LET c == [rc EXCEPT !.base = Len(rc.list), !.deletes = @ + 1, !.chan = NoChan]
       IN RcDoes(Announce(IF rc.chan.subs > 0 THEN rc_lose(c, "registration") ELSE c, [is |-> "delete"]))

\* The worker reads the next reply of a connection.
ReadsReply(n) ==
    /\ rc.ans[n] # <<>>
    /\ \E p \in Picks : RcDoes(reply([chosen(p) EXCEPT !.ans[n] = Tail(@)], Head(rc.ans[n]).r, Head(rc.ans[n]).res))

\* hiredis runs the callback it keeps for the channel, if it keeps one.
hiredis_counts(c, n, is) ==
    IF is = "subscribe" THEN [c EXCEPT !.dict[n] = IF @ = 0 THEN 0 ELSE @ - 1]
    ELSE IF is = "unsubscribe" /\ c.dict[n] = 1 THEN [c EXCEPT !.dict[n] = 0] ELSE c

ReadsPubsub(n) ==
    /\ rc.rep[n] # <<>>
    /\ LET r == Head(rc.rep[n])
       IN \E p \in Picks :
            LET c == hiredis_counts([chosen(p) EXCEPT !.rep[n] = Tail(@)], n, r.is)
            IN RcDoes(IF rc.dict[n] = 0 THEN c ELSE redis_subscriber_callback(c, n, r))

LosesNode(n) == n \in rc.up /\ may_fault /\ RcDoes(rc_fault(node_lost(rc, n)))

\* Another node of the set fails, or a check finds the cluster changed.
SetFails == rc.ready /\ may_fault /\ RcDoes(rc_fault([rc EXCEPT !.ready = FALSE]))

SlotMoves ==
    /\ rc.conf.cluster /\ may_fault
    /\ RcDoes(rc_fault([rc EXCEPT !.slot = IF @ = "a" THEN "b" ELSE "a"]))

\* A slave that comes back is connected while the set of nodes is not ready.
NodeReturns(n) ==
    /\ n \notin rc.up
    /\ RcDoes([rc EXCEPT !.up = @ \cup {n}, !.ready = FALSE])

SetReady ==
    /\ ~rc.ready /\ rc.up = RcNodes
    /\ \E p \in nodeset_node_random_master_or_slave([rc EXCEPT !.view = rc.slot]) :
          RcDoes(nodeset_set_status_ready(chosen(p)))

nodeset_onready_expire_event ==
    /\ rc.onready # <<>> /\ ~rc.ready /\ may_fault
    /\ RcDoes(rc_fault(on_ready_callback([rc EXCEPT !.onready = Tail(@)], Head(rc.onready))))

RcInit ==
    \E conf \in RcSetups :
       rc = [conf |-> conf, deletes |-> 0, keepalives |-> 0, slot |-> "a", view |-> "a", up |-> RcNodes, ready |-> TRUE,
             head |-> NoHead, gens |-> 0, sub |-> NoSub, subs |-> 0, alive |-> {}, dying |-> {},
             held |-> [n \in 1 .. conf.subs |-> 0],
             req |-> [n \in RcNodes |-> <<>>], rep |-> [n \in RcNodes |-> <<>>],
             dict |-> [n \in RcNodes |-> 0], subscribed |-> {},
             cmd |-> [n \in RcNodes |-> <<>>], ans |-> [n \in RcNodes |-> <<>>], onready |-> <<>>,
             list |-> <<>>, base |-> 0, chan |-> NoChan, pick |-> "a", faults |-> 0,
             failed |-> {}, lost |-> {}, gap |-> FALSE, missed |-> FALSE, unready |-> FALSE, crossed |-> FALSE,
             orphan |-> FALSE, recycled |-> FALSE, uncollected |-> FALSE]

RcNext ==
    \/ memstore_subscribes \/ memstore_unsubscribes \/ redis_reaper
    \/ redis_channel_keepalive_timer_handler \/ nodeset_onready_expire_event
    \/ \E n \in RcNodes : \/ ServerRuns(n) \/ ServerSubscribes(n) \/ ReadsReply(n) \/ ReadsPubsub(n)
                          \/ LosesNode(n) \/ NodeReturns(n)
    \/ \E size \in {"small", "large"} : SomeonePublishes(size)
    \/ SomeoneDeletes \/ SetFails \/ SlotMoves \/ SetReady

RcSpec == RcInit /\ [][RcNext]_rcVars

-------------------------------------------------------------------------------
\* Properties

\* The record has its type.
RcTypeOK ==
    /\ rc.slot \in RcNodes /\ rc.view \in RcNodes /\ rc.up \subseteq RcNodes /\ rc.subscribed \subseteq rc.up
    /\ rc.head.status \in {"INACTIVE", "NOTREADY", "READY"}
    /\ rc.head.ps \in {"UNSUBSCRIBED", "SUBSCRIBING", "SUBSCRIBED"}
    /\ rc.head.st \in {"INVALID", "PENDING", "EXPECTED", "NOTREADY"}
    /\ {rc.head.cmd, rc.head.pub} \subseteq RcNodes \cup {NoNode}
    /\ rc.head.pos \in 0 .. Len(rc.list) \cup {Latest}
    /\ \A n \in RcNodes : \A r \in Range(rc.cmd[n]) : r.op \in RcCommands

\* Assertions of the code, and uses of freed memory, that no order of events reaches.  The other labels
\* of failed are reached, each only after the events named with it: an UNSUBSCRIBE acknowledged to a
\* later head (crossed), a head reaped while SUBSCRIBING (orphan), a lost connection.
RcNoMisuse ==
    /\ rc.failed \subseteq {"subscribed while in disconnected_pubsub", "associated while in disconnected_pubsub",
                            "subscribed on another node", "log of a NULL node",
                            "reconnect_callback of a deleted channel"}
    /\ "subscribed while in disconnected_pubsub" \in rc.failed => rc.orphan \/ rc.crossed
    /\ "subscribed on another node" \in rc.failed => rc.orphan \/ rc.crossed
    /\ "associated while in disconnected_pubsub" \in rc.failed => rc.crossed \/ rc.faults > 0
    /\ "log of a NULL node" \in rc.failed => rc.faults > 0
    /\ "reconnect_callback of a deleted channel" \in rc.failed => rc.faults > 0 /\ rc.deletes > 0

\* The commands whose data points to the head: sent, answered, or waiting for the set to be ready.
InFlight == [i \in 1 .. 5 |-> CASE i = 1 -> rc.cmd["a"] [] i = 2 -> rc.cmd["b"] [] i = 5 -> rc.onready
                                 [] i = 3 -> [j \in DOMAIN rc.ans["a"] |-> rc.ans["a"][j].r]
                                 [] i = 4 -> [j \in DOMAIN rc.ans["b"] |-> rc.ans["b"][j].r]]
Holders == {<<i, j>> \in (1 .. 5) \X (1 .. 20) :
               j \in DOMAIN InFlight[i] /\ InFlight[i][j].op \in {"register", "keepalive"}
               /\ InFlight[i][j].gen = rc.head.gen}

\* A head is reserved once for every register and keepalive command that holds a pointer to it, so the
\* reaper frees it only when none is on its way, whatever is retried or answered NULL.
HeadReservedExact == running /\ rc.head.live => rc.head.reserved = Cardinality(Holders)

\* A head that is SUBSCRIBED is subscribed at the server it names, with a callback in hiredis, as long as
\* no acknowledgement was taken for another head's.
SubscribedIsReal ==
    running /\ rc.head.live /\ rc.head.ps = "SUBSCRIBED" /\ ~rc.crossed /\ ~rc.orphan =>
        rc.head.pub \in rc.subscribed /\ rc.dict[rc.head.pub] # 0

\* Nothing is on its way and every node is up.
Quiet ==
    /\ running /\ rc.ready /\ rc.up = RcNodes /\ rc.onready = <<>>
    /\ \A n \in RcNodes : rc.cmd[n] = <<>> /\ rc.ans[n] = <<>> /\ rc.req[n] = <<>> /\ rc.rep[n] = <<>>

\* Once the channel is quiet the memory store has every message, unless a fetch or an announced message
\* was dropped with a connection (lost), or its subscriber waited for the newest message or for
\* an answer over a reconnection, or for an earlier subscriber's answer, or the head
\* stayed READY without a subscription (missed), or the head was made while the set of nodes was not ready.
CaughtUpWhenQuiet ==
    Quiet /\ rc.sub.enq /\ rc.deletes = 0 /\ rc.lost \subseteq {"keepalive", "registration"} /\ ~rc.missed
    /\ ~rc.crossed /\ ~rc.orphan /\ ~rc.unready =>
        rc.sub.got = Len(rc.list)

\* Messages reach the memory store without a gap, unless its subscriber waited for the newest message, or
\* for an answer, over a reconnection, or a large message was not fetched.
NoGapUnlessMissed == rc.gap /\ rc.deletes = 0 => rc.missed \/ "message" \in rc.lost

\* Through lost connections, moved keyslots, retries and deletions, a head is used only while it is there,
\* what it says of its subscription is so, and messages come without a gap.
RcSafe == RcTypeOK /\ RcNoMisuse /\ HeadReservedExact /\ SubscribedIsReal /\ NoGapUnlessMissed

\* Once the channel is quiet a head nobody subscribes to is in the reaper, unless its last subscriber
\* left during a fetch (uncollected) or a message made it READY again (recycled); and without a head no
\* server is left subscribed, unless the head was reaped while SUBSCRIBING.
CollectedWhenQuiet ==
    Quiet /\ ~rc.sub.enq /\ ~rc.crossed =>
        /\ rc.head.live => rc.head.gc \/ rc.uncollected \/ rc.recycled
        /\ ~rc.head.live => rc.subscribed = {} \/ rc.orphan

\* A head with a subscriber keeps its channel alive at the server: once the channel is quiet its keepalive
\* is due, whatever failed and was sent again, unless a keepalive found the set of nodes not ready, or a
\* registration did, was not answered (redis_subscriber_register_cb does not try again), or was deleted with
\* the channel.
KeepaliveGoesOn ==
    Quiet /\ rc.sub.enq /\ rc.lost \cap {"keepalive", "registration"} = {} => rc.head.timer

\* When nothing is on its way any more, the channel has recovered from whatever happened to it: its
\* messages are here, its head is kept alive or collected.
RecoveredWhenQuiet == CaughtUpWhenQuiet /\ CollectedWhenQuiet /\ KeepaliveGoesOn
===============================================================================
