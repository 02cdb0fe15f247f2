# Verification of nchan

TLA+ models of nchan, the publish/subscribe module for nginx, with TLC
configurations that check them on small instances and TLAPS proofs. Source paths
are relative to `src/` of the repository; `PROJECT.json` has the lines that every
definition models.

## The system

nginx runs several worker processes, each a single-threaded event loop. A
channel is *owned* by one worker, chosen by a hash of its id. The owner keeps the
channel's messages in shared memory. A worker that has subscribers of a channel
it does not own keeps a *foreign* channel head, which subscribes to the owner
over pipes ("alerts"). Channels may also be kept in Redis; a worker then follows
them with Redis' own subscriptions.

| part | source | modules |
|---|---|---|
| channel spooler: groups subscribers by the last message they have seen, fetches the next one, answers when one is published | `store/spool.c` | `Spooler` |
| delivery from the owner's buffer to another worker's subscribers | `memstore.c`, `ipc-handlers.c`, `memstore_ipc.c` | `Delivery` |
| message buffer of a channel | `store/memory/memstore.c` | `MsgBuffer` |
| alerts between workers | `store/memory/ipc.c` | `IpcQueue` |
| life of channel heads | `memstore.c`, `ipc-handlers.c`, `memstore_ipc.c`, `internal.c` | `ChanheadLife` |
| reference counts of messages in shared memory | `util/nchan_msg.c`, `util/nchan_output.c` | `MsgRefs` |
| reapers: deferred destruction of heads and messages | `util/nchan_reaper.c` | `Reaper`, `ReapQueue` |
| multi-channel subscriptions | `memstore.c` (get_multi_message), `memstore_multi.c`, `nchan_msg.c` | `MultiMsg` |
| channel groups: shared counters and limits | `store/memory/groups.c` | `Groups` |
| HTTP subscribers: long polling, EventSource, chunked, multipart, raw | `subscribers/*.c`, `util/nchan_fake_request.c` | `HttpSubscriber` |
| websockets | `subscribers/websocket.c`, `nchan_websocket_publisher.c` | `Websocket`, `WsFrames` |
| content handlers | `nchan_module.c`, `util/nchan_output.c` | `FrontEnd` |
| Redis connections and clusters | `store/redis/redis_nodeset.c` | `Nodeset` |
| channels in Redis | `store/redis/rdsstore.c`, `memstore_redis.c` | `RedisChannel` |
| scripts that run in Redis | `store/redis/redis_lua_commands.c` (`redis-lua-scripts/*.lua`) | `RedisScripts` |
| MessagePack | `store/redis/cmp.c`, `rdsstore.c` | `MsgPack` |
| readers-writer lock | `store/ngx_rwlock.c` | `RwLock`, `ReadersWriter` |

`PROJECT.json` lists every part with its status, and every hazard found in the
code with the properties that cover it.

Three module families go beyond one component. `Delivery` composes `Spooler`, the
owner and the pipe. `Reaper` implements `ReapQueue`, and `RwLock` implements
`ReadersWriter`, by refinement mappings. The `MC` modules give the
constants values and bounds; `MCShared`, `MCWorkers`, `MCStore`, `MCClients` and
`MCRedis` put several modules into one run: a variable `part`, chosen in the first state,
says which of them moves, and the others stand still.

Operators commented *Fault* say what the definition that follows would be with
a plausible mistake in the code. Nothing uses them; each one, put in place of the
definition, makes TLC find a property violated, which shows that the property
depends on that code.

## Modules

An action is one handler that an event loop runs to completion, with every call that
it makes. Where workers share memory, a handler is split at its atomic operations.
Many components (`HttpSubscriber`, `Websocket`, `FrontEnd`, `Nodeset`,
`RedisChannel`, `RedisScripts`) keep their state in one record, and a function of the
code is an operator from record to record, so that nested calls compose as in
the code. In these records `failed` collects the assertions that fail and the uses of freed
memory; other flags (`raced`, `late`, `crossed`, `missed` and so on) are history
that says which rare event a property makes an exception for.

### Spooler

Message ids are abstracted to naturals in publishing order, because the spooler
only compares them. 0 is the oldest-message id, `Newest` (-1) the
`current_msg_spool`, `Nth` (-2) the spool of "the n-th message".

| variable | code |
|---|---|
| `status` | `*channel_status`: READY or not |
| `spool[i]` | `msg_status` of the spool with id `i`; `"none"` if the tree has none |
| `at[s]`, `last[s]` | the spool a subscriber is in, and its own `last_msgid` |
| `timer` | spools whose `fetchmsg_ev` timer is set |
| `fetches[i]` | entries of `fetchmsg_cb_data_list` for id `i` |
| `stale[i]` | the same after `stop_spooler` set their `spooler` to NULL |
| `crash` | the line of the assertion that ended the worker |

A published message answers all spools in range, moves or
merges them with `spool_nextmsg`, and starts the fetch that this calls for, in
one step. `spool_fetch_msg` may be put off to a zero timer (`Deferrals`): the
code's limit of 20 fetches per spool and millisecond becomes a choice. The store's
answer is a separate action. On the owner itself the store answers within
the call; that order is among those of the model, in which the answer may
also come later. `stop_spooler` happens when an unused channel head is reaped;
`respawn` is the worker that nginx starts after an abort.

The composition of spools in a range keeps one unobservable choice: which of
several merged spools survives, and with it whether the surviving one's timer is
set (`\E T \in SUBSET kept`). Left out: the pass-through strategy, used with Redis in
`nostore` mode, and notices, which change no state.

### Delivery

The subscribers' worker (actions of `Spooler`), the owner, and the pipe from the
owner to the worker. Requests are not queued separately: the owner may answer
any request it has not answered yet, in any order, which includes the FIFO order
of the pipe in the other direction. Replies and published messages share one
FIFO pipe, as in `ipc.c`; this order is what `InOrder` and `NoGap` rest on.
The owner's buffer is `first .. pub`; `MsgBuffer` has the details that this hides.
Subscribers may come from the oldest, newest or n-th message, leave, and come
back with the id of the last message they got. `got` is a history variable.
With `MayExhaust` the owner may have no shared memory for the alert of a published message and drops
it (`ipc-handlers.c:385`): the message is in the buffer, but nobody is told.

### MsgBuffer

The buffer as a sequence of messages with (time, tag) ids and expiry times.
`publish` is `nchan_store_chanhead_publish_message_generic` on the owner: it takes
over the location's buffer length, collects garbage, gives the message its id and
`prev_id`, stores it and collects again. `latest`, `before` and `prev` record what the
spooler is told. Tags are `int16_t` (`TagMax`, `NextTag`). The clock (`tick`) only goes forward.
`chanhead_find_next_message` is an operator, compared with its specification
(`FindsNext`) for every id in every reachable buffer.

### IpcQueue

A sender's ring of `SIZE` alerts with its overflow list, and the pipe. The write
loop takes one step per `write()`, since the reader drains the pipe at the same
time; the rest of the handler is one step. `first` is a `uint16_t`
(`FirstMod`). `wake` is what the write event waits for: a writable pipe, or
the one-second timer that is set while the memory store is starting. Alerts are numbered as
`ipc_alert` takes them, and `received` is the last number handed to the receiver.
One generation of workers, no allocation failures.

### ChanheadLife

One channel, its owner, and another worker F, with a FIFO pipe each way. `own` and
`fgn` are the `memstore_channel_head_t`s: status, clients, reservations, gc and, for
`own`, the counters in shared memory (`shsubs`, `outside_refcount` as `refs`); heads and ipc
subscribers are numbered as they are allocated, so that a stale address can be told
from a new one. Actions are clients that come and go, publishing, expiry and
deletion on the owner, the reapers of both workers, the nine alerts of
`ipc-handlers.c` between them, the keepalive timer of an ipc subscriber, and F being killed and
respawned (once). A head may fail to be created when shared memory is exhausted.
Messages themselves are in `Delivery`.

### MsgRefs

One message, its owner and two other workers. Its count is changed by atomic operations in
handlers that run in parallel, so that a handler is split where it reserves and
releases. `place` is where the owner has it (buffer, reaper, freed), `alerts` and
`busy` count the alerts that carry it and the handlers that use it, `out` is output that the
kernel has not taken, directly or as a derived message.

### Reaper and ReapQueue

The doubly linked list with `next` and `prev`, the place that a scan keeps, the
ratio of things that are not ready after which it stops, and the three
strategies RESCAN, KEEP_PLACE and ROTATE. Whether a thing is ready changes at any time. `ReapQueue` is what the
store relies on: a thing handed over is reaped only when it is ready, once, and may
be taken back before. Nothing is assumed about order.

### MultiMsg

A client of several channels. Ids are a second and a tag per channel. A fetch splits the
client's id (`nchan_extract_from_multi_msgid`), asks the owner of each channel that can
have a next message, keeps the earliest answer, and combines the ids
(`nchan_update_multi_msgid`). Answers come in any order; one may be lost, and then the
20-second timeout ends the fetch. `raced` says that a channel got a message of a second that its
owner had already answered for.

### Groups

The counters in the group owner's shared memory, each worker's tree node and the callbacks
queued in it until the group arrives, and the channel that each worker owns. Checking
a limit and counting are separate steps, because workers run in parallel.

### HttpSubscriber, Websocket, WsFrames, FrontEnd

`HttpSubscriber` follows one subscriber of each of seven kinds from the content handler to the
end of its request: admission by the store (locally, over IPC, in Redis, group limits), the authorization, subscribe and
unsubscribe requests of `nchan_fake_request.c`, messages, statuses, pings, timeouts, and a client that
closes at any moment. The answers of the existence check in Redis include its error and NGX_DECLINED. nginx is external: what it does to the request's count and cleanup handlers is
taken from how the code uses it. `Websocket` does the same for a websocket as a subscriber, a publisher or both,
with the closing handshake, the three timers, several publications in the hands of an upstream or the store, and the negotiation of
compression windows. Its unsubscribe request joins the queue of publications at the upstream. Two event handlers of
requests have no action, because they never have an effect (see the comment at `ws_sudden_abort_handler`). `WsFrames` is `websocket_reading` on a stream that arrives in
pieces of any size, where every byte knows which field of which frame it is. `FrontEnd` is a request in the content
handlers: the publisher and subscriber location with authorization and upstream
subrequests, the group, subscriber info and Redis statistics locations, with the methods
that no switch of the handlers has a case for, and the channel event that a DELETE sends after the store was called.

### RwLock and ReadersWriter

Every read, test and change of the lock's words by any number of processes, one step each.
Nothing in the repository calls the lock at present (`nchan_types.h` has a field of its type).

### MsgPack

All functions of `cmp.c` that write, read, convert and skip, on sequences of bytes, with integers as
nine bytes in two's complement; and what `rdsstore.c` packs for a message and unpacks from it. These are pure
functions: a state is a sequence of calls and what reading gives back.

### Nodeset

The connector of a node with its steps in the order of `redis_nodeset.h`, learning of
masters, slaves and cluster nodes, keyslots, the status of the set, its periodic
check, the cluster check and recovery. The servers are the environment: they refuse, fail,
return and fail over, at most `MaxFaults` times; what they answer is what they
are at that time. A configured node may have a role forced by its URL. In the parameters of a node that was discovered the field is not
initialised, so a setup may give it any value. A connection that is lost (`context_lost`) fails the connector if it waits on it, and otherwise runs the disconnect handler.

### RedisChannel

One channel of one worker with two Redis servers, which are two masters of a cluster or
a master and its slave. The record has the head (`rdstore_channel_head_t`), the subscriber
that fills the memory store, the commands on their way to each server, what each server has
answered or announced, the callbacks of hiredis for the subscription, and the lists of
channels of the nodes. Servers run commands in order; connections are lost with what is on them. `nchan_redis_retry_commands`
is on in some setups and off in others. The server has the channel and the number of its registrations (`chan`), and answers a keepalive from
what it has when it runs the command: -1 lets the channel disappear.

### RedisScripts

Nine of the scripts, each an atomic action on the four keys of a channel, with a clock, keys
that expire, a server with a slower clock that takes over, and workers that die. A worker's head (`reg`) has
its own keepalive interval, which `nchan_set_next_backoff` grows up to a maximum and spreads by jitter (`IdleTtl`), and which the server's answer replaces;
a head without subscribers keeps its timer until it is reaped. A registration, keepalive or
count may be lost, before or after the server has run it. Changes of the accurate count wait in `delta` for a timer,
and are `dropped` when the nodes are not ready then. A maximum of zero, which means none, is left out by assumption.

## What TLC checks

Seven runs pass and five show a disagreement between the code and its own text.
Several modules share a run (see `part` above); a property of one module is then
checked in the behaviours in which that module moves.

| run | module and configuration | properties |
|---|---|---|
| spooler | `MCSpooler` | `SubscriberInItsSpool`, `NeverBack` |
| spooler_waits | `MCSpooler`, `SpoolerWaits.cfg` | `WaitsForSomething`, if the store never answers MSG_ERROR |
| delivery | `MCShared` | `InOrder`, `NoGap`; `CountsExact`, `GroupsSafe` |
| workers | `MCWorkers` | `IncreasingIds`, `PushReachesCaughtUp`, `LookupFindsNext`; `Fifo`, `AllReceived`; `EventuallyPast` |
| store | `MCStore` | `HeadsSafe`, `WaitingEnds`; `MultiSafe`, `MultiDelivers`; `RefsSafe`, `EventuallyFreed`; `ReaperSafe`, `EventuallyReaped`, `KeepsPromise` |
| clients | `MCClients` | `HttpSafe`, `HttpEnds`; `WsSafe`, `WsEnds`; `AllFramesRead`; `FeSafe`, `RequestEnds`; `LockPromise`; `ReadsBack`, `MessageSurvives` |
| redis | `MCRedis` | `NodesetSafe`, `BecomesReady`, `EventuallyReady`; `RcSafe`, `RecoveredWhenQuiet`; `RsSafe`, `ReaderMissesNothing`, `KeptAlive` |
| spooler_error | `MCSpooler`, `SpoolerError.cfg` | `WaitsForSomething` is violated once the store may fail |
| spooler_stale | `MCSpooler`, `SpoolerStale.cfg` | `StaleCallbackIgnored` is violated |
| delivery_fetch | `MCDelivery`, `DeliveryFetch.cfg` | `FetchOnlyInvalid` is violated |
| buffer_mixed | `MCMsgBuffer`, `BufferMixed.cfg` | `IncreasingIds` is violated with unbuffered publishers |
| groups_delete | `Groups`, `GroupsDelete.cfg` | `DeletesAll` is violated |

Properties named `...Safe` are conjunctions, each part of which is defined and
commented by itself just before:

| property | what it says |
|---|---|
| `HeadsSafe` | shared data that the other worker points at, or that is on its way there, is not freed; the shared subscriber count is that of both workers' clients; a head released by address is still there; replies never cross while nobody crashes |
| `RefsSafe` | the count of a shared message is that of its holders, and nobody holds a freed one |
| `ReaperSafe` | the list is linked both ways, the kept place is on it, and the timer is set while there are things |
| `MultiSafe` | a client of several channels misses no message, unless one came within a second already answered for; tags only grow; the head is released exactly once |
| `MultiDelivers` | answers that are kept are given back, and every message is delivered at last to a client that keeps asking |
| `GroupsSafe` | the subscriber limit is exceeded at most by what other workers let in at the same time; whoever waits for a group is going to get it |
| `HttpSafe` | no assertion fails, nothing freed or closed is used, the spooler is told once that a subscriber left, collected messages are given back |
| `HttpEnds` | subscribers are freed once closed, and admission comes to an end |
| `WsSafe`, `WsEnds` | the same for websockets, with an unsubscribe request only on leaving, publications stored once and only on the upstream's answer, and agreed windows within the client's offer; closing ends whether or not the client answers |
| `FeSafe` | nothing is published or deleted that was not allowed or that the upstream did not ask for, or twice; a request that ends was answered once, and is not used after its end |
| `ReadsBack` | what MessagePack writes is read back at the limits of every format, truncated input is refused, formats are the shortest, skipping ends at the end of the object |
| `NodesetSafe` | a keyslot has one node; the node that a recovery waits for is alive; the connect timeout is set exactly while an answer is awaited; a node that may be sent commands has its connections |
| `RcSafe` | a head is reserved once for every command that points at it; SUBSCRIBED is true at the server; messages come without a gap; no freed head or subscriber is used |
| `RecoveredWhenQuiet` | once nothing is on its way the memory store has every message, unused heads are in the reaper, and the keepalive of a head with a subscriber is due |
| `RsSafe` | in Redis, buffered messages are on the channel's list, the channel outlives them, `prev` names the predecessor, no more subscribers are counted than there are, but for leavings not yet told or dropped |
| `KeptAlive` | a channel with registered subscribers does not expire before the worker that renewed it last sends its next keepalive |

Many of them make exceptions, and every exception is a history flag with a comment:
the event it stands for is one after which the code does not keep the property. These
events are listed under "Where the code falls short" below.

**Bounds.** Every bound is a constant, named in an MC module or in the module that has the counter. The
spooler runs have two subscribers (one long-polling).
`spooler` has message ids up to 2, so that a subscriber can be ahead of a message that
arrives and two spools with different ids merge; fetches are not put off there. In
`spooler_waits`, where they may be, ids go up to 1, and the store may owe two answers
for the same id: a request outlives its spool, and the spool that comes
after it with the same id asks again. `delivery` has
three messages and a buffer of two, so that messages are dropped while
subscribers are behind, two packets in the pipe, so that a reply and a
published message overtake each other's cause, and at most three requests unanswered (`MaxOwed`); groups have three workers, limits of one and two, and
one deletion. In `workers` the buffer has five seconds
and up to four tags per second (`MaxTag` below `TagMax`, so that tags do not
wrap there), and lengths 1 and 4 shrink and regrow it; the second buffer adds length 0 (unbuffered)
and deletion. The ring has three slots with indices
modulo 6 and a pipe of two, and 16 alerts, so that the ring overflows, the index
wraps, and overflow is moved up both after complete and after interrupted loops. `store` has two heads per
worker in sequence, two ipc subscribers and a crash, so that every alert can meet the head
after the one it was meant for; two channels with two messages each in three seconds; three workers that hold a
message; three things in a reaper, the least for which a place in the middle is kept. `clients` has each kind of
subscriber with each kind of admission, two messages, three publications of a websocket of which two wait, streams
of two frames, three processes at the lock, and values on both sides of each limit of
MessagePack. `redis` has three nodes and two keyslots with two faults (a server
that fails and returns, a failover) in nine setups (one node, a master and its slave listed in part or in full, one server listed
twice, a cluster, forced roles), two servers and two subscribers in turn for a channel, and a few
seconds of a script's clock with two workers whose intervals differ. Symmetry is not used: the actors differ, or the properties
are temporal.

**Deadlock** is checked in the spooler runs. The others say `CHECK_DEADLOCK FALSE`, because a bounded
number of messages, faults or requests is used up, a request ends, or a worker
aborts, and then the model rightly stops.

**Fairness** is that of event loops which keep running: what is there to read is read, a timer that is set fires, and
a question that another worker, an upstream or Redis was asked is answered, or its loss ends in a
timeout. It is weak fairness of the actions; where the state is one record, it is written as "infinitely often nothing is
waiting", which TLC evaluates faster. `Delivery`: the owner's handling of the subscription and of each
request, the reader of the pipe, each timer. `IpcQueue`: write event, write loop, reader, and the start of the
memory store. `ChanheadLife`: both workers read their pipes. `MsgRefs`: handlers finish, alerts are
read, output is flushed or given up, the message expires, the reaper's timer fires. `Reaper`: its timer fires. `MultiMsg`: answers
come, or the timeout does, and the client asks again. `HttpSubscriber`, `Websocket`: checks, subrequests and the store answer, and the closing timer
fires. `FrontEnd`: what a request waits for comes, and a subscriber leaves at last. `WsFrames`: bytes that were sent arrive and are
read. `Nodeset`: answers, lost connections and timers, and servers that failed come back, which is what `EventuallyReady`
presumes. Publishers have no fairness, and nobody has to fail. The runs for `RedisChannel`, `RedisScripts`, `MsgPack`
and `RwLock` check safety only.

### Findings

1. *spooler_error*: after MSG_ERROR (`spool.c:417`) a spool stays MSG_PENDING although
   no request is left. Whoever joins it afterwards finds "nothing to do"
   (`spool.c:714`) and waits until a message is published.
2. *spooler_stale*: `spool_fetch_msg_callback` reads `spl->fetching_strategy`
   (`spool.c:311`) before it tests `spl` for NULL (`spool.c:323`). `stop_spooler` sets it to NULL for
   requests in flight.
3. *delivery_fetch*: a subscriber from the n-th message and one from the oldest
   message on an empty channel. The oldest spool is MSG_EXPECTED when the reply
   NOTFOUND for the n-th message moves the other subscriber there and fetches
   (`spool.c:391`); `spool_fetch_msg` asserts MSG_INVALID (`spool.c:479`).
4. *buffer_mixed*: locations with and without a buffer publish to one channel in
   the same second. The unbuffered one numbers its message after
   `latest_msgid`, the buffered one after the last stored message, so that an id
   comes twice or goes down ("monotonicity is still preserved", `memstore.c:3141`).
5. *groups_delete*: a request to delete a group (`README.md:1361`: "delete all channels in group") is
   handled by a worker that does not own the group. `group_delete_callback` (`groups.c:283`) deletes
   the worker's own channels only if it owns the group, and its broadcast goes to the
   other workers only.

The other two hypotheses under which ids are shown to increase, that the channel is not
deleted and that the tag does not wrap within a second, are needed as well: with
`MayDelete = TRUE`, or `MaxTag = TagMax`, TLC finds `IncreasingIds` violated too.

### Statements of the documentation and of assertions that the code does not keep

These are defined in the modules, and TLC finds each violated when its name is added to the
configuration.

| definition | configuration | statement |
|---|---|---|
| `AddFindsSharedOkay` | `MCStore.cfg` | assertion at `memstore.c:759` |
| `NoLoss` | `MCStore.cfg` | no loss of messages (`README.md:14`), for several channels and one second |
| `RefusedIsClosed` | `MCClients.cfg` | a refused subscriber is answered and closed (`README.md:550`) |
| `UnsubscribeSent` | `MCClients.cfg` | the unsubscribe request follows every subscriber that left (`README.md:1311`) |
| `SubscribeAfterJoin` | `MCClients.cfg` | the subscribe request comes after subscribing (`README.md:1239`) |
| `SkipsByDepth` | `MCClients.cfg` | the limit of `cmp_skip_object_limit` is one of depth (`cmp.h:335`) |
| `NodeConnectAsserted` | `MCRedis.cfg` | assertion at `redis_nodeset.c:1715` |
| `AllRenewInTime` | `MCRedis.cfg` | a keepalive gives a time to live that "Nchan can update [...] before it expires" (`redis_lua_commands.c:71`), for every registered worker |
| `AccurateCount` | `MCRedis.cfg` | "completely accurate" subscriber counts (`README.md:1438`) |
| `OldestExpiresFirst` | `MCRedis.cfg` | messages expire from oldest to newest (`README.md:1432`) |

### Where the code falls short

Met while modelling. The models have these as they are, and properties make an exception for them.

*Channel heads.* A late keepalive reply renews an ipc subscriber that is already dequeued
(`memstore_ipc.c:142`). A subscription reply that finds another head leaves the owner's `outside_refcount`
raised (`ipc-handlers.c:242`). UNSUBSCRIBED at a head that has new subscribers leaves it READY without an ipc
subscriber (`ipc-handlers.c:282`). After a worker was killed, its successor's head may
wait for a reply to a request that the owner took for a repeated one.

*Delivery.* A published message that cannot be forwarded for want of shared memory (`ipc-handlers.c:385`) leaves the other worker's subscribers
waiting until the next message is published, so `EventuallyPast` presumes `~MayExhaust`.

*Groups.* The check `channels + 1 == limit` (`memstore.c:3076`) refuses the last free place to a publisher.

*Client subscribers.* A subscriber refused by a full group is sent round the limit check again when its channel is gone
(`memstore.c:2181`). When shared memory is exhausted (`memstore.c:2390`) the handler returns to nginx on a request that
the refusal closed. An error of the existence check in Redis (`memstore.c:2143`) leaves the subscriber without an answer. A stream whose authorization
is answered with a redirect stays and is written to after its response has ended.

*Websockets.* The payload of a control frame that arrives in pieces is misread (`websocket.c:1408`). A publish callback uses
the request before it looks whether the publisher is gone. Messages still queued for the upstream
when the websocket ends keep their reservation, and an unsubscribe request queued behind them is not made.

*Content handlers.* A group operation that is not allowed is answered and then carried on with (`nchan_module.c:505`); two bad limits
answer twice (`nchan_module.c:448`); the subscriber info location never gives back its hold on the request
(`nchan_module.c:586`). A DELETE that the store answers within the call ends the request before its channel event is sent (`nchan_module.c:1213`).
A method without a case in the handler's switch (`nchan_module.c:810`, PUT in a group location at line 506) is not answered.

*Redis connections.* The cluster check that is answered NULL does not set its timer again. `node_remove_slave_node` has its test
inverted. A node in CONNECTION_TIMED_OUT is not counted as failed. Destroying a node leaves it among
its peers. A MOVED answer outside a cluster leaves the set waiting. Removing a duplicate frees a node
whose disconnect handler is running. The loop of the recovery tests `node` where it means `cur`. The forced role of a discovered node is read uninitialised.
Callbacks that are added while the on-ready callbacks run are dropped.

*Redis channels.* The acknowledgement of an UNSUBSCRIBE is taken for that of the next head. A connection lost while SUBSCRIBING
is logged through a NULL node. A message for an INACTIVE head withdraws it from the reaper. A head
reaped while SUBSCRIBING leaves the server subscribed. A registration that is answered with an error is not tried again and leaves the head without a keepalive timer (`rdsstore.c:1181`), and so does
a keepalive that finds the nodes not ready (`rdsstore.c:1315`). A change of the subscriber count that finds them not ready is forgotten
(`rdsstore.c:2527`, `memstore.c:599`). The count of fetches is not always restored after an error. A head made while the nodes are not ready is never subscribed. A subscriber
that waits over a reconnection is not caught up.

*Redis scripts.* The keepalive of a worker with a short interval shortens the life of a channel without messages, which may then end
before another worker's keepalive is due; if the first one then leaves, the channel of the other expires. The list key can be left without expiry.
Deleting a channel leaves the hashes of unbuffered messages. `add_fakesub` means 60 seconds and sets 60 milliseconds (`add_fakesub.lua:46`).
A message id used again within the second lets a message be trimmed with its predecessor. At shutdown
`add_fakesub` is sent with the wrong arguments (`rdsstore.c`, the exit handler).

*MessagePack.* An extension of length zero is written with its type and read without; `str_size + 1` wraps at the largest size;
content types and events of more than 255 bytes do not survive in `nostore` mode; a message with no time to live gets
one second; `compression` is not set by one of the readers.

## What is proved

TLAPS proves these for all values of the constants, from the assumptions named
in the modules (`ConstantsAssumption`, `DeliveryAssumption`, `MsgBufferAssumption`, `IpcAssumption`, `ProcsAssumption`,
`MsgRefsAssumption`, `GroupsAssumption`, `ChanheadAssumption`, `MultiAssumption`, `ReaperAssumption`, `RsAssumption`), which say
little more than the constants' types: that workers, processes, requests, channels of a subscription and things in a reaper are finitely many, that the
group's owner and the message's owner are workers, for `IpcQueue` that `FirstMod` is a multiple of `SIZE`, for `MultiMsg` that
tags do not wrap, and for `RedisScripts` that timeouts, and a keepalive interval with its margin, are at most the four years that stand for none,
and that intervals and margin are at least a second.

* `DeliveryProofs`, of `Spooler`:
  * `TypeCorrect`, `SubscribersPlaced`: `[]SpoolerTypeOK`, `[]SubscriberInItsSpool`.
    The inductive invariant `SpoolerInv` adds that the current_msg_spool always
    exists and is MSG_EXPECTED, without which a transfer to it could lose subscribers.
    `RespondKeepsInv` is shared by the two handlers that answer with a message.
  * `OnlyForward`: `NeverBack`, from the same invariant: subscribers in a spool have
    its id, and only spools with smaller ids are answered with a message.
  * `AlwaysWaitsForSomething`: `[](MayFail \/ WaitsForSomething)`. The invariant `WakeInv` says
    of *every* spool, with subscribers or not, that it has a request if it is
    pending, and that on a READY channel it does not wait for READY; and of every spool with
    subscribers that it has a timer if it is invalid. The property itself is not inductive,
    because spools outlive their subscribers and are joined later.
* `DeliveryProofs`, of `Delivery`: `DeliveredInOrder` and `DeliveredWithoutGap`, `[]InOrder` and `[]NoGap`, and
  `DeliveryTypes`. `DeliveryInv` adds to the properties what they rest on:
  * `PacketInv` for every packet in the pipe: a message follows its `prev_id`, or the id that was asked for,
    and what lies between has been dropped; a message that was not found is not stored.
  * `PipeInv`: a NOTFOUND is only ever followed by messages later than what it gives up. This
    is where the pipe's order is needed, and why a subscriber sent back to the oldest message is not
    sent again what it has.
  * `GotInv`: what a subscriber was sent last is its position, or, after its place was lost, is no longer
    stored and earlier than everything in the pipe for the oldest message.
  * `SpoolsInv`: nobody waits for a message after one that does not exist, so that NOTFOUND does mean dropped.

  Nothing here says that what was published is in the pipe, so both theorems hold also with `MayExhaust`.
  Every step of `Delivery` is a step of `Spooler` or leaves it alone, so that `SpoolerInv` carries over. `Delivered` is
  shared by the two packets that send a message.
* `WorkersProofs`, three modules of what workers share:
  * `MsgBuffer`: `IdsIncrease`, `IncreasingIds` for channels whose publishers all
    buffer and that are not deleted, as long as the tag is not negative (has not
    wrapped). The invariant says that the last stored message is the latest one
    and has not been collected before its time is over, so that numbering after it and numbering
    after `latest` agree. `GcSuffix` describes garbage collection as taking a suffix.
    `LookupsFindNext`, `FindsNext` for all channels as long as the tag has not wrapped: the invariant `StoredInv` says
    that the buffer is in the order of ids, and `FindNext` that the search from the newest message back returns the oldest one after the id.
    `PushesReach`, `PushReachesCaughtUp` under the hypotheses of `IdsIncrease`.
  * `IpcQueue`: `IpcSafe`, the type invariant (indices in range),
    `OverflowBehindFullRing` and `NotStranded`, with the loop invariant
    `LoopInBounds`; and `AlertsInOrder`, `[]Fifo`. For the latter `Numbered` says of each
    place of the ring, the overflow list and the pipe which alert is there; slots are found modulo
    `SIZE`, so the lemmas `ModUnique` to `SlotsApart` show that different alerts never share one, also when the index has
    wrapped.
  * `RwLock`: `RwExact`, the word `lock` says who holds the lock; `RwSafe`, the inductive invariant under it: the process in the mutex is alone,
    and its second test still holds when it changes the word; and
    `RwImplements`, `RwLock` implements `ReadersWriter`, with every step between two places of the same holder a
    stutter.
* `Counting`: what a finite sum is when one term is added, removed or changed, a bound of it (`SumAtMost`), and what the positions and the members of
  a sequence are after an element is added or one end is taken off. The prover cannot use an induction theorem,
  so each induction is a search for a smallest counterexample: a set of subsets that holds with every member a strictly smaller one is
  empty (`NoCounterexample`).
* `StoreProofs`, of `MsgRefs`: `RefcountsKept`, `[]RefsSafe`: the count of a message is the number of its holders and nobody holds a freed one, for any number
  of workers, requests and alerts. `RefsInv` only adds that a message on its way to the owner has no place there yet; the work is in the
  sums, of alerts per worker, busy handlers and unfinished output, which every step changes in one place.
* `StoreProofs`, of `Groups`: `GroupCountersExact`, `[]CountsExact`, and `GroupsStaySafe`, `[]GroupsSafe`, for any number of workers.
  From elementary facts about the total of waiting callbacks (`TotalFacts`, proved from `Counting`) it is shown
  that every step is the step of one worker (`StepOf`) that changes the counters, its channels and its waiting callbacks in balance, and that requests for the
  group and their answers stay on their way (`Told`); then the workers are added up. `GroupsInv` further needs that a listed channel is live, that only workers
  that serve requests have one in progress, and that callbacks in waiting match it (`WorkerOK`), and for the limit (`Room`) that the counter and those about to join together stay
  below the limit plus the number of such workers: each admits one at a time, against a counter that is below the limit.
* `ChanheadProofs`: `HeadsStaySafe`, `[]HeadsSafe`, for any numbers of clients, ipc subscribers and alerts in the pipes, with F killed
  at any moment. Both pipes are unbounded here, so the invariant `HeadsInv` counts the alerts of each kind in them (`Count`):
  * `Shares`: the shared data has at least one reference for F's head, if it has taken it, and one for each answer on its way that grants it; `Held`: the owner's
    head is reserved once for each such answer and each release on its way back; `Pinged`: an ipc subscriber is reserved for the one
    keepalive of it, or answer to it, that is on its way; `Named`: alerts name the owner's present head and ipc subscribers that there are.
  * `Counts`: the shared subscriber count is that of both heads. It is exact only until F is killed with clients.
  * `Attached`: no ipc subscriber is enqueued where there is no head.
  * `Dialogue`, until F is killed: at most one request or answer is on its way, and only while F waits (`Talking`); only the newest ipc subscriber may be
    enqueued, for F's present head, and F has it or is about to be told; that it was dequeued is the last thing F is told. It is what rules out the paths for
    crossed alerts, and is inductive only together with the counts.

  There is a lemma per action (`SubscribeFgnKeeps` and so on), and one per kind of change that actions share: an alert read or sent at either end
  (`ForeignReadsOne`, `OwnerIsSent`), clients that leave a head (`LeaveOK`), a head that is found or created (`FoundOK`, `EnsuredOK`).

* `ReaperMultiProofs`, of `MultiMsg`: `FetchesLoseNothing`, `[]MultiSafe`, for any number of channels and messages. `MultiInv` relates the client's one combined id to
  what it was given of each channel: the messages at or before the channel's part of the id, and no other (`SeenUpTo`). That survives a fetch because of what is known
  while it runs: answers name the first message after that position (`NextOf`), and each channel has yet to answer, or has an answer
  on its way or merged that is not later than anything it has to give (`FetchCovers`). Messages that come while a fetch runs are the exception
  `get.late`, which becomes `raced` only if the fetch ends with a message of a later second. The property itself says nothing about a fetch
  in progress, so it is not inductive.
* `ReaperMultiProofs`, of `Reaper`: `ListStaysWhole`, `[]ReaperSafe`, and `ReaperImplementsQueue`, `Reaper` implements `ReapQueue`, for any things, ratios and strategies. `ReaperInv` says that there is a
  sequence of different things, none of them reaped, of which `next`, `prev`, `first`, `last` and `count` are the links (`Rep`), and that the saved place is
  one of them (`Placed`). Adding, unlinking and moving to the end are then changes of that sequence. A scan is
  a loop in one step: `StepOK` is its invariant, `Ends` the bound on the rounds that are left, which shows that the loop ends within
  as many rounds as the list has things, whatever the strategy, and `Flushing` that stopping reaps everything.
* `RedisScriptProofs` and `RedisProofs`, of `RedisScripts`, for any number of workers, seconds, messages and lengths of time. The first shows
  what each script does to the keys and that it preserves the invariant, from a few elementary facts about finite sets (`CountingFacts`); the second has the reader, the
  steps and the theorems, and proves those facts from `Counting`.
  * `KeysFitTogether`, `[]RsSafe`, and `ReaderFollows`, `[]ReaderMissesNothing`. `RsInv` is about the keys and the history of ids together. `Lasting`: a buffered message is
    listed and its channel expires later, and the list does not expire before the channel. `Linked`: a message, its `prev` and its `next` are
    neighbours in the history, and the channel's current id is the last one. `Ordered`: as long as no id was given twice, the list is in the order
    of the history, so that trimming takes the oldest. `Fresh`: before a failover no id is from the future, and in a second without a deletion the current message is alive and has the
    highest tag of that second; this is why a new id is new. `Counted`: a worker that lives is counted for no more than it
    has, but for leavings that it has yet to tell or that were dropped.
  * `SubscribersKeepChannel`, `[]KeptAlive`. A step of one worker sets the channel's expiry for all, so the property is about the worker that did so last (`renewer`,
    a history variable). `LifeInv` adds to it what the other scripts could disturb. `Alive`: the registered workers are at most those that
    the channel counts, so that neither a keepalive nor the last one to leave lets the channel go while another is registered. `Bounded`: the channel
    lives no longer than a message without a timeout and a second, so that an interval taken from the server's answer, with its margin, stays in
    that bound (`Fits`). Publishing only ever moves the expiry on.

Only model-checked:

* every liveness property: liveness under fairness is outside the prover's reach;
* `ReadsBack` and `MessageSurvives` of `MsgPack`: the operators are recursive, and what they compute for every input takes an induction over data;
* `HttpSafe`, `WsSafe` and `FeSafe`: each follows one request through a fixed set of places, and the constants only choose which kinds of
  request there are, so that the runs already visit every state but for the bounds on messages and publications; a proof for all bounds has not been done;
* `NodesetSafe`, `RcSafe` and `RecoveredWhenQuiet`: they are stated for reachable states with exceptions for histories, and the inductive
  invariants under them, over the commands on every connection, have not been worked out;
* `LookupFindsNext`, as the `workers` run states it for its two buffers; `LookupsFindNext` proves it of one.

## Not modelled

* **getmsg proxy, backup and nostore modes of Redis**, in which a memory buffer and a Redis buffer answer in turn: one model
  would need both stores' buffers, which TLC does not reach at a size at which they differ. With them
  the pass-through strategy of the spooler.
* **Reloads and shutdown**: several generations of workers with different numbers of slots, and what the master process does.
* **Scripts** `rsck`, `get_message_from_key`, `get_subscriber_info_id`, `request_subscriber_info`, and the paths of `get_message` that create
  channels: diagnostics, or reads without a protocol of their own.
* **Malformed replies and heap exhaustion**: Redis answers what its scripts return, and allocation on the heap
  succeeds. Exhausted shared memory is modelled where heads are created (`ChanheadLife`), where subscribers are admitted (`HttpSubscriber`) and where
  published messages are forwarded (`Delivery`); the other alerts that need it are taken to be sent.
* **Text**: headers, JSON and XML, multipart boundaries, compression, masking, and parsing of ids, of
  `CLUSTER NODES` and of directives. Sequential, and outside what the properties tell apart.
* **Slab allocator, shared memory setup, containers, configuration, variables, statistics**: sequential code
  without a protocol of its own; modules have sets, functions and sequences in place of the containers.
* **Benchmark** and **bundled libraries** (hiredis except its pairing of subscriptions with callbacks, sds, HdrHistogram,
  uthash): not part of the service, or third-party.
