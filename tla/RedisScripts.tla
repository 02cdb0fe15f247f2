---------------------------- MODULE RedisScripts ----------------------------
(***************************************************************************)
(* The Lua scripts that keep one channel in Redis.  A script runs          *)
(* atomically, so each is one action; what is hard is the order in which   *)
(* the workers' scripts reach the server, and the keys that expire or are  *)
(* deleted between two of them.                                            *)
(*                                                                         *)
(* A channel is four keys: its hash, the list of its message ids (newest   *)
(* first), a hash per message, and the hash of subscriber counts by        *)
(* worker.  (The fifth key the scripts name, the set "subscribers", is     *)
(* never added to.)  A clock tick is one second; the 60 milliseconds of    *)
(* add_fakesub are rounded up to it.                                       *)
(***************************************************************************)
EXTENDS Integers, Sequences, FiniteSetsExt

CONSTANTS
    RsSetups,     \* budgets: publishes, deletes, registers, joins, losses, backs, crashes; the ttls
                  \* and buffer lengths published with; whether counts are the accurate ones
    RsWorkers,    \* the Nginx workers
    MaxClock,     \* seconds modelled
    IdleTtl,      \* nchan_redis_idle_channel_ttl: min and max of the interval between the keepalives
                  \* of a head, its backoff multiplier and jitter in percent
    NotReadyRetry, \* REDIS_CHANNEL_KEEPALIVE_NOTREADY_RETRY_TIME
    FourYears,    \* how long a message without a timeout is kept
    SafetyMargin, \* idle_channel_ttl_safety_margin
    ChannelTimeouts \* values of nchan_channel_timeout, the ttl of an empty channel

VARIABLE rs

rsVars == <<rs>>

\* The expiry of a key that has none, later than any that is set.
Never == MaxClock + FourYears + 2

\* Timeouts are at most four years, an interval and its margin at least a second.
ASSUME RsAssumption ==
    /\ \A conf \in RsSetups : conf.ttls \subseteq 0..FourYears /\ conf.lengths \subseteq Int
    /\ IsFiniteSet(RsWorkers)
    /\ FourYears \in Nat /\ FourYears > 4
    /\ MaxClock \in Nat /\ MaxClock > 1
    /\ {IdleTtl.min, IdleTtl.max, SafetyMargin, NotReadyRetry} \subseteq Nat \ {0}
    /\ {IdleTtl.multiplier, IdleTtl.jitter} \subseteq Nat
    /\ IdleTtl.max + SafetyMargin <= FourYears
    /\ ChannelTimeouts \subseteq -1..FourYears

Nil == -1
NoId == <<>>
BareChannel(on) == [on |-> on, cur |-> NoId, max |-> Nil, subs |-> 0, fake |-> Nil, exp |-> Never]
NoChannel == BareChannel(FALSE)
NoList == [ids |-> <<>>, exp |-> Never]
NoCounts == [of |-> <<>>, exp |-> Never]

\* The hash f with the field k set to v.
hset(f, k, v) == [x \in DOMAIN f \cup {k} |-> IF x = k THEN v ELSE f[x]]

Earlier(a, b) == a[1] < b[1] \/ (a[1] = b[1] /\ a[2] < b[2])

----------------------------------------------------------------------------
\* The Redis commands the scripts are made of.

\* PTTL of a key that exists.
ttl_of(d, exp) == IF exp = Never THEN -1 ELSE exp - d.now
channel_ttl(d) == IF d.chan.on THEN ttl_of(d, d.chan.exp) ELSE -2

\* EXPIRE of the keys that belong to the channel; a missing key is left alone.
expire_all(d, ttl) ==
    LET at == d.now + ttl
    IN [d EXCEPT !.chan.exp = IF d.chan.on THEN at ELSE Never,
                 !.list.exp = IF d.list.ids # <<>> THEN at ELSE Never,
                 !.counts.exp = IF DOMAIN d.counts.of # {} THEN at ELSE Never]

del_all(d) == [d EXCEPT !.chan = NoChannel, !.list = NoList, !.counts = NoCounts]

set_list(d, ids) == [d EXCEPT !.list = IF ids = <<>> THEN NoList ELSE [@ EXCEPT !.ids = ids]]
set_counts(d, of) == [d EXCEPT !.counts = IF DOMAIN of = {} THEN NoCounts ELSE [@ EXCEPT !.of = of]]
del_messages(d, ids) == [d EXCEPT !.msgs = Restrict(@, DOMAIN @ \ ids)]

\* A write to the channel hash creates it without an expiry.
touch_channel(d) ==
    IF d.chan.on THEN d ELSE [d EXCEPT !.chan = BareChannel(TRUE)]

\* Keys whose time has come are gone.
expired(d) ==
    LET a == IF d.chan.exp <= d.now THEN [d EXCEPT !.chan = NoChannel] ELSE d
        b == IF a.list.exp <= a.now THEN [a EXCEPT !.list = NoList] ELSE a
        c == IF b.counts.exp <= b.now THEN [b EXCEPT !.counts = NoCounts] ELSE b
    IN del_messages(c, {i \in DOMAIN c.msgs : c.msgs[i].exp <= c.now})

----------------------------------------------------------------------------
\* Pieces several scripts share.

\* Drops the ids of expired messages from the old end of the list, and stops at one that lives.
oldestmsg(d) ==
    LET alive == {k \in 1..Len(d.list.ids) : d.list.ids[k] \in DOMAIN d.msgs}
    IN set_list(d, IF alive = {} THEN <<>> ELSE SubSeq(d.list.ids, 1, Max(alive)))

\* The ids oldestmsg would stop at: none, or the oldest one that lives.
oldest_id(d) == LET ids == oldestmsg(d).list.ids IN IF ids = <<>> THEN NoId ELSE ids[Len(ids)]

counted(d) == {w \in DOMAIN d.counts.of : d.up[w] /\ d.counts.of[w] > 0}

\* What the script reports as the number of subscribers.
subscriber_count(d) ==
    IF d.conf.accurate THEN SumFunctionOnSet(d.counts.of, counted(d))
    ELSE IF d.chan.fake # Nil THEN d.chan.fake ELSE d.chan.subs

\* Counting accurately forgets the workers that are gone and those with nothing to count.
forget_uncounted(d) ==
    IF d.conf.accurate THEN set_counts(d, Restrict(d.counts.of, counted(d))) ELSE d

----------------------------------------------------------------------------
\* The scripts.

\* The id of a new message: the server's time, or the last message's when that is later; the tag counts
\* the messages of one second.
next_id(d) ==
    LET clock == d.now - d.back
        last == d.chan.cur
        time == IF last \in DOMAIN d.msgs /\ last[1] > clock THEN last[1] ELSE clock
    IN <<time, IF last \in DOMAIN d.msgs /\ last[1] = time THEN last[2] + 1 ELSE 0>>

\* LPUSH puts an id at the front.
lpush(ids, id) == <<id>> \o ids

\* LTRIM to the first so many.
trim(ids, max) == SubSeq(ids, 1, Min({max, Len(ids)}))

\* Fault: trims the list and leaves the trimmed messages.
store_id_untrimmed(d, id, max) ==
    IF max < 0 THEN LET e == oldestmsg(d) IN set_list(e, lpush(e.list.ids, id))
    ELSE IF max > 0 THEN oldestmsg(set_list(d, trim(lpush(d.list.ids, id), max)))
    ELSE d

\* Messages beyond the channel's buffer length are deleted.
trim_messages(d, ids, max) ==
    oldestmsg(set_list(del_messages(d, {ids[k] : k \in (max + 1)..Len(ids)}), trim(ids, max)))

\* The id goes to the front of the list.
store_id(d, id, max) ==
    IF max < 0 THEN LET e == oldestmsg(d) IN set_list(e, lpush(e.list.ids, id))
    ELSE IF max > 0 THEN trim_messages(d, lpush(d.list.ids, id), max)
    ELSE d

\* EXPIRE of the message's key, nothing when the key has just been trimmed away under a reused id.
expire_message(d, id, ttl) == IF id \in DOMAIN d.msgs THEN [d EXCEPT !.msgs[id].exp = d.now + ttl] ELSE d

\* The message lives for its ttl, and the channel's keys at least a second longer.
set_expirations(d, id, ttl) ==
    LET e == expire_message(d, id, ttl)
    IN IF ttl + 1 > channel_ttl(d) THEN expire_all(e, ttl + 1) ELSE e

\* The last message learns which one follows it.
link_last(d, id) ==
    IF d.chan.cur \in DOMAIN d.msgs THEN [d EXCEPT !.msgs[d.chan.cur].next = id] ELSE d

\* The message is written and becomes the channel's current one.  The ghost "log" lists the messages published,
\* "reused" notes an id given twice.
write_message(d, id, max) ==
    LET last == IF d.chan.cur \in DOMAIN d.msgs THEN d.chan.cur ELSE <<0, 0>>
        msg == [prev |-> last, next |-> NoId, exp |-> Never, unbuffered |-> max = 0, n |-> Len(d.log) + 1]
    IN [touch_channel(link_last(d, id)) EXCEPT !.chan.cur = id, !.chan.max = max,
                                               !.msgs = hset(@, id, msg),
                                               !.reused = @ \/ id \in Range(d.log), !.log = Append(@, id)]

\* An id that exists is refused.
publish(d, timeout, max) ==
    LET id == next_id(d)
        ttl == IF timeout = 0 THEN FourYears ELSE timeout
    IN IF id \in DOMAIN d.msgs THEN [d EXCEPT !.refused = @ \/ (d.back = 0 /\ ~d.wiped)]
       ELSE forget_uncounted(set_expirations(store_id(write_message(d, id, max), id, max), id, ttl))

\* Fault: goes on with the newest message when the one asked about is gone.
following_current(d, id) == IF id \in DOMAIN d.msgs THEN d.msgs[id].next ELSE d.chan.cur

\* The message after this one, when the one asked about is still there to say so.
following(d, id) == IF id \in DOMAIN d.msgs THEN d.msgs[id].next ELSE NoId

\* get_message_lua's answer: with an id the message that follows it, without one the oldest; 418 asks to wait.
message_after(d, id) ==
    LET wanted == IF id = NoId THEN oldest_id(d) ELSE following(d, id)
        wait == IF id = NoId THEN wanted = NoId ELSE d.chan.cur \in {id, NoId}
    IN IF d.chan.on /\ wait THEN [code |-> 418, id |-> NoId]
       ELSE IF d.chan.on /\ wanted \in DOMAIN d.msgs THEN [code |-> 200, id |-> wanted]
       ELSE [code |-> 404, id |-> NoId]

\* Only the search for the oldest message changes anything.
get_message_lua(d, id) == IF d.chan.on /\ id = NoId THEN oldestmsg(d) ELSE d

find_channel(d) == IF d.chan.on THEN forget_uncounted(oldestmsg(d)) ELSE d
nostore_publish_multiexec_channel_info(d) == IF d.chan.on THEN forget_uncounted(d) ELSE d

delete(d) == [del_all(del_messages(d, Range(d.list.ids))) EXCEPT !.wiped = TRUE, !.deleted = TRUE]

\* Fault: renews only a channel that would expire before the next keepalive is due.
subscriber_register_exact(d, active_ttl) ==
    LET e == [touch_channel(d) EXCEPT !.chan.subs = @ + 1]
        actual == channel_ttl(e)
    IN IF actual < active_ttl THEN [d |-> expire_all(e, active_ttl + SafetyMargin), next |-> active_ttl]
       ELSE [d |-> e, next |-> actual]

\* When the time left is within the margin the next keepalive comes at half of it.
before(actual) == IF actual > SafetyMargin THEN actual - SafetyMargin ELSE (actual + 1) \div 2

\* The channel lives for the head's interval and a margin, or longer when it already does.
subscriber_register(d, active_ttl) ==
    LET e == [touch_channel(d) EXCEPT !.chan.subs = @ + 1]
        actual == channel_ttl(e)
    IN IF actual < active_ttl + SafetyMargin
       THEN [d |-> expire_all(e, active_ttl + SafetyMargin), next |-> active_ttl]
       ELSE [d |-> e, next |-> before(actual)]

\* The last subscriber of a channel without messages leaves it empty_ttl to live; an error reply to a
\* negative count does not undo it.
subscriber_unregister(d, empty_ttl) ==
    LET e == [d EXCEPT !.chan.subs = @ - 1]
    IN IF ~d.chan.on THEN d
       ELSE IF e.chan.subs # 0 \/ d.list.ids # <<>> THEN e
       ELSE IF empty_ttl = 0 THEN [del_all(e) EXCEPT !.wiped = TRUE]
       ELSE IF empty_ttl < 0 THEN expire_all(e, Never - e.now) ELSE expire_all(e, empty_ttl)

\* -1 lets the channel disappear.  Without messages the time to live may also become shorter.
channel_keepalive(d, ttl) ==
    LET actual == channel_ttl(d)
    IN IF ~d.chan.on \/ d.chan.subs <= 0 THEN [d |-> d, next |-> -1]
       ELSE IF d.list.ids # <<>> /\ actual > ttl + SafetyMargin THEN [d |-> d, next |-> before(actual)]
       ELSE [d |-> expire_all(d, ttl + SafetyMargin), next |-> ttl]

\* The channel's own count is not decremented when the channel is gone.
fake_channel(d, num) ==
    LET t == touch_channel(d)
        h == t.chan
    IN IF d.chan.on \/ num > 0
       THEN [t EXCEPT !.chan = [h EXCEPT !.fake = (IF h.fake = Nil THEN 0 ELSE h.fake) + num,
                                         !.exp = IF d.chan.on THEN h.exp ELSE d.now + 5]]
       ELSE d

\* The worker's count is kept in any case.
add_fakesub(d, w, num) ==
    LET a == fake_channel(d, num)
        of == a.counts.of
        b == set_counts(a, hset(of, w, (IF w \in DOMAIN of THEN of[w] ELSE 0) + num))
    IN IF b.counts.exp # Never THEN b
       ELSE [b EXCEPT !.counts.exp = b.now + (IF channel_ttl(b) > 0 THEN channel_ttl(b) ELSE 1)]

----------------------------------------------------------------------------
\* The workers and readers that call them.

\* One more of an operation the setup bounds.
spend(d, what) == [d EXCEPT !.left[what] = @ - 1]
may(what) == rs.left[what] > 0

rs_publish ==
    /\ may("publishes")
    /\ \E timeout \in rs.conf.ttls, max \in rs.conf.lengths :
           rs' = spend(publish(rs, timeout, max), "publishes")

\* The workers learn of a deletion and send their subscribers away.
rs_delete == may("deletes") /\ rs' = spend([delete(rs) EXCEPT !.evict = rs.real], "deletes")

rs_find == may("finds") /\ rs' \in {spend(find_channel(rs), "finds"),
                                    spend(nostore_publish_multiexec_channel_info(rs), "finds")}

\* A reader follows the messages: it asks with the id of the last one it got, and from the start when that
\* is gone.  The ghosts note an answer that skips a message, and a wait though a later message lives.
rs_get_message ==
    LET at == rs.reader
        got == message_after(rs, at.id)
        d == get_message_lua(rs, at.id)
        later == {m \in Range(rs.msgs) : ~m.unbuffered /\ m.n > at.n}
        skips(n) == IF at.id = NoId THEN \E m \in later : m.n < n ELSE n # at.n + 1
    IN /\ may("reads")
       /\ \/ /\ got.code = 200
             /\ LET n == rs.msgs[got.id].n
                IN rs' = spend([d EXCEPT !.reader = [id |-> got.id, n |-> n],
                                         !.skipped = @ \/ (~rs.reused /\ skips(n))], "reads")
          \/ /\ got.code = 418
             /\ rs' = spend([d EXCEPT !.idle = @ \/ (~rs.reused /\ later # {})], "reads")
          \/ /\ got.code = 404
             /\ rs' = spend([d EXCEPT !.reader = [id |-> NoId, n |-> 0]], "reads")

\* The interval between a head's keepalives grows up to its maximum, and is spread by half of the jitter
\* to either side.
AtMostMax(x) == IF x > IdleTtl.max THEN IdleTtl.max ELSE x
AtLeastOne(x) == IF x < 1 THEN 1 ELSE x
nchan_set_next_backoff(interval) ==
    LET grown == IF interval = 0 \/ IdleTtl.multiplier = 0 THEN IdleTtl.min
                 ELSE (interval * (IdleTtl.multiplier + 100)) \div 100
        next == AtMostMax(grown)
        jitter == (next * IdleTtl.jitter) \div 100
    IN IF jitter = 0 THEN {AtLeastOne(next)}
       ELSE {AtLeastOne(AtMostMax(next - jitter \div 2 + random)) : random \in 0..(jitter - 1)}

\* reg[w] is the worker's head: whether it has a subscriber (on), when its keepalive timer is due, and its
\* keepalive_interval, which is 0 without a head.
NoTimer == [on |-> FALSE, due |-> Never, interval |-> 0]
Active == {w \in RsWorkers : rs.up[w] /\ rs.reg[w].on}

\* A command is lost: it is not sent because the set of nodes is not ready, or its connection fails before
\* the server has run it, or before the server's answer.  The ghost "astray" notes a lost registration or
\* keepalive.
lose(d) == [spend(d, "losses") EXCEPT !.astray = TRUE]

\* The answer sets the interval and the timer, and the worker is the one that renewed the channel last (the
\* ghost "renewer").
redis_update_channel_keepalive_timer(d, w, on, next) ==
    [d EXCEPT !.reg[w] = [on |-> on, due |-> d.now + next, interval |-> next], !.renewer = {w}]

\* A registration that is not answered sets no timer.
rs_register(w) ==
    LET head == rs.reg[w]
    IN /\ may("registers") /\ rs.up[w] /\ ~head.on
       /\ \E interval \in IF head.interval = 0 THEN nchan_set_next_backoff(0) ELSE {head.interval} :
             LET r == subscriber_register(rs, interval)
             IN \/ rs' = spend(redis_update_channel_keepalive_timer(r.d, w, TRUE, r.next), "registers")
                \/ /\ may("losses")
                   /\ \E d \in {rs, r.d} :
                          rs' = spend(lose([d EXCEPT !.reg[w] = [head EXCEPT !.on = TRUE, !.interval = interval]]),
                                      "registers")

\* The head keeps its timer.  A worker that registered with an earlier incarnation of the channel is
\* counted out of this one, and one whose command is lost is not counted out.
rs_unregister(w) ==
    /\ rs.up[w] /\ rs.reg[w].on
    /\ \/ \E empty_ttl \in ChannelTimeouts :
              rs' = [subscriber_unregister(rs, empty_ttl) EXCEPT !.reg[w].on = FALSE]
       \/ may("losses") /\ rs' = spend([rs EXCEPT !.reg[w].on = FALSE], "losses")

\* The interval grows, and the answer replaces it.  The timer is not set when the channel may disappear or
\* when nothing was sent; it is when the connection failed, or, to a time of its own, while the head is
\* not ready.
rs_keepalive(w) ==
    LET head == rs.reg[w]
    IN /\ rs.up[w] /\ rs.now >= head.due
       /\ \/ \E interval \in nchan_set_next_backoff(head.interval) :
                LET r == channel_keepalive(rs, interval)
                IN \/ /\ r.next # -1
                      /\ rs' = redis_update_channel_keepalive_timer(r.d, w, head.on, r.next)
                   \/ /\ r.next = -1
                      /\ rs' = [r.d EXCEPT !.reg[w] = [head EXCEPT !.due = Never, !.interval = interval],
                                           !.renewer = @ \ {w}]
                   \/ /\ may("losses")
                      /\ \E d \in {rs, r.d} :
                            rs' = lose([d EXCEPT !.reg[w] = [head EXCEPT !.due = rs.now + interval,
                                                                         !.interval = interval]])
          \/ may("losses") /\ rs' \in {lose([rs EXCEPT !.reg[w].due = Never]),
                                       lose([rs EXCEPT !.reg[w].due = rs.now + NotReadyRetry])}

\* A head and its timer go.  The ghost "astray" notes when it was the one that renewed the channel last,
\* while others have subscribers.
leave_head(d, w) == [d EXCEPT !.reg[w] = NoTimer, !.renewer = @ \ {w},
                              !.astray = @ \/ (w \in d.renewer /\ Active \ {w} # {})]

\* The reaper takes a head without subscribers.
rs_reap(w) == rs.up[w] /\ ~rs.reg[w].on /\ rs.reg[w].interval # 0 /\ rs' = leave_head(rs, w)

\* A subscriber comes or goes, and the change is left for the timer.
rs_join(w) ==
    /\ may("joins") /\ rs.up[w]
    /\ rs' = spend([rs EXCEPT !.real[w] = @ + 1, !.delta[w] = @ + 1], "joins")

rs_leave(w) ==
    /\ rs.up[w] /\ rs.real[w] > 0
    /\ rs' = [rs EXCEPT !.real[w] = @ - 1, !.delta[w] = @ - 1, !.evict[w] = Max({0, @ - 1})]

\* The changes are sent, together, and forgotten also when they are not sent or do not reach the server;
\* the ghost "dropped" counts the leavings among them.
send_redis_fakesub_delta(w) ==
    /\ rs.up[w] /\ rs.delta[w] # 0
    /\ \/ rs' = [add_fakesub(rs, w, rs.delta[w]) EXCEPT !.delta[w] = 0]
       \/ /\ may("losses")
          /\ rs' = spend([rs EXCEPT !.delta[w] = 0, !.dropped[w] = @ + Max({0, -rs.delta[w]})], "losses")

\* The worker process dies; its Redis connections close with it.
rs_crash(w) ==
    /\ may("crashes") /\ rs.up[w]
    /\ rs' = spend([leave_head(rs, w) EXCEPT !.up[w] = FALSE, !.real[w] = 0, !.evict[w] = 0, !.delta[w] = 0], "crashes")

\* Another server takes over whose clock is a second behind.
rs_failover == may("backs") /\ rs' = spend([rs EXCEPT !.back = 1], "backs")

\* Keepalives are sent when they are due.
rs_tick ==
    /\ rs.now < MaxClock
    /\ \A w \in RsWorkers : rs.reg[w].due > rs.now
    /\ rs' = expired([rs EXCEPT !.now = @ + 1, !.wiped = FALSE])

RsInit ==
    \E conf \in RsSetups :
        rs = [conf |-> conf, left |-> conf.left, now |-> 2, back |-> 0,
              chan |-> NoChannel, list |-> NoList, counts |-> NoCounts, msgs |-> <<>>,
              up |-> [w \in RsWorkers |-> TRUE], real |-> [w \in RsWorkers |-> 0], evict |-> [w \in RsWorkers |-> 0],
              delta |-> [w \in RsWorkers |-> 0], dropped |-> [w \in RsWorkers |-> 0],
              reg |-> [w \in RsWorkers |-> NoTimer], renewer |-> {}, astray |-> FALSE,
              reader |-> [id |-> NoId, n |-> 0],
              log |-> <<>>, reused |-> FALSE, wiped |-> FALSE, deleted |-> FALSE,
              refused |-> FALSE, skipped |-> FALSE, idle |-> FALSE]

RsNext ==
    \/ rs_publish \/ rs_delete \/ rs_find \/ rs_get_message \/ rs_failover \/ rs_tick
    \/ \E w \in RsWorkers : rs_register(w) \/ rs_unregister(w) \/ rs_keepalive(w) \/ rs_reap(w)
    \/ \E w \in RsWorkers : rs_join(w) \/ rs_leave(w) \/ send_redis_fakesub_delta(w) \/ rs_crash(w)

RsSpec == RsInit /\ [][RsNext]_rsVars

----------------------------------------------------------------------------
\* The keys of the channel hold what the scripts put there, and an absent one is empty.
RsTypeOK ==
    /\ rs.now \in 0..MaxClock /\ rs.back \in 0..1
    /\ rs.chan.subs \in Int /\ rs.chan.fake \in Int
    /\ Range(rs.list.ids) \subseteq Range(rs.log) /\ DOMAIN rs.msgs \subseteq Range(rs.log)
    /\ DOMAIN rs.counts.of \subseteq RsWorkers
    /\ (~rs.chan.on => rs.chan = NoChannel)

\* A message that was buffered is on the channel's list as long as it lives, so that trimming and deleting
\* the channel find it: rsck calls any other an orphan.
NoOrphans ==
    \A i \in DOMAIN rs.msgs : rs.msgs[i].unbuffered \/ i \in Range(rs.list.ids)

\* The channel's hash and list outlive its buffered messages: whoever may still read a message finds the
\* channel, and a message published meanwhile is linked to it.
ChannelOutlives ==
    \A m \in Range(rs.msgs) : ~m.unbuffered => rs.chan.on /\ rs.chan.exp > m.exp /\ rs.list.exp > m.exp

\* The message a new one names as the previous one is the one published just before it, and has an earlier
\* id, also when another server with a slower clock has taken over.
PrevIsPredecessor ==
    \A i \in DOMAIN rs.msgs :
        LET m == rs.msgs[i]
        IN m.prev # <<0, 0>> => /\ m.n > 1 /\ m.prev = rs.log[m.n - 1]
                                /\ Earlier(m.prev, i)

\* A reader that follows the messages skips none, and is not told to wait while a later one lives, as long
\* as no message id was given twice (which a deletion within the second and a clock set back can do).
ReaderMissesNothing == ~rs.skipped /\ ~rs.idle

\* A message is refused because its id exists only when the channel was deleted within that second, or a
\* server with a slower clock has taken over.
PublishAccepted == ~rs.refused

\* The accurate count of subscribers never exceeds the number there are on the workers that are alive but
\* for the leavings it has not been told of, because they wait for the timer or were dropped on the way to
\* Redis: however counts are lost to expiry and deletion and whichever workers die.
Claimed == [w \in RsWorkers |-> rs.real[w] - rs.delta[w] + rs.dropped[w]]
NeverOverCounted ==
    rs.conf.accurate => subscriber_count(rs) <= SumFunctionOnSet(Claimed, RsWorkers)

\* In whatever order scripts run and keys expire, the keys of a channel fit together: messages are listed,
\* linked to their predecessors and outlived by the channel, and subscribers are not counted twice.
RsSafe == /\ RsTypeOK /\ NoOrphans /\ ChannelOutlives /\ PrevIsPredecessor
          /\ PublishAccepted /\ NeverOverCounted

\* A channel with a registered worker does not expire: the worker that renewed it last sends its next
\* keepalive before that, whatever the intervals of the others, the messages and their timeouts.  (Not so
\* once the channel was deleted, a registration or keepalive was lost, or the worker that renewed the
\* channel last died or gave up its head while others were registered: their keepalives may be due later.)
KeptAlive ==
    Active # {} /\ ~rs.deleted /\ ~rs.astray =>
        rs.chan.on /\ \E w \in rs.renewer : rs.chan.exp > rs.reg[w].due

\* What a comment says of the time to live that a keepalive gives the channel (redis_lua_commands.c:71):
\* Nchan can update it before it expires, here every registered worker.
AllRenewInTime ==
    ~rs.deleted /\ ~rs.astray => \A w \in Active : rs.chan.on /\ rs.chan.exp > rs.reg[w].due

\* What the documentation says of nchan_redis_accurate_subscriber_count: the count is completely accurate,
\* here once all changes were sent and the subscribers of a deleted channel have been sent away.
AccurateCount ==
    rs.conf.accurate /\ rs.chan.on
    /\ (\A w \in RsWorkers : rs.evict[w] = 0 /\ rs.delta[w] = 0 /\ rs.dropped[w] = 0)
    => subscriber_count(rs) = SumFunctionOnSet(rs.real, RsWorkers)

\* What the documentation says of message timeouts: messages always expire from oldest to newest.
OldestExpiresFirst ==
    \A i \in DOMAIN rs.msgs :
        \A k \in DOMAIN rs.list.ids :
            k < Len(rs.list.ids) /\ rs.list.ids[k + 1] = i => rs.list.ids[k] \in DOMAIN rs.msgs

=============================================================================
