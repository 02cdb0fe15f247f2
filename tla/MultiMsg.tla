------------------------------ MODULE MultiMsg ------------------------------
(***************************************************************************)
(* A client that follows several channels as one (a multi-channel          *)
(* subscription) by asking, each time, for the message after the last one  *)
(* it has.  A message id is a second and one tag per channel; -1 is the    *)
(* tag of a channel that has no message in that second.  The worker splits *)
(* the id into one id per channel, asks the owner of each channel it has   *)
(* reason to ask, collects the answers in whatever order they come, and    *)
(* hands the earliest message to the client under a combined id.           *)
(*                                                                         *)
(* Each channel's buffer is complete and unlimited here (MsgBuffer models  *)
(* its limits), and the clocks of the workers agree.                       *)
(***************************************************************************)
EXTENDS Integers, Sequences, FiniteSetsExt

CONSTANTS
    Chans,          \* 1 .. n, the channels of the subscription
    MaxTag,         \* the largest tag of an id (32767 in the code)
    MaxTime,        \* the last second of a behaviour
    MaxMsgs,        \* the most messages a channel gets
    MaxTimeouts     \* the most timeouts; 0: every answer comes in time

ASSUME MultiAssumption ==
    /\ IsFiniteSet(Chans) /\ Cardinality(Chans) \in Nat /\ Chans = 1 .. Cardinality(Chans)
    /\ MaxTag \in Nat /\ MaxTime \in Nat /\ MaxMsgs \in Nat
    /\ MaxTime >= 2                 \* where the clock starts
    /\ MaxMsgs <= MaxTag            \* tags do not wrap
    /\ MaxTimeouts \in Nat

VARIABLES
    clock,          \* ngx_time()
    chan,           \* channel -> the ids <<time, tag>> of its messages
    fwd,            \* channel -> last_msgid of its memstore-multi subscriber
    client,         \* the client's last id, and what it was given of each channel
    get,            \* the get_multi_message_data_t of the fetch
    timeouts,       \* how many fetches have expired
    refs,           \* "multimsg" reservations of the multi channel head
    leaked,         \* messages still reserved by a freed fetch
    asserted,       \* TRUE once the assertion of nchan_update_multi_msgid fails
    raced           \* history: see respond

multiVars == <<clock, chan, fwd, client, get, timeouts, refs, leaked, asserted, raced>>

OLDEST == 0         \* NCHAN_OLDEST_MSGID_TIME
NEWEST == -1        \* NCHAN_NEWEST_MSGID_TIME

NoMessage == <<>>
Before(a, b) == a[1] < b[1] \/ (a[1] = b[1] /\ a[2] < b[2])

(* The per-channel part of a combined id: what to ask channel n for. *)
nchan_extract_from_multi_msgid(id, n) ==
    IF id.time \in {OLDEST, NEWEST} THEN <<id.time, 0>>
    ELSE IF id.tags[n] = -1 THEN <<id.time - 1, MaxTag>>
    ELSE <<id.time, id.tags[n]>>

nchan_expand_msg_id_multi_tag(m, n) ==
    [time |-> m[1], tags |-> [c \in Chans |-> IF c = n THEN m[2] ELSE -1]]

(* The id a client remembers after a message with id new. *)
nchan_update_multi_msgid(old, new) ==
    IF old.time # new.time THEN new
    ELSE [old EXCEPT !.tags = [c \in Chans |->
                IF new.tags[c] # -1 THEN new.tags[c] ELSE @[c]]]

update_asserts(old, new, n) ==
    old.time = new.time /\ new.tags[n] # -1 /\ old.tags[n] # -1
        => new.tags[n] > old.tags[n]

(* The first message of a complete buffer after id, and a status. *)
chanhead_find_next_message(buf, id) ==
    IF buf = <<>>
    THEN [status |-> IF id[1] = OLDEST THEN "EXPECTED" ELSE "NOTFOUND", msg |-> NoMessage]
    ELSE LET later == {k \in DOMAIN buf : Before(id, buf[k])}
         IN  IF later = {} THEN [status |-> "EXPECTED", msg |-> NoMessage]
             ELSE [status |-> "FOUND", msg |-> buf[Min(later)]]

NoFetch == [on |-> FALSE, wanted |-> [time |-> OLDEST, tags |-> [c \in Chans |-> 0]],
            status |-> "PENDING", msg |-> NoMessage, n |-> 0, asked |-> {},
            answers |-> {}, lost |-> 0, expired |-> FALSE, late |-> {}]

MultiInit ==
    /\ clock = 2
    /\ chan \in [Chans -> {<<>>, << <<1, 0>> >>}]
    /\ fwd = [c \in Chans |-> <<NEWEST, 0>>]
    /\ client = [id |-> [time |-> OLDEST, tags |-> [c \in Chans |-> 0]],
                 seen |-> [c \in Chans |-> <<>>]]
    /\ get = NoFetch
    /\ timeouts = 0 /\ refs = 0 /\ leaked = 0 /\ asserted = FALSE /\ raced = FALSE

tick ==
    /\ clock < MaxTime
    /\ clock' = clock + 1
    /\ UNCHANGED <<chan, fwd, client, get, refs, leaked, asserted, raced, timeouts>>

(* The newest stored message of channel c. *)
msg_last(c) == chan[c][Len(chan[c])]

(* The owner of channel c stores a message.  A channel that has already    *)
(* said its word in the running fetch is noted as late.                    *)
publish(c) ==
    /\ Len(chan[c]) < MaxMsgs
    /\ LET tag == IF chan[c] # <<>> /\ msg_last(c)[1] = clock
                  THEN msg_last(c)[2] + 1 ELSE 0
       IN  chan' = [chan EXCEPT ![c] = Append(@, <<clock, tag>>)]
    /\ get' = IF get.on /\ c \notin {a.c : a \in get.asked}
              THEN [get EXCEPT !.late = @ \cup {clock}] ELSE get
    /\ UNCHANGED <<clock, fwd, client, refs, leaked, asserted, raced, timeouts>>

(* A live message reaches the memstore-multi subscriber of channel c, in   *)
(* the order of the channel.  Messages of the first second are older than  *)
(* the subscription.                                                       *)
Unforwarded(c) == {k \in DOMAIN chan[c] : chan[c][k][1] > 1 /\ Before(fwd[c], chan[c][k])}

forward(c) ==
    /\ Unforwarded(c) # {}
    /\ fwd' = [fwd EXCEPT ![c] = chan[c][Min(Unforwarded(c))]]
    /\ UNCHANGED <<clock, chan, client, get, refs, leaked, asserted, raced, timeouts>>

(* Fault: a subscriber that has seen nothing yet is taken to have nothing. *)
want_only_seen(id) ==
    {c \in Chans : \/ id.time = OLDEST
                   \/ ~Before(fwd[c], nchan_extract_from_multi_msgid(id, c))}

(* Channels worth asking: those whose subscriber may have seen something   *)
(* as new as what is asked for.                                            *)
want(id) ==
    {c \in Chans : \/ id.time = OLDEST
                   \/ fwd[c][1] \in {OLDEST, NEWEST}
                   \/ ~Before(fwd[c], nchan_extract_from_multi_msgid(id, c))}

nchan_store_async_get_multi_message ==
    LET wanted == want(client.id)
        unasked == UNION {{chan[c][k][1] : k \in Unforwarded(c)} : c \in Chans \ wanted}
    IN  /\ ~get.on
        /\ wanted # {}       \* otherwise MSG_EXPECTED at once
        /\ refs' = refs + 1
        /\ get' = [NoFetch EXCEPT !.on = TRUE,
                    !.wanted = client.id,
                    !.status = IF wanted = Chans THEN "PENDING" ELSE "EXPECTED",
                    !.asked = {[c |-> c, id |-> nchan_extract_from_multi_msgid(client.id, c)]
                                 : c \in wanted},
                    !.late = unasked]
        /\ UNCHANGED <<clock, chan, fwd, client, leaked, asserted, raced, timeouts>>

(* The owner of a channel looks its buffer up. *)
receive_get_multi(a) ==
    /\ a \in get.asked
    /\ get' = [get EXCEPT !.asked = @ \ {a},
                !.answers = @ \cup {[c |-> a.c,
                                     reply |-> chanhead_find_next_message(chan[a.c], a.id)]}]
    /\ UNCHANGED <<clock, chan, fwd, client, refs, leaked, asserted, raced, timeouts>>

(* The owner's worker dies with the question or the answer. *)
lose_answer(a) ==
    /\ timeouts < MaxTimeouts
    /\ ~get.expired
    /\ a \in get.asked
    /\ get' = [get EXCEPT !.asked = @ \ {a}, !.lost = @ + 1]
    /\ UNCHANGED <<clock, chan, fwd, client, refs, leaked, asserted, raced, timeouts>>

getting(g) == Cardinality(g.asked) + Cardinality(g.answers) + g.lost

(* Fault: the last message to arrive is kept. *)
set_multimsg_latest(g, a) ==
    IF g.status = "PENDING" \/ a.reply.msg # NoMessage
    THEN [g EXCEPT !.msg = a.reply.msg, !.n = a.c, !.status = a.reply.status]
    ELSE g

(* The better of what was kept so far and an answer. *)
set_multimsg_msg(g, a) ==
    LET m == a.reply.msg
        taken == [g EXCEPT !.msg = m, !.n = a.c, !.status = a.reply.status]
        better == \/ Before(m, g.msg)
                  \/ m = g.msg /\ a.c < g.n
    IN  IF g.status = "PENDING" THEN taken
        ELSE IF m # NoMessage
        THEN IF g.msg = NoMessage \/ better THEN taken ELSE g
        ELSE IF g.msg = NoMessage /\ g.status # "EXPECTED"
             THEN [g EXCEPT !.status = a.reply.status] ELSE g

(* The combined id of the chosen message. *)
response_id(g) ==
    IF g.wanted.time # g.msg[1]
    THEN nchan_expand_msg_id_multi_tag(g.msg, g.n)
    ELSE [g.wanted EXCEPT !.tags[g.n] = g.msg[2]]

(* The last answer came: release the head, hand the message over and free  *)
(* the fetch.  "raced": a channel got a message after it had answered (or  *)
(* without being asked), in a second before that of the chosen message.    *)
respond(g) ==
    /\ refs' = refs - 1
    /\ IF g.msg = NoMessage
       THEN UNCHANGED <<client, asserted, raced>>
       ELSE /\ client' = [id |-> nchan_update_multi_msgid(client.id, response_id(g)),
                          seen |-> [client.seen EXCEPT ![g.n] = Append(@, g.msg)]]
            /\ asserted' = (asserted \/ ~update_asserts(client.id, response_id(g), g.n))
            /\ raced' = (raced \/ \E t \in g.late : t < g.msg[1])
    /\ get' = NoFetch
    /\ UNCHANGED leaked

get_multi_message_callback(a) ==
    /\ a \in get.answers
    /\ LET g == [get EXCEPT !.answers = @ \ {a}]
           kept == set_multimsg_msg(g, a)
       IN  IF get.expired
           THEN /\ get' = IF getting(g) = 0 THEN NoFetch ELSE g
                /\ leaked' = IF getting(g) = 0 /\ g.msg # NoMessage
                             THEN leaked + 1 ELSE leaked
                /\ UNCHANGED <<client, refs, asserted, raced>>
           ELSE IF getting(g) = 0
                THEN respond(kept)
                ELSE /\ get' = kept
                     /\ UNCHANGED <<client, refs, leaked, asserted, raced>>
    /\ UNCHANGED <<clock, chan, fwd, timeouts>>

(* Twenty seconds without all the answers. *)
get_multimsg_timeout ==
    /\ get.on /\ ~get.expired
    /\ timeouts < MaxTimeouts
    /\ timeouts' = timeouts + 1
    /\ get' = [get EXCEPT !.expired = TRUE]
    /\ refs' = refs - 1
    /\ UNCHANGED <<clock, chan, fwd, client, leaked, asserted, raced>>

MultiNext ==
    \/ tick
    \/ \E c \in Chans : publish(c) \/ forward(c)
    \/ nchan_store_async_get_multi_message
    \/ \E a \in get.asked : receive_get_multi(a) \/ lose_answer(a)
    \/ \E a \in get.answers : get_multi_message_callback(a)
    \/ get_multimsg_timeout

(* The event loops answer and deliver what was asked, timers fire, and a
   client asks again: nothing of this is left undone for good.  Each formula
   is weak fairness of the action that ends the state it names. *)
MultiFairness ==
    /\ []<>(get.asked = {}) /\ []<>(get.answers = {})
    /\ []<>(get.lost = 0 \/ get.expired \/ timeouts = MaxTimeouts)
    /\ []<>(get.on \/ want(client.id) = {})
    /\ \A c \in Chans : []<>(Unforwarded(c) = {})

MultiSpec == MultiInit /\ [][MultiNext]_multiVars /\ MultiFairness

-----------------------------------------------------------------------------
(* Ids, positions and counters stay within their types (nchan_msg_id_t,    *)
(* get_multi_message_data_t).                                              *)
MultiTypeOK ==
    /\ clock \in 1 .. MaxTime
    /\ client.id.time \in 0 .. MaxTime
    /\ client.id.tags \in [Chans -> -1 .. MaxTag]
    /\ get.status \in {"PENDING", "FOUND", "EXPECTED", "NOTFOUND"}
    /\ refs \in 0 .. 1 /\ leaked \in Nat

(* No repeat and no loss on a multi-channel subscription: the messages of  *)
(* each channel reach the client in order, each once and none left out,    *)
(* however the answers of the owners are ordered - unless a channel got a  *)
(* message of an earlier second after it had answered.                     *)
NoLossUnlessRaced ==
    raced \/ \A c \in Chans : /\ Len(client.seen[c]) <= Len(chan[c])
                              /\ \A i \in 1 .. Len(client.seen[c]) : client.seen[c][i] = chan[c][i]

(* The README's guarantee without the exception. *)
NoLoss ==
    \A c \in Chans : /\ Len(client.seen[c]) <= Len(chan[c])
                     /\ \A i \in 1 .. Len(client.seen[c]) : client.seen[c][i] = chan[c][i]

(* The assertion of nchan_update_multi_msgid: within a second, the active  *)
(* tag of a new message is larger than the one the client has.             *)
TagsAdvance == ~asserted

(* The multi channel head is reserved exactly while an unexpired fetch     *)
(* needs it, so that it is released once and only once.                    *)
HeadReservedOnce == refs = IF get.on /\ ~get.expired THEN 1 ELSE 0

(* However answers, publications and timeouts are ordered, a fetch over      *)
(* several channels skips and repeats nothing, fails no assertion, and       *)
(* releases the head once.                                                   *)
MultiSafe == MultiTypeOK /\ NoLossUnlessRaced /\ TagsAdvance /\ HeadReservedOnce

(* A message kept as the best answer so far is given back with the fetch,  *)
(* unless the fetch expired and was freed by a late answer.                *)
AnswersGivenBack == [][leaked' > leaked => get.expired]_multiVars

(* Unless a fetch expired, every message of every channel reaches a client *)
(* that keeps asking, or was passed over by the race above.                *)
AllDelivered ==
    \A c \in Chans : <>[](\/ raced \/ timeouts > 0
                          \/ Len(client.seen[c]) = Len(chan[c]))

(* A client that keeps asking gets everything, and what a fetch kept for it  *)
(* is given back.                                                            *)
MultiDelivers == AnswersGivenBack /\ AllDelivered

=============================================================================
