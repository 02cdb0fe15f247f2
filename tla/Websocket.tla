------------------------------ MODULE Websocket ------------------------------
(***************************************************************************)
(* One websocket from the content handler to the end of its request: as a  *)
(* subscriber, as a publisher, or both, with messages published through an *)
(* upstream or straight to the store, frames from the client, the closing  *)
(* handshake and its timers, and a request that ends under its subscriber. *)
(*                                                                         *)
(* As in HttpSubscriber, a handler is a function from record to record.    *)
(* Admission by the store, modelled there, is here one question with one   *)
(* answer.  How bytes become frames is modelled in WsFrames.               *)
(***************************************************************************)
EXTENDS Naturals, Sequences, FiniteSets

CONSTANTS Roles,     \* a subset of {"sub", "pubsub", "pub"}
          Offers,    \* what clients offer in the handshake
          WindowBits,\* the configured deflate window
          MaxPubs,   \* bound: messages the client publishes
          MaxPending \* bound: of these, in the hands of upstream or store

ASSUME WsAssumption == /\ Roles \subseteq {"sub", "pubsub", "pub"}
                       /\ MaxPubs \in Nat /\ MaxPending \in Nat /\ WindowBits \in 9 .. 15

VARIABLE ws
wsVars == <<ws>>

UNSET == 0   \* NGX_CONF_UNSET of the window bits
NoOffer == [ext |-> "none", version |-> 13, key |-> TRUE, client |-> UNSET, server |-> UNSET]

-----------------------------------------------------------------------------
(* The handshake.                                                          *)

\* extract_deflate_window_bits: absent or without a number is no setting.
extract_deflate_window_bits(bits) == bits = UNSET \/ bits \in 9 .. 15

Refused == [ok |-> FALSE, server |-> UNSET, client |-> UNSET]

\* Whether the request is upgraded, and the windows the compressor and the
\* inflater use then.
websocket_perform_handshake(o) ==
    CASE o.version # 13 \/ ~o.key -> Refused
      [] o.version = 13 /\ o.key /\ o.ext = "none" -> [Refused EXCEPT !.ok = TRUE]
      [] OTHER ->
           LET perframe == o.ext = "frame"
               client == IF perframe THEN o.server ELSE o.client
           IN CASE ~extract_deflate_window_bits(client)
                     \/ ~extract_deflate_window_bits(o.server) -> Refused
                [] o.server # UNSET /\ o.server < WindowBits -> Refused
                [] OTHER -> [ok |-> TRUE, server |-> WindowBits,
                             client |-> CASE client # UNSET -> client
                                          [] client = UNSET /\ perframe -> WindowBits
                                          [] OTHER -> 15]

-----------------------------------------------------------------------------
\* websocket_subscriber_create.  up is the machine's queue of publishes that
\* go through the upstream, the first of which runs; orphans are those that
\* run on without a machine; storing are with the store.
websocket_subscriber_create(role, offer, upstream) ==
    [role |-> role, offer |-> offer, upstream |-> upstream, at |-> "new",
     status |-> "ALIVE", enqueued |-> FALSE, reserved |-> 0, freed |-> FALSE,
     awaiting_destruction |-> FALSE, holding |-> FALSE, shook_hands |-> FALSE,
     sent_close |-> FALSE, received_close |-> FALSE, awaiting_pong |-> FALSE,
     ping_ev |-> FALSE, closing_ev |-> FALSE, timeout_ev |-> FALSE,
     cln |-> "abort", cln_ptr |-> TRUE, ctx_sub |-> TRUE, msg_pool |-> FALSE,
     count |-> 1, open |-> TRUE, joins |-> 0, leaves |-> 0,
     up |-> 0, orphans |-> 0, storing |-> 0, pubs |-> 0, stored |-> 0,
     dropped |-> 0, early |-> FALSE, late |-> FALSE, crossed |-> FALSE, ended |-> FALSE,
     unsub |-> "none", failed |-> {}]

ws_fail(s, what) == [s EXCEPT !.failed = @ \cup {what}]

\* Accesses to the subscriber, to its request and context, and output.
ws_use(s) == IF s.freed THEN ws_fail(s, "subscriber used after free") ELSE s
ws_ctx(s) == IF s.open THEN s ELSE ws_fail(s, "request used after its end")
ws_output_filter(s) == ws_ctx(s)

ws_ensure_request_hold(s) ==
    IF s.holding THEN s ELSE [ws_ctx(s) EXCEPT !.holding = TRUE, !.count = @ + 1]

websocket_reserve(s) == [ws_ensure_request_hold(ws_use(s)) EXCEPT !.reserved = @ + 1]

\* nchan_subscriber_subrequest_cleanup: what runs goes on, the rest never does.
ws_subrequest_cleanup(s) ==
    IF s.up = 0 THEN s
    ELSE [s EXCEPT !.up = 0, !.orphans = @ + 1, !.dropped = @ + s.up - 1]

websocket_delete_timers(s) ==
    [s EXCEPT !.ping_ev = FALSE, !.closing_ev = FALSE, !.timeout_ev = FALSE]

websocket_subscriber_destroy(s) ==
    LET t == [ws_use(s) EXCEPT !.ctx_sub = FALSE]
    IN IF s.reserved > 0
       THEN [t EXCEPT !.awaiting_destruction = TRUE, !.status = "DEAD"]
       ELSE [ws_subrequest_cleanup(websocket_delete_timers(t))
                EXCEPT !.freed = TRUE, !.msg_pool = FALSE]

websocket_release(s, nodestroy) ==
    IF s.reserved = 0 THEN ws_fail(s, "websocket.c:1149")
    ELSE LET t == [ws_use(s) EXCEPT !.reserved = @ - 1]
         IN IF ~nodestroy /\ t.awaiting_destruction /\ t.reserved = 0
            THEN websocket_subscriber_destroy(t) ELSE t

-----------------------------------------------------------------------------
(* Closing.                                                                *)

\* The dequeue callback: the spooler's, or the publishers' list's.
ws_dequeue_callback(s) ==
    IF s.joins = 0 THEN s ELSE [s EXCEPT !.leaves = @ + 1, !.at = "left"]

\* A close frame is sent on the way out, if none was: its timer goes with
\* the others.
websocket_dequeue(s) ==
    LET t == [ws_dequeue_callback(ws_use(s)) EXCEPT !.enqueued = FALSE,
                 !.sent_close = @ \/ s.shook_hands]
    IN websocket_subscriber_destroy(websocket_delete_timers(t))

\* nginx: the last use of a request closes it and runs its cleanup handler.
\* sudden_abort_handler is that handler until it is taken away.  The read
\* handler it leaves belongs to a request that is closing and never runs, and
\* ws_request_empty_handler acts only on an end of input, with which
\* websocket_reading ends the request in the call that finds it: both are
\* left out.
ws_sudden_abort_handler(s) == websocket_dequeue(ws_use(s))

ws_finalize(s) ==
    CASE ~s.open -> ws_fail(s, "request finalized after its end")
      [] s.open /\ s.count > 1 -> [s EXCEPT !.count = @ - 1]
      [] OTHER -> LET t == IF s.cln = "abort" THEN ws_sudden_abort_handler(s) ELSE s
                  IN [t EXCEPT !.count = 0, !.open = FALSE]

\* The unsubscribe request joins the machine's queue: behind a publish it has
\* not begun when the machine is shut down, and never will.
ws_unsubscribe_request(s) ==
    IF s.enqueued THEN [s EXCEPT !.unsub = IF s.up = 0 THEN "begun" ELSE "dropped"] ELSE s

\* The cleanup handler is taken away first: what it does is done here.
websocket_finalize_request(s) ==
    LET t == [ws_subrequest_cleanup(ws_unsubscribe_request(ws_use(s)))
                 EXCEPT !.cln = IF s.cln_ptr THEN "empty" ELSE @, !.status = "DEAD",
                        !.early = @ \/ ~s.enqueued]
    IN ws_finalize(IF s.enqueued THEN websocket_dequeue(t) ELSE t)

websocket_send_close_frame_again(s) ==
    [ws_output_filter(s) EXCEPT !.sent_close = TRUE]

\* The peer gets 250 ms to answer, or none if it asked for the close.
websocket_send_close_frame(s) ==
    IF s.sent_close THEN websocket_finalize_request(s)
    ELSE [ws_output_filter(ws_use(s)) EXCEPT !.sent_close = TRUE, !.closing_ev = TRUE]

\* "nothing" is 204, or 304 without a status line.
websocket_respond_status(s, code) ==
    CASE code = "nothing" -> s
      [] code # "nothing" /\ ~s.shook_hands ->
           ws_finalize([ws_ctx(ws_use(s)) EXCEPT !.cln_ptr = FALSE, !.ended = TRUE])
      [] OTHER -> websocket_send_close_frame(ws_use(s))

\* The context is read from the request, which the close may have ended.
websocket_reading_finalize(s) ==
    IF ~s.ctx_sub THEN ws_ctx(s) ELSE websocket_finalize_request(websocket_delete_timers(s))

-----------------------------------------------------------------------------
(* Joining, and what the spooler sends.                                    *)

ensure_handshake(s) ==
    LET t == ws_ensure_request_hold(s)
    IN IF s.shook_hands THEN s
       ELSE IF websocket_perform_handshake(s.offer).ok
            THEN [ws_ctx(t) EXCEPT !.shook_hands = TRUE]
            ELSE ws_finalize([ws_ctx(t) EXCEPT !.ended = TRUE])

websocket_enqueue(s) ==
    LET t == ensure_handshake(ws_use(s))
    IN IF ~t.shook_hands THEN [t EXCEPT !.at = IF @ = "left" THEN @ ELSE "none"]
       ELSE [t EXCEPT !.enqueued = TRUE, !.ping_ev = TRUE, !.timeout_ev = TRUE,
                      !.at = "in", !.joins = 1]

websocket_respond_message(s) == ws_output_filter(ensure_handshake(ws_use(s)))

\* The publishers' list is joined before the handshake.
nchan_create_websocket_publisher(s) ==
    LET t == websocket_enqueue([s EXCEPT !.joins = 1])
    IN IF t.enqueued \/ t.at = "left" THEN t ELSE [t EXCEPT !.at = "in"]

-----------------------------------------------------------------------------
(* Publishing.                                                             *)

\* The store's answer: "ok", "full" or "error".  The context is written for a
\* channel before it is known whether the publisher still exists.
websocket_publish_callback(s, answer) ==
    LET a == IF answer = "ok" THEN [ws_ctx(ws_use(s)) EXCEPT !.late = ~s.open] ELSE ws_use(s)
        b == websocket_release([a EXCEPT !.storing = @ - 1], FALSE)
    IN CASE b.freed \/ b.status = "DEAD" -> b
         [] ~b.freed /\ b.status # "DEAD" /\ answer = "ok" ->
              IF b.role = "pub" THEN ws_output_filter(ws_ctx(b)) ELSE ws_ctx(b)
         [] OTHER -> websocket_respond_status(b, answer)

\* now: the store answers before its publish returns ("later" if it does not).
websocket_publish_continue(s, now) ==
    LET t == [websocket_reserve(ws_ctx(ws_use(s))) EXCEPT !.storing = @ + 1,
                                                          !.stored = @ + 1]
    IN IF now = "later" THEN t ELSE websocket_publish_callback(t, now)

websocket_publish_unreserved(s, now) ==
    LET t == [s EXCEPT !.pubs = @ + 1, !.msg_pool = FALSE]
    IN IF s.upstream THEN [ws_ensure_request_hold(t) EXCEPT !.up = @ + 1]
       ELSE websocket_publish_continue(t, now)

websocket_publish(s, now) ==
    LET t == [s EXCEPT !.pubs = @ + 1, !.msg_pool = FALSE]
    IN IF s.upstream THEN [websocket_reserve(t) EXCEPT !.up = @ + 1]
       ELSE websocket_publish_continue(t, now)

\* The first of the queue, or an orphan, has its upstream answer.
websocket_publish_upstream_handler(s, orphan, code, now) ==
    LET t == websocket_release([s EXCEPT !.orphans = IF orphan THEN @ - 1 ELSE @,
                                         !.late = ~orphan /\ ~s.open], FALSE)
        u == CASE t.freed \/ orphan -> t
               [] ~t.freed /\ ~orphan /\ code \in {"2xx", "304"} ->
                    websocket_publish_continue(t, now)
               [] ~t.freed /\ ~orphan /\ code = "204" -> t
               [] OTHER -> websocket_respond_status(t, "4xx")
    IN CASE orphan -> u
         [] ~orphan /\ u.up > 0 -> [u EXCEPT !.up = @ - 1]
         [] OTHER -> [u EXCEPT !.orphans = @ - 1]   \* cleaned up by its own callback

-----------------------------------------------------------------------------
(* One complete frame: websocket_reading from the payload step on.         *)

\* The client's heartbeat message is answered and not published.
websocket_heartbeat(s) == ws_output_filter([s EXCEPT !.msg_pool = FALSE])

Payloads == {"message", "heartbeat", "badutf8", "baddeflate"}

read_data(s, what, now) ==
    CASE s.role = "sub" -> websocket_reading_finalize(websocket_send_close_frame(s))
      [] s.role # "sub" /\ what \in {"badutf8", "baddeflate"} ->
           websocket_reading_finalize(websocket_send_close_frame([s EXCEPT !.msg_pool = FALSE]))
      [] s.role # "sub" /\ what = "heartbeat" -> websocket_heartbeat(s)
      [] OTHER -> websocket_publish([s EXCEPT !.msg_pool = TRUE], now)

read_control(s, op) ==
    CASE op = "ping" -> ws_output_filter(s)
      [] op = "pong" -> [s EXCEPT !.awaiting_pong = FALSE]
      [] op = "close" ->
           LET t == [s EXCEPT !.received_close = TRUE]
           IN websocket_reading_finalize(IF t.sent_close THEN t
                                         ELSE websocket_send_close_frame(t))
      [] op = "toobig" -> websocket_reading_finalize(websocket_send_close_frame(s))
      [] op = "unknown" -> websocket_reading_finalize(ws_output_filter(s))

\* After a frame that does not end the reading, the frame state is reset.
frame_done(s, last) == IF last THEN s ELSE ws_use(s)

-----------------------------------------------------------------------------
WsInit == \E r \in Roles, o \in Offers, u \in BOOLEAN :
              ws = websocket_subscriber_create(r, o, u)

\* The content handler.  A subscriber's admission is asked for; the store
\* reserves the subscriber meanwhile.
ws_pubsub_handler ==
    /\ ws.at = "new"
    /\ ws' = ws_finalize(IF ws.role = "pub" THEN nchan_create_websocket_publisher(ws)
                         ELSE [websocket_reserve(ws) EXCEPT !.at = "asked"])

ws_admitted ==
    /\ ws.at = "asked"
    /\ LET t == [ws EXCEPT !.at = "none"]
       IN ws' = IF ws.status = "DEAD" THEN websocket_release(t, FALSE)
                ELSE websocket_enqueue(websocket_release(t, TRUE))

ws_not_admitted ==
    /\ ws.at = "asked" /\ ws.status # "DEAD"
    /\ ws' = websocket_release(websocket_respond_status([ws EXCEPT !.at = "none"], "4xx"), FALSE)

ws_message == /\ ws.at = "in" /\ ws.role # "pub" /\ ws.enqueued
              /\ ws' = websocket_respond_message(ws)

ws_status == /\ ws.at = "in" /\ ws.role # "pub" /\ ws.enqueued
             /\ \E c \in {"nothing", "4xx"} : ws' = websocket_respond_status(ws, c)

ws_timeout_ev_handler ==
    /\ ws.timeout_ev
    /\ ws' = websocket_respond_status([ws EXCEPT !.timeout_ev = FALSE], "4xx")

ws_ping_ev_handler ==
    /\ ws.ping_ev
    /\ ws' = IF ws.awaiting_pong THEN websocket_finalize_request([ws EXCEPT !.ping_ev = FALSE])
             ELSE [ws_output_filter(ws) EXCEPT !.awaiting_pong = TRUE]

closing_ev_handler ==
    /\ ws.closing_ev
    /\ ws' = websocket_finalize_request([ws EXCEPT !.closing_ev = FALSE])

Readable(s) == s.open /\ s.holding /\ s.ctx_sub /\ ~s.ended

\* A frame that the client sent before it saw the server's close frame.
Cross(s) == [s EXCEPT !.crossed = @ \/ s.sent_close]

read_publish ==
    /\ Readable(ws) /\ ws.shook_hands
    /\ ws.pubs < MaxPubs /\ ws.up + ws.storing < MaxPending
    /\ \E p \in Payloads, now \in {"ok", "full", "error", "later"} :
          ws' = frame_done(read_data(Cross(ws), p, now), ws.role = "sub" \/ p \in {"badutf8", "baddeflate"})

read_other ==
    /\ Readable(ws) /\ ws.shook_hands
    /\ \E op \in {"ping", "pong", "close", "toobig", "unknown"} :
          ws' = frame_done(read_control(Cross(ws), op), op \notin {"ping", "pong"})

\* The connection is at its end when it is read.
read_eof == Readable(ws) /\ ws' = websocket_reading_finalize(ws)

\* Output that cannot be written in time ends the request.
write_timeout == Readable(ws) /\ ws.shook_hands /\ ws' = ws_finalize(ws)

upstream_answers ==
    \E code \in {"2xx", "304", "204", "403"}, now \in {"ok", "full", "error", "later"} :
        \/ ws.up > 0 /\ ws' = websocket_publish_upstream_handler(ws, FALSE, code, now)
        \/ ws.orphans > 0 /\ ws' = websocket_publish_upstream_handler(ws, TRUE, code, now)

store_answers ==
    /\ ws.storing > 0
    /\ \E a \in {"ok", "full", "error"} : ws' = websocket_publish_callback(ws, a)

\* A worker that has used memory it gave back is not followed any further.
WsNext == /\ ws.failed = {}
          /\ \/ ws_pubsub_handler \/ ws_admitted \/ ws_not_admitted \/ ws_message \/ ws_status
             \/ ws_timeout_ev_handler \/ ws_ping_ev_handler \/ closing_ev_handler
             \/ read_publish \/ read_other \/ read_eof \/ write_timeout
             \/ upstream_answers \/ store_answers

\* Store and upstreams answer, and timers run: weak fairness of each, told
\* by the state it leaves.
WsFairness ==
    /\ []<>(ws.failed # {} \/ ws.at # "asked")
    /\ []<>(ws.failed # {} \/ ~ws.closing_ev)
    /\ []<>(ws.failed # {} \/ ws.storing = 0)
    /\ []<>(ws.failed # {} \/ (ws.up = 0 /\ ws.orphans = 0))

WsSpec == WsInit /\ [][WsNext]_wsVars /\ WsFairness

-----------------------------------------------------------------------------
\* The connection is held at most twice, and what is under way for it is
\* counted and never below zero.
WsTypeOK == /\ ws.at \in {"new", "asked", "in", "left", "none"}
            /\ ws.count \in 0 .. 2 /\ ws.cln \in {"abort", "empty"}
            /\ ws.up \in Nat /\ ws.orphans \in 0 .. 1 /\ ws.storing \in Nat

\* No freed subscriber and no ended request is used, and no assertion of
\* websocket.c fails, except in two races: a publish that is answered after
\* the request ended, and a frame that crosses the server's close frame.
WsNoMisuse == ws.failed = {} \/ ws.late \/ ws.crossed

\* The spooler, or the list of publishers, is told exactly once that a
\* websocket it holds has left.
WsLeavesOnce == ws.joins - ws.leaves = IF ws.at = "in" THEN 1 ELSE 0

\* The unsubscribe request is made for a websocket that leaves in the same
\* step, never for one that stays or had not joined.
UnsubscribedOnLeaving == ws.unsub # "none" => ws.leaves = 1

\* A subscriber is reserved once for each question and each publish that
\* will come back to it, so that neither finds it freed.
ReservedForAnswers ==
    LET answers == (IF ws.at = "asked" THEN 1 ELSE 0) + ws.up + ws.orphans + ws.storing
    IN /\ ~ws.freed => ws.reserved = answers + ws.dropped
       /\ ws.freed => answers = 0

\* A message that the upstream must see first is stored only on its answer,
\* and no message is stored twice.
StoredOnce == ws.stored <= ws.pubs - ws.up - ws.orphans - ws.dropped

\* The windows agreed on for permessage-deflate respect the offer: the
\* compressor's is no larger, the inflater's no smaller than the client's.
WindowsWithinOffer ==
    ws.shook_hands /\ ws.offer.ext = "message" =>
        LET w == websocket_perform_handshake(ws.offer)
            limit(bits) == IF bits = UNSET THEN 15 ELSE bits
        IN w.server <= limit(ws.offer.server) /\ w.client >= limit(ws.offer.client)

\* However frames, answers to publications, timers and the end of the request
\* interrupt each other, a websocket is used only while it is there, leaves
\* once, and stores what was published once.
WsSafe == /\ WsTypeOK /\ WsNoMisuse /\ WsLeavesOnce /\ UnsubscribedOnLeaving
          /\ ReservedForAnswers /\ StoredOnce /\ WindowsWithinOffer

\* A websocket that sent its close frame is closed, whether or not the
\* client answers.
CloseEnds == ws.sent_close ~> ~ws.open \/ ws.failed # {}

\* The subscriber's memory is given back once its request is closed, unless
\* it was cut off before it joined, or a publish that was still queued for
\* the upstream kept its reservation for good.
WsEventuallyFreed == ~ws.open ~> ws.freed \/ ws.early \/ ws.dropped > 0 \/ ws.failed # {}

\* Closing comes to an end, and then the memory is given back.
WsEnds == CloseEnds /\ WsEventuallyFreed
=============================================================================
