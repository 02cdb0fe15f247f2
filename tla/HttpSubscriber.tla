--------------------------- MODULE HttpSubscriber ---------------------------
(***************************************************************************)
(* One HTTP subscriber from the request's content handler to the end of    *)
(* the request: longpoll (plain, several messages per response, interval), *)
(* EventSource, chunked, multipart/mixed and raw stream, with the request  *)
(* authorization, the store's admission checks, the subscribe/unsubscribe  *)
(* requests of the request machine and the client closing at any moment.   *)
(*                                                                         *)
(* A handler is a function from a subscriber record to a subscriber        *)
(* record, so that nested calls compose as they do in the code.            *)
(***************************************************************************)
EXTENDS Naturals, Sequences, FiniteSets

CONSTANTS Kinds,       \* the subscriber types explored
          Checks,      \* admission: a subset of {"none", "local", "remote", "redis"}
          MaxMsgs,     \* bound: messages the spooler delivers
          MaxLoops,    \* bound: rounds of the group's channel limit check
          MayFull      \* may shared memory be exhausted when subscribing?

Streams == {"eventsource", "chunked", "multipart", "raw"}
Polls == {"longpoll", "multimsg", "intervalpoll"}

ASSUME HttpAssumption == /\ Kinds \subseteq Streams \cup Polls
                         /\ Checks \subseteq {"none", "local", "remote", "redis"}
                         /\ MaxMsgs \in Nat /\ MaxLoops \in Nat
                         /\ MayFull \in BOOLEAN

VARIABLE hs
httpVars == <<hs>>

\* nchan_subscriber_init and the create functions.
NewSub(kind, auth, check, group) ==
    [kind |-> kind, auth |-> auth, check |-> check, group |-> group, at |-> "new",
     status |-> "ALIVE", enqueued |-> FALSE, reserved |-> 0, freed |-> FALSE,
     dequeue_after_response |-> kind \in {"longpoll", "intervalpoll"},
     awaiting_destruction |-> FALSE, finalize_request |-> TRUE,
     holding |-> FALSE, already_responded |-> FALSE, timeout_ev |-> FALSE,
     ping_ev |-> FALSE, shook_hands |-> FALSE, cln |-> "abort", collected |-> 0,
     refs |-> 0, ctx_sub |-> TRUE, sent_unsubscribe |-> FALSE, last_msgid |-> 0,
     count |-> 1, open |-> TRUE, closing |-> FALSE, ended |-> FALSE,
     joins |-> 0, leaves |-> 0, queue |-> <<>>, orphans |-> {}, begun |-> {},
     over |-> {}, msgs |-> 0, loops |-> 0, cut |-> FALSE, full |-> FALSE,
     lost |-> FALSE, pass |-> FALSE, dres |-> FALSE, refused |-> FALSE, redirected |-> FALSE,
     failed |-> {}]

Fail(s, what) == [s EXCEPT !.failed = @ \cup {what}]

\* Every access to the subscriber and every write to its request goes
\* through these two.
Use(s) == IF s.freed THEN Fail(s, "subscriber used after free") ELSE s
Write(s) == IF s.closing \/ (s.open /\ ~s.ended) THEN s ELSE Fail(s, "written after the end")

-----------------------------------------------------------------------------
(* The request machine: one subrequest runs at a time, in queue order.     *)

nchan_requestmachine_run(s) ==
    IF s.queue # <<>> /\ Head(s.queue) \notin s.begun
    THEN [s EXCEPT !.begun = @ \cup {Head(s.queue)}] ELSE s

nchan_requestmachine_request(s, what) ==
    nchan_requestmachine_run([s EXCEPT !.queue = Append(@, what)])

\* The queue is emptied: what already runs goes on without its machine,
\* what had not begun never does.
nchan_requestmachine_abort(s) ==
    [s EXCEPT !.queue = <<>>,
              !.orphans = @ \cup {s.queue[i] : i \in 1 .. Len(s.queue)}]

-----------------------------------------------------------------------------
(* Destruction, reservations and the hold on the request.                  *)

longpoll_subscriber_destroy(s) ==
    CASE s.reserved > 0 -> [Use(s) EXCEPT !.awaiting_destruction = TRUE]
      [] s.reserved = 0 /\ s.status = "DEAD" ->
           [nchan_requestmachine_abort(Use(s)) EXCEPT !.freed = TRUE]
      [] OTHER -> Fail(s, "longpoll.c:107")

ensure_request_hold(s) ==
    IF s.holding THEN s ELSE [s EXCEPT !.holding = TRUE, !.count = @ + 1]

longpoll_reserve(s) == [ensure_request_hold(Use(s)) EXCEPT !.reserved = @ + 1]

longpoll_release_kept(s, nodestroy) == [Use(s) EXCEPT !.reserved = @ - 1]

longpoll_release(s, nodestroy) ==
    LET given == [Use(s) EXCEPT !.reserved = @ - 1]
    IN CASE s.reserved = 0 -> Fail(Use(s), "longpoll.c:164")
         [] s.reserved = 1 /\ ~nodestroy /\ s.awaiting_destruction ->
              longpoll_subscriber_destroy(given)
         [] OTHER -> given

\* nginx: a finalized request loses one of its users and is closed with the
\* last one; closing runs the cleanup handlers.
ngx_http_finalize_request(s) ==
    CASE s.closing -> s
      [] ~s.open -> Fail(s, "request finalized after it was closed")
      [] s.open /\ s.count > 1 -> [s EXCEPT !.count = @ - 1]
      [] OTHER -> [s EXCEPT !.count = 0, !.open = FALSE,
                            !.refs = IF s.cln = "release" THEN 0 ELSE @,
                            !.failed = IF s.cln = "abort"
                                       THEN @ \cup {"closed under its subscriber"} ELSE @]

-----------------------------------------------------------------------------
(* Entering and leaving the spool.                                         *)

nchan_subscriber_unsubscribe_request(s) ==
    IF s.sent_unsubscribe THEN s
    ELSE nchan_requestmachine_request([s EXCEPT !.sent_unsubscribe = TRUE], "unsub")

longpoll_enqueue(s) ==
    IF s.enqueued THEN Fail(s, "longpoll.c:178")
    ELSE [ensure_request_hold(Use(s)) EXCEPT !.finalize_request = TRUE,
                                             !.enqueued = TRUE, !.timeout_ev = TRUE]

\* The dequeue callback is the spooler's once the subscriber has joined it.
dequeue_callback(s) ==
    IF s.joins = 0 THEN s ELSE [s EXCEPT !.leaves = @ + 1, !.at = "left"]

\* The rest of a dequeue: the unsubscribe request, the end of the request
\* where the subscriber is to finalize it, and the subscriber's own end.
longpoll_dequeue_rest(s) ==
    LET unsubscribed(a) == IF s.enqueued /\ s.kind \in Streams
                           THEN nchan_subscriber_unsubscribe_request(a) ELSE a
        finalized(a) == IF s.finalize_request
                        THEN [ngx_http_finalize_request(a) EXCEPT !.status = "DEAD"] ELSE a
    IN longpoll_subscriber_destroy(
           finalized([unsubscribed(s) EXCEPT !.enqueued = FALSE, !.ctx_sub = FALSE]))

longpoll_dequeue_timer_left(s) == longpoll_dequeue_rest(dequeue_callback(Use(s)))

longpoll_dequeue(s) ==
    longpoll_dequeue_rest(dequeue_callback([Use(s) EXCEPT !.timeout_ev = FALSE]))

es_dequeue(s) == longpoll_dequeue([s EXCEPT !.ping_ev = FALSE])

Dequeue(s) == IF s.kind = "eventsource" THEN es_dequeue(s) ELSE longpoll_dequeue(s)

dequeue_maybe(s) == IF s.dequeue_after_response THEN Dequeue(s) ELSE s

\* The cleanup handler of a request that closes under its subscriber.
sudden_abort_handler(s) == Dequeue([Use(s) EXCEPT !.status = "DEAD",
                                                  !.cut = s.collected > 0])

\* nginx closes a request whose client has gone.
ngx_http_terminate_request(s) ==
    LET closed(u) == [u EXCEPT !.open = FALSE, !.refs = IF s.cln = "release" THEN 0 ELSE @]
        closing == [s EXCEPT !.closing = TRUE]
    IN closed(IF s.cln = "abort" THEN sudden_abort_handler(closing) ELSE closing)

-----------------------------------------------------------------------------
(* Headers of the streaming subscribers, sent once.                        *)

nchan_cleverly_output_headers_only_for_later_response(s) ==
    [Write(s) EXCEPT !.shook_hands = TRUE]

es_ensure_headers_sent(s) ==
    IF s.shook_hands THEN s ELSE nchan_cleverly_output_headers_only_for_later_response(s)
chunked_ensure_headers_sent(s) ==
    IF s.shook_hands THEN s ELSE nchan_cleverly_output_headers_only_for_later_response(s)
multipart_ensure_headers_sent(s) ==
    IF s.shook_hands THEN s ELSE nchan_cleverly_output_headers_only_for_later_response(s)
rawstream_ensure_headers_sent(s) ==
    IF s.shook_hands THEN s ELSE nchan_cleverly_output_headers_only_for_later_response(s)

es_enqueue(s) ==
    [es_ensure_headers_sent([longpoll_enqueue(s) EXCEPT !.ping_ev = TRUE])
        EXCEPT !.finalize_request = FALSE, !.enqueued = TRUE]
chunked_enqueue(s) ==
    [chunked_ensure_headers_sent(longpoll_enqueue(s))
        EXCEPT !.finalize_request = FALSE, !.enqueued = TRUE]
multipart_enqueue(s) ==
    [multipart_ensure_headers_sent(longpoll_enqueue(s))
        EXCEPT !.finalize_request = FALSE, !.enqueued = TRUE]
rawstream_enqueue(s) ==
    [rawstream_ensure_headers_sent(longpoll_enqueue(s))
        EXCEPT !.finalize_request = FALSE, !.enqueued = TRUE]

Enqueue(s) == CASE s.kind = "eventsource" -> es_enqueue(s)
                [] s.kind = "chunked" -> chunked_enqueue(s)
                [] s.kind = "multipart" -> multipart_enqueue(s)
                [] s.kind = "raw" -> rawstream_enqueue(s)
                [] OTHER -> longpoll_enqueue(s)

-----------------------------------------------------------------------------
(* Messages.  Message m is the m-th the spooler delivers.                  *)

longpoll_multipart_add(s) == [s EXCEPT !.collected = @ + 1, !.refs = @ + 1]

longpoll_respond_message(s, m, empty) ==
    LET t == [Use(s) EXCEPT !.last_msgid = m, !.timeout_ev = FALSE]
    IN dequeue_maybe(
         CASE s.kind = "multimsg" -> longpoll_multipart_add(t)
           [] s.kind # "multimsg" /\ s.already_responded -> Fail(t, "longpoll.c:301")
           [] OTHER -> [Write(t) EXCEPT !.cln = "empty", !.already_responded = TRUE,
                                        !.ended = TRUE])

\* Streams restart their timer, which leaves it as it was.
es_respond_message(s, m, empty) ==
    Write(es_ensure_headers_sent([Use(s) EXCEPT !.last_msgid = m]))

\* An empty chunk would end the response: empty messages are skipped.
chunked_respond_message(s, m, empty) ==
    LET t == [Use(s) EXCEPT !.last_msgid = m]
    IN IF empty THEN t ELSE Write(chunked_ensure_headers_sent(t))

multipart_respond_message(s, m, empty) ==
    Write(multipart_ensure_headers_sent([Use(s) EXCEPT !.last_msgid = m]))

\* The raw stream does not record the message's id.
rawstream_respond_message(s, m, empty) ==
    IF empty THEN Use(s) ELSE Write(rawstream_ensure_headers_sent(Use(s)))

RespondMessage(s, m, empty) ==
    CASE s.kind = "eventsource" -> es_respond_message(s, m, empty)
      [] s.kind = "chunked" -> chunked_respond_message(s, m, empty)
      [] s.kind = "multipart" -> multipart_respond_message(s, m, empty)
      [] s.kind = "raw" -> rawstream_respond_message(s, m, empty)
      [] OTHER -> longpoll_respond_message(s, m, empty)

-----------------------------------------------------------------------------
(* Statuses.                                                               *)

longpoll_multipart_respond(s) ==
    [Write(s) EXCEPT !.cln = "release", !.dequeue_after_response = TRUE, !.ended = TRUE]

longpoll_respond_status(s, code) ==
    CASE s.kind # "intervalpoll" /\ code = "nothing" ->
           IF s.collected > 0 THEN dequeue_maybe(longpoll_multipart_respond(Use(s)))
                              ELSE Use(s)
      [] OTHER ->
           dequeue_maybe([Write(Use(s)) EXCEPT !.dequeue_after_response = TRUE,
                            !.cln = "empty", !.ended = TRUE, !.cut = s.collected > 0])

\* A refusal before the headers were sent: the subscriber goes first, then
\* the request is answered and finalized.
subscriber_respond_unqueued_status(s) ==
    LET answered(t) == [Write(t) EXCEPT !.sent_unsubscribe = TRUE, !.ended = TRUE]
    IN ngx_http_finalize_request(answered(
           Dequeue([Use(s) EXCEPT !.cln = "empty", !.finalize_request = FALSE,
                                  !.status = "DEAD"])))

subscriber_maybe_dequeue_after_status_response(s, code) ==
    IF code \in {"304", "4xx"}
    THEN Dequeue([Use(s) EXCEPT !.cln = "empty", !.finalize_request = TRUE])
    ELSE s

es_respond_status(s, code) ==
    CASE code = "nothing" -> s
      [] code = "4xx" /\ ~s.shook_hands -> subscriber_respond_unqueued_status(s)
      [] OTHER ->
           LET answered == [Write(es_ensure_headers_sent(Use(s))) EXCEPT !.ended = TRUE]
           IN IF code \in {"304", "4xx"}
              THEN Dequeue([answered EXCEPT !.cln = "empty", !.finalize_request = TRUE])
              ELSE answered

chunked_respond_status(s, code) ==
    CASE code = "nothing" -> s
      [] code = "4xx" /\ ~s.shook_hands -> subscriber_respond_unqueued_status(s)
      [] OTHER -> subscriber_maybe_dequeue_after_status_response(
                    [Write(chunked_ensure_headers_sent(Use(s))) EXCEPT !.ended = TRUE], code)

multipart_respond_status(s, code) ==
    CASE code = "nothing" -> s
      [] code = "4xx" /\ ~s.shook_hands -> subscriber_respond_unqueued_status(s)
      [] OTHER -> subscriber_maybe_dequeue_after_status_response(
                    [Write(multipart_ensure_headers_sent(Use(s))) EXCEPT !.ended = TRUE], code)

rawstream_respond_status(s, code) ==
    CASE code = "nothing" -> s
      [] code = "4xx" /\ ~s.shook_hands -> subscriber_respond_unqueued_status(s)
      [] OTHER -> subscriber_maybe_dequeue_after_status_response(s, code)

\* Status codes, told apart as these functions do: "nothing" is 204, or 304
\* without a status line; "304" has a status line; "4xx" is any code from 400
\* to 598.
RespondStatus(s, code) ==
    CASE s.kind = "eventsource" -> es_respond_status(s, code)
      [] s.kind = "chunked" -> chunked_respond_status(s, code)
      [] s.kind = "multipart" -> multipart_respond_status(s, code)
      [] s.kind = "raw" -> rawstream_respond_status(s, code)
      [] OTHER -> longpoll_respond_status(s, code)

-----------------------------------------------------------------------------
(* The store's admission of a subscriber.  "at" is the answer the          *)
(* subscribe data waits for; dres is d->reserved, pass is                  *)
(* d->group_channel_limit_pass.  The outcome o of a round is what the      *)
(* chanhead lookups, limits and message id say.                            *)

\* spooler.fn->add, seen from the subscriber.
Add(s) == [Enqueue(s) EXCEPT !.joins = @ + 1, !.at = "in"]

ReleaseIfReserved(s, nodestroy) ==
    IF s.dres THEN [longpoll_release(s, nodestroy) EXCEPT !.dres = FALSE] ELSE s

ReserveData(s, at) == [longpoll_reserve(s) EXCEPT !.dres = TRUE, !.at = at]

nchan_store_subscribe_continued(s, o) ==
    LET idle == [s EXCEPT !.at = "none"]
        free == ReleaseIfReserved(idle, TRUE)
    IN CASE s.status = "DEAD" -> ReleaseIfReserved(idle, FALSE)
         [] s.status # "DEAD" /\ o = "limit" /\ ~s.pass ->
              IF s.dres THEN [s EXCEPT !.at = "limit"] ELSE ReserveData(s, "limit")
         [] s.status # "DEAD" /\ o = "forbidden" ->
              ReleaseIfReserved(RespondStatus(idle, "4xx"), FALSE)
         [] s.status # "DEAD" /\ o = "mismatch" ->
              longpoll_release(RespondStatus(longpoll_reserve(free), "4xx"), FALSE)
         [] s.status # "DEAD" /\ o \in {"accounting", "limit"} ->
              ReserveData(free, "accounting")
         [] s.status # "DEAD" /\ o = "full" ->
              RespondStatus([free EXCEPT !.full = TRUE], "4xx")
         [] s.status # "DEAD" /\ o = "addmsg" ->
              RespondMessage([Add(free) EXCEPT !.msgs = 1], 1, FALSE)
         [] OTHER -> Add(free)

\* What a round may come to once the channel is authorized ("yes"), refused
\* ("no") or not known yet ("notsure").
Rounds(s, status) ==
    IF status = "no" THEN {"forbidden"}
    ELSE (IF s.group THEN {"mismatch", "accounting"} ELSE {"mismatch", "add", "addmsg"})
         \cup (IF s.check # "none" THEN {"forbidden"} ELSE {})
         \cup (IF MayFull THEN {"full"} ELSE {})
         \cup (IF status = "yes" /\ s.group /\ ~s.pass THEN {"limit"} ELSE {})

nchan_store_subscribe_channel_existence_check_callback(s, o) ==
    LET go_on(t) == IF t.freed THEN [t EXCEPT !.at = "none"]
                    ELSE nchan_store_subscribe_continued([t EXCEPT !.dres = FALSE], o)
    IN go_on(longpoll_release(s, FALSE))

\* nchan_store_subscribe, with the first round when there is nothing to ask,
\* or when the question finds no shared memory and is answered no here.
nchan_store_subscribe(s, o) ==
    CASE s.check = "none" -> nchan_store_subscribe_continued(s, o)
      [] s.check = "local" ->
           nchan_store_subscribe_continued(ReserveData(s, "none"), o)
      [] s.check = "remote" /\ o = "declined" ->
           nchan_store_subscribe_channel_existence_check_callback(
               [ReserveData(s, "none") EXCEPT !.full = TRUE], "forbidden")
      [] s.check = "remote" /\ o # "declined" -> ReserveData(s, "check")
      [] s.check = "redis" -> ReserveData(s, "redis")

FirstRounds(s) == CASE s.check = "none" -> Rounds(s, "yes")
                    [] s.check = "local" -> Rounds(s, "notsure")
                    [] s.check = "remote" -> {"ask"} \cup (IF MayFull THEN {"declined"} ELSE {})
                    [] OTHER -> {"ask"}

\* The subscribe request is made when the store's subscribe returns, unless
\* the subscriber has left its request by then.
nchan_subscriber_subscribe(s, o) ==
    LET announced(t) == IF ~t.full /\ t.kind \in Streams /\ t.ctx_sub
                        THEN nchan_requestmachine_request(t, "sub") ELSE t
    IN announced(nchan_store_subscribe(s, o))

redis_subscribe_channel_existence_callback(s, ok, o) ==
    IF ok THEN nchan_store_subscribe_continued(s, o)
    ELSE [s EXCEPT !.at = "none", !.lost = TRUE]

group_subscribe_channel_limit_check(s, room, o) ==
    CASE s.status = "DEAD" -> ReleaseIfReserved([s EXCEPT !.at = "none"], FALSE)
      [] s.status # "DEAD" /\ room = "yes" ->
           nchan_store_subscribe_continued([s EXCEPT !.pass = TRUE], o)
      [] s.status # "DEAD" /\ room = "none" -> [s EXCEPT !.at = "find"]
      [] OTHER -> nchan_store_subscribe_continued(s, "forbidden")

group_subscribe_channel_limit_reached(s, exists, o) ==
    CASE s.status = "DEAD" -> ReleaseIfReserved([s EXCEPT !.at = "none"], FALSE)
      [] s.status # "DEAD" /\ exists ->
           nchan_store_subscribe_continued([s EXCEPT !.loops = @ + (IF o = "limit" THEN 1 ELSE 0)], o)
      [] OTHER -> ReleaseIfReserved(RespondStatus([s EXCEPT !.at = "none"], "4xx"), FALSE)

\* "ready" is whether the chanhead can still be used.
group_subscribe_accounting_check(s, ready, room) ==
    LET idle == [s EXCEPT !.at = "none"]
        t == CASE s.status = "DEAD" -> idle
               [] s.status # "DEAD" /\ ~ready -> [idle EXCEPT !.lost = TRUE]
               [] s.status # "DEAD" /\ ready /\ room -> Add(idle)
               [] OTHER -> RespondStatus(idle, "4xx")
    IN ReleaseIfReserved(t, FALSE)

-----------------------------------------------------------------------------
(* Authorization, the content handler, and the machine's completions.      *)

subscriber_authorize_callback(s, rc, o) ==
    LET t == longpoll_release(s, TRUE)
    IN CASE s.status = "DEAD" -> longpoll_release(s, FALSE)
         [] s.status # "DEAD" /\ rc = "authorized" ->
              nchan_subscriber_subscribe([t EXCEPT !.at = "none"], o)
         [] s.status # "DEAD" /\ rc \in {"3xx", "4xx"} ->
              RespondStatus([t EXCEPT !.at = "none", !.refused = TRUE, !.redirected = rc = "3xx"], rc)
         [] OTHER -> RespondStatus([t EXCEPT !.at = "none", !.refused = TRUE], "4xx")

nchan_subscriber_authorize_subscribe_request(s) ==
    [longpoll_reserve(nchan_requestmachine_request(s, "auth")) EXCEPT !.at = "auth"]

\* The subrequest ended: its callback, then the next one in the queue.
nchan_requestmachine_subrequest_handler(s, what, called) ==
    LET t == [called EXCEPT !.over = @ \cup {what}]
    IN IF t.queue # <<>> /\ Head(t.queue) = what
       THEN nchan_requestmachine_run([t EXCEPT !.queue = Tail(@)]) ELSE t

\* The content handler returns to nginx, which gives up its own use of the
\* request.
Return(s) == ngx_http_finalize_request([s EXCEPT !.at = IF @ = "new" THEN "none" ELSE @])

-----------------------------------------------------------------------------
HttpInit == \E k \in Kinds, a \in BOOLEAN, c \in Checks, g \in BOOLEAN :
                hs = NewSub(k, a, c, g)

subscribe_request ==
    /\ hs.at = "new"
    /\ \/ hs.auth /\ hs' = Return(nchan_subscriber_authorize_subscribe_request(hs))
       \/ ~hs.auth /\ \E o \in FirstRounds(hs) : hs' = Return(nchan_subscriber_subscribe(hs, o))

authorized ==
    /\ hs.at = "auth"
    /\ \E rc \in {"authorized", "3xx", "4xx", "unreachable"}, o \in FirstRounds(hs) :
          hs' = nchan_requestmachine_subrequest_handler(hs, "auth",
                    subscriber_authorize_callback([hs EXCEPT !.at = "none"], rc, o))

existence_checked ==
    /\ hs.at = "check"
    /\ \E st \in {"yes", "no"} : \E o \in Rounds(hs, st) :
          hs' = nchan_store_subscribe_channel_existence_check_callback(hs, o)

redis_answered ==
    /\ hs.at = "redis"
    /\ \E ok \in BOOLEAN : \E o \in Rounds(hs, "yes") :
          hs' = redis_subscribe_channel_existence_callback(hs, ok, o)

limit_checked ==
    /\ hs.at = "limit"
    /\ \E room \in {"yes", "none", "over"} : \E o \in Rounds(hs, "yes") :
          hs' = group_subscribe_channel_limit_check(hs, room, o)

channel_found ==
    /\ hs.at = "find"
    /\ \E exists \in BOOLEAN : \E o \in Rounds(hs, "yes") :
          /\ o = "limit" => hs.loops < MaxLoops
          /\ hs' = group_subscribe_channel_limit_reached(hs, exists, o)

accounted ==
    /\ hs.at = "accounting"
    /\ \E ready \in BOOLEAN, room \in BOOLEAN :
          hs' = group_subscribe_accounting_check(hs, ready, room)

\* The spooler's calls; it knows the subscriber from Add to its callback.
message ==
    /\ hs.at = "in" /\ hs.msgs < MaxMsgs
    /\ \E empty \in BOOLEAN :
          hs' = RespondMessage([hs EXCEPT !.msgs = @ + 1], hs.msgs + 1, empty)

status == /\ hs.at = "in"
          /\ \E c \in {"nothing", "304", "4xx"} : hs' = RespondStatus(hs, c)

nchan_subscriber_timeout_ev_handler ==
    /\ hs.timeout_ev
    /\ hs' = RespondStatus([Use(hs) EXCEPT !.timeout_ev = FALSE,
                                           !.dequeue_after_response = TRUE], "4xx")

ping_ev_handler == /\ hs.ping_ev
                   /\ hs' = Write(Use(hs))

\* The client sends data it should not, or goes away.
finalize_request_handler ==
    /\ hs.open /\ hs.holding /\ hs.ctx_sub
    /\ hs' = RespondStatus([Use(hs) EXCEPT !.dequeue_after_response = TRUE], "4xx")

client_gone == /\ hs.open /\ hs.at # "new"
               /\ hs' = ngx_http_terminate_request(hs)

subrequest_done ==
    \E what \in (hs.begun \ hs.over) \ {"auth"} :
        hs' = nchan_requestmachine_subrequest_handler(hs, what, hs)

HttpAnswers == authorized \/ existence_checked \/ redis_answered \/ limit_checked
               \/ channel_found \/ accounted

HttpNext == subscribe_request \/ HttpAnswers \/ message \/ status
            \/ nchan_subscriber_timeout_ev_handler \/ ping_ev_handler
            \/ finalize_request_handler \/ client_gone \/ subrequest_done

\* What was asked of another worker, of Redis or of an upstream is answered:
\* weak fairness of each answer, which is enabled exactly while "at" names it
\* and always moves on.
Pending == {"auth", "check", "redis", "limit", "find", "accounting"}
HttpFairness == \A p \in Pending : []<>(hs.at # p)

HttpSpec == HttpInit /\ [][HttpNext]_httpVars /\ HttpFairness

-----------------------------------------------------------------------------
\* A request is held at most twice, its counters stay in range and its cleanup
\* handler is one of the three the subscribers install.
HttpTypeOK == /\ hs.at \in {"new", "auth", "check", "redis", "limit", "find",
                            "accounting", "none", "in", "left"}
              /\ hs.reserved \in 0 .. 2 /\ hs.count \in 0 .. 2
              /\ hs.cln \in {"abort", "empty", "release"}

\* No assertion of longpoll.c fails, no freed subscriber is touched, no
\* request is finalized or written to after its end.  Two histories are
\* excepted, each from one of these.  If shared memory ran out while
\* subscribing, the handler's own return finalizes a request that the refusal
\* may have closed.  If the authorization answered a stream with a redirect,
\* the response is ended but the subscriber stays, and is answered again.
NoMisuse == hs.failed \subseteq
    (IF hs.full THEN {"request finalized after it was closed"} ELSE {})
    \cup (IF hs.redirected /\ hs.kind \in Streams THEN {"written after the end"} ELSE {})

\* The spooler is told exactly once that a subscriber it was given left.
LeavesOnce == hs.joins - hs.leaves = IF hs.at = "in" THEN 1 ELSE 0

\* The authorization request never outlives the machine it runs in: its
\* callback reads the subscriber the machine belongs to.
AuthKeepsSubscriber == hs.at = "auth" => ~hs.freed /\ Head(hs.queue) = "auth"

\* Messages collected for one longpoll response are given back when the
\* request ends, unless it ended before they could be sent.
CollectedReleased == ~hs.open /\ ~hs.cut => hs.refs = 0

\* An unsubscribe request is made only for a subscriber that was subscribed.
UnsubscribeAfterJoin == "unsub" \in hs.begun => hs.joins = 1

\* However the store, the requests it makes, its timers and its client
\* interrupt each other, a subscriber is used only while it is there, leaves
\* the spooler once, and gives back what it holds.
HttpSafe == /\ HttpTypeOK /\ NoMisuse /\ LeavesOnce /\ AuthKeepsSubscriber
            /\ CollectedReleased /\ UnsubscribeAfterJoin

\* A subscriber is freed once its request is closed, whatever it was
\* waiting for, unless the store forgot it.
EventuallyFreed == ~hs.open ~> hs.freed \/ hs.lost

\* Every subscriber asking for admission is admitted, refused or gone in the
\* end, unless a full group sends it round the limit check again.
AdmissionSettles ==
    hs.at \in Pending ~> hs.at \in {"in", "left", "none"} \/ hs.loops > 0

\* A subscriber gets through admission, and is freed after its request.
HttpEnds == EventuallyFreed /\ AdmissionSettles

\* (Documentation of nchan_authorize_request.)  A refused subscriber is
\* answered and closed.
RefusedIsClosed == hs.refused => hs.status = "DEAD"

\* (Documentation of nchan_unsubscribe_request.)  A subscriber that left is
\* followed by its unsubscribe request.
UnsubscribeSent == hs.freed /\ hs.joins = 1 /\ hs.kind \in Streams => "unsub" \in hs.begun

\* (Documentation of nchan_subscribe_request.)  The subscribe request is
\* made after subscribing.
SubscribeAfterJoin == "sub" \in hs.begun => hs.joins = 1
=============================================================================
