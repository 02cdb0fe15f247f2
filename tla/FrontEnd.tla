------------------------------- MODULE FrontEnd -------------------------------
(***************************************************************************)
(* One request in the hands of the content handlers of nchan_module.c: the *)
(* publisher and subscriber location, the group location, the subscriber   *)
(* info location and the Redis statistics location.  nginx keeps a request *)
(* while its count is above zero; every hold must be given back, and the   *)
(* client gets one answer.  The rest of a subscriber's life is in          *)
(* HttpSubscriber and Websocket, the store in the other modules.           *)
(***************************************************************************)
EXTENDS Naturals, Sequences, SequencesExt, FiniteSets

CONSTANTS Requests   \* the requests that are tried: handler, method, location

Handlers == {"pubsub", "group", "info", "stats"}
Methods == {"GET", "POST", "PUT", "DELETE", "OPTIONS", "OTHER"}   \* HEAD, PATCH and the rest
SubTypes == {"eventsource", "chunked", "multipart", "poll", "raw", "longpoll"}

\* wrong is the check of the handlers that the request does not pass.
Request == [handler : Handlers, method : Methods,
            accept : {"eventsource", "chunked", "multipart", "any", "websocket"},
            pub : BOOLEAN, subs : SUBSET (SubTypes \cup {"websocket"}),
            auth : BOOLEAN, upstream : BOOLEAN, allowed : BOOLEAN,
            wrong : {"nothing", "closed", "origin", "msgid", "one limit", "two limits",
                     "redis", "buffer", "evaluation", "channel id", "accounting", "name"}]

ASSUME RequestsAssumption == \A q \in Requests : q \in Request

VARIABLE fe
feVars == <<fe>>

\* wait: what will call the module next.  pd: the safe request pointer that
\* the store has.  sent: responses begun.  stored, deleted: calls of the store.
FeNew(q) ==
    [q |-> q, wait |-> "handler", open |-> TRUE, count |-> 1, ran |-> FALSE, sent |-> 0,
     pd |-> "none", authorized |-> FALSE, decided |-> FALSE, stored |-> 0, deleted |-> 0, events |-> 0,
     sub |-> "none", gone |-> FALSE, unread |-> FALSE, denied |-> FALSE, limits |-> FALSE,
     kept |-> FALSE, raced |-> FALSE, late |-> FALSE, unhandled |-> FALSE, failed |-> {}]

fe_fail(s, what) == [s EXCEPT !.failed = @ \cup {what}]
fe_use(s) == IF s.open THEN s ELSE fe_fail(s, "request used after its end")

\* The end of the request runs its cleanups, clear_request_pointer among them.
fe_end(s) == [s EXCEPT !.open = FALSE, !.count = 0, !.pd = IF @ = "set" THEN "cleared" ELSE @,
                       !.sub = IF @ = "in" THEN "left" ELSE @]

fe_send(s) == LET t == fe_use(s)
              IN [t EXCEPT !.sent = @ + 1,
                           !.failed = IF s.sent > 0 THEN @ \cup {"answered twice"} ELSE @]

\* ngx_http_finalize_request: a status makes a special response, an error
\* ends the request, and anything else gives a hold back.
nchan_http_finalize_request(s, code) ==
    LET t == IF code = "status" THEN fe_send(s) ELSE fe_use(s)
    IN IF code = "error" \/ t.count <= 1 THEN fe_end(t) ELSE [t EXCEPT !.count = @ - 1]

nchan_respond(s, finalize) ==
    IF finalize THEN nchan_http_finalize_request(fe_send(s), "ok") ELSE fe_send(s)

\* r->main->count++
fe_hold(s) == [fe_use(s) EXCEPT !.count = @ + 1]

-----------------------------------------------------------------------------
(* Publishers.  now says whether the store answers within the call.        *)

nchan_set_safe_request_ptr(s) == [s EXCEPT !.pd = "set"]

\* The pointer is freed; what is left of it is whether the request is there.
nchan_get_safe_request_ptr(s) == [s EXCEPT !.pd = "freed", !.wait = "none"]

nchan_maybe_send_channel_event_message(s) == [fe_use(s) EXCEPT !.events = @ + 1]

\* The answer is begun; the caller finalizes with what this returns.
nchan_response_channel_ptr_info(s) == fe_send(s)

\* Fault: the text of a refusal is sent without the end of the request.
publish_callback_kept(s, status) ==
    LET t == nchan_get_safe_request_ptr(s)
    IN CASE s.pd = "cleared" -> t
         [] s.pd # "cleared" /\ status = "forbidden" -> nchan_respond(t, FALSE)
         [] OTHER -> nchan_http_finalize_request(t, "status")

publish_callback(s, status) ==
    LET t == nchan_get_safe_request_ptr(s)
    IN CASE s.pd = "cleared" -> t
         [] s.pd # "cleared" /\ status \in {"queued", "received"} ->
              nchan_http_finalize_request(
                  nchan_response_channel_ptr_info(nchan_maybe_send_channel_event_message(t)), "ok")
         [] s.pd # "cleared" /\ status = "forbidden" -> nchan_respond(t, TRUE)
         [] OTHER -> nchan_http_finalize_request(t, "status")

channel_info_callback(s, status) ==
    LET t == nchan_get_safe_request_ptr(s)
    IN CASE s.pd = "cleared" -> t
         [] s.pd # "cleared" /\ status = "error" -> nchan_http_finalize_request(t, "status")
         [] OTHER -> nchan_http_finalize_request(nchan_response_channel_ptr_info(t), "ok")

\* The callback that the store was given: of a publication, or of find_channel
\* or delete_channel.  now is the status with which the store answers at once,
\* "later" if it does not.
Publishing == {"POST", "PUT"}
StoreAnswer(s, status) ==
    IF s.q.method \in Publishing THEN publish_callback(s, status) ELSE channel_info_callback(s, status)
Stores(s, now) == LET t == [s EXCEPT !.wait = "store"]
                  IN IF now = "later" THEN t ELSE StoreAnswer(t, now)

nchan_publisher_post_request(s, now) ==
    Stores([nchan_set_safe_request_ptr(s) EXCEPT !.stored = @ + 1], now)

\* Fault: the answer 204 is taken like the other successes.
nchan_publisher_upstream_handler_any(s, rc, code, now) ==
    IF rc = "ok" /\ code \in {200, 201, 202, 204, 304}
    THEN nchan_publisher_post_request([s EXCEPT !.decided = code # 204], now)
    ELSE nchan_http_finalize_request(s, "status")

\* 200, 201, 202: the upstream's body is published; 304: the request's own.
nchan_publisher_upstream_handler(s, rc, code, now) ==
    IF rc = "ok" /\ code \in {200, 201, 202, 304}
    THEN nchan_publisher_post_request([s EXCEPT !.decided = TRUE], now)
    ELSE nchan_http_finalize_request(s, "status")

\* A subrequest holds the request until its handler has returned.
fe_subrequest(s, wait) == [fe_hold(s) EXCEPT !.wait = wait]
fe_subrequest_done(s) == IF s.open THEN nchan_http_finalize_request(s, "done") ELSE s

nchan_publisher_body_handler_continued(s, now) ==
    CASE s.q.method = "GET" -> Stores(nchan_set_safe_request_ptr(s), now)
      [] s.q.method \in Publishing /\ ~s.q.upstream -> nchan_publisher_post_request(s, now)
      [] s.q.method \in Publishing /\ s.q.upstream -> fe_subrequest(s, "upstream")
      [] s.q.method = "DELETE" ->
           \* the event is sent after the store was called, which may have
           \* answered and given back the last hold of the request
           LET t == Stores([nchan_set_safe_request_ptr(s) EXCEPT !.deleted = @ + 1], now)
           IN nchan_maybe_send_channel_event_message([t EXCEPT !.late = ~t.open])
      [] OTHER -> nchan_respond(s, FALSE)

nchan_publisher_body_authorize_handler(s, rc, code, now) ==
    IF rc = "ok" /\ code >= 200 /\ code < 299
    THEN nchan_publisher_body_handler_continued([s EXCEPT !.authorized = TRUE], now)
    ELSE nchan_http_finalize_request(s, "status")

\* nchan_get_channel_id has answered when it returns NULL.
nchan_publisher_body_handler(s, now) ==
    CASE s.q.wrong = "channel id" -> nchan_http_finalize_request(fe_send(s), "ok")
      [] s.q.wrong # "channel id" /\ s.q.auth -> fe_subrequest(s, "auth")
      [] OTHER -> nchan_publisher_body_handler_continued(s, now)

nchan_publisher_unavailable_body_handler(s) == nchan_http_finalize_request(s, "status")

fe_body(s, now) == LET t == [s EXCEPT !.wait = "none"]
                   IN IF s.q.wrong = "redis" THEN nchan_publisher_unavailable_body_handler(t)
                      ELSE nchan_publisher_body_handler(t, now)

\* ngx_http_read_client_request_body holds the request; the body is there at
\* once or later, or cannot be read, and that result is not looked at.
nchan_http_publisher_handler(s, body, now) ==
    CASE body = "now" -> fe_body(fe_hold(s), now)
      [] body = "later" -> [fe_hold(s) EXCEPT !.wait = "body"]
      [] body = "error" -> [s EXCEPT !.wait = "none", !.unread = TRUE]

-----------------------------------------------------------------------------
(* The handlers of the locations.                                          *)

\* The first type, in the order of the code, that the location has and that
\* the request asks for, if the type must be asked for.
SubOrder == <<"eventsource", "chunked", "multipart", "poll", "raw", "longpoll">>
sub_create(q) ==
    LET fit == SelectSeq(SubOrder, LAMBDA t : t \in q.subs
                                       /\ (t \in {"poll", "raw", "longpoll"} \/ q.accept = t))
    IN IF fit = <<>> THEN "none" ELSE Head(fit)

\* The subscriber holds the request from here on.
fe_subscribe(s) == [fe_hold(s) EXCEPT !.sub = "in", !.wait = "subscriber"]

nchan_websocket_request(s) ==
    CASE "websocket" \in s.q.subs /\ s.q.wrong = "channel id" -> [s |-> fe_send(s), rc |-> "ok"]
      [] "websocket" \in s.q.subs /\ s.q.wrong # "channel id" -> [s |-> fe_subscribe(s), rc |-> "done"]
      [] "websocket" \notin s.q.subs /\ s.q.pub -> [s |-> fe_subscribe(s), rc |-> "done"]
      [] OTHER -> [s |-> fe_send(s), rc |-> "ok"]

\* The method is in no case of the handler's switch: nothing is answered, and
\* what is returned gives back the request.
fe_unhandled(s) == [s |-> [s EXCEPT !.unhandled = TRUE], rc |-> "done"]

nchan_http_request(s, body, now) ==
    CASE s.q.method = "GET" /\ sub_create(s.q) # "none" ->
           IF s.q.wrong = "channel id" THEN [s |-> fe_send(s), rc |-> "ok"]
           ELSE [s |-> fe_subscribe(s), rc |-> "done"]
      [] s.q.method \notin {"OPTIONS", "OTHER"} /\ (s.q.method # "GET" \/ sub_create(s.q) = "none") /\ s.q.pub ->
           [s |-> nchan_http_publisher_handler(s, body, now), rc |-> "done"]
      [] s.q.method = "OPTIONS"
         /\ (s.q.pub \/ s.q.subs \cap {"poll", "longpoll", "eventsource", "websocket"} # {}) ->
           [s |-> fe_send(s), rc |-> "done"]
      [] s.q.method = "OTHER" -> fe_unhandled(s)
      [] OTHER -> [s |-> fe_send(s), rc |-> "ok"]

\* Each limit that cannot be read is answered where it is found.
set_group_num_limit(s) == [fe_send(s) EXCEPT !.limits = s.sent > 0 \/ @]
parse_group_limits(s) ==
    CASE s.q.wrong = "one limit" -> set_group_num_limit(s)
      [] s.q.wrong = "two limits" -> set_group_num_limit(set_group_num_limit(s))
      [] OTHER -> s

nchan_parse_message_buffer_config(q) == q.pub /\ q.wrong \in {"buffer", "evaluation"}

nchan_pubsub_handler(s, body, now) ==
    CASE s.q.wrong = "closed" -> [s |-> nchan_http_finalize_request([s EXCEPT !.gone = TRUE], "error"),
                                  rc |-> "gone"]
      [] s.q.wrong \in {"origin", "msgid"} -> [s |-> fe_send(s), rc |-> "ok"]
      [] s.q.wrong \in {"one limit", "two limits"} -> [s |-> parse_group_limits(s), rc |-> "ok"]
      [] s.q.wrong = "redis" ->
           [s |-> IF s.q.method \in Publishing THEN nchan_http_publisher_handler(s, body, now) ELSE fe_send(s),
            rc |-> "ok"]
      [] nchan_parse_message_buffer_config(s.q) -> [s |-> fe_send(s), rc |-> "ok"]
      [] OTHER -> IF s.q.accept = "websocket" THEN nchan_websocket_request(s)
                  ELSE nchan_http_request(s, body, now)

\* While the content handler runs the hold is given back without an end.
group_handler_callback(s) ==
    LET t == [s EXCEPT !.wait = "none"]
    IN IF ~s.ran THEN fe_send([t EXCEPT !.count = @ - 1])
       ELSE nchan_http_finalize_request(fe_send(t), "ok")

nchan_group_operation(s, now) ==
    IF now # "later" THEN group_handler_callback(fe_hold(s)) ELSE [fe_hold(s) EXCEPT !.wait = "group"]

\* An operation that the location does not allow is answered and then goes on.
nchan_group_handler(s, now) ==
    LET r == IF s.q.allowed THEN [s |-> s, rc |-> "done"]
             ELSE [s |-> [fe_send(s) EXCEPT !.denied = TRUE], rc |-> "ok"]
        t == IF s.q.method = "POST" THEN parse_group_limits(r.s) ELSE r.s
    IN CASE s.q.wrong = "closed" -> [s |-> nchan_http_finalize_request([s EXCEPT !.gone = TRUE], "error"),
                                     rc |-> "gone"]
         [] s.q.wrong \in {"accounting", "name"} -> [s |-> fe_send(s), rc |-> "ok"]
         [] s.q.wrong \notin {"closed", "accounting", "name"} /\ s.q.method = "OPTIONS" ->
              [s |-> fe_send(s), rc |-> "ok"]
         [] s.q.wrong \in {"one limit", "two limits"} /\ s.q.method = "POST" -> [s |-> t, rc |-> "ok"]
         [] s.q.wrong \notin {"closed", "accounting", "name"} /\ s.q.method \in {"PUT", "OTHER"} ->
              fe_unhandled(s)
         [] OTHER -> [s |-> nchan_group_operation(t, now), rc |-> r.rc]

\* The id never comes within the call.  This hold is given back by nobody:
\* the subscriber that follows takes and gives back one of its own.
nchan_subscriber_info_handler(s) ==
    CASE s.q.wrong = "closed" -> [s |-> nchan_http_finalize_request([s EXCEPT !.gone = TRUE], "error"),
                                  rc |-> "gone"]
      [] s.q.wrong \in {"origin", "redis"} -> [s |-> fe_send(s), rc |-> "ok"]
      [] OTHER -> [s |-> [fe_hold(s) EXCEPT !.wait = "id", !.kept = TRUE], rc |-> "done"]

nchan_subscriber_info_handler_continued(s, rc) ==
    LET refused == \/ rc = "error" \/ s.q.method # "GET" \/ s.q.wrong \in {"channel id", "msgid"}
                   \/ IF s.q.accept = "websocket" THEN "websocket" \notin s.q.subs
                      ELSE sub_create(s.q) = "none"
    IN IF refused THEN [fe_send(s) EXCEPT !.wait = "none"]
       ELSE [fe_hold(s) EXCEPT !.sub = "in", !.wait = "timer"]

\* The timer has a bare pointer to the subscriber.
really_publish_info_request(s) ==
    LET t == IF s.sub = "in" THEN s ELSE [fe_fail(s, "subscriber used after it left") EXCEPT !.raced = TRUE]
    IN [fe_use(t) EXCEPT !.stored = @ + 1, !.wait = "subscriber"]

redis_stats_callback(s) == nchan_respond([s EXCEPT !.wait = "none"], TRUE)

nchan_redis_stats_handler(s) ==
    CASE s.q.wrong = "evaluation" -> [s |-> s, rc |-> "status"]
      [] s.q.wrong = "name" -> [s |-> fe_send(s), rc |-> "ok"]
      [] OTHER -> [s |-> [fe_hold(s) EXCEPT !.wait = "stats"], rc |-> "done"]

\* nginx finalizes the request with what the content handler returned.
fe_returned(r) ==
    IF r.rc = "gone" THEN r.s
    ELSE nchan_http_finalize_request([r.s EXCEPT !.ran = TRUE], r.rc)

-----------------------------------------------------------------------------
FeInit == \E q \in Requests : fe = FeNew(q)

Nows == {"later", "queued", "received", "forbidden", "error"}

content_handler ==
    /\ fe.wait = "handler"
    /\ LET s == [fe EXCEPT !.wait = "none"]
       IN \/ /\ fe.q.handler = "pubsub"
             /\ \E body \in {"now", "later", "error"}, now \in Nows :
                    fe' = fe_returned(nchan_pubsub_handler(s, body, now))
          \/ /\ fe.q.handler = "group"
             /\ \E now \in {"later", "queued"} : fe' = fe_returned(nchan_group_handler(s, now))
          \/ fe.q.handler = "info" /\ fe' = fe_returned(nchan_subscriber_info_handler(s))
          \/ fe.q.handler = "stats" /\ fe' = fe_returned(nchan_redis_stats_handler(s))

body_arrives == fe.wait = "body" /\ fe.open /\ \E now \in Nows : fe' = fe_body(fe, now)

FeCodes == {200, 204, 299, 304, 403}
auth_answers ==
    /\ fe.wait = "auth" /\ fe.open
    /\ \E rc \in {"ok", "error"}, code \in FeCodes, now \in Nows :
           fe' = fe_subrequest_done(nchan_publisher_body_authorize_handler([fe EXCEPT !.wait = "none"], rc, code, now))
upstream_decides ==
    /\ fe.wait = "upstream" /\ fe.open
    /\ \E rc \in {"ok", "error"}, code \in FeCodes, now \in Nows :
           fe' = fe_subrequest_done(nchan_publisher_upstream_handler([fe EXCEPT !.wait = "none"], rc, code, now))

fe_store_answers == fe.wait = "store" /\ \E status \in Nows \ {"later"} : fe' = StoreAnswer(fe, status)
group_answers == fe.wait = "group" /\ fe' = group_handler_callback(fe)
stats_answer == fe.wait = "stats" /\ fe' = redis_stats_callback(fe)
id_comes == /\ fe.wait = "id"
            /\ \E rc \in {"ok", "error"} : fe' = nchan_subscriber_info_handler_continued(fe, rc)
timer_fires == fe.wait = "timer" /\ fe' = really_publish_info_request(fe)

\* The subscriber answers the client and leaves (see HttpSubscriber).
subscriber_leaves == /\ fe.sub = "in"
                     /\ fe' = [nchan_respond(fe, TRUE) EXCEPT !.sub = "left"]

\* nginx gives a request up while a publisher waits for a subrequest or the store.
client_goes == /\ fe.open /\ fe.wait \in {"body", "auth", "upstream", "store"}
               /\ fe' = fe_end([fe EXCEPT !.gone = TRUE, !.wait = IF @ = "store" THEN @ ELSE "none"])

FeProgress == \/ content_handler \/ body_arrives \/ auth_answers \/ upstream_decides \/ fe_store_answers
              \/ group_answers \/ stats_answer \/ id_comes \/ timer_fires
FeNext == fe.failed = {} /\ (FeProgress \/ subscriber_leaves \/ client_goes)
\* What a request waits for comes, and a subscriber leaves at last.
FeFairness == /\ []<>(fe.failed # {} \/ fe.wait \in {"none", "subscriber"})
              /\ []<>(fe.failed # {} \/ fe.sub # "in")
FeSpec == FeInit /\ [][FeNext]_feVars /\ FeFairness

-----------------------------------------------------------------------------
\* The request is open as long as it is counted, and the parts of its state
\* have their types.
FeTypeOK == /\ fe.count \in 0 .. 3 /\ fe.sent \in 0 .. 3
            /\ fe.pd \in {"none", "set", "cleared", "freed"}
            /\ fe.sub \in {"none", "in", "left"}
            /\ fe.open = (fe.count > 0)

\* No callback of the store, of a subrequest, of another process or of a
\* timer uses a request that has ended, and none is answered twice: except
\* for a group operation that is not allowed, for two bad limits, for a
\* subscriber that left before the timer of its info request, and for a
\* DELETE that the store answered at once when only the body held the
\* request, whose event is then sent for a request that has ended.
FeNoMisuse == fe.failed = {} \/ fe.denied \/ fe.limits \/ fe.raced \/ (fe.late /\ ~fe.q.auth)

\* What an authorization has not allowed, or what the upstream did not ask
\* for, is never published or deleted; nothing is published twice.
PublishAsDecided ==
    /\ fe.stored + fe.deleted <= 1
    /\ fe.q.handler = "pubsub" /\ fe.stored + fe.deleted > 0 =>
           /\ fe.q.auth => fe.authorized
           /\ fe.q.upstream /\ fe.stored > 0 => fe.decided

\* A request that ended was answered, once, unless nginx gave it up, its body
\* could not be read, or its method is one that the location does not know.
EndsAnswered == ~fe.open => \/ fe.sent = 1 \/ fe.gone \/ fe.unread \/ fe.unhandled
                            \/ fe.denied \/ fe.limits

\* Whatever answers first, and whether or not the client waits for it, a
\* request is used only while nginx has it, is answered once, and publishes
\* only what was decided.
FeSafe == FeTypeOK /\ FeNoMisuse /\ PublishAsDecided /\ EndsAnswered

\* Every request ends, and the pointer that the store was given is freed:
\* but for the subscriber info location, whose hold is never given back.
RequestEnds == <>(\/ ~fe.open /\ fe.pd \in {"none", "freed"}
                  \/ fe.kept \/ fe.failed # {})
=============================================================================
