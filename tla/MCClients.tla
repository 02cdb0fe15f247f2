------------------------------ MODULE MCClients ------------------------------
(***************************************************************************)
(* Small instances of what serves clients, of which a behaviour takes one  *)
(* (part): "http" HttpSubscriber, "websocket" Websocket, "frames"          *)
(* WsFrames, "front" FrontEnd; and of two utilities, "rwlock" RwLock and   *)
(* "cmp" MsgPack.  The other parts stand still.                            *)
(***************************************************************************)
EXTENDS HttpSubscriber, Websocket, WsFrames, FrontEnd, RwLock, MCMsgPack

VARIABLE part

\* What a client asks of the permessage-deflate extension.
MCOffers ==
    {NoOffer, [NoOffer EXCEPT !.version = 8], [NoOffer EXCEPT !.key = FALSE]}
    \cup [ext : {"message", "frame"}, version : {13}, key : {TRUE},
          client : {UNSET, 8, 9, 12, 15}, server : {UNSET, 9, 12, 15}]

\* Frames with every length of size field, with and without a mask and a payload.
MCFrames == {[control |-> FALSE, ext |-> 0, mask |-> TRUE, len |-> 2],
             [control |-> FALSE, ext |-> 2, mask |-> FALSE, len |-> 3],
             [control |-> FALSE, ext |-> 8, mask |-> TRUE, len |-> 1],
             [control |-> FALSE, ext |-> 0, mask |-> TRUE, len |-> 0],
             [control |-> TRUE, ext |-> 0, mask |-> TRUE, len |-> 2],
             [control |-> TRUE, ext |-> 0, mask |-> FALSE, len |-> 0]}

\* Requests to the four content handlers, each with at most one thing wrong.
Plain == [handler |-> "pubsub", method |-> "GET", accept |-> "any", pub |-> TRUE, subs |-> {},
          auth |-> FALSE, upstream |-> FALSE, allowed |-> TRUE, wrong |-> "nothing"]
Wrongs == {"nothing", "closed", "origin", "msgid", "one limit", "two limits", "redis", "buffer",
           "evaluation", "channel id"}
MCRequests ==
    {[Plain EXCEPT !.method = m, !.auth = a, !.upstream = u] :
        m \in {"GET", "POST", "PUT", "DELETE"}, a \in BOOLEAN, u \in BOOLEAN}
    \cup {[Plain EXCEPT !.method = m, !.accept = c, !.wrong = w, !.pub = p, !.subs = t] :
        m \in Methods, c \in {"any", "eventsource", "websocket"}, w \in Wrongs,
        p \in BOOLEAN, t \in {{}, {"eventsource", "longpoll"}, {"websocket"}}}
    \cup {[Plain EXCEPT !.handler = "group", !.method = m, !.allowed = a, !.wrong = w] :
        m \in Methods, a \in BOOLEAN,
        w \in {"nothing", "closed", "one limit", "two limits", "accounting", "name"}}
    \cup {[Plain EXCEPT !.handler = "info", !.method = m, !.subs = t, !.accept = c, !.wrong = w] :
        m \in {"GET", "POST"}, t \in {{"longpoll"}, {"websocket"}}, c \in {"any", "websocket"},
        w \in {"nothing", "closed", "origin", "redis", "msgid", "channel id"}}
    \cup {[Plain EXCEPT !.handler = "stats", !.wrong = w] : w \in {"nothing", "evaluation", "name"}}

-----------------------------------------------------------------------------
MCInit ==
    /\ part \in {"http", "websocket", "frames", "front", "rwlock", "cmp"}
    /\ IF part = "http" THEN HttpInit ELSE hs = NewSub("longpoll", FALSE, "none", FALSE)
    /\ IF part = "websocket" THEN WsInit ELSE ws = websocket_subscriber_create("sub", NoOffer, FALSE)
    /\ IF part = "frames" THEN FramesInit ELSE rd = websocket_init_frame(<<>>)
    /\ IF part = "front" THEN FeInit ELSE fe = fe_end([FeNew(Plain) EXCEPT !.wait = "none", !.sent = 1])
    /\ ngx_rwlock_init
    /\ IF part = "cmp" THEN cmp_init
       ELSE mp = [calls |-> <<>>, done |-> 0, ctx |-> Sink(0), msg |-> <<>>, reader |-> NoCall, result |-> <<>>]

MCNext ==
    /\ UNCHANGED part
    /\ IF part = "http" THEN HttpNext ELSE UNCHANGED httpVars
    /\ IF part = "websocket" THEN WsNext ELSE UNCHANGED wsVars
    /\ IF part = "frames" THEN FramesNext ELSE UNCHANGED rdVars
    /\ IF part = "front" THEN FeNext ELSE UNCHANGED feVars
    /\ IF part = "rwlock" THEN RwNext ELSE UNCHANGED rwVars
    /\ IF part = "cmp" THEN CmpNext ELSE UNCHANGED mpVars

(* The fairness of the parts.  A part that does not run is in a state in which
   nothing is owed: no frame is on the way, the request is over, the others
   have not begun. *)
MCFairness == HttpFairness /\ WsFairness /\ FramesFairness /\ FeFairness

MCSpec ==
    MCInit /\ [][MCNext]_<<part, httpVars, wsVars, rdVars, feVars, rwVars, mpVars>> /\ MCFairness
==============================================================================
