---------------------------- MODULE MCRedisChannel ----------------------------
(* The channel of RedisChannel in setups that each let a few things happen. *)
EXTENDS RedisChannel

RcSetup == [cluster |-> FALSE, retry |-> TRUE, sizes |-> {"small"}, published |-> 0, subs |-> 1, keepalives |-> 0,
          deletes |-> 0, faults |-> 0]

MCRcSetups1 == {[RcSetup EXCEPT !.published = 2, !.faults = 1]}
MCRcSetups2 == {[RcSetup EXCEPT !.published = 2, !.faults = 1, !.sizes = {"large"}]}
MCRcSetups3 == {[RcSetup EXCEPT !.cluster = TRUE, !.published = 1, !.faults = 1]}
MCRcSetups4 == {[RcSetup EXCEPT !.published = 1, !.subs = 2, !.keepalives = 1],
                [RcSetup EXCEPT !.subs = 2, !.deletes = 1, !.keepalives = 1]}
MCRcSetups5 == {[RcSetup EXCEPT !.keepalives = 2, !.faults = 1]}
MCRcSetups6 == {[RcSetup EXCEPT !.published = 1, !.deletes = 1, !.faults = 1]}
MCRcSetups7 == {[RcSetup EXCEPT !.cluster = TRUE, !.keepalives = 1, !.faults = 1, !.retry = r] : r \in BOOLEAN}
MCRcSetups8 == {[RcSetup EXCEPT !.subs = 2, !.keepalives = 1, !.faults = 1]}
MCRcSetups == UNION {MCRcSetups1, MCRcSetups2, MCRcSetups3, MCRcSetups4, MCRcSetups5, MCRcSetups6, MCRcSetups7,
                     MCRcSetups8}
===============================================================================
