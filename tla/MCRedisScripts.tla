--------------------------- MODULE MCRedisScripts ---------------------------
(* The scripts of RedisScripts in setups that each let a few things happen. *)
EXTENDS RedisScripts

Nothing == [publishes |-> 0, deletes |-> 0, finds |-> 0, reads |-> 0, registers |-> 0, joins |-> 0,
            crashes |-> 0, backs |-> 0, losses |-> 0]

RsSetup == [left |-> Nothing, ttls |-> {2}, lengths |-> {2}, accurate |-> FALSE]

\* A reader follows messages of different timeouts, of different buffer lengths, and in an unlimited buffer.
MCReading == {[RsSetup EXCEPT !.left.publishes = 4, !.left.reads = 3, !.ttls = {1, 3}],
              [RsSetup EXCEPT !.left.publishes = 3, !.left.reads = 3, !.left.finds = 1, !.lengths = {0, 1, 2}],
              [RsSetup EXCEPT !.left.publishes = 3, !.left.reads = 2, !.left.finds = 1, !.ttls = {0, 1}, !.lengths = {-1}]}
\* Deletions and failovers under a reader.
MCDeleting == {[RsSetup EXCEPT !.left.publishes = 4, !.left.reads = 2, !.left.deletes = 1, !.left.backs = 1],
               [RsSetup EXCEPT !.left.publishes = 3, !.left.deletes = 1, !.left.backs = 1, !.ttls = {1}, !.lengths = {0, 2}]}
\* Two workers register, renew at intervals of their own and leave while messages come and go.
MCRegistering == {[RsSetup EXCEPT !.left.publishes = 2, !.left.registers = 2, !.left.crashes = 1],
                  [RsSetup EXCEPT !.left.registers = 3, !.left.losses = 1],
                  [RsSetup EXCEPT !.left.publishes = 1, !.left.registers = 2, !.left.deletes = 1, !.ttls = {1, 4},
                                  !.lengths = {1}]}
\* Subscribers come and go on two workers, one of which may die, and changes are dropped.
MCCounting == {[RsSetup EXCEPT !.left.joins = 3, !.left.deletes = 1, !.left.crashes = 1, !.accurate = TRUE],
               [RsSetup EXCEPT !.left.joins = 3, !.left.publishes = 1, !.left.losses = 1, !.accurate = TRUE],
               [RsSetup EXCEPT !.left.joins = 2, !.left.registers = 1, !.left.finds = 1]}

MCRsSetups == UNION {MCReading, MCDeleting, MCRegistering, MCCounting}
MCIdleTtl == [min |-> 2, multiplier |-> 50, jitter |-> 100, max |-> 3]
MCChannelTimeouts == {-1, 0, 1}
=============================================================================
