------------------------------- MODULE MCNodeset -------------------------------
(* Small sets of Redis servers for Nodeset. *)
EXTENDS Nodeset

CONSTANTS n1, n2, n3

server(role, of, slots, run) ==
    [net |-> "up", role |-> role, of |-> of, slots |-> slots, failed |-> FALSE, run |-> run]
absent(n) == [net |-> "gone", role |-> "master", of |-> None, slots |-> {}, failed |-> FALSE, run |-> n]

MCNodes == {n1, n2, n3}

\* No role is forced.
Free == [n \in MCNodes |-> "none"]

\* One server, with everything the connector may do.
Alone == [urls |-> <<n1>>, cluster |-> FALSE, auth |-> TRUE, db |-> TRUE, scripts |-> 1, forced |-> Free,
          srv |-> n1 :> server("master", None, {}, n1) @@ n2 :> absent(n2) @@ n3 :> absent(n3)]

\* A server and its replica, of which one or both are configured.
Pair(urls) == [urls |-> urls, cluster |-> FALSE, auth |-> FALSE, db |-> FALSE, scripts |-> 0, forced |-> Free,
               srv |-> n1 :> server("master", None, {}, n1) @@ n2 :> server("slave", n1, {}, n2)
                       @@ n3 :> absent(n3)]

\* One server by two names.
Twice == [urls |-> <<n1, n2>>, cluster |-> FALSE, auth |-> FALSE, db |-> FALSE, scripts |-> 0, forced |-> Free,
          srv |-> n1 :> server("master", None, {}, n1) @@ n2 :> server("master", None, {}, n1)
                  @@ n3 :> absent(n3)]

\* A cluster of two masters, the first with a replica.
Cluster == [urls |-> <<n1>>, cluster |-> TRUE, auth |-> FALSE, db |-> FALSE, scripts |-> 0, forced |-> Free,
            srv |-> n1 :> server("master", None, {1}, n1) @@ n2 :> server("slave", n1, {}, n2)
                    @@ n3 :> server("master", None, {2}, n3)]

\* The replica alone, to be taken for a master; and one that is discovered,
\* with a role that nobody set.
Forced == [Pair(<<n2>>) EXCEPT !.forced[n2] = "master"]
UnsetSlave == [Pair(<<n1>>) EXCEPT !.forced[n2] = "master"]
UnsetMaster == [Pair(<<n2>>) EXCEPT !.forced[n1] = "slave"]

MCSetups == {Alone, Pair(<<n1>>), Pair(<<n2>>), Pair(<<n1, n2>>), Twice, Cluster,
             Forced, UnsetSlave, UnsetMaster}
================================================================================
