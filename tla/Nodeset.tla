-------------------------------- MODULE Nodeset --------------------------------
(***************************************************************************)
(* A worker's connections to its Redis servers (redis_nodeset.c): the      *)
(* connector of every node, the roles and peers it learns, the keyslots of *)
(* a cluster, the status of the set, the cluster check and the recovery of *)
(* a failing cluster.  Every handler is a function of the record ns; the   *)
(* servers are the environment.  The channels of the nodes are in          *)
(* RedisChannel; timeouts of single commands are left out.                 *)
(***************************************************************************)
EXTENDS Integers, Sequences, SequencesExt, FiniteSets

CONSTANTS Nodes,      \* addresses of servers
          Slots,      \* keyslots of a cluster
          Setups,     \* configurations and first states of the servers
          MaxFaults,  \* faults of the servers and the network in a behaviour
          None

\* redis_nodeset.h: the states of a node, in the order the connector goes.
CONNECTION_TIMED_OUT == -2
NODE_FAILED == -1
NODE_DISCONNECTED == 0
CMD_CONNECTING == 1
PUBSUB_CONNECTING == 2
CMD_CHECKED == 4
PUBSUB_CHECKED == 6
CMD_AUTHENTICATING == 8
PUBSUB_AUTHENTICATING == 9
CMD_SELECTING_DB == 11
PUBSUB_SELECTING_DB == 12
SCRIPTS_LOADED_CHECK == 14
SCRIPTS_LOADING == 15
GETTING_INFO == 17
PUBSUB_GETTING_INFO == 19
SUBSCRIBING_WORKER == 21
GET_CLUSTERINFO == 22
GETTING_CLUSTERINFO == 23
GETTING_SHARDED_PUBSUB_SUPPORT == 25
GETTING_CLUSTER_NODES == 27
NODE_READY == 100

Statuses == {"failed", "cluster failing", "failing", "invalid", "disconnected", "connecting", "ready"}
Roles == {"unknown", "master", "slave"}

\* net: a server answers, refuses connections, or its name has no address.
\* run tells servers apart, whatever their address.
Server == [net : {"up", "down", "gone"}, role : {"master", "slave"}, of : Nodes \cup {None},
           slots : SUBSET Slots, failed : BOOLEAN, run : Nodes]

\* forced_role: the role that the URL of a node names.  In the parameters of a
\* node that was discovered nothing sets it: it is what the memory held.
ForcedRoles == {"none", "master", "slave"}

ASSUME SetupsAssumption ==
    /\ None \notin Nodes
    /\ \A c \in Setups : /\ c.urls \in Seq(Nodes) \ {<<>>}
                         /\ \A n \in Nodes : c.srv[n] \in Server /\ c.forced[n] \in ForcedRoles
    /\ MaxFaults \in Nat

VARIABLES ns, srv, epoch, conf, faults
nodesetVars == <<ns, srv, epoch, conf, faults>>

\* pend: the context with the connector's command or connection attempt.
\* find, check: an INFO REPLICATION, a cluster check under way on the node.
NewNode == [state |-> NODE_DISCONNECTED, role |-> "unknown", connecting |-> FALSE,
            cmd |-> FALSE, pubsub |-> FALSE, pend |-> "none", timer |-> FALSE, missing |-> 0,
            run |-> None, cluster |-> FALSE, known |-> FALSE, master_id |-> None,
            master |-> None, slaves |-> {}, slots |-> {}, find |-> FALSE, check |-> FALSE]

\* list: the nodes, in the order they were added.  pick: the draw of ngx_random in this step.
NewNodeset == [status |-> "disconnected", list |-> <<>>, node |-> [n \in Nodes |-> NewNode],
               cluster |-> FALSE, recovering |-> None, checktimer |-> FALSE, epoch |-> 0,
               pick |-> None, strange |-> FALSE, failed |-> {}]

here(s) == ToSet(s.list)

\* The loops over the list of nodes.
EachNode(step(_, _), s) == FoldLeft(step, s, s.list)

nodeset_fail(s, what) == [s EXCEPT !.failed = @ \cup {what}]

\* The peers: a slave knows its master, and a master lists its slaves.
node_remove_peer(s, n, peer) ==
    [s EXCEPT !.node[n].master = IF @ = peer THEN None ELSE @, !.node[n].slaves = @ \ {peer}]

leave_master(s, n) ==
    LET m == s.node[n].master
    IN IF m = None THEN s ELSE [node_remove_peer(s, m, n) EXCEPT !.node[n].master = None]

leave_slaves(s, n) ==
    [FoldSet(LAMBDA c, acc : node_remove_peer(acc, c, n), s, s.node[n].slaves) EXCEPT !.node[n].slaves = {}]

node_set_role(s, n, role) ==
    LET t == [s EXCEPT !.node[n].role = role]
    IN CASE s.node[n].role = role -> s
         [] s.node[n].role # role /\ role = "unknown" -> leave_slaves(leave_master(t, n), n)
         [] s.node[n].role # role /\ role = "master" -> leave_master(t, n)
         [] s.node[n].role # role /\ role = "slave" -> t

\* node_remove_slave_node takes a node that is not in the list out of the
\* list, and with it frees the list element that holds the node itself.
node_remove_slave_node(s, m, slave) ==
    IF slave \in s.node[m].slaves THEN s ELSE nodeset_fail(s, "a node in use freed")

node_set_master_slave_relationship(s, m, slave) ==
    LET old == s.node[slave].master
        t == IF old # None /\ old # m THEN node_remove_slave_node(s, m, slave) ELSE s
    IN [t EXCEPT !.node[slave].master = m, !.node[m].slaves = @ \cup {slave}]

node_unset_cluster_slots(s, n) == [s EXCEPT !.node[n].slots = {}]

\* Fault: the slots of other nodes are not looked up.
slots_conflict_never(s, n, slots) == FALSE

\* Slots that another node has in the tree are refused.
slots_conflict(s, n, slots) ==
    \E m \in here(s) \ {n} : s.node[m].slots \cap slots # {}

node_set_cluster_slots(s, n, slots) ==
    [s EXCEPT !.node[n].slots = IF slots_conflict(s, n, slots) THEN {} ELSE slots]

\* Fault: a gap after the last keyslot range is not seen.
keyslot_space_begun(s, min) ==
    \E x \in Slots : \E n \in here(s) : x \in s.node[n].slots /\ s.node[n].state >= min

nodeset_cluster_keyslot_space_complete(s, min) ==
    \A x \in Slots : \E n \in here(s) : /\ x \in s.node[n].slots
                                       /\ s.node[n].state >= min
                                       /\ s.node[n].role = "master"

reset_cluster_node(s, n) ==
    IF ~s.node[n].cluster THEN s
    ELSE [node_set_role(node_unset_cluster_slots(s, n), n, "unknown")
             EXCEPT !.node[n].master_id = None,
                    !.node[n].state = IF @ > GET_CLUSTERINFO THEN GET_CLUSTERINFO ELSE @]

nodeset_reset_cluster_node_info(s) == EachNode(reset_cluster_node, s)

nodeset_random_node(s, min) ==
    LET fit == {n \in here(s) : s.node[n].state >= min}
    IN IF fit = {} THEN None ELSE IF s.pick \in fit THEN s.pick ELSE CHOOSE n \in fit : TRUE

\* nodeset_recover_cluster_handler's way out: the delay is a timing choice.
recovery_failed(s) == nodeset_reset_cluster_node_info([s EXCEPT !.recovering = None])

\* node_disconnect when the connector waits for nothing.  Freeing the command
\* context answers what is outstanding on it with no reply.
disconnect_idle(s, n, state) ==
    LET closed == [s EXCEPT !.node[n].state = state, !.node[n].connecting = FALSE, !.node[n].timer = FALSE,
                            !.node[n].cmd = FALSE, !.node[n].pubsub = FALSE, !.node[n].pend = "none",
                            !.node[n].find = FALSE, !.node[n].check = FALSE, !.node[n].missing = 0,
                            !.node[n].slots = IF s.node[n].cluster THEN {} ELSE @]
    IN IF s.recovering = n /\ s.node[n].cmd THEN recovery_failed(closed) ELSE closed

\* node_connect_context gives nothing when the server's name has no address.
start_connecting(s, n) ==
    LET t == IF s.node[n].timer THEN nodeset_fail(s, "connect timeout already set") ELSE s
    IN IF srv[n].net = "gone" THEN disconnect_idle(t, n, NODE_FAILED)
       ELSE [t EXCEPT !.node[n].cmd = TRUE, !.node[n].timer = TRUE, !.node[n].pend = "cmd",
                      !.node[n].state = CMD_CONNECTING]

\* A context that is freed runs the callback of the connector's command, with
\* no reply, in the state node_disconnect has just set.
command_pending(s, n) ==
    s.node[n].pend \in {"cmd", "pubsub"} /\ s.node[n].state > PUBSUB_CONNECTING

freed_callback(s, n, state) ==
    IF state = CONNECTION_TIMED_OUT THEN disconnect_idle(s, n, NODE_FAILED) ELSE start_connecting(s, n)

node_disconnect(s, n, state) ==
    IF command_pending(s, n) THEN freed_callback(disconnect_idle(s, n, state), n, state)
    ELSE disconnect_idle(s, n, state)

\* node_disconnect, of a node whose connector waits for nothing any more.
node_connector_fail(s, n) == disconnect_idle([s EXCEPT !.node[n].pend = "none"], n, NODE_FAILED)

node_connect(s, n) ==
    LET t == [s EXCEPT !.node[n].connecting = TRUE]
    IN IF s.node[n].state > NODE_DISCONNECTED THEN nodeset_fail(s, "node_connect of a connecting node")
       ELSE IF s.node[n].state = CONNECTION_TIMED_OUT THEN node_connector_fail(t, n)
       ELSE start_connecting(t, n)

nodeset_node_create(s, n) == [s EXCEPT !.list = Append(@, n), !.node[n] = NewNode]

list_remove(s, n) == [s EXCEPT !.list = SelectSeq(@, LAMBDA m : m # n), !.node[n] = NewNode]

nodeset_node_destroy(s, n) == list_remove(node_set_role(s, n, "unknown"), n)

drop_node(s, n) ==
    nodeset_node_destroy(IF s.node[n].state > NODE_DISCONNECTED
                         THEN node_disconnect(s, n, NODE_DISCONNECTED) ELSE s, n)

nodeset_disconnect(s) == [EachNode(drop_node, s) EXCEPT !.checktimer = FALSE]

connect_node(s, n) == IF s.node[n].state <= NODE_DISCONNECTED THEN node_connect(s, n) ELSE s

nodeset_connect_nodes(s) ==
    LET add(acc, n) == IF n \in here(acc) THEN acc ELSE nodeset_node_create(acc, n)
    IN EachNode(connect_node, FoldLeft(add, s, conf.urls))

recover_from(s, n) == IF n = None THEN s ELSE [s EXCEPT !.recovering = n]
recover_from_any(s) == recover_from(s, nodeset_random_node(s, GET_CLUSTERINFO))
nodeset_recover_cluster(s) == recover_from_any(nodeset_reset_cluster_node_info(s))

nodeset_connect(s) == [nodeset_connect_nodes(s) EXCEPT !.status = "connecting"]

\* nodeset_set_status.  A cluster that is failing is recovered; where that is
\* under way already, or no node is left to ask, the whole set has failed.
cluster_failing(s) ==
    LET under_way(t) == [t EXCEPT !.status = IF s.recovering # None \/ t.recovering = None THEN "failed" ELSE @]
        reset == nodeset_reset_cluster_node_info(s)
    IN under_way(IF s.recovering # None THEN reset ELSE nodeset_recover_cluster(reset))

give_up(s) == IF s.status \in {"failed", "invalid", "disconnected"} THEN nodeset_disconnect(s) ELSE s

nodeset_set_status(s, status) ==
    LET t == [s EXCEPT !.status = status, !.checktimer = FALSE]
    IN CASE s.status = status -> s
         [] s.status # status /\ status \in {"failed", "invalid", "disconnected", "cluster failing"} ->
              give_up(IF status = "cluster failing" THEN cluster_failing(t) ELSE t)
         [] s.status # status /\ status = "failing" -> nodeset_connect(t)
         [] s.status # status /\ status = "connecting" -> [s EXCEPT !.status = status]
         [] s.status # status /\ status = "ready" -> [s EXCEPT !.status = status, !.checktimer = @ \/ s.cluster]

\* A failed slave is forgotten, and its master asked for the slaves it has.
drop_failed_slave(acc, n) ==
    LET m == acc.node[n].master
        asked == IF m # None /\ acc.node[m].state >= NODE_READY /\ acc.status = "ready"
                 THEN [acc EXCEPT !.node[m].find = TRUE] ELSE acc
    IN IF acc.node[n].state = NODE_FAILED /\ acc.node[n].role = "slave"
       THEN nodeset_node_destroy(node_disconnect(asked, n, NODE_FAILED), n) ELSE acc

\* The status that the counts of the nodes of s call for, where t is what is
\* left of s without its failed slaves.
examined_status(s, t) ==
    LET in(lo, hi) == {n \in here(s) : s.node[n].state >= lo /\ s.node[n].state <= hi}
        masters == {n \in here(s) : s.node[n].role = "master"}
        connecting == in(CMD_CONNECTING, NODE_READY - 1)
        ready == in(NODE_READY, NODE_READY)
        failed_masters == masters \cap in(NODE_FAILED, NODE_FAILED)
        cluster == {n \in here(s) : s.node[n].cluster}
    IN IF s.status = "connecting" /\ connecting # {} THEN s.status
       ELSE IF ready = {} /\ t.list = <<>> THEN "invalid"
       ELSE IF cluster = {} /\ Cardinality(masters) > 1 THEN "invalid"
       ELSE IF ready \cap cluster # {} /\ ready \ cluster # {} THEN "invalid"
       ELSE IF connecting # {} THEN IF s.status = "cluster failing" THEN s.status ELSE "connecting"
       ELSE IF failed_masters # {}
            THEN IF s.status # "ready" THEN "failed" ELSE IF t.cluster THEN "cluster failing" ELSE "failing"
       ELSE IF masters = {} THEN "invalid"
       ELSE IF cluster # {} /\ ~nodeset_cluster_keyslot_space_complete(t, NODE_READY) THEN s.status
       ELSE IF s.status = "ready" /\ Cardinality(ready) < Len(t.list) THEN "failing"
       ELSE IF ready = {} THEN "disconnected"
       ELSE "ready"

\* nodeset_examine: the failed slaves go, and the counts decide the status.
without_failed_slaves(s) ==
    [EachNode(drop_failed_slave, s) EXCEPT !.cluster = \E n \in here(s) : s.node[n].cluster]

settle(s, t) == nodeset_set_status(t, examined_status(s, t))
nodeset_examine(s) == settle(s, without_failed_slaves(s))

node_make_ready(s, n) ==
    [s EXCEPT !.node[n].state = NODE_READY, !.node[n].timer = FALSE, !.node[n].connecting = FALSE,
              !.node[n].pend = "none"]

relate(s, source, n, role) ==
    IF role = "master" THEN node_set_master_slave_relationship(s, n, source)
    ELSE node_set_master_slave_relationship(s, source, n)

connect_if_idle(s, n) ==
    IF s.node[n].state <= NODE_DISCONNECTED /\ ~s.node[n].connecting THEN node_connect(s, n) ELSE s

node_discover(s, source, n, role) ==
    LET changed == n \in here(s) /\ s.node[n].role # role /\ s.node[n].state > GETTING_INFO - 1
        known == IF changed
                 THEN node_connect(node_disconnect(node_set_role(s, n, "unknown"), n, NODE_FAILED), n)
                 ELSE IF n \in here(s) THEN s
                 ELSE node_set_role(nodeset_node_create(s, n), n, role)
    IN connect_if_idle(relate(known, source, n, role), n)

node_discover_slaves_from_info_reply(s, n) ==
    LET slaves == {m \in Nodes : srv[m].role = "slave" /\ srv[m].of = n /\ srv[m].net = "up" /\ m # n}
    IN FoldLeft(LAMBDA acc, m : node_discover(acc, n, m, "slave"), s, SetToSeq(slaves))

\* The pubsub context of a duplicate is freed at once, with its disconnect
\* handler in place; the command context after this callback, when the node
\* is no longer there.  Both handlers examine the nodeset.
nodeset_node_deduplicate_by_run_id(s, n, other) ==
    LET moved == FoldLeft(LAMBDA acc, c : node_set_master_slave_relationship(acc, other, c),
                          s, SetToSeq(s.node[n].slaves))
        quiet == [node_set_role(moved, n, "unknown") EXCEPT !.node[n].cmd = FALSE, !.node[n].pend = "none"]
        gone(t) == IF n \in here(t) THEN list_remove(t, n) ELSE nodeset_fail(t, "a node removed twice")
        examined == nodeset_examine(disconnect_idle(quiet, n, NODE_FAILED))
    IN nodeset_examine(gone(examined))

\* The connector sends the command of a state and waits for its reply.
ask(s, n, state, context) ==
    IF (context = "cmd" /\ ~s.node[n].cmd) \/ (context # "cmd" /\ ~s.node[n].pubsub)
    THEN node_connector_fail(s, n)
    ELSE [s EXCEPT !.node[n].state = state, !.node[n].pend = context]

select_db(s, n) == ask(s, n, IF conf.db THEN CMD_SELECTING_DB ELSE SCRIPTS_LOADED_CHECK, "cmd")

load_script(s, n) == ask(s, n, IF s.node[n].missing > 0 THEN SCRIPTS_LOADING ELSE GETTING_INFO, "cmd")

discover_relatives(s, n) ==
    IF conf.cluster THEN s
    ELSE IF s.node[n].role = "master" THEN node_discover_slaves_from_info_reply(s, n)
    ELSE node_discover(s, n, srv[n].of, "master")

found_role(n) == IF conf.forced[n] = "none" THEN srv[n].role ELSE conf.forced[n]

\* A discovered node whose role was not the one the server told is strange.
described(s, n) ==
    node_set_role([s EXCEPT !.node[n].cluster = @ \/ conf.cluster,
                            !.strange = @ \/ (n \notin ToSet(conf.urls) /\ found_role(n) # srv[n].role)],
                  n, found_role(n))

\* A server that is a master names none to the node that takes it for a slave.
node_info(s, n) ==
    LET t == [s EXCEPT !.node[n].run = srv[n].run]
        same == {m \in here(s) \ {n} : s.node[m].run = srv[n].run}
    IN IF same # {} THEN nodeset_node_deduplicate_by_run_id(t, n, CHOOSE m \in same : TRUE)
       ELSE IF found_role(n) = "slave" /\ srv[n].role = "master" THEN node_connector_fail(described(t, n), n)
       ELSE ask(discover_relatives(described(t, n), n), n, PUBSUB_GETTING_INFO, "pubsub")

\* What a cluster's servers say of themselves: one line for each of them.
Members == {m \in Nodes : srv[m].run = m}
Lines == SetToSeq(Members)

cluster_state_ok ==
    \A x \in Slots : \E m \in Members : x \in srv[m].slots /\ ~srv[m].failed /\ srv[m].role = "master"

\* A server does not call itself failed.
line_failed(n, m) == srv[m].failed /\ m # n

node_skip_cluster_peer(n, m, skip_self) ==
    line_failed(n, m) \/ (m # n /\ srv[m].net # "up") \/ (m = n /\ skip_self)

node_discover_cluster_peer(s, n, m) ==
    LET new == m \notin here(s)
        id(t) == IF srv[m].role = "slave" /\ t.node[m].master_id = None THEN srv[m].of ELSE t.node[m].master_id
        peer(t) == node_set_role([t EXCEPT !.node[m].cluster = TRUE, !.node[m].known = TRUE,
                                           !.node[m].master_id = id(t)], m, srv[m].role)
    IN IF m = n THEN s
       ELSE IF new THEN node_connect(peer(nodeset_node_create(s, m)), m)
       ELSE peer(s)

\* Stops at the first slave whose master is not known: the result has ok.
nodeset_link_cluster_node_roles(s) ==
    LET link(acc, n) ==
            LET m == acc.s.node[n].master_id
            IN IF ~acc.ok \/ acc.s.node[n].role # "slave" THEN acc
               ELSE IF m = None \/ m \notin here(acc.s) \/ ~acc.s.node[m].known
                    THEN [acc EXCEPT !.ok = FALSE]
               ELSE [acc EXCEPT !.s = node_set_master_slave_relationship(acc.s, m, n)]
    IN FoldLeft(link, [s |-> s, ok |-> TRUE], s.list)

nodeset_node_remove_failed(s, m) ==
    nodeset_node_destroy(node_disconnect(s, m, NODE_FAILED), m)

is_known(s, m) == m \in here(s) /\ s.node[m].known

\* One line of CLUSTER NODES, at the end of the connector; acc.ok until one is refused.
own_line(acc, n) ==
    IF srv[n].role = "slave" THEN [acc EXCEPT !.s.node[n].known = TRUE, !.s.node[n].master_id = srv[n].of]
    ELSE IF srv[n].slots = {} THEN [acc EXCEPT !.s.node[n].known = TRUE]
    ELSE [s |-> node_set_cluster_slots([acc.s EXCEPT !.node[n].known = TRUE], n, srv[n].slots),
          ok |-> ~slots_conflict(acc.s, n, srv[n].slots)]

\* The end of the connector, with or without an error.
connected(acc, n) ==
    IF acc.ok THEN nodeset_examine(node_make_ready(acc.s, n)) ELSE node_connector_fail(acc.s, n)

node_cluster_nodes(s, n) ==
    LET line(acc, m) ==
            IF ~acc.ok THEN acc
            ELSE IF m = n THEN own_line(acc, n)
            ELSE IF node_skip_cluster_peer(n, m, TRUE) THEN acc
            ELSE [acc EXCEPT !.s = node_discover_cluster_peer(acc.s, n, m)]
        linked(read) == IF read.ok THEN nodeset_link_cluster_node_roles(read.s) ELSE read
    IN connected(linked(FoldLeft(line, [s |-> s, ok |-> TRUE], Lines)), n)

\* One line of it in the recovery of a cluster.
recovery_line(acc, n, m) ==
    LET slotted(u) ==
            IF srv[m].role = "slave" THEN [acc EXCEPT !.s = [u EXCEPT !.node[m].master_id = srv[m].of]]
            ELSE IF srv[m].slots = {} THEN [acc EXCEPT !.s = u]
            ELSE [s |-> node_set_cluster_slots(u, m, srv[m].slots), ok |-> ~slots_conflict(u, m, srv[m].slots)]
        known == m \in here(acc.s)
        listed(t) == IF known THEN slotted(node_set_role(t, m, srv[m].role)) ELSE [acc EXCEPT !.s = t]
    IN IF ~acc.ok THEN acc
       ELSE IF line_failed(n, m) /\ is_known(acc.s, m)
            THEN [acc EXCEPT !.s = nodeset_node_remove_failed(acc.s, m)]
       ELSE IF node_skip_cluster_peer(n, m, FALSE) THEN acc
       ELSE listed(node_discover_cluster_peer(acc.s, n, m))

connect_the_disconnected(s) == EachNode(connect_if_idle, s)

check_them_over(s) ==
    LET over(acc, m) == IF acc.node[m].connecting THEN acc
                        ELSE IF ~(acc.node[m].cmd /\ acc.node[m].pubsub)
                             THEN nodeset_fail(acc, "recovered node without its connections")
                        ELSE [node_make_ready(acc, m) EXCEPT !.epoch = epoch]
    IN nodeset_examine(EachNode(over, s))

\* The steps of a recovery: each works on what the one before it left, if that went well.
recovery_read(acc, n) == IF acc.ok THEN FoldLeft(LAMBDA a, m : recovery_line(a, n, m), acc, Lines) ELSE acc
recovery_covered(s) == [s |-> s, ok |-> nodeset_cluster_keyslot_space_complete(s, GET_CLUSTERINFO)]
recovery_joined(acc) == IF acc.ok THEN recovery_covered(connect_the_disconnected(acc.s)) ELSE acc
recovery_linked(acc) == IF acc.ok THEN nodeset_link_cluster_node_roles(acc.s) ELSE acc
recovery_judged(s) == IF s.status = "ready" THEN s ELSE recovery_failed(s)
recovery_done(acc) == IF acc.ok THEN recovery_judged(check_them_over(acc.s)) ELSE recovery_failed(acc.s)

nodeset_recover_cluster_handler(s, n) ==
    LET start == [s |-> [s EXCEPT !.recovering = None], ok |-> cluster_state_ok]
    IN recovery_done(recovery_linked(recovery_joined(recovery_read(start, n))))

nodeset_start_cluster_check_timer(s) == [s EXCEPT !.checktimer = @ \/ s.cluster]

nodeset_cluster_node_is_outdated(s, m) ==
    is_known(s, m) /\ (s.node[m].role # srv[m].role \/ s.node[m].slots # srv[m].slots)

check_line(acc, n, m) ==
    LET seen(t) == [acc EXCEPT !.s = t, !.outdated = @ \/ nodeset_cluster_node_is_outdated(t, m)]
    IN IF line_failed(n, m) /\ is_known(acc.s, m)
       THEN [acc EXCEPT !.s = nodeset_node_remove_failed(acc.s, m), !.removed = TRUE]
       ELSE IF node_skip_cluster_peer(n, m, FALSE) THEN acc
       ELSE seen(node_discover_cluster_peer(acc.s, n, m))

\* The check timer starts again unless the cluster is out of date.
check_judged(read, changed) ==
    LET gap == ~nodeset_cluster_keyslot_space_complete(read.s, NODE_READY)
        stale == read.outdated \/ (changed /\ gap)
        timed(t) == IF stale THEN t ELSE nodeset_start_cluster_check_timer(t)
    IN timed(IF stale \/ (read.removed /\ gap) THEN nodeset_set_status(read.s, "cluster failing") ELSE read.s)

nodeset_cluster_check_event_callback(s, n) ==
    LET t == [s EXCEPT !.node[n].check = FALSE]
        start == [s |-> [t EXCEPT !.epoch = IF @ < epoch THEN epoch ELSE @], removed |-> FALSE, outdated |-> FALSE]
    IN IF cluster_state_ok
       THEN check_judged(FoldLeft(LAMBDA acc, m : check_line(acc, n, m), start, Lines), s.epoch < epoch)
       ELSE nodeset_set_status(t, "cluster failing")

check_failed(s, n) ==
    LET t == nodeset_start_cluster_check_timer([s EXCEPT !.node[n].check = FALSE])
    IN IF s.node[n].state >= NODE_READY THEN nodeset_examine(node_disconnect(t, n, NODE_FAILED)) ELSE t

\* node_connector_callback with a reply, in each state that waits for one.
node_connector_callback(s, n, ok) ==
    LET state == s.node[n].state
        t == [s EXCEPT !.node[n].pend = "none"]
    IN IF ~ok /\ state # GET_CLUSTERINFO THEN node_connector_fail(t, n)
       ELSE CASE state = CMD_CONNECTING ->
                   ask([t EXCEPT !.node[n].pubsub = TRUE], n, PUBSUB_CONNECTING, "pubsub")
              [] state = PUBSUB_CONNECTING -> ask(t, n, CMD_CHECKED, "cmd")
              [] state = CMD_CHECKED -> ask(t, n, PUBSUB_CHECKED, "pubsub")
              [] state = PUBSUB_CHECKED ->
                   IF conf.auth THEN ask(t, n, CMD_AUTHENTICATING, "cmd") ELSE select_db(t, n)
              [] state = CMD_AUTHENTICATING -> ask(t, n, PUBSUB_AUTHENTICATING, "pubsub")
              [] state = PUBSUB_AUTHENTICATING -> select_db(t, n)
              [] state = CMD_SELECTING_DB -> ask(t, n, PUBSUB_SELECTING_DB, "pubsub")
              [] state = PUBSUB_SELECTING_DB -> ask(t, n, SCRIPTS_LOADED_CHECK, "cmd")
              [] state = SCRIPTS_LOADED_CHECK -> load_script([t EXCEPT !.node[n].missing = conf.scripts], n)
              [] state = SCRIPTS_LOADING -> load_script([t EXCEPT !.node[n].missing = @ - 1], n)
              [] state = GETTING_INFO -> node_info(t, n)
              [] state = PUBSUB_GETTING_INFO -> ask(t, n, SUBSCRIBING_WORKER, "worker")
              [] state = SUBSCRIBING_WORKER ->
                   IF t.node[n].cluster THEN ask(t, n, GETTING_CLUSTERINFO, "cmd")
                   ELSE nodeset_examine(node_make_ready(t, n))
              [] state = GET_CLUSTERINFO -> ask(t, n, GETTING_CLUSTERINFO, "cmd")
              [] state = GETTING_CLUSTERINFO ->
                   IF ~cluster_state_ok THEN node_connector_fail(t, n)
                   ELSE ask([t EXCEPT !.epoch = epoch], n, GETTING_SHARDED_PUBSUB_SUPPORT, "cmd")
              [] state = GETTING_SHARDED_PUBSUB_SUPPORT -> ask(t, n, GETTING_CLUSTER_NODES, "cmd")
              [] state = GETTING_CLUSTER_NODES -> node_cluster_nodes(t, n)

\* Errors of a context: the connector's callback fails the connection, and
\* takes the context's handlers away; else the disconnect handler runs.
waits_on(s, n, context) ==
    \/ s.node[n].pend = context
    \/ s.node[n].pend = "worker" /\ context = "pubsub"

redis_nginx_unexpected_disconnect_event_handler(s, n) ==
    nodeset_examine(node_disconnect(s, n, NODE_FAILED))

\* A node that a reset has taken back to GET_CLUSTERINFO only asks again, on
\* the context that is going: nothing is sent, and the disconnect handler runs.
context_lost(s, n, context) ==
    IF waits_on(s, n, context)
    THEN IF s.node[n].state # GET_CLUSTERINFO THEN node_connector_fail(s, n)
         ELSE redis_nginx_unexpected_disconnect_event_handler([s EXCEPT !.node[n].pend = "none"], n)
    ELSE redis_nginx_unexpected_disconnect_event_handler(s, n)

node_connector_connect_timeout(s, n) ==
    IF s.node[n].state \in {CMD_CONNECTING, PUBSUB_CONNECTING}
    THEN node_connector_fail([s EXCEPT !.node[n].timer = FALSE], n)
    ELSE node_disconnect([s EXCEPT !.node[n].timer = FALSE], n, CONNECTION_TIMED_OUT)

\* The reply to a channel's command says that its keyslot is elsewhere.
nodeset_node_reply_keyslot_ok(s, n) ==
    nodeset_set_status(IF s.node[n].cluster THEN s
                       ELSE [node_disconnect(s, n, NODE_FAILED) EXCEPT !.strange = TRUE], "cluster failing")

\* Fault: an invalid set of nodes is not connected again.
check_status_event_invalid(s, late) ==
    CASE s.status \in {"failed", "disconnected"} -> IF late THEN nodeset_connect(s) ELSE s
      [] s.status = "connecting" /\ ~late -> nodeset_examine(s)
      [] s.status = "cluster failing" /\ ~late ->
           IF s.cluster /\ s.recovering = None THEN nodeset_recover_cluster(s) ELSE s
      [] late /\ (s.status \in {"connecting", "failing"} \/ (s.status = "cluster failing" /\ s.cluster)) ->
           nodeset_set_status(s, IF s.status = "connecting" THEN "disconnected" ELSE "failed")
      [] OTHER -> s

\* late: the status has lasted longer than its limit.
nodeset_check_status_event(s, late) ==
    CASE s.status \in {"failed", "invalid", "disconnected"} -> IF late THEN nodeset_connect(s) ELSE s
      [] s.status = "connecting" /\ ~late -> nodeset_examine(s)
      [] s.status = "cluster failing" /\ ~late ->
           IF s.cluster /\ s.recovering = None THEN nodeset_recover_cluster(s) ELSE s
      [] late /\ (s.status \in {"connecting", "failing"} \/ (s.status = "cluster failing" /\ s.cluster)) ->
           nodeset_set_status(s, IF s.status = "connecting" THEN "disconnected" ELSE "failed")
      [] OTHER -> s

nodeset_cluster_check_event(s) ==
    LET n == nodeset_random_node(s, GET_CLUSTERINFO)
    IN IF n = None THEN s ELSE [s EXCEPT !.checktimer = FALSE, !.node[n].check = TRUE]

Does(next) == /\ ns' = [next EXCEPT !.pick = None]
              /\ UNCHANGED <<srv, epoch, conf>>

free_of_charge == faults' = faults
fault == faults < MaxFaults /\ faults' = faults + 1

Listed(n) == n \in here(ns)

\* What nodeset_random_node may draw in a step.
Draws == LET far == {n \in here(ns) : ns.node[n].state >= SUBSCRIBING_WORKER}
         IN IF far = {} THEN {None} ELSE far

\* A server answers, refuses, or does not answer.
answerable(n) == Listed(n) /\ ns.node[n].pend # "none" /\ srv[n].net = "up"

Answers(n, ok) ==
    /\ answerable(n)
    /\ IF ok THEN free_of_charge ELSE fault
    /\ \E p \in Draws : Does(node_connector_callback([ns EXCEPT !.pick = p], n, ok))

losable(n) == Listed(n) /\ (ns.node[n].cmd \/ ns.node[n].pubsub) /\ srv[n].net # "up"

Loses(n) ==
    /\ losable(n) \/ (Listed(n) /\ (ns.node[n].cmd \/ ns.node[n].pubsub))
    /\ IF losable(n) THEN free_of_charge ELSE fault
    /\ \E p \in Draws, context \in {"cmd", "pubsub"} :
          ns.node[n][context] /\ Does(context_lost([ns EXCEPT !.pick = p], n, context))

ConnectTimesOut(n) ==
    /\ Listed(n) /\ ns.node[n].timer /\ fault
    /\ Does(node_connector_connect_timeout(ns, n))

KeyslotError(n) ==
    /\ Listed(n) /\ ns.node[n].state = NODE_READY /\ fault
    /\ \E p \in Draws : Does(nodeset_node_reply_keyslot_ok([ns EXCEPT !.pick = p], n))

FindsSlaves(n) ==
    /\ Listed(n) /\ ns.node[n].find /\ srv[n].net = "up" /\ free_of_charge
    /\ Does(node_discover_slaves_from_info_reply([ns EXCEPT !.node[n].find = FALSE], n))

\* The limits and delays are longer than answers take: a status that lasts too
\* long, or a recovery that is tried again, before the servers that are up
\* have answered counts as a fault.
busy == ns.recovering # None \/ \E n \in Nodes : answerable(n) \/ losable(n)
hasty(late) == busy /\ IF late THEN ns.status \in {"connecting", "cluster failing", "failing"}
                       ELSE ns.status = "cluster failing"

StatusEvent(late) ==
    /\ IF hasty(late) THEN fault ELSE free_of_charge
    /\ \E p \in Draws : Does(nodeset_check_status_event([ns EXCEPT !.pick = p], late))

CheckEvent ==
    /\ ns.checktimer /\ free_of_charge
    /\ \E p \in Draws : Does(nodeset_cluster_check_event([ns EXCEPT !.pick = p]))

CheckReply(n) ==
    /\ Listed(n) /\ ns.node[n].check /\ srv[n].net = "up"
    /\ \E p \in Draws :
          \/ free_of_charge /\ Does(nodeset_cluster_check_event_callback([ns EXCEPT !.pick = p], n))
          \/ fault /\ Does(check_failed([ns EXCEPT !.pick = p], n))

RecoverReply(n) ==
    /\ ns.recovering = n /\ srv[n].net = "up"
    /\ \E p \in Draws :
          \/ free_of_charge /\ Does(nodeset_recover_cluster_handler([ns EXCEPT !.pick = p], n))
          \/ fault /\ Does(recovery_failed(ns))

\* The servers: they stop, lose their address, come back, and fail over.
ServerFails(n) ==
    /\ srv[n].net = "up" /\ fault
    /\ \E net \in {"down", "gone"} : srv' = [srv EXCEPT ![n].net = net]
    /\ UNCHANGED <<ns, epoch, conf>>

ServerReturns(n) ==
    /\ conf.srv[n].net = "up" /\ srv[n].net # "up" /\ free_of_charge
    /\ srv' = [srv EXCEPT ![n].net = "up", ![n].failed = FALSE]
    /\ UNCHANGED <<ns, epoch, conf>>

FailsOver(n, slave) ==
    /\ srv[n].net # "up" /\ srv[n].role = "master" /\ srv[slave].net = "up" /\ srv[slave].of = n
    /\ srv' = [srv EXCEPT ![slave].role = "master", ![slave].of = None, ![slave].slots = srv[n].slots,
                          ![n].role = "slave", ![n].of = slave, ![n].slots = {}, ![n].failed = conf.cluster]
    /\ epoch' = epoch + 1
    /\ free_of_charge
    /\ UNCHANGED <<ns, conf>>

NodesetInit ==
    /\ conf \in Setups
    /\ srv = conf.srv
    /\ epoch = 1
    /\ faults = 0
    /\ ns = nodeset_connect(NewNodeset)

NodesetNext ==
    /\ ns.failed = {}
    /\ \/ \E n \in Nodes : \/ \E ok \in BOOLEAN : Answers(n, ok)
                           \/ Loses(n) \/ ConnectTimesOut(n)
                           \/ KeyslotError(n) \/ FindsSlaves(n) \/ CheckReply(n) \/ RecoverReply(n)
                           \/ ServerFails(n) \/ ServerReturns(n)
                           \/ \E m \in Nodes : FailsOver(n, m)
       \/ \E late \in BOOLEAN : StatusEvent(late)
       \/ CheckEvent


\* A status event that would change nothing.
no_effect(late) == \A p \in Draws :
    LET s == [ns EXCEPT !.pick = p] IN nodeset_check_status_event(s, late) = s

\* The event loop and the servers are fair: what is due is done, as long as
\* no assertion has stopped the worker.  (Weak fairness of each action, with
\* its guard written out.)
due(guard) == ns.failed = {} /\ guard
NodesetFairness ==
    /\ \A n \in Nodes :
          /\ []<>(~due(answerable(n))) \/ []<><<Answers(n, TRUE)>>_nodesetVars
          /\ []<>(~due(losable(n))) \/ []<><<Loses(n)>>_nodesetVars
          /\ []<>(~due(conf.srv[n].net # srv[n].net))
          /\ []<>(~due(Listed(n) /\ ns.node[n].find /\ srv[n].net = "up"))
          /\ []<>(~due(Listed(n) /\ ns.node[n].check /\ srv[n].net = "up"))
          /\ []<>(~due(ns.recovering = n /\ srv[n].net = "up"))
    /\ \A late \in BOOLEAN :
          []<>(~due(~hasty(late) /\ ~no_effect(late))) \/ []<><<StatusEvent(late)>>_nodesetVars
    /\ []<>(~due(ns.checktimer))

NodesetSpec == NodesetInit /\ [][NodesetNext]_nodesetVars /\ NodesetFairness

\* The set of nodes: every address is listed at most once, whether it was
\* configured, discovered, or both; a node that is not listed has no state.
NodesetTypeOK ==
    /\ ns.status \in Statuses
    /\ Cardinality(here(ns)) = Len(ns.list)
    /\ \A n \in Nodes : /\ ns.node[n].role \in Roles
                         /\ n \notin here(ns) => ns.node[n] = NewNode
    /\ ns.recovering \in Nodes \cup {None}
    /\ faults \in 0 .. MaxFaults

\* node_set_cluster_slots: a keyslot belongs to one node, through failovers
\* that this worker learns of from nodes that answer at different times.
SlotsDisjoint ==
    \A m, n \in here(ns) : m # n => ns.node[m].slots \cap ns.node[n].slots = {}

\* nodeset_recover_cluster: the node a recovery waits for is a node of the
\* set whose command connection is open; its answer, or its loss, ends the
\* recovery.  Otherwise "already recovering" would refuse every later one.
RecoveringNodeAlive ==
    ns.recovering # None => ns.recovering \in here(ns) /\ ns.node[ns.recovering].cmd

\* node_connector_callback: the connect timeout is set exactly while the
\* connector waits for an answer, whatever disconnects, resets and
\* reconnects the node meanwhile.
ConnectorWaits ==
    \A n \in here(ns) : ns.node[n].timer <=> ns.node[n].pend # "none"

\* nodeset_random_node and the senders of commands: a node far enough to be
\* sent commands has both of its connections.
ContextsOpen ==
    \A n \in here(ns) : ns.node[n].state >= GET_CLUSTERINFO => ns.node[n].cmd /\ ns.node[n].pubsub

\* node_connector_callback's assert(!node->connect_timeout), also when the
\* callback of a freed connection starts the next one.
ConnectTimeoutFree == "connect timeout already set" \notin ns.failed

\* Through lost connections, failovers, timeouts and recoveries, the state
\* of each node agrees with its connections, its timer and its keyslots.
NodesetSafe == /\ NodesetTypeOK /\ SlotsDisjoint /\ RecoveringNodeAlive
               /\ ConnectorWaits /\ ContextsOpen /\ ConnectTimeoutFree

\* nodeset_examine: the set becomes ready only with all the keyslots of a
\* cluster on ready masters, or with the one master of a non-cluster, which
\* is ready or has timed out while it was connecting.
BecomesReady ==
    [][ns'.status = "ready" /\ ns.status # "ready" =>
         IF ns'.cluster
         THEN \A x \in Slots : \E n \in here(ns') : /\ x \in ns'.node[n].slots
                                                  /\ ns'.node[n].role = "master"
                                                  /\ ns'.node[n].state = NODE_READY
         ELSE \E n \in here(ns') : /\ ns'.node[n].role = "master"
                                   /\ ns'.node[n].state \in {NODE_READY, CONNECTION_TIMED_OUT}]_nodesetVars

\* README: Nchan attempts to recover from node failures, keyslot errors and
\* epoch changes.  When the servers are back the set is ready again, unless
\* an assertion stopped the worker, a server that is no cluster answered as
\* if it were one, or a discovered node was given a role that nobody set.
EventuallyReady == []<>(ns.status = "ready" \/ ns.failed # {} \/ ns.strange)

\* node_connect's assert(node->state <= REDIS_NODE_DISCONNECTED).
NodeConnectAsserted == "node_connect of a connecting node" \notin ns.failed
================================================================================
