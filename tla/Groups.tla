------------------------------- MODULE Groups -------------------------------
(***************************************************************************)
(* Accounting and limits of one channel group (store/memory/groups.c).     *)
(* The worker GroupOwner keeps the counters in shared memory; the others   *)
(* ask for them and queue what they want to do until they have them.  Each *)
(* worker owns one channel of the group.  Workers run in parallel, so that *)
(* checking a limit and counting are two steps.                            *)
(***************************************************************************)
EXTENDS Integers, Sequences, FiniteSets, Functions

CONSTANTS
    GroupWorkers, GroupOwner,
    Users,           \* the workers that own a channel of the group
    MaxChannels,     \* limit.channels (0: none)
    MaxSubscribers,  \* limit.subscribers (0: none)
    MaxJoined,       \* subscribers of a channel
    MaxPending,      \* callbacks and alerts that wait
    MaxDeletes       \* requests to delete the group

ASSUME GroupsAssumption ==
    /\ IsFiniteSet(GroupWorkers)
    /\ GroupOwner \in GroupWorkers /\ Users \subseteq GroupWorkers
    /\ {MaxChannels, MaxSubscribers, MaxJoined, MaxPending, MaxDeletes} \subseteq Nat

VARIABLES
    group,    \* the counters
    node,     \* whether a worker's group_tree_node_t has the group
    pending,  \* its when_ready callbacks
    task,     \* what a worker has been admitted to do
    gchan,     \* the channels
    gpipe,    \* alerts from one worker to another
    deletes,  \* requests to delete the group so far
    doomed,   \* channels that a request to delete the group is to delete
    overtaken \* a delete dropped changes of the counters that were waiting

groupVars == <<group, node, pending, task, gchan, gpipe, deletes, doomed, overtaken>>

Kinds3 == {"channels", "subscribers", "messages"}

NoChannel == [live |-> FALSE, listed |-> FALSE, subscribers |-> 0, messages |-> 0]

GroupsInit ==
    /\ group = [k \in Kinds3 |-> 0]
    /\ node = [w \in GroupWorkers |-> "none"]
    /\ pending = [w \in GroupWorkers |-> <<>>]
    /\ task = [w \in GroupWorkers |-> "idle"]
    /\ gchan = [w \in GroupWorkers |-> NoChannel]
    /\ gpipe = [p \in GroupWorkers \X GroupWorkers |-> <<>>]
    /\ deletes = 0 /\ doomed = {} /\ overtaken = FALSE

-----------------------------------------------------------------------------
to_all(w, alert) ==
    [p \in GroupWorkers \X GroupWorkers |->
        IF p[1] = w /\ p[2] # w THEN Append(gpipe[p], alert) ELSE gpipe[p]]

(* memstore_groupnode_get: the owner creates the group and tells everybody;
   another worker asks the owner for it. *)
groupnode_get(w) ==
    IF node[w] # "none" THEN UNCHANGED <<node, gpipe>>
    ELSE IF w = GroupOwner
      THEN node' = [node EXCEPT ![w] = "ready"] /\ gpipe' = to_all(w, "group")
      ELSE /\ node' = [node EXCEPT ![w] = "waiting"]
           /\ gpipe' = [gpipe EXCEPT ![<<w, GroupOwner>>] = Append(@, "get_group")]

(* add_whenready_callback; it asks again if that was long ago. *)
add_whenready(w, cb) ==
    /\ Len(pending[w]) < MaxPending
    /\ pending' = [pending EXCEPT ![w] = Append(@, cb)]
    /\ \/ UNCHANGED gpipe
       \/ /\ Len(gpipe[<<w, GroupOwner>>]) < MaxPending
          /\ gpipe' = [gpipe EXCEPT ![<<w, GroupOwner>>] = Append(@, "get_group")]

Count(k, n) == [type |-> "count", kind |-> k, n |-> n]
Call(type) == [type |-> type, kind |-> "channels", n |-> 0]

(* Fault: a change of the counters is applied only if the group is there. *)
add_or_forget(w, k, n) ==
    /\ group' = IF node[w] = "ready" THEN [group EXCEPT ![k] = @ + n] ELSE group
    /\ UNCHANGED <<pending, gpipe>>

(* memstore_group_add_channel, _add_subscribers and _add_message, and their
   opposites: at once, or when the group is ready. *)
add(w, k, n) ==
    IF node[w] = "ready"
      THEN group' = [group EXCEPT ![k] = @ + n] /\ UNCHANGED <<pending, gpipe>>
      ELSE add_whenready(w, Count(k, n)) /\ UNCHANGED group

free(w) == task[w] = "idle" /\ (node[w] = "ready" => pending[w] = <<>>)

(* Without limits a channel is created by any use of it. *)
create_channel(w) ==
    /\ w \in Users /\ free(w) /\ ~gchan[w].live /\ node[w] # "none"
    /\ gchan' = [gchan EXCEPT ![w] = [NoChannel EXCEPT !.live = TRUE, !.listed = TRUE]]
    /\ add(w, "channels", 1)
    /\ UNCHANGED <<node, task, deletes, doomed, overtaken>>

find_groupnode(w) ==
    /\ free(w) /\ node[w] = "none" /\ groupnode_get(w)
    /\ UNCHANGED <<group, pending, task, gchan, deletes, doomed, overtaken>>

(* memstore_reap_chanhead of a channel that nobody uses. *)
reap_channel(w) ==
    /\ free(w) /\ gchan[w].live /\ gchan[w].subscribers = 0 /\ gchan[w].messages = 0
    /\ gchan' = [gchan EXCEPT ![w] = NoChannel]
    /\ doomed' = doomed \ {w}
    /\ add(w, "channels", -1)
    /\ UNCHANGED <<node, task, deletes, overtaken>>

(* A client leaves, or a message expires. *)
lose(w, k) ==
    /\ free(w) /\ gchan[w].live /\ gchan[w][k] > 0
    /\ gchan' = [gchan EXCEPT ![w][k] = @ - 1]
    /\ add(w, k, -1)
    /\ UNCHANGED <<node, task, deletes, doomed, overtaken>>

-----------------------------------------------------------------------------
(* Admission.  With the group at hand, a request is refused or gets a task,
   the steps of which follow. *)

(* group_subscribe_channel_limit_check with group_subscribe_channel_limit_reached *)
may_create(w) ==
    \/ gchan[w].live
    \/ MaxChannels = 0
    \/ group["channels"] < MaxChannels

(* The channel check of group_publish_accounting_check. *)
may_publish(w) ==
    \/ MaxChannels = 0
    \/ group["channels"] + 1 < MaxChannels
    \/ group["channels"] + 1 = MaxChannels /\ gchan[w].live

(* group_subscribe_accounting_check *)
may_join == MaxSubscribers = 0 \/ group["subscribers"] < MaxSubscribers

admit(w, type) ==
    IF type = "subscribe" /\ may_create(w) THEN "create"
    ELSE IF type = "publish" /\ may_publish(w) THEN "store"
    ELSE "idle"

(* nchan_store_subscribe and nchan_store_publish_message with accounting. *)
request(w, type) ==
    /\ w \in Users /\ free(w) /\ node[w] # "none"
    /\ type = "subscribe" => gchan[w].subscribers < MaxJoined
    /\ type = "publish" => gchan[w].messages = 0
    /\ IF node[w] = "ready"
         THEN task' = [task EXCEPT ![w] = admit(w, type)] /\ UNCHANGED <<pending, gpipe>>
         ELSE add_whenready(w, Call(type)) /\ UNCHANGED task
    /\ UNCHANGED <<group, node, gchan, deletes, doomed, overtaken>>

(* The channel is there or is created now ... *)
step_create(w) ==
    /\ task[w] \in {"create", "store"}
    /\ IF gchan[w].live
         THEN /\ task' = [task EXCEPT ![w] = IF @ = "store" THEN "push"
                                             ELSE IF may_join THEN "join" ELSE "idle"]
              /\ UNCHANGED <<group, gchan>>
         ELSE /\ gchan' = [gchan EXCEPT ![w] = [NoChannel EXCEPT !.live = TRUE, !.listed = TRUE]]
              /\ group' = [group EXCEPT !["channels"] = @ + 1]
              /\ UNCHANGED task
    /\ UNCHANGED <<node, pending, gpipe, deletes, doomed, overtaken>>

(* ... and the subscriber or the message is added to it. *)
step_add(w) ==
    /\ task[w] \in {"join", "push"}
    /\ LET k == IF task[w] = "join" THEN "subscribers" ELSE "messages"
       IN  /\ gchan' = [gchan EXCEPT ![w][k] = @ + 1]
           /\ group' = [group EXCEPT ![k] = @ + 1]
    /\ task' = [task EXCEPT ![w] = "idle"]
    /\ UNCHANGED <<node, pending, gpipe, deletes, doomed, overtaken>>

-----------------------------------------------------------------------------
(* Deleting the group. *)

deleted_channel(c) ==
    IF c.listed THEN [c EXCEPT !.listed = FALSE, !.subscribers = 0, !.messages = 0] ELSE c

(* What the deletion of a worker's channels takes from a counter. *)
taken(w, k) == IF k = "channels" \/ ~gchan[w].listed THEN 0 ELSE gchan[w][k]

to_take(w, k) == IF taken(w, k) = 0 THEN <<>> ELSE <<Count(k, -taken(w, k))>>

(* memstore_group_receive_delete: what waits is called without a group, and
   so is lost; every listed channel is deleted and comes off the list. *)
receive_delete(w, all) ==
    IF node[w] = "none"
      THEN doomed' = all /\ UNCHANGED <<group, pending, gchan, overtaken>>
      ELSE /\ gchan' = [gchan EXCEPT ![w] = deleted_channel(@)]
           /\ doomed' = IF gchan[w].listed THEN all \ {w} ELSE all
           /\ overtaken' = (overtaken \/ \E i \in DOMAIN pending[w] : pending[w][i].type = "count")
           /\ IF node[w] = "ready"
                THEN /\ group' = [k \in Kinds3 |-> group[k] - taken(w, k)]
                     /\ UNCHANGED pending
                ELSE /\ pending' = [pending EXCEPT ![w] = to_take(w, "messages") \o to_take(w, "subscribers")]
                     /\ UNCHANGED group

(* group_delete_callback, with the group: everybody else is told; the
   worker's own channels are deleted only if it owns the group. *)
group_delete_callback(w) ==
    /\ gpipe' = to_all(w, "group_delete")
    /\ LET all == doomed \cup {v \in GroupWorkers : gchan[v].live}
       IN  IF w = GroupOwner THEN receive_delete(w, all)
           ELSE doomed' = all /\ UNCHANGED <<group, pending, gchan, overtaken>>

(* memstore_group_delete *)
memstore_group_delete(w) ==
    /\ free(w) /\ node[w] # "none" /\ deletes < MaxDeletes
    /\ deletes' = deletes + 1
    /\ IF node[w] = "ready" THEN group_delete_callback(w)
       ELSE add_whenready(w, Call("delete")) /\ UNCHANGED <<group, gchan, doomed, overtaken>>
    /\ UNCHANGED <<node, task>>

-----------------------------------------------------------------------------
(* Alerts. *)

arrives(v, w, alert) == free(w) /\ gpipe[<<v, w>>] # <<>> /\ Head(gpipe[<<v, w>>]) = alert

(* Fault: the group is sent only if it was there. *)
receive_get_group_old(v) ==
    /\ arrives(v, GroupOwner, "get_group")
    /\ node' = [node EXCEPT ![GroupOwner] = "ready"]
    /\ LET rest(pipe) == [pipe EXCEPT ![<<v, GroupOwner>>] = Tail(@)]
       IN  gpipe' = IF node[GroupOwner] = "none" THEN rest(gpipe)
                    ELSE [rest(gpipe) EXCEPT ![<<GroupOwner, v>>] = Append(@, "group")]
    /\ UNCHANGED <<group, pending, task, gchan, deletes, doomed, overtaken>>

(* receive_get_group: a new group goes to everybody, one that exists to v. *)
receive_get_group(v) ==
    /\ arrives(v, GroupOwner, "get_group")
    /\ node' = [node EXCEPT ![GroupOwner] = "ready"]
    /\ LET rest(pipe) == [pipe EXCEPT ![<<v, GroupOwner>>] = Tail(@)]
       IN  gpipe' = IF node[GroupOwner] = "none" THEN rest(to_all(GroupOwner, "group"))
                    ELSE [rest(gpipe) EXCEPT ![<<GroupOwner, v>>] = Append(@, "group")]
    /\ UNCHANGED <<group, pending, task, gchan, deletes, doomed, overtaken>>

(* memstore_group_receive; the callbacks are run next, by run_whenready. *)
receive_group(w) ==
    /\ arrives(GroupOwner, w, "group")
    /\ node' = [node EXCEPT ![w] = "ready"]
    /\ gpipe' = [gpipe EXCEPT ![<<GroupOwner, w>>] = Tail(@)]
    /\ UNCHANGED <<group, pending, task, gchan, deletes, doomed, overtaken>>

receive_group_delete(v, w) ==
    /\ arrives(v, w, "group_delete")
    /\ gpipe' = [gpipe EXCEPT ![<<v, w>>] = Tail(@)]
    /\ receive_delete(w, doomed)
    /\ UNCHANGED <<node, task, deletes>>

(* call_whenready_callbacks, one by one: nothing else happens meanwhile. *)
run_whenready(w) ==
    /\ node[w] = "ready" /\ pending[w] # <<>> /\ task[w] = "idle"
    /\ LET cb == Head(pending[w])
       IN  \/ /\ cb.type = "count"
              /\ group' = [group EXCEPT ![cb.kind] = @ + cb.n]
              /\ UNCHANGED <<task, gchan, gpipe, doomed, overtaken>>
           \/ /\ cb.type \in {"subscribe", "publish"}
              /\ task' = [task EXCEPT ![w] = admit(w, cb.type)]
              /\ UNCHANGED <<group, gchan, gpipe, doomed, overtaken>>
           \/ /\ cb.type = "delete"
              /\ gpipe' = to_all(w, "group_delete")
              /\ doomed' = doomed \cup {v \in GroupWorkers : gchan[v].live}
              /\ UNCHANGED <<group, task, gchan, overtaken>>
    /\ pending' = [pending EXCEPT ![w] = Tail(@)]
    /\ UNCHANGED <<node, deletes>>

-----------------------------------------------------------------------------
(* A worker goes on with what it is doing, or reads an alert from v. *)
proceed(w) == step_create(w) \/ step_add(w) \/ run_whenready(w)

read(v, w) ==
    \/ receive_group_delete(v, w)
    \/ v = GroupOwner /\ receive_group(w)
    \/ w = GroupOwner /\ receive_get_group(v)

GroupsNext ==
    \E w \in GroupWorkers :
        \/ find_groupnode(w) \/ create_channel(w) \/ reap_channel(w)
        \/ \E k \in {"subscribers", "messages"} : lose(w, k)
        \/ \E type \in {"subscribe", "publish"} : request(w, type)
        \/ memstore_group_delete(w)
        \/ proceed(w)
        \/ \E v \in GroupWorkers : read(v, w)

GroupsSpec == GroupsInit /\ [][GroupsNext]_groupVars

-----------------------------------------------------------------------------
Channels == [live : BOOLEAN, listed : BOOLEAN, subscribers : Nat, messages : Nat]

Callbacks == [type : {"count", "subscribe", "publish", "delete"}, kind : Kinds3, n : Int]

GroupAlerts == {"get_group", "group", "group_delete"}

(* The counters, the nodes, what the workers do and their channels have the
   types of groups.c. *)
GroupsTypeOK ==
    /\ group \in [Kinds3 -> Int]
    /\ gchan \in [GroupWorkers -> Channels]
    /\ node \in [GroupWorkers -> {"none", "waiting", "ready"}]
    /\ task \in [GroupWorkers -> {"idle", "create", "store", "join", "push"}]
    /\ doomed \subseteq GroupWorkers /\ deletes \in Nat /\ overtaken \in BOOLEAN
    /\ pending \in [GroupWorkers -> Seq(Callbacks)]
    /\ gpipe \in [GroupWorkers \X GroupWorkers -> Seq(GroupAlerts)]

(* What a worker's callbacks are going to add to a counter. *)
Amount(cb, k) == IF cb.type = "count" /\ cb.kind = k THEN cb.n ELSE 0

Total(cbs, k) == SumFunction([i \in DOMAIN cbs |-> Amount(cbs[i], k)])

Waiting(w, k) == Total(pending[w], k)

Actual(c, k) == IF ~c.live THEN 0 ELSE IF k = "channels" THEN 1 ELSE c[k]

(* A counter of the group, with the changes that workers have yet to apply,
   is what the workers really have, unless a request to delete the group has
   reached a worker before the group itself. *)
CountsExact ==
    ~overtaken =>
        \A k \in Kinds3 :
            group[k] + SumFunction([w \in GroupWorkers |-> Waiting(w, k)])
              = SumFunction([w \in GroupWorkers |-> Actual(gchan[w], k)])

(* The limit on subscribers is exceeded at most by those that the other
   workers let in at the same time. *)
LimitNearlyKept ==
    MaxSubscribers > 0 =>
        group["subscribers"] < MaxSubscribers + Cardinality(Users)

(* Whoever waits for the group is going to get it: its request is on the way
   to the owner, or the group to it, and nobody has to ask twice. *)
GroupOnItsWay ==
    \A w \in GroupWorkers :
        node[w] = "waiting" => \/ "get_group" \in Range(gpipe[<<w, GroupOwner>>])
                              \/ "group" \in Range(gpipe[<<GroupOwner, w>>])

(* While workers check, count and wait in parallel, the limit is nearly kept
   and nobody waits in vain. *)
GroupsSafe == GroupsTypeOK /\ LimitNearlyKept /\ GroupOnItsWay

(* When a request to delete the group has been carried out, the channels
   that it found are deleted: "DELETE to delete all channels in group". *)
DeletesAll ==
    (/\ \A p \in DOMAIN gpipe : "group_delete" \notin Range(gpipe[p])
     /\ \A w \in GroupWorkers : Call("delete") \notin Range(pending[w]))
        => doomed = {}
=============================================================================
