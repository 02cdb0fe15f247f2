------------------------------- MODULE MCRedis -------------------------------
(***************************************************************************)
(* Small instances of the Redis store, of which a behaviour takes one      *)
(* (part): "nodeset" Nodeset, "channel" RedisChannel, "scripts"            *)
(* RedisScripts.  The other parts stand still.                             *)
(***************************************************************************)
EXTENDS MCNodeset, MCRedisChannel, MCRedisScripts

VARIABLE part

AnyOf(S) == CHOOSE x \in S : TRUE

(* A nodeset that has failed, and has no nodes yet, stands still: nothing is
   due in it. *)
StoppedNodeset ==
    /\ conf = Alone /\ srv = conf.srv /\ epoch = 1 /\ faults = MaxFaults
    /\ ns = [NewNodeset EXCEPT !.status = "ready", !.failed = {"not started"}]

MCInit ==
    /\ part \in {"nodeset", "channel", "scripts"}
    /\ IF part = "nodeset" THEN NodesetInit ELSE StoppedNodeset
    /\ RcInit /\ (part # "channel" => rc.conf = AnyOf(RcSetups))
    /\ RsInit /\ (part # "scripts" => rs.conf = AnyOf(RsSetups))

MCNext ==
    /\ UNCHANGED part
    /\ IF part = "nodeset" THEN NodesetNext ELSE UNCHANGED nodesetVars
    /\ IF part = "channel" THEN RcNext ELSE UNCHANGED rcVars
    /\ IF part = "scripts" THEN RsNext ELSE UNCHANGED rsVars

MCSpec == MCInit /\ [][MCNext]_<<part, nodesetVars, rcVars, rsVars>> /\ NodesetFairness
==============================================================================
