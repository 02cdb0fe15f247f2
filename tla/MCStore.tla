------------------------------- MODULE MCStore -------------------------------
(***************************************************************************)
(* Small instances of the parts of the memory store, of which a behaviour  *)
(* takes one (part): "chanhead" ChanheadLife, "multi" MultiMsg, "refs"     *)
(* MsgRefs, "reaper" Reaper.  The other parts stay in their first states.  *)
(***************************************************************************)
EXTENDS ChanheadLife, MultiMsg, MsgRefs, Reaper, TLC

CONSTANTS
    MaxHeads,  \* "chanhead": heads that either worker allocates
    MaxOwn,    \* "chanhead": clients of the owner; the other worker has MaxSubs
    MaxPipe,   \* "chanhead": alerts in a pipe when clients and timers act
    wo, wf, wg, r1, r2, r3

VARIABLE part

MCWorkerOf == r1 :> wo @@ r2 :> wf @@ r3 :> wg

MCKinds == {<<"RESCAN", 0>>, <<"ROTATE", 34>>, <<"ROTATE", 0>>, <<"KEEP_PLACE", 0>>, <<"KEEP_PLACE", 34>>}

(* What reads a pipe is bounded neither by the heads that the owner has
   allocated nor by the pipes, so that no bound stands between an alert and
   its answer. *)
Asked == Cardinality({k \in DOMAIN toOwn : toOwn[k].type = "subscribe"})

Bounded ==
    /\ Len(ipc') + Asked' <= MaxIpcSubs
    /\ fgn'.addr <= MaxHeads /\ own'.subs <= MaxOwn
    /\ \/ OwnerReads \/ ForeignReads
       \/ own'.addr <= MaxHeads /\ Len(toF') <= MaxPipe /\ Len(toOwn') <= MaxPipe

MCInit ==
    /\ part \in {"chanhead", "multi", "refs", "reaper"}
    /\ ChanheadInit /\ MultiInit /\ RefsInit /\ ReaperInit
    /\ part # "multi" => \A k \in Chans : chan[k] = <<>>
    /\ part # "reaper" => rp.strategy = "RESCAN"

MCNext ==
    /\ UNCHANGED part
    /\ IF part = "chanhead" THEN ChanheadNext /\ Bounded ELSE UNCHANGED chanheadVars
    /\ IF part = "multi" THEN MultiNext ELSE UNCHANGED multiVars
    /\ IF part = "refs" THEN RefsNext ELSE UNCHANGED refsVars
    /\ IF part = "reaper" THEN ReaperNext ELSE UNCHANGED reaperVars

(* The fairness of the parts.  In the first states of "chanhead", "refs" and
   "reaper" nothing is owed, so that their fairness asks nothing
   of a behaviour of another part; only a client of "multi" may be about to ask. *)
MCFairness ==
    /\ WF_chanheadVars(failed = "none" /\ OwnerReads /\ Bounded)
    /\ WF_chanheadVars(failed = "none" /\ ForeignReads /\ Bounded)
    /\ []<>(get.asked = {}) /\ []<>(get.answers = {})
    /\ []<>(get.lost = 0 \/ get.expired \/ timeouts = MaxTimeouts)
    /\ []<>(part # "multi" \/ get.on \/ want(client.id) = {})
    /\ \A k \in Chans : []<>(Unforwarded(k) = {})
    /\ RefsFairness /\ ReaperFairness

MCSpec ==
    MCInit /\ [][MCNext]_<<part, chanheadVars, multiVars, refsVars, reaperVars>> /\ MCFairness
=============================================================================
