------------------------------ MODULE ReapQueue ------------------------------
(***************************************************************************)
(* What a reaper (util/nchan_reaper.c) promises to the store: a thing that *)
(* is handed over is reaped when it is ready, never before, and only once; *)
(* it may be taken back as long as it has not been reaped.                 *)
(***************************************************************************)
CONSTANTS Things

VARIABLES
    held,  \* the things handed over and not reaped
    gone,  \* the things that have been reaped
    ready  \* the things that their owner can spare

queueVars == <<held, gone, ready>>

QueueInit == held = {} /\ gone = {} /\ ready = {}

Change(t) ==
    /\ t \notin gone
    /\ ready' = IF t \in ready THEN ready \ {t} ELSE ready \cup {t}
    /\ UNCHANGED <<held, gone>>

(* Handing over; a thing that is ready is reaped at once. *)
HandOver(t) ==
    /\ t \notin held \cup gone
    /\ IF t \in ready THEN gone' = gone \cup {t} /\ UNCHANGED held
                      ELSE held' = held \cup {t} /\ UNCHANGED gone
    /\ UNCHANGED ready

TakeBack(t) == t \in held /\ held' = held \ {t} /\ UNCHANGED <<gone, ready>>

Reap(S) ==
    /\ S \subseteq held
    /\ held' = held \ S
    /\ gone' = gone \cup S
    /\ UNCHANGED ready

QueueNext ==
    \/ \E t \in Things : Change(t) \/ HandOver(t) \/ TakeBack(t)
    \/ \E S \in SUBSET (held \cap ready) : Reap(S)
    \/ Reap(held)   \* the worker exits

QueueSpec == QueueInit /\ [][QueueNext]_queueVars
=============================================================================
