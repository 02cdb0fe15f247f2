------------------------------- MODULE Reaper -------------------------------
(***************************************************************************)
(* A reaper of util/nchan_reaper.c, at the level of its doubly linked list *)
(* of things, with its three strategies.  Readiness (rp->ready) is decided *)
(* elsewhere and changes at any time.                                      *)
(***************************************************************************)
EXTENDS Integers, FiniteSets

CONSTANTS
    Things,
    NULL,
    Kinds      \* pairs of a strategy and a max_notready_ratio, in percent

ASSUME ReaperAssumption ==
    /\ NULL \notin Things /\ IsFiniteSet(Things)
    /\ Kinds \subseteq {"RESCAN", "ROTATE", "KEEP_PLACE"} \X (0 .. 100)

VARIABLES
    rp,      \* the fields of nchan_reaper_t, and next and prev of the things
    timer,   \* the timer is set
    ready,   \* what may be reaped
    reaped,  \* what has been
    exiting  \* the reaper has been stopped

reaperVars == <<rp, timer, ready, reaped, exiting>>

nchan_reaper_start(strategy, percent) ==
    [strategy |-> strategy, percent |-> percent, first |-> NULL, last |-> NULL, count |-> 0, position |-> NULL,
     next |-> [t \in Things |-> NULL], prev |-> [t \in Things |-> NULL]]

ReaperInit ==
    /\ \E k \in Kinds : rp = nchan_reaper_start(k[1], k[2])
    /\ timer = FALSE /\ ready = {} /\ reaped = {} /\ exiting = FALSE

-----------------------------------------------------------------------------
(* Operations on the list; l is a value of rp. *)

set_next(l, t, u) == IF t = NULL THEN l ELSE [l EXCEPT !.next[t] = u]
set_prev(l, t, u) == IF t = NULL THEN l ELSE [l EXCEPT !.prev[t] = u]

append(l, t) ==
    LET l1 == set_next(l, l.last, t)
    IN  [l1 EXCEPT !.prev[t] = l.last, !.next[t] = NULL, !.last = t,
                   !.first = IF @ = NULL THEN t ELSE @]

(* Fault: the saved position is left at a thing that is withdrawn. *)
unlink_keep(l, t) ==
    LET l1 == set_prev(set_next(l, l.prev[t], l.next[t]), l.next[t], l.prev[t])
    IN  [l1 EXCEPT !.first = IF t = @ THEN l.next[t] ELSE @,
                   !.last = IF t = @ THEN l.prev[t] ELSE @,
                   !.count = @ - 1]

(* Taking t off the list: nchan_reaper_withdraw and reap_ready_thing. *)
unlink(l, t) ==
    LET l1 == set_prev(set_next(l, l.prev[t], l.next[t]), l.next[t], l.prev[t])
    IN  [l1 EXCEPT !.first = IF t = @ THEN l.next[t] ELSE @,
                   !.last = IF t = @ THEN l.prev[t] ELSE @,
                   !.position = IF l.strategy = "KEEP_PLACE" /\ @ = t THEN l.next[t] ELSE @,
                   !.count = @ - 1]

max_notready(l) == (l.percent * l.count) \div 100

(* A scan is a record: the list, the things reaped, and the loop's variables. *)
Scan(l, cur) ==
    [l |-> l, out |-> {}, notready |-> 0, n |-> 0, cur |-> cur, firstmoved |-> NULL]

(* Fault: a thing that is not ready is reaped. *)
visit_any(s, ok, max) ==
    [s EXCEPT !.l = unlink(s.l, s.cur), !.out = @ \cup {s.cur}]

(* What a scan does at cur: it is reaped, or is counted as not ready. *)
visit(s, ok, max) ==
    IF s.cur \in ok THEN [s EXCEPT !.l = unlink(s.l, s.cur), !.out = @ \cup {s.cur}]
    ELSE [s EXCEPT !.notready = IF max > 0 THEN @ + 1 ELSE @]

(* One round of the loop of its_reaping_time; a loop that is done stays. *)
rescan(s, ok, max) ==
    IF s.cur = NULL \/ s.notready > max THEN s
    ELSE [visit(s, ok, max) EXCEPT !.cur = s.l.next[s.cur]]

(* One round of its_reaping_time_keep_place, which goes on at the first thing
   after the last. *)
rescan_from(s, ok, max) ==
    IF s.n >= s.l.count \/ s.notready > max THEN s
    ELSE LET next == s.l.next[s.cur]
             s1 == visit(s, ok, max)
         IN  [s1 EXCEPT !.n = @ + 1, !.cur = IF next = NULL THEN s1.l.first ELSE next]

(* Fault: what is not ready stays at the head of the list. *)
move_to_end_never(l, t) == l

(* The move of its_reaping_rotating_time. *)
move_to_end(l, t) ==
    IF l.last = t THEN l
    ELSE LET l1 == append(set_prev(set_next(l, l.prev[t], l.next[t]), l.next[t], l.prev[t]), t)
         IN  [l1 EXCEPT !.first = IF @ = t THEN l.next[t] ELSE @]

(* One round of its_reaping_rotating_time. *)
rotate(s, ok, max) ==
    IF s.cur = NULL \/ s.cur = s.firstmoved \/ s.notready > max THEN s
    ELSE LET s1 == [visit(s, ok, max) EXCEPT !.cur = s.l.next[s.cur]]
         IN  IF s.cur \in ok THEN s1
             ELSE [s1 EXCEPT !.l = move_to_end(s.l, s.cur),
                             !.firstmoved = IF @ = NULL THEN s.cur ELSE @]

round(how, s, ok, max) ==
    IF how = "RESCAN" THEN rescan(s, ok, max)
    ELSE IF how = "ROTATE" THEN rotate(s, ok, max)
    ELSE rescan_from(s, ok, max)

(* A scan of list l.  No loop goes on for more rounds than there are things. *)
rounds(how, l, ok) ==
    LET from == IF how = "KEEP_PLACE" /\ l.position # NULL THEN l.position ELSE l.first
        after[k \in 0 .. l.count] ==
            IF k = 0 THEN Scan(l, from) ELSE round(how, after[k - 1], ok, max_notready(l))
    IN  after[l.count]

its_reaping_time(l, ok) == rounds("RESCAN", l, ok)

its_reaping_rotating_time(l, ok) == rounds("ROTATE", l, ok)

its_reaping_time_keep_place(l, ok) ==
    LET s == rounds("KEEP_PLACE", l, ok) IN [s EXCEPT !.l.position = s.cur]

-----------------------------------------------------------------------------
(* The things that can be reached from the first one: those in every set that
   holds it and whatever follows its members. *)
listed ==
    LET Closed(S) == /\ rp.first \in S \cup {NULL}
                     /\ \A t \in S : rp.next[t] \in S \cup {NULL}
    IN  {t \in Things : \A S \in SUBSET Things : Closed(S) => t \in S}

change_ready(t) ==
    /\ t \notin reaped
    /\ ready' = IF t \in ready THEN ready \ {t} ELSE ready \cup {t}
    /\ UNCHANGED <<rp, timer, reaped, exiting>>

(* reaper_reset_timer *)
reset_timer(set) == set \/ (~exiting /\ rp'.count > 0)

nchan_reaper_add(t) ==
    /\ t \notin listed \cup reaped /\ ~exiting
    /\ IF t \in ready
         THEN reaped' = reaped \cup {t} /\ UNCHANGED <<rp, timer>>
         ELSE /\ rp' = [append(rp, t) EXCEPT !.count = @ + 1]
              /\ timer' = reset_timer(timer)
              /\ UNCHANGED reaped
    /\ UNCHANGED <<ready, exiting>>

nchan_reaper_withdraw(t) ==
    /\ t \in listed /\ ~exiting
    /\ LET l == unlink(rp, t)
       IN  rp' = [l EXCEPT !.next[t] = NULL, !.prev[t] = NULL]
    /\ UNCHANGED <<timer, ready, reaped, exiting>>

reaper_timer_handler ==
    /\ timer
    /\ LET s == IF rp.strategy = "RESCAN" THEN its_reaping_time(rp, ready)
                ELSE IF rp.strategy = "ROTATE" THEN its_reaping_rotating_time(rp, ready)
                ELSE its_reaping_time_keep_place(rp, ready)
       IN  rp' = s.l /\ reaped' = reaped \cup s.out
    /\ timer' = reset_timer(FALSE)
    /\ UNCHANGED <<ready, exiting>>

(* nchan_reaper_stop, with nchan_reaper_flush: everything is reaped. *)
nchan_reaper_stop ==
    /\ ~exiting
    /\ LET s == its_reaping_time(rp, Things)
       IN  rp' = s.l /\ reaped' = reaped \cup s.out
    /\ timer' = FALSE /\ exiting' = TRUE
    /\ UNCHANGED ready

ReaperNext ==
    \/ \E t \in Things : change_ready(t) \/ nchan_reaper_add(t) \/ nchan_reaper_withdraw(t)
    \/ reaper_timer_handler
    \/ nchan_reaper_stop

(* The event loop runs the timer that is set. *)
ReaperFairness == WF_reaperVars(reaper_timer_handler)

ReaperSpec == ReaperInit /\ [][ReaperNext]_reaperVars /\ ReaperFairness

-----------------------------------------------------------------------------
(* The list is what verify_reaper_list says: as long as its count, linked in
   both directions from first to last, without reaped things. *)
ListWellFormed ==
    /\ Cardinality(listed) = rp.count
    /\ (rp.first = NULL) = (rp.last = NULL)
    /\ listed \cap reaped = {}
    /\ \A t \in listed : /\ (rp.next[t] = NULL) = (t = rp.last)
                         /\ (rp.prev[t] = NULL) = (t = rp.first)
                         /\ rp.next[t] # NULL => rp.prev[rp.next[t]] = t

(* The place that a KEEP_PLACE scan resumes from is on the list: neither a
   thing that was reaped nor one that was withdrawn. *)
PositionListed == rp.position \in listed \cup {NULL}

(* Nothing is forgotten: while there are things, the timer is set. *)
TimerSet == rp.count > 0 /\ ~exiting => timer

(* Scans, additions and withdrawals leave the reaper's list whole, the place
   it goes on from on the list, and the timer set if there is anything. *)
ReaperSafe == ListWellFormed /\ PositionListed /\ TimerSet

(* A thing that stays ready is reaped or withdrawn at last, however many
   that are not ready come first and are skipped or rotated. *)
EventuallyReaped ==
    \A t \in Things : <>[](t \in ready) => []<>(t \notin listed)

Queue == INSTANCE ReapQueue WITH held <- listed, gone <- reaped

(* The reaper keeps the promise of ReapQueue: what is handed over is reaped when
   it is ready, not before and once, though the walk over the list is cut
   short and goes on elsewhere. *)
KeepsPromise == Queue!QueueSpec
=============================================================================
