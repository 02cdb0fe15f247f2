--------------------------- MODULE DeliveryProofs ---------------------------
(* Proofs about Spooler and Delivery, for any set of subscribers, any number *)
(* of messages, any length of the buffer and any behaviour of the store.     *)
EXTENDS Delivery, TLAPS

(* The current_msg_spool is always there and always MSG_EXPECTED. *)
CurrentSpool == spool[Newest] = "EXPECTED"

SpoolerInv == SpoolerTypeOK /\ SubscriberInItsSpool /\ CurrentSpool

(* What the ids are, in the form that the arithmetic of the proofs uses. *)
LEMMA Ids ==
    /\ MaxId \in Nat
    /\ \A i \in TreeIds : i \in Int /\ i # Newest /\ i # Idle /\ i \in SpoolIds
    /\ \A i \in SpoolIds : i \in TreeIds \/ i = Newest
    /\ \A m \in MsgIds : m \in TreeIds /\ m # Nth /\ m # Oldest /\ m \in Nat
    /\ Oldest \in TreeIds /\ Nth \in TreeIds /\ Newest \in SpoolIds
    /\ Newest \notin TreeIds /\ Idle \notin SpoolIds
    /\ Oldest # Newest /\ Newest # Idle /\ Nth # Newest /\ Nth # Idle
BY ConstantsAssumption
   DEF TreeIds, SpoolIds, MsgIds, Oldest, Newest, Nth, Idle

(* Deferring only ever picks among the spools that are about to fetch. *)
LEMMA DeferSubset == ASSUME NEW F, NEW D \in Deferrals(F) PROVE D \subseteq F
BY Zenon DEF Deferrals

(* Responding with a message and moving on to it keeps the invariant: every
   subscriber that moves ends in the spool of the message it was sent. *)
LEMMA RespondKeepsInv ==
    ASSUME SpoolerInv, NEW From \in SUBSET SpoolIds, NEW m \in MsgIds, m \notin From,
           NEW ft \in [TreeIds -> Nat], respond_and_nextmsg(From, m, ft),
           UNCHANGED <<status, stale>>
    PROVE  SpoolerInv'
<1> DEFINE at1 == [s \in Subs |-> IF at[s] \notin From THEN at[s]
                                  ELSE IF s \in LongPoll THEN Idle ELSE m]
           st == IF get_spool(spool, m) = "NOTREADY" /\ SubsIn(at1, m) # {}
                   THEN "INVALID" ELSE get_spool(spool, m)
           sp1 == [i \in SpoolIds |-> IF i \in From \ {Newest} THEN "none"
                                      ELSE IF i = m /\ From # {} THEN st
                                      ELSE spool[i]]
           fetch == IF From # {} /\ st = "INVALID" /\ SubsIn(at1, m) # {}
                      THEN {m} ELSE {}
           kept == IF ~Exists(m) /\ From \cap timer # {} THEN {m} ELSE {}
<1>1. /\ at' = at1
      /\ last' = [s \in Subs |-> IF at[s] \in From THEN m ELSE last[s]]
  BY Zenon DEF respond_and_nextmsg
<1>2. PICK T \in SUBSET kept, D \in Deferrals(fetch) :
         spool_fetch_msg(fetch, D, sp1, (timer \ From) \cup T, ft)
  BY Zenon DEF respond_and_nextmsg
<1>3. /\ m \in TreeIds /\ m # Newest /\ fetch \in SUBSET TreeIds
      /\ D \in SUBSET fetch /\ (timer \ From) \cup T \in SUBSET TreeIds
  <2>1. m \in TreeIds /\ m # Newest
    BY Ids, Zenon
  <2>2. fetch \subseteq {m} /\ kept \subseteq {m}
    BY Zenon
  <2>3. D \subseteq fetch
    <3> HIDE DEF fetch
    <3> QED BY DeferSubset, Zenon
  <2> QED BY <2>1, <2>2, <2>3, Zenon DEF SpoolerInv, SpoolerTypeOK
<1>4. st \in SpoolStatus /\ st # "none"
  BY <1>3, Ids, Zenon DEF get_spool, SpoolStatus, SpoolerInv, SpoolerTypeOK
<1> HIDE DEF st
<1>5. sp1 \in [SpoolIds -> SpoolStatus]
  BY <1>4, Zenon DEF SpoolerInv, SpoolerTypeOK, SpoolStatus
<1>6. at' \in [Subs -> SpoolIds \cup {Idle}] /\ last' \in [Subs -> SpoolIds]
  BY <1>1, <1>3, Ids, Zenon DEF SpoolerInv, SpoolerTypeOK
<1> HIDE DEF fetch, kept
<1>7. /\ spool' \in [SpoolIds -> SpoolStatus] /\ timer' \in SUBSET TreeIds
      /\ fetches' \in [TreeIds -> Nat] /\ crash' \in CrashSites
      /\ \A i \in SpoolIds : i \notin fetch => spool'[i] = sp1[i]
      /\ \A i \in SpoolIds : sp1[i] # "none" => spool'[i] # "none"
  <2> DEFINE tm == (timer \ From) \cup T
  <2> tm \in SUBSET TreeIds /\ spool_fetch_msg(fetch, D, sp1, tm, ft)
    BY <1>2, <1>3, Zenon
  <2> crash \in CrashSites
    BY Zenon DEF SpoolerInv, SpoolerTypeOK
  <2> HIDE DEF sp1, tm
  <2> QED BY <1>3, <1>5, Ids DEF spool_fetch_msg, SpoolStatus, CrashSites
<1>8. CurrentSpool'
  BY <1>3, <1>7, Ids, Zenon DEF CurrentSpool, SpoolerInv, fetch
<1>9. SubscriberInItsSpool'
  <2> SUFFICES ASSUME NEW s \in Subs, at'[s] # Idle
               PROVE  /\ spool'[at'[s]] # "none"
                      /\ at'[s] = last'[s] \/ (at'[s] = Newest /\ last'[s] = Nth)
    BY Zenon DEF SubscriberInItsSpool, Exists
  <2>1. CASE at[s] \in From
    BY <1>1, <1>3, <1>4, <1>7, <2>1, Ids, Zenon
  <2>2. CASE at[s] \notin From
    BY <1>1, <1>3, <1>4, <1>7, <2>2, Ids
       DEF SpoolerInv, SubscriberInItsSpool, Exists, SpoolerTypeOK
  <2> QED BY <2>1, <2>2, Zenon
<1> QED BY <1>6, <1>7, <1>8, <1>9, Zenon DEF SpoolerInv, SpoolerTypeOK

(* start_spooler leaves nothing but the current_msg_spool. *)
LEMMA InitInv == SpoolerInit => SpoolerInv
<1> SUFFICES ASSUME SpoolerInit PROVE SpoolerInv
  BY Zenon
<1>1. start_spooler \in [SpoolIds -> SpoolStatus] /\ start_spooler[Newest] = "EXPECTED"
  BY Ids, Zenon DEF start_spooler, SpoolStatus
<1>2. Starts \subseteq SpoolIds
  BY ConstantsAssumption, Ids, Zenon DEF SpoolIds, Newest, Nth, Oldest
<1> QED
  BY <1>1, <1>2, Ids, Zenon DEF SpoolerInit, SpoolerInv, SpoolerTypeOK, CrashSites,
     SubscriberInItsSpool, CurrentSpool

(* Every handler of the spooler keeps the invariant. *)
LEMMA StepInv == SpoolerInv /\ [SpoolerNext]_spoolerVars => SpoolerInv'
<1> SUFFICES ASSUME SpoolerInv, [SpoolerNext]_spoolerVars PROVE SpoolerInv'
  BY Zenon
<1> USE Ids DEF SpoolerInv, SpoolerTypeOK
<1>fresh. start_spooler \in [SpoolIds -> SpoolStatus] /\ start_spooler[Newest] = "EXPECTED"
  BY Zenon DEF start_spooler, SpoolStatus
<1>1. ASSUME NEW s \in Subs, spooler_add_subscriber(s) PROVE SpoolerInv'
  <2> DEFINE i == last[s]
             sp1 == [spool EXCEPT ![i] = get_spool(spool, i)]
             fetch == IF sp1[i] = "INVALID" THEN {i} ELSE {}
  <2>1. PICK D \in Deferrals(fetch) : spool_fetch_msg(fetch, D, sp1, timer, fetches)
    BY <1>1, Zenon DEF spooler_add_subscriber
  <2>2. i \in SpoolIds /\ sp1 \in [SpoolIds -> SpoolStatus]
    BY Zenon DEF get_spool, SpoolStatus
  <2>3. sp1[i] # "none" /\ \A j \in SpoolIds : j # i => sp1[j] = spool[j]
    BY Zenon DEF get_spool
  <2>4. sp1[Newest] = "EXPECTED"
    BY Zenon DEF get_spool, CurrentSpool
  <2>5. fetch \in SUBSET TreeIds
    BY <2>2, <2>4, Zenon
  <2>6. D \in SUBSET fetch
    BY DeferSubset, Zenon
  <2> HIDE DEF sp1, fetch
  <2>7. /\ spool' \in [SpoolIds -> SpoolStatus] /\ timer' \in SUBSET TreeIds
        /\ fetches' \in [TreeIds -> Nat] /\ crash' \in CrashSites
        /\ \A j \in SpoolIds : j \notin fetch => spool'[j] = sp1[j]
        /\ \A j \in SpoolIds : sp1[j] # "none" => spool'[j] # "none"
    BY <2>1, <2>2, <2>5, <2>6 DEF spool_fetch_msg, SpoolStatus, CrashSites
  <2>8. CurrentSpool'
    BY <2>4, <2>5, <2>7, Zenon DEF CurrentSpool
  <2>9. at' = [at EXCEPT ![s] = i] /\ UNCHANGED <<status, last, stale>>
    BY <1>1, Zenon DEF spooler_add_subscriber
  <2>10. SubscriberInItsSpool'
    BY <2>2, <2>3, <2>7, <2>9, Zenon DEF SubscriberInItsSpool, Exists
  <2> QED BY <2>2, <2>7, <2>8, <2>9, <2>10, Zenon
<1>2. ASSUME NEW s \in Subs, spool_sub_dequeue_callback(s) PROVE SpoolerInv'
  BY <1>2, Zenon DEF spool_sub_dequeue_callback, SubscriberInItsSpool, Exists, CurrentSpool
<1>3. CASE spooler_broadcast_status
  BY <1>3, Zenon DEF spooler_broadcast_status, SubscriberInItsSpool, Exists, CurrentSpool
<1>4. ASSUME NEW m \in MsgIds, NEW prev \in 0 .. m - 1, spooler_respond_message(prev, m)
      PROVE  SpoolerInv'
  <2> DEFINE current == IF SubsIn(at, Newest) # {} THEN {Newest} ELSE {}
             From == InRange(prev, m) \cup current
  <2>1. From \in SUBSET SpoolIds /\ m \notin From
    BY DEF InRange
  <2>2. respond_and_nextmsg(From, m, fetches) /\ UNCHANGED <<status, stale>>
    BY <1>4, Zenon DEF spooler_respond_message
  <2> HIDE DEF From
  <2> QED BY <2>1, <2>2, RespondKeepsInv, Zenon
<1>5. ASSUME NEW i \in TreeIds, fetch_callback_discard(i) PROVE SpoolerInv'
  BY <1>5 DEF fetch_callback_discard, unlinked, Answered, SubscriberInItsSpool,
     Exists, CurrentSpool
<1>6. ASSUME NEW i \in TreeIds, NEW m \in MsgIds, i < m, fetch_callback_found(i, m)
      PROVE  SpoolerInv'
  <2>1. {i} \in SUBSET SpoolIds /\ m \notin {i}
    BY <1>6
  <2>2. unlinked(i) \in [TreeIds -> Nat]
    BY <1>6 DEF fetch_callback_found, unlinked, Answered
  <2>3. respond_and_nextmsg({i}, m, unlinked(i)) /\ UNCHANGED <<status, stale>>
    BY <1>6, Zenon DEF fetch_callback_found
  <2> QED BY <2>1, <2>2, <2>3, RespondKeepsInv, Zenon
<1>7. ASSUME NEW i \in TreeIds, fetch_callback_expected(i) PROVE SpoolerInv'
  <2>1. fetches' \in [TreeIds -> Nat]
    BY <1>7 DEF fetch_callback_expected, unlinked, Answered
  <2>2. CASE i = Nth
    BY <1>7, <2>1, <2>2 DEF fetch_callback_expected, transfer_at, SubscriberInItsSpool,
       Exists, CurrentSpool, SpoolStatus
  <2>3. CASE i # Nth
    BY <1>7, <2>1, <2>3 DEF fetch_callback_expected, SubscriberInItsSpool,
       Exists, CurrentSpool, SpoolStatus
  <2> QED BY <2>2, <2>3, Zenon
<1>8. ASSUME NEW i \in TreeIds, fetch_callback_error(i) PROVE SpoolerInv'
  BY <1>8 DEF fetch_callback_error, unlinked, Answered, transfer_at,
     SubscriberInItsSpool, Exists, CurrentSpool
<1>9. ASSUME NEW i \in TreeIds, fetchmsg_ev_handler(i) PROVE SpoolerInv'
  <2> DEFINE fetch == IF spool[i] = "INVALID" THEN {i} ELSE {}
  <2>1. /\ spool' \in [SpoolIds -> SpoolStatus] /\ timer' \in SUBSET TreeIds
        /\ fetches' \in [TreeIds -> Nat] /\ crash' \in CrashSites
        /\ \A j \in SpoolIds : j # i => spool'[j] = spool[j]
        /\ \A j \in SpoolIds : spool[j] # "none" => spool'[j] # "none"
    BY <1>9 DEF fetchmsg_ev_handler, spool_fetch_msg, SpoolStatus, CrashSites
  <2> QED
    BY <1>9, <2>1, Zenon DEF fetchmsg_ev_handler, SubscriberInItsSpool, Exists, CurrentSpool
<1>10. ASSUME NEW i \in TreeIds, fetch_callback_notfound(i) PROVE SpoolerInv'
  <2> DEFINE nuspool == IF i = Oldest THEN Newest ELSE Oldest
             sp1 == [spool EXCEPT ![i] = "none", ![nuspool] = get_spool(spool, nuspool)]
             fetch == {nuspool} \ {Newest}
  <2>1. PICK D \in Deferrals(fetch) :
           spool_fetch_msg(fetch, D, sp1, timer \ {i}, unlinked(i))
    BY <1>10, Zenon DEF fetch_callback_notfound
  <2>2. unlinked(i) \in [TreeIds -> Nat]
    BY <1>10 DEF fetch_callback_notfound, unlinked, Answered
  <2>3. nuspool \in SpoolIds /\ nuspool # i /\ fetch \in SUBSET TreeIds
    BY Zenon
  <2>4. D \in SUBSET fetch
    BY DeferSubset, Zenon
  <2>5. at' = transfer_at(i, nuspool) /\ last' = transfer_last(i, nuspool)
    BY <1>10, Zenon DEF fetch_callback_notfound
  <2>6. UNCHANGED <<status, stale>>
    BY <1>10, Zenon DEF fetch_callback_notfound
  <2> HIDE DEF nuspool
  <2>7. /\ sp1 \in [SpoolIds -> SpoolStatus]
        /\ sp1[nuspool] # "none"
        /\ \A j \in SpoolIds : j # i /\ j # nuspool => sp1[j] = spool[j]
    BY <2>3, Zenon DEF get_spool, SpoolStatus
  <2>8. sp1[Newest] = "EXPECTED"
    BY <2>3, Zenon DEF get_spool, CurrentSpool
  <2> HIDE DEF sp1
  <2>9. /\ spool' \in [SpoolIds -> SpoolStatus] /\ timer' \in SUBSET TreeIds
        /\ fetches' \in [TreeIds -> Nat] /\ crash' \in CrashSites
        /\ \A j \in SpoolIds : j \notin fetch => spool'[j] = sp1[j]
        /\ \A j \in SpoolIds : sp1[j] # "none" => spool'[j] # "none"
    BY <2>1, <2>2, <2>3, <2>4, <2>7 DEF spool_fetch_msg, SpoolStatus, CrashSites
  <2>10. SubscriberInItsSpool'
    BY <2>3, <2>5, <2>7, <2>9
       DEF SubscriberInItsSpool, Exists, transfer_at, transfer_last
  <2> QED
    BY <2>3, <2>5, <2>6, <2>8, <2>9, <2>10, Zenon DEF CurrentSpool, transfer_at, transfer_last
<1>11. CASE spooler_channel_status_changed
  <2> DEFINE F == {i \in TreeIds : spool[i] \in {"NOTREADY", "INVALID"}}
  <2>1. /\ spool' \in [SpoolIds -> SpoolStatus] /\ timer' \in SUBSET TreeIds
        /\ fetches' \in [TreeIds -> Nat] /\ spool'[Newest] = spool[Newest]
    BY <1>11 DEF spooler_channel_status_changed, its_time_for_a_spooling, Deferrals, SpoolStatus
  <2>2. \A j \in SpoolIds : SubsIn(at, j) # {} /\ spool[j] # "none" => spool'[j] # "none"
    BY <1>11, Zenon DEF spooler_channel_status_changed, its_time_for_a_spooling
  <2>3. \A s \in Subs : at[s] # Idle => SubsIn(at, at[s]) # {}
    BY Zenon DEF SubsIn
  <2>4. SubscriberInItsSpool'
    BY <1>11, <2>2, <2>3, Zenon DEF spooler_channel_status_changed, its_time_for_a_spooling,
       SubscriberInItsSpool, Exists
  <2> QED BY <1>11, <2>1, <2>4, Zenon DEF spooler_channel_status_changed, CurrentSpool
<1>12. CASE channel_waits
  BY <1>12, Zenon DEF channel_waits, SubscriberInItsSpool, Exists, CurrentSpool
<1>13. CASE spooler_catch_up
  <2> DEFINE F == {i \in TreeIds : spool[i] \in {"EXPECTED", "PENDING"}}
             sp1 == [i \in SpoolIds |-> IF i \in F THEN "INVALID" ELSE spool[i]]
  <2>1. PICK D \in Deferrals(F) : spool_fetch_msg(F, D, sp1, timer, fetches)
    BY <1>13, Zenon DEF spooler_catch_up
  <2>2. F \in SUBSET TreeIds /\ D \in SUBSET F
    BY DeferSubset, Zenon
  <2>3. /\ sp1 \in [SpoolIds -> SpoolStatus] /\ sp1[Newest] = spool[Newest]
        /\ \A j \in SpoolIds : spool[j] # "none" => sp1[j] # "none"
    BY Zenon DEF SpoolStatus
  <2> HIDE DEF F, sp1
  <2>4. /\ spool' \in [SpoolIds -> SpoolStatus] /\ timer' \in SUBSET TreeIds
        /\ fetches' \in [TreeIds -> Nat] /\ crash' \in CrashSites
        /\ spool'[Newest] = spool[Newest]
        /\ \A j \in SpoolIds : spool[j] # "none" => spool'[j] # "none"
    BY <2>1, <2>2, <2>3 DEF spool_fetch_msg, SpoolStatus, CrashSites
  <2> QED
    BY <1>13, <2>4, Zenon DEF spooler_catch_up, SubscriberInItsSpool, Exists, CurrentSpool
<1>14. CASE stop_spooler
  BY <1>14, <1>fresh DEF stop_spooler, SubscriberInItsSpool, Exists, CurrentSpool
<1>15. ASSUME NEW i \in TreeIds, stale_fetch_callback(i) PROVE SpoolerInv'
  BY <1>15 DEF stale_fetch_callback, SubscriberInItsSpool, Exists, CurrentSpool, CrashSites
<1>16. CASE respawn
  BY <1>16, <1>fresh, Zenon DEF respawn, SubscriberInItsSpool, Exists, CurrentSpool, CrashSites
<1>17. CASE UNCHANGED spoolerVars
  BY <1>17, Zenon DEF spoolerVars, SubscriberInItsSpool, Exists, CurrentSpool
<1> QED
  BY <1>1, <1>2, <1>3, <1>4, <1>5, <1>6, <1>7, <1>8, <1>9, <1>10, <1>11, <1>12,
     <1>13, <1>14, <1>15, <1>16, <1>17, Zenon DEF SpoolerNext

(* Every variable keeps its type, whatever the store and the channel do. *)
THEOREM TypeCorrect == SpoolerSpec => []SpoolerTypeOK
<1>1. SpoolerInv => SpoolerTypeOK
  BY Zenon DEF SpoolerInv
<1> QED BY <1>1, InitInv, StepInv, PTL DEF SpoolerSpec

(* Every subscriber is in an existing spool that stands at the subscriber's
   own position, whatever the store and the channel do. *)
THEOREM SubscribersPlaced == SpoolerSpec => []SubscriberInItsSpool
<1>1. SpoolerInv => SubscriberInItsSpool
  BY Zenon DEF SpoolerInv
<1> QED BY <1>1, InitInv, StepInv, PTL DEF SpoolerSpec

-----------------------------------------------------------------------------
(* One step of NeverBack, as a predicate on steps. *)
NotBack ==
    \A s \in Subs : last[s] \in MsgIds => last'[s] >= last[s] \/ last'[s] = Oldest

(* A subscriber that is sent m was in the spool of its own position, and
   that spool's id is below m. *)
LEMMA RespondNotBack ==
    ASSUME SpoolerInv, NEW From \in SUBSET SpoolIds, NEW m \in MsgIds, NEW ft,
           \A i \in From : i < m, respond_and_nextmsg(From, m, ft)
    PROVE  NotBack
<1> SUFFICES ASSUME NEW s \in Subs, last[s] \in MsgIds
             PROVE  last'[s] >= last[s]
  BY Zenon DEF NotBack
<1>1. last' = [t \in Subs |-> IF at[t] \in From THEN m ELSE last[t]]
  BY Zenon DEF respond_and_nextmsg
<1>2. CASE at[s] \notin From
  BY <1>1, <1>2, Ids
<1>3. CASE at[s] \in From
  <2>1. at[s] = last[s]
    BY <1>3, Ids, Zenon DEF SpoolerInv, SubscriberInItsSpool
  <2> QED BY <1>1, <1>3, <2>1, Ids
<1> QED BY <1>2, <1>3, Zenon

(* A subscriber only ever moves forward in its channel, or to the oldest
   message when the store has lost its place. *)
THEOREM OnlyForward == SpoolerSpec => NeverBack
<1>1. SpoolerInv /\ [SpoolerNext]_spoolerVars => [NotBack]_spoolerVars
  <2> SUFFICES ASSUME SpoolerInv, SpoolerNext PROVE NotBack
    BY Zenon
  <2> USE Ids DEF NotBack
  <2>1. CASE UNCHANGED last
    BY <2>1
  <2>2. ASSUME NEW m \in MsgIds, NEW prev \in 0 .. m - 1, spooler_respond_message(prev, m)
        PROVE  NotBack
    <3> DEFINE current == IF SubsIn(at, Newest) # {} THEN {Newest} ELSE {}
               From == InRange(prev, m) \cup current
    <3>1. From \in SUBSET SpoolIds /\ \A i \in From : i < m
      BY DEF InRange, Newest
    <3>2. respond_and_nextmsg(From, m, fetches)
      BY <2>2, Zenon DEF spooler_respond_message
    <3> HIDE DEF From
    <3> QED BY <3>1, <3>2, RespondNotBack, Zenon
  <2>3. ASSUME NEW i \in TreeIds, NEW m \in MsgIds, i < m, fetch_callback_found(i, m)
        PROVE  NotBack
    <3>1. {i} \in SUBSET SpoolIds /\ \A j \in {i} : j < m
      BY <2>3, Zenon
    <3>2. respond_and_nextmsg({i}, m, unlinked(i))
      BY <2>3, Zenon DEF fetch_callback_found
    <3> QED BY <3>1, <3>2, RespondNotBack, Zenon
  <2>4. ASSUME NEW i \in TreeIds, fetch_callback_notfound(i) PROVE NotBack
    <3>1. last' = transfer_last(i, IF i = Oldest THEN Newest ELSE Oldest)
      BY <2>4, Zenon DEF fetch_callback_notfound
    <3>2. \A s \in Subs : at[s] = i /\ last[s] \in MsgIds => i = last[s]
      BY Zenon DEF SpoolerInv, SubscriberInItsSpool
    <3> QED BY <3>1, <3>2 DEF transfer_last
  <2> QED
    BY <2>1, <2>2, <2>3, <2>4, Zenon
       DEF SpoolerNext, spooler_add_subscriber, spool_sub_dequeue_callback,
           spooler_broadcast_status, fetch_callback_discard, fetch_callback_expected,
           fetch_callback_error, fetchmsg_ev_handler, stale_fetch_callback,
           spooler_channel_status_changed, its_time_for_a_spooling, channel_waits, spooler_catch_up,
           stop_spooler, respawn
<1> QED BY <1>1, InitInv, StepInv, PTL DEF SpoolerSpec, NeverBack, NotBack

-----------------------------------------------------------------------------
(* What makes WaitsForSomething inductive.  The READY condition moves into
   the last conjunct: a channel that is not READY still has to remember which
   answers and timers it is owed. *)
PendingIsAsked == \A i \in TreeIds : spool[i] = "PENDING" => fetches[i] > 0
InvalidHasTimer ==
    \A s \in Subs : at[s] # Idle /\ spool[at[s]] = "INVALID" => at[s] \in timer
ReadyIsHeard == status = "READY" => \A i \in TreeIds : spool[i] # "NOTREADY"

WakeInv == crash = "none" => PendingIsAsked /\ InvalidHasTimer /\ ReadyIsHeard

(* The strengthening implies the property. *)
LEMMA WakeImplies == SpoolerInv /\ WakeInv => WaitsForSomething
BY Ids, Zenon DEF SpoolerInv, SpoolerTypeOK, SubscriberInItsSpool, Exists, CurrentSpool, WakeInv,
   PendingIsAsked, InvalidHasTimer, ReadyIsHeard, WaitsForSomething, SpoolStatus

(* A call of spool_fetch_msg, for a caller that leaves (sp, tm, ft) and the
   subscribers of the spools that are MSG_INVALID in F or in tm. *)
LEMMA FetchWakes ==
    ASSUME NEW F \in SUBSET TreeIds, NEW D \in SUBSET F, NEW sp \in [SpoolIds -> SpoolStatus],
           NEW tm, NEW ft \in [TreeIds -> Nat],
           at' \in [Subs -> SpoolIds \cup {Idle}],
           spool_fetch_msg(F, D, sp, tm, ft), UNCHANGED status,
           \A i \in TreeIds : sp[i] = "PENDING" => ft[i] > 0,
           \A s \in Subs : at'[s] # Idle /\ sp[at'[s]] = "INVALID" => at'[s] \in tm \cup F,
           status = "READY" => \A i \in TreeIds : sp[i] # "NOTREADY"
    PROVE  PendingIsAsked' /\ InvalidHasTimer' /\ ReadyIsHeard'
<1> USE DEF spool_fetch_msg
<1>1. PendingIsAsked'
  BY Ids DEF PendingIsAsked
<1>2. InvalidHasTimer'
  BY Ids, Zenon DEF InvalidHasTimer
<1>3. ReadyIsHeard'
  BY Ids, Zenon DEF ReadyIsHeard
<1> QED BY <1>1, <1>2, <1>3, Zenon

(* Subscribers that move on to a message find something to wait for there. *)
LEMMA RespondWakes ==
    ASSUME SpoolerInv, PendingIsAsked, InvalidHasTimer, ReadyIsHeard,
           NEW From \in SUBSET SpoolIds, NEW m \in MsgIds, m \notin From,
           NEW ft \in [TreeIds -> Nat], \A i \in TreeIds \ From : ft[i] = fetches[i],
           respond_and_nextmsg(From, m, ft), UNCHANGED <<status, stale>>
    PROVE  PendingIsAsked' /\ InvalidHasTimer' /\ ReadyIsHeard'
<1> DEFINE at1 == [s \in Subs |-> IF at[s] \notin From THEN at[s]
                                  ELSE IF s \in LongPoll THEN Idle ELSE m]
           st == IF get_spool(spool, m) = "NOTREADY" /\ SubsIn(at1, m) # {}
                   THEN "INVALID" ELSE get_spool(spool, m)
           sp1 == [i \in SpoolIds |-> IF i \in From \ {Newest} THEN "none"
                                      ELSE IF i = m /\ From # {} THEN st
                                      ELSE spool[i]]
           fetch == IF From # {} /\ st = "INVALID" /\ SubsIn(at1, m) # {}
                      THEN {m} ELSE {}
           kept == IF ~Exists(m) /\ From \cap timer # {} THEN {m} ELSE {}
<1>1. at' = at1
  BY Zenon DEF respond_and_nextmsg
<1>2. PICK T \in SUBSET kept, D \in Deferrals(fetch) :
         spool_fetch_msg(fetch, D, sp1, (timer \ From) \cup T, ft)
  BY Zenon DEF respond_and_nextmsg
<1> DEFINE tm == (timer \ From) \cup T
<1>3. m \in TreeIds /\ m # Newest /\ fetch \in SUBSET TreeIds
  BY Ids, Zenon
<1>4. D \in SUBSET fetch
  <2> HIDE DEF fetch
  <2> QED BY DeferSubset, Zenon
<1>5. at' \in [Subs -> SpoolIds \cup {Idle}]
  BY RespondKeepsInv, Zenon DEF SpoolerInv, SpoolerTypeOK
<1>6. /\ st \in SpoolStatus
      /\ st = "PENDING" => spool[m] = "PENDING"
      /\ st = "NOTREADY" => spool[m] = "NOTREADY"
  BY <1>3, Ids, Zenon DEF get_spool, SpoolStatus, SpoolerInv, SpoolerTypeOK
<1>7. \A s \in Subs : at1[s] = m => SubsIn(at1, m) # {}
  BY Zenon DEF SubsIn
<1> HIDE DEF st
<1>8. sp1 \in [SpoolIds -> SpoolStatus]
  BY <1>6, Zenon DEF SpoolerInv, SpoolerTypeOK, SpoolStatus
<1>9. \A i \in TreeIds : sp1[i] = "PENDING" => ft[i] > 0
  BY <1>3, <1>6, Ids, Zenon DEF PendingIsAsked
<1>10. \A s \in Subs : at'[s] # Idle /\ sp1[at'[s]] = "INVALID" => at'[s] \in tm \cup fetch
  <2> SUFFICES ASSUME NEW s \in Subs, at1[s] # Idle, sp1[at1[s]] = "INVALID"
               PROVE  at1[s] \in tm \cup fetch
    BY <1>1, Zenon
  <2>1. CASE at1[s] = m /\ From # {}
    BY <1>3, <1>7, <2>1, Ids, Zenon
  <2>2. CASE ~(at1[s] = m /\ From # {})
    <3>1. at[s] \notin From /\ at1[s] = at[s]
      BY <2>2, Zenon
    <3>2. spool[at[s]] = "INVALID"
      BY <2>2, <3>1, Ids, Zenon DEF SpoolerInv, SpoolerTypeOK
    <3> QED BY <3>1, <3>2, Zenon DEF InvalidHasTimer
  <2> QED BY <2>1, <2>2, Zenon
<1>11. status = "READY" => \A i \in TreeIds : sp1[i] # "NOTREADY"
  BY <1>3, <1>6, Ids, Zenon DEF ReadyIsHeard
<1>12. spool_fetch_msg(fetch, D, sp1, tm, ft)
  BY <1>2, Zenon
<1> HIDE DEF at1, sp1, fetch, tm
<1> QED BY <1>3, <1>4, <1>5, <1>8, <1>9, <1>10, <1>11, <1>12, FetchWakes

(* Every handler keeps the strengthening, when the store does not fail. *)
LEMMA WakeStep ==
    ASSUME ~MayFail, SpoolerInv, WakeInv, [SpoolerNext]_spoolerVars
    PROVE  WakeInv'
<1> SUFFICES ASSUME crash' = "none"
             PROVE  PendingIsAsked' /\ InvalidHasTimer' /\ ReadyIsHeard'
  BY Zenon DEF WakeInv
<1>type. SpoolerInv'
  BY StepInv, Zenon
<1> USE Ids DEF SpoolerInv, SpoolerTypeOK
<1>0. CASE crash # "none"
  <2>1. respawn \/ UNCHANGED spoolerVars
    BY <1>0, Zenon DEF SpoolerNext, spooler_add_subscriber, spool_sub_dequeue_callback,
       spooler_broadcast_status, spooler_respond_message, fetch_callback_discard,
       fetch_callback_found, fetch_callback_expected, fetch_callback_notfound,
       fetch_callback_error, fetchmsg_ev_handler, stale_fetch_callback, Answered,
       spooler_channel_status_changed, its_time_for_a_spooling, channel_waits,
       spooler_catch_up, stop_spooler
  <2>2. CASE respawn
    BY <2>2, Zenon DEF respawn, start_spooler, PendingIsAsked, InvalidHasTimer, ReadyIsHeard
  <2>3. CASE UNCHANGED spoolerVars
    BY <1>0, <2>3, Zenon DEF spoolerVars
  <2> QED BY <2>1, <2>2, <2>3, Zenon
<1> SUFFICES ASSUME PendingIsAsked, InvalidHasTimer, ReadyIsHeard
             PROVE  PendingIsAsked' /\ InvalidHasTimer' /\ ReadyIsHeard'
  BY <1>0, Zenon DEF WakeInv
<1>1. ASSUME NEW s \in Subs, spooler_add_subscriber(s)
      PROVE  PendingIsAsked' /\ InvalidHasTimer' /\ ReadyIsHeard'
  <2> DEFINE i == last[s]
             sp1 == [spool EXCEPT ![i] = get_spool(spool, i)]
             fetch == IF sp1[i] = "INVALID" THEN {i} ELSE {}
  <2>1. PICK D \in Deferrals(fetch) : spool_fetch_msg(fetch, D, sp1, timer, fetches)
    BY <1>1, Zenon DEF spooler_add_subscriber
  <2>2. i \in SpoolIds /\ sp1 \in [SpoolIds -> SpoolStatus]
    BY Zenon DEF get_spool, SpoolStatus
  <2>3. at' = [at EXCEPT ![s] = i] /\ UNCHANGED status
    BY <1>1, Zenon DEF spooler_add_subscriber
  <2>4. sp1[Newest] = "EXPECTED"
    BY Zenon DEF get_spool, CurrentSpool
  <2>5. fetch \in SUBSET TreeIds
    BY <2>2, <2>4, Zenon
  <2>6. D \in SUBSET fetch
    BY DeferSubset, Zenon
  <2>7. \A j \in TreeIds : sp1[j] = "PENDING" => fetches[j] > 0
    BY <2>2, Zenon DEF get_spool, PendingIsAsked
  <2>8. \A t \in Subs : at'[t] # Idle /\ sp1[at'[t]] = "INVALID"
                          => at'[t] \in timer \cup fetch
    BY <2>2, <2>3, Zenon DEF get_spool, InvalidHasTimer
  <2>9. status = "READY" => \A j \in TreeIds : sp1[j] # "NOTREADY"
    BY <2>2, Zenon DEF get_spool, ReadyIsHeard
  <2>10. at' \in [Subs -> SpoolIds \cup {Idle}]
    BY <1>type, Zenon
  <2>11. UNCHANGED status /\ fetches \in [TreeIds -> Nat]
    BY <2>3, Zenon
  <2> HIDE DEF sp1, fetch, SpoolerInv
  <2> QED BY <2>1, <2>2, <2>5, <2>6, <2>7, <2>8, <2>9, <2>10, <2>11, FetchWakes
<1>2. ASSUME NEW s \in Subs, spool_sub_dequeue_callback(s)
      PROVE  PendingIsAsked' /\ InvalidHasTimer' /\ ReadyIsHeard'
  BY <1>2, Zenon DEF spool_sub_dequeue_callback, PendingIsAsked, InvalidHasTimer, ReadyIsHeard
<1>3. CASE spooler_broadcast_status
  BY <1>3, Zenon DEF spooler_broadcast_status, PendingIsAsked, InvalidHasTimer, ReadyIsHeard
<1>4. ASSUME NEW m \in MsgIds, NEW prev \in 0 .. m - 1, spooler_respond_message(prev, m)
      PROVE  PendingIsAsked' /\ InvalidHasTimer' /\ ReadyIsHeard'
  <2> DEFINE current == IF SubsIn(at, Newest) # {} THEN {Newest} ELSE {}
             From == InRange(prev, m) \cup current
  <2>1. From \in SUBSET SpoolIds /\ m \notin From
    BY DEF InRange
  <2>2. respond_and_nextmsg(From, m, fetches) /\ UNCHANGED <<status, stale>>
    BY <1>4, Zenon DEF spooler_respond_message
  <2> HIDE DEF From
  <2> QED BY <2>1, <2>2, RespondWakes, Zenon
<1>5. ASSUME NEW i \in TreeIds, fetch_callback_discard(i)
      PROVE  PendingIsAsked' /\ InvalidHasTimer' /\ ReadyIsHeard'
  BY <1>5, Zenon DEF fetch_callback_discard, unlinked, Exists, PendingIsAsked,
     InvalidHasTimer, ReadyIsHeard
<1>6. ASSUME NEW i \in TreeIds, NEW m \in MsgIds, i < m, fetch_callback_found(i, m)
      PROVE  PendingIsAsked' /\ InvalidHasTimer' /\ ReadyIsHeard'
  <2>1. {i} \in SUBSET SpoolIds /\ m \notin {i}
    BY <1>6
  <2>2. /\ unlinked(i) \in [TreeIds -> Nat]
        /\ \A j \in TreeIds \ {i} : unlinked(i)[j] = fetches[j]
    BY <1>6 DEF fetch_callback_found, unlinked, Answered
  <2>3. respond_and_nextmsg({i}, m, unlinked(i)) /\ UNCHANGED <<status, stale>>
    BY <1>6, Zenon DEF fetch_callback_found
  <2> QED BY <2>1, <2>2, <2>3, RespondWakes, Zenon
<1>7. ASSUME NEW i \in TreeIds, fetch_callback_expected(i)
      PROVE  PendingIsAsked' /\ InvalidHasTimer' /\ ReadyIsHeard'
  <2> USE <1>7 DEF fetch_callback_expected, unlinked
  <2>1. PendingIsAsked'
    BY Zenon DEF PendingIsAsked
  <2>2. InvalidHasTimer'
    BY DEF InvalidHasTimer, transfer_at, CurrentSpool
  <2>3. ReadyIsHeard'
    BY Zenon DEF ReadyIsHeard
  <2> QED BY <2>1, <2>2, <2>3, Zenon
<1>8. ASSUME NEW i \in TreeIds, fetchmsg_ev_handler(i)
      PROVE  PendingIsAsked' /\ InvalidHasTimer' /\ ReadyIsHeard'
  <2> USE <1>8 DEF fetchmsg_ev_handler, spool_fetch_msg
  <2>1. PendingIsAsked'
    BY DEF PendingIsAsked
  <2>2. InvalidHasTimer'
    BY Zenon DEF InvalidHasTimer
  <2>3. ReadyIsHeard'
    BY Zenon DEF ReadyIsHeard
  <2> QED BY <2>1, <2>2, <2>3, Zenon
<1>9. ASSUME NEW i \in TreeIds, fetch_callback_notfound(i)
      PROVE  PendingIsAsked' /\ InvalidHasTimer' /\ ReadyIsHeard'
  <2> DEFINE nuspool == IF i = Oldest THEN Newest ELSE Oldest
             sp1 == [spool EXCEPT ![i] = "none", ![nuspool] = get_spool(spool, nuspool)]
             fetch == {nuspool} \ {Newest}
             ft == unlinked(i)
             tm == timer \ {i}
  <2>1. PICK D \in Deferrals(fetch) : spool_fetch_msg(fetch, D, sp1, tm, ft)
    BY <1>9, Zenon DEF fetch_callback_notfound
  <2>2. ft \in [TreeIds -> Nat] /\ \A j \in TreeIds \ {i} : ft[j] = fetches[j]
    BY <1>9 DEF fetch_callback_notfound, unlinked, Answered
  <2>3. nuspool \in SpoolIds /\ nuspool # i /\ fetch \in SUBSET TreeIds
    BY Zenon
  <2>4. D \in SUBSET fetch
    BY DeferSubset, Zenon
  <2>5. at' = transfer_at(i, nuspool) /\ UNCHANGED status
    BY <1>9, Zenon DEF fetch_callback_notfound
  <2> HIDE DEF nuspool, ft
  <2>6. sp1 \in [SpoolIds -> SpoolStatus]
    BY <2>3, Zenon DEF get_spool, SpoolStatus
  <2>7. \A j \in TreeIds : sp1[j] = "PENDING" => ft[j] > 0
    BY <2>2, <2>3, Zenon DEF get_spool, PendingIsAsked
  <2>8. \A t \in Subs : at'[t] # Idle /\ sp1[at'[t]] = "INVALID"
                          => at'[t] \in tm \cup fetch
    <3> SUFFICES ASSUME NEW t \in Subs, at'[t] # Idle, sp1[at'[t]] = "INVALID"
                 PROVE  at'[t] \in tm \cup fetch
      BY Zenon
    <3>1. CASE at'[t] = nuspool
      BY <2>3, <3>1, Zenon DEF get_spool, CurrentSpool
    <3>2. CASE at'[t] # nuspool
      BY <2>3, <2>5, <3>2, Zenon DEF transfer_at, InvalidHasTimer
    <3> QED BY <3>1, <3>2, Zenon
  <2>9. status = "READY" => \A j \in TreeIds : sp1[j] # "NOTREADY"
    BY <2>3, Zenon DEF get_spool, ReadyIsHeard
  <2>10. at' \in [Subs -> SpoolIds \cup {Idle}]
    BY <1>type, Zenon
  <2> HIDE DEF sp1, fetch, tm
  <2> QED BY <2>1, <2>2, <2>3, <2>4, <2>5, <2>6, <2>7, <2>8, <2>9, <2>10, FetchWakes
<1>10. CASE spooler_channel_status_changed
  <2> USE <1>10 DEF spooler_channel_status_changed, its_time_for_a_spooling
  <2>1. PendingIsAsked'
    BY DEF PendingIsAsked
  <2>2. InvalidHasTimer'
    BY Zenon DEF InvalidHasTimer, SubsIn, CurrentSpool
  <2>3. ReadyIsHeard'
    BY Zenon DEF ReadyIsHeard
  <2> QED BY <2>1, <2>2, <2>3, Zenon
<1>11. CASE channel_waits
  BY <1>11, Zenon DEF channel_waits, PendingIsAsked, InvalidHasTimer, ReadyIsHeard
<1>12. CASE spooler_catch_up
  <2> DEFINE F == {i \in TreeIds : spool[i] \in {"EXPECTED", "PENDING"}}
             sp1 == [i \in SpoolIds |-> IF i \in F THEN "INVALID" ELSE spool[i]]
  <2>1. PICK D \in Deferrals(F) : spool_fetch_msg(F, D, sp1, timer, fetches)
    BY <1>12, Zenon DEF spooler_catch_up
  <2>2. F \in SUBSET TreeIds /\ D \in SUBSET F
    BY DeferSubset, Zenon
  <2>3. sp1 \in [SpoolIds -> SpoolStatus]
    BY Zenon DEF SpoolStatus
  <2>4. \A j \in TreeIds : sp1[j] = "PENDING" => fetches[j] > 0
    BY Zenon
  <2>5. at' = at /\ UNCHANGED status
    BY <1>12, Zenon DEF spooler_catch_up
  <2>6. \A t \in Subs : at'[t] # Idle /\ sp1[at'[t]] = "INVALID" => at'[t] \in timer \cup F
    BY <2>5, Zenon DEF InvalidHasTimer
  <2>7. status = "READY" => \A j \in TreeIds : sp1[j] # "NOTREADY"
    BY Zenon DEF ReadyIsHeard
  <2>8. at' \in [Subs -> SpoolIds \cup {Idle}]
    BY <1>type, Zenon
  <2> HIDE DEF F, sp1
  <2> QED BY <2>1, <2>2, <2>3, <2>4, <2>5, <2>6, <2>7, <2>8, FetchWakes
<1>13. CASE stop_spooler
  BY <1>13, Zenon DEF stop_spooler, start_spooler, PendingIsAsked, InvalidHasTimer, ReadyIsHeard
<1>14. CASE UNCHANGED spoolerVars
  BY <1>14, Zenon DEF spoolerVars, PendingIsAsked, InvalidHasTimer, ReadyIsHeard
<1>15. ASSUME NEW i \in TreeIds, stale_fetch_callback(i) PROVE FALSE
  BY <1>15, Zenon DEF stale_fetch_callback
<1>16. respawn => crash # "none"
  BY Zenon DEF respawn
<1>17. \A i \in TreeIds : ~fetch_callback_error(i)
  BY Zenon DEF fetch_callback_error
<1> QED
  BY <1>0, <1>1, <1>2, <1>3, <1>4, <1>5, <1>6, <1>7, <1>8, <1>9, <1>10, <1>11, <1>12,
     <1>13, <1>14, <1>15, <1>16, <1>17, Zenon DEF SpoolerNext

(* With a store that never answers MSG_ERROR, no subscriber of a READY
   channel is ever left in a spool that nothing will wake up. *)
THEOREM AlwaysWaitsForSomething == SpoolerSpec => [](MayFail \/ WaitsForSomething)
<1>1. SpoolerInit => WakeInv
  BY Ids, Zenon DEF SpoolerInit, start_spooler, WakeInv, PendingIsAsked, InvalidHasTimer,
     ReadyIsHeard
<1>2. SpoolerInv /\ (MayFail \/ WakeInv) /\ [SpoolerNext]_spoolerVars
        => (MayFail \/ WakeInv)'
  BY WakeStep, Zenon
<1>3. SpoolerInv /\ (MayFail \/ WakeInv) => MayFail \/ WaitsForSomething
  BY WakeImplies, Zenon
<1> QED BY <1>1, <1>2, <1>3, InitInv, StepInv, PTL DEF SpoolerSpec

-----------------------------------------------------------------------------
(* Delivery. *)

Found(p) == p.type = "reply" /\ p.code = "FOUND"
NotFound(p) == p.type = "reply" /\ p.code = "NOTFOUND"

(* Packets that may send a message to a subscriber at the oldest message. *)
ForOldest(p) == p.type = "msg" \/ (Found(p) /\ p.req = Oldest)

(* The messages between a and b have been dropped. *)
Dropped(a, b) == \A m \in MsgIds : a < m /\ m < b => m < first

(* A message in the pipe follows what it was chosen to follow, and what it
   skips is not stored any more.  A message that was not found is not stored
   any more either. *)
PacketInv(p) ==
    /\ p.type = "msg" => p.prev < p.id /\ p.id <= pub /\ Dropped(p.prev, p.id)
    /\ Found(p) => p.req < p.id /\ p.id <= pub /\ (p.req # Nth => Dropped(p.req, p.id))
    /\ NotFound(p) => p.req # Oldest /\ p.req < first

PipeInv ==
    /\ \A k \in 1 .. Len(pipe) : PacketInv(pipe[k])
    /\ \A j, k \in 1 .. Len(pipe) :
          j < k /\ NotFound(pipe[j]) /\ ForOldest(pipe[k]) => pipe[j].req < pipe[k].id

(* Nobody waits for a message after one that was not published. *)
SpoolsInv == \A i \in TreeIds : Exists(i) \/ fetches[i] > 0 => i <= pub

LastGot(s) == got[s][Len(got[s])]

(* What a subscriber was sent last is its position, unless the store lost its
   place: then that is not stored any more, and what the pipe holds for a
   subscriber at the oldest message is later. *)
GotInv ==
    \A s \in Subs :
        /\ last[s] <= pub
        /\ last[s] \in {Newest, Nth} => got[s] = <<>>
        /\ last[s] \in MsgIds => got[s] # <<>> /\ LastGot(s) = last[s]
        /\ last[s] = Oldest /\ got[s] # <<>> =>
              /\ LastGot(s) < first
              /\ \A k \in 1 .. Len(pipe) : ForOldest(pipe[k]) => LastGot(s) < pipe[k].id

DeliveryInv ==
    /\ DeliveryTypeOK /\ SpoolerInv /\ PipeInv /\ SpoolsInv /\ GotInv /\ InOrder /\ NoGap
-----------------------------------------------------------------------------
(* The fields of a packet. *)
LEMMA PacketFacts ==
    ASSUME NEW p \in Packets
    PROVE  /\ p.type \in {"subscribed", "msg", "reply"}
           /\ p.type = "msg" => p.id \in MsgIds /\ p.prev \in 0 .. MaxId
           /\ p.type = "reply" => p.req \in TreeIds /\ p.code \in {"EXPECTED", "NOTFOUND", "FOUND"}
           /\ Found(p) => p.id \in MsgIds
BY Zenon DEF Packets, Found

(* The types that the proofs below use, and what the tail of the pipe is. *)
LEMMA Typed ==
    ASSUME DeliveryInv
    PROVE  /\ MaxId \in Nat /\ pub \in Nat /\ pub <= MaxId /\ first \in Nat /\ first >= 1 /\ first <= pub + 1
           /\ pipe \in Seq(Packets) /\ Len(pipe) \in Nat
           /\ \A k \in 1 .. Len(pipe) : pipe[k] \in Packets
           /\ \A s \in Subs : /\ got[s] \in Seq(0 .. MaxId) /\ Len(got[s]) \in Nat
                              /\ got[s] # <<>> => Len(got[s]) \in 1 .. Len(got[s]) /\ LastGot(s) \in 0 .. MaxId
                              /\ last[s] \in SpoolIds /\ at[s] \in SpoolIds \cup {Idle}
           /\ got \in [Subs -> Seq(0 .. MaxId)]
BY Ids, SMTT(30) DEF DeliveryInv, DeliveryTypeOK, SpoolerTypeOK, LastGot

(* Taking the first packet out of the pipe. *)
LEMMA TailPipe ==
    ASSUME DeliveryInv, received
    PROVE  /\ Len(pipe) >= 1 /\ Head(pipe) = pipe[1] /\ Head(pipe) \in Packets
           /\ pipe' \in Seq(Packets) /\ Len(pipe') = Len(pipe) - 1
           /\ \A k \in 1 .. Len(pipe') : k + 1 \in 1 .. Len(pipe) /\ pipe'[k] = pipe[k + 1]
<1>1. pipe \in Seq(Packets) /\ pipe # <<>> /\ pipe' = Tail(pipe)
  BY Zenon DEF received, DeliveryInv, DeliveryTypeOK
<1> QED BY <1>1

(* What is in the pipe stays as it is while the owner goes on. *)
LEMMA PacketKept ==
    ASSUME DeliveryInv, NEW p \in Packets, PacketInv(p),
           pub' \in Nat, pub' >= pub, first' \in Nat, first' >= first
    PROVE  PacketInv(p)'
<1>1. ASSUME NEW a, NEW b, Dropped(a, b) PROVE Dropped(a, b)'
  BY <1>1, Typed, Ids DEF Dropped
<1>2. p.type = "msg" => p.id <= pub'
  BY Typed, PacketFacts, Ids DEF PacketInv
<1>3. Found(p) => p.id <= pub'
  BY Typed, PacketFacts, Ids DEF PacketInv
<1>4. NotFound(p) => p.req < first'
  <2>1. NotFound(p) => p.req \in Int /\ p.req < first
    BY PacketFacts, Ids, Zenon DEF PacketInv, NotFound
  <2> QED BY <2>1, Typed
<1> QED BY <1>1, <1>2, <1>3, <1>4, Zenon DEF PacketInv, Found, NotFound

(* The owner puts a packet into the pipe. *)
LEMMA AppendKeepsPipe ==
    ASSUME DeliveryInv, NEW p \in Packets, pipe' = Append(pipe, p),
           pub' \in Nat, pub' >= pub, first' \in Nat, first' >= first,
           PacketInv(p)', ForOldest(p) => p.id >= first
    PROVE  /\ PipeInv' /\ pipe' \in Seq(Packets)
           /\ Len(pipe') = Len(pipe) + 1
           /\ \A k \in 1 .. Len(pipe) : pipe'[k] = pipe[k]
           /\ pipe'[Len(pipe) + 1] = p
<1>1. /\ pipe' \in Seq(Packets) /\ Len(pipe') = Len(pipe) + 1
      /\ \A k \in 1 .. Len(pipe) : pipe'[k] = pipe[k]
      /\ pipe'[Len(pipe) + 1] = p
  BY Typed
<1>2. ASSUME NEW k \in 1 .. Len(pipe') PROVE PacketInv(pipe[k])'
  <2>1. CASE k \in 1 .. Len(pipe)
    <3>1. pipe[k] \in Packets /\ PacketInv(pipe[k])
      BY <2>1, Typed, Zenon DEF DeliveryInv, PipeInv
    <3>2. \A q \in Packets : PacketInv(q) => PacketInv(q)'
      BY PacketKept, Zenon
    <3> QED BY <1>1, <2>1, <3>1, <3>2, Zenon DEF PacketInv, Found, NotFound, Dropped
  <2>2. CASE k = Len(pipe) + 1
    BY <1>1, <2>2, Zenon DEF PacketInv, Found, NotFound, Dropped
  <2>3. k \in 1 .. Len(pipe) \/ k = Len(pipe) + 1
    BY <1>1, Typed
  <2> QED BY <2>1, <2>2, <2>3, Zenon
<1>3. ASSUME NEW j \in 1 .. Len(pipe'), NEW k \in 1 .. Len(pipe'), j < k,
             NotFound(pipe'[j]), ForOldest(pipe'[k])
      PROVE  pipe'[j].req < pipe'[k].id
  <2>1. j \in 1 .. Len(pipe) /\ pipe'[j] = pipe[j] /\ pipe[j] \in Packets
    BY <1>1, <1>3, Typed
  <2>2. CASE k \in 1 .. Len(pipe)
    BY <1>1, <1>3, <2>1, <2>2, Zenon DEF DeliveryInv, PipeInv
  <2>3. CASE k = Len(pipe) + 1
    <3>1. pipe[j].req < first /\ pipe[j].req \in Int
      BY <1>3, <2>1, PacketFacts, Ids, Zenon DEF DeliveryInv, PipeInv, PacketInv, NotFound
    <3>2. p.id >= first /\ p.id \in Int
      BY <1>1, <1>3, <2>3, PacketFacts, Ids, Zenon DEF ForOldest
    <3> QED BY <1>1, <2>1, <2>3, <3>1, <3>2, Typed
  <2>4. k \in 1 .. Len(pipe) \/ k = Len(pipe) + 1
    BY <1>1, Typed
  <2> QED BY <2>2, <2>3, <2>4, Zenon
<1> QED BY <1>1, <1>2, <1>3, Zenon DEF PipeInv, NotFound, ForOldest, Found

(* The owner's steps leave the subscribers where they are. *)
LEMMA OwnerKeepsGot ==
    ASSUME DeliveryInv, UNCHANGED <<last, got>>,
           pub' \in Nat, pub' >= pub, first' \in Nat, first' >= first,
           \A k \in 1 .. Len(pipe') :
              \/ k \in 1 .. Len(pipe) /\ pipe'[k] = pipe[k]
              \/ ForOldest(pipe'[k]) => pipe'[k].id \in Nat /\ pipe'[k].id >= first
    PROVE  GotInv' /\ InOrder' /\ NoGap'
<1>1. InOrder'
  BY Zenon DEF DeliveryInv, InOrder
<1>2. NoGap'
  <2> SUFFICES ASSUME NEW s \in Subs, NEW k \in 1 .. Len(got[s]) - 1, NEW m \in MsgIds,
                      got[s][k] < m, m < got[s][k + 1]
               PROVE  m < first'
    BY Zenon DEF NoGap
  <2>1. m < first
    BY Zenon DEF DeliveryInv, NoGap
  <2>2. m \in Int /\ first \in Int /\ first' \in Int /\ first' >= first
    BY Typed, Ids
  <2> QED BY <2>1, <2>2
<1>3. ASSUME NEW s \in Subs
      PROVE  /\ last[s] <= pub'
             /\ last[s] \in {Newest, Nth} => got[s] = <<>>
             /\ last[s] \in MsgIds => got[s] # <<>> /\ LastGot(s) = last[s]
             /\ last[s] = Oldest /\ got[s] # <<>> =>
                   /\ LastGot(s) < first'
                   /\ \A k \in 1 .. Len(pipe') : ForOldest(pipe'[k]) => LastGot(s) < pipe'[k].id
  <2>1. /\ last[s] <= pub /\ last[s] \in Int
        /\ last[s] \in {Newest, Nth} => got[s] = <<>>
        /\ last[s] \in MsgIds => got[s] # <<>> /\ LastGot(s) = last[s]
        /\ last[s] = Oldest /\ got[s] # <<>> =>
              /\ LastGot(s) < first
              /\ \A k \in 1 .. Len(pipe) : ForOldest(pipe[k]) => LastGot(s) < pipe[k].id
    BY Typed, Ids DEF DeliveryInv, GotInv, Newest
  <2>2. last[s] <= pub'
    BY <2>1, Typed
  <2>3. ASSUME last[s] = Oldest, got[s] # <<>>
        PROVE  /\ LastGot(s) < first'
               /\ \A k \in 1 .. Len(pipe') : ForOldest(pipe'[k]) => LastGot(s) < pipe'[k].id
    <3>1. LastGot(s) \in Nat /\ LastGot(s) < first
      BY <2>1, <2>3, Typed
    <3>2. LastGot(s) < first'
      BY <3>1, Typed
    <3>3. ASSUME NEW k \in 1 .. Len(pipe'), ForOldest(pipe'[k]) PROVE LastGot(s) < pipe'[k].id
      <4>1. CASE k \in 1 .. Len(pipe) /\ pipe'[k] = pipe[k]
        BY <2>1, <2>3, <3>3, <4>1, Zenon
      <4>2. CASE pipe'[k].id \in Nat /\ pipe'[k].id >= first
        BY <3>1, <4>2, Typed
      <4> QED BY <3>3, <4>1, <4>2, Zenon
    <3> QED BY <3>2, <3>3, Zenon
  <2> QED BY <2>1, <2>2, <2>3, Zenon
<1>4. GotInv'
  BY <1>3, Zenon DEF GotInv, LastGot, ForOldest, Found
<1> QED BY <1>1, <1>2, <1>4, Zenon

(* Reading the pipe leaves what is behind as it is. *)
LEMMA TailKeepsPipe ==
    ASSUME DeliveryInv, received, UNCHANGED <<pub, first>>
    PROVE  PipeInv'
<1>1. \A k \in 1 .. Len(pipe') : PacketInv(pipe[k])'
  BY TailPipe DEF DeliveryInv, PipeInv, PacketInv, Found, NotFound, Dropped
<1>2. ASSUME NEW j \in 1 .. Len(pipe'), NEW k \in 1 .. Len(pipe'), j < k,
             NotFound(pipe'[j]), ForOldest(pipe'[k])
      PROVE  pipe'[j].req < pipe'[k].id
  <2>1. /\ j + 1 \in 1 .. Len(pipe) /\ k + 1 \in 1 .. Len(pipe) /\ j + 1 < k + 1
        /\ pipe'[j] = pipe[j + 1] /\ pipe'[k] = pipe[k + 1]
    BY <1>2, TailPipe, Typed
  <2> QED BY <1>2, <2>1, Zenon DEF DeliveryInv, PipeInv
<1> QED BY <1>1, <1>2, Zenon DEF PipeInv, NotFound, ForOldest, Found

(* What is left in the pipe for subscribers at the oldest message. *)
LEMMA TailForOldest ==
    ASSUME DeliveryInv, received, NEW s \in Subs, last[s] = Oldest, got[s] # <<>>
    PROVE  \A k \in 1 .. Len(pipe') : ForOldest(pipe'[k]) => LastGot(s) < pipe'[k].id
BY TailPipe, Zenon DEF DeliveryInv, GotInv

(* Packets that send nothing, and the events of the subscribers' worker. *)
LEMMA ReaderKeepsGot ==
    ASSUME DeliveryInv, received, UNCHANGED <<last, got, pub, first>>
    PROVE  GotInv' /\ InOrder' /\ NoGap'
<1>1. InOrder' /\ NoGap'
  BY Zenon DEF DeliveryInv, InOrder, NoGap
<1>2. GotInv'
  BY TailForOldest, Zenon DEF DeliveryInv, GotInv, LastGot, ForOldest, Found
<1> QED BY <1>1, <1>2, Zenon

(* The subscribers of the spools in From are sent m, which comes after what
   they have, and what is between has been dropped. *)
LEMMA Delivered ==
    ASSUME DeliveryInv, received, UNCHANGED <<pub, first>>,
           NEW From \in SUBSET SpoolIds, NEW m \in MsgIds, m <= pub,
           last' = [s \in Subs |-> IF at[s] \in From THEN m ELSE last[s]],
           got' = sent(From, m),
           \A s \in Subs : at[s] \in From /\ got[s] # <<>> =>
              LastGot(s) < m /\ Dropped(LastGot(s), m)
    PROVE  GotInv' /\ InOrder' /\ NoGap' /\ got' \in [Subs -> Seq(0 .. MaxId)]
<1>1. m \in 0 .. MaxId /\ m \in Nat /\ m # Newest /\ m # Nth /\ m # Oldest
  BY Ids DEF MsgIds, Newest
<1>2. ASSUME NEW s \in Subs, at[s] \notin From
      PROVE  last'[s] = last[s] /\ got'[s] = got[s]
  BY <1>2, Zenon DEF sent
<1>3. ASSUME NEW s \in Subs, at[s] \in From
      PROVE  /\ last'[s] = m /\ got'[s] = Append(got[s], m) /\ got'[s] \in Seq(0 .. MaxId)
             /\ Len(got'[s]) = Len(got[s]) + 1 /\ got'[s] # <<>>
             /\ \A k \in 1 .. Len(got[s]) : got'[s][k] = got[s][k]
             /\ got'[s][Len(got[s]) + 1] = m
  <2>1. last'[s] = m /\ got'[s] = Append(got[s], m)
    BY <1>3, Zenon DEF sent
  <2> QED BY <1>1, <2>1, Typed
<1>4. got' \in [Subs -> Seq(0 .. MaxId)]
  BY <1>2, <1>3, Typed, Zenon DEF sent
<1>5. ASSUME NEW s \in Subs, at[s] \in From, NEW k \in 1 .. Len(got'[s]) - 1
      PROVE  /\ got'[s][k] < got'[s][k + 1]
             /\ \A x \in MsgIds : got'[s][k] < x /\ x < got'[s][k + 1] => x < first
  <2>1. CASE k = Len(got[s])
    <3>1. got[s] # <<>> /\ got'[s][k] = LastGot(s) /\ got'[s][k + 1] = m
      BY <1>3, <1>5, <2>1, Typed, SMTT(30) DEF LastGot
    <3> QED BY <1>5, <3>1, Zenon DEF Dropped
  <2>2. CASE k # Len(got[s])
    <3>1. /\ k \in 1 .. Len(got[s]) - 1 /\ got'[s][k] = got[s][k] /\ got'[s][k + 1] = got[s][k + 1]
      <4>1. Len(got[s]) \in Nat /\ Len(got'[s]) - 1 = Len(got[s])
        BY <1>3, <1>5, Typed
      <4>2. k \in 1 .. Len(got[s]) - 1 /\ k \in 1 .. Len(got[s]) /\ k + 1 \in 1 .. Len(got[s])
        BY <1>5, <2>2, <4>1
      <4> QED BY <1>3, <1>5, <4>2, Zenon
    <3> QED BY <3>1, Zenon DEF DeliveryInv, InOrder, NoGap
  <2> QED BY <2>1, <2>2, Zenon
<1>6. InOrder'
  BY <1>2, <1>5, Zenon DEF DeliveryInv, InOrder
<1>7. NoGap'
  BY <1>2, <1>5, Zenon DEF DeliveryInv, NoGap
<1>8. GotInv'
  <2> SUFFICES ASSUME NEW s \in Subs
               PROVE  /\ last'[s] <= pub
                      /\ last'[s] \in {Newest, Nth} => got'[s] = <<>>
                      /\ last'[s] \in MsgIds => got'[s] # <<>> /\ got'[s][Len(got'[s])] = last'[s]
                      /\ last'[s] = Oldest /\ got'[s] # <<>> =>
                            /\ got'[s][Len(got'[s])] < first
                            /\ \A k \in 1 .. Len(pipe') :
                                  ForOldest(pipe'[k]) => got'[s][Len(got'[s])] < pipe'[k].id
    BY Zenon DEF GotInv, LastGot, ForOldest, Found
  <2>1. CASE at[s] \in From
    BY <1>1, <1>3, <2>1, Zenon
  <2>2. CASE at[s] \notin From
    BY <1>2, <2>2, TailForOldest, Zenon DEF DeliveryInv, GotInv, LastGot
  <2> QED BY <2>1, <2>2, Zenon
<1> QED BY <1>4, <1>6, <1>7, <1>8, Zenon

-----------------------------------------------------------------------------
(* spool_fetch_msg brings up no spool and no request but those it is for. *)
LEMMA FetchSpools ==
    ASSUME NEW F \in SUBSET TreeIds, NEW D, NEW sp, NEW tm, NEW ft \in [TreeIds -> Nat],
           spool_fetch_msg(F, D, sp, tm, ft)
    PROVE  \A i \in TreeIds : /\ spool'[i] # "none" => sp[i] # "none" \/ i \in F
                              /\ fetches'[i] > 0 => ft[i] > 0 \/ i \in F
BY Ids, Zenon DEF spool_fetch_msg

(* A handler that sends m brings up the spool of m only. *)
LEMMA RespondSpools ==
    ASSUME SpoolerInv, NEW From \in SUBSET SpoolIds, NEW m \in MsgIds, NEW ft \in [TreeIds -> Nat],
           \A i \in TreeIds : ft[i] > 0 => fetches[i] > 0,
           respond_and_nextmsg(From, m, ft)
    PROVE  \A i \in TreeIds : Exists(i)' \/ fetches'[i] > 0 => Exists(i) \/ fetches[i] > 0 \/ i = m
<1> DEFINE at1 == [s \in Subs |-> IF at[s] \notin From THEN at[s]
                                  ELSE IF s \in LongPoll THEN Idle ELSE m]
           st == IF get_spool(spool, m) = "NOTREADY" /\ SubsIn(at1, m) # {}
                   THEN "INVALID" ELSE get_spool(spool, m)
           sp1 == [i \in SpoolIds |-> IF i \in From \ {Newest} THEN "none"
                                      ELSE IF i = m /\ From # {} THEN st
                                      ELSE spool[i]]
           fetch == IF From # {} /\ st = "INVALID" /\ SubsIn(at1, m) # {}
                      THEN {m} ELSE {}
           kept == IF ~Exists(m) /\ From \cap timer # {} THEN {m} ELSE {}
<1>1. PICK T \in SUBSET kept, D \in Deferrals(fetch) :
         spool_fetch_msg(fetch, D, sp1, (timer \ From) \cup T, ft)
  BY Zenon DEF respond_and_nextmsg
<1>2. fetch \in SUBSET TreeIds /\ fetch \subseteq {m}
  BY Ids, Zenon
<1>3. \A i \in TreeIds : sp1[i] # "none" => spool[i] # "none" \/ i = m
  BY Ids, Zenon
<1> DEFINE tm == (timer \ From) \cup T
<1> HIDE DEF fetch, sp1, kept, tm
<1>4. spool_fetch_msg(fetch, D, sp1, tm, ft)
  BY <1>1, Zenon DEF tm
<1>5. \A i \in TreeIds : /\ spool'[i] # "none" => sp1[i] # "none" \/ i \in fetch
                         /\ fetches'[i] > 0 => ft[i] > 0 \/ i \in fetch
  BY <1>2, <1>4, FetchSpools, Zenon
<1> QED BY <1>2, <1>3, <1>5, Zenon DEF Exists

(* An answer that is taken off the list of requests. *)
LEMMA UnlinkedFetches ==
    ASSUME SpoolerInv, NEW i \in TreeIds, Answered(i)
    PROVE  /\ unlinked(i) \in [TreeIds -> Nat]
           /\ \A j \in TreeIds : unlinked(i)[j] > 0 => fetches[j] > 0
BY DEF SpoolerInv, SpoolerTypeOK, unlinked, Answered

(* Spools and requests after an event of the subscribers' worker. *)
LEMMA LocalSpools ==
    ASSUME DeliveryInv, UNCHANGED pub,
           \/ \E s \in Subs : spooler_add_subscriber(s) \/ spool_sub_dequeue_callback(s)
           \/ \E i \in TreeIds : \/ fetchmsg_ev_handler(i) \/ fetch_callback_discard(i)
                                 \/ fetch_callback_expected(i) \/ fetch_callback_notfound(i)
           \/ spooler_channel_status_changed
    PROVE  SpoolsInv'
<1> USE Ids
<1>inv. SpoolerInv /\ SpoolsInv /\ pub \in Nat
  BY Typed, Zenon DEF DeliveryInv
<1>typed. /\ spool \in [SpoolIds -> SpoolStatus] /\ fetches \in [TreeIds -> Nat] /\ last \in [Subs -> SpoolIds]
          /\ spool[Newest] = "EXPECTED"
  BY <1>inv, Zenon DEF SpoolerInv, SpoolerTypeOK, CurrentSpool
<1>1. ASSUME NEW s \in Subs, spooler_add_subscriber(s) PROVE SpoolsInv'
  <2> DEFINE i == last[s]
             sp1 == [spool EXCEPT ![i] = get_spool(spool, i)]
             fetch == IF sp1[i] = "INVALID" THEN {i} ELSE {}
  <2>1. PICK D \in Deferrals(fetch) : spool_fetch_msg(fetch, D, sp1, timer, fetches)
    BY <1>1, Zenon DEF spooler_add_subscriber
  <2>2. i \in SpoolIds /\ i <= pub
    BY <1>typed, Zenon DEF DeliveryInv, GotInv
  <2>3. sp1[Newest] = "EXPECTED" /\ \A j \in TreeIds : j # i => sp1[j] = spool[j]
    BY <1>typed, <2>2, Zenon DEF get_spool
  <2>4. fetch \in SUBSET TreeIds /\ fetch \subseteq {i}
    BY <2>2, <2>3, Zenon
  <2> HIDE DEF sp1, fetch
  <2>5. \A j \in TreeIds : /\ spool'[j] # "none" => sp1[j] # "none" \/ j \in fetch
                           /\ fetches'[j] > 0 => fetches[j] > 0 \/ j \in fetch
    BY <1>typed, <2>1, <2>4, FetchSpools, Zenon
  <2> QED BY <1>inv, <2>2, <2>3, <2>4, <2>5, Zenon DEF SpoolsInv, Exists
<1>2. ASSUME NEW s \in Subs, spool_sub_dequeue_callback(s) PROVE SpoolsInv'
  BY <1>2, <1>inv, Zenon DEF spool_sub_dequeue_callback, SpoolsInv, Exists
<1>3. ASSUME NEW i \in TreeIds, fetchmsg_ev_handler(i) PROVE SpoolsInv'
  <2> DEFINE fetch == IF spool[i] = "INVALID" THEN {i} ELSE {}
  <2>1. spool_fetch_msg(fetch, {}, spool, timer \ {i}, fetches)
    BY <1>3, Zenon DEF fetchmsg_ev_handler
  <2>2. fetch \in SUBSET TreeIds /\ \A j \in fetch : spool[j] # "none"
    BY Zenon
  <2> HIDE DEF fetch
  <2>3. \A j \in TreeIds : /\ spool'[j] # "none" => spool[j] # "none" \/ j \in fetch
                           /\ fetches'[j] > 0 => fetches[j] > 0 \/ j \in fetch
    BY <1>typed, <2>1, <2>2, FetchSpools, Zenon
  <2> QED BY <1>inv, <2>2, <2>3, Zenon DEF SpoolsInv, Exists
<1>4. ASSUME NEW i \in TreeIds, fetch_callback_discard(i) PROVE SpoolsInv'
  BY <1>4, <1>inv, UnlinkedFetches, Zenon DEF fetch_callback_discard, SpoolsInv, Exists
<1>5. ASSUME NEW i \in TreeIds, fetch_callback_expected(i) PROVE SpoolsInv'
  <2>1. fetches' = unlinked(i) /\ Answered(i) /\ \A j \in TreeIds : spool'[j] # "none" => spool[j] # "none"
    BY <1>5, <1>typed, Zenon DEF fetch_callback_expected, Exists
  <2> QED BY <1>inv, <2>1, UnlinkedFetches, Zenon DEF SpoolsInv, Exists
<1>6. ASSUME NEW i \in TreeIds, fetch_callback_notfound(i) PROVE SpoolsInv'
  <2> DEFINE nuspool == IF i = Oldest THEN Newest ELSE Oldest
             sp1 == [spool EXCEPT ![i] = "none", ![nuspool] = get_spool(spool, nuspool)]
             fetch == {nuspool} \ {Newest}
  <2>1. PICK D \in Deferrals(fetch) :
           spool_fetch_msg(fetch, D, sp1, timer \ {i}, unlinked(i))
    BY <1>6, Zenon DEF fetch_callback_notfound
  <2>2. Answered(i) /\ fetch \in SUBSET TreeIds /\ fetch \subseteq {Oldest}
    BY <1>6, Zenon DEF fetch_callback_notfound
  <2>3. \A j \in TreeIds : sp1[j] # "none" => spool[j] # "none" \/ j = Oldest
    BY <1>typed, Zenon
  <2> HIDE DEF sp1, fetch
  <2>4. \A j \in TreeIds : /\ spool'[j] # "none" => sp1[j] # "none" \/ j \in fetch
                           /\ fetches'[j] > 0 => unlinked(i)[j] > 0 \/ j \in fetch
    BY <1>inv, <2>1, <2>2, UnlinkedFetches, FetchSpools, Zenon
  <2>5. Oldest <= pub
    BY <1>inv DEF Oldest
  <2> QED BY <1>inv, <2>2, <2>3, <2>4, <2>5, UnlinkedFetches, Zenon DEF SpoolsInv, Exists
<1>7. CASE spooler_channel_status_changed
  <2>1. \A j \in TreeIds : /\ spool'[j] # "none" => spool[j] # "none"
                           /\ fetches'[j] > 0 => fetches[j] > 0 \/ spool[j] # "none"
    BY <1>7, <1>typed, Zenon DEF spooler_channel_status_changed, its_time_for_a_spooling, Deferrals
  <2> QED BY <1>inv, <2>1, Zenon DEF SpoolsInv, Exists
<1> QED BY <1>1, <1>2, <1>3, <1>4, <1>5, <1>6, <1>7, Zenon

-----------------------------------------------------------------------------
(* The owner's steps. *)

(* The spooler's part of the invariant, while the spooler stands still. *)
LEMMA SpoolerStill ==
    ASSUME DeliveryInv, UNCHANGED spoolerVars, pub' \in Nat, pub' >= pub
    PROVE  SpoolerInv' /\ SpoolerTypeOK' /\ SpoolsInv'
<1>1. SpoolerInv'
  BY StepInv, Zenon DEF DeliveryInv
<1>2. SpoolsInv'
  <2>1. spool' = spool /\ fetches' = fetches
    BY Zenon DEF spoolerVars
  <2>2. SpoolsInv /\ pub \in Nat
    BY Typed, Zenon DEF DeliveryInv
  <2> QED BY <2>1, <2>2, Ids DEF SpoolsInv, Exists
<1> QED BY <1>1, <1>2, Zenon DEF SpoolerInv

(* The owner joins the channel's subscribers and says so. *)
LEMMA SubscribeStep == DeliveryInv /\ receive_subscribe => DeliveryInv'
<1> SUFFICES ASSUME DeliveryInv, receive_subscribe PROVE DeliveryInv'
  BY Zenon
<1> DEFINE p == [type |-> "subscribed"]
<1>1. /\ pipe' = Append(pipe, p) /\ UNCHANGED <<spoolerVars, pub, first, got>> /\ subscribed' = TRUE
  BY Zenon DEF receive_subscribe
<1>2. p \in Packets /\ ~ForOldest(p) /\ p.type = "subscribed"
  BY Zenon DEF Packets, ForOldest, Found
<1> HIDE DEF p
<1>3. PacketInv(p)'
  BY <1>2, Zenon DEF PacketInv, Found, NotFound
<1>4. pub' \in Nat /\ pub' >= pub /\ first' \in Nat /\ first' >= first
  BY <1>1, Typed
<1>5. /\ PipeInv' /\ pipe' \in Seq(Packets) /\ Len(pipe') = Len(pipe) + 1
      /\ \A k \in 1 .. Len(pipe) : pipe'[k] = pipe[k]
      /\ pipe'[Len(pipe) + 1] = p
  BY <1>1, <1>2, <1>3, <1>4, AppendKeepsPipe, Zenon
<1>6. \A k \in 1 .. Len(pipe') : \/ k \in 1 .. Len(pipe) /\ pipe'[k] = pipe[k]
                                 \/ ~ForOldest(pipe'[k])
  BY <1>2, <1>5, Typed
<1>7. GotInv' /\ InOrder' /\ NoGap'
  BY <1>1, <1>4, <1>6, OwnerKeepsGot, Zenon DEF spoolerVars
<1>8. SpoolerInv' /\ SpoolerTypeOK' /\ SpoolsInv'
  BY <1>1, <1>4, SpoolerStill, Zenon
<1>9. DeliveryTypeOK'
  BY <1>1, <1>5, <1>8, Zenon DEF DeliveryInv, DeliveryTypeOK
<1> QED BY <1>5, <1>7, <1>8, <1>9, Zenon DEF DeliveryInv

(* A message is published: what comes between prev_id and it is not stored,
   whether or not its alert is sent. *)
LEMMA PublishStep == DeliveryInv /\ publish => DeliveryInv'
<1> SUFFICES ASSUME DeliveryInv, publish PROVE DeliveryInv'
  BY Zenon
<1>1. /\ pub < MaxId /\ pub' = pub + 1 /\ UNCHANGED <<spoolerVars, subscribed, got>>
      /\ first' = IF pub + 1 - first >= MaxStored THEN first + 1 ELSE first
  BY Zenon DEF publish
<1>2. /\ pub' \in 0 .. MaxId /\ pub' \in Nat /\ pub' >= pub /\ first' \in Nat /\ first' >= first
      /\ first' \in 1 .. pub' + 1
  BY <1>1, Typed, DeliveryAssumption
<1>3. SpoolerInv' /\ SpoolerTypeOK' /\ SpoolsInv'
  BY <1>1, <1>2, SpoolerStill, Zenon
<1>4. CASE pipe' = pipe
  <2>1. pipe' = pipe
    BY <1>4
  <2>2. \A k \in 1 .. Len(pipe) : PacketInv(pipe[k])'
    <3>1. \A q \in Packets : PacketInv(q) => PacketInv(q)'
      BY <1>2, PacketKept, Zenon
    <3> QED BY <2>1, <3>1, Typed, Zenon DEF DeliveryInv, PipeInv, PacketInv, Found, NotFound, Dropped
  <2>3. PipeInv'
    BY <2>1, <2>2, Zenon DEF DeliveryInv, PipeInv, NotFound, ForOldest, Found
  <2>4. GotInv' /\ InOrder' /\ NoGap'
    BY <1>1, <1>2, <2>1, OwnerKeepsGot, Zenon DEF spoolerVars
  <2>5. DeliveryTypeOK'
    BY <1>1, <1>2, <1>3, <2>1, Zenon DEF DeliveryInv, DeliveryTypeOK
  <2> QED BY <1>3, <2>3, <2>4, <2>5, Zenon DEF DeliveryInv
<1>5. CASE pipe' = Append(pipe, [type |-> "msg", id |-> pub + 1, prev |-> PrevId])
  <2>2. PrevId \in 0 .. MaxId /\ PrevId < pub + 1
    BY Typed DEF PrevId
  <2>1. PICK p \in Packets : p = [type |-> "msg", id |-> pub + 1, prev |-> PrevId]
    <3>1. pub + 1 \in MsgIds
      BY <1>1, Typed DEF MsgIds
    <3>2. [type |-> "msg", id |-> pub + 1, prev |-> PrevId] \in Packets
      BY <2>2, <3>1, Zenon DEF Packets
    <3> QED BY <3>2, Zenon
  <2>0. pipe' = Append(pipe, p)
    BY <1>5, <2>1, Zenon
  <2>3. /\ p.type = "msg" /\ p.id = pub + 1 /\ p.prev = PrevId
        /\ p.id \in Nat /\ p.id >= first
    BY <1>1, <2>1, <2>2, Typed
  <2>4. \A x \in MsgIds : PrevId < x /\ x < pub + 1 => x < first'
    <3>1. CASE first <= pub
      BY <3>1, Typed, Ids DEF PrevId
    <3>2. CASE ~(first <= pub)
      BY <1>2, <3>2, Typed, Ids DEF PrevId
    <3> QED BY <3>1, <3>2, Zenon
  <2>5. PacketInv(p)'
    BY <1>1, <2>2, <2>3, <2>4, Typed DEF PacketInv, Dropped, Found, NotFound
  <2>6. /\ PipeInv' /\ pipe' \in Seq(Packets) /\ Len(pipe') = Len(pipe) + 1
        /\ \A k \in 1 .. Len(pipe) : pipe'[k] = pipe[k]
        /\ pipe'[Len(pipe) + 1] = p
    BY <1>2, <2>0, <2>3, <2>5, AppendKeepsPipe, Zenon
  <2>7. \A k \in 1 .. Len(pipe') : \/ k \in 1 .. Len(pipe) /\ pipe'[k] = pipe[k]
                                   \/ pipe'[k].id \in Nat /\ pipe'[k].id >= first
    BY <2>3, <2>6, Typed
  <2>8. GotInv' /\ InOrder' /\ NoGap'
    BY <1>1, <1>2, <2>7, OwnerKeepsGot, Zenon DEF spoolerVars
  <2>9. DeliveryTypeOK'
    BY <1>1, <1>2, <1>3, <2>6, Zenon DEF DeliveryInv, DeliveryTypeOK
  <2> QED BY <1>3, <2>6, <2>8, <2>9, Zenon DEF DeliveryInv
<1> QED BY <1>4, <1>5, Zenon DEF publish

(* The oldest stored message goes: it was only ever first. *)
LEMMA ExpireStep == DeliveryInv /\ expire => DeliveryInv'
<1> SUFFICES ASSUME DeliveryInv, expire PROVE DeliveryInv'
  BY Zenon
<1>1. first <= pub /\ first' = first + 1 /\ UNCHANGED <<spoolerVars, pub, subscribed, pipe, got>>
  BY Zenon DEF expire
<1>2. /\ pub' \in Nat /\ pub' >= pub /\ first' \in Nat /\ first' >= first /\ first' \in 1 .. pub' + 1
  BY <1>1, Typed
<1>3. SpoolerInv' /\ SpoolerTypeOK' /\ SpoolsInv'
  BY <1>1, <1>2, SpoolerStill, Zenon
<1>4. \A k \in 1 .. Len(pipe) : PacketInv(pipe[k])'
  <2>1. \A q \in Packets : PacketInv(q) => PacketInv(q)'
    BY <1>2, PacketKept, Zenon
  <2> QED BY <1>1, <2>1, Typed, Zenon DEF DeliveryInv, PipeInv, PacketInv, Found, NotFound, Dropped
<1>5. PipeInv'
  BY <1>1, <1>4, Zenon DEF DeliveryInv, PipeInv, NotFound, ForOldest, Found
<1>6. GotInv' /\ InOrder' /\ NoGap'
  BY <1>1, <1>2, OwnerKeepsGot, Zenon DEF spoolerVars
<1>7. DeliveryTypeOK'
  BY <1>1, <1>2, <1>3, Zenon DEF DeliveryInv, DeliveryTypeOK
<1> QED BY <1>3, <1>5, <1>6, <1>7, Zenon DEF DeliveryInv

(* The answer to a request for i: what is found follows i, and what it skips
   is not stored; what is not found is not stored. *)
LEMMA AnswerFacts ==
    ASSUME DeliveryInv, NEW i \in TreeIds, i <= pub, NEW p, p = chanhead_find_next_message(i)
    PROVE  p \in Packets /\ PacketInv(p) /\ (ForOldest(p) => p.id >= first)
<1> USE Typed, Ids
<1>1. CASE first > pub
  BY <1>1 DEF chanhead_find_next_message, Packets, PacketInv, Found, NotFound, ForOldest, Oldest, Nth
<1>2. CASE first <= pub /\ i = Nth
  <2>1. NthMessage \in first .. pub
    BY <1>2, DeliveryAssumption, SMTT(30) DEF NthMessage
  <2>2. NthMessage \in MsgIds /\ i < NthMessage
    BY <1>2, <2>1 DEF MsgIds, Nth
  <2>3. p = [type |-> "reply", req |-> i, code |-> "FOUND", id |-> NthMessage]
    BY <1>2 DEF chanhead_find_next_message
  <2>4. p \in Packets
    BY <2>2, <2>3 DEF Packets
  <2> QED BY <1>2, <2>1, <2>2, <2>3, <2>4 DEF PacketInv, Found, NotFound, ForOldest, Nth, Oldest
<1>3. CASE first <= pub /\ i # Nth /\ After(i) <= pub
  <2>1. i \in 0 .. MaxId
    BY <1>3, Zenon DEF TreeIds
  <2>2. After(i) \in MsgIds /\ i < After(i)
    BY <1>3, <2>1 DEF After, MsgIds
  <2>3. p = [type |-> "reply", req |-> i, code |-> "FOUND", id |-> After(i)]
    BY <1>3, SMTT(20) DEF chanhead_find_next_message
  <2>4. p \in Packets
    BY <2>2, <2>3 DEF Packets
  <2>5. Dropped(i, After(i))
    BY <2>1 DEF Dropped, After
  <2>6. i = Oldest => After(i) >= first
    BY DEF After, Oldest
  <2> QED BY <1>3, <2>2, <2>3, <2>4, <2>5, <2>6 DEF PacketInv, Found, NotFound, ForOldest
<1>4. CASE first <= pub /\ i # Nth /\ ~(After(i) <= pub)
  BY <1>4 DEF chanhead_find_next_message, Packets, PacketInv, Found, NotFound, ForOldest
<1> QED BY <1>1, <1>2, <1>3, <1>4

-----------------------------------------------------------------------------
(* The steps of the worker that has the subscribers. *)

(* Its timers, and subscribers that come and go. *)
LEMMA LocalStep ==
    ASSUME DeliveryInv,
           \/ \E s \in Subs : subscribe(s) \/ disconnect(s)
           \/ \E i \in TreeIds : timeout(i)
    PROVE  DeliveryInv'
<1>1. \/ \E s \in Subs : spooler_add_subscriber(s) \/ spool_sub_dequeue_callback(s)
      \/ \E i \in TreeIds : fetchmsg_ev_handler(i)
  BY Zenon DEF subscribe, disconnect, timeout, local
<1>2. UNCHANGED <<pub, first, subscribed, pipe, got>>
  BY Zenon DEF subscribe, disconnect, timeout, local, ownerVars
<1>3. UNCHANGED last
  BY <1>1, Zenon DEF spooler_add_subscriber, spool_sub_dequeue_callback, fetchmsg_ev_handler
<1>4. SpoolsInv'
  BY <1>1, <1>2, LocalSpools, Zenon
<1>5. SpoolerInv'
  BY <1>1, StepInv, Zenon DEF SpoolerNext, DeliveryInv
<1>6. PipeInv'
  BY <1>2, Zenon DEF DeliveryInv, PipeInv, PacketInv, Dropped, Found, NotFound, ForOldest
<1>7. GotInv' /\ InOrder' /\ NoGap'
  BY <1>2, <1>3, Zenon DEF DeliveryInv, GotInv, LastGot, InOrder, NoGap, ForOldest, Found
<1>8. DeliveryTypeOK'
  BY <1>2, <1>5, Zenon DEF DeliveryInv, DeliveryTypeOK, SpoolerInv
<1> QED BY <1>4, <1>5, <1>6, <1>7, <1>8, Zenon DEF DeliveryInv

(* What every packet's handler keeps. *)
LEMMA ReaderRest ==
    ASSUME DeliveryInv, received, UNCHANGED ownerVars,
           SpoolerInv', got' \in [Subs -> Seq(0 .. MaxId)]
    PROVE  DeliveryTypeOK' /\ PipeInv'
<1>1. UNCHANGED <<pub, first, subscribed>>
  BY Zenon DEF ownerVars
<1>2. PipeInv'
  BY <1>1, TailKeepsPipe, Zenon
<1>3. DeliveryTypeOK'
  BY <1>1, TailPipe, Zenon DEF DeliveryInv, DeliveryTypeOK, SpoolerInv
<1> QED BY <1>2, <1>3, Zenon

(* Packets that send nothing and move nobody. *)
LEMMA QuietStep ==
    ASSUME DeliveryInv, received, UNCHANGED <<ownerVars, got>>,
           \/ spooler_channel_status_changed
           \/ \E i \in TreeIds : fetch_callback_expected(i) \/ fetch_callback_discard(i)
    PROVE  DeliveryInv'
<1>1. UNCHANGED last
  BY Zenon DEF spooler_channel_status_changed, fetch_callback_expected, fetch_callback_discard
<1>2. SpoolsInv'
  BY LocalSpools, Zenon DEF ownerVars
<1>3. SpoolerInv'
  BY StepInv, Zenon DEF SpoolerNext, DeliveryInv
<1>4. GotInv' /\ InOrder' /\ NoGap'
  BY <1>1, ReaderKeepsGot, Zenon DEF ownerVars
<1>5. DeliveryTypeOK' /\ PipeInv'
  BY <1>3, ReaderRest, Typed, Zenon
<1> QED BY <1>2, <1>3, <1>4, <1>5, Zenon DEF DeliveryInv

(* The store lost the place of the spool's subscribers: they start over, but
   nothing that is still on its way to them was sent to them before. *)
LEMMA NotFoundStep ==
    ASSUME DeliveryInv, received, UNCHANGED <<ownerVars, got>>,
           NotFound(Head(pipe)), fetch_callback_notfound(Head(pipe).req)
    PROVE  DeliveryInv'
<1> DEFINE i == Head(pipe).req
<1>1. Head(pipe) = pipe[1] /\ 1 \in 1 .. Len(pipe) /\ Head(pipe) \in Packets
  BY TailPipe, Typed
<1>2. i \in TreeIds /\ i # Oldest /\ i < first
  BY <1>1, PacketFacts, Zenon DEF NotFound, DeliveryInv, PipeInv, PacketInv
<1>3. UNCHANGED <<pub, first, subscribed>>
  BY Zenon DEF ownerVars
<1>4. SpoolsInv'
  BY <1>2, <1>3, LocalSpools, Zenon
<1>5. SpoolerInv'
  BY <1>2, StepInv, Zenon DEF SpoolerNext, DeliveryInv
<1>6. last' = [s \in Subs |-> IF at[s] = i THEN Oldest ELSE last[s]]
  BY <1>2, Zenon DEF fetch_callback_notfound, transfer_last
<1>7. \A k \in 1 .. Len(pipe') : ForOldest(pipe'[k]) => i < pipe'[k].id
  <2> SUFFICES ASSUME NEW k \in 1 .. Len(pipe'), ForOldest(pipe'[k]) PROVE i < pipe'[k].id
    BY Zenon
  <2>1. k + 1 \in 1 .. Len(pipe) /\ pipe'[k] = pipe[k + 1] /\ 1 < k + 1
    BY TailPipe
  <2> QED BY <1>1, <2>1, Zenon DEF DeliveryInv, PipeInv
<1>8. ASSUME NEW s \in Subs, at[s] = i, got[s] # <<>> PROVE LastGot(s) = i
  <2>1. last[s] = i
    BY <1>2, <1>8, Ids, Zenon DEF DeliveryInv, SpoolerInv, SubscriberInItsSpool
  <2>2. i \in MsgIds
    <3>1. i # Nth
      BY <1>8, <2>1, Zenon DEF DeliveryInv, GotInv
    <3> QED BY <1>2, <3>1, Typed DEF TreeIds, MsgIds, Oldest
  <2> QED BY <1>8, <2>1, <2>2, Zenon DEF DeliveryInv, GotInv
<1> HIDE DEF i
<1>9. GotInv'
  <2> SUFFICES ASSUME NEW s \in Subs
               PROVE  /\ last'[s] <= pub
                      /\ last'[s] \in {Newest, Nth} => got[s] = <<>>
                      /\ last'[s] \in MsgIds => got[s] # <<>> /\ LastGot(s) = last'[s]
                      /\ last'[s] = Oldest /\ got[s] # <<>> =>
                            /\ LastGot(s) < first
                            /\ \A k \in 1 .. Len(pipe') : ForOldest(pipe'[k]) => LastGot(s) < pipe'[k].id
    BY <1>3, Zenon DEF GotInv, LastGot, ForOldest, Found
  <2>1. CASE at[s] = i
    <3>1. last'[s] = Oldest /\ Oldest <= pub /\ Oldest \notin {Newest, Nth} /\ Oldest \notin MsgIds
      BY <1>6, <2>1, Typed, Ids DEF Oldest, Newest, Nth
    <3> QED BY <1>2, <1>7, <1>8, <2>1, <3>1, Zenon
  <2>2. CASE at[s] # i
    <3>1. last'[s] = last[s]
      BY <1>6, <2>2, Zenon
    <3> QED BY <3>1, TailForOldest, Zenon DEF DeliveryInv, GotInv
  <2> QED BY <2>1, <2>2, Zenon
<1>10. InOrder' /\ NoGap'
  BY <1>3, Zenon DEF DeliveryInv, InOrder, NoGap
<1>11. DeliveryTypeOK' /\ PipeInv'
  BY <1>5, ReaderRest, Typed, Zenon
<1> QED BY <1>4, <1>5, <1>9, <1>10, <1>11, Zenon DEF DeliveryInv

(* A subscriber at the oldest message, and a packet that sends it message m
   although it may have been sent messages before its place was lost. *)
LEMMA OldestGets ==
    ASSUME DeliveryInv, received, NEW s \in Subs, last[s] = Oldest, got[s] # <<>>,
           ForOldest(Head(pipe)), NEW m \in MsgIds, Head(pipe).id = m, Dropped(Oldest, m)
    PROVE  LastGot(s) < m /\ Dropped(LastGot(s), m)
<1>1. Head(pipe) = pipe[1] /\ 1 \in 1 .. Len(pipe)
  BY TailPipe, Typed
<1>2. LastGot(s) < m
  BY <1>1, Zenon DEF DeliveryInv, GotInv
<1>3. LastGot(s) \in Nat
  BY Typed
<1>4. Dropped(LastGot(s), m)
  BY <1>3, Ids DEF Dropped, Oldest
<1> QED BY <1>2, <1>4, Zenon

(* A message that was found. *)
LEMMA FoundStep ==
    ASSUME DeliveryInv, received, UNCHANGED ownerVars, Found(Head(pipe)),
           fetch_callback_found(Head(pipe).req, Head(pipe).id),
           got' = sent({Head(pipe).req}, Head(pipe).id)
    PROVE  DeliveryInv'
<1>1. PICK i, m : i = Head(pipe).req /\ m = Head(pipe).id
  BY Zenon
<1>2. Head(pipe) = pipe[1] /\ 1 \in 1 .. Len(pipe) /\ Head(pipe) \in Packets
  BY TailPipe, Typed
<1>3. i \in TreeIds /\ m \in MsgIds /\ i < m /\ m <= pub /\ (i # Nth => Dropped(i, m))
  BY <1>1, <1>2, PacketFacts, Zenon DEF Found, DeliveryInv, PipeInv, PacketInv
<1>4. UNCHANGED <<pub, first, subscribed>>
  BY Zenon DEF ownerVars
<1>5. Answered(i) /\ respond_and_nextmsg({i}, m, unlinked(i)) /\ got' = sent({i}, m)
  BY <1>1, Zenon DEF fetch_callback_found
<1>6. SpoolerInv'
  BY <1>1, <1>3, StepInv, Zenon DEF SpoolerNext, DeliveryInv
<1>7. SpoolsInv'
  <2>1. SpoolerInv /\ {i} \in SUBSET SpoolIds
    BY <1>3, Ids, Zenon DEF DeliveryInv
  <2>2. \A j \in TreeIds : Exists(j)' \/ fetches'[j] > 0 => Exists(j) \/ fetches[j] > 0 \/ j = m
    BY <1>3, <1>5, <2>1, UnlinkedFetches, RespondSpools, Zenon
  <2> QED BY <1>3, <1>4, <2>2, Zenon DEF DeliveryInv, SpoolsInv
<1>8. ASSUME NEW s \in Subs, at[s] \in {i}, got[s] # <<>>
      PROVE  LastGot(s) < m /\ Dropped(LastGot(s), m)
  <2>1. last[s] = i
    BY <1>3, <1>8, Ids, Zenon DEF DeliveryInv, SpoolerInv, SubscriberInItsSpool
  <2>2. i # Nth
    BY <1>8, <2>1, Zenon DEF DeliveryInv, GotInv
  <2>3. CASE i = Oldest
    BY <1>1, <1>3, <1>8, <2>1, <2>2, <2>3, OldestGets, Zenon DEF ForOldest
  <2>4. CASE i \in MsgIds
    BY <1>3, <1>8, <2>1, <2>2, <2>4, Zenon DEF DeliveryInv, GotInv
  <2>5. i = Oldest \/ i \in MsgIds
    BY <1>3, <2>2, Typed DEF TreeIds, MsgIds, Oldest
  <2> QED BY <2>3, <2>4, <2>5, Zenon
<1>9. last' = [s \in Subs |-> IF at[s] \in {i} THEN m ELSE last[s]]
  BY <1>5, Zenon DEF respond_and_nextmsg
<1>10. GotInv' /\ InOrder' /\ NoGap' /\ got' \in [Subs -> Seq(0 .. MaxId)]
  <2>1. {i} \in SUBSET SpoolIds
    BY <1>3, Ids, Zenon
  <2> QED BY <1>3, <1>4, <1>5, <1>8, <1>9, <2>1, Delivered, Zenon
<1>11. DeliveryTypeOK' /\ PipeInv'
  BY <1>6, <1>10, ReaderRest, Zenon
<1> QED BY <1>6, <1>7, <1>10, <1>11, Zenon DEF DeliveryInv

(* A message that was published. *)
LEMMA PushStep == DeliveryInv /\ receive_publish_message => DeliveryInv'
<1> SUFFICES ASSUME DeliveryInv, receive_publish_message PROVE DeliveryInv'
  BY Zenon
<1>0. received /\ UNCHANGED <<ownerVars, pub, first, subscribed>> /\ Head(pipe).type = "msg"
  BY Zenon DEF receive_publish_message, ownerVars
<1>1. PICK q, m : q = Head(pipe).prev /\ m = Head(pipe).id
  BY Zenon
<1>2. Head(pipe) = pipe[1] /\ 1 \in 1 .. Len(pipe) /\ Head(pipe) \in Packets
  BY <1>0, TailPipe, Typed
<1>3. q \in 0 .. MaxId /\ m \in MsgIds /\ q < m /\ m <= pub /\ Dropped(q, m)
  BY <1>0, <1>1, <1>2, PacketFacts, Zenon DEF DeliveryInv, PipeInv, PacketInv
<1> DEFINE From == InRange(q, m) \cup (IF SubsIn(at, Newest) # {} THEN {Newest} ELSE {})
<1>4. /\ spooler_respond_message(q, m) /\ respond_and_nextmsg(From, m, fetches)
      /\ got' = sent(InRange(q, m) \cup {Newest}, m)
  BY <1>1, Zenon DEF receive_publish_message, spooler_respond_message
<1>5. \A s \in Subs : at[s] \in From <=> at[s] \in InRange(q, m) \cup {Newest}
  BY Zenon DEF SubsIn
<1>6. From \in SUBSET SpoolIds
  BY Ids, Zenon DEF InRange
<1>7. \A s \in Subs : at[s] \in From => at[s] = Newest \/ (at[s] \in TreeIds /\ q <= at[s] /\ at[s] < m)
  BY Zenon DEF InRange
<1> HIDE DEF From
<1>8. got' = sent(From, m)
  BY <1>4, <1>5, Zenon DEF sent
<1>9. last' = [s \in Subs |-> IF at[s] \in From THEN m ELSE last[s]]
  BY <1>4, Zenon DEF respond_and_nextmsg
<1>10. SpoolerInv'
  <2>1. q \in 0 .. m - 1
    BY <1>3, Typed, Ids
  <2> QED BY <1>3, <1>4, <2>1, StepInv, Zenon DEF SpoolerNext, DeliveryInv
<1>11. SpoolsInv'
  <2>1. SpoolerInv /\ fetches \in [TreeIds -> Nat]
    BY Zenon DEF DeliveryInv, SpoolerInv, SpoolerTypeOK
  <2>2. \A j \in TreeIds : Exists(j)' \/ fetches'[j] > 0 => Exists(j) \/ fetches[j] > 0 \/ j = m
    BY <1>3, <1>4, <1>6, <2>1, RespondSpools, Zenon
  <2> QED BY <1>0, <1>3, <2>2, Zenon DEF DeliveryInv, SpoolsInv
<1>12. ASSUME NEW s \in Subs, at[s] \in From, got[s] # <<>>
       PROVE  LastGot(s) < m /\ Dropped(LastGot(s), m)
  <2>1. at[s] # Newest
    BY <1>7, <1>12, Ids, Zenon DEF DeliveryInv, SpoolerInv, SubscriberInItsSpool, GotInv
  <2>2. last[s] = at[s] /\ last[s] \in TreeIds /\ q <= last[s] /\ last[s] < m
    BY <1>7, <1>12, <2>1, Ids, Zenon DEF DeliveryInv, SpoolerInv, SubscriberInItsSpool
  <2>3. last[s] \in 0 .. MaxId
    BY <1>3, <2>2, Typed DEF TreeIds, Nth
  <2>4. CASE last[s] = Oldest
    <3>1. q = Oldest
      BY <1>3, <2>2, <2>4, Typed DEF Oldest
    <3> QED BY <1>0, <1>1, <1>3, <1>12, <2>4, <3>1, OldestGets, Zenon DEF ForOldest
  <2>5. CASE last[s] \in MsgIds
    <3>1. LastGot(s) = last[s]
      BY <2>5, Zenon DEF DeliveryInv, GotInv
    <3>2. Dropped(last[s], m)
      BY <1>3, <2>2, <2>3, Ids DEF Dropped
    <3> QED BY <2>2, <3>1, <3>2, Zenon
  <2> QED BY <2>3, <2>4, <2>5, Typed DEF MsgIds, Oldest
<1>13. GotInv' /\ InOrder' /\ NoGap' /\ got' \in [Subs -> Seq(0 .. MaxId)]
  BY <1>0, <1>3, <1>6, <1>8, <1>9, <1>12, Delivered, Zenon
<1>14. DeliveryTypeOK' /\ PipeInv'
  BY <1>0, <1>10, <1>13, ReaderRest, Zenon
<1> QED BY <1>10, <1>11, <1>13, <1>14, Zenon DEF DeliveryInv

-----------------------------------------------------------------------------
(* Nothing is published and nobody has been sent anything at first. *)
LEMMA DeliveryStart == DeliveryInit => DeliveryInv
<1> SUFFICES ASSUME DeliveryInit PROVE DeliveryInv
  BY Zenon
<1>1. SpoolerInv /\ SpoolerInit
  BY InitInv, Zenon DEF DeliveryInit
<1>2. last \in [Subs -> Starts] /\ Starts \subseteq {0, -1, -2}
  BY <1>1, ConstantsAssumption, Zenon DEF SpoolerInit
<1>3. /\ pub = 0 /\ first = 1 /\ subscribed = FALSE /\ pipe = <<>> /\ Len(pipe) = 0
      /\ got = [s \in Subs |-> IF last[s] = Oldest THEN <<0>> ELSE <<>>]
  BY Zenon DEF DeliveryInit
<1>4. ASSUME NEW s \in Subs
      PROVE  /\ got[s] \in Seq(0 .. MaxId) /\ Len(got[s]) \in {0, 1}
             /\ last[s] # Oldest => got[s] = <<>>
             /\ last[s] = Oldest => got[s][Len(got[s])] = 0
  <2>1. CASE last[s] = Oldest
    <3>1. got[s] = <<0>>
      BY <1>3, <2>1, Zenon
    <3>2. 0 \in 0 .. MaxId
      BY Ids
    <3>3. <<0>> \in Seq(0 .. MaxId) /\ Len(<<0>>) = 1 /\ <<0>>[1] = 0
      BY <3>2
    <3> QED BY <2>1, <3>1, <3>3, Zenon
  <2>2. CASE last[s] # Oldest
    <3>1. got[s] = <<>> /\ <<>> \in Seq(0 .. MaxId) /\ Len(<<>>) = 0
      BY <1>3, <2>2
    <3> QED BY <2>2, <3>1, Zenon
  <2> QED BY <2>1, <2>2, Zenon
<1>5. DeliveryTypeOK
  <2>1. got \in [Subs -> Seq(0 .. MaxId)]
    BY <1>3, <1>4, Zenon
  <2>0. MaxId \in Nat
    BY Ids, Zenon
  <2>2. pub \in 0 .. MaxId /\ first \in 1 .. pub + 1
    <3>1. pub = 0 /\ first = 1
      BY <1>3, Zenon
    <3> QED BY <2>0, <3>1
  <2>3. pipe \in Seq(Packets)
    BY <1>3
  <2>4. subscribed \in BOOLEAN
    <3>1. subscribed = FALSE
      BY <1>3, Zenon
    <3> QED BY <3>1, Zenon
  <2> QED BY <1>1, <2>1, <2>2, <2>3, <2>4, Zenon DEF DeliveryTypeOK, SpoolerInv
<1>6. PipeInv
  BY <1>3 DEF PipeInv
<1>7. SpoolsInv
  BY <1>1, <1>3, Ids DEF SpoolsInv, SpoolerInit, start_spooler, Exists
<1>8. InOrder /\ NoGap
  BY <1>4 DEF InOrder, NoGap
<1>9. GotInv
  <2> SUFFICES ASSUME NEW s \in Subs
               PROVE  /\ last[s] <= pub
                      /\ last[s] \in {Newest, Nth} => got[s] = <<>>
                      /\ last[s] \notin MsgIds
                      /\ last[s] = Oldest => LastGot(s) < first
    BY <1>3 DEF GotInv
  <2>1. last[s] \in {0, -1, -2}
    BY <1>2, Zenon
  <2>2. last[s] <= pub /\ last[s] \notin MsgIds
    BY <1>3, <2>1 DEF MsgIds
  <2> QED BY <1>3, <1>4, <2>2 DEF LastGot, Newest, Nth, Oldest
<1> QED BY <1>1, <1>5, <1>6, <1>7, <1>8, <1>9, Zenon DEF DeliveryInv

-----------------------------------------------------------------------------
(* What follows counts answers: it needs the facts about finite sets. *)
INSTANCE FiniteSetTheorems

(* A request that the owner has not answered is one of the spooler's. *)
LEMMA UnansweredFetch ==
    ASSUME DeliveryInv, NEW i \in TreeIds, Unanswered(i) > 0
    PROVE  fetches[i] > 0
<1> DEFINE A == {k \in DOMAIN pipe : pipe[k].type = "reply" /\ pipe[k].req = i}
<1>1. DOMAIN pipe = 1 .. Len(pipe) /\ Len(pipe) \in Nat
  BY Typed
<1>2. IsFiniteSet(1 .. Len(pipe))
  BY <1>1, FS_Interval
<1>3. IsFiniteSet(A)
  BY <1>1, <1>2, FS_Subset, Zenon
<1>4. Cardinality(A) \in Nat
  BY <1>3, FS_CardinalityType, Zenon
<1>5. fetches[i] - Cardinality(A) > 0 /\ fetches[i] \in Nat
  BY Zenon DEF Unanswered, DeliveryInv, SpoolerInv, SpoolerTypeOK
<1> HIDE DEF A
<1> QED BY <1>4, <1>5

(* The owner answers a request. *)
LEMMA GetMessageStep ==
    ASSUME DeliveryInv, NEW i \in TreeIds, receive_get_message(i) PROVE DeliveryInv'
<1>1. PICK p : p = chanhead_find_next_message(i)
  BY Zenon
<1>2. pipe' = Append(pipe, p) /\ UNCHANGED <<spoolerVars, pub, first, subscribed, got>>
  BY <1>1, Zenon DEF receive_get_message, ownerVars
<1>3. i <= pub
  BY UnansweredFetch, Zenon DEF receive_get_message, DeliveryInv, SpoolsInv
<1>4. p \in Packets /\ PacketInv(p) /\ (ForOldest(p) => p.id >= first)
  BY <1>1, <1>3, AnswerFacts, Zenon
<1>5. PacketInv(p)'
  BY <1>2, <1>4, Zenon DEF PacketInv, Dropped, Found, NotFound
<1>6. pub' \in Nat /\ pub' >= pub /\ first' \in Nat /\ first' >= first
  <2>1. pub' = pub /\ first' = first
    BY <1>2, Zenon
  <2>2. pub \in Nat /\ first \in Nat
    BY Typed, Zenon
  <2> QED BY <2>1, <2>2
<1>7. /\ PipeInv' /\ pipe' \in Seq(Packets) /\ Len(pipe') = Len(pipe) + 1
      /\ \A k \in 1 .. Len(pipe) : pipe'[k] = pipe[k]
      /\ pipe'[Len(pipe) + 1] = p
  BY <1>2, <1>4, <1>5, <1>6, AppendKeepsPipe, Zenon
<1>8. ForOldest(p) => p.id \in Nat
  BY <1>4, PacketFacts, Ids, Zenon DEF ForOldest
<1>9. \A k \in 1 .. Len(pipe') :
         \/ k \in 1 .. Len(pipe) /\ pipe'[k] = pipe[k]
         \/ ForOldest(pipe'[k]) => pipe'[k].id \in Nat /\ pipe'[k].id >= first
  BY <1>4, <1>7, <1>8, Typed
<1>10. GotInv' /\ InOrder' /\ NoGap'
  BY <1>2, <1>6, <1>9, OwnerKeepsGot, Zenon DEF spoolerVars
<1>11. SpoolerInv' /\ SpoolerTypeOK' /\ SpoolsInv'
  BY <1>2, <1>6, SpoolerStill, Zenon
<1>12. DeliveryTypeOK'
  BY <1>2, <1>7, <1>11, Zenon DEF DeliveryInv, DeliveryTypeOK
<1> QED BY <1>7, <1>10, <1>11, <1>12, Zenon DEF DeliveryInv

(* Every step keeps the invariant. *)
LEMMA DeliveryStep == DeliveryInv /\ [DeliveryNext]_vars => DeliveryInv'
<1> SUFFICES ASSUME DeliveryInv, [DeliveryNext]_vars PROVE DeliveryInv'
  BY Zenon
<1>1. CASE receive_subscribe
  BY <1>1, SubscribeStep, Zenon
<1>2. CASE publish
  BY <1>2, PublishStep, Zenon
<1>3. CASE expire
  BY <1>3, ExpireStep, Zenon
<1>4. CASE \E i \in TreeIds : receive_get_message(i)
  BY <1>4, GetMessageStep, Zenon
<1>5. CASE \/ \E s \in Subs : subscribe(s) \/ disconnect(s)
           \/ \E i \in TreeIds : timeout(i)
  BY <1>5, LocalStep, Zenon
<1>6. CASE receive_subscribe_reply
  BY <1>6, QuietStep, Zenon DEF receive_subscribe_reply
<1>7. CASE receive_publish_message
  BY <1>7, PushStep, Zenon
<1>8. CASE receive_get_message_reply
  <2>1. received /\ UNCHANGED ownerVars /\ Head(pipe).type = "reply"
    BY <1>8, Zenon DEF receive_get_message_reply
  <2>2. Head(pipe).req \in TreeIds
    BY <2>1, TailPipe, PacketFacts, Zenon
  <2>3. CASE /\ Head(pipe).code = "FOUND" /\ fetch_callback_found(Head(pipe).req, Head(pipe).id)
             /\ got' = sent({Head(pipe).req}, Head(pipe).id)
    BY <2>1, <2>3, FoundStep, Zenon DEF Found
  <2>4. CASE fetch_callback_expected(Head(pipe).req) /\ UNCHANGED got
    BY <2>1, <2>2, <2>4, QuietStep, Zenon
  <2>5. CASE /\ Head(pipe).code = "NOTFOUND" /\ fetch_callback_notfound(Head(pipe).req)
             /\ UNCHANGED got
    BY <2>1, <2>5, NotFoundStep, Zenon DEF NotFound
  <2>6. CASE fetch_callback_discard(Head(pipe).req) /\ UNCHANGED got
    BY <2>1, <2>2, <2>6, QuietStep, Zenon
  <2> QED BY <1>8, <2>3, <2>4, <2>5, <2>6, Zenon DEF receive_get_message_reply
<1>9. CASE UNCHANGED vars
  <2>1. UNCHANGED <<spoolerVars, status, spool, at, last, timer, fetches, stale, crash,
                    pub, first, subscribed, pipe, got>>
    BY <1>9, Zenon DEF vars, ownerVars, spoolerVars
  <2>2. SpoolerInv' /\ SpoolerTypeOK' /\ SpoolsInv'
    BY <2>1, SpoolerStill, Typed
  <2>3. PipeInv'
    BY <2>1, Zenon DEF DeliveryInv, PipeInv, PacketInv, Dropped, Found, NotFound, ForOldest
  <2>4. GotInv' /\ InOrder' /\ NoGap'
    BY <2>1, Zenon DEF DeliveryInv, GotInv, LastGot, InOrder, NoGap, ForOldest, Found
  <2>5. DeliveryTypeOK'
    BY <2>1, <2>2, Zenon DEF DeliveryInv, DeliveryTypeOK
  <2> QED BY <2>2, <2>3, <2>4, <2>5, Zenon DEF DeliveryInv
<1> QED
  BY <1>1, <1>2, <1>3, <1>4, <1>5, <1>6, <1>7, <1>8, <1>9, Zenon DEF DeliveryNext

(* The invariant holds in every behaviour. *)
LEMMA DeliveryInvariant == DeliverySpec => []DeliveryInv
BY DeliveryStart, DeliveryStep, PTL DEF DeliverySpec

(* However publishing, expiring and fetching race, no subscriber is sent a
   message twice or out of order: an answer that arrives late finds its
   spool moved on, and a message is pushed only to spools before it. *)
THEOREM DeliveredInOrder == DeliverySpec => []InOrder
<1>1. DeliveryInv => InOrder
  BY Zenon DEF DeliveryInv
<1> QED BY <1>1, DeliveryInvariant, PTL

(* No subscriber misses a message that is still in the channel's buffer:
   prev_id of a message pushed, and the id asked for of a message found,
   reach back to what the subscriber has. *)
THEOREM DeliveredWithoutGap == DeliverySpec => []NoGap
<1>1. DeliveryInv => NoGap
  BY Zenon DEF DeliveryInv
<1> QED BY <1>1, DeliveryInvariant, PTL

(* The ids that the owner stores, the packets on their way and the spooler
   keep their types: in particular a packet's prev_id and the id asked for
   are those that the handlers of the spooler expect. *)
THEOREM DeliveryTypes == DeliverySpec => []DeliveryTypeOK
<1>1. DeliveryInv => DeliveryTypeOK
  BY Zenon DEF DeliveryInv
<1> QED BY <1>1, DeliveryInvariant, PTL

=============================================================================
