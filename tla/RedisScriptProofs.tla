-------------------------- MODULE RedisScriptProofs --------------------------
(***************************************************************************)
(* What each of the scripts that keep a channel in Redis (RedisScripts)    *)
(* does to the channel's keys, and that it keeps the invariant RsInv.  The *)
(* theorems that rest on it are in RedisProofs.                            *)
(***************************************************************************)
EXTENDS RedisScripts, TLAPS

(* What is used of numbers and of finite sets.  It is proved in RedisProofs. *)
CountingFacts ==
    /\ \A n \in Nat : \A S \in SUBSET (1..n) : S # {} => \E m \in S : \A k \in S : k <= m
    /\ \A S \in SUBSET RsWorkers :
           /\ IsFiniteSet(S) /\ Cardinality(S) \in Nat /\ (Cardinality(S) = 0 <=> S = {})
           /\ \A T \in SUBSET S : Cardinality(T) <= Cardinality(S)
           /\ \A w \in RsWorkers \ S : Cardinality(S \cup {w}) = Cardinality(S) + 1
           /\ \A w \in S : Cardinality(S \ {w}) = Cardinality(S) - 1

(* An element appended comes last. *)
LEMMA Appended ==
    ASSUME NEW S, NEW s \in Seq(S), NEW x \in S
    PROVE  /\ Append(s, x) \in Seq(S) /\ Len(Append(s, x)) = Len(s) + 1 /\ Append(s, x) # <<>>
           /\ Append(s, x)[Len(s) + 1] = x /\ \A k \in 1..Len(s) : Append(s, x)[k] = s[k]
           /\ Append(s, x) = s \o <<x>>
  OBVIOUS

(* The types of what the keys hold. *)
Ids == Nat \X Nat
Times == 0..Never
Channel == [on : BOOLEAN, cur : Ids \cup {NoId}, max : Int, subs : Int, fake : Int, exp : Times]
IdList == [ids : Seq(Ids), exp : Times]
Message == [prev : Ids, next : Ids \cup {NoId}, exp : Times, unbuffered : BOOLEAN, n : Nat]
Registration == [on : BOOLEAN, due : Nat, interval : Nat]

RsFields == {"conf", "left", "now", "back", "chan", "list", "counts", "msgs", "up", "real", "evict", "reg", "reader",
             "delta", "dropped", "renewer", "astray", "log", "reused", "wiped", "deleted", "refused", "skipped", "idle"}

(* The keys and what belongs to them have their types. *)
ChanOK(d) == d.chan \in Channel /\ (~d.chan.on => d.chan = NoChannel)
MsgsOK(d) == d.msgs \in [DOMAIN d.msgs -> Message] /\ DOMAIN d.msgs \subseteq Ids
CountsOK(d) ==
    /\ DOMAIN d.counts = {"of", "exp"} /\ d.counts.exp \in Times
    /\ d.counts.of \in [DOMAIN d.counts.of -> Int] /\ DOMAIN d.counts.of \subseteq RsWorkers
KeysOK(d) ==
    /\ DOMAIN d = RsFields
    /\ d.now \in 2..MaxClock
    /\ ChanOK(d) /\ d.list \in IdList /\ MsgsOK(d) /\ CountsOK(d)

(* e is d but for the fields F. *)
Same(d, e, F) == DOMAIN e = RsFields /\ \A f \in RsFields \ F : e[f] = d[f]

(* Facts about the constants. *)
LEMMA Numbers ==
    /\ MaxClock \in Nat /\ MaxClock > 1 /\ FourYears \in Nat /\ FourYears > 4 /\ Never = MaxClock + FourYears + 2
    /\ SafetyMargin \in Nat \ {0} /\ NotReadyRetry \in Nat /\ IdleTtl.min \in Nat /\ IdleTtl.max \in Nat \ {0}
    /\ IdleTtl.max + SafetyMargin <= FourYears /\ IdleTtl.multiplier \in Nat /\ IdleTtl.jitter \in Nat
  BY RsAssumption, Zenon DEF Never

(* No message has the empty id. *)
LEMMA NoIdIsNone == NoId \notin Ids
  BY DEF NoId, Ids

(* What a channel looks like that was just created, or is missing. *)
LEMMA BareTyped ==
    /\ BareChannel(TRUE) \in Channel /\ BareChannel(TRUE).on /\ BareChannel(TRUE).exp = Never
    /\ BareChannel(TRUE).cur = NoId /\ BareChannel(TRUE).subs = 0
    /\ NoChannel \in Channel /\ ~NoChannel.on /\ NoChannel.exp = Never /\ NoChannel.cur = NoId
  BY Numbers DEF BareChannel, NoChannel, Channel, Nil, Times

(* Two channels with the same fields are the same. *)
LEMMA ChannelFields ==
    ASSUME NEW c \in Channel, NEW d \in Channel, c.on = d.on, c.cur = d.cur, c.max = d.max,
           c.subs = d.subs, c.fake = d.fake, c.exp = d.exp
    PROVE  c = d
  BY DEF Channel

(* A new expiry of a channel changes nothing else of it. *)
LEMMA ChannelExp ==
    ASSUME NEW c \in Channel, NEW t \in Times, NEW d, d = [c EXCEPT !.exp = t]
    PROVE  /\ d \in Channel /\ d.on = c.on /\ d.cur = c.cur /\ d.max = c.max
           /\ d.subs = c.subs /\ d.fake = c.fake /\ d.exp = t
  BY Zenon DEF Channel

(* touch_channel creates the channel's hash when it is missing. *)
LEMMA TouchParts ==
    ASSUME NEW d, KeysOK(d), NEW e, e = touch_channel(d)
    PROVE  /\ Same(d, e, {"chan"}) /\ KeysOK(e)
           /\ e.chan = IF d.chan.on THEN d.chan ELSE BareChannel(TRUE)
<1>1. DOMAIN d = RsFields
  BY Zenon DEF KeysOK
<1>2. CASE d.chan.on
  BY <1>1, <1>2, Zenon DEF touch_channel, Same
<1>3. CASE ~d.chan.on
  <2> DEFINE c == BareChannel(TRUE)
  <2>2. e = [d EXCEPT !.chan = c]
    BY <1>3, Zenon DEF touch_channel
  <2> HIDE DEF c
  <2>4. DOMAIN e = RsFields /\ e.chan = c
    BY <1>1, <2>2, Zenon DEF RsFields
  <2>5. Same(d, e, {"chan"})
    BY <1>1, <2>2, <2>4, Zenon DEF RsFields, Same
  <2>6. e.now = d.now /\ e.list = d.list /\ e.msgs = d.msgs /\ e.counts = d.counts
    BY <2>5, Zenon DEF Same, RsFields
  <2>7. ChanOK(e)
    BY <2>4, BareTyped, Zenon DEF c, ChanOK
  <2>8. KeysOK(e)
    BY <2>4, <2>6, <2>7, Zenon DEF KeysOK, MsgsOK, CountsOK
  <2> QED BY <1>3, <2>4, <2>5, <2>8, Zenon DEF c
<1> QED BY <1>2, <1>3, Zenon

(* expire_all changes only when the keys expire. *)
LEMMA ExpireParts ==
    ASSUME NEW d, KeysOK(d), NEW ttl \in Int, d.now + ttl \in Times, NEW e, e = expire_all(d, ttl)
    PROVE  /\ Same(d, e, {"chan", "list", "counts"}) /\ KeysOK(e)
           /\ e.chan.on = d.chan.on /\ e.chan.cur = d.chan.cur /\ e.chan.subs = d.chan.subs
           /\ e.chan.exp = IF d.chan.on THEN d.now + ttl ELSE Never
           /\ e.list.ids = d.list.ids
           /\ e.list.exp = IF d.list.ids # <<>> THEN d.now + ttl ELSE Never
           /\ e.counts.of = d.counts.of
<1>1. PICK at : at = d.now + ttl
  BY Zenon
<1>2. PICK c : c = IF d.chan.on THEN at ELSE Never
  BY Zenon
<1>3. PICK l : l = IF d.list.ids # <<>> THEN at ELSE Never
  BY Zenon
<1>4. PICK k : k = IF DOMAIN d.counts.of # {} THEN at ELSE Never
  BY Zenon
<1>5. c \in Times /\ l \in Times /\ k \in Times
  BY <1>1, <1>2, <1>3, <1>4, Numbers DEF Times
<1>6. e = [d EXCEPT !.chan.exp = c, !.list.exp = l, !.counts.exp = k]
  BY <1>1, <1>2, <1>3, <1>4, Zenon DEF expire_all
<1>7. DOMAIN d = RsFields /\ d.chan \in Channel /\ d.list \in IdList /\ DOMAIN d.counts = {"of", "exp"}
  BY Zenon DEF KeysOK, ChanOK, CountsOK
<1>8. Same(d, e, {"chan", "list", "counts"})
  BY <1>6, <1>7, Zenon DEF Same, RsFields
<1>9. e.chan = [d.chan EXCEPT !.exp = c] /\ e.list = [d.list EXCEPT !.exp = l] /\ e.counts = [d.counts EXCEPT !.exp = k]
  BY <1>6, <1>7, Zenon DEF RsFields
<1>10. /\ e.chan \in Channel /\ e.chan.on = d.chan.on /\ e.chan.cur = d.chan.cur /\ e.chan.max = d.chan.max
       /\ e.chan.subs = d.chan.subs /\ e.chan.fake = d.chan.fake /\ e.chan.exp = c
  BY <1>5, <1>7, <1>9, ChannelExp
<1>11. e.list \in IdList /\ e.list.ids = d.list.ids /\ e.list.exp = l
  BY <1>5, <1>7, <1>9, Zenon DEF IdList
<1>12. DOMAIN e.counts = {"of", "exp"} /\ e.counts.of = d.counts.of /\ e.counts.exp = k
  BY <1>7, <1>9, Zenon
<1>13. ASSUME ~e.chan.on PROVE e.chan = NoChannel
  <2>1. d.chan = NoChannel /\ c = Never
    BY <1>2, <1>10, <1>13, Zenon DEF KeysOK, ChanOK
  <2> QED BY <1>7, <1>10, <2>1, BareTyped, ChannelFields, Zenon
<1>14. DOMAIN e = RsFields /\ e.now = d.now /\ e.msgs = d.msgs
  BY <1>8, Zenon DEF Same, RsFields
<1>15. KeysOK(e)
  BY <1>5, <1>10, <1>11, <1>12, <1>13, <1>14, Zenon DEF KeysOK, ChanOK, MsgsOK, CountsOK
<1> QED BY <1>1, <1>2, <1>3, <1>8, <1>10, <1>11, <1>12, <1>15, Zenon

(* del_all deletes the keys, and del_messages messages. *)
LEMMA DelAllParts ==
    ASSUME NEW d, KeysOK(d), NEW e, e = del_all(d)
    PROVE  /\ Same(d, e, {"chan", "list", "counts"}) /\ KeysOK(e)
           /\ e.chan = NoChannel /\ e.list = NoList /\ e.counts = NoCounts
<1>1. DOMAIN d = RsFields
  BY Zenon DEF KeysOK
<1>2. PICK c, l, k : c = NoChannel /\ l = NoList /\ k = NoCounts
  BY Zenon
<1>3. e = [d EXCEPT !.chan = c, !.list = l, !.counts = k]
  BY <1>2, Zenon DEF del_all
<1>4. Same(d, e, {"chan", "list", "counts"}) /\ e.chan = c /\ e.list = l /\ e.counts = k
  BY <1>1, <1>3, Zenon DEF Same, RsFields
<1>5. NoList \in IdList
  BY Numbers DEF NoList, IdList, Times
<1>6. DOMAIN NoCounts = {"of", "exp"} /\ NoCounts.exp = Never /\ NoCounts.of = <<>>
  BY Zenon DEF NoCounts
<1>7. CountsOK(e)
  BY <1>2, <1>4, <1>6, Numbers DEF CountsOK, Times
<1>8. DOMAIN e = RsFields /\ e.now = d.now /\ e.msgs = d.msgs
  BY <1>4, Zenon DEF Same, RsFields
<1>9. KeysOK(e)
  BY <1>2, <1>4, <1>5, <1>7, <1>8, BareTyped, Zenon DEF KeysOK, ChanOK, MsgsOK
<1> QED BY <1>2, <1>4, <1>9, Zenon

(* del_messages removes the messages named and changes no other. *)
LEMMA DelMessagesParts ==
    ASSUME NEW d, KeysOK(d), NEW ids, NEW e, e = del_messages(d, ids)
    PROVE  /\ Same(d, e, {"msgs"}) /\ KeysOK(e)
           /\ DOMAIN e.msgs = DOMAIN d.msgs \ ids /\ \A i \in DOMAIN e.msgs : e.msgs[i] = d.msgs[i]
<1>1. PICK m : m = [i \in DOMAIN d.msgs \ ids |-> d.msgs[i]]
  BY Zenon
<1>2. e = [d EXCEPT !.msgs = m]
  BY <1>1, Zenon DEF del_messages, Restrict
<1>3. Same(d, e, {"msgs"}) /\ e.msgs = m
  BY <1>2, Zenon DEF KeysOK, Same, RsFields
<1>4. /\ DOMAIN e = RsFields /\ e.now = d.now /\ e.chan = d.chan /\ e.list = d.list
      /\ e.counts = d.counts
  BY <1>3, Zenon DEF Same, RsFields
<1>5. MsgsOK(e)
  BY <1>1, <1>3, Zenon DEF KeysOK, MsgsOK
<1>6. KeysOK(e)
  BY <1>4, <1>5, Zenon DEF KeysOK, ChanOK, CountsOK
<1> QED BY <1>1, <1>3, <1>6, Zenon

(* set_list writes the list, which is gone when it is empty. *)
LEMMA SetListParts ==
    ASSUME NEW d, KeysOK(d), NEW ids \in Seq(Ids), NEW e, e = set_list(d, ids)
    PROVE  /\ Same(d, e, {"list"}) /\ KeysOK(e)
           /\ e.list.ids = ids /\ e.list.exp = IF ids = <<>> THEN Never ELSE d.list.exp
<1>1. PICK l : l = IF ids = <<>> THEN NoList ELSE [d.list EXCEPT !.ids = ids]
  BY Zenon
<1>2. e = [d EXCEPT !.list = l]
  BY <1>1, Zenon DEF set_list
<1>3. Same(d, e, {"list"}) /\ e.list = l
  BY <1>2, Zenon DEF KeysOK, Same, RsFields
<1>4. /\ DOMAIN e = RsFields /\ e.now = d.now /\ e.chan = d.chan /\ e.msgs = d.msgs
      /\ e.counts = d.counts
  BY <1>3, Zenon DEF Same, RsFields
<1>5. l \in IdList /\ l.ids = ids /\ l.exp = IF ids = <<>> THEN Never ELSE d.list.exp
  <2>1. d.list \in IdList
    BY Zenon DEF KeysOK
  <2>2. CASE ids = <<>>
    BY <1>1, <2>2, Numbers DEF NoList, IdList, Times
  <2>3. CASE ids # <<>>
    BY <1>1, <2>1, <2>3, Zenon DEF IdList
  <2> QED BY <2>2, <2>3, Zenon
<1>6. KeysOK(e)
  BY <1>3, <1>4, <1>5, Zenon DEF KeysOK, ChanOK, MsgsOK, CountsOK
<1> QED BY <1>3, <1>5, <1>6, Zenon

(* set_counts writes the counts. *)
LEMMA SetCountsParts ==
    ASSUME NEW d, KeysOK(d), NEW of, of \in [DOMAIN of -> Int], DOMAIN of \subseteq RsWorkers,
           NEW e, e = set_counts(d, of)
    PROVE  /\ Same(d, e, {"counts"}) /\ KeysOK(e)
           /\ DOMAIN e.counts.of = DOMAIN of /\ \A w \in DOMAIN of : e.counts.of[w] = of[w]
<1>1. PICK l : l = IF DOMAIN of = {} THEN NoCounts ELSE [d.counts EXCEPT !.of = of]
  BY Zenon
<1>2. e = [d EXCEPT !.counts = l]
  BY <1>1, Zenon DEF set_counts
<1>3. Same(d, e, {"counts"}) /\ e.counts = l
  BY <1>2, Zenon DEF KeysOK, Same, RsFields
<1>4. /\ DOMAIN e = RsFields /\ e.now = d.now /\ e.chan = d.chan /\ e.msgs = d.msgs
      /\ e.list = d.list
  BY <1>3, Zenon DEF Same, RsFields
<1>5. /\ DOMAIN l = {"of", "exp"} /\ l.exp \in Times /\ l.of \in [DOMAIN l.of -> Int]
      /\ DOMAIN l.of = DOMAIN of /\ \A w \in DOMAIN of : l.of[w] = of[w]
  <2>1. DOMAIN d.counts = {"of", "exp"} /\ d.counts.exp \in Times
    BY Zenon DEF KeysOK, CountsOK
  <2>2. CASE DOMAIN of = {}
    BY <1>1, <2>2, Numbers DEF NoCounts, Times
  <2>3. CASE DOMAIN of # {}
    BY <1>1, <2>1, <2>3, Zenon
  <2> QED BY <2>2, <2>3, Zenon
<1>6. CountsOK(e)
  BY <1>3, <1>5, Zenon DEF CountsOK
<1>7. KeysOK(e)
  BY <1>4, <1>6, Zenon DEF KeysOK, ChanOK, MsgsOK
<1> QED BY <1>3, <1>5, <1>7, Zenon

(* Some of the ids at the old end of a list were dropped, none of a message that is there. *)
Kept(old, new, msgs) ==
    \E k \in 0..Len(old) : /\ new = SubSeq(old, 1, k)
                           /\ \A j \in 1..Len(old) : old[j] \in DOMAIN msgs => j <= k

(* The largest of a set of numbers in a range. *)
LEMMA MaxOf ==
    ASSUME CountingFacts, NEW n \in Nat, NEW S \in SUBSET (1..n), S # {}
    PROVE  Max(S) \in S /\ \A k \in S : k <= Max(S)
<1>1. \E m \in S : \A k \in S : k <= m
  BY Zenon DEF CountingFacts
<1> QED BY <1>1, Zenon DEF Max

(* oldestmsg drops ids of messages that are gone. *)
LEMMA OldestParts ==
    ASSUME CountingFacts, NEW d, KeysOK(d), NEW e, e = oldestmsg(d)
    PROVE  /\ Same(d, e, {"list"}) /\ KeysOK(e)
           /\ Kept(d.list.ids, e.list.ids, d.msgs)
           /\ e.list.exp = IF e.list.ids = <<>> THEN Never ELSE d.list.exp
           /\ e.list.ids # <<>> => e.list.ids[Len(e.list.ids)] \in DOMAIN d.msgs
<1> DEFINE old == d.list.ids
           alive == {k \in 1..Len(old) : old[k] \in DOMAIN d.msgs}
<1>1. old \in Seq(Ids)
  BY Zenon DEF KeysOK, IdList
<1>2. PICK k : k = IF alive = {} THEN 0 ELSE Max(alive)
  BY Zenon
<1>3. /\ k \in 0..Len(old) /\ (k # 0 => old[k] \in DOMAIN d.msgs)
      /\ \A j \in 1..Len(old) : old[j] \in DOMAIN d.msgs => j <= k
  <2>1. Len(old) \in Nat /\ alive \in SUBSET (1..Len(old))
    BY <1>1
  <2>2. CASE alive = {}
    BY <1>2, <2>1, <2>2
  <2>3. CASE alive # {}
    <3>1. Max(alive) \in alive /\ \A j \in alive : j <= Max(alive)
      BY <2>1, <2>3, MaxOf, Zenon
    <3> QED BY <1>2, <2>1, <2>3, <3>1, SMTT(30)
  <2> QED BY <2>2, <2>3, Zenon
<1>4. PICK new : new = SubSeq(old, 1, k)
  BY Zenon
<1>5. new \in Seq(Ids) /\ Len(new) = k /\ (k # 0 => new[k] = old[k]) /\ (k = 0 => new = <<>>)
  BY <1>1, <1>3, <1>4
<1>6. e = set_list(d, new)
  BY <1>2, <1>4, <1>5, Zenon DEF oldestmsg
<1>7. /\ Same(d, e, {"list"}) /\ KeysOK(e)
      /\ e.list.ids = new /\ e.list.exp = IF new = <<>> THEN Never ELSE d.list.exp
  BY <1>5, <1>6, SetListParts
<1>8. Kept(old, new, d.msgs)
  BY <1>3, <1>4, Zenon DEF Kept
<1>9. new # <<>> => new[Len(new)] \in DOMAIN d.msgs
  BY <1>3, <1>5, Zenon
<1> QED BY <1>7, <1>8, <1>9, Zenon

(* forget_uncounted drops counts. *)
LEMMA ForgetParts ==
    ASSUME NEW d, KeysOK(d), NEW e, e = forget_uncounted(d)
    PROVE  /\ Same(d, e, {"counts"}) /\ KeysOK(e)
           /\ DOMAIN e.counts.of \subseteq DOMAIN d.counts.of
           /\ \A w \in DOMAIN e.counts.of : e.counts.of[w] = d.counts.of[w]
<1>1. CASE ~d.conf.accurate
  BY <1>1, Zenon DEF forget_uncounted, Same, KeysOK
<1>2. CASE d.conf.accurate
  <2>1. PICK of : of = [w \in counted(d) |-> d.counts.of[w]]
    BY Zenon
  <2>2. e = set_counts(d, of)
    BY <1>2, <2>1, Zenon DEF forget_uncounted, Restrict
  <2>3. counted(d) \subseteq DOMAIN d.counts.of
    BY Zenon DEF counted
  <2>4. of \in [DOMAIN of -> Int] /\ DOMAIN of \subseteq RsWorkers
    BY <2>1, <2>3, Zenon DEF KeysOK, CountsOK
  <2>5. /\ Same(d, e, {"counts"}) /\ KeysOK(e)
        /\ DOMAIN e.counts.of = DOMAIN of /\ \A w \in DOMAIN of : e.counts.of[w] = of[w]
    BY <2>2, <2>4, SetCountsParts
  <2> QED BY <2>1, <2>3, <2>5, Zenon
<1> QED BY <1>1, <1>2, Zenon

(* What link_last and expire_message leave of a message. *)
Alike(m, o) == m.prev = o.prev /\ m.unbuffered = o.unbuffered /\ m.n = o.n

(* link_last tells the last message which one follows it. *)
LEMMA LinkParts ==
    ASSUME NEW d, KeysOK(d), NEW id \in Ids, NEW e, e = link_last(d, id)
    PROVE  /\ Same(d, e, {"msgs"}) /\ KeysOK(e) /\ DOMAIN e.msgs = DOMAIN d.msgs
           /\ \A i \in DOMAIN d.msgs : /\ Alike(e.msgs[i], d.msgs[i]) /\ e.msgs[i].exp = d.msgs[i].exp
                                       /\ e.msgs[i].next = IF i = d.chan.cur THEN id ELSE d.msgs[i].next
<1>1. DOMAIN d = RsFields /\ MsgsOK(d)
  BY Zenon DEF KeysOK
<1>2. CASE d.chan.cur \notin DOMAIN d.msgs
  BY <1>1, <1>2, Zenon DEF link_last, Same, Alike
<1>3. CASE d.chan.cur \in DOMAIN d.msgs
  <2>1. PICK cur : cur = d.chan.cur
    BY Zenon
  <2>2. PICK m : m = [d.msgs EXCEPT ![cur] = [d.msgs[cur] EXCEPT !.next = id]]
    BY Zenon
  <2>3. e = [d EXCEPT !.msgs = m]
    BY <1>3, <2>1, <2>2, Zenon DEF link_last
  <2>4. Same(d, e, {"msgs"}) /\ e.msgs = m
    BY <1>1, <2>3, Zenon DEF Same, RsFields
  <2>5. DOMAIN m = DOMAIN d.msgs /\ m \in [DOMAIN m -> Message]
    BY <1>1, <1>3, <2>1, <2>2 DEF MsgsOK, Message
  <2>6. ASSUME NEW i \in DOMAIN d.msgs
        PROVE  /\ Alike(m[i], d.msgs[i]) /\ m[i].exp = d.msgs[i].exp
               /\ m[i].next = IF i = cur THEN id ELSE d.msgs[i].next
    BY <1>1, <1>3, <2>1, <2>2, Zenon DEF MsgsOK, Message, Alike
  <2>7. /\ DOMAIN e = RsFields /\ e.now = d.now /\ e.chan = d.chan /\ e.list = d.list
        /\ e.counts = d.counts
    BY <2>4, Zenon DEF Same, RsFields
  <2>8. MsgsOK(e)
    BY <1>1, <2>4, <2>5, Zenon DEF MsgsOK
  <2>9. KeysOK(e)
    BY <2>7, <2>8, Zenon DEF KeysOK, ChanOK, CountsOK
  <2> QED BY <2>1, <2>4, <2>5, <2>6, <2>9, Zenon
<1> QED BY <1>2, <1>3, Zenon

(* A written message: the last one, when it lives, precedes it and knows it. *)
LEMMA WriteParts ==
    ASSUME NEW d, KeysOK(d), d.log \in Seq(Ids), NEW id \in Ids, id \notin DOMAIN d.msgs, NEW max \in Int,
           NEW e, e = write_message(d, id, max)
    PROVE  /\ Same(d, e, {"chan", "msgs", "reused", "log"}) /\ KeysOK(e)
           /\ e.chan.on /\ e.chan.cur = id /\ e.chan.subs = d.chan.subs /\ e.chan.exp = d.chan.exp
           /\ DOMAIN e.msgs = DOMAIN d.msgs \cup {id}
           /\ \A i \in DOMAIN d.msgs : /\ Alike(e.msgs[i], d.msgs[i]) /\ e.msgs[i].exp = d.msgs[i].exp
                                       /\ e.msgs[i].next = IF i = d.chan.cur THEN id ELSE d.msgs[i].next
           /\ e.msgs[id].prev = IF d.chan.cur \in DOMAIN d.msgs THEN d.chan.cur ELSE <<0, 0>>
           /\ e.msgs[id].next = NoId /\ e.msgs[id].n = Len(d.log) + 1
           /\ e.msgs[id].unbuffered = (max = 0)
           /\ e.log = Append(d.log, id)
           /\ e.reused = (d.reused \/ id \in Range(d.log))
<1> DEFINE last == IF d.chan.cur \in DOMAIN d.msgs THEN d.chan.cur ELSE <<0, 0>>
           msg == [prev |-> last, next |-> NoId, exp |-> Never, unbuffered |-> max = 0, n |-> Len(d.log) + 1]
<1>1. PICK l : l = link_last(d, id)
  BY Zenon
<1>2. PICK t : t = touch_channel(l)
  BY Zenon
<1>3. /\ Same(d, l, {"msgs"}) /\ KeysOK(l) /\ DOMAIN l.msgs = DOMAIN d.msgs
      /\ \A i \in DOMAIN d.msgs : /\ Alike(l.msgs[i], d.msgs[i]) /\ l.msgs[i].exp = d.msgs[i].exp
                                  /\ l.msgs[i].next = IF i = d.chan.cur THEN id ELSE d.msgs[i].next
  BY <1>1, LinkParts
<1>4. /\ Same(l, t, {"chan"}) /\ KeysOK(t)
      /\ t.chan = IF l.chan.on THEN l.chan ELSE BareChannel(TRUE)
  BY <1>2, <1>3, TouchParts, Zenon
<1>5. l.chan = d.chan /\ l.log = d.log /\ l.reused = d.reused
  BY <1>3, Zenon DEF Same, RsFields
<1>6. t.log = d.log /\ t.reused = d.reused /\ t.msgs = l.msgs
  BY <1>4, <1>5, Zenon DEF Same, RsFields
<1>7. t.chan \in Channel /\ t.chan.on /\ t.chan.subs = d.chan.subs /\ t.chan.exp = d.chan.exp
  <2>1. d.chan \in Channel /\ (~d.chan.on => d.chan = NoChannel)
    BY Zenon DEF KeysOK, ChanOK
  <2>2. CASE d.chan.on
    BY <1>4, <1>5, <2>1, <2>2, Zenon
  <2>3. CASE ~d.chan.on
    <3>1. NoChannel.subs = 0
      BY Zenon DEF NoChannel, BareChannel
    <3> QED BY <1>4, <1>5, <2>1, <2>3, <3>1, BareTyped, Zenon
  <2> QED BY <2>2, <2>3, Zenon
<1>8. PICK c : c = [t.chan EXCEPT !.cur = id, !.max = max]
  BY Zenon
<1>9. PICK m : m = hset(l.msgs, id, msg)
  BY Zenon
<1>10. PICK lg : lg = Append(d.log, id)
  BY Zenon
<1>11. PICK r : r = (d.reused \/ id \in Range(d.log))
  BY Zenon
<1>12. last \in Ids /\ msg \in Message
  <2>1. last \in Ids
    BY Zenon DEF KeysOK, MsgsOK, Ids
  <2>2. Never \in Times
    BY Numbers DEF Times
  <2> HIDE DEF last
  <2>3. Len(d.log) + 1 \in Nat
    OBVIOUS
  <2>4. msg \in Message
    BY <2>1, <2>2, <2>3, Zenon DEF Message
  <2> QED BY <2>1, <2>4, Zenon
<1>13. PICK mm : mm = msg
  BY Zenon
<1>14. mm \in Message /\ mm.prev = last /\ mm.next = NoId /\ mm.unbuffered = (max = 0) /\ mm.n = Len(d.log) + 1
  BY <1>12, <1>13, Zenon
<1>15. m = [i \in DOMAIN l.msgs \cup {id} |-> IF i = id THEN mm ELSE l.msgs[i]]
  BY <1>9, <1>13, Zenon DEF hset
<1>16. e = [t EXCEPT !.chan = c, !.msgs = m, !.reused = r, !.log = lg]
  <2>1. DOMAIN t = RsFields
    BY <1>4, Zenon DEF KeysOK
  <2> QED BY <1>1, <1>2, <1>6, <1>8, <1>9, <1>10, <1>11, <2>1, Zenon DEF write_message, RsFields
<1> HIDE DEF last, msg
<1>17. /\ Same(t, e, {"chan", "msgs", "reused", "log"})
       /\ e.chan = c /\ e.msgs = m /\ e.reused = r /\ e.log = lg
  BY <1>4, <1>16, Zenon DEF KeysOK, Same, RsFields
<1>18. c \in Channel /\ c.on /\ c.cur = id /\ c.subs = d.chan.subs /\ c.exp = d.chan.exp
  BY <1>7, <1>8, Zenon DEF Channel
<1>19. /\ DOMAIN m = DOMAIN d.msgs \cup {id} /\ m[id] = mm
       /\ \A i \in DOMAIN d.msgs : m[i] = l.msgs[i]
  BY <1>3, <1>15, Zenon
<1>20. MsgsOK(e)
  BY <1>3, <1>14, <1>15, <1>17, <1>19 DEF KeysOK, MsgsOK
<1>21. /\ DOMAIN e = RsFields /\ e.now = t.now /\ e.list = t.list /\ e.counts = t.counts
  BY <1>17, Zenon DEF Same, RsFields
<1>22. KeysOK(e)
  BY <1>4, <1>17, <1>18, <1>20, <1>21, Zenon DEF KeysOK, ChanOK, CountsOK
<1>23. Same(d, e, {"chan", "msgs", "reused", "log"})
  BY <1>3, <1>4, <1>17, Zenon DEF Same
<1> QED BY <1>3, <1>10, <1>11, <1>14, <1>17, <1>18, <1>19, <1>22, <1>23 DEF last

(* A list with one more id in front. *)
LEMMA Pushed ==
    ASSUME NEW ids \in Seq(Ids), NEW id \in Ids
    PROVE  /\ lpush(ids, id) \in Seq(Ids) /\ Len(lpush(ids, id)) = Len(ids) + 1
           /\ lpush(ids, id)[1] = id /\ lpush(ids, id) # <<>>
           /\ \A k \in 1..Len(ids) : lpush(ids, id)[k + 1] = ids[k]
           /\ \A k \in 2..(Len(ids) + 1) : lpush(ids, id)[k] = ids[k - 1]
  BY DEF lpush

(* Dropping from the end and pushing to the front do not interfere. *)
LEMMA PushCut ==
    ASSUME NEW ids \in Seq(Ids), NEW id \in Ids, NEW k \in 0..Len(ids)
    PROVE  lpush(SubSeq(ids, 1, k), id) = SubSeq(lpush(ids, id), 1, k + 1)
<1>1. PICK p : p = lpush(ids, id)
  BY Zenon
<1>2. PICK c : c = SubSeq(ids, 1, k)
  BY Zenon
<1>3. PICK q : q = lpush(c, id)
  BY Zenon
<1>4. c \in Seq(Ids) /\ Len(c) = k /\ \A j \in 1..k : c[j] = ids[j]
  BY <1>2
<1>5. Len(p) = Len(ids) + 1 /\ p[1] = id /\ p \in Seq(Ids) /\ \A j \in 1..Len(ids) : p[j + 1] = ids[j]
  BY <1>1, Pushed, Zenon
<1>6. q \in Seq(Ids) /\ Len(q) = k + 1 /\ q[1] = id /\ \A j \in 1..k : q[j + 1] = c[j]
  BY <1>3, <1>4, Pushed, Zenon
<1>7. PICK s : s = SubSeq(p, 1, k + 1)
  BY Zenon
<1>8. s \in Seq(Ids) /\ Len(s) = k + 1 /\ \A j \in 1..(k + 1) : s[j] = p[j]
  BY <1>5, <1>7
<1>9. \A j \in 1..(k + 1) : q[j] = s[j]
  <2>1. TAKE j \in 1..(k + 1)
  <2>2. CASE j = 1
    BY <1>5, <1>6, <1>8, <2>2, Zenon
  <2>3. CASE j # 1
    <3>1. PICK i \in 1..k : j = i + 1
      BY <2>3
    <3>2. i \in 1..Len(ids)
      OBVIOUS
    <3> QED BY <1>4, <1>5, <1>6, <1>8, <3>1, <3>2, Zenon
  <2> QED BY <2>2, <2>3, Zenon
<1>10. q = s
  BY <1>6, <1>8, <1>9
<1> QED BY <1>1, <1>2, <1>3, <1>7, <1>10, Zenon

(* The smaller of two numbers. *)
LEMMA MinOfTwo ==
    ASSUME NEW a \in Int, NEW b \in Int
    PROVE  Min({a, b}) = IF a <= b THEN a ELSE b
<1> DEFINE S == {a, b}
           m == IF a <= b THEN a ELSE b
<1>1. m \in S /\ \A y \in S : m <= y
  OBVIOUS
<1>2. \A x \in S : (\A y \in S : x <= y) => x = m
  OBVIOUS
<1>3. Min(S) = CHOOSE x \in S : \A y \in S : x <= y
  BY Zenon DEF Min
<1> HIDE DEF S, m
<1>4. Min(S) \in S /\ \A y \in S : Min(S) <= y
  BY <1>1, <1>3, Zenon
<1>5. Min(S) = m
  BY <1>2, <1>4, Zenon
<1> QED BY <1>5, Zenon DEF S, m

(* A list cut twice. *)
LEMMA CutCut ==
    ASSUME NEW p \in Seq(Ids), NEW t \in 0..Len(p), NEW k \in 0..t
    PROVE  SubSeq(SubSeq(p, 1, t), 1, k) = SubSeq(p, 1, k)
<1>1. PICK a : a = SubSeq(p, 1, t)
  BY Zenon
<1>2. a \in Seq(Ids) /\ Len(a) = t /\ \A j \in 1..t : a[j] = p[j]
  BY <1>1
<1>3. PICK b, c : b = SubSeq(a, 1, k) /\ c = SubSeq(p, 1, k)
  BY Zenon
<1>4. b \in Seq(Ids) /\ Len(b) = k /\ \A j \in 1..k : b[j] = a[j]
  BY <1>2, <1>3
<1>5. c \in Seq(Ids) /\ Len(c) = k /\ \A j \in 1..k : c[j] = p[j]
  BY <1>3
<1>6. \A j \in 1..k : b[j] = c[j]
  BY <1>2, <1>4, <1>5
<1>7. b = c
  BY <1>4, <1>5, <1>6
<1> QED BY <1>1, <1>3, <1>7, Zenon

(* The list and the messages after store_id: the id is in front, what was
   dropped from the old end is gone, and no other message is. *)
LEMMA StoreParts ==
    ASSUME CountingFacts, NEW d, KeysOK(d), NEW id \in Ids, NEW max \in Int, NEW e, e = store_id(d, id, max),
           NEW p, p = lpush(d.list.ids, id)
    PROVE  /\ Same(d, e, {"msgs", "list"}) /\ KeysOK(e)
           /\ DOMAIN e.msgs \subseteq DOMAIN d.msgs /\ \A i \in DOMAIN e.msgs : e.msgs[i] = d.msgs[i]
           /\ max = 0 => e = d
           /\ max # 0 => Kept(p, e.list.ids, e.msgs) /\ (e.list.ids = <<>> => e.list.exp = Never)
           /\ e.list.exp \in {d.list.exp, Never}
           /\ \A i \in DOMAIN d.msgs \ DOMAIN e.msgs :
                  max # 0 /\ \E k \in 2..Len(p) : p[k] = i /\ k > Len(e.list.ids)
<1>1. d.list.ids \in Seq(Ids)
  BY Zenon DEF KeysOK, IdList
<1>2. PICK old : old = d.list.ids
  BY Zenon
<1>3. /\ old \in Seq(Ids) /\ p \in Seq(Ids) /\ Len(p) = Len(old) + 1 /\ p[1] = id /\ p # <<>>
      /\ \A k \in 1..Len(old) : p[k + 1] = old[k]
  BY <1>1, <1>2, Pushed, Zenon
<1>4. CASE max = 0
  BY <1>4 DEF store_id, Same, KeysOK
<1>5. CASE max < 0
  <2>1. PICK o : o = oldestmsg(d)
    BY Zenon
  <2>2. /\ Same(d, o, {"list"}) /\ KeysOK(o) /\ Kept(old, o.list.ids, d.msgs)
        /\ o.list.exp = IF o.list.ids = <<>> THEN Never ELSE d.list.exp
    BY <1>2, <2>1, OldestParts, Zenon
  <2>3. PICK q : q = lpush(o.list.ids, id)
    BY Zenon
  <2>4. e = set_list(o, q)
    BY <1>5, <2>1, <2>3, Zenon DEF store_id
  <2>5. q \in Seq(Ids) /\ q # <<>>
    <3>1. o.list.ids \in Seq(Ids)
      BY <2>2, Zenon DEF KeysOK, IdList
    <3> QED BY <2>3, <3>1, Pushed, Zenon
  <2>6. Same(o, e, {"list"}) /\ KeysOK(e) /\ e.list.ids = q /\ e.list.exp = o.list.exp
    BY <2>2, <2>4, <2>5, SetListParts
  <2>7. e.msgs = d.msgs /\ Same(d, e, {"msgs", "list"})
    BY <2>2, <2>6, Zenon DEF Same, RsFields
  <2>8. PICK k \in 0..Len(old) : /\ o.list.ids = SubSeq(old, 1, k)
                                 /\ \A j \in 1..Len(old) : old[j] \in DOMAIN d.msgs => j <= k
    BY <2>2, Zenon DEF Kept
  <2>9. q = SubSeq(p, 1, k + 1)
    BY <1>2, <1>3, <2>3, <2>8, PushCut
  <2>10. ASSUME NEW j \in 1..Len(p), p[j] \in DOMAIN d.msgs PROVE j <= k + 1
    <3>1. CASE j = 1
      BY <3>1
    <3>2. CASE j # 1
      <4>1. PICK i \in 1..Len(old) : j = i + 1
        BY <1>3, <3>2
      <4> QED BY <1>3, <2>8, <2>10, <4>1
    <3> QED BY <3>1, <3>2, Zenon
  <2>11. Kept(p, e.list.ids, e.msgs)
    <3>1. k + 1 \in 0..Len(p)
      BY <1>3
    <3> QED BY <2>6, <2>7, <2>9, <2>10, <3>1, Zenon DEF Kept
  <2> QED BY <1>5, <2>2, <2>5, <2>6, <2>7, <2>11
<1>6. CASE max > 0
  <2>1. PICK gone : gone = {p[k] : k \in (max + 1)..Len(p)}
    BY Zenon
  <2>2. PICK t : t = IF max <= Len(p) THEN max ELSE Len(p)
    BY Zenon
  <2>3. PICK c : c = SubSeq(p, 1, t)
    BY Zenon
  <2>4. t \in 1..Len(p) /\ c \in Seq(Ids) /\ c # <<>> /\ Len(c) = t /\ \A j \in 1..t : c[j] = p[j]
    <3>1. t \in 1..Len(p)
      BY <1>3, <1>6, <2>2
    <3>2. c \in Seq(Ids) /\ Len(c) = t /\ \A j \in 1..t : c[j] = p[j]
      BY <1>3, <2>3, <3>1
    <3> QED BY <3>1, <3>2
  <2>5. trim(p, max) = c
    <3>1. Min({max, Len(p)}) = t
      BY <1>3, <2>2, MinOfTwo
    <3> QED BY <2>3, <3>1, Zenon DEF trim
  <2>6. PICK m : m = del_messages(d, gone)
    BY Zenon
  <2>7. /\ Same(d, m, {"msgs"}) /\ KeysOK(m)
        /\ DOMAIN m.msgs = DOMAIN d.msgs \ gone /\ \A i \in DOMAIN m.msgs : m.msgs[i] = d.msgs[i]
    BY <2>6, DelMessagesParts
  <2>8. PICK s : s = set_list(m, c)
    BY Zenon
  <2>9. Same(m, s, {"list"}) /\ KeysOK(s) /\ s.list.ids = c /\ s.list.exp = m.list.exp
    BY <2>4, <2>7, <2>8, SetListParts
  <2>10. e = oldestmsg(s)
    <3>1. e = trim_messages(d, p, max)
      BY <1>6 DEF store_id
    <3> QED BY <2>1, <2>5, <2>6, <2>8, <3>1, Zenon DEF trim_messages
  <2>11. /\ Same(s, e, {"list"}) /\ KeysOK(e) /\ Kept(c, e.list.ids, s.msgs)
         /\ e.list.exp = IF e.list.ids = <<>> THEN Never ELSE s.list.exp
    BY <2>9, <2>10, OldestParts, Zenon
  <2>12. Same(d, e, {"msgs", "list"}) /\ m.list = d.list /\ s.msgs = m.msgs /\ e.msgs = m.msgs
    BY <2>7, <2>9, <2>11, Zenon DEF Same, RsFields
  <2>13. PICK k \in 0..t : /\ e.list.ids = SubSeq(c, 1, k)
                           /\ \A j \in 1..t : c[j] \in DOMAIN m.msgs => j <= k
    BY <2>4, <2>11, <2>12, Zenon DEF Kept
  <2>14. e.list.ids = SubSeq(p, 1, k) /\ Len(e.list.ids) = k
    <3>1. SubSeq(c, 1, k) = SubSeq(p, 1, k)
      BY <1>3, <2>3, <2>4, CutCut
    <3> QED BY <1>3, <2>4, <2>13, <3>1
  <2>15. ASSUME NEW j \in 1..Len(p), p[j] \in DOMAIN m.msgs PROVE j <= k
    <3>1. CASE j <= t
      BY <2>4, <2>13, <2>15, <3>1
    <3>2. CASE j > t
      <4>1. j \in (max + 1)..Len(p)
        BY <1>3, <1>6, <2>2, <3>2
      <4> QED BY <2>1, <2>7, <2>15, <4>1, Zenon
    <3> QED BY <2>4, <3>1, <3>2
  <2>16. Kept(p, e.list.ids, e.msgs)
    <3>1. k \in 0..Len(p)
      BY <2>4
    <3> QED BY <2>12, <2>14, <2>15, <3>1, Zenon DEF Kept
  <2>17. ASSUME NEW i \in DOMAIN d.msgs \ DOMAIN e.msgs
         PROVE  \E j \in 2..Len(p) : p[j] = i /\ j > Len(e.list.ids)
    <3>1. PICK j \in (max + 1)..Len(p) : i = p[j]
      BY <2>1, <2>7, <2>12, Zenon
    <3>2. j \in 2..Len(p) /\ j > k
      BY <1>3, <1>6, <2>2, <2>4, <3>1
    <3> QED BY <2>14, <3>1, <3>2, Zenon
  <2> QED BY <1>6, <2>7, <2>9, <2>11, <2>12, <2>16, <2>17
<1> QED BY <1>4, <1>5, <1>6

(* set_expirations: the message lives for its ttl, and the channel's keys at
   least a second longer. *)
LEMMA SetExpirationsParts ==
    ASSUME NEW d, KeysOK(d), d.chan.on, NEW id \in Ids, NEW ttl \in 1..FourYears,
           NEW e, e = set_expirations(d, id, ttl), NEW longer, longer = (d.chan.exp = Never \/ d.now + ttl + 1 > d.chan.exp)
    PROVE  /\ Same(d, e, {"msgs", "chan", "list", "counts"}) /\ KeysOK(e) /\ DOMAIN e.msgs = DOMAIN d.msgs
           /\ \A i \in DOMAIN d.msgs : /\ Alike(e.msgs[i], d.msgs[i]) /\ e.msgs[i].next = d.msgs[i].next
                                       /\ e.msgs[i].exp = IF i = id THEN d.now + ttl ELSE d.msgs[i].exp
           /\ e.chan.on /\ e.chan.cur = d.chan.cur /\ e.chan.subs = d.chan.subs
           /\ e.chan.exp = IF longer THEN d.now + ttl + 1 ELSE d.chan.exp
           /\ e.list.ids = d.list.ids
           /\ longer => e.list.exp = IF d.list.ids = <<>> THEN Never ELSE d.now + ttl + 1
           /\ ~longer => e.list.exp = d.list.exp
           /\ e.counts.of = d.counts.of
<1>1. d.now \in 2..MaxClock /\ d.chan \in Channel /\ d.chan.exp \in Times /\ DOMAIN d = RsFields /\ MsgsOK(d)
  BY Zenon DEF KeysOK, ChanOK, Channel
<1>2. d.now + ttl \in Times /\ d.now + (ttl + 1) \in Times /\ ttl + 1 \in Int /\ d.now + (ttl + 1) = d.now + ttl + 1
  BY <1>1, Numbers DEF Times
<1>3. PICK x : x = expire_message(d, id, ttl)
  BY Zenon
<1>4. /\ Same(d, x, {"msgs"}) /\ KeysOK(x) /\ DOMAIN x.msgs = DOMAIN d.msgs
      /\ \A i \in DOMAIN d.msgs : /\ Alike(x.msgs[i], d.msgs[i]) /\ x.msgs[i].next = d.msgs[i].next
                                  /\ x.msgs[i].exp = IF i = id THEN d.now + ttl ELSE d.msgs[i].exp
  <2>1. CASE id \notin DOMAIN d.msgs
    BY <1>1, <1>3, <2>1, Zenon DEF expire_message, Same, Alike
  <2>2. CASE id \in DOMAIN d.msgs
    <3>1. PICK at : at = d.now + ttl
      BY Zenon
    <3>2. PICK m : m = [d.msgs EXCEPT ![id] = [d.msgs[id] EXCEPT !.exp = at]]
      BY Zenon
    <3>3. x = [d EXCEPT !.msgs = m]
      BY <1>3, <2>2, <3>1, <3>2, Zenon DEF expire_message
    <3>4. Same(d, x, {"msgs"}) /\ x.msgs = m
      BY <1>1, <3>3, Zenon DEF Same, RsFields
    <3>5. DOMAIN m = DOMAIN d.msgs /\ m \in [DOMAIN m -> Message]
      BY <1>1, <1>2, <2>2, <3>1, <3>2 DEF MsgsOK, Message
    <3>6. ASSUME NEW i \in DOMAIN d.msgs
          PROVE  /\ Alike(m[i], d.msgs[i]) /\ m[i].next = d.msgs[i].next
                 /\ m[i].exp = IF i = id THEN at ELSE d.msgs[i].exp
      BY <1>1, <2>2, <3>2, Zenon DEF MsgsOK, Message, Alike
    <3>7. /\ DOMAIN x = RsFields /\ x.now = d.now /\ x.chan = d.chan /\ x.list = d.list
          /\ x.counts = d.counts
      BY <3>4, Zenon DEF Same, RsFields
    <3>8. MsgsOK(x)
      BY <1>1, <3>4, <3>5, Zenon DEF MsgsOK
    <3>9. KeysOK(x)
      BY <3>7, <3>8, Zenon DEF KeysOK, ChanOK, CountsOK
    <3> QED BY <3>1, <3>4, <3>5, <3>6, <3>9, Zenon
  <2> QED BY <2>1, <2>2, Zenon
<1>5. x.now = d.now /\ x.chan = d.chan /\ x.list = d.list /\ x.counts = d.counts
  BY <1>4, Zenon DEF Same, RsFields
<1>6. (ttl + 1 > channel_ttl(d)) = longer
  BY <1>1, <1>2, Numbers DEF channel_ttl, ttl_of, Times
<1>7. e = IF longer THEN expire_all(x, ttl + 1) ELSE x
  BY <1>3, <1>6, Zenon DEF set_expirations
<1>8. CASE ~longer
  <2>1. e = x
    BY <1>7, <1>8, Zenon
  <2>2. Same(d, e, {"msgs", "chan", "list", "counts"})
    BY <1>4, <2>1, Zenon DEF Same
  <2> QED BY <1>4, <1>5, <1>8, <2>1, <2>2, Zenon
<1>9. CASE longer
  <2>1. e = expire_all(x, ttl + 1)
    BY <1>7, <1>9, Zenon
  <2>2. /\ Same(x, e, {"chan", "list", "counts"}) /\ KeysOK(e)
        /\ e.chan.on = x.chan.on /\ e.chan.cur = x.chan.cur /\ e.chan.subs = x.chan.subs
        /\ e.chan.exp = IF x.chan.on THEN x.now + (ttl + 1) ELSE Never
        /\ e.list.ids = x.list.ids
        /\ e.list.exp = IF x.list.ids # <<>> THEN x.now + (ttl + 1) ELSE Never
        /\ e.counts.of = x.counts.of
    BY <1>2, <1>4, <1>5, <2>1, ExpireParts
  <2>3. Same(d, e, {"msgs", "chan", "list", "counts"}) /\ e.msgs = x.msgs
    BY <1>4, <2>2, Zenon DEF Same, RsFields
  <2> QED BY <1>2, <1>4, <1>5, <1>9, <2>2, <2>3
<1> QED BY <1>8, <1>9, Zenon

-----------------------------------------------------------------------------
(* The invariant. *)

(* The workers, the reader and the history have their types. *)
RestOK(d) ==
    /\ d.conf \in RsSetups /\ d.back \in 0..1
    /\ d.up \in [RsWorkers -> BOOLEAN] /\ d.real \in [RsWorkers -> Nat] /\ d.reg \in [RsWorkers -> Registration]
    /\ d.delta \in [RsWorkers -> Int] /\ d.dropped \in [RsWorkers -> Nat]
    /\ d.reader \in [id : Ids \cup {NoId}, n : Nat] /\ d.log \in Seq(Ids)
    /\ d.reused \in BOOLEAN /\ d.wiped \in BOOLEAN /\ d.deleted \in BOOLEAN

(* A buffered message is listed, and its channel expires later; the list does
   not expire before the channel. *)
Lasting(d) ==
    /\ \A i \in DOMAIN d.msgs :
           ~d.msgs[i].unbuffered => /\ \E k \in 1..Len(d.list.ids) : d.list.ids[k] = i
                                    /\ d.chan.on /\ d.chan.cur # NoId /\ d.chan.exp # Never
                                    /\ d.msgs[i].exp < d.chan.exp
    /\ d.list.exp \in {d.chan.exp, Never} /\ (d.list.ids = <<>> => d.list.exp = Never)

(* What is known of a message in the history: it is the last one with its id,
   and its neighbours are those it names. *)
Placed(i, m, log) ==
    /\ m.n \in 1..Len(log) /\ log[m.n] = i /\ \A k \in 1..Len(log) : k > m.n => log[k] # i
    /\ m.prev # <<0, 0>> => m.n > 1 /\ m.prev = log[m.n - 1] /\ Earlier(m.prev, i)
    /\ m.next # NoId => m.n < Len(log) /\ m.next = log[m.n + 1]

(* The messages, the channel, the list and the reader refer to the history. *)
Linked(d) ==
    /\ \A i \in DOMAIN d.msgs : Placed(i, d.msgs[i], d.log)
    /\ d.chan.cur # NoId => Len(d.log) > 0 /\ d.chan.cur = d.log[Len(d.log)]
    /\ d.reader.id # NoId => d.reader.n \in 1..Len(d.log) /\ d.log[d.reader.n] = d.reader.id
    /\ \A k \in 1..Len(d.list.ids) : \E j \in 1..Len(d.log) : d.log[j] = d.list.ids[k]

(* As long as no id was given twice, the list has the newest message first. *)
Ordered(ids, log) ==
    /\ \A j, k \in 1..Len(log) : log[j] = log[k] => j = k
    /\ \A j, k \in 1..Len(ids) :
           j < k => \A a, b \in 1..Len(log) : log[a] = ids[j] /\ log[b] = ids[k] => b < a

(* Before a failover no id is from the future, and within a second without a
   deletion the current message lives and has the highest id. *)
Fresh(d) ==
    d.back = 0 =>
        \A k \in 1..Len(d.log) :
            /\ d.log[k][1] <= d.now
            /\ ~d.wiped /\ d.log[k][1] = d.now => /\ d.chan.cur \in DOMAIN d.msgs /\ d.chan.cur[1] = d.now
                                                  /\ d.log[k][2] <= d.chan.cur[2]

(* A worker that is alive is not counted for more than it has, but for the leavings it has yet to tell of
   and those that were dropped. *)
Counted(d) ==
    \A w \in RsWorkers :
        /\ d.delta[w] <= d.real[w]
        /\ d.up[w] /\ w \in DOMAIN d.counts.of => d.counts.of[w] + d.delta[w] <= d.real[w] + d.dropped[w]

RsInv(d) ==
    /\ KeysOK(d) /\ RestOK(d) /\ Lasting(d) /\ Linked(d) /\ (~d.reused => Ordered(d.list.ids, d.log))
    /\ Fresh(d) /\ Counted(d)
    /\ ~d.refused /\ ~d.skipped /\ ~d.idle

(* The channel's time to live is at most that of a message without a timeout and a second more, and a
   head's interval follows it. *)
Fits(interval) == interval \in Nat \ {0} /\ interval + SafetyMargin <= FourYears + 1
Bounded(d) ==
    /\ d.chan.exp = Never \/ d.chan.exp <= d.now + FourYears + 1
    /\ \A w \in RsWorkers : d.reg[w].interval = 0 \/ Fits(d.reg[w].interval)

(* The registered workers are counted by the channel, which lives and is renewed in time as long as there is one. *)
Registered(d) == {w \in RsWorkers : d.up[w] /\ d.reg[w].on}
InTime(d) == d.chan.on /\ d.chan.exp # Never /\ \E w \in d.renewer : d.reg[w].due < d.chan.exp
Alive(d) ==
    /\ d.renewer \subseteq RsWorkers
    /\ ~d.deleted /\ ~d.astray =>
           /\ Cardinality(Registered(d)) <= d.chan.subs
           /\ Registered(d) # {} => InTime(d)

-----------------------------------------------------------------------------
(* The scripts, each as a whole. *)

(* Whether a message that lives for ttl makes its channel live longer. *)
Longer(d, ttl) == d.chan.exp = Never \/ d.now + ttl + 1 > d.chan.exp

(* What publish does when it accepts the message id, which lives for ttl. *)
Published(d, e, id, max, ttl) ==
    LET p == lpush(d.list.ids, id)
        longer == Longer(d, ttl)
    IN /\ Same(d, e, {"chan", "msgs", "reused", "log", "list", "counts"}) /\ KeysOK(e)
       /\ e.chan.on /\ e.chan.cur = id /\ e.chan.subs = d.chan.subs
       /\ e.chan.exp = IF longer THEN d.now + ttl + 1 ELSE d.chan.exp
       /\ DOMAIN e.msgs \subseteq DOMAIN d.msgs \cup {id}
       /\ \A i \in DOMAIN e.msgs \ {id} :
              /\ Alike(e.msgs[i], d.msgs[i]) /\ e.msgs[i].exp = d.msgs[i].exp
              /\ e.msgs[i].next = IF i = d.chan.cur THEN id ELSE d.msgs[i].next
       /\ id \in DOMAIN e.msgs =>
              /\ e.msgs[id].prev = IF d.chan.cur \in DOMAIN d.msgs THEN d.chan.cur ELSE <<0, 0>>
              /\ e.msgs[id].next = NoId /\ e.msgs[id].n = Len(d.log) + 1
              /\ e.msgs[id].unbuffered = (max = 0) /\ e.msgs[id].exp = d.now + ttl
       /\ e.log = Append(d.log, id) /\ e.reused = (d.reused \/ id \in Range(d.log))
       /\ max = 0 => e.list.ids = d.list.ids
       /\ max # 0 => Kept(p, e.list.ids, e.msgs) /\ (e.list.ids = <<>> => e.list.exp = Never)
       /\ longer => e.list.exp = IF e.list.ids = <<>> THEN Never ELSE d.now + ttl + 1
       /\ ~longer => e.list.exp \in {d.list.exp, Never}
       /\ \A i \in (DOMAIN d.msgs \cup {id}) \ DOMAIN e.msgs :
              max # 0 /\ \E k \in 2..Len(p) : p[k] = i /\ k > Len(e.list.ids)
       /\ DOMAIN e.counts.of \subseteq DOMAIN d.counts.of
       /\ \A w \in DOMAIN e.counts.of : e.counts.of[w] = d.counts.of[w]

(* That is what publish does. *)
LEMMA PublishParts ==
    ASSUME CountingFacts, NEW d, KeysOK(d), d.log \in Seq(Ids), NEW id \in Ids, id \notin DOMAIN d.msgs,
           NEW max \in Int, NEW ttl \in 1..FourYears,
           NEW e, e = forget_uncounted(set_expirations(store_id(write_message(d, id, max), id, max), id, ttl))
    PROVE  Published(d, e, id, max, ttl)
<1> DEFINE p == lpush(d.list.ids, id)
<1>0. PICK longer : longer = Longer(d, ttl)
  BY Zenon
<1>1. PICK w : w = write_message(d, id, max)
  BY Zenon
<1>2. PICK s : s = store_id(w, id, max)
  BY Zenon
<1>3. PICK x : x = set_expirations(s, id, ttl)
  BY Zenon
<1>4. e = forget_uncounted(x)
  BY <1>1, <1>2, <1>3, Zenon
<1>5. /\ Same(d, w, {"chan", "msgs", "reused", "log"}) /\ KeysOK(w)
      /\ w.chan.on /\ w.chan.cur = id /\ w.chan.subs = d.chan.subs /\ w.chan.exp = d.chan.exp
      /\ DOMAIN w.msgs = DOMAIN d.msgs \cup {id}
      /\ \A i \in DOMAIN d.msgs : /\ Alike(w.msgs[i], d.msgs[i]) /\ w.msgs[i].exp = d.msgs[i].exp
                                  /\ w.msgs[i].next = IF i = d.chan.cur THEN id ELSE d.msgs[i].next
      /\ w.msgs[id].prev = IF d.chan.cur \in DOMAIN d.msgs THEN d.chan.cur ELSE <<0, 0>>
      /\ w.msgs[id].next = NoId /\ w.msgs[id].n = Len(d.log) + 1
      /\ w.msgs[id].unbuffered = (max = 0)
      /\ w.log = Append(d.log, id)
      /\ w.reused = (d.reused \/ id \in Range(d.log))
  BY <1>1, WriteParts
<1>6. w.list = d.list /\ w.now = d.now /\ w.counts = d.counts
  BY <1>5, Zenon DEF Same, RsFields
<1>7. /\ Same(w, s, {"msgs", "list"}) /\ KeysOK(s)
      /\ DOMAIN s.msgs \subseteq DOMAIN w.msgs /\ \A i \in DOMAIN s.msgs : s.msgs[i] = w.msgs[i]
      /\ max = 0 => s = w
      /\ max # 0 => Kept(p, s.list.ids, s.msgs) /\ (s.list.ids = <<>> => s.list.exp = Never)
      /\ s.list.exp \in {w.list.exp, Never}
      /\ \A i \in DOMAIN w.msgs \ DOMAIN s.msgs :
             max # 0 /\ \E k \in 2..Len(p) : p[k] = i /\ k > Len(s.list.ids)
  <2>1. p = lpush(w.list.ids, id)
    BY <1>6, Zenon
  <2> HIDE DEF p
  <2>2. KeysOK(w)
    BY <1>5, Zenon
  <2> QED BY <1>2, <2>1, <2>2, StoreParts
<1>8. s.chan = w.chan /\ s.now = d.now /\ s.counts = d.counts /\ s.log = w.log /\ s.reused = w.reused
  BY <1>6, <1>7, Zenon DEF Same, RsFields
<1>9. /\ Same(s, x, {"msgs", "chan", "list", "counts"}) /\ KeysOK(x) /\ DOMAIN x.msgs = DOMAIN s.msgs
      /\ \A i \in DOMAIN s.msgs : /\ Alike(x.msgs[i], s.msgs[i]) /\ x.msgs[i].next = s.msgs[i].next
                                  /\ x.msgs[i].exp = IF i = id THEN s.now + ttl ELSE s.msgs[i].exp
      /\ x.chan.on /\ x.chan.cur = s.chan.cur /\ x.chan.subs = s.chan.subs
      /\ x.chan.exp = IF longer THEN s.now + ttl + 1 ELSE s.chan.exp
      /\ x.list.ids = s.list.ids
      /\ longer => x.list.exp = IF s.list.ids = <<>> THEN Never ELSE s.now + ttl + 1
      /\ ~longer => x.list.exp = s.list.exp
      /\ x.counts.of = s.counts.of
  <2>1. s.chan.on /\ longer = (s.chan.exp = Never \/ s.now + ttl + 1 > s.chan.exp)
    BY <1>0, <1>5, <1>8 DEF Longer
  <2> QED BY <1>3, <1>7, <2>1, SetExpirationsParts
<1>10. x.log = w.log /\ x.reused = w.reused
  BY <1>8, <1>9, Zenon DEF Same, RsFields
<1>11. /\ Same(x, e, {"counts"}) /\ KeysOK(e)
       /\ DOMAIN e.counts.of \subseteq DOMAIN x.counts.of
       /\ \A v \in DOMAIN e.counts.of : e.counts.of[v] = x.counts.of[v]
  BY <1>4, <1>9, ForgetParts
<1>12. e.chan = x.chan /\ e.msgs = x.msgs /\ e.list = x.list /\ e.log = x.log /\ e.reused = x.reused
  BY <1>11, Zenon DEF Same, RsFields
<1>13. Same(d, e, {"chan", "msgs", "reused", "log", "list", "counts"})
  BY <1>5, <1>7, <1>9, <1>11 DEF Same
<1>14. /\ e.chan.on /\ e.chan.cur = id /\ e.chan.subs = d.chan.subs
       /\ e.chan.exp = IF longer THEN d.now + ttl + 1 ELSE d.chan.exp
  BY <1>5, <1>8, <1>9, <1>12
<1>15. /\ DOMAIN e.msgs \subseteq DOMAIN d.msgs \cup {id}
       /\ \A i \in DOMAIN e.msgs \ {id} :
              /\ Alike(e.msgs[i], d.msgs[i]) /\ e.msgs[i].exp = d.msgs[i].exp
              /\ e.msgs[i].next = IF i = d.chan.cur THEN id ELSE d.msgs[i].next
  <2>1. DOMAIN e.msgs \subseteq DOMAIN d.msgs \cup {id}
    BY <1>5, <1>7, <1>9, <1>12, Zenon
  <2>2. ASSUME NEW i \in DOMAIN e.msgs \ {id}
        PROVE  /\ Alike(e.msgs[i], d.msgs[i]) /\ e.msgs[i].exp = d.msgs[i].exp
               /\ e.msgs[i].next = IF i = d.chan.cur THEN id ELSE d.msgs[i].next
    <3>1. i \in DOMAIN d.msgs /\ i \in DOMAIN s.msgs /\ i # id
      BY <1>9, <1>12, <2>1, Zenon
    <3>2. /\ Alike(w.msgs[i], d.msgs[i]) /\ w.msgs[i].exp = d.msgs[i].exp
          /\ w.msgs[i].next = IF i = d.chan.cur THEN id ELSE d.msgs[i].next
      BY <1>5, <3>1, Zenon
    <3>3. s.msgs[i] = w.msgs[i]
      BY <1>7, <3>1, Zenon
    <3>4. /\ Alike(x.msgs[i], s.msgs[i]) /\ x.msgs[i].next = s.msgs[i].next /\ x.msgs[i].exp = s.msgs[i].exp
      BY <1>9, <3>1, Zenon
    <3> QED BY <1>12, <3>2, <3>3, <3>4, Zenon DEF Alike
  <2> QED BY <2>1, <2>2, Zenon
<1>16. id \in DOMAIN e.msgs =>
           /\ e.msgs[id].prev = IF d.chan.cur \in DOMAIN d.msgs THEN d.chan.cur ELSE <<0, 0>>
           /\ e.msgs[id].next = NoId /\ e.msgs[id].n = Len(d.log) + 1
           /\ e.msgs[id].unbuffered = (max = 0) /\ e.msgs[id].exp = d.now + ttl
  BY <1>5, <1>7, <1>8, <1>9, <1>12 DEF Alike
<1>17. e.log = Append(d.log, id) /\ e.reused = (d.reused \/ id \in Range(d.log))
  BY <1>5, <1>10, <1>12, Zenon
<1>18. max # 0 => Kept(p, e.list.ids, e.msgs) /\ (e.list.ids = <<>> => e.list.exp = Never)
  <2>1. DOMAIN e.msgs = DOMAIN s.msgs /\ e.list.ids = s.list.ids
    BY <1>9, <1>12, Zenon
  <2>2. ASSUME max # 0 PROVE Kept(p, e.list.ids, e.msgs)
    <3>1. Kept(p, s.list.ids, s.msgs)
      BY <1>7, <2>2, Zenon
    <3> QED BY <2>1, <3>1, Zenon DEF Kept
  <2>3. ASSUME max # 0, e.list.ids = <<>> PROVE e.list.exp = Never
    BY <1>7, <1>9, <1>12, <2>1, <2>3, Zenon
  <2> QED BY <2>2, <2>3, Zenon
<1>19. /\ max = 0 => e.list.ids = d.list.ids
       /\ longer => e.list.exp = IF e.list.ids = <<>> THEN Never ELSE d.now + ttl + 1
       /\ ~longer => e.list.exp \in {d.list.exp, Never}
  BY <1>6, <1>7, <1>8, <1>9, <1>12
<1>20. \A i \in (DOMAIN d.msgs \cup {id}) \ DOMAIN e.msgs :
           max # 0 /\ \E k \in 2..Len(p) : p[k] = i /\ k > Len(e.list.ids)
  BY <1>5, <1>7, <1>9, <1>12
<1>21. /\ DOMAIN e.counts.of \subseteq DOMAIN d.counts.of
       /\ \A v \in DOMAIN e.counts.of : e.counts.of[v] = d.counts.of[v]
  BY <1>8, <1>9, <1>11
<1> HIDE DEF p
<1> QED BY <1>0, <1>11, <1>13, <1>14, <1>15, <1>16, <1>17, <1>18, <1>19, <1>20, <1>21, Zenon DEF Published, p

(* The id of a new message. *)
LEMMA NextId ==
    ASSUME NEW d, KeysOK(d), d.back \in 0..1, NEW id, id = next_id(d)
    PROVE  /\ id \in Ids /\ d.now - d.back \in Nat
           /\ id = IF d.chan.cur \in DOMAIN d.msgs /\ d.chan.cur[1] >= d.now - d.back
                   THEN <<d.chan.cur[1], d.chan.cur[2] + 1>> ELSE <<d.now - d.back, 0>>
<1>1. PICK clock : clock = d.now - d.back
  BY Zenon
<1>2. clock \in Nat
  BY <1>1, Numbers DEF KeysOK
<1>3. PICK cur : cur = d.chan.cur
  BY Zenon
<1>4. cur \in DOMAIN d.msgs => cur \in Ids /\ cur[1] \in Nat /\ cur[2] \in Nat
  BY Zenon DEF KeysOK, MsgsOK, Ids
<1>5. id = IF cur \in DOMAIN d.msgs /\ cur[1] >= clock THEN <<cur[1], cur[2] + 1>> ELSE <<clock, 0>>
  <2>1. CASE cur \notin DOMAIN d.msgs
    BY <1>1, <1>3, <2>1, Zenon DEF next_id
  <2>2. CASE cur \in DOMAIN d.msgs
    BY <1>1, <1>2, <1>3, <1>4, <2>2 DEF next_id
  <2> QED BY <2>1, <2>2, Zenon
<1>6. id \in Ids
  BY <1>2, <1>4, <1>5 DEF Ids
<1> QED BY <1>1, <1>2, <1>3, <1>5, <1>6, Zenon

(* It comes after the message it follows. *)
LEMMA NextIdLater ==
    ASSUME NEW d, KeysOK(d), d.back \in 0..1, d.chan.cur \in DOMAIN d.msgs
    PROVE  Earlier(d.chan.cur, next_id(d))
<1>1. PICK id : id = next_id(d)
  BY Zenon
<1>2. PICK cur : cur = d.chan.cur
  BY Zenon
<1>3. cur[1] \in Nat /\ cur[2] \in Nat
  BY <1>2, Zenon DEF KeysOK, MsgsOK, Ids
<1>4. PICK clock : clock = d.now - d.back
  BY Zenon
<1>5. clock \in Nat /\ id = IF cur[1] >= clock THEN <<cur[1], cur[2] + 1>> ELSE <<clock, 0>>
  BY <1>1, <1>2, <1>4, NextId, Zenon
<1> QED BY <1>1, <1>2, <1>3, <1>5 DEF Earlier

(* Before a failover, and without a deletion in the second, it is a new one. *)
LEMMA NextIdNew ==
    ASSUME NEW d, KeysOK(d), d.log \in Seq(Ids), d.back = 0, Linked(d), Fresh(d), NEW id, id = next_id(d)
    PROVE  /\ id[1] = d.now
           /\ ~d.wiped => \A k \in 1..Len(d.log) : d.log[k] # id /\ (d.log[k][1] = d.now => d.log[k][2] <= id[2])
<1>1. PICK cur, now : cur = d.chan.cur /\ now = d.now
  BY Zenon
<1>2. cur \in DOMAIN d.msgs => cur \in Ids /\ cur[1] \in Nat /\ cur[2] \in Nat
  BY <1>1, Zenon DEF KeysOK, MsgsOK, Ids
<1>3. now \in Nat
  BY <1>1, Numbers DEF KeysOK
<1>4. id = IF cur \in DOMAIN d.msgs /\ cur[1] >= now THEN <<cur[1], cur[2] + 1>> ELSE <<now, 0>>
  BY <1>1, <1>3, NextId
<1>5. cur \in DOMAIN d.msgs => cur[1] <= now
  <2>1. SUFFICES ASSUME cur \in DOMAIN d.msgs PROVE cur[1] <= now
    BY Zenon
  <2>2. Placed(cur, d.msgs[cur], d.log)
    BY <2>1, Zenon DEF Linked
  <2>3. PICK k \in 1..Len(d.log) : d.log[k] = cur
    BY <2>2, Zenon DEF Placed
  <2> QED BY <1>1, <2>3, Zenon DEF Fresh
<1>6. id[1] = now
  BY <1>2, <1>3, <1>4, <1>5
<1>7. ASSUME ~d.wiped, NEW k \in 1..Len(d.log)
      PROVE  d.log[k] # id /\ (d.log[k][1] = now => d.log[k][2] <= id[2])
  <2>1. PICK j : j = d.log[k]
    BY Zenon
  <2>2. j \in Ids /\ j[1] \in Nat /\ j[2] \in Nat
    BY <2>1 DEF Ids
  <2>3. CASE j[1] # now
    BY <1>6, <2>1, <2>3, Zenon
  <2>4. CASE j[1] = now
    <3>1. cur \in DOMAIN d.msgs /\ cur[1] = now /\ j[2] <= cur[2]
      BY <1>1, <1>7, <2>1, <2>4, Zenon DEF Fresh
    <3>2. id = <<cur[1], cur[2] + 1>>
      BY <1>2, <1>3, <1>4, <3>1
    <3>3. id[2] = cur[2] + 1
      BY <3>2
    <3> QED BY <1>2, <2>1, <2>2, <3>1, <3>3
  <2> QED BY <2>3, <2>4, Zenon
<1> QED BY <1>1, <1>6, <1>7, Zenon

(* A message is listed and outlived by its channel when it is published, and the others still are. *)
LEMMA PublishLasting ==
    ASSUME NEW d, NEW e, KeysOK(d), Lasting(d), NEW id \in Ids, NEW max \in Int, NEW ttl \in 1..FourYears,
           Published(d, e, id, max, ttl)
    PROVE  Lasting(e)
<1>1. PICK p : p = lpush(d.list.ids, id)
  BY Zenon
<1>2. Longer(d, ttl) \in BOOLEAN
  BY Zenon DEF Longer
<1>3. PICK now, old, new : now = d.now /\ old = d.chan.exp /\ new = e.chan.exp
  BY Zenon
<1>4. now \in Nat /\ now <= MaxClock /\ old \in Int /\ new \in Int
  BY <1>3, Numbers, SMTT(30) DEF KeysOK, ChanOK, Channel, Times, Published
<1>5. /\ Longer(d, ttl) => (old = Never \/ now + ttl + 1 > old) /\ new = now + ttl + 1
      /\ ~Longer(d, ttl) => old # Never /\ now + ttl + 1 <= old /\ new = old
  BY <1>3, <1>4 DEF Longer, Published
<1>6. new # Never /\ now + ttl < new /\ (old # Never => old <= new)
  BY <1>4, <1>5, Numbers
<1>7. /\ e.chan.on /\ e.chan.cur = id /\ DOMAIN e.msgs \subseteq DOMAIN d.msgs \cup {id}
      /\ max # 0 => Kept(p, e.list.ids, e.msgs)
      /\ max = 0 => e.list.ids = d.list.ids
  BY <1>1, Zenon DEF Published
<1>8. d.list.ids \in Seq(Ids) /\ e.list.ids \in Seq(Ids)
  BY Zenon DEF KeysOK, IdList, Published
<1>9. Len(p) = Len(d.list.ids) + 1 /\ p[1] = id /\ \A k \in 1..Len(d.list.ids) : p[k + 1] = d.list.ids[k]
  BY <1>1, <1>8, Pushed, Zenon
<1>10. ASSUME NEW i \in DOMAIN e.msgs, ~e.msgs[i].unbuffered
       PROVE  /\ \E k \in 1..Len(e.list.ids) : e.list.ids[k] = i
              /\ e.chan.on /\ e.chan.cur # NoId /\ e.chan.exp # Never
              /\ e.msgs[i].exp < e.chan.exp
  <2>1. CASE i = id
    <3>1. max # 0 /\ e.msgs[i].exp = now + ttl
      BY <1>3, <1>10, <2>1, Zenon DEF Published
    <3>2. 1 \in 1..Len(p)
      BY <1>8, <1>9
    <3>3. \E k \in 1..Len(e.list.ids) : e.list.ids[k] = i
      BY <1>7, <1>9, <1>10, <2>1, <3>1, <3>2 DEF Kept
    <3> QED BY <1>3, <1>6, <1>7, <3>1, <3>3, NoIdIsNone, Zenon
  <2>2. CASE i # id
    <3>1. i \in DOMAIN d.msgs /\ ~d.msgs[i].unbuffered /\ e.msgs[i].exp = d.msgs[i].exp
      BY <1>7, <1>10, <2>2, Zenon DEF Published, Alike
    <3>2. PICK k \in 1..Len(d.list.ids) : d.list.ids[k] = i
      BY <3>1, Zenon DEF Lasting
    <3>3. old # Never /\ d.msgs[i].exp < old /\ d.msgs[i].exp \in Int
      BY <1>3, <3>1 DEF Lasting, KeysOK, MsgsOK, Message, Times
    <3>4. \E j \in 1..Len(e.list.ids) : e.list.ids[j] = i
      <4>1. CASE max = 0
        BY <1>7, <3>2, <4>1, Zenon
      <4>2. CASE max # 0
        <5>1. k + 1 \in 1..Len(p) /\ p[k + 1] = i
          BY <1>8, <1>9, <3>2
        <5> QED BY <1>7, <1>10, <4>2, <5>1 DEF Kept
      <4> QED BY <4>1, <4>2, Zenon
    <3> QED BY <1>3, <1>4, <1>6, <1>7, <3>1, <3>3, <3>4, NoIdIsNone, SMTT(30)
  <2> QED BY <2>1, <2>2, Zenon
<1>11. e.list.exp \in {e.chan.exp, Never}
  BY <1>2, <1>3, <1>5, Zenon DEF Published, Lasting
<1>12. e.list.ids = <<>> => e.list.exp = Never
  <2>1. CASE Longer(d, ttl)
    BY <1>2, <2>1, Zenon DEF Published
  <2>2. CASE ~Longer(d, ttl)
    BY <1>2, <2>2, Zenon DEF Published, Lasting
  <2> QED BY <2>1, <2>2, Zenon
<1> QED BY <1>10, <1>11, <1>12, Zenon DEF Lasting

(* The history, the links and the list after a message was published. *)
LEMMA PublishLinked ==
    ASSUME NEW d, NEW e, KeysOK(d), d.log \in Seq(Ids), d.back \in 0..1, Linked(d),
           NEW id \in Ids, id = next_id(d), NEW max \in Int, NEW ttl \in 1..FourYears,
           Published(d, e, id, max, ttl)
    PROVE  Linked(e)
<1>1. PICK log, new, len : log = d.log /\ new = e.log /\ len = Len(d.log)
  BY Zenon
<1>2. log \in Seq(Ids) /\ len = Len(log) /\ len \in Nat /\ new = Append(log, id)
  BY <1>1 DEF Published
<1>3. Len(new) = len + 1 /\ new[len + 1] = id /\ \A k \in 1..len : new[k] = log[k]
  BY <1>2, Appended
<1>4. PICK cur : cur = d.chan.cur
  BY Zenon
<1>5. cur # NoId => len > 0 /\ cur = log[len]
  BY <1>1, <1>4, Zenon DEF Linked
<1>6. ASSUME NEW i \in DOMAIN e.msgs
      PROVE  Placed(i, e.msgs[i], new)
  <2>1. CASE i = id
    <3>1. PICK m : m = e.msgs[i]
      BY Zenon
    <3>2. m.prev = (IF cur \in DOMAIN d.msgs THEN cur ELSE <<0, 0>>) /\ m.next = NoId /\ m.n = len + 1
      BY <1>1, <1>4, <2>1, <3>1, Zenon DEF Published
    <3>3. cur \in DOMAIN d.msgs => cur # NoId /\ Earlier(cur, id)
      BY <1>4, NextIdLater, NoIdIsNone, Zenon DEF KeysOK, MsgsOK
    <3>4. m.n \in 1..Len(new) /\ new[m.n] = i /\ \A k \in 1..Len(new) : k > m.n => new[k] # i
      BY <1>2, <1>3, <2>1, <3>2
    <3>5. m.prev # <<0, 0>> => m.n > 1 /\ m.prev = new[m.n - 1] /\ Earlier(m.prev, i)
      BY <1>2, <1>3, <1>5, <2>1, <3>2, <3>3
    <3> QED BY <3>1, <3>2, <3>4, <3>5, Zenon DEF Placed
  <2>2. CASE i # id
    <3>1. PICK m, o : m = e.msgs[i] /\ o = d.msgs[i]
      BY Zenon
    <3>2. i \in DOMAIN d.msgs
      BY <2>2, Zenon DEF Published
    <3>3. m.prev = o.prev /\ m.n = o.n /\ m.next = IF i = cur THEN id ELSE o.next
      BY <1>4, <2>2, <3>1, Zenon DEF Published, Alike
    <3>4. Placed(i, o, log)
      BY <1>1, <3>1, <3>2, Zenon DEF Linked
    <3>5. o.n \in 1..len /\ log[o.n] = i /\ \A k \in 1..len : k > o.n => log[k] # i
      BY <1>2, <3>4, Zenon DEF Placed
    <3>6. m.n \in 1..Len(new) /\ new[m.n] = i
      BY <1>2, <1>3, <3>3, <3>5
    <3>7. \A k \in 1..Len(new) : k > m.n => new[k] # i
      <4>1. ASSUME NEW k \in 1..Len(new), k > m.n
            PROVE  new[k] # i
        <5>1. CASE k = len + 1
          BY <1>3, <2>2, <5>1, Zenon
        <5>2. CASE k # len + 1
          <6>1. k \in 1..len
            BY <1>2, <1>3, <5>2
          <6> QED BY <1>3, <3>3, <3>5, <4>1, <6>1, Zenon
        <5> QED BY <5>1, <5>2, Zenon
      <4> QED BY <4>1, Zenon
    <3>8. m.prev # <<0, 0>> => m.n > 1 /\ m.prev = new[m.n - 1] /\ Earlier(m.prev, i)
      BY <1>2, <1>3, <3>3, <3>4, <3>5 DEF Placed
    <3>9. m.next # NoId => m.n < Len(new) /\ m.next = new[m.n + 1]
      <4>1. CASE i = cur
        <5>1. cur # NoId
          BY <3>2, <4>1, NoIdIsNone, Zenon DEF KeysOK, MsgsOK
        <5>2. o.n = len
          BY <1>2, <1>5, <3>5, <4>1, <5>1
        <5> QED BY <1>2, <1>3, <3>3, <4>1, <5>2
      <4>2. CASE i # cur
        BY <1>2, <1>3, <3>3, <3>4, <3>5, <4>2, SMTT(30) DEF Placed
      <4> QED BY <4>1, <4>2, Zenon
    <3> QED BY <3>1, <3>6, <3>7, <3>8, <3>9, Zenon DEF Placed
  <2> QED BY <2>1, <2>2, Zenon
<1>7. Len(e.log) > 0 /\ e.chan.cur = e.log[Len(e.log)]
  BY <1>1, <1>2, <1>3 DEF Published
<1>8. e.reader = d.reader
  BY Zenon DEF Published, Same, RsFields
<1>9. e.reader.id # NoId => e.reader.n \in 1..Len(e.log) /\ e.log[e.reader.n] = e.reader.id
  BY <1>1, <1>2, <1>3, <1>8 DEF Linked
<1>10. ASSUME NEW k \in 1..Len(e.list.ids)
       PROVE  \E j \in 1..Len(new) : new[j] = e.list.ids[k]
  <2>1. \A a \in 1..Len(d.list.ids) : \E j \in 1..Len(new) : new[j] = d.list.ids[a]
    BY <1>1, <1>2, <1>3 DEF Linked
  <2>2. CASE max = 0
    BY <2>1, <2>2, SMTT(30) DEF Published
  <2>3. CASE max # 0
    <3>1. PICK p : p = lpush(d.list.ids, id)
      BY Zenon
    <3>2. d.list.ids \in Seq(Ids) /\ e.list.ids \in Seq(Ids)
      BY Zenon DEF KeysOK, IdList, Published
    <3>3. /\ p \in Seq(Ids) /\ Len(p) = Len(d.list.ids) + 1 /\ p[1] = id
          /\ \A a \in 2..(Len(d.list.ids) + 1) : p[a] = d.list.ids[a - 1]
      BY <3>1, <3>2, Pushed, Zenon
    <3>4. k \in 1..Len(p) /\ e.list.ids[k] = p[k]
      <4>1. Kept(p, e.list.ids, e.msgs)
        BY <2>3, <3>1, Zenon DEF Published
      <4> QED BY <3>2, <3>3, <4>1, SMTT(30) DEF Kept
    <3>5. CASE k = 1
      BY <1>2, <1>3, <3>3, <3>4, <3>5
    <3>6. CASE k # 1
      <4>1. k - 1 \in 1..Len(d.list.ids) /\ k \in 2..(Len(d.list.ids) + 1)
        BY <3>2, <3>3, <3>4, <3>6, SMTT(30)
      <4> QED BY <2>1, <3>3, <3>4, <4>1, Zenon
    <3> QED BY <3>5, <3>6, Zenon
  <2> QED BY <2>2, <2>3, Zenon
<1> QED BY <1>1, <1>6, <1>7, <1>9, <1>10, Zenon DEF Linked

(* As long as no id is given twice a new one is the newest, and goes to the front. *)
LEMMA PublishOrdered ==
    ASSUME NEW d, NEW e, KeysOK(d), d.log \in Seq(Ids), Linked(d), Ordered(d.list.ids, d.log),
           NEW id \in Ids, id \notin Range(d.log), NEW max \in Int, NEW ttl \in 1..FourYears,
           Published(d, e, id, max, ttl)
    PROVE  Ordered(e.list.ids, e.log)
<1>1. PICK log, new, len : log = d.log /\ new = e.log /\ len = Len(d.log)
  BY Zenon
<1>2. log \in Seq(Ids) /\ len = Len(log) /\ len \in Nat /\ new = Append(log, id)
  BY <1>1 DEF Published
<1>3. Len(new) = len + 1 /\ new[len + 1] = id /\ \A k \in 1..len : new[k] = log[k]
  BY <1>2, Appended
<1>4. \A k \in 1..len : log[k] # id
  BY <1>1, <1>2 DEF Range
<1>5. Ordered(d.list.ids, log)
  BY <1>1, Zenon
<1>6. PICK cut, old : cut = e.list.ids /\ old = d.list.ids
  BY Zenon
<1>7. cut \in Seq(Ids) /\ old \in Seq(Ids)
  BY <1>6, Zenon DEF KeysOK, IdList, Published
<1>8. PICK p : p = lpush(old, id)
  BY Zenon
<1>9. /\ p \in Seq(Ids) /\ Len(p) = Len(old) + 1 /\ p[1] = id
       /\ \A x \in 2..(Len(old) + 1) : p[x] = old[x - 1]
  BY <1>7, <1>8, Pushed, Zenon
<1>10. \A k \in 1..Len(old) : old[k] # id
  BY <1>1, <1>4, <1>6, Zenon DEF Linked
<1>11. ASSUME NEW j \in 1..Len(new), NEW k \in 1..Len(new), new[j] = new[k]
      PROVE  j = k
  <2>1. j \in 1..len \/ j = len + 1
    BY <1>2, <1>3
  <2>2. k \in 1..len \/ k = len + 1
    BY <1>2, <1>3
  <2> QED BY <1>2, <1>3, <1>4, <1>5, <1>11, <2>1, <2>2 DEF Ordered
<1>12. ASSUME NEW j \in 1..Len(old), NEW k \in 1..Len(old), j < k, NEW a \in 1..Len(new), NEW b \in 1..Len(new),
              new[a] = old[j], new[b] = old[k]
       PROVE  b < a
  <2>1. a \in 1..len /\ b \in 1..len
    BY <1>2, <1>3, <1>10, <1>12
  <2> QED BY <1>2, <1>3, <1>5, <1>6, <1>12, <2>1 DEF Ordered
<1>13. ASSUME NEW j \in 1..Len(cut), NEW k \in 1..Len(cut), j < k, NEW a \in 1..Len(new), NEW b \in 1..Len(new),
              new[a] = cut[j], new[b] = cut[k]
       PROVE  b < a
  <2>1. CASE max = 0
    <3>1. cut = old
      BY <1>6, <2>1, Zenon DEF Published
    <3> QED BY <1>12, <1>13, <3>1, Zenon
  <2>2. CASE max # 0
    <3>3. j \in 1..Len(p) /\ cut[j] = p[j] /\ k \in 1..Len(p) /\ cut[k] = p[k]
      <4>1. Kept(p, cut, e.msgs)
        BY <1>6, <1>8, <2>2, Zenon DEF Published
      <4> QED BY <1>7, <1>9, <4>1 DEF Kept
    <3>4. k \in 2..(Len(old) + 1) /\ k - 1 \in 1..Len(old) /\ cut[k] = old[k - 1]
      BY <1>7, <1>13, <1>9, <3>3, SMTT(30)
    <3>5. b \in 1..len
      BY <1>2, <1>3, <1>10, <1>13, <3>4, SMTT(30)
    <3>6. CASE j = 1
      <4>1. a = len + 1
        BY <1>2, <1>3, <1>4, <1>13, <1>9, <3>3, <3>6, SMTT(30)
      <4> QED BY <1>2, <3>5, <4>1
    <3>7. CASE j # 1
      <4>1. j \in 2..(Len(old) + 1) /\ j - 1 \in 1..Len(old) /\ cut[j] = old[j - 1] /\ j - 1 < k - 1
        BY <1>7, <1>13, <1>9, <3>3, <3>7, SMTT(30)
      <4> QED BY <1>12, <1>13, <3>4, <4>1, Zenon
    <3> QED BY <3>6, <3>7, Zenon
  <2> QED BY <2>1, <2>2, Zenon
<1> QED BY <1>1, <1>6, <1>11, <1>13, Zenon DEF Ordered

(* The new message is the current one, lives, and has the highest id of its second. *)
LEMMA PublishFresh ==
    ASSUME NEW d, NEW e, KeysOK(d), d.log \in Seq(Ids), Linked(d), Fresh(d),
           NEW id \in Ids, id = next_id(d), NEW max \in Int, NEW ttl \in 1..FourYears,
           Published(d, e, id, max, ttl)
    PROVE  Fresh(e)
<1>1. SUFFICES ASSUME e.back = 0, NEW k \in 1..Len(e.log)
               PROVE  /\ e.log[k][1] <= e.now
                      /\ ~e.wiped /\ e.log[k][1] = e.now => /\ e.chan.cur \in DOMAIN e.msgs /\ e.chan.cur[1] = e.now
                                                            /\ e.log[k][2] <= e.chan.cur[2]
  BY Zenon DEF Fresh
<1>2. d.back = 0 /\ e.now = d.now /\ e.wiped = d.wiped
  BY <1>1, Zenon DEF Published, Same, RsFields
<1>3. PICK log, new, len : log = d.log /\ new = e.log /\ len = Len(d.log)
  BY Zenon
<1>4. log \in Seq(Ids) /\ len = Len(log) /\ len \in Nat /\ new = Append(log, id)
  BY <1>3 DEF Published
<1>5. Len(new) = len + 1 /\ new[len + 1] = id /\ \A j \in 1..len : new[j] = log[j]
  BY <1>4, Appended
<1>6. /\ id[1] = d.now
      /\ ~d.wiped => \A j \in 1..len : log[j] # id /\ (log[j][1] = d.now => log[j][2] <= id[2])
  BY <1>2, <1>3, NextIdNew, Zenon
<1>7. k \in 1..len \/ k = len + 1
  BY <1>3, <1>4, <1>5
<1>8. id[1] \in Nat /\ id[2] \in Nat /\ d.now \in Nat
  BY Numbers DEF Ids, KeysOK
<1>9. new[k][1] <= d.now
  <2>1. CASE k = len + 1
    BY <1>5, <1>6, <1>8, <2>1
  <2>2. CASE k \in 1..len
    <3>1. log[k][1] <= d.now
      BY <1>2, <1>3, <2>2, Zenon DEF Fresh
    <3> QED BY <1>5, <2>2, <3>1, Zenon
  <2> QED BY <1>7, <2>1, <2>2, Zenon
<1>10. ASSUME ~d.wiped, new[k][1] = d.now
       PROVE  id \in DOMAIN e.msgs /\ new[k][2] <= id[2]
  <2>1. new[k][2] <= id[2]
    BY <1>5, <1>6, <1>7, <1>8, <1>10
  <2>2. id \in DOMAIN e.msgs
    <3>1. SUFFICES ASSUME id \notin DOMAIN e.msgs PROVE FALSE
      BY Zenon
    <3>2. PICK old, p : old = d.list.ids /\ p = lpush(d.list.ids, id)
      BY Zenon
    <3>3. PICK j \in 2..Len(p) : p[j] = id
      BY <3>1, <3>2, SMTT(30) DEF Published
    <3>4. old \in Seq(Ids)
      BY <3>2, Zenon DEF KeysOK, IdList
    <3>5. Len(p) = Len(old) + 1 /\ \A x \in 2..(Len(old) + 1) : p[x] = old[x - 1]
      BY <3>2, <3>4, Pushed, Zenon
    <3>6. j - 1 \in 1..Len(old) /\ old[j - 1] = id
      BY <3>3, <3>4, <3>5
    <3>7. \E x \in 1..len : log[x] = id
      BY <1>3, <3>2, <3>6, Zenon DEF Linked
    <3> QED BY <1>6, <1>10, <3>7, Zenon
  <2> QED BY <2>1, <2>2, Zenon
<1>11. e.chan.cur = id
  BY Zenon DEF Published
<1> QED BY <1>2, <1>3, <1>6, <1>9, <1>10, <1>11, Zenon

(* The ghosts and the budgets do not matter to the invariant but for what they note. *)
LEMMA InvFrame ==
    ASSUME NEW d, RsInv(d), NEW e, Same(d, e, {"left", "evict", "refused", "skipped", "idle", "deleted", "reg", "renewer", "astray"}),
           ~e.refused, ~e.skipped, ~e.idle, e.deleted \in BOOLEAN, e.reg \in [RsWorkers -> Registration]
    PROVE  RsInv(e)
<1>1. /\ DOMAIN e = RsFields /\ e.conf = d.conf /\ e.now = d.now /\ e.back = d.back /\ e.chan = d.chan
      /\ e.list = d.list /\ e.counts = d.counts /\ e.msgs = d.msgs /\ e.up = d.up /\ e.real = d.real
      /\ e.delta = d.delta /\ e.dropped = d.dropped
      /\ e.reader = d.reader /\ e.log = d.log /\ e.reused = d.reused /\ e.wiped = d.wiped
  BY Zenon DEF Same, RsFields
<1>2. KeysOK(e)
  BY <1>1, Zenon DEF RsInv, KeysOK, ChanOK, MsgsOK, CountsOK
<1>3. RestOK(e)
  BY <1>1, Zenon DEF RsInv, RestOK
<1>4. Lasting(e) /\ Counted(e)
  BY <1>1 DEF RsInv, Lasting, Counted
<1>5. Linked(e) /\ Fresh(e)
  BY <1>1 DEF RsInv, Linked, Fresh
<1> QED BY <1>1, <1>2, <1>3, <1>4, <1>5, Zenon DEF RsInv

(* publish keeps the invariant. *)
LEMMA PublishInv ==
    ASSUME CountingFacts, NEW d, RsInv(d), NEW timeout \in d.conf.ttls, NEW max \in d.conf.lengths,
           NEW e, e = publish(d, timeout, max)
    PROVE  RsInv(e)
<1>1. PICK id, ttl : id = next_id(d) /\ ttl = IF timeout = 0 THEN FourYears ELSE timeout
  BY Zenon
<1>2. /\ KeysOK(d) /\ RestOK(d) /\ Lasting(d) /\ Linked(d) /\ Fresh(d) /\ Counted(d)
      /\ ~d.refused /\ ~d.skipped /\ ~d.idle /\ DOMAIN d = RsFields
  BY Zenon DEF RsInv, KeysOK
<1>3. d.conf \in RsSetups /\ d.back \in 0..1 /\ d.log \in Seq(Ids)
  BY <1>2, Zenon DEF RestOK
<1>4. ttl \in 1..FourYears /\ max \in Int
  <2>1. timeout \in 0..FourYears /\ max \in Int
    BY <1>3, RsAssumption, Zenon
  <2> QED BY <1>1, <2>1, Numbers
<1>5. id \in Ids
  BY <1>1, <1>2, <1>3, NextId, Zenon
<1>6. CASE id \in DOMAIN d.msgs
  <2>1. PICK noted : noted = (d.refused \/ (d.back = 0 /\ ~d.wiped))
    BY Zenon
  <2>2. e = [d EXCEPT !.refused = noted]
    BY <1>1, <1>6, <2>1, Zenon DEF publish
  <2>3. ~noted
    <3>1. SUFFICES ASSUME d.back = 0, ~d.wiped PROVE FALSE
      BY <1>2, <2>1, Zenon
    <3>2. PICK k \in 1..Len(d.log) : d.log[k] = id
      BY <1>2, <1>6, Zenon DEF Linked, Placed
    <3> QED BY <1>1, <1>2, <1>3, <3>1, <3>2, NextIdNew, Zenon
  <2>4. Same(d, e, {"refused"}) /\ e.refused = noted
    BY <1>2, <2>2, Zenon DEF Same, RsFields
  <2>5. e.skipped = d.skipped /\ e.idle = d.idle /\ e.deleted = d.deleted /\ e.reg = d.reg
    BY <2>4, Zenon DEF Same, RsFields
  <2>6. Same(d, e, {"left", "evict", "refused", "skipped", "idle", "deleted", "reg", "renewer", "astray"})
    BY <2>4, Zenon DEF Same
  <2> QED BY <1>2, <2>3, <2>4, <2>5, <2>6, InvFrame, Zenon DEF RestOK
<1>7. CASE id \notin DOMAIN d.msgs
  <2>1. e = forget_uncounted(set_expirations(store_id(write_message(d, id, max), id, max), id, ttl))
    BY <1>1, <1>7, Zenon DEF publish
  <2>2. Published(d, e, id, max, ttl)
    BY <1>2, <1>3, <1>4, <1>5, <1>7, <2>1, PublishParts, Zenon
  <2>3. /\ Same(d, e, {"chan", "msgs", "reused", "log", "list", "counts"}) /\ KeysOK(e)
        /\ e.log = Append(d.log, id) /\ e.reused = (d.reused \/ id \in Range(d.log))
        /\ DOMAIN e.counts.of \subseteq DOMAIN d.counts.of
        /\ \A w \in DOMAIN e.counts.of : e.counts.of[w] = d.counts.of[w]
    BY <2>2, Zenon DEF Published
  <2>4. /\ e.conf = d.conf /\ e.back = d.back /\ e.up = d.up /\ e.real = d.real
      /\ e.delta = d.delta /\ e.dropped = d.dropped /\ e.reg = d.reg
        /\ e.reader = d.reader /\ e.wiped = d.wiped /\ e.deleted = d.deleted
        /\ e.refused = d.refused /\ e.skipped = d.skipped /\ e.idle = d.idle
    BY <2>3, Zenon DEF Same, RsFields
  <2>5. RestOK(e)
    <3>1. e.log \in Seq(Ids)
      BY <1>3, <1>5, <2>3, Appended
    <3>2. e.reused \in BOOLEAN
      BY <1>2, <2>3, Zenon DEF RestOK
    <3> QED BY <1>2, <2>4, <3>1, <3>2, Zenon DEF RestOK
  <2>6. Lasting(e)
    BY <1>2, <1>4, <1>5, <2>2, PublishLasting, Zenon
  <2>7. Linked(e)
    BY <1>1, <1>2, <1>3, <1>4, <1>5, <2>2, PublishLinked, Zenon
  <2>8. ~e.reused => Ordered(e.list.ids, e.log)
    <3>1. SUFFICES ASSUME ~(d.reused \/ id \in Range(d.log)) PROVE Ordered(e.list.ids, e.log)
      BY <2>3, Zenon
    <3>2. Ordered(d.list.ids, d.log) /\ id \notin Range(d.log)
      BY <3>1, Zenon DEF RsInv
    <3> QED BY <1>2, <1>3, <1>4, <1>5, <2>2, <3>2, PublishOrdered, Zenon
  <2>9. Fresh(e)
    BY <1>1, <1>2, <1>3, <1>4, <1>5, <2>2, PublishFresh, Zenon
  <2>10. Counted(e)
    BY <1>2, <2>3, <2>4, Zenon DEF Counted
  <2> QED BY <1>2, <2>3, <2>4, <2>5, <2>6, <2>7, <2>8, <2>9, <2>10, Zenon DEF RsInv
<1> QED BY <1>6, <1>7, Zenon

(* The ids of a list are the first ones of another. *)
Cut(old, new) == \A k \in 1..Len(new) : k \in 1..Len(old) /\ new[k] = old[k]

(* The elements of a list that was cut. *)
LEMMA KeptElem ==
    ASSUME NEW S, NEW s \in Seq(S), NEW t, NEW msgs, Kept(s, t, msgs)
    PROVE  /\ t \in Seq(S) /\ Cut(s, t)
           /\ \A k \in 1..Len(s) : s[k] \in DOMAIN msgs => k \in 1..Len(t)
<1>1. PICK k \in 0..Len(s) : t = SubSeq(s, 1, k) /\ \A j \in 1..Len(s) : s[j] \in DOMAIN msgs => j <= k
  BY Zenon DEF Kept
<1>2. t \in Seq(S) /\ Len(t) = k /\ \A j \in 1..k : t[j] = s[j]
  BY <1>1
<1>3. \A j \in 1..k : j \in 1..Len(s)
  BY <1>1
<1>4. \A j \in 1..Len(s) : j <= k => j \in 1..k
  BY <1>1
<1> QED BY <1>1, <1>2, <1>3, <1>4, Zenon DEF Cut

(* When messages are only dropped and the list is cut, what is left refers to the history as before. *)
LEMMA Fewer ==
    ASSUME NEW d, RsInv(d), NEW e, e.log = d.log, e.reused = d.reused,
           DOMAIN e.msgs \subseteq DOMAIN d.msgs, \A i \in DOMAIN e.msgs : e.msgs[i] = d.msgs[i],
           e.chan.cur \in {d.chan.cur, NoId}, Cut(d.list.ids, e.list.ids),
           e.reader.id # NoId => e.reader.n \in 1..Len(d.log) /\ d.log[e.reader.n] = e.reader.id
    PROVE  Linked(e) /\ (~e.reused => Ordered(e.list.ids, e.log))
<1>1. Linked(d) /\ d.list.ids \in Seq(Ids)
  BY Zenon DEF RsInv, KeysOK, IdList
<1>2. \A k \in 1..Len(e.list.ids) : k \in 1..Len(d.list.ids) /\ e.list.ids[k] = d.list.ids[k]
  BY Zenon DEF Cut
<1>3. Linked(e)
  BY <1>1, <1>2, ZenonT(30) DEF Linked
<1>4. ASSUME ~e.reused
      PROVE  Ordered(e.list.ids, e.log)
  <2>1. Ordered(d.list.ids, d.log)
    BY <1>4, Zenon DEF RsInv
  <2> QED BY <1>2, <2>1 DEF Ordered
<1> QED BY <1>3, <1>4, Zenon

(* The newest id of a second stays alive unless a deletion is noted. *)
LEMMA StaysFresh ==
    ASSUME NEW d, Fresh(d), NEW e, e.log = d.log, e.back = d.back, e.now = d.now,
           \/ e.wiped
           \/ e.wiped = d.wiped /\ e.chan.cur = d.chan.cur /\ DOMAIN e.msgs = DOMAIN d.msgs
    PROVE  Fresh(e)
  BY Zenon DEF Fresh

(* What a script that publishes nothing has to keep. *)
LEMMA ScriptInv ==
    ASSUME NEW d, RsInv(d), NEW e, KeysOK(e),
           Same(d, e, {"chan", "list", "counts", "msgs", "wiped", "deleted"}),
           e.wiped \in BOOLEAN, e.deleted \in BOOLEAN,
           DOMAIN e.msgs \subseteq DOMAIN d.msgs, \A i \in DOMAIN e.msgs : e.msgs[i] = d.msgs[i],
           e.chan.cur \in {d.chan.cur, NoId}, Cut(d.list.ids, e.list.ids), Lasting(e),
           DOMAIN e.counts.of \subseteq DOMAIN d.counts.of,
           \A w \in DOMAIN e.counts.of : e.counts.of[w] = d.counts.of[w],
           \/ e.wiped
           \/ e.wiped = d.wiped /\ e.chan.cur = d.chan.cur /\ DOMAIN e.msgs = DOMAIN d.msgs
    PROVE  RsInv(e)
<1>1. /\ e.conf = d.conf /\ e.now = d.now /\ e.back = d.back /\ e.up = d.up /\ e.real = d.real
      /\ e.delta = d.delta /\ e.dropped = d.dropped /\ e.reg = d.reg
      /\ e.reader = d.reader /\ e.log = d.log /\ e.reused = d.reused
      /\ e.refused = d.refused /\ e.skipped = d.skipped /\ e.idle = d.idle
  BY Zenon DEF Same, RsFields
<1>2. RestOK(e)
  BY <1>1, Zenon DEF RsInv, RestOK
<1>3. e.reader.id # NoId => e.reader.n \in 1..Len(d.log) /\ d.log[e.reader.n] = e.reader.id
  BY <1>1, Zenon DEF RsInv, Linked
<1>4. Linked(e) /\ (~e.reused => Ordered(e.list.ids, e.log))
  BY <1>1, <1>3, Fewer, Zenon
<1>5. Fresh(e)
  BY <1>1, StaysFresh, Zenon DEF RsInv
<1>6. Counted(e)
  BY <1>1, Zenon DEF RsInv, Counted
<1> QED BY <1>1, <1>2, <1>4, <1>5, <1>6, Zenon DEF RsInv

(* Where no buffered message lives, or the channel lives no shorter, buffered messages stay outlived. *)
LEMMA StaysLasting ==
    ASSUME NEW d, KeysOK(d), Lasting(d), NEW e, KeysOK(e), DOMAIN e.msgs \subseteq DOMAIN d.msgs,
           \A i \in DOMAIN e.msgs : e.msgs[i] = d.msgs[i],
           \A i \in DOMAIN e.msgs : ~d.msgs[i].unbuffered =>
               /\ e.chan.on /\ e.chan.cur = d.chan.cur /\ e.chan.exp # Never /\ d.chan.exp <= e.chan.exp
               /\ \E k \in 1..Len(e.list.ids) : e.list.ids[k] = i,
           e.list.exp \in {e.chan.exp, Never}, e.list.ids = <<>> => e.list.exp = Never
    PROVE  Lasting(e)
<1>1. ASSUME NEW i \in DOMAIN e.msgs, ~e.msgs[i].unbuffered
      PROVE  /\ \E k \in 1..Len(e.list.ids) : e.list.ids[k] = i
             /\ e.chan.on /\ e.chan.cur # NoId /\ e.chan.exp # Never
             /\ e.msgs[i].exp < e.chan.exp
  <2>1. i \in DOMAIN d.msgs /\ e.msgs[i] = d.msgs[i] /\ ~d.msgs[i].unbuffered
    BY <1>1, Zenon
  <2>2. /\ e.chan.on /\ e.chan.cur = d.chan.cur /\ e.chan.exp # Never /\ d.chan.exp <= e.chan.exp
        /\ \E k \in 1..Len(e.list.ids) : e.list.ids[k] = i
    BY <1>1, <2>1, Zenon
  <2>3. d.chan.cur # NoId /\ d.msgs[i].exp < d.chan.exp
    BY <2>1, Zenon DEF Lasting
  <2>4. d.msgs[i].exp \in Int /\ d.chan.exp \in Int /\ e.chan.exp \in Int
    BY <2>1, Numbers, SMTT(30) DEF KeysOK, ChanOK, Channel, MsgsOK, Message, Times
  <2> QED BY <2>1, <2>2, <2>3, <2>4
<1> QED BY <1>1, Zenon DEF Lasting

(* The channel's subscriber count is written. *)
WithSubs(d, v) == [d EXCEPT !.chan.subs = v]

(* Writing it changes nothing else of the channel. *)
LEMMA SubsParts ==
    ASSUME NEW d, KeysOK(d), d.chan.on, NEW v \in Int, NEW e, e = WithSubs(d, v)
    PROVE  /\ Same(d, e, {"chan"}) /\ KeysOK(e)
           /\ e.chan.on /\ e.chan.cur = d.chan.cur /\ e.chan.exp = d.chan.exp /\ e.chan.subs = v
<1>1. PICK c : c = [d.chan EXCEPT !.subs = v]
  BY Zenon
<1>2. c \in Channel /\ c.on = d.chan.on /\ c.cur = d.chan.cur /\ c.exp = d.chan.exp /\ c.subs = v
  BY <1>1, Zenon DEF KeysOK, ChanOK, Channel
<1>3. e = [d EXCEPT !.chan = c]
  BY <1>1, Zenon DEF WithSubs
<1>4. Same(d, e, {"chan"}) /\ e.chan = c
  BY <1>3, Zenon DEF KeysOK, Same, RsFields
<1>5. /\ DOMAIN e = RsFields /\ e.now = d.now /\ e.list = d.list /\ e.msgs = d.msgs
      /\ e.counts = d.counts
  BY <1>4, Zenon DEF Same, RsFields
<1>6. KeysOK(e)
  BY <1>2, <1>4, <1>5, Zenon DEF KeysOK, ChanOK, MsgsOK, CountsOK
<1> QED BY <1>2, <1>4, <1>6, Zenon

(* delete leaves no buffered message. *)
LEMMA DeleteInv ==
    ASSUME NEW d, RsInv(d), NEW e, e = delete(d)
    PROVE  RsInv(e) /\ e.deleted
<1>1. PICK x : x = del_messages(d, Range(d.list.ids))
  BY Zenon
<1>2. PICK y : y = del_all(x)
  BY Zenon
<1>3. e = [y EXCEPT !.wiped = TRUE, !.deleted = TRUE]
  BY <1>1, <1>2, Zenon DEF delete
<1>4. KeysOK(d) /\ Lasting(d) /\ d.list.ids \in Seq(Ids)
  BY Zenon DEF RsInv, KeysOK, IdList
<1>5. /\ Same(d, x, {"msgs"}) /\ KeysOK(x)
      /\ DOMAIN x.msgs = DOMAIN d.msgs \ Range(d.list.ids) /\ \A i \in DOMAIN x.msgs : x.msgs[i] = d.msgs[i]
  BY <1>1, <1>4, DelMessagesParts
<1>6. /\ Same(x, y, {"chan", "list", "counts"}) /\ KeysOK(y)
      /\ y.chan = NoChannel /\ y.list = NoList /\ y.counts = NoCounts
  BY <1>2, <1>5, DelAllParts, Zenon
<1>7. DOMAIN y = RsFields /\ y.msgs = x.msgs
  BY <1>6, Zenon DEF Same, RsFields
<1>8. Same(y, e, {"wiped", "deleted"}) /\ e.wiped = TRUE /\ e.deleted = TRUE
  BY <1>3, <1>7, Zenon DEF Same, RsFields
<1>9. /\ DOMAIN e = RsFields /\ e.now = y.now /\ e.chan = NoChannel /\ e.list = NoList
      /\ e.counts = NoCounts /\ e.msgs = x.msgs
  BY <1>6, <1>7, <1>8, Zenon DEF Same, RsFields
<1>10. KeysOK(e)
  BY <1>6, <1>7, <1>9, Zenon DEF KeysOK, ChanOK, MsgsOK, CountsOK
<1>11. Same(d, e, {"chan", "list", "counts", "msgs", "wiped", "deleted"})
  BY <1>5, <1>6, <1>8, Zenon DEF Same
<1>12. \A i \in DOMAIN e.msgs : d.msgs[i].unbuffered
  <2>1. ASSUME NEW i \in DOMAIN e.msgs, ~d.msgs[i].unbuffered
        PROVE  FALSE
    <3>1. i \in DOMAIN d.msgs /\ i \notin Range(d.list.ids)
      BY <1>5, <1>9, <2>1, Zenon
    <3>2. PICK k \in 1..Len(d.list.ids) : d.list.ids[k] = i
      BY <1>4, <2>1, <3>1, Zenon DEF Lasting
    <3> QED BY <1>4, <3>1, <3>2 DEF Range
  <2> QED BY <2>1, Zenon
<1>13. e.list.ids = <<>> /\ e.list.exp = Never /\ DOMAIN e.counts.of = {} /\ e.chan.cur = NoId
  BY <1>9, BareTyped DEF NoList, NoCounts
<1>14. DOMAIN e.msgs \subseteq DOMAIN d.msgs /\ \A i \in DOMAIN e.msgs : e.msgs[i] = d.msgs[i]
  BY <1>5, <1>9, Zenon
<1>15. Lasting(e)
  BY <1>4, <1>10, <1>12, <1>13, <1>14, StaysLasting, Zenon
<1>16. Cut(d.list.ids, e.list.ids)
  BY <1>13 DEF Cut
<1> QED BY <1>8, <1>10, <1>11, <1>13, <1>14, <1>15, <1>16, ScriptInv, Zenon

(* Looking for the oldest message, and counting the subscribers, keep the invariant. *)
LEMMA OldestInv ==
    ASSUME CountingFacts, NEW d, RsInv(d), NEW e, e = oldestmsg(d)
    PROVE  RsInv(e)
<1>1. KeysOK(d) /\ Lasting(d) /\ d.list.ids \in Seq(Ids) /\ RestOK(d)
  BY Zenon DEF RsInv, KeysOK, IdList
<1>2. /\ Same(d, e, {"list"}) /\ KeysOK(e)
      /\ Kept(d.list.ids, e.list.ids, d.msgs)
      /\ e.list.exp = IF e.list.ids = <<>> THEN Never ELSE d.list.exp
  BY <1>1, OldestParts, Zenon
<1>3. /\ e.chan = d.chan /\ e.msgs = d.msgs /\ e.counts = d.counts /\ e.wiped = d.wiped /\ e.deleted = d.deleted
  BY <1>2, Zenon DEF Same, RsFields
<1>4. /\ Cut(d.list.ids, e.list.ids)
      /\ \A k \in 1..Len(d.list.ids) : d.list.ids[k] \in DOMAIN d.msgs => k \in 1..Len(e.list.ids)
  BY <1>1, <1>2, KeptElem
<1>5. ASSUME NEW i \in DOMAIN e.msgs, ~d.msgs[i].unbuffered
      PROVE  /\ e.chan.on /\ e.chan.cur = d.chan.cur /\ e.chan.exp # Never /\ d.chan.exp <= e.chan.exp
             /\ \E k \in 1..Len(e.list.ids) : e.list.ids[k] = i
  <2>1. PICK k \in 1..Len(d.list.ids) : d.list.ids[k] = i
    BY <1>1, <1>3, <1>5, Zenon DEF Lasting
  <2>2. k \in 1..Len(e.list.ids) /\ e.list.ids[k] = i
    BY <1>3, <1>4, <1>5, <2>1, Zenon DEF Cut
  <2>3. e.chan.exp \in Int
    BY <1>2, Numbers DEF KeysOK, ChanOK, Channel, Times
  <2> QED BY <1>1, <1>3, <1>5, <2>2, <2>3 DEF Lasting
<1>6. e.list.exp \in {e.chan.exp, Never} /\ (e.list.ids = <<>> => e.list.exp = Never)
  BY <1>1, <1>2, <1>3, Zenon DEF Lasting
<1>7. Lasting(e)
  BY <1>1, <1>2, <1>3, <1>5, <1>6, StaysLasting
<1>8. Same(d, e, {"chan", "list", "counts", "msgs", "wiped", "deleted"})
  BY <1>2, Zenon DEF Same
<1>9. e.wiped \in BOOLEAN /\ e.deleted \in BOOLEAN
  BY <1>1, <1>3, Zenon DEF RestOK
<1> QED BY <1>2, <1>3, <1>4, <1>7, <1>8, <1>9, ScriptInv, Zenon

(* Forgetting workers with nothing to count keeps the invariant. *)
LEMMA ForgetInv ==
    ASSUME NEW d, RsInv(d), NEW e, e = forget_uncounted(d)
    PROVE  RsInv(e)
<1>1. KeysOK(d) /\ Lasting(d) /\ RestOK(d)
  BY Zenon DEF RsInv
<1>2. /\ Same(d, e, {"counts"}) /\ KeysOK(e)
      /\ DOMAIN e.counts.of \subseteq DOMAIN d.counts.of
      /\ \A w \in DOMAIN e.counts.of : e.counts.of[w] = d.counts.of[w]
  BY <1>1, ForgetParts, Zenon
<1>3. /\ e.chan = d.chan /\ e.msgs = d.msgs /\ e.list = d.list /\ e.wiped = d.wiped /\ e.deleted = d.deleted
  BY <1>2, Zenon DEF Same, RsFields
<1>4. Lasting(e)
  BY <1>1, <1>3 DEF Lasting
<1>5. Same(d, e, {"chan", "list", "counts", "msgs", "wiped", "deleted"})
  BY <1>2, Zenon DEF Same
<1>6. e.wiped \in BOOLEAN /\ e.deleted \in BOOLEAN
  BY <1>1, <1>3, Zenon DEF RestOK
<1>7. Cut(d.list.ids, e.list.ids)
  BY <1>3, Zenon DEF Cut
<1> QED BY <1>2, <1>3, <1>4, <1>5, <1>6, <1>7, ScriptInv, Zenon

(* A channel has less than this to live, or has no expiry. *)
Short(d, ttl) == d.chan.exp = Never \/ d.chan.exp < d.now + ttl + SafetyMargin

(* Times are numbers. *)
LEMMA ExpTime ==
    ASSUME NEW d, KeysOK(d)
    PROVE  d.now \in Nat /\ d.now <= MaxClock /\ d.chan.exp \in Nat /\ d.chan.exp <= Never
  BY Numbers DEF KeysOK, ChanOK, Channel, Times

(* What an interval and its margin are. *)
LEMMA RenewTime ==
    ASSUME NEW d, KeysOK(d), NEW ttl, Fits(ttl)
    PROVE  /\ ttl \in Nat /\ ttl + SafetyMargin \in Nat /\ d.now \in Nat /\ d.chan.exp \in Nat /\ d.chan.exp <= Never
           /\ d.now + (ttl + SafetyMargin) \in Times /\ d.now + (ttl + SafetyMargin) < Never
  BY Numbers DEF KeysOK, ChanOK, Channel, Times, Fits

(* subscriber_register creates the channel or adds to its count, and renews it when it has not long to live. *)
LEMMA RegisterParts ==
    ASSUME NEW d, KeysOK(d), NEW ttl, Fits(ttl), NEW r, r = subscriber_register(d, ttl)
    PROVE  /\ Same(d, r.d, {"chan", "list", "counts"}) /\ KeysOK(r.d)
           /\ r.d.chan.on /\ r.d.chan.cur = d.chan.cur
           /\ r.d.chan.subs = IF d.chan.on THEN d.chan.subs + 1 ELSE 1
           /\ r.d.list.ids = d.list.ids /\ r.d.counts.of = d.counts.of
           /\ Short(d, ttl) => /\ r.d.chan.exp = d.now + (ttl + SafetyMargin) /\ r.next = ttl
                          /\ r.d.list.exp = IF d.list.ids # <<>> THEN d.now + (ttl + SafetyMargin) ELSE Never
           /\ ~Short(d, ttl) => /\ r.d.chan.exp = d.chan.exp /\ r.d.list.exp = d.list.exp
                           /\ r.next = before(d.chan.exp - d.now)
<1>0. ttl \in Nat /\ ttl + SafetyMargin \in Nat
  BY RenewTime
<1>1. PICK t : t = touch_channel(d)
  BY Zenon
<1>2. /\ Same(d, t, {"chan"}) /\ KeysOK(t)
      /\ t.chan = IF d.chan.on THEN d.chan ELSE BareChannel(TRUE)
  BY <1>1, TouchParts, Zenon
<1>3. PICK v : v = t.chan.subs + 1
  BY Zenon
<1>4. PICK x : x = WithSubs(t, v)
  BY Zenon
<1>5. /\ t.chan.on /\ t.chan.cur = d.chan.cur /\ t.chan.exp = d.chan.exp
      /\ t.chan.subs = (IF d.chan.on THEN d.chan.subs ELSE 0) /\ t.chan.subs \in Int
  BY <1>2, BareTyped, Zenon DEF KeysOK, ChanOK, Channel
<1>6. v \in Int
  BY <1>3, <1>5
<1>7. /\ Same(t, x, {"chan"}) /\ KeysOK(x)
      /\ x.chan.on /\ x.chan.cur = t.chan.cur /\ x.chan.exp = t.chan.exp /\ x.chan.subs = v
  <2>1. KeysOK(t) /\ t.chan.on
    BY <1>2, <1>5, Zenon
  <2> QED BY <1>4, <1>6, <2>1, SubsParts
<1>8. v = (IF d.chan.on THEN d.chan.subs + 1 ELSE 1)
  BY <1>3, <1>5
<1>9. x.now = d.now /\ x.list = d.list /\ x.counts = d.counts
  BY <1>2, <1>7, Zenon DEF Same, RsFields
<1>10. PICK actual : actual = channel_ttl(x)
  BY Zenon
<1>11. actual = IF d.chan.exp = Never THEN -1 ELSE d.chan.exp - d.now
  BY <1>5, <1>7, <1>9, <1>10, Zenon DEF channel_ttl, ttl_of
<1>12. Short(d, ttl) <=> actual < ttl + SafetyMargin
  <2>1. CASE d.chan.exp = Never
    BY <1>11, <2>1, RenewTime DEF Short
  <2>2. CASE d.chan.exp # Never
    BY <1>11, <2>2, RenewTime, Numbers DEF Short
  <2> QED BY <2>1, <2>2, Zenon
<1>13. r = IF actual < ttl + SafetyMargin
           THEN [d |-> expire_all(x, ttl + SafetyMargin), next |-> ttl]
           ELSE [d |-> x, next |-> before(actual)]
  BY <1>1, <1>3, <1>4, <1>10, Zenon DEF subscriber_register, WithSubs
<1>14. CASE Short(d, ttl)
  <2>1. PICK y : y = expire_all(x, ttl + SafetyMargin)
    BY Zenon
  <2>2. r.d = y /\ r.next = ttl
    BY <1>12, <1>13, <1>14, <2>1
  <2>3. ttl + SafetyMargin \in Int /\ x.now + (ttl + SafetyMargin) \in Times
    BY <1>7, RenewTime
  <2>4. /\ Same(x, y, {"chan", "list", "counts"}) /\ KeysOK(y)
        /\ y.chan.on = x.chan.on /\ y.chan.cur = x.chan.cur /\ y.chan.subs = x.chan.subs
        /\ y.chan.exp = (IF x.chan.on THEN x.now + (ttl + SafetyMargin) ELSE Never)
        /\ y.list.ids = x.list.ids
        /\ y.list.exp = (IF x.list.ids # <<>> THEN x.now + (ttl + SafetyMargin) ELSE Never)
        /\ y.counts.of = x.counts.of
    BY <1>7, <2>1, <2>3, ExpireParts, ZenonT(30)
  <2>5. Same(d, y, {"chan", "list", "counts"})
    BY <1>2, <1>7, <2>4, Zenon DEF Same
  <2> QED BY <1>5, <1>7, <1>8, <1>9, <1>14, <2>2, <2>4, <2>5, Zenon
<1>15. CASE ~Short(d, ttl)
  <2>1. r.d = x /\ r.next = before(d.chan.exp - d.now)
    BY <1>11, <1>12, <1>13, <1>15 DEF Short
  <2>2. Same(d, x, {"chan", "list", "counts"})
    BY <1>2, <1>7, Zenon DEF Same
  <2> QED BY <1>5, <1>7, <1>8, <1>9, <1>15, <2>1, <2>2, Zenon
<1> QED BY <1>14, <1>15, Zenon

(* Registering keeps the invariant: it never shortens the life of a channel that has buffered messages. *)
LEMMA RegisterInv ==
    ASSUME NEW d, RsInv(d), NEW ttl, Fits(ttl), NEW r, r = subscriber_register(d, ttl)
    PROVE  RsInv(r.d)
<1>1. KeysOK(d) /\ Lasting(d) /\ RestOK(d)
  BY Zenon DEF RsInv
<1>2. PICK e : e = r.d
  BY Zenon
<1>3. PICK at : at = d.now + (ttl + SafetyMargin)
  BY Zenon
<1>4. /\ Same(d, e, {"chan", "list", "counts"}) /\ KeysOK(e)
      /\ e.chan.on /\ e.chan.cur = d.chan.cur
      /\ e.list.ids = d.list.ids /\ e.counts.of = d.counts.of
      /\ Short(d, ttl) => e.chan.exp = at /\ e.list.exp = IF d.list.ids # <<>> THEN at ELSE Never
      /\ ~Short(d, ttl) => e.chan.exp = d.chan.exp /\ e.list.exp = d.list.exp
  BY <1>1, <1>2, <1>3, RegisterParts
<1>5. e.msgs = d.msgs /\ e.wiped = d.wiped /\ e.deleted = d.deleted
  BY <1>4, Zenon DEF Same, RsFields
<1>6. d.chan.exp # Never => e.chan.exp # Never /\ d.chan.exp <= e.chan.exp
  <2>1. CASE Short(d, ttl)
    BY <1>1, <1>3, <1>4, <2>1, RenewTime, Numbers DEF Short
  <2>2. CASE ~Short(d, ttl)
    BY <1>1, <1>4, <2>2, RenewTime
  <2> QED BY <2>1, <2>2, Zenon
<1>7. \A i \in DOMAIN e.msgs : ~d.msgs[i].unbuffered =>
          /\ e.chan.on /\ e.chan.cur = d.chan.cur /\ e.chan.exp # Never /\ d.chan.exp <= e.chan.exp
          /\ \E k \in 1..Len(e.list.ids) : e.list.ids[k] = i
  BY <1>1, <1>4, <1>5, <1>6 DEF Lasting
<1>8. e.list.exp \in {e.chan.exp, Never} /\ (e.list.ids = <<>> => e.list.exp = Never)
  <2>1. CASE Short(d, ttl)
    BY <1>4, <2>1, Zenon
  <2>2. CASE ~Short(d, ttl)
    BY <1>1, <1>4, <2>2, Zenon DEF Lasting
  <2> QED BY <2>1, <2>2, Zenon
<1>9. Lasting(e)
  BY <1>1, <1>4, <1>5, <1>7, <1>8, StaysLasting, Zenon
<1>10. Same(d, e, {"chan", "list", "counts", "msgs", "wiped", "deleted"})
  BY <1>4, Zenon DEF Same
<1>11. e.wiped \in BOOLEAN /\ e.deleted \in BOOLEAN
  BY <1>1, <1>5, Zenon DEF RestOK
<1>12. Cut(d.list.ids, e.list.ids)
  BY <1>4, Zenon DEF Cut
<1> QED BY <1>2, <1>4, <1>5, <1>9, <1>10, <1>11, <1>12, ScriptInv, Zenon

(* subscriber_unregister takes one from the channel's count; when that leaves none and no message is listed,
   the channel goes or is given a time to live. *)
Unregistered(d, e) ==
    /\ Same(d, e, {"chan", "list", "counts", "wiped"}) /\ KeysOK(e)
    /\ DOMAIN e.counts.of \subseteq DOMAIN d.counts.of
    /\ \A w \in DOMAIN e.counts.of : e.counts.of[w] = d.counts.of[w]
    /\ e.list.ids = d.list.ids /\ e.list.exp \in {d.list.exp, Never}
    /\ ~d.chan.on => e = d
    /\ d.chan.on => e.chan.subs = d.chan.subs - 1
    /\ d.chan.on /\ (d.chan.subs # 1 \/ d.list.ids # <<>>) =>
           e.chan.on /\ e.chan.exp = d.chan.exp /\ e.chan.cur = d.chan.cur /\ e.list = d.list
    /\ e.chan.exp \in {d.chan.exp, Never} \/ e.chan.exp <= d.now + FourYears
    /\ (e.wiped = TRUE /\ e.chan.cur = NoId) \/ (e.wiped = d.wiped /\ e.chan.cur = d.chan.cur)

(* That is what subscriber_unregister does. *)
LEMMA UnregisterParts ==
    ASSUME NEW d, KeysOK(d), NEW empty_ttl \in ChannelTimeouts, NEW e, e = subscriber_unregister(d, empty_ttl)
    PROVE  Unregistered(d, e)
<1> USE DEF Unregistered
<1>1. d.chan.subs \in Int /\ DOMAIN d = RsFields /\ empty_ttl \in -1..FourYears
  BY RsAssumption, Zenon DEF KeysOK, ChanOK, Channel
<1>2. CASE ~d.chan.on
  <2>1. e = d
    BY <1>2, Zenon DEF subscriber_unregister
  <2>2. Same(d, e, {"chan", "list", "counts", "wiped"})
    BY <1>1, <2>1, Zenon DEF Same
  <2> QED BY <1>2, <2>1, <2>2, Zenon
<1>3. CASE d.chan.on
  <2>1. PICK v : v = d.chan.subs - 1
    BY Zenon
  <2>2. PICK x : x = WithSubs(d, v)
    BY Zenon
  <2>3. v \in Int /\ (v = 0 <=> d.chan.subs = 1)
    BY <1>1, <2>1
  <2>4. /\ Same(d, x, {"chan"}) /\ KeysOK(x)
        /\ x.chan.on /\ x.chan.cur = d.chan.cur /\ x.chan.exp = d.chan.exp /\ x.chan.subs = v
    BY <1>3, <2>2, <2>3, SubsParts
  <2>5. x.list = d.list /\ x.counts = d.counts /\ x.now = d.now /\ x.wiped = d.wiped
    BY <2>4, Zenon DEF Same, RsFields
  <2>6. e = IF x.chan.subs # 0 \/ d.list.ids # <<>> THEN x
            ELSE IF empty_ttl = 0 THEN [del_all(x) EXCEPT !.wiped = TRUE]
            ELSE IF empty_ttl < 0 THEN expire_all(x, Never - x.now) ELSE expire_all(x, empty_ttl)
    BY <1>3, <2>1, <2>2 DEF subscriber_unregister, WithSubs
  <2>7. CASE v # 0 \/ d.list.ids # <<>>
    <3>1. e = x
      BY <2>4, <2>6, <2>7, Zenon
    <3>2. Same(d, e, {"chan", "list", "counts", "wiped"})
      BY <2>4, <3>1, Zenon DEF Same
    <3> QED BY <1>3, <2>1, <2>4, <2>5, <3>1, <3>2, Zenon
  <2>8. CASE v = 0 /\ d.list.ids = <<>> /\ empty_ttl = 0
    <3>1. PICK y : y = del_all(x)
      BY Zenon
    <3>2. e = [y EXCEPT !.wiped = TRUE]
      BY <2>4, <2>6, <2>8, <3>1, Zenon
    <3>3. /\ Same(x, y, {"chan", "list", "counts"}) /\ KeysOK(y)
          /\ y.chan = NoChannel /\ y.list = NoList /\ y.counts = NoCounts
      BY <2>4, <3>1, DelAllParts, Zenon
    <3>4. DOMAIN y = RsFields
      BY <3>3, Zenon DEF Same
    <3>5. Same(y, e, {"wiped"}) /\ e.wiped = TRUE
      BY <3>2, <3>4, Zenon DEF Same, RsFields
    <3>6. /\ DOMAIN e = RsFields /\ e.now = y.now /\ e.chan = NoChannel /\ e.list = NoList
          /\ e.counts = NoCounts /\ e.msgs = y.msgs
      BY <3>3, <3>5, Zenon DEF Same, RsFields
    <3>7. KeysOK(e)
      BY <3>3, <3>6, Zenon DEF KeysOK, ChanOK, MsgsOK, CountsOK
    <3>8. Same(d, e, {"chan", "list", "counts", "wiped"})
      BY <2>4, <3>3, <3>5, Zenon DEF Same
    <3>9. e.list.ids = <<>> /\ e.list.exp = Never /\ DOMAIN e.counts.of = {} /\ e.chan.cur = NoId /\ e.chan.subs = 0
          /\ e.chan.exp = Never
      BY <3>6, BareTyped DEF NoList, NoCounts, NoChannel, BareChannel
    <3> QED BY <1>3, <2>1, <2>3, <2>8, <3>5, <3>7, <3>8, <3>9, Zenon
  <2>9. CASE v = 0 /\ d.list.ids = <<>> /\ empty_ttl # 0
    <3>1. PICK ttl : ttl = IF empty_ttl < 0 THEN Never - x.now ELSE empty_ttl
      BY Zenon
    <3>2. e = expire_all(x, ttl)
      BY <2>4, <2>6, <2>9, <3>1, Zenon
    <3>3. ttl \in Int /\ x.now + ttl \in Times
      <4>1. x.now \in Nat /\ x.now <= MaxClock
        BY <2>4, Numbers DEF KeysOK
      <4>2. CASE empty_ttl < 0
        BY <3>1, <4>1, <4>2, Numbers DEF Times
      <4>3. CASE ~(empty_ttl < 0)
        BY <1>1, <3>1, <4>1, <4>3, Numbers DEF Times
      <4> QED BY <4>2, <4>3, Zenon
    <3>4. /\ Same(x, e, {"chan", "list", "counts"}) /\ KeysOK(e)
          /\ e.chan.on = x.chan.on /\ e.chan.cur = x.chan.cur /\ e.chan.subs = x.chan.subs
          /\ e.chan.exp = (IF x.chan.on THEN x.now + ttl ELSE Never)
          /\ e.list.ids = x.list.ids
          /\ e.list.exp = (IF x.list.ids # <<>> THEN x.now + ttl ELSE Never)
          /\ e.counts.of = x.counts.of
      BY <2>4, <3>2, <3>3, ExpireParts, ZenonT(30)
    <3>5. Same(d, e, {"chan", "list", "counts", "wiped"})
      BY <2>4, <3>4, Zenon DEF Same
    <3>6. e.wiped = d.wiped
      BY <2>5, <3>4, Zenon DEF Same, RsFields
    <3>7. e.chan.exp = Never \/ e.chan.exp <= d.now + FourYears
      <4>1. x.now + ttl = Never \/ x.now + ttl <= x.now + FourYears
        <5>1. x.now \in Nat
          BY <2>4, Numbers DEF KeysOK
        <5> QED BY <1>1, <3>1, <5>1, Numbers
      <4> QED BY <2>4, <2>5, <3>4, <4>1, Zenon
    <3> QED BY <1>3, <2>1, <2>3, <2>4, <2>5, <2>9, <3>4, <3>5, <3>6, <3>7, Zenon
  <2> QED BY <2>7, <2>8, <2>9, Zenon
<1> QED BY <1>2, <1>3, Zenon

(* Unregistering keeps the invariant: the life of a channel that lists a message is not changed. *)
LEMMA UnregisterInv ==
    ASSUME NEW d, RsInv(d), NEW empty_ttl \in ChannelTimeouts, NEW e, e = subscriber_unregister(d, empty_ttl)
    PROVE  RsInv(e)
<1>1. KeysOK(d) /\ Lasting(d) /\ RestOK(d)
  BY Zenon DEF RsInv
<1>2. Unregistered(d, e)
  BY <1>1, UnregisterParts, Zenon
<1>3. e.msgs = d.msgs /\ e.deleted = d.deleted
  BY <1>2, Zenon DEF Unregistered, Same, RsFields
<1>4. KeysOK(e) /\ d.chan.exp \in Int
  BY <1>1, <1>2, ExpTime, SMTT(30) DEF Unregistered
<1>5. ASSUME NEW i \in DOMAIN e.msgs, ~d.msgs[i].unbuffered
      PROVE  /\ e.chan.on /\ e.chan.cur = d.chan.cur /\ e.chan.exp # Never /\ d.chan.exp <= e.chan.exp
             /\ \E k \in 1..Len(e.list.ids) : e.list.ids[k] = i
  <2>1. PICK k \in 1..Len(d.list.ids) : d.list.ids[k] = i
    BY <1>1, <1>3, <1>5, Zenon DEF Lasting
  <2>2. d.chan.on /\ d.chan.exp # Never /\ d.list.ids # <<>>
    BY <1>1, <1>3, <1>5, <2>1 DEF Lasting
  <2> QED BY <1>2, <1>4, <2>1, <2>2 DEF Unregistered
<1>6. e.list.exp \in {e.chan.exp, Never} /\ (e.list.ids = <<>> => e.list.exp = Never)
  <2>1. CASE d.list.ids = <<>>
    BY <1>1, <1>2, <2>1, Zenon DEF Unregistered, Lasting
  <2>2. CASE d.list.ids # <<>> /\ d.chan.on
    BY <1>1, <1>2, <2>2, Zenon DEF Unregistered, Lasting
  <2>3. CASE ~d.chan.on
    BY <1>1, <1>2, <2>3, Zenon DEF Unregistered, Lasting
  <2> QED BY <1>1, <2>1, <2>2, <2>3, Zenon
<1>7. Lasting(e)
  BY <1>1, <1>3, <1>4, <1>5, <1>6, StaysLasting
<1>8. Same(d, e, {"chan", "list", "counts", "msgs", "wiped", "deleted"})
  BY <1>2, Zenon DEF Unregistered, Same
<1>9. e.wiped \in BOOLEAN /\ e.deleted \in BOOLEAN
  BY <1>1, <1>2, <1>3, Zenon DEF Unregistered, RestOK
<1>10. Cut(d.list.ids, e.list.ids)
  BY <1>2, Zenon DEF Unregistered, Cut
<1>11. /\ e.chan.cur \in {d.chan.cur, NoId}
       /\ DOMAIN e.counts.of \subseteq DOMAIN d.counts.of
       /\ \A w \in DOMAIN e.counts.of : e.counts.of[w] = d.counts.of[w]
       /\ e.wiped \/ (e.wiped = d.wiped /\ e.chan.cur = d.chan.cur)
  BY <1>2, Zenon DEF Unregistered
<1> QED BY <1>3, <1>4, <1>7, <1>8, <1>9, <1>10, <1>11, ScriptInv, Zenon

(* channel_keepalive renews a channel that has subscribers, unless its messages give it longer to live. *)
Long(d, ttl) == d.list.ids # <<>> /\ d.chan.exp # Never /\ d.chan.exp > d.now + (ttl + SafetyMargin)
Renewed(d, e, ttl) ==
    /\ Same(d, e, {"chan", "list", "counts"}) /\ KeysOK(e)
    /\ e.chan.on /\ e.chan.cur = d.chan.cur /\ e.chan.subs = d.chan.subs
    /\ e.chan.exp = d.now + (ttl + SafetyMargin)
    /\ e.list.ids = d.list.ids
    /\ e.list.exp = IF d.list.ids # <<>> THEN d.now + (ttl + SafetyMargin) ELSE Never
    /\ e.counts.of = d.counts.of

(* What channel_keepalive does, and when. *)
LEMMA KeepaliveParts ==
    ASSUME NEW d, KeysOK(d), NEW ttl, Fits(ttl), NEW r, r = channel_keepalive(d, ttl)
    PROVE  /\ ~d.chan.on \/ d.chan.subs <= 0 => r.d = d /\ r.next = -1
           /\ d.chan.on /\ d.chan.subs > 0 /\ Long(d, ttl) => r.d = d /\ r.next = before(d.chan.exp - d.now)
           /\ d.chan.on /\ d.chan.subs > 0 /\ ~Long(d, ttl) => Renewed(d, r.d, ttl) /\ r.next = ttl
<1>1. d.chan.subs \in Int /\ d.now \in Nat /\ d.chan.exp \in Nat /\ ttl + SafetyMargin \in Nat /\ ttl \in Nat
  BY RenewTime, Zenon DEF KeysOK, ChanOK, Channel
<1>2. CASE ~d.chan.on \/ d.chan.subs <= 0
  BY <1>1, <1>2 DEF channel_keepalive
<1>3. CASE d.chan.on /\ d.chan.subs > 0
  <2>1. PICK actual : actual = channel_ttl(d)
    BY Zenon
  <2>2. actual = IF d.chan.exp = Never THEN -1 ELSE d.chan.exp - d.now
    BY <1>3, <2>1, Zenon DEF channel_ttl, ttl_of
  <2>3. Long(d, ttl) <=> d.list.ids # <<>> /\ actual > ttl + SafetyMargin
    <3>1. CASE d.chan.exp = Never
      BY <1>1, <2>2, <3>1 DEF Long
    <3>2. CASE d.chan.exp # Never
      <4>1. actual = d.chan.exp - d.now
        BY <2>2, <3>2, Zenon
      <4>2. actual > ttl + SafetyMargin <=> d.chan.exp > d.now + (ttl + SafetyMargin)
        BY <1>1, <4>1
      <4> QED BY <3>2, <4>2, Zenon DEF Long
    <3> QED BY <3>1, <3>2, Zenon
  <2>4. r = IF d.list.ids # <<>> /\ actual > ttl + SafetyMargin THEN [d |-> d, next |-> before(actual)]
            ELSE [d |-> expire_all(d, ttl + SafetyMargin), next |-> ttl]
    BY <1>1, <1>3, <2>1, SMTT(30) DEF channel_keepalive
  <2>5. CASE Long(d, ttl)
    BY <1>1, <1>3, <2>2, <2>3, <2>4, <2>5, SMTT(30) DEF Long
  <2>6. CASE ~Long(d, ttl)
    <3>1. PICK y : y = expire_all(d, ttl + SafetyMargin)
      BY Zenon
    <3>2. r.d = y /\ r.next = ttl
      BY <2>3, <2>4, <2>6, <3>1
    <3>3. ttl + SafetyMargin \in Int /\ d.now + (ttl + SafetyMargin) \in Times
      BY RenewTime
    <3>4. /\ Same(d, y, {"chan", "list", "counts"}) /\ KeysOK(y)
          /\ y.chan.on = d.chan.on /\ y.chan.cur = d.chan.cur /\ y.chan.subs = d.chan.subs
          /\ y.chan.exp = (IF d.chan.on THEN d.now + (ttl + SafetyMargin) ELSE Never)
          /\ y.list.ids = d.list.ids
          /\ y.list.exp = (IF d.list.ids # <<>> THEN d.now + (ttl + SafetyMargin) ELSE Never)
          /\ y.counts.of = d.counts.of
      BY <3>1, <3>3, ExpireParts
    <3>5. Renewed(d, y, ttl)
      BY <1>3, <3>4, Zenon DEF Renewed
    <3> QED BY <1>1, <1>3, <2>6, <3>2, <3>5
  <2> QED BY <2>5, <2>6, Zenon
<1> QED BY <1>1, <1>2, <1>3, Zenon

(* A renewed channel has not lost time that its messages need. *)
LEMMA RenewInv ==
    ASSUME NEW d, RsInv(d), NEW ttl, Fits(ttl), ~Long(d, ttl), NEW e, Renewed(d, e, ttl)
    PROVE  RsInv(e)
<1>1. KeysOK(d) /\ Lasting(d) /\ RestOK(d)
  BY Zenon DEF RsInv
<1>2. e.msgs = d.msgs /\ e.wiped = d.wiped /\ e.deleted = d.deleted
  BY Zenon DEF Renewed, Same, RsFields
<1>3. PICK at : at = d.now + (ttl + SafetyMargin)
  BY Zenon
<1>4. at \in Nat /\ at < Never /\ d.chan.exp \in Nat
  BY <1>1, <1>3, RenewTime, Numbers
<1>5. /\ KeysOK(e) /\ e.chan.on /\ e.chan.cur = d.chan.cur /\ e.chan.exp = at
      /\ e.list.ids = d.list.ids /\ e.list.exp = (IF d.list.ids # <<>> THEN at ELSE Never)
      /\ e.counts.of = d.counts.of
  BY <1>3, Zenon DEF Renewed
<1>6. ASSUME NEW i \in DOMAIN e.msgs, ~d.msgs[i].unbuffered
      PROVE  /\ e.chan.on /\ e.chan.cur = d.chan.cur /\ e.chan.exp # Never /\ d.chan.exp <= e.chan.exp
             /\ \E k \in 1..Len(e.list.ids) : e.list.ids[k] = i
  <2>1. PICK k \in 1..Len(d.list.ids) : d.list.ids[k] = i
    BY <1>1, <1>2, <1>6, Zenon DEF Lasting
  <2>2. d.chan.on /\ d.chan.exp # Never /\ d.list.ids # <<>>
    BY <1>1, <1>2, <1>6, <2>1 DEF Lasting
  <2>3. d.chan.exp <= at
    BY <1>3, <1>4, <2>2 DEF Long
  <2>4. e.chan.exp # Never
    BY <1>4, <1>5, Numbers
  <2> QED BY <1>5, <2>1, <2>3, <2>4, Zenon
<1>7. e.list.exp \in {e.chan.exp, Never} /\ (e.list.ids = <<>> => e.list.exp = Never)
  BY <1>5, Zenon
<1>8. Lasting(e)
  BY <1>1, <1>2, <1>5, <1>6, <1>7, StaysLasting, Zenon
<1>9. Same(d, e, {"chan", "list", "counts", "msgs", "wiped", "deleted"})
  BY Zenon DEF Renewed, Same
<1>10. e.wiped \in BOOLEAN /\ e.deleted \in BOOLEAN
  BY <1>1, <1>2, Zenon DEF RestOK
<1>11. Cut(d.list.ids, e.list.ids)
  BY <1>5, Zenon DEF Cut
<1> QED BY <1>2, <1>5, <1>8, <1>9, <1>10, <1>11, ScriptInv, Zenon

(* add_fakesub changes the count of the worker w by num, and creates the channel for a subscriber that comes. *)
Faked(d, e, w, num) ==
    /\ Same(d, e, {"chan", "counts"}) /\ KeysOK(e) /\ e.chan.cur = d.chan.cur
    /\ d.chan.on => e.chan.on /\ e.chan.exp = d.chan.exp /\ e.chan.subs = d.chan.subs
    /\ ~d.chan.on => e.chan.subs = 0 /\ e.chan.exp \in {Never, d.now + 5}
    /\ DOMAIN e.counts.of = DOMAIN d.counts.of \cup {w}
    /\ \A v \in DOMAIN e.counts.of :
           e.counts.of[v] = IF v = w THEN (IF w \in DOMAIN d.counts.of THEN d.counts.of[w] ELSE 0) + num
                            ELSE d.counts.of[v]

(* What it does to the channel. *)
LEMMA FakeChannel ==
    ASSUME NEW d, KeysOK(d), NEW num \in Int, NEW a, a = fake_channel(d, num)
    PROVE  /\ Same(d, a, {"chan"}) /\ KeysOK(a) /\ a.chan.cur = d.chan.cur
           /\ d.chan.on => a.chan.on /\ a.chan.exp = d.chan.exp /\ a.chan.subs = d.chan.subs
           /\ ~d.chan.on => a.chan.subs = 0 /\ a.chan.exp \in {Never, d.now + 5}
<1>1. CASE d.chan.on \/ num > 0
  <2>1. PICK t : t = touch_channel(d)
    BY Zenon
  <2>2. /\ Same(d, t, {"chan"}) /\ KeysOK(t)
        /\ t.chan = IF d.chan.on THEN d.chan ELSE BareChannel(TRUE)
    BY <2>1, TouchParts, Zenon
  <2>3. PICK h : h = t.chan
    BY Zenon
  <2>4. /\ h \in Channel /\ h.on /\ h.cur = d.chan.cur /\ (d.chan.on => h = d.chan)
        /\ ~d.chan.on => h.subs = 0
    BY <2>2, <2>3, BareTyped, Zenon DEF KeysOK, ChanOK
  <2>5. PICK f : f = (IF h.fake = Nil THEN 0 ELSE h.fake) + num
    BY Zenon
  <2>6. PICK x : x = IF d.chan.on THEN h.exp ELSE d.now + 5
    BY Zenon
  <2>7. PICK c : c = [h EXCEPT !.fake = f, !.exp = x]
    BY Zenon
  <2>8. a = [t EXCEPT !.chan = c]
    BY <1>1, <2>1, <2>3, <2>5, <2>6, <2>7, Zenon DEF fake_channel
  <2>9. f \in Int /\ x \in Times
    <3>1. h.fake \in Int /\ h.exp \in Times
      BY <2>4, Zenon DEF Channel
    <3>2. d.now + 5 \in Times
      BY Numbers DEF KeysOK, Times
    <3> QED BY <2>5, <2>6, <3>1, <3>2
  <2>10. c \in Channel /\ c.on /\ c.cur = h.cur /\ c.subs = h.subs /\ c.exp = x
    BY <2>4, <2>7, <2>9, Zenon DEF Channel
  <2>11. Same(t, a, {"chan"}) /\ a.chan = c
    BY <2>2, <2>8, Zenon DEF KeysOK, Same, RsFields
  <2>12. /\ DOMAIN a = RsFields /\ a.now = t.now /\ a.list = t.list /\ a.msgs = t.msgs
         /\ a.counts = t.counts
    BY <2>11, Zenon DEF Same, RsFields
  <2>13. KeysOK(a)
    BY <2>2, <2>10, <2>11, <2>12, Zenon DEF KeysOK, ChanOK, MsgsOK, CountsOK
  <2>14. Same(d, a, {"chan"})
    BY <2>2, <2>11, Zenon DEF Same
  <2> QED BY <2>4, <2>6, <2>10, <2>11, <2>13, <2>14, Zenon
<1>2. CASE ~(d.chan.on \/ num > 0)
  <2>1. a = d
    BY <1>2, Zenon DEF fake_channel
  <2>2. Same(d, a, {"chan"})
    BY <2>1, Zenon DEF KeysOK, Same
  <2>3. d.chan.subs = 0 /\ d.chan.exp = Never
    BY <1>2 DEF KeysOK, ChanOK, NoChannel, BareChannel
  <2> QED BY <1>2, <2>1, <2>2, <2>3, Zenon
<1> QED BY <1>1, <1>2, Zenon

(* What it does to the counts as well. *)
LEMMA FakeParts ==
    ASSUME NEW d, KeysOK(d), NEW w \in RsWorkers, NEW num \in Int, NEW e, e = add_fakesub(d, w, num)
    PROVE  Faked(d, e, w, num)
<1>1. PICK a : a = fake_channel(d, num)
  BY Zenon
<1>2. /\ Same(d, a, {"chan"}) /\ KeysOK(a) /\ a.chan.cur = d.chan.cur
      /\ d.chan.on => a.chan.on /\ a.chan.exp = d.chan.exp /\ a.chan.subs = d.chan.subs
      /\ ~d.chan.on => a.chan.subs = 0 /\ a.chan.exp \in {Never, d.now + 5}
  BY <1>1, FakeChannel
<1>3. a.counts = d.counts
  BY <1>2, Zenon DEF Same, RsFields
<1>4. PICK n : n = (IF w \in DOMAIN a.counts.of THEN a.counts.of[w] ELSE 0) + num
  BY Zenon
<1>5. PICK of : of = hset(a.counts.of, w, n)
  BY Zenon
<1>6. PICK b : b = set_counts(a, of)
  BY Zenon
<1>7. e = IF b.counts.exp # Never THEN b
          ELSE [b EXCEPT !.counts.exp = b.now + (IF channel_ttl(b) > 0 THEN channel_ttl(b) ELSE 1)]
  BY <1>1, <1>4, <1>5, <1>6, Zenon DEF add_fakesub
<1>8. n \in Int /\ DOMAIN a.counts.of \subseteq RsWorkers /\ \A v \in DOMAIN a.counts.of : a.counts.of[v] \in Int
  BY <1>2, <1>4 DEF KeysOK, CountsOK
<1>9. /\ of \in [DOMAIN of -> Int] /\ DOMAIN of = DOMAIN a.counts.of \cup {w}
      /\ \A v \in DOMAIN of : of[v] = IF v = w THEN n ELSE a.counts.of[v]
  BY <1>5, <1>8, Zenon DEF hset
<1>10. DOMAIN of \subseteq RsWorkers
  BY <1>8, <1>9, Zenon
<1>11. /\ Same(a, b, {"counts"}) /\ KeysOK(b)
       /\ DOMAIN b.counts.of = DOMAIN of /\ \A v \in DOMAIN of : b.counts.of[v] = of[v]
  BY <1>2, <1>6, <1>9, <1>10, SetCountsParts
<1>12. b.chan = a.chan
  BY <1>11, Zenon DEF Same, RsFields
<1>13. Same(b, e, {"counts"}) /\ KeysOK(e) /\ e.counts.of = b.counts.of
  <2>1. CASE b.counts.exp # Never
    BY <1>7, <1>11, <2>1, Zenon DEF KeysOK, Same
  <2>2. CASE b.counts.exp = Never
    <3>1. PICK x : x = b.now + (IF channel_ttl(b) > 0 THEN channel_ttl(b) ELSE 1)
      BY Zenon
    <3>2. PICK c : c = [b.counts EXCEPT !.exp = x]
      BY Zenon
    <3>3. e = [b EXCEPT !.counts = c]
      BY <1>7, <2>2, <3>1, <3>2, Zenon
    <3>4. x \in Times
      <4>1. b.now \in Nat /\ b.now <= MaxClock /\ b.chan.exp \in Nat /\ b.chan.exp <= Never
        BY <1>11, ExpTime, Numbers DEF KeysOK
      <4>2. CASE b.chan.on /\ b.chan.exp # Never
        BY <3>1, <4>1, <4>2, Numbers DEF channel_ttl, ttl_of, Times
      <4>3. CASE ~(b.chan.on /\ b.chan.exp # Never)
        BY <3>1, <4>1, <4>3, Numbers DEF channel_ttl, ttl_of, Times
      <4> QED BY <4>2, <4>3, Zenon
    <3>5. DOMAIN c = {"of", "exp"} /\ c.exp = x /\ c.of = b.counts.of
      BY <1>11, <3>2, Zenon DEF KeysOK, CountsOK
    <3>6. Same(b, e, {"counts"}) /\ e.counts = c
      BY <1>11, <3>3, Zenon DEF KeysOK, Same, RsFields
    <3>7. /\ DOMAIN e = RsFields /\ e.now = b.now /\ e.list = b.list /\ e.msgs = b.msgs
          /\ e.chan = b.chan
      BY <3>6, Zenon DEF Same, RsFields
    <3>8. KeysOK(e)
      BY <1>11, <3>4, <3>5, <3>6, <3>7, Zenon DEF KeysOK, ChanOK, MsgsOK, CountsOK
    <3> QED BY <3>5, <3>6, <3>8, Zenon
  <2> QED BY <2>1, <2>2, Zenon
<1>14. e.chan = a.chan
  BY <1>12, <1>13, Zenon DEF Same, RsFields
<1>15. Same(d, e, {"chan", "counts"})
  BY <1>2, <1>11, <1>13, Zenon DEF Same
<1>16. /\ DOMAIN e.counts.of = DOMAIN d.counts.of \cup {w}
       /\ \A v \in DOMAIN e.counts.of :
              e.counts.of[v] = IF v = w THEN (IF w \in DOMAIN d.counts.of THEN d.counts.of[w] ELSE 0) + num
                               ELSE d.counts.of[v]
  BY <1>3, <1>4, <1>9, <1>11, <1>13, Zenon
<1> QED BY <1>2, <1>13, <1>14, <1>15, <1>16, Zenon DEF Faked

(* What the workers hold may change as long as the counts do not exceed it. *)
LEMMA WorkersInv ==
    ASSUME NEW d, RsInv(d), NEW e,
           Same(d, e, {"left", "up", "real", "evict", "reg", "delta", "dropped", "renewer", "astray"}),
           e.up \in [RsWorkers -> BOOLEAN], e.real \in [RsWorkers -> Nat], e.reg \in [RsWorkers -> Registration],
           e.delta \in [RsWorkers -> Int], e.dropped \in [RsWorkers -> Nat], Counted(e)
    PROVE  RsInv(e)
<1>1. /\ DOMAIN e = RsFields /\ e.conf = d.conf /\ e.now = d.now /\ e.back = d.back /\ e.chan = d.chan
      /\ e.list = d.list /\ e.counts = d.counts /\ e.msgs = d.msgs /\ e.reader = d.reader /\ e.log = d.log
      /\ e.reused = d.reused /\ e.wiped = d.wiped /\ e.deleted = d.deleted
      /\ e.refused = d.refused /\ e.skipped = d.skipped /\ e.idle = d.idle
  BY Zenon DEF Same, RsFields
<1>2. KeysOK(e)
  BY <1>1, Zenon DEF RsInv, KeysOK, ChanOK, MsgsOK, CountsOK
<1>3. RestOK(e)
  BY <1>1, Zenon DEF RsInv, RestOK
<1>4. Lasting(e) /\ Linked(e) /\ Fresh(e)
  BY <1>1 DEF RsInv, Lasting, Linked, Fresh
<1> QED BY <1>1, <1>2, <1>3, <1>4, Zenon DEF RsInv

(* The changes a worker tells of are those it has not told of. *)
LEMMA FakeInv ==
    ASSUME NEW d, RsInv(d), NEW w \in RsWorkers, NEW x, Faked(d, x, w, d.delta[w]),
           NEW e, Same(x, e, {"delta"}), e.delta = [d.delta EXCEPT ![w] = 0]
    PROVE  RsInv(e)
<1>1. KeysOK(d) /\ Lasting(d) /\ RestOK(d) /\ Linked(d) /\ Fresh(d) /\ Counted(d)
  BY Zenon DEF RsInv
<1>2. /\ Same(d, x, {"chan", "counts"}) /\ KeysOK(x) /\ x.chan.cur = d.chan.cur
      /\ d.chan.on => x.chan.on /\ x.chan.exp = d.chan.exp
  BY Zenon DEF Faked
<1>3. /\ DOMAIN e = RsFields /\ e.now = x.now /\ e.list = x.list /\ e.msgs = x.msgs
      /\ e.chan = x.chan /\ e.counts = x.counts
  BY Zenon DEF Same, RsFields
<1>4. KeysOK(e)
  BY <1>2, <1>3, Zenon DEF KeysOK, ChanOK, MsgsOK, CountsOK
<1>5. Same(d, e, {"chan", "counts", "delta"})
  BY <1>2, Zenon DEF Same
<1>6. /\ e.conf = d.conf /\ e.now = d.now /\ e.back = d.back /\ e.up = d.up /\ e.reg = d.reg /\ e.list = d.list
      /\ e.msgs = d.msgs /\ e.reader = d.reader /\ e.log = d.log /\ e.reused = d.reused /\ e.wiped = d.wiped
      /\ e.deleted = d.deleted /\ e.refused = d.refused /\ e.skipped = d.skipped /\ e.idle = d.idle
      /\ e.real = d.real /\ e.dropped = d.dropped
  BY <1>5, Zenon DEF Same, RsFields
<1>7. /\ d.real \in [RsWorkers -> Nat] /\ d.dropped \in [RsWorkers -> Nat] /\ d.delta \in [RsWorkers -> Int]
      /\ e.delta \in [RsWorkers -> Int] /\ e.delta[w] = 0 /\ \A v \in RsWorkers \ {w} : e.delta[v] = d.delta[v]
  <2>1. d.real \in [RsWorkers -> Nat] /\ d.dropped \in [RsWorkers -> Nat] /\ d.delta \in [RsWorkers -> Int]
    BY <1>1, Zenon DEF RestOK
  <2> QED BY <2>1
<1>8. RestOK(e)
  BY <1>1, <1>6, <1>7, Zenon DEF RestOK
<1>9. Lasting(e)
  <2>1. d.chan.exp \in Int
    BY <1>1, ExpTime, SMTT(30)
  <2>2. CASE d.chan.on
    BY <1>1, <1>2, <1>3, <1>6, <2>1, <2>2 DEF Lasting
  <2>3. CASE ~d.chan.on
    <3>1. d.chan.exp = Never
      BY <1>1, <2>3, BareTyped, Zenon DEF KeysOK, ChanOK
    <3> QED BY <1>1, <1>6, <2>3, <3>1, Zenon DEF Lasting
  <2> QED BY <2>2, <2>3, Zenon
<1>10. Linked(e) /\ Fresh(e)
  BY <1>1, <1>2, <1>3, <1>6 DEF Linked, Fresh
<1>11. ~e.reused => Ordered(e.list.ids, e.log)
  BY <1>6, ZenonT(30) DEF RsInv
<1>12. ASSUME NEW v \in RsWorkers
       PROVE  /\ e.delta[v] <= e.real[v]
              /\ e.up[v] /\ v \in DOMAIN e.counts.of => e.counts.of[v] + e.delta[v] <= e.real[v] + e.dropped[v]
  <2>1. \A u \in DOMAIN d.counts.of : d.counts.of[u] \in Int
    BY <1>1, Zenon DEF KeysOK, CountsOK
  <2>2. PICK real, delta, dropped : real = d.real[v] /\ delta = d.delta[v] /\ dropped = d.dropped[v]
    BY Zenon
  <2>3. real \in Nat /\ delta \in Int /\ dropped \in Nat /\ delta <= real
    BY <1>1, <1>7, <2>2 DEF Counted
  <2>4. d.up[v] /\ v \in DOMAIN d.counts.of => d.counts.of[v] + delta <= real + dropped
    BY <1>1, <2>2, Zenon DEF Counted
  <2>5. v \in DOMAIN e.counts.of <=> v \in DOMAIN d.counts.of \/ v = w
    BY <1>3, Zenon DEF Faked
  <2>6. v \in DOMAIN e.counts.of =>
            e.counts.of[v] = IF v = w THEN (IF w \in DOMAIN d.counts.of THEN d.counts.of[w] ELSE 0) + d.delta[w]
                             ELSE d.counts.of[v]
    BY <1>3, Zenon DEF Faked
  <2>7. CASE v = w
    <3>1. e.delta[v] = 0 /\ e.real[v] = real /\ e.dropped[v] = dropped /\ e.up[v] = d.up[v]
      BY <1>6, <1>7, <2>2, <2>7, Zenon
    <3>2. PICK c : c = IF w \in DOMAIN d.counts.of THEN d.counts.of[w] ELSE 0
      BY Zenon
    <3>3. c \in Int /\ (d.up[v] => c + delta <= real + dropped)
      BY <2>1, <2>3, <2>4, <2>7, <3>2
    <3>4. e.counts.of[v] = c + delta
      BY <2>2, <2>5, <2>6, <2>7, <3>2, Zenon
    <3> QED BY <2>3, <3>1, <3>3, <3>4
  <2>8. CASE v # w
    <3>1. e.delta[v] = delta /\ e.real[v] = real /\ e.dropped[v] = dropped /\ e.up[v] = d.up[v]
      BY <1>6, <1>7, <2>2, <2>8, Zenon
    <3>2. v \in DOMAIN e.counts.of => v \in DOMAIN d.counts.of /\ e.counts.of[v] = d.counts.of[v]
      BY <2>5, <2>6, <2>8, Zenon
    <3> QED BY <2>3, <2>4, <3>1, <3>2, Zenon
  <2> QED BY <2>7, <2>8, Zenon
<1>13. Counted(e)
  BY <1>12, Zenon DEF Counted
<1> QED BY <1>4, <1>6, <1>8, <1>9, <1>10, <1>11, <1>13, Zenon DEF RsInv

(* expired takes away the keys whose time has come. *)
LEMMA ExpiredParts ==
    ASSUME NEW d, KeysOK(d), NEW e, e = expired(d)
    PROVE  /\ Same(d, e, {"chan", "list", "counts", "msgs"}) /\ KeysOK(e)
           /\ e.chan = IF d.chan.exp <= d.now THEN NoChannel ELSE d.chan
           /\ e.list = IF d.list.exp <= d.now THEN NoList ELSE d.list
           /\ e.counts = IF d.counts.exp <= d.now THEN NoCounts ELSE d.counts
           /\ \A i \in DOMAIN d.msgs : i \in DOMAIN e.msgs <=> d.msgs[i].exp > d.now
           /\ DOMAIN e.msgs \subseteq DOMAIN d.msgs /\ \A i \in DOMAIN e.msgs : e.msgs[i] = d.msgs[i]
<1>1. PICK h, l, k : /\ h = IF d.chan.exp <= d.now THEN NoChannel ELSE d.chan
                     /\ l = IF d.list.exp <= d.now THEN NoList ELSE d.list
                     /\ k = IF d.counts.exp <= d.now THEN NoCounts ELSE d.counts
  BY Zenon
<1>2. PICK a : a = IF d.chan.exp <= d.now THEN [d EXCEPT !.chan = NoChannel] ELSE d
  BY Zenon
<1>3. PICK b : b = IF a.list.exp <= a.now THEN [a EXCEPT !.list = NoList] ELSE a
  BY Zenon
<1>4. PICK c : c = IF b.counts.exp <= b.now THEN [b EXCEPT !.counts = NoCounts] ELSE b
  BY Zenon
<1>5. PICK gone : gone = {i \in DOMAIN c.msgs : c.msgs[i].exp <= c.now}
  BY Zenon
<1>6. e = del_messages(c, gone)
  BY <1>2, <1>3, <1>4, <1>5, Zenon DEF expired
<1>7. Same(d, a, {"chan"}) /\ a.chan = h
  BY <1>1, <1>2, Zenon DEF KeysOK, Same, RsFields
<1>8. a.now = d.now /\ a.list = d.list /\ a.counts = d.counts /\ DOMAIN a = RsFields
  BY <1>7, Zenon DEF Same, RsFields
<1>9. Same(a, b, {"list"}) /\ b.list = l
  BY <1>1, <1>3, <1>8, Zenon DEF Same, RsFields
<1>10. b.now = d.now /\ b.chan = h /\ b.counts = d.counts /\ DOMAIN b = RsFields
  BY <1>7, <1>8, <1>9, Zenon DEF Same, RsFields
<1>11. Same(b, c, {"counts"}) /\ c.counts = k
  BY <1>1, <1>4, <1>10, Zenon DEF Same, RsFields
<1>12. Same(d, c, {"chan", "list", "counts"})
  BY <1>7, <1>9, <1>11, Zenon DEF Same
<1>13. /\ DOMAIN c = RsFields /\ c.now = d.now /\ c.msgs = d.msgs
       /\ c.chan = h /\ c.list = l /\ c.counts = k
  <2>1. DOMAIN c = RsFields /\ c.now = d.now /\ c.msgs = d.msgs
    BY <1>12, Zenon DEF Same, RsFields
  <2>2. c.chan = b.chan /\ c.list = b.list
    BY <1>11, Zenon DEF Same, RsFields
  <2> QED BY <1>9, <1>10, <1>11, <2>1, <2>2, Zenon
<1>14. KeysOK(c)
  <2>1. ChanOK(c)
    BY <1>1, <1>13, BareTyped, Zenon DEF KeysOK, ChanOK
  <2>2. l \in IdList
    BY <1>1, Numbers DEF KeysOK, IdList, NoList, Times
  <2>3. CountsOK(c)
    <3>1. CASE k = NoCounts
      BY <1>13, <3>1, Numbers DEF CountsOK, NoCounts, Times
    <3>2. CASE k = d.counts
      BY <1>13, <3>2, Zenon DEF KeysOK, CountsOK
    <3> QED BY <1>1, <3>1, <3>2, Zenon
  <2> QED BY <1>13, <2>1, <2>2, <2>3, Zenon DEF KeysOK, MsgsOK
<1>15. /\ Same(c, e, {"msgs"}) /\ KeysOK(e)
       /\ DOMAIN e.msgs = DOMAIN c.msgs \ gone /\ \A i \in DOMAIN e.msgs : e.msgs[i] = c.msgs[i]
  BY <1>6, <1>14, DelMessagesParts
<1>16. e.chan = h /\ e.list = l /\ e.counts = k
  BY <1>13, <1>15, Zenon DEF Same, RsFields
<1>17. Same(d, e, {"chan", "list", "counts", "msgs"})
  BY <1>12, <1>15, Zenon DEF Same
<1>18. d.now \in Nat /\ \A i \in DOMAIN d.msgs : d.msgs[i].exp \in Nat
  BY Numbers DEF KeysOK, MsgsOK, Message, Times
<1>19. \A i \in DOMAIN d.msgs : i \in DOMAIN e.msgs <=> d.msgs[i].exp > d.now
  BY <1>5, <1>13, <1>15, <1>18
<1> QED BY <1>1, <1>13, <1>15, <1>16, <1>17, <1>19, Zenon

(* The clock and the expiry of keys keep the invariant: a channel does not go before its buffered messages. *)
LEMMA TickInv ==
    ASSUME NEW d, RsInv(d), d.now < MaxClock, NEW x, Same(d, x, {"now", "wiped"}), x.now = d.now + 1, x.wiped = FALSE,
           NEW e, e = expired(x)
    PROVE  RsInv(e)
<1>1. KeysOK(d) /\ Lasting(d) /\ RestOK(d) /\ Linked(d) /\ Fresh(d) /\ Counted(d) /\ DOMAIN d = RsFields
  BY Zenon DEF RsInv, KeysOK
<1>2. PICK now : now = d.now + 1
  BY Zenon
<1>3. now \in 2..MaxClock /\ d.now \in Nat /\ d.now < now
  BY <1>1, <1>2, Numbers DEF KeysOK
<1>5. Same(d, x, {"now", "wiped"}) /\ x.now = now /\ x.wiped = FALSE
  BY <1>2, Zenon
<1>6. /\ DOMAIN x = RsFields /\ x.chan = d.chan /\ x.list = d.list /\ x.msgs = d.msgs
      /\ x.counts = d.counts
  BY <1>5, Zenon DEF Same, RsFields
<1>7. KeysOK(x)
  BY <1>1, <1>3, <1>5, <1>6, Zenon DEF KeysOK, ChanOK, MsgsOK, CountsOK
<1>8. /\ Same(x, e, {"chan", "list", "counts", "msgs"}) /\ KeysOK(e)
      /\ e.chan = (IF x.chan.exp <= x.now THEN NoChannel ELSE x.chan)
      /\ e.list = (IF x.list.exp <= x.now THEN NoList ELSE x.list)
      /\ e.counts = (IF x.counts.exp <= x.now THEN NoCounts ELSE x.counts)
      /\ \A i \in DOMAIN x.msgs : i \in DOMAIN e.msgs <=> x.msgs[i].exp > x.now
      /\ DOMAIN e.msgs \subseteq DOMAIN x.msgs /\ \A i \in DOMAIN e.msgs : e.msgs[i] = x.msgs[i]
  BY <1>7, ExpiredParts
<1>9. Same(d, e, {"now", "wiped", "chan", "list", "counts", "msgs"})
  BY <1>5, <1>8, Zenon DEF Same
<1>10. /\ e.conf = d.conf /\ e.back = d.back /\ e.up = d.up /\ e.real = d.real
       /\ e.delta = d.delta /\ e.dropped = d.dropped /\ e.reg = d.reg
       /\ e.reader = d.reader /\ e.log = d.log /\ e.reused = d.reused /\ e.deleted = d.deleted
       /\ e.refused = d.refused /\ e.skipped = d.skipped /\ e.idle = d.idle
  BY <1>9, Zenon DEF Same, RsFields
<1>11. e.now = now /\ e.wiped = FALSE
  BY <1>5, <1>8, Zenon DEF Same, RsFields
<1>12. RestOK(e)
  BY <1>1, <1>10, <1>11, Zenon DEF RestOK
<1>13. d.chan.exp \in Nat /\ d.list.exp \in Nat /\ Never \in Nat /\ now < Never /\ now \in Nat
  <2>1. d.chan.exp \in Nat /\ d.list.exp \in Nat
    BY <1>1, ExpTime DEF KeysOK, IdList, Times
  <2> QED BY <1>3, <2>1, Numbers, SMTT(30)
<1>14. Lasting(e)
  <2>1. ASSUME NEW i \in DOMAIN e.msgs, ~e.msgs[i].unbuffered
        PROVE  /\ \E k \in 1..Len(e.list.ids) : e.list.ids[k] = i
               /\ e.chan.on /\ e.chan.cur # NoId /\ e.chan.exp # Never
               /\ e.msgs[i].exp < e.chan.exp
    <3>1. i \in DOMAIN d.msgs /\ e.msgs[i] = d.msgs[i] /\ d.msgs[i].exp > now
      BY <1>5, <1>6, <1>8, <2>1, Zenon
    <3>2. /\ \E k \in 1..Len(d.list.ids) : d.list.ids[k] = i
          /\ d.chan.on /\ d.chan.cur # NoId /\ d.chan.exp # Never
          /\ d.msgs[i].exp < d.chan.exp
      BY <1>1, <2>1, <3>1, Zenon DEF Lasting
    <3>3. d.msgs[i].exp \in Nat
      BY <1>1, <3>1 DEF KeysOK, MsgsOK, Message, Times
    <3>4. e.chan = d.chan
      BY <1>5, <1>6, <1>8, <1>13, <3>1, <3>2, <3>3, SMTT(30)
    <3>5. e.list = d.list
      <4>1. d.list.exp = d.chan.exp \/ d.list.exp = Never
        BY <1>1, Zenon DEF Lasting
      <4> QED BY <1>5, <1>6, <1>8, <1>13, <3>1, <3>2, <3>3, <4>1
    <3> QED BY <3>1, <3>2, <3>4, <3>5, Zenon
  <2>2. e.list.exp \in {e.chan.exp, Never} /\ (e.list.ids = <<>> => e.list.exp = Never)
    <3>1. (d.list.exp = d.chan.exp \/ d.list.exp = Never) /\ (d.list.ids = <<>> => d.list.exp = Never)
      BY <1>1, Zenon DEF Lasting
    <3>2. CASE d.list.exp <= now
      BY <1>5, <1>6, <1>8, <3>2 DEF NoList
    <3>3. CASE ~(d.list.exp <= now)
      BY <1>5, <1>6, <1>8, <1>13, <3>1, <3>3, Zenon
    <3> QED BY <3>2, <3>3, Zenon
  <2> QED BY <2>1, <2>2, Zenon DEF Lasting
<1>15. e.chan.cur \in {d.chan.cur, NoId}
  BY <1>6, <1>8, BareTyped, Zenon
<1>16. Cut(d.list.ids, e.list.ids)
  <2>1. CASE e.list = NoList
    BY <2>1 DEF NoList, Cut
  <2>2. CASE e.list = d.list
    BY <2>2, Zenon DEF Cut
  <2> QED BY <1>6, <1>8, <2>1, <2>2, Zenon
<1>17. DOMAIN e.msgs \subseteq DOMAIN d.msgs /\ \A i \in DOMAIN e.msgs : e.msgs[i] = d.msgs[i]
  BY <1>6, <1>8, Zenon
<1>18. e.reader.id # NoId => e.reader.n \in 1..Len(d.log) /\ d.log[e.reader.n] = e.reader.id
  BY <1>1, <1>10, Zenon DEF Linked
<1>19. Linked(e) /\ (~e.reused => Ordered(e.list.ids, e.log))
  BY <1>10, <1>15, <1>16, <1>17, <1>18, Fewer, SMTT(30)
<1>20. Fresh(e)
  <2>1. SUFFICES ASSUME d.back = 0, NEW k \in 1..Len(d.log)
                 PROVE  d.log[k][1] <= now /\ d.log[k][1] # now
    BY <1>10, <1>11, Zenon DEF Fresh
  <2>2. d.log[k][1] <= d.now
    BY <1>1, <2>1, Zenon DEF Fresh
  <2>3. d.log[k][1] \in Nat
    BY <1>1, <2>1, SMTT(30) DEF RestOK, Ids
  <2> QED BY <1>3, <1>13, <2>2, <2>3
<1>21. Counted(e)
  <2>1. CASE e.counts = NoCounts
    <3>1. DOMAIN e.counts.of = {}
      BY <2>1 DEF NoCounts
    <3> QED BY <1>1, <1>10, <3>1, Zenon DEF Counted
  <2>2. CASE e.counts = d.counts
    BY <1>1, <1>10, <2>2, Zenon DEF Counted
  <2> QED BY <1>6, <1>8, <2>1, <2>2, Zenon
<1> QED BY <1>8, <1>10, <1>12, <1>14, <1>19, <1>20, <1>21, Zenon DEF RsInv

=============================================================================
