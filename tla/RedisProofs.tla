----------------------------- MODULE RedisProofs -----------------------------
(***************************************************************************)
(* Proofs about the scripts that keep a channel in Redis (RedisScripts),   *)
(* for any set of workers, any timeouts and buffer lengths and any number  *)
(* of calls, from what RedisScriptProofs says of each script.              *)
(***************************************************************************)
EXTENDS RedisScriptProofs

(* The oldest message is older than every other buffered one, and there is one when there is a buffered one. *)
LEMMA OldestFirst ==
    ASSUME CountingFacts, NEW d, RsInv(d), NEW i, i = oldest_id(d)
    PROVE  /\ i # NoId => i \in DOMAIN d.msgs
           /\ \A j \in DOMAIN d.msgs : ~d.msgs[j].unbuffered =>
                  i # NoId /\ (~d.reused => d.msgs[i].n <= d.msgs[j].n)
<1>1. KeysOK(d) /\ Lasting(d) /\ Linked(d) /\ d.list.ids \in Seq(Ids) /\ d.log \in Seq(Ids)
  BY Zenon DEF RsInv, KeysOK, IdList, RestOK
<1>2. PICK x : x = oldestmsg(d)
  BY Zenon
<1>3. PICK old, new : old = d.list.ids /\ new = x.list.ids
  BY Zenon
<1>4. Kept(old, new, d.msgs) /\ (new # <<>> => new[Len(new)] \in DOMAIN d.msgs) /\ KeysOK(x)
  BY <1>1, <1>2, <1>3, OldestParts, Zenon
<1>5. i = IF new = <<>> THEN NoId ELSE new[Len(new)]
  BY <1>2, <1>3, Zenon DEF oldest_id
<1>6. new \in Seq(Ids) /\ old \in Seq(Ids)
  BY <1>1, <1>3, <1>4, Zenon DEF KeysOK, IdList
<1>7. Cut(old, new) /\ \A k \in 1..Len(old) : old[k] \in DOMAIN d.msgs => k \in 1..Len(new)
  BY <1>4, <1>6, KeptElem, Zenon
<1>8. ASSUME NEW j \in DOMAIN d.msgs, ~d.msgs[j].unbuffered
      PROVE  i # NoId /\ (~d.reused => d.msgs[i].n <= d.msgs[j].n)
  <2>1. PICK k \in 1..Len(old) : old[k] = j
    BY <1>1, <1>3, <1>8, Zenon DEF Lasting
  <2>2. k \in 1..Len(new) /\ new[k] = j
    BY <1>7, <1>8, <2>1, Zenon DEF Cut
  <2>3. Len(new) \in 1..Len(new) /\ new # <<>>
    BY <1>6, <2>2
  <2>4. i = new[Len(new)] /\ i \in DOMAIN d.msgs /\ i \in Ids
    BY <1>4, <1>5, <1>6, <2>3
  <2>5. Len(new) \in 1..Len(old) /\ old[Len(new)] = i
    BY <1>7, <2>3, <2>4, Zenon DEF Cut
  <2>6. PICK a, b : a = d.msgs[j].n /\ b = d.msgs[i].n
    BY Zenon
  <2>7. a \in 1..Len(d.log) /\ b \in 1..Len(d.log) /\ d.log[a] = j /\ d.log[b] = i
    BY <1>1, <1>8, <2>4, <2>6, Zenon DEF Linked, Placed
  <2>8. ASSUME ~d.reused
        PROVE  b <= a
    <3>1. Ordered(old, d.log)
      BY <1>3, <2>8, Zenon DEF RsInv
    <3>2. CASE k = Len(new)
      BY <2>1, <2>5, <2>6, <2>7, <3>2
    <3>3. CASE k # Len(new)
      <4>1. k < Len(new)
        BY <1>6, <2>2, <3>3
      <4>2. b < a
        BY <2>1, <2>5, <2>7, <3>1, <4>1, Zenon DEF Ordered
      <4> QED BY <1>1, <2>7, <4>2
    <3> QED BY <3>2, <3>3, Zenon
  <2> QED BY <2>4, <2>6, <2>8, NoIdIsNone, Zenon
<1> QED BY <1>4, <1>5, <1>8, Zenon

(* A message that names its follower and is the one the reader got last is followed by the next one. *)
LEMMA NextFollows ==
    ASSUME NEW d, RsInv(d), ~d.reused, d.reader.id # NoId, NEW i \in DOMAIN d.msgs, i = following(d, d.reader.id)
    PROVE  d.msgs[i].n = d.reader.n + 1
<1>1. KeysOK(d) /\ Linked(d) /\ d.log \in Seq(Ids) /\ Ordered(d.list.ids, d.log) /\ i # NoId
  BY NoIdIsNone, Zenon DEF RsInv, KeysOK, MsgsOK, RestOK
<1>2. PICK at, r, m : at = d.reader.id /\ r = d.reader.n /\ m = d.msgs[at]
  BY Zenon
<1>3. at \in DOMAIN d.msgs /\ m.next = i
  BY <1>1, <1>2, Zenon DEF following
<1>4. r \in 1..Len(d.log) /\ d.log[r] = at
  BY <1>1, <1>2, Zenon DEF Linked
<1>5. m.n \in 1..Len(d.log) /\ d.log[m.n] = at /\ m.n < Len(d.log) /\ i = d.log[m.n + 1]
  BY <1>1, <1>2, <1>3, Zenon DEF Linked, Placed
<1>6. r = m.n
  BY <1>1, <1>4, <1>5, Zenon DEF Ordered
<1>7. d.msgs[i].n \in 1..Len(d.log) /\ d.log[d.msgs[i].n] = i
  BY <1>1, Zenon DEF Linked, Placed
<1>8. r + 1 \in 1..Len(d.log) /\ d.log[r + 1] = i
  BY <1>1, <1>4, <1>5, <1>6
<1> QED BY <1>1, <1>2, <1>7, <1>8, Zenon DEF Ordered

(* No buffered message is later than the last one, nor is there one when the channel has none. *)
LEMMA NothingLater ==
    ASSUME NEW d, RsInv(d), ~d.reused, d.reader.id # NoId, d.chan.cur \in {d.reader.id, NoId},
           NEW i \in DOMAIN d.msgs, ~d.msgs[i].unbuffered
    PROVE  ~(d.msgs[i].n > d.reader.n)
<1>1. Lasting(d) /\ Linked(d) /\ d.log \in Seq(Ids) /\ Ordered(d.list.ids, d.log)
  BY Zenon DEF RsInv, RestOK
<1>2. d.chan.cur = d.reader.id
  BY <1>1, Zenon DEF Lasting
<1>3. PICK r, len : r = d.reader.n /\ len = Len(d.log)
  BY Zenon
<1>4. r \in 1..len /\ d.log[r] = d.reader.id /\ len > 0 /\ d.log[len] = d.reader.id /\ len \in Nat
  BY <1>1, <1>2, <1>3 DEF Linked
<1>5. len \in 1..len
  BY <1>4
<1>6. r = len
  BY <1>1, <1>3, <1>4, <1>5, Zenon DEF Ordered
<1>7. d.msgs[i].n \in 1..len
  BY <1>1, <1>3, Zenon DEF Linked, Placed
<1> QED BY <1>3, <1>4, <1>6, <1>7

(* Budgets are separate from everything else. *)
LEMMA SpendParts ==
    ASSUME NEW d, DOMAIN d = RsFields, NEW what, NEW e, e = spend(d, what)
    PROVE  Same(d, e, {"left"})
<1>1. PICK l : l = [d.left EXCEPT ![what] = d.left[what] - 1]
  BY Zenon
<1>2. e = [d EXCEPT !.left = l]
  BY <1>1, Zenon DEF spend
<1> QED BY <1>2, Zenon DEF Same, RsFields

(* The reader may be at any message of the history. *)
LEMMA ReaderFrame ==
    ASSUME NEW d, RsInv(d), NEW e, Same(d, e, {"left", "reader", "skipped", "idle"}),
           ~e.skipped, ~e.idle, e.reader \in [id : Ids \cup {NoId}, n : Nat],
           e.reader.id # NoId => e.reader.n \in 1..Len(d.log) /\ d.log[e.reader.n] = e.reader.id
    PROVE  RsInv(e)
<1>1. /\ DOMAIN e = RsFields /\ e.conf = d.conf /\ e.now = d.now /\ e.back = d.back /\ e.chan = d.chan
      /\ e.list = d.list /\ e.counts = d.counts /\ e.msgs = d.msgs /\ e.up = d.up /\ e.real = d.real
      /\ e.delta = d.delta /\ e.dropped = d.dropped
      /\ e.reg = d.reg /\ e.log = d.log /\ e.reused = d.reused /\ e.wiped = d.wiped
      /\ e.deleted = d.deleted /\ e.refused = d.refused
  BY Zenon DEF Same, RsFields
<1>2. KeysOK(e)
  BY <1>1, Zenon DEF RsInv, KeysOK, ChanOK, MsgsOK, CountsOK
<1>3. RestOK(e)
  BY <1>1, Zenon DEF RsInv, RestOK
<1>4. Lasting(e) /\ Counted(e) /\ Fresh(e)
  BY <1>1 DEF RsInv, Lasting, Counted, Fresh
<1>5. Linked(e)
  BY <1>1 DEF RsInv, Linked
<1> QED BY <1>1, <1>2, <1>3, <1>4, <1>5, Zenon DEF RsInv

(* Asking for a message keeps the invariant: no answer skips a message, or asks to wait while a later one lives. *)
LEMMA GetMessageInv ==
    ASSUME CountingFacts, RsInv(rs), rs_get_message
    PROVE  RsInv(rs')
<1>1. PICK at, got, d, later :
          /\ at = rs.reader /\ got = message_after(rs, at.id) /\ d = get_message_lua(rs, at.id)
          /\ later = {m \in Range(rs.msgs) : ~m.unbuffered /\ m.n > at.n}
  BY Zenon
<1>2. KeysOK(rs) /\ RestOK(rs) /\ Linked(rs) /\ DOMAIN rs = RsFields /\ ~rs.skipped /\ ~rs.idle
  BY Zenon DEF RsInv, KeysOK
<1>3. at.id \in Ids \cup {NoId} /\ at.n \in Nat /\ at \in [id : Ids \cup {NoId}, n : Nat]
  BY <1>1, <1>2, Zenon DEF RestOK
<1>4. RsInv(d) /\ Same(rs, d, {"list"})
  <2>1. CASE d = rs
    BY <1>2, <2>1, Zenon DEF Same
  <2>2. CASE d = oldestmsg(rs)
    BY <1>2, <2>2, OldestInv, OldestParts, Zenon
  <2> QED BY <1>1, <2>1, <2>2, Zenon DEF get_message_lua
<1>5. DOMAIN d = RsFields /\ d.log = rs.log /\ d.skipped = rs.skipped /\ d.idle = rs.idle /\ d.reader = rs.reader
  BY <1>4, Zenon DEF Same, RsFields
<1>6. \A m \in later : \E i \in DOMAIN rs.msgs : m = rs.msgs[i] /\ ~m.unbuffered /\ m.n > at.n
  BY <1>1, Zenon DEF Range
<1>7. PICK wanted : wanted = IF at.id = NoId THEN oldest_id(rs) ELSE following(rs, at.id)
  BY Zenon
<1>8. /\ got.code = 200 => got.id = wanted /\ wanted \in DOMAIN rs.msgs
      /\ got.code = 418 => IF at.id = NoId THEN wanted = NoId ELSE rs.chan.cur \in {at.id, NoId}
  BY <1>1, <1>7 DEF message_after
<1>9. CASE /\ got.code = 200
           /\ LET n == rs.msgs[got.id].n
              IN rs' = spend([d EXCEPT !.reader = [id |-> got.id, n |-> n],
                                       !.skipped = @ \/ (~rs.reused /\ IF at.id = NoId THEN \E m \in later : m.n < n
                                                                       ELSE n # at.n + 1)], "reads")
  <2>1. PICK n : n = rs.msgs[wanted].n
    BY Zenon
  <2>2. PICK to : to = [id |-> wanted, n |-> n]
    BY Zenon
  <2>3. PICK skips : skips = (IF at.id = NoId THEN \E m \in later : m.n < n ELSE n # at.n + 1)
    BY Zenon
  <2>4. PICK s : s = (d.skipped \/ (~rs.reused /\ skips))
    BY Zenon
  <2>5. PICK x : x = [d EXCEPT !.reader = to, !.skipped = s]
    BY Zenon
  <2>6. rs' = spend(x, "reads")
    BY <1>8, <1>9, <2>1, <2>2, <2>3, <2>4, <2>5, Zenon
  <2>7. Same(d, x, {"reader", "skipped"}) /\ x.reader = to /\ x.skipped = s
    BY <1>5, <2>5, Zenon DEF Same, RsFields
  <2>8. Same(x, rs', {"left"})
    BY <2>6, <2>7, SpendParts DEF Same
  <2>9. n \in 1..Len(rs.log) /\ rs.log[n] = wanted /\ wanted \in Ids
    BY <1>2, <1>8, <1>9, <2>1, Zenon DEF Linked, Placed, KeysOK, MsgsOK
  <2>10. ASSUME ~rs.reused, skips
         PROVE  FALSE
    <3>1. wanted \in DOMAIN rs.msgs
      BY <1>8, <1>9, Zenon
    <3>2. CASE at.id = NoId
      <4>1. PICK m \in later : m.n < n
        BY <2>3, <2>10, <3>2, Zenon
      <4>2. PICK i \in DOMAIN rs.msgs : m = rs.msgs[i] /\ ~m.unbuffered
        BY <1>6, Zenon
      <4>3. n <= rs.msgs[i].n
        BY <1>7, <2>1, <2>10, <3>2, <4>2, OldestFirst, Zenon
      <4>4. m.n \in Nat /\ n \in Nat
        BY <1>2, <2>9, <4>2 DEF KeysOK, MsgsOK, Message
      <4> QED BY <4>1, <4>2, <4>3, <4>4
    <3>3. CASE at.id # NoId
      <4>1. n = at.n + 1
        BY <1>1, <1>7, <2>1, <2>10, <3>1, <3>3, NextFollows, Zenon
      <4> QED BY <2>3, <2>10, <3>3, <4>1, Zenon
    <3> QED BY <3>2, <3>3, Zenon
  <2>11. ~s
    BY <1>2, <1>5, <2>4, <2>10, Zenon
  <2>12. Same(d, rs', {"left", "reader", "skipped", "idle"}) /\ rs'.reader = to /\ rs'.skipped = s /\ rs'.idle = d.idle
    BY <2>7, <2>8, Zenon DEF Same, RsFields
  <2>13. to \in [id : Ids \cup {NoId}, n : Nat] /\ to.id = wanted /\ to.n = n
    BY <2>2, <2>9
  <2> QED BY <1>2, <1>4, <1>5, <2>9, <2>11, <2>12, <2>13, ReaderFrame, Zenon
<1>10. CASE /\ got.code = 418
            /\ rs' = spend([d EXCEPT !.idle = @ \/ (~rs.reused /\ later # {})], "reads")
  <2>1. PICK s : s = (d.idle \/ (~rs.reused /\ later # {}))
    BY Zenon
  <2>2. PICK x : x = [d EXCEPT !.idle = s]
    BY Zenon
  <2>3. rs' = spend(x, "reads")
    BY <1>10, <2>1, <2>2, Zenon
  <2>4. Same(d, x, {"idle"}) /\ x.idle = s
    BY <1>5, <2>2, Zenon DEF Same, RsFields
  <2>5. Same(x, rs', {"left"})
    BY <2>3, <2>4, SpendParts DEF Same
  <2>6. ASSUME ~rs.reused, NEW m \in later
        PROVE  FALSE
    <3>1. PICK i \in DOMAIN rs.msgs : m = rs.msgs[i] /\ ~m.unbuffered /\ m.n > at.n
      BY <1>6, Zenon
    <3>2. CASE at.id = NoId
      <4>1. wanted = NoId /\ wanted = oldest_id(rs)
        BY <1>7, <1>8, <1>10, <3>2, Zenon
      <4> QED BY <3>1, <4>1, OldestFirst, Zenon
    <3>3. CASE at.id # NoId
      <4>1. rs.chan.cur \in {at.id, NoId}
        BY <1>8, <1>10, <3>3, Zenon
      <4> QED BY <1>1, <2>6, <3>1, <3>3, <4>1, NothingLater, Zenon
    <3> QED BY <3>2, <3>3, Zenon
  <2>7. ~s
    BY <1>2, <1>5, <2>1, <2>6, Zenon
  <2>8. /\ Same(d, rs', {"left", "reader", "skipped", "idle"}) /\ rs'.reader = rs.reader /\ rs'.skipped = d.skipped
        /\ rs'.idle = s
    BY <1>5, <2>4, <2>5, Zenon DEF Same, RsFields
  <2>9. at.id # NoId => at.n \in 1..Len(rs.log) /\ rs.log[at.n] = at.id
    BY <1>1, <1>2, Zenon DEF Linked
  <2> QED BY <1>1, <1>2, <1>3, <1>4, <1>5, <2>7, <2>8, <2>9, ReaderFrame, Zenon
<1>11. CASE rs' = spend([d EXCEPT !.reader = [id |-> NoId, n |-> 0]], "reads")
  <2>1. PICK to : to = [id |-> NoId, n |-> 0]
    BY Zenon
  <2>2. PICK x : x = [d EXCEPT !.reader = to]
    BY Zenon
  <2>3. rs' = spend(x, "reads")
    BY <1>11, <2>1, <2>2, Zenon
  <2>4. Same(d, x, {"reader"}) /\ x.reader = to
    BY <1>5, <2>2, Zenon DEF Same, RsFields
  <2>5. Same(x, rs', {"left"})
    BY <2>3, <2>4, SpendParts DEF Same
  <2>6. /\ Same(d, rs', {"left", "reader", "skipped", "idle"}) /\ rs'.reader = to /\ rs'.skipped = d.skipped
        /\ rs'.idle = d.idle
    BY <2>4, <2>5, Zenon DEF Same, RsFields
  <2>7. to \in [id : Ids \cup {NoId}, n : Nat] /\ to.id = NoId
    BY <2>1, Zenon
  <2> QED BY <1>2, <1>4, <1>5, <2>6, <2>7, ReaderFrame, Zenon
<1> QED BY <1>1, <1>9, <1>10, <1>11, Zenon DEF rs_get_message

(* A worker's head is written, and the ghosts about it. *)
HeadFields == {"left", "reg", "renewer", "astray"}
HeadOK(g) == g \in Registration /\ (g.interval = 0 \/ Fits(g.interval))
WritesHead(d, e, w, g) ==
    /\ Same(d, e, HeadFields) /\ HeadOK(g)
    /\ e.reg = [d.reg EXCEPT ![w] = g]

(* The next interval is positive, and at most the greatest one. *)
LEMMA BackoffFits ==
    ASSUME NEW interval \in Nat, NEW next \in nchan_set_next_backoff(interval)
    PROVE  Fits(next)
<1> DEFINE grown == IF interval = 0 \/ IdleTtl.multiplier = 0 THEN IdleTtl.min
                    ELSE (interval * (IdleTtl.multiplier + 100)) \div 100
           upto == AtMostMax(grown)
           jitter == (upto * IdleTtl.jitter) \div 100
<1>1. grown \in Int
  <2>1. PICK x : x = interval * (IdleTtl.multiplier + 100)
    BY Zenon
  <2>2. x \in Int
    BY <2>1, Numbers
  <2> QED BY <2>1, <2>2, Numbers
<1>2. ASSUME NEW x \in Int PROVE AtMostMax(x) \in Int /\ AtMostMax(x) <= IdleTtl.max
  BY <1>2, Numbers DEF AtMostMax
<1>3. ASSUME NEW x \in Int, x <= IdleTtl.max PROVE Fits(AtLeastOne(x))
  BY <1>3, Numbers DEF AtLeastOne, Fits
<1>4. upto \in Int /\ upto <= IdleTtl.max
  BY <1>1, <1>2, Zenon
<1> HIDE DEF grown, upto
<1>5. jitter \in Int
  <2>1. PICK x : x = upto * IdleTtl.jitter
    BY Zenon
  <2>2. x \in Int
    BY <1>4, <2>1, Numbers
  <2> QED BY <2>1, <2>2
<1>6. next \in IF jitter = 0 THEN {AtLeastOne(upto)}
               ELSE {AtLeastOne(AtMostMax(upto - jitter \div 2 + random)) : random \in 0..(jitter - 1)}
  BY Zenon DEF nchan_set_next_backoff, grown, upto
<1> HIDE DEF jitter
<1>7. CASE jitter = 0
  BY <1>3, <1>4, <1>6, <1>7, Zenon
<1>8. CASE jitter # 0
  <2>1. PICK random \in 0..(jitter - 1) : next = AtLeastOne(AtMostMax(upto - jitter \div 2 + random))
    BY <1>6, <1>8, Zenon
  <2>2. PICK x : x = upto - jitter \div 2 + random
    BY Zenon
  <2>3. x \in Int
    BY <1>4, <1>5, <2>2
  <2> QED BY <1>2, <1>3, <2>1, <2>2, <2>3, Zenon
<1> QED BY <1>7, <1>8, Zenon

(* What an answer with the time of the next keepalive means: the channel lives for longer than that. *)
Renews(d, r) ==
    /\ Fits(r.next) /\ d.now + r.next \in Nat /\ d.now + r.next < r.d.chan.exp
    /\ r.d.chan.on /\ r.d.chan.exp # Never /\ r.d.chan.exp <= d.now + FourYears + 1

(* A channel that lives for a while is to be renewed before it expires. *)
LEMMA LongTime ==
    ASSUME NEW d, KeysOK(d), Bounded(d), NEW ttl, Fits(ttl), d.chan.exp # Never, d.chan.exp >= d.now + ttl + SafetyMargin,
           NEW next, next = before(d.chan.exp - d.now)
    PROVE  Fits(next) /\ d.now + next \in Nat /\ d.now + next < d.chan.exp /\ d.chan.exp <= d.now + FourYears + 1
<1>1. d.now \in Nat /\ d.chan.exp \in Nat /\ ttl \in Nat \ {0} /\ d.chan.exp <= d.now + FourYears + 1
  BY ExpTime, Zenon DEF Bounded, Fits
<1>2. PICK t, exp, now : t = d.chan.exp - d.now /\ exp = d.chan.exp /\ now = d.now
  BY Zenon
<1>3. t \in Nat /\ t > SafetyMargin
  BY <1>1, <1>2, Numbers
<1>4. next = t - SafetyMargin
  BY <1>2, <1>3, Numbers DEF before
<1> QED BY <1>1, <1>2, <1>3, <1>4, Numbers DEF Fits

(* Registering renews. *)
LEMMA RegisterRenews ==
    ASSUME NEW d, KeysOK(d), Bounded(d), NEW ttl, Fits(ttl), NEW r, r = subscriber_register(d, ttl)
    PROVE  Renews(d, r)
<1>1. /\ r.d.chan.on
      /\ Short(d, ttl) => r.d.chan.exp = d.now + (ttl + SafetyMargin) /\ r.next = ttl
      /\ ~Short(d, ttl) => r.d.chan.exp = d.chan.exp /\ r.next = before(d.chan.exp - d.now)
  BY RegisterParts
<1>2. /\ ttl \in Nat /\ d.now \in Nat /\ d.chan.exp \in Nat /\ d.now + (ttl + SafetyMargin) < Never
  BY RenewTime, Zenon
<1>3. CASE Short(d, ttl)
  <2>1. d.now + ttl \in Nat /\ d.now + ttl < d.now + (ttl + SafetyMargin) /\ d.now + (ttl + SafetyMargin) # Never
        /\ d.now + (ttl + SafetyMargin) <= d.now + FourYears + 1
    BY <1>2, Numbers DEF Fits
  <2> QED BY <1>1, <1>3, <2>1, Zenon DEF Renews
<1>4. CASE ~Short(d, ttl)
  <2>1. d.chan.exp # Never /\ d.chan.exp >= d.now + ttl + SafetyMargin
    BY <1>2, <1>4, Numbers DEF Short
  <2> QED BY <1>1, <1>4, <2>1, LongTime, Zenon DEF Renews
<1> QED BY <1>3, <1>4, Zenon

(* So does a keepalive, unless the channel is gone or has no subscribers. *)
LEMMA KeepaliveRenews ==
    ASSUME NEW d, KeysOK(d), Bounded(d), NEW ttl, Fits(ttl), NEW r, r = channel_keepalive(d, ttl)
    PROVE  /\ r.next = -1 => r.d = d /\ (~d.chan.on \/ d.chan.subs <= 0)
           /\ r.next # -1 => Renews(d, r) /\ r.d.chan.subs = d.chan.subs
           /\ r.d = d \/ (~Long(d, ttl) /\ Renewed(d, r.d, ttl))
           /\ Same(d, r.d, {"chan", "list", "counts"})
<1>1. /\ ~d.chan.on \/ d.chan.subs <= 0 => r.d = d /\ r.next = -1
      /\ d.chan.on /\ d.chan.subs > 0 /\ Long(d, ttl) => r.d = d /\ r.next = before(d.chan.exp - d.now)
      /\ d.chan.on /\ d.chan.subs > 0 /\ ~Long(d, ttl) => Renewed(d, r.d, ttl) /\ r.next = ttl
  BY KeepaliveParts
<1>2. ttl \in Nat /\ d.now \in Nat /\ d.chan.exp \in Nat /\ d.now + (ttl + SafetyMargin) < Never /\ d.chan.subs \in Int
  BY RenewTime, Zenon DEF KeysOK, ChanOK, Channel
<1>3. DOMAIN d = RsFields
  BY Zenon DEF KeysOK
<1>4. CASE ~d.chan.on \/ d.chan.subs <= 0
  BY <1>1, <1>3, <1>4, Zenon DEF Same
<1>5. CASE d.chan.on /\ d.chan.subs > 0 /\ Long(d, ttl)
  <2>1. d.chan.exp # Never /\ d.chan.exp >= d.now + ttl + SafetyMargin
    BY <1>2, <1>5, Numbers DEF Long
  <2>2. Renews(d, r)
    BY <1>1, <1>5, <2>1, LongTime, Zenon DEF Renews
  <2>3. r.next # -1
    BY <2>2 DEF Renews, Fits
  <2> QED BY <1>1, <1>3, <1>5, <2>2, <2>3, Zenon DEF Same
<1>6. CASE d.chan.on /\ d.chan.subs > 0 /\ ~Long(d, ttl)
  <2>1. Renewed(d, r.d, ttl) /\ r.next = ttl
    BY <1>1, <1>6, Zenon
  <2>2. d.now + ttl \in Nat /\ d.now + ttl < d.now + (ttl + SafetyMargin) /\ d.now + (ttl + SafetyMargin) # Never
        /\ d.now + (ttl + SafetyMargin) <= d.now + FourYears + 1 /\ ttl # -1
    BY <1>2, Numbers DEF Fits
  <2> QED BY <1>6, <2>1, <2>2, Zenon DEF Renews, Renewed
<1>7. d.chan.subs <= 0 \/ d.chan.subs > 0
  BY <1>2
<1> QED BY <1>4, <1>5, <1>6, <1>7, Zenon

(* A lost command is noted, and the head written. *)
LEMMA LoseParts ==
    ASSUME NEW d, DOMAIN d = RsFields, d.reg \in [RsWorkers -> Registration], NEW w \in RsWorkers,
           NEW g, HeadOK(g)
    PROVE  /\ WritesHead(d, lose([d EXCEPT !.reg[w] = g]), w, g)
           /\ lose([d EXCEPT !.reg[w] = g]).renewer = d.renewer
           /\ lose([d EXCEPT !.reg[w] = g]).astray = TRUE
<1>0. PICK e : e = lose([d EXCEPT !.reg[w] = g])
  BY Zenon
<1>1. PICK r : r = [d.reg EXCEPT ![w] = g]
  BY Zenon
<1>2. PICK x : x = [d EXCEPT !.reg = r]
  BY Zenon
<1>3. PICK left : left = [x.left EXCEPT !["losses"] = x.left["losses"] - 1]
  BY Zenon
<1>4. e = [[x EXCEPT !.left = left] EXCEPT !.astray = TRUE]
  BY <1>0, <1>1, <1>2, <1>3, Zenon DEF lose, spend
<1>5. Same(d, e, HeadFields) /\ e.reg = r /\ e.renewer = d.renewer /\ e.astray = TRUE
  BY <1>2, <1>4, Zenon DEF Same, RsFields, HeadFields
<1>6. WritesHead(d, e, w, g)
  BY <1>1, <1>5, Zenon DEF WritesHead
<1> QED BY <1>0, <1>5, <1>6, Zenon

(* Budgets do not matter to it. *)
LEMMA SpendHead ==
    ASSUME NEW d, NEW y, NEW w, NEW g, WritesHead(d, y, w, g), NEW what, NEW e, e = spend(y, what)
    PROVE  WritesHead(d, e, w, g) /\ e.renewer = y.renewer /\ e.astray = y.astray
<1>0. DOMAIN y = RsFields
  BY Zenon DEF WritesHead, Same
<1>1. Same(y, e, {"left"})
  BY <1>0, SpendParts
<1>2. Same(d, e, HeadFields)
  BY <1>1, Zenon DEF WritesHead, Same, HeadFields
<1>3. e.reg = y.reg /\ e.renewer = y.renewer /\ e.astray = y.astray
  BY <1>1, Zenon DEF Same, RsFields
<1> QED BY <1>2, <1>3, Zenon DEF WritesHead

(* An answer sets the timer. *)
LEMMA TimerParts ==
    ASSUME NEW d, DOMAIN d = RsFields, d.reg \in [RsWorkers -> Registration], NEW w \in RsWorkers,
           NEW on \in BOOLEAN, NEW next, Fits(next), d.now + next \in Nat,
           NEW e, e = redis_update_channel_keepalive_timer(d, w, on, next)
    PROVE  \E g : /\ WritesHead(d, e, w, g) /\ g.on = on /\ g.due = d.now + next
                  /\ e.renewer = {w} /\ e.astray = d.astray
<1>1. PICK g : g = [on |-> on, due |-> d.now + next, interval |-> next]
  BY Zenon
<1>2. next \in Nat
  BY Zenon DEF Fits
<1>3. g \in Registration /\ g.on = on /\ g.due = d.now + next /\ Fits(g.interval)
  BY <1>1, <1>2, Zenon DEF Registration
<1>4. PICK r : r = [d.reg EXCEPT ![w] = g]
  BY Zenon
<1>5. e = [d EXCEPT !.reg = r, !.renewer = {w}]
  BY <1>1, <1>4, Zenon DEF redis_update_channel_keepalive_timer
<1>6. Same(d, e, HeadFields) /\ e.reg = r /\ e.renewer = {w} /\ e.astray = d.astray
  BY <1>5, Zenon DEF Same, RsFields, HeadFields
<1> QED BY <1>3, <1>4, <1>6, Zenon DEF WritesHead, HeadOK

(* What a registration does besides the script: an answer sets the timer, and a lost one is noted. *)
LEMMA RegisterShape ==
    ASSUME KeysOK(rs), RestOK(rs), Bounded(rs), NEW w \in RsWorkers, rs_register(w)
    PROVE  /\ rs.up[w] /\ ~rs.reg[w].on
           /\ \E ttl, r, g : /\ Fits(ttl) /\ r = subscriber_register(rs, ttl) /\ g.on
                             /\ \/ /\ WritesHead(r.d, rs', w, g) /\ g.due = rs.now + r.next
                                   /\ rs'.renewer = {w} /\ rs'.astray = rs.astray
                                \/ /\ WritesHead(rs, rs', w, g) \/ WritesHead(r.d, rs', w, g)
                                   /\ rs'.renewer = rs.renewer /\ rs'.astray = TRUE
<1>1. rs.up[w] /\ ~rs.reg[w].on
  BY Zenon DEF rs_register
<1> DEFINE intervals == IF rs.reg[w].interval = 0 THEN nchan_set_next_backoff(0) ELSE {rs.reg[w].interval}
<1>2. PICK ttl \in intervals :
          LET r == subscriber_register(rs, ttl)
          IN \/ rs' = spend(redis_update_channel_keepalive_timer(r.d, w, TRUE, r.next), "registers")
             \/ \E d \in {rs, r.d} :
                    rs' = spend(lose([d EXCEPT !.reg[w] = [rs.reg[w] EXCEPT !.on = TRUE, !.interval = ttl]]),
                                "registers")
  BY Zenon DEF rs_register
<1>3. Fits(ttl)
  <2>1. CASE rs.reg[w].interval = 0
    BY <1>2, <2>1, BackoffFits
  <2>2. CASE rs.reg[w].interval # 0
    BY <1>2, <2>2, Zenon DEF Bounded
  <2> QED BY <2>1, <2>2, Zenon
<1>4. PICK r : r = subscriber_register(rs, ttl)
  BY Zenon
<1>5. Same(rs, r.d, {"chan", "list", "counts"}) /\ Renews(rs, r)
  BY <1>3, <1>4, RegisterParts, RegisterRenews, Zenon
<1>6. rs.reg \in [RsWorkers -> Registration] /\ DOMAIN rs = RsFields
  BY Zenon DEF RestOK, KeysOK
<1>7. /\ DOMAIN r.d = RsFields /\ r.d.reg = rs.reg /\ r.d.now = rs.now /\ r.d.renewer = rs.renewer
      /\ r.d.astray = rs.astray
  BY <1>5, Zenon DEF Same, RsFields
<1>8. CASE rs' = spend(redis_update_channel_keepalive_timer(r.d, w, TRUE, r.next), "registers")
  <2>1. PICK y : y = redis_update_channel_keepalive_timer(r.d, w, TRUE, r.next)
    BY Zenon
  <2>2. PICK g : /\ WritesHead(r.d, y, w, g) /\ g.on = TRUE /\ g.due = r.d.now + r.next
                 /\ y.renewer = {w} /\ y.astray = r.d.astray
    <3>1. PICK d, next, on : d = r.d /\ next = r.next /\ on = TRUE
      BY Zenon
    <3>2. Fits(next) /\ d.now + next \in Nat /\ DOMAIN d = RsFields /\ d.reg \in [RsWorkers -> Registration]
      BY <1>5, <1>6, <1>7, <3>1, Zenon DEF Renews
    <3>3. y = redis_update_channel_keepalive_timer(d, w, on, next) /\ on \in BOOLEAN
      BY <2>1, <3>1, Zenon
    <3>4. \E g : /\ WritesHead(d, y, w, g) /\ g.on = on /\ g.due = d.now + next
                 /\ y.renewer = {w} /\ y.astray = d.astray
      BY <3>2, <3>3, TimerParts
    <3> QED BY <3>1, <3>4, Zenon
  <2>3. rs' = spend(y, "registers")
    BY <1>8, <2>1, Zenon
  <2>4. WritesHead(r.d, rs', w, g) /\ rs'.renewer = y.renewer /\ rs'.astray = y.astray
    BY <2>2, <2>3, SpendHead
  <2> QED BY <1>1, <1>3, <1>4, <1>7, <2>2, <2>4, Zenon
<1>9. PICK g : g = [rs.reg[w] EXCEPT !.on = TRUE, !.interval = ttl]
  BY Zenon
<1>10. HeadOK(g) /\ g.on
  <2>1. rs.reg[w] \in Registration /\ ttl \in Nat
    BY <1>3, <1>6, Zenon DEF Fits
  <2>2. g.on = TRUE /\ g.interval = ttl /\ g \in Registration
    BY <1>9, <2>1 DEF Registration
  <2> QED BY <1>3, <2>2, Zenon DEF HeadOK
<1>11. CASE \E d \in {rs, r.d} : rs' = spend(lose([d EXCEPT !.reg[w] = g]), "registers")
  <2>1. PICK d \in {rs, r.d} : rs' = spend(lose([d EXCEPT !.reg[w] = g]), "registers")
    BY <1>11, Zenon
  <2>2. PICK y : y = lose([d EXCEPT !.reg[w] = g])
    BY Zenon
  <2>3. DOMAIN d = RsFields /\ d.reg \in [RsWorkers -> Registration] /\ d.renewer = rs.renewer
    BY <1>6, <1>7, Zenon
  <2>4. WritesHead(d, y, w, g) /\ y.renewer = d.renewer /\ y.astray = TRUE
    BY <1>10, <2>2, <2>3, LoseParts, Zenon
  <2>5. WritesHead(d, rs', w, g) /\ rs'.renewer = rs.renewer /\ rs'.astray = TRUE
    BY <2>1, <2>2, <2>3, <2>4, SpendHead
  <2>6. WritesHead(rs, rs', w, g) \/ WritesHead(r.d, rs', w, g)
    BY <2>5, Zenon
  <2> QED BY <1>1, <1>3, <1>4, <1>10, <2>5, <2>6, Zenon
<1> QED BY <1>2, <1>4, <1>8, <1>9, <1>11, Zenon

(* A head without its subscriber keeps its timer, also when the server is not told. *)
LEMMA UnregisterShape ==
    ASSUME KeysOK(rs), RestOK(rs), Bounded(rs), NEW w \in RsWorkers, rs_unregister(w)
    PROVE  /\ rs.up[w] /\ rs.reg[w].on
           /\ \E g : /\ ~g.on /\ g.due = rs.reg[w].due /\ rs'.renewer = rs.renewer /\ rs'.astray = rs.astray
                     /\ \/ WritesHead(rs, rs', w, g)
                        \/ \E empty_ttl \in ChannelTimeouts :
                              WritesHead(subscriber_unregister(rs, empty_ttl), rs', w, g)
<1>1. rs.up[w] /\ rs.reg[w].on
  BY Zenon DEF rs_unregister
<1>2. rs.reg \in [RsWorkers -> Registration] /\ DOMAIN rs = RsFields /\ rs.reg[w] \in Registration
  BY Zenon DEF RestOK, KeysOK
<1>3. PICK g : g = [rs.reg[w] EXCEPT !.on = FALSE]
  BY Zenon
<1>4. g \in Registration /\ ~g.on /\ g.due = rs.reg[w].due /\ g.interval = rs.reg[w].interval
  BY <1>2, <1>3, Zenon DEF Registration
<1>5. g.interval = 0 \/ Fits(g.interval)
  BY <1>4, Zenon DEF Bounded
<1>6. ASSUME NEW d, DOMAIN d = RsFields, d.reg = rs.reg, d.renewer = rs.renewer, d.astray = rs.astray,
             NEW e, e = [d EXCEPT !.reg[w].on = FALSE]
      PROVE  WritesHead(d, e, w, g) /\ e.renewer = rs.renewer /\ e.astray = rs.astray
  <2>1. PICK r : r = [d.reg EXCEPT ![w] = g]
    BY Zenon
  <2>2. e = [d EXCEPT !.reg = r]
    BY <1>3, <1>6, <2>1, Zenon
  <2>3. Same(d, e, HeadFields) /\ e.reg = r /\ e.renewer = rs.renewer /\ e.astray = rs.astray
    BY <1>6, <2>2, Zenon DEF Same, RsFields, HeadFields
  <2> QED BY <1>4, <1>5, <2>1, <2>3, Zenon DEF WritesHead, HeadOK
<1>7. ASSUME NEW empty_ttl \in ChannelTimeouts,
             rs' = [subscriber_unregister(rs, empty_ttl) EXCEPT !.reg[w].on = FALSE]
      PROVE  WritesHead(subscriber_unregister(rs, empty_ttl), rs', w, g) /\ rs'.renewer = rs.renewer
             /\ rs'.astray = rs.astray
  <2>1. PICK d : d = subscriber_unregister(rs, empty_ttl)
    BY Zenon
  <2>2. Same(rs, d, {"chan", "list", "counts", "wiped"})
    BY <1>7, <2>1, UnregisterParts, Zenon DEF Unregistered
  <2>3. DOMAIN d = RsFields /\ d.reg = rs.reg /\ d.renewer = rs.renewer /\ d.astray = rs.astray
    BY <2>2, Zenon DEF Same, RsFields
  <2> QED BY <1>6, <1>7, <2>1, <2>3, Zenon
<1>8. CASE rs' = spend([rs EXCEPT !.reg[w].on = FALSE], "losses")
  <2>1. PICK y : y = [rs EXCEPT !.reg[w].on = FALSE]
    BY Zenon
  <2>2. WritesHead(rs, y, w, g) /\ y.renewer = rs.renewer /\ y.astray = rs.astray
    BY <1>2, <1>6, <2>1, Zenon
  <2>3. rs' = spend(y, "losses")
    BY <1>8, <2>1, Zenon
  <2>4. WritesHead(rs, rs', w, g) /\ rs'.renewer = y.renewer /\ rs'.astray = y.astray
    BY <2>2, <2>3, SpendHead
  <2> QED BY <1>1, <1>4, <2>2, <2>4, Zenon
<1>9. \/ \E empty_ttl \in ChannelTimeouts :
              rs' = [subscriber_unregister(rs, empty_ttl) EXCEPT !.reg[w].on = FALSE]
      \/ rs' = spend([rs EXCEPT !.reg[w].on = FALSE], "losses")
  BY Zenon DEF rs_unregister
<1> QED BY <1>1, <1>4, <1>7, <1>8, <1>9, Zenon

(* What a keepalive does besides the script: an answer sets the timer unless the channel may disappear, and a
   lost one is noted. *)
LEMMA KeepaliveShape ==
    ASSUME KeysOK(rs), RestOK(rs), Bounded(rs), NEW w \in RsWorkers, rs_keepalive(w)
    PROVE  \E ttl, r, g :
               /\ Fits(ttl) /\ r = channel_keepalive(rs, ttl) /\ g.on = rs.reg[w].on
               /\ \/ /\ r.next # -1 /\ WritesHead(r.d, rs', w, g) /\ g.due = rs.now + r.next
                     /\ rs'.renewer = {w} /\ rs'.astray = rs.astray
                  \/ /\ r.next = -1 /\ WritesHead(r.d, rs', w, g)
                     /\ rs'.renewer = rs.renewer \ {w} /\ rs'.astray = rs.astray
                  \/ /\ WritesHead(rs, rs', w, g) \/ WritesHead(r.d, rs', w, g)
                     /\ rs'.renewer = rs.renewer /\ rs'.astray = TRUE
<1>1. rs.reg \in [RsWorkers -> Registration] /\ DOMAIN rs = RsFields /\ rs.reg[w] \in Registration
  BY Zenon DEF RestOK, KeysOK
<1>2. rs.reg[w].on \in BOOLEAN /\ rs.reg[w].due \in Nat /\ rs.reg[w].interval \in Nat /\ rs.now \in Nat
  BY <1>1, ExpTime, Zenon DEF Registration
<1>3. ASSUME NEW ttl, Fits(ttl), NEW due, due \in Nat
      PROVE  /\ [rs.reg[w] EXCEPT !.due = due, !.interval = ttl] \in Registration
             /\ [rs.reg[w] EXCEPT !.due = due, !.interval = ttl].on = rs.reg[w].on
             /\ Fits([rs.reg[w] EXCEPT !.due = due, !.interval = ttl].interval)
  <2>0. PICK g : g = [rs.reg[w] EXCEPT !.due = due, !.interval = ttl]
    BY Zenon
  <2>1. ttl \in Nat
    BY <1>3, Zenon DEF Fits
  <2>2. g.on = rs.reg[w].on /\ g.due = due /\ g.interval = ttl /\ g \in Registration
    BY <1>1, <1>3, <2>0, <2>1 DEF Registration
  <2> QED BY <1>3, <2>0, <2>2, Zenon
<1>5. ASSUME NEW ttl \in nchan_set_next_backoff(rs.reg[w].interval)
      PROVE  /\ Fits(ttl) /\ Same(rs, channel_keepalive(rs, ttl).d, {"chan", "list", "counts"})
             /\ channel_keepalive(rs, ttl).next # -1 => Renews(rs, channel_keepalive(rs, ttl))
  <2>1. Fits(ttl)
    BY <1>2, <1>5, BackoffFits
  <2> QED BY <2>1, KeepaliveRenews, Zenon
<1>6. ASSUME NEW ttl \in nchan_set_next_backoff(rs.reg[w].interval), NEW r, r = channel_keepalive(rs, ttl),
             \/ r.next # -1 /\ rs' = redis_update_channel_keepalive_timer(r.d, w, rs.reg[w].on, r.next)
             \/ /\ r.next = -1
                /\ rs' = [r.d EXCEPT !.reg[w] = [rs.reg[w] EXCEPT !.due = Never, !.interval = ttl], !.renewer = @ \ {w}]
             \/ \E d \in {rs, r.d} :
                    rs' = lose([d EXCEPT !.reg[w] = [rs.reg[w] EXCEPT !.due = rs.now + ttl, !.interval = ttl]])
      PROVE  \E g : /\ g.on = rs.reg[w].on
                    /\ \/ /\ r.next # -1 /\ WritesHead(r.d, rs', w, g) /\ g.due = rs.now + r.next
                          /\ rs'.renewer = {w} /\ rs'.astray = rs.astray
                       \/ /\ r.next = -1 /\ WritesHead(r.d, rs', w, g)
                          /\ rs'.renewer = rs.renewer \ {w} /\ rs'.astray = rs.astray
                       \/ /\ WritesHead(rs, rs', w, g) \/ WritesHead(r.d, rs', w, g)
                          /\ rs'.renewer = rs.renewer /\ rs'.astray = TRUE
  <2>1. Fits(ttl) /\ Same(rs, r.d, {"chan", "list", "counts"}) /\ (r.next # -1 => Renews(rs, r))
    BY <1>5, <1>6, Zenon
  <2>2. /\ DOMAIN r.d = RsFields /\ r.d.reg = rs.reg /\ r.d.now = rs.now /\ r.d.renewer = rs.renewer
        /\ r.d.astray = rs.astray
    BY <2>1, Zenon DEF Same, RsFields
  <2>3. CASE r.next # -1 /\ rs' = redis_update_channel_keepalive_timer(r.d, w, rs.reg[w].on, r.next)
    <3>1. PICK g : /\ WritesHead(r.d, rs', w, g) /\ g.on = rs.reg[w].on /\ g.due = r.d.now + r.next
                   /\ rs'.renewer = {w} /\ rs'.astray = r.d.astray
      BY <1>1, <1>2, <2>1, <2>2, <2>3, TimerParts DEF Renews
    <3> QED BY <2>2, <2>3, <3>1, Zenon
  <2>4. CASE /\ r.next = -1
             /\ rs' = [r.d EXCEPT !.reg[w] = [rs.reg[w] EXCEPT !.due = Never, !.interval = ttl], !.renewer = @ \ {w}]
    <3>1. PICK g : g = [rs.reg[w] EXCEPT !.due = Never, !.interval = ttl]
      BY Zenon
    <3>2. Never \in Nat
      BY Numbers
    <3>3. g \in Registration /\ g.on = rs.reg[w].on /\ Fits(g.interval)
      BY <1>3, <2>1, <3>1, <3>2, Zenon
    <3>4. PICK x, others : x = [r.d.reg EXCEPT ![w] = g] /\ others = r.d.renewer \ {w}
      BY Zenon
    <3>5. rs' = [r.d EXCEPT !.reg = x, !.renewer = others]
      BY <2>4, <3>1, <3>4, Zenon
    <3>6. Same(r.d, rs', HeadFields) /\ rs'.reg = x /\ rs'.renewer = others /\ rs'.astray = r.d.astray
      BY <2>2, <3>5, Zenon DEF Same, RsFields, HeadFields
    <3>7. WritesHead(r.d, rs', w, g)
      BY <3>3, <3>4, <3>6, Zenon DEF WritesHead, HeadOK
    <3> QED BY <2>2, <2>4, <3>3, <3>4, <3>6, <3>7, Zenon
  <2>5. CASE \E d \in {rs, r.d} :
                 rs' = lose([d EXCEPT !.reg[w] = [rs.reg[w] EXCEPT !.due = rs.now + ttl, !.interval = ttl]])
    <3>1. PICK g : g = [rs.reg[w] EXCEPT !.due = rs.now + ttl, !.interval = ttl]
      BY Zenon
    <3>2. rs.now + ttl \in Nat
      BY <1>2, <2>1 DEF Fits
    <3>3. g \in Registration /\ g.on = rs.reg[w].on /\ Fits(g.interval)
      BY <1>3, <2>1, <3>1, <3>2, Zenon
    <3>4. PICK d : d \in {rs, r.d} /\ rs' = lose([d EXCEPT !.reg[w] = g])
      BY <2>5, <3>1, Zenon
    <3>5. WritesHead(d, rs', w, g) /\ rs'.renewer = rs.renewer /\ rs'.astray = TRUE
      <4>1. PICK y : y = lose([d EXCEPT !.reg[w] = g])
        BY Zenon
      <4>2. DOMAIN d = RsFields /\ d.reg \in [RsWorkers -> Registration] /\ d.renewer = rs.renewer
        BY <1>1, <2>2, <3>4, Zenon
      <4>3. WritesHead(d, y, w, g) /\ y.renewer = d.renewer /\ y.astray = TRUE
        <5>1. HeadOK(g)
          BY <3>3, Zenon DEF HeadOK
        <5>2. DOMAIN d = RsFields /\ d.reg \in [RsWorkers -> Registration]
          BY <4>2, Zenon
        <5> QED BY <4>1, <5>1, <5>2, LoseParts, Zenon
      <4> QED BY <3>4, <4>1, <4>2, <4>3, Zenon
    <3> QED BY <3>3, <3>4, <3>5, Zenon
  <2> QED BY <1>6, <2>3, <2>4, <2>5, Zenon
<1>7. ASSUME NEW due \in Nat, rs' = lose([rs EXCEPT !.reg[w].due = due])
      PROVE  \E g : WritesHead(rs, rs', w, g) /\ g.on = rs.reg[w].on /\ rs'.renewer = rs.renewer /\ rs'.astray = TRUE
  <2>1. PICK g : g = [rs.reg[w] EXCEPT !.due = due]
    BY Zenon
  <2>2. g \in Registration /\ g.on = rs.reg[w].on /\ g.interval = rs.reg[w].interval
    BY <1>1, <2>1, Zenon DEF Registration
  <2>3. g.interval = 0 \/ Fits(g.interval)
    BY <2>2, Zenon DEF Bounded
  <2>4. rs' = lose([rs EXCEPT !.reg[w] = g])
    BY <1>7, <2>1, Zenon
  <2>5. PICK y : y = lose([rs EXCEPT !.reg[w] = g])
    BY Zenon
  <2>6. WritesHead(rs, y, w, g) /\ y.renewer = rs.renewer /\ y.astray = TRUE
    <3>1. HeadOK(g)
      BY <2>2, <2>3, Zenon DEF HeadOK
    <3>2. DOMAIN rs = RsFields /\ rs.reg \in [RsWorkers -> Registration]
      BY <1>1, Zenon
    <3> QED BY <2>5, <3>1, <3>2, LoseParts, Zenon
  <2> QED BY <2>2, <2>4, <2>5, <2>6, Zenon
<1>8. \/ \E ttl \in nchan_set_next_backoff(rs.reg[w].interval) :
             LET r == channel_keepalive(rs, ttl)
             IN \/ r.next # -1 /\ rs' = redis_update_channel_keepalive_timer(r.d, w, rs.reg[w].on, r.next)
                \/ /\ r.next = -1
                   /\ rs' = [r.d EXCEPT !.reg[w] = [rs.reg[w] EXCEPT !.due = Never, !.interval = ttl], !.renewer = @ \ {w}]
                \/ \E d \in {rs, r.d} :
                       rs' = lose([d EXCEPT !.reg[w] = [rs.reg[w] EXCEPT !.due = rs.now + ttl, !.interval = ttl]])
      \/ rs' \in {lose([rs EXCEPT !.reg[w].due = Never]), lose([rs EXCEPT !.reg[w].due = rs.now + NotReadyRetry])}
  BY Zenon DEF rs_keepalive
<1>9. CASE \E ttl \in nchan_set_next_backoff(rs.reg[w].interval) :
             LET r == channel_keepalive(rs, ttl)
             IN \/ r.next # -1 /\ rs' = redis_update_channel_keepalive_timer(r.d, w, rs.reg[w].on, r.next)
                \/ /\ r.next = -1
                   /\ rs' = [r.d EXCEPT !.reg[w] = [rs.reg[w] EXCEPT !.due = Never, !.interval = ttl], !.renewer = @ \ {w}]
                \/ \E d \in {rs, r.d} :
                       rs' = lose([d EXCEPT !.reg[w] = [rs.reg[w] EXCEPT !.due = rs.now + ttl, !.interval = ttl]])
  BY <1>5, <1>6, <1>9, Zenon
<1>10. CASE rs' \in {lose([rs EXCEPT !.reg[w].due = Never]), lose([rs EXCEPT !.reg[w].due = rs.now + NotReadyRetry])}
  <2>1. Never \in Nat /\ rs.now + NotReadyRetry \in Nat
    BY <1>2, Numbers
  <2>2. PICK g : WritesHead(rs, rs', w, g) /\ g.on = rs.reg[w].on /\ rs'.renewer = rs.renewer /\ rs'.astray = TRUE
    BY <1>7, <1>10, <2>1, Zenon
  <2>3. Fits(IdleTtl.max)
    BY Numbers DEF Fits
  <2> QED BY <2>2, <2>3, Zenon
<1> QED BY <1>8, <1>9, <1>10, Zenon

(* A head goes, and its timer with it. *)
LEMMA LeaveParts ==
    ASSUME KeysOK(rs), RestOK(rs), NEW w \in RsWorkers, NEW e, e = leave_head(rs, w)
    PROVE  /\ WritesHead(rs, e, w, NoTimer) /\ e.renewer = rs.renewer \ {w}
           /\ e.astray = (rs.astray \/ (w \in rs.renewer /\ Registered(rs) \ {w} # {}))
<1>1. rs.reg \in [RsWorkers -> Registration] /\ DOMAIN rs = RsFields
  BY Zenon DEF RestOK, KeysOK
<1>2. NoTimer \in Registration /\ NoTimer.interval = 0
  BY Numbers DEF NoTimer, Registration
<1>3. PICK r, others, astray : /\ r = [rs.reg EXCEPT ![w] = NoTimer] /\ others = rs.renewer \ {w}
                               /\ astray = (rs.astray \/ (w \in rs.renewer /\ Active \ {w} # {}))
  BY Zenon
<1>4. e = [rs EXCEPT !.reg = r, !.renewer = others, !.astray = astray]
  BY <1>3, Zenon DEF leave_head
<1>5. Same(rs, e, HeadFields) /\ e.reg = r /\ e.renewer = others /\ e.astray = astray
  BY <1>1, <1>4, Zenon DEF Same, RsFields, HeadFields
<1> QED BY <1>2, <1>3, <1>5, Zenon DEF WritesHead, HeadOK, Active, Registered

(* Which fields a head's change leaves alone. *)
LEMMA HeadFrame ==
    ASSUME NEW d, d.reg \in [RsWorkers -> Registration], NEW w \in RsWorkers, NEW g, NEW e, WritesHead(d, e, w, g)
    PROVE  /\ DOMAIN e = RsFields /\ e.chan = d.chan /\ e.now = d.now /\ e.up = d.up /\ e.deleted = d.deleted
           /\ e.refused = d.refused /\ e.skipped = d.skipped /\ e.idle = d.idle
           /\ e.reg \in [RsWorkers -> Registration] /\ e.reg[w] = g
           /\ \A v \in RsWorkers \ {w} : e.reg[v] = d.reg[v]
<1>1. /\ DOMAIN e = RsFields /\ e.chan = d.chan /\ e.now = d.now /\ e.up = d.up /\ e.deleted = d.deleted
      /\ e.refused = d.refused /\ e.skipped = d.skipped /\ e.idle = d.idle
  BY Zenon DEF WritesHead, Same, RsFields, HeadFields
<1>2. PICK r : r = e.reg
  BY Zenon
<1>3. r = [d.reg EXCEPT ![w] = g] /\ g \in Registration
  BY <1>2, Zenon DEF WritesHead, HeadOK
<1>4. r \in [RsWorkers -> Registration] /\ r[w] = g /\ \A v \in RsWorkers \ {w} : r[v] = d.reg[v]
  BY <1>3, Zenon
<1> QED BY <1>1, <1>2, <1>4, Zenon

(* It keeps the invariant, and the bounds. *)
LEMMA HeadInv ==
    ASSUME NEW d, RsInv(d), NEW w \in RsWorkers, NEW g, NEW e, WritesHead(d, e, w, g)
    PROVE  RsInv(e) /\ (Bounded(d) => Bounded(e))
<1>1. ~d.refused /\ ~d.skipped /\ ~d.idle /\ d.deleted \in BOOLEAN /\ d.reg \in [RsWorkers -> Registration]
  BY Zenon DEF RsInv, RestOK
<1>2. /\ e.chan = d.chan /\ e.now = d.now /\ e.deleted = d.deleted
      /\ e.refused = d.refused /\ e.skipped = d.skipped /\ e.idle = d.idle
      /\ e.reg \in [RsWorkers -> Registration] /\ e.reg[w] = g
      /\ \A v \in RsWorkers \ {w} : e.reg[v] = d.reg[v]
  BY <1>1, HeadFrame
<1>3. Same(d, e, {"left", "evict", "refused", "skipped", "idle", "deleted", "reg", "renewer", "astray"})
  BY Zenon DEF WritesHead, Same, HeadFields
<1>4. RsInv(e)
  BY <1>1, <1>2, <1>3, InvFrame, Zenon
<1>5. g.interval = 0 \/ Fits(g.interval)
  BY Zenon DEF WritesHead, HeadOK
<1>6. Bounded(d) => Bounded(e)
  BY <1>2, <1>5, Zenon DEF Bounded
<1> QED BY <1>4, <1>6, Zenon

(* The larger of zero and a number. *)
LEMMA MaxWithZero ==
    ASSUME NEW x \in Int
    PROVE  Max({0, x}) = IF x <= 0 THEN 0 ELSE x
<1> DEFINE S == {0, x}
           m == IF x <= 0 THEN 0 ELSE x
<1>1. m \in S /\ \A y \in S : y <= m
  OBVIOUS
<1>2. \A z \in S : (\A y \in S : y <= z) => z = m
  OBVIOUS
<1>3. Max(S) = CHOOSE z \in S : \A y \in S : y <= z
  BY Zenon DEF Max
<1> HIDE DEF S, m
<1>4. Max(S) \in S /\ \A y \in S : y <= Max(S)
  BY <1>1, <1>3, Zenon
<1>5. Max(S) = m
  BY <1>2, <1>4, Zenon
<1> QED BY <1>5, Zenon DEF S, m

(* A worker's own numbers change; what it claims does not become less. *)
TellFields == {"left", "real", "evict", "delta", "dropped"}
Tells(d, e, w, real, delta, dropped) ==
    /\ Same(d, e, TellFields) /\ e.real = [d.real EXCEPT ![w] = real]
    /\ e.delta = [d.delta EXCEPT ![w] = delta] /\ e.dropped = [d.dropped EXCEPT ![w] = dropped]
    /\ real \in Nat /\ delta \in Int /\ dropped \in Nat /\ delta <= real
    /\ d.real[w] - d.delta[w] + d.dropped[w] <= real - delta + dropped
LEMMA TellInv ==
    ASSUME NEW d, RsInv(d), NEW w \in RsWorkers, NEW real, NEW delta, NEW dropped,
           NEW e, Tells(d, e, w, real, delta, dropped)
    PROVE  RsInv(e)
<1> USE DEF Tells
<1>1. KeysOK(d) /\ RestOK(d) /\ Counted(d)
  BY Zenon DEF RsInv
<1>2. e.up = d.up /\ e.counts = d.counts /\ e.reg = d.reg
  BY Zenon DEF Same, RsFields, TellFields
<1>3. /\ d.real \in [RsWorkers -> Nat] /\ d.delta \in [RsWorkers -> Int] /\ d.dropped \in [RsWorkers -> Nat]
      /\ d.up \in [RsWorkers -> BOOLEAN] /\ d.reg \in [RsWorkers -> Registration]
  BY <1>1, Zenon DEF RestOK
<1>4. PICK n, f, m : n = e.real /\ f = e.delta /\ m = e.dropped
  BY Zenon
<1>5. /\ n \in [RsWorkers -> Nat] /\ f \in [RsWorkers -> Int] /\ m \in [RsWorkers -> Nat]
      /\ n[w] = real /\ f[w] = delta /\ m[w] = dropped
      /\ \A v \in RsWorkers \ {w} : n[v] = d.real[v] /\ f[v] = d.delta[v] /\ m[v] = d.dropped[v]
  <2>1. /\ n = [d.real EXCEPT ![w] = real] /\ f = [d.delta EXCEPT ![w] = delta]
        /\ m = [d.dropped EXCEPT ![w] = dropped]
    BY <1>4, Zenon
  <2> QED BY <1>3, <2>1, Zenon
<1>6. ASSUME NEW v \in RsWorkers
      PROVE  /\ f[v] <= n[v]
             /\ d.up[v] /\ v \in DOMAIN d.counts.of => d.counts.of[v] + f[v] <= n[v] + m[v]
  <2>1. /\ d.delta[v] <= d.real[v]
        /\ d.up[v] /\ v \in DOMAIN d.counts.of => d.counts.of[v] + d.delta[v] <= d.real[v] + d.dropped[v]
    BY <1>1, Zenon DEF Counted
  <2>2. CASE v # w
    BY <1>5, <2>1, <2>2, Zenon
  <2>3. CASE v = w
    <3>1. d.real[w] \in Nat /\ d.delta[w] \in Int /\ d.dropped[w] \in Nat
      BY <1>3, Zenon
    <3>2. v \in DOMAIN d.counts.of => d.counts.of[v] \in Int
      BY <1>1, Zenon DEF KeysOK, CountsOK
    <3> QED BY <1>5, <2>1, <2>3, <3>1, <3>2
  <2> QED BY <2>2, <2>3, Zenon
<1>7. Counted(e)
  BY <1>2, <1>4, <1>6, Zenon DEF Counted
<1>8. Same(d, e, {"left", "up", "real", "evict", "reg", "delta", "dropped", "renewer", "astray"})
  BY Zenon DEF Same, TellFields
<1> QED BY <1>2, <1>3, <1>4, <1>5, <1>7, <1>8, WorkersInv, Zenon

(* A subscriber comes or goes, or the changes are dropped. *)
LEMMA TellStep ==
    ASSUME RsInv(rs), NEW w \in RsWorkers,
           \/ rs_join(w) \/ rs_leave(w)
           \/ rs' = spend([rs EXCEPT !.delta[w] = 0, !.dropped[w] = @ + Max({0, -rs.delta[w]})], "losses")
    PROVE  RsInv(rs') /\ Same(rs, rs', TellFields)
<1>1. KeysOK(rs) /\ RestOK(rs) /\ Counted(rs) /\ DOMAIN rs = RsFields
  BY Zenon DEF RsInv, KeysOK
<1>2. rs.real \in [RsWorkers -> Nat] /\ rs.delta \in [RsWorkers -> Int] /\ rs.dropped \in [RsWorkers -> Nat]
  BY <1>1, Zenon DEF RestOK
<1>3. PICK real, delta, dropped : real = rs.real[w] /\ delta = rs.delta[w] /\ dropped = rs.dropped[w]
  BY Zenon
<1>4. real \in Nat /\ delta \in Int /\ dropped \in Nat /\ delta <= real
  BY <1>1, <1>2, <1>3, Zenon DEF Counted
<1>5. CASE rs_join(w)
  <2>1. PICK n, f : n = [rs.real EXCEPT ![w] = real + 1] /\ f = [rs.delta EXCEPT ![w] = delta + 1]
    BY Zenon
  <2>2. PICK y : y = [rs EXCEPT !.real = n, !.delta = f]
    BY Zenon
  <2>3. rs' = spend(y, "joins")
    BY <1>3, <1>5, <2>1, <2>2, Zenon DEF rs_join
  <2>4. Same(rs, y, {"real", "delta"}) /\ y.real = n /\ y.delta = f
    BY <1>1, <2>2, Zenon DEF Same, RsFields
  <2>5. DOMAIN y = RsFields
    BY <2>4, Zenon DEF Same
  <2>6. Same(y, rs', {"left"})
    BY <2>3, <2>5, SpendParts
  <2>7. Same(rs, rs', TellFields) /\ rs'.real = n /\ rs'.delta = f /\ rs'.dropped = rs.dropped
    BY <2>4, <2>6, Zenon DEF Same, RsFields, TellFields
  <2>8. rs'.dropped = [rs.dropped EXCEPT ![w] = dropped]
    BY <1>2, <1>3, <2>7, Zenon
  <2>9. real + 1 \in Nat /\ delta + 1 \in Int /\ delta + 1 <= real + 1
        /\ real - delta + dropped <= (real + 1) - (delta + 1) + dropped
    BY <1>4
  <2>10. Tells(rs, rs', w, real + 1, delta + 1, dropped)
    BY <1>3, <1>4, <2>1, <2>7, <2>8, <2>9, Zenon DEF Tells
  <2> QED BY <2>7, <2>10, TellInv, Zenon
<1>6. CASE rs_leave(w)
  <2>1. PICK n, f, v : /\ n = [rs.real EXCEPT ![w] = real - 1] /\ f = [rs.delta EXCEPT ![w] = delta - 1]
                       /\ v = [rs.evict EXCEPT ![w] = Max({0, rs.evict[w] - 1})]
    BY Zenon
  <2>2. rs' = [rs EXCEPT !.real = n, !.delta = f, !.evict = v] /\ real > 0
    BY <1>3, <1>6, <2>1, Zenon DEF rs_leave
  <2>3. Same(rs, rs', TellFields) /\ rs'.real = n /\ rs'.delta = f /\ rs'.dropped = rs.dropped
    BY <1>1, <2>2, Zenon DEF Same, RsFields, TellFields
  <2>4. rs'.dropped = [rs.dropped EXCEPT ![w] = dropped]
    BY <1>2, <1>3, <2>3, Zenon
  <2>5. real - 1 \in Nat /\ delta - 1 \in Int /\ delta - 1 <= real - 1
        /\ real - delta + dropped <= (real - 1) - (delta - 1) + dropped
    BY <1>4, <2>2
  <2>6. Tells(rs, rs', w, real - 1, delta - 1, dropped)
    BY <1>3, <1>4, <2>1, <2>3, <2>4, <2>5, Zenon DEF Tells
  <2> QED BY <2>3, <2>6, TellInv, Zenon
<1>7. CASE rs' = spend([rs EXCEPT !.delta[w] = 0, !.dropped[w] = @ + Max({0, -rs.delta[w]})], "losses")
  <2>1. PICK more : more = Max({0, -delta})
    BY Zenon
  <2>2. more \in Nat /\ -delta <= more
    <3>1. -delta \in Int
      BY <1>4
    <3>2. more = IF -delta <= 0 THEN 0 ELSE -delta
      BY <2>1, <3>1, MaxWithZero
    <3> QED BY <3>1, <3>2
  <2>3. PICK f, m : f = [rs.delta EXCEPT ![w] = 0] /\ m = [rs.dropped EXCEPT ![w] = dropped + more]
    BY Zenon
  <2>4. PICK y : y = [rs EXCEPT !.delta = f, !.dropped = m]
    BY Zenon
  <2>5. rs' = spend(y, "losses")
    BY <1>3, <1>7, <2>1, <2>3, <2>4, Zenon
  <2>6. Same(rs, y, {"delta", "dropped"}) /\ y.delta = f /\ y.dropped = m
    BY <1>1, <2>4, Zenon DEF Same, RsFields
  <2>7. DOMAIN y = RsFields
    BY <2>6, Zenon DEF Same
  <2>8. Same(y, rs', {"left"})
    BY <2>5, <2>7, SpendParts
  <2>9. Same(rs, rs', TellFields) /\ rs'.real = rs.real /\ rs'.delta = f /\ rs'.dropped = m
    BY <2>6, <2>8, Zenon DEF Same, RsFields, TellFields
  <2>10. rs'.real = [rs.real EXCEPT ![w] = real]
    BY <1>2, <1>3, <2>9, Zenon
  <2>11. dropped + more \in Nat /\ 0 \in Int /\ 0 <= real /\ real - delta + dropped <= real - 0 + (dropped + more)
    BY <1>4, <2>2
  <2>12. Tells(rs, rs', w, real, 0, dropped + more)
    BY <1>3, <1>4, <2>3, <2>9, <2>10, <2>11, Zenon DEF Tells
  <2> QED BY <2>9, <2>12, TellInv, Zenon
<1> QED BY <1>5, <1>6, <1>7, Zenon

(* What a worker tells the server. *)
LEMMA SendShape ==
    ASSUME KeysOK(rs), RestOK(rs), NEW w \in RsWorkers, NEW x, x = add_fakesub(rs, w, rs.delta[w]),
           rs' = [x EXCEPT !.delta[w] = 0]
    PROVE  Faked(rs, x, w, rs.delta[w]) /\ Same(x, rs', {"delta"}) /\ rs'.delta = [rs.delta EXCEPT ![w] = 0]
<1>1. rs.delta \in [RsWorkers -> Int] /\ rs.delta[w] \in Int
  BY Zenon DEF RestOK
<1>2. Faked(rs, x, w, rs.delta[w])
  BY <1>1, FakeParts
<1>3. DOMAIN x = RsFields /\ x.delta = rs.delta
  BY <1>2, Zenon DEF Faked, Same, RsFields
<1>4. PICK f : f = [rs.delta EXCEPT ![w] = 0]
  BY Zenon
<1>5. rs' = [x EXCEPT !.delta = f]
  BY <1>3, <1>4, Zenon
<1> QED BY <1>2, <1>3, <1>4, <1>5, Zenon DEF Same, RsFields

(* What dies with a worker. *)
LEMMA CrashShape ==
    ASSUME RsInv(rs), NEW w \in RsWorkers, rs_crash(w)
    PROVE  /\ RsInv(rs')
           /\ \E x : /\ WritesHead(rs, x, w, NoTimer) /\ x.renewer = rs.renewer \ {w}
                     /\ x.astray = (rs.astray \/ (w \in rs.renewer /\ Registered(rs) \ {w} # {}))
                     /\ Same(x, rs', {"left", "up", "real", "evict", "delta"})
                     /\ rs'.up = [rs.up EXCEPT ![w] = FALSE]
<1>1. KeysOK(rs) /\ RestOK(rs) /\ Counted(rs) /\ DOMAIN rs = RsFields
  BY Zenon DEF RsInv, KeysOK
<1>2. PICK x : x = leave_head(rs, w)
  BY Zenon
<1>3. /\ WritesHead(rs, x, w, NoTimer) /\ x.renewer = rs.renewer \ {w}
      /\ x.astray = (rs.astray \/ (w \in rs.renewer /\ Registered(rs) \ {w} # {}))
  BY <1>1, <1>2, LeaveParts
<1>4. /\ x.up = rs.up /\ x.real = rs.real /\ x.delta = rs.delta /\ x.counts = rs.counts /\ x.dropped = rs.dropped
      /\ DOMAIN x = RsFields
  BY <1>3, Zenon DEF WritesHead, Same, RsFields, HeadFields
<1>5. PICK up, n, f, v : /\ up = [rs.up EXCEPT ![w] = FALSE] /\ n = [rs.real EXCEPT ![w] = 0]
                         /\ f = [rs.delta EXCEPT ![w] = 0] /\ v = [x.evict EXCEPT ![w] = 0]
  BY Zenon
<1>6. PICK y : y = [x EXCEPT !.up = up, !.real = n, !.evict = v, !.delta = f]
  BY Zenon
<1>7. rs' = spend(y, "crashes")
  BY <1>2, <1>4, <1>5, <1>6, Zenon DEF rs_crash
<1>8. Same(x, y, {"up", "real", "evict", "delta"}) /\ y.up = up /\ y.real = n /\ y.delta = f
  BY <1>4, <1>6, Zenon DEF Same, RsFields
<1>9. DOMAIN y = RsFields
  BY <1>8, Zenon DEF Same
<1>10. Same(y, rs', {"left"})
  BY <1>7, <1>9, SpendParts
<1>11. /\ Same(x, rs', {"left", "up", "real", "evict", "delta"}) /\ rs'.up = up /\ rs'.real = n /\ rs'.delta = f
       /\ rs'.counts = rs.counts /\ rs'.dropped = rs.dropped /\ rs'.reg = x.reg
  BY <1>4, <1>8, <1>10, Zenon DEF Same, RsFields
<1>12. /\ rs.up \in [RsWorkers -> BOOLEAN] /\ rs.real \in [RsWorkers -> Nat] /\ rs.delta \in [RsWorkers -> Int]
       /\ rs.dropped \in [RsWorkers -> Nat]
  BY <1>1, Zenon DEF RestOK
<1>13. up \in [RsWorkers -> BOOLEAN] /\ ~up[w] /\ \A u \in RsWorkers \ {w} : up[u] = rs.up[u]
  BY <1>5, <1>12, Zenon
<1>14. /\ n \in [RsWorkers -> Nat] /\ f \in [RsWorkers -> Int] /\ n[w] = 0 /\ f[w] = 0
       /\ \A u \in RsWorkers \ {w} : n[u] = rs.real[u] /\ f[u] = rs.delta[u]
  BY <1>5, <1>12
<1>15. Counted(rs')
  <2> SUFFICES ASSUME NEW u \in RsWorkers
               PROVE  /\ f[u] <= n[u]
                      /\ up[u] /\ u \in DOMAIN rs.counts.of => rs.counts.of[u] + f[u] <= n[u] + rs.dropped[u]
    BY <1>11, Zenon DEF Counted
  <2>1. CASE u = w
    <3>1. f[u] <= n[u]
      BY <1>14, <2>1
    <3> QED BY <1>13, <2>1, <3>1, Zenon
  <2>2. CASE u # w
    BY <1>1, <1>13, <1>14, <2>2, Zenon DEF Counted
  <2> QED BY <2>1, <2>2, Zenon
<1>16. RsInv(x)
  BY <1>3, HeadInv
<1>17. x.reg \in [RsWorkers -> Registration]
  BY <1>16, Zenon DEF RsInv, RestOK
<1>18. Same(x, rs', {"left", "up", "real", "evict", "reg", "delta", "dropped", "renewer", "astray"})
  BY <1>11, Zenon DEF Same
<1>19. RsInv(rs')
  BY <1>11, <1>12, <1>13, <1>14, <1>15, <1>16, <1>17, <1>18, WorkersInv, Zenon
<1> QED BY <1>3, <1>5, <1>11, <1>19, Zenon

(* Each step of the workers and of the server keeps the invariant. *)
LEMMA RsStep == ASSUME CountingFacts, RsInv(rs), Bounded(rs), RsNext PROVE RsInv(rs')
<1>1. KeysOK(rs) /\ RestOK(rs) /\ DOMAIN rs = RsFields /\ ~rs.refused /\ ~rs.skipped /\ ~rs.idle
  BY Zenon DEF RsInv, KeysOK
<1>2. ASSUME NEW x, RsInv(x), NEW what, rs' = spend(x, what)
      PROVE  RsInv(rs')
  <2>1. DOMAIN x = RsFields
    BY <1>2, Zenon DEF RsInv, KeysOK
  <2>2. Same(x, rs', {"left"})
    BY <1>2, <2>1, SpendParts, Zenon
  <2>3. Same(x, rs', {"left", "evict", "refused", "skipped", "idle", "deleted", "reg", "renewer", "astray"})
    BY <2>2, Zenon DEF Same
  <2>4. /\ rs'.refused = x.refused /\ rs'.skipped = x.skipped /\ rs'.idle = x.idle
        /\ rs'.deleted = x.deleted /\ rs'.reg = x.reg
    BY <2>2, Zenon DEF Same, RsFields
  <2>5. ~x.refused /\ ~x.skipped /\ ~x.idle /\ x.deleted \in BOOLEAN /\ x.reg \in [RsWorkers -> Registration]
    BY <1>2, Zenon DEF RsInv, RestOK
  <2> QED BY <1>2, <2>3, <2>4, <2>5, InvFrame, Zenon
<1>3. CASE rs_publish
  BY <1>2, <1>3, PublishInv, Zenon DEF rs_publish
<1>4. CASE rs_delete
  <2>1. PICK x : x = delete(rs)
    BY Zenon
  <2>2. PICK y : y = [x EXCEPT !.evict = rs.real]
    BY Zenon
  <2>3. RsInv(x)
    BY <2>1, DeleteInv, Zenon
  <2>4. DOMAIN x = RsFields /\ ~x.refused /\ ~x.skipped /\ ~x.idle
    BY <2>3, Zenon DEF RsInv, KeysOK
  <2>5. x.deleted \in BOOLEAN /\ x.reg \in [RsWorkers -> Registration]
    BY <2>3, Zenon DEF RsInv, RestOK
  <2>6. Same(x, y, {"evict"})
    BY <2>2, <2>4, Zenon DEF Same, RsFields
  <2>7. Same(x, y, {"left", "evict", "refused", "skipped", "idle", "deleted", "reg", "renewer", "astray"})
    BY <2>6, Zenon DEF Same
  <2>8. /\ y.refused = x.refused /\ y.skipped = x.skipped /\ y.idle = x.idle
        /\ y.deleted = x.deleted /\ y.reg = x.reg
    BY <2>6, Zenon DEF Same, RsFields
  <2>9. RsInv(y)
    BY <2>3, <2>4, <2>5, <2>7, <2>8, InvFrame, Zenon
  <2>10. rs' = spend(y, "deletes")
    BY <1>4, <2>1, <2>2, Zenon DEF rs_delete
  <2> QED BY <1>2, <2>9, <2>10, Zenon
<1>5. CASE rs_find
  <2>1. RsInv(oldestmsg(rs))
    BY OldestInv, Zenon
  <2>2. RsInv(find_channel(rs)) /\ RsInv(nostore_publish_multiexec_channel_info(rs))
    BY <2>1, ForgetInv, Zenon DEF find_channel, nostore_publish_multiexec_channel_info
  <2> QED BY <1>2, <1>5, <2>2, Zenon DEF rs_find
<1>6. CASE rs_get_message
  BY <1>6, GetMessageInv, Zenon
<1>7. CASE rs_failover
  <2>1. PICK x : x = [rs EXCEPT !.back = 1]
    BY Zenon
  <2>2. Same(rs, x, {"back"}) /\ x.back = 1
    BY <1>1, <2>1, Zenon DEF Same, RsFields
  <2>3. /\ DOMAIN x = RsFields /\ x.conf = rs.conf /\ x.now = rs.now /\ x.chan = rs.chan
        /\ x.list = rs.list /\ x.counts = rs.counts /\ x.msgs = rs.msgs /\ x.up = rs.up /\ x.real = rs.real
        /\ x.delta = rs.delta /\ x.dropped = rs.dropped
        /\ x.reg = rs.reg /\ x.log = rs.log /\ x.reused = rs.reused /\ x.wiped = rs.wiped
        /\ x.deleted = rs.deleted /\ x.refused = rs.refused /\ x.skipped = rs.skipped /\ x.idle = rs.idle
        /\ x.reader = rs.reader
    BY <2>2, Zenon DEF Same, RsFields
  <2>4. KeysOK(x) /\ RestOK(x)
    BY <1>1, <2>2, <2>3 DEF KeysOK, ChanOK, MsgsOK, CountsOK, RestOK
  <2>5. Lasting(x) /\ Counted(x) /\ Linked(x)
    BY <2>3 DEF RsInv, Lasting, Counted, Linked
  <2>6. Fresh(x)
    BY <2>2 DEF Fresh
  <2>7. RsInv(x)
    BY <2>3, <2>4, <2>5, <2>6, Zenon DEF RsInv
  <2>8. rs' = spend(x, "backs")
    BY <1>7, <2>1, Zenon DEF rs_failover
  <2> QED BY <1>2, <2>7, <2>8, Zenon
<1>8. CASE rs_tick
  <2>1. PICK x : x = [rs EXCEPT !.now = rs.now + 1, !.wiped = FALSE]
    BY Zenon
  <2>2. Same(rs, x, {"now", "wiped"}) /\ x.now = rs.now + 1 /\ x.wiped = FALSE
    BY <1>1, <2>1, Zenon DEF Same, RsFields
  <2>3. rs.now < MaxClock /\ rs' = expired(x)
    BY <1>8, <2>1, Zenon DEF rs_tick
  <2> QED BY <2>2, <2>3, TickInv, Zenon
<1>9. ASSUME NEW w \in RsWorkers, rs_register(w)
      PROVE  RsInv(rs')
  <2>1. PICK ttl, r, g : /\ Fits(ttl) /\ r = subscriber_register(rs, ttl)
                         /\ WritesHead(rs, rs', w, g) \/ WritesHead(r.d, rs', w, g)
    BY <1>1, <1>9, RegisterShape, Zenon
  <2>2. RsInv(r.d)
    BY <2>1, RegisterInv, Zenon
  <2> QED BY <2>1, <2>2, HeadInv, Zenon
<1>10. ASSUME NEW w \in RsWorkers, rs_unregister(w)
       PROVE  RsInv(rs')
  <2>1. PICK g : \/ WritesHead(rs, rs', w, g)
                 \/ \E empty_ttl \in ChannelTimeouts : WritesHead(subscriber_unregister(rs, empty_ttl), rs', w, g)
    BY <1>1, <1>10, UnregisterShape, Zenon
  <2>2. \A empty_ttl \in ChannelTimeouts : RsInv(subscriber_unregister(rs, empty_ttl))
    BY UnregisterInv, Zenon
  <2> QED BY <2>1, <2>2, HeadInv, Zenon
<1>11. ASSUME NEW w \in RsWorkers, rs_keepalive(w)
       PROVE  RsInv(rs')
  <2>1. PICK ttl, r, g : /\ Fits(ttl) /\ r = channel_keepalive(rs, ttl)
                         /\ WritesHead(rs, rs', w, g) \/ WritesHead(r.d, rs', w, g)
    BY <1>1, <1>11, KeepaliveShape, Zenon
  <2>2. r.d = rs \/ (~Long(rs, ttl) /\ Renewed(rs, r.d, ttl))
    BY <1>1, <2>1, KeepaliveRenews, Zenon
  <2>3. RsInv(r.d)
    BY <2>1, <2>2, RenewInv, Zenon
  <2> QED BY <2>1, <2>3, HeadInv, Zenon
<1>12. ASSUME NEW w \in RsWorkers, rs_reap(w)
       PROVE  RsInv(rs')
  <2>1. rs' = leave_head(rs, w)
    BY <1>12, Zenon DEF rs_reap
  <2>2. WritesHead(rs, rs', w, NoTimer)
    BY <1>1, <2>1, LeaveParts, Zenon
  <2> QED BY <2>2, HeadInv, Zenon
<1>13. ASSUME NEW w \in RsWorkers, rs_join(w) \/ rs_leave(w)
       PROVE  RsInv(rs')
  BY <1>13, TellStep, Zenon
<1>14. ASSUME NEW w \in RsWorkers, send_redis_fakesub_delta(w)
       PROVE  RsInv(rs')
  <2>1. CASE rs' = [add_fakesub(rs, w, rs.delta[w]) EXCEPT !.delta[w] = 0]
    <3>1. PICK x : x = add_fakesub(rs, w, rs.delta[w])
      BY Zenon
    <3>2. rs' = [x EXCEPT !.delta[w] = 0]
      BY <2>1, <3>1, Zenon
    <3>3. Faked(rs, x, w, rs.delta[w]) /\ Same(x, rs', {"delta"}) /\ rs'.delta = [rs.delta EXCEPT ![w] = 0]
      BY <1>1, <3>1, <3>2, SendShape, Zenon
    <3> QED BY <3>3, FakeInv, Zenon
  <2>2. CASE rs' = spend([rs EXCEPT !.delta[w] = 0, !.dropped[w] = @ + Max({0, -rs.delta[w]})], "losses")
    BY <2>2, TellStep, Zenon
  <2> QED BY <1>14, <2>1, <2>2, Zenon DEF send_redis_fakesub_delta
<1>15. ASSUME NEW w \in RsWorkers, rs_crash(w)
       PROVE  RsInv(rs')
  BY <1>15, CrashShape, Zenon
<1> QED BY <1>3, <1>4, <1>5, <1>6, <1>7, <1>8, <1>9, <1>10, <1>11, <1>12, <1>13, <1>14, <1>15, Zenon DEF RsNext

(* Registered workers can be counted. *)
LEMMA RegisteredCount ==
    ASSUME CountingFacts, NEW d
    PROVE  /\ Registered(d) \subseteq RsWorkers /\ Cardinality(Registered(d)) \in Nat
           /\ Cardinality(Registered(d)) = 0 <=> Registered(d) = {}
<1>1. Registered(d) \subseteq RsWorkers
  BY Zenon DEF Registered
<1> QED BY <1>1, Zenon DEF CountingFacts

(* At the start nothing is stored, and nobody has subscribed. *)
LEMMA RsStart ==
    ASSUME CountingFacts, RsInit PROVE RsInv(rs) /\ Bounded(rs) /\ Alive(rs)
<1>1. PICK conf \in RsSetups :
        rs = [conf |-> conf, left |-> conf.left, now |-> 2, back |-> 0,
              chan |-> NoChannel, list |-> NoList, counts |-> NoCounts, msgs |-> <<>>,
              up |-> [w \in RsWorkers |-> TRUE], real |-> [w \in RsWorkers |-> 0], evict |-> [w \in RsWorkers |-> 0],
              delta |-> [w \in RsWorkers |-> 0], dropped |-> [w \in RsWorkers |-> 0],
              reg |-> [w \in RsWorkers |-> NoTimer], renewer |-> {}, astray |-> FALSE,
              reader |-> [id |-> NoId, n |-> 0],
              log |-> <<>>, reused |-> FALSE, wiped |-> FALSE, deleted |-> FALSE,
              refused |-> FALSE, skipped |-> FALSE, idle |-> FALSE]
  BY Zenon DEF RsInit
<1>2. /\ rs.conf \in RsSetups /\ rs.now = 2 /\ rs.back = 0
      /\ rs.chan = NoChannel /\ rs.list = NoList /\ rs.counts = NoCounts /\ rs.msgs = <<>>
      /\ rs.up = [w \in RsWorkers |-> TRUE] /\ rs.real = [w \in RsWorkers |-> 0]
      /\ rs.delta = [w \in RsWorkers |-> 0] /\ rs.dropped = [w \in RsWorkers |-> 0]
      /\ rs.reg = [w \in RsWorkers |-> NoTimer] /\ rs.renewer = {}
      /\ rs.reader = [id |-> NoId, n |-> 0] /\ rs.log = <<>>
      /\ rs.reused = FALSE /\ rs.wiped = FALSE /\ rs.deleted = FALSE
      /\ rs.refused = FALSE /\ rs.skipped = FALSE /\ rs.idle = FALSE
  BY <1>1, Zenon
<1>3. DOMAIN rs = RsFields
  BY <1>1, Zenon DEF RsFields
<1>4. DOMAIN rs.msgs = {} /\ Len(rs.log) = 0 /\ rs.list.ids = <<>> /\ Len(rs.list.ids) = 0 /\ rs.list.exp = Never
  BY <1>2 DEF NoList
<1>5. rs.chan.cur = NoId /\ rs.reader.id = NoId /\ rs.chan.exp = Never
  BY <1>2, BareTyped
<1>6. rs.list \in IdList
  BY <1>2, Numbers DEF NoList, IdList, Times
<1>7. CountsOK(rs) /\ DOMAIN rs.counts.of = {}
  BY <1>2, Numbers DEF CountsOK, NoCounts, Times
<1>8. MsgsOK(rs)
  BY <1>2, <1>4 DEF MsgsOK
<1>9. KeysOK(rs)
  BY <1>2, <1>3, <1>6, <1>7, <1>8, Numbers, BareTyped DEF KeysOK, ChanOK
<1>10. RestOK(rs)
  <2>1. rs.reg \in [RsWorkers -> Registration]
    BY <1>2, Numbers DEF Registration, NoTimer
  <2>2. rs.reader \in [id : Ids \cup {NoId}, n : Nat]
    BY <1>2
  <2>3. /\ rs.up \in [RsWorkers -> BOOLEAN] /\ rs.real \in [RsWorkers -> Nat]
        /\ rs.delta \in [RsWorkers -> Int] /\ rs.dropped \in [RsWorkers -> Nat]
    BY <1>2
  <2>4. rs.log \in Seq(Ids) /\ rs.back \in 0..1
    BY <1>2
  <2>5. rs.reused \in BOOLEAN /\ rs.wiped \in BOOLEAN /\ rs.deleted \in BOOLEAN
    BY <1>2, Zenon
  <2> QED BY <1>2, <2>1, <2>2, <2>3, <2>4, <2>5, Zenon DEF RestOK
<1>11. Lasting(rs) /\ Linked(rs) /\ Fresh(rs)
  BY <1>4, <1>5 DEF Lasting, Linked, Fresh
<1>12. Counted(rs)
  BY <1>2, <1>7 DEF Counted
<1>13. Ordered(rs.list.ids, rs.log)
  BY <1>4 DEF Ordered
<1>14. \A w \in RsWorkers : ~rs.reg[w].on /\ rs.reg[w].interval = 0
  <2>1. ~NoTimer.on /\ NoTimer.interval = 0
    BY Zenon DEF NoTimer
  <2>2. \A w \in RsWorkers : rs.reg[w] = NoTimer
    BY <1>2
  <2> QED BY <2>1, <2>2, Zenon
<1>15. Registered(rs) = {} /\ rs.chan.subs = 0
  <2>1. Registered(rs) = {}
    BY <1>14, Zenon DEF Registered
  <2>2. NoChannel.subs = 0
    BY Zenon DEF NoChannel, BareChannel
  <2> QED BY <1>2, <2>1, <2>2, Zenon
<1>16. Cardinality(Registered(rs)) = 0
  BY <1>15, RegisteredCount, Zenon
<1>17. Alive(rs)
  BY <1>2, <1>15, <1>16 DEF Alive
<1>18. Bounded(rs)
  BY <1>5, <1>14, Zenon DEF Bounded
<1> QED BY <1>2, <1>9, <1>10, <1>11, <1>12, <1>13, <1>17, <1>18, Zenon DEF RsInv

-----------------------------------------------------------------------------
(* The channel of a registered subscriber is kept alive. *)

LifeInv(d) == Bounded(d) /\ Alive(d)

(* Nobody is registered with a channel that is not there or has no subscribers. *)
LEMMA NobodyThere ==
    ASSUME CountingFacts, NEW d, KeysOK(d), Alive(d), ~d.deleted, ~d.astray, ~d.chan.on \/ d.chan.subs <= 0
    PROVE  Registered(d) = {}
<1>1. CASE ~d.chan.on
  BY <1>1, Zenon DEF Alive, InTime
<1>2. CASE d.chan.subs <= 0
  <2>1. PICK n, subs : n = Cardinality(Registered(d)) /\ subs = d.chan.subs
    BY Zenon
  <2>2. n \in Nat /\ subs \in Int /\ n <= subs /\ subs <= 0
    BY <1>2, <2>1, RegisteredCount, Zenon DEF Alive, KeysOK, ChanOK, Channel
  <2>3. n = 0
    BY <2>2
  <2> QED BY <2>1, <2>3, RegisteredCount, Zenon
<1> QED BY <1>1, <1>2, Zenon

(* Keepalives are due at some time. *)
LEMMA DueTime ==
    ASSUME NEW d, RestOK(d), NEW w \in RsWorkers
    PROVE  d.reg[w].due \in Nat /\ d.reg[w].on \in BOOLEAN
<1>1. d.reg[w] \in Registration
  BY Zenon DEF RestOK
<1> QED BY <1>1, Zenon DEF Registration

(* Only the channel and its workers matter to its life. *)
LEMMA LifeFrame ==
    ASSUME NEW d, LifeInv(d), NEW e, e.chan.on = d.chan.on, e.chan.exp = d.chan.exp, e.chan.subs = d.chan.subs,
           e.now = d.now, e.up = d.up, e.reg = d.reg, e.renewer = d.renewer, e.astray = d.astray, e.deleted = d.deleted
    PROVE  LifeInv(e)
<1>1. Bounded(e)
  BY Zenon DEF LifeInv, Bounded
<1>2. Registered(e) = Registered(d)
  BY Zenon DEF Registered
<1>3. InTime(d) => InTime(e)
  BY Zenon DEF InTime
<1>4. Alive(e)
  BY <1>2, <1>3, Zenon DEF LifeInv, Alive
<1> QED BY <1>1, <1>4, Zenon DEF LifeInv

(* Fields that do not. *)
LifeFree == {"left", "evict", "back", "real", "delta", "dropped", "refused", "skipped", "idle", "reader",
             "counts", "list", "msgs", "log", "reused", "wiped"}
LEMMA LifeSame ==
    ASSUME NEW d, LifeInv(d), NEW e, Same(d, e, LifeFree)
    PROVE  LifeInv(e)
<1>1. /\ e.chan = d.chan /\ e.now = d.now /\ e.up = d.up /\ e.reg = d.reg
      /\ e.renewer = d.renewer /\ e.astray = d.astray /\ e.deleted = d.deleted
  BY Zenon DEF Same, RsFields, LifeFree
<1> QED BY <1>1, LifeFrame, Zenon

(* A message gives the channel more time, never less. *)
LEMMA PublishLife ==
    ASSUME NEW d, KeysOK(d), RestOK(d), LifeInv(d), NEW id, NEW max, NEW ttl \in 1..FourYears,
           NEW e, Published(d, e, id, max, ttl)
    PROVE  LifeInv(e)
<1>1. Same(d, e, {"chan", "msgs", "reused", "log", "list", "counts"}) /\ e.chan.on /\ e.chan.subs = d.chan.subs
      /\ e.chan.exp = IF Longer(d, ttl) THEN d.now + ttl + 1 ELSE d.chan.exp
  BY Zenon DEF Published
<1>2. /\ e.now = d.now /\ e.up = d.up /\ e.reg = d.reg
      /\ e.renewer = d.renewer /\ e.astray = d.astray /\ e.deleted = d.deleted
  BY <1>1, Zenon DEF Same, RsFields
<1>3. d.now \in Nat /\ d.now <= MaxClock /\ d.chan.exp \in Nat
  BY ExpTime, Zenon
<1>4. CASE ~Longer(d, ttl)
  <2>1. e.chan.exp = d.chan.exp
    BY <1>1, <1>4, Zenon
  <2>2. Bounded(e)
    BY <1>2, <2>1, Zenon DEF LifeInv, Bounded
  <2>3. Registered(e) = Registered(d)
    BY <1>2, Zenon DEF Registered
  <2>4. InTime(d) => InTime(e)
    BY <1>1, <1>2, <2>1, Zenon DEF InTime
  <2>5. Alive(e)
    BY <1>1, <1>2, <2>3, <2>4, Zenon DEF LifeInv, Alive
  <2> QED BY <2>2, <2>5, Zenon DEF LifeInv
<1>5. CASE Longer(d, ttl)
  <2>1. PICK exp : exp = d.now + ttl + 1
    BY Zenon
  <2>2. exp \in Nat /\ exp # Never /\ exp <= d.now + FourYears + 1 /\ (d.chan.exp # Never => d.chan.exp < exp)
    BY <1>3, <1>5, <2>1, Numbers DEF Longer
  <2>3. e.chan.exp = exp
    BY <1>1, <1>5, <2>1, Zenon
  <2>4. Bounded(e)
    BY <1>2, <2>2, <2>3, Zenon DEF LifeInv, Bounded
  <2>5. Registered(e) = Registered(d) /\ Registered(d) \subseteq RsWorkers
    BY <1>2, Zenon DEF Registered
  <2>6. ASSUME InTime(d), d.renewer \subseteq RsWorkers PROVE InTime(e)
    <3>1. PICK w \in d.renewer : d.chan.exp # Never /\ d.reg[w].due < d.chan.exp
      BY <2>6, Zenon DEF InTime
    <3>2. d.reg[w].due < exp
      <4>1. PICK due : due = d.reg[w].due
        BY Zenon
      <4>2. due < d.chan.exp /\ d.chan.exp < exp
        BY <2>2, <3>1, <4>1, Zenon
      <4>3. due \in Nat
        BY <2>6, <4>1, DueTime, Zenon
      <4>4. due < exp
        BY <1>3, <2>2, <4>2, <4>3
      <4> QED BY <4>1, <4>4, Zenon
    <3> QED BY <1>1, <1>2, <2>2, <2>3, <3>1, <3>2, Zenon DEF InTime
  <2>7. Alive(e)
    BY <1>1, <1>2, <2>5, <2>6, Zenon DEF LifeInv, Alive
  <2> QED BY <2>4, <2>7, Zenon DEF LifeInv
<1> QED BY <1>4, <1>5, Zenon

(* A head changes and the channel with it: what an answer with a time for the next keepalive leaves. *)
LEMMA AnswerLife ==
    ASSUME NEW d, RestOK(d), LifeInv(d), NEW w \in RsWorkers, NEW r, Renews(d, r), Same(d, r.d, {"chan", "list", "counts"}),
           NEW g, NEW e, WritesHead(r.d, e, w, g), g.due = d.now + r.next, e.renewer = {w}, e.astray = d.astray,
           ~d.deleted /\ ~d.astray => Cardinality(Registered(e)) <= r.d.chan.subs
    PROVE  LifeInv(e)
<1>1. d.reg \in [RsWorkers -> Registration]
  BY Zenon DEF RestOK
<1>2. r.d.reg = d.reg /\ r.d.now = d.now /\ r.d.up = d.up /\ r.d.deleted = d.deleted
  BY Zenon DEF Same, RsFields
<1>3. /\ e.chan = r.d.chan /\ e.now = d.now /\ e.up = d.up /\ e.deleted = d.deleted /\ e.reg[w] = g
      /\ \A v \in RsWorkers \ {w} : e.reg[v] = d.reg[v]
  <2>1. PICK x : x = r.d
    BY Zenon
  <2>2. WritesHead(x, e, w, g) /\ x.reg \in [RsWorkers -> Registration]
    BY <1>1, <1>2, <2>1, Zenon
  <2>3. /\ e.chan = x.chan /\ e.now = x.now /\ e.up = x.up /\ e.deleted = x.deleted /\ e.reg[w] = g
        /\ \A v \in RsWorkers \ {w} : e.reg[v] = x.reg[v]
    BY <2>2, HeadFrame
  <2> QED BY <1>2, <2>1, <2>3, Zenon
<1>4. g.interval = 0 \/ Fits(g.interval)
  BY Zenon DEF WritesHead, HeadOK
<1>5. Bounded(e)
  BY <1>3, <1>4, Zenon DEF LifeInv, Bounded, Renews
<1>6. InTime(e)
  BY <1>3, Zenon DEF InTime, Renews
<1>7. Alive(e)
  BY <1>3, <1>6, Zenon DEF Alive
<1> QED BY <1>5, <1>7, Zenon DEF LifeInv

(* A lost command leaves only the bounds. *)
LEMMA AstrayLife ==
    ASSUME NEW d, LifeInv(d), NEW e, Bounded(e), e.renewer = d.renewer, e.astray = TRUE
    PROVE  LifeInv(e)
  BY Zenon DEF LifeInv, Alive

(* A script that renews keeps the bounds. *)
LEMMA RenewsBounded ==
    ASSUME NEW d, Bounded(d), NEW r, Renews(d, r), Same(d, r.d, {"chan", "list", "counts"})
    PROVE  Bounded(r.d)
<1>1. r.d.reg = d.reg /\ r.d.now = d.now
  BY Zenon DEF Same, RsFields
<1> QED BY <1>1, Zenon DEF Bounded, Renews

(* A registration makes the worker the one that renews the channel. *)
LEMMA RegisterLife ==
    ASSUME CountingFacts, RsInv(rs), LifeInv(rs), NEW w \in RsWorkers, rs_register(w)
    PROVE  LifeInv(rs')
<1>1. KeysOK(rs) /\ RestOK(rs) /\ Bounded(rs) /\ Alive(rs)
  BY Zenon DEF RsInv, LifeInv
<1>2. rs.up[w] /\ ~rs.reg[w].on
  BY <1>1, RegisterShape, Zenon
<1>3. PICK ttl, r, g : /\ Fits(ttl) /\ r = subscriber_register(rs, ttl) /\ g.on
                       /\ \/ /\ WritesHead(r.d, rs', w, g) /\ g.due = rs.now + r.next
                             /\ rs'.renewer = {w} /\ rs'.astray = rs.astray
                          \/ /\ WritesHead(rs, rs', w, g) \/ WritesHead(r.d, rs', w, g)
                             /\ rs'.renewer = rs.renewer /\ rs'.astray = TRUE
  BY <1>1, RegisterShape, Zenon
<1>4. Renews(rs, r)
  BY <1>1, <1>3, RegisterRenews, Zenon
<1>5. Same(rs, r.d, {"chan", "list", "counts"}) /\ r.d.chan.subs = IF rs.chan.on THEN rs.chan.subs + 1 ELSE 1
  BY <1>1, <1>3, RegisterParts
<1>6. RsInv(r.d) /\ Bounded(r.d)
  BY <1>1, <1>3, <1>4, <1>5, RegisterInv, RenewsBounded, Zenon
<1>7. CASE /\ WritesHead(r.d, rs', w, g) /\ g.due = rs.now + r.next
           /\ rs'.renewer = {w} /\ rs'.astray = rs.astray
  <2>1. ASSUME ~rs.deleted, ~rs.astray PROVE Cardinality(Registered(rs')) <= r.d.chan.subs
    <3>1. r.d.reg \in [RsWorkers -> Registration] /\ r.d.reg = rs.reg /\ r.d.up = rs.up
      BY <1>1, <1>5, Zenon DEF Same, RsFields, RestOK
    <3>2. rs'.up = rs.up /\ rs'.reg[w] = g /\ \A v \in RsWorkers \ {w} : rs'.reg[v] = rs.reg[v]
      <4>1. PICK x : x = r.d
        BY Zenon
      <4>2. WritesHead(x, rs', w, g) /\ x.reg \in [RsWorkers -> Registration]
        BY <1>7, <3>1, <4>1, Zenon
      <4>3. rs'.up = x.up /\ rs'.reg[w] = g /\ \A v \in RsWorkers \ {w} : rs'.reg[v] = x.reg[v]
        BY <4>2, HeadFrame
      <4> QED BY <3>1, <4>1, <4>3, Zenon
    <3>3. Registered(rs') = Registered(rs) \cup {w} /\ w \notin Registered(rs)
      BY <1>2, <1>3, <3>2, Zenon DEF Registered
    <3>4. PICK n, m, subs : n = Cardinality(Registered(rs)) /\ m = Cardinality(Registered(rs')) /\ subs = rs.chan.subs
      BY Zenon
    <3>5. n \in Nat /\ m = n + 1 /\ subs \in Int /\ n <= subs
      <4>1. Registered(rs) \in SUBSET RsWorkers /\ n \in Nat
        BY <3>4, RegisteredCount, Zenon
      <4>2. m = n + 1
        BY <3>3, <3>4, <4>1, Zenon DEF CountingFacts
      <4> QED BY <1>1, <2>1, <3>4, <4>1, <4>2, Zenon DEF Alive, KeysOK, ChanOK, Channel
    <3>6. ~rs.chan.on => n = 0
      BY <1>1, <2>1, <3>4, NobodyThere, RegisteredCount, Zenon
    <3> QED BY <1>5, <3>4, <3>5, <3>6
  <2> QED BY <1>1, <1>4, <1>5, <1>7, <2>1, AnswerLife, Zenon
<1>8. CASE /\ WritesHead(rs, rs', w, g) \/ WritesHead(r.d, rs', w, g)
           /\ rs'.renewer = rs.renewer /\ rs'.astray = TRUE
  <2>1. Bounded(rs')
    BY <1>1, <1>6, <1>8, HeadInv, Zenon
  <2> QED BY <1>8, <2>1, AstrayLife, Zenon
<1> QED BY <1>3, <1>7, <1>8, Zenon

(* A keepalive does as well, and one that is answered with -1 tells of a channel nobody is registered with. *)
LEMMA KeepaliveLife ==
    ASSUME CountingFacts, RsInv(rs), LifeInv(rs), NEW w \in RsWorkers, rs_keepalive(w)
    PROVE  LifeInv(rs')
<1>1. KeysOK(rs) /\ RestOK(rs) /\ Bounded(rs) /\ Alive(rs)
  BY Zenon DEF RsInv, LifeInv
<1>2. PICK ttl, r, g :
          /\ Fits(ttl) /\ r = channel_keepalive(rs, ttl) /\ g.on = rs.reg[w].on
          /\ \/ /\ r.next # -1 /\ WritesHead(r.d, rs', w, g) /\ g.due = rs.now + r.next
                /\ rs'.renewer = {w} /\ rs'.astray = rs.astray
             \/ /\ r.next = -1 /\ WritesHead(r.d, rs', w, g)
                /\ rs'.renewer = rs.renewer \ {w} /\ rs'.astray = rs.astray
             \/ /\ WritesHead(rs, rs', w, g) \/ WritesHead(r.d, rs', w, g)
                /\ rs'.renewer = rs.renewer /\ rs'.astray = TRUE
  BY <1>1, KeepaliveShape, Zenon
<1>3. /\ r.next = -1 => r.d = rs /\ (~rs.chan.on \/ rs.chan.subs <= 0)
      /\ r.next # -1 => Renews(rs, r) /\ r.d.chan.subs = rs.chan.subs
      /\ r.d = rs \/ (~Long(rs, ttl) /\ Renewed(rs, r.d, ttl))
      /\ Same(rs, r.d, {"chan", "list", "counts"})
  <2>1. Fits(ttl) /\ r = channel_keepalive(rs, ttl)
    BY <1>2, Zenon
  <2> QED BY <1>1, <2>1, KeepaliveRenews
<1>4. RsInv(r.d) /\ Bounded(r.d)
  <2>1. RsInv(r.d)
    BY <1>2, <1>3, RenewInv, Zenon
  <2>2. Bounded(r.d)
    BY <1>1, <1>3, RenewsBounded, Zenon
  <2> QED BY <2>1, <2>2, Zenon
<1>5. r.d.reg \in [RsWorkers -> Registration] /\ r.d.reg = rs.reg /\ r.d.up = rs.up
  BY <1>1, <1>3, Zenon DEF Same, RsFields, RestOK
<1>6. ASSUME NEW d \in {rs, r.d}, WritesHead(d, rs', w, g) PROVE Registered(rs') = Registered(rs)
  <2>1. d.reg \in [RsWorkers -> Registration] /\ d.reg = rs.reg /\ d.up = rs.up
    BY <1>1, <1>5, <1>6, Zenon DEF RestOK
  <2>2. rs'.up = d.up /\ rs'.reg[w] = g /\ \A v \in RsWorkers \ {w} : rs'.reg[v] = d.reg[v]
    <3>1. PICK x : x = d
      BY Zenon
    <3>2. WritesHead(x, rs', w, g) /\ x.reg \in [RsWorkers -> Registration]
      BY <1>6, <2>1, <3>1, Zenon
    <3>3. rs'.up = x.up /\ rs'.reg[w] = g /\ \A v \in RsWorkers \ {w} : rs'.reg[v] = x.reg[v]
      BY <3>2, HeadFrame
    <3> QED BY <3>1, <3>3, Zenon
  <2>3. \A v \in RsWorkers : rs'.reg[v].on = rs.reg[v].on
    BY <1>2, <2>1, <2>2, Zenon
  <2> QED BY <2>1, <2>2, <2>3, Zenon DEF Registered
<1>7. CASE /\ r.next # -1 /\ WritesHead(r.d, rs', w, g) /\ g.due = rs.now + r.next
           /\ rs'.renewer = {w} /\ rs'.astray = rs.astray
  <2>1. ~rs.deleted /\ ~rs.astray => Cardinality(Registered(rs')) <= r.d.chan.subs
    BY <1>1, <1>3, <1>6, <1>7, Zenon DEF Alive
  <2> QED BY <1>1, <1>3, <1>7, <2>1, AnswerLife, Zenon
<1>8. CASE /\ r.next = -1 /\ WritesHead(r.d, rs', w, g)
           /\ rs'.renewer = rs.renewer \ {w} /\ rs'.astray = rs.astray
  <2>1. r.d = rs /\ Registered(rs') = Registered(rs) /\ Bounded(rs')
    BY <1>3, <1>4, <1>6, <1>8, HeadInv, Zenon
  <2>2. rs'.chan = rs.chan /\ rs'.deleted = rs.deleted
    BY <1>8, <2>1, Zenon DEF WritesHead, Same, RsFields, HeadFields
  <2>3. ~rs.deleted /\ ~rs.astray => Registered(rs) = {}
    BY <1>1, <1>3, <1>8, NobodyThere, Zenon
  <2>4. Alive(rs')
    BY <1>1, <1>8, <2>1, <2>2, <2>3, Zenon DEF Alive
  <2> QED BY <2>1, <2>4, Zenon DEF LifeInv
<1>9. CASE /\ WritesHead(rs, rs', w, g) \/ WritesHead(r.d, rs', w, g)
           /\ rs'.renewer = rs.renewer /\ rs'.astray = TRUE
  <2>1. Bounded(rs')
    BY <1>1, <1>4, <1>9, HeadInv, Zenon
  <2> QED BY <1>9, <2>1, AstrayLife, Zenon
<1> QED BY <1>2, <1>7, <1>8, <1>9, Zenon

(* A subscriber that leaves takes time from the channel only when it was the last. *)
LEMMA UnregisterLife ==
    ASSUME CountingFacts, RsInv(rs), LifeInv(rs), NEW w \in RsWorkers, rs_unregister(w)
    PROVE  LifeInv(rs')
<1>1. KeysOK(rs) /\ RestOK(rs) /\ Bounded(rs) /\ Alive(rs) /\ rs.reg \in [RsWorkers -> Registration]
  BY Zenon DEF RsInv, LifeInv, RestOK
<1>2. rs.up[w] /\ rs.reg[w].on
  BY <1>1, UnregisterShape, Zenon
<1>3. PICK g : /\ ~g.on /\ g.due = rs.reg[w].due /\ rs'.renewer = rs.renewer /\ rs'.astray = rs.astray
               /\ \/ WritesHead(rs, rs', w, g)
                  \/ \E empty_ttl \in ChannelTimeouts :
                        WritesHead(subscriber_unregister(rs, empty_ttl), rs', w, g)
  BY <1>1, UnregisterShape, Zenon
<1>4. PICK x : /\ WritesHead(x, rs', w, g)
               /\ x = rs \/ \E empty_ttl \in ChannelTimeouts : x = subscriber_unregister(rs, empty_ttl)
  BY <1>3, Zenon
<1>5. x = rs \/ (Unregistered(rs, x) /\ RsInv(x))
  BY <1>1, <1>4, UnregisterParts, UnregisterInv, Zenon
<1>6. x.reg = rs.reg /\ x.up = rs.up /\ x.now = rs.now /\ x.deleted = rs.deleted
  BY <1>5, Zenon DEF Unregistered, Same, RsFields
<1>7. /\ rs'.chan = x.chan /\ rs'.up = rs.up /\ rs'.deleted = rs.deleted /\ rs'.reg[w] = g
      /\ \A v \in RsWorkers \ {w} : rs'.reg[v] = rs.reg[v]
  <2>1. x.reg \in [RsWorkers -> Registration]
    BY <1>1, <1>6, Zenon
  <2>2. /\ rs'.chan = x.chan /\ rs'.up = x.up /\ rs'.deleted = x.deleted /\ rs'.reg[w] = g
        /\ \A v \in RsWorkers \ {w} : rs'.reg[v] = x.reg[v]
    BY <1>4, <2>1, HeadFrame
  <2> QED BY <1>6, <2>2, Zenon
<1>8. Bounded(rs')
  <2>1. x.chan.exp = Never \/ x.chan.exp <= rs.now + FourYears + 1
    <3>1. CASE x.chan.exp \in {rs.chan.exp, Never}
      BY <1>1, <3>1, Zenon DEF Bounded
    <3>2. CASE x.chan.exp <= rs.now + FourYears /\ RsInv(x)
      <4>1. x.chan.exp \in Nat /\ rs.now \in Nat
        BY <1>1, <3>2, ExpTime, Zenon DEF RsInv
      <4> QED BY <3>2, <4>1, Numbers
    <3> QED BY <1>5, <3>1, <3>2, Zenon DEF Unregistered
  <2>2. Bounded(x)
    BY <1>1, <1>6, <2>1, Zenon DEF Bounded
  <2>3. RsInv(x)
    BY <1>5, Zenon
  <2> QED BY <1>4, <2>2, <2>3, HeadInv, Zenon
<1>9. Registered(rs') = Registered(rs) \ {w} /\ w \in Registered(rs)
  BY <1>2, <1>3, <1>7, Zenon DEF Registered
<1>10. ASSUME ~rs.deleted, ~rs.astray
       PROVE  Cardinality(Registered(rs')) <= x.chan.subs /\ (Registered(rs') # {} => InTime(rs'))
  <2>1. PICK n, m, subs : n = Cardinality(Registered(rs)) /\ m = Cardinality(Registered(rs')) /\ subs = rs.chan.subs
    BY Zenon
  <2>2. Registered(rs) \in SUBSET RsWorkers /\ Registered(rs') \in SUBSET RsWorkers /\ n \in Nat /\ m \in Nat
    BY <1>9, <2>1, RegisteredCount, Zenon DEF CountingFacts
  <2>3. m = n - 1 /\ (m = 0 <=> Registered(rs') = {})
    BY <1>9, <2>1, <2>2, Zenon DEF CountingFacts
  <2>4. subs \in Int /\ n <= subs /\ InTime(rs)
    BY <1>1, <1>9, <1>10, <2>1, Zenon DEF Alive, KeysOK, ChanOK, Channel
  <2>5. x.chan.subs = subs \/ x.chan.subs = subs - 1
    BY <1>5, <2>1, <2>4, Zenon DEF Unregistered, InTime
  <2>6. m <= x.chan.subs
    BY <2>2, <2>3, <2>4, <2>5
  <2>7. ASSUME Registered(rs') # {} PROVE InTime(rs')
    <3>1. subs # 1
      BY <2>2, <2>3, <2>4, <2>7
    <3>2. x.chan.on /\ x.chan.exp = rs.chan.exp
      BY <1>5, <2>1, <2>4, <3>1, Zenon DEF Unregistered, InTime
    <3>3. PICK v \in rs.renewer : rs.reg[v].due < rs.chan.exp
      BY <2>4, Zenon DEF InTime
    <3>4. v \in RsWorkers
      BY <1>1, <3>3, Zenon DEF Alive
    <3>5. rs'.reg[v].due = rs.reg[v].due
      BY <1>3, <1>7, <3>4, Zenon
    <3> QED BY <1>3, <1>7, <2>4, <3>2, <3>3, <3>5, Zenon DEF InTime
  <2> QED BY <2>1, <2>6, <2>7, Zenon
<1>11. Alive(rs')
  BY <1>1, <1>3, <1>7, <1>10, Zenon DEF Alive
<1> QED BY <1>8, <1>11, Zenon DEF LifeInv

(* A head that goes is not the one that renews the channel, unless that is noted or nobody else is registered. *)
LEMMA GoneLife ==
    ASSUME CountingFacts, RsInv(rs), LifeInv(rs), NEW w \in RsWorkers, NEW x, WritesHead(rs, x, w, NoTimer),
           x.renewer = rs.renewer \ {w},
           x.astray = (rs.astray \/ (w \in rs.renewer /\ Registered(rs) \ {w} # {})),
           NEW e, Bounded(e), e.chan = x.chan, e.reg = x.reg, e.renewer = x.renewer, e.astray = x.astray,
           e.deleted = x.deleted, \A v \in RsWorkers \ {w} : e.up[v] = x.up[v]
    PROVE  LifeInv(e)
<1>1. KeysOK(rs) /\ RestOK(rs) /\ Bounded(rs) /\ Alive(rs) /\ rs.reg \in [RsWorkers -> Registration]
  BY Zenon DEF RsInv, LifeInv, RestOK
<1>2. /\ e.chan = rs.chan /\ e.deleted = rs.deleted /\ e.reg[w] = NoTimer
      /\ \A v \in RsWorkers \ {w} : e.reg[v] = rs.reg[v] /\ e.up[v] = rs.up[v]
  <2>1. /\ x.chan = rs.chan /\ x.up = rs.up /\ x.deleted = rs.deleted /\ x.reg[w] = NoTimer
        /\ \A v \in RsWorkers \ {w} : x.reg[v] = rs.reg[v]
    BY <1>1, HeadFrame
  <2> QED BY <2>1, Zenon
<1>3. ~NoTimer.on
  BY Zenon DEF NoTimer
<1>4. Registered(e) = Registered(rs) \ {w}
  BY <1>2, <1>3, Zenon DEF Registered
<1>5. ASSUME ~rs.deleted, ~e.astray
      PROVE  Cardinality(Registered(e)) <= rs.chan.subs /\ (Registered(e) # {} => InTime(e))
  <2>1. ~rs.astray /\ (w \in rs.renewer => Registered(e) = {})
    BY <1>4, <1>5, Zenon
  <2>2. PICK n, m, subs : n = Cardinality(Registered(rs)) /\ m = Cardinality(Registered(e)) /\ subs = rs.chan.subs
    BY Zenon
  <2>3. Registered(rs) \in SUBSET RsWorkers /\ n \in Nat /\ m \in Nat
    BY <2>2, RegisteredCount, Zenon
  <2>4. m <= n
    BY <1>4, <2>2, <2>3, Zenon DEF CountingFacts
  <2>5. n <= subs /\ subs \in Int /\ (Registered(rs) # {} => InTime(rs))
    BY <1>1, <1>5, <2>1, <2>2, Zenon DEF Alive, KeysOK, ChanOK, Channel
  <2>6. m <= subs
    BY <2>3, <2>4, <2>5
  <2>7. ASSUME Registered(e) # {} PROVE InTime(e)
    <3>1. InTime(rs) /\ w \notin rs.renewer
      BY <1>4, <2>1, <2>5, <2>7, Zenon
    <3>2. PICK v \in rs.renewer : rs.reg[v].due < rs.chan.exp
      BY <3>1, Zenon DEF InTime
    <3>3. v \in RsWorkers \ {w}
      BY <1>1, <3>1, <3>2, Zenon DEF Alive
    <3> QED BY <1>2, <3>1, <3>2, <3>3, Zenon DEF InTime
  <2> QED BY <2>2, <2>6, <2>7, Zenon
<1>6. Alive(e)
  BY <1>1, <1>2, <1>5, Zenon DEF Alive
<1> QED BY <1>6, Zenon DEF LifeInv

(* As long as keepalives are sent when they are due, no second passes that the channel does not survive. *)
LEMMA TickLife ==
    ASSUME CountingFacts, RsInv(rs), LifeInv(rs), rs_tick
    PROVE  LifeInv(rs')
<1>1. KeysOK(rs) /\ RestOK(rs) /\ Bounded(rs) /\ Alive(rs) /\ DOMAIN rs = RsFields
  BY Zenon DEF RsInv, LifeInv, KeysOK
<1>2. PICK x : x = [rs EXCEPT !.now = rs.now + 1, !.wiped = FALSE]
  BY Zenon
<1>3. rs.now < MaxClock /\ rs' = expired(x) /\ \A w \in RsWorkers : rs.reg[w].due > rs.now
  BY <1>2, Zenon DEF rs_tick
<1>4. /\ DOMAIN x = RsFields /\ x.now = rs.now + 1 /\ x.chan = rs.chan /\ x.list = rs.list /\ x.counts = rs.counts
      /\ x.msgs = rs.msgs /\ x.up = rs.up /\ x.reg = rs.reg
      /\ x.renewer = rs.renewer /\ x.astray = rs.astray /\ x.deleted = rs.deleted
  BY <1>1, <1>2, Zenon DEF RsFields
<1>5. rs.now \in Nat /\ rs.chan.exp \in Nat /\ rs.now \in 2..MaxClock
  BY <1>1, ExpTime, Zenon DEF KeysOK
<1>6. KeysOK(x)
  <2>1. x.now \in 2..MaxClock
    BY <1>3, <1>4, <1>5, Numbers
  <2> QED BY <1>1, <1>4, <2>1, Zenon DEF KeysOK, ChanOK, MsgsOK, CountsOK
<1>7. /\ Same(x, rs', {"chan", "list", "counts", "msgs"})
      /\ rs'.chan = IF rs.chan.exp <= rs.now + 1 THEN NoChannel ELSE rs.chan
  BY <1>3, <1>4, <1>6, ExpiredParts, Zenon
<1>8. /\ rs'.now = rs.now + 1 /\ rs'.up = rs.up /\ rs'.reg = rs.reg
      /\ rs'.renewer = rs.renewer /\ rs'.astray = rs.astray /\ rs'.deleted = rs.deleted
  BY <1>4, <1>7, Zenon DEF Same, RsFields
<1>9. NoChannel.subs = 0 /\ NoChannel.exp = Never
  BY Zenon DEF NoChannel, BareChannel
<1>10. Bounded(rs')
  <2>1. rs.chan.exp = Never \/ rs.chan.exp <= rs.now + FourYears + 1
    BY <1>1, Zenon DEF Bounded
  <2>2. rs.chan.exp <= rs.now + FourYears + 1 => rs.chan.exp <= (rs.now + 1) + FourYears + 1
    BY <1>5, Numbers
  <2>3. rs'.chan.exp = Never \/ rs'.chan.exp <= (rs.now + 1) + FourYears + 1
    <3>1. CASE rs'.chan = NoChannel
      BY <1>9, <3>1, Zenon
    <3>2. CASE rs'.chan = rs.chan
      BY <2>1, <2>2, <3>2, Zenon
    <3> QED BY <1>7, <3>1, <3>2, Zenon
  <2> QED BY <1>1, <1>8, <2>3, Zenon DEF Bounded
<1>11. Registered(rs') = Registered(rs)
  BY <1>8, Zenon DEF Registered
<1>12. ASSUME ~rs.deleted, ~rs.astray
       PROVE  Cardinality(Registered(rs)) <= rs'.chan.subs /\ (Registered(rs) # {} => InTime(rs'))
  <2>1. Cardinality(Registered(rs)) <= rs.chan.subs /\ (Registered(rs) # {} => InTime(rs))
    BY <1>1, <1>12, Zenon DEF Alive
  <2>2. CASE Registered(rs) = {}
    <3>1. Cardinality(Registered(rs)) = 0
      BY <2>2, RegisteredCount, Zenon
    <3>2. CASE rs'.chan = NoChannel
      <4>1. rs'.chan.subs = 0
        BY <1>9, <3>2, Zenon
      <4> QED BY <2>2, <3>1, <4>1
    <3>3. CASE rs'.chan = rs.chan
      BY <2>1, <2>2, <3>3, Zenon
    <3> QED BY <1>7, <3>2, <3>3, Zenon
  <2>3. CASE Registered(rs) # {}
    <3>1. PICK v \in rs.renewer : rs.reg[v].due < rs.chan.exp
      BY <2>1, <2>3, Zenon DEF InTime
    <3>2. v \in RsWorkers
      BY <1>1, <3>1, Zenon DEF Alive
    <3>3. PICK due : due = rs.reg[v].due
      BY Zenon
    <3>4. due \in Nat /\ due > rs.now /\ due < rs.chan.exp
      BY <1>1, <1>3, <3>1, <3>2, <3>3, DueTime, Zenon
    <3>5. ~(rs.chan.exp <= rs.now + 1)
      BY <1>5, <3>4
    <3>6. rs'.chan = rs.chan
      BY <1>7, <3>5, Zenon
    <3>7. InTime(rs')
      BY <1>8, <2>1, <2>3, <3>6, Zenon DEF InTime
    <3> QED BY <2>1, <3>6, <3>7, Zenon
  <2> QED BY <2>2, <2>3, Zenon
<1>13. Alive(rs')
  BY <1>1, <1>8, <1>11, <1>12, Zenon DEF Alive
<1> QED BY <1>10, <1>13, Zenon DEF LifeInv


(* Publishing keeps the channel alive. *)
LEMMA PublishStep ==
    ASSUME CountingFacts, RsInv(rs), LifeInv(rs), rs_publish
    PROVE  LifeInv(rs')
<1>1. /\ KeysOK(rs) /\ RestOK(rs) /\ rs.log \in Seq(Ids) /\ DOMAIN rs = RsFields
      /\ rs.back \in 0..1 /\ rs.conf \in RsSetups
  BY Zenon DEF RsInv, KeysOK, RestOK
<1>2. PICK timeout \in rs.conf.ttls, max \in rs.conf.lengths : rs' = spend(publish(rs, timeout, max), "publishes")
  BY Zenon DEF rs_publish
<1>3. PICK id : id = next_id(rs)
  BY Zenon
<1>4. PICK ttl : ttl = IF timeout = 0 THEN FourYears ELSE timeout
  BY Zenon
<1>5. timeout \in 0..FourYears /\ max \in Int
  BY <1>1, RsAssumption, Zenon
<1>6. id \in Ids /\ ttl \in 1..FourYears
  BY <1>1, <1>3, <1>4, <1>5, Numbers, NextId
<1>7. CASE id \in DOMAIN rs.msgs
  <2>1. PICK x : x = [rs EXCEPT !.refused = rs.refused \/ (rs.back = 0 /\ ~rs.wiped)]
    BY Zenon
  <2>2. Same(rs, x, {"refused"})
    BY <1>1, <2>1, Zenon DEF Same, RsFields
  <2>3. rs' = spend(x, "publishes") /\ DOMAIN x = RsFields
    BY <1>2, <1>3, <1>7, <2>1, <2>2, Zenon DEF publish, Same
  <2>4. Same(x, rs', {"left"})
    BY <2>3, SpendParts
  <2>5. Same(rs, rs', LifeFree)
    BY <2>2, <2>4, Zenon DEF Same, LifeFree
  <2> QED BY <2>5, LifeSame, Zenon
<1>8. CASE id \notin DOMAIN rs.msgs
  <2>1. PICK x : x = forget_uncounted(set_expirations(store_id(write_message(rs, id, max), id, max), id, ttl))
    BY Zenon
  <2>2. Published(rs, x, id, max, ttl)
    BY <1>1, <1>5, <1>6, <1>8, <2>1, PublishParts, Zenon
  <2>3. rs' = spend(x, "publishes")
    BY <1>2, <1>3, <1>4, <1>8, <2>1, Zenon DEF publish
  <2>4. DOMAIN x = RsFields
    BY <2>2, Zenon DEF Published, Same
  <2>5. Same(x, rs', {"left"})
    BY <2>3, <2>4, SpendParts
  <2>6. LifeInv(x)
    BY <1>1, <1>6, <2>2, PublishLife, Zenon
  <2>7. Same(x, rs', LifeFree)
    BY <2>5, Zenon DEF Same, LifeFree
  <2> QED BY <2>6, <2>7, LifeSame, Zenon
<1> QED BY <1>7, <1>8, Zenon

(* A reader only looks, and sees to it that the list ends with a message that is there. *)
LEMMA GetMessageShape ==
    ASSUME DOMAIN rs = RsFields, DOMAIN oldestmsg(rs) = RsFields, rs_get_message
    PROVE  \E d \in {rs, oldestmsg(rs)} : Same(d, rs', {"left", "reader", "skipped", "idle"})
<1>1. PICK d : d = get_message_lua(rs, rs.reader.id)
  BY Zenon
<1>2. d \in {rs, oldestmsg(rs)} /\ DOMAIN d = RsFields
  BY <1>1, Zenon DEF get_message_lua
<1>3. \/ \E v, b : rs' = spend([d EXCEPT !.reader = v, !.skipped = b], "reads")
      \/ \E b : rs' = spend([d EXCEPT !.idle = b], "reads")
      \/ \E v : rs' = spend([d EXCEPT !.reader = v], "reads")
  <2> DEFINE got == get_message_lua(rs, rs.reader.id)
             later == {m \in Range(rs.msgs) : ~m.unbuffered /\ m.n > rs.reader.n}
             next == message_after(rs, rs.reader.id).id
             n == rs.msgs[next].n
             skips == IF rs.reader.id = NoId THEN \E m \in later : m.n < n ELSE n # rs.reader.n + 1
  <2>1. \/ rs' = spend([got EXCEPT !.reader = [id |-> next, n |-> n],
                                   !.skipped = @ \/ (~rs.reused /\ skips)], "reads")
        \/ rs' = spend([got EXCEPT !.idle = @ \/ (~rs.reused /\ later # {})], "reads")
        \/ rs' = spend([got EXCEPT !.reader = [id |-> NoId, n |-> 0]], "reads")
    BY Zenon DEF rs_get_message
  <2> QED BY <1>1, <2>1, Zenon
<1>4. \E y : Same(d, y, {"reader", "skipped", "idle"}) /\ rs' = spend(y, "reads")
  <2>1. CASE \E v, b : rs' = spend([d EXCEPT !.reader = v, !.skipped = b], "reads")
    <3>1. PICK v, b : rs' = spend([d EXCEPT !.reader = v, !.skipped = b], "reads")
      BY <2>1, Zenon
    <3>2. PICK y : y = [d EXCEPT !.reader = v, !.skipped = b]
      BY Zenon
    <3>3. Same(d, y, {"reader", "skipped", "idle"})
      BY <1>2, <3>2, Zenon DEF Same, RsFields
    <3> QED BY <3>1, <3>2, <3>3, Zenon
  <2>2. CASE \E b : rs' = spend([d EXCEPT !.idle = b], "reads")
    <3>1. PICK b : rs' = spend([d EXCEPT !.idle = b], "reads")
      BY <2>2, Zenon
    <3>2. PICK y : y = [d EXCEPT !.idle = b]
      BY Zenon
    <3>3. Same(d, y, {"reader", "skipped", "idle"})
      BY <1>2, <3>2, Zenon DEF Same, RsFields
    <3> QED BY <3>1, <3>2, <3>3, Zenon
  <2>3. CASE \E v : rs' = spend([d EXCEPT !.reader = v], "reads")
    <3>1. PICK v : rs' = spend([d EXCEPT !.reader = v], "reads")
      BY <2>3, Zenon
    <3>2. PICK y : y = [d EXCEPT !.reader = v]
      BY Zenon
    <3>3. Same(d, y, {"reader", "skipped", "idle"})
      BY <1>2, <3>2, Zenon DEF Same, RsFields
    <3> QED BY <3>1, <3>2, <3>3, Zenon
  <2> QED BY <1>3, <2>1, <2>2, <2>3, Zenon
<1>5. PICK y : Same(d, y, {"reader", "skipped", "idle"}) /\ rs' = spend(y, "reads")
  BY <1>4, Zenon
<1>6. Same(y, rs', {"left"})
  BY <1>5, SpendParts DEF Same
<1>7. Same(d, rs', {"left", "reader", "skipped", "idle"})
  BY <1>5, <1>6, Zenon DEF Same
<1> QED BY <1>2, <1>7, Zenon

(* Looking up the channel or a message changes nothing of its life. *)
LEMMA LookStep ==
    ASSUME CountingFacts, RsInv(rs), LifeInv(rs), rs_find \/ rs_get_message \/ rs_failover
    PROVE  LifeInv(rs')
<1> DEFINE F == {"left", "back", "counts", "reader", "skipped", "idle"}
<1>1. KeysOK(rs) /\ DOMAIN rs = RsFields
  BY Zenon DEF RsInv, KeysOK
<1>2. PICK o : o = oldestmsg(rs)
  BY Zenon
<1>3. Same(rs, o, {"list"}) /\ KeysOK(o) /\ DOMAIN o = RsFields
  BY <1>1, <1>2, OldestParts, Zenon DEF KeysOK
<1>4. ASSUME NEW x, KeysOK(x), NEW y, y = forget_uncounted(x)
      PROVE  Same(x, y, {"counts"})
  BY <1>4, ForgetParts, Zenon
<1>5. \E x \in {rs, o} : Same(x, rs', F)
  <2>1. CASE rs_find
    <3>1. PICK y : y \in {find_channel(rs), nostore_publish_multiexec_channel_info(rs)} /\ rs' = spend(y, "finds")
      BY <2>1, Zenon DEF rs_find
    <3>2. y \in {forget_uncounted(o), forget_uncounted(rs), rs}
      BY <1>2, <3>1, Zenon DEF find_channel, nostore_publish_multiexec_channel_info
    <3>3. PICK x \in {rs, o} : y \in {forget_uncounted(x), rs} /\ (y = rs => x = rs)
      BY <3>2, Zenon
    <3>4. Same(x, y, {"counts"})
      <4>1. CASE y = rs
        BY <1>1, <3>3, <4>1, Zenon DEF Same
      <4>2. CASE y # rs
        BY <1>1, <1>3, <1>4, <3>3, <4>2, Zenon
      <4> QED BY <4>1, <4>2, Zenon
    <3>5. DOMAIN y = RsFields
      BY <3>4, Zenon DEF Same
    <3>6. Same(y, rs', {"left"})
      BY <3>1, <3>5, SpendParts
    <3> QED BY <3>4, <3>6, Zenon DEF Same
  <2>2. CASE rs_get_message
    <3>1. \E d \in {rs, oldestmsg(rs)} : Same(d, rs', {"left", "reader", "skipped", "idle"})
      BY <1>1, <1>2, <1>3, <2>2, GetMessageShape, Zenon
    <3> QED BY <1>2, <3>1, Zenon DEF Same
  <2>3. CASE rs_failover
    <3>1. PICK x : x = [rs EXCEPT !.back = 1]
      BY Zenon
    <3>2. Same(rs, x, {"back"}) /\ DOMAIN x = RsFields
      BY <1>1, <3>1, Zenon DEF Same, RsFields
    <3>3. rs' = spend(x, "backs")
      BY <2>3, <3>1, Zenon DEF rs_failover
    <3>4. Same(x, rs', {"left"})
      BY <3>2, <3>3, SpendParts
    <3> QED BY <3>2, <3>4, Zenon DEF Same
  <2> QED BY <2>1, <2>2, <2>3, Zenon
<1>6. PICK x \in {rs, o} : Same(x, rs', F)
  BY <1>5, Zenon
<1>7. Same(rs, x, {"list"})
  BY <1>1, <1>3, Zenon DEF Same
<1>8. Same(rs, rs', LifeFree)
  BY <1>6, <1>7, Zenon DEF Same, LifeFree
<1> QED BY <1>8, LifeSame, Zenon

(* A change in the number of subscribers may create the channel, with which nobody is registered then. *)
LEMMA SendStep ==
    ASSUME CountingFacts, RsInv(rs), LifeInv(rs), NEW w \in RsWorkers, send_redis_fakesub_delta(w)
    PROVE  LifeInv(rs')
<1>1. KeysOK(rs) /\ RestOK(rs) /\ Bounded(rs) /\ Alive(rs)
  BY Zenon DEF RsInv, LifeInv
<1>2. CASE rs' = spend([rs EXCEPT !.delta[w] = 0, !.dropped[w] = @ + Max({0, -rs.delta[w]})], "losses")
  <2>1. Same(rs, rs', TellFields)
    BY <1>2, TellStep, Zenon
  <2>2. Same(rs, rs', LifeFree)
    BY <2>1, Zenon DEF Same, LifeFree, TellFields
  <2> QED BY <2>2, LifeSame, Zenon
<1>3. CASE rs' = [add_fakesub(rs, w, rs.delta[w]) EXCEPT !.delta[w] = 0]
  <2>1. PICK x : x = add_fakesub(rs, w, rs.delta[w])
    BY Zenon
  <2>2. rs' = [x EXCEPT !.delta[w] = 0]
    BY <1>3, <2>1, Zenon
  <2>3. Faked(rs, x, w, rs.delta[w]) /\ Same(x, rs', {"delta"})
    BY <1>1, <2>1, <2>2, SendShape, Zenon
  <2>4. /\ rs'.chan = x.chan /\ rs'.now = rs.now /\ rs'.up = rs.up /\ rs'.reg = rs.reg
        /\ rs'.renewer = rs.renewer /\ rs'.astray = rs.astray /\ rs'.deleted = rs.deleted
    BY <2>3, Zenon DEF Faked, Same, RsFields
  <2>5. CASE rs.chan.on
    <3>1. x.chan.on = TRUE /\ rs.chan.on = TRUE /\ x.chan.exp = rs.chan.exp /\ x.chan.subs = rs.chan.subs
      <4>1. rs.chan.on \in BOOLEAN /\ x.chan.on \in BOOLEAN
        BY <1>1, <2>3, Zenon DEF Faked, KeysOK, ChanOK, Channel
      <4> QED BY <2>3, <2>5, <4>1, Zenon DEF Faked
    <3>2. rs'.chan.on = rs.chan.on /\ rs'.chan.exp = rs.chan.exp /\ rs'.chan.subs = rs.chan.subs
      BY <2>4, <3>1, Zenon
    <3> QED BY <2>4, <3>2, LifeFrame, Zenon
  <2>6. CASE ~rs.chan.on
    <3>1. x.chan.subs = 0 /\ x.chan.exp \in {Never, rs.now + 5}
      BY <2>3, <2>6, Zenon DEF Faked
    <3>2. rs.now + 5 <= rs.now + FourYears + 1
      <4>1. rs.now \in Nat
        BY <1>1, ExpTime, Zenon
      <4> QED BY <4>1, Numbers
    <3>3. rs'.chan.exp = Never \/ rs'.chan.exp <= rs.now + FourYears + 1
      BY <2>4, <3>1, <3>2, Zenon
    <3>4. Bounded(rs')
      BY <1>1, <2>4, <3>3, Zenon DEF Bounded
    <3>5. Registered(rs') = Registered(rs)
      BY <2>4, Zenon DEF Registered
    <3>6. ASSUME ~rs.deleted, ~rs.astray
          PROVE  Registered(rs) = {} /\ Cardinality(Registered(rs)) <= rs'.chan.subs
      <4>1. Registered(rs) = {}
        BY <1>1, <2>6, <3>6, NobodyThere, Zenon
      <4>2. Cardinality(Registered(rs)) = 0
        BY <4>1, RegisteredCount, Zenon
      <4>3. rs'.chan.subs = 0
        BY <2>4, <3>1, Zenon
      <4> QED BY <4>1, <4>2, <4>3
    <3>7. Alive(rs')
      BY <1>1, <2>4, <3>5, <3>6, Zenon DEF Alive
    <3> QED BY <3>4, <3>7, Zenon DEF LifeInv
  <2> QED BY <2>5, <2>6, Zenon
<1> QED BY <1>2, <1>3, Zenon DEF send_redis_fakesub_delta

(* A channel that is deleted is not kept alive. *)
LEMMA DeleteStep ==
    ASSUME RsInv(rs), LifeInv(rs), rs_delete
    PROVE  LifeInv(rs')
<1>1. KeysOK(rs) /\ Bounded(rs) /\ Alive(rs)
  BY Zenon DEF RsInv, LifeInv
<1>2. PICK x : x = del_messages(rs, Range(rs.list.ids))
  BY Zenon
<1>3. PICK y : y = del_all(x)
  BY Zenon
<1>4. PICK z : z = [y EXCEPT !.wiped = TRUE, !.deleted = TRUE]
  BY Zenon
<1>5. PICK u : u = [z EXCEPT !.evict = rs.real]
  BY Zenon
<1>6. rs' = spend(u, "deletes")
  BY <1>2, <1>3, <1>4, <1>5, Zenon DEF rs_delete, delete
<1>7. Same(rs, x, {"msgs"}) /\ KeysOK(x)
  BY <1>1, <1>2, DelMessagesParts
<1>8. Same(x, y, {"chan", "list", "counts"}) /\ y.chan = NoChannel
  BY <1>3, <1>7, DelAllParts, Zenon
<1>9. DOMAIN y = RsFields
  BY <1>8, Zenon DEF Same
<1>10. Same(y, z, {"wiped", "deleted"}) /\ z.deleted = TRUE /\ DOMAIN z = RsFields
  BY <1>4, <1>9, Zenon DEF Same, RsFields
<1>11. Same(z, u, {"evict"}) /\ DOMAIN u = RsFields
  BY <1>5, <1>10, Zenon DEF Same, RsFields
<1>12. Same(u, rs', {"left"})
  BY <1>6, <1>11, SpendParts
<1>13. rs'.chan = NoChannel /\ rs'.reg = rs.reg /\ rs'.renewer = rs.renewer /\ rs'.deleted = TRUE
  BY <1>7, <1>8, <1>10, <1>11, <1>12, Zenon DEF Same, RsFields
<1>14. rs'.chan.exp = Never
  BY <1>13, BareTyped, Zenon
<1>15. Bounded(rs')
  BY <1>1, <1>13, <1>14, Zenon DEF Bounded
<1>16. Alive(rs')
  BY <1>1, <1>13, Zenon DEF Alive
<1> QED BY <1>15, <1>16, Zenon DEF LifeInv

(* Each step keeps the channel alive. *)
LEMMA LifeStep ==
    ASSUME CountingFacts, RsInv(rs), LifeInv(rs), RsNext PROVE LifeInv(rs')
<1>1. KeysOK(rs) /\ RestOK(rs) /\ Bounded(rs)
  BY Zenon DEF RsInv, LifeInv
<1>2. ASSUME NEW w \in RsWorkers, rs_join(w) \/ rs_leave(w)
      PROVE  LifeInv(rs')
  <2>1. Same(rs, rs', TellFields)
    BY <1>2, TellStep, Zenon
  <2>2. Same(rs, rs', LifeFree)
    BY <2>1, Zenon DEF Same, LifeFree, TellFields
  <2> QED BY <2>2, LifeSame, Zenon
<1>3. ASSUME NEW w \in RsWorkers, rs_reap(w)
      PROVE  LifeInv(rs')
  <2>1. rs' = leave_head(rs, w)
    BY <1>3, Zenon DEF rs_reap
  <2>2. /\ WritesHead(rs, rs', w, NoTimer) /\ rs'.renewer = rs.renewer \ {w}
        /\ rs'.astray = (rs.astray \/ (w \in rs.renewer /\ Registered(rs) \ {w} # {}))
    BY <1>1, <2>1, LeaveParts, Zenon
  <2>3. Bounded(rs')
    BY <1>1, <2>2, HeadInv, Zenon
  <2> QED BY <2>2, <2>3, GoneLife, Zenon
<1>4. ASSUME NEW w \in RsWorkers, rs_crash(w)
      PROVE  LifeInv(rs')
  <2>1. PICK x : /\ WritesHead(rs, x, w, NoTimer) /\ x.renewer = rs.renewer \ {w}
                 /\ x.astray = (rs.astray \/ (w \in rs.renewer /\ Registered(rs) \ {w} # {}))
                 /\ Same(x, rs', {"left", "up", "real", "evict", "delta"})
                 /\ rs'.up = [rs.up EXCEPT ![w] = FALSE]
    BY <1>4, CrashShape, Zenon
  <2>2. /\ rs'.chan = x.chan /\ rs'.now = x.now /\ rs'.reg = x.reg /\ rs'.renewer = x.renewer
        /\ rs'.astray = x.astray /\ rs'.deleted = x.deleted
    BY <2>1, Zenon DEF Same, RsFields
  <2>3. Bounded(x)
    BY <1>1, <2>1, HeadInv, Zenon
  <2>4. Bounded(rs')
    BY <2>2, <2>3, Zenon DEF Bounded
  <2>5. rs.up \in [RsWorkers -> BOOLEAN] /\ x.up = rs.up
    BY <1>1, <2>1, Zenon DEF RestOK, WritesHead, Same, RsFields, HeadFields
  <2>6. \A v \in RsWorkers \ {w} : rs'.up[v] = x.up[v]
    BY <2>1, <2>5, Zenon
  <2> QED BY <2>1, <2>2, <2>4, <2>6, GoneLife, Zenon
<1> QED BY <1>2, <1>3, <1>4, PublishStep, DeleteStep, LookStep, TickLife, RegisterLife, UnregisterLife,
           KeepaliveLife, SendStep, Zenon DEF RsNext

-----------------------------------------------------------------------------
(* What follows counts: it needs finite sets and sums over them. *)
INSTANCE Counting

(* The facts that the steps rest on. *)
LEMMA CountingHolds == CountingFacts
<1>1. ASSUME NEW n \in Nat, NEW S \in SUBSET (1..n), S # {}
      PROVE  \E m \in S : \A k \in S : k <= m
  <2> DEFINE T == {n - k : k \in S}
  <2>1. \A k \in S : n - k \in Nat
    BY <1>1
  <2>2. T \in SUBSET Nat /\ T # {}
    BY <1>1, <2>1, Zenon
  <2>3. PICK x \in T : \A y \in T : x <= y
    BY <2>2, LeastNat, Zenon
  <2>4. PICK m \in S : x = n - m
    BY <2>3, Zenon
  <2>5. ASSUME NEW k \in S PROVE k <= m
    BY <1>1, <2>3, <2>4
  <2> QED BY <2>5, Zenon
<1>2. ASSUME NEW S \in SUBSET RsWorkers
      PROVE  IsFiniteSet(S) /\ Cardinality(S) \in Nat /\ (Cardinality(S) = 0 <=> S = {})
  BY RsAssumption, FS_Subset, FS_CardinalityType, FS_EmptySet, Zenon
<1>3. ASSUME NEW S \in SUBSET RsWorkers
      PROVE  /\ \A T \in SUBSET S : Cardinality(T) <= Cardinality(S)
             /\ \A w \in RsWorkers \ S : Cardinality(S \cup {w}) = Cardinality(S) + 1
             /\ \A w \in S : Cardinality(S \ {w}) = Cardinality(S) - 1
  BY <1>2, FS_Subset, FS_AddElement, FS_RemoveElement, Zenon
<1> QED BY <1>1, <1>2, <1>3, Zenon DEF CountingFacts

(* The invariant is what makes the keys of the channel fit together. *)
LEMMA InvSafe ==
    ASSUME RsInv(rs) PROVE RsSafe /\ ReaderMissesNothing
<1>1. KeysOK(rs) /\ RestOK(rs) /\ Lasting(rs) /\ Linked(rs) /\ Counted(rs) /\ ~rs.refused /\ ReaderMissesNothing
  BY Zenon DEF RsInv, ReaderMissesNothing
<1>2. /\ rs.now \in 2..MaxClock /\ ChanOK(rs) /\ rs.list \in IdList /\ MsgsOK(rs) /\ CountsOK(rs)
  BY <1>1, Zenon DEF KeysOK
<1>3. rs.log \in Seq(Ids) /\ rs.back \in 0..1 /\ rs.real \in [RsWorkers -> Nat] /\ rs.up \in [RsWorkers -> BOOLEAN]
  BY <1>1, Zenon DEF RestOK
<1>4. rs.list.ids \in Seq(Ids) /\ rs.list.exp \in Times
  BY <1>2, Zenon DEF IdList
<1>5. rs.chan.exp \in Times /\ rs.chan.subs \in Int /\ rs.chan.fake \in Int
  BY <1>2, Zenon DEF ChanOK, Channel
<1>6. RsTypeOK
  <2>1. Range(rs.list.ids) \subseteq Range(rs.log)
    <3>1. DOMAIN rs.list.ids = 1..Len(rs.list.ids) /\ DOMAIN rs.log = 1..Len(rs.log)
      BY <1>3, <1>4, SMTT(30)
    <3>2. \A k \in 1..Len(rs.list.ids) : \E j \in 1..Len(rs.log) : rs.log[j] = rs.list.ids[k]
      BY <1>1, ZenonT(30) DEF Linked
    <3> QED BY <3>1, <3>2, Zenon DEF Range
  <2>2. DOMAIN rs.msgs \subseteq Range(rs.log)
    BY <1>1, <1>3, SMTT(30) DEF Linked, Placed, Range
  <2>3. DOMAIN rs.counts.of \subseteq RsWorkers
    BY <1>2, Zenon DEF CountsOK
  <2>4. ~rs.chan.on => rs.chan = NoChannel
    BY <1>2, Zenon DEF ChanOK
  <2>5. rs.now \in 0..MaxClock
    BY <1>2, Numbers, SMTT(30)
  <2> QED BY <1>3, <1>5, <2>1, <2>2, <2>3, <2>4, <2>5, Zenon DEF RsTypeOK
<1>7. NoOrphans
  BY <1>1, <1>4 DEF Lasting, NoOrphans, Range
<1>8. ChannelOutlives
  <2> SUFFICES ASSUME NEW i \in DOMAIN rs.msgs, ~rs.msgs[i].unbuffered
               PROVE  rs.chan.on /\ rs.chan.exp > rs.msgs[i].exp /\ rs.list.exp > rs.msgs[i].exp
    BY Zenon DEF ChannelOutlives, Range
  <2>1. rs.msgs[i].exp \in Int
    BY <1>2, Numbers DEF MsgsOK, Message, Times
  <2>2. rs.chan.on /\ rs.msgs[i].exp < rs.chan.exp /\ rs.list.exp \in {rs.chan.exp, Never}
    BY <1>1, Zenon DEF Lasting
  <2> QED BY <1>5, <2>1, <2>2, Numbers, SMTT(30) DEF Times
<1>9. PrevIsPredecessor
  BY <1>1, Zenon DEF Linked, Placed, PrevIsPredecessor
<1>10. NeverOverCounted
  <2>1. counted(rs) \subseteq RsWorkers
    BY <1>2, Zenon DEF counted, CountsOK
  <2>2. \A w \in RsWorkers : Claimed[w] \in Nat /\ (w \in counted(rs) => rs.counts.of[w] <= Claimed[w])
    <3> SUFFICES ASSUME NEW w \in RsWorkers
                 PROVE  Claimed[w] \in Nat /\ (w \in counted(rs) => rs.counts.of[w] <= Claimed[w])
      BY Zenon
    <3>1. PICK real, delta, dropped : real = rs.real[w] /\ delta = rs.delta[w] /\ dropped = rs.dropped[w]
      BY Zenon
    <3>2. real \in Nat /\ delta \in Int /\ dropped \in Nat /\ delta <= real
      BY <1>1, <3>1, Zenon DEF RestOK, Counted
    <3>3. Claimed[w] = real - delta + dropped
      BY <3>1, Zenon DEF Claimed
    <3>4. ASSUME w \in counted(rs) PROVE rs.counts.of[w] <= real - delta + dropped
      <4>1. rs.counts.of[w] \in Int /\ rs.counts.of[w] + delta <= real + dropped
        BY <1>1, <1>2, <3>1, <3>4, Zenon DEF counted, Counted, CountsOK
      <4> QED BY <3>2, <4>1
    <3>5. real - delta + dropped \in Nat
      BY <3>2
    <3> QED BY <3>3, <3>4, <3>5, Zenon
  <2>3. \A w \in counted(rs) : rs.counts.of[w] \in Int
    BY <1>2, Zenon DEF counted, CountsOK
  <2>4. IsFiniteSet(RsWorkers)
    BY RsAssumption, Zenon
  <2>5. PICK is, was, T : is = rs.counts.of /\ was = Claimed /\ T = counted(rs)
    BY Zenon
  <2>6. T \in SUBSET RsWorkers /\ (\A w \in T : is[w] \in Int /\ is[w] <= was[w]) /\ \A w \in RsWorkers : was[w] \in Nat
    BY <2>1, <2>2, <2>3, <2>5, Zenon
  <2>7. SumFunctionOnSet(is, T) <= SumFunctionOnSet(was, RsWorkers)
    BY <2>4, <2>6, SumAtMost, Zenon
  <2> QED BY <2>5, <2>7, Zenon DEF NeverOverCounted, subscriber_count
<1> QED BY <1>1, <1>6, <1>7, <1>8, <1>9, <1>10, Zenon DEF RsSafe, PublishAccepted

(* The invariant holds throughout, with the bounds that a keepalive's time needs. *)
LEMMA RsAlways == RsSpec => [](RsInv(rs) /\ LifeInv(rs))
<1>1. RsInit => RsInv(rs) /\ LifeInv(rs)
  BY RsStart, CountingHolds, Zenon DEF LifeInv
<1>2. RsInv(rs) /\ LifeInv(rs) /\ [RsNext]_rsVars => RsInv(rs') /\ LifeInv(rs')
  <2>1. RsInv(rs) /\ LifeInv(rs) /\ RsNext => RsInv(rs')
    BY RsStep, CountingHolds, Zenon DEF LifeInv
  <2>2. RsInv(rs) /\ LifeInv(rs) /\ RsNext => LifeInv(rs')
    BY LifeStep, CountingHolds, Zenon
  <2>3. RsInv(rs) /\ LifeInv(rs) /\ UNCHANGED rsVars => RsInv(rs') /\ LifeInv(rs')
    BY Zenon DEF rsVars
  <2> QED BY <2>1, <2>2, <2>3, Zenon
<1>3. (RsInv(rs) /\ LifeInv(rs))' <=> RsInv(rs') /\ LifeInv(rs')
  BY Zenon
<1> QED BY <1>1, <1>2, <1>3, PTL DEF RsSpec

(* In whatever order the scripts run and the keys expire, and whichever commands are lost, the keys of a
   channel fit together. *)
THEOREM KeysFitTogether == RsSpec => []RsSafe
<1>1. RsInv(rs) => RsSafe
  BY InvSafe, Zenon
<1> QED BY <1>1, RsAlways, PTL

(* A reader that follows the messages skips none and is not told to wait for
   one that is there. *)
THEOREM ReaderFollows == RsSpec => []ReaderMissesNothing
<1>1. RsInv(rs) => ReaderMissesNothing
  BY InvSafe, Zenon
<1> QED BY <1>1, RsAlways, PTL

(* The channel of a registered subscriber does not expire, whatever the intervals, messages and timeouts: the
   worker that renewed it last sends its next keepalive before that.  Unless the channel was deleted, a
   registration or keepalive was lost, or that worker gave up its head. *)
THEOREM SubscribersKeepChannel == RsSpec => []KeptAlive
<1>1. RsInv(rs) /\ LifeInv(rs) => KeptAlive
  <2> SUFFICES ASSUME RsInv(rs), LifeInv(rs), Active # {}, ~rs.deleted, ~rs.astray
               PROVE  rs.chan.on /\ \E w \in rs.renewer : rs.chan.exp > rs.reg[w].due
    BY Zenon DEF KeptAlive
  <2>1. Registered(rs) # {}
    BY Zenon DEF Registered, Active
  <2>2. InTime(rs) /\ rs.renewer \subseteq RsWorkers
    BY <2>1, Zenon DEF LifeInv, Alive
  <2>3. PICK w \in rs.renewer : rs.reg[w].due < rs.chan.exp
    BY <2>2, Zenon DEF InTime
  <2>4. rs.chan.exp > rs.reg[w].due
    BY <2>3
  <2> QED BY <2>2, <2>3, <2>4, Zenon DEF InTime
<1> QED BY <1>1, RsAlways, PTL

=============================================================================
