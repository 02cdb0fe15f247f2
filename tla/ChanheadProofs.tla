--------------------------- MODULE ChanheadProofs ---------------------------
(***************************************************************************)
(* Proofs about the heads of a channel on two workers (ChanheadLife): the  *)
(* alerts in the pipes between them, the inductive invariant, that what    *)
(* the owner does and what the worker F does keeps it, and that it makes   *)
(* the heads safe.                                                         *)
(***************************************************************************)
EXTENDS ChanheadLife, FiniteSetTheorems, TLAPS

-----------------------------------------------------------------------------
(* How many of the alerts in a pipe are in A. *)
Marked(q, A) == {k \in DOMAIN q : q[k] \in A}
Count(q, A) == Cardinality(Marked(q, A))

(* Only finitely many are. *)
LEMMA CountNat ==
    ASSUME NEW T, NEW q \in Seq(T), NEW A
    PROVE  /\ IsFiniteSet(Marked(q, A)) /\ Count(q, A) \in Nat
           /\ DOMAIN q = 1 .. Len(q) /\ Len(q) \in Nat
<1>1. DOMAIN q = 1 .. Len(q) /\ Len(q) \in Nat
  OBVIOUS
<1>2. IsFiniteSet(1 .. Len(q))
  BY <1>1, FS_Interval
<1>3. Marked(q, A) \subseteq 1 .. Len(q)
  BY <1>1, Zenon DEF Marked
<1>4. IsFiniteSet(Marked(q, A))
  BY <1>2, <1>3, FS_Subset, Zenon
<1> QED BY <1>1, <1>4, FS_CardinalityType, Zenon DEF Count

(* None is if there are none in the pipe, and if there are some, one is. *)
LEMMA CountNone ==
    ASSUME NEW T, NEW q \in Seq(T), NEW A
    PROVE  Count(q, A) = 0 <=> \A x \in Range(q) : x \notin A
<1>1. Count(q, A) = 0 <=> Marked(q, A) = {}
  BY CountNat, FS_EmptySet, Zenon DEF Count
<1> QED BY <1>1, Zenon DEF Marked, Range

(* One more alert at the end. *)
LEMMA CountAppend ==
    ASSUME NEW T, NEW q \in Seq(T), NEW x \in T, NEW A
    PROVE  Count(Append(q, x), A) = Count(q, A) + IF x \in A THEN 1 ELSE 0
<1>1. PICK n, p : n = Len(q) /\ p = Append(q, x)
  BY Zenon
<1>2. /\ n \in Nat /\ DOMAIN q = 1 .. n /\ DOMAIN p = 1 .. n + 1 /\ p[n + 1] = x
      /\ \A k \in 1 .. n : p[k] = q[k]
  BY <1>1
<1>3. n + 1 \notin Marked(q, A) /\ IsFiniteSet(Marked(q, A)) /\ Cardinality(Marked(q, A)) \in Nat
  <2>1. n + 1 \notin Marked(q, A)
    BY <1>2 DEF Marked
  <2> QED BY <2>1, CountNat, Zenon DEF Count
<1>4. CASE x \in A
  <2>1. Marked(p, A) = Marked(q, A) \cup {n + 1}
    BY <1>2, <1>4 DEF Marked
  <2>2. Cardinality(Marked(p, A)) = Cardinality(Marked(q, A)) + 1
    BY <1>3, <2>1, FS_AddElement, Zenon
  <2> QED BY <1>1, <1>4, <2>2, Zenon DEF Count
<1>5. CASE x \notin A
  <2>1. Marked(p, A) = Marked(q, A)
    BY <1>2, <1>5 DEF Marked
  <2> QED BY <1>1, <1>3, <1>5, <2>1 DEF Count
<1> QED BY <1>4, <1>5, Zenon

(* The first one is read. *)
LEMMA CountTail ==
    ASSUME NEW T, NEW q \in Seq(T), q # <<>>, NEW A
    PROVE  Count(Tail(q), A) = Count(q, A) - IF Head(q) \in A THEN 1 ELSE 0
<1>1. PICK p : p = Tail(q)
  BY Zenon
<1>2. PICK n : n = Len(p)
  BY Zenon
<1>3. /\ p \in Seq(T) /\ n \in Nat
      /\ DOMAIN p = 1 .. n /\ DOMAIN q = 1 .. n + 1 /\ Head(q) = q[1]
      /\ \A k \in 1 .. n : p[k] = q[k + 1]
  BY <1>1, <1>2
<1>4. PICK S, R : S = Marked(p, A) /\ R = Marked(q, A) \ {1}
  BY Zenon
<1>5. IsFiniteSet(S) /\ IsFiniteSet(Marked(q, A)) /\ Cardinality(Marked(q, A)) \in Nat
  BY <1>3, <1>4, CountNat, Zenon DEF Count
<1>6. Cardinality(S) = Cardinality(R)
  <2>1. PICK b : b = [k \in S |-> k + 1]
    BY Zenon
  <2>2. \A k \in S : k \in 1 .. n /\ b[k] = k + 1 /\ b[k] \in R
    BY <1>3, <1>4, <2>1 DEF Marked
  <2>3. \A j \in R : j - 1 \in S /\ b[j - 1] = j
    <3> TAKE j \in R
    <3>1. j \in 1 .. n + 1 /\ j # 1 /\ q[j] \in A
      BY <1>3, <1>4, Zenon DEF Marked
    <3>2. j - 1 \in 1 .. n /\ p[j - 1] = q[j]
      BY <1>3, <3>1
    <3>3. j - 1 \in S
      BY <1>3, <1>4, <3>1, <3>2, Zenon DEF Marked
    <3> QED BY <2>1, <3>1, <3>3
  <2>4. b \in Bijection(S, R)
    <3>1. b \in [S -> R]
      BY <2>1, <2>2, Zenon
    <3>2. \A j, k \in S : b[j] = b[k] => j = k
      BY <2>2
    <3>3. \A j \in R : \E k \in S : b[k] = j
      BY <2>3, Zenon
    <3> QED BY <3>1, <3>2, <3>3, Zenon DEF Bijection, Injection, Surjection, IsInjective
  <2> QED BY <1>5, <2>4, FS_Bijection, Zenon DEF ExistsBijection
<1>7. CASE Head(q) \in A
  <2>1. 1 \in Marked(q, A)
    BY <1>3, <1>7 DEF Marked
  <2>2. Cardinality(R) = Cardinality(Marked(q, A)) - 1
    BY <1>4, <1>5, <2>1, FS_RemoveElement, Zenon
  <2> QED BY <1>1, <1>4, <1>6, <1>7, <2>2, Zenon DEF Count
<1>8. CASE Head(q) \notin A
  <2>1. R = Marked(q, A)
    BY <1>3, <1>4, <1>8, Zenon DEF Marked
  <2>2. Count(Tail(q), A) = Count(q, A) /\ Count(q, A) \in Nat
    BY <1>1, <1>4, <1>5, <1>6, <2>1, Zenon DEF Count
  <2> QED BY <1>8, <2>2
<1> QED BY <1>7, <1>8, Zenon

(* Others are added. *)
LEMMA CountOthers ==
    ASSUME NEW T, NEW q \in Seq(T), NEW r \in Seq(T), NEW A, \A x \in Range(r) : x \notin A
    PROVE  Count(q \o r, A) = Count(q, A)
<1>1. PICK n \in Nat, m \in Nat : n = Len(q) /\ m = Len(r)
  OBVIOUS
<1>2. /\ DOMAIN q = 1 .. n /\ DOMAIN (q \o r) = 1 .. n + m /\ DOMAIN r = 1 .. m
      /\ \A k \in 1 .. n + m : (q \o r)[k] = IF k \in 1 .. n THEN q[k] ELSE r[k - n]
  BY <1>1
<1>3. \A k \in 1 .. n + m : k \notin 1 .. n => k - n \in 1 .. m
  OBVIOUS
<1>4. \A k \in 1 .. m : r[k] \notin A
  BY <1>2, Zenon DEF Range
<1>5. Marked(q \o r, A) = Marked(q, A)
  BY <1>2, <1>3, <1>4 DEF Marked
<1> QED BY <1>5, Zenon DEF Count

(* What is in a pipe. *)
LEMMA InPipe ==
    ASSUME NEW T, NEW q \in Seq(T)
    PROVE  /\ \A x \in T : Append(q, x) \in Seq(T) /\ Range(Append(q, x)) = Range(q) \cup {x}
           /\ q # <<>> => /\ Tail(q) \in Seq(T) /\ Range(Tail(q)) \subseteq Range(q)
                          /\ Head(q) \in Range(q) /\ Head(q) \in T /\ Head(q) = q[1]
           /\ \A r \in Seq(T) : q \o r \in Seq(T) /\ Range(q \o r) = Range(q) \cup Range(r)
           /\ Range(q) \subseteq T
<1>1. PICK n \in Nat : n = Len(q)
  OBVIOUS
<1>2. DOMAIN q = 1 .. n
  BY <1>1
<1>3. ASSUME NEW x \in T PROVE Append(q, x) \in Seq(T) /\ Range(Append(q, x)) = Range(q) \cup {x}
  <2>1. /\ Append(q, x) \in Seq(T) /\ DOMAIN Append(q, x) = 1 .. n + 1
        /\ Append(q, x)[n + 1] = x /\ \A k \in 1 .. n : Append(q, x)[k] = q[k]
    BY <1>1
  <2>2. Range(Append(q, x)) \subseteq Range(q) \cup {x}
    BY <1>2, <2>1 DEF Range
  <2>3. Range(q) \cup {x} \subseteq Range(Append(q, x))
    BY <1>2, <2>1 DEF Range
  <2> QED BY <2>1, <2>2, <2>3, Zenon
<1>4. ASSUME q # <<>> PROVE /\ Tail(q) \in Seq(T) /\ Range(Tail(q)) \subseteq Range(q)
                            /\ Head(q) \in Range(q) /\ Head(q) \in T /\ Head(q) = q[1]
  <2>1. /\ Tail(q) \in Seq(T) /\ DOMAIN Tail(q) = 1 .. n - 1
        /\ \A k \in 1 .. n - 1 : Tail(q)[k] = q[k + 1] /\ k + 1 \in 1 .. n
    BY <1>1, <1>4
  <2>2. Head(q) = q[1] /\ 1 \in 1 .. n /\ q[1] \in T
    BY <1>1, <1>4
  <2> QED BY <1>2, <2>1, <2>2 DEF Range
<1>5. ASSUME NEW r \in Seq(T) PROVE q \o r \in Seq(T) /\ Range(q \o r) = Range(q) \cup Range(r)
  <2>1. PICK m \in Nat : m = Len(r)
    OBVIOUS
  <2>2. /\ q \o r \in Seq(T) /\ DOMAIN (q \o r) = 1 .. n + m /\ DOMAIN r = 1 .. m
        /\ \A k \in 1 .. n + m : (q \o r)[k] = IF k \in 1 .. n THEN q[k] ELSE r[k - n]
    BY <1>1, <2>1
  <2>3. Range(q \o r) \subseteq Range(q) \cup Range(r)
    BY <1>2, <2>2 DEF Range
  <2>4. Range(q) \subseteq Range(q \o r)
    BY <1>2, <2>2 DEF Range
  <2>5. ASSUME NEW k \in 1 .. m PROVE r[k] \in Range(q \o r)
    <3>1. k + n \in 1 .. n + m /\ k + n \notin 1 .. n /\ (k + n) - n = k
      OBVIOUS
    <3> QED BY <2>2, <3>1, Zenon DEF Range
  <2> QED BY <2>2, <2>3, <2>4, <2>5, Zenon DEF Range
<1>6. Range(q) \subseteq T
  BY DEF Range
<1> QED BY <1>3, <1>4, <1>5, <1>6, Zenon

-----------------------------------------------------------------------------
(* The alerts. *)
Reply == [type : {"subscribe_reply"}, origin : Nat, head : Nat, sub : Nat]
Keepalive == [type : {"keepalive"}, sub : Nat, origin : Nat]
Plain == [type : {"publish_message", "publish_status", "unsubscribed"}]
ToForeign == Reply \cup Keepalive \cup Plain

Asking == [type : {"subscribe"}, origin : Nat]
Release == [type : {"chanhead_release", "nevermind_release"}, head : Nat, sub : Nat]
KeepaliveReply == [type : {"keepalive_reply"}, sub : Nat, action : {"RENEW", "NORENEW", "UNHOOK"}]
ToOwner == Asking \cup Release \cup KeepaliveReply

(* Replies with a head, and the keepalives of subscriber s on their way there
   and back. *)
Granting == {m \in Reply : m.head # 0}
Pings(s) == {m \in Keepalive : m.sub = s}
Pongs(s) == {m \in KeepaliveReply : m.sub = s}

(* The type of an alert tells its kind. *)
LEMMA ForeignKinds ==
    \A m \in ToForeign : /\ m.type = "subscribe_reply" <=> m \in Reply
                         /\ m.type = "keepalive" <=> m \in Keepalive
                         /\ m.type \in {"publish_message", "publish_status", "unsubscribed"} <=> m \in Plain
  BY Zenon DEF ToForeign, Reply, Keepalive, Plain

(* And so for the alerts to the owner. *)
LEMMA OwnerKinds ==
    \A m \in ToOwner : /\ m.type = "subscribe" <=> m \in Asking
                       /\ m.type \in {"chanhead_release", "nevermind_release"} <=> m \in Release
                       /\ m.type = "keepalive_reply" <=> m \in KeepaliveReply
  BY Zenon DEF ToOwner, Asking, Release, KeepaliveReply

(* Everything has its type, the alerts included. *)
PipesTypeOK ==
    /\ own \in Owner /\ fgn \in Foreign /\ ipc \in Seq(IpcSub) /\ crashes \in 0 .. 1
    /\ toF \in Seq(ToForeign) /\ toOwn \in Seq(ToOwner)

(* Between the owner's head o and F's head h, with r replies on their way:
   the shared data is referenced for h and for each reply, and h gives it up
   before it can be reaped. *)
Shares(o, h, r) ==
    /\ o.status = "none" => o.subs = 0 /\ o.reserved = 0
    /\ o.status # "none" => o.addr # 0
    /\ h.shared # 0 => o.status # "none" /\ o.addr = h.shared
    /\ h.status \in {"none", "INACTIVE", "NOTREADY"} => h.shared = 0
    /\ o.status # "none" => o.refs >= given_up(h) + r

(* The subscribers counted in the shared data are those of both heads. *)
Counts(o, h) ==
    o.status # "none" => o.shsubs = o.subs + IF h.shared # 0 THEN h.subs ELSE 0

(* The owner's head is reserved once for each reply on its way to F and each
   release on its way back. *)
Held == own.reserved = Count(toF, Granting) + Count(toOwn, Release)

(* The alerts name the owner's head and subscribers that there are. *)
Named ==
    /\ \A m \in Range(toF) :
         /\ m \in Granting => m.head = own.addr /\ m.sub \in DOMAIN ipc
         /\ m \in Keepalive => m.sub \in DOMAIN ipc
    /\ \A m \in Range(toOwn) :
         /\ m \in Release => m.head = own.addr /\ m.sub \in DOMAIN ipc
         /\ m \in KeepaliveReply => m.sub \in DOMAIN ipc

(* A subscriber is reserved for the one keepalive of it that is on its way to
   F or back, and sends no other meanwhile. *)
Calm(i) ==
    /\ i.reserved \in 0 .. 1
    /\ i.timer => i.reserved = 0
    /\ i.st = "lingering" => i.reserved = 1
    /\ i.st = "freed" => i.reserved = 0

Pinged ==
    \A s \in DOMAIN ipc :
        Calm(ipc[s]) /\ ipc[s].reserved = Count(toF, Pings(s)) + Count(toOwn, Pongs(s))

(* Ipc subscribers are those of a head that there is. *)
Attached == own.status = "none" => Enqueued = {}

(* What the two workers tell each other as long as F is not killed: F asks
   once and waits for the reply; everything else that is on its way to F is
   from the ipc subscriber it has or is about to get, the latest one, and
   ends with the news that this one is gone. *)
Talking == toF # <<>> /\ Head(toF) \in Granting

Dialogue ==
    /\ fgn.sub # 0 => fgn.sub = Len(ipc) /\ fgn.status = "READY"
    /\ Count(toOwn, Asking) + Count(toF, Reply) = IF fgn.status = "WAITING" THEN 1 ELSE 0
    /\ \A m \in Range(toOwn) :
         /\ m \in Asking => m.origin = fgn.addr
         /\ m.type # "nevermind_release"
         /\ m \in KeepaliveReply => m.action # "UNHOOK"
    /\ \A m \in Range(toF) :
         /\ m \in Reply => /\ m = Head(toF) /\ m.origin = fgn.addr
                           /\ IF m.head = 0 THEN Len(toF) = 1 ELSE m.sub = Len(ipc)
         /\ m \in Keepalive => m.sub = Len(ipc) /\ m.origin = fgn.addr
    /\ \A k \in DOMAIN toF :
         toF[k].type = "unsubscribed" => k = Len(toF) /\ Enqueued = {}
    /\ toF # <<>> /\ Head(toF) \notin Reply => fgn.sub # 0
    /\ \A s \in DOMAIN ipc : ipc[s].hooked
    /\ \A s \in Enqueued : s = Len(ipc) /\ ipc[s].origin = fgn.addr /\ (fgn.sub = s \/ Talking)

(* The inductive invariant. *)
HeadsInv ==
    /\ PipesTypeOK
    /\ Shares(own, fgn, Count(toF, Granting)) /\ Held /\ Named /\ Pinged /\ Attached
    /\ crashes = 0 => Dialogue /\ Counts(own, fgn)
    /\ ReleaseFindsHead /\ NoCrossedReplies

-----------------------------------------------------------------------------
(* F's head. *)

(* What ensuring a head does. *)
LEMMA EnsuredOK ==
    ASSUME NEW o \in Owner, NEW h \in Foreign, NEW r, Shares(o, h, r), NEW g, g = ensured(h)
    PROVE  /\ g \in Foreign /\ Shares(o, g, r)
           /\ g.addr = h.addr /\ g.subs = h.subs /\ g.sub = h.sub /\ g.shared = h.shared
           /\ h.sub # 0 => g.status = "READY"
           /\ h.sub = 0 => g.status = "WAITING"
           /\ h.sub = 0 /\ h.status = "WAITING" => g = h
<1>1. /\ g \in Foreign
      /\ g.addr = h.addr /\ g.subs = h.subs /\ g.sub = h.sub /\ g.shared = h.shared
      /\ h.sub # 0 => g.status = "READY"
      /\ h.sub = 0 => g.status = "WAITING"
      /\ h.sub = 0 /\ h.status = "WAITING" => g = h
  BY Zenon DEF ensured, must_ask, Foreign
<1>2. Shares(o, g, r)
  BY <1>1, Zenon DEF Shares, given_up
<1> QED BY <1>1, <1>2, Zenon

(* What finding or creating one does. *)
LEMMA FoundOK ==
    ASSUME PipesTypeOK, NEW r, Shares(own, fgn, r), NEW g, g = found
    PROVE  /\ g \in Foreign /\ Shares(own, g, r)
           /\ fgn.status # "none" => g = fgn
           /\ g.shared = fgn.shared /\ (fgn.status = "none" => g.subs = 0 /\ g.sub = 0)
           /\ Counts(own, fgn) => Counts(own, g)
<1>1. CASE fgn.status # "none"
  BY <1>1, Zenon DEF found, PipesTypeOK
<1>2. CASE fgn.status = "none"
  <2>1. g = created /\ fgn.shared = 0 /\ fgn.addr \in Nat
    BY <1>2, Zenon DEF found, Shares, PipesTypeOK, Foreign
  <2>2. g \in Foreign /\ g.shared = 0 /\ g.subs = 0 /\ g.sub = 0 /\ g.status = "NOTREADY"
    BY <2>1, ChanheadAssumption DEF created, Foreign
  <2> QED BY <1>2, <2>1, <2>2, Zenon DEF Shares, Counts, given_up
<1> QED BY <1>1, <1>2, Zenon

(* What n clients that leave h do to the owner's head o. *)
Left(o, h, n) ==
    IF h.shared = 0 THEN o
    ELSE [o EXCEPT !.shsubs = @ - n, !.refs = @ - (given_up(h) - given_up(bulk_dequeue(h, n)))]

(* Clients that leave F's head take their share out of what the owner's head
   counts, and the head that loses its last one may give up its reference
   (memstore_spooler_bulk_dequeue_handler). *)
LEMMA LeaveOK ==
    ASSUME NEW o \in Owner, NEW h \in Foreign, NEW r \in Int, Shares(o, h, r), NEW n \in 0 .. h.subs,
           NEW g, g = bulk_dequeue(h, n), NEW p, p = Left(o, h, n)
    PROVE  /\ g \in Foreign /\ p \in Owner /\ Shares(p, g, r)
           /\ Counts(o, h) => Counts(p, g)
           /\ g.addr = h.addr /\ g.sub = h.sub /\ (h.sub # 0 \/ h.status = "WAITING" => g.status = h.status)
           /\ (g.status = "WAITING" <=> h.status = "WAITING") /\ p.status = o.status
           /\ p.addr = o.addr /\ p.reserved = o.reserved
<1>1. /\ g \in Foreign /\ g.subs = h.subs - n /\ g.sub = h.sub /\ g.addr = h.addr
      /\ \/ g.status = h.status /\ g.shared = h.shared
         \/ /\ g.shared = 0 /\ g.subs = 0 /\ h.sub = 0
            /\ g.status \in {"WAITING", "INACTIVE"} /\ (h.status = "WAITING" <=> g.status = "WAITING")
  <2>1. PICK k : k = h.subs - n
    BY Zenon
  <2>2. k \in 0 .. MaxSubs
    BY <2>1, ChanheadAssumption DEF Foreign
  <2>3. PICK h1 : h1 = [h EXCEPT !.subs = k]
    BY Zenon
  <2>4. /\ h1 \in Foreign /\ h1.subs = k /\ h1.sub = h.sub /\ h1.addr = h.addr
        /\ h1.status = h.status /\ h1.shared = h.shared
    BY <2>2, <2>3, Zenon DEF Foreign
  <2>5. g = IF n > 0 /\ h1.subs = 0 /\ h.sub = 0 THEN gc_fgn(h1) ELSE h1
    BY <2>1, <2>3, Zenon DEF bulk_dequeue
  <2>6. /\ gc_fgn(h1) \in Foreign /\ gc_fgn(h1).shared = 0 /\ gc_fgn(h1).subs = k
        /\ gc_fgn(h1).sub = h.sub /\ gc_fgn(h1).addr = h.addr
        /\ gc_fgn(h1).status \in {"WAITING", "INACTIVE"}
        /\ h.status = "WAITING" <=> gc_fgn(h1).status = "WAITING"
    BY <2>4, Zenon DEF gc_fgn, Foreign
  <2> QED BY <2>1, <2>4, <2>5, <2>6, Zenon
<1>2. /\ p \in Owner /\ p.addr = o.addr /\ p.reserved = o.reserved /\ p.status = o.status /\ p.subs = o.subs
      /\ h.shared = 0 => p = o
      /\ h.shared # 0 => p.shsubs = o.shsubs - n /\ p.refs = o.refs - (given_up(h) - given_up(g))
  <2>1. PICK a \in Int, b \in Int : a = o.shsubs - n /\ b = o.refs - (given_up(h) - given_up(g))
    BY DEF Owner, given_up
  <2>2. p = IF h.shared = 0 THEN o ELSE [o EXCEPT !.shsubs = a, !.refs = b]
    BY <2>1, Zenon DEF Owner, Left
  <2> QED BY <2>1, <2>2, Zenon DEF Owner
<1>3. Shares(p, g, r)
  BY <1>1, <1>2 DEF Shares, given_up, Owner
<1>4. Counts(o, h) => Counts(p, g)
  BY <1>1, <1>2 DEF Counts, Owner, Foreign
<1> QED BY <1>1, <1>2, <1>3, <1>4, Zenon

-----------------------------------------------------------------------------
(* The owner's head. *)

(* The counts are numbers. *)
LEMMA CountsNat ==
    ASSUME PipesTypeOK
    PROVE  /\ \A A : Count(toF, A) \in Nat
           /\ \A A : Count(toOwn, A) \in Nat
  BY CountNat, Zenon DEF PipesTypeOK

(* Without a head of the owner, nothing names it and no reply is on its way. *)
LEMMA NoHead ==
    ASSUME HeadsInv, own.status = "none"
    PROVE  /\ Count(toF, Granting) = 0 /\ Count(toOwn, Release) = 0
           /\ \A m \in Range(toF) : m \notin Granting
           /\ \A m \in Range(toOwn) : m \notin Release
           /\ fgn.shared = 0 /\ own.subs = 0 /\ own.reserved = 0
<1>1. own.reserved = 0 /\ own.subs = 0 /\ fgn.shared = 0
  BY Zenon DEF HeadsInv, Shares
<1>2. Count(toF, Granting) = 0 /\ Count(toOwn, Release) = 0
  BY <1>1, CountsNat DEF HeadsInv, Held
<1>3. toF \in Seq(ToForeign) /\ toOwn \in Seq(ToOwner)
  BY Zenon DEF HeadsInv, PipesTypeOK
<1> QED BY <1>1, <1>2, <1>3, CountNone, Zenon

(* Only the owner's head changes. *)
LEMMA OwnerStep ==
    ASSUME HeadsInv, UNCHANGED <<fgn, ipc, toF, toOwn, crashes, failed>>,
           own' \in Owner, own'.reserved = own.reserved, own'.addr = own.addr \/ own.status = "none",
           own'.status = "none" => own.status = "none" \/ Enqueued = {},
           Shares(own', fgn, Count(toF, Granting)), Counts(own, fgn) => Counts(own', fgn)
    PROVE  HeadsInv'
<1>1. PipesTypeOK' /\ Shares(own, fgn, Count(toF, Granting))' /\ Held'
  BY Zenon DEF HeadsInv, PipesTypeOK, Held
<1>2. Named'
  <2>1. CASE own'.addr = own.addr
    BY <2>1, Zenon DEF HeadsInv, Named
  <2>2. CASE own.status = "none"
    BY <2>2, NoHead, Zenon DEF HeadsInv, Named
  <2> QED BY <2>1, <2>2, Zenon
<1>3. Pinged' /\ Attached'
  BY Zenon DEF HeadsInv, Pinged, Attached, Enqueued
<1>4. crashes' = 0 => Dialogue' /\ Counts(own, fgn)'
  BY Zenon DEF HeadsInv, Dialogue, Enqueued, Talking
<1>5. ReleaseFindsHead' /\ NoCrossedReplies'
  BY Zenon DEF HeadsInv, ReleaseFindsHead, NoCrossedReplies
<1> QED BY <1>1, <1>2, <1>3, <1>4, <1>5, Zenon DEF HeadsInv

(* nchan_memstore_get_chanhead on the owner. *)
LEMMA GetOwnOK ==
    ASSUME HeadsInv, NEW g, g = get_own
    PROVE  /\ g \in Owner /\ g.status = "READY" /\ g.reserved = own.reserved /\ g.subs = own.subs
           /\ g.addr = own.addr \/ own.status = "none"
           /\ Shares(g, fgn, Count(toF, Granting))
           /\ Counts(own, fgn) => Counts(g, fgn)
           /\ own.status = "none" => g.refs = 0
           /\ own.status # "none" => g.refs = own.refs /\ g.shsubs = own.shsubs
<1>1. own \in Owner
  BY Zenon DEF HeadsInv, PipesTypeOK
<1>2. CASE own.status = "none"
  <2>1. /\ g \in Owner /\ g.status = "READY" /\ g.reserved = own.reserved /\ g.subs = own.subs
        /\ g.refs = 0 /\ g.shsubs = 0 /\ g.addr # 0
    <3>1. PICK a : a = own.addr + 1
      BY Zenon
    <3>2. a \in Nat
      BY <1>1, <3>1 DEF Owner
    <3>3. g = [own EXCEPT !.status = "READY", !.addr = a, !.refs = 0, !.shsubs = 0]
      BY <1>2, <3>1, Zenon DEF get_own
    <3>4. PICK o \in Owner : o = [own EXCEPT !.status = "READY", !.addr = a]
      BY <1>1, <3>2, Zenon DEF Owner
    <3>5. o.status = "READY" /\ o.reserved = own.reserved /\ o.subs = own.subs
      BY <1>1, <3>4, Zenon DEF Owner
    <3>6. g = [o EXCEPT !.refs = 0, !.shsubs = 0]
      BY <1>1, <3>3, <3>4, Zenon DEF Owner
    <3>7. g.status = o.status /\ g.reserved = o.reserved /\ g.subs = o.subs /\ g.refs = 0 /\ g.shsubs = 0
      BY <3>6, Zenon DEF Owner
    <3>9. g.addr = a /\ a # 0
      BY <1>1, <3>1, <3>4, <3>6 DEF Owner
    <3>8. g \in Owner
      <4>1. PICK z \in Int : z = 0
        OBVIOUS
      <4>2. g = [o EXCEPT !.refs = z, !.shsubs = z]
        BY <3>6, <4>1, Zenon
      <4> QED BY <4>2, Zenon DEF Owner
    <3> QED BY <3>5, <3>7, <3>8, <3>9, Zenon
  <2>2. Count(toF, Granting) = 0 /\ fgn.shared = 0 /\ own.subs = 0
    BY <1>2, NoHead, Zenon
  <2>3. fgn.status \in {"none", "INACTIVE", "NOTREADY"} => fgn.shared = 0
    BY <2>2, Zenon
  <2> QED BY <1>2, <2>1, <2>2, <2>3 DEF Shares, Counts, given_up
<1>3. CASE own.status # "none"
  <2>1. /\ g \in Owner /\ g.status = "READY" /\ g.reserved = own.reserved /\ g.subs = own.subs
        /\ g.refs = own.refs /\ g.shsubs = own.shsubs /\ g.addr = own.addr
    BY <1>1, <1>3, Zenon DEF get_own, Owner
  <2>2. Shares(own, fgn, Count(toF, Granting))
    BY Zenon DEF HeadsInv
  <2> QED BY <1>3, <2>1, <2>2, Zenon DEF Shares, Counts
<1> QED BY <1>2, <1>3, Zenon

(* A client subscribes at the owner. *)
LEMMA SubscribeOwnKeeps == HeadsInv /\ subscribe_own => HeadsInv'
<1> SUFFICES ASSUME HeadsInv, subscribe_own PROVE HeadsInv'
  BY Zenon
<1>1. PICK g : g = get_own
  BY Zenon
<1>2. /\ g \in Owner /\ g.status = "READY" /\ g.reserved = own.reserved /\ g.subs = own.subs
      /\ g.addr = own.addr \/ own.status = "none"
      /\ Shares(g, fgn, Count(toF, Granting))
      /\ Counts(own, fgn) => Counts(g, fgn)
  BY <1>1, GetOwnOK, Zenon
<1>3. own' = [g EXCEPT !.subs = g.subs + 1, !.shsubs = g.shsubs + 1] /\ own.subs < MaxSubs
  BY <1>1, Zenon DEF subscribe_own
<1>4. g.subs + 1 \in 0 .. MaxSubs /\ g.shsubs + 1 \in Int /\ fgn \in Foreign
  BY <1>2, <1>3, ChanheadAssumption, SMTT(30) DEF HeadsInv, PipesTypeOK, Owner
<1>5. /\ own' \in Owner /\ own'.reserved = g.reserved /\ own'.addr = g.addr /\ own'.status = g.status
      /\ own'.subs = g.subs + 1 /\ own'.shsubs = g.shsubs + 1 /\ own'.refs = g.refs
  BY <1>2, <1>3, <1>4, Zenon DEF Owner
<1>6. Shares(own', fgn, Count(toF, Granting))
  BY <1>2, <1>5, Zenon DEF Shares
<1>7. Counts(own, fgn) => Counts(own', fgn)
  BY <1>2, <1>4, <1>5 DEF Counts, Owner, Foreign
<1> QED BY <1>2, <1>5, <1>6, <1>7, OwnerStep, Zenon DEF subscribe_own

(* A client of the owner leaves. *)
LEMMA UnsubscribeOwnKeeps == HeadsInv /\ unsubscribe_own => HeadsInv'
<1> SUFFICES ASSUME HeadsInv, unsubscribe_own PROVE HeadsInv'
  BY Zenon
<1>1. own \in Owner /\ fgn \in Foreign /\ own.subs > 0
  BY Zenon DEF HeadsInv, PipesTypeOK, unsubscribe_own
<1>2. PICK o : o = [own EXCEPT !.subs = own.subs - 1, !.shsubs = own.shsubs - 1]
  BY Zenon
<1>3. own.subs - 1 \in 0 .. MaxSubs /\ own.shsubs - 1 \in Int
  BY <1>1, ChanheadAssumption DEF Owner
<1>4. own' = o \/ own' = [o EXCEPT !.status = "INACTIVE"]
  BY <1>2, Zenon DEF unsubscribe_own, gc_own
<1>5. own.status # "none"
  BY <1>1, NoHead DEF Owner
<1>6. /\ own' \in Owner /\ own'.reserved = own.reserved /\ own'.addr = own.addr /\ own'.status # "none"
      /\ own'.subs = own.subs - 1 /\ own'.shsubs = own.shsubs - 1 /\ own'.refs = own.refs
  BY <1>1, <1>2, <1>3, <1>4, <1>5, Zenon DEF Owner
<1>7. Shares(own, fgn, Count(toF, Granting))
  BY Zenon DEF HeadsInv
<1>8. Shares(own', fgn, Count(toF, Granting))
  BY <1>5, <1>6, <1>7, Zenon DEF Shares
<1>9. Counts(own, fgn) => Counts(own', fgn)
  BY <1>1, <1>5, <1>6 DEF Counts, Owner, Foreign
<1> QED BY <1>6, <1>8, <1>9, OwnerStep, Zenon DEF unsubscribe_own

(* The owner's stored message expires. *)
LEMMA ExpireOwnKeeps == HeadsInv /\ expire_own => HeadsInv'
<1> SUFFICES ASSUME HeadsInv, expire_own PROVE HeadsInv'
  BY Zenon
<1>1. own \in Owner /\ own' = [own EXCEPT !.msgs = 0] /\ Shares(own, fgn, Count(toF, Granting))
  BY Zenon DEF HeadsInv, PipesTypeOK, expire_own
<1>2. /\ own' \in Owner /\ own'.reserved = own.reserved /\ own'.addr = own.addr /\ own'.status = own.status
      /\ own'.subs = own.subs /\ own'.shsubs = own.shsubs /\ own'.refs = own.refs
  BY <1>1 DEF Owner
<1>3. Shares(own', fgn, Count(toF, Granting)) /\ (Counts(own, fgn) => Counts(own', fgn))
  BY <1>1, <1>2, Zenon DEF Shares, Counts
<1> QED BY <1>2, <1>3, OwnerStep, Zenon DEF expire_own

(* The reaper frees the owner's head: nobody refers to it. *)
LEMMA ReapOwnKeeps == HeadsInv /\ reap_own => HeadsInv'
<1> SUFFICES ASSUME HeadsInv, reap_own PROVE HeadsInv'
  BY Zenon
<1>1. /\ own \in Owner /\ own' = [own EXCEPT !.status = "none"] /\ Shares(own, fgn, Count(toF, Granting))
      /\ own.status # "none" /\ ~(own.subs > 0) /\ ~(own.reserved > 0) /\ ~(own.refs > 0)
      /\ Enqueued = {}
  BY Zenon DEF HeadsInv, PipesTypeOK, reap_own, memstore_chanhead_reserved_or_in_use
<1>2. /\ own' \in Owner /\ own'.reserved = own.reserved /\ own'.addr = own.addr /\ own'.status = "none"
      /\ own'.subs = own.subs
  BY <1>1, Zenon DEF Owner
<1>3. own.subs = 0 /\ own.reserved = 0 /\ own.refs <= 0
  BY <1>1 DEF Owner
<1>4. Count(toF, Granting) = 0
  BY <1>3, CountsNat DEF HeadsInv, Held
<1>5. fgn.shared = 0
  BY <1>1, <1>3, <1>4 DEF Shares, given_up, Owner
<1>6. Shares(own', fgn, Count(toF, Granting)) /\ Counts(own', fgn)
  BY <1>1, <1>2, <1>3, <1>5, Zenon DEF Shares, Counts
<1> QED BY <1>1, <1>2, <1>6, OwnerStep, Zenon DEF reap_own

(* What ipc subscribers send all at once. *)
LEMMA SentBy ==
    ASSUME PipesTypeOK, NEW what \in Seq(Plain), Len(what) \in {1, 2}
    PROVE  \E r \in Seq(Plain) :
               /\ sent_by(Enqueued, what) = toF \o r /\ r \in Seq(ToForeign)
               /\ Range(r) \subseteq Range(what)
               /\ Enqueued = {} => r = <<>>
               /\ (\E s : Enqueued = {s} /\ ipc[s].hooked) =>
                      Len(r) = Len(what) /\ \A k \in 1 .. Len(what) : r[k] = what[k]
<1>1. PICK S : S = {s \in Enqueued : ipc[s].hooked}
  BY Zenon
<1>2. PICK c : c = Cardinality(S)
  BY Zenon
<1>3. c \in Nat
  <2>1. DOMAIN ipc = 1 .. Len(ipc) /\ Len(ipc) \in Nat
    BY DEF PipesTypeOK
  <2>2. S \subseteq 1 .. Len(ipc)
    BY <1>1, <2>1, Zenon DEF Enqueued
  <2>3. IsFiniteSet(1 .. Len(ipc))
    BY <2>1, FS_Interval
  <2>4. IsFiniteSet(S)
    BY <2>2, <2>3, FS_Subset, Zenon
  <2> QED BY <1>2, <2>4, FS_CardinalityType, Zenon
<1>4. PICK n : n = Len(what) /\ n \in {1, 2}
  BY Zenon
<1>5. PICK r : r = [k \in 1 .. n * c |-> what[((k - 1) % n) + 1]]
  BY Zenon
<1>6. n * c \in Nat
  BY <1>3, <1>4
<1>7. \A k \in 1 .. n * c : ((k - 1) % n) + 1 \in 1 .. n
  <2>1. CASE n = 1
    BY <1>3, <2>1
  <2>2. CASE n = 2
    BY <1>3, <2>2
  <2> QED BY <1>4, <2>1, <2>2, Zenon
<1>8. \A k \in 1 .. n : what[k] \in Plain /\ what[k] \in Range(what)
  BY <1>4 DEF Range
<1>9. r \in Seq(Plain) /\ Len(r) = n * c /\ DOMAIN r = 1 .. n * c
  <2>1. \A k \in 1 .. n * c : r[k] \in Plain
    BY <1>5, <1>7, <1>8, Zenon
  <2> QED BY <1>5, <1>6, <2>1
<1>10. Range(r) \subseteq Range(what)
  BY <1>5, <1>7, <1>8, <1>9, Zenon DEF Range
<1>11. r \in Seq(ToForeign)
  BY <1>9 DEF ToForeign
<1>12. sent_by(Enqueued, what) = toF \o r
  BY <1>1, <1>2, <1>4, <1>5, Zenon DEF sent_by
<1>13. ASSUME Enqueued = {} PROVE r = <<>>
  <2>1. c = 0
    BY <1>1, <1>2, <1>13, FS_EmptySet, Zenon
  <2>2. n * c = 0
    BY <1>4, <2>1
  <2> QED BY <1>9, <2>2
<1>14. ASSUME NEW s, Enqueued = {s}, ipc[s].hooked
       PROVE  Len(r) = n /\ \A k \in 1 .. n : r[k] = what[k]
  <2>1. S = {s}
    BY <1>1, <1>14, Zenon
  <2>2. c = 1
    BY <1>2, <2>1, FS_Singleton, Zenon
  <2>3. n * c = n
    BY <1>4, <2>2
  <2>4. \A k \in 1 .. n : ((k - 1) % n) + 1 = k
    <3>1. CASE n = 1
      BY <3>1
    <3>2. CASE n = 2
      BY <3>2
    <3> QED BY <1>4, <3>1, <3>2, Zenon
  <2> QED BY <1>5, <1>9, <2>3, <2>4, Zenon
<1> QED BY <1>4, <1>9, <1>10, <1>11, <1>12, <1>13, <1>14, Zenon

(* Who sends it, as long as F is not killed. *)
LEMMA Sender ==
    ASSUME PipesTypeOK, Dialogue, NEW r \in Seq(Plain), NEW what \in Seq(Plain), Len(what) \in {1, 2},
           Enqueued = {} => r = <<>>,
           (\E s : Enqueued = {s} /\ ipc[s].hooked) =>
               Len(r) = Len(what) /\ \A k \in 1 .. Len(what) : r[k] = what[k]
    PROVE  \/ Enqueued = {} /\ r = <<>>
           \/ /\ Len(r) = Len(what) /\ \A k \in 1 .. Len(what) : r[k] = what[k]
              /\ toF = <<>> => fgn.sub # 0
              /\ \A k \in DOMAIN toF : toF[k].type # "unsubscribed"
              /\ \A m \in Range(toF) : m \in Reply => m.head # 0
<1>1. CASE Enqueued = {}
  BY <1>1, Zenon
<1>2. CASE Enqueued # {}
  <2>1. PICK s : s \in Enqueued
    BY <1>2, Zenon
  <2>2. Enqueued = {s} /\ ipc[s].hooked /\ s \in DOMAIN ipc
    BY <2>1, Zenon DEF Dialogue, Enqueued
  <2>3. s = Len(ipc) /\ s # 0
    BY <2>1, <2>2 DEF Dialogue, PipesTypeOK
  <2>4. toF = <<>> => fgn.sub # 0
    BY <2>1, <2>3, Zenon DEF Dialogue, Talking
  <2>5. \A k \in DOMAIN toF : toF[k].type # "unsubscribed"
    BY <2>1, Zenon DEF Dialogue
  <2>6. ASSUME NEW m \in Range(toF), m \in Reply, m.head = 0 PROVE FALSE
    <3>1. m = Head(toF)
      BY <2>6, Zenon DEF Dialogue
    <3>2. ~Talking
      BY <2>6, <3>1, Zenon DEF Talking, Granting
    <3>3. fgn.sub # 0
      BY <2>1, <2>3, <3>2, Zenon DEF Dialogue
    <3>4. fgn.status # "WAITING"
      BY <3>3, Zenon DEF Dialogue
    <3>5. Count(toF, Reply) = 0
      BY <3>4, CountsNat DEF Dialogue
    <3> QED BY <2>6, <3>5, CountNone, Zenon DEF PipesTypeOK
  <2> QED BY <2>2, <2>4, <2>5, <2>6, Zenon
<1> QED BY <1>1, <1>2, Zenon

(* What plain alerts at the end of the pipe to F leave as it is. *)
LEMMA PlainSent ==
    ASSUME HeadsInv, NEW r \in Seq(Plain), r \in Seq(ToForeign), toF' = toF \o r,
           UNCHANGED <<fgn, toOwn, crashes, failed>>,
           own' \in Owner, own'.reserved = own.reserved, own'.addr = own.addr \/ own.status = "none",
           Shares(own', fgn, Count(toF, Granting)),
           ipc' \in Seq(IpcSub), DOMAIN ipc' = DOMAIN ipc, Attached',
           \A s \in DOMAIN ipc : ipc'[s].reserved = ipc[s].reserved /\ Calm(ipc'[s]),
           crashes = 0 => Dialogue' /\ Counts(own', fgn)
    PROVE  HeadsInv'
<1>1. toF \in Seq(ToForeign) /\ toF' \in Seq(ToForeign) /\ Range(toF') = Range(toF) \cup Range(r)
  BY InPipe DEF HeadsInv, PipesTypeOK
<1>2. \A m \in Range(r) : m \notin Reply /\ m \notin Keepalive
  <2>1. Range(r) \subseteq Plain
    BY InPipe, Zenon
  <2> QED BY <2>1, Zenon DEF Plain, Reply, Keepalive
<1>3. Count(toF', Granting) = Count(toF, Granting) /\ \A s : Count(toF', Pings(s)) = Count(toF, Pings(s))
  <2>1. \A m \in Range(r) : m \notin Granting
    BY <1>2, Zenon DEF Granting
  <2>2. \A s : \A m \in Range(r) : m \notin Pings(s)
    BY <1>2, Zenon DEF Pings
  <2> QED BY <1>1, <2>1, <2>2, CountOthers
<1>4. PipesTypeOK'
  BY <1>1, Zenon DEF HeadsInv, PipesTypeOK
<1>5. Shares(own, fgn, Count(toF, Granting))' /\ Held'
  BY <1>3, Zenon DEF HeadsInv, Held
<1>6. Named'
  <2>1. \A m \in Range(toF') : m \in Granting \/ m \in Keepalive => m \in Range(toF)
    BY <1>1, <1>2, Zenon DEF Granting
  <2>2. CASE own'.addr = own.addr
    BY <2>1, <2>2, Zenon DEF HeadsInv, Named
  <2>3. CASE own.status = "none"
    BY <2>1, <2>3, NoHead, Zenon DEF HeadsInv, Named
  <2> QED BY <2>2, <2>3, Zenon
<1>7. Pinged'
  BY <1>3, Zenon DEF HeadsInv, Pinged
<1>8. ReleaseFindsHead' /\ NoCrossedReplies'
  BY Zenon DEF HeadsInv, ReleaseFindsHead, NoCrossedReplies
<1> QED BY <1>4, <1>5, <1>6, <1>7, <1>8, Zenon DEF HeadsInv

(* ... and the dialogue, if what comes after it is in order. *)
LEMMA PlainTalk ==
    ASSUME PipesTypeOK, Dialogue, NEW r \in Seq(Plain), r \in Seq(ToForeign), toF' = toF \o r,
           UNCHANGED fgn, Len(ipc') = Len(ipc), DOMAIN ipc' = DOMAIN ipc,
           Range(toOwn') \subseteq Range(toOwn), Count(toOwn', Asking) = Count(toOwn, Asking),
           \A s \in DOMAIN ipc : ipc'[s].hooked = ipc[s].hooked /\ ipc'[s].origin = ipc[s].origin,
           Enqueued' \subseteq Enqueued,
           r # <<>> => /\ toF = <<>> => fgn.sub # 0
                       /\ \A k \in DOMAIN toF : toF[k].type # "unsubscribed"
                       /\ \A m \in Range(toF) : m \in Reply => m.head # 0
                       /\ \A k \in 1 .. Len(r) : r[k].type = "unsubscribed" => k = Len(r) /\ Enqueued' = {}
    PROVE  Dialogue'
<1>1. toF \in Seq(ToForeign) /\ toF' \in Seq(ToForeign) /\ Range(toF') = Range(toF) \cup Range(r)
  BY InPipe DEF PipesTypeOK
<1>2. \A m \in Range(r) : m \in Plain /\ m \notin Reply /\ m \notin Keepalive
  <2>1. Range(r) \subseteq Plain
    BY InPipe, Zenon
  <2> QED BY <2>1, Zenon DEF Plain, Reply, Keepalive
<1>3. Count(toF', Reply) = Count(toF, Reply)
  BY <1>1, <1>2, CountOthers
<1>4. r = <<>> => toF' = toF
  BY <1>1
<1>5. PICK n \in Nat, l \in Nat : n = Len(toF) /\ l = Len(r)
  BY <1>1
<1>6. /\ Len(toF') = n + l /\ DOMAIN toF = 1 .. n /\ DOMAIN toF' = 1 .. n + l /\ DOMAIN r = 1 .. l
      /\ \A k \in 1 .. n + l : toF'[k] = IF k \in 1 .. n THEN toF[k] ELSE r[k - n]
  BY <1>1, <1>5
<1>7. toF # <<>> => toF' # <<>> /\ Head(toF') = Head(toF)
  BY <1>1, <1>5, <1>6
<1>8. toF = <<>> /\ toF' # <<>> => r # <<>> /\ Head(toF') \in Range(r)
  BY <1>1, <1>5, <1>6 DEF Range
<1>9. /\ fgn'.sub # 0 => fgn'.sub = Len(ipc') /\ fgn'.status = "READY"
      /\ Count(toOwn, Asking)' + Count(toF', Reply) = IF fgn'.status = "WAITING" THEN 1 ELSE 0
      /\ \A m \in Range(toOwn') : /\ m \in Asking => m.origin = fgn'.addr
                                  /\ m.type # "nevermind_release"
                                  /\ m \in KeepaliveReply => m.action # "UNHOOK"
  <2>1. Count(toOwn, Asking)' = Count(toOwn, Asking) /\ Range(toOwn') \subseteq Range(toOwn)
    BY Zenon
  <2>2. Count(toOwn, Asking) + Count(toF', Reply) = IF fgn.status = "WAITING" THEN 1 ELSE 0
    BY <1>3, Zenon DEF Dialogue
  <2>3. fgn.sub # 0 => fgn.sub = Len(ipc) /\ fgn.status = "READY"
    BY Zenon DEF Dialogue
  <2>4. \A m \in Range(toOwn) : /\ m \in Asking => m.origin = fgn.addr
                                /\ m.type # "nevermind_release"
                                /\ m \in KeepaliveReply => m.action # "UNHOOK"
    BY Zenon DEF Dialogue
  <2> QED BY <2>1, <2>2, <2>3, <2>4, Zenon
<1>10. ASSUME NEW m \in Range(toF')
       PROVE  /\ m \in Reply => /\ m = Head(toF') /\ m.origin = fgn'.addr
                                /\ IF m.head = 0 THEN Len(toF') = 1 ELSE m.sub = Len(ipc')
              /\ m \in Keepalive => m.sub = Len(ipc') /\ m.origin = fgn'.addr
  <2>1. ASSUME m \in Range(toF)
        PROVE  /\ m \in Reply => /\ m = Head(toF') /\ m.origin = fgn'.addr
                                 /\ IF m.head = 0 THEN Len(toF') = 1 ELSE m.sub = Len(ipc')
               /\ m \in Keepalive => m.sub = Len(ipc') /\ m.origin = fgn'.addr
    <3>1. toF # <<>>
      BY <2>1 DEF Range
    <3>2. m \in Reply /\ m.head = 0 => toF' = toF
      BY <1>4, <2>1, Zenon
    <3> QED BY <1>7, <2>1, <3>1, <3>2, Zenon DEF Dialogue
  <2> QED BY <1>1, <1>2, <2>1, Zenon
<1>11. ASSUME NEW k \in DOMAIN toF', toF'[k].type = "unsubscribed"
       PROVE  k = Len(toF') /\ Enqueued' = {}
  <2>1. CASE r = <<>>
    BY <1>4, <1>11, <2>1, Zenon DEF Dialogue
  <2>2. CASE r # <<>>
    <3>1. k \notin 1 .. n
      BY <1>6, <1>11, <2>2, Zenon
    <3>2. k - n \in 1 .. l /\ toF'[k] = r[k - n]
      BY <1>6, <1>11, <3>1
    <3>3. k - n = l /\ Enqueued' = {}
      BY <1>5, <1>11, <2>2, <3>2, Zenon
    <3> QED BY <1>5, <1>6, <1>11, <3>3
  <2> QED BY <2>1, <2>2, Zenon
<1>12. toF' # <<>> /\ Head(toF') \notin Reply => fgn'.sub # 0
  BY <1>7, <1>8, Zenon DEF Dialogue
<1>13. \A s \in DOMAIN ipc' : ipc'[s].hooked
  BY Zenon DEF Dialogue
<1>14. \A s \in Enqueued' : s = Len(ipc') /\ ipc'[s].origin = fgn'.addr /\ (fgn'.sub = s \/ Talking')
  BY <1>7, Zenon DEF Dialogue, Talking, Enqueued
<1> QED BY <1>9, <1>10, <1>11, <1>12, <1>13, <1>14, Zenon DEF Dialogue

(* A message is published at the owner, and an alert with it goes to F for
   each hooked ipc subscriber. *)
LEMMA PublishOwnKeeps == HeadsInv /\ publish_own => HeadsInv'
<1> SUFFICES ASSUME HeadsInv, publish_own PROVE HeadsInv'
  BY Zenon
<1>0. PipesTypeOK
  BY Zenon DEF HeadsInv
<1>1. PICK g : g = get_own
  BY Zenon
<1>2. /\ g \in Owner /\ g.status = "READY" /\ g.reserved = own.reserved /\ g.subs = own.subs
      /\ g.addr = own.addr \/ own.status = "none"
      /\ Shares(g, fgn, Count(toF, Granting))
      /\ Counts(own, fgn) => Counts(g, fgn)
  BY <1>1, GetOwnOK, Zenon
<1>3. PICK stored \in 0 .. 1 : own' = [[g EXCEPT !.msgs = stored] EXCEPT !.status = "INACTIVE"]
  BY <1>1, Zenon DEF publish_own, gc_own
<1>4. /\ own' \in Owner /\ own'.reserved = g.reserved /\ own'.addr = g.addr /\ own'.status = "INACTIVE"
      /\ own'.subs = g.subs /\ own'.shsubs = g.shsubs /\ own'.refs = g.refs
  BY <1>2, <1>3, Zenon DEF Owner
<1>5. Shares(own', fgn, Count(toF, Granting)) /\ (Counts(own, fgn) => Counts(own', fgn))
  BY <1>2, <1>4, Zenon DEF Shares, Counts
<1>6. PICK what : what = <<[type |-> "publish_message"]>>
  BY Zenon
<1>7. /\ Len(what) \in {1, 2} /\ what[1].type = "publish_message" /\ Len(what) = 1
      /\ what \in Seq(Plain)
  <2>1. [type |-> "publish_message"] \in Plain
    BY Zenon DEF Plain
  <2> QED BY <1>6, <2>1
<1>8. PICK r \in Seq(Plain) :
         /\ sent_by(Enqueued, what) = toF \o r /\ r \in Seq(ToForeign)
         /\ Enqueued = {} => r = <<>>
         /\ (\E s : Enqueued = {s} /\ ipc[s].hooked) =>
                Len(r) = Len(what) /\ \A k \in 1 .. Len(what) : r[k] = what[k]
  BY <1>0, <1>7, SentBy, Zenon
<1>9. toF' = toF \o r /\ UNCHANGED <<fgn, ipc, toOwn, crashes, failed>>
  BY <1>6, <1>8, Zenon DEF publish_own
<1>10. ASSUME crashes = 0 PROVE Dialogue'
  <2>1. Dialogue
    BY <1>10, Zenon DEF HeadsInv
  <2>2. r # <<>> => /\ toF = <<>> => fgn.sub # 0
                    /\ \A k \in DOMAIN toF : toF[k].type # "unsubscribed"
                    /\ \A m \in Range(toF) : m \in Reply => m.head # 0
                    /\ \A k \in 1 .. Len(r) : r[k].type # "unsubscribed"
    BY <1>0, <1>7, <1>8, <2>1, Sender
  <2>3. Enqueued' = Enqueued /\ Count(toOwn', Asking) = Count(toOwn, Asking)
    BY <1>9, Zenon DEF Enqueued
  <2> QED BY <1>0, <1>8, <1>9, <2>1, <2>2, <2>3, PlainTalk, Zenon
<1>11. ipc \in Seq(IpcSub) /\ \A s \in DOMAIN ipc : Calm(ipc[s])
  BY Zenon DEF HeadsInv, PipesTypeOK, Pinged
<1>12. crashes = 0 => Counts(own', fgn)
  BY <1>5, Zenon DEF HeadsInv
<1>13. Attached'
  BY <1>4, Zenon DEF Attached
<1> QED BY <1>2, <1>4, <1>5, <1>8, <1>9, <1>10, <1>11, <1>12, <1>13, PlainSent, Zenon

(* What dequeuing an ipc subscriber does. *)
LEMMA DequeuedOK ==
    ASSUME NEW i \in IpcSub, Calm(i), NEW j, j = dequeued(i)
    PROVE  /\ j \in IpcSub /\ Calm(j) /\ j.reserved = i.reserved
           /\ j.hooked = i.hooked /\ j.origin = i.origin /\ j.st # "enqueued"
           /\ i.timer = FALSE => j.timer = FALSE
<1>1. CASE i.st # "enqueued"
  BY <1>1, Zenon DEF dequeued
<1>2. CASE i.st = "enqueued"
  <2>1. PICK t \in {"lingering", "freed"} : t = IF i.reserved > 0 THEN "lingering" ELSE "freed"
    BY Zenon
  <2>2. j = [i EXCEPT !.timer = FALSE, !.st = t]
    BY <1>2, <2>1, Zenon DEF dequeued
  <2>3. /\ j \in IpcSub /\ j.reserved = i.reserved /\ j.hooked = i.hooked /\ j.origin = i.origin
        /\ j.st = t /\ j.timer = FALSE
    BY <2>2, Zenon DEF IpcSub
  <2>4. Calm(j)
    BY <2>1, <2>3 DEF Calm, IpcSub
  <2> QED BY <2>1, <2>3, <2>4, Zenon
<1> QED BY <1>1, <1>2, Zenon

(* The channel is deleted at the owner, and F is told for each hooked ipc
   subscriber. *)
LEMMA DeleteOwnKeeps == HeadsInv /\ delete_own => HeadsInv'
<1> SUFFICES ASSUME HeadsInv, delete_own PROVE HeadsInv'
  BY Zenon
<1>0. PipesTypeOK
  BY Zenon DEF HeadsInv
<1>1. own \in Owner /\ own.status # "none" /\ Shares(own, fgn, Count(toF, Granting))
  BY Zenon DEF HeadsInv, PipesTypeOK, delete_own
<1>2. PICK n : n = own.shsubs - own.subs
  BY Zenon
<1>3. PICK z : z = 0 /\ z \in 0 .. MaxSubs /\ z \in 0 .. 1 /\ n \in Int
  BY <1>1, <1>2, ChanheadAssumption DEF Owner
<1>4. own' = [[own EXCEPT !.shsubs = n, !.subs = z, !.msgs = z] EXCEPT !.status = "INACTIVE"]
  BY <1>1, <1>2, <1>3, Zenon DEF delete_own, gc_own, Owner
<1>5. /\ own' \in Owner /\ own'.reserved = own.reserved /\ own'.addr = own.addr /\ own'.status = "INACTIVE"
      /\ own'.subs = 0 /\ own'.shsubs = n /\ own'.refs = own.refs
  BY <1>1, <1>3, <1>4, Zenon DEF Owner
<1>6. Shares(own', fgn, Count(toF, Granting))
  BY <1>1, <1>5, Zenon DEF Shares
<1>7. crashes = 0 => Counts(own', fgn)
  BY <1>0, <1>1, <1>2, <1>5, SMTT(30) DEF HeadsInv, Counts, PipesTypeOK, Owner, Foreign
<1>8. PICK what : what = <<[type |-> "publish_status"], [type |-> "unsubscribed"]>>
  BY Zenon
<1>9. /\ Len(what) \in {1, 2} /\ what[1].type = "publish_status" /\ Len(what) = 2
      /\ what \in Seq(Plain)
  <2>1. [type |-> "publish_status"] \in Plain /\ [type |-> "unsubscribed"] \in Plain
    BY Zenon DEF Plain
  <2> QED BY <1>8, <2>1
<1>10. PICK r \in Seq(Plain) :
         /\ sent_by(Enqueued, what) = toF \o r /\ r \in Seq(ToForeign)
         /\ Enqueued = {} => r = <<>>
         /\ (\E s : Enqueued = {s} /\ ipc[s].hooked) =>
                Len(r) = Len(what) /\ \A k \in 1 .. Len(what) : r[k] = what[k]
  BY <1>0, <1>9, SentBy, Zenon
<1>11. /\ toF' = toF \o r /\ UNCHANGED <<fgn, toOwn, crashes, failed>>
       /\ ipc' = [s \in DOMAIN ipc |-> dequeued(ipc[s])]
  BY <1>8, <1>10, Zenon DEF delete_own
<1>12. \A s \in DOMAIN ipc : ipc[s] \in IpcSub /\ Calm(ipc[s])
  BY DEF HeadsInv, PipesTypeOK, Pinged
<1>13. \A s \in DOMAIN ipc : /\ ipc'[s] \in IpcSub /\ Calm(ipc'[s]) /\ ipc'[s].reserved = ipc[s].reserved
                             /\ ipc'[s].hooked = ipc[s].hooked /\ ipc'[s].origin = ipc[s].origin
                             /\ ipc'[s].st # "enqueued"
  BY <1>11, <1>12, DequeuedOK, Zenon
<1>14. ipc' \in Seq(IpcSub) /\ DOMAIN ipc' = DOMAIN ipc /\ Len(ipc') = Len(ipc)
  <2>1. PICK l \in Nat : l = Len(ipc) /\ DOMAIN ipc = 1 .. l
    BY <1>0 DEF PipesTypeOK
  <2> QED BY <1>11, <1>13, <2>1
<1>15. Enqueued' = {} /\ Count(toOwn', Asking) = Count(toOwn, Asking)
  BY <1>11, <1>13, <1>14, Zenon DEF Enqueued
<1>16. ASSUME crashes = 0 PROVE Dialogue'
  <2>1. Dialogue
    BY <1>16, Zenon DEF HeadsInv
  <2>2. r # <<>> => /\ toF = <<>> => fgn.sub # 0
                    /\ \A k \in DOMAIN toF : toF[k].type # "unsubscribed"
                    /\ \A m \in Range(toF) : m \in Reply => m.head # 0
                    /\ Len(r) = 2 /\ r[1].type = "publish_status"
    BY <1>0, <1>9, <1>10, <2>1, Sender
  <2>3. r # <<>> => \A k \in 1 .. Len(r) : r[k].type = "unsubscribed" => k = Len(r) /\ Enqueued' = {}
    <3> SUFFICES ASSUME r # <<>>, NEW k \in 1 .. Len(r), r[k].type = "unsubscribed" PROVE k = Len(r)
      BY <1>15, Zenon
    <3>1. Len(r) = 2
      BY <2>2, Zenon
    <3>2. \A i \in 1 .. 2 : i = 1 \/ i = 2
      OBVIOUS
    <3>3. k = 1 \/ k = 2
      BY <3>1, <3>2, Zenon
    <3> QED BY <2>2, <3>1, <3>3, Zenon
  <2> QED BY <1>0, <1>10, <1>11, <1>13, <1>14, <1>15, <2>1, <2>2, <2>3, PlainTalk, Zenon
<1>17. Attached'
  BY <1>5, Zenon DEF Attached
<1> QED BY <1>5, <1>6, <1>7, <1>10, <1>11, <1>13, <1>14, <1>16, <1>17, PlainSent, Zenon

-----------------------------------------------------------------------------
(* Reading and writing the pipes. *)

(* The alert that the owner reads, and what is left. *)
LEMMA OwnerReadsOne ==
    ASSUME NEW q \in Seq(ToOwner), q # <<>>
    PROVE  /\ Head(q) \in ToOwner /\ Head(q) \in Range(q) /\ Tail(q) \in Seq(ToOwner) /\ Range(Tail(q)) \subseteq Range(q)
           /\ Head(q).type = "subscribe" => Count(Tail(q), Asking) = Count(q, Asking) - 1
           /\ Head(q).type # "subscribe" => Count(Tail(q), Asking) = Count(q, Asking)
           /\ Head(q).type \in {"chanhead_release", "nevermind_release"} => Count(Tail(q), Release) = Count(q, Release) - 1
           /\ Head(q).type \notin {"chanhead_release", "nevermind_release"} => Count(Tail(q), Release) = Count(q, Release)
           /\ \A s : Head(q).type = "keepalive_reply" /\ Head(q).sub = s => Count(Tail(q), Pongs(s)) = Count(q, Pongs(s)) - 1
           /\ \A s : Head(q).type # "keepalive_reply" \/ Head(q).sub # s => Count(Tail(q), Pongs(s)) = Count(q, Pongs(s))
<1>1. Head(q) \in ToOwner /\ Head(q) \in Range(q) /\ Tail(q) \in Seq(ToOwner) /\ Range(Tail(q)) \subseteq Range(q)
  BY InPipe, Zenon
<1>2. \A A : /\ Head(q) \in A => Count(Tail(q), A) = Count(q, A) - 1
             /\ Head(q) \notin A => Count(Tail(q), A) = Count(q, A)
  BY CountTail, CountNat
<1>3. \A s : Head(q) \in Pongs(s) <=> Head(q).type = "keepalive_reply" /\ Head(q).sub = s
  BY <1>1, OwnerKinds, Zenon DEF Pongs
<1>4. /\ \A s : Head(q).type = "keepalive_reply" /\ Head(q).sub = s => Count(Tail(q), Pongs(s)) = Count(q, Pongs(s)) - 1
      /\ \A s : Head(q).type # "keepalive_reply" \/ Head(q).sub # s => Count(Tail(q), Pongs(s)) = Count(q, Pongs(s))
  BY <1>2, <1>3, Zenon
<1>5. (Head(q) \in Asking <=> Head(q).type = "subscribe")
      /\ (Head(q) \in Release <=> Head(q).type \in {"chanhead_release", "nevermind_release"})
  BY <1>1, OwnerKinds, Zenon
<1> QED BY <1>1, <1>2, <1>4, <1>5, Zenon

(* The same for F. *)
LEMMA ForeignReadsOne ==
    ASSUME NEW q \in Seq(ToForeign), q # <<>>
    PROVE  /\ Head(q) \in ToForeign /\ Head(q) \in Range(q)
           /\ Tail(q) \in Seq(ToForeign) /\ Range(Tail(q)) \subseteq Range(q)
           /\ Head(q).type = "subscribe_reply" => Count(Tail(q), Reply) = Count(q, Reply) - 1
           /\ Head(q).type # "subscribe_reply" => Count(Tail(q), Reply) = Count(q, Reply)
           /\ Head(q).type = "subscribe_reply" /\ Head(q).head # 0 => Count(Tail(q), Granting) = Count(q, Granting) - 1
           /\ (Head(q).type # "subscribe_reply" \/ Head(q).head = 0) => Count(Tail(q), Granting) = Count(q, Granting)
           /\ \A s : Head(q).type = "keepalive" /\ Head(q).sub = s => Count(Tail(q), Pings(s)) = Count(q, Pings(s)) - 1
           /\ \A s : Head(q).type # "keepalive" \/ Head(q).sub # s => Count(Tail(q), Pings(s)) = Count(q, Pings(s))
<1>1. Head(q) \in ToForeign /\ Head(q) \in Range(q) /\ Tail(q) \in Seq(ToForeign) /\ Range(Tail(q)) \subseteq Range(q)
  BY InPipe, Zenon
<1>2. \A A : /\ Head(q) \in A => Count(Tail(q), A) = Count(q, A) - 1
             /\ Head(q) \notin A => Count(Tail(q), A) = Count(q, A)
  BY CountTail, CountNat
<1>3. \A s : Head(q) \in Pings(s) <=> Head(q).type = "keepalive" /\ Head(q).sub = s
  BY <1>1, ForeignKinds, Zenon DEF Pings
<1>4. /\ \A s : Head(q).type = "keepalive" /\ Head(q).sub = s => Count(Tail(q), Pings(s)) = Count(q, Pings(s)) - 1
      /\ \A s : Head(q).type # "keepalive" \/ Head(q).sub # s => Count(Tail(q), Pings(s)) = Count(q, Pings(s))
  BY <1>2, <1>3, Zenon
<1>5. (Head(q) \in Reply <=> Head(q).type = "subscribe_reply")
      /\ (Head(q) \in Granting <=> Head(q).type = "subscribe_reply" /\ Head(q).head # 0)
  BY <1>1, ForeignKinds, Zenon DEF Granting
<1> QED BY <1>1, <1>2, <1>4, <1>5, Zenon

(* One more alert to the owner. *)
LEMMA OwnerIsSent ==
    ASSUME NEW q \in Seq(ToOwner), NEW x \in ToOwner
    PROVE  /\ Append(q, x) \in Seq(ToOwner) /\ Range(Append(q, x)) = Range(q) \cup {x}
           /\ x.type = "subscribe" => Count(Append(q, x), Asking) = Count(q, Asking) + 1
           /\ x.type # "subscribe" => Count(Append(q, x), Asking) = Count(q, Asking)
           /\ x.type \in {"chanhead_release", "nevermind_release"} => Count(Append(q, x), Release) = Count(q, Release) + 1
           /\ x.type \notin {"chanhead_release", "nevermind_release"} => Count(Append(q, x), Release) = Count(q, Release)
           /\ \A s : x.type = "keepalive_reply" /\ x.sub = s => Count(Append(q, x), Pongs(s)) = Count(q, Pongs(s)) + 1
           /\ \A s : x.type # "keepalive_reply" \/ x.sub # s => Count(Append(q, x), Pongs(s)) = Count(q, Pongs(s))
<1>1. Append(q, x) \in Seq(ToOwner) /\ Range(Append(q, x)) = Range(q) \cup {x}
  BY InPipe
<1>2. \A A : /\ x \in A => Count(Append(q, x), A) = Count(q, A) + 1
             /\ x \notin A => Count(Append(q, x), A) = Count(q, A)
  BY CountAppend, CountNat
<1>3. \A s : x \in Pongs(s) <=> x.type = "keepalive_reply" /\ x.sub = s
  BY OwnerKinds, Zenon DEF Pongs
<1>4. /\ \A s : x.type = "keepalive_reply" /\ x.sub = s => Count(Append(q, x), Pongs(s)) = Count(q, Pongs(s)) + 1
      /\ \A s : x.type # "keepalive_reply" \/ x.sub # s => Count(Append(q, x), Pongs(s)) = Count(q, Pongs(s))
  BY <1>2, <1>3, Zenon
<1>5. (x \in Asking <=> x.type = "subscribe")
      /\ (x \in Release <=> x.type \in {"chanhead_release", "nevermind_release"})
  BY OwnerKinds, Zenon
<1> QED BY <1>1, <1>2, <1>4, <1>5, Zenon

(* One more alert to F. *)
LEMMA ForeignIsSent ==
    ASSUME NEW q \in Seq(ToForeign), NEW x \in ToForeign
    PROVE  /\ Append(q, x) \in Seq(ToForeign) /\ Range(Append(q, x)) = Range(q) \cup {x} /\ Append(q, x) # <<>>
           /\ q # <<>> => Head(Append(q, x)) = Head(q)
           /\ q = <<>> => Head(Append(q, x)) = x
           /\ Len(Append(q, x)) = Len(q) + 1 /\ DOMAIN Append(q, x) = 1 .. Len(Append(q, x))
           /\ Append(q, x)[Len(Append(q, x))] = x /\ (\A k \in DOMAIN q : Append(q, x)[k] = q[k] /\ k < Len(Append(q, x)))
           /\ \A k \in DOMAIN Append(q, x) : k # Len(Append(q, x)) => k \in DOMAIN q
           /\ x.type = "subscribe_reply" => Count(Append(q, x), Reply) = Count(q, Reply) + 1
           /\ x.type # "subscribe_reply" => Count(Append(q, x), Reply) = Count(q, Reply)
           /\ x.type = "subscribe_reply" /\ x.head # 0 => Count(Append(q, x), Granting) = Count(q, Granting) + 1
           /\ (x.type # "subscribe_reply" \/ x.head = 0) => Count(Append(q, x), Granting) = Count(q, Granting)
           /\ \A s : x.type = "keepalive" /\ x.sub = s => Count(Append(q, x), Pings(s)) = Count(q, Pings(s)) + 1
           /\ \A s : x.type # "keepalive" \/ x.sub # s => Count(Append(q, x), Pings(s)) = Count(q, Pings(s))
<1>1. Append(q, x) \in Seq(ToForeign) /\ Range(Append(q, x)) = Range(q) \cup {x}
  BY InPipe
<1>2. \A A : /\ x \in A => Count(Append(q, x), A) = Count(q, A) + 1
             /\ x \notin A => Count(Append(q, x), A) = Count(q, A)
  BY CountAppend, CountNat
<1>3. \A s : x \in Pings(s) <=> x.type = "keepalive" /\ x.sub = s
  BY ForeignKinds, Zenon DEF Pings
<1>4. /\ \A s : x.type = "keepalive" /\ x.sub = s => Count(Append(q, x), Pings(s)) = Count(q, Pings(s)) + 1
      /\ \A s : x.type # "keepalive" \/ x.sub # s => Count(Append(q, x), Pings(s)) = Count(q, Pings(s))
  BY <1>2, <1>3, Zenon
<1>5. (x \in Reply <=> x.type = "subscribe_reply")
      /\ (x \in Granting <=> x.type = "subscribe_reply" /\ x.head # 0)
  BY ForeignKinds, Zenon DEF Granting
<1>6. PICK n \in Nat : n = Len(q)
  OBVIOUS
<1>7. /\ Append(q, x) # <<>> /\ Len(Append(q, x)) = n + 1 /\ DOMAIN Append(q, x) = 1 .. n + 1 /\ DOMAIN q = 1 .. n
      /\ Append(q, x)[n + 1] = x /\ (\A k \in 1 .. n : Append(q, x)[k] = q[k])
      /\ q # <<>> => Head(Append(q, x)) = Head(q)
      /\ q = <<>> => Head(Append(q, x)) = x
  BY <1>6
<1>8. /\ \A k \in DOMAIN q : Append(q, x)[k] = q[k] /\ k < Len(Append(q, x))
      /\ \A k \in DOMAIN Append(q, x) : k # Len(Append(q, x)) => k \in DOMAIN q
  BY <1>6, <1>7
<1> QED BY <1>1, <1>2, <1>4, <1>5, <1>6, <1>7, <1>8, Zenon

-----------------------------------------------------------------------------
(* The owner reads. *)

(* While F's question is on its way, nothing is on its way to F. *)
LEMMA AskedAlone ==
    ASSUME PipesTypeOK, Dialogue, NEW d \in Range(toOwn), d \in Asking
    PROVE  /\ fgn.status = "WAITING" /\ fgn.sub = 0 /\ toF = <<>> /\ Enqueued = {}
           /\ d.origin = fgn.addr
           /\ Count(toOwn, Asking) = 1 /\ Count(toF, Reply) = 0
<1>1. Count(toOwn, Asking) # 0
  BY CountNone, Zenon DEF PipesTypeOK
<1>2. Count(toOwn, Asking) = 1 /\ Count(toF, Reply) = 0 /\ fgn.status = "WAITING"
  BY <1>1, CountsNat DEF Dialogue
<1>3. fgn.sub = 0
  BY <1>2, Zenon DEF Dialogue
<1>4. toF = <<>>
  <2>1. ASSUME toF # <<>> PROVE FALSE
    <3>1. Head(toF) \in Reply
      BY <1>3, <2>1, Zenon DEF Dialogue
    <3>2. Head(toF) \in Range(toF)
      BY <2>1, InPipe, Zenon DEF PipesTypeOK
    <3> QED BY <1>2, <3>1, <3>2, CountNone, Zenon DEF PipesTypeOK
  <2> QED BY <2>1, Zenon
<1>5. Enqueued = {}
  <2>1. ASSUME NEW s \in Enqueued PROVE FALSE
    <3>1. s # 0
      BY <2>1 DEF Enqueued, PipesTypeOK
    <3> QED BY <1>3, <1>4, <2>1, <3>1, Zenon DEF Dialogue, Talking
  <2> QED BY <2>1, Zenon
<1> QED BY <1>2, <1>3, <1>4, <1>5, Zenon DEF Dialogue

(* The dialogue after the owner has replied. *)
LEMMA Answered ==
    ASSUME PipesTypeOK, Dialogue, toOwn # <<>>, Head(toOwn).type = "subscribe", toOwn' = Tail(toOwn),
           UNCHANGED fgn, NEW x \in Reply, toF' = Append(toF, x), x.origin = Head(toOwn).origin,
           ipc' \in Seq(IpcSub), \A s \in DOMAIN ipc' : ipc'[s].hooked,
           x.head # 0 => x.sub = Len(ipc'),
           \A s \in Enqueued' : s = Len(ipc') /\ ipc'[s].origin = x.origin /\ x.head # 0
    PROVE  Dialogue'
<1>1. PICK d : d = Head(toOwn)
  BY Zenon
<1>2. toF \in Seq(ToForeign) /\ toOwn \in Seq(ToOwner) /\ x \in ToForeign
  BY Zenon DEF PipesTypeOK, ToForeign
<1>3. /\ d \in ToOwner /\ d \in Range(toOwn) /\ Range(toOwn') \subseteq Range(toOwn)
      /\ Count(toOwn', Asking) = Count(toOwn, Asking) - 1
  BY <1>1, <1>2, OwnerReadsOne, Zenon
<1>4. d \in Asking
  BY <1>1, <1>3, OwnerKinds, Zenon
<1>5. /\ fgn.status = "WAITING" /\ fgn.sub = 0 /\ toF = <<>> /\ d.origin = fgn.addr
      /\ Count(toOwn, Asking) = 1 /\ Count(toF, Reply) = 0
  BY <1>3, <1>4, AskedAlone, Zenon
<1>6. x.type = "subscribe_reply"
  BY Zenon DEF Reply
<1>7. /\ Range(toF') = Range(toF) \cup {x} /\ toF' # <<>> /\ Head(toF') = x
      /\ Len(toF') = Len(toF) + 1 /\ DOMAIN toF' = 1 .. Len(toF') /\ toF'[Len(toF')] = x
      /\ Count(toF', Reply) = Count(toF, Reply) + 1
  BY <1>2, <1>5, <1>6, ForeignIsSent, Zenon
<1>8. Range(toF) = {} /\ Len(toF) = 0
  BY <1>5 DEF Range
<1>9. Count(toOwn', Asking) + Count(toF', Reply) = IF fgn'.status = "WAITING" THEN 1 ELSE 0
  BY <1>3, <1>5, <1>7
<1>10. \A m \in Range(toOwn') :
         /\ m \in Asking => m.origin = fgn'.addr
         /\ m.type # "nevermind_release"
         /\ m \in KeepaliveReply => m.action # "UNHOOK"
  BY <1>3, Zenon DEF Dialogue
<1>11. \A m \in Range(toF') :
         /\ m \in Reply => /\ m = Head(toF') /\ m.origin = fgn'.addr
                           /\ IF m.head = 0 THEN Len(toF') = 1 ELSE m.sub = Len(ipc')
         /\ m \in Keepalive => m.sub = Len(ipc') /\ m.origin = fgn'.addr
  <2>1. x \notin Keepalive
    BY <1>6, Zenon DEF Keepalive
  <2> QED BY <1>1, <1>5, <1>7, <1>8, <2>1
<1>12. \A k \in DOMAIN toF' : toF'[k].type # "unsubscribed"
  <2>1. \A k \in DOMAIN toF' : k = Len(toF')
    BY <1>7, <1>8
  <2> QED BY <1>6, <1>7, <2>1, Zenon
<1>13. \A s \in Enqueued' : s = Len(ipc') /\ ipc'[s].origin = fgn'.addr /\ (fgn'.sub = s \/ Talking')
  BY <1>1, <1>5, <1>7, Zenon DEF Talking, Granting
<1> QED BY <1>5, <1>7, <1>9, <1>10, <1>11, <1>12, <1>13, Zenon DEF Dialogue

(* The owner gets F's request, enqueues an ipc subscriber and answers. *)
LEMMA ReceiveSubscribeKeeps == HeadsInv /\ receive_subscribe => HeadsInv'
<1> SUFFICES ASSUME HeadsInv, receive_subscribe PROVE HeadsInv'
  BY Zenon
<1>0. PipesTypeOK /\ toF \in Seq(ToForeign) /\ toOwn \in Seq(ToOwner) /\ ipc \in Seq(IpcSub)
  BY Zenon DEF HeadsInv, PipesTypeOK
<1>1. PICK d : d = Head(toOwn)
  BY Zenon
<1>2. toOwn # <<>> /\ d.type = "subscribe" /\ toOwn' = Tail(toOwn) /\ UNCHANGED <<fgn, crashes, failed>>
  BY <1>1, Zenon DEF receive_subscribe, to_own
<1>3. /\ d \in ToOwner /\ d \in Range(toOwn) /\ toOwn' \in Seq(ToOwner) /\ Range(toOwn') \subseteq Range(toOwn)
      /\ Count(toOwn', Release) = Count(toOwn, Release)
      /\ \A s : Count(toOwn', Pongs(s)) = Count(toOwn, Pongs(s))
  BY <1>0, <1>1, <1>2, OwnerReadsOne, Zenon
<1>4. d \in Asking /\ d.origin \in Nat
  BY <1>2, <1>3, OwnerKinds, Zenon DEF Asking
<1>5. /\ Count(toOwn', Release) = Count(toOwn, Release)
      /\ \A s : Count(toOwn', Pongs(s)) = Count(toOwn, Pongs(s))
  BY <1>0, <1>3, CountsNat, Zenon
<1>6. ReleaseFindsHead' /\ NoCrossedReplies'
  BY <1>2, Zenon DEF HeadsInv, ReleaseFindsHead, NoCrossedReplies
<1>7. CASE /\ own' = [get_own EXCEPT !.reserved = @ + 1, !.refs = @ + 1]
           /\ ipc' = Append(ipc, [st |-> "enqueued", origin |-> d.origin,
                                  hooked |-> TRUE, reserved |-> 0, timer |-> TRUE])
           /\ toF' = Append(toF, [type |-> "subscribe_reply", origin |-> d.origin,
                                  head |-> own'.addr, sub |-> Len(ipc) + 1])
  <2>1. PICK g, n, i, x : /\ g = get_own /\ n = Len(ipc)
                          /\ i = [st |-> "enqueued", origin |-> d.origin,
                                  hooked |-> TRUE, reserved |-> 0, timer |-> TRUE]
                          /\ x = [type |-> "subscribe_reply", origin |-> d.origin,
                                  head |-> own'.addr, sub |-> n + 1]
    BY Zenon
  <2>2. /\ g \in Owner /\ g.status = "READY" /\ g.reserved = own.reserved /\ g.subs = own.subs
        /\ g.addr = own.addr \/ own.status = "none"
        /\ Shares(g, fgn, Count(toF, Granting))
        /\ Counts(own, fgn) => Counts(g, fgn)
    BY <2>1, GetOwnOK, Zenon
  <2>3. PICK v \in Nat, f \in Int : v = g.reserved + 1 /\ f = g.refs + 1
    BY <2>2 DEF Owner
  <2>4. own' = [g EXCEPT !.reserved = v, !.refs = f]
    BY <1>7, <2>1, <2>3, Zenon
  <2>5. /\ own' \in Owner /\ own'.reserved = own.reserved + 1 /\ own'.addr = g.addr /\ own'.status = "READY"
        /\ own'.subs = g.subs /\ own'.shsubs = g.shsubs /\ own'.refs = g.refs + 1
    BY <2>2, <2>3, <2>4, Zenon DEF Owner
  <2>6. n \in Nat /\ own'.addr \in Nat /\ own'.addr # 0
    BY <1>0, <2>1, <2>2, <2>5 DEF Owner, Shares
  <2>7. x \in Reply /\ x.type = "subscribe_reply" /\ x.head = own'.addr /\ x.sub = n + 1 /\ x.origin = d.origin
    BY <1>4, <2>1, <2>6 DEF Reply
  <2>8. i \in IpcSub /\ Calm(i) /\ i.reserved = 0 /\ i.hooked /\ i.st = "enqueued" /\ i.origin = d.origin
    BY <1>4, <2>1 DEF IpcSub, Calm
  <2>9. /\ ipc' \in Seq(IpcSub) /\ Len(ipc') = n + 1 /\ DOMAIN ipc' = 1 .. n + 1 /\ DOMAIN ipc = 1 .. n
        /\ ipc'[n + 1] = i /\ \A s \in 1 .. n : ipc'[s] = ipc[s]
    BY <1>0, <1>7, <2>1, <2>8
  <2>10. /\ toF' \in Seq(ToForeign) /\ Range(toF') = Range(toF) \cup {x}
         /\ Count(toF', Granting) = Count(toF, Granting) + 1
         /\ \A s : Count(toF', Pings(s)) = Count(toF, Pings(s))
    <3>1. x \in ToForeign /\ toF' = Append(toF, x)
      BY <1>7, <2>1, <2>7, Zenon DEF ToForeign
    <3> QED BY <1>0, <2>6, <2>7, <3>1, ForeignIsSent
  <2>11. PipesTypeOK'
    BY <1>0, <1>2, <1>3, <2>5, <2>9, <2>10, Zenon DEF PipesTypeOK
  <2>12. Shares(own, fgn, Count(toF, Granting))'
    <3>1. g.refs \in Int /\ Count(toF, Granting) \in Nat /\ given_up(fgn) \in Int
      BY <1>0, <2>2, CountsNat DEF Owner, given_up
    <3> QED BY <1>2, <2>2, <2>5, <2>10, <3>1 DEF Shares
  <2>13. Held'
    <3>1. own.reserved = Count(toF, Granting) + Count(toOwn, Release)
      BY Zenon DEF HeadsInv, Held
    <3>2. Count(toF, Granting) \in Nat /\ Count(toOwn, Release) \in Nat
      BY <1>0, CountsNat, Zenon
    <3> QED BY <1>5, <2>5, <2>10, <3>1, <3>2 DEF Held
  <2>14. Named'
    <3>1. DOMAIN ipc \subseteq DOMAIN ipc' /\ n + 1 \in DOMAIN ipc'
      BY <2>6, <2>9
    <3>2. \A m \in Range(toF) : m \in Granting => m.head = own'.addr
      BY <2>2, <2>5, NoHead, Zenon DEF HeadsInv, Named
    <3>3. \A m \in Range(toOwn) : m \in Release => m.head = own'.addr
      BY <2>2, <2>5, NoHead, Zenon DEF HeadsInv, Named
    <3>4. x \notin Keepalive
      BY <2>7, Zenon DEF Keepalive
    <3>5. ASSUME NEW m \in Range(toF')
          PROVE  /\ m \in Granting => m.head = own'.addr /\ m.sub \in DOMAIN ipc'
                 /\ m \in Keepalive => m.sub \in DOMAIN ipc'
      <4>1. m \in Range(toF) \/ m = x
        BY <2>10, Zenon
      <4> QED BY <2>7, <3>1, <3>2, <3>4, <4>1, Zenon DEF HeadsInv, Named
    <3>6. ASSUME NEW m \in Range(toOwn')
          PROVE  /\ m \in Release => m.head = own'.addr /\ m.sub \in DOMAIN ipc'
                 /\ m \in KeepaliveReply => m.sub \in DOMAIN ipc'
      BY <1>3, <3>1, <3>3, Zenon DEF HeadsInv, Named
    <3> QED BY <3>5, <3>6, Zenon DEF Named
  <2>15. Pinged'
    <3>1. \A s : Count(toF', Pings(s)) = Count(toF, Pings(s))
      BY <1>0, <2>10, CountsNat, Zenon
    <3>2. ASSUME NEW s \in 1 .. n
          PROVE  Calm(ipc'[s]) /\ ipc'[s].reserved = Count(toF', Pings(s)) + Count(toOwn', Pongs(s))
      BY <1>5, <2>9, <3>1, Zenon DEF HeadsInv, Pinged
    <3>3. n + 1 \notin DOMAIN ipc
      BY <2>6, <2>9
    <3>4. Count(toF, Pings(n + 1)) = 0
      <4>1. \A m \in Range(toF) : m \notin Pings(n + 1)
        BY <3>3, Zenon DEF HeadsInv, Named, Pings
      <4> QED BY <1>0, <4>1, CountNone, Zenon
    <3>5. Count(toOwn, Pongs(n + 1)) = 0
      <4>1. \A m \in Range(toOwn) : m \notin Pongs(n + 1)
        BY <3>3, Zenon DEF HeadsInv, Named, Pongs
      <4> QED BY <1>0, <4>1, CountNone, Zenon
    <3>6. Calm(ipc'[n + 1]) /\ ipc'[n + 1].reserved = Count(toF', Pings(n + 1)) + Count(toOwn', Pongs(n + 1))
      BY <1>5, <2>8, <2>9, <3>1, <3>4, <3>5
    <3>7. \A s \in 1 .. n + 1 : s \in 1 .. n \/ s = n + 1
      BY <2>6
    <3> QED BY <2>9, <3>2, <3>6, <3>7, Zenon DEF Pinged
  <2>16. ASSUME crashes = 0 PROVE Dialogue' /\ Counts(own, fgn)'
    <3>1. Dialogue /\ Counts(own, fgn)
      BY <2>16, Zenon DEF HeadsInv
    <3>2. Counts(own', fgn')
      BY <1>2, <2>2, <2>5, <3>1, Zenon DEF Counts
    <3>3. Enqueued = {}
      BY <1>0, <1>3, <1>4, <3>1, AskedAlone, Zenon
    <3>4. Enqueued' = {n + 1}
      <4>1. \A s \in 1 .. n : ipc'[s].st # "enqueued"
        BY <2>9, <3>3, Zenon DEF Enqueued
      <4>2. n + 1 \in 1 .. n + 1 /\ \A s \in 1 .. n + 1 : s \in 1 .. n \/ s = n + 1
        BY <2>6
      <4> QED BY <2>8, <2>9, <4>1, <4>2 DEF Enqueued
    <3>5. \A s \in DOMAIN ipc' : ipc'[s].hooked
      <4>1. \A s \in 1 .. n + 1 : s \in 1 .. n \/ s = n + 1
        BY <2>6
      <4> QED BY <2>8, <2>9, <3>1, <4>1, Zenon DEF Dialogue
    <3>6. toF' = Append(toF, x)
      BY <1>7, <2>1, Zenon
    <3>7. Dialogue'
      BY <1>0, <1>1, <1>2, <2>6, <2>7, <2>8, <2>9, <3>1, <3>4, <3>5, <3>6, Answered, Zenon
    <3> QED BY <3>2, <3>7, Zenon
  <2>17. Attached'
    BY <2>5, Zenon DEF Attached
  <2> QED BY <1>2, <1>6, <2>11, <2>12, <2>13, <2>14, <2>15, <2>16, <2>17, Zenon DEF HeadsInv
<1>8. CASE /\ toF' = Append(toF, [type |-> "subscribe_reply", origin |-> d.origin,
                                  head |-> 0, sub |-> 0])
           /\ UNCHANGED <<own, ipc>>
  <2>1. PICK x : x = [type |-> "subscribe_reply", origin |-> d.origin, head |-> 0, sub |-> 0]
    BY Zenon
  <2>2. x \in Reply /\ x.type = "subscribe_reply" /\ x.head = 0 /\ x.origin = d.origin
    BY <1>4, <2>1, Zenon DEF Reply
  <2>3. /\ toF' \in Seq(ToForeign) /\ Range(toF') = Range(toF) \cup {x}
        /\ Count(toF', Granting) = Count(toF, Granting)
        /\ \A s : Count(toF', Pings(s)) = Count(toF, Pings(s))
    <3>1. x \in ToForeign /\ toF' = Append(toF, x)
      BY <1>8, <2>1, <2>2, Zenon DEF ToForeign
    <3> QED BY <1>0, <2>2, <3>1, ForeignIsSent
  <2>4. /\ Count(toF', Granting) = Count(toF, Granting)
        /\ \A s : Count(toF', Pings(s)) = Count(toF, Pings(s))
    BY <1>0, <2>3, CountsNat, Zenon
  <2>5. PipesTypeOK'
    BY <1>0, <1>2, <1>3, <1>8, <2>3, Zenon DEF PipesTypeOK
  <2>6. Shares(own, fgn, Count(toF, Granting))' /\ Held'
    BY <1>2, <1>5, <1>8, <2>4, Zenon DEF HeadsInv, Held
  <2>7. Named'
    <3>1. x \notin Granting /\ x \notin Keepalive
      BY <2>2, Zenon DEF Granting, Keepalive
    <3> QED BY <1>3, <1>8, <2>3, <3>1, Zenon DEF HeadsInv, Named
  <2>8. Pinged' /\ Attached'
    BY <1>5, <1>8, <2>4, Zenon DEF HeadsInv, Pinged, Attached, Enqueued
  <2>9. ASSUME crashes = 0 PROVE Dialogue' /\ Counts(own, fgn)'
    <3>1. Dialogue /\ Counts(own, fgn)
      BY <2>9, Zenon DEF HeadsInv
    <3>2. Enqueued' = {}
      <4>1. Enqueued = {}
        BY <1>0, <1>3, <1>4, <3>1, AskedAlone, Zenon
      <4> QED BY <1>8, <4>1, Zenon DEF Enqueued
    <3>3. \A s \in DOMAIN ipc' : ipc'[s].hooked
      BY <1>8, <3>1, Zenon DEF Dialogue
    <3>4. toF' = Append(toF, x)
      BY <1>8, <2>1, Zenon
    <3>5. Dialogue'
      BY <1>0, <1>1, <1>2, <1>8, <2>2, <3>1, <3>2, <3>3, <3>4, Answered, Zenon
    <3> QED BY <1>2, <1>8, <3>1, <3>5, Zenon
  <2> QED BY <1>2, <1>6, <2>5, <2>6, <2>7, <2>8, <2>9, Zenon DEF HeadsInv
<1> QED BY <1>1, <1>7, <1>8, Zenon DEF receive_subscribe


(* The dialogue does not depend on what else the owner has read. *)
LEMMA ReadTalk ==
    ASSUME PipesTypeOK, Dialogue, toOwn # <<>>, Head(toOwn).type # "subscribe", toOwn' = Tail(toOwn),
           UNCHANGED <<fgn, toF>>, Len(ipc') = Len(ipc), DOMAIN ipc' = DOMAIN ipc,
           \A s \in DOMAIN ipc : ipc'[s].hooked = ipc[s].hooked /\ ipc'[s].origin = ipc[s].origin,
           Enqueued' \subseteq Enqueued
    PROVE  Dialogue'
<1>1. toOwn \in Seq(ToOwner) /\ toF \in Seq(ToForeign)
  BY Zenon DEF PipesTypeOK
<1>2. Range(toOwn') \subseteq Range(toOwn) /\ Count(toOwn', Asking) = Count(toOwn, Asking)
  BY <1>1, OwnerReadsOne, Zenon
<1>3. PICK r : r = <<>> /\ r \in Seq(Plain) /\ r \in Seq(ToForeign)
  <2>1. <<>> \in Seq(Plain) /\ <<>> \in Seq(ToForeign)
    OBVIOUS
  <2> QED BY <2>1, Zenon
<1>4. toF' = toF \o r
  BY <1>1, <1>3
<1> QED BY <1>2, <1>3, <1>4, PlainTalk, Zenon

(* F has the head; the owner takes back the reservation it made for the
   answer. *)
LEMMA ChanheadReleaseKeeps == HeadsInv /\ receive_subscribe_chanhead_release => HeadsInv'
<1> SUFFICES ASSUME HeadsInv, receive_subscribe_chanhead_release PROVE HeadsInv'
  BY Zenon
<1>0. PipesTypeOK /\ toF \in Seq(ToForeign) /\ toOwn \in Seq(ToOwner) /\ own \in Owner
  BY Zenon DEF HeadsInv, PipesTypeOK
<1>1. PICK d : d = Head(toOwn)
  BY Zenon
<1>2. toOwn # <<>> /\ d.type = "chanhead_release"
  BY <1>1, Zenon DEF receive_subscribe_chanhead_release, to_own
<1>3. /\ d \in ToOwner /\ d \in Range(toOwn) /\ Tail(toOwn) \in Seq(ToOwner) /\ Range(Tail(toOwn)) \subseteq Range(toOwn)
      /\ Count(Tail(toOwn), Release) = Count(toOwn, Release) - 1
      /\ \A s : Count(Tail(toOwn), Pongs(s)) = Count(toOwn, Pongs(s))
  BY <1>0, <1>1, <1>2, OwnerReadsOne, Zenon
<1>4. d \in Release
  BY <1>2, <1>3, OwnerKinds, Zenon
<1>5. own.status # "none" /\ own.addr = d.head
  BY <1>3, <1>4, NoHead, Zenon DEF HeadsInv, Named
<1>6. /\ own' = [own EXCEPT !.reserved = own.reserved - 1] /\ toOwn' = Tail(toOwn)
      /\ UNCHANGED <<fgn, ipc, toF, crashes, failed>>
  BY <1>1, <1>5, Zenon DEF receive_subscribe_chanhead_release
<1>7. Count(toF, Granting) \in Nat /\ Count(toOwn, Release) \in Nat /\ Count(Tail(toOwn), Release) \in Nat
  BY <1>0, <1>3, CountNat, Zenon
<1>8. own.reserved - 1 \in Nat
  BY <1>3, <1>7 DEF HeadsInv, Held
<1>9. /\ own' \in Owner /\ own'.reserved = own.reserved - 1 /\ own'.addr = own.addr /\ own'.status = own.status
      /\ own'.subs = own.subs /\ own'.shsubs = own.shsubs /\ own'.refs = own.refs
  BY <1>0, <1>6, <1>8, Zenon DEF Owner
<1>10. PipesTypeOK'
  BY <1>0, <1>3, <1>6, <1>9, Zenon DEF PipesTypeOK
<1>11. Shares(own, fgn, Count(toF, Granting))'
  BY <1>5, <1>6, <1>9, Zenon DEF HeadsInv, Shares
<1>12. Held'
  <2>1. own.reserved = Count(toF, Granting) + Count(toOwn, Release)
    BY Zenon DEF HeadsInv, Held
  <2> QED BY <1>3, <1>6, <1>7, <1>9, <2>1 DEF Held
<1>13. Named'
  BY <1>3, <1>6, <1>9, Zenon DEF HeadsInv, Named
<1>14. Pinged' /\ Attached'
  BY <1>3, <1>5, <1>6, <1>9, Zenon DEF HeadsInv, Pinged, Attached
<1>15. ASSUME crashes = 0 PROVE Dialogue' /\ Counts(own, fgn)'
  <2>1. Dialogue /\ Counts(own, fgn)
    BY <1>15, Zenon DEF HeadsInv
  <2>2. Dialogue'
    <3>1. Enqueued' \subseteq Enqueued
      BY <1>6, Zenon DEF Enqueued
    <3> QED BY <1>0, <1>1, <1>2, <1>6, <2>1, <3>1, ReadTalk, Zenon
  <2> QED BY <1>6, <1>9, <2>1, <2>2, Zenon DEF Counts
<1>16. ReleaseFindsHead' /\ NoCrossedReplies'
  BY <1>6, Zenon DEF HeadsInv, ReleaseFindsHead, NoCrossedReplies
<1> QED BY <1>6, <1>10, <1>11, <1>12, <1>13, <1>14, <1>15, <1>16, Zenon DEF HeadsInv

(* An assertion that stops a worker, and is not one of those that never do. *)
LEMMA FailKeeps ==
    ASSUME HeadsInv, NEW line, fail(line), line # "ipc-handlers.c:240",
           crashes = 0 => line \notin {"ipc-handlers.c:185", "ipc-handlers.c:199",
                                       "ipc-handlers.c:251", "memstore.c:1251",
                                       "memstore.c:1366", "memstore.c:1526"}
    PROVE  HeadsInv'
<1>1. UNCHANGED <<own, fgn, ipc, toF, toOwn, crashes>> /\ failed' = line
  BY Zenon DEF fail
<1>2. PipesTypeOK' /\ Shares(own, fgn, Count(toF, Granting))' /\ Held' /\ Named' /\ Pinged' /\ Attached'
  BY <1>1, Zenon DEF HeadsInv, PipesTypeOK, Held, Named, Pinged, Attached, Enqueued
<1>3. crashes' = 0 => Dialogue' /\ Counts(own, fgn)'
  BY <1>1, Zenon DEF HeadsInv, Dialogue, Enqueued, Talking
<1>4. ReleaseFindsHead' /\ NoCrossedReplies'
  BY <1>1, Zenon DEF ReleaseFindsHead, NoCrossedReplies
<1> QED BY <1>2, <1>3, <1>4, Zenon DEF HeadsInv


(* The subscriber that a nevermind_release is about goes; this only happens
   once F has been killed. *)
LEMMA NevermindReleaseKeeps == HeadsInv /\ receive_subscribe_chanhead_nevermind_release => HeadsInv'
<1> SUFFICES ASSUME HeadsInv, receive_subscribe_chanhead_nevermind_release PROVE HeadsInv'
  BY Zenon
<1>0. PipesTypeOK /\ toF \in Seq(ToForeign) /\ toOwn \in Seq(ToOwner) /\ own \in Owner /\ ipc \in Seq(IpcSub)
  BY Zenon DEF HeadsInv, PipesTypeOK
<1>1. PICK d, s : d = Head(toOwn) /\ s = d.sub
  BY Zenon
<1>2. toOwn # <<>> /\ d.type = "nevermind_release"
  BY <1>1, Zenon DEF receive_subscribe_chanhead_nevermind_release, to_own
<1>3. /\ d \in ToOwner /\ d \in Range(toOwn) /\ Tail(toOwn) \in Seq(ToOwner) /\ Range(Tail(toOwn)) \subseteq Range(toOwn)
      /\ Count(Tail(toOwn), Release) = Count(toOwn, Release) - 1
      /\ \A t : Count(Tail(toOwn), Pongs(t)) = Count(toOwn, Pongs(t))
  BY <1>0, <1>1, <1>2, OwnerReadsOne, Zenon
<1>4. d \in Release
  BY <1>2, <1>3, OwnerKinds, Zenon
<1>5. own.status # "none" /\ own.addr = d.head /\ s \in DOMAIN ipc
  BY <1>1, <1>3, <1>4, NoHead, Zenon DEF HeadsInv, Named
<1>6. crashes # 0
  BY <1>2, <1>3, Zenon DEF HeadsInv, Dialogue
<1>7. CASE ipc[s].st = "freed"
  <2>1. fail("ipc-handlers.c:251")
    BY <1>1, <1>5, <1>7, Zenon DEF receive_subscribe_chanhead_nevermind_release
  <2> QED BY <1>6, <2>1, FailKeeps, Zenon
<1>8. CASE ipc[s].st # "freed"
  <2>1. PICK g : g = get_own
    BY Zenon
  <2>2. /\ g \in Owner /\ g.status = "READY" /\ g.reserved = own.reserved /\ g.addr = own.addr
        /\ Shares(g, fgn, Count(toF, Granting))
    BY <1>5, <2>1, GetOwnOK, Zenon
  <2>3. Count(toF, Granting) \in Nat /\ Count(toOwn, Release) \in Nat /\ Count(Tail(toOwn), Release) \in Nat
    BY <1>0, <1>3, CountNat, Zenon
  <2>4. PICK v \in Nat : v = g.reserved - 1
    BY <1>3, <2>2, <2>3 DEF HeadsInv, Held
  <2>5. PICK o : o = [g EXCEPT !.reserved = v]
    BY Zenon
  <2>6. /\ ipc' = [ipc EXCEPT ![s] = dequeued([ipc[s] EXCEPT !.hooked = FALSE])]
        /\ own' = o \/ own' = [o EXCEPT !.status = "INACTIVE"]
        /\ toOwn' = Tail(toOwn) /\ UNCHANGED <<fgn, toF, crashes, failed>>
    BY <1>1, <1>5, <1>8, <2>1, <2>4, <2>5, Zenon DEF receive_subscribe_chanhead_nevermind_release, gc_own
  <2>7. /\ own' \in Owner /\ own'.reserved = v /\ own'.addr = own.addr /\ own'.status # "none"
        /\ own'.subs = g.subs /\ own'.refs = g.refs
    BY <2>2, <2>4, <2>5, <2>6, Zenon DEF Owner
  <2>8. ipc[s] \in IpcSub /\ Calm(ipc[s])
    BY <1>0, <1>5 DEF HeadsInv, Pinged
  <2>9. PICK i : i = [ipc[s] EXCEPT !.hooked = FALSE]
    BY Zenon
  <2>10. i \in IpcSub /\ Calm(i) /\ i.reserved = ipc[s].reserved
    BY <2>8, <2>9, Zenon DEF IpcSub, Calm
  <2>11. dequeued(i) \in IpcSub /\ Calm(dequeued(i)) /\ dequeued(i).reserved = ipc[s].reserved
    BY <2>10, DequeuedOK, Zenon
  <2>12. /\ ipc' \in Seq(IpcSub) /\ DOMAIN ipc' = DOMAIN ipc
         /\ ipc'[s] = dequeued(i) /\ \A t \in DOMAIN ipc : t # s => ipc'[t] = ipc[t]
    <3>1. ipc' = [ipc EXCEPT ![s] = dequeued(i)]
      BY <2>6, <2>9, Zenon
    <3>2. PICK j \in IpcSub : j = dequeued(i)
      BY <2>11, Zenon
    <3> QED BY <1>0, <1>5, <3>1, <3>2
  <2>13. PipesTypeOK'
    BY <1>0, <1>3, <2>6, <2>7, <2>12, Zenon DEF PipesTypeOK
  <2>14. Shares(own, fgn, Count(toF, Granting))'
    BY <2>2, <2>6, <2>7, Zenon DEF Shares
  <2>15. Held'
    <3>1. own.reserved = Count(toF, Granting) + Count(toOwn, Release)
      BY Zenon DEF HeadsInv, Held
    <3> QED BY <1>3, <2>2, <2>3, <2>4, <2>6, <2>7, <3>1 DEF Held
  <2>16. Named'
    BY <1>3, <2>6, <2>7, <2>12, Zenon DEF HeadsInv, Named
  <2>17. Pinged'
    <3>1. \A t \in DOMAIN ipc : Calm(ipc'[t]) /\ ipc'[t].reserved = ipc[t].reserved
      BY <2>11, <2>12, Zenon DEF HeadsInv, Pinged
    <3> QED BY <1>3, <2>6, <2>12, <3>1, Zenon DEF HeadsInv, Pinged
  <2>18. Attached' /\ ReleaseFindsHead' /\ NoCrossedReplies'
    BY <2>6, <2>7, Zenon DEF HeadsInv, Attached, ReleaseFindsHead, NoCrossedReplies
  <2> QED BY <1>6, <2>6, <2>13, <2>14, <2>15, <2>16, <2>17, <2>18, Zenon DEF HeadsInv
<1> QED BY <1>7, <1>8, Zenon

(* The reply to the one keepalive of s that is on its way. *)
LEMMA OnePong ==
    ASSUME HeadsInv, toOwn # <<>>, Head(toOwn).type = "keepalive_reply", NEW s, s = Head(toOwn).sub
    PROVE  /\ s \in DOMAIN ipc /\ ipc[s] \in IpcSub /\ Calm(ipc[s]) /\ ipc[s].reserved = 1
           /\ Count(toF, Pings(s)) = 0 /\ Count(Tail(toOwn), Pongs(s)) = 0
<1>1. toOwn \in Seq(ToOwner) /\ toF \in Seq(ToForeign) /\ ipc \in Seq(IpcSub)
  BY Zenon DEF HeadsInv, PipesTypeOK
<1>2. /\ Head(toOwn) \in ToOwner /\ Head(toOwn) \in Range(toOwn) /\ Tail(toOwn) \in Seq(ToOwner)
      /\ Count(Tail(toOwn), Pongs(s)) = Count(toOwn, Pongs(s)) - 1
  BY <1>1, OwnerReadsOne, Zenon
<1>3. s \in DOMAIN ipc
  BY <1>2, OwnerKinds, Zenon DEF HeadsInv, Named
<1>4. Calm(ipc[s]) /\ ipc[s].reserved = Count(toF, Pings(s)) + Count(toOwn, Pongs(s))
  BY <1>3, Zenon DEF HeadsInv, Pinged
<1>5. Count(toF, Pings(s)) \in Nat /\ Count(toOwn, Pongs(s)) \in Nat /\ Count(Tail(toOwn), Pongs(s)) \in Nat
  BY <1>1, <1>2, CountNat, Zenon
<1>6. ipc[s].reserved = 1 /\ Count(toF, Pings(s)) = 0 /\ Count(Tail(toOwn), Pongs(s)) = 0
  BY <1>2, <1>4, <1>5 DEF Calm
<1> QED BY <1>1, <1>3, <1>4, <1>6


(* What the reply to its keepalive makes of a subscriber. *)
LEMMA RepliedOK ==
    ASSUME NEW i \in IpcSub, Calm(i), i.reserved = 1, NEW action \in {"RENEW", "NORENEW", "UNHOOK"},
           NEW j, j = released(IF action = "NORENEW" THEN dequeued(i)
                               ELSE IF action = "RENEW" THEN [i EXCEPT !.timer = TRUE]
                               ELSE [i EXCEPT !.hooked = FALSE])
    PROVE  /\ j \in IpcSub /\ Calm(j) /\ j.reserved = 0 /\ j.origin = i.origin
           /\ action # "UNHOOK" => j.hooked = i.hooked
           /\ j.st = "enqueued" => i.st = "enqueued" /\ action # "NORENEW"
<1>1. PICK k : k = IF action = "NORENEW" THEN dequeued(i)
                   ELSE IF action = "RENEW" THEN [i EXCEPT !.timer = TRUE]
                   ELSE [i EXCEPT !.hooked = FALSE]
  BY Zenon
<1>2. i.timer = FALSE /\ i.st # "freed"
  BY DEF Calm, IpcSub
<1>3. /\ k \in IpcSub /\ k.reserved = 1 /\ k.origin = i.origin /\ k.st # "freed"
      /\ action # "UNHOOK" => k.hooked = i.hooked
      /\ k.st = "enqueued" => i.st = "enqueued" /\ action # "NORENEW"
  <2>1. CASE action = "NORENEW"
    <3>1. /\ dequeued(i) \in IpcSub /\ Calm(dequeued(i)) /\ dequeued(i).reserved = i.reserved
          /\ dequeued(i).hooked = i.hooked /\ dequeued(i).origin = i.origin /\ dequeued(i).st # "enqueued"
      BY DequeuedOK, Zenon
    <3>2. dequeued(i).st # "freed"
      BY <3>1 DEF Calm
    <3> QED BY <1>1, <2>1, <3>1, <3>2, Zenon
  <2>2. CASE action = "RENEW"
    BY <1>1, <1>2, <2>2, Zenon DEF IpcSub
  <2>3. CASE action = "UNHOOK"
    BY <1>1, <1>2, <2>3, Zenon DEF IpcSub
  <2> QED BY <2>1, <2>2, <2>3, Zenon
<1>4. PICK z \in Nat, t \in {"enqueued", "freed"} :
         z = 0 /\ t = (IF k.st = "lingering" THEN "freed" ELSE k.st)
  <2>1. k.st \in {"enqueued", "lingering"}
    BY <1>3, Zenon DEF IpcSub
  <2> QED BY <2>1, Zenon
<1>5. j = [k EXCEPT !.reserved = z, !.st = t]
  <2>1. j = [k EXCEPT !.reserved = @ - 1, !.st = IF @ = "lingering" /\ k.reserved = 1 THEN "freed" ELSE @]
    BY <1>1, Zenon DEF released
  <2>2. k.reserved - 1 = z
    BY <1>3, <1>4
  <2> QED BY <1>3, <1>4, <2>1, <2>2, Zenon DEF IpcSub
<1>6. /\ j \in IpcSub /\ j.reserved = 0 /\ j.origin = k.origin /\ j.hooked = k.hooked
      /\ j.st = t /\ t # "lingering" /\ (t = "enqueued" => k.st = "enqueued")
  BY <1>3, <1>4, <1>5, Zenon DEF IpcSub
<1>7. Calm(j)
  BY <1>6 DEF Calm
<1> QED BY <1>3, <1>6, <1>7, Zenon

(* F answers a keepalive: the ipc subscriber lives on, is dequeued, or is
   unhooked from the channel that F no longer has. *)
LEMMA KeepaliveReplyKeeps == HeadsInv /\ receive_subscriber_keepalive_reply => HeadsInv'
<1> SUFFICES ASSUME HeadsInv, receive_subscriber_keepalive_reply PROVE HeadsInv'
  BY Zenon
<1>0. PipesTypeOK /\ toF \in Seq(ToForeign) /\ toOwn \in Seq(ToOwner) /\ own \in Owner /\ ipc \in Seq(IpcSub)
  BY Zenon DEF HeadsInv, PipesTypeOK
<1>1. PICK d, s, i : d = Head(toOwn) /\ s = d.sub /\ i = ipc[s]
  BY Zenon
<1>2. /\ toOwn # <<>> /\ d.type = "keepalive_reply" /\ toOwn' = Tail(toOwn)
      /\ UNCHANGED <<fgn, crashes, failed>>
  BY <1>1, Zenon DEF receive_subscriber_keepalive_reply, to_own
<1>3. /\ d \in ToOwner /\ d \in Range(toOwn) /\ toOwn' \in Seq(ToOwner) /\ Range(toOwn') \subseteq Range(toOwn)
      /\ Count(toOwn', Release) = Count(toOwn, Release) /\ Count(toOwn', Asking) = Count(toOwn, Asking)
      /\ \A t : t # s => Count(toOwn', Pongs(t)) = Count(toOwn, Pongs(t))
  BY <1>0, <1>1, <1>2, OwnerReadsOne, Zenon
<1>4. d \in KeepaliveReply /\ d.action \in {"RENEW", "NORENEW", "UNHOOK"}
  BY <1>2, <1>3, OwnerKinds, Zenon DEF KeepaliveReply
<1>5. /\ s \in DOMAIN ipc /\ i \in IpcSub /\ Calm(i) /\ i.reserved = 1
      /\ Count(toF, Pings(s)) = 0 /\ Count(toOwn', Pongs(s)) = 0
  BY <1>1, <1>2, OnePong, Zenon
<1>6. PICK j : j = released(IF d.action = "NORENEW" THEN dequeued(i)
                            ELSE IF d.action = "RENEW" THEN [i EXCEPT !.timer = TRUE]
                            ELSE [i EXCEPT !.hooked = FALSE])
  BY Zenon
<1>7. /\ j \in IpcSub /\ Calm(j) /\ j.reserved = 0 /\ j.origin = i.origin
      /\ d.action # "UNHOOK" => j.hooked = i.hooked
      /\ j.st = "enqueued" => i.st = "enqueued" /\ d.action # "NORENEW"
  BY <1>4, <1>5, <1>6, RepliedOK, Zenon
<1>8. /\ ipc' = [ipc EXCEPT ![s] = j]
      /\ own' = IF d.action = "NORENEW" /\ Enqueued = {s} /\ own.subs = 0 THEN gc_own(own) ELSE own
      /\ toF' = IF d.action = "NORENEW" /\ i.st = "enqueued" /\ i.hooked
                  THEN Append(toF, [type |-> "unsubscribed"]) ELSE toF
  BY <1>1, <1>6, Zenon DEF receive_subscriber_keepalive_reply
<1>9. /\ ipc' \in Seq(IpcSub) /\ DOMAIN ipc' = DOMAIN ipc /\ Len(ipc') = Len(ipc)
      /\ ipc'[s] = j /\ \A t \in DOMAIN ipc : t # s => ipc'[t] = ipc[t]
  BY <1>0, <1>5, <1>7, <1>8
<1>10. Enqueued' \subseteq Enqueued /\ (d.action = "NORENEW" => s \notin Enqueued')
  BY <1>1, <1>5, <1>7, <1>9, Zenon DEF Enqueued
<1>11. /\ own' \in Owner /\ own'.reserved = own.reserved /\ own'.addr = own.addr
       /\ own'.subs = own.subs /\ own'.shsubs = own.shsubs /\ own'.refs = own.refs
       /\ own'.status = "none" <=> own.status = "none"
  <2>1. Enqueued # {} => own.status # "none"
    BY Zenon DEF HeadsInv, Attached
  <2> QED BY <1>0, <1>8, <2>1, Zenon DEF gc_own, Owner
<1>12. PICK r : r = IF d.action = "NORENEW" /\ i.st = "enqueued" /\ i.hooked
                      THEN <<[type |-> "unsubscribed"]>> ELSE <<>>
  BY Zenon
<1>13. r \in Seq(Plain) /\ r \in Seq(ToForeign) /\ toF' = toF \o r
  <2>1. PICK u : u = [type |-> "unsubscribed"]
    BY Zenon
  <2>2. u \in Plain /\ u \in ToForeign
    BY <2>1, Zenon DEF Plain, ToForeign
  <2>3. toF \o <<u>> = Append(toF, u) /\ toF \o <<>> = toF
    BY <1>0, <2>2
  <2>4. <<u>> \in Seq(Plain) /\ <<u>> \in Seq(ToForeign)
    BY <2>2
  <2>5. CASE d.action = "NORENEW" /\ i.st = "enqueued" /\ i.hooked
    BY <1>8, <1>12, <2>1, <2>3, <2>4, <2>5, Zenon
  <2>6. CASE ~(d.action = "NORENEW" /\ i.st = "enqueued" /\ i.hooked)
    <3>1. r = <<>> /\ toF' = toF
      BY <1>8, <1>12, <2>6, Zenon
    <3> QED BY <2>3, <3>1
  <2> QED BY <2>5, <2>6, Zenon
<1>14. /\ toF' \in Seq(ToForeign) /\ Range(toF') = Range(toF) \cup Range(r)
       /\ Count(toF', Granting) = Count(toF, Granting) /\ \A t : Count(toF', Pings(t)) = Count(toF, Pings(t))
       /\ \A m \in Range(r) : m \notin Granting /\ m \notin Keepalive
  <2>1. Range(r) \subseteq Plain
    BY <1>13, InPipe, Zenon
  <2>2. \A m \in Range(r) : m \notin Granting /\ m \notin Keepalive
    BY <2>1, Zenon DEF Plain, Granting, Reply, Keepalive
  <2>3. \A t : \A m \in Range(r) : m \notin Pings(t)
    BY <2>2, Zenon DEF Pings
  <2> QED BY <1>0, <1>13, <2>2, <2>3, InPipe, CountOthers
<1>15. PipesTypeOK'
  BY <1>0, <1>2, <1>3, <1>9, <1>11, <1>14, Zenon DEF PipesTypeOK
<1>16. Shares(own, fgn, Count(toF, Granting))'
  BY <1>2, <1>11, <1>14, Zenon DEF HeadsInv, Shares
<1>17. Held'
  BY <1>3, <1>11, <1>14, Zenon DEF HeadsInv, Held
<1>18. Named'
  BY <1>3, <1>9, <1>11, <1>14, Zenon DEF HeadsInv, Named
<1>19. Pinged'
  <2>1. Calm(ipc'[s]) /\ ipc'[s].reserved = Count(toF', Pings(s)) + Count(toOwn', Pongs(s))
    BY <1>5, <1>7, <1>9, <1>14
  <2>2. \A t \in DOMAIN ipc : t # s =>
            Calm(ipc'[t]) /\ ipc'[t].reserved = Count(toF', Pings(t)) + Count(toOwn', Pongs(t))
    BY <1>3, <1>9, <1>14, Zenon DEF HeadsInv, Pinged
  <2> QED BY <1>9, <2>1, <2>2, Zenon DEF Pinged
<1>20. Attached' /\ ReleaseFindsHead' /\ NoCrossedReplies'
  BY <1>2, <1>10, <1>11, Zenon DEF HeadsInv, Attached, ReleaseFindsHead, NoCrossedReplies
<1>21. ASSUME crashes = 0 PROVE Dialogue' /\ Counts(own, fgn)'
  <2>1. Dialogue /\ Counts(own, fgn)
    BY <1>21, Zenon DEF HeadsInv
  <2>2. d.action # "UNHOOK"
    BY <1>3, <1>4, <2>1, Zenon DEF Dialogue
  <2>3. \A t \in DOMAIN ipc : ipc'[t].hooked = ipc[t].hooked /\ ipc'[t].origin = ipc[t].origin
    BY <1>1, <1>7, <1>9, <2>2, Zenon
  <2>4. ASSUME r # <<>>
        PROVE  /\ toF = <<>> => fgn.sub # 0
               /\ \A k \in DOMAIN toF : toF[k].type # "unsubscribed"
               /\ \A m \in Range(toF) : m \in Reply => m.head # 0
               /\ \A k \in 1 .. Len(r) : r[k].type = "unsubscribed" => k = Len(r) /\ Enqueued' = {}
    <3>1. s \in Enqueued /\ d.action = "NORENEW" /\ Len(r) = 1
      BY <1>1, <1>5, <1>12, <2>4, Zenon DEF Enqueued
    <3>2. Enqueued = {s} /\ ipc[s].hooked
      BY <1>5, <2>1, <3>1, Zenon DEF Dialogue
    <3>3. Enqueued' = {}
      BY <1>10, <3>1, <3>2, Zenon
    <3>4. /\ toF = <<>> => fgn.sub # 0
          /\ \A k \in DOMAIN toF : toF[k].type # "unsubscribed"
          /\ \A m \in Range(toF) : m \in Reply => m.head # 0
      BY <1>0, <1>13, <2>1, <3>1, <3>2, Sender, Zenon
    <3> QED BY <3>1, <3>3, <3>4
  <2>5. Dialogue'
    BY <1>0, <1>2, <1>3, <1>9, <1>10, <1>13, <2>1, <2>3, <2>4, PlainTalk, Zenon
  <2>6. Counts(own, fgn)'
    BY <1>2, <1>11, <2>1, Zenon DEF Counts
  <2> QED BY <2>5, <2>6, Zenon
<1> QED BY <1>2, <1>15, <1>16, <1>17, <1>18, <1>19, <1>20, <1>21, Zenon DEF HeadsInv


-----------------------------------------------------------------------------
(* The keepalive of a subscriber. *)
LEMMA TimeoutKeeps == ASSUME NEW s \in DOMAIN ipc, HeadsInv, timeout_ev_handler(s) PROVE HeadsInv'
<1>0. PipesTypeOK /\ toF \in Seq(ToForeign) /\ ipc \in Seq(IpcSub)
  BY Zenon DEF HeadsInv, PipesTypeOK
<1>1. PICK i : i = ipc[s]
  BY Zenon
<1>2. i \in IpcSub /\ Calm(i) /\ i.timer
  BY <1>0, <1>1 DEF HeadsInv, Pinged, timeout_ev_handler
<1>3. CASE i.st = "freed"
  <2>1. fail("memstore_ipc.c:142")
    BY <1>1, <1>3, Zenon DEF timeout_ev_handler
  <2> QED BY <2>1, FailKeeps, Zenon
<1>4. CASE i.st # "freed"
  <2>1. i.st = "enqueued" /\ i.reserved = 0 /\ s \in Enqueued
    BY <1>1, <1>2, <1>4 DEF Calm, IpcSub, Enqueued
  <2>2. PICK j, x : /\ j = [i EXCEPT !.timer = FALSE, !.reserved = IF i.hooked THEN i.reserved + 1 ELSE i.reserved]
                    /\ x = [type |-> "keepalive", sub |-> s, origin |-> i.origin]
    BY Zenon
  <2>3. /\ j \in IpcSub /\ Calm(j) /\ j.reserved = (IF i.hooked THEN 1 ELSE 0)
        /\ j.st = i.st /\ j.hooked = i.hooked /\ j.origin = i.origin
    <3>1. PICK v \in Nat : v = IF i.hooked THEN 1 ELSE 0
      BY Zenon
    <3>2. j = [i EXCEPT !.timer = FALSE, !.reserved = v]
      BY <2>1, <2>2, <3>1
    <3>3. j \in IpcSub /\ j.reserved = v /\ j.timer = FALSE /\ j.st = i.st /\ j.hooked = i.hooked /\ j.origin = i.origin
      BY <1>2, <3>2, Zenon DEF IpcSub
    <3> QED BY <2>1, <3>1, <3>3 DEF Calm
  <2>4. s \in Nat /\ DOMAIN ipc = 1 .. Len(ipc)
    BY <1>0
  <2>5. x \in Keepalive /\ x \in ToForeign /\ x.type = "keepalive" /\ x.sub = s /\ x.origin = i.origin /\ x \notin Reply
    BY <1>2, <2>2, <2>4, Zenon DEF Keepalive, ToForeign, IpcSub, Reply
  <2>6. /\ ipc' = [ipc EXCEPT ![s] = j] /\ toF' = IF i.hooked THEN Append(toF, x) ELSE toF
        /\ UNCHANGED <<own, fgn, toOwn, crashes, failed>>
    BY <1>0, <1>1, <1>4, <2>2, Zenon DEF timeout_ev_handler
  <2>7. /\ ipc' \in Seq(IpcSub) /\ DOMAIN ipc' = DOMAIN ipc /\ Len(ipc') = Len(ipc)
        /\ ipc'[s] = j /\ \A t \in DOMAIN ipc : t # s => ipc'[t] = ipc[t]
    BY <1>0, <2>3, <2>6
  <2>8. /\ toF' \in Seq(ToForeign) /\ (\A m \in Range(toF') : m \in Range(toF) \/ m = x)
        /\ Count(toF', Granting) = Count(toF, Granting) /\ Count(toF', Reply) = Count(toF, Reply)
    BY <1>0, <2>5, <2>6, ForeignIsSent
  <2>9. \A t : Count(toF', Pings(t)) = Count(toF, Pings(t)) + IF t = s /\ i.hooked THEN 1 ELSE 0
    <3>1. \A t : Count(toF, Pings(t)) \in Nat
      BY <1>0, CountsNat, Zenon
    <3>2. CASE i.hooked
      <4>1. toF' = Append(toF, x)
        BY <2>6, <3>2, Zenon
      <4> QED BY <1>0, <2>5, <3>1, <3>2, <4>1, ForeignIsSent
    <3>3. CASE ~i.hooked
      BY <2>6, <3>1, <3>3
    <3> QED BY <3>2, <3>3, Zenon
  <2>10. Enqueued' = Enqueued
    BY <1>1, <2>3, <2>7, Zenon DEF Enqueued
  <2>11. PipesTypeOK'
    BY <1>0, <2>6, <2>7, <2>8, Zenon DEF PipesTypeOK
  <2>12. Shares(own, fgn, Count(toF, Granting))' /\ Held'
    BY <2>6, <2>8, Zenon DEF HeadsInv, Held
  <2>13. Named'
    <3>1. x \notin Granting
      BY <2>5, Zenon DEF Granting
    <3> QED BY <2>5, <2>6, <2>7, <2>8, <3>1, Zenon DEF HeadsInv, Named
  <2>14. Pinged'
    <3>1. \A t \in DOMAIN ipc : Count(toF, Pings(t)) \in Nat /\ Count(toOwn, Pongs(t)) \in Nat
      BY <1>0, CountsNat, Zenon
    <3>2. ASSUME NEW t \in DOMAIN ipc
          PROVE  Calm(ipc'[t]) /\ ipc'[t].reserved = Count(toF', Pings(t)) + Count(toOwn, Pongs(t))
      <4>1. Calm(ipc[t]) /\ ipc[t].reserved = Count(toF, Pings(t)) + Count(toOwn, Pongs(t))
        BY Zenon DEF HeadsInv, Pinged
      <4>2. CASE t = s
        BY <1>1, <2>1, <2>3, <2>7, <2>9, <3>1, <4>1, <4>2, SMTT(30)
      <4>3. CASE t # s
        BY <2>7, <2>9, <3>1, <4>1, <4>3
      <4> QED BY <4>2, <4>3, Zenon
    <3> QED BY <2>6, <2>7, <3>2, Zenon DEF Pinged
  <2>15. Attached' /\ ReleaseFindsHead' /\ NoCrossedReplies'
    BY <2>6, <2>10, Zenon DEF HeadsInv, Attached, ReleaseFindsHead, NoCrossedReplies
  <2>16. ASSUME crashes = 0 PROVE Dialogue' /\ Counts(own, fgn)'
    <3>1. Dialogue /\ Counts(own, fgn)
      BY <2>16, Zenon DEF HeadsInv
    <3>2. Enqueued = {s} /\ i.hooked /\ s = Len(ipc) /\ i.origin = fgn.addr /\ s # 0
      BY <1>1, <2>1, <2>4, <3>1 DEF Dialogue
    <3>3. toF' = Append(toF, x)
      BY <2>6, <3>2, Zenon
    <3>4. /\ toF = <<>> => fgn.sub # 0
          /\ \A k \in DOMAIN toF : toF[k].type # "unsubscribed"
          /\ \A m \in Range(toF) : m \in Reply => m.head # 0
      <4>1. PICK w : w = <<[type |-> "publish_message"]>>
        BY Zenon
      <4>2. w \in Seq(Plain) /\ Len(w) \in {1, 2}
        <5>1. [type |-> "publish_message"] \in Plain
          BY Zenon DEF Plain
        <5> QED BY <4>1, <5>1
      <4> QED BY <1>0, <3>1, <3>2, <4>2, Sender, Zenon
    <3>5. /\ toF' # <<>> /\ (toF # <<>> => Head(toF') = Head(toF)) /\ (toF = <<>> => Head(toF') = x)
          /\ toF'[Len(toF')] = x /\ \A k \in DOMAIN toF : toF'[k] = toF[k]
          /\ \A k \in DOMAIN toF' : k # Len(toF') => k \in DOMAIN toF
      BY <1>0, <2>5, <3>3, ForeignIsSent
    <3>6. Count(toOwn, Asking)' + Count(toF', Reply) = IF fgn'.status = "WAITING" THEN 1 ELSE 0
      BY <2>6, <2>8, <3>1, Zenon DEF Dialogue
    <3>7. ASSUME NEW m \in Range(toF')
          PROVE  /\ m \in Reply => /\ m = Head(toF') /\ m.origin = fgn'.addr
                                   /\ IF m.head = 0 THEN Len(toF') = 1 ELSE m.sub = Len(ipc')
                 /\ m \in Keepalive => m.sub = Len(ipc') /\ m.origin = fgn'.addr
      <4>1. CASE m = x
        BY <2>5, <2>6, <2>7, <3>2, <4>1, Zenon
      <4>2. CASE m \in Range(toF)
        <5>1. toF # <<>>
          BY <4>2 DEF Range
        <5> QED BY <2>6, <2>7, <3>1, <3>4, <3>5, <4>2, <5>1, Zenon DEF Dialogue
      <4> QED BY <2>8, <4>1, <4>2, Zenon
    <3>8. \A k \in DOMAIN toF' : toF'[k].type # "unsubscribed"
      BY <2>5, <3>4, <3>5, Zenon
    <3>9. toF' # <<>> /\ Head(toF') \notin Reply => fgn'.sub # 0
      BY <2>6, <3>1, <3>4, <3>5, Zenon DEF Dialogue
    <3>10. \A t \in DOMAIN ipc' : ipc'[t].hooked
      BY <1>1, <2>3, <2>7, <3>1, Zenon DEF Dialogue
    <3>11. \A t \in Enqueued' : t = Len(ipc') /\ ipc'[t].origin = fgn'.addr /\ (fgn'.sub = t \/ Talking')
      <4>1. fgn.sub = s \/ (toF # <<>> /\ Head(toF) \in Granting)
        BY <3>1, <3>2, Zenon DEF Dialogue, Talking
      <4> QED BY <2>3, <2>6, <2>7, <2>10, <3>2, <3>5, <4>1, Zenon DEF Talking
    <3>12. /\ fgn'.sub # 0 => fgn'.sub = Len(ipc') /\ fgn'.status = "READY"
           /\ \A m \in Range(toOwn') :
                 /\ m \in Asking => m.origin = fgn'.addr
                 /\ m.type # "nevermind_release"
                 /\ m \in KeepaliveReply => m.action # "UNHOOK"
      BY <2>6, <2>7, <3>1, Zenon DEF Dialogue
    <3>13. Dialogue'
      BY <3>6, <3>7, <3>8, <3>9, <3>10, <3>11, <3>12, Zenon DEF Dialogue
    <3> QED BY <2>6, <3>1, <3>13, Zenon
  <2> QED BY <2>6, <2>11, <2>12, <2>13, <2>14, <2>15, <2>16, Zenon DEF HeadsInv
<1> QED BY <1>3, <1>4, Zenon

-----------------------------------------------------------------------------
(* What F does. *)

(* A step of F that takes no reply keeps everything but the dialogue if it
   keeps what is shared, and answers each keepalive that it reads. *)
LEMMA ForeignStep ==
    ASSUME HeadsInv, UNCHANGED <<ipc, failed>>, crashes' \in 0 .. 1, crashes' = 0 => crashes = 0,
           own' \in Owner, own'.reserved = own.reserved, own'.addr = own.addr, own'.status = own.status,
           fgn' \in Foreign, Shares(own', fgn', Count(toF, Granting)),
           toF' \in Seq(ToForeign), Range(toF') \subseteq Range(toF),
           Count(toF', Granting) = Count(toF, Granting),
           toOwn' \in Seq(ToOwner), Count(toOwn', Release) = Count(toOwn, Release),
           \A m \in Range(toOwn') : m \in Range(toOwn) \/ m \in Asking
                                    \/ (m \in KeepaliveReply /\ m.sub \in DOMAIN ipc),
           \A s \in DOMAIN ipc : Count(toF', Pings(s)) + Count(toOwn', Pongs(s))
                                 = Count(toF, Pings(s)) + Count(toOwn, Pongs(s)),
           crashes' = 0 => Dialogue' /\ Counts(own', fgn')
    PROVE  HeadsInv'
<1>1. PipesTypeOK'
  BY Zenon DEF HeadsInv, PipesTypeOK
<1>2. Shares(own, fgn, Count(toF, Granting))' /\ Held'
  BY Zenon DEF HeadsInv, Held
<1>3. Named'
  <2>1. \A m \in Asking : m \notin Release /\ m \notin KeepaliveReply
    BY Zenon DEF Asking, Release, KeepaliveReply
  <2>2. \A m \in KeepaliveReply : m \notin Release
    BY Zenon DEF KeepaliveReply, Release
  <2>3. \A m \in Range(toOwn') : /\ m \in Release => m.head = own'.addr /\ m.sub \in DOMAIN ipc'
                                 /\ m \in KeepaliveReply => m.sub \in DOMAIN ipc'
    BY <2>1, <2>2, Zenon DEF HeadsInv, Named
  <2>4. \A m \in Range(toF') : /\ m \in Granting => m.head = own'.addr /\ m.sub \in DOMAIN ipc'
                               /\ m \in Keepalive => m.sub \in DOMAIN ipc'
    BY Zenon DEF HeadsInv, Named
  <2> QED BY <2>3, <2>4, Zenon DEF Named
<1>4. Pinged'
  BY Zenon DEF HeadsInv, Pinged
<1>5. Attached' /\ ReleaseFindsHead' /\ NoCrossedReplies'
  BY Zenon DEF HeadsInv, Attached, Enqueued, ReleaseFindsHead, NoCrossedReplies
<1> QED BY <1>1, <1>2, <1>3, <1>4, <1>5, Zenon DEF HeadsInv

(* While F neither waits for the owner nor has an ipc subscriber, nothing is
   on its way to it. *)
LEMMA Quiet ==
    ASSUME PipesTypeOK, Dialogue, fgn.sub = 0, fgn.status # "WAITING"
    PROVE  /\ toF = <<>> /\ Enqueued = {} /\ Count(toOwn, Asking) = 0 /\ Count(toF, Reply) = 0
           /\ \A m \in Range(toOwn) : m \notin Asking
<1>1. Count(toOwn, Asking) = 0 /\ Count(toF, Reply) = 0
  BY CountsNat DEF Dialogue
<1>2. toF = <<>>
  <2>1. ASSUME toF # <<>> PROVE FALSE
    <3>1. Head(toF) \in Reply /\ Head(toF) \in Range(toF)
      BY <2>1, InPipe, Zenon DEF Dialogue, PipesTypeOK
    <3> QED BY <1>1, <3>1, CountNone, Zenon DEF PipesTypeOK
  <2> QED BY <2>1, Zenon
<1>3. Enqueued = {}
  <2>1. ASSUME NEW s \in Enqueued PROVE FALSE
    <3>1. s # 0
      BY DEF Enqueued, PipesTypeOK
    <3> QED BY <1>2, <3>1, Zenon DEF Dialogue, Talking
  <2> QED BY <2>1, Zenon
<1> QED BY <1>1, <1>2, <1>3, CountNone, Zenon DEF PipesTypeOK

(* What asking the owner for head g does to the pipe. *)
LEMMA AskPipe ==
    ASSUME PipesTypeOK, NEW g \in Foreign, NEW q, q = toOwn \o ask(g)
    PROVE  /\ q \in Seq(ToOwner) /\ Count(q, Release) = Count(toOwn, Release)
           /\ \A m \in Range(q) : m \in Range(toOwn) \/ m \in Asking
           /\ \A s : Count(q, Pongs(s)) = Count(toOwn, Pongs(s))
           /\ ~must_ask(g) => q = toOwn
           /\ must_ask(g) => /\ Count(q, Asking) = Count(toOwn, Asking) + 1
                             /\ \A m \in Range(q) : m \in Range(toOwn) \/ m = Subscribe(g)
<1>0. toOwn \in Seq(ToOwner)
  BY Zenon DEF PipesTypeOK
<1>1. CASE must_ask(g)
  <2>1. PICK x : x = Subscribe(g)
    BY Zenon
  <2>2. x \in Asking /\ x \in ToOwner /\ x.type = "subscribe"
    BY <2>1, Zenon DEF Subscribe, Asking, ToOwner, Foreign
  <2>3. q = Append(toOwn, x)
    BY <1>0, <1>1, <2>1, <2>2 DEF ask
  <2> QED BY <1>0, <1>1, <2>1, <2>2, <2>3, OwnerIsSent
<1>2. CASE ~must_ask(g)
  <2>1. q = toOwn
    BY <1>0, <1>2 DEF ask
  <2> QED BY <1>0, <1>2, <2>1, Zenon
<1> QED BY <1>1, <1>2, Zenon

(* The dialogue after F has ensured its head g, asking the owner if need be. *)
LEMMA AskTalk ==
    ASSUME PipesTypeOK, Dialogue, NEW g \in Foreign, g = fgn \/ (g = created /\ fgn.status = "none"),
           toOwn' = toOwn \o ask(g), UNCHANGED <<ipc, toF>>,
           fgn'.addr = g.addr, fgn'.sub = g.sub,
           g.sub # 0 => fgn'.status = "READY", g.sub = 0 => fgn'.status = "WAITING"
    PROVE  Dialogue'
<1>0. Enqueued' = Enqueued /\ Talking' = Talking
  BY Zenon DEF Enqueued, Talking
<1>1. CASE must_ask(g)
  <2>1. fgn.sub = 0 /\ fgn.status # "WAITING" /\ g.sub = 0
    BY <1>1, Zenon DEF must_ask, created, Dialogue
  <2>2. /\ toF = <<>> /\ Enqueued = {} /\ Count(toOwn, Asking) = 0 /\ Count(toF, Reply) = 0
        /\ \A m \in Range(toOwn) : m \notin Asking
    BY <2>1, Quiet, Zenon
  <2>3. /\ Count(toOwn', Asking) = Count(toOwn, Asking) + 1
        /\ \A m \in Range(toOwn') : m \in Range(toOwn) \/ m = Subscribe(g)
    BY <1>1, AskPipe, Zenon
  <2>4. Count(toOwn', Asking) + Count(toF', Reply) = IF fgn'.status = "WAITING" THEN 1 ELSE 0
    BY <2>1, <2>2, <2>3
  <2>5. \A m \in Range(toOwn') :
          /\ m \in Asking => m.origin = fgn'.addr
          /\ m.type # "nevermind_release"
          /\ m \in KeepaliveReply => m.action # "UNHOOK"
    <3>1. /\ Subscribe(g).type = "subscribe" /\ Subscribe(g).origin = g.addr
          /\ Subscribe(g) \notin KeepaliveReply
      BY Zenon DEF Subscribe, KeepaliveReply
    <3> QED BY <2>2, <2>3, <3>1, Zenon DEF Dialogue
  <2>6. Range(toF') = {} /\ DOMAIN toF' = {} /\ toF' = <<>>
    BY <2>2 DEF Range
  <2>7. \A s \in DOMAIN ipc' : ipc'[s].hooked
    BY Zenon DEF Dialogue
  <2> QED BY <1>0, <2>1, <2>2, <2>4, <2>5, <2>6, <2>7, Zenon DEF Dialogue
<1>2. CASE ~must_ask(g)
  <2>1. toOwn' = toOwn
    BY <1>2, AskPipe, Zenon
  <2>2. g = fgn
    BY <1>2 DEF must_ask, created
  <2>3. fgn'.status = fgn.status /\ fgn'.addr = fgn.addr /\ fgn'.sub = fgn.sub
    BY <1>2, <2>2, Zenon DEF must_ask, Dialogue
  <2> QED BY <1>0, <2>1, <2>3, Zenon DEF Dialogue
<1> QED BY <1>1, <1>2, Zenon


(* A client subscribes at F, which asks the owner for its head if nobody did. *)
LEMMA SubscribeFgnKeeps == HeadsInv /\ subscribe_fgn => HeadsInv'
<1> SUFFICES ASSUME HeadsInv, subscribe_fgn PROVE HeadsInv'
  BY Zenon
<1>0. PipesTypeOK /\ own \in Owner /\ fgn \in Foreign /\ Shares(own, fgn, Count(toF, Granting))
  BY Zenon DEF HeadsInv, PipesTypeOK
<1>1. PICK g, h : g = found /\ h = ensured(g)
  BY Zenon
<1>2. /\ g \in Foreign /\ Shares(own, g, Count(toF, Granting)) /\ (fgn.status # "none" => g = fgn)
      /\ Counts(own, fgn) => Counts(own, g)
  BY <1>0, <1>1, FoundOK
<1>3. /\ h \in Foreign /\ Shares(own, h, Count(toF, Granting))
      /\ h.addr = g.addr /\ h.subs = g.subs /\ h.sub = g.sub /\ h.shared = g.shared
      /\ g.sub # 0 => h.status = "READY"
      /\ g.sub = 0 => h.status = "WAITING"
  BY <1>0, <1>1, <1>2, EnsuredOK
<1>4. CASE ~shared_okay(h)
  <2>1. fail("memstore.c:759")
    BY <1>1, <1>4, Zenon DEF subscribe_fgn
  <2> QED BY <2>1, FailKeeps, Zenon
<1>5. CASE shared_okay(h)
  <2>1. /\ fgn' = [h EXCEPT !.subs = h.subs + 1]
        /\ own' = IF h.shared # 0 THEN [own EXCEPT !.shsubs = own.shsubs + 1] ELSE own
        /\ toOwn' = toOwn \o ask(g) /\ UNCHANGED <<ipc, toF, crashes, failed>> /\ fgn.subs < MaxSubs
    BY <1>1, <1>5, Zenon DEF subscribe_fgn
  <2>2. h.subs + 1 \in 0 .. MaxSubs
    <3>1. g.subs = fgn.subs \/ g.subs = 0
      BY <1>1, <1>2, Zenon DEF found, created
    <3>2. g.subs \in Nat /\ g.subs < MaxSubs
      BY <1>0, <1>2, <2>1, <3>1, ChanheadAssumption, SMTT(30) DEF Foreign
    <3> QED BY <1>3, <3>2, ChanheadAssumption
  <2>3. /\ fgn' \in Foreign /\ fgn'.addr = h.addr /\ fgn'.sub = h.sub /\ fgn'.shared = h.shared
        /\ fgn'.status = h.status /\ fgn'.subs = h.subs + 1
    BY <1>3, <2>1, <2>2, Zenon DEF Foreign
  <2>4. /\ own' \in Owner /\ own'.reserved = own.reserved /\ own'.addr = own.addr /\ own'.status = own.status
        /\ own'.subs = own.subs /\ own'.refs = own.refs
        /\ own'.shsubs = own.shsubs + IF h.shared # 0 THEN 1 ELSE 0
    <3>1. PICK n \in Int : n = own.shsubs + 1
      BY <1>0 DEF Owner
    <3>2. own' = IF h.shared # 0 THEN [own EXCEPT !.shsubs = n] ELSE own
      BY <2>1, <3>1, Zenon
    <3> QED BY <1>0, <3>1, <3>2 DEF Owner
  <2>5. Shares(own', fgn', Count(toF, Granting))
    BY <1>3, <2>3, <2>4, Zenon DEF Shares, given_up
  <2>6. /\ toOwn' \in Seq(ToOwner) /\ Count(toOwn', Release) = Count(toOwn, Release)
        /\ \A m \in Range(toOwn') : m \in Range(toOwn) \/ m \in Asking
        /\ \A s : Count(toOwn', Pongs(s)) = Count(toOwn, Pongs(s))
    BY <1>0, <1>2, <2>1, AskPipe, Zenon
  <2>7. ASSUME crashes = 0 PROVE Dialogue' /\ Counts(own', fgn')
    <3>1. Dialogue /\ Counts(own, g)
      BY <1>2, <2>7, Zenon DEF HeadsInv
    <3>2. Counts(own', fgn')
      BY <1>0, <1>3, <2>3, <2>4, <3>1 DEF Counts, Owner, Foreign
    <3>3. g = fgn \/ (g = created /\ fgn.status = "none")
      BY <1>1, Zenon DEF found
    <3>4. Dialogue'
      BY <1>0, <1>2, <1>3, <2>1, <2>3, <3>1, <3>3, AskTalk, Zenon
    <3> QED BY <3>2, <3>4, Zenon
  <2>8. /\ toF' \in Seq(ToForeign) /\ Range(toF') \subseteq Range(toF) /\ crashes' \in 0 .. 1
        /\ Count(toF', Granting) = Count(toF, Granting)
        /\ \A s \in DOMAIN ipc : Count(toF', Pings(s)) + Count(toOwn', Pongs(s))
                                 = Count(toF, Pings(s)) + Count(toOwn, Pongs(s))
    BY <1>0, <2>1, <2>6, Zenon DEF PipesTypeOK
  <2> QED BY <2>1, <2>3, <2>4, <2>5, <2>6, <2>7, <2>8, ForeignStep, Zenon
<1> QED BY <1>4, <1>5, Zenon

(* F's head changes and nothing else that F and the owner tell each other. *)
LEMMA HeadStep ==
    ASSUME HeadsInv, UNCHANGED <<ipc, toF, toOwn, failed>>, crashes' \in 0 .. 1, crashes' = 0 => crashes = 0,
           own' \in Owner, own'.reserved = own.reserved, own'.addr = own.addr, own'.status = own.status,
           fgn' \in Foreign, Shares(own', fgn', Count(toF, Granting)),
           crashes' = 0 => /\ Counts(own', fgn') /\ fgn'.addr = fgn.addr /\ fgn'.sub = fgn.sub
                           /\ fgn.sub # 0 => fgn'.status = fgn.status
                           /\ fgn'.status = "WAITING" <=> fgn.status = "WAITING"
    PROVE  HeadsInv'
<1>1. crashes' = 0 => Dialogue'
  BY Zenon DEF HeadsInv, Dialogue, Enqueued, Talking
<1>2. /\ toF' \in Seq(ToForeign) /\ Range(toF') \subseteq Range(toF)
      /\ Count(toF', Granting) = Count(toF, Granting)
      /\ toOwn' \in Seq(ToOwner) /\ Count(toOwn', Release) = Count(toOwn, Release)
      /\ \A m \in Range(toOwn') : m \in Range(toOwn)
      /\ \A s \in DOMAIN ipc : Count(toF', Pings(s)) + Count(toOwn', Pongs(s))
                               = Count(toF, Pings(s)) + Count(toOwn, Pongs(s))
  BY Zenon DEF HeadsInv, PipesTypeOK
<1> QED BY <1>1, <1>2, ForeignStep, Zenon

(* A client of F leaves. *)
LEMMA UnsubscribeFgnKeeps == HeadsInv /\ unsubscribe_fgn => HeadsInv'
<1> SUFFICES ASSUME HeadsInv, unsubscribe_fgn PROVE HeadsInv'
  BY Zenon
<1>0. /\ PipesTypeOK /\ own \in Owner /\ fgn \in Foreign /\ Shares(own, fgn, Count(toF, Granting))
      /\ toOwn \in Seq(ToOwner) /\ crashes \in 0 .. 1
  BY Zenon DEF HeadsInv, PipesTypeOK
<1>1. /\ fgn' = bulk_dequeue(fgn, 1) /\ toOwn' = toOwn /\ UNCHANGED <<ipc, toF, crashes, failed>>
      /\ own' = IF fgn.shared = 0 THEN own
                ELSE [own EXCEPT !.shsubs = @ - 1, !.refs = @ - (given_up(fgn) - given_up(fgn'))]
      /\ fgn.subs > 0
  BY <1>0 DEF unsubscribe_fgn, leave
<1>2. PICK n, r : n = 1 /\ n \in 0 .. fgn.subs /\ r = Count(toF, Granting) /\ r \in Int
  <2>1. 1 \in 0 .. fgn.subs /\ Count(toF, Granting) \in Int
    BY <1>0, <1>1, CountsNat DEF Foreign
  <2> QED BY <2>1, Zenon
<1>3. /\ fgn' \in Foreign /\ own' \in Owner /\ Shares(own', fgn', r)
      /\ Counts(own, fgn) => Counts(own', fgn')
      /\ fgn'.addr = fgn.addr /\ fgn'.sub = fgn.sub /\ (fgn.sub # 0 => fgn'.status = fgn.status)
      /\ (fgn'.status = "WAITING" <=> fgn.status = "WAITING") /\ own'.status = own.status
      /\ own'.addr = own.addr /\ own'.reserved = own.reserved
  <2>1. fgn' = bulk_dequeue(fgn, n) /\ own' = Left(own, fgn, n)
    BY <1>1, <1>2, Zenon DEF Left
  <2> QED BY <1>0, <1>2, <2>1, LeaveOK
<1>4. crashes = 0 => Counts(own', fgn')
  BY <1>3, Zenon DEF HeadsInv
<1> QED BY <1>0, <1>1, <1>2, <1>3, <1>4, HeadStep, Zenon

(* The reaper frees F's head. *)
LEMMA ReapFgnKeeps == HeadsInv /\ reap_fgn => HeadsInv'
<1> SUFFICES ASSUME HeadsInv, reap_fgn PROVE HeadsInv'
  BY Zenon
<1>0. /\ own \in Owner /\ fgn \in Foreign /\ Shares(own, fgn, Count(toF, Granting)) /\ crashes \in 0 .. 1
      /\ crashes = 0 => Counts(own, fgn) /\ (fgn.sub # 0 => fgn.status = "READY")
  BY Zenon DEF HeadsInv, PipesTypeOK, Dialogue
<1>1. /\ fgn' = [fgn EXCEPT !.status = "none"] /\ fgn.status = "INACTIVE"
      /\ UNCHANGED <<own, ipc, toF, toOwn, crashes, failed>>
  BY Zenon DEF reap_fgn
<1>2. /\ fgn' \in Foreign /\ fgn'.addr = fgn.addr /\ fgn'.sub = fgn.sub /\ fgn'.shared = fgn.shared
      /\ fgn'.subs = fgn.subs /\ fgn'.status = "none"
  BY <1>0, <1>1, Zenon DEF Foreign
<1>3. Shares(own', fgn', Count(toF, Granting))
  BY <1>0, <1>1, <1>2, Zenon DEF Shares, given_up
<1>4. crashes = 0 => Counts(own', fgn')
  BY <1>0, <1>1, <1>2, Zenon DEF Counts
<1> QED BY <1>0, <1>1, <1>2, <1>3, <1>4, HeadStep, Zenon

(* F crashes and starts again with no head, while the owner goes on. *)
LEMMA RespawnFgnKeeps == HeadsInv /\ respawn_fgn => HeadsInv'
<1> SUFFICES ASSUME HeadsInv, respawn_fgn PROVE HeadsInv'
  BY Zenon
<1>0. own \in Owner /\ fgn \in Foreign /\ Shares(own, fgn, Count(toF, Granting))
  BY Zenon DEF HeadsInv, PipesTypeOK
<1>1. /\ fgn' = [status |-> "none", addr |-> fgn.addr, subs |-> 0, sub |-> 0, shared |-> 0]
      /\ UNCHANGED <<own, ipc, toF, toOwn, failed>> /\ crashes' = 1
  BY Zenon DEF respawn_fgn
<1>2. fgn' \in Foreign /\ fgn'.shared = 0
  BY <1>0, <1>1, ChanheadAssumption DEF Foreign
<1>3. Shares(own', fgn', Count(toF, Granting))
  <2>1. Count(toF, Granting) \in Nat
    BY CountsNat, Zenon DEF HeadsInv
  <2> QED BY <1>0, <1>1, <1>2, <2>1 DEF Shares, given_up, Owner
<1> QED BY <1>0, <1>1, <1>2, <1>3, HeadStep


-----------------------------------------------------------------------------
(* What F reads. *)

(* As long as F is not killed, what it reads but for replies is from its ipc
   subscriber. *)
LEMMA Heard ==
    ASSUME PipesTypeOK, Dialogue, toF # <<>>, Head(toF).type # "subscribe_reply"
    PROVE  /\ fgn.sub # 0 /\ fgn.status = "READY" /\ Count(toF, Reply) = 0
           /\ \A m \in Range(toF) : m \notin Reply
<1>1. Head(toF) \notin Reply
  BY Zenon DEF Reply
<1>2. \A m \in Range(toF) : m \notin Reply
  BY <1>1, Zenon DEF Dialogue
<1>3. Count(toF, Reply) = 0
  BY <1>2, CountNone, Zenon DEF PipesTypeOK
<1> QED BY <1>1, <1>2, <1>3, Zenon DEF Dialogue

(* The dialogue after that, whatever F's clients do, if F answers nothing but
   a keepalive and keeps its subscriber. *)
LEMMA HeardTalk ==
    ASSUME PipesTypeOK, Dialogue, toF # <<>>, Head(toF).type # "subscribe_reply", toF' = Tail(toF),
           UNCHANGED ipc, fgn'.addr = fgn.addr, fgn'.sub = fgn.sub, fgn'.status = fgn.status,
           Count(toOwn', Asking) = Count(toOwn, Asking),
           \A m \in Range(toOwn') : m \in Range(toOwn) \/ (m \in KeepaliveReply /\ m.action # "UNHOOK")
    PROVE  Dialogue'
<1>0. toF \in Seq(ToForeign)
  BY Zenon DEF PipesTypeOK
<1>1. /\ fgn.sub # 0 /\ fgn.status = "READY" /\ Count(toF, Reply) = 0
      /\ \A m \in Range(toF) : m \notin Reply
  BY Heard, Zenon
<1>2. /\ Head(toF) \in Range(toF) /\ toF' \in Seq(ToForeign) /\ Range(toF') \subseteq Range(toF)
      /\ Count(toF', Reply) = Count(toF, Reply)
  BY <1>0, ForeignReadsOne, Zenon
<1>3. PICK n \in Nat : n = Len(toF')
  BY <1>2
<1>4. /\ Len(toF) = n + 1 /\ DOMAIN toF' = 1 .. n /\ DOMAIN toF = 1 .. n + 1
      /\ \A k \in 1 .. n : toF'[k] = toF[k + 1] /\ k + 1 \in 1 .. n + 1
  BY <1>0, <1>3
<1>5. Enqueued' = Enqueued
  BY Zenon DEF Enqueued
<1>6. \A k \in DOMAIN toF' : toF'[k].type = "unsubscribed" => k = Len(toF') /\ Enqueued' = {}
  <2> SUFFICES ASSUME NEW k \in DOMAIN toF', toF'[k].type = "unsubscribed" PROVE k = Len(toF') /\ Enqueued' = {}
    BY Zenon
  <2>1. k \in 1 .. n /\ k + 1 \in DOMAIN toF /\ toF[k + 1].type = "unsubscribed"
    BY <1>4, Zenon
  <2>2. k + 1 = Len(toF) /\ Enqueued = {}
    BY <2>1, Zenon DEF Dialogue
  <2> QED BY <1>3, <1>4, <1>5, <2>1, <2>2
<1>7. Count(toOwn', Asking) + Count(toF', Reply) = IF fgn'.status = "WAITING" THEN 1 ELSE 0
  BY <1>2, Zenon DEF Dialogue
<1>8. \A m \in Range(toOwn') :
        /\ m \in Asking => m.origin = fgn'.addr
        /\ m.type # "nevermind_release"
        /\ m \in KeepaliveReply => m.action # "UNHOOK"
  <2>1. \A m \in KeepaliveReply : m \notin Asking /\ m.type # "nevermind_release"
    BY Zenon DEF KeepaliveReply, Asking
  <2> QED BY <2>1, Zenon DEF Dialogue
<1>9. \A m \in Range(toF') :
        /\ m \in Reply => /\ m = Head(toF') /\ m.origin = fgn'.addr
                          /\ IF m.head = 0 THEN Len(toF') = 1 ELSE m.sub = Len(ipc')
        /\ m \in Keepalive => m.sub = Len(ipc') /\ m.origin = fgn'.addr
  BY <1>1, <1>2, Zenon DEF Dialogue
<1>10. \A s \in DOMAIN ipc' : ipc'[s].hooked
  BY Zenon DEF Dialogue
<1>11. \A s \in Enqueued' : s = Len(ipc') /\ ipc'[s].origin = fgn'.addr /\ (fgn'.sub = s \/ Talking')
  <2>1. ~Talking
    BY <1>1, <1>2, Zenon DEF Talking, Granting
  <2> QED BY <1>5, <2>1, Zenon DEF Dialogue
<1>12. fgn'.sub # 0 /\ (fgn'.sub # 0 => fgn'.sub = Len(ipc') /\ fgn'.status = "READY")
  BY <1>1, Zenon DEF Dialogue
<1> QED BY <1>6, <1>7, <1>8, <1>9, <1>10, <1>11, <1>12, Zenon DEF Dialogue

(* What a plain alert that F reads leaves as it is. *)
LEMMA PlainRead ==
    ASSUME PipesTypeOK, toF # <<>>, Head(toF).type \notin {"subscribe_reply", "keepalive"}
    PROVE  /\ Tail(toF) \in Seq(ToForeign) /\ Range(Tail(toF)) \subseteq Range(toF)
           /\ Count(Tail(toF), Granting) = Count(toF, Granting)
           /\ \A s : Count(Tail(toF), Pings(s)) = Count(toF, Pings(s))
  BY ForeignReadsOne, Zenon DEF PipesTypeOK

(* F's clients of head h leave, and the alert is done with. *)
LEMMA PlainStep ==
    ASSUME HeadsInv, toF # <<>>, Head(toF).type \in {"publish_status", "publish_message"},
           NEW g \in Foreign, g = fgn \/ (g = created /\ fgn.status = "none"),
           Shares(own, g, Count(toF, Granting)), Counts(own, fgn) => Counts(own, g),
           NEW h, h = ensured(g), NEW n \in 0 .. h.subs, leave(h, n, ask(g)), toF' = Tail(toF),
           UNCHANGED <<ipc, crashes, failed>>
    PROVE  HeadsInv'
<1>0. PipesTypeOK /\ own \in Owner /\ crashes \in 0 .. 1
  BY Zenon DEF HeadsInv, PipesTypeOK
<1>1. /\ h \in Foreign /\ Shares(own, h, Count(toF, Granting))
      /\ h.addr = g.addr /\ h.subs = g.subs /\ h.sub = g.sub /\ h.shared = g.shared
      /\ g.sub # 0 => h.status = "READY"
      /\ g.sub = 0 => h.status = "WAITING"
  BY <1>0, EnsuredOK
<1>2. PICK r \in Int : r = Count(toF, Granting)
  BY <1>0, CountsNat
<1>3. /\ fgn' = bulk_dequeue(h, n) /\ own' = Left(own, h, n) /\ toOwn' = toOwn \o ask(g)
  BY Zenon DEF leave, Left
<1>4. /\ fgn' \in Foreign /\ own' \in Owner /\ Shares(own', fgn', r)
      /\ Counts(own, h) => Counts(own', fgn')
      /\ fgn'.addr = h.addr /\ fgn'.sub = h.sub /\ (h.sub # 0 \/ h.status = "WAITING" => fgn'.status = h.status)
      /\ own'.status = own.status /\ own'.addr = own.addr /\ own'.reserved = own.reserved
  BY <1>0, <1>1, <1>2, <1>3, LeaveOK
<1>5. /\ toOwn' \in Seq(ToOwner) /\ Count(toOwn', Release) = Count(toOwn, Release)
      /\ \A m \in Range(toOwn') : m \in Range(toOwn) \/ m \in Asking
      /\ \A s : Count(toOwn', Pongs(s)) = Count(toOwn, Pongs(s))
      /\ ~must_ask(g) => toOwn' = toOwn
  BY <1>0, <1>3, AskPipe, Zenon
<1>6. /\ toF' \in Seq(ToForeign) /\ Range(toF') \subseteq Range(toF)
      /\ Count(toF', Granting) = Count(toF, Granting)
      /\ \A s : Count(toF', Pings(s)) = Count(toF, Pings(s))
  BY <1>0, PlainRead, Zenon
<1>7. ASSUME crashes = 0 PROVE Dialogue' /\ Counts(own', fgn')
  <2>1. Dialogue /\ Counts(own, g)
    BY <1>7, Zenon DEF HeadsInv
  <2>2. fgn.sub # 0 /\ fgn.status = "READY"
    BY <1>0, <2>1, Heard, Zenon
  <2>3. g = fgn /\ ~must_ask(g)
    BY <2>2, Zenon DEF must_ask
  <2>4. fgn'.addr = fgn.addr /\ fgn'.sub = fgn.sub /\ fgn'.status = fgn.status /\ toOwn' = toOwn
    BY <1>1, <1>4, <1>5, <2>2, <2>3, Zenon
  <2>5. Counts(own', fgn')
    BY <1>1, <1>4, <2>1, Zenon DEF Counts
  <2>6. Dialogue'
    BY <1>0, <2>1, <2>4, HeardTalk, Zenon
  <2> QED BY <2>5, <2>6, Zenon
<1>8. \A s \in DOMAIN ipc : Count(toF', Pings(s)) + Count(toOwn', Pongs(s))
                            = Count(toF, Pings(s)) + Count(toOwn, Pongs(s))
  BY <1>5, <1>6, Zenon
<1> QED BY <1>0, <1>2, <1>4, <1>5, <1>6, <1>7, <1>8, ForeignStep, Zenon


(* F gets a message from the owner. *)
LEMMA PublishMessageKeeps == HeadsInv /\ receive_publish_message => HeadsInv'
<1> SUFFICES ASSUME HeadsInv, receive_publish_message PROVE HeadsInv'
  BY Zenon
<1>0. PipesTypeOK /\ own \in Owner /\ fgn \in Foreign /\ Shares(own, fgn, Count(toF, Granting))
  BY Zenon DEF HeadsInv, PipesTypeOK
<1>1. PICK g, h : g = found /\ h = ensured(g)
  BY Zenon
<1>2. /\ g \in Foreign /\ Shares(own, g, Count(toF, Granting)) /\ (Counts(own, fgn) => Counts(own, g))
  BY <1>0, <1>1, FoundOK, Zenon
<1>3. g = fgn \/ (g = created /\ fgn.status = "none")
  BY <1>1, Zenon DEF found
<1>4. toF # <<>> /\ Head(toF).type = "publish_message"
  BY Zenon DEF receive_publish_message, to_fgn
<1>5. CASE ~shared_okay(h)
  <2>1. fail("memstore.c:1366")
    BY <1>1, <1>5, Zenon DEF receive_publish_message
  <2>2. ASSUME crashes = 0 PROVE FALSE
    <3>1. fgn.sub # 0 /\ fgn.status = "READY"
      BY <1>0, <1>4, <2>2, Heard, Zenon DEF HeadsInv
    <3>2. g = fgn
      BY <1>3, <3>1, Zenon
    <3>3. h.status = "READY"
      BY <1>0, <1>1, <3>1, <3>2, EnsuredOK
    <3> QED BY <1>5, <3>3, Zenon DEF shared_okay
  <2> QED BY <2>1, <2>2, FailKeeps, Zenon
<1>6. CASE shared_okay(h)
  <2>1. PICK n \in 0 .. h.subs : leave(h, n, ask(g))
    BY <1>1, <1>6, Zenon DEF receive_publish_message
  <2>2. toF' = Tail(toF) /\ UNCHANGED <<ipc, crashes, failed>>
    BY <1>1, <1>6, Zenon DEF receive_publish_message
  <2> QED BY <1>1, <1>2, <1>3, <1>4, <2>1, <2>2, PlainStep, Zenon
<1> QED BY <1>5, <1>6, Zenon

(* F has no head: the alert is only read. *)
LEMMA NoForeignHead ==
    ASSUME HeadsInv, toF # <<>>, Head(toF).type \notin {"subscribe_reply", "keepalive"}, toF' = Tail(toF),
           fgn.status = "none", UNCHANGED <<own, fgn, ipc, toOwn, crashes, failed>>
    PROVE  HeadsInv'
<1>0. /\ PipesTypeOK /\ own \in Owner /\ fgn \in Foreign /\ Shares(own, fgn, Count(toF, Granting))
      /\ toOwn \in Seq(ToOwner) /\ crashes \in 0 .. 1
  BY Zenon DEF HeadsInv, PipesTypeOK
<1>1. /\ toF' \in Seq(ToForeign) /\ Range(toF') \subseteq Range(toF)
      /\ Count(toF', Granting) = Count(toF, Granting)
      /\ \A s : Count(toF', Pings(s)) = Count(toF, Pings(s))
  BY <1>0, PlainRead, Zenon
<1>2. crashes # 0
  BY <1>0, Heard, Zenon DEF HeadsInv
<1> QED BY <1>0, <1>1, <1>2, ForeignStep, Zenon

(* F is told that the channel is deleted. *)
LEMMA PublishStatusKeeps == HeadsInv /\ receive_publish_status => HeadsInv'
<1> SUFFICES ASSUME HeadsInv, receive_publish_status PROVE HeadsInv'
  BY Zenon
<1>0. PipesTypeOK /\ own \in Owner /\ fgn \in Foreign /\ Shares(own, fgn, Count(toF, Granting))
  BY Zenon DEF HeadsInv, PipesTypeOK
<1>1. PICK h : h = ensured(fgn)
  BY Zenon
<1>2. toF # <<>> /\ Head(toF).type = "publish_status"
  BY Zenon DEF receive_publish_status, to_fgn
<1>3. CASE fgn.status = "none"
  <2>1. toF' = Tail(toF) /\ UNCHANGED <<own, fgn, ipc, toOwn, crashes, failed>>
    BY <1>3, Zenon DEF receive_publish_status
  <2> QED BY <1>2, <1>3, <2>1, NoForeignHead, Zenon
<1>4. CASE fgn.status # "none" /\ ~shared_okay(h)
  <2>1. fail("memstore.c:1366")
    BY <1>1, <1>4, Zenon DEF receive_publish_status
  <2>2. ASSUME crashes = 0 PROVE FALSE
    <3>1. fgn.sub # 0 /\ fgn.status = "READY"
      BY <1>0, <1>2, <2>2, Heard, Zenon DEF HeadsInv
    <3>2. h.status = "READY"
      BY <1>0, <1>1, <3>1, EnsuredOK, Zenon
    <3> QED BY <1>4, <3>2, Zenon DEF shared_okay
  <2> QED BY <2>1, <2>2, FailKeeps, Zenon
<1>5. CASE fgn.status # "none" /\ shared_okay(h)
  <2>1. leave(h, h.subs, ask(fgn)) /\ toF' = Tail(toF) /\ UNCHANGED <<ipc, crashes, failed>>
    BY <1>1, <1>5, Zenon DEF receive_publish_status
  <2>2. h \in Foreign
    BY <1>0, <1>1, EnsuredOK, Zenon
  <2>3. PICK n \in 0 .. h.subs : n = h.subs
    BY <2>2, ChanheadAssumption DEF Foreign
  <2>4. leave(h, n, ask(fgn))
    BY <2>1, <2>3, Zenon
  <2> QED BY <1>0, <1>1, <1>2, <2>1, <2>3, <2>4, PlainStep, Zenon
<1> QED BY <1>3, <1>4, <1>5, Zenon

(* F is told that its ipc subscriber was dequeued. *)
LEMMA UnsubscribedKeeps == HeadsInv /\ receive_unsubscribed => HeadsInv'
<1> SUFFICES ASSUME HeadsInv, receive_unsubscribed PROVE HeadsInv'
  BY Zenon
<1>0. /\ PipesTypeOK /\ own \in Owner /\ fgn \in Foreign /\ Shares(own, fgn, Count(toF, Granting))
      /\ crashes \in 0 .. 1 /\ toF \in Seq(ToForeign)
  BY Zenon DEF HeadsInv, PipesTypeOK
<1>1. /\ toF # <<>> /\ Head(toF).type = "unsubscribed" /\ toF' = Tail(toF)
      /\ UNCHANGED <<ipc, crashes, failed>>
  BY Zenon DEF receive_unsubscribed, to_fgn
<1>2. CASE fgn.status = "none"
  <2>1. UNCHANGED <<own, fgn, toOwn>>
    BY <1>2, Zenon DEF receive_unsubscribed
  <2> QED BY <1>1, <1>2, <2>1, NoForeignHead, Zenon
<1>3. CASE fgn.status # "none"
  <2>1. PICK e, h : e = ensured(fgn) /\ h = [e EXCEPT !.sub = 0]
    BY Zenon
  <2>2. /\ e \in Foreign /\ Shares(own, e, Count(toF, Granting))
        /\ e.addr = fgn.addr /\ e.subs = fgn.subs /\ e.sub = fgn.sub /\ e.shared = fgn.shared
        /\ fgn.sub # 0 => e.status = "READY"
        /\ fgn.sub = 0 => e.status = "WAITING"
    BY <1>0, <2>1, EnsuredOK
  <2>3. /\ h \in Foreign /\ h.addr = fgn.addr /\ h.subs = fgn.subs /\ h.sub = 0 /\ h.shared = fgn.shared
        /\ h.status = e.status
    BY <2>1, <2>2, Zenon DEF Foreign
  <2>4. /\ fgn' = IF h.subs = 0 THEN gc_fgn(h) ELSE h
        /\ own' = [own EXCEPT !.refs = @ - (given_up(h) - given_up(fgn'))]
        /\ toOwn' = toOwn \o ask(fgn)
    BY <1>3, <2>1, Zenon DEF receive_unsubscribed
  <2>5. /\ fgn' \in Foreign /\ fgn'.addr = fgn.addr /\ fgn'.subs = fgn.subs /\ fgn'.sub = 0
        /\ \/ fgn'.status = h.status /\ fgn'.shared = h.shared
           \/ /\ fgn'.shared = 0 /\ h.subs = 0
              /\ fgn'.status = (IF h.status = "WAITING" THEN "WAITING" ELSE "INACTIVE")
    BY <2>3, <2>4, Zenon DEF gc_fgn, Foreign
  <2>6. PICK f \in Int : f = own.refs - (given_up(h) - given_up(fgn'))
    BY <1>0 DEF Owner, given_up
  <2>7. /\ own' \in Owner /\ own'.reserved = own.reserved /\ own'.addr = own.addr /\ own'.status = own.status
        /\ own'.subs = own.subs /\ own'.shsubs = own.shsubs /\ own'.refs = own.refs - (given_up(h) - given_up(fgn'))
    <3>1. own' = [own EXCEPT !.refs = f]
      BY <2>4, <2>6, Zenon
    <3> QED BY <1>0, <2>6, <3>1, Zenon DEF Owner
  <2>8. Shares(own', fgn', Count(toF, Granting))
    <3>1. Count(toF, Granting) \in Nat /\ own.refs \in Int
      BY <1>0, CountsNat, Zenon DEF Owner
    <3>2. Shares(own, h, Count(toF, Granting))
      BY <2>2, <2>3, Zenon DEF Shares, given_up
    <3> QED BY <2>3, <2>5, <2>7, <3>1, <3>2 DEF Shares, given_up
  <2>9. /\ toOwn' \in Seq(ToOwner) /\ Count(toOwn', Release) = Count(toOwn, Release)
        /\ \A m \in Range(toOwn') : m \in Range(toOwn) \/ m \in Asking
        /\ \A s : Count(toOwn', Pongs(s)) = Count(toOwn, Pongs(s))
        /\ ~must_ask(fgn) => toOwn' = toOwn
    BY <1>0, <2>4, AskPipe, Zenon
  <2>10. /\ toF' \in Seq(ToForeign) /\ Range(toF') \subseteq Range(toF)
         /\ Count(toF', Granting) = Count(toF, Granting)
         /\ \A s : Count(toF', Pings(s)) = Count(toF, Pings(s))
    BY <1>0, <1>1, PlainRead, Zenon
  <2>11. ASSUME crashes = 0 PROVE Dialogue' /\ Counts(own', fgn')
    <3>1. Dialogue /\ Counts(own, fgn)
      BY <2>11, Zenon DEF HeadsInv
    <3>2. fgn.sub # 0 /\ fgn.status = "READY" /\ Count(toF, Reply) = 0
      BY <1>0, <1>1, <3>1, Heard, Zenon
    <3>3. toOwn' = toOwn /\ fgn'.status # "WAITING" /\ fgn'.sub = 0
      BY <2>2, <2>3, <2>5, <2>9, <3>2, Zenon DEF must_ask
    <3>4. toF' = <<>> /\ Enqueued = {}
      <4>1. 1 \in DOMAIN toF /\ toF[1] = Head(toF)
        BY <1>0, <1>1
      <4>2. Len(toF) = 1 /\ Enqueued = {}
        BY <1>1, <3>1, <4>1, Zenon DEF Dialogue
      <4> QED BY <1>0, <1>1, <4>2
    <3>5. Range(toF') = {} /\ DOMAIN toF' = {} /\ Enqueued' = {}
      BY <1>1, <3>4 DEF Range, Enqueued
    <3>6. Count(toOwn', Asking) + Count(toF', Reply) = 0
      <4>1. Count(toF', Reply) = 0
        BY <2>10, <3>5, CountNone, Zenon
      <4>2. Count(toOwn, Asking) = 0
        BY <1>0, <3>1, <3>2, CountsNat DEF Dialogue
      <4> QED BY <3>3, <4>1, <4>2
    <3>7. \A m \in Range(toOwn') :
            /\ m \in Asking => m.origin = fgn'.addr
            /\ m.type # "nevermind_release"
            /\ m \in KeepaliveReply => m.action # "UNHOOK"
      BY <2>5, <3>1, <3>3, Zenon DEF Dialogue
    <3>8. \A s \in DOMAIN ipc' : ipc'[s].hooked
      BY <1>1, <3>1, Zenon DEF Dialogue
    <3>9. Dialogue'
      BY <3>3, <3>4, <3>5, <3>6, <3>7, <3>8, Zenon DEF Dialogue
    <3>10. Counts(own', fgn')
      BY <1>0, <2>3, <2>5, <2>7, <3>1, Zenon DEF Counts, Owner, Foreign
    <3> QED BY <3>9, <3>10, Zenon
  <2>12. \A s \in DOMAIN ipc : Count(toF', Pings(s)) + Count(toOwn', Pongs(s))
                               = Count(toF, Pings(s)) + Count(toOwn, Pongs(s))
    BY <2>9, <2>10, Zenon
  <2> QED BY <1>0, <1>1, <2>5, <2>7, <2>8, <2>9, <2>10, <2>11, <2>12, ForeignStep, Zenon
<1> QED BY <1>2, <1>3, Zenon


(* F answers a keepalive: q is the pipe to the owner before that. *)
LEMMA AnswerPipe ==
    ASSUME HeadsInv, toF # <<>>, Head(toF).type = "keepalive", NEW q \in Seq(ToOwner),
           Count(q, Release) = Count(toOwn, Release),
           \A m \in Range(q) : m \in Range(toOwn) \/ m \in Asking,
           \A s : Count(q, Pongs(s)) = Count(toOwn, Pongs(s)),
           NEW action \in {"RENEW", "NORENEW", "UNHOOK"},
           toOwn' = q \o <<[type |-> "keepalive_reply", sub |-> Head(toF).sub, action |-> action]>>,
           toF' = Tail(toF)
    PROVE  /\ toF' \in Seq(ToForeign) /\ Range(toF') \subseteq Range(toF)
           /\ Count(toF', Granting) = Count(toF, Granting)
           /\ toOwn' \in Seq(ToOwner) /\ Count(toOwn', Release) = Count(toOwn, Release)
           /\ Count(toOwn', Asking) = Count(q, Asking)
           /\ \A m \in Range(toOwn') : m \in Range(toOwn) \/ m \in Asking
                                       \/ (m \in KeepaliveReply /\ m.sub \in DOMAIN ipc)
           /\ \A m \in Range(toOwn') : m \in Range(q) \/ (m \in KeepaliveReply /\ m.action = action)
           /\ \A s \in DOMAIN ipc : Count(toF', Pings(s)) + Count(toOwn', Pongs(s))
                                    = Count(toF, Pings(s)) + Count(toOwn, Pongs(s))
<1>0. toF \in Seq(ToForeign) /\ toOwn \in Seq(ToOwner) /\ PipesTypeOK
  BY Zenon DEF HeadsInv, PipesTypeOK
<1>1. PICK d, x : d = Head(toF) /\ x = [type |-> "keepalive_reply", sub |-> d.sub, action |-> action]
  BY Zenon
<1>2. /\ d \in ToForeign /\ d \in Range(toF) /\ toF' \in Seq(ToForeign) /\ Range(toF') \subseteq Range(toF)
      /\ Count(toF', Granting) = Count(toF, Granting)
      /\ \A s : d.sub = s => Count(toF', Pings(s)) = Count(toF, Pings(s)) - 1
      /\ \A s : d.sub # s => Count(toF', Pings(s)) = Count(toF, Pings(s))
  BY <1>0, <1>1, ForeignReadsOne, Zenon
<1>3. d \in Keepalive
  BY <1>1, <1>2, ForeignKinds, Zenon
<1>4. d.sub \in DOMAIN ipc /\ d.sub \in Nat
  BY <1>2, <1>3, Zenon DEF HeadsInv, Named, Keepalive
<1>5. /\ x \in KeepaliveReply /\ x \in ToOwner /\ x.type = "keepalive_reply" /\ x.sub = d.sub
      /\ x.action = action
  BY <1>1, <1>4, Zenon DEF KeepaliveReply, ToOwner
<1>6. toOwn' = Append(q, x)
  BY <1>1, <1>5
<1>7. /\ toOwn' \in Seq(ToOwner) /\ Range(toOwn') = Range(q) \cup {x}
      /\ Count(toOwn', Asking) = Count(q, Asking) /\ Count(toOwn', Release) = Count(q, Release)
      /\ \A s : d.sub = s => Count(toOwn', Pongs(s)) = Count(q, Pongs(s)) + 1
      /\ \A s : d.sub # s => Count(toOwn', Pongs(s)) = Count(q, Pongs(s))
  <2>1. /\ Append(q, x) \in Seq(ToOwner) /\ Range(Append(q, x)) = Range(q) \cup {x}
        /\ Count(Append(q, x), Asking) = Count(q, Asking) /\ Count(Append(q, x), Release) = Count(q, Release)
    BY <1>5, OwnerIsSent, Zenon
  <2>2. /\ \A s : x.sub = s => Count(Append(q, x), Pongs(s)) = Count(q, Pongs(s)) + 1
        /\ \A s : x.sub # s => Count(Append(q, x), Pongs(s)) = Count(q, Pongs(s))
    BY <1>5, OwnerIsSent, Zenon
  <2> QED BY <1>5, <1>6, <2>1, <2>2, Zenon
<1>8. \A s : Count(toF, Pings(s)) \in Nat /\ Count(toOwn, Pongs(s)) \in Nat
  BY <1>0, CountsNat, Zenon
<1>9. ASSUME NEW s \in DOMAIN ipc
      PROVE  Count(toF', Pings(s)) + Count(toOwn', Pongs(s)) = Count(toF, Pings(s)) + Count(toOwn, Pongs(s))
  <2>1. CASE d.sub = s
    BY <1>2, <1>7, <1>8, <2>1, SMTT(30)
  <2>2. CASE d.sub # s
    BY <1>2, <1>7, <2>2, Zenon
  <2> QED BY <2>1, <2>2, Zenon
<1> QED BY <1>2, <1>4, <1>5, <1>7, <1>9, Zenon

(* F gets a keepalive, and answers whether it still needs the ipc subscriber. *)
LEMMA KeepaliveKeeps == HeadsInv /\ receive_subscriber_keepalive => HeadsInv'
<1> SUFFICES ASSUME HeadsInv, receive_subscriber_keepalive PROVE HeadsInv'
  BY Zenon
<1>0. /\ PipesTypeOK /\ own \in Owner /\ fgn \in Foreign /\ Shares(own, fgn, Count(toF, Granting))
      /\ crashes \in 0 .. 1 /\ toF \in Seq(ToForeign) /\ toOwn \in Seq(ToOwner)
  BY Zenon DEF HeadsInv, PipesTypeOK
<1>1. PICK d, h : d = Head(toF) /\ h = ensured(fgn)
  BY Zenon
<1>2. toF # <<>> /\ d.type = "keepalive"
  BY <1>1, Zenon DEF receive_subscriber_keepalive, to_fgn
<1>3. /\ h \in Foreign /\ Shares(own, h, Count(toF, Granting))
      /\ h.addr = fgn.addr /\ h.subs = fgn.subs /\ h.sub = fgn.sub /\ h.shared = fgn.shared
      /\ fgn.sub # 0 => h.status = "READY"
      /\ fgn.sub = 0 => h.status = "WAITING"
  BY <1>0, <1>1, EnsuredOK
<1>4. ASSUME crashes = 0
      PROVE  /\ Dialogue /\ Counts(own, fgn) /\ fgn.sub # 0 /\ fgn.status = "READY" /\ ~must_ask(fgn)
             /\ d.sub = fgn.sub /\ d.origin = fgn.addr /\ h.status = "READY"
  <2>1. Dialogue /\ Counts(own, fgn)
    BY <1>4, Zenon DEF HeadsInv
  <2>2. fgn.sub # 0 /\ fgn.status = "READY"
    BY <1>0, <1>1, <1>2, <2>1, Heard, Zenon
  <2>3. d \in Range(toF) /\ d \in Keepalive
    BY <1>0, <1>1, <1>2, InPipe, ForeignKinds, Zenon
  <2> QED BY <1>3, <2>1, <2>2, <2>3, Zenon DEF Dialogue, must_ask
<1>5. CASE fgn.status = "none"
  <2>1. PICK action \in {"RENEW", "NORENEW", "UNHOOK"} : action = "NORENEW"
    BY Zenon
  <2>2. /\ toOwn' = toOwn \o <<[type |-> "keepalive_reply", sub |-> Head(toF).sub, action |-> action]>>
        /\ toF' = Tail(toF) /\ UNCHANGED <<own, fgn, ipc, crashes, failed>>
    BY <1>5, <2>1, Zenon DEF receive_subscriber_keepalive
  <2>3. /\ toF' \in Seq(ToForeign) /\ Range(toF') \subseteq Range(toF)
        /\ Count(toF', Granting) = Count(toF, Granting)
        /\ toOwn' \in Seq(ToOwner) /\ Count(toOwn', Release) = Count(toOwn, Release)
        /\ \A m \in Range(toOwn') : m \in Range(toOwn) \/ m \in Asking
                                    \/ (m \in KeepaliveReply /\ m.sub \in DOMAIN ipc)
        /\ \A s \in DOMAIN ipc : Count(toF', Pings(s)) + Count(toOwn', Pongs(s))
                                 = Count(toF, Pings(s)) + Count(toOwn, Pongs(s))
    BY <1>0, <1>1, <1>2, <2>2, AnswerPipe, Zenon
  <2>4. crashes # 0
    BY <1>4, <1>5, Zenon
  <2> QED BY <1>0, <2>2, <2>3, <2>4, ForeignStep, Zenon
<1>6. ASSUME fgn.status # "none", NEW action \in {"RENEW", "NORENEW", "UNHOOK"},
             crashes = 0 => action # "UNHOOK",
             fgn' = h,
             toOwn' = toOwn \o ask(fgn)
                            \o <<[type |-> "keepalive_reply", sub |-> Head(toF).sub, action |-> action]>>,
             toF' = Tail(toF), UNCHANGED <<own, ipc, crashes, failed>>
      PROVE  HeadsInv'
  <2>1. PICK q : q = toOwn \o ask(fgn)
    BY Zenon
  <2>2. /\ q \in Seq(ToOwner) /\ Count(q, Release) = Count(toOwn, Release)
        /\ \A m \in Range(q) : m \in Range(toOwn) \/ m \in Asking
        /\ \A s : Count(q, Pongs(s)) = Count(toOwn, Pongs(s))
        /\ ~must_ask(fgn) => q = toOwn
    BY <1>0, <2>1, AskPipe, Zenon
  <2>3. toOwn' = q \o <<[type |-> "keepalive_reply", sub |-> Head(toF).sub, action |-> action]>>
    BY <1>6, <2>1, Zenon
  <2>4. /\ toF' \in Seq(ToForeign) /\ Range(toF') \subseteq Range(toF)
        /\ Count(toF', Granting) = Count(toF, Granting)
        /\ toOwn' \in Seq(ToOwner) /\ Count(toOwn', Release) = Count(toOwn, Release)
        /\ Count(toOwn', Asking) = Count(q, Asking)
        /\ \A m \in Range(toOwn') : m \in Range(toOwn) \/ m \in Asking
                                    \/ (m \in KeepaliveReply /\ m.sub \in DOMAIN ipc)
        /\ \A m \in Range(toOwn') : m \in Range(q) \/ (m \in KeepaliveReply /\ m.action = action)
        /\ \A s \in DOMAIN ipc : Count(toF', Pings(s)) + Count(toOwn', Pongs(s))
                                 = Count(toF, Pings(s)) + Count(toOwn, Pongs(s))
    BY <1>1, <1>2, <1>6, <2>2, <2>3, AnswerPipe, Zenon
  <2>5. ASSUME crashes = 0 PROVE Dialogue' /\ Counts(own', fgn')
    <3>1. /\ Dialogue /\ Counts(own, fgn) /\ fgn.sub # 0 /\ fgn.status = "READY" /\ ~must_ask(fgn)
          /\ h.status = "READY"
      BY <1>4, <2>5, Zenon
    <3>2. \A m \in Range(toOwn') : m \in Range(toOwn) \/ (m \in KeepaliveReply /\ m.action # "UNHOOK")
      BY <1>6, <2>2, <2>4, <2>5, <3>1, Zenon
    <3>3. fgn'.addr = fgn.addr /\ fgn'.sub = fgn.sub /\ fgn'.status = fgn.status
      BY <1>3, <1>6, <3>1, Zenon
    <3>4. Dialogue'
      BY <1>0, <1>1, <1>2, <1>6, <2>2, <2>4, <3>1, <3>2, <3>3, HeardTalk, Zenon
    <3>5. Counts(own', fgn')
      BY <1>3, <1>6, <3>1, Zenon DEF Counts
    <3> QED BY <3>4, <3>5, Zenon
  <2>6. Shares(own', fgn', Count(toF, Granting)) /\ fgn' \in Foreign
    BY <1>3, <1>6, Zenon
  <2> QED BY <1>0, <1>6, <2>4, <2>5, <2>6, ForeignStep, Zenon
<1>7. CASE fgn.status # "none" /\ h.addr # d.origin
  <2>1. crashes # 0
    BY <1>3, <1>4, <1>7, Zenon
  <2>2. PICK action \in {"RENEW", "NORENEW", "UNHOOK"} : action = "UNHOOK"
    BY Zenon
  <2>3. /\ fgn' = h
        /\ toOwn' = toOwn \o ask(fgn)
                          \o <<[type |-> "keepalive_reply", sub |-> Head(toF).sub, action |-> action]>>
        /\ toF' = Tail(toF) /\ UNCHANGED <<own, ipc, crashes, failed>>
    BY <1>1, <1>7, <2>2, Zenon DEF receive_subscriber_keepalive
  <2> QED BY <1>6, <1>7, <2>1, <2>3, Zenon
<1>8. CASE fgn.status # "none" /\ h.addr = d.origin /\ h.status # "READY"
  <2>1. fail("memstore.c:1526")
    BY <1>1, <1>8, Zenon DEF receive_subscriber_keepalive
  <2>2. crashes # 0
    BY <1>4, <1>8, Zenon
  <2> QED BY <2>1, <2>2, FailKeeps, Zenon
<1>9. CASE fgn.status # "none" /\ h.addr = d.origin /\ h.status = "READY"
  <2>1. PICK action \in {"RENEW", "NORENEW", "UNHOOK"} :
           /\ h.sub = d.sub => action # "UNHOOK"
           /\ fgn' = h
           /\ toOwn' = toOwn \o ask(fgn)
                             \o <<[type |-> "keepalive_reply", sub |-> Head(toF).sub, action |-> action]>>
           /\ toF' = Tail(toF) /\ UNCHANGED <<own, ipc, crashes, failed>>
    BY <1>1, <1>9, Zenon DEF receive_subscriber_keepalive
  <2>2. crashes = 0 => action # "UNHOOK"
    BY <1>3, <1>4, <2>1, Zenon
  <2> QED BY <1>6, <1>9, <2>1, <2>2, Zenon
<1> QED BY <1>5, <1>7, <1>8, <1>9, Zenon


(* The reply that F reads, if F has not been killed, is the one it waits for. *)
LEMMA ReplyTalk ==
    ASSUME PipesTypeOK, Dialogue, toF # <<>>, NEW d, d = Head(toF), d.type = "subscribe_reply"
    PROVE  /\ fgn.status = "WAITING" /\ fgn.sub = 0 /\ d.origin = fgn.addr
           /\ Count(toOwn, Asking) = 0 /\ Count(Tail(toF), Reply) = 0
           /\ \A m \in Range(toOwn) : m \notin Asking
           /\ IF d.head = 0 THEN Tail(toF) = <<>> /\ Enqueued = {} ELSE d.sub = Len(ipc)
<1>0. toF \in Seq(ToForeign) /\ toOwn \in Seq(ToOwner)
  BY Zenon DEF PipesTypeOK
<1>1. /\ d \in ToForeign /\ d \in Range(toF) /\ Count(Tail(toF), Reply) = Count(toF, Reply) - 1
      /\ Tail(toF) \in Seq(ToForeign)
  BY <1>0, ForeignReadsOne, Zenon
<1>2. d \in Reply
  BY <1>1, ForeignKinds, Zenon
<1>3. Count(toF, Reply) # 0
  BY <1>0, <1>1, <1>2, CountNone, Zenon
<1>4. Count(toF, Reply) = 1 /\ Count(toOwn, Asking) = 0 /\ fgn.status = "WAITING"
  BY <1>3, CountsNat DEF Dialogue
<1>5. fgn.sub = 0
  BY <1>4, Zenon DEF Dialogue
<1>6. d.origin = fgn.addr /\ IF d.head = 0 THEN Len(toF) = 1 ELSE d.sub = Len(ipc)
  BY <1>1, <1>2, Zenon DEF Dialogue
<1>7. ASSUME d.head = 0 PROVE Tail(toF) = <<>> /\ Enqueued = {}
  <2>1. Tail(toF) = <<>>
    <3>1. Len(toF) = 1
      BY <1>6, <1>7, Zenon
    <3>2. Len(Tail(toF)) = 0
      BY <1>0, <3>1
    <3>3. \A p \in Seq(ToForeign) : Len(p) = 0 => p = <<>>
      OBVIOUS
    <3> QED BY ONLY <1>1, <3>2, <3>3, Zenon
  <2>2. ~Talking
    BY <1>7, Zenon DEF Talking, Granting
  <2>3. \A s \in Enqueued : s # 0
    BY <1>0 DEF Enqueued, PipesTypeOK
  <2> QED BY <1>5, <2>1, <2>2, <2>3, Zenon DEF Dialogue
<1>8. \A m \in Range(toOwn) : m \notin Asking
  BY <1>0, <1>4, CountNone, Zenon
<1> QED BY <1>1, <1>4, <1>5, <1>6, <1>7, <1>8

(* F takes a head and sends a release for it. *)
LEMMA ReleaseStep ==
    ASSUME HeadsInv, toF # <<>>, NEW d, d = Head(toF), d.type = "subscribe_reply", d.head # 0,
           toF' = Tail(toF), NEW x \in Release, x.head = d.head, x.sub = d.sub, toOwn' = Append(toOwn, x),
           UNCHANGED <<ipc, crashes, failed>>,
           own' \in Owner, own'.reserved = own.reserved, own'.addr = own.addr, own'.status = own.status,
           fgn' \in Foreign, Shares(own', fgn', Count(toF, Granting) - 1),
           crashes = 0 => Dialogue' /\ Counts(own', fgn')
    PROVE  HeadsInv'
<1>0. toF \in Seq(ToForeign) /\ toOwn \in Seq(ToOwner) /\ PipesTypeOK
  BY Zenon DEF HeadsInv, PipesTypeOK
<1>1. /\ d \in ToForeign /\ d \in Range(toF) /\ toF' \in Seq(ToForeign) /\ Range(toF') \subseteq Range(toF)
      /\ Count(toF', Granting) = Count(toF, Granting) - 1
      /\ \A s : Count(toF', Pings(s)) = Count(toF, Pings(s))
  BY <1>0, ForeignReadsOne, Zenon
<1>2. d \in Granting
  BY <1>1, ForeignKinds, Zenon DEF Granting
<1>3. x \in ToOwner /\ x.type \in {"chanhead_release", "nevermind_release"}
  BY Zenon DEF Release, ToOwner
<1>4. /\ toOwn' \in Seq(ToOwner) /\ Range(toOwn') = Range(toOwn) \cup {x}
      /\ Count(toOwn', Release) = Count(toOwn, Release) + 1
      /\ \A s : Count(toOwn', Pongs(s)) = Count(toOwn, Pongs(s))
  <2>1. /\ Append(toOwn, x) \in Seq(ToOwner) /\ Range(Append(toOwn, x)) = Range(toOwn) \cup {x}
        /\ Count(Append(toOwn, x), Release) = Count(toOwn, Release) + 1
    BY <1>0, <1>3, OwnerIsSent, Zenon
  <2>2. \A s : Count(Append(toOwn, x), Pongs(s)) = Count(toOwn, Pongs(s))
    BY <1>0, <1>3, OwnerIsSent, Zenon
  <2> QED BY <2>1, <2>2, Zenon
<1>5. PipesTypeOK'
  BY <1>0, <1>1, <1>4, Zenon DEF PipesTypeOK
<1>6. Shares(own, fgn, Count(toF, Granting))'
  BY <1>1, Zenon
<1>7. Held'
  <2>1. own.reserved = Count(toF, Granting) + Count(toOwn, Release)
    BY Zenon DEF HeadsInv, Held
  <2>2. Count(toF, Granting) \in Nat /\ Count(toOwn, Release) \in Nat
    BY <1>0, CountsNat, Zenon
  <2> QED BY <1>1, <1>4, <2>1, <2>2 DEF Held
<1>8. Named'
  <2>1. d.head = own.addr /\ d.sub \in DOMAIN ipc
    BY <1>1, <1>2, Zenon DEF HeadsInv, Named
  <2>2. x \notin KeepaliveReply
    BY Zenon DEF Release, KeepaliveReply
  <2>3. \A m \in Range(toF') : /\ m \in Granting => m.head = own'.addr /\ m.sub \in DOMAIN ipc'
                               /\ m \in Keepalive => m.sub \in DOMAIN ipc'
    BY <1>1, Zenon DEF HeadsInv, Named
  <2>4. \A m \in Range(toOwn') : /\ m \in Release => m.head = own'.addr /\ m.sub \in DOMAIN ipc'
                                 /\ m \in KeepaliveReply => m.sub \in DOMAIN ipc'
    BY <1>4, <2>1, <2>2, Zenon DEF HeadsInv, Named
  <2> QED BY <2>3, <2>4, Zenon DEF Named
<1>9. Pinged'
  BY <1>1, <1>4, Zenon DEF HeadsInv, Pinged
<1>10. Attached' /\ ReleaseFindsHead' /\ NoCrossedReplies'
  BY Zenon DEF HeadsInv, Attached, Enqueued, ReleaseFindsHead, NoCrossedReplies
<1> QED BY <1>5, <1>6, <1>7, <1>8, <1>9, <1>10, Zenon DEF HeadsInv

(* The dialogue once F has the ipc subscriber that the reply tells it about. *)
LEMMA TakenTalk ==
    ASSUME HeadsInv, Dialogue, toF # <<>>, NEW d, d = Head(toF), d.type = "subscribe_reply", d.head # 0,
           toF' = Tail(toF), UNCHANGED ipc, fgn'.addr = fgn.addr, fgn'.status = "READY", fgn'.sub = d.sub,
           NEW x \in Release, x.type = "chanhead_release", toOwn' = Append(toOwn, x)
    PROVE  Dialogue'
<1>0. toF \in Seq(ToForeign) /\ toOwn \in Seq(ToOwner) /\ PipesTypeOK
  BY Zenon DEF HeadsInv, PipesTypeOK
<1>1. /\ fgn.status = "WAITING" /\ fgn.sub = 0 /\ d.origin = fgn.addr
      /\ Count(toOwn, Asking) = 0 /\ Count(toF', Reply) = 0
      /\ (\A m \in Range(toOwn) : m \notin Asking) /\ d.sub = Len(ipc)
  BY <1>0, ReplyTalk, Zenon
<1>2. /\ d \in ToForeign /\ d \in Range(toF) /\ toF' \in Seq(ToForeign) /\ Range(toF') \subseteq Range(toF)
  BY <1>0, ForeignReadsOne, Zenon
<1>3. d.sub \in DOMAIN ipc
  BY <1>2, ForeignKinds, Zenon DEF HeadsInv, Named, Granting
<1>4. d.sub # 0
  BY <1>3 DEF HeadsInv, PipesTypeOK
<1>5. \A m \in Range(toF') : m \notin Reply
  BY <1>1, <1>2, CountNone, Zenon
<1>6. Range(toOwn') = Range(toOwn) \cup {x} /\ Count(toOwn', Asking) = Count(toOwn, Asking)
  <2>1. x \in ToOwner
    BY Zenon DEF ToOwner
  <2> QED BY <1>0, <2>1, OwnerIsSent, Zenon
<1>7. Count(toOwn', Asking) + Count(toF', Reply) = 0
  BY <1>1, <1>6
<1>8. \A m \in Range(toOwn') :
        /\ m \in Asking => m.origin = fgn'.addr
        /\ m.type # "nevermind_release"
        /\ m \in KeepaliveReply => m.action # "UNHOOK"
  <2>1. x \notin Asking /\ x \notin KeepaliveReply
    BY Zenon DEF Release, Asking, KeepaliveReply
  <2> QED BY <1>6, <2>1, Zenon DEF Dialogue
<1>9. \A m \in Range(toF') : m \in Keepalive => m.sub = Len(ipc') /\ m.origin = fgn'.addr
  BY <1>2, Zenon DEF Dialogue
<1>10. \A k \in DOMAIN toF' : toF'[k].type = "unsubscribed" => k = Len(toF') /\ Enqueued' = {}
  <2> SUFFICES ASSUME NEW k \in DOMAIN toF', toF'[k].type = "unsubscribed" PROVE k = Len(toF') /\ Enqueued' = {}
    BY Zenon
  <2>1. k + 1 \in DOMAIN toF /\ toF[k + 1].type = "unsubscribed"
    BY <1>0
  <2>2. k + 1 = Len(toF) /\ Enqueued = {}
    BY <2>1, Zenon DEF Dialogue
  <2>3. Len(toF') = Len(toF) - 1 /\ k \in Nat
    BY <1>0, <1>2
  <2>4. k = Len(toF')
    BY <2>2, <2>3
  <2>5. Enqueued' = {}
    BY <2>2, Zenon DEF Enqueued
  <2> QED BY <2>4, <2>5, Zenon
<1>11. \A s \in DOMAIN ipc' : ipc'[s].hooked
  BY Zenon DEF Dialogue
<1>12. \A s \in Enqueued' : s = Len(ipc') /\ ipc'[s].origin = fgn'.addr /\ (fgn'.sub = s \/ Talking')
  BY <1>1, Zenon DEF Dialogue, Enqueued
<1> QED BY <1>1, <1>4, <1>5, <1>7, <1>8, <1>9, <1>10, <1>11, <1>12, Zenon DEF Dialogue


(* F gets the owner's answer: it is refused, it names a head that F no longer
   has, or F takes the shared head and the ipc subscriber, or leaves an older
   ipc subscriber for it. *)
LEMMA SubscribeReplyKeeps == HeadsInv /\ receive_subscribe_reply => HeadsInv'
<1> SUFFICES ASSUME HeadsInv, receive_subscribe_reply PROVE HeadsInv'
  BY Zenon
<1>0. /\ PipesTypeOK /\ own \in Owner /\ fgn \in Foreign /\ Shares(own, fgn, Count(toF, Granting))
      /\ crashes \in 0 .. 1 /\ toF \in Seq(ToForeign) /\ toOwn \in Seq(ToOwner)
  BY Zenon DEF HeadsInv, PipesTypeOK
<1>1. PICK d, g, h : d = Head(toF) /\ g = found /\ h = ensured(g)
  BY Zenon
<1>2. toF # <<>> /\ d.type = "subscribe_reply"
  BY <1>1, Zenon DEF receive_subscribe_reply, to_fgn
<1>3. d \in Range(toF) /\ d \in Reply /\ d.head \in Nat /\ d.sub \in Nat
  <2>1. d \in Range(toF) /\ d \in ToForeign
    BY <1>0, <1>1, <1>2, ForeignReadsOne, Zenon
  <2>2. d \in Reply
    BY <1>2, <2>1, ForeignKinds, Zenon
  <2> QED BY <2>1, <2>2, Zenon DEF Reply
<1>4. /\ g \in Foreign /\ Shares(own, g, Count(toF, Granting)) /\ (Counts(own, fgn) => Counts(own, g))
      /\ fgn.status # "none" => g = fgn
  BY <1>0, <1>1, FoundOK
<1>5. /\ h \in Foreign /\ Shares(own, h, Count(toF, Granting))
      /\ h.addr = g.addr /\ h.subs = g.subs /\ h.sub = g.sub /\ h.shared = g.shared
  BY <1>0, <1>1, <1>4, EnsuredOK
<1>6. ASSUME crashes = 0
      PROVE  /\ Dialogue /\ Counts(own, h) /\ h.addr = d.origin /\ h.sub = 0 /\ h.addr = fgn.addr
  <2>1. Dialogue /\ Counts(own, g)
    BY <1>4, <1>6, Zenon DEF HeadsInv
  <2>2. fgn.status = "WAITING" /\ fgn.sub = 0 /\ d.origin = fgn.addr
    BY <1>0, <1>1, <1>2, <2>1, ReplyTalk, Zenon
  <2>3. g = fgn
    BY <1>4, <2>2, Zenon
  <2> QED BY <1>5, <2>1, <2>2, <2>3, Zenon DEF Counts
<1>7. d.head # 0 => /\ own.status # "none" /\ d.head = own.addr /\ Count(toF, Granting) \in Nat
                    /\ Count(toF, Granting) # 0
  <2>1. d.head # 0 => d \in Granting
    BY <1>3, Zenon DEF Granting
  <2> QED BY <1>0, <1>3, <2>1, NoHead, CountNone, CountsNat, Zenon DEF HeadsInv, Named
<1>8. CASE h.addr # d.origin /\ d.head = 0
  <2>1. fail("ipc-handlers.c:185")
    BY <1>1, <1>8, Zenon DEF receive_subscribe_reply
  <2>2. crashes # 0
    BY <1>6, <1>8, Zenon
  <2> QED BY <2>1, <2>2, FailKeeps, Zenon
<1>9. CASE h.addr # d.origin /\ d.head # 0
  <2>1. PICK x : x = [type |-> "nevermind_release", head |-> d.head, sub |-> d.sub]
    BY Zenon
  <2>2. x \in Release /\ x.head = d.head /\ x.sub = d.sub
    BY <1>3, <2>1, Zenon DEF Release
  <2>3. fgn' = h /\ toOwn' = Append(toOwn, x) /\ toF' = Tail(toF) /\ UNCHANGED <<own, ipc, crashes, failed>>
    BY <1>1, <1>9, <2>1, Zenon DEF receive_subscribe_reply
  <2>4. crashes # 0
    BY <1>6, <1>9, Zenon
  <2>5. Shares(own', fgn', Count(toF, Granting) - 1)
    BY <1>0, <1>5, <1>7, <1>9, <2>3 DEF Shares, given_up, Owner
  <2> QED BY <1>0, <1>1, <1>2, <1>5, <1>9, <2>2, <2>3, <2>4, <2>5, ReleaseStep, Zenon
<1>10. CASE h.addr = d.origin /\ d.head = 0 /\ h.sub # 0
  <2>1. fail("memstore.c:1251")
    BY <1>1, <1>10, Zenon DEF receive_subscribe_reply
  <2>2. crashes # 0
    BY <1>6, <1>10, Zenon
  <2> QED BY <2>1, <2>2, FailKeeps, Zenon
<1>11. CASE h.addr = d.origin /\ d.head = 0 /\ h.sub = 0
  <2>1. /\ fgn' = [gc_fgn(bulk_dequeue(h, h.subs)) EXCEPT !.status = "INACTIVE"]
        /\ own' = IF h.shared = 0 THEN own ELSE [own EXCEPT !.shsubs = @ - h.subs, !.refs = @ - 1]
        /\ toF' = Tail(toF) /\ UNCHANGED <<ipc, toOwn, crashes, failed>>
    BY <1>1, <1>11, Zenon DEF receive_subscribe_reply
  <2>2. fgn' \in Foreign /\ fgn'.status = "INACTIVE" /\ fgn'.shared = 0 /\ fgn'.sub = 0 /\ fgn'.addr = h.addr
    <3>1. PICK n, r, b : /\ n \in 0 .. h.subs /\ n = h.subs /\ r \in Int /\ r = Count(toF, Granting)
                         /\ b = bulk_dequeue(h, n)
      <4>1. h.subs \in 0 .. h.subs /\ Count(toF, Granting) \in Int
        BY <1>0, <1>5, CountsNat, ChanheadAssumption DEF Foreign
      <4> QED BY <4>1, Zenon
    <3>2. b \in Foreign /\ b.sub = h.sub /\ b.addr = h.addr
      BY <1>0, <1>5, <3>1, LeaveOK
    <3>3. PICK c : c = gc_fgn(b)
      BY Zenon
    <3>4. c \in Foreign /\ c.sub = b.sub /\ c.addr = b.addr /\ c.shared = 0
      BY <3>2, <3>3, Zenon DEF gc_fgn, Foreign
    <3>5. fgn' = [c EXCEPT !.status = "INACTIVE"]
      BY <2>1, <3>1, <3>3, Zenon
    <3> QED BY <1>11, <3>2, <3>4, <3>5, Zenon DEF Foreign
  <2>3. /\ own' \in Owner /\ own'.reserved = own.reserved /\ own'.addr = own.addr /\ own'.status = own.status
        /\ own'.subs = own.subs
        /\ IF h.shared = 0 THEN own' = own ELSE own'.shsubs = own.shsubs - h.subs /\ own'.refs = own.refs - 1
    <3>1. PICK a \in Int, b \in Int : a = own.shsubs - h.subs /\ b = own.refs - 1
      BY <1>0, <1>5, SMTT(30) DEF Owner, Foreign
    <3>2. own' = IF h.shared = 0 THEN own ELSE [own EXCEPT !.shsubs = a, !.refs = b]
      BY <2>1, <3>1, Zenon
    <3> QED BY <1>0, <3>1, <3>2, Zenon DEF Owner
  <2>4. Shares(own', fgn', Count(toF, Granting))
    <3>1. Count(toF, Granting) \in Nat
      BY <1>0, CountsNat, Zenon
    <3> QED BY <1>0, <1>5, <2>2, <2>3, <3>1 DEF Shares, given_up, Owner
  <2>5. /\ toF' \in Seq(ToForeign) /\ Range(toF') \subseteq Range(toF)
        /\ Count(toF', Granting) = Count(toF, Granting)
        /\ \A s : Count(toF', Pings(s)) = Count(toF, Pings(s))
    BY <1>0, <1>1, <1>2, <1>11, <2>1, ForeignReadsOne, Zenon
  <2>6. ASSUME crashes = 0 PROVE Dialogue' /\ Counts(own', fgn')
    <3>1. Dialogue /\ Counts(own, h) /\ h.addr = fgn.addr
      BY <1>6, <2>6, Zenon
    <3>2. /\ Count(toOwn, Asking) = 0 /\ Count(toF', Reply) = 0 /\ toF' = <<>> /\ Enqueued = {}
          /\ \A m \in Range(toOwn) : m \notin Asking
      BY <1>0, <1>1, <1>2, <1>11, <2>1, <3>1, ReplyTalk, Zenon
    <3>3. Range(toF') = {} /\ DOMAIN toF' = {} /\ Enqueued' = {}
      BY <2>1, <3>2 DEF Range, Enqueued
    <3>4. Count(toOwn', Asking) + Count(toF', Reply) = 0
      BY <2>1, <3>2
    <3>5. \A m \in Range(toOwn') :
            /\ m \in Asking => m.origin = fgn'.addr
            /\ m.type # "nevermind_release"
            /\ m \in KeepaliveReply => m.action # "UNHOOK"
      BY <2>1, <3>1, <3>2, Zenon DEF Dialogue
    <3>6. \A s \in DOMAIN ipc' : ipc'[s].hooked
      BY <2>1, <3>1, Zenon DEF Dialogue
    <3>7. Dialogue'
      BY <2>2, <3>2, <3>3, <3>4, <3>5, <3>6, Zenon DEF Dialogue
    <3>8. PICK a \in Int, n \in Int, m \in Int : a = own.shsubs /\ n = own.subs /\ m = h.subs
      <4>1. own.shsubs \in Int /\ own.subs \in Int /\ h.subs \in Int
        BY <1>0, <1>5, ChanheadAssumption DEF Owner, Foreign
      <4> QED BY <4>1, Zenon
    <3>9. ASSUME own.status # "none" PROVE own'.shsubs = n + 0
      <4>1. CASE h.shared = 0
        BY <2>3, <3>1, <3>8, <3>9, <4>1, Zenon DEF Counts
      <4>2. CASE h.shared # 0
        <5>1. a = n + m /\ own'.shsubs = a - m
          BY <2>3, <3>1, <3>8, <3>9, <4>2, Zenon DEF Counts
        <5> QED BY <5>1
      <4> QED BY <4>1, <4>2, Zenon
    <3>10. Counts(own', fgn')
      BY <2>2, <2>3, <3>8, <3>9, Zenon DEF Counts
    <3> QED BY <3>7, <3>10, Zenon
  <2>7. /\ toOwn' \in Seq(ToOwner) /\ Count(toOwn', Release) = Count(toOwn, Release)
        /\ \A m \in Range(toOwn') : m \in Range(toOwn)
        /\ \A s \in DOMAIN ipc : Count(toF', Pings(s)) + Count(toOwn', Pongs(s))
                                 = Count(toF, Pings(s)) + Count(toOwn, Pongs(s))
    BY <1>0, <2>1, <2>5, Zenon
  <2> QED BY <1>0, <2>1, <2>2, <2>3, <2>4, <2>5, <2>6, <2>7, ForeignStep, Zenon
<1>12. CASE h.addr = d.origin /\ d.head # 0
  <2>1. h.shared \in {0, d.head}
    BY <1>5, <1>7, <1>12, Zenon DEF Shares
  <2>2. PICK t : t = [h EXCEPT !.shared = d.head, !.status = "READY"]
    BY Zenon
  <2>3. /\ t \in Foreign /\ t.shared = d.head /\ t.status = "READY" /\ t.subs = h.subs /\ t.sub = h.sub
        /\ t.addr = h.addr
    BY <1>3, <1>5, <2>2, Zenon DEF Foreign
  <2>4. /\ own' = IF h.shared = 0 THEN [own EXCEPT !.shsubs = @ + h.subs] ELSE own
        /\ toF' = Tail(toF) /\ UNCHANGED <<ipc, crashes, failed>>
    BY <1>1, <1>12, <2>1, Zenon DEF receive_subscribe_reply
  <2>5. /\ own' \in Owner /\ own'.reserved = own.reserved /\ own'.addr = own.addr /\ own'.status = own.status
        /\ own'.subs = own.subs /\ own'.refs = own.refs
        /\ own'.shsubs = own.shsubs + IF h.shared = 0 THEN h.subs ELSE 0
    <3>1. PICK a \in Int : a = own.shsubs + h.subs
      BY <1>0, <1>5 DEF Owner, Foreign
    <3>2. own' = IF h.shared = 0 THEN [own EXCEPT !.shsubs = a] ELSE own
      BY <2>4, <3>1, Zenon
    <3> QED BY <1>0, <3>1, <3>2 DEF Owner
  <2>6. ASSUME fgn' \in Foreign, fgn'.shared = d.head, fgn'.status = "READY", fgn'.subs = h.subs
        PROVE  /\ Shares(own', fgn', Count(toF, Granting) - 1)
               /\ Counts(own, h) => Counts(own', fgn')
    <3>1. Shares(own', fgn', Count(toF, Granting) - 1)
      BY <1>0, <1>5, <1>7, <1>12, <2>5, <2>6 DEF Shares, given_up, Owner
    <3>2. ASSUME Counts(own, h) PROVE Counts(own', fgn')
      <4>1. own.shsubs \in Int /\ own.subs \in Int /\ h.subs \in Int
        BY <1>0, <1>5, ChanheadAssumption DEF Owner, Foreign
      <4>2. own.status # "none" => own.shsubs = own.subs + IF h.shared # 0 THEN h.subs ELSE 0
        BY <3>2, Zenon DEF Counts
      <4>3. fgn'.shared # 0 /\ fgn'.subs = h.subs
        BY <1>12, <2>6, Zenon
      <4>4. own.status # "none" => own'.shsubs = own.subs + h.subs
        BY <2>5, <4>1, <4>2
      <4> QED BY <2>5, <4>3, <4>4, Zenon DEF Counts
    <3> QED BY <3>1, <3>2, Zenon
  <2>7. CASE h.sub \notin {0, d.sub}
    <3>1. PICK x : x = [type |-> "nevermind_release", head |-> d.head, sub |-> d.sub]
      BY Zenon
    <3>2. x \in Release /\ x.head = d.head /\ x.sub = d.sub
      BY <1>3, <3>1, Zenon DEF Release
    <3>3. fgn' = t /\ toOwn' = Append(toOwn, x)
      BY <1>1, <1>12, <2>1, <2>2, <2>7, <3>1, Zenon DEF receive_subscribe_reply
    <3>4. crashes # 0
      BY <1>6, <2>7, Zenon
    <3>5. Shares(own', fgn', Count(toF, Granting) - 1) /\ fgn' \in Foreign
      BY <2>3, <2>6, <3>3, Zenon
    <3> QED BY <1>1, <1>2, <1>12, <2>4, <2>5, <3>2, <3>3, <3>4, <3>5, ReleaseStep, Zenon
  <2>8. CASE h.sub \in {0, d.sub}
    <3>1. PICK x : x = [type |-> "chanhead_release", head |-> d.head, sub |-> d.sub]
      BY Zenon
    <3>2. x \in Release /\ x.head = d.head /\ x.sub = d.sub /\ x.type = "chanhead_release"
      BY <1>3, <3>1, Zenon DEF Release
    <3>3. fgn' = [t EXCEPT !.sub = d.sub] /\ toOwn' = Append(toOwn, x)
      BY <1>1, <1>12, <2>1, <2>2, <2>8, <3>1, Zenon DEF receive_subscribe_reply
    <3>4. /\ fgn' \in Foreign /\ fgn'.shared = d.head /\ fgn'.status = "READY" /\ fgn'.subs = h.subs
          /\ fgn'.sub = d.sub /\ fgn'.addr = h.addr
      BY <1>3, <2>3, <3>3, Zenon DEF Foreign
    <3>5. Shares(own', fgn', Count(toF, Granting) - 1) /\ (Counts(own, h) => Counts(own', fgn'))
      BY <2>6, <3>4, Zenon
    <3>6. ASSUME crashes = 0 PROVE Dialogue' /\ Counts(own', fgn')
      <4>1. Dialogue /\ Counts(own, h) /\ h.addr = fgn.addr
        BY <1>6, <3>6, Zenon
      <4>2. Dialogue'
        BY <1>1, <1>2, <1>12, <2>4, <3>2, <3>3, <3>4, <4>1, TakenTalk, Zenon
      <4> QED BY <3>5, <4>1, <4>2, Zenon
    <3> QED BY <1>1, <1>2, <1>12, <2>4, <2>5, <3>2, <3>3, <3>4, <3>5, <3>6, ReleaseStep, Zenon
  <2> QED BY <2>7, <2>8, Zenon
<1> QED BY <1>8, <1>9, <1>10, <1>11, <1>12, Zenon

-----------------------------------------------------------------------------
(* The invariant holds, and says what is safe. *)

(* No head, no ipc subscriber and no alert to begin with. *)
LEMMA HeadsInitInv == ChanheadInit => HeadsInv
<1> SUFFICES ASSUME ChanheadInit PROVE HeadsInv
  BY Zenon
<1>1. /\ own.status = "none" /\ own.subs = 0 /\ own.reserved = 0 /\ own.addr = 0 /\ own \in Owner
      /\ fgn.status = "none" /\ fgn.sub = 0 /\ fgn.shared = 0 /\ fgn \in Foreign
  BY ChanheadAssumption DEF ChanheadInit, Owner, Foreign
<1>2. ipc = <<>> /\ toF = <<>> /\ toOwn = <<>> /\ crashes = 0 /\ failed = "none"
  BY Zenon DEF ChanheadInit
<1>3. PipesTypeOK
  BY <1>1, <1>2 DEF PipesTypeOK
<1>4. Range(toF) = {} /\ Range(toOwn) = {} /\ DOMAIN ipc = {} /\ DOMAIN toF = {} /\ Enqueued = {}
  BY <1>2 DEF Range, Enqueued
<1>5. \A A : Count(toF, A) = 0 /\ Count(toOwn, A) = 0
  BY <1>3, <1>4, CountNone, Zenon DEF PipesTypeOK
<1>6. Shares(own, fgn, Count(toF, Granting)) /\ Held /\ Named /\ Pinged /\ Attached
  BY <1>1, <1>4, <1>5 DEF Shares, Held, Named, Pinged, Attached
<1>7. Dialogue /\ Counts(own, fgn)
  BY <1>1, <1>2, <1>4, <1>5 DEF Dialogue, Counts
<1>8. ReleaseFindsHead /\ NoCrossedReplies
  BY <1>2, Zenon DEF ReleaseFindsHead, NoCrossedReplies
<1> QED BY <1>3, <1>6, <1>7, <1>8, Zenon DEF HeadsInv

(* Each step of either worker keeps the invariant. *)
LEMMA HeadsStep == HeadsInv /\ [ChanheadNext]_chanheadVars => HeadsInv'
<1> SUFFICES ASSUME HeadsInv, [ChanheadNext]_chanheadVars PROVE HeadsInv'
  BY Zenon
<1>1. CASE OwnerReads
  BY <1>1, ReceiveSubscribeKeeps, ChanheadReleaseKeeps, NevermindReleaseKeeps, KeepaliveReplyKeeps, Zenon DEF OwnerReads
<1>2. CASE ForeignReads
  BY <1>2, SubscribeReplyKeeps, UnsubscribedKeeps, PublishStatusKeeps, PublishMessageKeeps, KeepaliveKeeps, Zenon
     DEF ForeignReads
<1>3. CASE subscribe_own \/ unsubscribe_own \/ publish_own \/ expire_own \/ delete_own \/ reap_own
  BY <1>3, SubscribeOwnKeeps, UnsubscribeOwnKeeps, PublishOwnKeeps, ExpireOwnKeeps, DeleteOwnKeeps, ReapOwnKeeps, Zenon
<1>4. CASE subscribe_fgn \/ unsubscribe_fgn \/ reap_fgn \/ respawn_fgn
  BY <1>4, SubscribeFgnKeeps, UnsubscribeFgnKeeps, ReapFgnKeeps, RespawnFgnKeeps, Zenon
<1>5. CASE \E s \in DOMAIN ipc : timeout_ev_handler(s)
  BY <1>5, TimeoutKeeps, Zenon
<1>6. CASE UNCHANGED chanheadVars
  BY <1>6, Zenon DEF chanheadVars, HeadsInv, PipesTypeOK, Held, Named, Pinged, Attached, Dialogue, Talking, Enqueued,
              ReleaseFindsHead, NoCrossedReplies
<1> QED BY <1>1, <1>2, <1>3, <1>4, <1>5, <1>6, Zenon DEF ChanheadNext

(* What the invariant says of the heads is what is safe. *)
LEMMA HeadsInvSafe == HeadsInv => HeadsSafe
<1> SUFFICES ASSUME HeadsInv PROVE HeadsSafe
  BY Zenon
<1>1. PipesTypeOK /\ toF \in Seq(ToForeign) /\ ipc \in Seq(IpcSub)
  BY Zenon DEF HeadsInv, PipesTypeOK
<1>2. ChanheadTypeOK
  BY <1>1 DEF PipesTypeOK, ChanheadTypeOK
<1>3. Replies = Marked(toF, Granting)
  <2>1. \A k \in DOMAIN toF : toF[k] \in ToForeign
    BY <1>1
  <2>2. \A k \in DOMAIN toF : toF[k] \in Granting <=> toF[k].type = "subscribe_reply" /\ toF[k].head # 0
    BY <2>1, ForeignKinds, Zenon DEF Granting
  <2> QED BY <2>2, Zenon DEF Replies, Marked
<1>4. \A k \in Replies : own.status # "none" /\ own.addr = toF[k].head
  <2>1. \A k \in Replies : toF[k] \in Range(toF) /\ toF[k] \in Granting
    BY <1>3, Zenon DEF Marked, Range
  <2> QED BY <2>1, NoHead, Zenon DEF HeadsInv, Named
<1>5. SharedAlive
  BY <1>3, <1>4, Zenon DEF HeadsInv, Shares, SharedAlive, Count
<1>6. SubCountExact
  BY Zenon DEF HeadsInv, Counts, SubCountExact
<1> QED BY <1>2, <1>5, <1>6, Zenon DEF HeadsInv, HeadsSafe

(* HeadsSafe for any number of clients and ipc subscribers, however many
   alerts are on their way, whether or not F is killed and shared memory runs
   out: the shared data that F uses or is about to use has not been freed,
   the subscriber count is that of both workers, a release always finds the
   head it names, and without a crash the assertions about crossed alerts
   never fail. *)
THEOREM HeadsStaySafe == ChanheadSpec => []HeadsSafe
<1>1. ChanheadInit => HeadsInv
  BY HeadsInitInv, Zenon
<1>2. HeadsInv /\ [ChanheadNext]_chanheadVars => HeadsInv'
  BY HeadsStep, Zenon
<1>3. HeadsInv => HeadsSafe
  BY HeadsInvSafe, Zenon
<1> QED BY <1>1, <1>2, <1>3, PTL DEF ChanheadSpec
=============================================================================
