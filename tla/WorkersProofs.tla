---------------------------- MODULE WorkersProofs ----------------------------
(***************************************************************************)
(* Proofs about what the workers share: the buffer of a channel's messages *)
(* (MsgBuffer), the ring of alerts between two workers (IpcQueue) and the  *)
(* readers-writer lock (RwLock).                                           *)
(***************************************************************************)
EXTENDS MsgBuffer, IpcQueue, RwLock, Counting

-----------------------------------------------------------------------------
(* MsgBuffer, for any number of messages. *)

(* Garbage collection keeps a suffix of the buffer. *)
LEMMA GcSuffix ==
    ASSUME NEW b \in Seq(Messages), NEW limit \in Nat \cup {-1}, now \in Nat
    PROVE  LET k == FirstKept(b, limit)
               c == chanhead_messages_gc_custom(b, limit)
           IN  /\ k \in 1 .. Len(b) + 1
               /\ c \in Seq(Messages)
               /\ c # <<>> => b # <<>> /\ c[Len(c)] = b[Len(b)]
               /\ (b # <<>> /\ limit # 0 /\ now <= b[Len(b)].expires) => c # <<>>
<1> DEFINE over == IF limit >= 0 /\ Len(b) > limit THEN Len(b) - limit ELSE 0
           stop == {k \in over + 1 .. Len(b) : now <= b[k].expires} \cup {Len(b) + 1}
           k == FirstKept(b, limit)
           c == chanhead_messages_gc_custom(b, limit)
<1>1. Len(b) \in Nat /\ over \in 0 .. Len(b)
  OBVIOUS
<1>2. stop \in SUBSET (1 .. Len(b) + 1) /\ Len(b) + 1 \in stop
  BY <1>1
<1>3. \E x \in stop : \A y \in stop : x <= y
  <2>1. stop \in SUBSET Nat /\ stop # {}
    BY <1>1, <1>2
  <2> HIDE DEF stop
  <2> QED BY <2>1, LeastNat, Zenon
<1>4. k \in stop /\ \A j \in stop : k <= j
  <2>1. k = CHOOSE x \in stop : \A j \in stop : x <= j
    BY Zenon DEF FirstKept
  <2> HIDE DEF stop, k
  <2> QED BY <1>3, <2>1, Zenon
<1>5. k \in 1 .. Len(b) + 1
  BY <1>2, <1>4, Zenon
<1>6. (b # <<>> /\ limit # 0 /\ now <= b[Len(b)].expires) => k <= Len(b)
  <2> SUFFICES ASSUME b # <<>>, limit # 0, now <= b[Len(b)].expires PROVE k <= Len(b)
    BY Zenon
  <2>1. Len(b) > 0 /\ over < Len(b)
    BY <1>1
  <2>2. Len(b) \in stop
    BY <1>1, <2>1
  <2> HIDE DEF stop, k
  <2> QED BY <1>4, <2>2, Zenon
<1> HIDE DEF k, stop, over
<1>7. c = SubSeq(b, k, Len(b))
  BY Zenon DEF chanhead_messages_gc_custom, k
<1>8. /\ c \in Seq(Messages)
      /\ Len(c) = IF k <= Len(b) THEN Len(b) - k + 1 ELSE 0
      /\ \A p \in 1 .. Len(b) - k + 1 : c[p] = b[k + p - 1]
  <2> HIDE DEF c
  <2>1. \A p \in k .. Len(b) : b[p] \in Messages
    BY <1>1, <1>5, SeqElem
  <2> QED BY <1>1, <1>5, <1>7, <2>1, SeqCut
<1> HIDE DEF c
<1>9. c # <<>> => b # <<>> /\ c[Len(c)] = b[Len(b)]
  BY <1>1, <1>5, <1>8
<1>10. k <= Len(b) => c # <<>>
  BY <1>1, <1>5, <1>8
<1> QED BY <1>5, <1>6, <1>8, <1>9, <1>10, Zenon DEF k, c

-----------------------------------------------------------------------------
(* The inductive invariant.  It takes a channel whose publishers all buffer
   and that is not deleted: then the last stored message is the latest one,
   and a message of the current second is still stored. *)
Buffered == 0 \notin Lengths /\ ~MayDelete

BufferInv ==
    /\ BufferTypeOK
    /\ max # 0
    /\ latest.time <= now
    /\ buf # <<>> => LastId(buf) = latest
    /\ latest.time = now => buf # <<>> /\ now <= buf[Len(buf)].expires
    /\ latest.tag < 0 \/ IncreasingIds

(* What message ids, tags and stored messages are. *)
LEMMA IdFacts ==
    /\ TagMax \in Nat /\ Zero \in Ids
    /\ \A id \in Ids : id.time \in Nat /\ id.tag \in Int /\ NextTag(id.tag) \in Tags
    /\ \A t \in Nat, g \in Tags : [time |-> t, tag |-> g] \in Ids
    /\ 0 \in Tags
    /\ \A m \in Messages : m.id \in Ids /\ m.expires \in Nat
BY MsgBufferAssumption DEF Zero, Ids, Tags, NextTag, Messages

(* The last id of a buffer is an id, and gc does not change it. *)
LEMMA GcLast ==
    ASSUME NEW b \in Seq(Messages), NEW limit \in Nat \cup {-1}, now \in Nat
    PROVE  LET c == chanhead_messages_gc_custom(b, limit)
           IN  /\ c \in Seq(Messages)
               /\ LastId(c) \in Ids
               /\ c # <<>> => b # <<>> /\ LastId(c) = LastId(b)
                              /\ c[Len(c)] = b[Len(b)]
               /\ (b # <<>> /\ limit # 0 /\ now <= b[Len(b)].expires) => c # <<>>
<1> DEFINE c == chanhead_messages_gc_custom(b, limit)
<1>1. /\ c \in Seq(Messages)
      /\ c # <<>> => b # <<>> /\ c[Len(c)] = b[Len(b)]
      /\ (b # <<>> /\ limit # 0 /\ now <= b[Len(b)].expires) => c # <<>>
  BY GcSuffix, Zenon
<1> HIDE DEF c
<1>2. c # <<>> => c[Len(c)] \in Messages
  BY <1>1
<1>3. LastId(c) \in Ids
  BY <1>2, IdFacts, Zenon DEF LastId
<1>4. c # <<>> => LastId(c) = LastId(b)
  BY <1>1, Zenon DEF LastId
<1> QED BY <1>1, <1>3, <1>4, Zenon DEF c

(* Publishing, deleting, expiring and the clock keep the invariant. *)
LEMMA BufferStep == ASSUME Buffered, BufferInv, [BufferNext]_bufferVars PROVE BufferInv'
<1> USE DEF BufferInv, BufferTypeOK
<1>1. ASSUME NEW limit \in Lengths, NEW timeout \in Timeouts, publish(limit, timeout)
      PROVE  BufferInv'
  <2> DEFINE kept == chanhead_messages_gc_custom(buf, limit)
             id == [time |-> now, tag |-> PushedTag(kept)]
             msg == [id |-> id, expires |-> now + timeout]
             pushed == Append(kept, msg)
             stored == chanhead_messages_gc_custom(pushed, limit)
  <2>1. limit \in Nat /\ limit # 0 /\ timeout \in Nat /\ now \in Nat
    BY MsgBufferAssumption, Zenon DEF Buffered
  <2>2. /\ max' = limit /\ buf' = stored /\ prev' = LastId(kept)
        /\ latest' = id /\ before' = latest /\ now' = now
    BY <1>1, <2>1, Zenon DEF publish, PrevId
  <2>3. /\ kept \in Seq(Messages) /\ LastId(kept) \in Ids
        /\ kept # <<>> => LastId(kept) = latest
        /\ latest.time = now => kept # <<>>
    BY <2>1, GcLast, Zenon
  <2> HIDE DEF kept
  <2>4. PushedTag(kept) = IF latest.time = now THEN NextTag(latest.tag) ELSE 0
    BY <2>3, Zenon DEF PushedTag
  <2>5. id \in Ids /\ msg \in Messages
    BY <2>1, <2>4, IdFacts DEF Messages
  <2>6. id.time = now /\ id.tag = PushedTag(kept) /\ msg.id = id /\ msg.expires = now + timeout
    BY Zenon
  <2> HIDE DEF id, msg
  <2>7. /\ pushed \in Seq(Messages) /\ pushed # <<>>
        /\ pushed[Len(pushed)] = msg /\ now <= msg.expires
    <3>1. now <= msg.expires
      BY <2>1, <2>6
    <3>2. kept \in Seq(Messages) /\ msg \in Messages
      BY <2>3, <2>5, Zenon
    <3>3. /\ pushed \in Seq(Messages) /\ pushed # <<>>
          /\ Len(pushed) = Len(kept) + 1 /\ pushed[Len(kept) + 1] = msg
      BY <3>2
    <3> QED BY <3>1, <3>3, Zenon
  <2> HIDE DEF pushed
  <2>8. stored \in Seq(Messages) /\ stored # <<>> /\ stored[Len(stored)] = msg
    BY <2>1, <2>7, GcLast, Zenon
  <2> HIDE DEF stored
  <2>9. LastId(buf') = latest' /\ buf' # <<>> /\ now' <= buf'[Len(buf')].expires
    BY <2>2, <2>6, <2>7, <2>8, Zenon DEF LastId
  <2>10. latest'.tag < 0 \/ IncreasingIds'
    BY <2>2, <2>4, <2>6, IdFacts DEF IncreasingIds, Before, NextTag, Tags, Ids
  <2> QED BY <2>1, <2>2, <2>3, <2>5, <2>6, <2>8, <2>9, <2>10
<1>2. CASE memstore_chanhead_messages_gc
  <2> DEFINE c == chanhead_messages_gc_custom(buf, max)
  <2>1. /\ c \in Seq(Messages)
        /\ c # <<>> => LastId(c) = latest /\ c[Len(c)] = buf[Len(buf)]
        /\ latest.time = now => c # <<>>
    BY GcLast, Zenon
  <2>2. buf' = c /\ UNCHANGED <<now, max, latest, before, prev>>
    BY <1>2, Zenon DEF memstore_chanhead_messages_gc
  <2> HIDE DEF c
  <2> QED BY <2>1, <2>2, Zenon DEF IncreasingIds
<1>3. CASE tick
  BY <1>3, IdFacts DEF tick, IncreasingIds, LastId
<1>4. CASE UNCHANGED bufferVars
  BY <1>4, Zenon DEF bufferVars, IncreasingIds, LastId
<1>5. ~nchan_memstore_force_delete_chanhead
  BY Zenon DEF nchan_memstore_force_delete_chanhead, Buffered
<1> QED BY <1>1, <1>2, <1>3, <1>4, <1>5, Zenon DEF BufferNext

(* On a channel that every publisher buffers and that is not deleted, message
   ids increase until a tag wraps around within one second. *)
THEOREM IdsIncrease ==
    BufferSpec => [](Buffered => latest.tag < 0 \/ IncreasingIds)
<1>1. BufferInit => BufferInv
  BY IdFacts DEF BufferInit, BufferInv, BufferTypeOK, IncreasingIds, Zero
<1>2. (Buffered => BufferInv) /\ [BufferNext]_bufferVars => (Buffered => BufferInv)'
  BY BufferStep, Zenon DEF Buffered
<1>3. (Buffered => BufferInv) => (Buffered => latest.tag < 0 \/ IncreasingIds)
  BY Zenon DEF BufferInv
<1> QED BY <1>1, <1>2, <1>3, PTL DEF BufferSpec

-----------------------------------------------------------------------------
(* The messages that are left by garbage collection, one by one. *)
LEMMA GcKeeps ==
    ASSUME NEW b \in Seq(Messages), NEW limit \in Nat \cup {-1}, now \in Nat
    PROVE  \A c : c = chanhead_messages_gc_custom(b, limit) =>
              /\ c \in Seq(Messages)
              /\ \E d \in Nat : Len(b) = Len(c) + d /\ \A p \in 1 .. Len(c) : c[p] = b[p + d]
<1> SUFFICES ASSUME NEW c, c = chanhead_messages_gc_custom(b, limit)
             PROVE  /\ c \in Seq(Messages)
                    /\ \E d \in Nat : Len(b) = Len(c) + d /\ \A p \in 1 .. Len(c) : c[p] = b[p + d]
  BY Zenon
<1> DEFINE k == FirstKept(b, limit)
<1>1. Len(b) \in Nat /\ k \in 1 .. Len(b) + 1 /\ c \in Seq(Messages)
  BY GcSuffix
<1>2. c = SubSeq(b, k, Len(b))
  BY Zenon DEF chanhead_messages_gc_custom
<1> HIDE DEF k
<1>3. \A p \in k .. Len(b) : b[p] \in Messages
  BY <1>1, SeqElem
<1>4. /\ Len(c) = IF k <= Len(b) THEN Len(b) - k + 1 ELSE 0
      /\ \A p \in 1 .. Len(b) - k + 1 : c[p] = b[k + p - 1]
  BY <1>1, <1>2, <1>3, SeqCut
<1>5. PICK d \in Nat : d = k - 1
  BY <1>1
<1>6. Len(c) = Len(b) - d /\ \A p \in 1 .. Len(c) : c[p] = b[p + d]
  BY <1>1, <1>4, <1>5
<1>7. Len(b) = Len(c) + d
  BY <1>1, <1>6
<1> QED BY <1>1, <1>5, <1>6, <1>7, Zenon

(* Stored messages are in the order of their ids, none from the future. *)
InOrderOfIds(b) ==
    /\ \A p, j \in DOMAIN b : p < j => Before(b[p].id, b[j].id)
    /\ \A p \in DOMAIN b : b[p].id.time <= now

StoredInv == BufferTypeOK /\ InOrderOfIds(buf)

(* chanhead_messages_gc_custom keeps the order of what it leaves. *)
LEMMA GcInOrder ==
    ASSUME NEW b \in Seq(Messages), NEW limit \in Nat \cup {-1}, now \in Nat, InOrderOfIds(b)
    PROVE  InOrderOfIds(chanhead_messages_gc_custom(b, limit))
<1>1. PICK c : c = chanhead_messages_gc_custom(b, limit)
  BY Zenon
<1>2. c \in Seq(Messages) /\ \E d \in Nat : Len(b) = Len(c) + d /\ \A p \in 1 .. Len(c) : c[p] = b[p + d]
  BY <1>1, GcKeeps
<1>3. PICK d \in Nat : Len(b) = Len(c) + d /\ \A p \in 1 .. Len(c) : c[p] = b[p + d]
  BY <1>2, Zenon
<1>4. DOMAIN c = 1 .. Len(c) /\ DOMAIN b = 1 .. Len(b) /\ Len(c) \in Nat
  BY <1>2
<1>5. \A p \in DOMAIN c : p + d \in DOMAIN b
  BY <1>3, <1>4
<1>6. ASSUME NEW p \in DOMAIN c, NEW j \in DOMAIN c, p < j
      PROVE  Before(c[p].id, c[j].id)
  <2>1. p + d < j + d /\ c[p] = b[p + d] /\ c[j] = b[j + d]
    BY <1>3, <1>4, <1>6
  <2> QED BY <1>5, <2>1, Zenon DEF InOrderOfIds
<1>7. ASSUME NEW p \in DOMAIN c PROVE c[p].id.time <= now
  BY <1>3, <1>4, <1>5, Zenon DEF InOrderOfIds
<1> QED BY <1>1, <1>6, <1>7, Zenon DEF InOrderOfIds

(* Garbage collection adds nothing. *)
LEMMA GcMember ==
    ASSUME NEW b \in Seq(Messages), NEW limit \in Nat \cup {-1}, now \in Nat
    PROVE  \A p \in DOMAIN chanhead_messages_gc_custom(b, limit) :
              \E j \in DOMAIN b : chanhead_messages_gc_custom(b, limit)[p] = b[j]
<1>0. \A c : c = chanhead_messages_gc_custom(b, limit) =>
         /\ c \in Seq(Messages)
         /\ \E d \in Nat : Len(b) = Len(c) + d /\ \A p \in 1 .. Len(c) : c[p] = b[p + d]
  BY GcKeeps, Zenon
<1>1. PICK c : c = chanhead_messages_gc_custom(b, limit)
  BY Zenon
<1>2. c \in Seq(Messages) /\ \E d \in Nat : Len(b) = Len(c) + d /\ \A p \in 1 .. Len(c) : c[p] = b[p + d]
  BY <1>0, <1>1, Zenon
<1>3. PICK d \in Nat : Len(b) = Len(c) + d /\ \A p \in 1 .. Len(c) : c[p] = b[p + d]
  BY <1>2, Zenon
<1>4. ASSUME NEW p \in DOMAIN c PROVE \E j \in DOMAIN b : c[p] = b[j]
  <2>1. p \in 1 .. Len(c) /\ Len(c) \in Nat /\ DOMAIN b = 1 .. Len(b)
    BY <1>2
  <2>2. p + d \in DOMAIN b /\ c[p] = b[p + d]
    BY <1>3, <2>1
  <2> QED BY <2>2, Zenon
<1> QED BY <1>1, <1>4, Zenon

(* A message that is later than the last stored one goes to the end. *)
LEMMA PushInOrder ==
    ASSUME NEW b \in Seq(Messages), NEW m \in Messages, now \in Nat, InOrderOfIds(b),
           m.id.time <= now, b # <<>> => Before(LastId(b), m.id)
    PROVE  InOrderOfIds(Append(b, m))
<1>1. PICK c : c = Append(b, m)
  BY Zenon
<1>2. PICK len \in Nat : len = Len(b)
  OBVIOUS
<1>3. /\ c \in Seq(Messages) /\ DOMAIN c = 1 .. len + 1 /\ DOMAIN b = 1 .. len
      /\ c[len + 1] = m /\ \A p \in 1 .. len : c[p] = b[p]
  BY <1>1, <1>2, SeqAppend
<1>4. \A p \in 1 .. len : b[p] \in Messages
  BY <1>2, SeqElem, Zenon
<1>5. ASSUME NEW p \in 1 .. len PROVE Before(b[p].id, m.id)
  <2>1. b # <<>> /\ len > 0 /\ len \in DOMAIN b /\ LastId(b) = b[len].id
    BY <1>2, <1>3 DEF LastId
  <2>2. Before(b[len].id, m.id)
    BY <2>1, Zenon
  <2>3. b[p].id \in Ids /\ b[len].id \in Ids /\ m.id \in Ids
    BY <1>4, <2>1, IdFacts
  <2>4. p = len \/ Before(b[p].id, b[len].id)
    BY <1>3, <2>1 DEF InOrderOfIds
  <2>5. \A x, y, z \in Ids : Before(x, y) /\ Before(y, z) => Before(x, z)
    BY IdFacts DEF Before
  <2> QED BY <2>2, <2>3, <2>4, <2>5, Zenon
<1>6. ASSUME NEW p \in DOMAIN c, NEW j \in DOMAIN c, p < j
      PROVE  Before(c[p].id, c[j].id)
  <2>1. p \in 1 .. len /\ (j \in 1 .. len \/ j = len + 1)
    BY <1>3, <1>6
  <2>2. CASE j \in 1 .. len
    BY <1>3, <1>6, <2>1, <2>2, Zenon DEF InOrderOfIds
  <2>3. CASE j = len + 1
    BY <1>3, <1>5, <2>1, <2>3, Zenon
  <2> QED BY <2>1, <2>2, <2>3, Zenon
<1>7. ASSUME NEW p \in DOMAIN c PROVE c[p].id.time <= now
  <2>1. CASE p \in 1 .. len
    BY <1>3, <2>1, Zenon DEF InOrderOfIds
  <2>2. CASE p = len + 1
    BY <1>3, <2>2, Zenon
  <2> QED BY <1>3, <2>1, <2>2
<1> QED BY <1>1, <1>6, <1>7, Zenon DEF InOrderOfIds

(* What is stored stays in order unless a tag wraps around. *)
LEMMA StoredStep ==
    ASSUME StoredInv, [BufferNext]_bufferVars, latest'.tag >= 0
    PROVE  StoredInv'
<1> USE DEF StoredInv, BufferTypeOK
<1>0. now \in Nat /\ max \in Nat \cup {-1}
  BY Zenon
<1>1. ASSUME NEW limit \in Lengths, NEW timeout \in Timeouts, publish(limit, timeout)
      PROVE  StoredInv'
  <2>1. limit \in Nat /\ timeout \in Nat
    BY MsgBufferAssumption, Zenon
  <2>2. PICK kept : kept = chanhead_messages_gc_custom(buf, limit)
    BY Zenon
  <2>3. kept \in Seq(Messages) /\ InOrderOfIds(kept) /\ LastId(kept) \in Ids
    BY <1>0, <2>1, <2>2, GcLast, GcInOrder, Zenon
  <2>4. PICK id, m : /\ id = [time |-> now, tag |-> IF limit = 0 THEN UnbufferedTag ELSE PushedTag(kept)]
                     /\ m = [id |-> id, expires |-> now + timeout]
    BY Zenon
  <2>5. /\ max' = limit /\ latest' = id /\ before' = latest /\ now' = now
        /\ buf' = IF limit = 0 THEN kept ELSE chanhead_messages_gc_custom(Append(kept, m), limit)
        /\ prev' = IF limit = 0 THEN Zero ELSE PrevId(kept)
    BY <1>1, <2>2, <2>4, Zenon DEF publish
  <2>6. UnbufferedTag \in Tags /\ PushedTag(kept) \in Tags
    BY <2>3, IdFacts, Zenon DEF UnbufferedTag, PushedTag
  <2>7. id \in Ids /\ m \in Messages /\ m.id = id /\ id.time = now /\ m.expires = now + timeout
    <3>1. id \in Ids /\ id.time = now
      BY <1>0, <2>4, <2>6, IdFacts, Zenon
    <3>2. now + timeout \in Nat
      BY <1>0, <2>1
    <3> QED BY <2>4, <3>1, <3>2, Zenon DEF Messages
  <2>8. prev' \in Ids
    BY <2>3, <2>5, IdFacts, Zenon DEF PrevId
  <2>9. CASE limit = 0
    <3>1. buf' \in Seq(Messages) /\ InOrderOfIds(buf)'
      BY <2>3, <2>5, <2>9, Zenon DEF InOrderOfIds
    <3> QED BY <2>1, <2>5, <2>7, <2>8, <3>1, Zenon
  <2>10. CASE limit # 0
    <3>1. id.tag = PushedTag(kept) /\ id.tag >= 0
      BY <2>4, <2>5, <2>10, Zenon
    <3>2. kept # <<>> => Before(LastId(kept), id)
      <4>1. SUFFICES ASSUME kept # <<>> PROVE Before(LastId(kept), id)
        BY Zenon
      <4>2. kept[Len(kept)] \in Messages /\ Len(kept) \in DOMAIN kept /\ LastId(kept) = kept[Len(kept)].id
        BY <2>3, <4>1 DEF LastId
      <4>3. LastId(kept).time <= now
        BY <2>3, <4>2, Zenon DEF InOrderOfIds
      <4>4. CASE LastId(kept).time = now
        <5>1. id.tag = NextTag(LastId(kept).tag)
          BY <3>1, <4>1, <4>4, Zenon DEF PushedTag
        <5>2. LastId(kept).tag \in Int /\ TagMax \in Nat
          BY <2>3, IdFacts, Zenon
        <5>3. id.tag > LastId(kept).tag
          BY <3>1, <5>1, <5>2 DEF NextTag
        <5> QED BY <2>7, <4>4, <5>3, Zenon DEF Before
      <4>5. CASE LastId(kept).time # now
        <5>1. LastId(kept).time < now
          BY <1>0, <2>3, <4>3, <4>5, IdFacts
        <5> QED BY <2>7, <5>1, Zenon DEF Before
      <4> QED BY <4>4, <4>5, Zenon
    <3>3. PICK pushed : pushed = Append(kept, m)
      BY Zenon
    <3>4. pushed \in Seq(Messages) /\ InOrderOfIds(pushed)
      <4>1. m.id.time <= now
        BY <1>0, <2>7
      <4>2. kept # <<>> => Before(LastId(kept), m.id)
        BY <2>7, <3>2, Zenon
      <4>3. pushed \in Seq(Messages)
        BY <2>3, <2>7, <3>3, SeqAppend, Zenon
      <4> QED BY <1>0, <2>3, <2>7, <3>3, <4>1, <4>2, <4>3, PushInOrder, Zenon
    <3>5. buf' \in Seq(Messages) /\ InOrderOfIds(buf')
      BY <1>0, <2>1, <2>5, <2>10, <3>3, <3>4, GcLast, GcInOrder, Zenon
    <3>6. InOrderOfIds(buf)'
      BY <2>5, <3>5, Zenon DEF InOrderOfIds
    <3> QED BY <2>1, <2>5, <2>7, <2>8, <3>5, <3>6, Zenon
  <2> QED BY <2>9, <2>10, Zenon
<1>2. CASE memstore_chanhead_messages_gc
  <2>1. buf' = chanhead_messages_gc_custom(buf, max) /\ UNCHANGED <<now, max, latest, before, prev>>
    BY <1>2, Zenon DEF memstore_chanhead_messages_gc
  <2>2. buf' \in Seq(Messages) /\ InOrderOfIds(buf')
    BY <1>0, <2>1, GcLast, GcInOrder, Zenon
  <2>3. InOrderOfIds(buf)'
    BY <2>1, <2>2, Zenon DEF InOrderOfIds
  <2> QED BY <2>1, <2>2, <2>3, Zenon
<1>3. CASE nchan_memstore_force_delete_chanhead
  <2>1. buf' = <<>> /\ UNCHANGED <<now, max, latest, before, prev>>
    BY <1>3, Zenon DEF nchan_memstore_force_delete_chanhead
  <2>2. InOrderOfIds(buf)'
    BY <2>1 DEF InOrderOfIds
  <2> QED BY <2>1, <2>2
<1>4. CASE tick
  <2>1. now' = now + 1 /\ UNCHANGED <<max, buf, latest, before, prev>>
    BY <1>4, Zenon DEF tick
  <2>2. \A p \in DOMAIN buf : buf[p] \in Messages
    BY SeqElem, Zenon
  <2>3. \A p \in DOMAIN buf : buf[p].id.time \in Nat
    BY <2>2, IdFacts, Zenon
  <2>4. InOrderOfIds(buf)'
    BY <1>0, <2>1, <2>3 DEF InOrderOfIds
  <2>5. now' \in Nat \ {0}
    BY <2>1
  <2> QED BY <2>1, <2>4, <2>5, Zenon
<1>5. CASE UNCHANGED bufferVars
  <2>1. UNCHANGED <<now, max, buf, latest, before, prev>>
    BY <1>5, Zenon DEF bufferVars
  <2>2. InOrderOfIds(buf)'
    BY <2>1, Zenon DEF InOrderOfIds
  <2> QED BY <2>1, <2>2, Zenon
<1> QED BY <1>1, <1>2, <1>3, <1>4, <1>5, Zenon DEF BufferNext

(* The lookup in a buffer that is in order. *)
LEMMA FindNext ==
    ASSUME NEW b \in Seq(Messages), b # <<>>, InOrderOfIds(b), NEW id, id.time \in Int, id.tag \in Int,
           NEW f, f = chanhead_find_next_message(b, id)
    PROVE  \/ f = MSG_EXPECTED /\ \A k \in DOMAIN b : ~Before(id, b[k].id)
           \/ /\ f \in DOMAIN b /\ Before(id, b[f].id)
              /\ \A k \in DOMAIN b : Before(id, b[k].id) => k = f \/ Before(b[f].id, b[k].id)
<1>1. PICK len \in Nat : len = Len(b) /\ len > 0 /\ DOMAIN b = 1 .. len
  OBVIOUS
<1>2. \A k \in 1 .. len : b[k].id.time \in Int /\ b[k].id.tag \in Int
  <2>1. \A k \in 1 .. len : b[k] \in Messages
    BY <1>1, SeqElem, Zenon
  <2> QED BY <2>1, IdFacts
<1>3. \A p, j \in 1 .. len : p < j => Before(b[p].id, b[j].id)
  BY <1>1, Zenon DEF InOrderOfIds
<1>4. CASE Before(id, b[1].id)
  <2>1. f = 1
    BY <1>4, Zenon DEF chanhead_find_next_message
  <2>2. \A k \in 1 .. len : k = 1 \/ 1 < k
    BY <1>1
  <2> QED BY <1>1, <1>3, <1>4, <2>1, <2>2
<1>5. CASE ~Before(id, b[1].id)
  <2> DEFINE P(k) == ~Before(id, b[k].id) /\ \A j \in k + 1 .. len : Before(id, b[j].id)
             T == {d \in 0 .. len - 1 : ~Before(id, b[len - d].id)}
  <2>1. T \in SUBSET Nat /\ len - 1 \in T
    BY <1>1, <1>5
  <2>2. PICK d \in T : \A e \in T : d <= e
    <3> HIDE DEF T
    <3> QED BY <2>1, LeastNat, Zenon
  <2>3. len - d \in 1 .. len /\ ~Before(id, b[len - d].id) /\ d \in 0 .. len - 1
    BY <1>1
  <2>4. ASSUME NEW j \in len - d + 1 .. len PROVE Before(id, b[j].id)
    <3>1. SUFFICES ASSUME ~Before(id, b[j].id) PROVE FALSE
      BY Zenon
    <3>2. len - j \in 0 .. len - 1 /\ len - j < d /\ len - (len - j) = j
      BY <1>1, <2>3
    <3>3. len - j \in T
      BY <3>1, <3>2, Zenon
    <3> HIDE DEF T
    <3>4. d <= len - j
      BY <2>2, <3>3, Zenon
    <3> QED BY <1>1, <2>3, <3>2, <3>4
  <2>5. \E k \in 1 .. len : P(k)
    BY <2>3, <2>4, Zenon
  <2>6. PICK k : k = CHOOSE x \in 1 .. len : P(x)
    BY Zenon
  <2>7. k \in 1 .. len /\ ~Before(id, b[k].id) /\ \A j \in k + 1 .. len : Before(id, b[j].id)
    <3>1. k \in 1 .. len /\ P(k)
      <4> HIDE DEF P
      <4> QED BY <2>5, <2>6, Zenon
    <3> QED BY <3>1, Zenon
  <2>8. f = IF k < len THEN k + 1 ELSE MSG_EXPECTED
    BY <1>1, <1>5, <2>6 DEF chanhead_find_next_message
  <2>9. ASSUME NEW p \in 1 .. len, Before(id, b[p].id) PROVE p >= k + 1
    <3>1. SUFFICES ASSUME p <= k PROVE FALSE
      BY <2>7
    <3>2. p # k
      BY <2>7, <2>9, Zenon
    <3>3. Before(b[p].id, b[k].id)
      BY <1>3, <2>7, <3>1, <3>2
    <3>4. Before(id, b[k].id)
      BY <1>2, <2>7, <2>9, <3>3, SMTT(30) DEF Before
    <3> QED BY <2>7, <3>4, Zenon
  <2>10. CASE k < len
    <3>1. f = k + 1 /\ f \in 1 .. len /\ Before(id, b[f].id)
      BY <2>7, <2>8, <2>10
    <3>2. ASSUME NEW p \in 1 .. len, Before(id, b[p].id) PROVE p = f \/ Before(b[f].id, b[p].id)
      <4>1. p = f \/ f < p
        BY <2>7, <2>9, <3>1, <3>2
      <4> QED BY <1>3, <3>1, <4>1, Zenon
    <3> QED BY <1>1, <3>1, <3>2, Zenon
  <2>11. CASE ~(k < len)
    <3>1. f = MSG_EXPECTED
      BY <2>8, <2>11, Zenon
    <3>2. \A p \in 1 .. len : ~Before(id, b[p].id)
      BY <2>7, <2>9, <2>11
    <3> QED BY <1>1, <3>1, <3>2, Zenon
  <2> QED BY <2>10, <2>11, Zenon
<1> QED BY <1>4, <1>5, Zenon

(* In an ordered buffer a lookup finds the next message. *)
LEMMA StoredFindsNext == StoredInv => FindsNext
<1> SUFFICES ASSUME StoredInv, NEW id \in [time : 0 .. now, tag : 0 .. TagMax],
                    NEW b, b = chanhead_messages_gc_custom(buf, max), b # <<>>
             PROVE  LET later == {k \in DOMAIN b : Before(id, b[k].id)}
                        found == chanhead_find_next_message(b, id)
                    IN  IF later = {} THEN found = MSG_EXPECTED
                        ELSE /\ found \in later
                             /\ \A k \in later : k = found \/ Before(b[found].id, b[k].id)
  BY Zenon DEF FindsNext
<1>1. now \in Nat /\ max \in Nat \cup {-1} /\ buf \in Seq(Messages) /\ InOrderOfIds(buf)
  BY Zenon DEF StoredInv, BufferTypeOK
<1>2. b \in Seq(Messages) /\ InOrderOfIds(b)
  BY <1>1, GcLast, GcInOrder, Zenon
<1>3. id.time \in Int /\ id.tag \in Int
  BY <1>1, MsgBufferAssumption
<1>4. PICK f : f = chanhead_find_next_message(b, id)
  BY Zenon
<1>5. \/ f = MSG_EXPECTED /\ \A k \in DOMAIN b : ~Before(id, b[k].id)
      \/ /\ f \in DOMAIN b /\ Before(id, b[f].id)
         /\ \A k \in DOMAIN b : Before(id, b[k].id) => k = f \/ Before(b[f].id, b[k].id)
  BY <1>2, <1>3, <1>4, FindNext, Zenon
<1> QED BY <1>4, <1>5, Zenon

(* Unless a tag wraps around within one second, a reader is given the message
   after its own, whatever the publishers' buffers and deletions
   (chanhead_find_next_message). *)
THEOREM LookupsFindNext ==
    BufferSpec /\ [](latest.tag >= 0) => []FindsNext
<1>1. BufferInit => StoredInv
  BY IdFacts DEF BufferInit, StoredInv, BufferTypeOK, InOrderOfIds
<1>2. StoredInv /\ [BufferNext]_bufferVars /\ (latest.tag >= 0)' => StoredInv'
  BY StoredStep, Zenon
<1> QED BY <1>1, <1>2, StoredFindsNext, PTL DEF BufferSpec

(* What a push finds on a channel whose publishers all buffer. *)
PushInv == StoredInv /\ BufferInv /\ PushReachesCaughtUp /\ latest.tag >= 0

(* Each step keeps what a push finds. *)
LEMMA PushStep ==
    ASSUME Buffered, PushInv, [BufferNext]_bufferVars, latest'.tag >= 0
    PROVE  PushInv'
<1>1. StoredInv' /\ BufferInv'
  BY StoredStep, BufferStep, Zenon DEF PushInv
<1>2. now \in Nat /\ max \in Nat \cup {-1} /\ buf \in Seq(Messages) /\ InOrderOfIds(buf)
  BY Zenon DEF PushInv, StoredInv, BufferTypeOK
<1>3. Before(before, latest)' \/ latest' = Zero
  <2>1. latest' \in Ids
    BY <1>1, Zenon DEF BufferInv, BufferTypeOK
  <2>2. latest'.tag \in Int
    BY <2>1, IdFacts, Zenon
  <2>3. IncreasingIds'
    BY <1>1, <2>2 DEF BufferInv
  <2> QED BY <2>3, Zenon DEF IncreasingIds
<1>4. ASSUME NEW limit \in Lengths, NEW timeout \in Timeouts, publish(limit, timeout)
      PROVE  PushReachesCaughtUp'
  <2>1. limit \in Nat /\ limit # 0 /\ timeout \in Nat
    BY MsgBufferAssumption, Zenon DEF Buffered
  <2>2. PICK kept : kept = chanhead_messages_gc_custom(buf, limit)
    BY Zenon
  <2>3. PICK id, m : /\ id = [time |-> now, tag |-> PushedTag(kept)]
                     /\ m = [id |-> id, expires |-> now + timeout]
    BY Zenon
  <2>4. PICK pushed : pushed = Append(kept, m)
    BY Zenon
  <2>5. /\ prev' = LastId(kept) /\ latest' = id /\ before' = latest /\ m.id = id
        /\ buf' = chanhead_messages_gc_custom(pushed, limit)
    BY <1>4, <2>1, <2>2, <2>3, <2>4, Zenon DEF publish, PrevId
  <2>6. /\ kept \in Seq(Messages) /\ InOrderOfIds(kept) /\ LastId(kept) \in Ids
        /\ kept # <<>> => buf # <<>> /\ LastId(kept) = LastId(buf)
    BY <1>2, <2>1, <2>2, GcLast, GcInOrder, Zenon
  <2>7. latest \in Ids /\ latest.tag >= 0 /\ (kept # <<>> => LastId(kept) = latest)
    BY <2>6, Zenon DEF PushInv, BufferInv, BufferTypeOK
  <2>8. ~Before(before, prev)'
    <3>1. CASE kept = <<>>
      <4>1. prev' = Zero
        BY <2>5, <3>1, Zenon DEF LastId
      <4>2. latest.time \in Nat /\ latest.tag \in Int
        BY <2>7, IdFacts, Zenon
      <4> QED BY <2>5, <2>7, <4>1, <4>2 DEF Before, Zero
    <3>2. CASE kept # <<>>
      <4>1. prev' = latest /\ latest.time \in Nat /\ latest.tag \in Int
        BY <2>5, <2>7, <3>2, IdFacts, Zenon
      <4> QED BY <2>5, <4>1 DEF Before
    <3> QED BY <3>1, <3>2, Zenon
  <2>9. m \in Messages /\ id \in Ids
    <3>1. PushedTag(kept) \in Tags
      BY <2>6, IdFacts, Zenon DEF PushedTag
    <3>2. id \in Ids /\ now + timeout \in Nat
      BY <1>2, <2>1, <2>3, <3>1, IdFacts
    <3> QED BY <2>3, <3>2, Zenon DEF Messages
  <2>10. PICK len \in Nat : len = Len(kept)
    BY <2>6
  <2>11. /\ pushed \in Seq(Messages) /\ DOMAIN pushed = 1 .. len + 1 /\ DOMAIN kept = 1 .. len
         /\ pushed[len + 1] = m /\ \A p \in 1 .. len : pushed[p] = kept[p]
    BY <2>4, <2>6, <2>9, <2>10, SeqAppend
  <2>12. ASSUME NEW p \in 1 .. len + 1 PROVE pushed[p].id = latest' \/ ~Before(prev', pushed[p].id)
    <3>1. CASE p = len + 1
      BY <2>5, <2>11, <3>1, Zenon
    <3>2. CASE p # len + 1
      <4>1. p \in 1 .. len /\ len \in 1 .. len /\ kept # <<>> /\ LastId(kept) = kept[len].id
        BY <2>6, <2>10, <3>2 DEF LastId
      <4>2. p = len \/ Before(kept[p].id, kept[len].id)
        BY <2>6, <2>11, <4>1 DEF InOrderOfIds
      <4>3. kept[p] \in Messages /\ kept[len] \in Messages
        BY <2>6, <2>10, <4>1, SeqElem, Zenon
      <4>4. kept[p].id \in Ids /\ kept[len].id \in Ids
        BY <4>3, IdFacts, Zenon
      <4>5. \A x, y \in Ids : (x = y \/ Before(x, y)) => ~Before(y, x)
        BY IdFacts DEF Before
      <4> QED BY <2>5, <2>11, <4>1, <4>2, <4>4, <4>5, Zenon
    <3> QED BY <3>1, <3>2, Zenon
  <2>13. ASSUME NEW k \in DOMAIN buf' PROVE buf'[k].id = latest' \/ ~Before(prev', buf'[k].id)
    <3>1. \E j \in DOMAIN pushed : buf'[k] = pushed[j]
      BY <1>2, <2>1, <2>5, <2>11, GcMember
    <3> QED BY <2>11, <2>12, <3>1, Zenon
  <2> QED BY <1>3, <2>8, <2>13, Zenon DEF PushReachesCaughtUp
<1>5. ASSUME memstore_chanhead_messages_gc PROVE PushReachesCaughtUp'
  <2>1. buf' = chanhead_messages_gc_custom(buf, max) /\ UNCHANGED <<now, max, latest, before, prev>>
    BY <1>5, Zenon DEF memstore_chanhead_messages_gc
  <2>2. \A k \in DOMAIN buf' : \E j \in DOMAIN buf : buf'[k] = buf[j]
    BY <1>2, <2>1, GcMember, Zenon
  <2> QED BY <2>1, <2>2, Zenon DEF PushInv, PushReachesCaughtUp
<1>6. ASSUME tick PROVE PushReachesCaughtUp'
  BY <1>6, Zenon DEF tick, PushInv, PushReachesCaughtUp
<1>7. ASSUME UNCHANGED bufferVars PROVE PushReachesCaughtUp'
  BY <1>7, Zenon DEF bufferVars, PushInv, PushReachesCaughtUp
<1>8. ~nchan_memstore_force_delete_chanhead
  BY Zenon DEF nchan_memstore_force_delete_chanhead, Buffered
<1>9. PushReachesCaughtUp'
  BY <1>4, <1>5, <1>6, <1>7, <1>8, Zenon DEF BufferNext
<1> QED BY <1>1, <1>9, Zenon DEF PushInv

(* On a channel that every publisher buffers and that is not deleted, and
   unless a tag wraps around within one second, a pushed message is sent to
   exactly those that have seen what was stored before it (the range from
   prev_id of spooler_respond_message). *)
THEOREM PushesReach ==
    BufferSpec /\ [](latest.tag >= 0) => [](Buffered => PushReachesCaughtUp)
<1>1. BufferInit => PushInv
  <2>1. BufferInit => StoredInv
    BY IdFacts DEF BufferInit, StoredInv, BufferTypeOK, InOrderOfIds
  <2>2. BufferInit => BufferInv
    BY IdFacts DEF BufferInit, BufferInv, BufferTypeOK, IncreasingIds, Zero
  <2> QED BY <2>1, <2>2 DEF PushInv, PushReachesCaughtUp, BufferInit, Zero
<1>2. (Buffered => PushInv) /\ [BufferNext]_bufferVars /\ (latest.tag >= 0)' => (Buffered => PushInv)'
  BY PushStep, Zenon DEF Buffered
<1>3. (Buffered => PushInv) => (Buffered => PushReachesCaughtUp)
  BY Zenon DEF PushInv
<1> QED BY <1>1, <1>2, <1>3, PTL DEF BufferSpec

-----------------------------------------------------------------------------
(* IpcQueue, for any ring, pipe and index width. *)

(* The write loop stays within the ring's contents, and only starts once the
   memory store is ready. *)
LoopInBounds ==
    /\ Running => store = "ready" /\ first <= i /\ i <= first + n
    /\ "writable" \in wake => store = "ready"

IpcInv == IpcTypeOK /\ OverflowBehindFullRing /\ NotStranded /\ LoopInBounds

(* Moving m alerts from the overflow list into the ring. *)
LEMMA SqueezeType ==
    ASSUME overflow \in Seq(Nat), alerts \in [0 .. SIZE - 1 -> Nat],
           NEW m \in 0 .. Len(overflow), NEW from \in Int
    PROVE  /\ [k \in 0 .. SIZE - 1 |->
                 LET j == (k - from) % SIZE
                 IN  IF j < m THEN overflow[j + 1] ELSE alerts[k]] \in [0 .. SIZE - 1 -> Nat]
           /\ SubSeq(overflow, m + 1, Len(overflow)) \in Seq(Nat)
           /\ SubSeq(overflow, m + 1, Len(overflow)) # <<>> => m < Len(overflow)
<1>1. \A k \in 0 .. SIZE - 1 : (k - from) % SIZE \in Nat
  BY IpcAssumption
<1>2. \A j \in Nat : j < m => overflow[j + 1] \in Nat
  OBVIOUS
<1>3. [k \in 0 .. SIZE - 1 |->
         LET j == (k - from) % SIZE
         IN  IF j < m THEN overflow[j + 1] ELSE alerts[k]] \in [0 .. SIZE - 1 -> Nat]
  BY <1>1, <1>2, Zenon
<1>4. SubSeq(overflow, m + 1, Len(overflow)) \in Seq(Nat)
  <2>1. \A k \in m + 1 .. Len(overflow) : overflow[k] \in Nat
    OBVIOUS
  <2> QED BY <2>1, SeqCut
<1>5. m = Len(overflow) => SubSeq(overflow, m + 1, Len(overflow)) = <<>>
  BY SeqCut
<1> QED BY <1>3, <1>4, <1>5

(* What the head of ipc_write_handler does with the loop and the event. *)
LEMMA HandlerHead ==
    ASSUME NEW w \in SUBSET {"writable", "timer"}, ipc_write_handler(w)
    PROVE  /\ wake' \subseteq {"writable", "timer"}
           /\ "writable" \in wake' => "writable" \in w
           /\ \/ i' = first /\ store = "ready"
              \/ i' = i /\ wake' # {}
<1>1. CASE store = "ready"
  <2>1. i' = first /\ wake' = w
    BY <1>1, Zenon DEF ipc_write_handler
  <2> QED BY <1>1, <2>1, Zenon
<1>2. CASE store # "ready"
  <2>1. i' = i /\ wake' = w \cup {"timer"}
    BY <1>2, Zenon DEF ipc_write_handler
  <2>2. "timer" \in wake' /\ ("writable" \in wake' => "writable" \in w)
    BY <2>1, Zenon
  <2> QED BY <2>1, <2>2, Zenon
<1> QED BY <1>1, <1>2, Zenon

(* Every step keeps the invariant. *)
LEMMA IpcStep == IpcInv /\ [IpcNext]_ipcVars => IpcInv'
<1> SUFFICES ASSUME IpcInv, [IpcNext]_ipcVars PROVE IpcInv'
  BY Zenon
<1> USE DEF Running
<1>1. IpcTypeOK /\ OverflowBehindFullRing /\ NotStranded /\ LoopInBounds
  BY Zenon DEF IpcInv
<1>2. ASSUME NEW w \in SUBSET wake, ipc_write_handler(w), ~Running,
             UNCHANGED <<first, store, pipe, received>>, sent' \in Nat,
             n' \in 0 .. SIZE, alerts' \in [0 .. SIZE - 1 -> Nat],
             overflow' \in Seq(Nat), overflow' # <<>> => n' = SIZE
      PROVE  IpcInv'
  <2>1. w \in SUBSET {"writable", "timer"}
    BY <1>1, Zenon DEF IpcTypeOK
  <2>2. /\ wake' \subseteq {"writable", "timer"}
        /\ "writable" \in wake' => "writable" \in wake
        /\ \/ i' = first /\ store = "ready"
           \/ i' = i /\ wake' # {}
    BY <1>2, <2>1, HandlerHead, Zenon
  <2>3. first \in Nat /\ i = -1
    BY <1>1, <1>2 DEF IpcTypeOK
  <2>4. IpcTypeOK'
    BY <1>1, <1>2, <2>2, <2>3, Zenon DEF IpcTypeOK
  <2>5. NotStranded'
    BY <2>2, <2>3 DEF NotStranded
  <2>6. LoopInBounds'
    BY <1>1, <1>2, <2>2, <2>3 DEF LoopInBounds
  <2> QED BY <1>2, <2>4, <2>5, <2>6, Zenon DEF IpcInv, OverflowBehindFullRing
<1>3. CASE ipc_alert
  <2>1. /\ ~Running /\ ipc_write_handler(wake) /\ sent' = sent + 1
        /\ UNCHANGED <<first, store, pipe, received>>
    BY <1>3, Zenon DEF ipc_alert
  <2>2. /\ n' \in 0 .. SIZE /\ alerts' \in [0 .. SIZE - 1 -> Nat]
        /\ overflow' \in Seq(Nat) /\ (overflow' # <<>> => n' = SIZE)
    <3>1. Slot(first + n) \in 0 .. SIZE - 1
      BY <1>1, IpcAssumption DEF IpcTypeOK, Slot
    <3>2. CASE n < SIZE
      <4>1. /\ alerts' = [alerts EXCEPT ![Slot(first + n)] = sent + 1]
            /\ n' = n + 1 /\ overflow' = overflow
        BY <1>3, <3>2, Zenon DEF ipc_alert
      <4>2. overflow = <<>>
        BY <1>1, <3>2, IpcAssumption DEF IpcTypeOK, OverflowBehindFullRing
      <4>3. n' \in 0 .. SIZE
        BY <1>1, <3>2, <4>1, IpcAssumption DEF IpcTypeOK
      <4>4. alerts' \in [0 .. SIZE - 1 -> Nat]
        BY <1>1, <3>1, <4>1 DEF IpcTypeOK
      <4>5. overflow' \in Seq(Nat)
        BY <1>1, <4>1, Zenon DEF IpcTypeOK
      <4> QED BY <4>1, <4>2, <4>3, <4>4, <4>5, Zenon
    <3>3. CASE ~(n < SIZE)
      <4>1. overflow' = Append(overflow, sent + 1) /\ alerts' = alerts /\ n' = n
        BY <1>3, <3>3, Zenon DEF ipc_alert
      <4>2. n = SIZE
        BY <1>1, <3>3, IpcAssumption DEF IpcTypeOK
      <4>3. overflow' \in Seq(Nat)
        BY <1>1, <4>1 DEF IpcTypeOK
      <4> QED BY <1>1, <4>1, <4>2, <4>3, Zenon DEF IpcTypeOK
    <3> QED BY <3>2, <3>3, Zenon
  <2>3. sent' \in Nat /\ wake \in SUBSET wake
    BY <1>1, <2>1 DEF IpcTypeOK
  <2> QED BY <1>2, <2>1, <2>2, <2>3, Zenon
<1>4. CASE write_event
  <2>1. PICK w \in SUBSET wake : ipc_write_handler(w)
    BY <1>4, Zenon DEF write_event
  <2>2. ~Running /\ UNCHANGED <<first, n, alerts, overflow, store, pipe, sent, received>>
    BY <1>4, Zenon DEF write_event
  <2>3. /\ sent' \in Nat /\ n' \in 0 .. SIZE /\ alerts' \in [0 .. SIZE - 1 -> Nat]
        /\ overflow' \in Seq(Nat) /\ (overflow' # <<>> => n' = SIZE)
    BY <1>1, <2>2, Zenon DEF IpcTypeOK, OverflowBehindFullRing
  <2> QED BY <1>2, <2>1, <2>2, <2>3, Zenon
<1>5. CASE ipc_write_alert_fd
  <2>1. alerts[Slot(i)] \in Nat
    BY <1>1, <1>5, IpcAssumption DEF ipc_write_alert_fd, IpcTypeOK, Slot
  <2> QED BY <1>1, <1>5, <2>1 DEF ipc_write_alert_fd, IpcInv, IpcTypeOK,
             OverflowBehindFullRing, NotStranded, LoopInBounds
<1>6. CASE write_loop_ends
  <2> DEFINE aborted == i < first + n
             first1 == IF aborted THEN i % FirstMod ELSE 0
             n1 == IF aborted THEN n - (i - first) ELSE 0
             squeeze == overflow # <<>> /\ i > first
             m == IF squeeze THEN Squeezed(SIZE - n1) ELSE 0
             from == Slot(first1 + n1)
             alerts1 == [k \in 0 .. SIZE - 1 |->
                           LET j == (k - from) % SIZE
                           IN  IF j < m THEN overflow[j + 1] ELSE alerts[k]]
             overflow1 == SubSeq(overflow, m + 1, Len(overflow))
  <2>1. /\ Running /\ first' = first1 /\ n' = n1 + m
        /\ alerts' = alerts1 /\ overflow' = overflow1
        /\ i' = IF squeeze /\ ~aborted THEN first1 ELSE -1
        /\ wake' = IF aborted THEN wake \cup {"writable"} ELSE wake
        /\ UNCHANGED <<store, pipe, sent, received>>
    BY <1>6, Zenon DEF write_loop_ends
  <2>2. /\ SIZE \in Nat /\ FirstMod \in Nat /\ FirstMod > 0
        /\ first \in Nat /\ first < FirstMod /\ n \in 0 .. SIZE /\ overflow \in Seq(Nat)
        /\ alerts \in [0 .. SIZE - 1 -> Nat] /\ Len(overflow) \in Nat
        /\ i \in Nat /\ first <= i /\ i <= first + n /\ store = "ready"
    BY <1>1, <2>1, IpcAssumption DEF IpcTypeOK, LoopInBounds
  <2>3. first1 \in 0 .. FirstMod - 1 /\ n1 \in 0 .. SIZE
    BY <2>2
  <2>4. from \in Int
    BY <2>2, <2>3, IpcAssumption DEF Slot
  <2>5. (squeeze => m = Squeezed(SIZE - n1)) /\ (~squeeze => m = 0)
    BY Zenon
  <2>6. ~aborted => n1 = 0
    BY Zenon
  <2>7. overflow # <<>> /\ ~squeeze => n1 = n
    BY <2>2
  <2> HIDE DEF first1, n1, m, from
  <2>8. m \in 0 .. Len(overflow) /\ m <= SIZE - n1
    BY <2>2, <2>3, <2>5 DEF Squeezed
  <2>9. overflow # <<>> /\ n1 + m # SIZE => m = Len(overflow)
    <3>1. CASE squeeze
      BY <3>1, <2>2, <2>3, <2>5 DEF Squeezed
    <3>2. CASE ~squeeze
      BY <3>2, <1>1, <2>2, <2>5, <2>7 DEF OverflowBehindFullRing
    <3> QED BY <3>1, <3>2, Zenon
  <2>10. /\ alerts1 \in [0 .. SIZE - 1 -> Nat] /\ overflow1 \in Seq(Nat)
         /\ overflow1 # <<>> => m < Len(overflow)
    BY <2>2, <2>4, <2>8, SqueezeType, Zenon
  <2>11. overflow1 # <<>> => overflow # <<>>
    BY <2>8, <2>10
  <2> HIDE DEF alerts1, overflow1
  <2>12. IpcTypeOK'
    <3>1. first' \in 0 .. FirstMod - 1 /\ n' \in 0 .. SIZE /\ i' \in Nat \cup {-1}
      BY <2>1, <2>2, <2>3, <2>8
    <3>2. wake' \subseteq {"writable", "timer"}
      BY <1>1, <2>1, Zenon DEF IpcTypeOK
    <3> QED BY <1>1, <2>1, <2>10, <3>1, <3>2, Zenon DEF IpcTypeOK
  <2>13. OverflowBehindFullRing'
    BY <2>1, <2>2, <2>3, <2>8, <2>9, <2>10, <2>11 DEF OverflowBehindFullRing
  <2>14. NotStranded'
    <3>1. CASE aborted
      <4>1. "writable" \in wake'
        BY <2>1, <3>1, Zenon
      <4> QED BY <4>1, Zenon DEF NotStranded
    <3>2. CASE ~aborted /\ squeeze
      BY <2>1, <2>3, <3>2 DEF NotStranded
    <3>3. CASE ~aborted /\ ~squeeze
      BY <2>1, <2>5, <2>6, <3>3 DEF NotStranded
    <3> QED BY <3>1, <3>2, <3>3, Zenon
  <2>15. LoopInBounds'
    BY <2>1, <2>2, <2>3, <2>8 DEF LoopInBounds
  <2> QED BY <2>12, <2>13, <2>14, <2>15, Zenon DEF IpcInv
<1>7. CASE memstore_ready
  BY <1>1, <1>7, Zenon DEF memstore_ready, IpcInv, IpcTypeOK, OverflowBehindFullRing, NotStranded,
     LoopInBounds
<1>8. CASE ipc_read_handler
  <2>1. pipe' \in Seq(Nat) /\ received' \in Nat
    BY <1>1, <1>8 DEF ipc_read_handler, IpcTypeOK
  <2> QED BY <1>1, <1>8, <2>1, Zenon DEF ipc_read_handler, IpcInv, IpcTypeOK,
             OverflowBehindFullRing, NotStranded, LoopInBounds
<1>9. CASE UNCHANGED ipcVars
  BY <1>1, <1>9, Zenon DEF ipcVars, IpcInv, IpcTypeOK, OverflowBehindFullRing, NotStranded,
     LoopInBounds
<1> QED BY <1>3, <1>4, <1>5, <1>6, <1>7, <1>8, <1>9, Zenon DEF IpcNext

(* In every reachable state an alert is in the overflow list only if the ring
   is full, and alerts left in the ring have an event or a timer pending. *)
THEOREM IpcSafe == IpcSpec => [](IpcTypeOK /\ OverflowBehindFullRing /\ NotStranded)
<1>1. IpcInit => IpcInv
  BY IpcAssumption DEF IpcInit, IpcInv, IpcTypeOK, OverflowBehindFullRing, NotStranded,
     LoopInBounds, Running
<1>2. IpcInv => IpcTypeOK /\ OverflowBehindFullRing /\ NotStranded
  BY Zenon DEF IpcInv
<1> QED BY <1>1, <1>2, IpcStep, PTL DEF IpcSpec

-----------------------------------------------------------------------------
(* The order of the alerts. *)

From == IF Running THEN i ELSE first

(* Fifo, slot by slot: the number of every alert in the pipe, in the ring and
   in the overflow list. *)
Numbered ==
    /\ \A k \in 1 .. Len(pipe) : pipe[k] = received + k
    /\ \A k \in 0 .. first + n - From - 1 : alerts[Slot(From + k)] = received + Len(pipe) + k + 1
    /\ \A k \in 1 .. Len(overflow) : overflow[k] = received + Len(pipe) + (first + n - From) + k
    /\ sent = received + Len(pipe) + (first + n - From) + Len(overflow)

(* Slots are numbers modulo SIZE.  First, multiples of s are at least s apart. *)
LEMMA MulMono ==
    ASSUME NEW s \in Nat \ {0}, NEW d \in Int, d >= 1
    PROVE  s * d >= s
OBVIOUS

(* The remainder is the only one. *)
LEMMA ModUnique ==
    ASSUME NEW s \in Nat \ {0}, NEW q \in Int, NEW r \in 0 .. s - 1
    PROVE  (s * q + r) % s = r
<1> DEFINE a == s * q + r
           p == a \div s
           t == a % s
<1>1. a \in Int
  OBVIOUS
<1> HIDE DEF a
<1>2. p \in Int /\ t \in 0 .. s - 1 /\ a = s * p + t
  BY <1>1
<1> HIDE DEF p, t
<1>3. s * q + r = s * p + t
  BY <1>2, Zenon DEF a
<1>4. s * (q - p) = t - r
  BY <1>3, <1>2
<1>5. CASE q - p >= 1
  BY <1>5, <1>2, <1>4, MulMono
<1>6. CASE p - q >= 1
  <2>1. s * (p - q) = r - t
    BY <1>2, <1>3
  <2> QED BY <1>6, <1>2, <2>1, MulMono
<1>7. CASE p = q
  <2>1. t = r
    BY <1>7, <1>2, <1>3
  <2> QED BY <2>1, Zenon DEF t, a
<1> QED BY <1>2, <1>5, <1>6, <1>7

(* The quotient that goes with a remainder. *)
LEMMA ModFacts ==
    ASSUME NEW s \in Nat \ {0}, NEW a \in Int
    PROVE  \E q \in Int : a = s * q + (a % s) /\ a % s \in 0 .. s - 1
<1>1. a \div s \in Int /\ a % s \in 0 .. s - 1 /\ a = s * (a \div s) + (a % s)
  OBVIOUS
<1> QED BY <1>1, Zenon

(* The distance of two numbers less than s apart, from their remainders: how
   write_loop_ends finds the slots that it fills. *)
LEMMA ModDiff ==
    ASSUME NEW s \in Nat \ {0}, NEW a \in Int, NEW d \in 1 - s .. s - 1
    PROVE  (((a + d) % s) - (a % s)) % s = IF d < 0 THEN d + s ELSE d
<1> DEFINE x == a % s
           y == (a + d) % s
           e == IF d < 0 THEN d + s ELSE d
           z == IF d < 0 THEN 1 ELSE 0
<1>1. x \in Int /\ y \in Int
  OBVIOUS
<1>2. PICK q \in Int : a = s * q + x
  BY ModFacts, Zenon
<1>3. PICK p \in Int : a + d = s * p + y
  <2>1. a + d \in Int
    OBVIOUS
  <2> QED BY <2>1, ModFacts, Zenon
<1>4. e \in 0 .. s - 1 /\ z \in Int /\ d = e - s * z
  OBVIOUS
<1> HIDE DEF x, y, e, z
<1>5. y - x = s * q - s * p - s * z + e
  BY <1>1, <1>2, <1>3, <1>4
<1>6. s * q - s * p - s * z = s * (q - p - z)
  BY <1>4
<1>7. y - x = s * (q - p - z) + e /\ q - p - z \in Int
  BY <1>4, <1>5, <1>6
<1>8. (y - x) % s = e
  BY <1>4, <1>7, ModUnique, Zenon
<1> QED BY <1>8, Zenon DEF x, y, e

(* wbuf.first may wrap around without changing slots, since its range is a
   multiple of the ring's size. *)
LEMMA ModMod ==
    ASSUME NEW s \in Nat \ {0}, NEW f \in Nat \ {0}, f % s = 0, NEW a \in Int, NEW d \in Int
    PROVE  ((a % f) + d) % s = (a + d) % s
<1> DEFINE x == a % f
           y == (a + d) % s
<1>1. x \in Int /\ y \in 0 .. s - 1
  OBVIOUS
<1>2. PICK q \in Int : a = f * q + x
  BY ModFacts, Zenon
<1>3. PICK k \in Int : f = s * k
  <2>1. f \in Int
    OBVIOUS
  <2>2. PICK k \in Int : f = s * k + (f % s)
    BY <2>1, ModFacts, Zenon
  <2> QED BY <2>2
<1>4. PICK p \in Int : a + d = s * p + y
  <2>1. a + d \in Int
    OBVIOUS
  <2> QED BY <2>1, ModFacts, Zenon
<1> HIDE DEF x, y
<1>5. f * q = s * (k * q)
  BY <1>3
<1>6. x + d = s * p - s * (k * q) + y
  BY <1>1, <1>2, <1>4, <1>5
<1>7. s * p - s * (k * q) = s * (p - k * q)
  OBVIOUS
<1>8. p - k * q \in Int /\ x + d = s * (p - k * q) + y
  BY <1>1, <1>6, <1>7
<1>9. (x + d) % s = y
  BY <1>1, <1>8, ModUnique, Zenon
<1> QED BY <1>9, Zenon DEF x, y

(* An alert that is put behind the ring's last one hits none of the others. *)
LEMMA SlotsApart ==
    ASSUME NEW a \in Int, NEW d \in 1 .. SIZE - 1
    PROVE  Slot(a + d) # Slot(a)
<1>1. (((a + d) % SIZE) - (a % SIZE)) % SIZE = d
  <2>1. SIZE \in Nat \ {0} /\ d \in 1 - SIZE .. SIZE - 1 /\ ~(d < 0)
    BY IpcAssumption
  <2> QED BY <2>1, ModDiff, Zenon
<1>2. 0 % SIZE = 0
  BY IpcAssumption
<1>3. a % SIZE \in Int
  BY IpcAssumption
<1> QED BY <1>1, <1>2, <1>3, IpcAssumption DEF Slot

(* Every step keeps the alerts numbered. *)
LEMMA NumberedStep == IpcInv /\ Numbered /\ [IpcNext]_ipcVars => Numbered'
<1> SUFFICES ASSUME IpcInv, Numbered, [IpcNext]_ipcVars PROVE Numbered'
  BY Zenon
<1>1. /\ SIZE \in Nat /\ SIZE > 0 /\ first \in Nat /\ n \in 0 .. SIZE /\ sent \in Nat /\ received \in Nat
      /\ pipe \in Seq(Nat) /\ overflow \in Seq(Nat) /\ alerts \in [0 .. SIZE - 1 -> Nat]
      /\ Len(pipe) \in Nat /\ Len(overflow) \in Nat /\ i \in Nat \cup {-1}
  BY IpcAssumption DEF IpcInv, IpcTypeOK
<1>2. ASSUME ~Running, i' \in {first, i}, UNCHANGED first
      PROVE  From = first /\ From' = first
  BY <1>2, Zenon DEF From, Running
<1>3. CASE ipc_alert
  <2>1. /\ ~Running /\ UNCHANGED <<first, pipe, received>> /\ sent' = sent + 1 /\ i' \in {first, i}
    BY <1>3, Zenon DEF ipc_alert, ipc_write_handler
  <2>2. From = first /\ From' = first
    BY <1>2, <2>1, Zenon
  <2>3. CASE n < SIZE
    <3>1. /\ alerts' = [alerts EXCEPT ![Slot(first + n)] = sent + 1]
          /\ n' = n + 1 /\ overflow' = overflow
      BY <1>3, <2>3, Zenon DEF ipc_alert
    <3>2. overflow = <<>>
      BY <1>1, <2>3 DEF IpcInv, OverflowBehindFullRing
    <3>3. sent = received + Len(pipe) + n
      BY <1>1, <2>2, <3>2 DEF Numbered
    <3>4. Slot(first + n) \in 0 .. SIZE - 1
      BY <1>1 DEF Slot
    <3>5. ASSUME NEW k \in 0 .. n
          PROVE  alerts'[Slot(first + k)] = received + Len(pipe) + k + 1
      <4>1. CASE k = n
        BY <1>1, <3>1, <3>3, <3>4, <4>1, Zenon
      <4>2. CASE k < n
        <5>1. first + k \in Int /\ n - k \in 1 .. SIZE - 1 /\ (first + k) + (n - k) = first + n
          BY <1>1, <2>3, <4>2
        <5>2. Slot(first + n) # Slot(first + k)
          BY <5>1, SlotsApart, Zenon
        <5>3. Slot(first + k) \in 0 .. SIZE - 1
          BY <1>1 DEF Slot
        <5>4. alerts[Slot(first + k)] = received + Len(pipe) + k + 1
          <6>1. k \in 0 .. first + n - From - 1
            BY <1>1, <2>2, <4>2
          <6> QED BY <2>2, <6>1, Zenon DEF Numbered
        <5> QED BY <1>1, <3>1, <5>2, <5>3, <5>4, Zenon
      <4> QED BY <1>1, <4>1, <4>2
    <3>6. first + n' - From' - 1 = n /\ first + n' - From' = n + 1
      BY <1>1, <2>2, <3>1
    <3>7. Len(overflow) = 0
      BY <3>2, Zenon
    <3> QED BY <1>1, <2>1, <2>2, <3>1, <3>3, <3>5, <3>6, <3>7 DEF Numbered
  <2>4. CASE ~(n < SIZE)
    <3>1. overflow' = Append(overflow, sent + 1) /\ alerts' = alerts /\ n' = n
      BY <1>3, <2>4, Zenon DEF ipc_alert
    <3>2. /\ Len(overflow') = Len(overflow) + 1
          /\ \A k \in 1 .. Len(overflow) : overflow'[k] = overflow[k]
          /\ overflow'[Len(overflow) + 1] = sent + 1
      BY <1>1, <3>1
    <3>3. sent + 1 = received + Len(pipe) + (first + n - From) + (Len(overflow) + 1)
      BY <1>1, <2>2 DEF Numbered
    <3>4. ASSUME NEW k \in 1 .. Len(overflow) + 1
          PROVE  overflow'[k] = received + Len(pipe) + (first + n - From) + k
      <4>1. CASE k = Len(overflow) + 1
        BY <3>2, <3>3, <4>1, Zenon
      <4>2. CASE k \in 1 .. Len(overflow)
        BY <3>2, <4>2, Zenon DEF Numbered
      <4>3. k = Len(overflow) + 1 \/ k \in 1 .. Len(overflow)
        <5>1. Len(overflow) \in Nat
          BY <1>1, Zenon
        <5> QED BY <5>1
      <4> QED BY <4>1, <4>2, <4>3, Zenon
    <3> QED BY <1>1, <2>1, <2>2, <3>1, <3>2, <3>3, <3>4, Zenon DEF Numbered
  <2> QED BY <2>3, <2>4, Zenon
<1>4. CASE write_event
  <2>1. /\ ~Running /\ UNCHANGED <<first, n, alerts, overflow, pipe, sent, received>>
        /\ i' \in {first, i}
    BY <1>4, Zenon DEF write_event, ipc_write_handler
  <2>2. From' = From
    BY <1>2, <2>1, Zenon
  <2> QED BY <2>1, <2>2, Zenon DEF Numbered, Slot
<1>5. CASE ipc_write_alert_fd
  <2>1. /\ i # -1 /\ i < first + n /\ pipe' = Append(pipe, alerts[Slot(i)]) /\ i' = i + 1
        /\ UNCHANGED <<first, n, alerts, overflow, sent, received>>
    BY <1>5, Zenon DEF ipc_write_alert_fd, Running
  <2>2. i \in Nat /\ From = i /\ From' = i + 1
    BY <1>1, <2>1 DEF From, Running
  <2>3. alerts[Slot(i)] = received + Len(pipe) + 1
    <3>1. 0 \in 0 .. first + n - From - 1 /\ From + 0 = i
      BY <1>1, <2>1, <2>2
    <3>2. alerts[Slot(From + 0)] = received + Len(pipe) + 0 + 1
      BY <3>1, Zenon DEF Numbered
    <3> QED BY <1>1, <3>1, <3>2
  <2>4. /\ Len(pipe') = Len(pipe) + 1
        /\ \A k \in 1 .. Len(pipe) : pipe'[k] = pipe[k]
        /\ pipe'[Len(pipe) + 1] = alerts[Slot(i)]
    BY <1>1, <2>1
  <2>5. ASSUME NEW k \in 1 .. Len(pipe) + 1
        PROVE  pipe'[k] = received + k
    <3>1. CASE k = Len(pipe) + 1
      BY <1>1, <2>3, <2>4, <3>1
    <3>2. CASE k \in 1 .. Len(pipe)
      BY <2>4, <3>2, Zenon DEF Numbered
    <3> QED BY <1>1, <3>1, <3>2
  <2>6. ASSUME NEW k \in 0 .. first + n - (i + 1) - 1
        PROVE  alerts[Slot(i + 1 + k)] = received + (Len(pipe) + 1) + k + 1
    <3>1. k + 1 \in 0 .. first + n - From - 1 /\ From + (k + 1) = i + 1 + k
      BY <1>1, <2>2
    <3>2. alerts[Slot(From + (k + 1))] = received + Len(pipe) + (k + 1) + 1
      BY <3>1, Zenon DEF Numbered
    <3> QED BY <1>1, <3>1, <3>2
  <2>7. ASSUME NEW k \in 1 .. Len(overflow)
        PROVE  overflow[k] = received + (Len(pipe) + 1) + (first + n - (i + 1)) + k
    <3>1. overflow[k] = received + Len(pipe) + (first + n - i) + k
      BY <2>2, Zenon DEF Numbered
    <3> QED BY <1>1, <2>2, <3>1
  <2>8. sent = received + (Len(pipe) + 1) + (first + n - (i + 1)) + Len(overflow)
    <3>1. sent = received + Len(pipe) + (first + n - i) + Len(overflow)
      BY <2>2, Zenon DEF Numbered
    <3> QED BY <1>1, <2>2, <3>1
  <2> QED BY <2>1, <2>2, <2>4, <2>5, <2>6, <2>7, <2>8, Zenon DEF Numbered, Slot
<1>6. CASE write_loop_ends
  <2> DEFINE aborted == i < first + n
             first1 == IF aborted THEN i % FirstMod ELSE 0
             n1 == IF aborted THEN n - (i - first) ELSE 0
             squeeze == overflow # <<>> /\ i > first
             m == IF squeeze THEN Squeezed(SIZE - n1) ELSE 0
             j(k) == (k - Slot(first1 + n1)) % SIZE
  <2>1. /\ Running /\ first' = first1 /\ n' = n1 + m
        /\ alerts' = [k \in 0 .. SIZE - 1 |-> IF j(k) < m THEN overflow[j(k) + 1] ELSE alerts[k]]
        /\ overflow' = SubSeq(overflow, m + 1, Len(overflow))
        /\ i' = IF squeeze /\ ~aborted THEN first1 ELSE -1
        /\ UNCHANGED <<pipe, sent, received>>
    BY <1>6, Zenon DEF write_loop_ends
  <2>2. From = i /\ From' = first' /\ i \in Nat /\ first <= i /\ i <= first + n
    BY <1>1, <2>1, Zenon DEF From, Running, IpcInv, LoopInBounds
  <2>3. n1 = first + n - i /\ n1 \in 0 .. SIZE
    BY <1>1, <2>2
  <2>4. first1 \in Nat
    BY <2>2, IpcAssumption
  <2>5. ASSUME NEW k \in Int, aborted
        PROVE  Slot(first1 + k) = Slot(i + k)
    <3>1. /\ SIZE \in Nat \ {0} /\ FirstMod \in Nat \ {0} /\ FirstMod % SIZE = 0
          /\ i \in Int /\ k \in Int
      BY <2>2, IpcAssumption
    <3>2. ((i % FirstMod) + k) % SIZE = (i + k) % SIZE
      BY <3>1, ModMod, Zenon
    <3> QED BY <2>5, <3>2, Zenon DEF Slot
  <2>6. (squeeze => m = Squeezed(SIZE - n1)) /\ (~squeeze => m = 0) /\ (~aborted => n1 = 0)
    BY Zenon
  <2> HIDE DEF first1, n1, m, aborted, squeeze, j
  <2>7. m \in 0 .. Len(overflow) /\ m <= SIZE - n1
    BY <1>1, <2>3, <2>6 DEF Squeezed
  <2>8. ASSUME NEW k \in 0 .. n1 + m - 1
        PROVE  alerts'[Slot(first1 + k)] = received + Len(pipe) + k + 1
    <3> DEFINE c == Slot(first1 + k)
    <3>1. c \in 0 .. SIZE - 1
      BY <1>1, <2>4 DEF Slot
    <3>2. alerts'[c] = IF j(c) < m THEN overflow[j(c) + 1] ELSE alerts[c]
      BY <2>1, <3>1, Zenon
    <3>3. CASE k < n1
      <4>1. c = Slot(i + k) /\ alerts[c] = received + Len(pipe) + k + 1
        <5>1. aborted /\ k \in Int
          BY <2>3, <2>6, <3>3
        <5>2. c = Slot(i + k)
          BY <2>5, <5>1, Zenon
        <5>3. k \in 0 .. first + n - From - 1
          BY <1>1, <2>2, <2>3, <3>3
        <5> QED BY <2>2, <5>2, <5>3, Zenon DEF Numbered
      <4>2. ~(j(c) < m)
        <5>1. CASE k - n1 \in 1 - SIZE .. -1
          <6>1. first1 + n1 \in Int /\ (first1 + n1) + (k - n1) = first1 + k
            BY <2>3, <2>4
          <6>2. SIZE \in Nat \ {0} /\ k - n1 \in 1 - SIZE .. SIZE - 1 /\ k - n1 < 0
            BY <1>1, <2>3, <5>1
          <6>3. ((((first1 + n1) + (k - n1)) % SIZE) - ((first1 + n1) % SIZE)) % SIZE = (k - n1) + SIZE
            BY <6>1, <6>2, ModDiff, Zenon
          <6>4. j(c) = (k - n1) + SIZE
            BY <6>1, <6>3, Zenon DEF Slot, j
          <6> QED BY <1>1, <2>3, <2>7, <5>1, <6>4
        <5>2. CASE ~(k - n1 \in 1 - SIZE .. -1)
          <6>1. n1 = SIZE
            BY <1>1, <2>3, <3>3, <5>2
          <6>2. m = 0
            BY <1>1, <2>7, <6>1
          <6>3. j(c) \in Nat
            BY <1>1, <2>3, <2>4, <3>1 DEF Slot, j
          <6> QED BY <6>2, <6>3
        <5> QED BY <5>1, <5>2, Zenon
      <4> QED BY <3>2, <4>1, <4>2, Zenon
    <3>4. CASE ~(k < n1)
      <4>1. k - n1 \in 0 .. m - 1 /\ k - n1 \in 1 - SIZE .. SIZE - 1 /\ k - n1 >= 0
        BY <1>1, <2>3, <2>7, <3>4
      <4>2. first1 + n1 \in Int /\ (first1 + n1) + (k - n1) = first1 + k
        BY <2>3, <2>4
      <4>3. j(c) = k - n1
        <5>1. SIZE \in Nat \ {0} /\ k - n1 \in 1 - SIZE .. SIZE - 1 /\ ~(k - n1 < 0)
          BY <1>1, <4>1
        <5>2. ((((first1 + n1) + (k - n1)) % SIZE) - ((first1 + n1) % SIZE)) % SIZE = k - n1
          BY <4>2, <5>1, ModDiff, Zenon
        <5> QED BY <4>2, <5>2, Zenon DEF Slot, j
      <4>4. alerts'[c] = overflow[k - n1 + 1]
        <5>1. k - n1 < m
          BY <2>3, <2>7, <4>1
        <5> QED BY <3>2, <4>3, <5>1, Zenon
      <4>5. k - n1 + 1 \in 1 .. Len(overflow)
        BY <1>1, <2>3, <2>7, <4>1
      <4>6. overflow[k - n1 + 1] = received + Len(pipe) + n1 + (k - n1 + 1)
        BY <2>2, <2>3, <4>5, Zenon DEF Numbered
      <4> QED BY <1>1, <2>3, <4>4, <4>6
    <3> QED BY <3>3, <3>4, Zenon
  <2>9. /\ Len(overflow') = Len(overflow) - m
        /\ \A k \in 1 .. Len(overflow) - m : overflow'[k] = overflow[m + k]
    <3>1. \A k \in m + 1 .. Len(overflow) : overflow[k] \in Nat
      BY <1>1, <2>7
    <3> QED BY <1>1, <2>1, <2>7
  <2>10. ASSUME NEW k \in 1 .. Len(overflow) - m
         PROVE  overflow'[k] = received + Len(pipe) + (n1 + m) + k
    <3>1. m + k \in 1 .. Len(overflow)
      BY <1>1, <2>7
    <3>2. overflow[m + k] = received + Len(pipe) + n1 + (m + k)
      BY <2>2, <2>3, <3>1, Zenon DEF Numbered
    <3> QED BY <1>1, <2>3, <2>7, <2>9, <3>2
  <2>11. sent = received + Len(pipe) + (n1 + m) + (Len(overflow) - m)
    <3>1. sent = received + Len(pipe) + n1 + Len(overflow)
      BY <2>2, <2>3, Zenon DEF Numbered
    <3> QED BY <1>1, <2>3, <2>7, <3>1
  <2>12. first' + n' - From' = n1 + m /\ From' = first1
    BY <2>1, <2>2, <2>3, <2>4, <2>7
  <2>13. \A k \in 0 .. first' + n' - From' - 1 :
           (alerts[Slot(From + k)])' = (received + Len(pipe) + k + 1)'
    <3> TAKE k \in 0 .. first' + n' - From' - 1
    <3>1. k \in 0 .. n1 + m - 1
      <4>1. first' + n' - From' - 1 = n1 + m - 1
        BY <2>1, <2>2, <2>3, <2>4, <2>7
      <4> QED BY <4>1, Zenon
    <3> QED BY <2>1, <2>8, <2>12, <3>1, Zenon DEF Slot
  <2>14. \A k \in 1 .. Len(pipe') : pipe'[k] = received' + k
    BY <2>1, Zenon DEF Numbered
  <2>15. \A k \in 1 .. Len(overflow') :
           overflow'[k] = received' + Len(pipe') + (first' + n' - From') + k
    BY <2>1, <2>9, <2>10, <2>12, Zenon
  <2>16. sent' = received' + Len(pipe') + (first' + n' - From') + Len(overflow')
    BY <2>1, <2>9, <2>11, <2>12, Zenon
  <2> QED BY <2>13, <2>14, <2>15, <2>16, Zenon DEF Numbered
<1>7. CASE memstore_ready
  BY <1>7, Zenon DEF memstore_ready, Numbered, From, Running, Slot
<1>8. CASE ipc_read_handler
  <2>1. /\ pipe # <<>> /\ pipe' = Tail(pipe) /\ received' = Head(pipe)
        /\ UNCHANGED <<first, n, alerts, overflow, i, sent>>
    BY <1>8, Zenon DEF ipc_read_handler
  <2>2. /\ Len(pipe) >= 1 /\ Len(pipe') = Len(pipe) - 1
        /\ \A k \in 1 .. Len(pipe) - 1 : pipe'[k] = pipe[k + 1]
        /\ received' = pipe[1]
    BY <1>1, <2>1
  <2>3. received' = received + 1
    BY <1>1, <2>2 DEF Numbered
  <2>4. \A k \in 1 .. Len(pipe) - 1 : pipe'[k] = received' + k
    <3>1. TAKE k \in 1 .. Len(pipe) - 1
    <3>2. pipe[k + 1] = received + (k + 1)
      BY <1>1, <2>2 DEF Numbered
    <3> QED BY <1>1, <2>2, <2>3, <3>2
  <2>5. From' = From /\ received' + Len(pipe') = received + Len(pipe)
    BY <1>1, <2>1, <2>2, <2>3 DEF From, Running
  <2> QED BY <2>1, <2>2, <2>4, <2>5, Zenon DEF Numbered, Slot
<1>9. CASE UNCHANGED ipcVars
  BY <1>9, Zenon DEF ipcVars, Numbered, From, Running, Slot
<1> QED BY <1>3, <1>4, <1>5, <1>6, <1>7, <1>8, <1>9, Zenon DEF IpcNext

(* What is numbered slot by slot is in order as a whole. *)
LEMMA NumberedFifo == IpcInv /\ Numbered => Fifo
<1> SUFFICES ASSUME IpcInv, Numbered PROVE Fifo
  BY Zenon
<1>1. /\ first \in Nat /\ n \in Nat /\ sent \in Nat /\ received \in Nat /\ SIZE \in Nat \ {0}
      /\ pipe \in Seq(Nat) /\ overflow \in Seq(Nat) /\ alerts \in [0 .. SIZE - 1 -> Nat]
      /\ Len(pipe) \in Nat /\ Len(overflow) \in Nat
      /\ From \in Nat /\ From <= first + n
  BY IpcAssumption DEF IpcInv, IpcTypeOK, LoopInBounds, From, Running
<1> DEFINE r == first + n - From
<1>2. r \in Nat
  BY <1>1
<1>3. InRing = [k \in 1 .. r |-> alerts[Slot(From + k - 1)]]
  BY Zenon DEF InRing, From
<1>4. \A k \in 1 .. r : Slot(From + k - 1) \in 0 .. SIZE - 1
  BY <1>1, <1>2 DEF Slot
<1> HIDE DEF r
<1>5. InRing \in Seq(Nat) /\ Len(InRing) = r
  <2>1. \A k \in 1 .. r : alerts[Slot(From + k - 1)] \in Nat
    BY <1>1, <1>4, Zenon
  <2> QED BY <1>2, <1>3, <2>1
<1>6. \A k \in 1 .. r : InRing[k] = received + Len(pipe) + k
  <2>1. TAKE k \in 1 .. r
  <2>2. k - 1 \in 0 .. first + n - From - 1 /\ From + (k - 1) = From + k - 1
    BY <1>1, <1>2 DEF r
  <2>3. alerts[Slot(From + (k - 1))] = received + Len(pipe) + (k - 1) + 1
    BY <2>2, Zenon DEF Numbered
  <2> QED BY <1>1, <1>2, <1>3, <2>2, <2>3
<1>7. \A k \in 1 .. Len(overflow) : overflow[k] = received + Len(pipe) + r + k
  BY Zenon DEF Numbered, r
<1>8. sent - received = Len(pipe) + r + Len(overflow)
  <2>1. sent = received + Len(pipe) + r + Len(overflow)
    BY Zenon DEF Numbered, r
  <2> QED BY <1>1, <1>2, <2>1
<1> DEFINE two == pipe \o InRing
           all == two \o overflow
<1>9. /\ two \in Seq(Nat) /\ Len(two) = Len(pipe) + r
      /\ \A k \in 1 .. Len(pipe) + r : two[k] = received + k
  <2>1. two \in Seq(Nat) /\ Len(two) = Len(pipe) + r
    BY <1>1, <1>5, SeqJoin, Zenon
  <2>2. ASSUME NEW k \in 1 .. Len(pipe) + r
        PROVE  two[k] = received + k
    <3>1. CASE k <= Len(pipe)
      <4>1. two[k] = pipe[k]
        BY <1>1, <1>2, <1>5, <3>1
      <4> QED BY <1>1, <1>2, <3>1, <4>1 DEF Numbered
    <3>2. CASE k > Len(pipe)
      <4>1. two[k] = InRing[k - Len(pipe)] /\ k - Len(pipe) \in 1 .. r
        BY <1>1, <1>2, <1>5, <3>2
      <4>2. InRing[k - Len(pipe)] = received + Len(pipe) + (k - Len(pipe))
        BY <1>6, <4>1, Zenon
      <4> QED BY <1>1, <1>2, <4>1, <4>2
    <3>3. k <= Len(pipe) \/ k > Len(pipe)
      BY <1>1, <1>2
    <3> QED BY <3>1, <3>2, <3>3, Zenon
  <2> QED BY <2>1, <2>2, Zenon
<1> HIDE DEF two
<1>10. /\ all \in Seq(Nat) /\ Len(all) = sent - received
       /\ \A k \in 1 .. sent - received : all[k] = received + k
  <2>1. all \in Seq(Nat) /\ Len(all) = sent - received
    <3>1. all \in Seq(Nat) /\ Len(all) = Len(two) + Len(overflow)
      BY <1>1, <1>9, SeqJoin, Zenon
    <3> QED BY <1>1, <1>2, <1>8, <1>9, <3>1, Zenon
  <2>2. ASSUME NEW k \in 1 .. sent - received
        PROVE  all[k] = received + k
    <3>1. CASE k <= Len(two)
      <4>1. all[k] = two[k]
        BY <1>1, <1>2, <1>8, <1>9, <3>1
      <4> QED BY <1>1, <1>2, <1>9, <3>1, <4>1
    <3>2. CASE k > Len(two)
      <4>1. all[k] = overflow[k - Len(two)] /\ k - Len(two) \in 1 .. Len(overflow)
        BY <1>1, <1>2, <1>8, <1>9, <3>2, SMTT(30)
      <4>2. overflow[k - Len(two)] = received + Len(pipe) + r + (k - Len(two))
        BY <1>7, <4>1, Zenon
      <4> QED BY <1>1, <1>2, <1>8, <1>9, <4>1, <4>2
    <3>3. k <= Len(two) \/ k > Len(two)
      BY <1>1, <1>2, <1>9
    <3> QED BY <3>1, <3>2, <3>3, Zenon
  <2> QED BY <2>1, <2>2, Zenon
<1> HIDE DEF all
<1>11. all = [k \in 1 .. sent - received |-> received + k]
  BY <1>1, <1>10
<1> QED BY <1>11, Zenon DEF Fifo, all, two

(* Whatever the sizes of the ring and of the pipe, and however far the index of
   the ring has wrapped around, alerts arrive once and in order. *)
THEOREM AlertsInOrder == IpcSpec => []Fifo
<1>1. IpcInit => IpcInv /\ Numbered
  BY IpcAssumption DEF IpcInit, IpcInv, IpcTypeOK, OverflowBehindFullRing, NotStranded,
     LoopInBounds, Running, Numbered, From
<1>2. IpcInv /\ Numbered /\ [IpcNext]_ipcVars => (IpcInv /\ Numbered)'
  BY IpcStep, NumberedStep, Zenon
<1> QED BY <1>1, <1>2, NumberedFifo, PTL DEF IpcSpec

-----------------------------------------------------------------------------
(* RwLock keeps its invariant, and implements ReadersWriter, for every finite
   set of processes. *)

\* The sets of the invariant are finite, so that their members can be counted.
LEMMA ReadersFinite == IsFiniteSet(Readers)
BY FS_Subset, ProcsAssumption, Zenon DEF Readers

\* A process that comes to a place where it reads is one more reader, and one that leaves one less.
LEMMA ReadersCounted ==
    ASSUME NEW S, IsFiniteSet(S), NEW p
    PROVE /\ Cardinality(S) \in Nat
          /\ p \notin S => Cardinality(S \cup {p}) = Cardinality(S) + 1
          /\ p \in S => Cardinality(S \ {p}) = Cardinality(S) - 1
          /\ Cardinality(S) = 0 <=> S = {}
BY FS_CardinalityType, FS_AddElement, FS_RemoveElement, FS_EmptySet, Zenon

\* ngx_rwlock_init makes a lock nobody holds.
LEMMA RwInitial == ngx_rwlock_init => RwInvariant
<1> SUFFICES ASSUME ngx_rwlock_init PROVE RwInvariant
    BY Zenon
<1>1. RwTypeOK
  BY DEF ngx_rwlock_init, RwTypeOK, Places, NGX_RWLOCK_WRITE
<1>2. Readers = {} /\ Writers = {} /\ InMutex = {}
  BY Zenon DEF ngx_rwlock_init, Readers, Writers, InMutex
<1>3. Cardinality(Readers) = 0
  BY <1>2, FS_EmptySet, Zenon
<1>4. LockExact
  BY <1>2, <1>3 DEF LockExact, ngx_rwlock_init, NGX_RWLOCK_WRITE
<1> QED
  BY <1>1, <1>2, <1>4, ProcsAssumption, Zenon DEF RwInvariant, ngx_rwlock_init

ReadPlaces == {"read_out", "reading", "unread_check", "unread_mutex", "unread_in", "unread_do"}
WritePlaces == {"write_out", "writing", "unwrite_check", "unwrite_mutex", "unwrite_in", "unwrite_do"}
MutexPlaces == {"read_in", "read_do", "read_out", "read_failed", "unread_in", "unread_do", "unread_out",
                "write_in", "write_do", "write_out", "write_failed", "unwrite_in", "unwrite_do", "unwrite_out"}

\* A process that goes from one place to another moves nobody else.
LEMMA Moves ==
    ASSUME RwTypeOK, NEW p \in Procs, NEW from, NEW to \in Places, goes(p, from, to)
    PROVE /\ pc[p] = from /\ pc'[p] = to /\ pc' \in [Procs -> Places]
          /\ \A q \in Procs : q # p => pc'[q] = pc[q]
          /\ Readers' = IF to \in ReadPlaces THEN Readers \cup {p} ELSE Readers \ {p}
          /\ Writers' = IF to \in WritePlaces THEN Writers \cup {p} ELSE Writers \ {p}
<1>1. /\ pc[p] = from /\ pc'[p] = to /\ pc' \in [Procs -> Places]
      /\ \A q \in Procs : q # p => pc'[q] = pc[q]
  BY Zenon DEF goes, RwTypeOK
<1>2. Readers' = {q \in Procs : pc'[q] \in ReadPlaces} /\ Readers = {q \in Procs : pc[q] \in ReadPlaces}
  BY Zenon DEF Readers, ReadPlaces
<1>3. Writers' = {q \in Procs : pc'[q] \in WritePlaces} /\ Writers = {q \in Procs : pc[q] \in WritePlaces}
  BY Zenon DEF Writers, WritePlaces
<1>4. Readers' = IF to \in ReadPlaces THEN Readers \cup {p} ELSE Readers \ {p}
  BY <1>1, <1>2, Zenon
<1>5. Writers' = IF to \in WritePlaces THEN Writers \cup {p} ELSE Writers \ {p}
  BY <1>1, <1>3, Zenon
<1> QED
  BY <1>1, <1>4, <1>5, Zenon

\* A step that leaves the sets of readers and writers alone, and the words with them, keeps LockExact.
LEMMA SameHolders ==
    ASSUME LockExact, Readers' = Readers, Writers' = Writers, UNCHANGED <<lock, write_pid>>
    PROVE LockExact'
BY Zenon DEF LockExact

\* A step outside the mutex that leaves holders holders changes nothing.
LEMMA OutsideKeeps ==
    ASSUME RwInvariant, NEW p \in Procs, NEW from \in Places, NEW to \in Places, goes(p, from, to),
           UNCHANGED <<mutex, lock, write_pid>>,
           from \in ReadPlaces <=> to \in ReadPlaces, from \in WritePlaces <=> to \in WritePlaces,
           from \notin MutexPlaces, to \notin MutexPlaces
    PROVE RwInvariant'
<1>1. /\ pc[p] = from /\ pc'[p] = to /\ pc' \in [Procs -> Places]
      /\ \A q \in Procs : q # p => pc'[q] = pc[q]
      /\ Readers' = IF to \in ReadPlaces THEN Readers \cup {p} ELSE Readers \ {p}
      /\ Writers' = IF to \in WritePlaces THEN Writers \cup {p} ELSE Writers \ {p}
  BY Moves, Zenon DEF RwInvariant
<1>2. Readers' = Readers /\ Writers' = Writers
  BY <1>1, Zenon DEF Readers, Writers, ReadPlaces, WritePlaces
<1>3. LockExact'
  BY <1>2, SameHolders, Zenon DEF RwInvariant
<1>4. RwTypeOK'
  BY <1>1, Zenon DEF RwTypeOK, RwInvariant
<1>5. \A q \in Procs : q \in InMutex' <=> mutex' = q
  BY <1>1, Zenon DEF InMutex, MutexPlaces, RwInvariant
<1>6. (/\ \A q \in Procs : pc[q] = "read_do" => lock # NGX_RWLOCK_WRITE
       /\ \A q \in Procs : pc[q] = "write_do" => lock = 0)'
  BY <1>1, Zenon DEF MutexPlaces, RwInvariant
<1> QED
  BY <1>3, <1>4, <1>5, <1>6, Zenon DEF RwInvariant

\* A step of the process in the mutex that leaves holders holders and the words alone.
LEMMA InsideKeeps ==
    ASSUME RwInvariant, NEW p \in Procs, NEW from \in Places, NEW to \in Places, goes(p, from, to),
           UNCHANGED <<lock, write_pid>>,
           from \in ReadPlaces <=> to \in ReadPlaces, from \in WritePlaces <=> to \in WritePlaces,
           \/ from \in MutexPlaces /\ to \in MutexPlaces /\ mutex' = mutex
           \/ from \notin MutexPlaces /\ to \in MutexPlaces /\ mutex = NoPid /\ mutex' = p
           \/ from \in MutexPlaces /\ to \notin MutexPlaces /\ mutex' = NoPid,
           to = "read_do" => lock # NGX_RWLOCK_WRITE, to = "write_do" => lock = 0
    PROVE RwInvariant'
<1>1. /\ pc[p] = from /\ pc'[p] = to /\ pc' \in [Procs -> Places]
      /\ \A q \in Procs : q # p => pc'[q] = pc[q]
      /\ Readers' = IF to \in ReadPlaces THEN Readers \cup {p} ELSE Readers \ {p}
      /\ Writers' = IF to \in WritePlaces THEN Writers \cup {p} ELSE Writers \ {p}
  BY Moves, Zenon DEF RwInvariant
<1>2. Readers' = Readers /\ Writers' = Writers
  BY <1>1, Zenon DEF Readers, Writers, ReadPlaces, WritePlaces
<1>3. LockExact'
  BY <1>2, SameHolders, Zenon DEF RwInvariant
<1>4. RwTypeOK'
  BY <1>1, Zenon DEF RwTypeOK, RwInvariant
<1>5. \A q \in Procs : q \in InMutex <=> pc[q] \in MutexPlaces
  BY Zenon DEF InMutex, MutexPlaces
<1>6. \A q \in Procs : q \in InMutex' <=> pc'[q] \in MutexPlaces
  BY Zenon DEF InMutex, MutexPlaces
<1>7. \A q \in Procs : q \in InMutex' <=> mutex' = q
  BY <1>1, <1>5, <1>6, ProcsAssumption DEF RwInvariant
<1>8. (/\ \A q \in Procs : pc[q] = "read_do" => lock # NGX_RWLOCK_WRITE
       /\ \A q \in Procs : pc[q] = "write_do" => lock = 0)'
  BY <1>1, Zenon DEF RwInvariant
<1> QED
  BY <1>3, <1>4, <1>7, <1>8, Zenon DEF RwInvariant

\* A step of the process in the mutex that changes the lock: nobody else is in the mutex, so nobody's
\* second test is undone.
LEMMA ChangeKeeps ==
    ASSUME RwInvariant, NEW p \in Procs, NEW from \in Places, NEW to \in Places, goes(p, from, to),
           from \in MutexPlaces, to \in MutexPlaces, to \notin {"read_do", "write_do"}, mutex' = mutex,
           RwTypeOK', LockExact'
    PROVE RwInvariant'
<1>1. /\ pc[p] = from /\ pc'[p] = to
      /\ \A q \in Procs : q # p => pc'[q] = pc[q]
  BY Moves, Zenon DEF RwInvariant
<1>2. \A q \in Procs : q \in InMutex <=> pc[q] \in MutexPlaces
  BY Zenon DEF InMutex, MutexPlaces
<1>3. \A q \in Procs : q \in InMutex' <=> pc'[q] \in MutexPlaces
  BY Zenon DEF InMutex, MutexPlaces
<1>4. \A q \in Procs : q # p => pc[q] \notin MutexPlaces
  BY <1>1, <1>2, Zenon DEF RwInvariant
<1>5. (/\ \A q \in Procs : pc[q] = "read_do" => lock # NGX_RWLOCK_WRITE
       /\ \A q \in Procs : pc[q] = "write_do" => lock = 0)'
  BY <1>1, <1>4, Zenon DEF MutexPlaces, RwInvariant
<1> QED
  BY <1>1, <1>2, <1>3, <1>4, <1>5, Zenon DEF RwInvariant

\* A call of a lock function begins.
LEMMA CallsKeep ==
    ASSUME RwInvariant, NEW p \in Procs, calls(p)
    PROVE RwInvariant'
<1> USE OutsideKeeps DEF Places, ReadPlaces, WritePlaces, MutexPlaces
<1>1. CASE goes(p, "idle", "read_check")
  BY <1>1, Zenon DEF calls
<1>2. CASE goes(p, "reading", "unread_check")
  BY <1>2, Zenon DEF calls
<1>3. CASE goes(p, "idle", "write_check")
  BY <1>3, Zenon DEF calls
<1>4. CASE goes(p, "writing", "unwrite_check")
  BY <1>4 DEF calls
<1> QED
  BY <1>1, <1>2, <1>3, <1>4, Zenon DEF calls

\* The mutex is taken by one process, and given back by it.
LEMMA MutexKeeps ==
    ASSUME RwInvariant, NEW p \in Procs, rwl_lock_mutex(p) \/ rwl_unlock_mutex(p)
    PROVE RwInvariant'
<1> USE InsideKeeps DEF Places, ReadPlaces, WritePlaces, MutexPlaces
<1>1. CASE rwl_lock_mutex(p)
  <2>1. CASE goes(p, "read_mutex", "read_in")
    BY <1>1, <2>1, Zenon DEF rwl_lock_mutex
  <2>2. CASE goes(p, "unread_mutex", "unread_in")
    BY <1>1, <2>2, Zenon DEF rwl_lock_mutex
  <2>3. CASE goes(p, "write_mutex", "write_in")
    BY <1>1, <2>3 DEF rwl_lock_mutex
  <2>4. CASE goes(p, "unwrite_mutex", "unwrite_in")
    BY <1>1, <2>4, Zenon DEF rwl_lock_mutex
  <2> QED
    BY <1>1, <2>1, <2>2, <2>3, <2>4, Zenon DEF rwl_lock_mutex
<1>2. CASE rwl_unlock_mutex(p)
  <2>0. pc[p] \in MutexPlaces => mutex' = NoPid
    BY <1>2, Zenon DEF rwl_unlock_mutex, RwInvariant, InMutex
  <2>1. CASE goes(p, "read_out", "reading")
    BY <1>2, <2>0, <2>1, Zenon DEF rwl_unlock_mutex, goes
  <2>2. CASE goes(p, "read_failed", "read_check")
    BY <1>2, <2>0, <2>2, Zenon DEF rwl_unlock_mutex, goes
  <2>3. CASE goes(p, "write_out", "writing")
    BY <1>2, <2>0, <2>3, Zenon DEF rwl_unlock_mutex, goes
  <2>4. CASE goes(p, "write_failed", "write_check")
    BY <1>2, <2>0, <2>4, Zenon DEF rwl_unlock_mutex, goes
  <2>5. CASE goes(p, "unread_out", "idle")
    BY <1>2, <2>0, <2>5, Zenon DEF rwl_unlock_mutex, goes
  <2>6. CASE goes(p, "unwrite_out", "idle")
    BY <1>2, <2>0, <2>6, Zenon DEF rwl_unlock_mutex, goes
  <2> QED
    BY <1>2, <2>1, <2>2, <2>3, <2>4, <2>5, <2>6, Zenon DEF rwl_unlock_mutex
<1> QED
  BY <1>1, <1>2, Zenon

\* What the invariant says of a process that holds the lock: its release is never refused.
LEMMA HoldersCounted ==
    ASSUME RwInvariant, NEW p \in Procs
    PROVE /\ p \in Readers => lock \in Nat /\ lock # 0 /\ lock = Cardinality(Readers) /\ Writers = {}
          /\ p \in Writers => lock = NGX_RWLOCK_WRITE /\ Writers = {p} /\ Readers = {}
          /\ lock # NGX_RWLOCK_WRITE => Writers = {} /\ lock = Cardinality(Readers) /\ lock \in Nat
          /\ lock = 0 => Readers = {}
<1>1. Cardinality(Readers) \in Nat /\ (Cardinality(Readers) = 0 <=> Readers = {})
  BY ReadersFinite, ReadersCounted, Zenon
<1>2. \A q, r \in Writers : q = r
  BY Zenon DEF RwInvariant, LockExact
<1>3. lock = 0 => lock # NGX_RWLOCK_WRITE
  BY DEF NGX_RWLOCK_WRITE
<1> QED
  BY <1>1, <1>2, <1>3, Zenon DEF RwInvariant, LockExact

\* A reader comes.
LEMMA ReserveReadKeeps ==
    ASSUME RwInvariant, NEW p \in Procs, ngx_rwlock_reserve_read(p)
    PROVE RwInvariant'
<1>1. CASE goes(p, "read_check", "read_mutex") /\ UNCHANGED <<mutex, lock, write_pid>>
  BY <1>1, OutsideKeeps, Zenon DEF Places, ReadPlaces, WritePlaces, MutexPlaces
<1>2. CASE /\ goes(p, "read_in", IF lock # NGX_RWLOCK_WRITE THEN "read_do" ELSE "read_failed")
           /\ UNCHANGED <<mutex, lock, write_pid>>
  BY <1>2, InsideKeeps DEF Places, ReadPlaces, WritePlaces, MutexPlaces
<1>3. CASE goes(p, "read_do", "read_out") /\ lock' = lock + 1 /\ UNCHANGED <<mutex, write_pid>>
  <2>1. /\ pc[p] = "read_do" /\ pc' \in [Procs -> Places]
        /\ Readers' = Readers \cup {p} /\ Writers' = Writers \ {p}
    BY <1>3, Moves, Zenon DEF RwInvariant, Places, ReadPlaces, WritePlaces
  <2>2. lock # NGX_RWLOCK_WRITE /\ p \notin Readers
    BY <2>1, Zenon DEF RwInvariant, Readers
  <2>3. Writers = {} /\ lock = Cardinality(Readers) /\ lock \in Nat
    BY <2>2, HoldersCounted, Zenon
  <2>4. Cardinality(Readers') = Cardinality(Readers) + 1
    BY <2>1, <2>2, ReadersFinite, ReadersCounted, Zenon
  <2>5. lock' = Cardinality(Readers') /\ lock' \in Nat /\ lock' # -1 /\ Writers' = {}
    BY <1>3, <2>1, <2>3, <2>4
  <2>6. LockExact'
    BY <2>5, Zenon DEF LockExact, NGX_RWLOCK_WRITE
  <2>7. RwTypeOK'
    BY <1>3, <2>1, <2>5 DEF RwTypeOK, RwInvariant, NGX_RWLOCK_WRITE
  <2> QED
    BY <1>3, <2>6, <2>7, ChangeKeeps, Zenon DEF Places, MutexPlaces
<1> QED
  BY <1>1, <1>2, <1>3, Zenon DEF ngx_rwlock_reserve_read

\* A reader leaves.
LEMMA ReleaseReadKeeps ==
    ASSUME RwInvariant, NEW p \in Procs, ngx_rwlock_release_read(p)
    PROVE RwInvariant'
<1> DEFINE counted == lock # NGX_RWLOCK_WRITE /\ lock # 0
<1>0. p \in Readers => counted
  BY HoldersCounted DEF NGX_RWLOCK_WRITE
<1>1. CASE /\ goes(p, "unread_check", IF counted THEN "unread_mutex" ELSE "idle")
           /\ UNCHANGED <<mutex, lock, write_pid>>
  <2>1. counted
    BY <1>0, <1>1, Zenon DEF goes, Readers
  <2> QED
    BY <1>1, <2>1, OutsideKeeps DEF Places, ReadPlaces, WritePlaces, MutexPlaces
<1>2. CASE /\ goes(p, "unread_in", IF counted THEN "unread_do" ELSE "unread_out")
           /\ UNCHANGED <<mutex, lock, write_pid>>
  <2>1. counted
    BY <1>0, <1>2, Zenon DEF goes, Readers
  <2> QED
    BY <1>2, <2>1, InsideKeeps DEF Places, ReadPlaces, WritePlaces, MutexPlaces
<1>3. CASE goes(p, "unread_do", "unread_out") /\ lock' = lock - 1 /\ UNCHANGED <<mutex, write_pid>>
  <2>1. /\ pc[p] = "unread_do" /\ pc' \in [Procs -> Places]
        /\ Readers' = Readers \ {p} /\ Writers' = Writers \ {p}
    BY <1>3, Moves, Zenon DEF RwInvariant, Places, ReadPlaces, WritePlaces
  <2>2. p \in Readers
    BY <2>1, Zenon DEF Readers
  <2>3. Writers = {} /\ lock = Cardinality(Readers) /\ lock \in Nat /\ lock # 0
    BY <2>2, HoldersCounted, Zenon
  <2>4. Cardinality(Readers') = Cardinality(Readers) - 1
    BY <2>1, <2>2, ReadersFinite, ReadersCounted, Zenon
  <2>5. lock' = Cardinality(Readers') /\ lock' \in Nat /\ lock' # -1 /\ Writers' = {}
    BY <1>3, <2>1, <2>3, <2>4
  <2>6. LockExact'
    BY <2>5, Zenon DEF LockExact, NGX_RWLOCK_WRITE
  <2>7. RwTypeOK'
    BY <1>3, <2>1, <2>5 DEF RwTypeOK, RwInvariant, NGX_RWLOCK_WRITE
  <2> QED
    BY <1>3, <2>6, <2>7, ChangeKeeps, Zenon DEF Places, MutexPlaces
<1> QED
  BY <1>1, <1>2, <1>3, Zenon DEF ngx_rwlock_release_read

\* A writer comes.
LEMMA WriteCheckKeeps ==
    ASSUME RwInvariant, NEW p \in Procs, ngx_rwlock_write_check(p)
    PROVE RwInvariant'
<1>1. CASE goes(p, "write_check", "write_mutex") /\ UNCHANGED <<mutex, lock, write_pid>>
  BY <1>1, OutsideKeeps DEF Places, ReadPlaces, WritePlaces, MutexPlaces
<1>2. CASE /\ goes(p, "write_in", IF lock = 0 THEN "write_do" ELSE "write_failed")
           /\ UNCHANGED <<mutex, lock, write_pid>>
  BY <1>2, InsideKeeps DEF Places, ReadPlaces, WritePlaces, MutexPlaces
<1>3. CASE /\ goes(p, "write_do", "write_out")
           /\ lock' = NGX_RWLOCK_WRITE /\ write_pid' = p /\ UNCHANGED mutex
  <2>1. /\ pc[p] = "write_do" /\ pc' \in [Procs -> Places]
        /\ Readers' = Readers \ {p} /\ Writers' = Writers \cup {p}
    BY <1>3, Moves, Zenon DEF RwInvariant, Places, ReadPlaces, WritePlaces
  <2>2. lock = 0
    BY <2>1, Zenon DEF RwInvariant
  <2>3. Writers = {} /\ Readers = {}
    BY <2>2, HoldersCounted DEF NGX_RWLOCK_WRITE
  <2>4. Writers' = {p} /\ Readers' = {}
    BY <2>1, <2>3, Zenon
  <2>5. Writers' # {}
    BY <2>4, Zenon
  <2>6. (lock = NGX_RWLOCK_WRITE)'
    BY <1>3, Zenon DEF NGX_RWLOCK_WRITE
  <2>7. LockExact'
    BY <1>3, <2>4, <2>5, <2>6, Zenon DEF LockExact
  <2>8. RwTypeOK'
    BY <1>3, <2>1 DEF RwTypeOK, RwInvariant, NGX_RWLOCK_WRITE
  <2> QED
    BY <1>3, <2>7, <2>8, ChangeKeeps, Zenon DEF Places, MutexPlaces
<1> QED
  BY <1>1, <1>2, <1>3, Zenon DEF ngx_rwlock_write_check

\* A writer leaves.
LEMMA ReleaseWriteKeeps ==
    ASSUME RwInvariant, NEW p \in Procs, ngx_rwlock_release_write(p)
    PROVE RwInvariant'
<1>0. p \in Writers => lock = NGX_RWLOCK_WRITE
  BY HoldersCounted, Zenon
<1>1. CASE /\ goes(p, "unwrite_check", IF lock = NGX_RWLOCK_WRITE THEN "unwrite_mutex" ELSE "idle")
           /\ UNCHANGED <<mutex, lock, write_pid>>
  <2>1. lock = NGX_RWLOCK_WRITE
    BY <1>0, <1>1, Zenon DEF goes, Writers
  <2> QED
    BY <1>1, <2>1, OutsideKeeps, Zenon DEF Places, ReadPlaces, WritePlaces, MutexPlaces
<1>2. CASE /\ goes(p, "unwrite_in", IF lock = NGX_RWLOCK_WRITE THEN "unwrite_do" ELSE "unwrite_out")
           /\ UNCHANGED <<mutex, lock, write_pid>>
  <2>1. lock = NGX_RWLOCK_WRITE
    BY <1>0, <1>2, Zenon DEF goes, Writers
  <2> QED
    BY <1>2, <2>1, InsideKeeps, Zenon DEF Places, ReadPlaces, WritePlaces, MutexPlaces
<1>3. CASE /\ goes(p, "unwrite_do", "unwrite_out")
           /\ lock' = 0 /\ write_pid' = NoPid /\ UNCHANGED mutex
  <2>1. /\ pc[p] = "unwrite_do" /\ pc' \in [Procs -> Places]
        /\ Readers' = Readers \ {p} /\ Writers' = Writers \ {p}
    BY <1>3, Moves, Zenon DEF RwInvariant, Places, ReadPlaces, WritePlaces
  <2>2. p \in Writers
    BY <2>1, Zenon DEF Writers
  <2>3. Writers = {p} /\ Readers = {}
    BY <2>2, HoldersCounted, Zenon
  <2>4. Writers' = {} /\ Readers' = {}
    BY <2>1, <2>3, Zenon
  <2>5. Cardinality(Readers') = 0
    BY <2>4, FS_EmptySet, Zenon
  <2>6. LockExact'
    BY <1>3, <2>4, <2>5 DEF LockExact, NGX_RWLOCK_WRITE
  <2>7. RwTypeOK'
    BY <1>3, <2>1 DEF RwTypeOK, RwInvariant, NGX_RWLOCK_WRITE
  <2> QED
    BY <1>3, <2>6, <2>7, ChangeKeeps, Zenon DEF Places, MutexPlaces
<1> QED
  BY <1>1, <1>2, <1>3, Zenon DEF ngx_rwlock_release_write

\* Every step keeps the invariant.
LEMMA RwStepKeeps == RwInvariant /\ [RwNext]_rwVars => RwInvariant'
<1> SUFFICES ASSUME RwInvariant, [RwNext]_rwVars PROVE RwInvariant'
    BY Zenon
<1>1. CASE UNCHANGED rwVars
  BY <1>1, Zenon DEF rwVars, RwInvariant, RwTypeOK, LockExact, Readers, Writers, InMutex, NGX_RWLOCK_WRITE
<1>2. CASE RwNext
  BY <1>2, CallsKeep, MutexKeeps, ReserveReadKeeps, ReleaseReadKeeps, WriteCheckKeeps, ReleaseWriteKeeps, Zenon
     DEF RwNext, rwStep
<1> QED
  BY <1>1, <1>2, Zenon

\* For any number of processes: the word lock of ngx_rwlock.c always says who holds the lock, and the
\* process that changes it changes what its second test saw.
THEOREM RwSafe == RwSpec => []RwInvariant
BY RwInitial, RwStepKeeps, PTL DEF RwSpec

\* For any number of processes: readers are counted, the writer is alone and named.
THEOREM RwExact == RwSpec => []LockExact
<1>1. RwInvariant => LockExact
  BY Zenon DEF RwInvariant
<1> QED
  BY <1>1, RwSafe, PTL

\* A step between two places of the same holder is a stutter of the abstract lock.
LEMMA Stutters ==
    ASSUME RwInvariant, NEW p \in Procs, NEW from \in Places, NEW to \in Places, goes(p, from, to),
           from \in ReadPlaces <=> to \in ReadPlaces, from \in WritePlaces <=> to \in WritePlaces
    PROVE UNCHANGED <<Readers, Writers>>
<1>1. /\ pc[p] = from
      /\ Readers' = IF to \in ReadPlaces THEN Readers \cup {p} ELSE Readers \ {p}
      /\ Writers' = IF to \in WritePlaces THEN Writers \cup {p} ELSE Writers \ {p}
  BY Moves, Zenon DEF RwInvariant
<1>2. (p \in Readers <=> from \in ReadPlaces) /\ (p \in Writers <=> from \in WritePlaces)
  BY <1>1, Zenon DEF Readers, Writers, ReadPlaces, WritePlaces
<1> QED
  BY <1>1, <1>2, Zenon

\* The four steps that change the word lock are the four steps of the abstract lock, and the other steps
\* are stutters.
LEMMA StepImplements ==
    ASSUME RwInvariant, NEW p \in Procs, calls(p) \/ rwStep(p)
    PROVE \/ UNCHANGED <<Readers, Writers>>
          \/ Abstract!Reads(p) \/ Abstract!StopsReading(p)
          \/ Abstract!Writes(p) \/ Abstract!StopsWriting(p)
<1>1. CASE calls(p)
  BY <1>1, Stutters DEF calls, Places, ReadPlaces, WritePlaces
<1>2. CASE rwl_lock_mutex(p) \/ rwl_unlock_mutex(p)
  BY <1>2, Stutters DEF rwl_lock_mutex, rwl_unlock_mutex, Places, ReadPlaces, WritePlaces
<1>3. CASE ngx_rwlock_reserve_read(p)
  <2>1. CASE goes(p, "read_do", "read_out")
    <3>1. pc[p] = "read_do" /\ Readers' = Readers \cup {p} /\ Writers' = Writers \ {p}
      BY <2>1, Moves, Zenon DEF RwInvariant, Places, ReadPlaces, WritePlaces
    <3>2. Writers = {} /\ p \notin Readers
      BY <3>1, HoldersCounted, Zenon DEF RwInvariant, Readers
    <3> QED
      BY <3>1, <3>2, Zenon DEF Abstract!Reads
  <2>2. CASE ~goes(p, "read_do", "read_out")
    BY <1>3, <2>2, Stutters DEF ngx_rwlock_reserve_read, Places, ReadPlaces, WritePlaces
  <2> QED
    BY <2>1, <2>2, Zenon
<1>4. CASE ngx_rwlock_release_read(p)
  <2>0. p \in Readers => lock # NGX_RWLOCK_WRITE /\ lock # 0
    BY HoldersCounted DEF NGX_RWLOCK_WRITE
  <2>1. CASE goes(p, "unread_do", "unread_out")
    <3>1. pc[p] = "unread_do" /\ Readers' = Readers \ {p} /\ Writers' = Writers \ {p}
      BY <2>1, Moves, Zenon DEF RwInvariant, Places, ReadPlaces, WritePlaces
    <3>2. p \in Readers /\ Writers = {}
      BY <3>1, HoldersCounted, Zenon DEF Readers
    <3> QED
      BY <3>1, <3>2, Zenon DEF Abstract!StopsReading
  <2>2. CASE pc[p] \in {"unread_check", "unread_in"}
    <3>1. lock # NGX_RWLOCK_WRITE /\ lock # 0
      BY <2>0, <2>2, Zenon DEF Readers
    <3> QED
      BY <1>4, <2>2, <3>1, Stutters, Zenon DEF ngx_rwlock_release_read, goes, Places, ReadPlaces, WritePlaces
  <2> QED
    BY <1>4, <2>1, <2>2, Zenon DEF ngx_rwlock_release_read, goes
<1>5. CASE ngx_rwlock_write_check(p)
  <2>1. CASE goes(p, "write_do", "write_out")
    <3>1. pc[p] = "write_do" /\ Readers' = Readers \ {p} /\ Writers' = Writers \cup {p}
      BY <2>1, Moves, Zenon DEF RwInvariant, Places, ReadPlaces, WritePlaces
    <3>2. Writers = {} /\ Readers = {}
      BY <3>1, HoldersCounted DEF RwInvariant, NGX_RWLOCK_WRITE
    <3> QED
      BY <3>1, <3>2, Zenon DEF Abstract!Writes
  <2>2. CASE ~goes(p, "write_do", "write_out")
    BY <1>5, <2>2, Stutters DEF ngx_rwlock_write_check, Places, ReadPlaces, WritePlaces
  <2> QED
    BY <2>1, <2>2, Zenon
<1>6. CASE ngx_rwlock_release_write(p)
  <2>1. CASE goes(p, "unwrite_do", "unwrite_out")
    <3>1. pc[p] = "unwrite_do" /\ Readers' = Readers \ {p} /\ Writers' = Writers \ {p}
      BY <2>1, Moves, Zenon DEF RwInvariant, Places, ReadPlaces, WritePlaces
    <3>2. p \in Writers /\ Readers = {}
      BY <3>1, HoldersCounted, Zenon DEF Writers
    <3> QED
      BY <3>1, <3>2, Zenon DEF Abstract!StopsWriting
  <2>2. CASE pc[p] \in {"unwrite_check", "unwrite_in"}
    <3>1. lock = NGX_RWLOCK_WRITE
      BY <2>2, HoldersCounted, Zenon DEF Writers
    <3> QED
      BY <1>6, <2>2, <3>1, Stutters, Zenon DEF ngx_rwlock_release_write, goes, Places, ReadPlaces, WritePlaces
  <2> QED
    BY <1>6, <2>1, <2>2, Zenon DEF ngx_rwlock_release_write, goes
<1> QED
  BY <1>1, <1>2, <1>3, <1>4, <1>5, <1>6, Zenon DEF rwStep

\* For any number of processes: the lock of ngx_rwlock.c, tested twice and changed under its mutex,
\* implements the abstract readers-writer lock.
THEOREM RwImplements == RwSpec => LockPromise
<1>1. ngx_rwlock_init => Abstract!RWInit
  BY Zenon DEF ngx_rwlock_init, Abstract!RWInit, Readers, Writers
<1>2. RwInvariant /\ [RwNext]_rwVars => [Abstract!RWNext]_<<Readers, Writers>>
  <2> SUFFICES ASSUME RwInvariant, [RwNext]_rwVars PROVE [Abstract!RWNext]_<<Readers, Writers>>
      BY Zenon
  <2>1. CASE UNCHANGED rwVars
    BY <2>1, Zenon DEF rwVars, Readers, Writers
  <2>2. CASE RwNext
    BY <2>2, StepImplements, Zenon DEF RwNext, Abstract!RWNext
  <2> QED
    BY <2>1, <2>2, Zenon
<1> QED
  BY <1>1, <1>2, RwSafe, PTL DEF RwSpec, LockPromise, Abstract!RWSpec
=============================================================================
