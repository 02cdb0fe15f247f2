----------------------------- MODULE StoreProofs -----------------------------
(***************************************************************************)
(* Proofs about the memory store's bookkeeping in shared memory: the       *)
(* reference counts of messages (MsgRefs) and the counters of channel      *)
(* groups (Groups).                                                        *)
(***************************************************************************)
EXTENDS MsgRefs, Groups, TLAPS

-----------------------------------------------------------------------------
(* Groups: each step of a worker changes the group's counters, now or when its
   callbacks are called, by what it changes in the worker's channels, and
   whoever waits for the group has a request, or an answer to it, on its way. *)

(* What callbacks are going to add, as far as the steps depend on it: nothing
   if there are none or none of them counts, and with one more or without the
   first, as much more or less as that one adds.  It is proved further on from
   what a sum over a finite set is. *)
TotalFacts ==
    /\ \A k \in Kinds3 : Total(<<>>, k) = 0
    /\ \A s \in Seq(Callbacks), k \in Kinds3 :
         /\ Total(s, k) \in Int
         /\ \A cb \in Callbacks : Total(Append(s, cb), k) = Total(s, k) + Amount(cb, k)
         /\ s # <<>> => Total(Tail(s), k) = Total(s, k) - Amount(Head(s), k)
         /\ (\A i \in DOMAIN s : s[i].type # "count") => Total(s, k) = 0

(* Its parts, to be cited one by one. *)
LEMMA TotalEmpty == ASSUME TotalFacts, NEW k \in Kinds3 PROVE Total(<<>>, k) = 0
  BY Zenon DEF TotalFacts

(* A total is a number. *)
LEMMA TotalInt == ASSUME TotalFacts, NEW s \in Seq(Callbacks), NEW k \in Kinds3 PROVE Total(s, k) \in Int
  BY Zenon DEF TotalFacts

(* A callback that is put off adds what it will count. *)
LEMMA TotalAppend ==
    ASSUME TotalFacts, NEW s \in Seq(Callbacks), NEW cb \in Callbacks, NEW k \in Kinds3
    PROVE  Total(Append(s, cb), k) = Total(s, k) + Amount(cb, k)
  BY Zenon DEF TotalFacts

(* A callback that is run takes it out again. *)
LEMMA TotalTail ==
    ASSUME TotalFacts, NEW s \in Seq(Callbacks), s # <<>>, NEW k \in Kinds3
    PROVE  Total(Tail(s), k) = Total(s, k) - Amount(Head(s), k)
  BY Zenon DEF TotalFacts

(* Callbacks that count nothing total nothing. *)
LEMMA TotalNoCount ==
    ASSUME TotalFacts, NEW s \in Seq(Callbacks), NEW k \in Kinds3, \A i \in DOMAIN s : s[i].type # "count"
    PROVE  Total(s, k) = 0
  BY Zenon DEF TotalFacts

(* What a callback adds and what a worker's channels have are numbers. *)
LEMMA AmountInt == \A cb \in Callbacks, k \in Kinds3 : Amount(cb, k) \in Int
  BY DEF Callbacks, Amount

(* What a channel has of each kind is a number. *)
LEMMA ActualInt == \A c \in Channels, k \in Kinds3 : Actual(c, k) \in Int
<1> SUFFICES ASSUME NEW c \in Channels, NEW k \in Kinds3 PROVE Actual(c, k) \in Int
  BY Zenon
<1>1. CASE k = "channels"
  BY <1>1 DEF Channels, Actual
<1>2. CASE k = "subscribers"
  BY <1>2 DEF Channels, Actual
<1>3. CASE k = "messages"
  BY <1>3 DEF Channels, Actual
<1> QED BY <1>1, <1>2, <1>3, Zenon DEF Kinds3

(* What a pipe carries when an alert is sent or the first one is read. *)
LEMMA Sent ==
    ASSUME NEW s \in Seq(GroupAlerts), NEW x \in GroupAlerts
    PROVE  /\ Append(s, x) \in Seq(GroupAlerts)
           /\ Range(s) \subseteq Range(Append(s, x))
           /\ x \in Range(Append(s, x))
<1>1. PICK t : t = Append(s, x)
  BY Zenon
<1>2. PICK n \in Nat : n = Len(s)
  OBVIOUS
<1>3. /\ t \in Seq(GroupAlerts) /\ DOMAIN t = 1 .. n + 1 /\ DOMAIN s = 1 .. n /\ t[n + 1] = x
      /\ \A i \in 1 .. n : t[i] = s[i]
  BY <1>1, <1>2
<1>4. Range(s) \subseteq Range(t) /\ x \in Range(t)
  BY <1>3 DEF Range
<1> QED BY <1>1, <1>3, <1>4, Zenon

(* Reading the first alert leaves all others in the pipe. *)
LEMMA Read ==
    ASSUME NEW s \in Seq(GroupAlerts), s # <<>>
    PROVE  /\ Tail(s) \in Seq(GroupAlerts)
           /\ Range(s) \ {Head(s)} \subseteq Range(Tail(s))
<1>1. PICK t : t = Tail(s)
  BY Zenon
<1>2. PICK n \in Nat : n = Len(t)
  BY <1>1
<1>3. /\ t \in Seq(GroupAlerts) /\ DOMAIN s = 1 .. n + 1 /\ DOMAIN t = 1 .. n /\ Head(s) = s[1]
      /\ \A i \in 1 .. n : t[i] = s[i + 1]
  BY <1>1, <1>2
<1>4. ASSUME NEW j \in 1 .. n + 1, s[j] # s[1] PROVE s[j] \in Range(t)
  <2>1. j - 1 \in 1 .. n /\ t[j - 1] = s[j]
    BY <1>3, <1>4
  <2> QED BY <1>3, <2>1, Zenon DEF Range
<1> QED BY <1>1, <1>3, <1>4 DEF Range

(* No alert is taken from a pipe, and each pipe keeps its type. *)
OnlySent ==
    /\ gpipe' \in [GroupWorkers \X GroupWorkers -> Seq(GroupAlerts)]
    /\ \A p \in GroupWorkers \X GroupWorkers : Range(gpipe[p]) \subseteq Range(gpipe'[p])

(* An alert to one worker (ipc_alert). *)
LEMMA SentTo ==
    ASSUME GroupsTypeOK, NEW p \in GroupWorkers \X GroupWorkers, NEW x \in GroupAlerts,
           gpipe' = [gpipe EXCEPT ![p] = Append(@, x)]
    PROVE  OnlySent /\ x \in Range(gpipe'[p])
<1>1. \A q \in GroupWorkers \X GroupWorkers : gpipe[q] \in Seq(GroupAlerts)
  BY Zenon DEF GroupsTypeOK
<1>2. /\ gpipe'[p] = Append(gpipe[p], x)
      /\ \A q \in GroupWorkers \X GroupWorkers : q # p => gpipe'[q] = gpipe[q]
  BY Zenon DEF GroupsTypeOK
<1>3. Append(gpipe[p], x) \in Seq(GroupAlerts)
  BY <1>1, Sent, Zenon
<1>4. gpipe' \in [GroupWorkers \X GroupWorkers -> Seq(GroupAlerts)]
  BY <1>3, Zenon DEF GroupsTypeOK
<1>5. Range(gpipe[p]) \subseteq Range(gpipe'[p]) /\ x \in Range(gpipe'[p])
  BY <1>1, <1>2, Sent, Zenon
<1> QED BY <1>2, <1>4, <1>5, Zenon DEF OnlySent

(* An alert to all other workers (ipc_broadcast_alert). *)
LEMMA SentToAll ==
    ASSUME GroupsTypeOK, NEW w \in GroupWorkers, NEW x \in GroupAlerts, gpipe' = to_all(w, x)
    PROVE  OnlySent /\ \A v \in GroupWorkers \ {w} : x \in Range(gpipe'[<<w, v>>])
<1>1. \A q \in GroupWorkers \X GroupWorkers : gpipe[q] \in Seq(GroupAlerts)
  BY Zenon DEF GroupsTypeOK
<1>2. \A q \in GroupWorkers \X GroupWorkers :
         gpipe'[q] = IF q[1] = w /\ q[2] # w THEN Append(gpipe[q], x) ELSE gpipe[q]
  BY Zenon DEF to_all
<1>3. \A q \in GroupWorkers \X GroupWorkers :
         gpipe'[q] \in Seq(GroupAlerts) /\ Range(gpipe[q]) \subseteq Range(gpipe'[q])
  BY <1>1, <1>2, Sent, Zenon
<1>4. gpipe' \in [GroupWorkers \X GroupWorkers -> Seq(GroupAlerts)]
  BY <1>3, Zenon DEF to_all
<1>5. ASSUME NEW v \in GroupWorkers \ {w} PROVE x \in Range(gpipe'[<<w, v>>])
  <2>1. <<w, v>> \in GroupWorkers \X GroupWorkers /\ <<w, v>>[1] = w /\ <<w, v>>[2] # w
    BY Zenon
  <2>2. gpipe'[<<w, v>>] = Append(gpipe[<<w, v>>], x)
    BY <1>2, <2>1, Zenon
  <2> QED BY <1>1, <2>1, <2>2, Sent, Zenon
<1> QED BY <1>3, <1>4, <1>5, Zenon DEF OnlySent

(* A callback that waits. *)
LEMMA WhenReady ==
    ASSUME TotalFacts, GroupsTypeOK, NEW w \in GroupWorkers, NEW cb \in Callbacks, add_whenready(w, cb)
    PROVE  /\ OnlySent
           /\ pending' = [pending EXCEPT ![w] = Append(@, cb)]
           /\ pending' \in [GroupWorkers -> Seq(Callbacks)]
           /\ \A k \in Kinds3 : Total(pending'[w], k) = Total(pending[w], k) + Amount(cb, k)
<1>1. pending[w] \in Seq(Callbacks) /\ <<w, GroupOwner>> \in GroupWorkers \X GroupWorkers
  BY GroupsAssumption, Zenon DEF GroupsTypeOK
<1>2. pending' = [pending EXCEPT ![w] = Append(@, cb)]
  BY Zenon DEF add_whenready
<1>3. pending'[w] = Append(pending[w], cb) /\ pending' \in [GroupWorkers -> Seq(Callbacks)]
  BY <1>1, <1>2 DEF GroupsTypeOK
<1>4. OnlySent
  <2>1. CASE UNCHANGED gpipe
    BY <2>1, Zenon DEF OnlySent, GroupsTypeOK
  <2>2. CASE gpipe' = [gpipe EXCEPT ![<<w, GroupOwner>>] = Append(@, "get_group")]
    BY <1>1, <2>2, SentTo, Zenon DEF GroupAlerts
  <2> QED BY <2>1, <2>2, Zenon DEF add_whenready
<1> QED BY <1>1, <1>2, <1>3, <1>4, TotalAppend, Zenon

(* A callback that counts n of a kind counts nothing of the others. *)
LEMMA CountCallback ==
    ASSUME NEW k \in Kinds3, NEW n \in Int
    PROVE  Count(k, n) \in Callbacks /\ \A j \in Kinds3 : Amount(Count(k, n), j) = IF j = k THEN n ELSE 0
  BY Zenon DEF Count, Callbacks, Amount

(* add: the counter and what waits change by n together. *)
LEMMA AddEffect ==
    ASSUME TotalFacts, GroupsTypeOK, NEW w \in GroupWorkers, NEW k \in Kinds3, NEW n \in Int, add(w, k, n)
    PROVE  /\ OnlySent
           /\ group' \in [Kinds3 -> Int]
           /\ pending' \in [GroupWorkers -> Seq(Callbacks)]
           /\ \A v \in GroupWorkers \ {w} : pending'[v] = pending[v]
           /\ \A j \in Kinds3 : \E m \in Int :
                 /\ Total(pending'[w], j) = Total(pending[w], j) + m
                 /\ group'[j] = group[j] + (IF j = k THEN n ELSE 0) - m
<1>1. pending[w] \in Seq(Callbacks)
  BY Zenon DEF GroupsTypeOK
<1>2. CASE node[w] = "ready"
  <2>1. group' = [group EXCEPT ![k] = @ + n] /\ pending' = pending /\ gpipe' = gpipe
    BY <1>2, Zenon DEF add
  <2>2. group' \in [Kinds3 -> Int] /\ \A j \in Kinds3 : group'[j] = group[j] + (IF j = k THEN n ELSE 0) - 0
    BY <2>1 DEF GroupsTypeOK
  <2>3. \A j \in Kinds3 : Total(pending'[w], j) = Total(pending[w], j) + 0
    <3>1. \A j \in Kinds3 : Total(pending[w], j) \in Int
      BY <1>1, TotalInt, Zenon
    <3> QED BY <2>1, <3>1
  <2>4. OnlySent /\ pending' \in [GroupWorkers -> Seq(Callbacks)]
    BY <2>1, Zenon DEF OnlySent, GroupsTypeOK
  <2>5. \A v \in GroupWorkers \ {w} : pending'[v] = pending[v]
    BY <2>1, Zenon
  <2> QED BY <2>2, <2>3, <2>4, <2>5
<1>3. CASE node[w] # "ready"
  <2>1. add_whenready(w, Count(k, n)) /\ group' = group
    BY <1>3, Zenon DEF add
  <2>2. /\ OnlySent /\ pending' \in [GroupWorkers -> Seq(Callbacks)]
        /\ pending' = [pending EXCEPT ![w] = Append(@, Count(k, n))]
        /\ \A j \in Kinds3 : Total(pending'[w], j) = Total(pending[w], j) + Amount(Count(k, n), j)
    BY <2>1, CountCallback, WhenReady
  <2>3. \A v \in GroupWorkers \ {w} : pending'[v] = pending[v]
    BY <2>2, Zenon DEF GroupsTypeOK
  <2>4. \A j \in Kinds3 : \E m \in Int :
           /\ Total(pending'[w], j) = Total(pending[w], j) + m
           /\ group'[j] = group[j] + (IF j = k THEN n ELSE 0) - m
    <3> TAKE j \in Kinds3
    <3>1. PICK m \in Int : m = IF j = k THEN n ELSE 0
      OBVIOUS
    <3>2. Amount(Count(k, n), j) = m
      BY <3>1, CountCallback, Zenon
    <3>3. group'[j] = group[j] + (IF j = k THEN n ELSE 0) - m
      BY <2>1, <3>1 DEF GroupsTypeOK
    <3> QED BY <2>2, <3>2, <3>3, Zenon
  <2>5. group' \in [Kinds3 -> Int]
    BY <2>1, Zenon DEF GroupsTypeOK
  <2> QED BY <2>2, <2>3, <2>4, <2>5, Zenon
<1> QED BY <1>2, <1>3, Zenon

(* A step of worker w changes the counters by what it changes in w's channel,
   now or when its callbacks are called, unless a deletion overtakes them. *)
Balanced(w) ==
    /\ \A v \in GroupWorkers \ {w} : pending'[v] = pending[v] /\ gchan'[v] = gchan[v]
    /\ ~overtaken' =>
         /\ ~overtaken
         /\ \A j \in Kinds3 : \E m \in Int, a \in Int :
               /\ Total(pending'[w], j) = Total(pending[w], j) + m
               /\ Actual(gchan'[w], j) = Actual(gchan[w], j) + a
               /\ group'[j] = group[j] + a - m

(* A step that changes neither the counters, the channels nor what waits
   keeps the balance. *)
LEMMA BalancedSame ==
    ASSUME GroupsTypeOK, NEW w \in GroupWorkers, UNCHANGED <<group, gchan, overtaken>>,
           \A v \in GroupWorkers \ {w} : pending'[v] = pending[v],
           \A j \in Kinds3 : Total(pending'[w], j) = Total(pending[w], j) + 0
    PROVE  Balanced(w)
<1>1. \A j \in Kinds3 : /\ Actual(gchan'[w], j) = Actual(gchan[w], j) + 0
                        /\ group'[j] = group[j] + 0 - 0
  <2>1. gchan[w] \in Channels
    BY Zenon DEF GroupsTypeOK
  <2>2. \A j \in Kinds3 : Actual(gchan[w], j) \in Int /\ group[j] \in Int
    BY <2>1, ActualInt, Zenon DEF GroupsTypeOK
  <2> QED BY <2>2
<1> QED BY <1>1 DEF Balanced

(* A worker's channel and add change by the same number. *)
LEMMA AddBalanced ==
    ASSUME TotalFacts, GroupsTypeOK, NEW w \in GroupWorkers, NEW k \in Kinds3, NEW n \in Int, add(w, k, n),
           NEW c \in Channels, gchan' = [gchan EXCEPT ![w] = c], overtaken' = overtaken,
           \A j \in Kinds3 : Actual(c, j) = Actual(gchan[w], j) + IF j = k THEN n ELSE 0
    PROVE  Balanced(w)
<1>1. /\ \A v \in GroupWorkers \ {w} : pending'[v] = pending[v]
      /\ \A j \in Kinds3 : \E m \in Int :
            /\ Total(pending'[w], j) = Total(pending[w], j) + m
            /\ group'[j] = group[j] + (IF j = k THEN n ELSE 0) - m
  BY AddEffect, Zenon
<1>2. gchan'[w] = c /\ \A v \in GroupWorkers \ {w} : gchan'[v] = gchan[v]
  BY Zenon DEF GroupsTypeOK
<1>3. ASSUME NEW j \in Kinds3
      PROVE  \E m \in Int, a \in Int :
               /\ Total(pending'[w], j) = Total(pending[w], j) + m
               /\ Actual(gchan'[w], j) = Actual(gchan[w], j) + a
               /\ group'[j] = group[j] + a - m
  <2>1. PICK m \in Int : /\ Total(pending'[w], j) = Total(pending[w], j) + m
                         /\ group'[j] = group[j] + (IF j = k THEN n ELSE 0) - m
    BY <1>1, Zenon
  <2>2. PICK a \in Int : a = IF j = k THEN n ELSE 0
    OBVIOUS
  <2>3. Actual(gchan'[w], j) = Actual(gchan[w], j) + a /\ group'[j] = group[j] + a - m
    BY <1>2, <2>1, <2>2, Zenon
  <2> QED BY <2>1, <2>3, Zenon
<1> QED BY <1>1, <1>2, <1>3, Zenon DEF Balanced

(* The elements of a sequence. *)
LEMMA Elements ==
    ASSUME NEW S, NEW s \in Seq(S)
    PROVE  \A k \in DOMAIN s : s[k] \in S
  OBVIOUS

(* Two sequences joined are one. *)
LEMMA Joined ==
    ASSUME NEW S, NEW s \in Seq(S), NEW t \in Seq(S)
    PROVE  s \o t \in Seq(S)
  OBVIOUS

(* Joining nothing changes nothing. *)
LEMMA JoinedNone ==
    ASSUME NEW S, NEW s \in Seq(S)
    PROVE  <<>> \o s = s /\ s \o <<>> = s
  OBVIOUS

(* Appending an element joins it. *)
LEMMA Appended ==
    ASSUME NEW S, NEW s \in Seq(S), NEW x \in S
    PROVE  Append(s, x) = s \o <<x>>
  OBVIOUS

(* What the deletion of a worker's channels leaves to its callbacks. *)
LEMMA TotalToTake ==
    ASSUME TotalFacts, GroupsTypeOK, NEW w \in GroupWorkers, NEW s, s = to_take(w, "messages") \o to_take(w, "subscribers")
    PROVE  s \in Seq(Callbacks) /\ \A k \in Kinds3 : Total(s, k) = -taken(w, k)
<1> DEFINE m == taken(w, "messages")
           n == taken(w, "subscribers")
           a == Count("messages", -m)
           b == Count("subscribers", -n)
<1>1. m \in Nat /\ n \in Nat /\ taken(w, "channels") = 0
  BY Zenon DEF taken, GroupsTypeOK, Channels
<1>0. -m = 0 - m /\ -n = 0 - n
  <2> HIDE DEF m, n
  <2> QED BY <1>1
<1>2. /\ a \in Callbacks /\ b \in Callbacks
      /\ \A j \in Kinds3 : /\ Amount(a, j) = IF j = "messages" THEN -m ELSE 0
                           /\ Amount(b, j) = IF j = "subscribers" THEN -n ELSE 0
  BY <1>1, CountCallback DEF Kinds3
<1>3. to_take(w, "messages") = (IF m = 0 THEN <<>> ELSE <<a>>)
      /\ to_take(w, "subscribers") = (IF n = 0 THEN <<>> ELSE <<b>>)
  BY Zenon DEF to_take
<1> HIDE DEF a, b, m, n
<1>4. <<>> \in Seq(Callbacks) /\ \A k \in Kinds3 : Total(<<>>, k) = 0
  BY TotalEmpty
<1>5. /\ <<a>> = Append(<<>>, a) /\ <<a>> \in Seq(Callbacks)
      /\ \A k \in Kinds3 : Total(<<a>>, k) = IF k = "messages" THEN -m ELSE 0
  <2>1. <<a>> = Append(<<>>, a) /\ <<a>> \in Seq(Callbacks)
    BY <1>2
  <2>2. \A k \in Kinds3 : Total(<<a>>, k) = 0 + Amount(a, k)
    BY <1>2, <1>4, <2>1, TotalAppend, Zenon
  <2> QED BY <1>1, <1>2, <2>1, <2>2
<1>6. /\ <<b>> = Append(<<>>, b) /\ <<b>> \in Seq(Callbacks)
      /\ \A k \in Kinds3 : Total(<<b>>, k) = IF k = "subscribers" THEN -n ELSE 0
  <2>1. <<b>> = Append(<<>>, b) /\ <<b>> \in Seq(Callbacks)
    BY <1>2
  <2>2. \A k \in Kinds3 : Total(<<b>>, k) = 0 + Amount(b, k)
    BY <1>2, <1>4, <2>1, TotalAppend, Zenon
  <2> QED BY <1>1, <1>2, <2>1, <2>2
<1>7. /\ <<a, b>> = Append(<<a>>, b) /\ <<a, b>> \in Seq(Callbacks)
      /\ \A k \in Kinds3 : Total(<<a, b>>, k) = (IF k = "messages" THEN -m ELSE 0) + (IF k = "subscribers" THEN -n ELSE 0)
  <2>1. <<a, b>> = Append(<<a>>, b) /\ <<a, b>> \in Seq(Callbacks)
    BY <1>2
  <2>2. \A k \in Kinds3 : Total(<<a, b>>, k) = Total(<<a>>, k) + Amount(b, k)
    BY <1>2, <1>5, <2>1, TotalAppend, Zenon
  <2> QED BY <1>2, <1>5, <2>1, <2>2, Zenon
<1>8. Total(s, "channels") = 0 /\ Total(s, "messages") = -m /\ Total(s, "subscribers") = -n
      /\ s \in Seq(Callbacks)
  <2>1. CASE m = 0 /\ n = 0
    <3>1. s = <<>> \o <<>>
      BY <1>3, <2>1, Zenon
    <3>2. s = <<>>
      BY <3>1, <1>4, JoinedNone, Zenon
    <3>3. s \in Seq(Callbacks) /\ Total(s, "channels") = 0 /\ Total(s, "messages") = 0 /\ Total(s, "subscribers") = 0
      BY <1>4, <3>2, Zenon DEF Kinds3
    <3>4. -m = 0 /\ -n = 0
      BY <1>0, <2>1
    <3> QED BY <3>3, <3>4, Zenon
  <2>2. CASE m = 0 /\ n # 0
    <3>1. s = <<>> \o <<b>>
      BY <1>3, <2>2, Zenon
    <3>2. s = <<b>>
      BY <3>1, <1>6, JoinedNone, Zenon
    <3>3. s \in Seq(Callbacks) /\ Total(s, "channels") = 0 /\ Total(s, "messages") = 0 /\ Total(s, "subscribers") = -n
      BY <1>6, <3>2, Zenon DEF Kinds3
    <3>4. -m = 0
      BY <1>0, <2>2
    <3> QED BY <3>3, <3>4, Zenon
  <2>3. CASE m # 0 /\ n = 0
    <3>1. s = <<a>> \o <<>>
      BY <1>3, <2>3, Zenon
    <3>2. s = <<a>>
      BY <3>1, <1>5, JoinedNone, Zenon
    <3>3. s \in Seq(Callbacks) /\ Total(s, "channels") = 0 /\ Total(s, "messages") = -m /\ Total(s, "subscribers") = 0
      BY <1>5, <3>2, Zenon DEF Kinds3
    <3>4. -n = 0
      BY <1>0, <2>3
    <3> QED BY <3>3, <3>4, Zenon
  <2>4. CASE m # 0 /\ n # 0
    <3>1. s = <<a>> \o <<b>>
      BY <1>3, <2>4, Zenon
    <3>2. s = <<a, b>>
      BY <1>2, <1>5, <1>7, <3>1, Appended, Zenon
    <3>3. \A k \in Kinds3 : Total(s, k) = (IF k = "messages" THEN -m ELSE 0) + (IF k = "subscribers" THEN -n ELSE 0)
      BY <1>7, <3>2, Zenon
    <3>4. Total(s, "channels") = 0 + 0 /\ Total(s, "messages") = (-m) + 0 /\ Total(s, "subscribers") = 0 + (-n)
      BY <3>3, Zenon DEF Kinds3
    <3>5. 0 + 0 = 0 /\ (-m) + 0 = -m /\ 0 + (-n) = -n
      BY <1>1
    <3>6. s \in Seq(Callbacks)
      BY <1>7, <3>2, Zenon
    <3> QED BY <3>4, <3>5, <3>6, Zenon
  <2> QED BY <2>1, <2>2, <2>3, <2>4, Zenon
<1> QED BY <1>1, <1>8 DEF Kinds3, m, n

(* The channels whose subscribers and messages are counted exist, a worker
   is admitted to its own channel only, and no callback adds subscribers. *)
CallbackOK(cb, w) ==
    /\ cb.type \in {"subscribe", "publish"} => w \in Users
    /\ cb.type = "count" /\ cb.kind = "subscribers" => cb.n <= 0

WorkerOK(w) ==
    /\ task[w] \in {"join", "push"} => gchan[w].live
    /\ gchan[w].listed => gchan[w].live
    /\ task[w] # "idle" => w \in Users
    /\ \A i \in DOMAIN pending[w] : CallbackOK(pending[w][i], w)

(* Deleting a channel takes from what it has what it takes from the counters. *)
LEMMA DeletedChannel ==
    ASSUME GroupsTypeOK, NEW w \in GroupWorkers, gchan[w].listed => gchan[w].live,
           NEW c, c = deleted_channel(gchan[w])
    PROVE  /\ c \in Channels /\ c.live = gchan[w].live /\ (c.listed => c.live)
           /\ \A k \in Kinds3 : taken(w, k) \in Nat /\ Actual(c, k) = Actual(gchan[w], k) - taken(w, k)
<1>1. gchan[w] \in Channels
  BY Zenon DEF GroupsTypeOK
<1>2. c \in Channels /\ c.live = gchan[w].live /\ (c.listed => c.live)
  BY <1>1, Zenon DEF deleted_channel, Channels
<1>3. taken(w, "channels") \in Nat /\ Actual(c, "channels") = Actual(gchan[w], "channels") - taken(w, "channels")
  BY <1>1, <1>2 DEF taken, Actual, Channels
<1>4. taken(w, "messages") \in Nat /\ Actual(c, "messages") = Actual(gchan[w], "messages") - taken(w, "messages")
  BY <1>1, <1>2 DEF taken, Actual, Channels, deleted_channel
<1>5. taken(w, "subscribers") \in Nat /\ Actual(c, "subscribers") = Actual(gchan[w], "subscribers") - taken(w, "subscribers")
  BY <1>1, <1>2 DEF taken, Actual, Channels, deleted_channel
<1> QED BY <1>2, <1>3, <1>4, <1>5, Zenon DEF Kinds3

(* The callbacks that a deletion puts off only take away. *)
LEMMA ToTakeOK ==
    ASSUME GroupsTypeOK, NEW w \in GroupWorkers, NEW s, s = to_take(w, "messages") \o to_take(w, "subscribers")
    PROVE  \A i \in DOMAIN s : CallbackOK(s[i], w)
<1>1. taken(w, "messages") \in Nat /\ taken(w, "subscribers") \in Nat
  BY Zenon DEF GroupsTypeOK, Channels, taken
<1>2. PICK a, b : a = Count("messages", -taken(w, "messages")) /\ b = Count("subscribers", -taken(w, "subscribers"))
  BY Zenon
<1>3. CallbackOK(a, w) /\ CallbackOK(b, w)
  BY <1>1, <1>2 DEF CallbackOK, Count
<1>4. /\ to_take(w, "messages") \in {<<>>, <<a>>}
      /\ to_take(w, "subscribers") \in {<<>>, <<b>>}
  BY <1>2, Zenon DEF to_take
<1>5. <<>> \in Seq({a, b}) /\ <<a>> \in Seq({a, b}) /\ <<b>> \in Seq({a, b})
  OBVIOUS
<1>6. to_take(w, "messages") \in Seq({a, b}) /\ to_take(w, "subscribers") \in Seq({a, b})
  BY <1>4, <1>5, Zenon
<1>7. s \in Seq({a, b})
  BY <1>6, Joined, Zenon
<1>8. \A i \in DOMAIN s : s[i] \in {a, b}
  BY <1>7, Elements, Zenon
<1>9. ASSUME NEW i \in DOMAIN s PROVE CallbackOK(s[i], w)
  <2>1. s[i] = a \/ s[i] = b
    BY <1>8, Zenon
  <2> QED BY <1>3, <2>1, Zenon
<1> QED BY <1>9, Zenon

(* What a deletion of the group does at one worker. *)
LEMMA DeleteEffect ==
    ASSUME TotalFacts, GroupsTypeOK, NEW w \in GroupWorkers, WorkerOK(w), free(w),
           NEW all \in SUBSET GroupWorkers, receive_delete(w, all)
    PROVE  /\ Balanced(w)
           /\ group' \in [Kinds3 -> Int] /\ pending' \in [GroupWorkers -> Seq(Callbacks)]
           /\ gchan' \in [GroupWorkers -> Channels]
           /\ doomed' \subseteq GroupWorkers /\ overtaken' \in BOOLEAN
           /\ group'["subscribers"] <= group["subscribers"]
           /\ gchan'[w].listed => gchan'[w].live
           /\ \A i \in DOMAIN pending'[w] : CallbackOK(pending'[w][i], w)
<1>1. /\ gchan[w] \in Channels /\ pending[w] \in Seq(Callbacks)
      /\ \A j \in Kinds3 : group[j] \in Int /\ Total(pending[w], j) \in Int /\ Actual(gchan[w], j) \in Int
  <2>1. gchan[w] \in Channels /\ pending[w] \in Seq(Callbacks) /\ \A j \in Kinds3 : group[j] \in Int
    BY Zenon DEF GroupsTypeOK
  <2>2. \A j \in Kinds3 : Total(pending[w], j) \in Int /\ Actual(gchan[w], j) \in Int
    BY <2>1, TotalInt, ActualInt, Zenon
  <2> QED BY <2>1, <2>2, Zenon
<1>2. CASE node[w] = "none"
  <2>1. doomed' = all /\ UNCHANGED <<group, pending, gchan, overtaken>>
    BY <1>2, Zenon DEF receive_delete
  <2>2. \A j \in Kinds3 : Total(pending'[w], j) = Total(pending[w], j) + 0
    BY <1>1, <2>1
  <2>3. Balanced(w)
    BY <2>1, <2>2, BalancedSame, Zenon
  <2>4. group["subscribers"] \in Int
    BY <1>1, Zenon DEF Kinds3
  <2> QED BY <2>1, <2>3, <2>4 DEF GroupsTypeOK, WorkerOK
<1>3. CASE node[w] # "none"
  <2>1. PICK c : c = deleted_channel(gchan[w])
    BY Zenon
  <2>2. /\ c \in Channels /\ c.live = gchan[w].live /\ (c.listed => c.live)
        /\ \A k \in Kinds3 : taken(w, k) \in Nat /\ Actual(c, k) = Actual(gchan[w], k) - taken(w, k)
    BY <2>1, DeletedChannel, Zenon DEF WorkerOK
  <2>3. /\ gchan' = [gchan EXCEPT ![w] = c]
        /\ doomed' = IF gchan[w].listed THEN all \ {w} ELSE all
        /\ overtaken' = (overtaken \/ \E i \in DOMAIN pending[w] : pending[w][i].type = "count")
    BY <1>3, <2>1, Zenon DEF receive_delete
  <2>4. /\ gchan' \in [GroupWorkers -> Channels] /\ gchan'[w] = c
        /\ \A v \in GroupWorkers \ {w} : gchan'[v] = gchan[v]
        /\ doomed' \subseteq GroupWorkers /\ overtaken' \in BOOLEAN
    BY <2>2, <2>3, Zenon DEF GroupsTypeOK
  <2>5. CASE node[w] = "ready"
    <3>1. group' = [k \in Kinds3 |-> group[k] - taken(w, k)] /\ pending' = pending
      BY <1>3, <2>5, Zenon DEF receive_delete
    <3>2. /\ group' \in [Kinds3 -> Int] /\ pending' \in [GroupWorkers -> Seq(Callbacks)]
          /\ group'["subscribers"] <= group["subscribers"]
      <4>1. \A k \in Kinds3 : group[k] - taken(w, k) \in Int
        BY <1>1, <2>2
      <4>2. group["subscribers"] \in Int /\ taken(w, "subscribers") \in Nat
        BY <1>1, <2>2, Zenon DEF Kinds3
      <4>3. group' \in [Kinds3 -> Int] /\ group'["subscribers"] = group["subscribers"] - taken(w, "subscribers")
        BY <3>1, <4>1, Zenon DEF Kinds3
      <4> QED BY <3>1, <4>2, <4>3 DEF GroupsTypeOK
    <3>3. pending[w] = <<>>
      BY <2>5, Zenon DEF free
    <3>4. ASSUME NEW j \in Kinds3
          PROVE  \E m \in Int, a \in Int : /\ Total(pending'[w], j) = Total(pending[w], j) + m
                                           /\ Actual(gchan'[w], j) = Actual(gchan[w], j) + a
                                           /\ group'[j] = group[j] + a - m
      <4>1. PICK m, a \in Int : m = 0 /\ a = 0 - taken(w, j)
        BY <2>2
      <4>2. Total(pending'[w], j) = Total(pending[w], j) + m
        BY <1>1, <3>1, <4>1
      <4>3. Actual(gchan'[w], j) = Actual(gchan[w], j) + a /\ group'[j] = group[j] + a - m
        BY <1>1, <2>2, <2>4, <3>1, <4>1
      <4> QED BY <4>2, <4>3, Zenon
    <3>5. ~overtaken' => ~overtaken
      BY <2>3, Zenon
    <3>6. Balanced(w)
      BY <2>4, <3>1, <3>4, <3>5, Zenon DEF Balanced
    <3>7. \A i \in DOMAIN pending'[w] : CallbackOK(pending'[w][i], w)
      BY <3>1, Zenon DEF WorkerOK
    <3> QED BY <2>2, <2>4, <3>2, <3>6, <3>7, Zenon
  <2>6. CASE node[w] # "ready"
    <3>1. PICK s : s = to_take(w, "messages") \o to_take(w, "subscribers")
      BY Zenon
    <3>2. pending' = [pending EXCEPT ![w] = s] /\ group' = group
      BY <1>3, <2>6, <3>1, Zenon DEF receive_delete
    <3>3. s \in Seq(Callbacks) /\ \A k \in Kinds3 : Total(s, k) = -taken(w, k)
      BY <3>1, TotalToTake, Zenon
    <3>4. /\ pending' \in [GroupWorkers -> Seq(Callbacks)] /\ pending'[w] = s
          /\ \A v \in GroupWorkers \ {w} : pending'[v] = pending[v]
      BY <3>2, <3>3, Zenon DEF GroupsTypeOK
    <3>5. ASSUME ~overtaken', NEW j \in Kinds3
          PROVE  \E m \in Int, a \in Int : /\ Total(pending'[w], j) = Total(pending[w], j) + m
                                           /\ Actual(gchan'[w], j) = Actual(gchan[w], j) + a
                                           /\ group'[j] = group[j] + a - m
      <4>1. PICK a \in Int : a = 0 - taken(w, j)
        BY <2>2
      <4>2. \A i \in DOMAIN pending[w] : pending[w][i].type # "count"
        BY <2>3, <3>5, Zenon
      <4>3. Total(pending[w], j) = 0
        BY <1>1, <4>2, TotalNoCount, Zenon
      <4>4. -taken(w, j) = 0 - taken(w, j)
        BY <2>2
      <4>5. Total(pending'[w], j) = Total(pending[w], j) + a
        BY <3>3, <3>4, <4>1, <4>3, <4>4, Zenon
      <4>6. Actual(gchan'[w], j) = Actual(gchan[w], j) + a /\ group'[j] = group[j] + a - a
        BY <1>1, <2>2, <2>4, <3>2, <4>1, SMTT(30)
      <4> QED BY <4>5, <4>6, Zenon
    <3>6. ~overtaken' => ~overtaken
      BY <2>3, Zenon
    <3>7. Balanced(w)
      BY <2>4, <3>4, <3>5, <3>6, Zenon DEF Balanced
    <3>8. \A i \in DOMAIN pending'[w] : CallbackOK(pending'[w][i], w)
      BY <3>1, <3>4, ToTakeOK, Zenon
    <3>9. group' \in [Kinds3 -> Int] /\ group'["subscribers"] <= group["subscribers"]
      BY <1>1, <3>2 DEF GroupsTypeOK, Kinds3
    <3> QED BY <2>2, <2>4, <3>4, <3>7, <3>8, <3>9, Zenon
  <2> QED BY <2>5, <2>6, Zenon
<1> QED BY <1>2, <1>3, Zenon

(* Who is admitted to join: nobody new, unless the limit allows for it; the
   counter grows when somebody who was admitted has joined. *)
Admitted(w) ==
    \/ group'["subscribers"] <= group["subscribers"] /\ (task'[w] = "join" => task[w] = "join")
    \/ /\ task[w] = "join" /\ task'[w] # "join"
       /\ group'["subscribers"] = group["subscribers"] + 1
    \/ /\ may_join /\ task'[w] = "join"
       /\ group'["subscribers"] = group["subscribers"]

(* What a step of worker w does to everything but the nodes and the pipes. *)
StepOf(w) ==
    /\ group' \in [Kinds3 -> Int] /\ gchan' \in [GroupWorkers -> Channels]
    /\ task' \in [GroupWorkers -> {"idle", "create", "store", "join", "push"}]
    /\ doomed' \subseteq GroupWorkers /\ deletes' \in Nat /\ overtaken' \in BOOLEAN
    /\ pending' \in [GroupWorkers -> Seq(Callbacks)]
    /\ \A v \in GroupWorkers \ {w} : task'[v] = task[v]
    /\ Balanced(w) /\ WorkerOK(w)' /\ Admitted(w)

(* A step that only looks the group up, or passes it on. *)
LEMMA StepSame ==
    ASSUME TotalFacts, GroupsTypeOK, NEW w \in GroupWorkers, WorkerOK(w),
           UNCHANGED <<group, pending, task, gchan, deletes, doomed, overtaken>>
    PROVE  StepOf(w)
<1>1. \A j \in Kinds3 : Total(pending[w], j) \in Int
  BY TotalInt, Zenon DEF GroupsTypeOK
<1>2. \A j \in Kinds3 : Total(pending'[w], j) = Total(pending[w], j) + 0
  BY <1>1
<1>3. Balanced(w)
  BY <1>2, BalancedSame, Zenon
<1>4. WorkerOK(w)'
  BY Zenon DEF WorkerOK
<1>5. Admitted(w)
  BY DEF Admitted, GroupsTypeOK, Kinds3
<1> QED BY <1>3, <1>4, <1>5, Zenon DEF StepOf, GroupsTypeOK

(* Callbacks of a worker stay as they should be when one more waits. *)
LEMMA AppendOK ==
    ASSUME GroupsTypeOK, NEW w \in GroupWorkers, WorkerOK(w), NEW cb \in Callbacks, CallbackOK(cb, w),
           pending' = [pending EXCEPT ![w] = Append(@, cb)]
    PROVE  \A i \in DOMAIN pending'[w] : CallbackOK(pending'[w][i], w)
<1>1. PICK s, t : s \in Seq(Callbacks) /\ s = pending[w] /\ t = Append(s, cb)
  BY Zenon DEF GroupsTypeOK
<1>2. pending'[w] = t
  BY <1>1, Zenon DEF GroupsTypeOK
<1>3. PICK n \in Nat : n = Len(s)
  OBVIOUS
<1>4. DOMAIN t = 1 .. n + 1 /\ DOMAIN s = 1 .. n /\ t[n + 1] = cb /\ \A i \in 1 .. n : t[i] = s[i]
  BY <1>1, <1>3
<1>5. \A i \in 1 .. n : CallbackOK(s[i], w)
  BY <1>1, <1>4, Zenon DEF WorkerOK
<1>6. ASSUME NEW i \in DOMAIN t PROVE CallbackOK(t[i], w)
  <2>1. CASE i = n + 1
    BY <1>4, <2>1, Zenon
  <2>2. CASE i # n + 1
    <3>1. i \in 1 .. n
      BY <1>4, <2>2
    <3> QED BY <1>4, <1>5, <3>1, Zenon
  <2> QED BY <2>1, <2>2, Zenon
<1> QED BY <1>2, <1>6, Zenon

(* add, of anything but new subscribers. *)
LEMMA AddOK ==
    ASSUME GroupsTypeOK, NEW w \in GroupWorkers, WorkerOK(w), NEW k \in Kinds3, NEW n \in Int,
           k = "subscribers" => n <= 0, add(w, k, n)
    PROVE  /\ \A i \in DOMAIN pending'[w] : CallbackOK(pending'[w][i], w)
           /\ group'["subscribers"] <= group["subscribers"]
<1>1. group["subscribers"] \in Int
  BY Zenon DEF GroupsTypeOK, Kinds3
<1>2. CASE node[w] = "ready"
  <2>1. pending' = pending /\ group' = [group EXCEPT ![k] = @ + n]
    BY <1>2, Zenon DEF add
  <2>2. group'["subscribers"] <= group["subscribers"]
    BY <1>1, <2>1 DEF GroupsTypeOK, Kinds3
  <2> QED BY <2>1, <2>2, Zenon DEF WorkerOK
<1>3. CASE node[w] # "ready"
  <2>1. group' = group /\ pending' = [pending EXCEPT ![w] = Append(@, Count(k, n))]
    BY <1>3, Zenon DEF add, add_whenready
  <2>2. Count(k, n) \in Callbacks
    BY CountCallback, Zenon
  <2>3. CallbackOK(Count(k, n), w)
    BY Zenon DEF CallbackOK, Count
  <2>4. PICK cb \in Callbacks : cb = Count(k, n)
    BY <2>2, Zenon
  <2>5. \A i \in DOMAIN pending'[w] : CallbackOK(pending'[w][i], w)
    BY <2>1, <2>3, <2>4, AppendOK, Zenon
  <2> QED BY <1>1, <2>1, <2>5
<1> QED BY <1>2, <1>3, Zenon

(* A free worker changes its channel and counts that. *)
LEMMA StepAdd ==
    ASSUME TotalFacts, GroupsTypeOK, NEW w \in GroupWorkers, WorkerOK(w), NEW k \in Kinds3, NEW n \in Int,
           k = "subscribers" => n <= 0, add(w, k, n), free(w),
           NEW c \in Channels, c.listed => c.live, gchan' = [gchan EXCEPT ![w] = c],
           \A j \in Kinds3 : Actual(c, j) = Actual(gchan[w], j) + IF j = k THEN n ELSE 0,
           doomed' \subseteq GroupWorkers, UNCHANGED <<task, deletes, overtaken>>
    PROVE  StepOf(w) /\ OnlySent
<1>1. Balanced(w)
  BY AddBalanced, Zenon
<1>2. OnlySent /\ group' \in [Kinds3 -> Int] /\ pending' \in [GroupWorkers -> Seq(Callbacks)]
  BY AddEffect, Zenon
<1>3. /\ \A i \in DOMAIN pending'[w] : CallbackOK(pending'[w][i], w)
      /\ group'["subscribers"] <= group["subscribers"]
  BY AddOK, Zenon
<1>4. gchan' \in [GroupWorkers -> Channels] /\ gchan'[w] = c
  BY Zenon DEF GroupsTypeOK
<1>5. WorkerOK(w)'
  BY <1>3, <1>4, Zenon DEF WorkerOK, free
<1>6. Admitted(w)
  BY <1>3, Zenon DEF Admitted
<1> QED BY <1>1, <1>2, <1>4, <1>5, <1>6, Zenon DEF StepOf, GroupsTypeOK

(* A channel is created, and counted or put off to be counted. *)
LEMMA CreateStep ==
    ASSUME TotalFacts, GroupsTypeOK, NEW w \in GroupWorkers, WorkerOK(w), create_channel(w)
    PROVE  StepOf(w) /\ OnlySent
<1>1. PICK c : c = [NoChannel EXCEPT !.live = TRUE, !.listed = TRUE]
  BY Zenon
<1>2. c = [live |-> TRUE, listed |-> TRUE, subscribers |-> 0, messages |-> 0]
  BY <1>1, Zenon DEF NoChannel
<1>3. c \in Channels /\ (c.listed => c.live)
  BY <1>2, Zenon DEF Channels
<1>4. PICK n \in Int : n = 1
  OBVIOUS
<1>5. ASSUME NEW j \in Kinds3
      PROVE  Actual(c, j) = Actual(gchan[w], j) + IF j = "channels" THEN n ELSE 0
  BY <1>2, <1>4 DEF Actual, create_channel, Kinds3
<1>6. /\ free(w) /\ gchan' = [gchan EXCEPT ![w] = c] /\ add(w, "channels", n)
      /\ UNCHANGED <<task, deletes, doomed, overtaken>>
  BY <1>1, <1>4, Zenon DEF create_channel
<1>7. doomed' \subseteq GroupWorkers
  BY <1>6, Zenon DEF GroupsTypeOK
<1>8. PICK k \in Kinds3 : k = "channels"
  BY Zenon DEF Kinds3
<1> QED BY <1>3, <1>5, <1>6, <1>7, <1>8, StepAdd, Zenon

(* A channel without subscribers and messages is reaped. *)
LEMMA ReapStep ==
    ASSUME TotalFacts, GroupsTypeOK, NEW w \in GroupWorkers, WorkerOK(w), reap_channel(w)
    PROVE  StepOf(w) /\ OnlySent
<1>1. NoChannel \in Channels /\ (NoChannel.listed => NoChannel.live)
  BY Zenon DEF NoChannel, Channels
<1>2. PICK n \in Int : n = -1
  OBVIOUS
<1>3. gchan[w].live /\ gchan[w].subscribers = 0 /\ gchan[w].messages = 0
  BY Zenon DEF reap_channel
<1>4. ASSUME NEW j \in Kinds3
      PROVE  Actual(NoChannel, j) = Actual(gchan[w], j) + IF j = "channels" THEN n ELSE 0
  <2>1. Actual(NoChannel, j) = 0
    BY Zenon DEF Actual, NoChannel
  <2>2. Actual(gchan[w], j) = IF j = "channels" THEN 1 ELSE 0
    BY <1>3, Zenon DEF Actual, Kinds3
  <2> QED BY <1>2, <2>1, <2>2
<1>5. /\ free(w) /\ gchan' = [gchan EXCEPT ![w] = NoChannel] /\ add(w, "channels", n)
      /\ doomed' = doomed \ {w} /\ UNCHANGED <<task, deletes, overtaken>>
  BY <1>2, Zenon DEF reap_channel
<1>6. doomed' \subseteq GroupWorkers
  BY <1>5, Zenon DEF GroupsTypeOK
<1>7. PICK k \in Kinds3, c \in Channels : k = "channels" /\ c = NoChannel
  BY <1>1, Zenon DEF Kinds3
<1> QED BY <1>1, <1>4, <1>5, <1>6, <1>7, StepAdd, Zenon

(* One more or one fewer subscriber, or message, of a channel. *)
LEMMA ChannelCounts ==
    ASSUME NEW c \in Channels, c.live, NEW k \in {"subscribers", "messages"}, NEW n \in Int,
           c[k] + n \in Nat, NEW d, d = [c EXCEPT ![k] = @ + n]
    PROVE  /\ d \in Channels /\ d.live /\ d.listed = c.listed
           /\ \A j \in Kinds3 : Actual(d, j) = Actual(c, j) + IF j = k THEN n ELSE 0
<1>1. CASE k = "subscribers"
  <2>1. /\ d \in Channels /\ d.live /\ d.listed = c.listed
        /\ d.subscribers = c.subscribers + n /\ d.messages = c.messages
    BY <1>1, Zenon DEF Channels
  <2>2. c.subscribers \in Nat /\ c.messages \in Nat
    BY Zenon DEF Channels
  <2>3. /\ Actual(d, "channels") = Actual(c, "channels") + 0
        /\ Actual(d, "messages") = Actual(c, "messages") + 0
        /\ Actual(d, "subscribers") = Actual(c, "subscribers") + n
    BY <2>1, <2>2 DEF Actual
  <2> QED BY <1>1, <2>1, <2>3, Zenon DEF Kinds3
<1>2. CASE k = "messages"
  <2>1. /\ d \in Channels /\ d.live /\ d.listed = c.listed
        /\ d.messages = c.messages + n /\ d.subscribers = c.subscribers
    BY <1>2, Zenon DEF Channels
  <2>2. c.subscribers \in Nat /\ c.messages \in Nat
    BY Zenon DEF Channels
  <2>3. /\ Actual(d, "channels") = Actual(c, "channels") + 0
        /\ Actual(d, "subscribers") = Actual(c, "subscribers") + 0
        /\ Actual(d, "messages") = Actual(c, "messages") + n
    BY <2>1, <2>2 DEF Actual
  <2> QED BY <1>2, <2>1, <2>3, Zenon DEF Kinds3
<1> QED BY <1>1, <1>2, Zenon

(* A subscriber leaves, or a message expires. *)
LEMMA LoseStep ==
    ASSUME TotalFacts, GroupsTypeOK, NEW w \in GroupWorkers, WorkerOK(w),
           NEW k \in {"subscribers", "messages"}, lose(w, k)
    PROVE  StepOf(w) /\ OnlySent
<1>1. PICK n \in Int : n = -1
  OBVIOUS
<1>2. PICK c, d : c = gchan[w] /\ d = [c EXCEPT ![k] = @ + n]
  BY Zenon
<1>3. c \in Channels /\ c.live /\ c[k] > 0
  BY <1>2, Zenon DEF lose, GroupsTypeOK
<1>4. c[k] \in Nat
  BY <1>3, Zenon DEF Channels
<1>5. c[k] + n \in Nat /\ c[k] + n = c[k] - 1
  BY <1>1, <1>3, <1>4
<1>6. /\ d \in Channels /\ d.live
      /\ \A j \in Kinds3 : Actual(d, j) = Actual(c, j) + IF j = k THEN n ELSE 0
  BY <1>2, <1>3, <1>5, ChannelCounts
<1>7. gchan' = [gchan EXCEPT ![w] = [c EXCEPT ![k] = c[k] - 1]]
  BY <1>2, Zenon DEF lose
<1>8. d = [c EXCEPT ![k] = c[k] - 1]
  BY <1>2, <1>5, Zenon
<1>9. gchan' = [gchan EXCEPT ![w] = d]
  BY <1>2, <1>7, <1>8, Zenon
<1>10. free(w) /\ add(w, k, n) /\ UNCHANGED <<task, deletes, doomed, overtaken>>
  BY <1>1, Zenon DEF lose
<1>11. doomed' \subseteq GroupWorkers /\ k \in Kinds3 /\ n <= 0
  BY <1>1, <1>10 DEF GroupsTypeOK, Kinds3
<1> QED BY <1>2, <1>6, <1>9, <1>10, <1>11, StepAdd, ZenonT(30)

(* A worker that has to wait for the group. *)
LEMMA StepWait ==
    ASSUME TotalFacts, GroupsTypeOK, NEW w \in GroupWorkers, WorkerOK(w), NEW cb \in Callbacks, cb.type # "count",
           CallbackOK(cb, w), add_whenready(w, cb), deletes' \in Nat,
           UNCHANGED <<group, task, gchan, doomed, overtaken>>
    PROVE  StepOf(w) /\ OnlySent
<1>1. /\ OnlySent /\ pending' = [pending EXCEPT ![w] = Append(@, cb)]
      /\ pending' \in [GroupWorkers -> Seq(Callbacks)]
      /\ \A k \in Kinds3 : Total(pending'[w], k) = Total(pending[w], k) + Amount(cb, k)
  BY WhenReady, Zenon
<1>2. \A k \in Kinds3 : Total(pending'[w], k) = Total(pending[w], k) + 0
  BY <1>1, Zenon DEF Amount
<1>3. \A v \in GroupWorkers \ {w} : pending'[v] = pending[v]
  BY <1>1, Zenon DEF GroupsTypeOK
<1>4. Balanced(w)
  BY <1>2, <1>3, BalancedSame, Zenon
<1>5. \A i \in DOMAIN pending'[w] : CallbackOK(pending'[w][i], w)
  BY <1>1, AppendOK, Zenon
<1>6. WorkerOK(w)'
  BY <1>5, Zenon DEF WorkerOK
<1>7. Admitted(w)
  BY DEF Admitted, GroupsTypeOK, Kinds3
<1> QED BY <1>1, <1>4, <1>6, <1>7, Zenon DEF StepOf, GroupsTypeOK

(* A worker that goes on to its next task, and does not join yet. *)
LEMMA StepTask ==
    ASSUME TotalFacts, GroupsTypeOK, NEW w \in GroupWorkers, WorkerOK(w), w \in Users,
           NEW t \in {"idle", "create", "store"}, task' = [task EXCEPT ![w] = t],
           UNCHANGED <<group, pending, gchan, deletes, doomed, overtaken>>
    PROVE  StepOf(w)
<1>1. \A j \in Kinds3 : Total(pending[w], j) \in Int
  BY TotalInt, Zenon DEF GroupsTypeOK
<1>2. \A j \in Kinds3 : Total(pending'[w], j) = Total(pending[w], j) + 0
  BY <1>1
<1>3. Balanced(w)
  BY <1>2, BalancedSame, Zenon
<1>4. /\ task' \in [GroupWorkers -> {"idle", "create", "store", "join", "push"}] /\ task'[w] = t
      /\ \A v \in GroupWorkers \ {w} : task'[v] = task[v]
  BY Zenon DEF GroupsTypeOK
<1>5. WorkerOK(w)'
  BY <1>4, Zenon DEF WorkerOK
<1>6. Admitted(w)
  BY <1>4 DEF Admitted, GroupsTypeOK, Kinds3
<1> QED BY <1>3, <1>4, <1>5, <1>6, Zenon DEF StepOf, GroupsTypeOK

(* A request for the group is admitted, refused or put off. *)
LEMMA RequestStep ==
    ASSUME TotalFacts, GroupsTypeOK, NEW w \in GroupWorkers, WorkerOK(w),
           NEW type \in {"subscribe", "publish"}, request(w, type)
    PROVE  StepOf(w) /\ OnlySent
<1>1. w \in Users /\ UNCHANGED <<group, node, gchan, deletes, doomed, overtaken>>
  BY Zenon DEF request
<1>2. CASE node[w] = "ready"
  <2>1. task' = [task EXCEPT ![w] = admit(w, type)] /\ UNCHANGED <<pending, gpipe>>
    BY <1>2, Zenon DEF request
  <2>2. PICK t \in {"idle", "create", "store"} : t = admit(w, type)
    BY Zenon DEF admit
  <2>3. OnlySent
    BY <2>1, Zenon DEF OnlySent, GroupsTypeOK
  <2> QED BY <1>1, <2>1, <2>2, <2>3, StepTask, Zenon
<1>3. CASE node[w] # "ready"
  <2>1. add_whenready(w, Call(type)) /\ UNCHANGED task
    BY <1>3, Zenon DEF request
  <2>2. PICK cb : cb = Call(type)
    BY Zenon
  <2>3. cb \in Callbacks /\ cb.type # "count"
    BY <2>2 DEF Call, Callbacks, Kinds3
  <2>4. CallbackOK(cb, w)
    BY <1>1, <2>3, Zenon DEF CallbackOK
  <2>5. deletes' \in Nat
    BY <1>1, Zenon DEF GroupsTypeOK
  <2> QED BY <1>1, <2>1, <2>2, <2>3, <2>4, <2>5, StepWait, Zenon
<1> QED BY <1>2, <1>3, Zenon

(* A worker that is busy changes its channel and a counter at once. *)
LEMMA StepCount ==
    ASSUME TotalFacts, GroupsTypeOK, NEW w \in GroupWorkers, NEW k \in Kinds3,
           NEW c \in Channels, gchan' = [gchan EXCEPT ![w] = c],
           group' = [group EXCEPT ![k] = @ + 1],
           \A j \in Kinds3 : Actual(c, j) = Actual(gchan[w], j) + IF j = k THEN 1 ELSE 0,
           UNCHANGED <<pending, overtaken>>
    PROVE  /\ Balanced(w) /\ group' \in [Kinds3 -> Int]
           /\ gchan' \in [GroupWorkers -> Channels] /\ gchan'[w] = c
<1>1. /\ gchan' \in [GroupWorkers -> Channels] /\ gchan'[w] = c
      /\ \A v \in GroupWorkers \ {w} : gchan'[v] = gchan[v]
  BY Zenon DEF GroupsTypeOK
<1>2. /\ group' \in [Kinds3 -> Int]
      /\ \A j \in Kinds3 : group[j] \in Int /\ group'[j] = group[j] + IF j = k THEN 1 ELSE 0
  BY DEF GroupsTypeOK
<1>3. \A j \in Kinds3 : Total(pending[w], j) \in Int
  BY TotalInt, Zenon DEF GroupsTypeOK
<1>4. ASSUME NEW j \in Kinds3
      PROVE  \E m \in Int, a \in Int : /\ Total(pending'[w], j) = Total(pending[w], j) + m
                                       /\ Actual(gchan'[w], j) = Actual(gchan[w], j) + a
                                       /\ group'[j] = group[j] + a - m
  <2>1. PICK m, a \in Int : m = 0 /\ a = IF j = k THEN 1 ELSE 0
    OBVIOUS
  <2>2. Total(pending'[w], j) = Total(pending[w], j) + m
    BY <1>3, <2>1
  <2>3. Actual(gchan'[w], j) = Actual(gchan[w], j) + a
    BY <1>1, <2>1, Zenon
  <2>4. group'[j] = group[j] + a - m
    BY <1>2, <2>1
  <2> QED BY <2>2, <2>3, <2>4, Zenon
<1> QED BY <1>1, <1>2, <1>4, Zenon DEF Balanced

(* An admitted request finds its channel or creates it. *)
LEMMA StepCreateStep ==
    ASSUME TotalFacts, GroupsTypeOK, NEW w \in GroupWorkers, WorkerOK(w), step_create(w)
    PROVE  StepOf(w) /\ OnlySent
<1>1. /\ task[w] \in {"create", "store"} /\ w \in Users
      /\ UNCHANGED <<node, pending, gpipe, deletes, doomed, overtaken>>
  BY Zenon DEF step_create, WorkerOK
<1>2. OnlySent
  BY <1>1, Zenon DEF OnlySent, GroupsTypeOK
<1>3. CASE gchan[w].live
  <2>1. PICK t : t = IF task[w] = "store" THEN "push" ELSE IF may_join THEN "join" ELSE "idle"
    BY Zenon
  <2>2. task' = [task EXCEPT ![w] = t] /\ UNCHANGED <<group, gchan>>
    BY <1>3, <2>1, Zenon DEF step_create
  <2>3. t \in {"push", "join", "idle"} /\ (t = "join" => may_join)
    BY <2>1, Zenon
  <2>4. /\ task' \in [GroupWorkers -> {"idle", "create", "store", "join", "push"}] /\ task'[w] = t
        /\ \A v \in GroupWorkers \ {w} : task'[v] = task[v]
    BY <2>2, <2>3, Zenon DEF GroupsTypeOK
  <2>5. \A j \in Kinds3 : Total(pending[w], j) \in Int
    BY TotalInt, Zenon DEF GroupsTypeOK
  <2>6. \A j \in Kinds3 : Total(pending'[w], j) = Total(pending[w], j) + 0
    BY <1>1, <2>5
  <2>7. Balanced(w)
    BY <1>1, <2>2, <2>6, BalancedSame, Zenon
  <2>8. WorkerOK(w)'
    BY <1>1, <1>3, <2>2, <2>4, Zenon DEF WorkerOK
  <2>9. Admitted(w)
    BY <2>2, <2>3, <2>4 DEF Admitted, GroupsTypeOK, Kinds3
  <2> QED BY <1>1, <1>2, <2>2, <2>4, <2>7, <2>8, <2>9, Zenon DEF StepOf, GroupsTypeOK
<1>4. CASE ~gchan[w].live
  <2>1. PICK c : c = [NoChannel EXCEPT !.live = TRUE, !.listed = TRUE]
    BY Zenon
  <2>2. c = [live |-> TRUE, listed |-> TRUE, subscribers |-> 0, messages |-> 0]
    BY <2>1, Zenon DEF NoChannel
  <2>3. c \in Channels /\ c.live
    BY <2>2, Zenon DEF Channels
  <2>4. gchan' = [gchan EXCEPT ![w] = c] /\ group' = [group EXCEPT !["channels"] = @ + 1] /\ task' = task
    BY <1>4, <2>1, Zenon DEF step_create
  <2>5. ASSUME NEW j \in Kinds3
        PROVE  Actual(c, j) = Actual(gchan[w], j) + IF j = "channels" THEN 1 ELSE 0
    BY <1>4, <2>2 DEF Actual, Kinds3
  <2>6. PICK k \in Kinds3 : k = "channels"
    BY Zenon DEF Kinds3
  <2>7. /\ Balanced(w) /\ group' \in [Kinds3 -> Int]
        /\ gchan' \in [GroupWorkers -> Channels] /\ gchan'[w] = c
    BY <1>1, <2>3, <2>4, <2>5, <2>6, StepCount, Zenon
  <2>8. WorkerOK(w)'
    BY <1>1, <2>3, <2>4, <2>7, Zenon DEF WorkerOK
  <2>9. Admitted(w)
    BY <2>4 DEF Admitted, GroupsTypeOK, Kinds3
  <2> QED BY <1>1, <1>2, <2>4, <2>7, <2>8, <2>9, Zenon DEF StepOf, GroupsTypeOK
<1> QED BY <1>3, <1>4, Zenon

(* The request adds its subscriber or its message. *)
LEMMA StepAddStep ==
    ASSUME TotalFacts, GroupsTypeOK, NEW w \in GroupWorkers, WorkerOK(w), step_add(w)
    PROVE  StepOf(w) /\ OnlySent
<1>1. /\ task[w] \in {"join", "push"} /\ gchan[w].live
      /\ task' = [task EXCEPT ![w] = "idle"]
      /\ UNCHANGED <<node, pending, gpipe, deletes, doomed, overtaken>>
  BY Zenon DEF step_add, WorkerOK
<1>2. OnlySent
  BY <1>1, Zenon DEF OnlySent, GroupsTypeOK
<1>3. PICK k \in {"subscribers", "messages"} : k = IF task[w] = "join" THEN "subscribers" ELSE "messages"
  BY Zenon
<1>4. PICK n \in Int : n = 1
  OBVIOUS
<1>5. PICK c, d : c = gchan[w] /\ d = [c EXCEPT ![k] = @ + n]
  BY Zenon
<1>6. c \in Channels /\ c.live
  BY <1>1, <1>5, Zenon DEF GroupsTypeOK
<1>7. c[k] \in Nat
  BY <1>6, Zenon DEF Channels
<1>8. c[k] + n \in Nat /\ c[k] + n = c[k] + 1
  BY <1>7, <1>4
<1>9. /\ d \in Channels /\ d.live
      /\ \A j \in Kinds3 : Actual(d, j) = Actual(c, j) + IF j = k THEN n ELSE 0
  BY <1>5, <1>6, <1>8, ChannelCounts
<1>10. gchan' = [gchan EXCEPT ![w] = [c EXCEPT ![k] = c[k] + 1]] /\ group' = [group EXCEPT ![k] = @ + 1]
  BY <1>3, <1>5, Zenon DEF step_add
<1>11. d = [c EXCEPT ![k] = c[k] + 1] /\ k \in Kinds3
  BY <1>5, <1>8, Zenon DEF Kinds3
<1>12. gchan' = [gchan EXCEPT ![w] = d]
  BY <1>10, <1>11, Zenon
<1>13. \A j \in Kinds3 : Actual(d, j) = Actual(gchan[w], j) + IF j = k THEN 1 ELSE 0
  BY <1>5, <1>4, <1>9, Zenon
<1>14. /\ Balanced(w) /\ group' \in [Kinds3 -> Int]
       /\ gchan' \in [GroupWorkers -> Channels] /\ gchan'[w] = d
  BY <1>1, <1>9, <1>10, <1>12, <1>11, <1>13, StepCount, Zenon
<1>15. /\ task' \in [GroupWorkers -> {"idle", "create", "store", "join", "push"}] /\ task'[w] = "idle"
       /\ \A v \in GroupWorkers \ {w} : task'[v] = task[v]
  BY <1>1, Zenon DEF GroupsTypeOK
<1>16. WorkerOK(w)'
  BY <1>1, <1>9, <1>14, <1>15, Zenon DEF WorkerOK
<1>17. Admitted(w)
  <2>1. CASE task[w] = "join"
    <3>1. group'["subscribers"] = group["subscribers"] + 1
      BY <1>3, <1>10, <2>1, Zenon DEF GroupsTypeOK, Kinds3
    <3> QED BY <1>15, <2>1, <3>1, Zenon DEF Admitted
  <2>2. CASE task[w] # "join"
    <3>1. group'["subscribers"] = group["subscribers"] /\ group["subscribers"] \in Int
      BY <1>3, <1>10, <2>2, Zenon DEF GroupsTypeOK, Kinds3
    <3> QED BY <1>15, <3>1 DEF Admitted
  <2> QED BY <2>1, <2>2, Zenon
<1> QED BY <1>1, <1>2, <1>14, <1>15, <1>16, <1>17, Zenon DEF StepOf, GroupsTypeOK

(* A worker deletes its channels of the group, and does nothing else. *)
LEMMA StepDelete ==
    ASSUME TotalFacts, GroupsTypeOK, NEW w \in GroupWorkers, WorkerOK(w), free(w),
           NEW all \in SUBSET GroupWorkers, receive_delete(w, all), task' = task, deletes' \in Nat
    PROVE  StepOf(w)
<1>1. /\ Balanced(w)
      /\ group' \in [Kinds3 -> Int] /\ pending' \in [GroupWorkers -> Seq(Callbacks)]
      /\ gchan' \in [GroupWorkers -> Channels]
      /\ doomed' \subseteq GroupWorkers /\ overtaken' \in BOOLEAN
      /\ group'["subscribers"] <= group["subscribers"]
      /\ gchan'[w].listed => gchan'[w].live
      /\ \A i \in DOMAIN pending'[w] : CallbackOK(pending'[w][i], w)
  BY DeleteEffect, Zenon
<1>2. WorkerOK(w)'
  BY <1>1, Zenon DEF WorkerOK, free
<1>3. Admitted(w)
  BY <1>1, Zenon DEF Admitted
<1> QED BY <1>1, <1>2, <1>3, Zenon DEF StepOf, GroupsTypeOK

(* A client has the group deleted. *)
LEMMA DeleteStep ==
    ASSUME TotalFacts, GroupsTypeOK, NEW w \in GroupWorkers, WorkerOK(w), memstore_group_delete(w)
    PROVE  StepOf(w) /\ OnlySent
<1>1. free(w) /\ deletes' = deletes + 1 /\ UNCHANGED <<node, task>> /\ deletes' \in Nat
  BY DEF memstore_group_delete, GroupsTypeOK
<1>2. CASE node[w] = "ready"
  <2>1. group_delete_callback(w)
    BY <1>2, Zenon DEF memstore_group_delete
  <2>2. PICK all \in SUBSET GroupWorkers : all = doomed \cup {v \in GroupWorkers : gchan[v].live}
    BY Zenon DEF GroupsTypeOK
  <2>3. gpipe' = to_all(w, "group_delete")
    BY <2>1, Zenon DEF group_delete_callback
  <2>4. OnlySent
    BY <2>3, SentToAll, Zenon DEF GroupAlerts
  <2>5. CASE w = GroupOwner
    <3>1. receive_delete(w, all)
      BY <2>1, <2>2, <2>5, Zenon DEF group_delete_callback
    <3> QED BY <1>1, <2>4, <3>1, StepDelete, Zenon
  <2>6. CASE w # GroupOwner
    <3>1. doomed' = all /\ UNCHANGED <<group, pending, gchan, overtaken>>
      BY <2>1, <2>2, <2>6, Zenon DEF group_delete_callback
    <3>2. \A j \in Kinds3 : Total(pending[w], j) \in Int
      BY TotalInt, Zenon DEF GroupsTypeOK
    <3>3. \A j \in Kinds3 : Total(pending'[w], j) = Total(pending[w], j) + 0
      BY <3>1, <3>2
    <3>4. Balanced(w)
      BY <3>1, <3>3, BalancedSame, Zenon
    <3>5. WorkerOK(w)' /\ Admitted(w)
      BY <1>1, <3>1 DEF WorkerOK, Admitted, GroupsTypeOK, Kinds3
    <3> QED BY <1>1, <2>4, <3>1, <3>4, <3>5, Zenon DEF StepOf, GroupsTypeOK
  <2> QED BY <2>5, <2>6, Zenon
<1>3. CASE node[w] # "ready"
  <2>1. add_whenready(w, Call("delete")) /\ UNCHANGED <<group, gchan, doomed, overtaken>>
    BY <1>3, Zenon DEF memstore_group_delete
  <2>2. PICK cb : cb = Call("delete")
    BY Zenon
  <2>3. cb \in Callbacks /\ cb.type = "delete"
    BY <2>2 DEF Call, Callbacks, Kinds3
  <2>4. CallbackOK(cb, w)
    BY <2>3, Zenon DEF CallbackOK
  <2> QED BY <1>1, <2>1, <2>2, <2>3, <2>4, StepWait, Zenon
<1> QED BY <1>2, <1>3, Zenon

(* The callbacks that are left when the first one is taken. *)
LEMMA TailOK ==
    ASSUME TotalFacts, GroupsTypeOK, NEW w \in GroupWorkers, WorkerOK(w), pending[w] # <<>>,
           pending' = [pending EXCEPT ![w] = Tail(@)]
    PROVE  /\ pending' \in [GroupWorkers -> Seq(Callbacks)]
           /\ \A v \in GroupWorkers \ {w} : pending'[v] = pending[v]
           /\ Head(pending[w]) \in Callbacks /\ CallbackOK(Head(pending[w]), w)
           /\ \A i \in DOMAIN pending'[w] : CallbackOK(pending'[w][i], w)
           /\ \A k \in Kinds3 : Total(pending'[w], k) = Total(pending[w], k) - Amount(Head(pending[w]), k)
<1>1. PICK s, t : s \in Seq(Callbacks) /\ s = pending[w] /\ t = Tail(s)
  BY Zenon DEF GroupsTypeOK
<1>2. t \in Seq(Callbacks) /\ s # <<>>
  BY <1>1
<1>3. /\ pending' \in [GroupWorkers -> Seq(Callbacks)] /\ pending'[w] = t
      /\ \A v \in GroupWorkers \ {w} : pending'[v] = pending[v]
  BY <1>1, <1>2, Zenon DEF GroupsTypeOK
<1>4. PICK n \in Nat : n = Len(t)
  BY <1>2
<1>5. /\ DOMAIN s = 1 .. n + 1 /\ DOMAIN t = 1 .. n /\ Head(s) = s[1] /\ Head(s) \in Callbacks
      /\ \A i \in 1 .. n : t[i] = s[i + 1]
  BY <1>1, <1>2, <1>4
<1>6. \A i \in DOMAIN s : CallbackOK(s[i], w)
  BY <1>1, Zenon DEF WorkerOK
<1>7. 1 \in DOMAIN s /\ \A i \in DOMAIN t : i + 1 \in DOMAIN s
  BY <1>5
<1>8. CallbackOK(Head(s), w)
  BY <1>5, <1>6, <1>7, Zenon
<1>9. ASSUME NEW i \in DOMAIN t PROVE CallbackOK(t[i], w)
  <2>1. t[i] = s[i + 1] /\ i + 1 \in DOMAIN s
    BY <1>5, <1>7, Zenon
  <2> QED BY <1>6, <2>1, Zenon
<1>10. \A k \in Kinds3 : Total(t, k) = Total(s, k) - Amount(Head(s), k)
  BY <1>1, <1>2, TotalTail, Zenon
<1>11. \A i \in DOMAIN pending'[w] : CallbackOK(pending'[w][i], w)
  BY <1>3, <1>9, Zenon
<1>12. Head(pending[w]) \in Callbacks /\ CallbackOK(Head(pending[w]), w)
  BY <1>1, <1>5, <1>8, Zenon
<1> QED BY <1>1, <1>3, <1>10, <1>11, <1>12, Zenon

(* A worker that has the group runs the first callback that waited for it
   (groupnode_ready). *)
LEMMA RunStep ==
    ASSUME TotalFacts, GroupsTypeOK, NEW w \in GroupWorkers, WorkerOK(w), run_whenready(w)
    PROVE  StepOf(w) /\ OnlySent
<1>1. PICK cb : cb = Head(pending[w])
  BY Zenon
<1>2. /\ node[w] = "ready" /\ pending[w] # <<>> /\ task[w] = "idle"
      /\ pending' = [pending EXCEPT ![w] = Tail(@)] /\ UNCHANGED <<node, deletes>>
  BY Zenon DEF run_whenready
<1>3. /\ pending' \in [GroupWorkers -> Seq(Callbacks)]
      /\ \A v \in GroupWorkers \ {w} : pending'[v] = pending[v]
      /\ cb \in Callbacks /\ CallbackOK(cb, w)
      /\ \A i \in DOMAIN pending'[w] : CallbackOK(pending'[w][i], w)
      /\ \A k \in Kinds3 : Total(pending'[w], k) = Total(pending[w], k) - Amount(cb, k)
  BY <1>1, <1>2, TailOK, Zenon
<1>4. \A k \in Kinds3 : Total(pending[w], k) \in Int
  BY TotalInt, Zenon DEF GroupsTypeOK
<1>5. CASE cb.type = "count"
  <2>1. group' = [group EXCEPT ![cb.kind] = @ + cb.n] /\ UNCHANGED <<task, gchan, gpipe, doomed, overtaken>>
    BY <1>1, <1>5, Zenon DEF run_whenready
  <2>2. PICK k \in Kinds3, n \in Int : k = cb.kind /\ n = cb.n /\ (k = "subscribers" => n <= 0)
    BY <1>3, <1>5, Zenon DEF Callbacks, CallbackOK
  <2>3. /\ group' \in [Kinds3 -> Int]
        /\ \A j \in Kinds3 : group[j] \in Int /\ group'[j] = group[j] + IF j = k THEN n ELSE 0
    BY <2>1, <2>2 DEF GroupsTypeOK
  <2>4. \A j \in Kinds3 : Amount(cb, j) = IF j = k THEN n ELSE 0
    BY <1>5, <2>2, Zenon DEF Amount
  <2>5. ASSUME NEW j \in Kinds3
        PROVE  \E m \in Int, a \in Int : /\ Total(pending'[w], j) = Total(pending[w], j) + m
                                         /\ Actual(gchan'[w], j) = Actual(gchan[w], j) + a
                                         /\ group'[j] = group[j] + a - m
    <3>1. PICK m, a \in Int : m = (0 - IF j = k THEN n ELSE 0) /\ a = 0
      OBVIOUS
    <3>2. Total(pending'[w], j) = Total(pending[w], j) + m
      BY <1>3, <1>4, <2>4, <3>1
    <3>3. Actual(gchan[w], j) \in Int /\ gchan' = gchan
      BY <2>1, ActualInt, Zenon DEF GroupsTypeOK
    <3>4. Actual(gchan'[w], j) = Actual(gchan[w], j) + a
      BY <3>1, <3>3
    <3>5. group'[j] = group[j] + a - m
      BY <2>3, <3>1
    <3> QED BY <3>2, <3>4, <3>5, Zenon
  <2>6. Balanced(w)
    BY <1>3, <2>1, <2>5, Zenon DEF Balanced
  <2>7. WorkerOK(w)'
    BY <1>3, <2>1, Zenon DEF WorkerOK
  <2>8. "subscribers" \in Kinds3
    BY Zenon DEF Kinds3
  <2>9. group["subscribers"] \in Int /\ group'["subscribers"] = group["subscribers"] + IF "subscribers" = k THEN n ELSE 0
    BY <2>3, <2>8, Zenon
  <2>10. group'["subscribers"] <= group["subscribers"]
    BY <2>2, <2>9
  <2>11. Admitted(w)
    BY <2>1, <2>10, Zenon DEF Admitted
  <2>12. OnlySent
    BY <2>1, Zenon DEF OnlySent, GroupsTypeOK
  <2> QED BY <1>2, <1>3, <2>1, <2>3, <2>6, <2>7, <2>11, <2>12, Zenon DEF StepOf, GroupsTypeOK
<1>6. CASE cb.type # "count"
  <2>1. \A k \in Kinds3 : Total(pending'[w], k) = Total(pending[w], k) + 0
    BY <1>3, <1>4, <1>6 DEF Amount
  <2>2. UNCHANGED <<group, gchan, overtaken>>
    BY <1>1, <1>6, Zenon DEF run_whenready
  <2>3. Balanced(w)
    BY <1>3, <2>1, <2>2, BalancedSame, Zenon
  <2>4. CASE cb.type \in {"subscribe", "publish"}
    <3>1. PICK t \in {"idle", "create", "store"} : t = admit(w, cb.type)
      BY Zenon DEF admit
    <3>2. task' = [task EXCEPT ![w] = t] /\ UNCHANGED <<gpipe, doomed>>
      BY <1>1, <2>4, <3>1, Zenon DEF run_whenready
    <3>3. w \in Users
      BY <1>3, <2>4, Zenon DEF CallbackOK
    <3>4. /\ task' \in [GroupWorkers -> {"idle", "create", "store", "join", "push"}] /\ task'[w] = t
          /\ \A v \in GroupWorkers \ {w} : task'[v] = task[v]
      BY <3>2, Zenon DEF GroupsTypeOK
    <3>5. WorkerOK(w)'
      BY <1>3, <2>2, <3>3, <3>4, Zenon DEF WorkerOK
    <3>6. Admitted(w)
      BY <2>2, <3>4 DEF Admitted, GroupsTypeOK, Kinds3
    <3>7. OnlySent
      BY <3>2, Zenon DEF OnlySent, GroupsTypeOK
    <3> QED BY <1>2, <1>3, <2>2, <2>3, <3>2, <3>4, <3>5, <3>6, <3>7, Zenon DEF StepOf, GroupsTypeOK
  <2>5. CASE cb.type = "delete"
    <3>1. /\ gpipe' = to_all(w, "group_delete") /\ task' = task
          /\ doomed' = doomed \cup {v \in GroupWorkers : gchan[v].live}
      BY <1>1, <2>5, Zenon DEF run_whenready
    <3>2. OnlySent
      BY <3>1, SentToAll, Zenon DEF GroupAlerts
    <3>3. doomed' \subseteq GroupWorkers
      BY <3>1, Zenon DEF GroupsTypeOK
    <3>4. WorkerOK(w)'
      BY <1>3, <2>2, <3>1, Zenon DEF WorkerOK
    <3>5. Admitted(w)
      BY <2>2, <3>1 DEF Admitted, GroupsTypeOK, Kinds3
    <3> QED BY <1>2, <1>3, <2>2, <2>3, <3>1, <3>2, <3>3, <3>4, <3>5, Zenon DEF StepOf, GroupsTypeOK
  <2> QED BY <1>3, <1>6, <2>4, <2>5, Zenon DEF Callbacks
<1> QED BY <1>5, <1>6, Zenon

-----------------------------------------------------------------------------
(* The nodes and the pipes. *)
Answered ==
    \A w \in GroupWorkers : node[w] = "waiting" =>
        /\ w # GroupOwner
        /\ \/ "get_group" \in Range(gpipe[<<w, GroupOwner>>])
           \/ "group" \in Range(gpipe[<<GroupOwner, w>>])

Told ==
    /\ gpipe' \in [GroupWorkers \X GroupWorkers -> Seq(GroupAlerts)]
    /\ node' \in [GroupWorkers -> {"none", "waiting", "ready"}]
    /\ Answered'

(* A step that only sends keeps what is on its way. *)
LEMMA SentAnswered ==
    ASSUME GroupsTypeOK, Answered, OnlySent, node' = node
    PROVE  Told
<1>1. ASSUME NEW w \in GroupWorkers, node'[w] = "waiting"
      PROVE  /\ w # GroupOwner
             /\ \/ "get_group" \in Range(gpipe'[<<w, GroupOwner>>])
                \/ "group" \in Range(gpipe'[<<GroupOwner, w>>])
  <2>1. <<w, GroupOwner>> \in GroupWorkers \X GroupWorkers /\ <<GroupOwner, w>> \in GroupWorkers \X GroupWorkers
    BY GroupsAssumption, Zenon
  <2> QED BY <1>1, <2>1, Zenon DEF Answered, OnlySent
<1> QED BY <1>1, Zenon DEF Told, Answered, OnlySent, GroupsTypeOK

(* Looking for a group creates it at the owner, or asks the owner for it. *)
LEMMA FindTold ==
    ASSUME GroupsTypeOK, Answered, NEW w \in GroupWorkers, find_groupnode(w)
    PROVE  Told
<1>1. node[w] = "none" /\ groupnode_get(w)
  BY Zenon DEF find_groupnode
<1>2. <<w, GroupOwner>> \in GroupWorkers \X GroupWorkers /\ <<GroupOwner, w>> \in GroupWorkers \X GroupWorkers
  BY GroupsAssumption, Zenon
<1>3. CASE w = GroupOwner
  <2>1. node' = [node EXCEPT ![w] = "ready"] /\ gpipe' = to_all(w, "group")
    BY <1>1, <1>3, Zenon DEF groupnode_get
  <2>2. OnlySent
    BY <2>1, SentToAll, Zenon DEF GroupAlerts
  <2>3. ASSUME NEW v \in GroupWorkers, node'[v] = "waiting"
        PROVE  /\ v # GroupOwner
               /\ \/ "get_group" \in Range(gpipe'[<<v, GroupOwner>>])
                  \/ "group" \in Range(gpipe'[<<GroupOwner, v>>])
    <3>1. node[v] = "waiting"
      BY <2>1, <2>3, Zenon DEF GroupsTypeOK
    <3>2. <<v, GroupOwner>> \in GroupWorkers \X GroupWorkers /\ <<GroupOwner, v>> \in GroupWorkers \X GroupWorkers
      BY GroupsAssumption, Zenon
    <3> QED BY <2>2, <3>1, <3>2, Zenon DEF Answered, OnlySent
  <2> QED BY <2>1, <2>2, <2>3, Zenon DEF Told, Answered, OnlySent, GroupsTypeOK
<1>4. CASE w # GroupOwner
  <2>1. /\ node' = [node EXCEPT ![w] = "waiting"]
        /\ gpipe' = [gpipe EXCEPT ![<<w, GroupOwner>>] = Append(@, "get_group")]
    BY <1>1, <1>4, Zenon DEF groupnode_get
  <2>2. OnlySent /\ "get_group" \in Range(gpipe'[<<w, GroupOwner>>])
    BY <1>2, <2>1, SentTo, Zenon DEF GroupAlerts
  <2>3. ASSUME NEW v \in GroupWorkers, node'[v] = "waiting"
        PROVE  /\ v # GroupOwner
               /\ \/ "get_group" \in Range(gpipe'[<<v, GroupOwner>>])
                  \/ "group" \in Range(gpipe'[<<GroupOwner, v>>])
    <3>1. CASE v = w
      BY <1>4, <2>2, <3>1, Zenon
    <3>2. CASE v # w
      <4>1. node[v] = "waiting"
        BY <2>1, <2>3, <3>2, Zenon DEF GroupsTypeOK
      <4>2. <<v, GroupOwner>> \in GroupWorkers \X GroupWorkers /\ <<GroupOwner, v>> \in GroupWorkers \X GroupWorkers
        BY GroupsAssumption, Zenon
      <4> QED BY <2>2, <4>1, <4>2, Zenon DEF Answered, OnlySent
    <3> QED BY <3>1, <3>2, Zenon
  <2> QED BY <2>1, <2>2, <2>3, Zenon DEF Told, Answered, OnlySent, GroupsTypeOK
<1> QED BY <1>3, <1>4, Zenon

(* A pipe of which the first alert is read. *)
LEMMA Popped ==
    ASSUME GroupsTypeOK, NEW p \in GroupWorkers \X GroupWorkers, gpipe[p] # <<>>,
           gpipe' = [gpipe EXCEPT ![p] = Tail(@)]
    PROVE  /\ gpipe' \in [GroupWorkers \X GroupWorkers -> Seq(GroupAlerts)]
           /\ \A q \in GroupWorkers \X GroupWorkers : q # p => gpipe'[q] = gpipe[q]
           /\ \A x : x # Head(gpipe[p]) /\ x \in Range(gpipe[p]) => x \in Range(gpipe'[p])
<1>1. PICK s \in Seq(GroupAlerts) : s = gpipe[p]
  BY Zenon DEF GroupsTypeOK
<1>2. Tail(s) \in Seq(GroupAlerts) /\ Range(s) \ {Head(s)} \subseteq Range(Tail(s))
  BY <1>1, Read, Zenon
<1>3. /\ gpipe' \in [GroupWorkers \X GroupWorkers -> Seq(GroupAlerts)] /\ gpipe'[p] = Tail(s)
      /\ \A q \in GroupWorkers \X GroupWorkers : q # p => gpipe'[q] = gpipe[q]
  BY <1>1, <1>2, Zenon DEF GroupsTypeOK
<1> QED BY <1>1, <1>2, <1>3, Zenon

(* A worker that is told where the group is waits no longer. *)
LEMMA GroupTold ==
    ASSUME GroupsTypeOK, Answered, NEW w \in GroupWorkers, receive_group(w)
    PROVE  Told
<1>1. PICK p \in GroupWorkers \X GroupWorkers : p = <<GroupOwner, w>>
  BY GroupsAssumption, Zenon
<1>2. /\ node' = [node EXCEPT ![w] = "ready"] /\ gpipe[p] # <<>>
      /\ gpipe' = [gpipe EXCEPT ![p] = Tail(@)]
  BY <1>1, Zenon DEF receive_group, arrives
<1>3. /\ gpipe' \in [GroupWorkers \X GroupWorkers -> Seq(GroupAlerts)]
      /\ \A q \in GroupWorkers \X GroupWorkers : q # p => gpipe'[q] = gpipe[q]
  BY <1>2, Popped, Zenon
<1>4. ASSUME NEW v \in GroupWorkers, node'[v] = "waiting"
      PROVE  /\ v # GroupOwner
             /\ \/ "get_group" \in Range(gpipe'[<<v, GroupOwner>>])
                \/ "group" \in Range(gpipe'[<<GroupOwner, v>>])
  <2>1. v # w /\ node[v] = "waiting"
    BY <1>2, <1>4, Zenon DEF GroupsTypeOK
  <2>2. v # GroupOwner
    BY <2>1, Zenon DEF Answered
  <2>3. /\ <<v, GroupOwner>> \in GroupWorkers \X GroupWorkers /\ <<v, GroupOwner>> # p
        /\ <<GroupOwner, v>> \in GroupWorkers \X GroupWorkers /\ <<GroupOwner, v>> # p
    BY <1>1, <2>1, <2>2, GroupsAssumption, Zenon
  <2> QED BY <1>3, <2>1, <2>3, Zenon DEF Answered
<1> QED BY <1>2, <1>3, <1>4, Zenon DEF Told, Answered, GroupsTypeOK

(* An alert about a deletion is no answer to anyone who waits. *)
LEMMA GroupDeleteTold ==
    ASSUME GroupsTypeOK, Answered, NEW v \in GroupWorkers, NEW w \in GroupWorkers, receive_group_delete(v, w)
    PROVE  Told
<1>1. PICK p \in GroupWorkers \X GroupWorkers : p = <<v, w>>
  BY Zenon
<1>2. /\ node' = node /\ gpipe[p] # <<>> /\ Head(gpipe[p]) = "group_delete"
      /\ gpipe' = [gpipe EXCEPT ![p] = Tail(@)]
  BY <1>1, Zenon DEF receive_group_delete, arrives
<1>3. /\ gpipe' \in [GroupWorkers \X GroupWorkers -> Seq(GroupAlerts)]
      /\ \A q \in GroupWorkers \X GroupWorkers : q # p => gpipe'[q] = gpipe[q]
      /\ \A x : x # "group_delete" /\ x \in Range(gpipe[p]) => x \in Range(gpipe'[p])
  BY <1>2, Popped, Zenon
<1>4. \A q \in GroupWorkers \X GroupWorkers, x \in {"get_group", "group"} :
         x \in Range(gpipe[q]) => x \in Range(gpipe'[q])
  BY <1>3, Zenon
<1>5. ASSUME NEW u \in GroupWorkers, node'[u] = "waiting"
      PROVE  /\ u # GroupOwner
             /\ \/ "get_group" \in Range(gpipe'[<<u, GroupOwner>>])
                \/ "group" \in Range(gpipe'[<<GroupOwner, u>>])
  <2>1. <<u, GroupOwner>> \in GroupWorkers \X GroupWorkers /\ <<GroupOwner, u>> \in GroupWorkers \X GroupWorkers
    BY GroupsAssumption, Zenon
  <2> QED BY <1>2, <1>4, <1>5, <2>1, Zenon DEF Answered
<1> QED BY <1>2, <1>3, <1>5, Zenon DEF Told, Answered, GroupsTypeOK

(* The owner reads a request: a new group goes to everybody, and with the
   group at hand the answer goes to the one that asks. *)
LEMMA GetGroupTold ==
    ASSUME GroupsTypeOK, Answered, NEW v \in GroupWorkers, receive_get_group(v)
    PROVE  Told
<1>1. PICK p \in GroupWorkers \X GroupWorkers, r \in GroupWorkers \X GroupWorkers :
         p = <<v, GroupOwner>> /\ r = <<GroupOwner, v>>
  BY GroupsAssumption, Zenon
<1>2. node' = [node EXCEPT ![GroupOwner] = "ready"] /\ gpipe[p] # <<>>
  BY <1>1, Zenon DEF receive_get_group, arrives
<1>3. \A u \in GroupWorkers : node'[u] = "waiting" => u # GroupOwner /\ node[u] = "waiting"
  BY <1>2, GroupsAssumption, Zenon DEF GroupsTypeOK
<1>4. \A q \in GroupWorkers \X GroupWorkers : gpipe[q] \in Seq(GroupAlerts)
  BY Zenon DEF GroupsTypeOK
<1>5. CASE node[GroupOwner] = "none"
  <2>1. PICK f : f = to_all(GroupOwner, "group")
    BY Zenon
  <2>2. gpipe' = [f EXCEPT ![p] = Tail(@)]
    BY <1>1, <1>5, <2>1, Zenon DEF receive_get_group
  <2>3. \A q \in GroupWorkers \X GroupWorkers :
           f[q] = IF q[1] = GroupOwner /\ q[2] # GroupOwner THEN Append(gpipe[q], "group") ELSE gpipe[q]
    BY <2>1, Zenon DEF to_all
  <2>4. \A q \in GroupWorkers \X GroupWorkers : f[q] \in Seq(GroupAlerts)
    <3>1. PICK x \in GroupAlerts : x = "group"
      BY Zenon DEF GroupAlerts
    <3>2. \A q \in GroupWorkers \X GroupWorkers : Append(gpipe[q], x) \in Seq(GroupAlerts)
      BY <1>4, Sent, Zenon
    <3> QED BY <1>4, <2>3, <3>1, <3>2, Zenon
  <2>5. f \in [GroupWorkers \X GroupWorkers -> Seq(GroupAlerts)] /\ f[p] = gpipe[p]
    BY <1>1, <2>1, <2>3, <2>4, Zenon DEF to_all
  <2>6. Tail(f[p]) \in Seq(GroupAlerts)
    BY <1>2, <2>4, <2>5
  <2>7. /\ gpipe' \in [GroupWorkers \X GroupWorkers -> Seq(GroupAlerts)]
        /\ \A q \in GroupWorkers \X GroupWorkers : q # p => gpipe'[q] = f[q]
    BY <2>2, <2>5, <2>6
  <2>8. ASSUME NEW u \in GroupWorkers, u # GroupOwner PROVE "group" \in Range(gpipe'[<<GroupOwner, u>>])
    <3>1. PICK q \in GroupWorkers \X GroupWorkers : q = <<GroupOwner, u>>
      BY GroupsAssumption, Zenon
    <3>2. q # p /\ q[1] = GroupOwner /\ q[2] # GroupOwner
      BY <1>1, <2>8, <3>1, Zenon
    <3>3. gpipe'[q] = Append(gpipe[q], "group")
      BY <2>3, <2>7, <3>2, Zenon
    <3>4. PICK s \in Seq(GroupAlerts), x \in GroupAlerts : s = gpipe[q] /\ x = "group"
      BY <1>4, Zenon DEF GroupAlerts
    <3>5. x \in Range(Append(s, x))
      BY Sent, Zenon
    <3> QED BY <3>1, <3>3, <3>4, <3>5, Zenon
  <2> QED BY <1>2, <1>3, <2>7, <2>8, Zenon DEF Told, Answered, GroupsTypeOK
<1>6. CASE node[GroupOwner] # "none"
  <2>1. PICK f : f = [gpipe EXCEPT ![p] = Tail(@)]
    BY Zenon
  <2>2. gpipe' = [f EXCEPT ![r] = Append(@, "group")]
    BY <1>1, <1>6, <2>1, Zenon DEF receive_get_group
  <2>3. Tail(gpipe[p]) \in Seq(GroupAlerts)
    BY <1>2, <1>4
  <2>4. /\ f \in [GroupWorkers \X GroupWorkers -> Seq(GroupAlerts)]
        /\ \A q \in GroupWorkers \X GroupWorkers : q # p => f[q] = gpipe[q]
    BY <2>1, <2>3, Zenon DEF GroupsTypeOK
  <2>5. PICK s \in Seq(GroupAlerts), x \in GroupAlerts : s = f[r] /\ x = "group"
    BY <2>4, Zenon DEF GroupAlerts
  <2>6. Append(s, x) \in Seq(GroupAlerts) /\ x \in Range(Append(s, x))
    BY Sent, Zenon
  <2>7. /\ gpipe' \in [GroupWorkers \X GroupWorkers -> Seq(GroupAlerts)] /\ gpipe'[r] = Append(s, x)
        /\ \A q \in GroupWorkers \X GroupWorkers : q # r => gpipe'[q] = f[q]
    BY <2>2, <2>4, <2>5, <2>6, Zenon
  <2>8. ASSUME NEW u \in GroupWorkers, node'[u] = "waiting"
        PROVE  \/ "get_group" \in Range(gpipe'[<<u, GroupOwner>>])
               \/ "group" \in Range(gpipe'[<<GroupOwner, u>>])
    <3>1. CASE u = v
      BY <1>1, <2>5, <2>6, <2>7, <3>1, Zenon
    <3>2. CASE u # v
      <4>1. u # GroupOwner /\ node[u] = "waiting"
        BY <1>3, <2>8, Zenon
      <4>2. PICK q \in GroupWorkers \X GroupWorkers, t \in GroupWorkers \X GroupWorkers :
               q = <<u, GroupOwner>> /\ t = <<GroupOwner, u>>
        BY GroupsAssumption, Zenon
      <4>3. q # p /\ q # r /\ t # p /\ t # r
        BY <1>1, <3>2, <4>1, <4>2, Zenon
      <4>4. gpipe'[q] = gpipe[q] /\ gpipe'[t] = gpipe[t]
        BY <2>4, <2>7, <4>3, Zenon
      <4> QED BY <4>1, <4>2, <4>4, Zenon DEF Answered
    <3> QED BY <3>1, <3>2, Zenon
  <2> QED BY <1>2, <1>3, <2>7, <2>8, Zenon DEF Told, Answered, GroupsTypeOK
<1> QED BY <1>5, <1>6, Zenon

(* Each step is one worker's, and keeps the answers on their way. *)
LEMMA GroupsSteps ==
    ASSUME TotalFacts, GroupsTypeOK, Answered, \A w \in GroupWorkers : WorkerOK(w), GroupsNext
    PROVE  Told /\ \E w \in GroupWorkers : StepOf(w)
<1>1. PICK w \in GroupWorkers :
        \/ find_groupnode(w) \/ create_channel(w) \/ reap_channel(w)
        \/ \E k \in {"subscribers", "messages"} : lose(w, k)
        \/ \E type \in {"subscribe", "publish"} : request(w, type)
        \/ memstore_group_delete(w)
        \/ proceed(w)
        \/ \E v \in GroupWorkers : read(v, w)
  BY Zenon DEF GroupsNext
<1>2. WorkerOK(w) /\ WorkerOK(GroupOwner)
  BY GroupsAssumption, Zenon
<1>3. CASE find_groupnode(w)
  <2>1. StepOf(w)
    BY <1>2, <1>3, StepSame, Zenon DEF find_groupnode
  <2> QED BY <1>3, <2>1, FindTold, Zenon
<1>4. CASE create_channel(w)
  <2>1. node' = node
    BY <1>4, Zenon DEF create_channel
  <2> QED BY <1>2, <1>4, <2>1, CreateStep, SentAnswered, Zenon
<1>5. CASE reap_channel(w)
  <2>1. node' = node
    BY <1>5, Zenon DEF reap_channel
  <2> QED BY <1>2, <1>5, <2>1, ReapStep, SentAnswered, Zenon
<1>6. CASE \E k \in {"subscribers", "messages"} : lose(w, k)
  <2>1. PICK k \in {"subscribers", "messages"} : lose(w, k)
    BY <1>6, Zenon
  <2>2. node' = node
    BY <2>1, Zenon DEF lose
  <2> QED BY <1>2, <2>1, <2>2, LoseStep, SentAnswered, Zenon
<1>7. CASE \E type \in {"subscribe", "publish"} : request(w, type)
  <2>1. PICK type \in {"subscribe", "publish"} : request(w, type)
    BY <1>7, Zenon
  <2>2. node' = node
    BY <2>1, Zenon DEF request
  <2> QED BY <1>2, <2>1, <2>2, RequestStep, SentAnswered, Zenon
<1>8. CASE memstore_group_delete(w)
  <2>1. node' = node
    BY <1>8, Zenon DEF memstore_group_delete
  <2> QED BY <1>2, <1>8, <2>1, DeleteStep, SentAnswered, Zenon
<1>9. CASE step_create(w)
  <2>1. node' = node
    BY <1>9, Zenon DEF step_create
  <2> QED BY <1>2, <1>9, <2>1, StepCreateStep, SentAnswered, Zenon
<1>10. CASE step_add(w)
  <2>1. node' = node
    BY <1>10, Zenon DEF step_add
  <2> QED BY <1>2, <1>10, <2>1, StepAddStep, SentAnswered, Zenon
<1>11. CASE run_whenready(w)
  <2>1. node' = node
    BY <1>11, Zenon DEF run_whenready
  <2> QED BY <1>2, <1>11, <2>1, RunStep, SentAnswered, Zenon
<1>12. CASE \E v \in GroupWorkers : read(v, w)
  <2>1. PICK v \in GroupWorkers : read(v, w)
    BY <1>12, Zenon
  <2>2. CASE receive_group_delete(v, w)
    <3>1. free(w) /\ receive_delete(w, doomed) /\ task' = task /\ deletes' = deletes
      BY <2>2, Zenon DEF receive_group_delete, arrives
    <3>2. doomed \in SUBSET GroupWorkers /\ deletes' \in Nat
      BY <3>1, Zenon DEF GroupsTypeOK
    <3>3. StepOf(w)
      BY <1>2, <3>1, <3>2, StepDelete, Zenon
    <3> QED BY <2>2, <3>3, GroupDeleteTold, Zenon
  <2>3. CASE receive_group(w)
    <3>1. StepOf(w)
      BY <1>2, <2>3, StepSame, Zenon DEF receive_group
    <3> QED BY <2>3, <3>1, GroupTold, Zenon
  <2>4. CASE receive_get_group(v)
    <3>1. StepOf(w)
      BY <1>2, <2>4, StepSame, Zenon DEF receive_get_group
    <3> QED BY <2>4, <3>1, GetGroupTold, Zenon
  <2> QED BY <2>1, <2>2, <2>3, <2>4, Zenon DEF read
<1> QED BY <1>1, <1>3, <1>4, <1>5, <1>6, <1>7, <1>8, <1>9, <1>10, <1>11, <1>12, Zenon DEF proceed


-----------------------------------------------------------------------------
(* What follows counts: it needs finite sets and sums over them. *)
INSTANCE Counting

(* Reference counts.  RefsSafe is inductive: every handler changes the count
   by as much as the number of holders. *)

(* What the alerts, the handlers and the output hold, as natural numbers. *)
HeldByAlerts == SumFunctionOnSet(alerts, Others)
HeldByOutput == Cardinality({r \in Requests : out[r] # "none"})

(* The workers other than the owner are finitely many. *)
LEMMA OthersFinite == IsFiniteSet(Others)
  BY MsgRefsAssumption, FS_RemoveElement, Zenon DEF Others

(* The types of what the holders are counted from. *)
HoldersTypeOK ==
    /\ toOwner \in BOOLEAN /\ alerts \in [Others -> 0 .. MaxAlerts] /\ busy \subseteq Others
    /\ out \in [Requests -> {"none", "direct", "derived"}]

HoldersCounted ==
    /\ Holders = (IF toOwner THEN 1 ELSE 0) + Cardinality(busy) + HeldByAlerts + HeldByOutput
    /\ Cardinality(busy) \in Nat /\ IsFiniteSet(busy) /\ (busy # {} => Cardinality(busy) > 0)
    /\ HeldByAlerts \in Nat /\ (\A w \in Others : alerts[w] <= HeldByAlerts)
    /\ HeldByOutput \in Nat

(* The holders are those four kinds, and none of the four is negative. *)
LEMMA HoldersAre == HoldersTypeOK => HoldersCounted
<1> SUFFICES ASSUME HoldersTypeOK PROVE HoldersCounted
  BY Zenon
<1>1. DOMAIN alerts = Others
  BY Zenon DEF HoldersTypeOK
<1>2. IsFiniteSet(busy) /\ Cardinality(busy) \in Nat /\ (busy # {} => Cardinality(busy) > 0)
  BY OthersFinite, FS_Subset, FS_CardinalityType, FS_EmptySet DEF HoldersTypeOK
<1>3. HeldByAlerts \in Nat /\ \A w \in Others : alerts[w] <= HeldByAlerts
  BY OthersFinite, SumNat, MsgRefsAssumption DEF HoldersTypeOK, HeldByAlerts
<1>4. HeldByOutput \in Nat
  BY MsgRefsAssumption, FS_Subset, FS_CardinalityType, Zenon DEF HeldByOutput
<1>5. Holders = (IF toOwner THEN 1 ELSE 0) + Cardinality(busy) + HeldByAlerts + HeldByOutput
  BY <1>1, Zenon DEF Holders, HeldByAlerts, HeldByOutput, SumFunction
<1> QED BY <1>2, <1>3, <1>4, <1>5, Zenon DEF HoldersCounted

(* The same after a step. *)
LEMMA HoldersAreNext == HoldersTypeOK' => HoldersCounted'
<1>1. (HoldersTypeOK => HoldersCounted)'
  BY HoldersAre, PTL
<1> QED BY <1>1, Zenon

(* A handler that keeps the types of the holders, changes the count by the
   number of holders that come or go, and does not touch a freed message or
   free it, keeps RefsSafe. *)
LEMMA CountsAlong ==
    ASSUME RefsSafe, HoldersTypeOK', NEW n \in Int,
           refcount' = refcount + n, Holders' = Holders + n,
           place # "freed", place' \in Places \ {"freed"}
    PROVE  RefsSafe'
<1>1. refcount = Holders
  BY Zenon DEF RefsSafe, RefcountExact
<1>2. Holders' \in Nat /\ HoldersTypeOK
  <2>1. Holders' = (IF toOwner' THEN 1 ELSE 0) + Cardinality(busy') + HeldByAlerts' + HeldByOutput'
    BY HoldersAreNext, Zenon DEF HoldersCounted
  <2>2. Cardinality(busy') \in Nat /\ HeldByAlerts' \in Nat /\ HeldByOutput' \in Nat
    BY HoldersAreNext, Zenon DEF HoldersCounted
  <2> QED BY <2>1, <2>2 DEF RefsSafe, RefsTypeOK, HoldersTypeOK
<1>3. refcount' = Holders'
  BY <1>1, Zenon
<1> QED BY <1>2, <1>3, Zenon DEF RefsSafe, RefsTypeOK, HoldersTypeOK, RefcountExact, NoUseAfterFree

(* A message that somebody holds has not been freed. *)
LEMMA HeldNotFreed ==
    ASSUME RefsSafe
    PROVE  /\ HoldersTypeOK
           /\ toOwner \/ busy # {} \/ (\E w \in Others : alerts[w] > 0) \/ HeldByOutput > 0
                => place # "freed"
<1>1. HoldersTypeOK
  BY Zenon DEF RefsSafe, RefsTypeOK, HoldersTypeOK
<1>2. ASSUME place = "freed"
      PROVE  ~toOwner /\ Cardinality(busy) = 0 /\ HeldByAlerts = 0 /\ HeldByOutput = 0
  <2>1. Holders = 0
    BY <1>2, Zenon DEF RefsSafe, NoUseAfterFree
  <2>2. Holders = (IF toOwner THEN 1 ELSE 0) + Cardinality(busy) + HeldByAlerts + HeldByOutput
    BY <1>1, HoldersAre, Zenon DEF HoldersCounted
  <2>3. Cardinality(busy) \in Nat /\ HeldByAlerts \in Nat /\ HeldByOutput \in Nat
    BY <1>1, HoldersAre, Zenon DEF HoldersCounted
  <2> QED BY <2>1, <2>2, <2>3
<1>3. /\ busy # {} => Cardinality(busy) > 0
      /\ HeldByAlerts \in Nat
      /\ \A w \in Others : alerts[w] <= HeldByAlerts /\ alerts[w] \in Nat
  BY <1>1, HoldersAre, MsgRefsAssumption DEF HoldersTypeOK, HoldersCounted
<1> QED BY <1>1, <1>2, <1>3

(* Output that starts to hold the message, and output that lets go of it. *)
LEMMA OutputReserves ==
    ASSUME HoldersTypeOK, NEW S \in SUBSET Requests, \A r \in S : out[r] = "none",
           NEW how \in {"direct", "derived"}, outputs(Requests, S, how)
    PROVE  /\ out' \in [Requests -> {"none", "direct", "derived"}]
           /\ HeldByOutput' = HeldByOutput + Cardinality(S)
<1> DEFINE H == {r \in Requests : out[r] # "none"}
           K == {r \in Requests : out'[r] # "none"}
<1>1. out' \in [Requests -> {"none", "direct", "derived"}]
  BY Zenon DEF HoldersTypeOK, outputs
<1>2. K = H \cup S /\ H \cap S = {}
  BY Zenon DEF HoldersTypeOK, outputs
<1>3. IsFiniteSet(H) /\ IsFiniteSet(S)
  BY MsgRefsAssumption, FS_Subset, Zenon
<1>4. HeldByOutput = Cardinality(H) /\ HeldByOutput' = Cardinality(K)
  BY Zenon DEF HeldByOutput
<1> HIDE DEF H, K
<1>5. /\ Cardinality(H \cup S) = Cardinality(H) + Cardinality(S) - Cardinality(H \cap S)
      /\ Cardinality(H \cap S) = 0
      /\ Cardinality(H) \in Nat /\ Cardinality(S) \in Nat
  BY <1>2, <1>3, FS_Union, FS_EmptySet, FS_CardinalityType, Zenon
<1> QED BY <1>1, <1>2, <1>4, <1>5

(* A request that has sent the message holds it no more. *)
LEMMA OutputReleases ==
    ASSUME HoldersTypeOK, NEW r \in Requests, out[r] # "none", outputs(Requests, {r}, "none")
    PROVE  /\ out' \in [Requests -> {"none", "direct", "derived"}]
           /\ HeldByOutput > 0
           /\ HeldByOutput' = HeldByOutput - 1
<1> DEFINE H == {q \in Requests : out[q] # "none"}
           K == {q \in Requests : out'[q] # "none"}
<1>1. out' \in [Requests -> {"none", "direct", "derived"}]
  BY Zenon DEF HoldersTypeOK, outputs
<1>2. K = H \ {r} /\ r \in H
  BY Zenon DEF HoldersTypeOK, outputs
<1>3. IsFiniteSet(H)
  BY MsgRefsAssumption, FS_Subset, Zenon
<1>4. HeldByOutput = Cardinality(H) /\ HeldByOutput' = Cardinality(K)
  BY Zenon DEF HeldByOutput
<1> HIDE DEF H, K
<1>5. Cardinality(H \ {r}) = Cardinality(H) - 1 /\ Cardinality(H) \in Nat /\ Cardinality(H) # 0
  BY <1>2, <1>3, FS_RemoveElement, FS_EmptySet, FS_CardinalityType, Zenon
<1> QED BY <1>1, <1>2, <1>4, <1>5

(* An alert more, or one fewer, on the way to w; one more to each worker of W. *)
LEMMA AlertsChange ==
    ASSUME HoldersTypeOK, NEW w \in Others, NEW n \in 0 .. MaxAlerts, NEW d \in Int,
           n = alerts[w] + d, alerts' = [alerts EXCEPT ![w] = n]
    PROVE  /\ alerts' \in [Others -> 0 .. MaxAlerts]
           /\ HeldByAlerts' = HeldByAlerts + d
<1>1. alerts' \in [Others -> 0 .. MaxAlerts]
  BY Zenon DEF HoldersTypeOK
<1>2. /\ \A x \in Others : alerts[x] \in Int /\ alerts'[x] \in Int
      /\ \A x \in Others \ {w} : alerts[x] = alerts'[x]
      /\ alerts'[w] = alerts[w] + d
  BY MsgRefsAssumption DEF HoldersTypeOK
<1>3. /\ SumFunctionOnSet(alerts, Others) \in Int
      /\ SumFunctionOnSet(alerts', Others) = SumFunctionOnSet(alerts, Others) - alerts[w] + alerts'[w]
  <2>1. PICK f, h : f = alerts /\ h = alerts'
    BY Zenon
  <2>2. /\ \A x \in Others : f[x] \in Int /\ h[x] \in Int
        /\ \A x \in Others \ {w} : f[x] = h[x]
    BY <1>2, <2>1, Zenon
  <2>3. /\ SumFunctionOnSet(f, Others) \in Int
        /\ SumFunctionOnSet(h, Others) = SumFunctionOnSet(f, Others) - f[w] + h[w]
    BY <2>2, OthersFinite, SumChange
  <2> QED BY <2>1, <2>3, Zenon
<1>4. HeldByAlerts = SumFunctionOnSet(alerts, Others) /\ HeldByAlerts' = SumFunctionOnSet(alerts', Others)
  BY Zenon DEF HeldByAlerts, Others
<1>5. alerts[w] \in Int
  BY <1>2, Zenon
<1>6. HeldByAlerts' = HeldByAlerts + d
  BY <1>2, <1>3, <1>4, <1>5
<1> QED BY <1>1, <1>6, Zenon

(* Each alert that is sent holds the message once more. *)
LEMMA AlertsSent ==
    ASSUME HoldersTypeOK, NEW W \in SUBSET Others, \A w \in W : alerts[w] < MaxAlerts,
           alerts' = [w \in Others |-> IF w \in W THEN alerts[w] + 1 ELSE alerts[w]]
    PROVE  /\ alerts' \in [Others -> 0 .. MaxAlerts]
           /\ HeldByAlerts' = HeldByAlerts + Cardinality(W)
<1>1. \A w \in Others : alerts[w] \in Int /\ alerts'[w] = IF w \in W THEN alerts[w] + 1 ELSE alerts[w]
  BY MsgRefsAssumption DEF HoldersTypeOK
<1>2. SumFunctionOnSet(alerts', Others) = SumFunctionOnSet(alerts, Others) + Cardinality(W)
  BY <1>1, OthersFinite, SumOneMore
<1>3. HeldByAlerts = SumFunctionOnSet(alerts, Others) /\ HeldByAlerts' = SumFunctionOnSet(alerts', Others)
  BY Zenon DEF HeldByAlerts, Others
<1>4. alerts' \in [Others -> 0 .. MaxAlerts]
  BY MsgRefsAssumption DEF HoldersTypeOK
<1> QED BY <1>2, <1>3, <1>4, Zenon

(* The number of holders changes by the changes of its parts. *)
LEMMA HoldersChange ==
    ASSUME HoldersTypeOK, HoldersTypeOK', NEW a \in Int, NEW b \in Int, NEW c \in Int, NEW d \in Int,
           (IF toOwner' THEN 1 ELSE 0) = (IF toOwner THEN 1 ELSE 0) + a,
           Cardinality(busy') = Cardinality(busy) + b,
           HeldByAlerts' = HeldByAlerts + c,
           HeldByOutput' = HeldByOutput + d
    PROVE  Holders' = Holders + (a + b + c + d)
<1>1. Holders = (IF toOwner THEN 1 ELSE 0) + Cardinality(busy) + HeldByAlerts + HeldByOutput
  BY HoldersAre, Zenon DEF HoldersCounted
<1>2. Cardinality(busy) \in Nat /\ HeldByAlerts \in Nat /\ HeldByOutput \in Nat
  BY HoldersAre, Zenon DEF HoldersCounted
<1>3. Holders' = (IF toOwner' THEN 1 ELSE 0) + Cardinality(busy') + HeldByAlerts' + HeldByOutput'
  BY HoldersAreNext, Zenon DEF HoldersCounted
<1>4. PICK t, u \in Int : t = (IF toOwner THEN 1 ELSE 0) /\ u = (IF toOwner' THEN 1 ELSE 0)
  OBVIOUS
<1>5. Holders = t + Cardinality(busy) + HeldByAlerts + HeldByOutput
  BY <1>1, <1>4, Zenon
<1>6. Holders' = u + Cardinality(busy') + HeldByAlerts' + HeldByOutput' /\ u = t + a
  BY <1>3, <1>4, Zenon
<1> QED BY <1>2, <1>5, <1>6

(* Publishing, with n = 1 if the message has come from another worker. *)
LEMMA PublishCounts ==
    ASSUME RefsSafe, place # "freed", NEW n \in {0, 1},
           NEW W \in SUBSET Others, NEW S \in SUBSET Requests, NEW how \in {"direct", "derived"},
           publish_to(W, S, how, n), busy' = busy, toOwner' \in BOOLEAN,
           (IF toOwner' THEN 1 ELSE 0) = (IF toOwner THEN 1 ELSE 0) - n
    PROVE  RefsSafe'
<1>1. HoldersTypeOK
  BY HeldNotFreed, Zenon
<1>2. out' \in [Requests -> {"none", "direct", "derived"}] /\ HeldByOutput' = HeldByOutput + Cardinality(S)
  <2>1. \A r \in S : out[r] = "none"
    BY Zenon DEF publish_to, Idle
  <2>2. outputs(Requests, S, how)
    BY Zenon DEF publish_to
  <2> QED BY <1>1, <2>1, <2>2, OutputReserves, Zenon
<1>3. alerts' \in [Others -> 0 .. MaxAlerts] /\ HeldByAlerts' = HeldByAlerts + Cardinality(W)
  BY <1>1, AlertsSent, Zenon DEF publish_to
<1>4. HoldersTypeOK'
  BY <1>1, <1>2, <1>3, Zenon DEF HoldersTypeOK, Others
<1>5. Cardinality(busy') = Cardinality(busy) + 0 /\ Cardinality(W) \in Int /\ Cardinality(S) \in Int
  <2>1. IsFiniteSet(W) /\ IsFiniteSet(S)
    BY OthersFinite, MsgRefsAssumption, FS_Subset, Zenon
  <2>2. Cardinality(W) \in Nat /\ Cardinality(S) \in Nat
    BY <2>1, FS_CardinalityType, Zenon
  <2>3. Cardinality(busy) \in Nat
    BY <1>1, HoldersAre, Zenon DEF HoldersCounted
  <2> QED BY <2>2, <2>3
<1>6. Holders' = Holders + (-n + 0 + Cardinality(W) + Cardinality(S))
  BY <1>1, <1>2, <1>3, <1>4, <1>5, HoldersChange
<1>7. refcount' = refcount + (Cardinality(W) + Cardinality(S) - n) /\ place' \in {"buffer", "nobuffer"}
  BY Zenon DEF publish_to, reserved
<1>8. Cardinality(W) + Cardinality(S) - n \in Int
  BY <1>5
<1>9. Holders' = Holders + (Cardinality(W) + Cardinality(S) - n)
  BY <1>5, <1>6
<1>10. place' \in Places \ {"freed"}
  BY <1>7, Zenon DEF Places
<1> QED BY <1>4, <1>7, <1>8, <1>9, <1>10, CountsAlong, Zenon

(* A step in which at most the output and one alert or handler changes. *)
LEMMA StepCounts ==
    ASSUME RefsSafe, place # "freed", place' = place, toOwner' = toOwner, HoldersTypeOK',
           NEW b \in Int, NEW c \in Int, NEW d \in Int, refcount' = refcount + (b + c + d),
           Cardinality(busy') = Cardinality(busy) + b,
           HeldByAlerts' = HeldByAlerts + c, HeldByOutput' = HeldByOutput + d
    PROVE  RefsSafe'
<1>1. HoldersTypeOK
  BY HeldNotFreed, Zenon
<1>2. Holders' = Holders + (0 + b + c + d)
  BY <1>1, HoldersChange
<1>3. place' \in Places \ {"freed"}
  BY Zenon DEF RefsSafe, RefsTypeOK
<1>4. Holders' = Holders + (b + c + d) /\ b + c + d \in Int
  BY <1>2
<1> QED BY <1>3, <1>4, CountsAlong, Zenon

(* The inductive invariant: moreover, a message on its way to the owner has
   no place there yet. *)
RefsInv == RefsSafe /\ (toOwner => place = "new")

(* Each step of MsgRefs keeps the references right. *)
LEMMA RefsStep == RefsInv /\ [RefsNext]_refsVars => RefsSafe'
<1> SUFFICES ASSUME RefsSafe, toOwner => place = "new", [RefsNext]_refsVars PROVE RefsSafe'
  BY Zenon DEF RefsInv
<1>0. PICK m, z, o \in Int : m = -1 /\ z = 0 /\ o = 1
  OBVIOUS
<1>1. HoldersTypeOK /\ HoldersCounted
  BY HeldNotFreed, HoldersAre, Zenon
<1>2. /\ alerts' = alerts => HeldByAlerts' = HeldByAlerts + z
      /\ out' = out => HeldByOutput' = HeldByOutput + z
      /\ busy' = busy => Cardinality(busy') = Cardinality(busy) + z
  BY <1>0, <1>1 DEF HoldersCounted, HeldByAlerts, HeldByOutput, Others
<1>3. CASE publish_here
  <2>1. PICK W \in SUBSET Others, S \in SUBSET Requests, how \in {"direct", "derived"} :
           publish_to(W, S, how, 0)
    BY <1>3, Zenon DEF publish_here
  <2>2. place # "freed" /\ busy' = busy /\ toOwner' \in BOOLEAN
    BY <1>1, <1>3, Zenon DEF publish_here, HoldersTypeOK
  <2>3. (IF toOwner' THEN 1 ELSE 0) = (IF toOwner THEN 1 ELSE 0) - 0
    BY <1>3 DEF publish_here
  <2> QED BY <2>1, <2>2, <2>3, PublishCounts, Zenon
<1>4. CASE publish_there
  <2>1. place = "none" /\ place' = "new" /\ toOwner' = TRUE /\ refcount' = refcount + 1
    BY <1>4, Zenon DEF publish_there, reserved
  <2>2. alerts' = alerts /\ busy' = busy /\ out' = out
    BY <1>4, Zenon DEF publish_there
  <2>3. HoldersTypeOK'
    BY <1>1, <2>1, <2>2, Zenon DEF HoldersTypeOK, Others
  <2>4. (IF toOwner' THEN 1 ELSE 0) = (IF toOwner THEN 1 ELSE 0) + o
    BY <1>0, <2>1
  <2>5. Holders' = Holders + (o + z + z + z)
    BY <1>1, <1>2, <2>2, <2>3, <2>4, HoldersChange
  <2>6. Holders' = Holders + 1 /\ place' \in Places \ {"freed"} /\ place # "freed"
    BY <1>0, <2>1, <2>5 DEF Places
  <2> QED BY <2>1, <2>3, <2>6, CountsAlong
<1>5. CASE owner_receive_publish_message
  <2>1. PICK W \in SUBSET Others, S \in SUBSET Requests, how \in {"direct", "derived"} :
           publish_to(W, S, how, 1)
    BY <1>5, Zenon DEF owner_receive_publish_message
  <2>2. place # "freed"
    BY <1>5, HeldNotFreed, Zenon DEF owner_receive_publish_message
  <2>3. busy' = busy /\ toOwner' \in BOOLEAN
    BY <1>5, Zenon DEF owner_receive_publish_message
  <2>4. (IF toOwner' THEN 1 ELSE 0) = (IF toOwner THEN 1 ELSE 0) - 1
    BY <1>5 DEF owner_receive_publish_message
  <2> QED BY <2>1, <2>2, <2>3, <2>4, PublishCounts, Zenon
<1>6. ASSUME NEW w \in Others, receive_get_message(w)
      PROVE  RefsSafe'
  <2>1. /\ place = "buffer" /\ place' = place /\ toOwner' = toOwner /\ busy' = busy /\ out' = out
        /\ refcount' = refcount + 1 /\ alerts[w] < MaxAlerts /\ alerts' = [alerts EXCEPT ![w] = @ + 1]
    BY <1>6, Zenon DEF receive_get_message, reserved
  <2>2. alerts' \in [Others -> 0 .. MaxAlerts] /\ HeldByAlerts' = HeldByAlerts + o
    <3>1. PICK n \in 0 .. MaxAlerts : n = alerts[w] + o
      BY <1>0, <1>1, <2>1, MsgRefsAssumption DEF HoldersTypeOK
    <3>2. alerts' = [alerts EXCEPT ![w] = n]
      BY <1>0, <1>1, <2>1, <3>1, Zenon DEF HoldersTypeOK
    <3> QED BY <1>1, <3>1, <3>2, AlertsChange, Zenon
  <2>3. HoldersTypeOK'
    BY <1>1, <2>1, <2>2, Zenon DEF HoldersTypeOK, Others
  <2>4. refcount' = refcount + (z + o + z) /\ place # "freed"
    BY <1>0, <2>1 DEF RefsSafe, RefsTypeOK, MSG_REFCOUNT_INVALID
  <2> QED BY <1>2, <2>1, <2>2, <2>3, <2>4, StepCounts, Zenon
<1>7. ASSUME NEW w \in Others, begin_handler(w)
      PROVE  RefsSafe'
  <2>1. /\ place' = place /\ toOwner' = toOwner /\ refcount' = refcount /\ out' = out
        /\ alerts[w] > 0 /\ w \notin busy /\ busy' = busy \cup {w}
        /\ alerts' = [alerts EXCEPT ![w] = @ - 1]
    BY <1>7, Zenon DEF begin_handler
  <2>2. alerts' \in [Others -> 0 .. MaxAlerts] /\ HeldByAlerts' = HeldByAlerts + m
    <3>1. PICK n \in 0 .. MaxAlerts : n = alerts[w] - 1
      BY <1>1, <2>1, MsgRefsAssumption DEF HoldersTypeOK
    <3>2. n = alerts[w] + m
      BY <1>1, <3>1, MsgRefsAssumption, <1>0, Zenon DEF HoldersTypeOK
    <3>3. alerts' = [alerts EXCEPT ![w] = n]
      BY <2>1, <3>1, Zenon
    <3> QED BY <1>1, <3>2, <3>3, AlertsChange, Zenon
  <2>3. HoldersTypeOK'
    BY <1>1, <2>1, <2>2, Zenon DEF HoldersTypeOK, Others
  <2>4. Cardinality(busy') = Cardinality(busy) + o
    BY <1>0, <1>1, <2>1, FS_AddElement, Zenon DEF HoldersCounted
  <2>5. refcount' = refcount + (o + m + z)
    BY <2>1, <1>0 DEF RefsSafe, RefsTypeOK, MSG_REFCOUNT_INVALID
  <2>6. place # "freed"
    BY <2>1, HeldNotFreed, Zenon
  <2> QED BY <1>2, <2>1, <2>2, <2>3, <2>4, <2>5, <2>6, StepCounts, Zenon
<1>8. ASSUME NEW w \in Others, end_handler(w)
      PROVE  RefsSafe'
  <2>1. /\ place' = place /\ toOwner' = toOwner /\ alerts' = alerts /\ out' = out
        /\ w \in busy /\ busy' = busy \ {w} /\ refcount' = refcount - 1
    BY <1>8, Zenon DEF end_handler, given_back
  <2>2. HoldersTypeOK'
    BY <1>1, <2>1, Zenon DEF HoldersTypeOK, Others
  <2>3. Cardinality(busy') = Cardinality(busy) + m
    BY <1>1, <2>1, FS_RemoveElement, <1>0, Zenon DEF HoldersCounted
  <2>4. refcount' = refcount + (m + z + z)
    BY <2>1, <1>0 DEF RefsSafe, RefsTypeOK, MSG_REFCOUNT_INVALID
  <2>5. place # "freed"
    BY <2>1, HeldNotFreed, Zenon
  <2> QED BY <1>2, <2>1, <2>2, <2>3, <2>4, <2>5, StepCounts, Zenon
<1>9. ASSUME NEW r \in Requests, NEW how \in {"direct", "derived"}, out[r] = "none",
             outputs(Requests, {r}, how), refcount' = refcount + 1, place # "freed",
             place' = place, toOwner' = toOwner, alerts' = alerts, busy' = busy
      PROVE  RefsSafe'
  <2>1. Cardinality({r}) = o
    BY <1>0, FS_Singleton, Zenon
  <2>2. out' \in [Requests -> {"none", "direct", "derived"}] /\ HeldByOutput' = HeldByOutput + o
    <3>1. {r} \in SUBSET Requests /\ \A q \in {r} : out[q] = "none"
      BY <1>9, Zenon
    <3> QED BY <1>1, <1>9, <2>1, <3>1, OutputReserves, Zenon
  <2>3. HoldersTypeOK'
    BY <1>1, <1>9, <2>2, Zenon DEF HoldersTypeOK, Others
  <2>4. refcount' = refcount + (z + z + o)
    BY <1>0, <1>9 DEF RefsSafe, RefsTypeOK, MSG_REFCOUNT_INVALID
  <2> QED BY <1>2, <1>9, <2>2, <2>3, <2>4, StepCounts, Zenon
<1>10. ASSUME NEW r \in Requests, get_message_here(r)
       PROVE  RefsSafe'
  <2>1. PICK how \in {"direct", "derived"} : outputs(Requests, {r}, how)
    BY <1>10, Zenon DEF get_message_here
  <2> QED BY <1>9, <1>10, <2>1, Zenon DEF get_message_here, Idle, reserved
<1>11. ASSUME NEW w \in Others, NEW r \in Requests, reserve_output(w, r)
       PROVE  RefsSafe'
  <2>1. PICK how \in {"direct", "derived"} : outputs(Requests, {r}, how)
    BY <1>11, Zenon DEF reserve_output
  <2>2. place # "freed"
    BY <1>11, HeldNotFreed, Zenon DEF reserve_output
  <2> QED BY <1>9, <1>11, <2>1, <2>2, Zenon DEF reserve_output, Idle, reserved
<1>12. ASSUME NEW r \in Requests, flush_output(r)
       PROVE  RefsSafe'
  <2>1. /\ place' = place /\ toOwner' = toOwner /\ alerts' = alerts /\ busy' = busy
        /\ out[r] # "none" /\ outputs(Requests, {r}, "none") /\ refcount' = refcount - 1
    BY <1>12, Zenon DEF flush_output, given_back
  <2>2. /\ out' \in [Requests -> {"none", "direct", "derived"}]
        /\ HeldByOutput > 0 /\ HeldByOutput' = HeldByOutput - 1
    BY <1>1, <2>1, OutputReleases, Zenon
  <2>3. HeldByOutput' = HeldByOutput + m
    BY <1>1, <2>2, <1>0, Zenon DEF HoldersCounted
  <2>4. HoldersTypeOK'
    BY <1>1, <2>1, <2>2, Zenon DEF HoldersTypeOK, Others
  <2>5. refcount' = refcount + (z + z + m)
    BY <2>1, <1>0 DEF RefsSafe, RefsTypeOK, MSG_REFCOUNT_INVALID
  <2>6. place # "freed"
    BY <2>2, HeldNotFreed, Zenon
  <2> QED BY <1>2, <2>1, <2>3, <2>4, <2>5, <2>6, StepCounts, Zenon
<1>13. ASSUME UNCHANGED <<toOwner, alerts, busy, out>>
       PROVE  Holders' = Holders
  BY <1>13, Zenon DEF Holders
<1>14. ASSUME NEW from \in {"buffer", "reaper", "nobuffer"}, reap(from),
              UNCHANGED <<toOwner, alerts, busy, out>>
       PROVE  RefsSafe'
  <2>1. refcount' = MSG_REFCOUNT_INVALID /\ place' = "freed" /\ refcount = 0 /\ place # "freed"
    BY <1>14, Zenon DEF reap
  <2>2. Holders' = 0
    BY <1>13, <1>14, <2>1, Zenon DEF RefsSafe, RefcountExact
  <2> QED BY <1>14, <2>1, <2>2, Zenon
          DEF RefsSafe, RefsTypeOK, RefcountExact, NoUseAfterFree, Places
<1>15. CASE chanhead_delete_message
  <2>1. CASE reap("buffer")
    BY <1>14, <1>15, <2>1, Zenon DEF chanhead_delete_message
  <2>2. CASE refcount # 0 /\ place' = "reaper" /\ UNCHANGED refcount
    BY <1>13, <1>15, <2>2, Zenon
       DEF chanhead_delete_message, RefsSafe, RefsTypeOK, RefcountExact, NoUseAfterFree, Places
  <2> QED BY <1>15, <2>1, <2>2, Zenon DEF chanhead_delete_message
<1>16. CASE reap_later
  BY <1>14, <1>16, Zenon DEF reap_later
<1>17. CASE UNCHANGED refsVars
  BY <1>13, <1>17, Zenon DEF refsVars, RefsSafe, RefsTypeOK, RefcountExact, NoUseAfterFree
<1> QED BY <1>3, <1>4, <1>5, <1>6, <1>7, <1>8, <1>10, <1>11, <1>12, <1>15, <1>16, <1>17, Zenon DEF RefsNext

(* The count of a message is the number of its holders until it is freed,
   and nobody holds a message that is freed, for any numbers of workers,
   requests and alerts: msg_reserve and msg_release (util/nchan_msg.c) are
   called in pairs along every path. *)
THEOREM RefcountsKept == RefsSpec => []RefsSafe
<1>1. RefsInit => RefsInv
  <2> SUFFICES ASSUME RefsInit PROVE RefsInv
    BY Zenon
  <2>1. HoldersTypeOK
    <3>1. 0 \in 0 .. MaxAlerts
      BY MsgRefsAssumption
    <3>2. toOwner \in BOOLEAN /\ busy \subseteq Others
      BY Zenon DEF RefsInit
    <3>3. alerts \in [Others -> 0 .. MaxAlerts] /\ out \in [Requests -> {"none", "direct", "derived"}]
      BY <3>1, Zenon DEF RefsInit
    <3> QED BY <3>2, <3>3, Zenon DEF HoldersTypeOK
  <2>2. HeldByOutput = 0 /\ Cardinality(busy) = 0
    <3>1. {r \in Requests : out[r] # "none"} = {} /\ busy = {}
      BY Zenon DEF RefsInit
    <3> QED BY <3>1, FS_EmptySet, Zenon DEF HeldByOutput
  <2>3. HeldByAlerts = 0
    BY OthersFinite, SumZero, Zenon DEF RefsInit, HeldByAlerts
  <2>4. Holders = 0
    BY <2>1, <2>2, <2>3, HoldersAre DEF HoldersCounted, RefsInit
  <2> QED BY <2>1, <2>4, Zenon
          DEF RefsInit, RefsInv, RefsSafe, RefsTypeOK, RefcountExact, NoUseAfterFree, HoldersTypeOK, Places
<1>2. RefsInv /\ [RefsNext]_refsVars => (toOwner => place = "new")'
  BY Zenon DEF RefsInv, RefsNext, refsVars, publish_here, publish_there, owner_receive_publish_message,
         receive_get_message, begin_handler, end_handler, get_message_here, flush_output,
         reserve_output, chanhead_delete_message, reap_later, reap, publish_to
<1>3. RefsInv /\ [RefsNext]_refsVars => RefsInv'
  BY <1>2, RefsStep, Zenon DEF RefsInv
<1>4. RefsInv => RefsSafe
  BY Zenon DEF RefsInv
<1> QED BY <1>1, <1>3, <1>4, PTL DEF RefsSpec

-----------------------------------------------------------------------------
(* Channel groups. *)

(* What callbacks are going to add, as a sum over their positions. *)
LEMMA TotalOn ==
    ASSUME NEW s \in Seq(Callbacks), NEW k \in Kinds3
    PROVE  /\ Total(s, k) = SumFunctionOnSet([i \in 1 .. Len(s) |-> Amount(s[i], k)], 1 .. Len(s))
           /\ \A i \in 1 .. Len(s) : Amount(s[i], k) \in Int
           /\ IsFiniteSet(1 .. Len(s))
           /\ Total(s, k) \in Int
<1>1. DOMAIN s = 1 .. Len(s) /\ Len(s) \in Nat
  OBVIOUS
<1>2. Total(s, k) = SumFunctionOnSet([i \in 1 .. Len(s) |-> Amount(s[i], k)], 1 .. Len(s))
  BY <1>1, Zenon DEF Total, SumFunction
<1>3. \A i \in 1 .. Len(s) : s[i] \in Callbacks
  OBVIOUS
<1>4. \A i \in 1 .. Len(s) : Amount(s[i], k) \in Int
  BY <1>3, AmountInt, Zenon
<1>5. IsFiniteSet(1 .. Len(s))
  BY <1>1, FS_Interval
<1>6. Total(s, k) \in Int
  <2> DEFINE f == [i \in 1 .. Len(s) |-> Amount(s[i], k)]
  <2>1. \A i \in 1 .. Len(s) : f[i] \in Int
    BY <1>4, Zenon
  <2> HIDE DEF f
  <2>2. SumFunctionOnSet(f, 1 .. Len(s)) \in Int
    BY <1>5, <2>1, SumInt, Zenon
  <2> QED BY <1>2, <2>2, Zenon DEF f
<1> QED BY <1>2, <1>4, <1>5, <1>6, Zenon

(* No callback, no total. *)
LEMMA TotalOfNone == ASSUME NEW k PROVE Total(<<>>, k) = 0
<1>1. DOMAIN <<>> = {}
  OBVIOUS
<1> QED BY <1>1, FS_EmptySet, SumRec, Zenon DEF Total, SumFunction

(* The total of one callback more. *)
LEMMA TotalOfAppend ==
    ASSUME NEW s \in Seq(Callbacks), NEW cb \in Callbacks, NEW k \in Kinds3
    PROVE  Total(Append(s, cb), k) = Total(s, k) + Amount(cb, k)
<1>1. PICK t : t = Append(s, cb)
  BY Zenon
<1>2. PICK n \in Nat : n = Len(s)
  OBVIOUS
<1>3. t \in Seq(Callbacks) /\ Len(t) = n + 1 /\ t[n + 1] = cb /\ \A i \in 1 .. n : t[i] = s[i]
  BY <1>1, <1>2
<1>4. PICK f, h : /\ f = [i \in 1 .. n |-> Amount(s[i], k)]
                  /\ h = [i \in 1 .. n + 1 |-> Amount(t[i], k)]
  BY Zenon
<1>5. /\ Total(s, k) = SumFunctionOnSet(f, 1 .. n) /\ Total(s, k) \in Int
      /\ IsFiniteSet(1 .. n)
  BY <1>2, <1>4, TotalOn, Zenon
<1>6. /\ Total(t, k) = SumFunctionOnSet(h, 1 .. n + 1)
      /\ IsFiniteSet(1 .. n + 1)
      /\ \A i \in 1 .. n + 1 : h[i] \in Int
  BY <1>3, <1>4, TotalOn, Zenon
<1>7. n + 1 \in 1 .. n + 1 /\ (1 .. n + 1) \ {n + 1} = 1 .. n
  OBVIOUS
<1>8. SumFunctionOnSet(h, 1 .. n + 1) = h[n + 1] + SumFunctionOnSet(h, 1 .. n)
  <2>1. PICK S : S = 1 .. n + 1
    BY Zenon
  <2>2. SumFunctionOnSet(h, S) = h[n + 1] + SumFunctionOnSet(h, S \ {n + 1})
    BY <1>6, <1>7, <2>1, SumRemove
  <2> QED BY <1>7, <2>1, <2>2, Zenon
<1>9. SumFunctionOnSet(h, 1 .. n) = SumFunctionOnSet(f, 1 .. n)
  <2>1. \A i \in 1 .. n : h[i] = f[i]
    BY <1>3, <1>4
  <2> QED BY <1>5, <2>1, SumSame
<1>10. h[n + 1] = Amount(cb, k) /\ Amount(cb, k) \in Int
  BY <1>3, <1>4, <1>7, AmountInt, Zenon
<1> QED BY <1>1, <1>5, <1>6, <1>8, <1>9, <1>10

(* The total without the first callback. *)
LEMMA TotalOfTail ==
    ASSUME NEW s \in Seq(Callbacks), s # <<>>, NEW k \in Kinds3
    PROVE  Total(Tail(s), k) = Total(s, k) - Amount(Head(s), k)
<1>1. PICK t : t = Tail(s)
  BY Zenon
<1>2. PICK n \in Nat : n = Len(t)
  BY <1>1
<1>3. t \in Seq(Callbacks) /\ Len(s) = n + 1 /\ Head(s) = s[1] /\ \A i \in 1 .. n : t[i] = s[i + 1]
  BY <1>1, <1>2
<1>4. PICK f, h, b : /\ f = [i \in 1 .. n + 1 |-> Amount(s[i], k)]
                     /\ h = [i \in 1 .. n |-> Amount(t[i], k)]
                     /\ b = [i \in 1 .. n |-> i + 1]
  BY Zenon
<1>5. /\ Total(t, k) = SumFunctionOnSet(h, 1 .. n) /\ Total(t, k) \in Int
      /\ IsFiniteSet(1 .. n)
      /\ \A i \in 1 .. n : h[i] \in Int
  BY <1>2, <1>3, <1>4, TotalOn, Zenon
<1>6. /\ Total(s, k) = SumFunctionOnSet(f, 1 .. n + 1)
      /\ IsFiniteSet(1 .. n + 1)
      /\ \A i \in 1 .. n + 1 : f[i] \in Int
  BY <1>3, <1>4, TotalOn, Zenon
<1>7. (1 .. n + 1) \ {1} = {b[i] : i \in 1 .. n}
  <2>1. \A j \in 2 .. n + 1 : j - 1 \in 1 .. n /\ b[j - 1] = j
    BY <1>4
  <2>2. \A i \in 1 .. n : b[i] \in 2 .. n + 1
    BY <1>4
  <2>3. (1 .. n + 1) \ {1} = 2 .. n + 1
    OBVIOUS
  <2> QED BY <2>1, <2>2, <2>3, Zenon
<1>8. SumFunctionOnSet(h, 1 .. n) = SumFunctionOnSet(f, (1 .. n + 1) \ {1})
  <2>1. \A i, j \in 1 .. n : b[i] = b[j] => i = j
    BY <1>4
  <2>2. \A i \in 1 .. n : h[i] = f[b[i]] /\ h[i] \in Int
    BY <1>3, <1>4, <1>5
  <2>3. PICK S, R : S = 1 .. n /\ R = (1 .. n + 1) \ {1}
    BY Zenon
  <2>4. SumFunctionOnSet(h, S) = SumFunctionOnSet(f, R)
    <3>1. R = {b[i] : i \in S} /\ IsFiniteSet(S)
      BY <1>5, <1>7, <2>3, Zenon
    <3>2. (\A i, j \in S : b[i] = b[j] => i = j) /\ (\A i \in S : h[i] = f[b[i]] /\ h[i] \in Int)
      BY <2>1, <2>2, <2>3, Zenon
    <3> QED BY <3>1, <3>2, SumRenumber
  <2> QED BY <2>3, <2>4, Zenon
<1>9. SumFunctionOnSet(f, 1 .. n + 1) = f[1] + SumFunctionOnSet(f, (1 .. n + 1) \ {1})
  <2>1. 1 \in 1 .. n + 1
    OBVIOUS
  <2> QED BY <1>6, <2>1, SumRemove
<1>10. f[1] = Amount(Head(s), k) /\ f[1] \in Int
  BY <1>3, <1>4, <1>6
<1>11. Total(s, k) = f[1] + Total(t, k)
  BY <1>5, <1>6, <1>8, <1>9, Zenon
<1> QED BY <1>1, <1>5, <1>10, <1>11

(* Callbacks none of which counts add nothing. *)
LEMMA TotalOfNoCount ==
    ASSUME NEW s \in Seq(Callbacks), NEW k \in Kinds3, \A i \in DOMAIN s : s[i].type # "count"
    PROVE  Total(s, k) = 0
<1>1. PICK f : f = [i \in 1 .. Len(s) |-> Amount(s[i], k)]
  BY Zenon
<1>2. Total(s, k) = SumFunctionOnSet(f, 1 .. Len(s)) /\ IsFiniteSet(1 .. Len(s))
  BY <1>1, TotalOn, Zenon
<1>3. \A i \in 1 .. Len(s) : f[i] = 0
  BY <1>1 DEF Amount
<1> QED BY <1>2, <1>3, SumZero, Zenon

(* The facts about totals that the steps above take as a hypothesis. *)
LEMMA TotalsAdd == TotalFacts
  BY TotalOn, TotalOfNone, TotalOfAppend, TotalOfTail, TotalOfNoCount, Zenon DEF TotalFacts

(* What the group's counter k should be, less what it is, over all workers. *)
WaitingSum(k) == SumFunction([w \in GroupWorkers |-> Waiting(w, k)])
ActualSum(k) == SumFunction([w \in GroupWorkers |-> Actual(gchan[w], k)])

(* A counter stays exact when what w's callbacks are to add, what w has and
   the counter change by amounts that cancel out. *)
LEMMA CountsMove ==
    ASSUME GroupsTypeOK, GroupsTypeOK', NEW k \in Kinds3, NEW w \in GroupWorkers,
           \A v \in GroupWorkers \ {w} : pending'[v] = pending[v] /\ gchan'[v] = gchan[v],
           group[k] + WaitingSum(k) = ActualSum(k),
           NEW n \in Int, NEW a \in Int,
           Total(pending'[w], k) = Total(pending[w], k) + n,
           Actual(gchan'[w], k) = Actual(gchan[w], k) + a,
           group'[k] = group[k] + a - n
    PROVE  group'[k] + WaitingSum(k)' = ActualSum(k)'
<1>0. IsFiniteSet(GroupWorkers)
  BY GroupsAssumption, Zenon
<1>1. PICK was, is, p, q :
                        /\ was = [v \in GroupWorkers |-> Total(pending[v], k)]
                        /\ is = [v \in GroupWorkers |-> Total(pending'[v], k)]
                        /\ p = [v \in GroupWorkers |-> Actual(gchan[v], k)]
                        /\ q = [v \in GroupWorkers |-> Actual(gchan'[v], k)]
  BY Zenon
<1>2. \A v \in GroupWorkers : was[v] \in Int /\ is[v] \in Int
  <2>1. \A v \in GroupWorkers : pending[v] \in Seq(Callbacks) /\ pending'[v] \in Seq(Callbacks)
    BY Zenon DEF GroupsTypeOK
  <2> QED BY <1>1, <2>1, TotalOn, Zenon
<1>3. \A v \in GroupWorkers : p[v] \in Int /\ q[v] \in Int
  <2>1. \A v \in GroupWorkers : gchan[v] \in Channels /\ gchan'[v] \in Channels
    BY Zenon DEF GroupsTypeOK
  <2> QED BY <1>1, <2>1, ActualInt, Zenon
<1>4. (\A v \in GroupWorkers \ {w} : was[v] = is[v]) /\ (\A v \in GroupWorkers \ {w} : p[v] = q[v])
  BY <1>1, Zenon
<1>5. is[w] = was[w] + n /\ q[w] = p[w] + a
  BY <1>1, Zenon
<1>6. /\ SumFunctionOnSet(was, GroupWorkers) \in Int
      /\ SumFunctionOnSet(is, GroupWorkers) = SumFunctionOnSet(was, GroupWorkers) - was[w] + is[w]
  BY <1>0, <1>2, <1>4, SumChange, SMTT(30)
<1>7. /\ SumFunctionOnSet(p, GroupWorkers) \in Int
      /\ SumFunctionOnSet(q, GroupWorkers) = SumFunctionOnSet(p, GroupWorkers) - p[w] + q[w]
  BY <1>0, <1>3, <1>4, SumChange
<1>8. WaitingSum(k) = SumFunctionOnSet(was, GroupWorkers) /\ WaitingSum(k)' = SumFunctionOnSet(is, GroupWorkers)
  BY <1>1, Zenon DEF WaitingSum, SumFunction, Waiting
<1>9. ActualSum(k) = SumFunctionOnSet(p, GroupWorkers) /\ ActualSum(k)' = SumFunctionOnSet(q, GroupWorkers)
  BY <1>1, Zenon DEF ActualSum, SumFunction
<1>10. group[k] \in Int /\ was[w] \in Int /\ p[w] \in Int
  BY <1>2, <1>3, Zenon DEF GroupsTypeOK
<1>11. SumFunctionOnSet(is, GroupWorkers) = SumFunctionOnSet(was, GroupWorkers) + n
  BY <1>5, <1>6, <1>10
<1>12. SumFunctionOnSet(q, GroupWorkers) = SumFunctionOnSet(p, GroupWorkers) + a
  BY <1>5, <1>7, <1>10
<1> QED BY <1>6, <1>7, <1>8, <1>9, <1>10, <1>11, <1>12, SMTT(30)

(* If a step of a worker is balanced, the counters stay exact. *)
LEMMA BalancedCounts ==
    ASSUME GroupsTypeOK, GroupsTypeOK', CountsExact, NEW w \in GroupWorkers, Balanced(w)
    PROVE  CountsExact'
<1>1. ASSUME ~overtaken', NEW k \in Kinds3
      PROVE  group'[k] + WaitingSum(k)' = ActualSum(k)'
  <2>1. group[k] + WaitingSum(k) = ActualSum(k)
    BY <1>1, Zenon DEF CountsExact, Balanced, WaitingSum, ActualSum
  <2>2. PICK m \in Int, a \in Int : /\ Total(pending'[w], k) = Total(pending[w], k) + m
                                    /\ Actual(gchan'[w], k) = Actual(gchan[w], k) + a
                                    /\ group'[k] = group[k] + a - m
    BY <1>1, Zenon DEF Balanced
  <2>3. \A v \in GroupWorkers \ {w} : pending'[v] = pending[v] /\ gchan'[v] = gchan[v]
    BY Zenon DEF Balanced
  <2> QED BY <2>1, <2>2, <2>3, CountsMove, Zenon
<1> QED BY <1>1, Zenon DEF CountsExact, WaitingSum, ActualSum


-----------------------------------------------------------------------------
(* The limit: whoever is about to join has been counted in. *)
Joining == {w \in GroupWorkers : task[w] = "join"}

Room ==
    MaxSubscribers > 0 =>
        group["subscribers"] + Cardinality(Joining) < MaxSubscribers + Cardinality(Users)

(* The inductive invariant of the groups. *)
GroupsInv ==
    /\ GroupsTypeOK /\ CountsExact /\ Answered /\ Room
    /\ \A w \in GroupWorkers : WorkerOK(w)

(* The step of one worker keeps the room below the limit: those that are
   about to join were admitted while the counter was below the limit, and
   each of the workers that serve requests admits one at a time. *)
LEMMA RoomKept ==
    ASSUME GroupsTypeOK, Room, \A v \in GroupWorkers : WorkerOK(v), NEW w \in GroupWorkers, StepOf(w),
           \A v \in GroupWorkers : WorkerOK(v)'
    PROVE  Room'
<1> SUFFICES ASSUME MaxSubscribers > 0
             PROVE  group'["subscribers"] + Cardinality(Joining') < MaxSubscribers + Cardinality(Users)
  BY Zenon DEF Room
<1> DEFINE g == group["subscribers"]
           h == group'["subscribers"]
<1>1. g \in Int /\ h \in Int /\ MaxSubscribers \in Nat
  BY GroupsAssumption, Zenon DEF GroupsTypeOK, StepOf, Kinds3
<1>2. PICK J, K : J = Joining /\ K = Joining'
  BY Zenon
<1>3. /\ \A v \in GroupWorkers : v \in J <=> task[v] = "join"
      /\ \A v \in GroupWorkers : v \in K <=> task'[v] = "join"
      /\ J \subseteq GroupWorkers /\ K \subseteq GroupWorkers
  BY <1>2, Zenon DEF Joining
<1>4. J \subseteq Users /\ K \subseteq Users /\ IsFiniteSet(Users)
  <2>1. J \subseteq Users
    BY <1>3, Zenon DEF WorkerOK
  <2>2. K \subseteq Users
    BY <1>3, Zenon DEF WorkerOK
  <2>3. IsFiniteSet(Users)
    BY GroupsAssumption, FS_Subset, Zenon
  <2> QED BY <2>1, <2>2, <2>3, Zenon
<1>5. IsFiniteSet(J) /\ IsFiniteSet(K) /\ Cardinality(K) <= Cardinality(Users)
  BY <1>4, FS_Subset, Zenon
<1>6. Cardinality(J) \in Nat /\ Cardinality(K) \in Nat /\ Cardinality(Users) \in Nat
  BY <1>4, <1>5, FS_CardinalityType, Zenon
<1>7. g + Cardinality(J) < MaxSubscribers + Cardinality(Users)
  BY <1>2, Zenon DEF Room
<1>8. \A v \in GroupWorkers : v # w => (v \in K <=> v \in J)
  BY <1>3, Zenon DEF StepOf
<1>9. CASE h <= g /\ (task'[w] = "join" => task[w] = "join")
  <2>1. K \subseteq J
    BY <1>3, <1>8, <1>9, Zenon
  <2>2. Cardinality(K) <= Cardinality(J)
    BY <1>5, <2>1, FS_Subset, Zenon
  <2> QED BY <1>1, <1>2, <1>6, <1>7, <1>9, <2>2
<1>10. CASE task[w] = "join" /\ task'[w] # "join" /\ h = g + 1
  <2>1. w \in J /\ K = J \ {w}
    BY <1>3, <1>8, <1>10, Zenon
  <2>2. Cardinality(K) = Cardinality(J) - 1
    BY <1>5, <2>1, FS_RemoveElement, Zenon
  <2> QED BY <1>1, <1>2, <1>6, <1>7, <1>10, <2>2
<1>11. CASE may_join /\ h = g
  <2>1. g < MaxSubscribers
    BY <1>11 DEF may_join
  <2> QED BY <1>1, <1>2, <1>5, <1>6, <1>11, <2>1
<1> QED BY <1>9, <1>10, <1>11, Zenon DEF StepOf, Admitted

(* No group, no channel and no alert to begin with. *)
LEMMA GroupsInitInv == GroupsInit => GroupsInv
<1> SUFFICES ASSUME GroupsInit PROVE GroupsInv
  BY Zenon
<1>1. GroupsTypeOK
  <2>1. NoChannel \in Channels /\ <<>> \in Seq(Callbacks) /\ <<>> \in Seq(GroupAlerts)
    BY DEF NoChannel, Channels
  <2>2. group \in [Kinds3 -> Int] /\ gchan \in [GroupWorkers -> Channels]
    BY <2>1 DEF GroupsInit
  <2>3. /\ node \in [GroupWorkers -> {"none", "waiting", "ready"}]
        /\ task \in [GroupWorkers -> {"idle", "create", "store", "join", "push"}]
        /\ doomed \subseteq GroupWorkers /\ deletes \in Nat /\ overtaken \in BOOLEAN
    BY Zenon DEF GroupsInit
  <2>4. /\ pending \in [GroupWorkers -> Seq(Callbacks)]
        /\ gpipe \in [GroupWorkers \X GroupWorkers -> Seq(GroupAlerts)]
    BY <2>1, Zenon DEF GroupsInit
  <2> QED BY <2>2, <2>3, <2>4, Zenon DEF GroupsTypeOK
<1>2. CountsExact
  <2>1. ASSUME NEW k \in Kinds3
        PROVE  group[k] + WaitingSum(k) = ActualSum(k)
    <3>1. PICK f, h : /\ f = [w \in GroupWorkers |-> Total(pending[w], k)]
                      /\ h = [w \in GroupWorkers |-> Actual(gchan[w], k)]
      BY Zenon
    <3>2. (\A w \in GroupWorkers : f[w] = 0) /\ (\A w \in GroupWorkers : h[w] = 0)
      <4>1. \A w \in GroupWorkers : f[w] = 0
        BY <3>1, TotalOfNone, Zenon DEF GroupsInit
      <4>2. \A w \in GroupWorkers : h[w] = 0
        BY <3>1, Zenon DEF GroupsInit, Actual, NoChannel
      <4> QED BY <4>1, <4>2, Zenon
    <3>3. SumFunctionOnSet(f, GroupWorkers) = 0 /\ SumFunctionOnSet(h, GroupWorkers) = 0
      BY <3>2, GroupsAssumption, SumZero, Zenon
    <3>4. WaitingSum(k) = SumFunctionOnSet(f, GroupWorkers) /\ ActualSum(k) = SumFunctionOnSet(h, GroupWorkers)
      BY <3>1, Zenon DEF WaitingSum, ActualSum, SumFunction, Waiting
    <3>5. group[k] = 0
      BY Zenon DEF GroupsInit
    <3> QED BY <3>3, <3>4, <3>5
  <2> QED BY <2>1, Zenon DEF CountsExact, WaitingSum, ActualSum
<1>3. Answered
  BY Zenon DEF Answered, GroupsInit
<1>4. Room
  <2>1. Joining = {} /\ group["subscribers"] = 0
    BY Zenon DEF Joining, GroupsInit, Kinds3
  <2>2. Cardinality(Joining) = 0
    BY <2>1, FS_EmptySet, Zenon
  <2>3. MaxSubscribers \in Nat /\ Cardinality(Users) \in Nat
    BY GroupsAssumption, FS_Subset, FS_CardinalityType, Zenon
  <2> QED BY <2>1, <2>2, <2>3 DEF Room
<1>5. ASSUME NEW w \in GroupWorkers PROVE WorkerOK(w)
  BY DEF WorkerOK, GroupsInit, NoChannel
<1> QED BY <1>1, <1>2, <1>3, <1>4, <1>5, Zenon DEF GroupsInv

(* Each step of a worker keeps the invariant. *)
LEMMA GroupsStep == GroupsInv /\ [GroupsNext]_groupVars => GroupsInv'
<1> SUFFICES ASSUME GroupsInv, [GroupsNext]_groupVars PROVE GroupsInv'
  BY Zenon
<1>1. CASE UNCHANGED groupVars
  <2>1. GroupsTypeOK' /\ CountsExact'
    BY <1>1, Zenon DEF GroupsInv, groupVars, GroupsTypeOK, CountsExact, Waiting
  <2>2. Answered' /\ Room'
    BY <1>1, Zenon DEF GroupsInv, groupVars, Answered, Room, Joining
  <2>3. ASSUME NEW w \in GroupWorkers PROVE WorkerOK(w)'
    BY <1>1, Zenon DEF GroupsInv, groupVars, WorkerOK
  <2> QED BY <2>1, <2>2, <2>3, Zenon DEF GroupsInv
<1>2. CASE GroupsNext
  <2>1. GroupsTypeOK /\ CountsExact /\ Answered /\ Room /\ \A v \in GroupWorkers : WorkerOK(v)
    BY Zenon DEF GroupsInv
  <2>2. PICK w \in GroupWorkers : StepOf(w)
    BY <1>2, <2>1, TotalsAdd, GroupsSteps, Zenon
  <2>3. Told
    BY <1>2, <2>1, TotalsAdd, GroupsSteps, Zenon
  <2>4. GroupsTypeOK'
    BY <2>2, <2>3, Zenon DEF StepOf, Told, GroupsTypeOK
  <2>5. ASSUME NEW v \in GroupWorkers PROVE WorkerOK(v)'
    <3>1. CASE v = w
      BY <2>2, <3>1, Zenon DEF StepOf
    <3>2. CASE v # w
      <4>1. task'[v] = task[v] /\ pending'[v] = pending[v] /\ gchan'[v] = gchan[v]
        BY <2>2, <3>2, Zenon DEF StepOf, Balanced
      <4>2. WorkerOK(v)
        BY <2>1, Zenon
      <4> QED BY <4>1, <4>2, Zenon DEF WorkerOK
    <3> QED BY <3>1, <3>2, Zenon
  <2>6. CountsExact'
    BY <2>1, <2>2, <2>4, BalancedCounts, Zenon DEF StepOf
  <2>7. Room'
    BY <2>1, <2>2, <2>5, RoomKept, Zenon
  <2> QED BY <2>3, <2>4, <2>5, <2>6, <2>7, Zenon DEF GroupsInv, Told
<1> QED BY <1>1, <1>2, Zenon

(* The invariant holds, for any number of workers. *)
LEMMA GroupsInvariant == GroupsSpec => []GroupsInv
  BY GroupsInitInv, GroupsStep, PTL DEF GroupsSpec

(* For any number of workers, a counter of a group and the changes of it that
   are still waiting always add up to what the workers really have
   (memstore_group_add_channel and its siblings), unless a deletion overtook
   what was waiting. *)
THEOREM GroupCountersExact == GroupsSpec => []CountsExact
<1>1. GroupsInv => CountsExact
  BY Zenon DEF GroupsInv
<1> QED BY <1>1, GroupsInvariant, PTL

(* For any number of workers, the limit on subscribers is exceeded at most by
   those that the other workers admit at the same time, and whoever waits for
   the group has a request, or an answer to it, on its way. *)
THEOREM GroupsStaySafe == GroupsSpec => []GroupsSafe
<1>1. GroupsInv => GroupOnItsWay /\ GroupsTypeOK
  BY Zenon DEF GroupsInv, Answered, GroupOnItsWay
<1>2. ASSUME GroupsInv PROVE LimitNearlyKept
  <2>1. IsFiniteSet(Joining) /\ IsFiniteSet(Users)
    <3>1. Joining \subseteq GroupWorkers
      BY Zenon DEF Joining
    <3> QED BY <3>1, GroupsAssumption, FS_Subset, Zenon
  <2>2. Cardinality(Joining) \in Nat /\ Cardinality(Users) \in Nat /\ MaxSubscribers \in Nat
    BY <2>1, GroupsAssumption, FS_CardinalityType, Zenon
  <2>3. group["subscribers"] \in Int
    BY <1>2, Zenon DEF GroupsInv, GroupsTypeOK, Kinds3
  <2>4. MaxSubscribers > 0 =>
           group["subscribers"] + Cardinality(Joining) < MaxSubscribers + Cardinality(Users)
    BY <1>2, Zenon DEF GroupsInv, Room
  <2> QED BY <2>2, <2>3, <2>4 DEF LimitNearlyKept
<1>3. GroupsInv => GroupsSafe
  BY <1>1, <1>2, Zenon DEF GroupsSafe
<1> QED BY <1>3, GroupsInvariant, PTL
=============================================================================
