------------------------- MODULE ReaperMultiProofs -------------------------
(***************************************************************************)
(* Proofs about two loops that other handlers run into: a scan of the      *)
(* reaper's list (Reaper) and a fetch over many channels (MultiMsg).       *)
(*                                                                         *)
(* The reaper's doubly linked list stays whole, and the reaper implements  *)
(* ReapQueue, for any number of things and any ratio.  The list stands for *)
(* a sequence of distinct things; each operation on the links is an        *)
(* operation on that sequence, and each round of a scan takes its place    *)
(* from one thing to the next.                                             *)
(*                                                                         *)
(* A fetch over any number of channels skips and repeats nothing.  The     *)
(* client's combined id stands for one position per channel, and what it   *)
(* was given of a channel is exactly what lies at or before that position. *)
(* A running fetch has not yet asked a channel, or knows that whatever the *)
(* channel has after its position is no earlier than the best message that *)
(* is kept or on its way - or was published too late to be counted.        *)
(*                                                                         *)
(* What needs no counting comes first, for both.                           *)
(***************************************************************************)
EXTENDS Reaper, MultiMsg, TLAPS

-----------------------------------------------------------------------------
(* The reaper: the links and the sequence that they stand for. *)

Node == Things \cup {NULL}

Lists ==
    [strategy : {"RESCAN", "ROTATE", "KEEP_PLACE"}, percent : 0 .. 100,
     first : Node, last : Node, count : Nat, position : Node,
     next : [Things -> Node], prev : [Things -> Node]]

(* The place i of a sequence of things, or none. *)
At(q, i) == IF i \in 1 .. Len(q) THEN q[i] ELSE NULL

Elems(q) == {q[i] : i \in 1 .. Len(q)}

Distinct(q) == \A i, j \in 1 .. Len(q) : q[i] = q[j] => i = j

(* The links of l are those of the sequence q. *)
Links(l, q) ==
    /\ l.first = At(q, 1) /\ l.last = At(q, Len(q))
    /\ \A i \in 1 .. Len(q) : l.next[q[i]] = At(q, i + 1) /\ l.prev[q[i]] = At(q, i - 1)

Rep(l, q) ==
    /\ l \in Lists
    /\ q \in Seq(Things) /\ Distinct(q)
    /\ l.count = Len(q)
    /\ Links(l, q)

Without(q, i) == [j \in 1 .. Len(q) - 1 |-> IF j < i THEN q[j] ELSE q[j + 1]]

(* No thing is NULL. *)
LEMMA NotNull ==
    ASSUME NEW t \in Things
    PROVE  t # NULL
BY ReaperAssumption, Zenon

(* What is at a place of a sequence of things. *)
LEMMA AtParts ==
    ASSUME NEW q \in Seq(Things), NEW i \in Int
    PROVE  /\ Len(q) \in Nat /\ At(q, i) \in Node
           /\ i \in 1 .. Len(q) => At(q, i) = q[i] /\ q[i] \in Things /\ q[i] # NULL
           /\ i \notin 1 .. Len(q) => At(q, i) = NULL
BY NotNull DEF At, Node

(* A sequence without its place i. *)
LEMMA WithoutParts ==
    ASSUME NEW q \in Seq(Things), Distinct(q), NEW i \in 1 .. Len(q)
    PROVE  /\ Without(q, i) \in Seq(Things) /\ Len(Without(q, i)) = Len(q) - 1
           /\ Distinct(Without(q, i))
           /\ \A j \in 1 .. Len(q) - 1 : Without(q, i)[j] = IF j < i THEN q[j] ELSE q[j + 1]
           /\ Elems(Without(q, i)) = Elems(q) \ {q[i]}
<1> DEFINE r == Without(q, i)
<1>1. Len(q) \in Nat /\ Len(q) - 1 \in Nat /\ \A j \in 1 .. Len(q) : q[j] \in Things
  OBVIOUS
<1>2. \A j \in 1 .. Len(q) - 1 : r[j] = IF j < i THEN q[j] ELSE q[j + 1]
  BY Zenon DEF Without
<1>3. r \in [1 .. Len(q) - 1 -> Things]
  BY <1>1 DEF Without
<1>4. r \in Seq(Things) /\ Len(r) = Len(q) - 1
  BY <1>1, <1>3
<1> HIDE DEF r
<1>5. Distinct(r)
  <2> SUFFICES ASSUME NEW j \in 1 .. Len(r), NEW k \in 1 .. Len(r), r[j] = r[k] PROVE j = k
    BY Zenon DEF Distinct
  <2>1. PICK a \in 1 .. Len(q) : a = IF j < i THEN j ELSE j + 1
    BY <1>1, <1>4
  <2>2. PICK b \in 1 .. Len(q) : b = IF k < i THEN k ELSE k + 1
    BY <1>1, <1>4
  <2>3. r[j] = q[a] /\ r[k] = q[b]
    BY <1>2, <1>4, <2>1, <2>2, Zenon
  <2>4. a = b
    BY <2>3, Zenon DEF Distinct
  <2> QED
    BY <1>1, <1>4, <2>1, <2>2, <2>4
<1>6. ASSUME NEW j \in 1 .. Len(r) PROVE r[j] \in Elems(q) \ {q[i]}
  <2>1. PICK a \in 1 .. Len(q) : a = (IF j < i THEN j ELSE j + 1) /\ a # i
    BY <1>1, <1>4
  <2>2. r[j] = q[a]
    BY <1>2, <1>4, <2>1, Zenon
  <2> QED
    BY <2>1, <2>2, Zenon DEF Elems, Distinct
<1>7. ASSUME NEW a \in 1 .. Len(q), a # i PROVE q[a] \in Elems(r)
  <2>1. PICK j \in 1 .. Len(r) : j = IF a < i THEN a ELSE a - 1
    BY <1>1, <1>4, <1>7
  <2>2. r[j] = q[a]
    BY <1>1, <1>2, <1>4, <1>7, <2>1
  <2> QED
    BY <2>2, Zenon DEF Elems
<1>8. Elems(r) = Elems(q) \ {q[i]}
  BY <1>6, <1>7, Zenon DEF Elems
<1> QED
  BY <1>2, <1>4, <1>5, <1>8, Zenon DEF r

-----------------------------------------------------------------------------
(* Operations on the links. *)

(* The link out of t, or none, is set. *)
LEMMA SetNext ==
    ASSUME NEW l \in Lists, NEW t \in Node, NEW u \in Node
    PROVE  /\ set_next(l, t, u) \in Lists
           /\ set_next(l, t, u).strategy = l.strategy /\ set_next(l, t, u).percent = l.percent
           /\ set_next(l, t, u).first = l.first /\ set_next(l, t, u).last = l.last
           /\ set_next(l, t, u).count = l.count /\ set_next(l, t, u).position = l.position
           /\ set_next(l, t, u).prev = l.prev
           /\ \A v \in Things : set_next(l, t, u).next[v] = IF v = t THEN u ELSE l.next[v]
<1>1. CASE t = NULL
  BY <1>1, NotNull, Zenon DEF set_next
<1>2. CASE t \in Things
  <2>1. [l EXCEPT !.next[t] = u] = [l EXCEPT !.next = [l.next EXCEPT ![t] = u]]
    BY Zenon
  <2>2. set_next(l, t, u) = [l EXCEPT !.next = [l.next EXCEPT ![t] = u]]
    BY <1>2, <2>1, NotNull, Zenon DEF set_next
  <2>3. l.next \in [Things -> Node]
    BY Zenon DEF Lists
  <2> QED
    BY <1>2, <2>2, <2>3 DEF Lists
<1> QED
  BY <1>1, <1>2, Zenon DEF Node

(* The link back from t, or none, is set. *)
LEMMA SetPrev ==
    ASSUME NEW l \in Lists, NEW t \in Node, NEW u \in Node
    PROVE  /\ set_prev(l, t, u) \in Lists
           /\ set_prev(l, t, u).strategy = l.strategy /\ set_prev(l, t, u).percent = l.percent
           /\ set_prev(l, t, u).first = l.first /\ set_prev(l, t, u).last = l.last
           /\ set_prev(l, t, u).count = l.count /\ set_prev(l, t, u).position = l.position
           /\ set_prev(l, t, u).next = l.next
           /\ \A v \in Things : set_prev(l, t, u).prev[v] = IF v = t THEN u ELSE l.prev[v]
<1>1. CASE t = NULL
  BY <1>1, NotNull, Zenon DEF set_prev
<1>2. CASE t \in Things
  <2>1. set_prev(l, t, u) = [l EXCEPT !.prev = [l.prev EXCEPT ![t] = u]]
    BY <1>2, NotNull, Zenon DEF set_prev
  <2>2. l.prev \in [Things -> Node]
    BY Zenon DEF Lists
  <2> QED
    BY <1>2, <2>1, <2>2 DEF Lists
<1> QED
  BY <1>1, <1>2, Zenon DEF Node

(* The neighbours of t linked to each other, as unlink and move_to_end do. *)
Bypass(l, t) == set_prev(set_next(l, l.prev[t], l.next[t]), l.next[t], l.prev[t])

(* What that changes. *)
LEMMA BypassParts ==
    ASSUME NEW l \in Lists, NEW t \in Things
    PROVE  /\ Bypass(l, t) \in Lists
           /\ Bypass(l, t).strategy = l.strategy /\ Bypass(l, t).percent = l.percent
           /\ Bypass(l, t).first = l.first /\ Bypass(l, t).last = l.last
           /\ Bypass(l, t).count = l.count /\ Bypass(l, t).position = l.position
           /\ \A v \in Things : /\ Bypass(l, t).next[v] = IF v = l.prev[t] THEN l.next[t] ELSE l.next[v]
                                /\ Bypass(l, t).prev[v] = IF v = l.next[t] THEN l.prev[t] ELSE l.prev[v]
<1>1. l.prev[t] \in Node /\ l.next[t] \in Node
  BY Zenon DEF Lists
<1>2. PICK m : m = set_next(l, l.prev[t], l.next[t])
  BY Zenon
<1>3. /\ m \in Lists /\ m.strategy = l.strategy /\ m.percent = l.percent
      /\ m.first = l.first /\ m.last = l.last /\ m.count = l.count /\ m.position = l.position
      /\ m.prev = l.prev
      /\ \A v \in Things : m.next[v] = IF v = l.prev[t] THEN l.next[t] ELSE l.next[v]
  BY <1>1, <1>2, SetNext
<1>4. Bypass(l, t) = set_prev(m, l.next[t], l.prev[t])
  BY <1>2, Zenon DEF Bypass
<1> QED
  BY <1>1, <1>3, <1>4, SetPrev

(* A thing is taken off. *)
LEMMA UnlinkParts ==
    ASSUME NEW l \in Lists, NEW t \in Things, l.count > 0
    PROVE  /\ unlink(l, t) \in Lists
           /\ unlink(l, t).strategy = l.strategy /\ unlink(l, t).percent = l.percent
           /\ unlink(l, t).first = IF t = l.first THEN l.next[t] ELSE l.first
           /\ unlink(l, t).last = IF t = l.last THEN l.prev[t] ELSE l.last
           /\ unlink(l, t).count = l.count - 1
           /\ unlink(l, t).position
                = IF l.strategy = "KEEP_PLACE" /\ l.position = t THEN l.next[t] ELSE l.position
           /\ \A v \in Things : /\ unlink(l, t).next[v] = IF v = l.prev[t] THEN l.next[t] ELSE l.next[v]
                                /\ unlink(l, t).prev[v] = IF v = l.next[t] THEN l.prev[t] ELSE l.prev[v]
<1>1. l.prev[t] \in Node /\ l.next[t] \in Node /\ l.count - 1 \in Nat
  BY DEF Lists
<1>2. PICK m : m = Bypass(l, t)
  BY Zenon
<1>3. PICK f, z, p, n : /\ f = (IF t = l.first THEN l.next[t] ELSE l.first)
                        /\ z = (IF t = l.last THEN l.prev[t] ELSE l.last)
                        /\ p = (IF l.strategy = "KEEP_PLACE" /\ l.position = t THEN l.next[t] ELSE l.position)
                        /\ n = l.count - 1
  BY Zenon
<1>4. /\ m \in Lists /\ m.strategy = l.strategy /\ m.percent = l.percent
      /\ m.first = l.first /\ m.last = l.last /\ m.count = l.count /\ m.position = l.position
  BY <1>2, BypassParts
<1>5. unlink(l, t) = [m EXCEPT !.first = f, !.last = z, !.position = p, !.count = n]
  BY <1>2, <1>3, <1>4 DEF unlink, Bypass
<1>6. f \in Node /\ z \in Node /\ p \in Node /\ n \in Nat
  BY <1>1, <1>3, Zenon DEF Lists
<1>7. /\ unlink(l, t) \in Lists
      /\ unlink(l, t).strategy = l.strategy /\ unlink(l, t).percent = l.percent
      /\ unlink(l, t).first = f /\ unlink(l, t).last = z /\ unlink(l, t).count = n
      /\ unlink(l, t).position = p /\ unlink(l, t).next = m.next /\ unlink(l, t).prev = m.prev
  BY <1>4, <1>5, <1>6, Zenon DEF Lists
<1> QED
  BY <1>2, <1>3, <1>7, BypassParts

(* A thing is put at the end. *)
LEMMA AppendParts ==
    ASSUME NEW l \in Lists, NEW t \in Things
    PROVE  /\ append(l, t) \in Lists
           /\ append(l, t).strategy = l.strategy /\ append(l, t).percent = l.percent
           /\ append(l, t).first = IF l.first = NULL THEN t ELSE l.first
           /\ append(l, t).last = t
           /\ append(l, t).count = l.count /\ append(l, t).position = l.position
           /\ \A v \in Things : /\ append(l, t).next[v] = IF v = t THEN NULL ELSE IF v = l.last THEN t ELSE l.next[v]
                                /\ append(l, t).prev[v] = IF v = t THEN l.last ELSE l.prev[v]
<1>1. l.last \in Node /\ t \in Node /\ NULL \in Node
  BY Zenon DEF Lists, Node
<1>2. PICK m : m = set_next(l, l.last, t)
  BY Zenon
<1>3. PICK f : f = IF l.first = NULL THEN t ELSE l.first
  BY Zenon
<1>4. /\ m \in Lists /\ m.strategy = l.strategy /\ m.percent = l.percent
      /\ m.first = l.first /\ m.last = l.last /\ m.count = l.count /\ m.position = l.position
      /\ m.prev = l.prev
      /\ \A v \in Things : m.next[v] = IF v = l.last THEN t ELSE l.next[v]
  <2>1. PICK z, w : z = l.last /\ w = t
    BY Zenon
  <2>2. m = set_next(l, z, w) /\ z \in Node /\ w \in Node
    BY <1>1, <1>2, <2>1, Zenon
  <2>3. /\ m \in Lists /\ m.strategy = l.strategy /\ m.percent = l.percent
        /\ m.first = l.first /\ m.last = l.last /\ m.count = l.count /\ m.position = l.position
        /\ m.prev = l.prev
    BY <2>2, SetNext
  <2>4. \A v \in Things : m.next[v] = IF v = z THEN w ELSE l.next[v]
    BY <2>2, SetNext
  <2> QED
    BY <2>1, <2>3, <2>4, Zenon
<1>5. f \in Node
  BY <1>1, <1>3, Zenon DEF Lists
<1>6. append(l, t) = [m EXCEPT !.prev = [m.prev EXCEPT ![t] = l.last], !.next = [m.next EXCEPT ![t] = NULL],
                               !.last = t, !.first = f]
  BY <1>2, <1>3, <1>4, Zenon DEF append
<1>7. m.next \in [Things -> Node] /\ m.prev \in [Things -> Node]
  BY <1>4, Zenon DEF Lists
<1>8. [m.prev EXCEPT ![t] = l.last] \in [Things -> Node] /\ [m.next EXCEPT ![t] = NULL] \in [Things -> Node]
  BY <1>1, <1>7, Zenon
<1>9. /\ append(l, t) \in Lists
      /\ append(l, t).strategy = l.strategy /\ append(l, t).percent = l.percent
      /\ append(l, t).first = f /\ append(l, t).last = t /\ append(l, t).count = l.count
      /\ append(l, t).position = l.position
      /\ append(l, t).next = [m.next EXCEPT ![t] = NULL] /\ append(l, t).prev = [m.prev EXCEPT ![t] = l.last]
  BY <1>1, <1>4, <1>5, <1>6, <1>8, ZenonT(30) DEF Lists
<1> QED
  BY <1>3, <1>4, <1>7, <1>9

(* Taking the thing at place i off leaves the links of the sequence without it. *)
LEMMA UnlinkRep ==
    ASSUME NEW l, NEW q, Rep(l, q), NEW i \in 1 .. Len(q)
    PROVE  /\ Rep(unlink(l, q[i]), Without(q, i))
           /\ unlink(l, q[i]).strategy = l.strategy
           /\ unlink(l, q[i]).position
                = IF l.strategy = "KEEP_PLACE" /\ l.position = q[i] THEN At(q, i + 1) ELSE l.position
<1>1. /\ l \in Lists /\ q \in Seq(Things) /\ Distinct(q) /\ Len(q) \in Nat /\ l.count = Len(q)
      /\ \A j \in 1 .. Len(q) : q[j] \in Things /\ q[j] # NULL
  BY NotNull DEF Rep
<1>2. PICK t, p, n : t = q[i] /\ p = l.prev[t] /\ n = l.next[t]
  BY Zenon
<1>3. t \in Things /\ p = At(q, i - 1) /\ n = At(q, i + 1) /\ l.count > 0
  BY <1>1, <1>2 DEF Rep, Links
<1>4. PICK u, r : u = unlink(l, t) /\ r = Without(q, i)
  BY Zenon
<1>5. /\ u \in Lists /\ u.strategy = l.strategy
      /\ u.first = (IF t = l.first THEN n ELSE l.first)
      /\ u.last = (IF t = l.last THEN p ELSE l.last)
      /\ u.count = l.count - 1
      /\ u.position = (IF l.strategy = "KEEP_PLACE" /\ l.position = t THEN n ELSE l.position)
      /\ \A v \in Things : /\ u.next[v] = IF v = p THEN n ELSE l.next[v]
                           /\ u.prev[v] = IF v = n THEN p ELSE l.prev[v]
  <2>1. l \in Lists /\ t \in Things /\ l.count > 0
    BY <1>1, <1>3, Zenon
  <2>2. /\ u \in Lists /\ u.strategy = l.strategy
        /\ u.first = (IF t = l.first THEN l.next[t] ELSE l.first)
        /\ u.last = (IF t = l.last THEN l.prev[t] ELSE l.last)
        /\ u.count = l.count - 1
        /\ u.position = (IF l.strategy = "KEEP_PLACE" /\ l.position = t THEN l.next[t] ELSE l.position)
        /\ \A v \in Things : /\ u.next[v] = IF v = l.prev[t] THEN l.next[t] ELSE l.next[v]
                             /\ u.prev[v] = IF v = l.next[t] THEN l.prev[t] ELSE l.prev[v]
    BY <1>4, <2>1, UnlinkParts
  <2>3. p = l.prev[t] /\ n = l.next[t]
    BY <1>2, Zenon
  <2> QED
    BY <2>2, <2>3, Zenon
<1>6. /\ r \in Seq(Things) /\ Len(r) = Len(q) - 1 /\ Distinct(r)
      /\ \A j \in 1 .. Len(q) - 1 : r[j] = IF j < i THEN q[j] ELSE q[j + 1]
  BY <1>1, <1>4, WithoutParts, Zenon
<1>7. \A j, k \in 1 .. Len(q) : q[j] = q[k] => j = k
  BY <1>1, Zenon DEF Distinct
<1>8. u.first = At(r, 1)
  <2>1. l.first = q[1]
    BY <1>1 DEF Rep, Links, At
  <2>2. CASE i = 1
    BY <1>1, <1>2, <1>3, <1>5, <1>6, <2>1, <2>2 DEF At
  <2>3. CASE i # 1
    <3>1. t # q[1]
      BY <1>1, <1>2, <1>7, <2>3
    <3> QED
      BY <1>1, <1>5, <1>6, <2>1, <2>3, <3>1 DEF At
  <2> QED
    BY <2>2, <2>3, Zenon
<1>9. u.last = At(r, Len(r))
  <2>1. l.last = q[Len(q)]
    BY <1>1 DEF Rep, Links, At
  <2>2. CASE i = Len(q)
    BY <1>1, <1>2, <1>3, <1>5, <1>6, <2>1, <2>2 DEF At
  <2>3. CASE i # Len(q)
    <3>1. t # q[Len(q)]
      BY <1>1, <1>2, <1>7, <2>3
    <3> QED
      BY <1>1, <1>5, <1>6, <2>1, <2>3, <3>1 DEF At
  <2> QED
    BY <2>2, <2>3, Zenon
<1>10. ASSUME NEW j \in 1 .. Len(r) PROVE u.next[r[j]] = At(r, j + 1)
  <2>1. CASE j < i - 1
    <3>1. r[j] = q[j] /\ r[j + 1] = q[j + 1] /\ p = q[i - 1] /\ l.next[q[j]] = q[j + 1] /\ q[j] \in Things
      <4>1. j \in 1 .. Len(q) /\ j + 1 \in 1 .. Len(q) - 1 /\ i - 1 \in 1 .. Len(q) /\ j + 1 < i /\ j < i
            /\ j + 1 \in 1 .. Len(q) /\ j \in 1 .. Len(q) - 1
        BY <1>1, <1>6, <2>1
      <4>2. r[j] = q[j] /\ r[j + 1] = q[j + 1]
        BY <1>6, <4>1, Zenon
      <4>3. p = q[i - 1]
        BY <1>3, <4>1, Zenon DEF At
      <4>4. l.next[q[j]] = q[j + 1]
        BY <4>1, Zenon DEF Rep, Links, At
      <4> QED
        BY <1>1, <4>1, <4>2, <4>3, <4>4, Zenon
    <3>2. q[j] # p
      BY <1>1, <1>7, <2>1, <3>1
    <3>3. At(r, j + 1) = r[j + 1]
      BY <1>1, <1>6, <2>1 DEF At
    <3> QED
      BY <1>5, <3>1, <3>2, <3>3, Zenon
  <2>2. CASE j = i - 1
    <3>1. r[j] = p /\ r[j] \in Things
      BY <1>1, <1>3, <1>6, <2>2 DEF At
    <3>2. At(r, j + 1) = n
      BY <1>1, <1>3, <1>6, <2>2 DEF At
    <3> QED
      BY <1>5, <3>1, <3>2, Zenon
  <2>3. CASE j >= i
    <3>1. r[j] = q[j + 1] /\ q[j + 1] \in Things /\ l.next[q[j + 1]] = At(q, j + 2)
      BY <1>1, <1>6, <2>3 DEF Rep, Links
    <3>2. q[j + 1] # p
      <4>1. CASE i = 1
        BY <1>1, <1>3, <3>1, <4>1, NotNull DEF At
      <4>2. CASE i # 1
        <5>1. p = q[i - 1] /\ i - 1 \in 1 .. Len(q) /\ j + 1 \in 1 .. Len(q)
          BY <1>1, <1>3, <1>6, <4>2 DEF At
        <5> QED
          BY <1>7, <2>3, <5>1
      <4> QED
        BY <4>1, <4>2, Zenon
    <3>3. At(r, j + 1) = At(q, j + 2)
      BY <1>1, <1>6, <2>3 DEF At
    <3> QED
      BY <1>5, <3>1, <3>2, <3>3, Zenon
  <2> QED
    BY <1>1, <1>6, <2>1, <2>2, <2>3
<1>11. ASSUME NEW j \in 1 .. Len(r) PROVE u.prev[r[j]] = At(r, j - 1)
  <2>1. CASE j < i
    <3>1. r[j] = q[j] /\ q[j] \in Things /\ l.prev[q[j]] = At(q, j - 1)
      BY <1>1, <1>6, <2>1 DEF Rep, Links
    <3>2. q[j] # n
      <4>1. CASE i = Len(q)
        BY <1>1, <1>3, <3>1, <4>1, NotNull DEF At
      <4>2. CASE i # Len(q)
        <5>1. n = q[i + 1] /\ i + 1 \in 1 .. Len(q) /\ j \in 1 .. Len(q)
          BY <1>1, <1>3, <1>6, <4>2 DEF At
        <5> QED
          BY <1>7, <2>1, <5>1
      <4> QED
        BY <4>1, <4>2, Zenon
    <3>3. At(r, j - 1) = At(q, j - 1)
      BY <1>1, <1>6, <2>1 DEF At
    <3> QED
      BY <1>5, <3>1, <3>2, <3>3, Zenon
  <2>2. CASE j = i
    <3>1. r[j] = n /\ r[j] \in Things
      BY <1>1, <1>3, <1>6, <2>2 DEF At
    <3>2. At(r, j - 1) = p
      BY <1>1, <1>3, <1>6, <2>2 DEF At
    <3> QED
      BY <1>5, <3>1, <3>2, Zenon
  <2>3. CASE j > i
    <3>1. /\ r[j] = q[j + 1] /\ q[j + 1] \in Things /\ l.prev[q[j + 1]] = q[j]
          /\ n = q[i + 1] /\ r[j - 1] = q[j]
      <4>1. PICK a \in 1 .. Len(q) : a = j + 1
        BY <1>1, <1>6
      <4>2. PICK b \in 1 .. Len(q) - 1 : b = j - 1
        BY <1>1, <1>6, <2>3
      <4>3. j \in 1 .. Len(q) /\ a - 1 = j /\ b + 1 = j /\ ~(j < i) /\ ~(b < i) /\ i + 1 \in 1 .. Len(q)
            /\ j \in 1 .. Len(q) - 1
        BY <1>1, <1>6, <2>3, <4>1, <4>2
      <4>4. r[j] = q[a] /\ r[b] = q[j]
        BY <1>6, <4>1, <4>2, <4>3, Zenon
      <4>5. n = q[i + 1]
        BY <1>3, <4>3, Zenon DEF At
      <4>6. l.prev[q[a]] = q[j]
        BY <4>1, <4>3, Zenon DEF Rep, Links, At
      <4> QED
        BY <1>1, <4>1, <4>2, <4>4, <4>5, <4>6, Zenon
    <3>2. q[j + 1] # n
      <4>1. i + 1 \in 1 .. Len(q) /\ j + 1 \in 1 .. Len(q) /\ j + 1 # i + 1
        BY <1>1, <1>6, <2>3
      <4> QED
        BY <1>7, <3>1, <4>1, Zenon
    <3>3. At(r, j - 1) = r[j - 1]
      BY <1>1, <1>6, <2>3 DEF At
    <3> QED
      BY <1>5, <3>1, <3>2, <3>3, Zenon
  <2> QED
    BY <1>1, <1>6, <2>1, <2>2, <2>3
<1>12. Rep(u, r)
  BY <1>1, <1>5, <1>6, <1>8, <1>9, <1>10, <1>11, Zenon DEF Rep, Links
<1> QED
  BY <1>2, <1>3, <1>4, <1>5, <1>12, Zenon

(* A sequence with one more thing. *)
LEMMA AppendedParts ==
    ASSUME NEW q \in Seq(Things), Distinct(q), NEW t \in Things, t \notin Elems(q)
    PROVE  /\ Append(q, t) \in Seq(Things) /\ Len(Append(q, t)) = Len(q) + 1
           /\ Distinct(Append(q, t))
           /\ \A j \in 1 .. Len(q) : Append(q, t)[j] = q[j]
           /\ Append(q, t)[Len(q) + 1] = t
           /\ Elems(Append(q, t)) = Elems(q) \cup {t}
<1>1. PICK r : r = Append(q, t)
  BY Zenon
<1>2. /\ Len(q) \in Nat /\ r \in Seq(Things) /\ Len(r) = Len(q) + 1
      /\ \A j \in 1 .. Len(q) : r[j] = q[j]
      /\ r[Len(q) + 1] = t
  BY <1>1
<1>3. \A j \in 1 .. Len(r) : j \in 1 .. Len(q) \/ j = Len(q) + 1
  BY <1>2
<1>4. \A j \in 1 .. Len(q) : q[j] # t
  BY Zenon DEF Elems
<1>5. Distinct(r)
  BY <1>2, <1>3, <1>4, Zenon DEF Distinct
<1>6. Elems(r) = Elems(q) \cup {t}
  <2>1. \A j \in 1 .. Len(q) : j \in 1 .. Len(r)
    BY <1>2
  <2>2. Len(q) + 1 \in 1 .. Len(r)
    BY <1>2
  <2> QED
    BY <1>2, <1>3, <2>1, <2>2, Zenon DEF Elems
<1> QED
  BY <1>1, <1>2, <1>5, <1>6, Zenon

(* Adding a thing at the end gives the links of the longer sequence. *)
LEMMA AppendRep ==
    ASSUME NEW l, NEW q, Rep(l, q), NEW t \in Things, t \notin Elems(q)
    PROVE  /\ Rep([append(l, t) EXCEPT !.count = @ + 1], Append(q, t))
           /\ [append(l, t) EXCEPT !.count = @ + 1].strategy = l.strategy
           /\ [append(l, t) EXCEPT !.count = @ + 1].position = l.position
<1>1. /\ l \in Lists /\ q \in Seq(Things) /\ Distinct(q) /\ Len(q) \in Nat /\ l.count = Len(q)
      /\ \A j \in 1 .. Len(q) : q[j] \in Things /\ q[j] # NULL
  BY NotNull DEF Rep
<1>2. PICK a, u, r : a = append(l, t) /\ u = [a EXCEPT !.count = @ + 1] /\ r = Append(q, t)
  BY Zenon
<1>3. /\ a \in Lists /\ a.strategy = l.strategy
      /\ a.first = (IF l.first = NULL THEN t ELSE l.first) /\ a.last = t
      /\ a.count = l.count /\ a.position = l.position
      /\ \A v \in Things : /\ a.next[v] = IF v = t THEN NULL ELSE IF v = l.last THEN t ELSE l.next[v]
                           /\ a.prev[v] = IF v = t THEN l.last ELSE l.prev[v]
  BY <1>1, <1>2, AppendParts
<1>4. /\ u \in Lists /\ u.strategy = a.strategy /\ u.first = a.first /\ u.last = a.last
      /\ u.count = Len(q) + 1 /\ u.position = a.position /\ u.next = a.next /\ u.prev = a.prev
  <2>1. a.count = Len(q) /\ Len(q) + 1 \in Nat
    BY <1>1, <1>3
  <2> QED
    BY <1>2, <1>3, <2>1, Zenon DEF Lists
<1>5. /\ r \in Seq(Things) /\ Len(r) = Len(q) + 1 /\ Distinct(r)
      /\ \A j \in 1 .. Len(q) : r[j] = q[j]
      /\ r[Len(q) + 1] = t
  BY <1>1, <1>2, AppendedParts, Zenon
<1>6. \A j \in 1 .. Len(q) : q[j] # t
  BY Zenon DEF Elems
<1>7. u.last = At(r, Len(r)) /\ u.first = At(r, 1)
  <2>1. CASE q = <<>>
    <3>1. Len(q) = 0 /\ l.first = NULL
      BY <2>1 DEF Rep, Links, At
    <3> QED
      BY <1>3, <1>4, <1>5, <3>1 DEF At
  <2>2. CASE q # <<>>
    <3>1. 1 \in 1 .. Len(q) /\ l.first = q[1] /\ q[1] # NULL
      BY <1>1, <2>2 DEF Rep, Links, At
    <3> QED
      BY <1>1, <1>3, <1>4, <1>5, <3>1 DEF At
  <2> QED
    BY <2>1, <2>2, Zenon
<1>8. ASSUME NEW j \in 1 .. Len(r) PROVE u.next[r[j]] = At(r, j + 1) /\ u.prev[r[j]] = At(r, j - 1)
  <2>1. CASE j = Len(q) + 1
    <3>1. r[j] = t /\ At(r, j + 1) = NULL
      BY <1>1, <1>5, <2>1 DEF At
    <3>2. At(r, j - 1) = l.last
      <4>1. l.last = At(q, Len(q))
        BY Zenon DEF Rep, Links
      <4> QED
        BY <1>1, <1>5, <2>1, <4>1 DEF At
    <3> QED
      BY <1>3, <1>4, <3>1, <3>2, Zenon
  <2>2. CASE j # Len(q) + 1
    <3>1. /\ j \in 1 .. Len(q) /\ r[j] = q[j] /\ q[j] # t /\ q[j] \in Things
          /\ l.next[q[j]] = At(q, j + 1) /\ l.prev[q[j]] = At(q, j - 1)
      BY <1>1, <1>5, <1>6, <2>2 DEF Rep, Links
    <3>2. At(r, j - 1) = At(q, j - 1)
      BY <1>1, <1>5, <3>1 DEF At
    <3>3. u.prev[r[j]] = At(r, j - 1)
      BY <1>3, <1>4, <3>1, <3>2, Zenon
    <3>4. l.last = q[Len(q)]
      BY <1>1, <3>1 DEF Rep, Links, At
    <3>5. CASE j = Len(q)
      <4>1. At(r, j + 1) = t
        BY <1>1, <1>5, <3>5 DEF At
      <4> QED
        BY <1>3, <1>4, <3>1, <3>3, <3>4, <3>5, <4>1
    <3>6. CASE j # Len(q)
      <4>1. q[j] # l.last
        BY <1>1, <3>1, <3>4, <3>6 DEF Distinct
      <4>2. At(r, j + 1) = At(q, j + 1)
        BY <1>1, <1>5, <3>1, <3>6 DEF At
      <4> QED
        BY <1>3, <1>4, <3>1, <3>3, <4>1, <4>2, Zenon
    <3> QED
      BY <3>5, <3>6, Zenon
  <2> QED
    BY <2>1, <2>2, Zenon
<1>9. Rep(u, r)
  BY <1>4, <1>5, <1>7, <1>8, Zenon DEF Rep, Links
<1> QED
  BY <1>2, <1>3, <1>4, <1>9, Zenon

(* Moving the thing at place i to the end is taking it off and adding it. *)
LEMMA MoveRep ==
    ASSUME NEW l, NEW q, Rep(l, q), NEW i \in 1 .. Len(q), i # Len(q), l.strategy # "KEEP_PLACE"
    PROVE  /\ Rep(move_to_end(l, q[i]), Append(Without(q, i), q[i]))
           /\ move_to_end(l, q[i]).strategy = l.strategy
           /\ move_to_end(l, q[i]).position = l.position
<1>1. /\ l \in Lists /\ q \in Seq(Things) /\ Distinct(q) /\ Len(q) \in Nat /\ l.count = Len(q)
      /\ \A j \in 1 .. Len(q) : q[j] \in Things /\ q[j] # NULL
  BY NotNull DEF Rep
<1>2. PICK t : t = q[i]
  BY Zenon
<1>3. /\ t \in Things /\ l.last # t /\ l.first # NULL /\ l.next[t] # NULL /\ l.next[t] \in Node
      /\ t \notin Elems(Without(q, i))
  <2>1. l.last = q[Len(q)] /\ l.first = q[1] /\ l.next[t] = q[i + 1] /\ Len(q) \in 1 .. Len(q)
        /\ i + 1 \in 1 .. Len(q) /\ 1 \in 1 .. Len(q)
    BY <1>1, <1>2 DEF Rep, Links, At
  <2>2. l.last # t
    BY <1>1, <1>2, <2>1, Zenon DEF Distinct
  <2>3. t \notin Elems(Without(q, i))
    BY <1>1, <1>2, WithoutParts, Zenon
  <2> QED
    BY <1>1, <1>2, <2>1, <2>2, <2>3, Zenon DEF Node
<1>4. PICK b, a, m : /\ b = Bypass(l, t) /\ a = append(b, t)
                     /\ m = [a EXCEPT !.first = IF @ = t THEN l.next[t] ELSE @]
  BY Zenon
<1>5. m = move_to_end(l, t)
  BY <1>3, <1>4, Zenon DEF move_to_end, Bypass
<1>6. /\ b \in Lists /\ b.strategy = l.strategy /\ b.first = l.first /\ b.last = l.last
      /\ b.count = l.count /\ b.position = l.position
      /\ \A v \in Things : /\ b.next[v] = IF v = l.prev[t] THEN l.next[t] ELSE l.next[v]
                           /\ b.prev[v] = IF v = l.next[t] THEN l.prev[t] ELSE l.prev[v]
  <2>1. l \in Lists /\ t \in Things /\ b = Bypass(l, t)
    BY <1>1, <1>3, <1>4, Zenon
  <2> QED
    BY <2>1, BypassParts
<1>7. /\ a \in Lists /\ a.strategy = l.strategy /\ a.first = l.first /\ a.last = t
      /\ a.count = l.count /\ a.position = l.position
      /\ \A v \in Things : /\ a.next[v] = IF v = t THEN NULL ELSE IF v = l.last THEN t ELSE b.next[v]
                           /\ a.prev[v] = IF v = t THEN l.last ELSE b.prev[v]
  <2>1. /\ a \in Lists /\ a.strategy = b.strategy /\ a.first = (IF b.first = NULL THEN t ELSE b.first)
        /\ a.last = t /\ a.count = b.count /\ a.position = b.position
        /\ \A v \in Things : /\ a.next[v] = IF v = t THEN NULL ELSE IF v = b.last THEN t ELSE b.next[v]
                             /\ a.prev[v] = IF v = t THEN b.last ELSE b.prev[v]
    <3>1. b \in Lists /\ t \in Things /\ a = append(b, t)
      BY <1>3, <1>4, <1>6, Zenon
    <3> QED
      BY <3>1, AppendParts
  <2> QED
    BY <1>3, <1>6, <2>1
<1>8. PICK f : f = IF l.first = t THEN l.next[t] ELSE l.first
  BY Zenon
<1>9. /\ m \in Lists /\ m.strategy = l.strategy /\ m.first = f /\ m.last = t
      /\ m.count = l.count /\ m.position = l.position /\ m.next = a.next /\ m.prev = a.prev
  <2>1. m = [a EXCEPT !.first = f] /\ f \in Node /\ f # NULL
    BY <1>1, <1>3, <1>4, <1>7, <1>8, Zenon DEF Lists
  <2> QED
    BY <1>7, <2>1, Zenon DEF Lists
<1>10. PICK u, c : u = unlink(l, t) /\ c = append(u, t)
  BY Zenon
<1>11. /\ u \in Lists /\ u.first = f /\ u.last = l.last /\ u.count = l.count - 1
       /\ \A v \in Things : u.next[v] = b.next[v] /\ u.prev[v] = b.prev[v]
  <2>1. l \in Lists /\ t \in Things /\ l.count > 0
    BY <1>1, <1>3
  <2>2. /\ u \in Lists
        /\ u.first = (IF t = l.first THEN l.next[t] ELSE l.first)
        /\ u.last = (IF t = l.last THEN l.prev[t] ELSE l.last)
        /\ u.count = l.count - 1
        /\ \A v \in Things : /\ u.next[v] = IF v = l.prev[t] THEN l.next[t] ELSE l.next[v]
                             /\ u.prev[v] = IF v = l.next[t] THEN l.prev[t] ELSE l.prev[v]
    BY <1>10, <2>1, UnlinkParts
  <2> QED
    BY <1>3, <1>6, <1>8, <2>2
<1>12. PICK d : d = [c EXCEPT !.count = @ + 1]
  BY Zenon
<1>13. /\ d.first = f /\ d.last = t /\ d.count = l.count
       /\ \A v \in Things : d.next[v] = m.next[v] /\ d.prev[v] = m.prev[v]
  <2>1. /\ c \in Lists /\ c.first = (IF u.first = NULL THEN t ELSE u.first)
        /\ c.last = t /\ c.count = u.count
        /\ \A v \in Things : /\ c.next[v] = IF v = t THEN NULL ELSE IF v = u.last THEN t ELSE u.next[v]
                             /\ c.prev[v] = IF v = t THEN u.last ELSE u.prev[v]
    <3>1. u \in Lists /\ t \in Things /\ c = append(u, t)
      BY <1>3, <1>10, <1>11, Zenon
    <3> QED
      BY <3>1, AppendParts
  <2>2. /\ d.first = c.first /\ d.last = c.last /\ d.count = c.count + 1
        /\ d.next = c.next /\ d.prev = c.prev
    BY <1>12, <2>1, Zenon DEF Lists
  <2>3. d.first = f /\ d.last = t
    BY <1>1, <1>3, <1>8, <1>11, <2>1, <2>2
  <2>4. d.count = l.count
    BY <1>1, <1>11, <2>1, <2>2
  <2>5. \A v \in Things : d.next[v] = m.next[v] /\ d.prev[v] = m.prev[v]
    BY <1>7, <1>9, <1>11, <2>1, <2>2
  <2> QED
    BY <2>3, <2>4, <2>5, Zenon
<1>14. Rep(d, Append(Without(q, i), t))
  <2>1. Rep(u, Without(q, i))
    BY <1>2, <1>10, UnlinkRep, Zenon
  <2> QED
    BY <1>3, <1>10, <1>12, <2>1, AppendRep, Zenon
<1>15. Rep(m, Append(Without(q, i), t))
  <2>1. PICK r : r = Append(Without(q, i), t)
    BY Zenon
  <2>2. Rep(d, r) /\ \A j \in 1 .. Len(r) : r[j] \in Things
    BY <1>14, <2>1 DEF Rep
  <2>3. Rep(m, r)
    BY <1>9, <1>13, <2>2, Zenon DEF Rep, Links
  <2> QED
    BY <2>1, <2>3, Zenon
<1> QED
  BY <1>2, <1>5, <1>9, <1>15, Zenon

-----------------------------------------------------------------------------
(* The place to go on from is in the sequence; only one strategy saves it. *)
Placed(l, q) ==
    /\ l.position \in Elems(q) \cup {NULL}
    /\ l.strategy # "KEEP_PLACE" => l.position = NULL

Scans ==
    [l : Lists, out : SUBSET Things, notready : Nat, n : Nat, cur : Node, firstmoved : Node]

(* A scan, walking as how says the list that stood for q0, is at the list that
   stands for q: the rest of q0 was in ok and has been reaped. *)
ScanOK(how, s, q, q0, ok) ==
    /\ s \in Scans
    /\ Rep(s.l, q) /\ Placed(s.l, q)
    /\ s.out \subseteq ok /\ s.out \cap Elems(q) = {} /\ s.out \cup Elems(q) = Elems(q0)
    /\ s.cur \in Elems(q) \cup {NULL}
    /\ how = "KEEP_PLACE" /\ s.cur = NULL => q = <<>>
    /\ how = "ROTATE" => s.l.strategy # "KEEP_PLACE"

(* Taking off the thing at place i leaves the place to go on from in the sequence. *)
LEMMA UnlinkPlaced ==
    ASSUME NEW l, NEW q, Rep(l, q), Placed(l, q), NEW i \in 1 .. Len(q)
    PROVE  Placed(unlink(l, q[i]), Without(q, i))
<1>1. /\ q \in Seq(Things) /\ Distinct(q) /\ Len(q) \in Nat
      /\ unlink(l, q[i]).strategy = l.strategy
      /\ unlink(l, q[i]).position
           = IF l.strategy = "KEEP_PLACE" /\ l.position = q[i] THEN At(q, i + 1) ELSE l.position
  BY UnlinkRep DEF Rep
<1>2. Elems(Without(q, i)) = Elems(q) \ {q[i]}
  BY <1>1, WithoutParts, Zenon
<1>3. At(q, i + 1) \in (Elems(q) \ {q[i]}) \cup {NULL}
  <2>1. CASE i + 1 \in 1 .. Len(q)
    <3>1. q[i + 1] \in Elems(q) /\ q[i + 1] # q[i]
      BY <1>1, <2>1 DEF Elems, Distinct
    <3> QED
      BY <2>1, <3>1, Zenon DEF At
  <2>2. CASE i + 1 \notin 1 .. Len(q)
    BY <2>2, Zenon DEF At
  <2> QED
    BY <2>1, <2>2, Zenon
<1> QED
  BY <1>1, <1>2, <1>3, NotNull, Zenon DEF Placed, Elems

(* The visit of the thing at cur takes it off if it is in ok; the loop's
   variables are those of the scan but for the count of the others. *)
LEMMA VisitParts ==
    ASSUME NEW how, NEW s, NEW q, NEW q0, NEW ok, ScanOK(how, s, q, q0, ok),
           NEW max \in Nat, NEW i \in 1 .. Len(q), s.cur = q[i]
    PROVE  LET v == visit(s, ok, max)
               r == IF s.cur \in ok THEN Without(q, i) ELSE q
           IN  /\ v \in Scans /\ Rep(v.l, r) /\ Placed(v.l, r)
               /\ v.l.strategy = s.l.strategy
               /\ v.out \subseteq ok /\ v.out \cap Elems(r) = {} /\ v.out \cup Elems(r) = Elems(q0)
               /\ v.cur = s.cur /\ v.n = s.n /\ v.firstmoved = s.firstmoved
               /\ s.cur \notin ok => v.l = s.l /\ v.out = s.out
               /\ s.cur \in ok => v.notready = s.notready
<1>1. /\ s \in Scans /\ Rep(s.l, q) /\ Placed(s.l, q) /\ q \in Seq(Things) /\ Distinct(q)
      /\ s.out \subseteq ok /\ s.out \cap Elems(q) = {} /\ s.out \cup Elems(q) = Elems(q0)
      /\ q[i] \in Elems(q) /\ q[i] \in Things
  <2>1. /\ s \in Scans /\ Rep(s.l, q) /\ Placed(s.l, q)
        /\ s.out \subseteq ok /\ s.out \cap Elems(q) = {} /\ s.out \cup Elems(q) = Elems(q0)
    BY Zenon DEF ScanOK
  <2>2. q \in Seq(Things) /\ Distinct(q)
    BY <2>1, Zenon DEF Rep
  <2>3. q[i] \in Elems(q) /\ q[i] \in Things
    BY <2>2 DEF Elems
  <2> QED
    BY <2>1, <2>2, <2>3, Zenon
<1>2. PICK v : v = visit(s, ok, max)
  BY Zenon
<1>3. CASE s.cur \in ok
  <2>1. PICK u, o : u = unlink(s.l, s.cur) /\ o = s.out \cup {s.cur}
    BY Zenon
  <2>2. Rep(u, Without(q, i)) /\ Placed(u, Without(q, i)) /\ u.strategy = s.l.strategy /\ u \in Lists
    <3>1. Rep(u, Without(q, i)) /\ u.strategy = s.l.strategy
      BY <1>1, <2>1, UnlinkRep
    <3>2. Placed(u, Without(q, i))
      BY <1>1, <2>1, UnlinkPlaced, Zenon
    <3> QED
      BY <3>1, <3>2, Zenon DEF Rep
  <2>3. Elems(Without(q, i)) = Elems(q) \ {q[i]}
    BY <1>1, WithoutParts, Zenon
  <2>4. /\ o \in SUBSET Things /\ o \subseteq ok /\ o \cap Elems(Without(q, i)) = {}
        /\ o \cup Elems(Without(q, i)) = Elems(q0)
    BY <1>1, <1>3, <2>1, <2>3 DEF Scans
  <2>5. v = [s EXCEPT !.l = u, !.out = o]
    BY <1>2, <1>3, <2>1, Zenon DEF visit
  <2>6. /\ v \in Scans /\ v.l = u /\ v.out = o /\ v.notready = s.notready /\ v.n = s.n
        /\ v.cur = s.cur /\ v.firstmoved = s.firstmoved
    BY <1>1, <2>2, <2>4, <2>5, Zenon DEF Scans
  <2> QED
    BY <1>2, <1>3, <2>2, <2>4, <2>6, Zenon
<1>4. CASE s.cur \notin ok
  <2>1. PICK m : m = IF max > 0 THEN s.notready + 1 ELSE s.notready
    BY Zenon
  <2>2. m \in Nat
    BY <1>1, <2>1 DEF Scans
  <2>3. v = [s EXCEPT !.notready = m]
    BY <1>2, <1>4, <2>1, Zenon DEF visit
  <2>4. /\ v \in Scans /\ v.l = s.l /\ v.out = s.out /\ v.n = s.n
        /\ v.cur = s.cur /\ v.firstmoved = s.firstmoved
    BY <1>1, <2>2, <2>3, Zenon DEF Scans
  <2> QED
    BY <1>1, <1>2, <1>4, <2>4, Zenon
<1> QED
  BY <1>3, <1>4, Zenon

(* What follows the thing at place i is in the sequence without that thing. *)
LEMMA NextElem ==
    ASSUME NEW l, NEW q, Rep(l, q), NEW i \in 1 .. Len(q)
    PROVE  /\ l.next[q[i]] = At(q, i + 1)
           /\ l.next[q[i]] \in (Elems(q) \ {q[i]}) \cup {NULL}
           /\ l.next[q[i]] \in Node
<1>1. q \in Seq(Things) /\ Distinct(q) /\ Len(q) \in Nat /\ l.next[q[i]] = At(q, i + 1)
  BY DEF Rep, Links
<1>2. At(q, i + 1) \in (Elems(q) \ {q[i]}) \cup {NULL}
  <2>1. CASE i + 1 \in 1 .. Len(q)
    <3>1. q[i + 1] \in Elems(q) /\ q[i + 1] # q[i]
      BY <1>1, <2>1 DEF Elems, Distinct
    <3> QED
      BY <2>1, <3>1, Zenon DEF At
  <2>2. CASE i + 1 \notin 1 .. Len(q)
    BY <2>2, Zenon DEF At
  <2> QED
    BY <2>1, <2>2, Zenon
<1>3. At(q, i + 1) \in Node
  BY <1>1, AtParts
<1> QED
  BY <1>1, <1>2, <1>3, Zenon

-----------------------------------------------------------------------------
(* The loop of a scan is over. *)
Over(how, s, max) ==
    \/ s.notready > max
    \/ how = "RESCAN" /\ s.cur = NULL
    \/ how = "ROTATE" /\ (s.cur = NULL \/ s.cur = s.firstmoved)
    \/ how = "KEEP_PLACE" /\ s.n >= s.l.count

(* It is over after at most d more rounds. *)
Ends(how, s, q, max, d) ==
    \/ Over(how, s, max)
    \/ how = "RESCAN" /\ \E i \in 1 .. Len(q) : s.cur = q[i] /\ Len(q) + 1 - i <= d
    \/ how = "KEEP_PLACE" /\ Len(q) - s.n <= d
    \/ /\ how = "ROTATE" /\ s.cur = At(q, 1)
       /\ \/ s.firstmoved = NULL /\ Len(q) <= d
          \/ \E j \in 2 .. Len(q) : s.firstmoved = q[j] /\ j - 1 <= d

(* A scan that reaps everything is at the first of the d things left. *)
Flushing(s, q, d) == s.cur = At(q, 1) /\ s.notready = 0 /\ Len(q) = d

StepOK(how, s, q, q0, ok, max, d) ==
    /\ ScanOK(how, s, q, q0, ok)
    /\ s.l.strategy = rp.strategy
    /\ Ends(how, s, q, max, d)
    /\ how = "RESCAN" /\ ok = Things => Flushing(s, q, d)

(* A loop that is over stays. *)
LEMMA OverStays ==
    ASSUME NEW how \in {"RESCAN", "ROTATE", "KEEP_PLACE"}, NEW s, NEW ok, NEW max, Over(how, s, max)
    PROVE  round(how, s, ok, max) = s
BY Zenon DEF Over, round, rescan, rotate, rescan_from

(* A scan at a thing of the list, and where that thing is. *)
LEMMA ScanAt ==
    ASSUME NEW how, NEW s, NEW q, NEW q0, NEW ok, ScanOK(how, s, q, q0, ok), s.cur # NULL
    PROVE  \E i \in 1 .. Len(q) : s.cur = q[i]
BY Zenon DEF ScanOK, Elems

(* One round of a RESCAN loop that is not over. *)
LEMMA RescanStep ==
    ASSUME NEW s, NEW q, NEW q0, NEW ok, NEW max \in Nat, NEW d \in Nat,
           StepOK("RESCAN", s, q, q0, ok, max, d + 1), ~Over("RESCAN", s, max)
    PROVE  \E r : StepOK("RESCAN", rescan(s, ok, max), r, q0, ok, max, d)
<1>1. PICK i \in 1 .. Len(q) : s.cur = q[i] /\ Len(q) + 1 - i <= d + 1
  BY Zenon DEF StepOK, Ends
<1>2. ScanOK("RESCAN", s, q, q0, ok) /\ s \in Scans /\ Rep(s.l, q) /\ s.l.strategy = rp.strategy
  BY Zenon DEF StepOK, ScanOK
<1>3. q \in Seq(Things) /\ Distinct(q) /\ Len(q) \in Nat
  BY <1>2 DEF Rep
<1>4. PICK v, r, c : /\ v = visit(s, ok, max) /\ r = (IF s.cur \in ok THEN Without(q, i) ELSE q)
                     /\ c = s.l.next[s.cur]
  BY Zenon
<1>5. /\ v \in Scans /\ Rep(v.l, r) /\ Placed(v.l, r)
      /\ v.l.strategy = s.l.strategy
      /\ v.out \subseteq ok /\ v.out \cap Elems(r) = {} /\ v.out \cup Elems(r) = Elems(q0)
      /\ s.cur \in ok => v.notready = s.notready
  BY <1>1, <1>2, <1>4, VisitParts
<1>6. c = At(q, i + 1) /\ c \in (Elems(q) \ {q[i]}) \cup {NULL} /\ c \in Node
  BY <1>1, <1>2, <1>4, NextElem
<1>7. Elems(Without(q, i)) = Elems(q) \ {q[i]} /\ Without(q, i) \in Seq(Things)
      /\ Len(Without(q, i)) = Len(q) - 1
      /\ \A j \in 1 .. Len(q) - 1 : Without(q, i)[j] = IF j < i THEN q[j] ELSE q[j + 1]
  BY <1>3, WithoutParts, Zenon
<1>8. PICK w : w = [v EXCEPT !.cur = c]
  BY Zenon
<1>9. rescan(s, ok, max) = w
  BY <1>2, <1>4, <1>8, Zenon DEF rescan, Over
<1>10. /\ w \in Scans /\ w.l = v.l /\ w.out = v.out /\ w.cur = c /\ w.notready = v.notready
  BY <1>5, <1>6, <1>8, Zenon DEF Scans
<1>11. c \in Elems(r) \cup {NULL}
  BY <1>4, <1>6, <1>7, Zenon
<1>12. ScanOK("RESCAN", w, r, q0, ok)
  BY <1>5, <1>10, <1>11, Zenon DEF ScanOK
<1>13. CASE c = NULL
  <2>1. Over("RESCAN", w, max)
    BY <1>10, <1>13, Zenon DEF Over
  <2>2. i = Len(q)
    BY <1>3, <1>6, <1>13, NotNull DEF At
  <2>3. ok = Things => Flushing(w, r, d)
    <3> SUFFICES ASSUME ok = Things PROVE Flushing(w, r, d)
      BY Zenon
    <3>1. s.cur = At(q, 1) /\ s.notready = 0 /\ Len(q) = d + 1 /\ s.cur \in ok
      BY <1>1, <1>3 DEF StepOK, Flushing
    <3>2. i = 1
      <4>1. 1 \in 1 .. Len(q)
        BY <3>1
      <4>2. q[i] = q[1]
        BY <1>1, <3>1, <4>1, Zenon DEF At
      <4> QED
        BY <1>3, <4>1, <4>2, Zenon DEF Distinct
    <3>3. r = Without(q, i) /\ Len(r) = d
      BY <1>3, <1>4, <1>7, <3>1
    <3>4. d = 0
      BY <2>2, <3>1, <3>2
    <3>5. At(r, 1) = NULL
      BY <3>3, <3>4 DEF At
    <3> QED
      BY <1>5, <1>10, <1>13, <3>1, <3>3, <3>5, Zenon DEF Flushing
  <2> QED
    BY <1>2, <1>5, <1>9, <1>10, <1>12, <2>1, <2>3, Zenon DEF StepOK, Ends
<1>14. CASE c # NULL
  <2>1. i + 1 \in 1 .. Len(q) /\ c = q[i + 1]
    BY <1>6, <1>14, Zenon DEF At
  <2>2. \E j \in 1 .. Len(r) : c = r[j] /\ Len(r) + 1 - j <= d
    <3>1. CASE s.cur \in ok
      <4>1. i \in 1 .. Len(r) /\ r[i] = q[i + 1] /\ Len(r) = Len(q) - 1
        BY <1>3, <1>4, <1>7, <2>1, <3>1
      <4> QED
        BY <1>1, <1>3, <2>1, <4>1
    <3>2. CASE s.cur \notin ok
      <4>1. r = q
        BY <1>4, <3>2, Zenon
      <4> QED
        BY <1>1, <1>3, <2>1, <4>1
    <3> QED
      BY <3>1, <3>2, Zenon
  <2>3. ok = Things => Flushing(w, r, d)
    <3> SUFFICES ASSUME ok = Things PROVE Flushing(w, r, d)
      BY Zenon
    <3>1. s.cur = At(q, 1) /\ s.notready = 0 /\ Len(q) = d + 1 /\ s.cur \in ok
      BY <1>1, <1>3 DEF StepOK, Flushing
    <3>2. i = 1
      <4>1. 1 \in 1 .. Len(q)
        BY <3>1
      <4>2. q[i] = q[1]
        BY <1>1, <3>1, <4>1, Zenon DEF At
      <4> QED
        BY <1>3, <4>1, <4>2, Zenon DEF Distinct
    <3>3. r = Without(q, i) /\ Len(r) = d
      BY <1>3, <1>4, <1>7, <3>1
    <3>4. At(r, 1) = c
      <4>1. 1 \in 1 .. Len(q) - 1 /\ 1 \in 1 .. Len(r)
        BY <1>3, <2>1, <3>1, <3>2, <3>3
      <4>2. r[1] = q[2]
        BY <1>7, <3>2, <3>3, <4>1
      <4> QED
        BY <2>1, <3>2, <4>1, <4>2 DEF At
    <3> QED
      BY <1>5, <1>10, <3>1, <3>3, <3>4, Zenon DEF Flushing
  <2> QED
    BY <1>2, <1>5, <1>9, <1>10, <1>12, <2>2, <2>3, Zenon DEF StepOK, Ends
<1> QED
  BY <1>13, <1>14, Zenon

(* One round of a KEEP_PLACE loop that is not over. *)
LEMMA KeepPlaceStep ==
    ASSUME NEW s, NEW q, NEW q0, NEW ok, NEW max \in Nat, NEW d \in Nat,
           StepOK("KEEP_PLACE", s, q, q0, ok, max, d + 1), ~Over("KEEP_PLACE", s, max)
    PROVE  \E r : StepOK("KEEP_PLACE", rescan_from(s, ok, max), r, q0, ok, max, d)
<1>1. /\ ScanOK("KEEP_PLACE", s, q, q0, ok) /\ s \in Scans /\ Rep(s.l, q) /\ s.l.strategy = rp.strategy
      /\ Len(q) - s.n <= d + 1 /\ s.n < s.l.count
  <2>1. ScanOK("KEEP_PLACE", s, q, q0, ok) /\ s \in Scans /\ Rep(s.l, q) /\ s.l.strategy = rp.strategy
    BY Zenon DEF StepOK, ScanOK
  <2>2. s.n \in Nat /\ s.l.count \in Nat
    BY <2>1, Zenon DEF Scans, Lists
  <2> QED
    BY <2>1, <2>2 DEF StepOK, Ends, Over
<1>2. /\ q \in Seq(Things) /\ Distinct(q) /\ Len(q) \in Nat /\ s.l.count = Len(q) /\ s.n \in Nat
  BY <1>1 DEF Rep, Scans
<1>3. PICK i \in 1 .. Len(q) : s.cur = q[i]
  <2>1. q # <<>>
    BY <1>1, <1>2
  <2>2. s.cur # NULL
    BY <1>1, <2>1, Zenon DEF ScanOK
  <2> QED
    BY <1>1, <2>2, ScanAt, Zenon
<1>4. PICK v, r, c : /\ v = visit(s, ok, max) /\ r = (IF s.cur \in ok THEN Without(q, i) ELSE q)
                     /\ c = s.l.next[s.cur]
  BY Zenon
<1>5. /\ v \in Scans /\ Rep(v.l, r) /\ Placed(v.l, r)
      /\ v.l.strategy = s.l.strategy
      /\ v.out \subseteq ok /\ v.out \cap Elems(r) = {} /\ v.out \cup Elems(r) = Elems(q0)
      /\ v.n = s.n
  BY <1>1, <1>3, <1>4, VisitParts
<1>6. c \in (Elems(q) \ {q[i]}) \cup {NULL} /\ c \in Node
  BY <1>1, <1>3, <1>4, NextElem
<1>7. Elems(Without(q, i)) = Elems(q) \ {q[i]} /\ Len(Without(q, i)) = Len(q) - 1
  BY <1>2, WithoutParts, Zenon
<1>8. PICK e, n : e = (IF c = NULL THEN v.l.first ELSE c) /\ n = v.n + 1
  BY Zenon
<1>9. e \in Node /\ n \in Nat /\ n = s.n + 1
  BY <1>2, <1>5, <1>6, <1>8 DEF Scans, Lists
<1>10. e \in Elems(r) \cup {NULL} /\ (e = NULL => r = <<>>)
  <2>1. CASE c # NULL
    BY <1>4, <1>6, <1>7, <1>8, <2>1, Zenon
  <2>2. CASE c = NULL
    <3>1. e = At(r, 1) /\ r \in Seq(Things) /\ Len(r) \in Nat
      BY <1>5, <1>8, <2>2 DEF Rep, Links
    <3>2. CASE r = <<>>
      BY <3>1, <3>2 DEF At
    <3>3. CASE r # <<>>
      <4>1. 1 \in 1 .. Len(r) /\ e = r[1]
        BY <3>1, <3>3 DEF At
      <4>2. e \in Things
        BY <3>1, <4>1
      <4> QED
        BY <4>1, <4>2, NotNull, Zenon DEF Elems
    <3> QED
      BY <3>2, <3>3, Zenon
  <2> QED
    BY <2>1, <2>2, Zenon
<1>11. PICK w : w = [v EXCEPT !.n = n, !.cur = e]
  BY Zenon
<1>12. rescan_from(s, ok, max) = w
  BY <1>4, <1>8, <1>11, Zenon DEF rescan_from, Over
<1>13. w \in Scans /\ w.l = v.l /\ w.out = v.out /\ w.cur = e /\ w.n = n
  BY <1>5, <1>9, <1>11, Zenon DEF Scans
<1>14. ScanOK("KEEP_PLACE", w, r, q0, ok)
  BY <1>5, <1>10, <1>13, Zenon DEF ScanOK
<1>15. Len(r) - w.n <= d
  <2>1. Len(r) \in Nat /\ Len(r) <= Len(q)
    BY <1>2, <1>4, <1>7
  <2> QED
    BY <1>1, <1>2, <1>9, <1>13, <2>1, SMTT(30)
<1> QED
  BY <1>1, <1>5, <1>12, <1>13, <1>14, <1>15, Zenon DEF StepOK, Ends

(* One round of a ROTATE loop that is not over. *)
LEMMA RotateStep ==
    ASSUME NEW s, NEW q, NEW q0, NEW ok, NEW max \in Nat, NEW d \in Nat,
           StepOK("ROTATE", s, q, q0, ok, max, d + 1), ~Over("ROTATE", s, max)
    PROVE  \E r : StepOK("ROTATE", rotate(s, ok, max), r, q0, ok, max, d)
<1>1. /\ ScanOK("ROTATE", s, q, q0, ok) /\ s \in Scans /\ Rep(s.l, q) /\ Placed(s.l, q)
      /\ s.l.strategy = rp.strategy /\ s.l.strategy # "KEEP_PLACE"
      /\ s.out \subseteq ok /\ s.out \cap Elems(q) = {} /\ s.out \cup Elems(q) = Elems(q0)
  BY Zenon DEF StepOK, ScanOK
<1>2. q \in Seq(Things) /\ Distinct(q) /\ Len(q) \in Nat
  BY <1>1 DEF Rep
<1>3. /\ s.cur = At(q, 1) /\ s.cur # NULL /\ s.cur # s.firstmoved /\ ~(s.notready > max)
      /\ \/ s.firstmoved = NULL /\ Len(q) <= d + 1
         \/ \E j \in 2 .. Len(q) : s.firstmoved = q[j] /\ j - 1 <= d + 1
  BY Zenon DEF StepOK, Ends, Over
<1>4. PICK i \in 1 .. Len(q) : i = 1 /\ s.cur = q[i]
  BY <1>3, Zenon DEF At
<1>5. PICK v, c : v = visit(s, ok, max) /\ c = s.l.next[s.cur]
  BY Zenon
<1>6. c = At(q, 2) /\ c \in (Elems(q) \ {q[i]}) \cup {NULL} /\ c \in Node
  BY <1>1, <1>4, <1>5, NextElem
<1>7. PICK p : p = Without(q, i)
  BY Zenon
<1>8. /\ p \in Seq(Things) /\ Distinct(p) /\ Elems(p) = Elems(q) \ {q[i]} /\ Len(p) = Len(q) - 1
      /\ \A j \in 1 .. Len(q) - 1 : p[j] = q[j + 1]
  <2>1. /\ p \in Seq(Things) /\ Distinct(p) /\ Elems(p) = Elems(q) \ {q[i]} /\ Len(p) = Len(q) - 1
        /\ \A j \in 1 .. Len(q) - 1 : p[j] = IF j < i THEN q[j] ELSE q[j + 1]
    BY <1>2, <1>7, WithoutParts, SMTT(20)
  <2> QED
    BY <1>4, <2>1
<1>9. c # NULL => 1 \in 1 .. Len(p) /\ c = p[1] /\ c = q[2] /\ Len(q) > 1
  BY <1>2, <1>6, <1>8 DEF At
<1>10. CASE s.cur \in ok
  <2>1. /\ v \in Scans /\ Rep(v.l, p) /\ Placed(v.l, p)
        /\ v.l.strategy = s.l.strategy
        /\ v.out \subseteq ok /\ v.out \cap Elems(p) = {} /\ v.out \cup Elems(p) = Elems(q0)
        /\ v.firstmoved = s.firstmoved
    BY <1>1, <1>4, <1>5, <1>7, <1>10, VisitParts
  <2>2. PICK w : w = [v EXCEPT !.cur = c]
    BY Zenon
  <2>3. rotate(s, ok, max) = w
    BY <1>3, <1>5, <1>10, <2>2, Zenon DEF rotate
  <2>4. w \in Scans /\ w.l = v.l /\ w.out = v.out /\ w.cur = c /\ w.firstmoved = s.firstmoved
    BY <1>6, <2>1, <2>2, Zenon DEF Scans
  <2>5. ScanOK("ROTATE", w, p, q0, ok)
    BY <1>1, <1>6, <1>8, <2>1, <2>4, Zenon DEF ScanOK
  <2>6. Ends("ROTATE", w, p, max, d)
    <3>1. CASE c = NULL
      BY <2>4, <3>1, Zenon DEF Ends, Over
    <3>2. CASE c # NULL /\ s.firstmoved = NULL /\ Len(q) <= d + 1
      <4>1. w.cur = At(p, 1) /\ Len(p) <= d
        BY <1>2, <1>8, <1>9, <2>4, <3>2 DEF At
      <4> QED
        BY <2>4, <3>2, <4>1, Zenon DEF Ends
    <3>3. ASSUME c # NULL, NEW j \in 2 .. Len(q), s.firstmoved = q[j], j - 1 <= d + 1
          PROVE  Ends("ROTATE", w, p, max, d)
      <4>1. w.cur = At(p, 1)
        BY <1>9, <2>4, <3>3, Zenon DEF At
      <4>2. CASE j = 2
        <5>1. w.cur = w.firstmoved
          BY <1>9, <2>4, <3>3, <4>2, Zenon
        <5> QED
          BY <5>1, Zenon DEF Ends, Over
      <4>3. CASE j # 2
        <5>1. PICK k \in 2 .. Len(p) : k = j - 1
          BY <1>2, <1>8, <4>3
        <5>2. w.firstmoved = p[k] /\ k - 1 <= d
          <6>1. k \in 1 .. Len(q) - 1 /\ k + 1 = j
            BY <1>2, <1>8, <5>1
          <6>2. p[k] = q[k + 1]
            BY <1>8, <6>1, Zenon
          <6> QED
            BY <2>4, <3>3, <6>1, <6>2
        <5> QED
          BY <4>1, <5>2, Zenon DEF Ends
      <4> QED
        BY <4>2, <4>3, Zenon
    <3> QED
      BY <1>3, <3>1, <3>2, <3>3, Zenon
  <2> QED
    BY <1>1, <2>1, <2>3, <2>4, <2>5, <2>6, Zenon DEF StepOK
<1>11. CASE s.cur \notin ok
  <2>1. v \in Scans /\ v.out = s.out
    BY <1>1, <1>4, <1>5, <1>11, VisitParts
  <2>2. PICK m, f : m = move_to_end(s.l, s.cur) /\ f = (IF s.firstmoved = NULL THEN s.cur ELSE s.firstmoved)
    BY Zenon
  <2>3. v.firstmoved = s.firstmoved
    BY <1>1, <1>4, <1>5, <1>11, VisitParts
  <2>4. PICK u : u = [v EXCEPT !.cur = c]
    BY Zenon
  <2>5. u \in Scans /\ u.out = s.out /\ u.cur = c /\ u.firstmoved = s.firstmoved
    BY <1>6, <2>1, <2>3, <2>4, Zenon DEF Scans
  <2>6. PICK w : w = [u EXCEPT !.l = m, !.firstmoved = f]
    BY Zenon
  <2>7. rotate(s, ok, max) = w
    BY <1>3, <1>5, <1>11, <2>2, <2>4, <2>5, <2>6, Zenon DEF rotate
  <2>8. f \in Node
    BY <1>1, <2>2, Zenon DEF Scans
  <2>9. CASE c = NULL
    <3>1. Len(q) = 1
      <4>1. 2 \in 1 .. Len(q) => q[2] # NULL
        BY <1>2, NotNull
      <4>2. 2 \notin 1 .. Len(q)
        BY <1>6, <2>9, <4>1, Zenon DEF At
      <4>3. PICK n \in Nat : n = Len(q)
        BY <1>2, Zenon
      <4>4. i = 1 /\ 1 <= n
        BY <1>2, <1>4, <4>3
      <4>5. ~(2 <= n)
        BY <4>2, <4>3
      <4> QED
        BY <4>3, <4>4, <4>5
    <3>2. m = s.l /\ m \in Lists
      <4>1. s.l.last = s.cur
        BY <1>1, <1>4, <3>1, Zenon DEF Rep, Links, At
      <4> QED
        BY <1>1, <2>2, <4>1, Zenon DEF move_to_end, Rep
    <3>3. w \in Scans /\ w.l = s.l /\ w.out = s.out /\ w.cur = c
      BY <2>5, <2>6, <2>8, <3>2, Zenon DEF Scans
    <3>4. ScanOK("ROTATE", w, q, q0, ok)
      BY <1>1, <2>9, <3>3, Zenon DEF ScanOK
    <3>5. Ends("ROTATE", w, q, max, d)
      BY <2>9, <3>3, Zenon DEF Ends, Over
    <3> QED
      BY <1>1, <2>7, <3>3, <3>4, <3>5, Zenon DEF StepOK
  <2>10. CASE c # NULL
    <3>1. i # Len(q) /\ Len(q) > 1
      BY <1>4, <1>9, <2>10
    <3>2. PICK r : r = Append(p, q[i])
      BY Zenon
    <3>3. Rep(m, r) /\ m.strategy = s.l.strategy /\ m.position = s.l.position
      BY <1>1, <1>4, <1>7, <2>2, <3>1, <3>2, MoveRep
    <3>4. /\ Len(r) = Len(q) /\ Elems(r) = Elems(q)
          /\ \A j \in 1 .. Len(q) - 1 : r[j] = q[j + 1]
          /\ r[Len(q)] = q[i]
      <4>1. q[i] \in Things /\ q[i] \notin Elems(p) /\ q[i] \in Elems(q)
        <5>1. q[i] \in Things
          BY <1>2
        <5>2. q[i] \in Elems(q)
          BY Zenon DEF Elems
        <5> QED
          BY <1>8, <5>1, <5>2, Zenon
      <4>2. /\ Len(r) = Len(p) + 1 /\ Elems(r) = Elems(p) \cup {q[i]}
            /\ \A j \in 1 .. Len(p) : r[j] = p[j]
            /\ r[Len(p) + 1] = q[i]
        BY <1>8, <3>2, <4>1, AppendedParts
      <4>3. Len(r) = Len(q) /\ Len(p) + 1 = Len(q) /\ Len(q) - 1 = Len(p)
        BY <1>2, <1>8, <4>2
      <4> QED
        BY <1>8, <4>1, <4>2, <4>3, Zenon
    <3>5. w \in Scans /\ w.l = m /\ w.out = s.out /\ w.cur = c /\ w.firstmoved = f
      <4>1. m \in Lists
        BY <3>3, Zenon DEF Rep
      <4> QED
        BY <2>5, <2>6, <2>8, <4>1, Zenon DEF Scans
    <3>6. ScanOK("ROTATE", w, r, q0, ok)
      <4>1. Placed(m, r)
        BY <1>1, <3>3, <3>4, Zenon DEF Placed
      <4> QED
        BY <1>1, <1>6, <3>3, <3>4, <3>5, <4>1, Zenon DEF ScanOK
    <3>7. w.cur = At(r, 1)
      <4>1. 1 \in 1 .. Len(q) - 1 /\ 1 \in 1 .. Len(r)
        BY <1>2, <3>1, <3>4
      <4>2. r[1] = q[1 + 1]
        BY <3>4, <4>1, Zenon
      <4> QED
        BY <1>9, <2>10, <3>5, <4>1, <4>2 DEF At
    <3>8. Ends("ROTATE", w, r, max, d)
      <4>1. CASE s.firstmoved = NULL /\ Len(q) <= d + 1
        <5>1. PICK k \in 2 .. Len(r) : k = Len(q)
          BY <1>2, <3>1, <3>4
        <5>2. w.firstmoved = r[k] /\ k - 1 <= d
          BY <1>2, <1>4, <2>2, <3>4, <3>5, <4>1, <5>1
        <5> QED
          BY <3>7, <5>2, Zenon DEF Ends
      <4>2. ASSUME NEW j \in 2 .. Len(q), s.firstmoved = q[j], j - 1 <= d + 1
            PROVE  Ends("ROTATE", w, r, max, d)
        <5>1. w.firstmoved = q[j]
          <6>1. q[j] # NULL
            BY <1>2, NotNull
          <6> QED
            BY <2>2, <3>5, <4>2, <6>1, Zenon
        <5>2. CASE j = 2
          <6>1. w.cur = w.firstmoved
            BY <1>9, <2>10, <3>5, <5>1, <5>2, Zenon
          <6> QED
            BY <6>1, Zenon DEF Ends, Over
        <5>3. CASE j # 2
          <6>1. PICK k \in 2 .. Len(r) : k = j - 1
            BY <1>2, <3>4, <5>3
          <6>2. k \in 1 .. Len(q) - 1 /\ k + 1 = j
            BY <1>2, <6>1
          <6>3. r[k] = q[k + 1]
            BY <3>4, <6>2, Zenon
          <6>4. w.firstmoved = r[k] /\ k - 1 <= d
            BY <4>2, <5>1, <6>2, <6>3
          <6> QED
            BY <3>7, <6>4, Zenon DEF Ends
        <5> QED
          BY <5>2, <5>3, Zenon
      <4> QED
        BY <1>3, <4>1, <4>2, Zenon
    <3> QED
      BY <1>1, <2>7, <3>3, <3>5, <3>6, <3>8, Zenon DEF StepOK
  <2> QED
    BY <2>9, <2>10, Zenon
<1> QED
  BY <1>10, <1>11, Zenon

(* One round of a scan. *)
LEMMA RoundStep ==
    ASSUME NEW how \in {"RESCAN", "ROTATE", "KEEP_PLACE"}, NEW s, NEW q, NEW q0, NEW ok,
           NEW max \in Nat, NEW d \in Nat, StepOK(how, s, q, q0, ok, max, d + 1)
    PROVE  \E r : StepOK(how, round(how, s, ok, max), r, q0, ok, max, d)
<1>1. CASE Over(how, s, max)
  <2>1. round(how, s, ok, max) = s
    BY <1>1, OverStays, Zenon
  <2>2. Ends(how, s, q, max, d)
    BY <1>1, Zenon DEF Ends
  <2>3. ~(how = "RESCAN" /\ ok = Things)
    <3> SUFFICES ASSUME how = "RESCAN", ok = Things PROVE FALSE
      BY Zenon
    <3>1. /\ s.cur = At(q, 1) /\ s.notready = 0 /\ Len(q) = d + 1 /\ q \in Seq(Things)
      BY Zenon DEF StepOK, Flushing, ScanOK, Rep
    <3>2. 1 \in 1 .. Len(q)
      BY <3>1
    <3>3. s.cur \in Things /\ s.cur # NULL
      BY <3>1, <3>2, NotNull DEF At
    <3> QED
      BY <1>1, <3>1, <3>3 DEF Over
  <2> QED
    BY <2>1, <2>2, <2>3, Zenon DEF StepOK
<1>2. CASE ~Over(how, s, max) /\ how = "RESCAN"
  BY <1>2, RescanStep, Zenon DEF round
<1>3. CASE ~Over(how, s, max) /\ how = "ROTATE"
  BY <1>3, RotateStep, Zenon DEF round
<1>4. CASE ~Over(how, s, max) /\ how = "KEEP_PLACE"
  BY <1>4, KeepPlaceStep, Zenon DEF round
<1> QED
  BY <1>1, <1>2, <1>3, <1>4, Zenon

-----------------------------------------------------------------------------
(* Where a scan begins, and the scans after each of n rounds. *)
From(how, l) == IF how = "KEEP_PLACE" /\ l.position # NULL THEN l.position ELSE l.first

Walk(g, n, how, l, ok) ==
    g = [k \in 0 .. n |-> IF k = 0 THEN Scan(l, From(how, l))
                                   ELSE round(how, g[k - 1], ok, max_notready(l))]

(* The value of rounds is the last of the scans of such a function. *)
LEMMA RoundsUnfold ==
    ASSUME NEW how, NEW l, NEW ok
    PROVE  rounds(how, l, ok) = (CHOOSE g : Walk(g, l.count, how, l, ok))[l.count]
BY Zenon DEF rounds, Walk, From

(* A scan that is about to begin. *)
LEMMA ScanStarts ==
    ASSUME NEW how \in {"RESCAN", "ROTATE", "KEEP_PLACE"}, NEW q0, NEW ok, NEW max \in Nat,
           Rep(rp, q0), Placed(rp, q0), how = "ROTATE" => rp.strategy # "KEEP_PLACE"
    PROVE  StepOK(how, Scan(rp, From(how, rp)), q0, q0, ok, max, rp.count)
<1>1. q0 \in Seq(Things) /\ Len(q0) \in Nat /\ rp.count = Len(q0) /\ rp \in Lists /\ rp.first = At(q0, 1)
  BY DEF Rep, Links
<1>2. PICK f : f = From(how, rp)
  BY Zenon
<1>3. rp.first \in Elems(q0) \cup {NULL} /\ (rp.first = NULL => q0 = <<>>)
  <2>1. CASE q0 = <<>>
    BY <1>1, <2>1 DEF At
  <2>2. CASE q0 # <<>>
    <3>1. 1 \in 1 .. Len(q0) /\ rp.first = q0[1]
      BY <1>1, <2>2 DEF At
    <3>2. rp.first \in Things
      BY <1>1, <3>1
    <3> QED
      BY <3>1, <3>2, NotNull, Zenon DEF Elems
  <2> QED
    BY <2>1, <2>2, Zenon
<1>4. f \in Elems(q0) \cup {NULL} /\ f \in Node /\ (f = NULL => q0 = <<>>)
  BY <1>1, <1>2, <1>3, Zenon DEF From, Placed, Lists
<1>5. PICK s : s = Scan(rp, f)
  BY Zenon
<1>6. /\ s \in Scans /\ s.l = rp /\ s.out = {} /\ s.notready = 0 /\ s.n = 0 /\ s.cur = f
      /\ s.firstmoved = NULL
  BY <1>1, <1>4, <1>5, Zenon DEF Scan, Scans, Node
<1>7. ScanOK(how, s, q0, q0, ok)
  BY <1>4, <1>6, Zenon DEF ScanOK
<1>8. how # "KEEP_PLACE" => f = At(q0, 1)
  BY <1>1, <1>2, Zenon DEF From
<1>9. how = "RESCAN" => Flushing(s, q0, rp.count)
  BY <1>1, <1>6, <1>8, Zenon DEF Flushing
<1>10. Ends(how, s, q0, max, rp.count)
  <2>1. CASE how = "RESCAN"
    <3>1. CASE f = NULL
      BY <1>6, <2>1, <3>1, Zenon DEF Ends, Over
    <3>2. CASE f # NULL
      <4>1. f = q0[1] /\ 1 \in 1 .. Len(q0)
        BY <1>8, <2>1, <3>2, Zenon DEF At
      <4>2. PICK i \in 1 .. Len(q0) : i = 1
        BY <4>1, Zenon
      <4>3. s.cur = q0[i] /\ Len(q0) + 1 - i <= rp.count
        BY <1>1, <1>6, <4>1, <4>2
      <4> QED
        BY <2>1, <4>3, Zenon DEF Ends
    <3> QED
      BY <3>1, <3>2, Zenon
  <2>2. CASE how = "KEEP_PLACE"
    BY <1>1, <1>6, <2>2 DEF Ends
  <2>3. CASE how = "ROTATE"
    BY <1>1, <1>6, <1>8, <2>3 DEF Ends
  <2> QED
    BY <2>1, <2>2, <2>3, Zenon
<1> QED
  BY <1>2, <1>5, <1>6, <1>7, <1>9, <1>10, Zenon DEF StepOK

(* The ratio allows a number of things. *)
LEMMA MaxNat ==
    ASSUME NEW l \in Lists
    PROVE  max_notready(l) \in Nat
<1>1. l.percent \in Nat /\ l.count \in Nat
  BY DEF Lists
<1>2. \A a, b \in Nat : a * b \in Nat
  OBVIOUS
<1>3. \A a \in Nat : a \div 100 \in Nat
  OBVIOUS
<1> QED
  BY <1>1, <1>2, <1>3, Zenon DEF max_notready

-----------------------------------------------------------------------------
(* The inductive invariant: the links are those of a sequence of things that
   have not been reaped, the saved place is one of them, and the timer is set
   if there are any. *)
Stands(q) == Rep(rp, q) /\ Placed(rp, q) /\ Elems(q) \cap reaped = {}

ReaperInv == (\E q : Stands(q)) /\ TimerSet

(* A reaper that has just been started has no things. *)
LEMMA InitInv == ReaperInit => ReaperInv
<1> SUFFICES ASSUME ReaperInit PROVE ReaperInv
  BY Zenon
<1>1. PICK k \in Kinds : rp = nchan_reaper_start(k[1], k[2])
  BY Zenon DEF ReaperInit
<1>2. k[1] \in {"RESCAN", "ROTATE", "KEEP_PLACE"} /\ k[2] \in 0 .. 100
  BY ReaperAssumption, Zenon
<1>3. PICK a, b : a = k[1] /\ b = k[2]
  BY Zenon
<1>4. PICK nx : nx = [t \in Things |-> NULL]
  BY Zenon
<1>5. nx \in [Things -> Node] /\ NULL \in Node
  BY <1>4, Zenon DEF Node
<1>6. rp = [strategy |-> a, percent |-> b, first |-> NULL, last |-> NULL, count |-> 0, position |-> NULL,
            next |-> nx, prev |-> nx]
  BY <1>1, <1>3, <1>4, Zenon DEF nchan_reaper_start
<1>7. rp \in Lists /\ rp.first = NULL /\ rp.last = NULL /\ rp.count = 0 /\ rp.position = NULL
  BY <1>2, <1>3, <1>5, <1>6, Zenon DEF Lists
<1>8. PICK q : q = <<>>
  BY Zenon
<1>9. q \in Seq(Things) /\ Len(q) = 0 /\ Elems(q) = {} /\ Distinct(q)
  BY <1>8 DEF Elems, Distinct
<1>10. Rep(rp, q)
  BY <1>7, <1>9 DEF Rep, Links, At
<1>11. Stands(q)
  BY <1>7, <1>9, <1>10, Zenon DEF Stands, Placed
<1>12. TimerSet
  BY <1>7 DEF TimerSet
<1> QED
  BY <1>11, <1>12, Zenon DEF ReaperInv

-----------------------------------------------------------------------------
(* A fetch over many channels: what is known of messages and positions. *)

Msg == (1 .. MaxTime) \X (0 .. MaxTag)
Ids == [time : 0 .. MaxTime, tags : [Chans -> -1 .. MaxTag]]
Replies == [status : {"FOUND", "EXPECTED", "NOTFOUND"}, msg : Msg \cup {NoMessage}]

Position(c) == nchan_extract_from_multi_msgid(client.id, c)

(* A channel's messages: typed, in order, tagged within bounds, none from
   the future. *)
ChannelsOK ==
    /\ chan \in [Chans -> Seq(Msg)]
    /\ \A c \in Chans :
          /\ Len(chan[c]) <= MaxMsgs \/ Len(chan[c]) = 1
          /\ \A k \in 1 .. Len(chan[c]) : chan[c][k][1] <= clock /\ chan[c][k][2] < k
          /\ \A j, k \in 1 .. Len(chan[c]) : j < k => Before(chan[c][j], chan[c][k])

(* A position with a tag is that of a message of the channel. *)
ClientOK ==
    /\ client \in [id : Ids, seen : [Chans -> Seq(Msg)]]
    /\ client.id.time <= clock
    /\ client.id.time # OLDEST =>
          \A c \in Chans : client.id.tags[c] # -1 =>
              \E k \in 1 .. Len(chan[c]) : chan[c][k] = <<client.id.time, client.id.tags[c]>>

ForwardOK == \A c \in Chans : fwd[c] = <<NEWEST, 0>> \/ (fwd[c] \in Msg /\ fwd[c][1] > 1)

(* What was given of channel c is what lies at or before the position. *)
SeenUpTo(c) ==
    /\ Len(client.seen[c]) <= Len(chan[c])
    /\ \A k \in 1 .. Len(chan[c]) :
          /\ k <= Len(client.seen[c]) => client.seen[c][k] = chan[c][k]
          /\ k <= Len(client.seen[c]) <=> ~Before(Position(c), chan[c][k])

(* m is the first message of channel c after the position. *)
NextOf(c, m) ==
    \E k \in 1 .. Len(chan[c]) :
        /\ chan[c][k] = m
        /\ Before(Position(c), m)
        /\ \A j \in 1 .. k - 1 : ~Before(Position(c), chan[c][j])

(* Nothing that channel c has after the position is earlier than m, late
   publications aside. *)
Covered(c, m) ==
    \A k \in 1 .. Len(chan[c]) : Before(Position(c), chan[c][k]) =>
        chan[c][k][1] \in get.late \/ (m # NoMessage /\ m[1] <= chan[c][k][1])

Asks == [c : Chans, id : (0 .. MaxTime) \X (0 .. MaxTag)]
Answers == [c : Chans, reply : Replies]
Fetches ==
    [on : BOOLEAN, wanted : Ids, status : {"PENDING", "FOUND", "EXPECTED", "NOTFOUND"},
     msg : Msg \cup {NoMessage}, n : Nat, asked : SUBSET Asks, answers : SUBSET Answers,
     lost : Nat, expired : BOOLEAN, late : SUBSET (1 .. MaxTime)]

FetchOK ==
    /\ get \in Fetches
    /\ IsFiniteSet(get.asked) /\ IsFiniteSet(get.answers)
    /\ ~get.on => get = NoFetch
    /\ get.on => get.wanted = client.id
    /\ \A q \in get.asked : q.id = Position(q.c)
    /\ \A w \in get.answers : w.reply.msg # NoMessage => NextOf(w.c, w.reply.msg)
    /\ get.msg # NoMessage => get.n \in Chans /\ get.status # "PENDING" /\ NextOf(get.n, get.msg)

(* Every channel has yet to answer, has an answer on its way or merged, or
   has lost it. *)
FetchCovers ==
    get.on /\ ~get.expired /\ get.lost = 0 =>
        \A c \in Chans : \/ \E q \in get.asked : q.c = c
                         \/ \E w \in get.answers : w.c = c /\ Covered(c, w.reply.msg)
                         \/ Covered(c, get.msg)

MultiInv ==
    /\ clock \in 2 .. MaxTime
    /\ ChannelsOK /\ ClientOK /\ ForwardOK
    /\ raced \in BOOLEAN
    /\ raced \/ \A c \in Chans : SeenUpTo(c)
    /\ FetchOK /\ FetchCovers
    /\ HeadReservedOnce /\ TagsAdvance
    /\ leaked \in Nat

-----------------------------------------------------------------------------
(* Positions and messages are compared as pairs, time first. *)

Pairs == Int \X Int

(* No message is before itself. *)
LEMMA NotBeforeItself ==
    ASSUME NEW p \in Pairs
    PROVE  ~Before(p, p)
BY DEF Pairs, Before

(* Being before is antisymmetric. *)
LEMMA BeforeAsym ==
    ASSUME NEW p \in Pairs, NEW q \in Pairs, Before(p, q)
    PROVE  ~Before(q, p)
BY DEF Pairs, Before

(* A message is a pair with a time and a tag. *)
LEMMA MsgParts ==
    ASSUME NEW m \in Msg
    PROVE  /\ m \in Pairs
           /\ m[1] \in 1 .. MaxTime /\ m[2] \in 0 .. MaxTag
           /\ m = <<m[1], m[2]>>
           /\ m # NoMessage
<1>1. m \in Pairs /\ m[1] \in 1 .. MaxTime /\ m[2] \in 0 .. MaxTag /\ m = <<m[1], m[2]>>
  BY MultiAssumption DEF Msg, Pairs
<1>2. <<m[1], m[2]>> # NoMessage
  <2>1. Len(<<m[1], m[2]>>) = 2 /\ Len(NoMessage) = 0
    BY Zenon DEF NoMessage
  <2> QED
    BY <2>1
<1> QED
  BY <1>1, <1>2, Zenon

(* The parts of the constants' assumption that are used below. *)
LEMMA Constants ==
    /\ MaxTag \in Nat /\ MaxTime \in Nat /\ MaxMsgs \in Nat /\ MaxMsgs <= MaxTag /\ MaxTime >= 2
    /\ IsFiniteSet(Chans) /\ Chans \subseteq Nat /\ MaxTimeouts \in Nat
<1>1. Cardinality(Chans) \in Nat
  BY MultiAssumption, Zenon
<1> QED
  BY <1>1, MultiAssumption

(* The part of an id for a channel is a time and a tag; without a tag it lies
   before the id's second, and it is never beyond that second. *)
LEMMA ExtractParts ==
    ASSUME NEW id \in Ids, NEW c \in Chans
    PROVE  LET p == nchan_extract_from_multi_msgid(id, c)
           IN  /\ p \in (0 .. MaxTime) \X (0 .. MaxTag)
               /\ p \in Pairs
               /\ p[1] <= id.time
               /\ id.time = OLDEST => p = <<0, 0>>
               /\ id.time # OLDEST /\ id.tags[c] = -1 => p = <<id.time - 1, MaxTag>>
               /\ id.time # OLDEST /\ id.tags[c] # -1 => p = <<id.time, id.tags[c]>>
<1>1. id.time \in 0 .. MaxTime /\ id.tags[c] \in -1 .. MaxTag
  BY Zenon DEF Ids
<1>2. id.time # NEWEST
  BY <1>1 DEF NEWEST
<1>3. CASE id.time = OLDEST
  BY <1>1, <1>3, Constants DEF nchan_extract_from_multi_msgid, OLDEST, Pairs
<1>4. CASE id.time # OLDEST /\ id.tags[c] = -1
  BY <1>1, <1>2, <1>4, Constants DEF nchan_extract_from_multi_msgid, OLDEST, NEWEST, Pairs
<1>5. CASE id.time # OLDEST /\ id.tags[c] # -1
  BY <1>1, <1>2, <1>5, Constants DEF nchan_extract_from_multi_msgid, OLDEST, NEWEST, Pairs
<1> QED
  BY <1>3, <1>4, <1>5, Zenon

(* The same of the client's position. *)
LEMMA PositionParts ==
    ASSUME ClientOK, NEW c \in Chans
    PROVE  /\ Position(c) \in (0 .. MaxTime) \X (0 .. MaxTag)
           /\ Position(c) \in Pairs
           /\ Position(c)[1] <= client.id.time
           /\ client.id.time = OLDEST => Position(c) = <<0, 0>>
           /\ client.id.time # OLDEST /\ client.id.tags[c] = -1
                => Position(c) = <<client.id.time - 1, MaxTag>>
           /\ client.id.time # OLDEST /\ client.id.tags[c] # -1
                => Position(c) = <<client.id.time, client.id.tags[c]>>
<1>1. client.id \in Ids
  BY Zenon DEF ClientOK
<1> QED
  BY <1>1, ExtractParts, Zenon DEF Position

(* A channel's messages are messages. *)
LEMMA ChannelMsgs ==
    ASSUME ChannelsOK, NEW c \in Chans, NEW k \in 1 .. Len(chan[c])
    PROVE  chan[c][k] \in Msg /\ chan[c] \in Seq(Msg) /\ Len(chan[c]) \in Nat /\ chan[c][k] \in Pairs
<1>1. chan[c] \in Seq(Msg)
  BY Zenon DEF ChannelsOK
<1>2. chan[c][k] \in Msg /\ Len(chan[c]) \in Nat
  BY <1>1
<1> QED
  BY <1>1, <1>2, MsgParts, Zenon

-----------------------------------------------------------------------------
(* What a step that leaves the channels and the client alone preserves. *)

(* Channels and client stay as they should be. *)
LEMMA ViewKept ==
    ASSUME MultiInv, chan' = chan, client' = client, clock' = clock, raced' = raced
    PROVE  ChannelsOK' /\ ClientOK' /\ raced' \in BOOLEAN /\ (raced \/ \A c \in Chans : SeenUpTo(c))'
<1>1. ChannelsOK'
  BY Zenon DEF MultiInv, ChannelsOK
<1>2. ClientOK'
  BY Zenon DEF MultiInv, ClientOK
<1>3. (raced \/ \A c \in Chans : SeenUpTo(c))'
  BY Zenon DEF MultiInv, SeenUpTo, Position
<1> QED
  BY <1>1, <1>2, <1>3, Zenon DEF MultiInv

(* The first message after a position stays the first one. *)
LEMMA NextKept ==
    ASSUME chan' = chan, client' = client, NEW c, NEW m, NextOf(c, m)
    PROVE  NextOf(c, m)'
BY Zenon DEF NextOf, Position

(* What covers a channel goes on to, while late publications are only added. *)
LEMMA CoveredKept ==
    ASSUME chan' = chan, client' = client, get.late \subseteq get'.late, NEW c, NEW m, Covered(c, m)
    PROVE  Covered(c, m)'
BY Zenon DEF Covered, Position

(* A second passes. *)
LEMMA TickKeeps ==
    ASSUME MultiInv, tick
    PROVE  MultiInv'
<1>1. clock \in Int /\ clock' = clock + 1 /\ clock' \in 2 .. MaxTime
  BY Constants DEF MultiInv, tick
<1>2. ChannelsOK'
  <2> SUFFICES ASSUME NEW c \in Chans, NEW k \in 1 .. Len(chan[c])
               PROVE  chan[c][k][1] <= clock'
    BY Zenon DEF MultiInv, ChannelsOK, tick
  <2>1. chan[c][k][1] <= clock /\ chan[c][k][1] \in Int
    <3>1. chan[c][k] \in Msg
      BY ChannelMsgs, Zenon DEF MultiInv
    <3>2. chan[c][k][1] \in 1 .. MaxTime
      BY <3>1, MsgParts, Zenon
    <3> QED
      BY <3>2 DEF MultiInv, ChannelsOK
  <2> QED
    BY <1>1, <2>1
<1>3. ClientOK'
  <2>1. client.id.time <= clock /\ client.id.time \in Int
    BY DEF MultiInv, ClientOK, Ids
  <2>2. client.id.time <= clock'
    BY <2>1, <1>1
  <2> QED
    BY <2>2, Zenon DEF MultiInv, ClientOK, tick
<1>4. ForwardOK' /\ raced' \in BOOLEAN /\ HeadReservedOnce' /\ TagsAdvance' /\ leaked' \in Nat
  BY Zenon DEF MultiInv, ForwardOK, HeadReservedOnce, TagsAdvance, tick
<1>5. (raced \/ \A c \in Chans : SeenUpTo(c))'
  BY Zenon DEF MultiInv, tick, SeenUpTo, Position
<1>6. FetchOK'
  BY Zenon DEF MultiInv, tick, FetchOK, Position, NextOf
<1>7. FetchCovers'
  BY Zenon DEF MultiInv, tick, FetchCovers, Position, Covered
<1> QED
  BY <1>1, <1>2, <1>3, <1>4, <1>5, <1>6, <1>7, Zenon DEF MultiInv

(* A fetch expires. *)
LEMMA TimeoutKeeps ==
    ASSUME MultiInv, get_multimsg_timeout
    PROVE  MultiInv'
<1>1. /\ clock' = clock /\ chan' = chan /\ client' = client /\ fwd' = fwd
      /\ refs' = refs - 1 /\ leaked' = leaked /\ asserted' = asserted /\ raced' = raced
      /\ get' = [get EXCEPT !.expired = TRUE] /\ get.on /\ ~get.expired
  BY Zenon DEF get_multimsg_timeout
<1>2. get \in Fetches
  BY Zenon DEF MultiInv, FetchOK
<1>3. /\ get'.on = get.on /\ get'.wanted = get.wanted /\ get'.status = get.status
      /\ get'.msg = get.msg /\ get'.n = get.n /\ get'.lost = get.lost
      /\ get'.expired = TRUE /\ get'.late = get.late
      /\ get'.asked = get.asked /\ get'.answers = get.answers
  BY <1>1, <1>2, Zenon DEF Fetches
<1>4. get' \in Fetches
  BY <1>1, <1>2, Zenon DEF Fetches
<1>6. FetchOK'
  BY <1>1, <1>3, <1>4 DEF MultiInv, FetchOK, NextOf, Position
<1>7. FetchCovers'
  BY <1>3, Zenon DEF FetchCovers
<1>8. ForwardOK' /\ TagsAdvance' /\ HeadReservedOnce'
  BY <1>1, <1>3 DEF MultiInv, ForwardOK, TagsAdvance, HeadReservedOnce
<1> QED
  BY <1>1, <1>6, <1>7, <1>8, ViewKept, Zenon DEF MultiInv

(* The id of a new message of channel d. *)
NewMsg(d) ==
    <<clock, IF chan[d] # <<>> /\ msg_last(d)[1] = clock THEN msg_last(d)[2] + 1 ELSE 0>>

(* A new message comes after those of its channel, and after the position
   of the client. *)
LEMMA NewMsgIsLast ==
    ASSUME MultiInv, NEW d \in Chans, Len(chan[d]) < MaxMsgs
    PROVE  /\ NewMsg(d) \in Msg
           /\ NewMsg(d)[1] = clock /\ NewMsg(d)[2] < Len(chan[d]) + 1
           /\ \A k \in 1 .. Len(chan[d]) : Before(chan[d][k], NewMsg(d))
           /\ Before(Position(d), NewMsg(d))
<1> DEFINE L == Len(chan[d])
<1>1. chan[d] \in Seq(Msg) /\ L \in Nat /\ clock \in 2 .. MaxTime /\ clock \in Int
  BY Constants DEF MultiInv, ChannelsOK
<1>2. PICK t : t = NewMsg(d)[2]
  BY Zenon
<1>3. NewMsg(d) = <<clock, t>>
  BY <1>2, Zenon DEF NewMsg
<1>4. t \in Nat /\ t < L + 1 /\ \A k \in 1 .. L : Before(chan[d][k], <<clock, t>>)
  <2>1. ASSUME NEW k \in 1 .. L
        PROVE  chan[d][k][1] \in Nat /\ chan[d][k][2] \in Nat /\ chan[d][k][1] <= clock /\ chan[d][k][2] < k
    <3>1. chan[d][k] \in Msg
      BY ChannelMsgs, Zenon DEF MultiInv
    <3>2. chan[d][k][1] \in Nat /\ chan[d][k][2] \in Nat
      BY <3>1, MsgParts, Constants
    <3> QED
      BY <3>2, Zenon DEF MultiInv, ChannelsOK
  <2>2. CASE chan[d] # <<>> /\ msg_last(d)[1] = clock
    <3>1. L \in 1 .. L /\ msg_last(d) = chan[d][L]
      BY <1>1, <2>2 DEF msg_last
    <3>2. t = chan[d][L][2] + 1
      BY <1>2, <2>2, <3>1, Zenon DEF NewMsg
    <3>3. t \in Nat /\ t < L + 1
      BY <1>1, <2>1, <3>1, <3>2
    <3>4. ASSUME NEW k \in 1 .. L PROVE Before(chan[d][k], <<clock, t>>)
      <4>1. CASE k = L
        <5>1. chan[d][k][1] = clock /\ chan[d][k][2] \in Nat /\ chan[d][k][2] < t
          BY <2>1, <2>2, <3>1, <3>2, <4>1
        <5> QED
          BY <5>1, Zenon DEF Before
      <4>2. CASE k # L
        <5>1. Before(chan[d][k], chan[d][L])
          BY <1>1, <3>1, <4>2 DEF MultiInv, ChannelsOK
        <5>2. chan[d][L][1] = clock
          BY <2>2, <3>1, Zenon
        <5>3. chan[d][k][1] \in Nat /\ chan[d][k][2] \in Nat /\ chan[d][L][2] \in Nat
          BY <2>1, <3>1, Zenon
        <5> QED
          BY <1>1, <3>2, <5>1, <5>2, <5>3, SMTT(30) DEF Before
      <4> QED
        BY <4>1, <4>2, Zenon
    <3> QED
      BY <3>3, <3>4, Zenon
  <2>3. CASE ~(chan[d] # <<>> /\ msg_last(d)[1] = clock)
    <3>1. t = 0
      BY <1>2, <2>3, Zenon DEF NewMsg
    <3>2. ASSUME NEW k \in 1 .. L PROVE Before(chan[d][k], <<clock, t>>)
      <4>1. L \in 1 .. L /\ msg_last(d) = chan[d][L] /\ chan[d] # <<>>
        BY <1>1 DEF msg_last
      <4>2. chan[d][L][1] < clock
        BY <1>1, <2>1, <2>3, <4>1
      <4>3. k = L \/ Before(chan[d][k], chan[d][L])
        BY <1>1, <4>1 DEF MultiInv, ChannelsOK
      <4>4. chan[d][k][1] < clock
        BY <1>1, <2>1, <4>1, <4>2, <4>3, SMTT(30) DEF Before
      <4> QED
        BY <4>4, Zenon DEF Before
    <3> QED
      BY <1>1, <3>1, <3>2
  <2> QED
    BY <2>2, <2>3, Zenon
<1>5. <<clock, t>> \in Msg
  BY <1>1, <1>4, Constants DEF Msg
<1>6. Before(Position(d), <<clock, t>>)
  <2>1. ClientOK /\ client.id.time <= clock /\ client.id.time \in Int
    <3>1. ClientOK /\ client.id \in Ids /\ client.id.time <= clock
      BY Zenon DEF MultiInv, ClientOK
    <3>2. client.id.time \in 0 .. MaxTime
      BY <3>1, Zenon DEF Ids
    <3> QED
      BY <3>1, <3>2
  <2>2. CASE client.id.time = OLDEST
    BY <1>1, <2>1, <2>2, PositionParts DEF Before
  <2>3. CASE client.id.time # OLDEST /\ client.id.tags[d] = -1
    BY <1>1, <2>1, <2>3, PositionParts DEF Before
  <2>4. CASE client.id.time # OLDEST /\ client.id.tags[d] # -1
    <3>1. PICK k \in 1 .. L : chan[d][k] = Position(d)
      BY <2>1, <2>4, PositionParts, Zenon DEF ClientOK
    <3> QED
      BY <1>4, <3>1, Zenon
  <2> QED
    BY <2>2, <2>3, <2>4, Zenon
<1> QED
  BY <1>3, <1>4, <1>5, <1>6

(* A channel gets a message. *)
LEMMA PublishKeeps ==
    ASSUME MultiInv, NEW d \in Chans, publish(d)
    PROVE  MultiInv'
<1>1. /\ clock' = clock /\ client' = client /\ fwd' = fwd
      /\ refs' = refs /\ leaked' = leaked /\ asserted' = asserted /\ raced' = raced
      /\ Len(chan[d]) < MaxMsgs
  BY Zenon DEF publish
<1>2. PICK new : new = NewMsg(d)
  BY Zenon
<1>3. chan' = [chan EXCEPT ![d] = Append(@, new)]
  BY <1>2, Zenon DEF publish, NewMsg
<1>4. /\ new \in Msg /\ new[1] = clock /\ new[2] < Len(chan[d]) + 1
      /\ \A k \in 1 .. Len(chan[d]) : Before(chan[d][k], new)
      /\ Before(Position(d), new)
  BY <1>1, <1>2, NewMsgIsLast, Zenon
<1>5. \A c \in Chans : chan[c] \in Seq(Msg) /\ Len(chan[c]) \in Nat
  BY DEF MultiInv, ChannelsOK
<1>6. /\ chan'[d] = Append(chan[d], new) /\ Len(chan'[d]) = Len(chan[d]) + 1
      /\ \A c \in Chans : c # d => chan'[c] = chan[c]
      /\ \A k \in 1 .. Len(chan[d]) : chan'[d][k] = chan[d][k]
      /\ chan'[d][Len(chan[d]) + 1] = new
  <2>1. chan'[d] = Append(chan[d], new) /\ \A c \in Chans : c # d => chan'[c] = chan[c]
    BY <1>3, Zenon DEF MultiInv, ChannelsOK
  <2> QED
    BY <1>4, <1>5, <2>1
<1>7. \A c \in Chans : Position(c)' = Position(c)
  BY <1>1, Zenon DEF Position
<1>8. ChannelsOK'
  <2>1. chan' \in [Chans -> Seq(Msg)]
    BY <1>3, <1>4, <1>5 DEF MultiInv, ChannelsOK
  <2>2. ASSUME NEW c \in Chans, c # d
        PROVE  /\ Len(chan'[c]) <= MaxMsgs \/ Len(chan'[c]) = 1
               /\ \A k \in 1 .. Len(chan'[c]) : chan'[c][k][1] <= clock /\ chan'[c][k][2] < k
               /\ \A j, k \in 1 .. Len(chan'[c]) : j < k => Before(chan'[c][j], chan'[c][k])
    BY <1>6, <2>2, Zenon DEF MultiInv, ChannelsOK
  <2>3. Len(chan'[d]) <= MaxMsgs
    BY <1>1, <1>5, <1>6, Constants
  <2>4. ASSUME NEW k \in 1 .. Len(chan'[d]) PROVE chan'[d][k][1] <= clock /\ chan'[d][k][2] < k
    <3>1. CASE k = Len(chan[d]) + 1
      BY <1>4, <1>6, <3>1 DEF MultiInv
    <3>2. CASE k # Len(chan[d]) + 1
      BY <1>5, <1>6, <3>2 DEF MultiInv, ChannelsOK
    <3> QED
      BY <3>1, <3>2, Zenon
  <2>5. ASSUME NEW j \in 1 .. Len(chan'[d]), NEW k \in 1 .. Len(chan'[d]), j < k
        PROVE  Before(chan'[d][j], chan'[d][k])
    <3>1. j \in 1 .. Len(chan[d])
      BY <1>5, <1>6, <2>5
    <3>2. CASE k = Len(chan[d]) + 1
      BY <1>4, <1>6, <3>1, <3>2, Zenon
    <3>3. CASE k # Len(chan[d]) + 1
      BY <1>5, <1>6, <2>5, <3>1, <3>3 DEF MultiInv, ChannelsOK
    <3> QED
      BY <3>2, <3>3, Zenon
  <2> QED
    BY <1>1, <2>1, <2>2, <2>3, <2>4, <2>5, Zenon DEF ChannelsOK
<1>9. ClientOK'
  <2>1. ASSUME NEW c \in Chans, NEW m, \E k \in 1 .. Len(chan[c]) : chan[c][k] = m
        PROVE  \E k \in 1 .. Len(chan'[c]) : chan'[c][k] = m
    BY <1>5, <1>6, <2>1
  <2> QED
    BY <1>1, <2>1, ZenonT(30) DEF MultiInv, ClientOK
<1>10. (raced \/ \A c \in Chans : SeenUpTo(c))'
  <2> SUFFICES ASSUME ~raced, NEW c \in Chans PROVE SeenUpTo(c)'
    BY <1>1, Zenon
  <2>1. SeenUpTo(c) /\ Len(client.seen[c]) \in Nat
    BY DEF MultiInv, ClientOK
  <2>2. CASE c # d
    BY <1>1, <1>6, <1>7, <2>1, <2>2, Zenon DEF SeenUpTo
  <2>3. CASE c = d
    <3>1. Len(client.seen[d]) <= Len(chan'[d])
      BY <1>5, <1>6, <2>1, <2>3 DEF SeenUpTo
    <3>2. ASSUME NEW k \in 1 .. Len(chan'[d])
          PROVE  /\ k <= Len(client.seen[d]) => client.seen[d][k] = chan'[d][k]
                 /\ k <= Len(client.seen[d]) <=> ~Before(Position(d), chan'[d][k])
      <4>1. CASE k = Len(chan[d]) + 1
        <5>1. ~(k <= Len(client.seen[d]))
          BY <1>5, <2>1, <2>3, <4>1 DEF SeenUpTo
        <5> QED
          BY <1>4, <1>6, <4>1, <5>1, Zenon
      <4>2. CASE k # Len(chan[d]) + 1
        <5>1. k \in 1 .. Len(chan[d])
          BY <1>5, <1>6, <4>2
        <5> QED
          BY <1>6, <2>1, <2>3, <5>1, Zenon DEF SeenUpTo
      <4> QED
        BY <4>1, <4>2, Zenon
    <3> QED
      BY <1>1, <1>7, <2>3, <3>1, <3>2, Zenon DEF SeenUpTo
  <2> QED
    BY <2>2, <2>3, Zenon
<1>11. get \in Fetches /\ get' \in Fetches
  <2>1. get \in Fetches
    BY Zenon DEF MultiInv, FetchOK
  <2>2. clock \in 1 .. MaxTime
    BY Constants DEF MultiInv
  <2>3. get.late \cup {clock} \in SUBSET (1 .. MaxTime)
    BY <2>1, <2>2, Zenon DEF Fetches
  <2>4. get' = [get EXCEPT !.late = @ \cup {clock}] \/ get' = get
    BY Zenon DEF publish
  <2> QED
    BY <2>1, <2>3, <2>4, Zenon DEF Fetches
<1>12. /\ get'.on = get.on /\ get'.wanted = get.wanted /\ get'.status = get.status
       /\ get'.msg = get.msg /\ get'.n = get.n /\ get'.lost = get.lost
       /\ get'.expired = get.expired /\ get.late \subseteq get'.late
       /\ get'.asked = get.asked /\ get'.answers = get.answers
       /\ ~get.on => get' = get
       /\ get.on => clock \in get'.late \/ \E q \in get.asked : q.c = d
  BY <1>11, Zenon DEF publish, Fetches
<1>13. ASSUME NEW c \in Chans, NEW m, NextOf(c, m) PROVE NextOf(c, m)'
  <2>1. PICK k \in 1 .. Len(chan[c]) : /\ chan[c][k] = m
                                       /\ Before(Position(c), m)
                                       /\ \A j \in 1 .. k - 1 : ~Before(Position(c), chan[c][j])
    BY <1>13, Zenon DEF NextOf
  <2>2. k \in 1 .. Len(chan'[c]) /\ \A j \in 1 .. k : chan'[c][j] = chan[c][j]
    BY <1>5, <1>6, SMTT(30)
  <2>3. k \in 1 .. k /\ \A j \in 1 .. k - 1 : j \in 1 .. k
    BY <1>5
  <2> QED
    BY <1>7, <2>1, <2>2, <2>3, Zenon DEF NextOf
<1>14. FetchOK'
  <2>1. \A q \in get'.asked : q.id = Position(q.c)'
    BY <1>1, <1>12, Zenon DEF MultiInv, FetchOK, Position
  <2>2. ASSUME NEW v \in get'.answers, v.reply.msg # NoMessage PROVE NextOf(v.c, v.reply.msg)'
    <3>1. NextOf(v.c, v.reply.msg) /\ v.c \in Chans
      BY <1>11, <1>12, <2>2, Zenon DEF MultiInv, FetchOK, Fetches, Answers
    <3> QED
      BY <1>13, <3>1, Zenon
  <2>3. (get.msg # NoMessage => get.n \in Chans /\ get.status # "PENDING" /\ NextOf(get.n, get.msg))'
    <3> SUFFICES ASSUME get.msg # NoMessage
                 PROVE  get.n \in Chans /\ get.status # "PENDING" /\ NextOf(get.n, get.msg)'
      BY <1>12, Zenon
    <3>1. PICK m, c : m = get.msg /\ c = get.n
      BY Zenon
    <3>2. c \in Chans /\ get.status # "PENDING" /\ NextOf(c, m)
      BY <3>1, Zenon DEF MultiInv, FetchOK
    <3>3. NextOf(c, m)'
      BY <1>13, <3>2, Zenon
    <3> QED
      BY <1>12, <3>1, <3>2, <3>3, Zenon DEF NextOf, Position
  <2> QED
    BY <1>1, <1>11, <1>12, <2>1, <2>2, <2>3, Zenon DEF MultiInv, FetchOK
<1>15. FetchCovers'
  <2> SUFFICES ASSUME get.on, ~get.expired, get.lost = 0, NEW c \in Chans, ~\E q \in get.asked : q.c = c
               PROVE  \/ \E v \in get.answers : v.c = c /\ Covered(c, v.reply.msg)'
                      \/ Covered(c, get.msg)'
    BY <1>12, Zenon DEF FetchCovers, Covered
  <2>1. c = d => clock \in get'.late
    BY <1>12, Zenon
  <2>2. ASSUME NEW m, Covered(c, m) PROVE Covered(c, m)'
    <3> SUFFICES ASSUME NEW k \in 1 .. Len(chan'[c]), Before(Position(c), chan'[c][k])
                 PROVE  chan'[c][k][1] \in get'.late \/ (m # NoMessage /\ m[1] <= chan'[c][k][1])
      BY <1>7, Zenon DEF Covered
    <3>1. CASE c = d /\ k = Len(chan[d]) + 1
      BY <1>4, <1>6, <2>1, <3>1, Zenon
    <3>2. CASE ~(c = d /\ k = Len(chan[d]) + 1)
      <4>1. k \in 1 .. Len(chan[c]) /\ chan'[c][k] = chan[c][k]
        BY <1>5, <1>6, <3>2
      <4> QED
        BY <1>12, <2>2, <4>1, Zenon DEF Covered
    <3> QED
      BY <3>1, <3>2, Zenon
  <2>3. \/ \E v \in get.answers : v.c = c /\ Covered(c, v.reply.msg)
        \/ Covered(c, get.msg)
    BY Zenon DEF MultiInv, FetchCovers
  <2>4. CASE Covered(c, get.msg)
    <3>1. PICK m : m = get.msg
      BY Zenon
    <3>2. Covered(c, m)'
      BY <2>2, <2>4, <3>1, Zenon
    <3> QED
      BY <1>12, <3>1, <3>2, Zenon DEF Covered
  <2>5. CASE \E v \in get.answers : v.c = c /\ Covered(c, v.reply.msg)
    <3>1. PICK v \in get.answers : v.c = c /\ Covered(c, v.reply.msg)
      BY <2>5, Zenon
    <3>2. Covered(c, v.reply.msg)'
      BY <2>2, <3>1, Zenon
    <3> QED
      BY <3>1, <3>2, Zenon
  <2> QED
    BY <2>3, <2>4, <2>5, Zenon
<1>16. ForwardOK' /\ TagsAdvance' /\ HeadReservedOnce'
  BY <1>1, <1>12, SMTT(20) DEF MultiInv, ForwardOK, TagsAdvance, HeadReservedOnce
<1> QED
  BY <1>1, <1>8, <1>9, <1>10, <1>14, <1>15, <1>16, Zenon DEF MultiInv

-----------------------------------------------------------------------------
(* Answers are merged. *)

(* The kept message is the better of the two, and the rest of the fetch stays. *)
LEMMA MergeKeepsBest ==
    ASSUME NEW g \in Fetches, NEW w \in Answers,
           g.msg # NoMessage => g.n \in Chans /\ g.status # "PENDING"
    PROVE  LET h == set_multimsg_msg(g, w)
               m == w.reply.msg
           IN  /\ h \in Fetches
               /\ h.on = g.on /\ h.wanted = g.wanted /\ h.asked = g.asked /\ h.answers = g.answers
               /\ h.lost = g.lost /\ h.expired = g.expired /\ h.late = g.late
               /\ h.msg # NoMessage => h.n \in Chans /\ h.status # "PENDING"
               /\ (h.msg = g.msg /\ h.n = g.n) \/ (h.msg = m /\ h.n = w.c)
               /\ m # NoMessage => h.msg # NoMessage /\ h.msg[1] <= m[1]
               /\ g.msg # NoMessage => h.msg # NoMessage /\ h.msg[1] <= g.msg[1]
<1> DEFINE m == w.reply.msg
           h == set_multimsg_msg(g, w)
           taken == [g EXCEPT !.msg = m, !.n = w.c, !.status = w.reply.status]
           relabelled == [g EXCEPT !.status = w.reply.status]
<1>1. /\ w.c \in Chans /\ w.c \in Nat /\ m \in Msg \cup {NoMessage}
      /\ w.reply.status \in {"FOUND", "EXPECTED", "NOTFOUND"}
  BY Constants, Zenon DEF Answers, Replies
<1>2. g.msg \in Msg \cup {NoMessage} /\ g.n \in Nat
  BY Zenon DEF Fetches
<1>3. /\ taken \in Fetches /\ taken.on = g.on /\ taken.wanted = g.wanted
      /\ taken.asked = g.asked /\ taken.answers = g.answers
      /\ taken.lost = g.lost /\ taken.expired = g.expired /\ taken.late = g.late
      /\ taken.msg = m /\ taken.n = w.c /\ taken.status = w.reply.status
  BY <1>1, Zenon DEF Fetches
<1>4. /\ relabelled \in Fetches /\ relabelled.on = g.on /\ relabelled.wanted = g.wanted
      /\ relabelled.asked = g.asked /\ relabelled.answers = g.answers
      /\ relabelled.lost = g.lost /\ relabelled.expired = g.expired /\ relabelled.late = g.late
      /\ relabelled.msg = g.msg /\ relabelled.n = g.n
  BY <1>1, Zenon DEF Fetches
<1>5. m # NoMessage => m \in Pairs /\ m[1] \in Int
  BY <1>1, MsgParts
<1>6. g.msg # NoMessage => g.msg \in Pairs /\ g.msg[1] \in Int
  BY <1>2, MsgParts
<1> HIDE DEF taken, relabelled
<1>7. CASE g.status = "PENDING"
  <2>1. h = taken /\ g.msg = NoMessage
    BY <1>7, Zenon DEF set_multimsg_msg, taken
  <2> QED
    BY <1>1, <1>3, <1>5, <2>1
<1>8. CASE g.status # "PENDING" /\ m # NoMessage /\ g.msg = NoMessage
  <2>1. h = taken
    BY <1>8, Zenon DEF set_multimsg_msg, taken
  <2> QED
    BY <1>1, <1>3, <1>5, <1>8, <2>1
<1>9. CASE g.status # "PENDING" /\ m # NoMessage /\ g.msg # NoMessage
  <2>1. CASE Before(m, g.msg) \/ (m = g.msg /\ w.c < g.n)
    <3>1. h = taken
      BY <1>9, <2>1, Zenon DEF set_multimsg_msg, taken
    <3>2. m[1] <= g.msg[1]
      BY <1>5, <1>6, <1>9, <2>1, SMTT(30) DEF Before
    <3> QED
      BY <1>1, <1>3, <1>5, <1>9, <3>1, <3>2
  <2>2. CASE ~(Before(m, g.msg) \/ (m = g.msg /\ w.c < g.n))
    <3>1. h = g
      BY <1>9, <2>2, Zenon DEF set_multimsg_msg
    <3>2. g.msg[1] <= m[1]
      BY <1>5, <1>6, <1>9, <2>2 DEF Before
    <3> QED
      BY <1>6, <1>9, <3>1, <3>2
  <2> QED
    BY <2>1, <2>2, Zenon
<1>10. CASE g.status # "PENDING" /\ m = NoMessage
  <2>1. CASE g.msg = NoMessage /\ g.status # "EXPECTED"
    <3>1. h = relabelled
      BY <1>10, <2>1, Zenon DEF set_multimsg_msg, relabelled
    <3> QED
      BY <1>4, <1>10, <2>1, <3>1, Zenon
  <2>2. CASE ~(g.msg = NoMessage /\ g.status # "EXPECTED")
    <3>1. h = g
      BY <1>10, <2>2, Zenon DEF set_multimsg_msg
    <3> QED
      BY <1>6, <1>10, <3>1
  <2> QED
    BY <2>1, <2>2, Zenon
<1> QED
  BY <1>7, <1>8, <1>9, <1>10, Zenon

(* What a message covers, an earlier one covers. *)
LEMMA CoverMono ==
    ASSUME ChannelsOK, NEW c \in Chans, NEW m \in Msg \cup {NoMessage}, NEW m2 \in Msg \cup {NoMessage},
           m # NoMessage => m2 # NoMessage /\ m2[1] <= m[1], Covered(c, m)
    PROVE  Covered(c, m2)
<1> SUFFICES ASSUME NEW k \in 1 .. Len(chan[c]), Before(Position(c), chan[c][k]), chan[c][k][1] \notin get.late
             PROVE  m2 # NoMessage /\ m2[1] <= chan[c][k][1]
  BY Zenon DEF Covered
<1>1. m # NoMessage /\ m[1] <= chan[c][k][1]
  BY Zenon DEF Covered
<1>2. m[1] \in Int /\ m2[1] \in Int /\ chan[c][k][1] \in Int
  BY <1>1, MsgParts, ChannelMsgs
<1> QED
  BY <1>1, <1>2

(* The id that the client remembers of a message m of channel n. *)
NewId(old, m, n) ==
    [time |-> m[1],
     tags |-> [c \in Chans |-> IF c = n THEN m[2] ELSE IF old.time = m[1] THEN old.tags[c] ELSE -1]]

(* That is what the response and the client's update make of it. *)
LEMMA UpdateMakesNewId ==
    ASSUME NEW g \in Fetches, g.msg \in Msg, g.n \in Chans,
           NEW old \in Ids, old = g.wanted
    PROVE  /\ nchan_update_multi_msgid(old, response_id(g)) = NewId(old, g.msg, g.n)
           /\ response_id(g).time = g.msg[1] /\ response_id(g).tags[g.n] = g.msg[2]
           /\ NewId(old, g.msg, g.n) \in Ids
<1>1. /\ g.msg[1] \in 1 .. MaxTime /\ g.msg[2] \in 0 .. MaxTag /\ g.msg[2] # -1
      /\ old.tags \in [Chans -> -1 .. MaxTag] /\ old = [time |-> old.time, tags |-> old.tags]
  BY MsgParts DEF Ids
<1>2. NewId(old, g.msg, g.n) \in Ids
  BY <1>1, Constants DEF NewId, Ids
<1>3. CASE old.time # g.msg[1]
  <2>1. response_id(g) = [time |-> g.msg[1], tags |-> [c \in Chans |-> IF c = g.n THEN g.msg[2] ELSE -1]]
    BY <1>3, Zenon DEF response_id, nchan_expand_msg_id_multi_tag
  <2>2. NewId(old, g.msg, g.n) = response_id(g)
    BY <1>3, <2>1, Zenon DEF NewId
  <2> QED
    BY <1>2, <1>3, <2>1, <2>2 DEF nchan_update_multi_msgid
<1>4. CASE old.time = g.msg[1]
  <2>1. response_id(g) = [time |-> old.time, tags |-> [old.tags EXCEPT ![g.n] = g.msg[2]]]
    BY <1>1, <1>4, Zenon DEF response_id
  <2>2. /\ response_id(g).time = old.time /\ response_id(g).tags[g.n] = g.msg[2]
        /\ \A c \in Chans : c # g.n => response_id(g).tags[c] = old.tags[c]
    BY <1>1, <2>1
  <2>3. nchan_update_multi_msgid(old, response_id(g))
          = [time |-> old.time,
             tags |-> [c \in Chans |-> IF response_id(g).tags[c] # -1 THEN response_id(g).tags[c] ELSE old.tags[c]]]
    BY <1>1, <2>2, Zenon DEF nchan_update_multi_msgid
  <2>4. ASSUME NEW c \in Chans
        PROVE  (IF response_id(g).tags[c] # -1 THEN response_id(g).tags[c] ELSE old.tags[c])
                 = IF c = g.n THEN g.msg[2] ELSE IF old.time = g.msg[1] THEN old.tags[c] ELSE -1
    BY <1>1, <1>4, <2>2, Zenon
  <2> QED
    BY <1>2, <1>4, <2>2, <2>3, <2>4, Zenon DEF NewId
<1> QED
  BY <1>3, <1>4, Zenon

(* A message that comes after the position of its channel is of the id's
   second or later, and with a larger tag if it is of that second. *)
LEMMA NextAdvances ==
    ASSUME ClientOK, NEW n \in Chans, NEW m \in Msg, Before(Position(n), m)
    PROVE  /\ client.id.time <= m[1]
           /\ client.id.time = m[1] /\ client.id.tags[n] # -1 => m[2] > client.id.tags[n]
<1>1. m[1] \in 1 .. MaxTime /\ m[2] \in 0 .. MaxTag
  BY MsgParts, Zenon
<1>2. client.id.time \in 0 .. MaxTime /\ client.id.tags[n] \in -1 .. MaxTag
  BY Zenon DEF ClientOK, Ids
<1>3. CASE client.id.time = OLDEST
  BY <1>1, <1>3 DEF OLDEST
<1>4. CASE client.id.time # OLDEST /\ client.id.tags[n] = -1
  <2>1. Position(n) = <<client.id.time - 1, MaxTag>>
    BY <1>4, PositionParts, Zenon
  <2>2. client.id.time - 1 < m[1]
    BY <1>1, <1>2, <2>1, Constants DEF Before
  <2> QED
    BY <1>1, <1>2, <1>4, <2>2
<1>5. CASE client.id.time # OLDEST /\ client.id.tags[n] # -1
  <2>1. Position(n) = <<client.id.time, client.id.tags[n]>>
    BY <1>5, PositionParts, Zenon
  <2> QED
    BY <1>1, <1>2, <2>1 DEF Before
<1> QED
  BY <1>3, <1>4, <1>5, Zenon

(* The client takes a message m that is the next one of channel n, and that
   nothing in a channel comes before in an earlier second: what it has been
   given of each channel is again what lies at or before its position. *)
LEMMA ClientTakes ==
    ASSUME ChannelsOK, ClientOK, NEW n \in Chans, NEW m \in Msg, NextOf(n, m), chan' = chan,
           client' = [id |-> NewId(client.id, m, n),
                      seen |-> [client.seen EXCEPT ![n] = Append(@, m)]],
           NewId(client.id, m, n) \in Ids, clock' = clock, clock \in Int
    PROVE  /\ ClientOK'
           /\ /\ \A c \in Chans : SeenUpTo(c)
              /\ \A c \in Chans : \A k \in 1 .. Len(chan[c]) :
                     Before(Position(c), chan[c][k]) => m[1] <= chan[c][k][1]
              => \A c \in Chans : SeenUpTo(c)'
<1>1. PICK at \in 1 .. Len(chan[n]) : /\ chan[n][at] = m
                                      /\ Before(Position(n), m)
                                      /\ \A j \in 1 .. at - 1 : ~Before(Position(n), chan[n][j])
  BY Zenon DEF NextOf
<1>2. /\ client'.id.time = m[1]
      /\ \A c \in Chans : client'.id.tags[c] = IF c = n THEN m[2]
                             ELSE IF client.id.time = m[1] THEN client.id.tags[c] ELSE -1
      /\ client'.seen = [client.seen EXCEPT ![n] = Append(@, m)]
      /\ client'.id \in Ids
  BY Zenon DEF NewId
<1>3. /\ m[1] \in 1 .. MaxTime /\ m[2] \in 0 .. MaxTag /\ m = <<m[1], m[2]>> /\ m \in Pairs
      /\ m[1] # OLDEST /\ m[2] # -1
  BY MsgParts DEF OLDEST
<1>4. client.id.time \in 0 .. MaxTime /\ client.id.time <= m[1]
  BY <1>1, NextAdvances, Zenon DEF ClientOK, Ids
<1>5. ClientOK'
  <2>1. client' \in [id : Ids, seen : [Chans -> Seq(Msg)]]
    BY <1>2 DEF ClientOK
  <2>2. client'.id.time <= clock
    BY <1>1, <1>2, Zenon DEF ChannelsOK
  <2>3. ASSUME NEW c \in Chans, client'.id.tags[c] # -1
        PROVE  \E k \in 1 .. Len(chan[c]) : chan[c][k] = <<client'.id.time, client'.id.tags[c]>>
    <3>1. CASE c = n
      BY <1>1, <1>2, <1>3, <3>1, Zenon
    <3>2. CASE c # n
      <4>1. client.id.time = m[1] /\ client'.id.tags[c] = client.id.tags[c]
        BY <1>2, <2>3, <3>2, Zenon
      <4>2. client.id.time # OLDEST /\ client.id.tags[c] # -1
        BY <1>3, <2>3, <4>1, Zenon
      <4>3. PICK k \in 1 .. Len(chan[c]) : chan[c][k] = <<client.id.time, client.id.tags[c]>>
        BY <4>2, Zenon DEF ClientOK
      <4> QED
        BY <1>2, <4>1, <4>3, Zenon
    <3> QED
      BY <3>1, <3>2, Zenon
  <2> QED
    BY <2>1, <2>2, <2>3, Zenon DEF ClientOK
<1>6. Position(n)' = m
  BY <1>2, <1>3 DEF Position, nchan_extract_from_multi_msgid, OLDEST, NEWEST
<1>7. ASSUME \A c \in Chans : SeenUpTo(c),
             \A c \in Chans : \A k \in 1 .. Len(chan[c]) :
                 Before(Position(c), chan[c][k]) => m[1] <= chan[c][k][1],
             NEW c \in Chans
      PROVE  SeenUpTo(c)'
  <2>1. /\ chan[c] \in Seq(Msg) /\ Len(chan[c]) \in Nat
        /\ client.seen \in [Chans -> Seq(Msg)] /\ client.seen[c] \in Seq(Msg) /\ Len(client.seen[c]) \in Nat
        /\ SeenUpTo(c)
    BY <1>7 DEF ChannelsOK, ClientOK
  <2>2. CASE c = n
    <3>1. at = Len(client.seen[n]) + 1
      <4>1. ~(at <= Len(client.seen[n]))
        BY <1>1, <2>1, <2>2, Zenon DEF SeenUpTo
      <4>2. CASE at > Len(client.seen[n]) + 1
        <5>1. PICK j : j = Len(client.seen[n]) + 1
          BY Zenon
        <5>2. j \in 1 .. at - 1 /\ j \in 1 .. Len(chan[n]) /\ ~(j <= Len(client.seen[n]))
          BY <2>1, <2>2, <4>2, <5>1
        <5>3. Before(Position(n), chan[n][j])
          BY <2>1, <2>2, <5>2, Zenon DEF SeenUpTo
        <5> QED
          BY <1>1, <5>2, <5>3, Zenon
      <4> QED
        BY <2>1, <2>2, <4>1, <4>2
    <3>2. client'.seen[n] = Append(client.seen[n], m)
      BY <1>2, <2>1, Zenon
    <3>3. /\ Len(client'.seen[n]) = at /\ client'.seen[n][at] = m
          /\ \A k \in 1 .. at - 1 : client'.seen[n][k] = client.seen[n][k]
      BY <2>1, <2>2, <3>1, <3>2, SMTT(30)
    <3>4. ASSUME NEW k \in 1 .. Len(chan[n])
          PROVE  /\ k <= at => client'.seen[n][k] = chan[n][k]
                 /\ k <= at <=> ~Before(m, chan[n][k])
      <4>1. chan[n][k] \in Pairs
        BY ChannelMsgs, Zenon
      <4>2. CASE k = at
        BY <1>1, <1>3, <3>3, <4>2, NotBeforeItself
      <4>3. CASE k < at
        <5>1. client'.seen[n][k] = chan[n][k]
          BY <2>1, <2>2, <3>1, <3>3, <4>3 DEF SeenUpTo
        <5>2. Before(chan[n][k], m)
          BY <1>1, <4>3, Zenon DEF ChannelsOK
        <5> QED
          <6>1. ~Before(m, chan[n][k])
            BY <1>3, <4>1, <5>2, BeforeAsym, Zenon
          <6>2. k <= at
            BY <4>3, SMTT(30)
          <6> QED
            BY <5>1, <6>1, <6>2, Zenon
      <4>4. CASE k > at
        <5>1. Before(m, chan[n][k])
          BY <1>1, <4>4, Zenon DEF ChannelsOK
        <5>2. ~(k <= at)
          BY <4>4, <1>1, <2>1, <2>2, SMTT(30)
        <5> QED
          BY <5>1, <5>2, Zenon
      <4> QED
        BY <2>1, <2>2, <3>1, <4>2, <4>3, <4>4
    <3>5. at <= Len(chan[n])
      BY <2>1, <2>2
    <3> QED
      BY <1>6, <2>2, <3>3, <3>4, <3>5, ZenonT(30) DEF SeenUpTo
  <2>3. CASE c # n
    <3>1. client'.seen[c] = client.seen[c]
      BY <1>2, <2>1, <2>3, Zenon
    <3>2. CASE client.id.time = m[1]
      <4>1. Position(c)' = Position(c)
        BY <1>2, <2>3, <3>2, Zenon DEF Position, nchan_extract_from_multi_msgid
      <4> QED
        BY <2>1, <3>1, <4>1, Zenon DEF SeenUpTo
    <3>3. CASE client.id.time # m[1]
      <4>1. Position(c)' = <<m[1] - 1, MaxTag>>
        BY <1>2, <1>3, <2>3, <3>3 DEF Position, nchan_extract_from_multi_msgid, OLDEST, NEWEST
      <4>2. ASSUME NEW k \in 1 .. Len(chan[c])
            PROVE  Before(Position(c), chan[c][k]) <=> Before(<<m[1] - 1, MaxTag>>, chan[c][k])
        <5>1. PICK p, q : p = Position(c) /\ q = chan[c][k]
          BY Zenon
        <5>2. /\ q[1] \in 1 .. MaxTime /\ q[2] \in 0 .. MaxTag
              /\ p[1] \in 0 .. MaxTime /\ p[2] \in 0 .. MaxTag /\ p[1] <= client.id.time
          BY <5>1, ChannelMsgs, MsgParts, PositionParts, Zenon
        <5>3. Before(p, q) => m[1] <= q[1]
          BY <1>7, <5>1, Zenon
        <5>4. Before(<<m[1] - 1, MaxTag>>, q) <=> m[1] <= q[1]
          <6>1. PICK x \in Int, y \in Int, z \in Int : x = m[1] /\ y = q[1] /\ z = q[2]
            <7>1. m[1] \in Int /\ q[1] \in Int /\ q[2] \in Int
              <8>1. \A v : v \in 0 .. MaxTag \/ v \in 1 .. MaxTime => v \in Int
                BY Constants
              <8> QED
                BY <1>3, <5>2, <8>1, Zenon
            <7> QED
              BY <7>1, Zenon
          <6>2. MaxTag \in Int /\ z <= MaxTag
            BY <5>2, <6>1, Constants
          <6>3. (x - 1 < y \/ (x - 1 = y /\ MaxTag < z)) <=> x <= y
            BY <6>2
          <6> QED
            BY <6>1, <6>3, Zenon DEF Before
        <5>5. m[1] <= q[1] => Before(p, q)
          <6>1. PICK x \in Int, y \in Int, z \in Int, t \in Int :
                    x = m[1] /\ y = q[1] /\ z = p[1] /\ t = client.id.time
            <7>1. m[1] \in Int /\ q[1] \in Int /\ p[1] \in Int /\ client.id.time \in Int
              <8>1. \A v : v \in 0 .. MaxTime \/ v \in 1 .. MaxTime => v \in Int
                BY Constants
              <8> QED
                BY <1>3, <1>4, <5>2, <8>1, Zenon
            <7> QED
              BY <7>1, Zenon
          <6>2. z <= t /\ t <= x /\ t # x
            BY <1>4, <3>3, <5>2, <6>1, Zenon
          <6>3. x <= y => z < y
            BY <6>2
          <6> QED
            BY <6>1, <6>3, Zenon DEF Before
        <5> QED
          BY <5>1, <5>3, <5>4, <5>5, Zenon
      <4> QED
        BY <2>1, <3>1, <4>1, <4>2, Zenon DEF SeenUpTo
    <3> QED
      BY <3>2, <3>3, Zenon
  <2> QED
    BY <2>2, <2>3, Zenon
<1> QED
  BY <1>5, <1>7, Zenon

-----------------------------------------------------------------------------
(* The invariant implies what the model checker was asked. *)
LEMMA MultiInvSafe ==
    ASSUME MultiInv
    PROVE  MultiSafe
<1>1. MultiTypeOK
  <2>1. clock \in 1 .. MaxTime /\ client.id \in Ids /\ get \in Fetches /\ leaked \in Nat
    BY Constants DEF MultiInv, ClientOK, FetchOK
  <2>2. client.id.time \in 0 .. MaxTime /\ client.id.tags \in [Chans -> -1 .. MaxTag]
    BY <2>1, Zenon DEF Ids
  <2>3. get.status \in {"PENDING", "FOUND", "EXPECTED", "NOTFOUND"}
    BY <2>1, Zenon DEF Fetches
  <2>4. refs \in 0 .. 1
    BY DEF MultiInv, HeadReservedOnce
  <2> QED
    BY <2>1, <2>2, <2>3, <2>4, Zenon DEF MultiTypeOK
<1>2. NoLossUnlessRaced
  <2> SUFFICES ASSUME ~raced, NEW c \in Chans
               PROVE  /\ Len(client.seen[c]) <= Len(chan[c])
                      /\ \A k \in 1 .. Len(client.seen[c]) : client.seen[c][k] = chan[c][k]
    BY Zenon DEF NoLossUnlessRaced
  <2>1. SeenUpTo(c) /\ Len(client.seen[c]) \in Nat /\ Len(chan[c]) \in Nat
    BY DEF MultiInv, ClientOK, ChannelsOK
  <2> QED
    BY <2>1 DEF SeenUpTo
<1> QED
  BY <1>1, <1>2, Zenon DEF MultiInv, MultiSafe

-----------------------------------------------------------------------------
(* What follows counts: it needs finite sets and least numbers. *)
INSTANCE Counting

(* The reaper: whole scans, the handlers and the theorems. *)

(* The things that can be reached are those of the sequence. *)
LEMMA ListedIs ==
    ASSUME NEW q, Rep(rp, q)
    PROVE  listed = Elems(q)
<1> DEFINE Closed(S) == /\ rp.first \in S \cup {NULL}
                        /\ \A t \in S : rp.next[t] \in S \cup {NULL}
<1>1. q \in Seq(Things) /\ Len(q) \in Nat /\ Elems(q) \subseteq Things
  BY DEF Rep, Elems
<1>2. Closed(Elems(q))
  <2>1. \A i \in Int : At(q, i) \in Elems(q) \cup {NULL}
    BY Zenon DEF At, Elems
  <2>2. rp.first \in Elems(q) \cup {NULL}
    BY <2>1, SMTT(30) DEF Rep, Links
  <2>3. ASSUME NEW i \in 1 .. Len(q) PROVE rp.next[q[i]] \in Elems(q) \cup {NULL}
    BY <2>1 DEF Rep, Links
  <2> QED
    BY <2>2, <2>3, Zenon DEF Elems
<1>3. ASSUME NEW S, Closed(S), NEW i \in 1 .. Len(q), q[i] \notin S PROVE FALSE
  <2>1. PICK T : T = {j \in 1 .. Len(q) : q[j] \notin S}
    BY Zenon
  <2>2. PICK j \in T : \A k \in T : j <= k
    <3>1. T \in SUBSET Nat /\ T # {}
      BY <1>1, <1>3, <2>1, SMTT(30)
    <3> QED
      BY <3>1, LeastNat, Zenon
  <2>3. j \in 1 .. Len(q) /\ q[j] \notin S /\ q[j] # NULL
    BY <1>1, <2>1, <2>2, AtParts, SMTT(30)
  <2>4. CASE j = 1
    <3>1. rp.first = q[1]
      BY <2>3, <2>4, Zenon DEF Rep, Links, At
    <3> QED
      BY <1>3, <2>3, <2>4, <3>1, Zenon
  <2>5. CASE j # 1
    <3>1. PICK k \in 1 .. Len(q) : k = j - 1
      BY <1>1, <2>3, <2>5
    <3>2. q[k] \in S
      BY <1>1, <2>1, <2>2, <2>3, <3>1, SMTT(30)
    <3>3. rp.next[q[k]] = q[j]
      BY <1>1, <2>3, <3>1 DEF Rep, Links, At
    <3> QED
      BY <1>3, <2>3, <3>2, <3>3, Zenon
  <2> QED
    BY <2>4, <2>5, Zenon
<1>4. listed = {t \in Things : \A S \in SUBSET Things : Closed(S) => t \in S}
  BY Zenon DEF listed
<1> HIDE DEF Closed
<1>5. listed \subseteq Elems(q)
  BY <1>1, <1>2, <1>4, Zenon
<1>6. Elems(q) \subseteq listed
  BY <1>1, <1>3, <1>4, Zenon DEF Elems
<1> QED
  BY <1>5, <1>6, Zenon

(* There is one for any number of rounds. *)
LEMMA WalkExists ==
    ASSUME NEW how, NEW l, NEW ok, NEW n \in Nat
    PROVE  \E g : Walk(g, n, how, l, ok)
<1> DEFINE T == {m \in Nat : ~ \E g : Walk(g, m, how, l, ok)}
<1>1. SUFFICES ASSUME T # {} PROVE FALSE
  BY Zenon
<1>2. PICK m \in T : \A y \in T : m <= y
  <2>1. T \in SUBSET Nat
    BY Zenon
  <2> HIDE DEF T
  <2> QED
    BY <1>1, <2>1, LeastNat, Zenon
<1>3. m \in Nat /\ ~ \E g : Walk(g, m, how, l, ok)
  BY Zenon
<1>4. CASE m = 0
  <2> DEFINE g == [k \in 0 .. m |-> Scan(l, From(how, l))]
  <2>1. g = [k \in 0 .. m |-> IF k = 0 THEN Scan(l, From(how, l))
                                       ELSE round(how, g[k - 1], ok, max_notready(l))]
    BY <1>4
  <2>2. Walk(g, m, how, l, ok)
    BY <2>1, Zenon DEF Walk
  <2> QED
    BY <1>3, <2>2, Zenon
<1>5. CASE m # 0
  <2>1. m - 1 \in Nat /\ ~(m <= m - 1)
    BY <1>3, <1>5
  <2>2. m - 1 \notin T
    BY <1>2, <2>1, Zenon
  <2>3. PICK g : Walk(g, m - 1, how, l, ok)
    BY <2>1, <2>2, Zenon
  <2>4. \A k \in 0 .. m - 1 : g[k] = IF k = 0 THEN Scan(l, From(how, l))
                                     ELSE round(how, g[k - 1], ok, max_notready(l))
    BY <2>3, Zenon DEF Walk
  <2> DEFINE h == [k \in 0 .. m |-> IF k = m THEN round(how, g[m - 1], ok, max_notready(l)) ELSE g[k]]
  <2>5. \A k \in 0 .. m : h[k] = IF k = 0 THEN Scan(l, From(how, l))
                                 ELSE round(how, h[k - 1], ok, max_notready(l))
    <3> SUFFICES ASSUME NEW k \in 0 .. m
                 PROVE  h[k] = IF k = 0 THEN Scan(l, From(how, l))
                                ELSE round(how, h[k - 1], ok, max_notready(l))
      BY Zenon
    <3>1. CASE k = m
      <4>1. m - 1 \in 0 .. m /\ m - 1 # m /\ m \in 0 .. m
        BY <1>3, <2>1
      <4>2. h[m - 1] = g[m - 1] /\ h[m] = round(how, g[m - 1], ok, max_notready(l))
        BY <4>1, Zenon
      <4> HIDE DEF h
      <4> QED
        BY <1>5, <3>1, <4>2, Zenon
    <3>2. CASE k # m /\ k # 0
      <4>1. k - 1 \in 0 .. m /\ k - 1 # m /\ k \in 0 .. m - 1
        BY <1>3, <3>2
      <4>2. h[k - 1] = g[k - 1] /\ h[k] = g[k]
        BY <3>2, <4>1, Zenon
      <4> HIDE DEF h
      <4> QED
        BY <2>4, <3>2, <4>1, <4>2, Zenon
    <3>3. CASE k # m /\ k = 0
      <4>1. k \in 0 .. m - 1 /\ h[k] = g[k]
        BY <1>3, <2>1, <3>3
      <4> HIDE DEF h
      <4> QED
        BY <2>4, <3>3, <4>1, Zenon
    <3> QED
      BY <3>1, <3>2, <3>3, Zenon
  <2>6. h = [k \in 0 .. m |-> h[k]]
    BY Zenon
  <2> HIDE DEF h
  <2>7. h = [k \in 0 .. m |-> IF k = 0 THEN Scan(l, From(how, l))
                                       ELSE round(how, h[k - 1], ok, max_notready(l))]
    BY <2>5, <2>6, Zenon
  <2>8. Walk(h, m, how, l, ok)
    BY <2>7, Zenon DEF Walk
  <2> QED
    BY <1>3, <2>8, Zenon
<1> QED
  BY <1>4, <1>5, Zenon

(* A scan of the reaper's list: the list that it leaves, what it has reaped,
   and that its loop is over, so that more rounds would change nothing. *)
LEMMA ScanDone ==
    ASSUME NEW how \in {"RESCAN", "ROTATE", "KEEP_PLACE"}, NEW q0, NEW ok,
           Rep(rp, q0), Placed(rp, q0), how = "ROTATE" => rp.strategy # "KEEP_PLACE"
    PROVE  /\ \E q : StepOK(how, rounds(how, rp, ok), q, q0, ok, max_notready(rp), 0)
           /\ Over(how, rounds(how, rp, ok), max_notready(rp))
<1>1. PICK N, max : N = rp.count /\ max = max_notready(rp)
  BY Zenon
<1>2. N \in Nat /\ max \in Nat
  BY <1>1, MaxNat, Zenon DEF Rep, Lists
<1>3. PICK g : g = CHOOSE h : Walk(h, N, how, rp, ok)
  BY Zenon
<1>4. Walk(g, N, how, rp, ok) /\ rounds(how, rp, ok) = g[N]
  BY <1>1, <1>2, <1>3, WalkExists, RoundsUnfold, Zenon
<1>5. \A k \in 0 .. N : g[k] = IF k = 0 THEN Scan(rp, From(how, rp)) ELSE round(how, g[k - 1], ok, max)
  BY <1>1, <1>4, Zenon DEF Walk
<1> DEFINE Fine(k) == \E q : StepOK(how, g[k], q, q0, ok, max, N - k)
           T == {k \in 0 .. N : ~Fine(k)}
<1>6. T = {}
  <2>1. SUFFICES ASSUME T # {} PROVE FALSE
    BY Zenon
  <2>2. PICK m \in T : \A y \in T : m <= y
    <3>1. T \in SUBSET Nat
      BY <1>2
    <3> HIDE DEF T
    <3> QED
      BY <2>1, <3>1, LeastNat, Zenon
  <2>3. m \in 0 .. N /\ ~Fine(m)
    BY Zenon
  <2>4. m # 0
    <3>1. StepOK(how, Scan(rp, From(how, rp)), q0, q0, ok, max, N)
      BY <1>1, <1>2, ScanStarts, Zenon
    <3>2. g[0] = Scan(rp, From(how, rp)) /\ N - 0 = N
      BY <1>2, <1>5
    <3>3. Fine(0)
      BY <3>1, <3>2, Zenon
    <3> HIDE DEF Fine, T
    <3> QED
      BY <2>3, <3>3, Zenon
  <2>5. m - 1 \in 0 .. N /\ ~(m <= m - 1) /\ N - m \in Nat /\ N - (m - 1) = (N - m) + 1
    BY <1>2, <2>3, <2>4
  <2>6. Fine(m - 1)
    BY <2>2, <2>5, Zenon
  <2>7. PICK q : StepOK(how, g[m - 1], q, q0, ok, max, (N - m) + 1)
    BY <2>5, <2>6, Zenon
  <2>8. PICK d, s : d \in Nat /\ d = N - m /\ s = g[m - 1]
    BY <2>5, Zenon
  <2>9. \E r : StepOK(how, round(how, s, ok, max), r, q0, ok, max, d)
    BY <1>2, <2>7, <2>8, RoundStep, Zenon
  <2>10. g[m] = round(how, s, ok, max)
    BY <1>5, <2>3, <2>4, <2>8, Zenon
  <2> QED
    BY <2>3, <2>8, <2>9, <2>10, Zenon
<1>7. PICK q : StepOK(how, g[N], q, q0, ok, max, 0)
  <2>1. N \in 0 .. N /\ N - N = 0
    BY <1>2
  <2> QED
    BY <1>6, <2>1, Zenon
<1>8. Over(how, g[N], max)
  <2>1. PICK s : s = g[N]
    BY Zenon
  <2>2. /\ s \in Scans /\ Rep(s.l, q) /\ q \in Seq(Things) /\ Len(q) \in Nat /\ Ends(how, s, q, max, 0)
        /\ s.l.count = Len(q) /\ s.n \in Nat
    BY <1>7, <2>1 DEF StepOK, ScanOK, Rep, Scans
  <2>3. ~ \E i \in 1 .. Len(q) : Len(q) + 1 - i <= 0
    BY <2>2
  <2>4. ~ \E j \in 2 .. Len(q) : j - 1 <= 0
    BY <2>2
  <2>5. CASE how = "RESCAN"
    BY <2>1, <2>2, <2>3, <2>5, Zenon DEF Ends
  <2>6. CASE how = "KEEP_PLACE"
    <3>1. Len(q) - s.n <= 0 => s.n >= s.l.count
      BY <2>2
    <3> QED
      BY <2>1, <2>2, <2>6, <3>1, Zenon DEF Ends, Over
  <2>7. CASE how = "ROTATE"
    <3>1. Len(q) <= 0 => At(q, 1) = NULL
      BY <2>2 DEF At
    <3> QED
      BY <2>1, <2>2, <2>4, <2>7, <3>1, Zenon DEF Ends, Over
  <2> QED
    BY <2>1, <2>5, <2>6, <2>7, Zenon
<1> QED
  BY <1>1, <1>4, <1>7, <1>8, Zenon

(* The reachable things are those of the sequence that the list stands for. *)
LEMMA ListedAlways == \A q : Rep(rp, q) => listed = Elems(q)
BY ListedIs, Zenon

(* That is so after a step as before it. *)
LEMMA ListedAfter == (\A q : Rep(rp, q) => listed = Elems(q))'
BY ListedAlways, PTL

(* A sequence of distinct things has as many things as places. *)
LEMMA ElemsCount ==
    ASSUME NEW q \in Seq(Things), Distinct(q)
    PROVE  Cardinality(Elems(q)) = Len(q)
<1>1. PICK n : n = Len(q)
  BY Zenon
<1>2. n \in Nat /\ q \in [1 .. n -> Things]
  BY <1>1
<1>3. PICK E : E = Elems(q)
  BY Zenon
<1>4. q \in [1 .. n -> E] /\ \A e \in E : \E i \in 1 .. n : q[i] = e
  BY <1>1, <1>2, <1>3, Zenon DEF Elems
<1>5. \A i, j \in 1 .. n : q[i] = q[j] => i = j
  BY <1>1, Zenon DEF Distinct
<1>6. q \in Bijection(1 .. n, E)
  BY <1>4, <1>5, Zenon DEF Bijection, Injection, Surjection, IsInjective
<1>7. ExistsBijection(1 .. n, E)
  BY <1>6, Zenon DEF ExistsBijection
<1> QED
  BY <1>1, <1>2, <1>3, <1>7, FS_CountingElements, Zenon

(* The invariant gives ReaperSafe. *)
LEMMA InvSafe == ReaperInv => ReaperSafe
<1> SUFFICES ASSUME ReaperInv PROVE ReaperSafe
  BY Zenon
<1>1. PICK q : Stands(q)
  BY Zenon DEF ReaperInv
<1>2. /\ listed = Elems(q) /\ q \in Seq(Things) /\ Distinct(q) /\ Len(q) \in Nat /\ rp.count = Len(q)
      /\ Elems(q) \cap reaped = {} /\ Placed(rp, q)
      /\ \A i \in 1 .. Len(q) : q[i] \in Things /\ q[i] # NULL
  BY <1>1, ListedIs, NotNull DEF Stands, Rep
<1>3. rp.first = At(q, 1) /\ rp.last = At(q, Len(q))
      /\ \A i \in 1 .. Len(q) : rp.next[q[i]] = At(q, i + 1) /\ rp.prev[q[i]] = At(q, i - 1)
  BY <1>1, Zenon DEF Stands, Rep, Links
<1>4. Cardinality(listed) = rp.count
  BY <1>2, ElemsCount, Zenon
<1>5. (rp.first = NULL) = (rp.last = NULL)
  <2>1. CASE Len(q) = 0
    BY <1>3, <2>1 DEF At
  <2>2. CASE Len(q) # 0
    <3>1. 1 \in 1 .. Len(q) /\ Len(q) \in 1 .. Len(q)
      BY <1>2, <2>2
    <3>2. rp.first # NULL /\ rp.last # NULL
      BY <1>2, <1>3, <3>1, Zenon DEF At
    <3> QED
      BY <3>2, Zenon
  <2> QED
    BY <2>1, <2>2, Zenon
<1>6. ASSUME NEW t \in listed
      PROVE  /\ (rp.next[t] = NULL) = (t = rp.last)
             /\ (rp.prev[t] = NULL) = (t = rp.first)
             /\ rp.next[t] # NULL => rp.prev[rp.next[t]] = t
  <2>1. PICK i \in 1 .. Len(q) : t = q[i]
    BY <1>2, Zenon DEF Elems
  <2>2. rp.next[t] = At(q, i + 1) /\ rp.prev[t] = At(q, i - 1)
    BY <1>3, <2>1, Zenon
  <2>3. rp.last = q[Len(q)] /\ rp.first = q[1] /\ Len(q) \in 1 .. Len(q) /\ 1 \in 1 .. Len(q)
    BY <1>2, <1>3 DEF At
  <2>4. (rp.next[t] = NULL) = (t = rp.last)
    <3>1. CASE i = Len(q)
      BY <1>2, <2>1, <2>2, <2>3, <3>1 DEF At
    <3>2. CASE i # Len(q)
      <4>1. i + 1 \in 1 .. Len(q)
        BY <1>2, <3>2
      <4>2. rp.next[t] # NULL
        BY <1>2, <2>2, <4>1, Zenon DEF At
      <4>3. t # rp.last
        BY <1>2, <2>1, <2>3, <3>2, Zenon DEF Distinct
      <4> QED
        BY <4>2, <4>3, Zenon
    <3> QED
      BY <3>1, <3>2, Zenon
  <2>5. (rp.prev[t] = NULL) = (t = rp.first)
    <3>1. CASE i = 1
      BY <1>2, <2>1, <2>2, <2>3, <3>1 DEF At
    <3>2. CASE i # 1
      <4>1. i - 1 \in 1 .. Len(q)
        BY <1>2, <3>2
      <4>2. rp.prev[t] # NULL
        BY <1>2, <2>2, <4>1, Zenon DEF At
      <4>3. t # rp.first
        BY <1>2, <2>1, <2>3, <3>2, Zenon DEF Distinct
      <4> QED
        BY <4>2, <4>3, Zenon
    <3> QED
      BY <3>1, <3>2, Zenon
  <2>6. rp.next[t] # NULL => rp.prev[rp.next[t]] = t
    <3> SUFFICES ASSUME rp.next[t] # NULL PROVE rp.prev[rp.next[t]] = t
      BY Zenon
    <3>1. i + 1 \in 1 .. Len(q) /\ rp.next[t] = q[i + 1]
      BY <2>2, Zenon DEF At
    <3>2. rp.prev[q[i + 1]] = At(q, (i + 1) - 1) /\ (i + 1) - 1 = i
      BY <1>3, <3>1
    <3> QED
      BY <2>1, <3>1, <3>2, Zenon DEF At
  <2> QED
    BY <2>4, <2>5, <2>6, Zenon
<1>7. ListWellFormed
  BY <1>2, <1>4, <1>5, <1>6, Zenon DEF ListWellFormed
<1>8. PositionListed
  BY <1>2, Zenon DEF PositionListed, Placed
<1> QED
  BY <1>7, <1>8, Zenon DEF ReaperSafe, ReaperInv

(* nchan_reaper_add: a thing that is ready is reaped, another is put at the end. *)
LEMMA AddStep ==
    ASSUME NEW q0, Stands(q0), NEW t \in Things, nchan_reaper_add(t)
    PROVE  \E q : /\ Rep(rp', q) /\ Placed(rp', q)
                  /\ t \notin Elems(q0) \cup reaped
                  /\ IF t \in ready THEN reaped' = reaped \cup {t} /\ Elems(q) = Elems(q0)
                                    ELSE reaped' = reaped /\ Elems(q) = Elems(q0) \cup {t}
<1>1. t \notin Elems(q0) \cup reaped
  BY ListedAlways, Zenon DEF nchan_reaper_add, Stands
<1>2. CASE t \in ready
  BY <1>1, <1>2, Zenon DEF nchan_reaper_add, Stands
<1>3. CASE t \notin ready
  <2>1. rp' = [append(rp, t) EXCEPT !.count = @ + 1] /\ reaped' = reaped
    BY <1>3, Zenon DEF nchan_reaper_add
  <2>2. Rep(rp, q0) /\ Placed(rp, q0) /\ t \notin Elems(q0) /\ q0 \in Seq(Things) /\ Distinct(q0)
    BY <1>1, Zenon DEF Stands, Rep
  <2>3. PICK q : q = Append(q0, t)
    BY Zenon
  <2>4. PICK u : u = [append(rp, t) EXCEPT !.count = @ + 1]
    BY Zenon
  <2>5. Rep(u, q) /\ u.strategy = rp.strategy /\ u.position = rp.position
    BY <2>2, <2>3, <2>4, AppendRep, Zenon
  <2>6. Elems(q) = Elems(q0) \cup {t}
    BY <2>2, <2>3, AppendedParts, Zenon
  <2>7. Placed(u, q)
    BY <2>2, <2>5, <2>6, Zenon DEF Placed
  <2> QED
    BY <1>1, <1>3, <2>1, <2>4, <2>5, <2>6, <2>7, Zenon
<1> QED
  BY <1>2, <1>3, Zenon

(* nchan_reaper_withdraw: the thing is taken off, and its own links are cleared. *)
LEMMA WithdrawStep ==
    ASSUME NEW q0, Stands(q0), NEW t \in Things, nchan_reaper_withdraw(t)
    PROVE  \E q : /\ Rep(rp', q) /\ Placed(rp', q) /\ rp'.count <= rp.count
                  /\ t \in Elems(q0) /\ Elems(q) = Elems(q0) \ {t}
<1>1. Rep(rp, q0) /\ Placed(rp, q0) /\ q0 \in Seq(Things) /\ Distinct(q0) /\ Len(q0) \in Nat
  BY DEF Stands, Rep
<1>2. PICK i \in 1 .. Len(q0) : t = q0[i]
  BY <1>1, ListedAlways, Zenon DEF nchan_reaper_withdraw, Elems
<1>3. PICK u, q : u = unlink(rp, t) /\ q = Without(q0, i)
  BY Zenon
<1>4. Rep(u, q) /\ Placed(u, q)
  BY <1>1, <1>2, <1>3, UnlinkRep, UnlinkPlaced, Zenon
<1>5. Elems(q) = Elems(q0) \ {t} /\ Len(q) = Len(q0) - 1
  BY <1>1, <1>2, <1>3, WithoutParts, Zenon
<1>6. rp' = [u EXCEPT !.next[t] = NULL, !.prev[t] = NULL]
  BY <1>3, Zenon DEF nchan_reaper_withdraw
<1>7. PICK m : m = [u EXCEPT !.next[t] = NULL, !.prev[t] = NULL]
  BY Zenon
<1>8. PICK nx, pv : nx = [u.next EXCEPT ![t] = NULL] /\ pv = [u.prev EXCEPT ![t] = NULL]
  BY Zenon
<1>9. u \in Lists /\ nx \in [Things -> Node] /\ pv \in [Things -> Node]
  BY <1>4, <1>8, Zenon DEF Rep, Lists, Node
<1>10. m = [u EXCEPT !.next = nx, !.prev = pv]
  BY <1>7, <1>8, <1>9, Zenon DEF Lists
<1>11. /\ m \in Lists /\ m.strategy = u.strategy /\ m.first = u.first /\ m.last = u.last
       /\ m.count = u.count /\ m.position = u.position /\ m.next = nx /\ m.prev = pv
  BY <1>9, <1>10, Zenon DEF Lists
<1>12. q \in Seq(Things) /\ \A j \in 1 .. Len(q) : q[j] \in Things /\ q[j] # t
  <2>1. q \in Seq(Things)
    BY <1>4, Zenon DEF Rep
  <2>2. \A j \in 1 .. Len(q) : q[j] \in Elems(q)
    BY Zenon DEF Elems
  <2> QED
    BY <1>5, <2>1, <2>2
<1>13. \A j \in 1 .. Len(q) : m.next[q[j]] = u.next[q[j]] /\ m.prev[q[j]] = u.prev[q[j]]
  BY <1>8, <1>9, <1>11, <1>12 DEF Lists
<1>14. Rep(m, q)
  <2>1. Links(m, q)
    BY <1>4, <1>11, <1>13, Zenon DEF Rep, Links
  <2> QED
    BY <1>4, <1>11, <2>1, Zenon DEF Rep
<1>15. Placed(m, q)
  BY <1>4, <1>11, Zenon DEF Placed
<1>16. m.count <= rp.count
  <2>1. m.count = Len(q) /\ rp.count = Len(q0)
    BY <1>1, <1>14, Zenon DEF Rep
  <2> QED
    BY <1>1, <1>5, <2>1
<1>17. t \in Elems(q0)
  BY <1>2, Zenon DEF Elems
<1> QED
  BY <1>5, <1>6, <1>7, <1>14, <1>15, <1>16, <1>17, Zenon

(* The timer's scan, by any strategy: it reaps things of the list that are ready. *)
LEMMA HandlerStep ==
    ASSUME NEW q0, Stands(q0), reaper_timer_handler
    PROVE  \E q, out : /\ Rep(rp', q) /\ Placed(rp', q)
                       /\ reaped' = reaped \cup out /\ out \subseteq ready
                       /\ out \cap Elems(q) = {} /\ out \cup Elems(q) = Elems(q0)
<1>1. /\ Rep(rp, q0) /\ Placed(rp, q0) /\ rp \in Lists
      /\ rp.strategy \in {"RESCAN", "ROTATE", "KEEP_PLACE"}
  BY Zenon DEF Stands, Rep, Lists
<1>2. PICK how : how = rp.strategy
  BY Zenon
<1>3. how \in {"RESCAN", "ROTATE", "KEEP_PLACE"} /\ (how = "ROTATE" => rp.strategy # "KEEP_PLACE")
  BY <1>1, <1>2, Zenon
<1>4. PICK s : s = rounds(how, rp, ready)
  BY Zenon
<1>5. PICK q : StepOK(how, s, q, q0, ready, max_notready(rp), 0)
  BY <1>1, <1>3, <1>4, ScanDone, Zenon
<1>6. /\ s \in Scans /\ Rep(s.l, q) /\ Placed(s.l, q)
      /\ s.out \subseteq ready /\ s.out \cap Elems(q) = {} /\ s.out \cup Elems(q) = Elems(q0)
      /\ s.cur \in Elems(q) \cup {NULL} /\ s.l.strategy = rp.strategy
  BY <1>5, Zenon DEF StepOK, ScanOK
<1>7. CASE how # "KEEP_PLACE"
  <2>1. rp' = s.l /\ reaped' = reaped \cup s.out
    BY <1>2, <1>3, <1>4, <1>7, Zenon DEF reaper_timer_handler, its_reaping_time, its_reaping_rotating_time
  <2> QED
    BY <1>6, <2>1, Zenon
<1>8. CASE how = "KEEP_PLACE"
  <2>1. PICK w : w = [s EXCEPT !.l.position = s.cur]
    BY Zenon
  <2>2. rp' = w.l /\ reaped' = reaped \cup w.out
    BY <1>2, <1>4, <1>8, <2>1, Zenon DEF reaper_timer_handler, its_reaping_time_keep_place
  <2>3. PICK m : m = [s.l EXCEPT !.position = s.cur]
    BY Zenon
  <2>4. w.l = m /\ w.out = s.out
    BY <1>6, <2>1, <2>3, Zenon DEF Scans
  <2>5. s.l \in Lists /\ s.cur \in Node
    BY <1>6, Zenon DEF Scans
  <2>6. /\ m \in Lists /\ m.strategy = s.l.strategy /\ m.first = s.l.first /\ m.last = s.l.last
        /\ m.count = s.l.count /\ m.position = s.cur /\ m.next = s.l.next /\ m.prev = s.l.prev
    BY <2>3, <2>5, Zenon DEF Lists
  <2>7. Rep(m, q)
    <3>1. Links(m, q)
      BY <1>6, <2>6, Zenon DEF Rep, Links
    <3> QED
      BY <1>6, <2>6, <3>1, Zenon DEF Rep
  <2>8. Placed(m, q)
    BY <1>2, <1>6, <1>8, <2>6, Zenon DEF Placed
  <2> QED
    BY <1>6, <2>2, <2>4, <2>7, <2>8, Zenon
<1> QED
  BY <1>7, <1>8, Zenon

(* nchan_reaper_stop reaps everything. *)
LEMMA StopStep ==
    ASSUME NEW q0, Stands(q0), nchan_reaper_stop
    PROVE  \E q : /\ Rep(rp', q) /\ Placed(rp', q) /\ Elems(q) = {}
                  /\ reaped' = reaped \cup Elems(q0)
<1>1. Rep(rp, q0) /\ Placed(rp, q0)
  BY Zenon DEF Stands
<1>2. PICK how, ok : how = "RESCAN" /\ ok = Things
  BY Zenon
<1>3. PICK s : s = rounds(how, rp, ok)
  BY Zenon
<1>4. PICK q : StepOK(how, s, q, q0, ok, max_notready(rp), 0)
  BY <1>1, <1>2, <1>3, ScanDone, Zenon
<1>5. rp' = s.l /\ reaped' = reaped \cup s.out
  BY <1>2, <1>3, Zenon DEF nchan_reaper_stop, its_reaping_time
<1>6. /\ Rep(s.l, q) /\ Placed(s.l, q) /\ s.out \cup Elems(q) = Elems(q0) /\ Len(q) = 0
  BY <1>2, <1>4, Zenon DEF StepOK, ScanOK, Flushing
<1>7. Elems(q) = {}
  BY <1>6 DEF Elems
<1> QED
  BY <1>5, <1>6, <1>7, Zenon

(* The timer of a reaper that has things is set, whatever the step. *)
LEMMA TimerStep ==
    ASSUME ReaperInv, [ReaperNext]_reaperVars
    PROVE  TimerSet'
<1>1. TimerSet
  BY Zenon DEF ReaperInv
<1>2. CASE UNCHANGED reaperVars
  BY <1>1, <1>2, Zenon DEF reaperVars, TimerSet
<1>3. ASSUME NEW t \in Things, change_ready(t) PROVE TimerSet'
  BY <1>1, <1>3, Zenon DEF change_ready, TimerSet
<1>4. ASSUME NEW t \in Things, nchan_reaper_add(t) PROVE TimerSet'
  <2>1. CASE t \in ready
    BY <1>1, <1>4, <2>1, Zenon DEF nchan_reaper_add, TimerSet
  <2>2. CASE t \notin ready
    BY <1>4, <2>2, Zenon DEF nchan_reaper_add, TimerSet, reset_timer
  <2> QED
    BY <2>1, <2>2, Zenon
<1>5. ASSUME NEW t \in Things, nchan_reaper_withdraw(t) PROVE TimerSet'
  <2>1. timer' = timer /\ exiting' = exiting
    BY <1>5, Zenon DEF nchan_reaper_withdraw
  <2>2. rp'.count > 0 => rp.count > 0
    <3>1. PICK q0 : Stands(q0)
      BY Zenon DEF ReaperInv
    <3>2. PICK q : Rep(rp', q) /\ rp'.count <= rp.count
      BY <1>5, <3>1, WithdrawStep, Zenon
    <3>3. rp.count \in Nat /\ rp'.count \in Nat
      BY <3>1, <3>2, Zenon DEF Stands, Rep, Lists
    <3> QED
      BY <3>2, <3>3
  <2> QED
    BY <1>1, <2>1, <2>2, Zenon DEF TimerSet
<1>6. CASE reaper_timer_handler
  BY <1>6, Zenon DEF reaper_timer_handler, TimerSet, reset_timer
<1>7. CASE nchan_reaper_stop
  BY <1>7, Zenon DEF nchan_reaper_stop, TimerSet
<1> QED
  BY <1>2, <1>3, <1>4, <1>5, <1>6, <1>7, Zenon DEF ReaperNext

(* Every step keeps the invariant. *)
LEMMA NextInv ==
    ASSUME ReaperInv, [ReaperNext]_reaperVars
    PROVE  ReaperInv'
<1>1. PICK q0 : Stands(q0)
  BY Zenon DEF ReaperInv
<1>2. TimerSet'
  BY TimerStep, Zenon
<1>3. ASSUME rp' = rp, reaped' = reaped PROVE \E q : Stands(q)'
  BY <1>1, <1>3, Zenon DEF Stands
<1>4. ASSUME UNCHANGED reaperVars PROVE \E q : Stands(q)'
  BY <1>3, <1>4, Zenon DEF reaperVars
<1>5. ASSUME NEW t \in Things, change_ready(t) PROVE \E q : Stands(q)'
  BY <1>3, <1>5, Zenon DEF change_ready
<1>6. ASSUME NEW t \in Things, nchan_reaper_add(t) PROVE \E q : Stands(q)'
  <2>1. PICK q : /\ Rep(rp', q) /\ Placed(rp', q)
                 /\ t \notin Elems(q0) \cup reaped
                 /\ IF t \in ready THEN reaped' = reaped \cup {t} /\ Elems(q) = Elems(q0)
                                   ELSE reaped' = reaped /\ Elems(q) = Elems(q0) \cup {t}
    BY <1>1, <1>6, AddStep, Zenon
  <2>2. Elems(q) \cap reaped' = {}
    BY <1>1, <2>1, Zenon DEF Stands
  <2> QED
    BY <2>1, <2>2, Zenon DEF Stands
<1>7. ASSUME NEW t \in Things, nchan_reaper_withdraw(t) PROVE \E q : Stands(q)'
  <2>1. PICK q : Rep(rp', q) /\ Placed(rp', q) /\ Elems(q) = Elems(q0) \ {t}
    BY <1>1, <1>7, WithdrawStep, Zenon
  <2>2. Elems(q) \cap reaped' = {}
    BY <1>1, <1>7, <2>1, Zenon DEF Stands, nchan_reaper_withdraw
  <2> QED
    BY <2>1, <2>2, Zenon DEF Stands
<1>8. ASSUME reaper_timer_handler PROVE \E q : Stands(q)'
  <2>1. PICK q, out : /\ Rep(rp', q) /\ Placed(rp', q)
                      /\ reaped' = reaped \cup out /\ out \subseteq ready
                      /\ out \cap Elems(q) = {} /\ out \cup Elems(q) = Elems(q0)
    BY <1>1, <1>8, HandlerStep, Zenon
  <2>2. Elems(q) \cap reaped' = {}
    BY <1>1, <2>1, Zenon DEF Stands
  <2> QED
    BY <2>1, <2>2, Zenon DEF Stands
<1>9. ASSUME nchan_reaper_stop PROVE \E q : Stands(q)'
  <2>1. PICK q : Rep(rp', q) /\ Placed(rp', q) /\ Elems(q) = {}
    BY <1>1, <1>9, StopStep, Zenon
  <2> QED
    BY <2>1, Zenon DEF Stands
<1>10. \E q : Stands(q)'
  BY <1>4, <1>5, <1>6, <1>7, <1>8, <1>9, Zenon DEF ReaperNext
<1> QED
  BY <1>2, <1>10, Zenon DEF ReaperInv

(* Every step is one of the abstract queue, or leaves it as it is. *)
LEMMA QueueStep ==
    ASSUME ReaperInv, [ReaperNext]_reaperVars
    PROVE  [Queue!QueueNext]_Queue!queueVars
<1>1. PICK q0 : Stands(q0)
  BY Zenon DEF ReaperInv
<1>2. listed = Elems(q0) /\ \A q : Rep(rp', q) => listed' = Elems(q)
  BY <1>1, ListedAlways, ListedAfter, Zenon DEF Stands
<1>3. rp' = rp => listed' = listed
  BY Zenon DEF listed
<1>4. CASE UNCHANGED reaperVars
  BY <1>3, <1>4, Zenon DEF reaperVars, Queue!queueVars
<1>5. ASSUME NEW t \in Things, change_ready(t) PROVE Queue!Change(t)
  BY <1>3, <1>5, Zenon DEF change_ready, Queue!Change
<1>6. ASSUME NEW t \in Things, nchan_reaper_add(t) PROVE Queue!HandOver(t)
  <2>1. PICK q : /\ Rep(rp', q)
                 /\ t \notin Elems(q0) \cup reaped
                 /\ IF t \in ready THEN reaped' = reaped \cup {t} /\ Elems(q) = Elems(q0)
                                   ELSE reaped' = reaped /\ Elems(q) = Elems(q0) \cup {t}
    BY <1>1, <1>6, AddStep, Zenon
  <2>2. ready' = ready
    BY <1>6, Zenon DEF nchan_reaper_add
  <2>3. listed' = Elems(q)
    BY <1>2, <2>1, Zenon
  <2> QED
    BY <1>2, <2>1, <2>2, <2>3, Zenon DEF Queue!HandOver
<1>7. ASSUME NEW t \in Things, nchan_reaper_withdraw(t) PROVE Queue!TakeBack(t)
  <2>1. PICK q : Rep(rp', q) /\ t \in Elems(q0) /\ Elems(q) = Elems(q0) \ {t}
    BY <1>1, <1>7, WithdrawStep, Zenon
  <2>2. listed' = Elems(q)
    BY <1>2, <2>1, Zenon
  <2> QED
    BY <1>2, <1>7, <2>1, <2>2, Zenon DEF Queue!TakeBack, nchan_reaper_withdraw
<1>8. CASE reaper_timer_handler
  <2>1. PICK q, out : /\ Rep(rp', q)
                      /\ reaped' = reaped \cup out /\ out \subseteq ready
                      /\ out \cap Elems(q) = {} /\ out \cup Elems(q) = Elems(q0)
    BY <1>1, <1>8, HandlerStep, Zenon
  <2>2. listed' = Elems(q) /\ ready' = ready
    BY <1>2, <1>8, <2>1, Zenon DEF reaper_timer_handler
  <2>3. out \in SUBSET (listed \cap ready) /\ Queue!Reap(out)
    BY <1>2, <2>1, <2>2, Zenon DEF Queue!Reap
  <2> QED
    BY <2>3, Zenon DEF Queue!QueueNext
<1>9. CASE nchan_reaper_stop
  <2>1. PICK q : Rep(rp', q) /\ Elems(q) = {} /\ reaped' = reaped \cup Elems(q0)
    BY <1>1, <1>9, StopStep, Zenon
  <2>2. listed' = Elems(q) /\ ready' = ready
    BY <1>2, <1>9, <2>1, Zenon DEF nchan_reaper_stop
  <2>3. Queue!Reap(listed)
    BY <1>2, <2>1, <2>2, Zenon DEF Queue!Reap
  <2> QED
    BY <2>3, Zenon DEF Queue!QueueNext
<1> QED
  BY <1>4, <1>5, <1>6, <1>7, <1>8, <1>9, Zenon DEF ReaperNext, Queue!QueueNext

(* Whatever is added, withdrawn and scanned in whatever order, the list stays
   whole, the saved place is on it, and the timer is set while it holds
   anything. *)
THEOREM ListStaysWhole == ReaperSpec => []ReaperSafe
<1>1. ReaperInit => ReaperInv
  BY InitInv, Zenon
<1>2. ReaperInv /\ [ReaperNext]_reaperVars => ReaperInv'
  BY NextInv, Zenon
<1>3. ReaperInv => ReaperSafe
  BY InvSafe, Zenon
<1> QED
  BY <1>1, <1>2, <1>3, PTL DEF ReaperSpec

(* The reaper implements ReapQueue: what is handed over is reaped only when it
   is ready, once, and everything is reaped when the reaper is stopped. *)
THEOREM ReaperImplementsQueue == ReaperSpec => KeepsPromise
<1>1. ReaperInit => ReaperInv /\ Queue!QueueInit
  <2> SUFFICES ASSUME ReaperInit PROVE ReaperInv /\ Queue!QueueInit
    BY Zenon
  <2>1. ReaperInv
    BY InitInv, Zenon
  <2>2. PICK q : Stands(q)
    BY <2>1, Zenon DEF ReaperInv
  <2>3. rp.count = 0 /\ reaped = {} /\ ready = {}
    BY DEF ReaperInit, nchan_reaper_start
  <2>4. listed = Elems(q) /\ Len(q) = 0
    BY <2>2, <2>3, ListedAlways, Zenon DEF Stands, Rep
  <2>5. listed = {}
    BY <2>4 DEF Elems
  <2> QED
    BY <2>1, <2>3, <2>5, Zenon DEF Queue!QueueInit
<1>2. ReaperInv /\ [ReaperNext]_reaperVars => ReaperInv' /\ [Queue!QueueNext]_Queue!queueVars
  BY NextInv, QueueStep, Zenon
<1> QED
  BY <1>1, <1>2, PTL DEF ReaperSpec, KeepsPromise, Queue!QueueSpec

-----------------------------------------------------------------------------
(* The fetch: its handlers and the theorem. *)

(* The smallest of a set of indexes. *)
LEMMA MinOf ==
    ASSUME NEW S, S \subseteq Nat, S # {}
    PROVE  Min(S) \in S /\ \A k \in S : Min(S) <= k
<1>1. \E x \in S : \A y \in S : x <= y
  BY LeastNat, Zenon
<1> QED
  BY <1>1, Zenon DEF Min

(* A message is forwarded. *)
LEMMA ForwardKeeps ==
    ASSUME MultiInv, NEW d \in Chans, forward(d)
    PROVE  MultiInv'
<1>1. /\ fwd' = [fwd EXCEPT ![d] = chan[d][Min(Unforwarded(d))]]
      /\ clock' = clock /\ chan' = chan /\ client' = client /\ get' = get
      /\ refs' = refs /\ leaked' = leaked /\ asserted' = asserted /\ raced' = raced
      /\ Unforwarded(d) # {}
  BY Zenon DEF forward
<1>2. ForwardOK'
  <2>1. Unforwarded(d) \subseteq 1 .. Len(chan[d])
    BY DEF Unforwarded, MultiInv, ChannelsOK
  <2>2. PICK k : k = Min(Unforwarded(d))
    BY Zenon
  <2>3. k \in Unforwarded(d)
    BY <1>1, <2>1, <2>2, MinOf
  <2>4. chan[d][k] \in Msg /\ chan[d][k][1] > 1
    BY <2>1, <2>3, ChannelMsgs, Zenon DEF Unforwarded, MultiInv
  <2> QED
    BY <1>1, <2>2, <2>4 DEF MultiInv, ForwardOK
<1>3. FetchOK' /\ FetchCovers'
  BY <1>1, Zenon DEF MultiInv, FetchOK, FetchCovers, NextOf, Covered, Position
<1>4. HeadReservedOnce' /\ TagsAdvance'
  BY <1>1, Zenon DEF MultiInv, HeadReservedOnce, TagsAdvance
<1> QED
  BY <1>1, <1>2, <1>3, <1>4, ViewKept, Zenon DEF MultiInv

(* The first message after a position is found by the owner, if there is one;
   otherwise nothing comes after the position. *)
LEMMA LookupAnswers ==
    ASSUME ChannelsOK, ClientOK, NEW c \in Chans
    PROVE  LET r == chanhead_find_next_message(chan[c], Position(c))
           IN  /\ r \in Replies
               /\ r.msg # NoMessage => NextOf(c, r.msg)
               /\ Covered(c, r.msg)
<1> DEFINE later == {k \in DOMAIN chan[c] : Before(Position(c), chan[c][k])}
           r == chanhead_find_next_message(chan[c], Position(c))
<1>1. DOMAIN chan[c] = 1 .. Len(chan[c]) /\ Len(chan[c]) \in Nat /\ chan[c] \in Seq(Msg)
  BY DEF ChannelsOK
<1>2. CASE later = {}
  <2>1. r.msg = NoMessage /\ r.status \in {"EXPECTED", "NOTFOUND"} /\ r = [status |-> r.status, msg |-> NoMessage]
    BY <1>2, Zenon DEF chanhead_find_next_message
  <2>2. r \in Replies
    BY <2>1, Zenon DEF Replies
  <2>3. Covered(c, r.msg)
    BY <1>1, <1>2, Zenon DEF Covered
  <2> QED
    BY <2>1, <2>2, <2>3, Zenon
<1>3. CASE later # {}
  <2>1. later \subseteq Nat
    BY <1>1
  <2>2. PICK k : k = Min(later)
    BY Zenon
  <2>3. k \in later /\ \A j \in later : k <= j
    BY <1>3, <2>1, <2>2, MinOf, Zenon
  <2>4. r = [status |-> "FOUND", msg |-> chan[c][k]]
    BY <1>1, <1>3, <2>2 DEF chanhead_find_next_message
  <2>5. k \in 1 .. Len(chan[c]) /\ chan[c][k] \in Msg /\ Before(Position(c), chan[c][k])
    BY <1>1, <2>3
  <2>6. r \in Replies /\ r.msg = chan[c][k] /\ r.msg # NoMessage
    BY <2>4, <2>5, MsgParts DEF Replies
  <2>7. NextOf(c, r.msg)
    <3>1. \A j \in 1 .. k - 1 : ~Before(Position(c), chan[c][j])
      BY <1>1, <2>3, <2>5
    <3> QED
      BY <2>5, <2>6, <3>1, Zenon DEF NextOf
  <2>8. Covered(c, r.msg)
    <3> SUFFICES ASSUME NEW j \in 1 .. Len(chan[c]), Before(Position(c), chan[c][j])
                 PROVE  chan[c][k][1] <= chan[c][j][1]
      BY <2>6, Zenon DEF Covered
    <3>1. k <= j
      BY <1>1, <2>3, Zenon
    <3>2. chan[c][k][1] \in Int /\ chan[c][j][1] \in Int
      BY ChannelMsgs, <2>5, Zenon DEF Pairs
    <3>3. k = j \/ Before(chan[c][k], chan[c][j])
      BY <3>1, <2>5 DEF ChannelsOK
    <3> QED
      BY <3>2, <3>3 DEF Before
  <2> QED
    BY <2>6, <2>7, <2>8, Zenon
<1> QED
  BY <1>2, <1>3, Zenon

(* A fetch begins.  A channel that is not asked has been forwarded less than
   the client has: whatever it has for the client counts as late. *)
LEMMA StartKeeps ==
    ASSUME MultiInv, nchan_store_async_get_multi_message
    PROVE  MultiInv'
<1> DEFINE wanted == want(client.id)
           unasked == UNION {{chan[c][k][1] : k \in Unforwarded(c)} : c \in Chans \ wanted}
           asks == {[c |-> c, id |-> Position(c)] : c \in wanted}
           st == IF wanted = Chans THEN "PENDING" ELSE "EXPECTED"
<1>1. /\ clock' = clock /\ chan' = chan /\ client' = client /\ fwd' = fwd
      /\ refs' = refs + 1 /\ leaked' = leaked /\ asserted' = asserted /\ raced' = raced
      /\ ~get.on
  BY Zenon DEF nchan_store_async_get_multi_message
<1>2. get' = [on |-> TRUE, wanted |-> client.id, status |-> st, msg |-> NoMessage, n |-> 0,
              asked |-> asks, answers |-> {}, lost |-> 0, expired |-> FALSE, late |-> unasked]
  BY Zenon DEF nchan_store_async_get_multi_message, NoFetch, Position
<1>3. wanted \subseteq Chans
  BY Zenon DEF want
<1>4. asks \subseteq Asks /\ IsFiniteSet(asks)
  <2>1. ASSUME NEW c \in wanted PROVE [c |-> c, id |-> Position(c)] \in Asks
    BY <1>3, PositionParts, Zenon DEF Asks, MultiInv
  <2>2. IsFiniteSet(wanted)
    BY <1>3, Constants, FS_Subset, Zenon
  <2>3. IsFiniteSet(asks)
    <3>1. PICK f : f = [c \in wanted |-> [c |-> c, id |-> Position(c)]]
      BY Zenon
    <3>2. f \in Surjection(wanted, asks)
      <4>1. f \in [wanted -> asks]
        BY <3>1, Zenon
      <4>2. \A q \in asks : \E c \in wanted : f[c] = q
        BY <3>1, Zenon
      <4> QED
        BY <4>1, <4>2, Zenon DEF Surjection
    <3> QED
      BY <2>2, <3>2, FS_Surjection, Zenon
  <2> QED
    BY <2>1, <2>3, Zenon
<1>5. unasked \subseteq 1 .. MaxTime
  <2> SUFFICES ASSUME NEW c \in Chans, NEW k \in Unforwarded(c) PROVE chan[c][k][1] \in 1 .. MaxTime
    OBVIOUS
  <2>1. k \in 1 .. Len(chan[c])
    BY DEF Unforwarded, MultiInv, ChannelsOK
  <2> QED
    BY <2>1, ChannelMsgs, MsgParts, Zenon DEF MultiInv
<1>6. get' \in Fetches
  <2>1. client.id \in Ids
    BY Zenon DEF MultiInv, ClientOK
  <2> HIDE DEF asks, unasked, wanted
  <2> QED
    BY <1>2, <1>4, <1>5, <2>1, Zenon DEF Fetches
<1>7. FetchOK'
  <2>1. \A q \in asks : q.id = Position(q.c)
    OBVIOUS
  <2>2. \A q \in get'.asked : q.id = Position(q.c)'
    BY <1>1, <1>2, <2>1, Zenon DEF Position
  <2>3. IsFiniteSet(get'.asked) /\ IsFiniteSet(get'.answers)
    BY <1>2, <1>4, FS_EmptySet, Zenon
  <2> HIDE DEF asks, unasked, wanted
  <2> QED
    BY <1>1, <1>2, <1>6, <2>2, <2>3, Zenon DEF FetchOK
<1>8. FetchCovers'
  <2> SUFFICES ASSUME NEW c \in Chans
               PROVE  (\E q \in asks : q.c = c) \/ Covered(c, NoMessage)'
    BY <1>2, Zenon DEF FetchCovers
  <2>1. CASE c \in wanted
    <3>1. [c |-> c, id |-> Position(c)] \in asks
      BY <2>1, Zenon
    <3>2. [c |-> c, id |-> Position(c)].c = c
      BY Zenon
    <3> HIDE DEF asks
    <3> QED
      BY <3>1, <3>2, Zenon
  <2>2. CASE c \notin wanted
    <3>1. /\ client.id.time # OLDEST /\ fwd[c][1] \notin {OLDEST, NEWEST}
          /\ Before(fwd[c], Position(c))
      BY <2>2, Zenon DEF want, Position
    <3>2. fwd[c] \in Msg /\ fwd[c][1] > 1
      BY <3>1 DEF MultiInv, ForwardOK, NEWEST
    <3>3. fwd[c] \in Pairs /\ Position(c) \in Pairs
      BY <3>2, MsgParts, PositionParts, Zenon DEF MultiInv
    <3>4. ASSUME NEW k \in 1 .. Len(chan[c]), Before(Position(c), chan[c][k])
          PROVE  chan[c][k][1] \in unasked
      <4>1. chan[c][k] \in Pairs /\ k \in DOMAIN chan[c]
        BY ChannelMsgs DEF MultiInv
      <4>2. Before(fwd[c], chan[c][k]) /\ chan[c][k][1] > 1
        BY <3>1, <3>2, <3>3, <3>4, <4>1 DEF Before, Pairs
      <4>3. k \in Unforwarded(c)
        BY <4>1, <4>2, Zenon DEF Unforwarded
      <4> QED
        BY <2>2, <4>3
    <3>5. Covered(c, NoMessage)'
      BY <1>1, <1>2, <3>4, Zenon DEF Covered, Position
    <3> QED
      BY <3>5, Zenon
  <2> QED
    BY <2>1, <2>2, Zenon
<1>9. ForwardOK' /\ TagsAdvance' /\ HeadReservedOnce'
  BY <1>1, <1>2 DEF MultiInv, ForwardOK, TagsAdvance, HeadReservedOnce
<1> QED
  BY <1>1, <1>7, <1>8, <1>9, ViewKept, Zenon DEF MultiInv

(* The owner of a channel answers. *)
LEMMA ReceiveKeeps ==
    ASSUME MultiInv, NEW q \in get.asked, receive_get_multi(q)
    PROVE  MultiInv'
<1>1. /\ clock' = clock /\ chan' = chan /\ client' = client /\ fwd' = fwd
      /\ refs' = refs /\ leaked' = leaked /\ asserted' = asserted /\ raced' = raced
  BY Zenon DEF receive_get_multi
<1>2. PICK w : w = [c |-> q.c, reply |-> chanhead_find_next_message(chan[q.c], q.id)]
  BY Zenon
<1>3. get' = [get EXCEPT !.asked = @ \ {q}, !.answers = @ \cup {w}]
  BY <1>2, Zenon DEF receive_get_multi
<1>4. get \in Fetches /\ q \in Asks /\ q.c \in Chans /\ q.id = Position(q.c)
  BY Zenon DEF MultiInv, FetchOK, Fetches, Asks
<1>5. w.c = q.c /\ w.reply = chanhead_find_next_message(chan[q.c], Position(q.c))
  BY <1>2, <1>4, Zenon
<1>6. /\ w.reply \in Replies
      /\ w.reply.msg # NoMessage => NextOf(w.c, w.reply.msg)
      /\ Covered(w.c, w.reply.msg)
  BY <1>4, <1>5, LookupAnswers, Zenon DEF MultiInv
<1>7. w \in Answers
  BY <1>2, <1>4, <1>5, <1>6, Zenon DEF Answers
<1>8. /\ get'.on = get.on /\ get'.wanted = get.wanted /\ get'.status = get.status
      /\ get'.msg = get.msg /\ get'.n = get.n /\ get'.lost = get.lost
      /\ get'.expired = get.expired /\ get'.late = get.late
      /\ get'.asked = get.asked \ {q} /\ get'.answers = get.answers \cup {w}
  BY <1>3, <1>4, Zenon DEF Fetches
<1>9. get' \in Fetches
  BY <1>3, <1>4, <1>7, Zenon DEF Fetches
<1>10. get.on
  BY DEF MultiInv, FetchOK, NoFetch
<1>11. FetchOK'
  <2>1. IsFiniteSet(get'.asked) /\ IsFiniteSet(get'.answers)
    BY <1>8, FS_AddElement, FS_RemoveElement DEF MultiInv, FetchOK
  <2>2. \A p \in get'.asked : p.id = Position(p.c)'
    BY <1>1, <1>8, Zenon DEF MultiInv, FetchOK, Position
  <2>3. ASSUME NEW v \in get'.answers, v.reply.msg # NoMessage PROVE NextOf(v.c, v.reply.msg)'
    <3>1. NextOf(v.c, v.reply.msg)
      BY <1>6, <1>8, <2>3, Zenon DEF MultiInv, FetchOK
    <3> QED
      BY <1>1, <3>1, NextKept, Zenon
  <2>4. (get.msg # NoMessage => get.n \in Chans /\ get.status # "PENDING" /\ NextOf(get.n, get.msg))'
    BY <1>1, <1>8, Zenon DEF MultiInv, FetchOK, NextOf, Position
  <2>5. (get.on => get.wanted = client.id)' /\ get'.on
    BY <1>1, <1>8, <1>10, Zenon DEF MultiInv, FetchOK
  <2> QED
    BY <1>9, <2>1, <2>2, <2>3, <2>4, <2>5, Zenon DEF FetchOK, NextOf
<1>12. FetchCovers'
  <2> SUFFICES ASSUME get.on, ~get.expired, get.lost = 0, NEW c \in Chans
               PROVE  \/ \E p \in get'.asked : p.c = c
                      \/ \E v \in get'.answers : v.c = c /\ Covered(c, v.reply.msg)'
                      \/ Covered(c, get.msg)'
    BY <1>8, Zenon DEF FetchCovers, Covered
  <2>1. CASE c = q.c
    BY <1>1, <1>5, <1>6, <1>8, <2>1, CoveredKept, Zenon
  <2>2. CASE c # q.c
    <3>1. \/ \E p \in get.asked : p.c = c
          \/ \E v \in get.answers : v.c = c /\ Covered(c, v.reply.msg)
          \/ Covered(c, get.msg)
      BY Zenon DEF MultiInv, FetchCovers
    <3> QED
      BY <1>1, <1>8, <2>2, <3>1, CoveredKept
  <2> QED
    BY <2>1, <2>2, Zenon
<1>13. ForwardOK' /\ TagsAdvance' /\ HeadReservedOnce'
  BY <1>1, <1>8, Zenon DEF MultiInv, ForwardOK, TagsAdvance, HeadReservedOnce
<1> QED
  BY <1>1, <1>11, <1>12, <1>13, ViewKept, Zenon DEF MultiInv

(* An answer is lost. *)
LEMMA LoseKeeps ==
    ASSUME MultiInv, NEW q \in get.asked, lose_answer(q)
    PROVE  MultiInv'
<1>1. /\ clock' = clock /\ chan' = chan /\ client' = client /\ fwd' = fwd
      /\ refs' = refs /\ leaked' = leaked /\ asserted' = asserted /\ raced' = raced
      /\ get' = [get EXCEPT !.asked = @ \ {q}, !.lost = @ + 1]
  BY Zenon DEF lose_answer
<1>2. get \in Fetches
  BY Zenon DEF MultiInv, FetchOK
<1>3. /\ get'.on = get.on /\ get'.wanted = get.wanted /\ get'.status = get.status
      /\ get'.msg = get.msg /\ get'.n = get.n /\ get'.lost = get.lost + 1 /\ get.lost \in Nat
      /\ get'.expired = get.expired /\ get'.late = get.late
      /\ get'.asked = get.asked \ {q} /\ get'.answers = get.answers
  BY <1>1, <1>2, Zenon DEF Fetches
<1>4. get' \in Fetches
  <2>1. get.asked \ {q} \in SUBSET Asks /\ get.lost + 1 \in Nat
    BY <1>2, <1>3 DEF Fetches
  <2> QED
    BY <1>1, <1>2, <2>1, Zenon DEF Fetches
<1>5. get.on
  BY DEF MultiInv, FetchOK, NoFetch
<1>6. FetchOK'
  <2>1. IsFiniteSet(get'.asked) /\ IsFiniteSet(get'.answers)
    BY <1>3, FS_RemoveElement, Zenon DEF MultiInv, FetchOK
  <2> QED
    BY <1>1, <1>3, <1>4, <1>5, <2>1, Zenon DEF MultiInv, FetchOK, NextOf, Position
<1>7. FetchCovers'
  BY <1>3 DEF FetchCovers
<1>8. ForwardOK' /\ TagsAdvance' /\ HeadReservedOnce'
  BY <1>1, <1>3, Zenon DEF MultiInv, ForwardOK, TagsAdvance, HeadReservedOnce
<1> QED
  BY <1>1, <1>6, <1>7, <1>8, ViewKept, Zenon DEF MultiInv

(* No fetch at all is a fetch in order. *)
LEMMA NoFetchOK ==
    ASSUME get' = NoFetch, chan' = chan
    PROVE  FetchOK' /\ FetchCovers' /\ ~get'.on
<1>1. NoFetch.wanted \in Ids
  BY Constants DEF NoFetch, Ids, OLDEST
<1>2. NoFetch \in Fetches
  BY <1>1, Zenon DEF NoFetch, Fetches
<1>3. /\ NoFetch.asked = {} /\ NoFetch.answers = {} /\ NoFetch.msg = NoMessage /\ NoFetch.on = FALSE
  BY Zenon DEF NoFetch
<1>4. FetchOK'
  BY <1>2, <1>3, FS_EmptySet, Zenon DEF FetchOK
<1> QED
  BY <1>3, <1>4, Zenon DEF FetchCovers

(* The last answer is in: the client gets the kept message, if there is one. *)
LEMMA RespondKeeps ==
    ASSUME MultiInv, get.on, ~get.expired, NEW h \in Fetches, respond(h),
           clock' = clock, chan' = chan, fwd' = fwd,
           h.wanted = client.id, h.late = get.late,
           h.msg # NoMessage => h.n \in Chans /\ NextOf(h.n, h.msg),
           \A c \in Chans : Covered(c, h.msg)
    PROVE  MultiInv'
<1>1. refs' = refs - 1 /\ get' = NoFetch /\ leaked' = leaked
  BY Zenon DEF respond
<1>2. FetchOK' /\ FetchCovers' /\ HeadReservedOnce' /\ ForwardOK'
  BY <1>1, NoFetchOK DEF HeadReservedOnce, ForwardOK, MultiInv
<1>3. CASE h.msg = NoMessage
  <2>1. client' = client /\ asserted' = asserted /\ raced' = raced
    BY <1>3, Zenon DEF respond
  <2> QED
    BY <1>1, <1>2, <2>1, ViewKept, Zenon DEF MultiInv, TagsAdvance
<1>4. CASE h.msg # NoMessage
  <2>1. h.msg \in Msg /\ h.n \in Chans /\ NextOf(h.n, h.msg) /\ client.id \in Ids
    BY <1>4, Zenon DEF Fetches, MultiInv, ClientOK
  <2>2. PICK m, n : m = h.msg /\ n = h.n
    BY Zenon
  <2>3. /\ nchan_update_multi_msgid(client.id, response_id(h)) = NewId(client.id, m, n)
        /\ response_id(h).time = m[1] /\ response_id(h).tags[n] = m[2]
        /\ NewId(client.id, m, n) \in Ids
    BY <2>1, <2>2, UpdateMakesNewId, Zenon
  <2>4. /\ client' = [id |-> NewId(client.id, m, n), seen |-> [client.seen EXCEPT ![n] = Append(@, m)]]
        /\ asserted' = (asserted \/ ~update_asserts(client.id, response_id(h), n))
        /\ raced' = (raced \/ \E t \in get.late : t < m[1])
    BY <1>4, <2>2, <2>3, Zenon DEF respond
  <2>5. Before(Position(n), m)
    BY <2>1, <2>2, Zenon DEF NextOf
  <2>6. TagsAdvance'
    BY <2>1, <2>2, <2>3, <2>4, <2>5, NextAdvances, Zenon DEF MultiInv, TagsAdvance, update_asserts
  <2>7. /\ ClientOK'
        /\ /\ \A c \in Chans : SeenUpTo(c)
           /\ \A c \in Chans : \A k \in 1 .. Len(chan[c]) :
                  Before(Position(c), chan[c][k]) => m[1] <= chan[c][k][1]
           => \A c \in Chans : SeenUpTo(c)'
    <3>1. clock \in Int /\ ChannelsOK /\ ClientOK
      BY DEF MultiInv
    <3> QED
      BY <2>1, <2>2, <2>3, <2>4, <3>1, ClientTakes, Zenon
  <2>8. raced' \in BOOLEAN /\ (raced \/ \A c \in Chans : SeenUpTo(c))'
    <3>1. raced' \in BOOLEAN
      BY <2>4, Zenon DEF MultiInv
    <3>2. ASSUME ~raced' PROVE \A c \in Chans : SeenUpTo(c)'
      <4>1. \A c \in Chans : SeenUpTo(c)
        BY <2>4, <3>2, Zenon DEF MultiInv
      <4>2. \A t \in get.late : ~(t < m[1])
        BY <2>4, <3>2, Zenon
      <4>3. ASSUME NEW c \in Chans, NEW k \in 1 .. Len(chan[c]), Before(Position(c), chan[c][k])
            PROVE  m[1] <= chan[c][k][1]
        <5>1. chan[c][k][1] \in get.late \/ m[1] <= chan[c][k][1]
          BY <2>2, <4>3, Zenon DEF Covered
        <5>2. chan[c][k][1] \in Int /\ m[1] \in Int
          BY <2>1, <2>2, ChannelMsgs, MsgParts DEF MultiInv
        <5> QED
          BY <4>2, <5>1, <5>2
      <4> QED
        BY <2>7, <4>1, <4>3, SMTT(20)
    <3> QED
      BY <3>1, <3>2, Zenon
  <2>9. ChannelsOK'
    BY Zenon DEF MultiInv, ChannelsOK
  <2> QED
    BY <1>1, <1>2, <2>6, <2>7, <2>8, <2>9, Zenon DEF MultiInv
<1> QED
  BY <1>3, <1>4, Zenon

(* An answer comes back. *)
LEMMA CallbackKeeps ==
    ASSUME MultiInv, NEW w \in get.answers, get_multi_message_callback(w)
    PROVE  MultiInv'
<1>1. PICK g : g = [get EXCEPT !.answers = @ \ {w}]
  BY Zenon
<1>2. get \in Fetches /\ w \in Answers /\ get.on /\ get.wanted = client.id
  BY DEF MultiInv, FetchOK, NoFetch, Fetches
<1>3. /\ g.on = get.on /\ g.wanted = get.wanted /\ g.status = get.status
      /\ g.msg = get.msg /\ g.n = get.n /\ g.lost = get.lost /\ g.lost \in Nat
      /\ g.expired = get.expired /\ g.late = get.late
      /\ g.asked = get.asked /\ g.answers = get.answers \ {w}
      /\ g \in Fetches
  BY <1>1, <1>2, Zenon DEF Fetches
<1>4. clock' = clock /\ chan' = chan /\ fwd' = fwd /\ asserted \in {asserted}
  BY SMTT(20) DEF get_multi_message_callback
<1>5. IsFiniteSet(g.asked) /\ IsFiniteSet(g.answers)
  BY <1>3, FS_RemoveElement, Zenon DEF MultiInv, FetchOK
<1>6. getting(g) = 0 => g.asked = {} /\ g.answers = {} /\ g.lost = 0
  <2>1. Cardinality(g.asked) \in Nat /\ Cardinality(g.answers) \in Nat
    BY <1>5, FS_CardinalityType, Zenon
  <2>2. getting(g) = 0 => Cardinality(g.asked) = 0 /\ Cardinality(g.answers) = 0 /\ g.lost = 0
    BY <1>3, <2>1 DEF getting
  <2> QED
    BY <1>5, <2>2, FS_EmptySet, Zenon
<1>7. CASE get.expired
  <2>1. /\ client' = client /\ refs' = refs /\ asserted' = asserted /\ raced' = raced
        /\ get' = (IF getting(g) = 0 THEN NoFetch ELSE g)
        /\ leaked' = leaked \/ leaked' = leaked + 1
    BY <1>1, <1>7, Zenon DEF get_multi_message_callback
  <2>2. FetchOK' /\ FetchCovers' /\ (get'.on => get'.expired)
    <3>1. CASE getting(g) = 0
      BY <1>4, <2>1, <3>1, NoFetchOK, Zenon
    <3>2. CASE getting(g) # 0
      <4>1. get' = g
        BY <2>1, <3>2, Zenon
      <4>2. FetchOK'
        BY <1>2, <1>3, <1>4, <1>5, <2>1, <4>1, Zenon DEF MultiInv, FetchOK, NextOf, Position
      <4> QED
        BY <1>3, <1>7, <4>1, <4>2, Zenon DEF FetchCovers
    <3> QED
      BY <3>1, <3>2, Zenon
  <2>3. HeadReservedOnce' /\ TagsAdvance'
    BY <1>2, <1>4, <1>7, <2>1, <2>2, Zenon DEF MultiInv, HeadReservedOnce, TagsAdvance
  <2>4. ForwardOK'
    BY <1>4, Zenon DEF MultiInv, ForwardOK
  <2>5. leaked' \in Nat
    BY <2>1 DEF MultiInv
  <2> QED
    BY <1>4, <2>1, <2>2, <2>3, <2>4, <2>5, ViewKept, Zenon DEF MultiInv
<1>8. CASE ~get.expired
  <2>1. PICK h : h = set_multimsg_msg(g, w)
    BY Zenon
  <2>2. PICK m, gm : m = w.reply.msg /\ gm = g.msg
    BY Zenon
  <2>3. g.msg # NoMessage => g.n \in Chans /\ g.status # "PENDING" /\ NextOf(g.n, g.msg)
    BY <1>3, Zenon DEF MultiInv, FetchOK
  <2>4. /\ h \in Fetches
        /\ h.on = g.on /\ h.wanted = g.wanted /\ h.asked = g.asked /\ h.answers = g.answers
        /\ h.lost = g.lost /\ h.expired = g.expired /\ h.late = g.late
        /\ h.msg # NoMessage => h.n \in Chans /\ h.status # "PENDING"
        /\ (h.msg = g.msg /\ h.n = g.n) \/ (h.msg = m /\ h.n = w.c)
        /\ m # NoMessage => h.msg # NoMessage /\ h.msg[1] <= m[1]
        /\ gm # NoMessage => h.msg # NoMessage /\ h.msg[1] <= gm[1]
    BY <1>2, <1>3, <2>1, <2>2, <2>3, MergeKeepsBest, Zenon
  <2>5. h.msg # NoMessage => NextOf(h.n, h.msg)
    BY <2>2, <2>3, <2>4, Zenon DEF MultiInv, FetchOK
  <2>6. m \in Msg \cup {NoMessage} /\ gm \in Msg \cup {NoMessage} /\ h.msg \in Msg \cup {NoMessage}
    BY <1>2, <1>3, <2>2, <2>4, Zenon DEF Fetches, Answers, Replies
  <2>7. ASSUME NEW c \in Chans, Covered(c, m) \/ Covered(c, gm) PROVE Covered(c, h.msg)
    <3>1. ChannelsOK
      BY Zenon DEF MultiInv
    <3>2. PICK hm : hm = h.msg
      BY Zenon
    <3>3. Covered(c, hm)
      BY <2>4, <2>6, <2>7, <3>1, <3>2, CoverMono, SMTT(20)
    <3> QED
      BY <3>2, <3>3, Zenon
  <2>8. get.lost = 0 => \A c \in Chans : \/ \E q \in h.asked : q.c = c
                                         \/ \E v \in h.answers : v.c = c /\ Covered(c, v.reply.msg)
                                         \/ Covered(c, h.msg)
    <3> SUFFICES ASSUME get.lost = 0, NEW c \in Chans
                 PROVE  \/ \E q \in h.asked : q.c = c
                        \/ \E v \in h.answers : v.c = c /\ Covered(c, v.reply.msg)
                        \/ Covered(c, h.msg)
      BY Zenon
    <3>1. \/ \E q \in get.asked : q.c = c
          \/ \E v \in get.answers : v.c = c /\ Covered(c, v.reply.msg)
          \/ Covered(c, get.msg)
      BY <1>2, <1>8, Zenon DEF MultiInv, FetchCovers
    <3>2. CASE \E v \in get.answers : v.c = c /\ Covered(c, v.reply.msg)
      <4>1. PICK v \in get.answers : v.c = c /\ Covered(c, v.reply.msg)
        BY <3>2, Zenon
      <4>2. CASE v = w
        BY <2>2, <2>7, <4>1, <4>2, Zenon
      <4>3. CASE v # w
        BY <1>3, <2>4, <4>1, <4>3, Zenon
      <4> QED
        BY <4>2, <4>3, Zenon
    <3> QED
      BY <1>3, <2>2, <2>4, <2>7, <3>1, <3>2, Zenon
  <2>9. CASE getting(g) = 0
    <3>1. respond(h)
      BY <1>1, <1>8, <2>1, <2>9, Zenon DEF get_multi_message_callback
    <3>2. \A c \in Chans : Covered(c, h.msg)
      BY <1>3, <1>6, <2>4, <2>8, <2>9, SMTT(20)
    <3> QED
      BY <1>2, <1>3, <1>4, <1>8, <2>4, <2>5, <3>1, <3>2, RespondKeeps, Zenon
  <2>10. CASE getting(g) # 0
    <3>1. get' = h /\ client' = client /\ refs' = refs /\ leaked' = leaked /\ asserted' = asserted /\ raced' = raced
      BY <1>1, <1>8, <2>1, <2>10, Zenon DEF get_multi_message_callback
    <3>2. FetchOK'
      <4>1. \A q \in h.asked : q.id = Position(q.c)'
        BY <1>3, <2>4, <3>1, Zenon DEF MultiInv, FetchOK, Position
      <4>2. ASSUME NEW v \in h.answers, v.reply.msg # NoMessage PROVE NextOf(v.c, v.reply.msg)'
        <5>1. NextOf(v.c, v.reply.msg)
          BY <1>3, <2>4, <4>2, Zenon DEF MultiInv, FetchOK
        <5> QED
          BY <1>4, <3>1, <5>1, NextKept, SMTT(20)
      <4>3. ASSUME h.msg # NoMessage PROVE NextOf(h.n, h.msg)'
        BY <1>4, <2>5, <3>1, <4>3, NextKept, Zenon
      <4>4. IsFiniteSet(h.asked) /\ IsFiniteSet(h.answers)
        BY <1>5, <2>4, Zenon
      <4>5. h.on /\ h.wanted = client'.id
        BY <1>2, <1>3, <2>4, <3>1, Zenon
      <4> QED
        BY <2>4, <3>1, <4>1, <4>2, <4>3, <4>4, <4>5, Zenon DEF FetchOK, NextOf
    <3>3. FetchCovers'
      <4> SUFFICES ASSUME get.lost = 0, NEW c \in Chans
                   PROVE  \/ \E q \in h.asked : q.c = c
                          \/ \E v \in h.answers : v.c = c /\ Covered(c, v.reply.msg)'
                          \/ Covered(c, h.msg)'
        BY <1>3, <2>4, <3>1, Zenon DEF FetchCovers, Covered
      <4>1. get.late \subseteq get'.late
        BY <1>3, <2>4, <3>1, Zenon
      <4> QED
        BY <1>4, <2>8, <3>1, <4>1, CoveredKept, Zenon
    <3>4. HeadReservedOnce' /\ TagsAdvance' /\ ForwardOK'
      BY <1>2, <1>3, <1>4, <2>4, <3>1, Zenon DEF MultiInv, HeadReservedOnce, TagsAdvance, ForwardOK
    <3> QED
      BY <1>4, <3>1, <3>2, <3>3, <3>4, ViewKept, Zenon DEF MultiInv
  <2> QED
    BY <2>9, <2>10, Zenon
<1> QED
  BY <1>7, <1>8, Zenon

(* The first state: no fetch, nothing given, and at most the one message that
   a channel had before. *)
LEMMA MultiInitInv ==
    ASSUME MultiInit
    PROVE  MultiInv
<1>1. clock = 2 /\ get = NoFetch /\ refs = 0 /\ leaked = 0 /\ asserted = FALSE /\ raced = FALSE
  BY Zenon DEF MultiInit
<1>2. client = [id |-> [time |-> OLDEST, tags |-> [c \in Chans |-> 0]], seen |-> [c \in Chans |-> <<>>]]
  BY Zenon DEF MultiInit
<1>3. \A c \in Chans : chan[c] = <<>> \/ chan[c] = << <<1, 0>> >>
  BY Zenon DEF MultiInit
<1>4. <<1, 0>> \in Msg
  BY Constants DEF Msg
<1>5. ChannelsOK
  <2>1. chan \in [Chans -> Seq(Msg)]
    <3>1. <<>> \in Seq(Msg) /\ << <<1, 0>> >> \in Seq(Msg)
      BY <1>4
    <3> QED
      BY <3>1, Zenon DEF MultiInit
  <2>2. ASSUME NEW c \in Chans
        PROVE  /\ Len(chan[c]) <= MaxMsgs \/ Len(chan[c]) = 1
               /\ \A k \in 1 .. Len(chan[c]) : chan[c][k][1] <= clock /\ chan[c][k][2] < k
               /\ \A j, k \in 1 .. Len(chan[c]) : j < k => Before(chan[c][j], chan[c][k])
    <3>1. CASE chan[c] = <<>>
      BY <3>1, Constants
    <3>2. CASE chan[c] = << <<1, 0>> >>
      <4>1. Len(chan[c]) = 1 /\ chan[c][1] = <<1, 0>>
        BY <3>2
      <4> QED
        BY <1>1, <4>1
    <3> QED
      BY <1>3, <3>1, <3>2, Zenon
  <2> QED
    BY <2>1, <2>2, Zenon DEF ChannelsOK
<1>6. client.id \in Ids /\ client.id.time = OLDEST
  BY <1>2, Constants DEF Ids, OLDEST
<1>7. ClientOK
  <2>1. client.seen \in [Chans -> Seq(Msg)]
    BY <1>2
  <2> QED
    BY <1>1, <1>2, <1>6, <2>1 DEF ClientOK, OLDEST
<1>8. \A c \in Chans : SeenUpTo(c)
  <2> SUFFICES ASSUME NEW c \in Chans PROVE SeenUpTo(c)
    BY Zenon
  <2>1. Position(c) = <<0, 0>>
    BY <1>6, <1>7, PositionParts, Zenon
  <2>2. client.seen[c] = <<>> /\ Len(client.seen[c]) = 0
    BY <1>2, Zenon
  <2>3. ASSUME NEW k \in 1 .. Len(chan[c]) PROVE Before(Position(c), chan[c][k]) /\ ~(k <= 0)
    <3>1. chan[c][k] \in Msg
      BY <1>5, ChannelMsgs, Zenon
    <3>2. chan[c][k][1] \in 1 .. MaxTime
      BY <3>1, MsgParts, Zenon
    <3> QED
      BY <2>1, <3>2 DEF Before
  <2>4. Len(chan[c]) \in Nat
    BY <1>5 DEF ChannelsOK
  <2> QED
    BY <2>2, <2>3, <2>4 DEF SeenUpTo
<1>9. FetchOK /\ FetchCovers
  <2>1. NoFetch \in Fetches
    <3>1. NoFetch.wanted \in Ids
      BY Constants DEF NoFetch, Ids, OLDEST
    <3> QED
      BY <3>1, Zenon DEF NoFetch, Fetches
  <2>2. /\ NoFetch.asked = {} /\ NoFetch.answers = {} /\ NoFetch.msg = NoMessage /\ NoFetch.on = FALSE
    BY Zenon DEF NoFetch
  <2> QED
    BY <1>1, <2>1, <2>2, FS_EmptySet, Zenon DEF FetchOK, FetchCovers
<1>10. ForwardOK
  BY Zenon DEF MultiInit, ForwardOK
<1>11. HeadReservedOnce /\ TagsAdvance
  BY <1>1, <1>9, Zenon DEF HeadReservedOnce, TagsAdvance, NoFetch
<1>12. clock \in 2 .. MaxTime /\ leaked \in Nat
  BY <1>1, Constants
<1>13. raced \in BOOLEAN
  BY <1>1, Zenon
<1> QED
  BY <1>5, <1>7, <1>8, <1>9, <1>10, <1>11, <1>12, <1>13, Zenon DEF MultiInv

(* Every step preserves the invariant. *)
LEMMA MultiStep ==
    ASSUME MultiInv, [MultiNext]_multiVars
    PROVE  MultiInv'
<1>1. CASE tick
  BY <1>1, TickKeeps, Zenon
<1>2. ASSUME NEW c \in Chans, publish(c) PROVE MultiInv'
  BY <1>2, PublishKeeps, Zenon
<1>3. ASSUME NEW c \in Chans, forward(c) PROVE MultiInv'
  BY <1>3, ForwardKeeps, Zenon
<1>4. CASE nchan_store_async_get_multi_message
  BY <1>4, StartKeeps, Zenon
<1>5. ASSUME NEW q \in get.asked, receive_get_multi(q) PROVE MultiInv'
  BY <1>5, ReceiveKeeps, Zenon
<1>6. ASSUME NEW q \in get.asked, lose_answer(q) PROVE MultiInv'
  BY <1>6, LoseKeeps, Zenon
<1>7. ASSUME NEW w \in get.answers, get_multi_message_callback(w) PROVE MultiInv'
  BY <1>7, CallbackKeeps, Zenon
<1>8. CASE get_multimsg_timeout
  BY <1>8, TimeoutKeeps, Zenon
<1>9. CASE UNCHANGED multiVars
  <2>1. /\ clock' = clock /\ chan' = chan /\ client' = client /\ fwd' = fwd /\ get' = get
        /\ refs' = refs /\ leaked' = leaked /\ asserted' = asserted /\ raced' = raced
    BY <1>9, Zenon DEF multiVars
  <2>2. FetchOK' /\ FetchCovers'
    BY <2>1, Zenon DEF MultiInv, FetchOK, FetchCovers, NextOf, Covered, Position
  <2>3. HeadReservedOnce' /\ TagsAdvance' /\ ForwardOK'
    BY <2>1, Zenon DEF MultiInv, HeadReservedOnce, TagsAdvance, ForwardOK
  <2> QED
    BY <2>1, <2>2, <2>3, ViewKept, Zenon DEF MultiInv
<1> QED
  BY <1>1, <1>2, <1>3, <1>4, <1>5, <1>6, <1>7, <1>8, <1>9, Zenon DEF MultiNext

(* A client that follows any number of channels is given the messages of each
   in order, each once and none left out, whatever the order in which the
   owners' answers, new publications, lost answers and timeouts come (unless a
   channel gets a message of an earlier second after it answered); the
   assertion of nchan_update_multi_msgid holds, and the head is released
   exactly once. *)
THEOREM FetchesLoseNothing == MultiSpec => []MultiSafe
<1>1. MultiInit => MultiInv
  BY MultiInitInv, Zenon
<1>2. MultiInv /\ [MultiNext]_multiVars => MultiInv'
  BY MultiStep, Zenon
<1>3. MultiInv => MultiSafe
  BY MultiInvSafe, Zenon
<1> QED
  BY <1>1, <1>2, <1>3, PTL DEF MultiSpec

=============================================================================
