---------------------------- MODULE DListProofs ----------------------------
(***************************************************************************)
(* Proofs about the pointer lists of module DList, for every finite set of  *)
(* jobs.                                                                    *)
(***************************************************************************)
EXTENDS DList, JobQueueProofs, Extremes, FiniteSetTheorems

Prio == [Job -> {-1} \cup Priority]

(* A ring of n jobs with a new tail, and without its k-th job. *)
Longer(s, n, j) == [i \in 1 .. n + 1 |-> IF i = n + 1 THEN j ELSE s[i]]
Shorter(s, n, k) == [i \in 1 .. n - 1 |-> IF i < k THEN s[i] ELSE s[i + 1]]

(* The rings of both heaps but for list p: a call on p leaves them alone. *)
OthersKept(h, prio, g, new, p) ==
    \A q \in Priority \ {p} :
        /\ g.count[q] = h.count[q]
        /\ \E t \in [1 .. h.count[q] -> Job] : Ring(h, prio, q, t) /\ Ring(g, new, q, t)

(* The fields of the heap after a push or a removal. *)
LEMMA HeapPush ==
    ASSUME NEW h \in Heap, NEW p \in Priority, NEW j \in Job,
           h.head[p] = NULL \/ h.previous[h.head[p]] \in Job
    PROVE  ListPush(h, p, j) \in Heap
  BY DEF ListPush, Heap, Link

(* The fields of the heap after a removal. *)
LEMMA HeapRemove ==
    ASSUME NEW h \in Heap, NEW p \in Priority, NEW j \in Job
    PROVE  ListRemove(h, p, j) \in Heap
  BY DEF ListRemove, Heap, Link

(* Push extends the ring of its list by the new tail and leaves the others.  *)
LEMMA PushRing ==
    ASSUME NEW h \in Heap, NEW prio \in Prio, OneRing(h, prio),
           NEW p \in Priority, NEW j \in Job, ~Linked(h, j)
    PROVE  LET g == ListPush(h, p, j)
               new == [prio EXCEPT ![j] = p]
               n == h.count[p]
           IN  /\ g \in Heap
               /\ OneRing(g, new)
               /\ OthersKept(h, prio, g, new, p)
               /\ g.count[p] = n + 1
               /\ \E s \in [1 .. n -> Job] :
                     Ring(h, prio, p, s) /\ Ring(g, new, p, Longer(s, n, j))
  <1> DEFINE g == ListPush(h, p, j)
             new == [prio EXCEPT ![j] = p]
             n == h.count[p]
             first == IF h.head[p] = NULL THEN j ELSE h.head[p]
             tail == IF h.head[p] = NULL THEN j ELSE h.previous[h.head[p]]
  <1>0. n \in Nat
    BY DEF OneRing
  <1>1. PICK s \in [1 .. n -> Job] : Ring(h, prio, p, s)
    BY DEF OneRing
  <1>2. \A q \in Priority : \A t \in [1 .. h.count[q] -> Job] :
            Ring(h, prio, q, t) => \A i \in 1 .. h.count[q] : t[i] # j /\ t[i] \in Job
    <2> SUFFICES ASSUME NEW q \in Priority, NEW t \in [1 .. h.count[q] -> Job],
                        Ring(h, prio, q, t), NEW i \in 1 .. h.count[q]
                 PROVE  t[i] # j /\ t[i] \in Job
      OBVIOUS
    <2>1. h.count[q] \in Nat
      BY DEF OneRing
    <2>2. h.next[t[i]] = IF i = h.count[q] THEN t[1] ELSE t[i + 1]
      BY DEF Ring
    <2>3. h.next[t[i]] \in Job
      BY <2>1, <2>2
    <2> QED
      BY <2>3, DListAssumption DEF Linked
  <1>3. IF n = 0 THEN first = j /\ tail = j ELSE first = s[1] /\ tail = s[n]
    BY <1>0, <1>1, DListAssumption DEF Ring
  <1>4. first \in Job /\ tail \in Job
    BY <1>0, <1>3
  <1>5. h.head[p] = NULL \/ h.previous[h.head[p]] \in Job
    BY <1>4
  <1>6. g \in Heap
    BY <1>5, HeapPush
  <1>7. /\ g.next = [h.next EXCEPT ![j] = first, ![tail] = j]
        /\ g.previous = [h.previous EXCEPT ![j] = tail, ![first] = j]
        /\ g.head = [h.head EXCEPT ![p] = first]
        /\ g.count = [h.count EXCEPT ![p] = @ + 1]
    BY DEF ListPush
  <1> HIDE DEF g, first, tail
  <1>types. /\ h.next \in [Job -> Link] /\ h.previous \in [Job -> Link]
            /\ h.head \in [Priority -> Link] /\ h.count \in [Priority -> Int]
            /\ prio \in [Job -> {-1} \cup Priority]
    BY DEF Heap, Prio
  <1>8. \A x \in Job : Linked(g, x) <=> Linked(h, x) \/ x = j
    <2>1. \A x \in Job : x # j /\ x # tail => g.next[x] = h.next[x]
      BY <1>7, <1>4, <1>types
    <2>2. g.next[j] # NULL /\ g.next[tail] # NULL
      BY <1>7, <1>4, <1>types, DListAssumption
    <2>3. tail = j \/ Linked(h, tail)
      <3>1. CASE n = 0
        BY <3>1, <1>3
      <3>2. CASE n # 0
        <4>1. h.next[s[n]] = s[1] /\ s[1] \in Job
          BY <3>2, <1>0, <1>1 DEF Ring
        <4> QED
          BY <4>1, <3>2, <1>3, DListAssumption DEF Linked
      <3> QED
        BY <3>1, <3>2
    <2> QED
      BY <2>1, <2>2, <2>3 DEF Linked
  <1>9. \A x \in Job : g.previous[x] # NULL <=> h.previous[x] # NULL \/ x = j
    <2>1. \A x \in Job : x # j /\ x # first => g.previous[x] = h.previous[x]
      BY <1>7, <1>4, <1>types
    <2>2. g.previous[j] # NULL /\ g.previous[first] # NULL
      BY <1>7, <1>4, <1>types, DListAssumption
    <2>3. first = j \/ h.previous[first] # NULL
      <3>1. CASE n = 0
        BY <3>1, <1>3
      <3>2. CASE n # 0
        <4>1. h.previous[s[1]] = s[n] /\ s[n] \in Job
          BY <3>2, <1>0, <1>1 DEF Ring
        <4> QED
          BY <4>1, <3>2, <1>3, DListAssumption
      <3> QED
        BY <3>1, <3>2
    <2> QED
      BY <2>1, <2>2, <2>3
  <1>10. ASSUME NEW q \in Priority, q # p
         PROVE  /\ g.count[q] = h.count[q] /\ h.count[q] \in Nat
                /\ \E t \in [1 .. h.count[q] -> Job] : Ring(h, prio, q, t) /\ Ring(g, new, q, t)
    <2>1. PICK t \in [1 .. h.count[q] -> Job] : Ring(h, prio, q, t)
      BY DEF OneRing
    <2>2. g.count[q] = h.count[q] /\ g.head[q] = h.head[q] /\ h.count[q] \in Nat
      BY <1>7, <1>10, <1>types DEF OneRing
    <2>3. \A i \in 1 .. h.count[q] : t[i] # j /\ t[i] # first /\ t[i] # tail /\ t[i] \in Job
      <3>1. \A i \in 1 .. h.count[q] : t[i] # j /\ t[i] \in Job
        BY <1>2, <2>1
      <3>2. n # 0 => prio[s[1]] = p /\ prio[s[n]] = p
        BY <1>0, <1>1 DEF Ring
      <3>3. \A i \in 1 .. h.count[q] : prio[t[i]] = q
        BY <2>1 DEF Ring
      <3> QED
        BY <3>1, <3>2, <3>3, <1>3, <1>10
    <2>4. \A i \in 1 .. h.count[q] : /\ g.next[t[i]] = h.next[t[i]]
                                     /\ g.previous[t[i]] = h.previous[t[i]]
                                     /\ new[t[i]] = prio[t[i]]
      BY <2>3, <1>7, <1>4, <1>types
    <2>5. \A x \in Job : Linked(g, x) /\ new[x] = q => Linked(h, x) /\ prio[x] = q
      BY <1>8, <1>10, <1>types
    <2>6. Ring(g, new, q, t)
      BY <2>1, <2>2, <2>4, <2>5 DEF Ring
    <2> QED
      BY <2>1, <2>2, <2>6
  <1>11. /\ g.count[p] = n + 1
         /\ Longer(s, n, j) \in [1 .. n + 1 -> Job]
         /\ Ring(g, new, p, Longer(s, n, j))
    <2> DEFINE t == [i \in 1 .. n + 1 |-> IF i = n + 1 THEN j ELSE s[i]]
    <2>1. g.count[p] = n + 1 /\ g.head[p] = first
      BY <1>7, <1>types
    <2>2. t \in [1 .. n + 1 -> Job]
      BY <1>0
    <2>3. g.head[p] = t[1]
      BY <2>1, <1>0, <1>3
    <2>4. \A i \in 1 .. n : s[i] # j /\ s[i] \in Job
      BY <1>1, <1>2
    <2>5. \A i \in 1 .. n + 1 : g.next[t[i]] = IF i = n + 1 THEN t[1] ELSE t[i + 1]
      <3> SUFFICES ASSUME NEW i \in 1 .. n + 1
                   PROVE  g.next[t[i]] = IF i = n + 1 THEN t[1] ELSE t[i + 1]
        OBVIOUS
      <3>1. CASE i = n + 1
        BY <3>1, <1>0, <1>3, <1>4, <1>7, <1>types, <2>4
      <3>2. CASE i = n /\ n # 0
        BY <3>2, <1>0, <1>3, <1>4, <1>7, <1>types, <2>4
      <3>3. CASE i < n
        <4>1. s[i] # s[n] /\ s[i] # j /\ i \in 1 .. n
          BY <3>3, <1>0, <1>1, <2>4 DEF Ring
        <4>2. h.next[s[i]] = s[i + 1]
          BY <3>3, <4>1, <1>1 DEF Ring
        <4>3. g.next[s[i]] = h.next[s[i]]
          BY <4>1, <1>0, <1>3, <1>4, <1>7, <1>types, <2>4
        <4> QED
          BY <3>3, <4>2, <4>3, <1>0
      <3> QED
        BY <3>1, <3>2, <3>3, <1>0
    <2>6. \A i \in 1 .. n + 1 : g.previous[t[i]] = IF i = 1 THEN t[n + 1] ELSE t[i - 1]
      <3> SUFFICES ASSUME NEW i \in 1 .. n + 1
                   PROVE  g.previous[t[i]] = IF i = 1 THEN t[n + 1] ELSE t[i - 1]
        OBVIOUS
      <3>1. CASE i = n + 1
        BY <3>1, <1>0, <1>3, <1>4, <1>7, <1>types, <2>4
      <3>2. CASE i = 1 /\ n # 0
        BY <3>2, <1>0, <1>3, <1>4, <1>7, <1>types, <2>4
      <3>3. CASE 1 < i /\ i <= n
        <4>1. s[i] # s[1] /\ s[i] # j /\ i \in 1 .. n
          BY <3>3, <1>0, <1>1, <2>4 DEF Ring
        <4>2. h.previous[s[i]] = s[i - 1]
          BY <3>3, <4>1, <1>1 DEF Ring
        <4>3. g.previous[s[i]] = h.previous[s[i]]
          BY <4>1, <1>0, <1>3, <1>4, <1>7, <1>types, <2>4
        <4> QED
          BY <3>3, <4>2, <4>3, <1>0
      <3> QED
        BY <3>1, <3>2, <3>3, <1>0
    <2>7. \A i \in 1 .. n + 1 : new[t[i]] = p
      BY <1>0, <1>1, <1>types, <2>4 DEF Ring
    <2>8. \A i, k \in 1 .. n + 1 : t[i] = t[k] => i = k
      BY <1>0, <1>1, <2>4 DEF Ring
    <2>9. ASSUME NEW x \in Job, Linked(g, x), new[x] = p
          PROVE  \E i \in 1 .. n + 1 : t[i] = x
      <3>1. CASE x = j
        BY <3>1, <1>0
      <3>2. CASE x # j
        <4>1. Linked(h, x) /\ prio[x] = p
          BY <3>2, <2>9, <1>8, <1>types
        <4>2. PICK i \in 1 .. n : s[i] = x
          BY <4>1, <1>1 DEF Ring
        <4> QED
          BY <4>2, <1>0
      <3> QED
        BY <3>1, <3>2
    <2> HIDE DEF t
    <2>10. Ring(g, new, p, t)
      BY <2>1, <2>3, <2>5, <2>6, <2>7, <2>8, <2>9, <1>0 DEF Ring
    <2> QED
      BY <2>1, <2>2, <2>10 DEF t, Longer
  <1>12. \A x \in Job : Linked(g, x) => new[x] \in Priority
    BY <1>8, <1>types DEF OneRing
  <1>13. \A x \in Job : Linked(g, x) <=> g.previous[x] # NULL
    BY <1>8, <1>9 DEF OneRing
  <1>14. OneRing(g, new)
    <2>1. \A q \in Priority : /\ g.count[q] \in Nat
                              /\ \E t \in [1 .. g.count[q] -> Job] : Ring(g, new, q, t)
      <3> TAKE q \in Priority
      <3>1. CASE q = p
        BY <3>1, <1>0, <1>11
      <3>2. CASE q # p
        BY <3>2, <1>10
      <3> QED
        BY <3>1, <3>2
    <2> QED
      BY <1>12, <1>13, <2>1 DEF OneRing
  <1>15. OthersKept(h, prio, g, new, p)
    BY <1>10 DEF OthersKept
  <1> QED
    BY <1>1, <1>6, <1>11, <1>14, <1>15 DEF g

(* Removal closes the ring of its list over the gap and leaves the others.   *)
LEMMA RemoveRing ==
    ASSUME NEW h \in Heap, NEW prio \in Prio, OneRing(h, prio),
           NEW j \in Job, Linked(h, j)
    PROVE  LET p == prio[j]
               g == ListRemove(h, p, j)
               n == h.count[p]
           IN  /\ p \in Priority
               /\ g \in Heap
               /\ OneRing(g, prio)
               /\ ~Linked(g, j)
               /\ OthersKept(h, prio, g, prio, p)
               /\ g.count[p] = n - 1
               /\ \E s \in [1 .. n -> Job], k \in 1 .. n :
                     Ring(h, prio, p, s) /\ s[k] = j /\ Ring(g, prio, p, Shorter(s, n, k))
  <1> DEFINE p == prio[j]
             g == ListRemove(h, p, j)
             n == h.count[p]
             nx == h.next[j]
             pv == h.previous[j]
  <1>0. p \in Priority /\ n \in Nat
    BY DEF OneRing
  <1>1. PICK s \in [1 .. n -> Job] : Ring(h, prio, p, s)
    BY <1>0 DEF OneRing
  <1>2. PICK k \in 1 .. n : s[k] = j
    BY <1>1 DEF Ring
  <1>3. /\ nx = IF k = n THEN s[1] ELSE s[k + 1]
        /\ pv = IF k = 1 THEN s[n] ELSE s[k - 1]
    BY <1>1, <1>2 DEF Ring
  <1>4. nx \in Job /\ pv \in Job /\ prio[nx] = p /\ prio[pv] = p
    BY <1>0, <1>1, <1>2, <1>3 DEF Ring
  <1>5. \A i, m \in 1 .. n : s[i] = s[m] => i = m
    BY <1>1 DEF Ring
  <1>6. nx = j <=> n = 1
    BY <1>0, <1>2, <1>3, <1>5
  <1>7. /\ g.next = [h.next EXCEPT ![pv] = nx, ![j] = NULL]
        /\ g.previous = [h.previous EXCEPT ![nx] = pv, ![j] = NULL]
        /\ g.head = [h.head EXCEPT ![p] = IF nx = j THEN NULL ELSE IF @ = j THEN nx ELSE @]
        /\ g.count = [h.count EXCEPT ![p] = @ - 1]
    BY DEF ListRemove
  <1>8. g \in Heap
    BY <1>0, HeapRemove
  <1> HIDE DEF g, nx, pv, p
  <1>types. /\ h.next \in [Job -> Link] /\ h.previous \in [Job -> Link]
            /\ h.head \in [Priority -> Link] /\ h.count \in [Priority -> Int]
            /\ prio \in [Job -> {-1} \cup Priority]
    BY DEF Heap, Prio
  <1>9. h.next[pv] # NULL /\ h.previous[nx] # NULL
    <2>1. h.next[pv] = j
      BY <1>0, <1>1, <1>2, <1>3 DEF Ring
    <2>2. h.previous[nx] = j
      BY <1>0, <1>1, <1>2, <1>3 DEF Ring
    <2> QED
      BY <2>1, <2>2, DListAssumption
  <1>10. \A x \in Job : Linked(g, x) <=> Linked(h, x) /\ x # j
    <2>1. g.next[j] = NULL
      BY <1>7, <1>types
    <2>2. \A x \in Job : x # j /\ x # pv => g.next[x] = h.next[x]
      BY <1>7, <1>4, <1>types
    <2>3. pv # j => g.next[pv] # NULL
      BY <1>7, <1>4, <1>types, DListAssumption
    <2> QED
      BY <2>1, <2>2, <2>3, <1>9 DEF Linked
  <1>11. \A x \in Job : g.previous[x] # NULL <=> h.previous[x] # NULL /\ x # j
    <2>1. g.previous[j] = NULL
      BY <1>7, <1>types
    <2>2. \A x \in Job : x # j /\ x # nx => g.previous[x] = h.previous[x]
      BY <1>7, <1>4, <1>types
    <2>3. nx # j => g.previous[nx] # NULL
      BY <1>7, <1>4, <1>types, DListAssumption
    <2> QED
      BY <2>1, <2>2, <2>3, <1>9
  <1>12. ASSUME NEW q \in Priority, q # p
         PROVE  /\ g.count[q] = h.count[q] /\ h.count[q] \in Nat
                /\ \E t \in [1 .. h.count[q] -> Job] : Ring(h, prio, q, t) /\ Ring(g, prio, q, t)
    <2>1. PICK t \in [1 .. h.count[q] -> Job] : Ring(h, prio, q, t)
      BY DEF OneRing
    <2>2. g.count[q] = h.count[q] /\ g.head[q] = h.head[q] /\ h.count[q] \in Nat
      BY <1>7, <1>12, <1>types DEF OneRing
    <2>3. \A i \in 1 .. h.count[q] : t[i] # j /\ t[i] # nx /\ t[i] # pv /\ t[i] \in Job
      BY <2>1, <1>4, <1>12 DEF Ring, p
    <2>4. \A i \in 1 .. h.count[q] : /\ g.next[t[i]] = h.next[t[i]]
                                     /\ g.previous[t[i]] = h.previous[t[i]]
      BY <2>3, <1>7, <1>4, <1>types
    <2>5. \A x \in Job : Linked(g, x) /\ prio[x] = q => Linked(h, x) /\ prio[x] = q
      BY <1>10
    <2>6. Ring(g, prio, q, t)
      BY <2>1, <2>2, <2>4, <2>5 DEF Ring
    <2> QED
      BY <2>1, <2>2, <2>6
  <1>13. /\ g.count[p] = n - 1 /\ n - 1 \in Nat
         /\ Shorter(s, n, k) \in [1 .. n - 1 -> Job]
         /\ Ring(g, prio, p, Shorter(s, n, k))
    <2> DEFINE t == [i \in 1 .. n - 1 |-> IF i < k THEN s[i] ELSE s[i + 1]]
    <2>1. g.count[p] = n - 1 /\ n - 1 \in Nat
      BY <1>0, <1>2, <1>7, <1>types
    <2>2. t \in [1 .. n - 1 -> Job]
      BY <1>0, <1>2
    <2>3. g.head[p] = IF n - 1 = 0 THEN NULL ELSE t[1]
      <3>1. h.head[p] = s[1]
        BY <1>0, <1>1, <1>2 DEF Ring
      <3>2. g.head[p] = IF nx = j THEN NULL ELSE IF s[1] = j THEN nx ELSE s[1]
        BY <3>1, <1>0, <1>7, <1>types
      <3>3. s[1] = j <=> k = 1
        BY <1>0, <1>2, <1>5
      <3>4. n # 1 => t[1] = IF k = 1 THEN s[2] ELSE s[1]
        BY <1>0, <1>2
      <3>5. n # 1 /\ k = 1 => nx = s[2]
        BY <1>0, <1>2, <1>3
      <3> QED
        BY <3>2, <3>3, <3>4, <3>5, <1>0, <1>6
    <2>4. \A i \in 1 .. n : i # k => s[i] # j /\ s[i] \in Job
      BY <1>2, <1>5
    <2>5. ASSUME NEW i \in 1 .. n - 1
          PROVE  g.next[t[i]] = IF i = n - 1 THEN t[1] ELSE t[i + 1]
      <3> DEFINE m == IF i < k THEN i ELSE i + 1
      <3>1. m \in 1 .. n /\ m # k /\ t[i] = s[m]
        BY <1>0, <1>2
      <3>2. g.next[s[m]] = IF s[m] = pv THEN nx ELSE h.next[s[m]]
        BY <3>1, <2>4, <1>4, <1>7, <1>types
      <3>3. s[m] = pv <=> m = IF k = 1 THEN n ELSE k - 1
        BY <3>1, <1>0, <1>2, <1>3, <1>5
      <3>4. h.next[s[m]] = IF m = n THEN s[1] ELSE s[m + 1]
        BY <3>1, <1>1 DEF Ring
      <3>5. m = IF i < k THEN i ELSE i + 1
        OBVIOUS
      <3>6. t[1] = (IF k = 1 THEN s[2] ELSE s[1]) /\ n # 1
        BY <1>0, <1>2
      <3>7. i # n - 1 => t[i + 1] = IF i + 1 < k THEN s[i + 1] ELSE s[(i + 1) + 1]
        <4>1. i # n - 1 => i + 1 \in 1 .. n - 1
          BY <1>0
        <4> QED
          BY <4>1
      <3> HIDE DEF t, m
      <3>8. CASE s[m] = pv
        <4>1. g.next[t[i]] = nx
          BY <3>1, <3>2, <3>8
        <4>2. CASE k = 1
          <5>1. i = n - 1 /\ nx = s[2]
            BY <4>2, <3>3, <3>5, <3>6, <3>8, <1>0, <1>3
          <5> QED
            BY <4>1, <4>2, <5>1, <3>6
        <4>3. CASE k # 1 /\ k = n
          <5>1. i = n - 1 /\ nx = s[1]
            BY <4>3, <3>3, <3>5, <3>8, <1>0, <1>3
          <5> QED
            BY <4>1, <4>3, <5>1, <3>6
        <4>4. CASE k # 1 /\ k # n
          <5>1. i = k - 1 /\ nx = s[k + 1]
            BY <4>4, <3>3, <3>5, <3>8, <1>0, <1>2, <1>3
          <5>2. i # n - 1 /\ t[i + 1] = s[k + 1]
            BY <4>4, <5>1, <3>7, <1>0, <1>2
          <5> QED
            BY <4>1, <5>1, <5>2
        <4> QED
          BY <4>2, <4>3, <4>4
      <3>9. CASE s[m] # pv
        <4>1. g.next[t[i]] = h.next[s[m]]
          BY <3>1, <3>2, <3>9
        <4>2. CASE m = n
          <5>1. i = n - 1 /\ k # 1
            BY <4>2, <3>1, <3>3, <3>5, <3>9, <1>0, <1>2
          <5> QED
            BY <4>1, <4>2, <5>1, <3>4, <3>6
        <4>3. CASE m # n
          <5>1. i # n - 1 /\ t[i + 1] = s[m + 1]
            BY <4>3, <3>1, <3>3, <3>5, <3>7, <3>9, <1>0, <1>2
          <5> QED
            BY <4>1, <4>3, <5>1, <3>4
        <4> QED
          BY <4>2, <4>3
      <3> QED
        BY <3>8, <3>9
    <2>6. ASSUME NEW i \in 1 .. n - 1
          PROVE  g.previous[t[i]] = IF i = 1 THEN t[n - 1] ELSE t[i - 1]
      <3> DEFINE m == IF i < k THEN i ELSE i + 1
      <3>1. m \in 1 .. n /\ m # k /\ t[i] = s[m]
        BY <1>0, <1>2
      <3>2. g.previous[s[m]] = IF s[m] = nx THEN pv ELSE h.previous[s[m]]
        BY <3>1, <2>4, <1>4, <1>7, <1>types
      <3>3. s[m] = nx <=> m = IF k = n THEN 1 ELSE k + 1
        BY <3>1, <1>0, <1>2, <1>3, <1>5
      <3>4. h.previous[s[m]] = IF m = 1 THEN s[n] ELSE s[m - 1]
        BY <3>1, <1>1 DEF Ring
      <3>5. m = IF i < k THEN i ELSE i + 1
        OBVIOUS
      <3>6. t[n - 1] = (IF k = n THEN s[n - 1] ELSE s[n]) /\ n # 1
        BY <1>0, <1>2
      <3>7. i # 1 => t[i - 1] = IF i - 1 < k THEN s[i - 1] ELSE s[i]
        <4>1. i # 1 => i - 1 \in 1 .. n - 1 /\ (i - 1) + 1 = i
          BY <1>0
        <4> QED
          BY <4>1
      <3> HIDE DEF t, m
      <3>8. CASE s[m] = nx
        <4>1. g.previous[t[i]] = pv
          BY <3>1, <3>2, <3>8
        <4>2. CASE k = n
          <5>1. i = 1 /\ pv = s[n - 1]
            BY <4>2, <3>3, <3>5, <3>6, <3>8, <1>0, <1>3
          <5> QED
            BY <4>1, <4>2, <5>1, <3>6
        <4>3. CASE k # n /\ k = 1
          <5>1. i = 1 /\ pv = s[n]
            BY <4>3, <3>3, <3>5, <3>8, <1>0, <1>3
          <5> QED
            BY <4>1, <4>3, <5>1, <3>6
        <4>4. CASE k # n /\ k # 1
          <5>1. i = k /\ pv = s[k - 1]
            BY <4>4, <3>3, <3>5, <3>8, <1>0, <1>2, <1>3
          <5>2. i # 1 /\ t[i - 1] = s[k - 1]
            BY <4>4, <5>1, <3>7, <1>0, <1>2
          <5> QED
            BY <4>1, <5>1, <5>2
        <4> QED
          BY <4>2, <4>3, <4>4
      <3>9. CASE s[m] # nx
        <4>1. g.previous[t[i]] = h.previous[s[m]]
          BY <3>1, <3>2, <3>9
        <4>2. CASE m = 1
          <5>1. i = 1 /\ k # n
            BY <4>2, <3>1, <3>3, <3>5, <3>9, <1>0, <1>2
          <5> QED
            BY <4>1, <4>2, <5>1, <3>4, <3>6
        <4>3. CASE m # 1
          <5>1. i # 1 /\ t[i - 1] = s[m - 1]
            BY <4>3, <3>1, <3>3, <3>5, <3>7, <3>9, <1>0, <1>2
          <5> QED
            BY <4>1, <4>3, <5>1, <3>4
        <4> QED
          BY <4>2, <4>3
      <3> QED
        BY <3>8, <3>9
    <2>7. \A i \in 1 .. n - 1 : prio[t[i]] = p
      BY <1>0, <1>1, <1>2 DEF Ring
    <2>8. \A i, m \in 1 .. n - 1 : t[i] = t[m] => i = m
      BY <1>0, <1>2, <1>5
    <2>9. ASSUME NEW x \in Job, Linked(g, x), prio[x] = p
          PROVE  \E i \in 1 .. n - 1 : t[i] = x
      <3>1. Linked(h, x) /\ x # j
        BY <2>9, <1>10
      <3>2. PICK m \in 1 .. n : s[m] = x
        BY <3>1, <2>9, <1>1 DEF Ring
      <3>3. m # k
        BY <3>1, <3>2, <1>2
      <3>4. CASE m < k
        BY <3>2, <3>4, <1>0, <1>2
      <3>5. CASE m > k
        <4>1. m - 1 \in 1 .. n - 1 /\ t[m - 1] = s[m]
          BY <3>5, <1>0, <1>2
        <4> QED
          BY <4>1, <3>2
      <3> QED
        BY <3>3, <3>4, <3>5, <1>0
    <2> HIDE DEF t
    <2>10. Ring(g, prio, p, t)
      BY <2>1, <2>3, <2>5, <2>6, <2>7, <2>8, <2>9 DEF Ring
    <2> QED
      BY <2>1, <2>2, <2>10 DEF t, Shorter
  <1>14. OneRing(g, prio)
    <2>1. \A q \in Priority : /\ g.count[q] \in Nat
                              /\ \E t \in [1 .. g.count[q] -> Job] : Ring(g, prio, q, t)
      BY <1>12, <1>13
    <2> QED
      BY <1>10, <1>11, <2>1 DEF OneRing
  <1>15. OthersKept(h, prio, g, prio, p)
    BY <1>12 DEF OthersKept
  <1> QED
    BY <1>0, <1>1, <1>2, <1>8, <1>10, <1>13, <1>14, <1>15 DEF g, p

-----------------------------------------------------------------------------
(* The rings as sequences *)

(* From the head along next, count times, is the ring, and only that. *)
LEMMA WalkIsRing ==
    ASSUME NEW h, NEW prio, NEW p, h.count[p] \in Nat,
           NEW s \in [1 .. h.count[p] -> Job], Ring(h, prio, p, s)
    PROVE  Walk(h, p) = s
  <1> DEFINE n == h.count[p]
             Along(f) == [i \in 1 .. n |-> IF i = 1 THEN h.head[p] ELSE h.next[f[i - 1]]]
  <1>1. s = Along(s)
    <2>1. ASSUME NEW i \in 1 .. n
          PROVE  s[i] = IF i = 1 THEN h.head[p] ELSE h.next[s[i - 1]]
      <3>1. CASE i = 1
        BY <3>1 DEF Ring
      <3>2. CASE i # 1
        <4>1. i - 1 \in 1 .. n /\ i - 1 # n /\ (i - 1) + 1 = i
          BY <3>2
        <4> QED
          BY <3>2, <4>1 DEF Ring
      <3> QED
        BY <3>1, <3>2
    <2> QED
      BY <2>1
  <1>2. ASSUME NEW f, f = Along(f)
        PROVE  f = s
    <2> DEFINE differ == {i \in 1 .. n : f[i] # s[i]}
    <2>1. CASE differ = {}
      <3>1. \A i \in 1 .. n : f[i] = s[i]
        BY <2>1
      <3>2. f = [i \in 1 .. n |-> f[i]] /\ s = [i \in 1 .. n |-> s[i]]
        BY <1>2
      <3> QED
        BY <3>1, <3>2, Zenon
    <2>2. CASE differ # {}
      <3>1. differ \in SUBSET Nat
        OBVIOUS
      <3>2. PICK i \in differ : \A k \in differ : i <= k
        BY <2>2, <3>1, LeastNat
      <3>3. i \in 1 .. n /\ f[i] # s[i]
        BY <3>2
      <3>4. /\ f[i] = IF i = 1 THEN h.head[p] ELSE h.next[f[i - 1]]
            /\ s[i] = IF i = 1 THEN h.head[p] ELSE h.next[s[i - 1]]
        BY <1>1, <1>2, <3>3
      <3>5. i # 1 => f[i - 1] = s[i - 1]
        BY <3>2, <3>3
      <3> QED
        BY <3>3, <3>4, <3>5
    <2> QED
      BY <2>1, <2>2
  <1>3. Walk(h, p) = CHOOSE f : f = Along(f)
    BY DEF Walk
  <1> QED
    BY <1>1, <1>2, <1>3

-----------------------------------------------------------------------------
(* The specification *)

IInv == TypeOK /\ RingInv

(* The empty heap is five empty rings. *)
LEMMA InitRings == Init => IInv
  <1> SUFFICES ASSUME Init PROVE IInv
    OBVIOUS
  <1>1. TypeOK
    BY DEF Init, TypeOK, Heap, Link
  <1>2. ASSUME NEW p \in Priority
        PROVE  /\ heap.count[p] \in Nat
               /\ \E s \in [1 .. heap.count[p] -> Job] : Ring(heap, priority, p, s)
    <2>1. heap.count[p] = 0 /\ heap.head[p] = NULL
      BY DEF Init
    <2> DEFINE s == [i \in 1 .. 0 |-> CHOOSE j \in Job : TRUE]
    <2>2. s \in [1 .. heap.count[p] -> Job]
      BY <2>1
    <2>3. Ring(heap, priority, p, s)
      BY <2>1 DEF Ring, Init, Linked
    <2>4. heap.count[p] \in Nat
      BY <2>1
    <2> HIDE DEF s
    <2> QED
      BY <2>2, <2>3, <2>4, Zenon
  <1>3. \A j \in Job : ~Linked(heap, j) /\ heap.previous[j] = NULL
    BY DEF Init, Linked
  <1>4. Rings
    BY <1>2, <1>3 DEF Rings, OneRing
  <1>5. PrevKnown
    BY DEF Init, PrevKnown
  <1> QED
    BY <1>1, <1>4, <1>5 DEF IInv, RingInv

(* A job that moves: removal from its list, then a push on another. *)
LEMMA MoveRing ==
    ASSUME IInv, NEW j \in Job, Linked(heap, j), NEW p \in Priority
    PROVE  LET g == ListPush(ListRemove(heap, priority[j], j), p, j)
           IN  g \in Heap /\ OneRing(g, [priority EXCEPT ![j] = p])
  <1> DEFINE h == ListRemove(heap, priority[j], j)
  <1>1. heap \in Heap /\ priority \in Prio /\ OneRing(heap, priority)
    BY DEF IInv, RingInv, TypeOK, Rings, Prio
  <1>2. h \in Heap /\ OneRing(h, priority) /\ ~Linked(h, j)
    BY <1>1, RemoveRing
  <1> HIDE DEF h
  <1>3. ListPush(h, p, j) \in Heap /\ OneRing(ListPush(h, p, j), [priority EXCEPT ![j] = p])
    BY <1>1, <1>2, PushRing
  <1> QED
    BY <1>3 DEF h

(* Every call of the scheduler keeps the rings. *)
LEMMA NextRings == IInv /\ [Next]_vars => IInv'
  <1> SUFFICES ASSUME IInv, [Next]_vars PROVE IInv'
    OBVIOUS
  <1>1. /\ heap \in Heap /\ priority \in Prio /\ OneRing(heap, priority)
        /\ prevPriority \in [Job -> {-1} \cup RunLevels]
        /\ PrevKnown
    BY DEF IInv, RingInv, TypeOK, Rings, Prio
  <1>2. BLOCKED \in Priority /\ RunLevels = Priority \ {BLOCKED} /\ -1 \notin Priority
    BY DEF BLOCKED, ROOT, LOW, Priority, RunLevels
  <1>3. ASSUME NEW j \in Job, NEW p \in Priority, NEW prev \in RunLevels,
               Schedule(j, p, prev)
        PROVE  IInv'
    <2>1. ~Linked(heap, j)
      BY <1>3 DEF Schedule, Linked
    <2>2. heap' \in Heap /\ OneRing(heap', priority')
      BY <1>1, <1>3, <2>1, PushRing DEF Schedule
    <2>3. /\ priority' \in [Job -> {-1} \cup Priority]
          /\ prevPriority' \in [Job -> {-1} \cup RunLevels]
      BY <1>1, <1>3 DEF Schedule, Prio
    <2>4. PrevKnown'
      BY <1>1, <1>3 DEF Schedule, Prio, PrevKnown
    <2> QED
      BY <2>2, <2>3, <2>4 DEF IInv, RingInv, TypeOK, Rings
  <1>4. ASSUME NEW j \in Job, UnscheduleJob(j)
        PROVE  IInv'
    <2>1. heap' \in Heap /\ OneRing(heap', priority')
      BY <1>1, <1>4, RemoveRing DEF UnscheduleJob
    <2> QED
      BY <1>4, <1>1, <2>1 DEF UnscheduleJob, IInv, RingInv, TypeOK, Rings, Prio, PrevKnown
  <1>5. ASSUME NEW j \in Job, BlockJob(j)
        PROVE  IInv'
    <2>1. heap' \in Heap /\ OneRing(heap', priority')
      BY <1>2, <1>5, MoveRing DEF BlockJob
    <2>2. priority[j] \in RunLevels
      BY <1>1, <1>2, <1>5 DEF BlockJob, OneRing
    <2>3. /\ priority' \in [Job -> {-1} \cup Priority]
          /\ prevPriority' \in [Job -> {-1} \cup RunLevels]
      BY <1>1, <1>2, <1>5, <2>2 DEF BlockJob, Prio
    <2>4. PrevKnown'
      BY <1>1, <1>5, <2>2 DEF BlockJob, Prio, PrevKnown
    <2> QED
      BY <2>1, <2>3, <2>4 DEF IInv, RingInv, TypeOK, Rings
  <1>6. ASSUME NEW j \in Job, ReadyJob(j)
        PROVE  IInv'
    <2>1. prevPriority[j] \in RunLevels
      BY <1>1, <1>2, <1>6 DEF ReadyJob, PrevKnown
    <2>2. heap' \in Heap /\ OneRing(heap', priority')
      BY <1>2, <1>6, <2>1, MoveRing DEF ReadyJob
    <2>3. priority' \in [Job -> {-1} \cup Priority]
      BY <1>1, <1>2, <1>6, <2>1 DEF ReadyJob, Prio
    <2>4. PrevKnown'
      BY <1>1, <1>6, <2>1 DEF ReadyJob, Prio, PrevKnown
    <2> QED
      BY <1>1, <1>6, <2>2, <2>3, <2>4 DEF ReadyJob, IInv, RingInv, TypeOK, Rings
  <1>7. CASE UNCHANGED vars
    BY <1>7 DEF vars, IInv, RingInv, TypeOK, Rings, OneRing, Ring, Linked, PrevKnown
  <1> QED
    BY <1>3, <1>4, <1>5, <1>6, <1>7 DEF Next

(* Types, for any finite set of jobs and any sequence of legal calls.        *)
THEOREM TypeCorrect == Spec => []TypeOK
  <1>1. IInv => TypeOK
    BY DEF IInv
  <1> QED
    BY InitRings, NextRings, <1>1, PTL DEF Spec

(* Every list stays one ring of exactly the jobs whose priority names it.    *)
THEOREM RingsStay == Spec => []RingInv
  <1>1. IInv => RingInv
    BY DEF IInv
  <1> QED
    BY InitRings, NextRings, <1>1, PTL DEF Spec

-----------------------------------------------------------------------------
(* Consequences of the rings *)

(* The job at a position of a ring is a linked job of that list. *)
LEMMA RingMembers ==
    ASSUME NEW p \in Priority, heap.count[p] \in Nat,
           NEW s \in [1 .. heap.count[p] -> Job], Ring(heap, priority, p, s)
    PROVE  MembersOf(p) = {s[i] : i \in 1 .. heap.count[p]}
  <1>1. ASSUME NEW i \in 1 .. heap.count[p]
        PROVE  s[i] \in MembersOf(p)
    <2>1. heap.next[s[i]] \in Job
      BY DEF Ring
    <2>2. priority[s[i]] = p
      BY DEF Ring
    <2> QED
      BY <2>1, <2>2, DListAssumption DEF MembersOf, Linked
  <1>2. ASSUME NEW j \in MembersOf(p)
        PROVE  \E i \in 1 .. heap.count[p] : s[i] = j
    BY DEF Ring, MembersOf
  <1> QED
    BY <1>1, <1>2

(* Along a ring next and previous are inverse and stay in the list. *)
LEMMA RingsLinks == IInv => LinksInverse
  <1> SUFFICES ASSUME IInv PROVE LinksInverse
    OBVIOUS
  <1>1. ASSUME NEW j \in Job, Linked(heap, j)
        PROVE  LET n == heap.next[j]
                   b == heap.previous[j]
               IN  /\ n \in Job /\ b \in Job
                   /\ heap.previous[n] = j /\ heap.next[b] = j
                   /\ priority[n] = priority[j] /\ priority[j] \in Priority
    <2> DEFINE p == priority[j]
               n == heap.count[p]
    <2>1. p \in Priority /\ n \in Nat
      BY <1>1 DEF IInv, RingInv, Rings, OneRing
    <2>2. PICK s \in [1 .. n -> Job] : Ring(heap, priority, p, s)
      BY <2>1 DEF IInv, RingInv, Rings, OneRing
    <2>3. PICK k \in 1 .. n : s[k] = j
      BY <1>1, <2>2 DEF Ring
    <2> HIDE DEF p
    <2>4. /\ heap.next[j] = IF k = n THEN s[1] ELSE s[k + 1]
          /\ heap.previous[j] = IF k = 1 THEN s[n] ELSE s[k - 1]
      BY <2>2, <2>3 DEF Ring
    <2>5. heap.next[j] \in Job /\ heap.previous[j] \in Job
      BY <2>1, <2>3, <2>4
    <2>6. heap.previous[heap.next[j]] = j
      BY <2>1, <2>2, <2>3, <2>4 DEF Ring
    <2>7. heap.next[heap.previous[j]] = j
      BY <2>1, <2>2, <2>3, <2>4 DEF Ring
    <2>8. priority[heap.next[j]] = p
      BY <2>1, <2>2, <2>3, <2>4 DEF Ring
    <2> QED
      BY <2>1, <2>5, <2>6, <2>7, <2>8 DEF p
  <1>2. ASSUME NEW p \in Priority
        PROVE  IF heap.head[p] = NULL THEN MembersOf(p) = {} ELSE heap.head[p] \in MembersOf(p)
    <2>1. heap.count[p] \in Nat
      BY DEF IInv, RingInv, Rings, OneRing
    <2>2. PICK s \in [1 .. heap.count[p] -> Job] : Ring(heap, priority, p, s)
      BY DEF IInv, RingInv, Rings, OneRing
    <2>3. MembersOf(p) = {s[i] : i \in 1 .. heap.count[p]}
      BY <2>1, <2>2, RingMembers
    <2>4. heap.head[p] = IF heap.count[p] = 0 THEN NULL ELSE s[1]
      BY <2>2 DEF Ring
    <2>5. CASE heap.count[p] = 0
      BY <2>3, <2>4, <2>5
    <2>6. CASE heap.count[p] # 0
      BY <2>1, <2>3, <2>4, <2>6, DListAssumption
    <2> QED
      BY <2>5, <2>6
  <1> QED
    BY <1>1, <1>2 DEF LinksInverse

(* Links are mutually inverse and never lead out of their list.              *)
THEOREM LinksStayInverse == Spec => []LinksInverse
  BY InitRings, NextRings, RingsLinks, PTL DEF Spec

(* The ring of a list lists its members once each. *)
LEMMA RingsCounts == IInv => CountsExact
  <1> SUFFICES ASSUME IInv, NEW p \in Priority
               PROVE  heap.count[p] = Cardinality(MembersOf(p))
    BY DEF CountsExact
  <1> DEFINE n == heap.count[p]
  <1>1. n \in Nat
    BY DEF IInv, RingInv, Rings, OneRing
  <1>2. PICK s \in [1 .. n -> Job] : Ring(heap, priority, p, s)
    BY DEF IInv, RingInv, Rings, OneRing
  <1>3. MembersOf(p) = {s[i] : i \in 1 .. n}
    BY <1>1, <1>2, RingMembers
  <1>4. s \in Bijection(1 .. n, MembersOf(p))
    <2>1. \A i, k \in 1 .. n : s[i] = s[k] => i = k
      BY <1>2 DEF Ring
    <2> QED
      BY <1>3, <2>1 DEF Bijection, Injection, Surjection, IsInjective
  <1>5. ExistsBijection(1 .. n, MembersOf(p))
    BY <1>4 DEF ExistsBijection
  <1> QED
    BY <1>1, <1>5, FS_CountingElements

(* The length the scheduler takes for its walk is the number of jobs on the  *)
(* list: the walk misses none and runs none twice.                           *)
THEOREM CountsStayExact == Spec => []CountsExact
  BY InitRings, NextRings, RingsCounts, PTL DEF Spec

(* What Remove's assertions test holds of every job on a ring. *)
LEMMA RingsAsserts == IInv => AssertsHold
  <1> SUFFICES ASSUME IInv PROVE AssertsHold
    OBVIOUS
  <1>1. ASSUME NEW j \in Job, Linked(heap, j)
        PROVE  /\ heap.count[priority[j]] > 0
               /\ heap.previous[j] # NULL
               /\ heap.next[j] = j => heap.count[priority[j]] = 1
    <2> DEFINE p == priority[j]
               n == heap.count[p]
    <2>1. p \in Priority /\ n \in Nat /\ heap.previous[j] # NULL
      BY <1>1 DEF IInv, RingInv, Rings, OneRing
    <2>2. PICK s \in [1 .. n -> Job] : Ring(heap, priority, p, s)
      BY <2>1 DEF IInv, RingInv, Rings, OneRing
    <2>3. PICK k \in 1 .. n : s[k] = j
      BY <1>1, <2>2 DEF Ring
    <2>4. heap.next[j] = IF k = n THEN s[1] ELSE s[k + 1]
      BY <2>2, <2>3 DEF Ring
    <2>5. \A i, m \in 1 .. n : s[i] = s[m] => i = m
      BY <2>2 DEF Ring
    <2> HIDE DEF p
    <2>6. heap.next[j] = j => n = 1
      BY <2>1, <2>3, <2>4, <2>5
    <2> QED
      BY <2>1, <2>3, <2>6 DEF p
  <1>2. ASSUME NEW p \in Priority, heap.head[p] = NULL
        PROVE  heap.count[p] = 0
    <2>1. PICK s \in [1 .. heap.count[p] -> Job] : Ring(heap, priority, p, s)
      BY DEF IInv, RingInv, Rings, OneRing
    <2>2. heap.count[p] \in Nat
      BY DEF IInv, RingInv, Rings, OneRing
    <2> QED
      BY <1>2, <2>1, <2>2, DListAssumption DEF Ring
  <1> QED
    BY <1>1, <1>2 DEF AssertsHold

(* No legal sequence of calls trips an assertion of dlist.cc.                *)
THEOREM AssertsAlwaysHold == Spec => []AssertsHold
  BY InitRings, NextRings, RingsAsserts, PTL DEF Spec

-----------------------------------------------------------------------------
(* The pointers implement the sequences of JobLists *)

(* The lists as sequences: no job twice, and each on the list its priority  *)
(* names.                                                                   *)
LEMMA ListMembers ==
    ASSUME NEW h \in Heap, NEW prio \in Prio, OneRing(h, prio)
    PROVE  /\ Lists(h) \in Queues(Job)
           /\ \A j \in Job, p \in Priority :
                 j \in Range(Lists(h)[p]) <=> Linked(h, j) /\ prio[j] = p
  <1>1. ASSUME NEW p \in Priority
        PROVE  /\ Walk(h, p) \in Seq(Job) /\ Once(Walk(h, p))
               /\ \A j \in Job : j \in Range(Walk(h, p)) <=> Linked(h, j) /\ prio[j] = p
    <2>1. h.count[p] \in Nat
      BY DEF OneRing
    <2>2. PICK s \in [1 .. h.count[p] -> Job] : Ring(h, prio, p, s)
      BY DEF OneRing
    <2>3. Walk(h, p) = s
      BY <2>1, <2>2, WalkIsRing
    <2>4. s \in Seq(Job) /\ DOMAIN s = 1 .. h.count[p]
      BY <2>1
    <2>5. Once(s)
      BY <2>2, <2>4 DEF Ring, Once
    <2>6. ASSUME NEW j \in Job
          PROVE  j \in Range(s) <=> Linked(h, j) /\ prio[j] = p
      <3>1. ASSUME NEW i \in 1 .. h.count[p], s[i] = j
            PROVE  Linked(h, j) /\ prio[j] = p
        <4>1. h.next[j] \in Job
          BY <2>1, <2>2, <3>1 DEF Ring
        <4> QED
          BY <2>2, <3>1, <4>1, DListAssumption DEF Ring, Linked
      <3>2. Linked(h, j) /\ prio[j] = p => \E i \in 1 .. h.count[p] : s[i] = j
        BY <2>2 DEF Ring
      <3> QED
        BY <2>4, <3>1, <3>2 DEF Range
    <2> QED
      BY <2>3, <2>4, <2>5, <2>6
  <1>2. Lists(h) \in [Priority -> Seq(Job)] /\ \A p \in Priority : Lists(h)[p] = Walk(h, p)
    BY <1>1 DEF Lists
  <1>3. \A p, q \in Priority : p # q => Range(Lists(h)[p]) \cap Range(Lists(h)[q]) = {}
    <2> SUFFICES ASSUME NEW p \in Priority, NEW q \in Priority, p # q,
                        NEW j \in Range(Lists(h)[p]), j \in Range(Lists(h)[q])
                 PROVE  FALSE
      OBVIOUS
    <2>1. Lists(h)[p] \in Seq(Job)
      BY <1>2
    <2>2. j \in Job
      BY <2>1, RangeOfSeq
    <2> QED
      BY <1>1, <1>2, <2>2
  <1>4. Disjoint(Lists(h))
    BY <1>1, <1>2, <1>3, DisjointLists
  <1> QED
    BY <1>1, <1>2, <1>4 DEF Queues

(* DList::Push appends. *)
LEMMA ListPushed ==
    ASSUME NEW h \in Heap, NEW prio \in Prio, OneRing(h, prio),
           NEW p \in Priority, NEW j \in Job, ~Linked(h, j)
    PROVE  Lists(ListPush(h, p, j)) = Push(Lists(h), p, j)
  <1> DEFINE g == ListPush(h, p, j)
             new == [prio EXCEPT ![j] = p]
             n == h.count[p]
  <1>1. /\ OthersKept(h, prio, g, new, p)
        /\ g.count[p] = n + 1
        /\ \E s \in [1 .. n -> Job] : Ring(h, prio, p, s) /\ Ring(g, new, p, Longer(s, n, j))
    BY PushRing
  <1> HIDE DEF g, new
  <1>2. \A q \in Priority : h.count[q] \in Nat
    BY DEF OneRing
  <1>3. ASSUME NEW q \in Priority, q # p
        PROVE  Walk(g, q) = Walk(h, q)
    <2>1. g.count[q] = h.count[q]
      BY <1>1, <1>3 DEF OthersKept
    <2>2. PICK t \in [1 .. h.count[q] -> Job] : Ring(h, prio, q, t) /\ Ring(g, new, q, t)
      BY <1>1, <1>3 DEF OthersKept
    <2>3. Walk(h, q) = t
      BY <1>2, <2>2, WalkIsRing
    <2>4. Walk(g, q) = t
      BY <1>2, <2>1, <2>2, WalkIsRing
    <2> QED
      BY <2>3, <2>4
  <1>4. Walk(g, p) = Append(Walk(h, p), j)
    <2>1. PICK s \in [1 .. n -> Job] : Ring(h, prio, p, s) /\ Ring(g, new, p, Longer(s, n, j))
      BY <1>1
    <2>2. n \in Nat
      BY <1>2
    <2>3. Longer(s, n, j) \in [1 .. n + 1 -> Job]
      BY <2>2 DEF Longer
    <2>4. Walk(h, p) = s
      BY <2>1, <2>2, WalkIsRing
    <2>5. Walk(g, p) = Longer(s, n, j)
      BY <1>1, <2>1, <2>2, <2>3, WalkIsRing
    <2>6. s \in Seq(Job) /\ Len(s) = n
      BY <2>2
    <2>7. Append(s, j) = Longer(s, n, j)
      <3>1. /\ Append(s, j) \in Seq(Job) /\ Len(Append(s, j)) = n + 1
            /\ \A i \in 1 .. n : Append(s, j)[i] = s[i]
            /\ Append(s, j)[n + 1] = j
        BY <2>6, AppendProperties
      <3>2. Append(s, j) = [i \in 1 .. n + 1 |-> Append(s, j)[i]]
        BY <3>1, LenProperties
      <3>3. \A i \in 1 .. n + 1 : Append(s, j)[i] = IF i = n + 1 THEN j ELSE s[i]
        BY <2>2, <3>1
      <3> QED
        BY <3>2, <3>3, Zenon DEF Longer
    <2> QED
      BY <2>4, <2>5, <2>7
  <1>5. Lists(h) = [q \in Priority |-> Walk(h, q)] /\ Lists(g) = [q \in Priority |-> Walk(g, q)]
    BY DEF Lists
  <1>6. Lists(g) = [Lists(h) EXCEPT ![p] = Append(@, j)]
    BY <1>3, <1>4, <1>5
  <1> QED
    BY <1>6 DEF g, Push

(* DList::Remove takes the job out, and the others keep their order. *)
LEMMA ListRemoved ==
    ASSUME NEW h \in Heap, NEW prio \in Prio, OneRing(h, prio),
           NEW j \in Job, Linked(h, j)
    PROVE  Lists(ListRemove(h, prio[j], j)) = Remove1(Lists(h), prio[j], j)
  <1> DEFINE p == prio[j]
             g == ListRemove(h, p, j)
             n == h.count[p]
  <1>1. /\ p \in Priority
        /\ OthersKept(h, prio, g, prio, p)
        /\ g.count[p] = n - 1
        /\ \E s \in [1 .. n -> Job], k \in 1 .. n :
              Ring(h, prio, p, s) /\ s[k] = j /\ Ring(g, prio, p, Shorter(s, n, k))
    BY RemoveRing
  <1> HIDE DEF g, p
  <1>2. \A q \in Priority : h.count[q] \in Nat
    BY DEF OneRing
  <1>3. ASSUME NEW q \in Priority, q # p
        PROVE  Walk(g, q) = Walk(h, q)
    <2>1. g.count[q] = h.count[q]
      BY <1>1, <1>3 DEF OthersKept
    <2>2. PICK t \in [1 .. h.count[q] -> Job] : Ring(h, prio, q, t) /\ Ring(g, prio, q, t)
      BY <1>1, <1>3 DEF OthersKept
    <2>3. Walk(h, q) = t
      BY <1>2, <2>2, WalkIsRing
    <2>4. Walk(g, q) = t
      BY <1>2, <2>1, <2>2, WalkIsRing
    <2> QED
      BY <2>3, <2>4
  <1>4. Walk(g, p) = RemoveFirst(Walk(h, p), j)
    <2>1. PICK s \in [1 .. n -> Job], k \in 1 .. n :
             Ring(h, prio, p, s) /\ s[k] = j /\ Ring(g, prio, p, Shorter(s, n, k))
      BY <1>1
    <2>2. n \in Nat /\ n - 1 \in Nat
      BY <1>1, <1>2
    <2>3. Shorter(s, n, k) \in [1 .. n - 1 -> Job]
      BY <2>2 DEF Shorter
    <2>4. Walk(h, p) = s
      BY <2>1, <2>2, WalkIsRing
    <2>5. Walk(g, p) = Shorter(s, n, k)
      BY <1>1, <2>1, <2>2, <2>3, WalkIsRing
    <2>6. s \in Seq(Job) /\ Len(s) = n /\ Once(s)
      <3>1. s \in Seq(Job) /\ Len(s) = n /\ DOMAIN s = 1 .. n
        BY <2>2
      <3> QED
        BY <2>1, <3>1 DEF Ring, Once
    <2> DEFINE t == RemoveFirst(s, j)
    <2>7. /\ t \in Seq(Job)
          /\ Len(t) = n - 1
          /\ \A i \in 1 .. n - 1 : t[i] = IF i < k THEN s[i] ELSE s[i + 1]
      <3>1. k \in 1 .. Len(s) /\ j = s[k]
        BY <2>1, <2>6
      <3>2. /\ t \in Seq(Job)
            /\ Len(t) = Len(s) - 1
            /\ \A i \in 1 .. Len(s) - 1 : t[i] = IF i < k THEN s[i] ELSE s[i + 1]
        <4>1. t = RemoveFirst(s, j)
          OBVIOUS
        <4> HIDE DEF t
        <4> QED
          BY <2>6, <3>1, <4>1, Removal, SMTT(20)
      <3> QED
        BY <2>6, <3>2
    <2> HIDE DEF t
    <2>8. t = Shorter(s, n, k)
      BY <2>2, <2>7 DEF Shorter
    <2> QED
      BY <2>4, <2>5, <2>8 DEF t
  <1>5. Lists(h) = [q \in Priority |-> Walk(h, q)] /\ Lists(g) = [q \in Priority |-> Walk(g, q)]
    BY DEF Lists
  <1>6. Lists(g) = [Lists(h) EXCEPT ![p] = RemoveFirst(@, j)]
    BY <1>3, <1>4, <1>5
  <1> QED
    BY <1>6 DEF g, p, Remove1

(* What the calls on one job do to the sequences. *)
LEMMA ListMoved ==
    ASSUME IInv, NEW j \in Job, Linked(heap, j)
    PROVE  /\ Scheduled(Lists(heap), j)
           /\ PriorityOf(Lists(heap), j) = priority[j]
           /\ IsBlocked(Lists(heap), j) <=> priority[j] = BLOCKED
           /\ Lists(ListRemove(heap, priority[j], j)) = Remove1(Lists(heap), priority[j], j)
           /\ \A p \in Priority :
                 Lists(ListPush(ListRemove(heap, priority[j], j), p, j)) =
                 Push(Remove1(Lists(heap), priority[j], j), p, j)
  <1> DEFINE h == ListRemove(heap, priority[j], j)
  <1>1. heap \in Heap /\ priority \in Prio /\ OneRing(heap, priority)
    BY DEF IInv, RingInv, TypeOK, Rings, Prio
  <1>2. priority[j] \in Priority /\ h \in Heap /\ OneRing(h, priority) /\ ~Linked(h, j)
    BY <1>1, RemoveRing
  <1>3. Lists(heap) \in Queues(Job) /\ j \in Range(Lists(heap)[priority[j]])
    BY <1>1, <1>2, ListMembers
  <1>4. /\ Scheduled(Lists(heap), j)
        /\ PriorityOf(Lists(heap), j) = priority[j]
        /\ IsBlocked(Lists(heap), j) <=> priority[j] = BLOCKED
    BY <1>2, <1>3, OneList
  <1>5. Lists(h) = Remove1(Lists(heap), priority[j], j)
    BY <1>1, ListRemoved
  <1> HIDE DEF h
  <1>6. ASSUME NEW p \in Priority
        PROVE  Lists(ListPush(h, p, j)) = Push(Remove1(Lists(heap), priority[j], j), p, j)
    BY <1>1, <1>2, <1>5, ListPushed
  <1> QED
    BY <1>4, <1>5, <1>6 DEF h

(* JobLists reads the operators of JobQueue as this module does. *)
LEMMA SameOperators ==
    /\ Abstract!Priority = Priority /\ Abstract!RunLevels = RunLevels
    /\ Abstract!BLOCKED = BLOCKED /\ Abstract!NoJobs = NoJobs
    /\ \A q, j : Abstract!Scheduled(q, j) <=> Scheduled(q, j)
    /\ \A q, p, j : Abstract!Push(q, p, j) = Push(q, p, j)
    /\ \A q, j : Abstract!Unschedule(q, j) = Unschedule(q, j)
    /\ \A q, j : Abstract!Block(q, j) = Block(q, j)
    /\ \A q, j, p : Abstract!Ready(q, j, p) = Ready(q, j, p)
  <1>1. Abstract!Priority = Priority /\ Abstract!RunLevels = RunLevels /\ Abstract!BLOCKED = BLOCKED
    BY DEF Abstract!Priority, Abstract!RunLevels, Abstract!ROOT, Abstract!LOW, Abstract!BLOCKED,
           Priority, RunLevels, ROOT, LOW, BLOCKED
  <1>2. Abstract!NoJobs = NoJobs
    BY <1>1 DEF Abstract!NoJobs, NoJobs
  <1>3. \A q, j : /\ Abstract!Scheduled(q, j) <=> Scheduled(q, j)
                  /\ Abstract!IsBlocked(q, j) <=> IsBlocked(q, j)
                  /\ Abstract!PriorityOf(q, j) = PriorityOf(q, j)
    BY <1>1 DEF Abstract!Scheduled, Abstract!IsBlocked, Abstract!PriorityOf, Abstract!Range,
                Scheduled, IsBlocked, PriorityOf, Range
  <1>4. \A q, p, j : Abstract!Push(q, p, j) = Push(q, p, j)
    BY DEF Abstract!Push, Push
  <1>5. \A s, j : Abstract!RemoveFirst(s, j) = RemoveFirst(s, j)
    BY DEF Abstract!RemoveFirst, Abstract!RemoveAt, Abstract!SelectInSeq, Abstract!Min,
           RemoveFirst, RemoveAt, SelectInSeq, Min
  <1>6. \A q, p, j : Abstract!Remove1(q, p, j) = Remove1(q, p, j)
    BY <1>5 DEF Abstract!Remove1, Remove1
  <1>7. \A q, j : Abstract!Unschedule(q, j) = Unschedule(q, j)
    BY <1>3, <1>6 DEF Abstract!Unschedule, Unschedule
  <1>8. \A q, j : Abstract!Block(q, j) = Block(q, j)
    BY <1>1, <1>3, <1>4, <1>6 DEF Abstract!Block, Block
  <1>9. \A q, j, p : Abstract!Ready(q, j, p) = Ready(q, j, p)
    BY <1>1, <1>3, <1>4, <1>6 DEF Abstract!Ready, Ready
  <1> QED
    BY <1>1, <1>2, <1>3, <1>4, <1>7, <1>8, <1>9

(* The empty heap is five empty sequences. *)
LEMMA ListsStart == Init => Abstract!JobListsInit
  <1> SUFFICES ASSUME Init PROVE Abstract!JobListsInit
    OBVIOUS
  <1>1. IInv
    BY InitRings
  <1>2. heap \in Heap /\ priority \in Prio /\ OneRing(heap, priority)
    BY <1>1 DEF IInv, RingInv, TypeOK, Rings, Prio
  <1>3. \A j \in Job : ~Linked(heap, j)
    BY DEF Init, Linked
  <1>4. ASSUME NEW p \in Priority PROVE Lists(heap)[p] = <<>>
    <2>1. Lists(heap)[p] \in Seq(Job)
      BY <1>2, ListMembers DEF Queues
    <2>2. Range(Lists(heap)[p]) \in SUBSET Job
      BY <2>1, RangeOfSeq
    <2>3. Range(Lists(heap)[p]) = {}
      BY <1>2, <1>3, <2>2, ListMembers
    <2>4. DOMAIN Lists(heap)[p] = {}
      BY <2>3 DEF Range
    <2>5. 1 .. Len(Lists(heap)[p]) = {} /\ Len(Lists(heap)[p]) \in Nat
      BY <2>1, <2>4, LenProperties
    <2> DEFINE n == Len(Lists(heap)[p])
    <2> HIDE DEF n
    <2>6. n \notin Nat \ {0}
      <3>1. 1 .. n = {} /\ n \in Nat
        BY <2>5 DEF n
      <3>2. n > 0 => 1 \in 1 .. n
        BY <3>1
      <3> QED
        BY <3>1, <3>2
    <2> QED
      BY <2>1, <2>6, EmptySeq DEF n
  <1>5. Lists(heap) = NoJobs
    BY <1>4 DEF Lists, NoJobs
  <1> QED
    BY <1>5, SameOperators DEF Init, Abstract!JobListsInit

(* Every call on the pointers is the same call on the sequences. *)
LEMMA ListsStep == IInv /\ [Next]_vars => [Abstract!JobListsNext]_(Abstract!jobListsVars)
  <1> SUFFICES ASSUME IInv, [Next]_vars
               PROVE  Abstract!JobListsNext \/ UNCHANGED Abstract!jobListsVars
    OBVIOUS
  <1>0. Lists(heap)' = Lists(heap')
    BY DEF Lists, Walk
  <1>1. heap \in Heap /\ priority \in Prio /\ OneRing(heap, priority) /\ PrevKnown
    BY DEF IInv, RingInv, TypeOK, Rings, Prio
  <1>2. BLOCKED \in Priority /\ RunLevels = Priority \ {BLOCKED} /\ -1 \notin Priority
    BY DEF BLOCKED, ROOT, LOW, Priority, RunLevels
  <1>3. ASSUME NEW j \in Job, NEW p \in Priority, NEW prev \in RunLevels, Schedule(j, p, prev)
        PROVE  Abstract!JobListsNext
    <2>1. ~Linked(heap, j)
      BY <1>3 DEF Schedule, Linked
    <2>2. ~Scheduled(Lists(heap), j)
      BY <1>1, <2>1, ListMembers DEF Scheduled
    <2>3. Lists(heap') = Push(Lists(heap), p, j)
      BY <1>1, <1>3, <2>1, ListPushed DEF Schedule
    <2>4. Abstract!JobSchedule(j, p, prev)
      BY <1>3, <2>2, <2>3, <1>0, SameOperators DEF Schedule, Abstract!JobSchedule
    <2> QED
      BY <2>4, SameOperators DEF Abstract!JobListsNext
  <1>4. ASSUME NEW j \in Job, UnscheduleJob(j)
        PROVE  Abstract!JobListsNext
    <2>1. Lists(heap') = Unschedule(Lists(heap), j) /\ Scheduled(Lists(heap), j)
      BY <1>4, ListMoved DEF UnscheduleJob, Unschedule
    <2>2. Abstract!JobUnschedule(j)
      BY <1>4, <2>1, <1>0, SameOperators DEF UnscheduleJob, Abstract!JobUnschedule
    <2> QED
      BY <2>2, SameOperators DEF Abstract!JobListsNext
  <1>5. ASSUME NEW j \in Job, BlockJob(j)
        PROVE  Abstract!JobListsNext
    <2>1. Lists(heap') = Block(Lists(heap), j) /\ Scheduled(Lists(heap), j)
      BY <1>2, <1>5, ListMoved DEF BlockJob, Block
    <2>2. Abstract!JobBlock(j)
      BY <1>5, <2>1, <1>0, SameOperators DEF BlockJob, Abstract!JobBlock
    <2> QED
      BY <2>2, SameOperators DEF Abstract!JobListsNext
  <1>6. ASSUME NEW j \in Job, ReadyJob(j)
        PROVE  Abstract!JobListsNext
    <2>1. prevPriority[j] \in Priority
      BY <1>1, <1>2, <1>6 DEF ReadyJob, PrevKnown
    <2>2. Lists(heap') = Ready(Lists(heap), j, prevPriority[j]) /\ Scheduled(Lists(heap), j)
      BY <1>6, <2>1, ListMoved DEF ReadyJob, Ready
    <2>3. Abstract!JobReady(j)
      BY <1>6, <2>2, <1>0, SameOperators DEF ReadyJob, Abstract!JobReady
    <2> QED
      BY <2>3, SameOperators DEF Abstract!JobListsNext
  <1>7. CASE UNCHANGED vars
    BY <1>7 DEF vars, Abstract!jobListsVars
  <1> QED
    BY <1>3, <1>4, <1>5, <1>6, <1>7 DEF Next

(* For any finite set of jobs, what callers of class Job see of the pointers *)
(* is lists in first-come order, under any legal sequence of calls           *)
(* (dlist.cc:13-57, job.cc:187-236).                                         *)
THEOREM PointersImplementLists == Spec => ImplementsJobLists
  <1>1. Spec => []IInv
    BY InitRings, NextRings, PTL DEF Spec
  <1> QED
    BY <1>1, ListsStart, ListsStep, PTL DEF Spec, ImplementsJobLists, Abstract!JobListsSpec
=============================================================================
