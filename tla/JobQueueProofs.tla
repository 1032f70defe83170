--------------------------- MODULE JobQueueProofs ---------------------------
(***************************************************************************)
(* What the operators of JobQueue do to the run queues, for any jobs: who   *)
(* is on which list afterwards, and where the job after the one that runs   *)
(* ends up.  The proofs about the server rest on these lemmas and never     *)
(* look at the sequences themselves.                                        *)
(***************************************************************************)
EXTENDS JobQueue, SequenceTheorems, TLAPS

(* A list without repetitions. *)
Once(s) == \A i, k \in DOMAIN s : s[i] = s[k] => i = k

(* The lists over a set of jobs, no job twice. *)
Queues(J) == {q \in [Priority -> Seq(J)] : Disjoint(q)}

(* Who is on which list: `added` joins list p, `gone` leaves all lists. *)
Moved(q, r, p, added, gone) ==
    \A o \in Priority : Range(r[o]) = (Range(q[o]) \ gone) \cup (IF o = p THEN added ELSE {})

-----------------------------------------------------------------------------
(* One list *)

(* The job after the k-th one, found by the pointers' order. *)
LEMMA NextInList ==
    ASSUME NEW J, NEW s \in Seq(J), Once(s), NEW k \in 1 .. Len(s)
    PROVE  NextOf(s, s[k]) = IF k = Len(s) THEN s[1] ELSE s[k + 1]
  <1>1. {i \in 1 .. Len(s) : s[i] = s[k]} = {k}
    BY DEF Once
  <1>2. Min({k}) = k
    BY DEF Min
  <1> QED
    BY <1>1, <1>2 DEF SelectInSeq, NextOf

(* The list without its k-th element. *)
LEMMA Removal ==
    ASSUME NEW J, NEW s \in Seq(J), Once(s), NEW k \in 1 .. Len(s), NEW j, j = s[k],
           NEW t, t = RemoveFirst(s, j)
    PROVE  /\ t \in Seq(J)
           /\ Len(t) = Len(s) - 1
           /\ \A i \in 1 .. Len(s) - 1 : t[i] = IF i < k THEN s[i] ELSE s[i + 1]
  <1> DEFINE a == SubSeq(s, 1, k - 1)
             b == SubSeq(s, k + 1, Len(s))
  <1>1. Len(s) \in Nat /\ \A i \in 1 .. Len(s) : s[i] \in J
    BY ElementOfSeq
  <1>2. /\ a \in Seq(J) /\ Len(a) = k - 1
        /\ \A i \in 1 .. k - 1 : a[i] = s[i]
    <2>1. \A i \in 1 .. k - 1 : s[i] \in J
      BY <1>1
    <2> QED
      BY <1>1, <2>1, SubSeqProperties
  <1>3. /\ b \in Seq(J) /\ Len(b) = Len(s) - k
        /\ \A i \in 1 .. Len(s) - k : b[i] = s[k + i]
    <2>1. \A i \in k + 1 .. Len(s) : s[i] \in J
      BY <1>1
    <2> QED
      BY <1>1, <2>1, SubSeqProperties
  <1>4. t = a \o b
    <2>1. {i \in 1 .. Len(s) : s[i] = j} = {k}
      BY DEF Once
    <2>2. Min({k}) = k
      BY DEF Min
    <2> QED
      BY <2>1, <2>2 DEF RemoveFirst, RemoveAt, SelectInSeq
  <1> HIDE DEF a, b
  <1>5. /\ a \o b \in Seq(J)
        /\ Len(a \o b) = Len(s) - 1
        /\ \A i \in 1 .. Len(s) - 1 : (a \o b)[i] = IF i <= k - 1 THEN a[i] ELSE b[i - (k - 1)]
    <2>1. /\ a \o b \in Seq(J)
          /\ Len(a \o b) = Len(a) + Len(b)
          /\ \A i \in 1 .. Len(a) + Len(b) :
                (a \o b)[i] = IF i <= Len(a) THEN a[i] ELSE b[i - Len(a)]
      BY <1>2, <1>3, ConcatProperties
    <2>2. Len(a) = k - 1 /\ Len(a) + Len(b) = Len(s) - 1
      BY <1>1, <1>2, <1>3
    <2> QED
      BY <2>1, <2>2
  <1>6. \A i \in 1 .. Len(s) - 1 : (a \o b)[i] = IF i < k THEN s[i] ELSE s[i + 1]
    <2> SUFFICES ASSUME NEW i \in 1 .. Len(s) - 1
                 PROVE  (a \o b)[i] = IF i < k THEN s[i] ELSE s[i + 1]
      OBVIOUS
    <2>1. CASE i < k
      BY <1>1, <1>2, <1>5, <2>1
    <2>2. CASE ~(i < k)
      <3>1. i - (k - 1) \in 1 .. Len(s) - k /\ k + (i - (k - 1)) = i + 1
        BY <1>1, <2>2
      <3> QED
        BY <1>1, <1>3, <1>5, <2>2, <3>1
    <2> QED
      BY <2>1, <2>2
  <1> QED
    BY <1>4, <1>5, <1>6

(* The list and its elements after a removal. *)
LEMMA Removed ==
    ASSUME NEW J, NEW s \in Seq(J), Once(s), NEW j \in Range(s)
    PROVE  /\ RemoveFirst(s, j) \in Seq(J)
           /\ Once(RemoveFirst(s, j))
           /\ Range(RemoveFirst(s, j)) = Range(s) \ {j}
  <1>1. PICK k \in 1 .. Len(s) : s[k] = j
    BY DEF Range
  <1> DEFINE t == RemoveFirst(s, j)
  <1>2. /\ t \in Seq(J) /\ Len(t) = Len(s) - 1 /\ Len(s) \in Nat
        /\ \A i \in 1 .. Len(s) - 1 : t[i] = IF i < k THEN s[i] ELSE s[i + 1]
    BY <1>1, Removal
  <1> HIDE DEF t
  <1>3. DOMAIN t = 1 .. Len(s) - 1 /\ DOMAIN s = 1 .. Len(s)
    BY <1>2
  <1>4. Once(t)
    <2> SUFFICES ASSUME NEW i \in 1 .. Len(s) - 1, NEW m \in 1 .. Len(s) - 1, t[i] = t[m]
                 PROVE  i = m
      BY <1>3 DEF Once
    <2> DEFINE at(n) == IF n < k THEN n ELSE n + 1
    <2>1. /\ at(i) \in DOMAIN s /\ t[i] = s[at(i)]
          /\ at(m) \in DOMAIN s /\ t[m] = s[at(m)]
      BY <1>2, <1>3
    <2>2. at(i) = at(m)
      BY <2>1 DEF Once
    <2> QED
      BY <1>2, <2>2
  <1>5. ASSUME NEW x \in Range(t)
        PROVE  x \in Range(s) \ {j}
    <2>1. PICK i \in 1 .. Len(s) - 1 : t[i] = x
      BY <1>3 DEF Range
    <2>2. CASE i < k
      <3>1. i \in DOMAIN s /\ i # k /\ s[i] = x
        BY <1>2, <1>3, <2>1, <2>2
      <3> QED
        BY <1>1, <1>3, <3>1 DEF Range, Once
    <2>3. CASE ~(i < k)
      <3>1. i + 1 \in DOMAIN s /\ i + 1 # k /\ s[i + 1] = x
        BY <1>2, <1>3, <2>1, <2>3
      <3> QED
        BY <1>1, <1>3, <3>1 DEF Range, Once
    <2> QED
      BY <2>2, <2>3
  <1>6. ASSUME NEW x \in Range(s) \ {j}
        PROVE  x \in Range(t)
    <2>1. PICK i \in 1 .. Len(s) : s[i] = x
      BY <1>3 DEF Range
    <2>2. CASE i < k
      <3>1. i \in DOMAIN t /\ t[i] = x
        BY <1>2, <1>3, <2>1, <2>2
      <3> QED
        BY <3>1 DEF Range
    <2>3. CASE ~(i < k)
      <3>1. i - 1 \in 1 .. Len(s) - 1 /\ ~(i - 1 < k) /\ (i - 1) + 1 = i
        BY <1>1, <1>2, <2>1, <2>3
      <3>2. i - 1 \in DOMAIN t /\ t[i - 1] = x
        BY <1>2, <1>3, <2>1, <3>1
      <3> QED
        BY <3>2 DEF Range
    <2> QED
      BY <2>2, <2>3
  <1> QED
    BY <1>2, <1>4, <1>5, <1>6 DEF t

(* ... and after a push. *)
LEMMA Appended ==
    ASSUME NEW J, NEW s \in Seq(J), NEW j \in J
    PROVE  /\ Append(s, j) \in Seq(J)
           /\ Range(Append(s, j)) = Range(s) \cup {j}
           /\ Once(s) /\ j \notin Range(s) => Once(Append(s, j))
  <1> DEFINE t == Append(s, j)
  <1>1. /\ t \in Seq(J) /\ Len(t) = Len(s) + 1 /\ Len(s) \in Nat
        /\ \A i \in 1 .. Len(s) : t[i] = s[i]
        /\ t[Len(s) + 1] = j
    BY AppendProperties
  <1> HIDE DEF t
  <1>2. DOMAIN t = 1 .. Len(s) + 1 /\ DOMAIN s = 1 .. Len(s)
    BY <1>1
  <1>3. \A i \in DOMAIN t : i \in DOMAIN s \/ i = Len(s) + 1
    BY <1>1, <1>2
  <1>4. \A i \in DOMAIN s : i \in DOMAIN t
    BY <1>1, <1>2
  <1>5. Len(s) + 1 \in DOMAIN t
    BY <1>1, <1>2
  <1>6. Range(t) = Range(s) \cup {j}
    BY <1>1, <1>2, <1>3, <1>4, <1>5 DEF Range
  <1>7. Once(s) /\ j \notin Range(s) => Once(t)
    BY <1>1, <1>2, <1>3 DEF Range, Once
  <1> QED
    BY <1>1, <1>6, <1>7 DEF t

-----------------------------------------------------------------------------
(* All lists *)

(* Disjoint, list by list. *)
LEMMA DisjointLists ==
    ASSUME NEW J, NEW q \in [Priority -> Seq(J)]
    PROVE  Disjoint(q) <=> /\ \A p \in Priority : Once(q[p])
                           /\ \A p, o \in Priority : p # o => Range(q[p]) \cap Range(q[o]) = {}
  <1>1. ASSUME Disjoint(q)
        PROVE  /\ \A p \in Priority : Once(q[p])
               /\ \A p, o \in Priority : p # o => Range(q[p]) \cap Range(q[o]) = {}
    BY <1>1 DEF Disjoint, Once, Range
  <1>2. ASSUME \A p \in Priority : Once(q[p]),
               \A p, o \in Priority : p # o => Range(q[p]) \cap Range(q[o]) = {},
               NEW p \in Priority, NEW o \in Priority,
               NEW i \in DOMAIN q[p], NEW k \in DOMAIN q[o], q[p][i] = q[o][k]
        PROVE  p = o /\ i = k
    <2>1. q[p][i] \in Range(q[p]) /\ q[o][k] \in Range(q[o])
      BY DEF Range
    <2>2. p = o
      BY <1>2, <2>1
    <2> QED
      BY <1>2, <2>2 DEF Once
  <1> QED
    BY <1>1, <1>2 DEF Disjoint

(* The one list that a scheduled job is on. *)
LEMMA OneList ==
    ASSUME NEW J, NEW q \in Queues(J), NEW p \in Priority, NEW j \in Range(q[p])
    PROVE  /\ Scheduled(q, j)
           /\ PriorityOf(q, j) = p
           /\ IsBlocked(q, j) <=> p = BLOCKED
           /\ j \in J
  <1>1. \A o \in Priority : j \in Range(q[o]) <=> o = p
    BY DisjointLists DEF Queues
  <1>2. Range(q[p]) \in SUBSET J
    BY RangeOfSeq DEF Queues
  <1>3. BLOCKED \in Priority
    BY DEF Priority, ROOT, BLOCKED
  <1> QED
    BY <1>1, <1>2, <1>3 DEF Scheduled, PriorityOf, IsBlocked

(* Schedule: the job is added to one list. *)
LEMMA PushMoves ==
    ASSUME NEW J, NEW q \in Queues(J), NEW p \in Priority, NEW j \in J, ~Scheduled(q, j)
    PROVE  /\ Push(q, p, j) \in Queues(J)
           /\ Moved(q, Push(q, p, j), p, {j}, {})
  <1> DEFINE r == Push(q, p, j)
  <1>1. q \in [Priority -> Seq(J)] /\ Disjoint(q)
    BY DEF Queues
  <1>2. \A o \in Priority : j \notin Range(q[o])
    BY DEF Scheduled
  <1>3. /\ DOMAIN r = Priority
        /\ r[p] = Append(q[p], j)
        /\ \A o \in Priority : o # p => r[o] = q[o]
    BY <1>1 DEF Push
  <1> HIDE DEF r
  <1>4. /\ r[p] \in Seq(J)
        /\ Range(r[p]) = Range(q[p]) \cup {j}
        /\ Once(r[p])
    BY <1>1, <1>2, <1>3, Appended, DisjointLists
  <1>5. r \in [Priority -> Seq(J)]
    <2>1. r = [o \in Priority |-> r[o]]
      BY <1>1 DEF r, Push
    <2> QED
      BY <1>1, <1>3, <1>4, <2>1
  <1>6. Disjoint(r)
    <2>1. /\ \A o \in Priority : Once(q[o])
          /\ \A o, m \in Priority : o # m => Range(q[o]) \cap Range(q[m]) = {}
      BY <1>1, DisjointLists
    <2>2. \A o \in Priority : Once(r[o])
      BY <1>3, <1>4, <2>1
    <2>3. ASSUME NEW o \in Priority, NEW m \in Priority, o # m
          PROVE  Range(r[o]) \cap Range(r[m]) = {}
      <3>1. /\ Range(r[o]) = IF o = p THEN Range(q[p]) \cup {j} ELSE Range(q[o])
            /\ Range(r[m]) = IF m = p THEN Range(q[p]) \cup {j} ELSE Range(q[m])
        BY <1>3, <1>4
      <3> QED
        BY <1>2, <2>1, <2>3, <3>1
    <2> QED
      BY <1>5, <2>2, <2>3, DisjointLists
  <1> QED
    BY <1>3, <1>4, <1>5, <1>6 DEF r, Queues, Moved

(* DList::Remove: the job leaves its list. *)
LEMMA RemoveMoves ==
    ASSUME NEW J, NEW q \in Queues(J), NEW p \in Priority, NEW j \in Range(q[p])
    PROVE  /\ Remove1(q, p, j) \in Queues(J)
           /\ Moved(q, Remove1(q, p, j), p, {}, {j})
           /\ ~Scheduled(Remove1(q, p, j), j)
  <1> DEFINE r == Remove1(q, p, j)
  <1>1. q \in [Priority -> Seq(J)] /\ Disjoint(q)
    BY DEF Queues
  <1>2. \A o \in Priority : o # p => j \notin Range(q[o])
    BY <1>1, DisjointLists
  <1>3. /\ DOMAIN r = Priority
        /\ r[p] = RemoveFirst(q[p], j)
        /\ \A o \in Priority : o # p => r[o] = q[o]
    BY <1>1 DEF Remove1
  <1> HIDE DEF r
  <1>4. /\ r[p] \in Seq(J)
        /\ Range(r[p]) = Range(q[p]) \ {j}
        /\ Once(r[p])
    BY <1>1, <1>3, Removed, DisjointLists
  <1>5. r \in [Priority -> Seq(J)]
    <2>1. r = [o \in Priority |-> r[o]]
      BY <1>1 DEF r, Remove1
    <2> QED
      BY <1>1, <1>3, <1>4, <2>1
  <1>6. Disjoint(r)
    <2>1. /\ \A o \in Priority : Once(q[o])
          /\ \A o, m \in Priority : o # m => Range(q[o]) \cap Range(q[m]) = {}
      BY <1>1, DisjointLists
    <2>2. \A o \in Priority : Once(r[o])
      BY <1>3, <1>4, <2>1
    <2>3. ASSUME NEW o \in Priority, NEW m \in Priority, o # m
          PROVE  Range(r[o]) \cap Range(r[m]) = {}
      BY <1>3, <1>4, <2>1, <2>3
    <2> QED
      BY <1>5, <2>2, <2>3, DisjointLists
  <1> QED
    BY <1>2, <1>3, <1>4, <1>5, <1>6 DEF r, Queues, Moved, Scheduled

(* Unschedule: the job leaves the list it is on, whichever it is. *)
LEMMA UnscheduleMoves ==
    ASSUME NEW J, NEW q \in Queues(J), NEW j, Scheduled(q, j)
    PROVE  /\ Unschedule(q, j) \in Queues(J)
           /\ Moved(q, Unschedule(q, j), ROOT, {}, {j})
           /\ \A o \in Priority :
                 Unschedule(q, j)[o] = IF j \in Range(q[o]) THEN RemoveFirst(q[o], j) ELSE q[o]
  <1>1. PICK p \in Priority : j \in Range(q[p])
    BY DEF Scheduled
  <1>2. PriorityOf(q, j) = p /\ \A o \in Priority : j \in Range(q[o]) <=> o = p
    BY <1>1, OneList
  <1>3. Unschedule(q, j) = Remove1(q, p, j)
    BY <1>2 DEF Unschedule
  <1>4. \A o \in Priority : Remove1(q, p, j)[o] = IF o = p THEN RemoveFirst(q[o], j) ELSE q[o]
    BY DEF Remove1, Queues
  <1>5. Moved(q, Remove1(q, p, j), p, {}, {j}) /\ Remove1(q, p, j) \in Queues(J)
    BY <1>1, RemoveMoves
  <1> QED
    BY <1>2, <1>3, <1>4, <1>5 DEF Moved

(* Block: from its list to BLOCKED. *)
LEMMA BlockMoves ==
    ASSUME NEW J, NEW q \in Queues(J), NEW j, Scheduled(q, j)
    PROVE  /\ Block(q, j) \in Queues(J)
           /\ Moved(q, Block(q, j), BLOCKED, {j}, {j})
           /\ \A o \in RunLevels :
                 Block(q, j)[o] = IF j \in Range(q[o]) THEN RemoveFirst(q[o], j) ELSE q[o]
  <1>0. BLOCKED \in Priority /\ RunLevels = Priority \ {BLOCKED}
    BY DEF Priority, RunLevels, ROOT, LOW, BLOCKED
  <1>1. PICK p \in Priority : j \in Range(q[p])
    BY DEF Scheduled
  <1>2. /\ PriorityOf(q, j) = p /\ j \in J
        /\ IsBlocked(q, j) <=> p = BLOCKED
        /\ \A o \in Priority : j \in Range(q[o]) <=> o = p
    BY <1>1, OneList
  <1>3. CASE p = BLOCKED
    <2>1. Block(q, j) = q
      BY <1>2, <1>3 DEF Block
    <2> QED
      BY <1>0, <1>2, <1>3, <2>1 DEF Moved
  <1>4. CASE p # BLOCKED
    <2> DEFINE r == Remove1(q, p, j)
    <2>1. Block(q, j) = Push(r, BLOCKED, j)
      BY <1>2, <1>4 DEF Block
    <2>2. r \in Queues(J) /\ Moved(q, r, p, {}, {j}) /\ ~Scheduled(r, j)
      BY <1>1, RemoveMoves
    <2>3. \A o \in Priority : r[o] = IF o = p THEN RemoveFirst(q[o], j) ELSE q[o]
      BY DEF Remove1, Queues
    <2> HIDE DEF r
    <2>4. Push(r, BLOCKED, j) \in Queues(J) /\ Moved(r, Push(r, BLOCKED, j), BLOCKED, {j}, {})
      BY <1>0, <1>2, <2>2, PushMoves
    <2>5. \A o \in RunLevels : Push(r, BLOCKED, j)[o] = r[o]
      BY <1>0, <2>2 DEF Push, Queues
    <2> QED
      BY <1>0, <1>2, <1>4, <2>1, <2>2, <2>3, <2>4, <2>5 DEF Moved
  <1> QED
    BY <1>3, <1>4

(* Ready: from BLOCKED to the list it came from. *)
LEMMA ReadyMoves ==
    ASSUME NEW J, NEW q \in Queues(J), NEW j, NEW p \in RunLevels, IsBlocked(q, j)
    PROVE  /\ Ready(q, j, p) \in Queues(J)
           /\ Moved(q, Ready(q, j, p), p, {j}, {j})
           /\ \A o \in RunLevels : o # p => Ready(q, j, p)[o] = q[o]
  <1>0. BLOCKED \in Priority /\ RunLevels = Priority \ {BLOCKED}
    BY DEF Priority, RunLevels, ROOT, LOW, BLOCKED
  <1> DEFINE r == Remove1(q, BLOCKED, j)
  <1>1. j \in Range(q[BLOCKED]) /\ j \in J
    BY <1>0, OneList DEF IsBlocked
  <1>2. Ready(q, j, p) = Push(r, p, j)
    BY DEF Ready
  <1>3. r \in Queues(J) /\ Moved(q, r, BLOCKED, {}, {j}) /\ ~Scheduled(r, j)
    BY <1>0, <1>1, RemoveMoves
  <1>4. \A o \in RunLevels : r[o] = q[o]
    BY <1>0 DEF Remove1, Queues
  <1> HIDE DEF r
  <1>5. Push(r, p, j) \in Queues(J) /\ Moved(r, Push(r, p, j), p, {j}, {})
    BY <1>0, <1>1, <1>3, PushMoves
  <1>6. \A o \in RunLevels : o # p => Push(r, p, j)[o] = r[o]
    BY <1>0, <1>3 DEF Push, Queues
  <1> QED
    BY <1>0, <1>2, <1>3, <1>4, <1>5, <1>6 DEF Moved

-----------------------------------------------------------------------------
(* The walk over a list *)

(* While a job runs its list may lose that job and gain others at its end:   *)
(* the next one of the walk is then where the walk expects it, with as many  *)
(* behind it as before.                                                      *)
LEMMA WalkGoesOn ==
    ASSUME NEW J, NEW s \in Seq(J), Once(s), NEW k \in 1 .. Len(s), NEW left \in Nat, left > 1,
           k + left - 1 <= Len(s), NEW x \in J, x \notin Range(s), NEW t,
           t \in {s, Append(s, x), RemoveFirst(s, s[k]), RemoveFirst(Append(s, x), s[k])}
    PROVE  \E m \in DOMAIN t : t[m] = NextOf(s, s[k]) /\ m + (left - 1) - 1 <= Len(t)
  <1>0. Len(s) \in Nat /\ DOMAIN s = 1 .. Len(s) /\ k < Len(s)
    BY LenProperties
  <1>1. NextOf(s, s[k]) = s[k + 1]
    BY <1>0, NextInList
  <1> DEFINE a == Append(s, x)
  <1>2. /\ a \in Seq(J) /\ Len(a) = Len(s) + 1 /\ Once(a)
        /\ \A i \in 1 .. Len(s) : a[i] = s[i]
    BY AppendProperties, Appended
  <1> HIDE DEF a
  <1>3. CASE t = s \/ t = a
    <2>1. k + 1 \in DOMAIN t /\ t[k + 1] = s[k + 1] /\ Len(t) >= Len(s)
      BY <1>0, <1>2, <1>3
    <2> QED
      BY <1>0, <1>1, <2>1
  <1>4. CASE t = RemoveFirst(s, s[k]) \/ t = RemoveFirst(a, a[k])
    <2>1. t \in Seq(J) /\ Len(t) >= Len(s) - 1 /\ t[k] = s[k + 1]
      <3>1. CASE t = RemoveFirst(s, s[k])
        <4>1. /\ t \in Seq(J) /\ Len(t) = Len(s) - 1
              /\ \A i \in 1 .. Len(s) - 1 : t[i] = IF i < k THEN s[i] ELSE s[i + 1]
          <5> DEFINE j == s[k]
          <5>1. t = RemoveFirst(s, j) /\ j = s[k]
            BY <3>1
          <5> HIDE DEF j
          <5> QED
            BY <5>1, Removal
        <4> QED
          BY <1>0, <4>1
      <3>2. CASE t = RemoveFirst(a, a[k])
        <4>1. /\ t \in Seq(J) /\ Len(t) = Len(a) - 1
              /\ \A i \in 1 .. Len(a) - 1 : t[i] = IF i < k THEN a[i] ELSE a[i + 1]
          <5> DEFINE j == a[k]
          <5>1. a \in Seq(J) /\ Once(a) /\ t = RemoveFirst(a, j) /\ j = a[k] /\ k \in 1 .. Len(a)
            BY <1>0, <1>2, <3>2
          <5> HIDE DEF j
          <5> QED
            BY <5>1, Removal
        <4> QED
          BY <1>0, <1>2, <4>1
      <3> QED
        BY <1>4, <3>1, <3>2
    <2>2. k \in DOMAIN t
      BY <1>0, <2>1
    <2> QED
      BY <1>0, <1>1, <2>1, <2>2
  <1> QED
    BY <1>2, <1>3, <1>4 DEF a
=============================================================================
