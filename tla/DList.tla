------------------------------- MODULE DList -------------------------------
(***************************************************************************)
(* The intrusive, circular, doubly linked lists of dlist.cc and class Job's *)
(* calls on them, pointer by pointer.  The five lists share the links that  *)
(* live in the jobs, so a wrong `priority` would splice two rings together. *)
(***************************************************************************)
EXTENDS JobQueue, FiniteSets

CONSTANTS Job, NULL

ASSUME DListAssumption == NULL \notin Job /\ IsFiniteSet(Job)

VARIABLES
    heap,         \* DLink::next and previous, DList::head and count
    priority,     \* Job::priority
    prevPriority  \* Job::prevPriority

vars == <<heap, priority, prevPriority>>

Link == Job \cup {NULL}

Heap == [next: [Job -> Link], previous: [Job -> Link],
         head: [Priority -> Link], count: [Priority -> Int]]

TypeOK ==
    /\ heap \in Heap
    /\ priority \in [Job -> {-1} \cup Priority]
    /\ prevPriority \in [Job -> {-1} \cup RunLevels]

Linked(h, j) == h.next[j] # NULL

(* Mutant: the head stays when it is the one to leave. *)
ListRemove_HeadStays(h, p, j) ==
    LET n == h.next[j]
        b == h.previous[j]
    IN  [next     |-> [h.next EXCEPT ![b] = n, ![j] = NULL],
         previous |-> [h.previous EXCEPT ![n] = b, ![j] = NULL],
         head     |-> IF n = j THEN [h.head EXCEPT ![p] = NULL] ELSE h.head,
         count    |-> [h.count EXCEPT ![p] = @ - 1]]

(* DList::Remove.  In a ring of one, the writes to the neighbours are the    *)
(* job's own links, which end up null.                                       *)
ListRemove(h, p, j) ==
    LET n == h.next[j]
        b == h.previous[j]
    IN  [next     |-> [h.next EXCEPT ![b] = n, ![j] = NULL],
         previous |-> [h.previous EXCEPT ![n] = b, ![j] = NULL],
         head     |-> [h.head EXCEPT ![p] = IF n = j THEN NULL ELSE IF @ = j THEN n ELSE @],
         count    |-> [h.count EXCEPT ![p] = @ - 1]]

(* Mutant: the old tail still points to the head. *)
ListPush_TailForgotten(h, p, j) ==
    LET first == IF h.head[p] = NULL THEN j ELSE h.head[p]
        tail  == IF h.head[p] = NULL THEN j ELSE h.previous[h.head[p]]
    IN  [next     |-> [h.next EXCEPT ![j] = first],
         previous |-> [h.previous EXCEPT ![j] = tail, ![first] = j],
         head     |-> [h.head EXCEPT ![p] = first],
         count    |-> [h.count EXCEPT ![p] = @ + 1]]

(* Mutant: the new job becomes the head. *)
ListPush_AtHead(h, p, j) ==
    LET first == IF h.head[p] = NULL THEN j ELSE h.head[p]
        tail  == IF h.head[p] = NULL THEN j ELSE h.previous[h.head[p]]
    IN  [next     |-> [h.next EXCEPT ![j] = first, ![tail] = j],
         previous |-> [h.previous EXCEPT ![j] = tail, ![first] = j],
         head     |-> [h.head EXCEPT ![p] = j],
         count    |-> [h.count EXCEPT ![p] = @ + 1]]

(* DList::Push: between the old tail and the head. *)
ListPush(h, p, j) ==
    LET first == IF h.head[p] = NULL THEN j ELSE h.head[p]
        tail  == IF h.head[p] = NULL THEN j ELSE h.previous[h.head[p]]
    IN  [next     |-> [h.next EXCEPT ![j] = first, ![tail] = j],
         previous |-> [h.previous EXCEPT ![j] = tail, ![first] = j],
         head     |-> [h.head EXCEPT ![p] = first],
         count    |-> [h.count EXCEPT ![p] = @ + 1]]

-----------------------------------------------------------------------------
Init ==
    /\ heap = [next     |-> [j \in Job |-> NULL],
               previous |-> [j \in Job |-> NULL],
               head     |-> [p \in Priority |-> NULL],
               count    |-> [p \in Priority |-> 0]]
    /\ priority = [j \in Job |-> -1]
    /\ prevPriority = [j \in Job |-> -1]

(* Job::Schedule, whose assertions are its guard. *)
Schedule(j, p, prev) ==
    /\ heap.next[j] = NULL
    /\ heap.previous[j] = NULL
    /\ heap' = ListPush(heap, p, j)
    /\ priority' = [priority EXCEPT ![j] = p]
    /\ prevPriority' = [prevPriority EXCEPT ![j] = prev]

(* Job::Unschedule leaves the priority as it was. *)
UnscheduleJob(j) ==
    /\ Linked(heap, j)
    /\ heap' = ListRemove(heap, priority[j], j)
    /\ UNCHANGED <<priority, prevPriority>>

(* Mutant: `priority` is not set (job.cc:193). *)
BlockJob_StalePriority(j) ==
    /\ Linked(heap, j)
    /\ priority[j] # BLOCKED
    /\ heap' = ListPush(ListRemove(heap, priority[j], j), BLOCKED, j)
    /\ prevPriority' = [prevPriority EXCEPT ![j] = priority[j]]
    /\ UNCHANGED priority

(* Mutant: a blocked job may be blocked again (job.cc:189). *)
BlockJob_Twice(j) ==
    /\ Linked(heap, j)
    /\ heap' = ListPush(ListRemove(heap, priority[j], j), BLOCKED, j)
    /\ priority' = [priority EXCEPT ![j] = BLOCKED]
    /\ prevPriority' = [prevPriority EXCEPT ![j] = priority[j]]

(* Job::Block of a job that is not blocked; of one that is, it is a message. *)
BlockJob(j) ==
    /\ Linked(heap, j)
    /\ priority[j] # BLOCKED
    /\ heap' = ListPush(ListRemove(heap, priority[j], j), BLOCKED, j)
    /\ priority' = [priority EXCEPT ![j] = BLOCKED]
    /\ prevPriority' = [prevPriority EXCEPT ![j] = priority[j]]

(* Job::Ready of a job that is blocked. *)
ReadyJob(j) ==
    /\ Linked(heap, j)
    /\ priority[j] = BLOCKED
    /\ heap' = ListPush(ListRemove(heap, BLOCKED, j), prevPriority[j], j)
    /\ priority' = [priority EXCEPT ![j] = prevPriority[j]]
    /\ UNCHANGED prevPriority

Next ==
    \E j \in Job :
        \/ \E p \in Priority, prev \in RunLevels : Schedule(j, p, prev)
        \/ UnscheduleJob(j)
        \/ BlockJob(j)
        \/ ReadyJob(j)

Spec == Init /\ [][Next]_vars

-----------------------------------------------------------------------------
(* Properties *)

MembersOf(p) == {j \in Job : Linked(heap, j) /\ priority[j] = p}

(* Links are mutually inverse and stay within one list; a list is empty      *)
(* exactly if its head is null; its head is one of its jobs.                 *)
LinksInverse ==
    /\ \A j \in Job : Linked(heap, j) =>
          LET n == heap.next[j]
              b == heap.previous[j]
          IN  /\ n \in Job /\ b \in Job
              /\ heap.previous[n] = j /\ heap.next[b] = j
              /\ priority[n] = priority[j] /\ priority[j] \in Priority
    /\ \A p \in Priority :
          IF heap.head[p] = NULL THEN MembersOf(p) = {}
          ELSE heap.head[p] \in MembersOf(p)

(* The count that bounds the scheduler's walk is the number of jobs there.   *)
CountsExact == \A p \in Priority : heap.count[p] = Cardinality(MembersOf(p))

(* The assertions of DList::Remove and Push hold on every legal call.        *)
AssertsHold ==
    /\ \A j \in Job : Linked(heap, j) =>
          /\ heap.count[priority[j]] > 0
          /\ heap.previous[j] # NULL
          /\ heap.next[j] = j => heap.count[priority[j]] = 1
    /\ \A p \in Priority : heap.head[p] = NULL => heap.count[p] = 0

(* Sequence s, indexed 1..count, is the ring of list p from head to tail.    *)
Ring(h, prio, p, s) ==
    LET n == h.count[p]
    IN  /\ h.head[p] = IF n = 0 THEN NULL ELSE s[1]
        /\ \A i \in 1 .. n :
              /\ h.next[s[i]] = IF i = n THEN s[1] ELSE s[i + 1]
              /\ h.previous[s[i]] = IF i = 1 THEN s[n] ELSE s[i - 1]
              /\ prio[s[i]] = p
        /\ \A i, k \in 1 .. n : s[i] = s[k] => i = k
        /\ \A j \in Job : Linked(h, j) /\ prio[j] = p => \E i \in 1 .. n : s[i] = j

(* Each list is one ring, and every linked job is on the ring of its         *)
(* priority.  This is the invariant that is inductive: that links are        *)
(* inverse does not exclude two rings in one list, and then a ring of one    *)
(* would not mean a count of one.                                            *)
OneRing(h, prio) ==
    /\ \A p \in Priority :
          /\ h.count[p] \in Nat
          /\ \E s \in [1 .. h.count[p] -> Job] : Ring(h, prio, p, s)
    /\ \A j \in Job : Linked(h, j) => prio[j] \in Priority
    /\ \A j \in Job : Linked(h, j) <=> h.previous[j] # NULL

Rings == OneRing(heap, priority)

(* A job that was ever scheduled has a runnable priority to be readied to.   *)
PrevKnown == \A j \in Job : priority[j] # -1 => prevPriority[j] \in RunLevels

(* The inductive invariant, beside the types. *)
RingInv == Rings /\ PrevKnown

(* The lists as sequences: from head along next, count times. *)
Walk(h, p) ==
    LET at[i \in 1 .. h.count[p]] == IF i = 1 THEN h.head[p] ELSE h.next[at[i - 1]]
    IN  at

Lists(h) == [p \in Priority |-> Walk(h, p)]

Abstract == INSTANCE JobLists WITH lists <- Lists(heap)

(* The pointers implement the sequences. *)
ImplementsJobLists == Abstract!JobListsSpec
=============================================================================
