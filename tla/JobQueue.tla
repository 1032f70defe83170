------------------------------ MODULE JobQueue ------------------------------
(***************************************************************************)
(* The scheduler's run queues, Jobs[MAX_PRIORITY_LEVELS] of job.cc: one     *)
(* list of jobs per priority.  A list is a sequence from head to tail; the  *)
(* pointers that represent it are the subject of module DList.  The         *)
(* operators are functions of the whole array, so that a handler that calls *)
(* several of them is their composition, in the order of its calls.         *)
(***************************************************************************)
EXTENDS Integers, Sequences, SequencesExt

ROOT    == 0
HIGHEST == 1
HIGH    == 2
LOW     == 3
BLOCKED == 4

Priority  == ROOT .. BLOCKED
RunLevels == ROOT .. LOW

NoJobs == [p \in Priority |-> <<>>]

(* DList::Push: the new job becomes the tail. *)
Push(lists, p, j) == [lists EXCEPT ![p] = Append(@, j)]

(* DList::Remove: the job leaves, the others keep their order. *)
Remove1(lists, p, j) == [lists EXCEPT ![p] = RemoveFirst(@, j)]

Scheduled(lists, j) == \E p \in Priority : j \in Range(lists[p])

(* Job::priority of a scheduled job: the list that holds it (module JobLists *)
(* checks that the field and the list agree).                                *)
PriorityOf(lists, j) == CHOOSE p \in Priority : j \in Range(lists[p])

IsBlocked(lists, j) == j \in Range(lists[BLOCKED])

(* Mutant: a destructor that forgets to unschedule its job. *)
Unschedule_Forgotten(lists, j) == lists

(* Job::Unschedule *)
Unschedule(lists, j) == Remove1(lists, PriorityOf(lists, j), j)

(* Job::Block: nothing happens to a job that is blocked already. *)
Block(lists, j) ==
    IF IsBlocked(lists, j) THEN lists
    ELSE Push(Remove1(lists, PriorityOf(lists, j), j), BLOCKED, j)

(* Job::Ready: back to the priority the job had before it was blocked. *)
Ready(lists, j, prevPriority) ==
    IF IsBlocked(lists, j) THEN Push(Remove1(lists, BLOCKED, j), prevPriority, j)
    ELSE lists

(* DLink::next in a circular list: after the tail comes the head. *)
NextOf(s, j) ==
    LET k == SelectInSeq(s, LAMBDA x : x = j)
    IN  IF k = Len(s) THEN s[1] ELSE s[k + 1]

(* No job is on two lists, or twice on one. *)
Disjoint(lists) ==
    \A p, q \in Priority : \A i \in DOMAIN lists[p], k \in DOMAIN lists[q] :
        lists[p][i] = lists[q][k] => p = q /\ i = k
=============================================================================
