------------------------------ MODULE JobLists ------------------------------
(***************************************************************************)
(* What the scheduler's data structure promises its callers: jobs enter,    *)
(* block, become ready and leave, and every list keeps first-come order.    *)
(* Any legal sequence of calls of class Job; a call is legal on a job that  *)
(* is scheduled (Schedule: on one that is not).                             *)
(***************************************************************************)
EXTENDS JobQueue

CONSTANT Job

VARIABLES lists, priority, prevPriority

jobListsVars == <<lists, priority, prevPriority>>

JobListsInit ==
    /\ lists = NoJobs
    /\ priority = [j \in Job |-> -1]
    /\ prevPriority = [j \in Job |-> -1]

JobSchedule(j, p, prev) ==
    /\ ~Scheduled(lists, j)
    /\ lists' = Push(lists, p, j)
    /\ priority' = [priority EXCEPT ![j] = p]
    /\ prevPriority' = [prevPriority EXCEPT ![j] = prev]

(* The job keeps its stale priority. *)
JobUnschedule(j) ==
    /\ Scheduled(lists, j)
    /\ lists' = Unschedule(lists, j)
    /\ UNCHANGED <<priority, prevPriority>>

JobBlock(j) ==
    /\ Scheduled(lists, j)
    /\ priority[j] # BLOCKED
    /\ lists' = Block(lists, j)
    /\ priority' = [priority EXCEPT ![j] = BLOCKED]
    /\ prevPriority' = [prevPriority EXCEPT ![j] = priority[j]]

JobReady(j) ==
    /\ Scheduled(lists, j)
    /\ priority[j] = BLOCKED
    /\ lists' = Ready(lists, j, prevPriority[j])
    /\ priority' = [priority EXCEPT ![j] = prevPriority[j]]
    /\ UNCHANGED prevPriority

JobListsNext ==
    \E j \in Job :
        \/ \E p \in Priority, prev \in RunLevels : JobSchedule(j, p, prev)
        \/ JobUnschedule(j)
        \/ JobBlock(j)
        \/ JobReady(j)

JobListsSpec == JobListsInit /\ [][JobListsNext]_jobListsVars
=============================================================================
