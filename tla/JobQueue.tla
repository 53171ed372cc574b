------------------------------ MODULE JobQueue ------------------------------
(***************************************************************************)
(* What a queue of outgoing work promises, whatever carries it: webhook    *)
(* deliveries, outbox messages and print jobs implement it.  A job may be  *)
(* handed over more than once, never more often than it was taken, and it  *)
(* is reported done only after it was handed over.                         *)
(***************************************************************************)
EXTENDS Naturals

CONSTANT Jobs

VARIABLES
    state,   \* what the queue says of each job
    taken,   \* how often somebody took the job to work on it
    handed   \* how often its recipient got it

queueVars == <<state, taken, handed>>

QueueInit ==
    /\ state = [j \in Jobs |-> "absent"]
    /\ taken = [j \in Jobs |-> 0]
    /\ handed = [j \in Jobs |-> 0]

Submit(j) ==
    /\ state[j] = "absent"
    /\ \E s \in {"open", "refused"} : state' = [state EXCEPT ![j] = s]
    /\ UNCHANGED <<taken, handed>>

\* also of jobs somebody else took and may still be working on, and of jobs
\* settled meanwhile, which may or may not count as open again
TakeJobs(J) ==
    /\ \A j \in J : state[j] \notin {"absent", "refused"}
    /\ taken' = [j \in Jobs |-> IF j \in J THEN taken[j] + 1 ELSE taken[j]]
    /\ \E O \in SUBSET J : state' = [j \in Jobs |-> IF j \in O THEN "open" ELSE state[j]]
    /\ UNCHANGED handed

HandOver(j) ==
    /\ handed[j] < taken[j]
    /\ handed' = [handed EXCEPT ![j] = @ + 1]
    /\ UNCHANGED <<state, taken>>

ReportDone(j) ==
    /\ handed[j] > 0
    /\ state' = [state EXCEPT ![j] = "done"]
    /\ UNCHANGED <<taken, handed>>

\* given up, put back, or withdrawn
Settle(j) ==
    /\ state[j] \notin {"absent", "refused"}
    /\ \E s \in {"open", "failed"} : state' = [state EXCEPT ![j] = s]
    /\ UNCHANGED <<taken, handed>>

\* jobs go with the printer or endpoint they belong to
Remove(J) ==
    /\ state' = [j \in Jobs |-> IF j \in J /\ state[j] # "absent" THEN "failed" ELSE state[j]]
    /\ UNCHANGED <<taken, handed>>

QueueNext ==
    \/ \E J \in SUBSET Jobs : Remove(J) \/ TakeJobs(J)
    \/ \E j \in Jobs : Submit(j) \/ HandOver(j) \/ ReportDone(j) \/ Settle(j)

QueueSpec == QueueInit /\ [][QueueNext]_queueVars
=============================================================================
