----------------------------- MODULE BullQueue ------------------------------
(***************************************************************************)
(* What the code relies on of BullMQ, the queue library: a job is added    *)
(* once, one worker at a time holds its lock, a handler that throws uses   *)
(* up one attempt, and an active job whose lock is not renewed is found    *)
(* stalled and delivered again.  The delay of a job and its backoff are    *)
(* abstracted: a delayed job waits like any other.                         *)
(***************************************************************************)
EXTENDS Naturals

CONSTANTS
  Jobs,         \* identities of jobs
  Workers,      \* the workers of the queue
  MaxAttempts,  \* the attempts option, 3 in queue.config.ts
  MaxStalled,   \* how often a stalled job is re-delivered (default 1)
  None          \* no worker

VARIABLES
  job,           \* Jobs -> state of the job
  attemptsMade,  \* Jobs -> failed attempts
  stalls,        \* Jobs -> times it was found stalled
  lock           \* Jobs -> the worker that holds its lock

JobStates == {"none", "waiting", "active", "completed", "failed"}

QueueTypeOK ==
  /\ job \in [Jobs -> JobStates]
  /\ attemptsMade \in [Jobs -> 0..MaxAttempts]
  /\ stalls \in [Jobs -> 0..MaxStalled]
  /\ lock \in [Jobs -> Workers \cup {None}]

QueueInit ==
  /\ job = [j \in Jobs |-> "none"]
  /\ attemptsMade = [j \in Jobs |-> 0]
  /\ stalls = [j \in Jobs |-> 0]
  /\ lock = [j \in Jobs |-> None]

AddJob(j) ==
  /\ job' = [job EXCEPT ![j] = "waiting"]
  /\ UNCHANGED <<attemptsMade, stalls, lock>>

LockJob(w, j) ==
  /\ job[j] = "waiting"
  /\ job' = [job EXCEPT ![j] = "active"]
  /\ lock' = [lock EXCEPT ![j] = w]
  /\ UNCHANGED <<attemptsMade, stalls>>

\* The handler returned: the job is completed if the lock is still held.
CompleteJob(w, j) ==
  /\ IF lock[j] = w
     THEN /\ job' = [job EXCEPT ![j] = "completed"]
          /\ lock' = [lock EXCEPT ![j] = None]
     ELSE UNCHANGED <<job, lock>>
  /\ UNCHANGED <<attemptsMade, stalls>>

\* The handler threw: one attempt is used up, and the job waits for its
\* backoff or, after the last attempt, is failed for good.
FailJob(w, j) ==
  /\ IF lock[j] = w
     THEN /\ attemptsMade' = [attemptsMade EXCEPT ![j] = @ + 1]
          /\ job' = [job EXCEPT ![j] = IF attemptsMade[j] + 1 < MaxAttempts
                                       THEN "waiting" ELSE "failed"]
          /\ lock' = [lock EXCEPT ![j] = None]
     ELSE UNCHANGED <<attemptsMade, job, lock>>
  /\ UNCHANGED stalls

\* An active job without a lock is delivered again, or failed when that
\* happened too often.
StallJob(j) ==
  /\ job[j] = "active"
  /\ lock' = [lock EXCEPT ![j] = None]
  /\ IF stalls[j] < MaxStalled
     THEN /\ stalls' = [stalls EXCEPT ![j] = @ + 1]
          /\ job' = [job EXCEPT ![j] = "waiting"]
     ELSE /\ job' = [job EXCEPT ![j] = "failed"]
          /\ UNCHANGED stalls
  /\ UNCHANGED attemptsMade

\* The workers W die: nobody renews the locks of their jobs any more.
DropLocks(W) ==
  /\ lock' = [j \in Jobs |-> IF lock[j] \in W THEN None ELSE lock[j]]
  /\ UNCHANGED <<job, attemptsMade, stalls>>

=============================================================================
