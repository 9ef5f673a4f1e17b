--------------------------- MODULE ReportPipeline ---------------------------
(***************************************************************************)
(* The asynchronous report pipeline: the reports table, the compute jobs   *)
(* of the dispatch-report queue, the workers that run                      *)
(* ReportProcessor.handleComputeReport, the orphan-recovery cron and the   *)
(* API handlers that generate, cancel and delete reports.                  *)
(*                                                                         *)
(* One action is one step between two awaits of the code, so that any two  *)
(* handlers interleave at the points where the program really yields.      *)
(* Ownership checks and the report's contents are abstracted away.         *)
(***************************************************************************)
EXTENDS Naturals, FiniteSets

CONSTANTS
  Reports,        \* identities a report row may get (uuids, never reused)
  Requests,       \* generate-report requests users may send, each at most once
  Recurring,      \* the requests with recurring = true: each starts a series
  Workers,        \* BullMQ workers, one per running instance of the API
  MaxAttempts,    \* attempts: 3 of the compute job
  MaxStalled,     \* re-deliveries of a stalled job
  MaxOccurrence,  \* bound: occurrences of a series that are explored
  MaxCrashes,     \* bound: worker crashes that are explored
  Faults,         \* what the environment may do wrong, a subset of FaultKinds
  None            \* no report, no worker, no request

\* crash: a worker dies between two awaits.  dbError: a statement fails and
\* has no effect.  lostAck: a statement commits but its caller sees an error.
\* queueError: queue.add fails.  lockLost: a live worker does not renew the
\* lock of its job in time (a blocked event loop).  slow: a live worker is
\* still computing when the threshold of the recovery cron has passed.
FaultKinds == {"crash", "dbError", "lostAck", "queueError", "lockLost", "slow"}

ASSUME PipelineAssumption ==
  /\ Recurring \subseteq Requests
  /\ MaxAttempts \in Nat \ {0}
  /\ MaxStalled \in Nat
  /\ MaxOccurrence \in Nat \ {0}
  /\ MaxCrashes \in Nat
  /\ Faults \subseteq FaultKinds
  /\ None \notin Reports \cup Requests \cup Workers

VARIABLES
  \* the reports table
  status,        \* Reports -> the status column, "ABSENT" or "DELETED"
  request,       \* Reports -> the request (series) the row belongs to
  occurrence,    \* Reports -> position in its series, 0 for a single report
  stale,         \* PROCESSING rows whose updated_at passed the threshold
  \* the queue: each report gets one compute job
  job, attemptsMade, stalls, lock,
  \* the workers
  phase,         \* Workers -> the await the handler is at
  at,            \* Workers -> the report of the job it runs
  attempt,       \* Workers -> job.attemptsMade in the worker's copy of the job
  next,          \* Workers -> the row it created and has not enqueued yet
  \* the API handlers
  toEnqueue,     \* rows created whose queue.add has not run yet
  deleting,      \* deletes that checked the status and have not deleted yet
  crashes        \* crashes so far

\* The queue: the compute job of a report carries the report's identity.
INSTANCE BullQueue WITH Jobs <- Reports

rowVars    == <<status, request, occurrence, stale>>
jobVars    == <<job, attemptsMade, stalls, lock>>
workerVars == <<phase, at, attempt, next>>
apiVars    == <<toEnqueue, deleting>>
vars == <<rowVars, jobVars, workerVars, apiVars, crashes>>

Statuses  == {"PENDING", "PROCESSING", "READY", "FAILED", "CANCELLED"}
Phases    == {"idle", "read", "claim", "reload", "compute", "write",
              "schedule", "enqueue", "catch", "throw", "finish"}

\* The phases of a worker that believes it has claimed the report and has
\* not written the outcome yet.
Claiming == {"reload", "compute", "write", "catch"}

Rows      == {r \in Reports : status[r] \in Statuses}
Faulty(f) == f \in Faults
Prompt    == ~Faulty("slow")

TypeOK ==
  /\ status \in [Reports -> Statuses \cup {"ABSENT", "DELETED"}]
  /\ request \in [Reports -> Requests \cup {None}]
  /\ occurrence \in [Reports -> 0..MaxOccurrence]
  /\ stale \subseteq Reports
  /\ QueueTypeOK
  /\ phase \in [Workers -> Phases]
  /\ at \in [Workers -> Reports \cup {None}]
  /\ attempt \in [Workers -> 0..MaxAttempts]
  /\ next \in [Workers -> Reports \cup {None}]
  /\ toEnqueue \subseteq Reports
  /\ deleting \subseteq Reports
  /\ crashes \in 0..MaxCrashes

Init ==
  /\ status = [r \in Reports |-> "ABSENT"]
  /\ request = [r \in Reports |-> None]
  /\ occurrence = [r \in Reports |-> 0]
  /\ stale = {}
  /\ QueueInit
  /\ phase = [w \in Workers |-> "idle"]
  /\ at = [w \in Workers |-> None]
  /\ attempt = [w \in Workers |-> 0]
  /\ next = [w \in Workers |-> None]
  /\ toEnqueue = {}
  /\ deleting = {}
  /\ crashes = 0

-----------------------------------------------------------------------------
(* Statements on the reports table. *)

\* UPDATE reports SET status = s WHERE id = r: no row, no effect.  Every
\* update refreshes updated_at.
SetStatus(r, s) ==
  /\ status' = IF r \in Rows THEN [status EXCEPT ![r] = s] ELSE status
  /\ stale' = stale \ {r}

\* Faulty variant: the update without its status condition.
SetStatusUnguarded(r, s) == r \in Rows /\ SetStatus(r, s)

\* The conditional update that only leaves PENDING.
SetStatusIfPending(r, s) ==
  /\ status[r] = "PENDING"
  /\ SetStatus(r, s)

\* INSERT a PENDING row for occurrence k of request q under a new uuid.
Insert(r, q, k) ==
  /\ status[r] = "ABSENT"
  /\ status' = [status EXCEPT ![r] = "PENDING"]
  /\ request' = [request EXCEPT ![r] = q]
  /\ occurrence' = [occurrence EXCEPT ![r] = k]
  /\ UNCHANGED stale

\* @Unique(['seriesId', 'occurrence']): the insert would be refused.
OccurrenceTaken(q, k) ==
  \E r \in Rows : request[r] = q /\ occurrence[r] = k

-----------------------------------------------------------------------------
(* The workers of the queue. *)

\* A worker takes a job and keeps its own copy of attemptsMade.
Take(w, r) ==
  /\ phase[w] = "idle"
  /\ LockJob(w, r)
  /\ phase' = [phase EXCEPT ![w] = "read"]
  /\ at' = [at EXCEPT ![w] = r]
  /\ attempt' = [attempt EXCEPT ![w] = attemptsMade[r]]
  /\ UNCHANGED <<rowVars, next, apiVars, crashes>>

Rest(w) ==
  /\ phase' = [phase EXCEPT ![w] = "idle"]
  /\ at' = [at EXCEPT ![w] = None]
  /\ attempt' = [attempt EXCEPT ![w] = 0]
  /\ next' = [next EXCEPT ![w] = None]

Return(w) == CompleteJob(w, at[w]) /\ Rest(w)
Raise(w)  == FailJob(w, at[w]) /\ Rest(w)

\* BullMQ finds the job of a dead worker, or one whose lock was not renewed.
Stall(r) ==
  /\ lock[r] = None \/ Faulty("lockLost")
  /\ StallJob(r)
  /\ UNCHANGED <<rowVars, workerVars, apiVars, crashes>>

\* The process of w dies between two awaits.
Crash(w) ==
  /\ Faulty("crash")
  /\ phase[w] # "idle"
  /\ crashes < MaxCrashes
  /\ crashes' = crashes + 1
  /\ DropLocks({w})
  /\ Rest(w)
  /\ UNCHANGED <<rowVars, apiVars>>

-----------------------------------------------------------------------------
(* handleComputeReport, one action per await. *)

GoTo(w, p) ==
  /\ phase' = [phase EXCEPT ![w] = p]
  /\ UNCHANGED <<at, attempt, next>>

\* getReportById: a missing row or a status other than PENDING throws, and
\* so does a failed query: the attempt is used up.
Read(w) ==
  /\ phase[w] = "read"
  /\ \/ /\ status[at[w]] = "PENDING"
        /\ GoTo(w, "claim")
        /\ UNCHANGED jobVars
     \/ /\ status[at[w]] # "PENDING" \/ Faulty("dbError")
        /\ Raise(w)
  /\ UNCHANGED <<rowVars, apiVars, crashes>>

\* The atomic claim.  A lost claim ends the job quietly; an error of the
\* statement is thrown outside the try block.
Claim(w) ==
  LET r == at[w] IN
  /\ phase[w] = "claim"
  /\ \/ /\ SetStatusIfPending(r, "PROCESSING")
        /\ GoTo(w, "reload")
        /\ UNCHANGED jobVars
     \/ /\ status[r] # "PENDING"
        /\ Return(w)
        /\ UNCHANGED <<status, stale>>
     \/ /\ Faulty("dbError")
        /\ Raise(w)
        /\ UNCHANGED <<status, stale>>
     \/ /\ Faulty("lostAck")
        /\ SetStatusIfPending(r, "PROCESSING")
        /\ Raise(w)
  /\ UNCHANGED <<request, occurrence, apiVars, crashes>>

\* updateReportStatus re-reads the row it has just claimed; a row deleted in
\* between looks like a lost claim.
Reload(w) ==
  /\ phase[w] = "reload"
  /\ \/ /\ at[w] \in Rows
        /\ GoTo(w, "compute")
        /\ UNCHANGED jobVars
     \/ /\ at[w] \notin Rows
        /\ Return(w)
     \/ /\ Faulty("dbError")
        /\ Raise(w)
  /\ UNCHANGED <<rowVars, apiVars, crashes>>

\* processReport: the computation succeeds or throws into the catch block.
Compute(w) ==
  /\ phase[w] = "compute"
  /\ \E p \in {"write", "catch"} : GoTo(w, p)
  /\ UNCHANGED <<rowVars, jobVars, apiVars, crashes>>

\* updateReport with the result: unconditional, and a missing row is not an
\* error.  Then the next occurrence of a recurring report is scheduled.
WriteReady(w) ==
  LET r == at[w] IN
  /\ phase[w] = "write"
  /\ \/ /\ SetStatus(r, "READY")
        /\ GoTo(w, IF request[r] \in Recurring THEN "schedule" ELSE "finish")
     \/ /\ Faulty("dbError")
        /\ GoTo(w, "catch")
        /\ UNCHANGED <<status, stale>>
     \/ /\ Faulty("lostAck")
        /\ SetStatus(r, "READY")
        /\ GoTo(w, "catch")
  /\ UNCHANGED <<request, occurrence, jobVars, apiVars, crashes>>

\* Faulty variant: the next occurrence gets the number of this one.
CreateSame(w) ==
  LET q == request[at[w]]
      k == occurrence[at[w]]
  IN
  /\ phase[w] = "schedule"
  /\ \/ \E r \in Reports : /\ ~OccurrenceTaken(q, k)
                            /\ Insert(r, q, k)
     \/ OccurrenceTaken(q, k) /\ UNCHANGED rowVars
  /\ GoTo(w, "finish")
  /\ UNCHANGED <<jobVars, apiVars, crashes>>

\* generateNewSeriesReport, the insert.  The inner try block swallows any
\* error, the unique violation included.  An occurrence past the bound is
\* not explored.
CreateNext(w) ==
  LET q == request[at[w]]
      k == occurrence[at[w]] + 1
  IN
  /\ phase[w] = "schedule"
  /\ \/ \E r \in Reports :
          /\ k <= MaxOccurrence
          /\ ~OccurrenceTaken(q, k)
          /\ Insert(r, q, k)
          /\ \/ /\ phase' = [phase EXCEPT ![w] = "enqueue"]
                /\ next' = [next EXCEPT ![w] = r]
                /\ UNCHANGED <<at, attempt>>
             \/ /\ Faulty("lostAck")
                /\ GoTo(w, "finish")
     \/ /\ k > MaxOccurrence \/ OccurrenceTaken(q, k) \/ Faulty("dbError")
        /\ GoTo(w, "finish")
        /\ UNCHANGED rowVars
  /\ UNCHANGED <<jobVars, apiVars, crashes>>

\* Faulty variant: without the inner try block.
EnqueueNextUncaught(w) ==
  /\ phase[w] = "enqueue"
  /\ \/ AddJob(next[w]) /\ phase' = [phase EXCEPT ![w] = "finish"]
     \/ /\ Faulty("queueError")
        /\ phase' = [phase EXCEPT ![w] = "catch"]
        /\ UNCHANGED jobVars
  /\ next' = [next EXCEPT ![w] = None]
  /\ UNCHANGED <<rowVars, at, attempt, apiVars, crashes>>

\* generateNewSeriesReport, the queue.add, whose failure is swallowed too.
EnqueueNext(w) ==
  /\ phase[w] = "enqueue"
  /\ \/ AddJob(next[w])
     \/ Faulty("queueError") /\ UNCHANGED jobVars
  /\ phase' = [phase EXCEPT ![w] = "finish"]
  /\ next' = [next EXCEPT ![w] = None]
  /\ UNCHANGED <<rowVars, at, attempt, apiVars, crashes>>

\* Faulty variant: isLastAttempt one attempt too early.
LastAttemptEarly(w) == attempt[w] + 1 >= MaxAttempts - 1

\* isLastAttempt, from the worker's copy of the job.
IsLastAttempt(w) == attempt[w] >= MaxAttempts - 1

\* Faulty variant: the report is left PROCESSING when the attempt failed.
CatchWithoutWrite(w) ==
  /\ phase[w] = "catch"
  /\ GoTo(w, "throw")
  /\ UNCHANGED <<rowVars, jobVars, apiVars, crashes>>

\* The catch block: FAILED on the last attempt, back to PENDING before it;
\* unconditional in both cases.
Catch(w) ==
  /\ phase[w] = "catch"
  /\ \/ SetStatus(at[w], IF IsLastAttempt(w) THEN "FAILED" ELSE "PENDING")
     \/ Faulty("dbError") /\ UNCHANGED <<status, stale>>
  /\ GoTo(w, "throw")
  /\ UNCHANGED <<request, occurrence, jobVars, apiVars, crashes>>

Throw(w) ==
  /\ phase[w] = "throw"
  /\ Raise(w)
  /\ UNCHANGED <<rowVars, apiVars, crashes>>

Finish(w) ==
  /\ phase[w] = "finish"
  /\ Return(w)
  /\ UNCHANGED <<rowVars, apiVars, crashes>>

WorkerStep(w) ==
  \/ Read(w) \/ Claim(w) \/ Reload(w) \/ Compute(w) \/ WriteReady(w)
  \/ CreateNext(w) \/ EnqueueNext(w) \/ Catch(w) \/ Throw(w) \/ Finish(w)

-----------------------------------------------------------------------------
(* ReportsCron: every run resets all rows whose updated_at is too old. *)

\* Time passes: a PROCESSING row gets older than the threshold.  A prompt
\* worker is done with the report before that.
Age(r) ==
  /\ status[r] = "PROCESSING"
  /\ r \notin stale
  /\ Prompt => \A w \in Workers : ~(at[w] = r /\ phase[w] \in Claiming)
  /\ stale' = stale \cup {r}
  /\ UNCHANGED <<status, request, occurrence, jobVars, workerVars, apiVars,
                 crashes>>

ResetStalled ==
  LET old == {r \in stale : status[r] = "PROCESSING"} IN
  /\ old # {}
  /\ status' = [r \in Reports |-> IF r \in old THEN "PENDING" ELSE status[r]]
  /\ stale' = stale \ old
  /\ UNCHANGED <<request, occurrence, jobVars, workerVars, apiVars, crashes>>

-----------------------------------------------------------------------------
(* The API handlers. *)

\* generateReport, the insert: a recurring request starts a series at 1.
Generate(q) ==
  /\ \A r \in Reports : request[r] # q
  /\ \E r \in Reports :
       /\ Insert(r, q, IF q \in Recurring THEN 1 ELSE 0)
       /\ toEnqueue' = toEnqueue \cup {r}
  /\ UNCHANGED <<jobVars, workerVars, deleting, crashes>>

\* generateReport, the queue.add.  The row stays when it fails or when the
\* process dies before it.
Enqueue(r) ==
  /\ r \in toEnqueue
  /\ toEnqueue' = toEnqueue \ {r}
  /\ \/ AddJob(r)
     \/ (Faulty("queueError") \/ Faulty("crash")) /\ UNCHANGED jobVars
  /\ UNCHANGED <<rowVars, workerVars, deleting, crashes>>

\* Faulty variant: cancelling whatever the status is.
CancelAny(r) ==
  /\ r \in Rows
  /\ SetStatus(r, "CANCELLED")
  /\ UNCHANGED <<request, occurrence, jobVars, workerVars, apiVars, crashes>>

\* cancelReports: the pre-read only checks existence and ownership.
Cancel(r) ==
  /\ SetStatusIfPending(r, "CANCELLED")
  /\ UNCHANGED <<request, occurrence, jobVars, workerVars, apiVars, crashes>>

\* deleteReports refuses a PROCESSING report on what it read ...
DeleteCheck(r) ==
  /\ r \in Rows
  /\ status[r] # "PROCESSING"
  /\ deleting' = deleting \cup {r}
  /\ UNCHANGED <<rowVars, jobVars, workerVars, toEnqueue, crashes>>

\* ... and then deletes the row whatever its status has become.
Delete(r) ==
  /\ r \in deleting
  /\ deleting' = deleting \ {r}
  /\ SetStatus(r, "DELETED")
  /\ UNCHANGED <<request, occurrence, jobVars, workerVars, toEnqueue, crashes>>

-----------------------------------------------------------------------------
Next ==
  \/ \E w \in Workers : WorkerStep(w) \/ Crash(w)
  \/ \E w \in Workers, r \in Reports : Take(w, r)
  \/ \E r \in Reports : Stall(r) \/ Age(r)
  \/ ResetStalled
  \/ \E q \in Requests : Generate(q)
  \/ \E r \in Reports : Enqueue(r) \/ Cancel(r) \/ DeleteCheck(r) \/ Delete(r)

Spec == Init /\ [][Next]_vars

\* The event loop runs every handler that has been called, idle workers take
\* jobs that wait, BullMQ looks for stalled jobs and the cron fires.  Nothing
\* forces a user to act, nor a fault to happen.
Fairness ==
  /\ \A w \in Workers : WF_vars(WorkerStep(w))
  /\ \A r \in Reports : /\ WF_vars(\E w \in Workers : Take(w, r))
                        /\ WF_vars(Stall(r))
                        /\ WF_vars(Age(r))
                        /\ WF_vars(Enqueue(r))
                        /\ WF_vars(Delete(r))
  /\ WF_vars(ResetStalled)

FairSpec == Spec /\ Fairness

-----------------------------------------------------------------------------
(* Properties. *)

Holds(w, r) == at[w] = r /\ phase[w] \in Claiming

\* The claim in updateReportStatus gives a report to one worker at a time:
\* no two workers compute the same report, even when its job is delivered
\* twice or the recovery cron runs, as long as live workers are prompt.
SingleClaim ==
  \A w1, w2 \in Workers, r \in Reports :
    Holds(w1, r) /\ Holds(w2, r) => w1 = w2

\* A series has at most one occurrence that is still to be delivered: the
\* next one is only created when handleComputeReport has written READY.
OneOpenOccurrence ==
  \A r1, r2 \in Reports :
    /\ status[r1] \in {"PENDING", "PROCESSING"}
    /\ status[r2] \in {"PENDING", "PROCESSING"}
    /\ request[r1] = request[r2]
    => r1 = r2

\* The isLastAttempt branch: the user sees FAILED only when the job is on its
\* last attempt, never while BullMQ still has retries for it.
FailedOnLastAttempt ==
  \A r \in Reports :
    status[r] = "FAILED" => attemptsMade[r] >= MaxAttempts - 1

\* PATCH /reports/:id/cancel: a report that was cancelled is never computed,
\* failed or put back to PENDING by a worker that had it in hand.
CancelledIsFinal ==
  [][\A r \in Reports : status[r] = "CANCELLED" =>
       status'[r] \in {"CANCELLED", "DELETED"}]_vars

Settled(r) == status[r] \in {"READY", "FAILED", "CANCELLED", "DELETED"}

\* Every report that was requested is eventually delivered, failed, cancelled
\* or deleted.
Settles ==
  \A r \in Reports : status[r] = "PENDING" ~> Settled(r)

\* A delivered occurrence of a series is followed by the next one.
SeriesContinues ==
  \A r \in Reports :
    /\ status[r] = "READY"
    /\ request[r] \in Recurring
    /\ occurrence[r] < MaxOccurrence
    ~> \E n \in Reports : /\ request[n] = request[r]
                          /\ occurrence[n] = occurrence[r] + 1

\* What Settles and SeriesContinues rest on: a report that is not settled is
\* about to be enqueued, waits in the queue, or is in the hands of a worker
\* that has its lock and will write its outcome; and a delivered occurrence
\* whose successor is missing is with the worker that creates it.
InHand(r) ==
  \E w \in Workers : /\ lock[r] = w /\ at[w] = r
                     /\ phase[w] \in {"read", "claim", "throw"} \cup Claiming

NothingStranded ==
  \A r \in Reports :
    /\ status[r] \in {"PENDING", "PROCESSING"} =>
         \/ r \in toEnqueue \/ \E w \in Workers : next[w] = r
         \/ job[r] = "waiting" \/ InHand(r)
    /\ status[r] = "READY" /\ request[r] \in Recurring /\ occurrence[r] < MaxOccurrence =>
         \/ \E n \in Reports : request[n] = request[r] /\ occurrence[n] = occurrence[r] + 1
         \/ \E w \in Workers : lock[r] = w /\ at[w] = r /\ phase[w] = "schedule"

\* ReportsCron and resetStalledProcessingReports say that a report orphaned
\* by a crashed worker is reset "so the next scheduled job can pick it up
\* again": an orphan is eventually settled.
OrphanIsRetried ==
  \A r \in Reports :
    status[r] = "PROCESSING" /\ ~(\E w \in Workers : Holds(w, r)) ~> Settled(r)

-----------------------------------------------------------------------------
(* Implementation of the abstract life cycle. *)

Lifecycle == INSTANCE ReportLifecycle

\* The pipeline implements ReportLifecycle when no acknowledgement is lost
\* and live workers are prompt: whatever crashes or fails, a client never
\* sees a status that leads back from READY, FAILED or CANCELLED.
ImplementsLifecycle == Lifecycle!Spec

=============================================================================
