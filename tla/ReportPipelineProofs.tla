------------------------ MODULE ReportPipelineProofs ------------------------
(***************************************************************************)
(* Proofs about ReportPipeline, for every number of reports, requests,     *)
(* workers, attempts and crashes.                                          *)
(***************************************************************************)
EXTENDS ReportPipeline, TLAPS

(***************************************************************************)
(* The bookkeeping of the queue that makes the type invariant inductive: a *)
(* job is added once, only an active job is locked, and a job that may     *)
(* still run has an attempt left.                                          *)
(***************************************************************************)
JobInv ==
  \A r \in Reports :
    /\ status[r] = "ABSENT" => job[r] = "none"
    /\ job[r] \in {"none", "waiting", "active"} => attemptsMade[r] < MaxAttempts
    /\ lock[r] # None => job[r] = "active"
    /\ r \in toEnqueue => job[r] = "none" /\ status[r] # "ABSENT"

NextInv ==
  \A w \in Workers :
    /\ phase[w] # "idle" => at[w] \in Reports
    /\ phase[w] = "enqueue" => next[w] \in Reports
    /\ next[w] \in Reports =>
         /\ phase[w] = "enqueue"
         /\ job[next[w]] = "none"
         /\ status[next[w]] # "ABSENT"
         /\ next[w] \notin toEnqueue
    /\ \A v \in Workers : next[v] = next[w] /\ next[w] \in Reports => v = w

PipelineInv == TypeOK /\ JobInv /\ NextInv

LEMMA InitPipelineInv == Init => PipelineInv
  BY PipelineAssumption DEF Init, QueueInit, PipelineInv, TypeOK, QueueTypeOK, JobInv, NextInv,
     Statuses, JobStates, Phases

\* A handler that returns or throws keeps the invariant.
LEMMA ReturnInv ==
  ASSUME PipelineInv, NEW w \in Workers, phase[w] # "idle", phase[w] # "enqueue",
         Return(w), UNCHANGED <<rowVars, apiVars, crashes>>
  PROVE  PipelineInv'
  BY PipelineAssumption DEF PipelineInv, TypeOK, QueueTypeOK, JobInv, NextInv, Return, CompleteJob,
     Rest, rowVars, apiVars, JobStates, Phases

LEMMA RaiseInv ==
  ASSUME PipelineInv, NEW w \in Workers, phase[w] # "idle", phase[w] # "enqueue",
         Raise(w), UNCHANGED <<rowVars, apiVars, crashes>>
  PROVE  PipelineInv'
  BY PipelineAssumption DEF PipelineInv, TypeOK, QueueTypeOK, JobInv, NextInv, Raise, FailJob,
     Rest, rowVars, apiVars, JobStates, Phases

LEMMA StepPipelineInv == PipelineInv /\ [Next]_vars => PipelineInv'
  <1> SUFFICES ASSUME PipelineInv, [Next]_vars
               PROVE  PipelineInv'
    OBVIOUS
  <1> USE PipelineAssumption
  <1>1. ASSUME NEW w \in Workers, Read(w)
        PROVE  PipelineInv'
    <2>1. CASE GoTo(w, "claim") /\ UNCHANGED jobVars
      BY <1>1, <2>1 DEF Read, GoTo, PipelineInv, TypeOK, QueueTypeOK, JobInv, NextInv,
         rowVars, jobVars, apiVars, Phases
    <2>2. CASE Raise(w)
      BY <1>1, <2>2, RaiseInv DEF Read
    <2> QED
      BY <1>1, <2>1, <2>2 DEF Read
  <1>2. ASSUME NEW w \in Workers, Claim(w)
        PROVE  PipelineInv'
    <2>1. CASE SetStatusIfPending(at[w], "PROCESSING") /\ GoTo(w, "reload")
                 /\ UNCHANGED jobVars
      BY <1>2, <2>1 DEF Claim, GoTo, SetStatusIfPending, SetStatus, PipelineInv,
         TypeOK, QueueTypeOK, JobInv, NextInv, jobVars, apiVars, Phases, Statuses
    <2>2. CASE Return(w) /\ UNCHANGED <<status, stale>>
      BY <1>2, <2>2, ReturnInv DEF Claim, rowVars
    <2>3. CASE Raise(w) /\ UNCHANGED <<status, stale>>
      BY <1>2, <2>3, RaiseInv DEF Claim, rowVars
    <2>4. CASE SetStatusIfPending(at[w], "PROCESSING") /\ Raise(w)
      BY <1>2, <2>4 DEF Claim, Raise, FailJob, Rest, SetStatusIfPending, SetStatus,
         PipelineInv, TypeOK, QueueTypeOK, JobInv, NextInv, apiVars, Phases, Statuses,
         JobStates
    <2> QED
      BY <1>2, <2>1, <2>2, <2>3, <2>4 DEF Claim
  <1>3. ASSUME NEW w \in Workers, Reload(w)
        PROVE  PipelineInv'
    <2>1. CASE GoTo(w, "compute") /\ UNCHANGED jobVars
      BY <1>3, <2>1 DEF Reload, GoTo, PipelineInv, TypeOK, QueueTypeOK, JobInv, NextInv,
         rowVars, jobVars, apiVars, Phases
    <2>2. CASE Raise(w)
      BY <1>3, <2>2, RaiseInv DEF Reload
    <2>3. CASE Return(w)
      BY <1>3, <2>3, ReturnInv DEF Reload
    <2> QED
      BY <1>3, <2>1, <2>2, <2>3 DEF Reload
  <1>4. ASSUME NEW w \in Workers, Compute(w)
        PROVE  PipelineInv'
    BY <1>4 DEF Compute, GoTo, PipelineInv, TypeOK, QueueTypeOK, JobInv, NextInv,
       rowVars, jobVars, apiVars, Phases
  <1>5. ASSUME NEW w \in Workers, WriteReady(w)
        PROVE  PipelineInv'
    BY <1>5 DEF WriteReady, GoTo, SetStatus, PipelineInv, TypeOK, QueueTypeOK, JobInv,
       NextInv, jobVars, apiVars, Phases, Statuses, Rows
  <1>6. ASSUME NEW w \in Workers, CreateNext(w)
        PROVE  PipelineInv'
    <2>1. CASE \E r \in Reports :
                 /\ occurrence[at[w]] + 1 <= MaxOccurrence
                 /\ Insert(r, request[at[w]], occurrence[at[w]] + 1)
                 /\ phase' = [phase EXCEPT ![w] = "enqueue"]
                 /\ next' = [next EXCEPT ![w] = r]
                 /\ UNCHANGED <<at, attempt>>
      <3>1. PICK r \in Reports :
                 /\ occurrence[at[w]] + 1 <= MaxOccurrence
                 /\ Insert(r, request[at[w]], occurrence[at[w]] + 1)
                 /\ phase' = [phase EXCEPT ![w] = "enqueue"]
                 /\ next' = [next EXCEPT ![w] = r]
                 /\ UNCHANGED <<at, attempt>>
        BY <2>1
      <3>2. UNCHANGED <<jobVars, apiVars, crashes>> /\ at[w] \in Reports
        BY <1>6 DEF CreateNext, PipelineInv, NextInv
      <3>3. TypeOK'
        BY <3>1, <3>2 DEF Insert, PipelineInv, TypeOK, QueueTypeOK, jobVars, apiVars,
           Phases, Statuses
      <3>4. JobInv'
        BY <3>1, <3>2 DEF Insert, PipelineInv, TypeOK, QueueTypeOK, JobInv, jobVars, apiVars
      <3>5. \A v \in Workers : next[v] # r
        BY <3>1 DEF Insert, PipelineInv, NextInv
      <3>6. NextInv'
        BY <3>1, <3>2, <3>5 DEF Insert, PipelineInv, TypeOK, QueueTypeOK, NextInv, JobInv,
           jobVars, apiVars, Phases
      <3> QED
        BY <3>3, <3>4, <3>6 DEF PipelineInv
    <2>2. CASE \E r \in Reports :
                 /\ occurrence[at[w]] + 1 <= MaxOccurrence
                 /\ Insert(r, request[at[w]], occurrence[at[w]] + 1)
                 /\ GoTo(w, "finish")
      BY <1>6, <2>2 DEF CreateNext, Insert, GoTo, PipelineInv, TypeOK, QueueTypeOK, JobInv,
         NextInv, jobVars, apiVars, Phases, Statuses
    <2>3. CASE GoTo(w, "finish") /\ UNCHANGED rowVars
      BY <1>6, <2>3 DEF CreateNext, GoTo, PipelineInv, TypeOK, QueueTypeOK, JobInv,
         NextInv, rowVars, jobVars, apiVars, Phases
    <2> QED
      BY <1>6, <2>1, <2>2, <2>3 DEF CreateNext
  <1>7. ASSUME NEW w \in Workers, EnqueueNext(w)
        PROVE  PipelineInv'
    BY <1>7 DEF EnqueueNext, AddJob, PipelineInv, TypeOK, QueueTypeOK, JobInv, NextInv,
       rowVars, jobVars, apiVars, Phases, JobStates
  <1>8. ASSUME NEW w \in Workers, Catch(w)
        PROVE  PipelineInv'
    BY <1>8 DEF Catch, GoTo, SetStatus, PipelineInv, TypeOK, QueueTypeOK, JobInv, NextInv,
       jobVars, apiVars, Phases, Statuses, Rows
  <1>9. ASSUME NEW w \in Workers, Throw(w)
        PROVE  PipelineInv'
    BY <1>9, RaiseInv DEF Throw
  <1>10. ASSUME NEW w \in Workers, Finish(w)
         PROVE  PipelineInv'
    BY <1>10, ReturnInv DEF Finish
  <1>11. ASSUME NEW w \in Workers, Crash(w)
         PROVE  PipelineInv'
    BY <1>11 DEF Crash, DropLocks, Rest, PipelineInv, TypeOK, QueueTypeOK, JobInv, NextInv, rowVars,
       apiVars, Phases
  <1>12. ASSUME NEW w \in Workers, NEW r \in Reports, Take(w, r)
         PROVE  PipelineInv'
    BY <1>12 DEF Take, LockJob, PipelineInv, TypeOK, QueueTypeOK, JobInv, NextInv, rowVars, apiVars,
       Phases, JobStates
  <1>13. ASSUME NEW r \in Reports, Stall(r)
         PROVE  PipelineInv'
    BY <1>13 DEF Stall, StallJob, PipelineInv, TypeOK, QueueTypeOK, JobInv, NextInv, rowVars,
       workerVars, apiVars, JobStates
  <1>14. ASSUME NEW r \in Reports, Age(r)
         PROVE  PipelineInv'
    BY <1>14 DEF Age, PipelineInv, TypeOK, QueueTypeOK, JobInv, NextInv, jobVars,
       workerVars, apiVars
  <1>15. CASE ResetStalled
    BY <1>15 DEF ResetStalled, PipelineInv, TypeOK, QueueTypeOK, JobInv, NextInv, jobVars,
       workerVars, apiVars, Statuses
  <1>16. ASSUME NEW q \in Requests, Generate(q)
         PROVE  PipelineInv'
    BY <1>16 DEF Generate, Insert, PipelineInv, TypeOK, QueueTypeOK, JobInv, NextInv,
       jobVars, workerVars, Statuses
  <1>17. ASSUME NEW r \in Reports, Enqueue(r)
         PROVE  PipelineInv'
    BY <1>17 DEF Enqueue, AddJob, PipelineInv, TypeOK, QueueTypeOK, JobInv, NextInv,
       rowVars, jobVars, workerVars, JobStates
  <1>18. ASSUME NEW r \in Reports, Cancel(r)
         PROVE  PipelineInv'
    BY <1>18 DEF Cancel, SetStatusIfPending, SetStatus, PipelineInv, TypeOK, QueueTypeOK,
       JobInv, NextInv, jobVars, workerVars, apiVars, Statuses
  <1>19. ASSUME NEW r \in Reports, DeleteCheck(r)
         PROVE  PipelineInv'
    BY <1>19 DEF DeleteCheck, PipelineInv, TypeOK, QueueTypeOK, JobInv, NextInv, rowVars,
       jobVars, workerVars
  <1>20. ASSUME NEW r \in Reports, Delete(r)
         PROVE  PipelineInv'
    BY <1>20 DEF Delete, SetStatus, PipelineInv, TypeOK, QueueTypeOK, JobInv, NextInv,
       jobVars, workerVars, Statuses, Rows
  <1>21. CASE UNCHANGED vars
    BY <1>21 DEF vars, PipelineInv, TypeOK, QueueTypeOK, JobInv, NextInv, rowVars, jobVars,
       workerVars, apiVars
  <1> QED
    BY <1>1, <1>2, <1>3, <1>4, <1>5, <1>6, <1>7, <1>8, <1>9, <1>10, <1>11,
       <1>12, <1>13, <1>14, <1>15, <1>16, <1>17, <1>18, <1>19, <1>20, <1>21
       DEF Next, WorkerStep

\* Every reachable state of the pipeline is well typed: in particular the
\* attempts of a job never exceed MaxAttempts, and a worker that runs always
\* has a report.
THEOREM TypeCorrect == Spec => []TypeOK
  <1>1. PipelineInv => TypeOK
    BY DEF PipelineInv
  <1> QED
    BY <1>1, InitPipelineInv, StepPipelineInv, PTL DEF Spec

-----------------------------------------------------------------------------
(***************************************************************************)
(* Prompt workers.  A row under computation is PROCESSING until its worker *)
(* writes it or the row is deleted, so the conditional claim can only      *)
(* succeed on a report nobody computes; and the cron only ever finds rows  *)
(* nobody computes.  The lock of the job plays no part in the argument.    *)
(***************************************************************************)
ClaimInv ==
  /\ \A w \in Workers : phase[w] \in Claiming =>
       \/ status[at[w]] \in {"PROCESSING", "DELETED"}
       \/ phase[w] = "catch" /\ status[at[w]] = "READY"
  /\ \A r \in stale :
       /\ status[r] = "PROCESSING"
       /\ \A w \in Workers : ~Holds(w, r)
  /\ SingleClaim

\* No step of another actor takes a worker into a claiming phase, and none
\* changes the status of a claimed row but to DELETED.
LEMMA ClaimFrame ==
  ASSUME PipelineInv, ClaimInv, stale' \subseteq stale,
         \A w \in Workers : phase'[w] \in Claiming =>
           /\ phase[w] \in Claiming /\ at'[w] = at[w]
           /\ phase[w] = "catch" => phase'[w] = "catch",
         \A r \in Reports :
           \/ status'[r] = status[r]
           \/ r \notin stale' /\ \A w \in Workers : ~Holds(w, r)'
           \/ r \notin stale' /\ status'[r] = "DELETED"
  PROVE  ClaimInv'
  <1> USE DEF PipelineInv, TypeOK, QueueTypeOK, NextInv, ClaimInv, Holds, Claiming, SingleClaim
  <1>1. ASSUME NEW w \in Workers, phase'[w] \in Claiming
        PROVE  \/ status'[at'[w]] \in {"PROCESSING", "DELETED"}
               \/ phase'[w] = "catch" /\ status'[at'[w]] = "READY"
    <2>1. at[w] \in Reports /\ at'[w] = at[w] /\ phase[w] \in Claiming
      BY <1>1
    <2> QED
      BY <1>1, <2>1
  <1>2. ASSUME NEW r \in stale'
        PROVE  status'[r] = "PROCESSING" /\ \A w \in Workers : ~Holds(w, r)'
    BY <1>2
  <1>3. SingleClaim'
    BY DEF SingleClaim
  <1> QED
    BY <1>1, <1>2, <1>3

\* The steps of a worker on the report it has claimed.
LEMMA ClaimStep ==
  ASSUME PipelineInv, ClaimInv, NEW w \in Workers, phase[w] # "idle",
         \A v \in Workers \ {w} : phase'[v] = phase[v] /\ at'[v] = at[v],
         \A r \in Reports \ {at[w]} : status'[r] = status[r],
         stale' \subseteq stale,
         at[w] \in stale' => status'[at[w]] = status[at[w]] /\ phase'[w] \notin Claiming,
         phase'[w] \in Claiming =>
           /\ at'[w] = at[w]
           /\ \/ status'[at[w]] \in {"PROCESSING", "DELETED"}
              \/ phase'[w] = "catch" /\ status'[at[w]] = "READY",
         \/ phase[w] \in Claiming
         \/ status[at[w]] = "PENDING"
  PROVE  ClaimInv'
  <1> USE DEF PipelineInv, TypeOK, QueueTypeOK, NextInv, ClaimInv, Holds, Claiming, SingleClaim
  <1>1. ASSUME NEW v \in Workers, phase'[v] \in Claiming
        PROVE  \/ status'[at'[v]] \in {"PROCESSING", "DELETED"}
               \/ phase'[v] = "catch" /\ status'[at'[v]] = "READY"
    <2>1. CASE v = w
      BY <1>1, <2>1
    <2>2. CASE v # w
      <3>1. phase[v] \in Claiming /\ phase'[v] = phase[v] /\ at'[v] = at[v]
            /\ at[v] \in Reports
        BY <1>1, <2>2
      <3>2. at[v] # at[w]
        BY <2>2, <3>1
      <3> QED
        BY <3>1, <3>2
    <2> QED
      BY <2>1, <2>2
  <1>2. ASSUME NEW r \in stale'
        PROVE  status'[r] = "PROCESSING" /\ \A v \in Workers : ~Holds(v, r)'
    BY <1>2
  <1>3. ASSUME NEW v \in Workers, phase'[v] \in Claiming, v # w,
               phase'[w] \in Claiming
        PROVE  at'[v] # at'[w]
    BY <1>3
  <1>4. SingleClaim'
    BY <1>3
  <1> QED
    BY <1>1, <1>2, <1>4

LEMMA StepClaimInv ==
  ASSUME Prompt, PipelineInv, ClaimInv, [Next]_vars
  PROVE  ClaimInv'
  <1> USE DEF PipelineInv, TypeOK, QueueTypeOK, NextInv
  <1>1. ASSUME NEW w \in Workers, phase[w] # "idle",
               Return(w) \/ Raise(w), UNCHANGED <<status, stale>>
        PROVE  ClaimInv'
    BY <1>1, ClaimFrame DEF Return, CompleteJob, Raise, FailJob, Rest, Claiming
  <1>2. ASSUME NEW w \in Workers, Read(w) \/ Throw(w) \/ Finish(w)
        PROVE  ClaimInv'
    <2>1. CASE GoTo(w, "claim") /\ UNCHANGED rowVars
      BY <2>1, ClaimFrame DEF GoTo, rowVars, Claiming
    <2> QED
      BY <1>1, <1>2, <2>1 DEF Read, Throw, Finish, rowVars
  <1>3. ASSUME NEW w \in Workers, Claim(w)
        PROVE  ClaimInv'
    <2>1. CASE SetStatusIfPending(at[w], "PROCESSING") /\ GoTo(w, "reload")
      BY <1>3, <2>1, ClaimStep DEF Claim, SetStatusIfPending, SetStatus, GoTo,
         Claiming, Rows, Statuses
    <2>2. CASE SetStatusIfPending(at[w], "PROCESSING") /\ Raise(w)
      BY <1>3, <2>2, ClaimStep DEF Claim, SetStatusIfPending, SetStatus,
         Raise, FailJob, Rest, Claiming, Rows
    <2> QED
      BY <1>1, <1>3, <2>1, <2>2 DEF Claim
  <1>4. ASSUME NEW w \in Workers, Reload(w)
        PROVE  ClaimInv'
    <2>1. CASE GoTo(w, "compute") /\ UNCHANGED rowVars
      BY <1>4, <2>1, ClaimFrame DEF Reload, GoTo, rowVars, Claiming
    <2> QED
      BY <1>1, <1>4, <2>1 DEF Reload, rowVars
  <1>5. ASSUME NEW w \in Workers, Compute(w)
        PROVE  ClaimInv'
    BY <1>5, ClaimFrame DEF Compute, GoTo, rowVars, Claiming
  <1>6. ASSUME NEW w \in Workers, WriteReady(w)
        PROVE  ClaimInv'
    BY <1>6, ClaimStep DEF WriteReady, SetStatus, GoTo, ClaimInv, Claiming,
       Holds, Rows, Statuses
  <1>7. ASSUME NEW w \in Workers, CreateNext(w)
        PROVE  ClaimInv'
    <2>1. CASE GoTo(w, "finish") /\ UNCHANGED rowVars
      BY <1>7, <2>1, ClaimFrame DEF CreateNext, GoTo, rowVars, Claiming
    <2>2. ASSUME NEW r \in Reports, status[r] = "ABSENT",
                 status' = [status EXCEPT ![r] = "PENDING"], UNCHANGED stale,
                 at' = at, NEW p \in {"enqueue", "finish"},
                 phase' = [phase EXCEPT ![w] = p]
          PROVE  ClaimInv'
      BY <2>2, ClaimFrame DEF ClaimInv, Holds, Claiming
    <2> QED
      BY <1>7, <2>1, <2>2 DEF CreateNext, Insert, GoTo
  <1>8. ASSUME NEW w \in Workers, EnqueueNext(w)
        PROVE  ClaimInv'
    BY <1>8, ClaimFrame DEF EnqueueNext, rowVars, Claiming
  <1>9. ASSUME NEW w \in Workers, Catch(w)
        PROVE  ClaimInv'
    BY <1>9, ClaimStep DEF Catch, SetStatus, GoTo, Claiming, Rows
  <1>10. ASSUME NEW w \in Workers, Crash(w)
         PROVE  ClaimInv'
    BY <1>10, ClaimFrame DEF Crash, DropLocks, Rest, rowVars, Claiming
  <1>11. ASSUME NEW w \in Workers, NEW r \in Reports, Take(w, r)
         PROVE  ClaimInv'
    BY <1>11, ClaimFrame DEF Take, LockJob, rowVars, Claiming
  <1>12. ASSUME NEW r \in Reports, Stall(r) \/ Enqueue(r) \/ DeleteCheck(r)
         PROVE  ClaimInv'
    BY <1>12, ClaimFrame DEF Stall, StallJob, Enqueue, DeleteCheck, rowVars, workerVars
  <1>13. ASSUME NEW r \in Reports, Age(r)
         PROVE  ClaimInv'
    BY <1>13 DEF Age, Prompt, ClaimInv, Holds, SingleClaim, workerVars
  <1>14. CASE ResetStalled
    BY <1>14, ClaimFrame DEF ResetStalled, ClaimInv, Holds, workerVars
  <1>15. ASSUME NEW q \in Requests, Generate(q)
         PROVE  ClaimInv'
    BY <1>15, ClaimFrame DEF Generate, Insert, ClaimInv, Holds, workerVars
  <1>16. ASSUME NEW r \in Reports, Cancel(r)
         PROVE  ClaimInv'
    BY <1>16, ClaimFrame DEF Cancel, SetStatusIfPending, SetStatus, ClaimInv,
       Holds, workerVars
  <1>17. ASSUME NEW r \in Reports, Delete(r)
         PROVE  ClaimInv'
    BY <1>17, ClaimFrame DEF Delete, SetStatus, workerVars
  <1>18. CASE UNCHANGED vars
    BY <1>18, ClaimFrame DEF vars, rowVars, workerVars
  <1> QED
    BY <1>2, <1>3, <1>4, <1>5, <1>6, <1>7, <1>8, <1>9, <1>10, <1>11, <1>12,
       <1>13, <1>14, <1>15, <1>16, <1>17, <1>18 DEF Next, WorkerStep

PromptInv == PipelineInv /\ ClaimInv

LEMMA PromptInvariant ==
  ASSUME Prompt
  PROVE  Spec => []PromptInv
  <1>1. Init => PromptInv
    BY InitPipelineInv DEF Init, PromptInv, ClaimInv, Claiming, SingleClaim, Holds
  <1>2. PromptInv /\ [Next]_vars => PromptInv'
    BY StepPipelineInv, StepClaimInv DEF PromptInv
  <1> QED
    BY <1>1, <1>2, PTL DEF Spec

\* As long as live workers are prompt, no two of them ever compute the same
\* report, whatever crashes, re-deliveries, failed statements and runs of the
\* recovery cron come in between.
THEOREM ClaimExclusive ==
  ASSUME Prompt
  PROVE  Spec => []SingleClaim
  <1>1. PromptInv => SingleClaim
    BY DEF PromptInv, ClaimInv
  <1> QED
    BY <1>1, PromptInvariant, PTL

\* Under the same condition a cancelled report stays cancelled until it is
\* deleted: no worker, retry or cron run revives it.
THEOREM CancelFinal ==
  ASSUME Prompt
  PROVE  Spec => CancelledIsFinal
  <1> DEFINE Kept == \A r \in Reports : status[r] = "CANCELLED" =>
                       status'[r] \in {"CANCELLED", "DELETED"}
  <1>1. PromptInv /\ [Next]_vars => [Kept]_vars
    <2> SUFFICES ASSUME PromptInv, Next
                 PROVE  Kept
      BY DEF vars
    <2> USE DEF PromptInv, PipelineInv, TypeOK, QueueTypeOK, NextInv
    <2>1. ASSUME NEW w \in Workers, WriteReady(w) \/ Catch(w)
          PROVE  Kept
      BY <2>1 DEF WriteReady, Catch, SetStatus, ClaimInv, Claiming
    <2>2. ASSUME NEW w \in Workers, Claim(w)
          PROVE  Kept
      BY <2>2 DEF Claim, SetStatusIfPending, SetStatus
    <2>3. ASSUME NEW w \in Workers, CreateNext(w)
          PROVE  Kept
      BY <2>3 DEF CreateNext, Insert, rowVars
    <2>4. ASSUME NEW w \in Workers,
                 \/ Read(w) \/ Reload(w) \/ Compute(w) \/ EnqueueNext(w)
                 \/ Throw(w) \/ Finish(w) \/ Crash(w)
          PROVE  Kept
      BY <2>4 DEF Read, Reload, Compute, EnqueueNext, Throw, Finish, Crash,
         rowVars
    <2>5. ASSUME NEW r \in Reports,
                 \/ \E w \in Workers : Take(w, r)
                 \/ Stall(r) \/ Age(r) \/ Enqueue(r) \/ DeleteCheck(r)
          PROVE  Kept
      BY <2>5 DEF Take, LockJob, Stall, Age, Enqueue, DeleteCheck, rowVars
    <2>6. ASSUME NEW r \in Reports, Cancel(r) \/ Delete(r)
          PROVE  Kept
      BY <2>6 DEF Cancel, Delete, SetStatusIfPending, SetStatus
    <2>7. CASE ResetStalled
      BY <2>7 DEF ResetStalled
    <2>8. ASSUME NEW q \in Requests, Generate(q)
          PROVE  Kept
      BY <2>8 DEF Generate, Insert
    <2> QED
      BY <2>1, <2>2, <2>3, <2>4, <2>5, <2>6, <2>7, <2>8 DEF Next, WorkerStep
  <1> QED
    BY <1>1, PromptInvariant, PTL DEF Spec, CancelledIsFinal

-----------------------------------------------------------------------------
(* FAILED and the attempts: a worker's copy of attemptsMade is never ahead *)
(* of the queue's, whatever is re-delivered.                               *)

AttemptInv ==
  /\ \A w \in Workers : phase[w] # "idle" => attempt[w] <= attemptsMade[at[w]]
  /\ FailedOnLastAttempt

LEMMA AttemptFrame ==
  ASSUME PipelineInv, PipelineInv', AttemptInv,
         \A r \in Reports : attemptsMade'[r] >= attemptsMade[r],
         \A w \in Workers : phase'[w] # "idle" =>
           \/ phase[w] # "idle" /\ at'[w] = at[w] /\ attempt'[w] = attempt[w]
           \/ attempt'[w] = attemptsMade[at'[w]],
         \A r \in Reports : status'[r] = "FAILED" =>
           status[r] = "FAILED" \/ attemptsMade[r] >= MaxAttempts - 1
  PROVE  AttemptInv'
  <1> USE PipelineAssumption DEF PipelineInv, TypeOK, QueueTypeOK, NextInv, AttemptInv
  <1>1. ASSUME NEW w \in Workers, phase'[w] # "idle"
        PROVE  attempt'[w] <= attemptsMade'[at'[w]]
    <2>1. at'[w] \in Reports
      BY <1>1
    <2>2. /\ attemptsMade[at'[w]] \in Nat /\ attemptsMade'[at'[w]] \in Nat
          /\ attempt'[w] \in Nat
      BY <2>1
    <2>3. attempt'[w] <= attemptsMade[at'[w]]
      BY <1>1, <2>1, <2>2
    <2> QED
      BY <2>1, <2>2, <2>3
  <1>2. ASSUME NEW r \in Reports, status'[r] = "FAILED"
        PROVE  attemptsMade'[r] >= MaxAttempts - 1
    <2>1. attemptsMade[r] \in Nat /\ attemptsMade'[r] \in Nat
      OBVIOUS
    <2> QED
      BY <1>2, <2>1 DEF FailedOnLastAttempt
  <1> QED
    BY <1>1, <1>2 DEF FailedOnLastAttempt

LEMMA StepAttemptInv == PipelineInv /\ AttemptInv /\ [Next]_vars => AttemptInv'
  <1> SUFFICES ASSUME PipelineInv, AttemptInv, [Next]_vars
               PROVE  AttemptInv'
    OBVIOUS
  <1>0. PipelineInv'
    BY StepPipelineInv
  <1> USE PipelineAssumption DEF PipelineInv, TypeOK, QueueTypeOK, NextInv
  <1>1. ASSUME NEW w \in Workers, phase[w] # "idle", Return(w) \/ Raise(w),
               \A r \in Reports : status'[r] = "FAILED" => status[r] = "FAILED"
        PROVE  AttemptInv'
    <2>1. \A r \in Reports : attemptsMade'[r] >= attemptsMade[r]
      BY <1>1 DEF Return, CompleteJob, Raise, FailJob
    <2>2. \A v \in Workers : phase'[v] # "idle" =>
            phase[v] # "idle" /\ at'[v] = at[v] /\ attempt'[v] = attempt[v]
      BY <1>1 DEF Return, Raise, Rest
    <2> QED
      BY <1>0, <1>1, <2>1, <2>2, AttemptFrame
  <1>2. ASSUME NEW w \in Workers, UNCHANGED attemptsMade,
               phase[w] # "idle", (\E p \in Phases : GoTo(w, p)),
               \A r \in Reports : status'[r] = "FAILED" =>
                 status[r] = "FAILED" \/ attemptsMade[r] >= MaxAttempts - 1
        PROVE  AttemptInv'
    BY <1>0, <1>2, AttemptFrame DEF GoTo
  <1>3. ASSUME NEW w \in Workers,
               Read(w) \/ Reload(w) \/ Compute(w) \/ Throw(w) \/ Finish(w)
        PROVE  AttemptInv'
    BY <1>1, <1>2, <1>3 DEF Read, Reload, Compute, Throw, Finish, rowVars, jobVars, Phases
  <1>4. ASSUME NEW w \in Workers, Claim(w)
        PROVE  AttemptInv'
    BY <1>1, <1>2, <1>4 DEF Claim, SetStatusIfPending, SetStatus, jobVars, Phases
  <1>5. ASSUME NEW w \in Workers, WriteReady(w)
        PROVE  AttemptInv'
    BY <1>2, <1>5 DEF WriteReady, SetStatus, jobVars, Phases
  <1>6. ASSUME NEW w \in Workers, CreateNext(w)
        PROVE  AttemptInv'
    BY <1>0, <1>6, AttemptFrame DEF CreateNext, Insert, GoTo, rowVars, jobVars, Phases
  <1>7. ASSUME NEW w \in Workers, EnqueueNext(w)
        PROVE  AttemptInv'
    BY <1>0, <1>7, AttemptFrame DEF EnqueueNext, AddJob, rowVars, jobVars
  <1>8. ASSUME NEW w \in Workers, Catch(w)
        PROVE  AttemptInv'
    <2>1. /\ phase[w] # "idle" /\ at[w] \in Reports /\ UNCHANGED attemptsMade
          /\ GoTo(w, "throw")
      BY <1>8 DEF Catch, jobVars
    <2>2. IsLastAttempt(w) => attemptsMade[at[w]] >= MaxAttempts - 1
      BY <2>1 DEF IsLastAttempt, AttemptInv
    <2>3. \A r \in Reports : status'[r] = "FAILED" =>
            status[r] = "FAILED" \/ attemptsMade[r] >= MaxAttempts - 1
      BY <1>8, <2>1, <2>2 DEF Catch, SetStatus
    <2> QED
      BY <1>2, <2>1, <2>3 DEF Phases
  <1>9. ASSUME NEW w \in Workers, Crash(w)
        PROVE  AttemptInv'
    BY <1>0, <1>9, AttemptFrame DEF Crash, DropLocks, Rest, rowVars
  <1>10. ASSUME NEW w \in Workers, NEW r \in Reports, Take(w, r)
         PROVE  AttemptInv'
    BY <1>0, <1>10, AttemptFrame DEF Take, LockJob, rowVars
  <1>11. ASSUME NEW r \in Reports,
                Stall(r) \/ Age(r) \/ Enqueue(r) \/ DeleteCheck(r)
         PROVE  AttemptInv'
    <2>1. UNCHANGED <<status, attemptsMade, workerVars>>
      BY <1>11 DEF Stall, StallJob, Age, Enqueue, AddJob, DeleteCheck, rowVars, jobVars
    <2> QED
      BY <1>0, <2>1, AttemptFrame DEF workerVars
  <1>12. ASSUME NEW r \in Reports, Cancel(r) \/ Delete(r)
         PROVE  AttemptInv'
    <2>1. \A s \in Reports : status'[s] = "FAILED" => status[s] = "FAILED"
      BY <1>12 DEF Cancel, Delete, SetStatusIfPending, SetStatus
    <2>2. UNCHANGED <<jobVars, workerVars>>
      BY <1>12 DEF Cancel, Delete
    <2> QED
      BY <1>0, <2>1, <2>2, AttemptFrame DEF jobVars, workerVars
  <1>13. CASE ResetStalled
    <2>1. \A r \in Reports : status'[r] = "FAILED" => status[r] = "FAILED"
      BY <1>13 DEF ResetStalled
    <2>2. UNCHANGED <<jobVars, workerVars>>
      BY <1>13 DEF ResetStalled
    <2> QED
      BY <1>0, <2>1, <2>2, AttemptFrame DEF jobVars, workerVars
  <1>14. ASSUME NEW q \in Requests, Generate(q)
         PROVE  AttemptInv'
    <2>1. \A r \in Reports : status'[r] = "FAILED" => status[r] = "FAILED"
      BY <1>14 DEF Generate, Insert
    <2>2. UNCHANGED <<jobVars, workerVars>>
      BY <1>14 DEF Generate
    <2> QED
      BY <1>0, <2>1, <2>2, AttemptFrame DEF jobVars, workerVars
  <1>15. CASE UNCHANGED vars
    BY <1>0, <1>15, AttemptFrame DEF vars, rowVars, jobVars, workerVars
  <1> QED
    BY <1>3, <1>4, <1>5, <1>6, <1>7, <1>8, <1>9, <1>10, <1>11, <1>12, <1>13,
       <1>14, <1>15 DEF Next, WorkerStep

\* Whatever fails and however late a worker is, a report is FAILED only when
\* its job has used up all attempts but the last.
THEOREM FailedLate == Spec => []FailedOnLastAttempt
  <1>1. Init => AttemptInv
    BY DEF Init, AttemptInv, FailedOnLastAttempt
  <1>2. PipelineInv /\ AttemptInv /\ [Next]_vars => (PipelineInv /\ AttemptInv)'
    BY StepPipelineInv, StepAttemptInv
  <1>3. AttemptInv => FailedOnLastAttempt
    BY DEF AttemptInv
  <1> QED
    BY <1>1, <1>2, <1>3, InitPipelineInv, PTL DEF Spec

-----------------------------------------------------------------------------
(***************************************************************************)
(* Prompt workers and no lost acknowledgement.  A worker that has claimed  *)
(* a report finds it PROCESSING until it writes the outcome itself, and    *)
(* only the worker that wrote READY schedules the next occurrence.  A      *)
(* series therefore has one report on its frontier: an open one, or one in *)
(* the hands of the worker that will create the next.                      *)
(***************************************************************************)
Busy == Claiming \cup {"schedule"}

Open(r) == status[r] \in {"PENDING", "PROCESSING"}

Frontier(r) == Open(r) \/ \E w \in Workers : at[w] = r /\ phase[w] \in Busy

SeriesInv ==
  /\ \A w \in Workers :
       /\ phase[w] \in Claiming => status[at[w]] \in {"PROCESSING", "DELETED"}
       /\ phase[w] = "schedule" =>
            /\ status[at[w]] \in {"READY", "DELETED"}
            /\ request[at[w]] \in Recurring
  /\ \A w, v \in Workers :
       phase[w] \in Busy /\ phase[v] \in Busy /\ at[w] = at[v] => w = v
  /\ \A r1, r2 \in Reports :
       Frontier(r1) /\ Frontier(r2) /\ request[r1] = request[r2] => r1 = r2

\* Steps that move no worker into a busy phase and reopen no report.
LEMMA SeriesFrame ==
  ASSUME PipelineInv, SeriesInv, UNCHANGED request,
         \A w \in Workers : phase'[w] \in Busy =>
           /\ phase[w] \in Busy /\ at'[w] = at[w]
           /\ phase'[w] = "schedule" <=> phase[w] = "schedule",
         \A r \in Reports :
           \/ status'[r] = status[r]
           \/ status'[r] = "DELETED"
           \/ /\ Open(r)' => Frontier(r)
              /\ \A w \in Workers : at[w] = r => phase'[w] \notin Busy
  PROVE  SeriesInv'
  <1> USE DEF PipelineInv, TypeOK, QueueTypeOK, NextInv
  <1>1. ASSUME NEW w \in Workers, phase'[w] \in Busy
        PROVE  /\ at[w] \in Reports /\ at'[w] = at[w]
               /\ status'[at[w]] \in {status[at[w]], "DELETED"}
    BY <1>1 DEF Busy, Claiming
  <1>2. ASSUME NEW w \in Workers
        PROVE  /\ phase'[w] \in Claiming =>
                    status'[at'[w]] \in {"PROCESSING", "DELETED"}
               /\ phase'[w] = "schedule" =>
                    /\ status'[at'[w]] \in {"READY", "DELETED"}
                    /\ request'[at'[w]] \in Recurring
    BY <1>1 DEF SeriesInv, Busy, Claiming
  <1>3. ASSUME NEW w \in Workers, NEW v \in Workers, phase'[w] \in Busy,
               phase'[v] \in Busy, at'[w] = at'[v]
        PROVE  w = v
    BY <1>3 DEF SeriesInv
  <1>4. ASSUME NEW r \in Reports, Frontier(r)'
        PROVE  Frontier(r)
    BY <1>4 DEF Frontier, Open
  <1> QED
    BY <1>2, <1>3, <1>4 DEF SeriesInv

LEMMA StepSeriesInv ==
  ASSUME Prompt, ~Faulty("lostAck"), PromptInv, SeriesInv, [Next]_vars
  PROVE  SeriesInv'
  <1> USE DEF PromptInv, PipelineInv, TypeOK, QueueTypeOK, NextInv
  <1>1. ASSUME NEW w \in Workers, phase[w] # "idle", Return(w) \/ Raise(w),
               UNCHANGED <<status, request>>
        PROVE  SeriesInv'
    <2>1. \A v \in Workers : phase'[v] \in Busy => phase'[v] = phase[v] /\ at'[v] = at[v]
      BY <1>1 DEF Return, Raise, Rest, Busy, Claiming
    <2> QED
      BY <1>1, <2>1, SeriesFrame
  <1>2. ASSUME NEW w \in Workers, GoTo(w, "claim") \/ GoTo(w, "finish"),
               UNCHANGED <<status, request>>
        PROVE  SeriesInv'
    <2>1. \A v \in Workers : phase'[v] \in Busy => phase'[v] = phase[v] /\ at'[v] = at[v]
      BY <1>2 DEF GoTo, Busy, Claiming
    <2> QED
      BY <1>2, <2>1, SeriesFrame
  <1>3. ASSUME NEW w \in Workers, Read(w) \/ Throw(w) \/ Finish(w)
        PROVE  SeriesInv'
    BY <1>1, <1>2, <1>3 DEF Read, Throw, Finish, rowVars
  <1>4. ASSUME NEW w \in Workers, Claim(w)
        PROVE  SeriesInv'
    <2>1. CASE SetStatusIfPending(at[w], "PROCESSING") /\ GoTo(w, "reload")
      <3>1. /\ at[w] \in Reports /\ status[at[w]] = "PENDING" /\ UNCHANGED request
            /\ status' = [status EXCEPT ![at[w]] = "PROCESSING"]
            /\ phase' = [phase EXCEPT ![w] = "reload"] /\ at' = at
        BY <1>4, <2>1 DEF Claim, SetStatusIfPending, SetStatus, GoTo, Rows, Statuses
      <3>2. \A v \in Workers : phase[v] \in Busy => at[v] # at[w]
        BY <3>1 DEF SeriesInv, Busy
      <3>3. \A r \in Reports : Frontier(r)' => Frontier(r)
        BY <3>1 DEF Frontier, Open, Busy
      <3> QED
        BY <3>1, <3>2, <3>3 DEF SeriesInv, Busy, Claiming
    <2> QED
      BY <1>1, <1>4, <2>1 DEF Claim
  <1>5. ASSUME NEW w \in Workers, Reload(w) \/ Compute(w)
        PROVE  SeriesInv'
    <2>1. CASE \E p \in Claiming : GoTo(w, p) /\ phase[w] \in Claiming
      <3>1. \A v \in Workers : phase'[v] \in Busy =>
              /\ phase[v] \in Busy /\ at'[v] = at[v]
              /\ phase'[v] = "schedule" <=> phase[v] = "schedule"
        BY <2>1 DEF GoTo, Busy, Claiming
      <3> QED
        BY <1>5, <3>1, SeriesFrame DEF Reload, Compute, rowVars
    <2> QED
      BY <1>1, <1>5, <2>1 DEF Reload, Compute, rowVars, Claiming
  <1>6. ASSUME NEW w \in Workers, WriteReady(w)
        PROVE  SeriesInv'
    <2>1. at[w] \in Reports /\ phase[w] = "write" /\ UNCHANGED request
          /\ status[at[w]] \in {"PROCESSING", "DELETED"}
      BY <1>6 DEF WriteReady, SeriesInv, Claiming
    <2>2. CASE GoTo(w, "catch") /\ UNCHANGED status
      <3>1. \A v \in Workers : phase'[v] \in Busy =>
              /\ phase[v] \in Busy /\ at'[v] = at[v]
              /\ phase'[v] = "schedule" <=> phase[v] = "schedule"
        BY <2>1, <2>2 DEF GoTo, Busy, Claiming
      <3> QED
        BY <2>1, <2>2, <3>1, SeriesFrame
    <2>3. CASE /\ SetStatus(at[w], "READY")
               /\ GoTo(w, IF request[at[w]] \in Recurring THEN "schedule" ELSE "finish")
      <3>1. /\ status'[at[w]] \in {"READY", "DELETED"}
            /\ \A r \in Reports \ {at[w]} : status'[r] = status[r]
            /\ \A v \in Workers \ {w} : phase'[v] = phase[v]
            /\ at' = at
        BY <2>1, <2>3 DEF SetStatus, GoTo, Rows, Statuses
      <3>2. phase'[w] = IF request[at[w]] \in Recurring THEN "schedule" ELSE "finish"
        BY <2>3 DEF GoTo
      <3>3. \A v \in Workers \ {w} : phase[v] \in Busy => at[v] # at[w] /\ at[v] \in Reports
        BY <2>1 DEF SeriesInv, Busy, Claiming
      <3>4. \A r \in Reports : Frontier(r)' => Frontier(r)
        BY <2>1, <3>1 DEF Frontier, Open, Busy, Claiming
      <3>5. ASSUME NEW v \in Workers
            PROVE  /\ phase'[v] \in Claiming =>
                        status'[at'[v]] \in {"PROCESSING", "DELETED"}
                   /\ phase'[v] = "schedule" =>
                        /\ status'[at'[v]] \in {"READY", "DELETED"}
                        /\ request'[at'[v]] \in Recurring
        BY <2>1, <3>1, <3>2, <3>3 DEF SeriesInv, Busy, Claiming
      <3>6. \A v, u \in Workers :
              phase'[v] \in Busy /\ phase'[u] \in Busy /\ at'[v] = at'[u] => v = u
        BY <2>1, <3>1, <3>3 DEF SeriesInv, Busy, Claiming
      <3> QED
        BY <2>1, <3>4, <3>5, <3>6 DEF SeriesInv
    <2> QED
      BY <1>6, <2>2, <2>3 DEF WriteReady
  <1>7. ASSUME NEW w \in Workers, CreateNext(w)
        PROVE  SeriesInv'
    <2>1. CASE GoTo(w, "finish") /\ UNCHANGED rowVars
      BY <1>2, <2>1 DEF rowVars
    <2>2. ASSUME NEW r \in Reports, NEW k, Insert(r, request[at[w]], k),
                 NEW p \in {"enqueue", "finish"},
                 phase' = [phase EXCEPT ![w] = p], at' = at
          PROVE  SeriesInv'
      <3>1. /\ phase[w] = "schedule" /\ at[w] \in Reports
            /\ status[at[w]] \in {"READY", "DELETED"}
        BY <1>7 DEF CreateNext, SeriesInv
      <3>2. /\ status[r] = "ABSENT"
            /\ status' = [status EXCEPT ![r] = "PENDING"]
            /\ request' = [request EXCEPT ![r] = request[at[w]]]
        BY <2>2 DEF Insert
      <3>3. \A v \in Workers : phase'[v] \in Busy =>
              /\ v # w /\ phase'[v] = phase[v] /\ at[v] \in Reports
              /\ at[v] # r /\ at[v] # at[w]
        BY <2>2, <3>1, <3>2 DEF SeriesInv, Busy, Claiming
      <3>4. \A s \in Reports : Frontier(s)' => s = r \/ (Frontier(s) /\ s # at[w])
        BY <2>2, <3>1, <3>2, <3>3 DEF Frontier, Open
      <3>5. \A s \in Reports \ {r} : Frontier(s)' => request[s] # request[at[w]]
        BY <3>1, <3>4 DEF SeriesInv, Frontier, Busy
      <3>6. \A s, u \in Reports :
              Frontier(s)' /\ Frontier(u)' /\ request'[s] = request'[u] => s = u
        BY <3>1, <3>2, <3>4, <3>5 DEF SeriesInv
      <3> QED
        BY <2>2, <3>2, <3>3, <3>6 DEF SeriesInv, Busy
    <2> QED
      BY <1>7, <2>1, <2>2 DEF CreateNext, GoTo
  <1>8. ASSUME NEW w \in Workers, EnqueueNext(w) \/ Crash(w)
        PROVE  SeriesInv'
    <2>1. \A v \in Workers : phase'[v] \in Busy => phase'[v] = phase[v] /\ at'[v] = at[v]
      BY <1>8 DEF EnqueueNext, Crash, Rest, Busy, Claiming
    <2> QED
      BY <1>8, <2>1, SeriesFrame DEF EnqueueNext, Crash, rowVars
  <1>9. ASSUME NEW w \in Workers, Catch(w)
        PROVE  SeriesInv'
    <2>1. at[w] \in Reports /\ phase[w] = "catch" /\ UNCHANGED request
          /\ phase' = [phase EXCEPT ![w] = "throw"] /\ at' = at
      BY <1>9 DEF Catch, GoTo
    <2>2. \A v \in Workers : phase'[v] \in Busy =>
            phase[v] \in Busy /\ phase'[v] = phase[v] /\ at[v] # at[w]
      BY <2>1 DEF SeriesInv, Busy, Claiming
    <2>3. Frontier(at[w]) /\ \A r \in Reports \ {at[w]} : status'[r] = status[r]
      BY <1>9, <2>1 DEF Catch, SetStatus, Frontier, Busy, Claiming
    <2> QED
      BY <2>1, <2>2, <2>3, SeriesFrame
  <1>10. ASSUME NEW w \in Workers, NEW r \in Reports, Take(w, r)
         PROVE  SeriesInv'
    <2>1. \A v \in Workers : phase'[v] \in Busy => phase'[v] = phase[v] /\ at'[v] = at[v]
      BY <1>10 DEF Take, Busy, Claiming
    <2> QED
      BY <1>10, <2>1, SeriesFrame DEF Take, rowVars
  <1>11. ASSUME NEW r \in Reports, Stall(r) \/ Age(r) \/ Enqueue(r) \/ DeleteCheck(r)
         PROVE  SeriesInv'
    <2>1. UNCHANGED <<status, request, phase, at>>
      BY <1>11 DEF Stall, Age, Enqueue, DeleteCheck, rowVars, workerVars
    <2> QED
      BY <2>1, SeriesFrame
  <1>12. CASE ResetStalled
    <2>1. UNCHANGED <<request, phase, at>>
      BY <1>12 DEF ResetStalled, workerVars
    <2>2. \A r \in Reports : status'[r] # status[r] =>
            r \in stale /\ status[r] = "PROCESSING"
      BY <1>12 DEF ResetStalled
    <2>3. \A r \in stale, w \in Workers :
            at[w] = r /\ status[r] = "PROCESSING" => phase[w] \notin Busy
      BY DEF ClaimInv, Holds, SeriesInv, Busy
    <2> QED
      BY <2>1, <2>2, <2>3, SeriesFrame DEF Frontier, Open
  <1>13. ASSUME NEW q \in Requests, Generate(q)
         PROVE  SeriesInv'
    <2>1. PICK r \in Reports : Insert(r, q, IF q \in Recurring THEN 1 ELSE 0)
      BY <1>13 DEF Generate
    <2>2. /\ status[r] = "ABSENT" /\ UNCHANGED <<phase, at>>
          /\ status' = [status EXCEPT ![r] = "PENDING"]
          /\ request' = [request EXCEPT ![r] = q]
          /\ \A s \in Reports : request[s] # q
      BY <1>13, <2>1 DEF Generate, Insert, workerVars
    <2>3. \A v \in Workers : phase[v] \in Busy => at[v] \in Reports \ {r}
      BY <2>2 DEF SeriesInv, Busy, Claiming
    <2>4. \A s \in Reports : Frontier(s)' => s = r \/ Frontier(s)
      BY <2>2 DEF Frontier, Open
    <2>5. \A s, u \in Reports :
            Frontier(s)' /\ Frontier(u)' /\ request'[s] = request'[u] => s = u
      BY <2>2, <2>4 DEF SeriesInv
    <2> QED
      BY <2>2, <2>3, <2>5 DEF SeriesInv, Busy
  <1>14. ASSUME NEW r \in Reports, Cancel(r)
         PROVE  SeriesInv'
    <2>1. /\ status[r] = "PENDING" /\ UNCHANGED <<request, phase, at>>
          /\ status'[r] = "CANCELLED"
          /\ \A s \in Reports \ {r} : status'[s] = status[s]
      BY <1>14 DEF Cancel, SetStatusIfPending, SetStatus, Rows, Statuses, workerVars
    <2>2. \A w \in Workers : at[w] = r => phase[w] \notin Busy
      BY <2>1 DEF SeriesInv, Busy
    <2> QED
      BY <2>1, <2>2, SeriesFrame DEF Open
  <1>15. ASSUME NEW r \in Reports, Delete(r)
         PROVE  SeriesInv'
    <2>1. /\ UNCHANGED <<request, phase, at>>
          /\ \A s \in Reports : status'[s] \in {status[s], "DELETED"}
      BY <1>15 DEF Delete, SetStatus, workerVars
    <2> QED
      BY <2>1, SeriesFrame
  <1>16. CASE UNCHANGED vars
    BY <1>16, SeriesFrame DEF vars, rowVars, workerVars
  <1> QED
    BY <1>3, <1>4, <1>5, <1>6, <1>7, <1>8, <1>9, <1>10, <1>11, <1>12, <1>13,
       <1>14, <1>15, <1>16 DEF Next, WorkerStep

LEMMA SeriesInvariant ==
  ASSUME Prompt, ~Faulty("lostAck")
  PROVE  Spec => [](PromptInv /\ SeriesInv)
  <1>1. Init => PromptInv /\ SeriesInv
    BY InitPipelineInv DEF Init, PromptInv, ClaimInv, SeriesInv, Frontier, Open, Busy,
       Claiming, SingleClaim, Holds
  <1>2. PromptInv /\ SeriesInv /\ [Next]_vars => (PromptInv /\ SeriesInv)'
    BY StepPipelineInv, StepClaimInv, StepSeriesInv DEF PromptInv
  <1> QED
    BY <1>1, <1>2, PTL DEF Spec

\* A series has one report that is still to be delivered, whatever crashes,
\* fails or is delivered twice.
THEOREM OneOpen ==
  ASSUME Prompt, ~Faulty("lostAck")
  PROVE  Spec => []OneOpenOccurrence
  <1>1. SeriesInv => OneOpenOccurrence
    BY DEF SeriesInv, OneOpenOccurrence, Frontier, Open
  <1> QED
    BY <1>1, SeriesInvariant, PTL

\* The pipeline implements the life cycle a client may rely on.
THEOREM Implementation ==
  ASSUME Prompt, ~Faulty("lostAck")
  PROVE  Spec => ImplementsLifecycle
  <1>1. Init => Lifecycle!Init
    BY DEF Init, Lifecycle!Init
  <1>2. PromptInv /\ SeriesInv /\ [Next]_vars => [Lifecycle!Next]_status
    <2> SUFFICES ASSUME PromptInv, SeriesInv, [Next]_vars
                 PROVE  [Lifecycle!Next]_status
      OBVIOUS
    <2> USE DEF PromptInv, PipelineInv, TypeOK, QueueTypeOK, NextInv
    <2>1. CASE UNCHANGED status
      BY <2>1
    <2>2. ASSUME NEW w \in Workers, Claim(w)
          PROVE  [Lifecycle!Next]_status
      BY <2>1, <2>2 DEF Claim, SetStatusIfPending, SetStatus, Rows, Statuses,
         Lifecycle!Next, Lifecycle!Start, Lifecycle!Move
    <2>3. ASSUME NEW w \in Workers, WriteReady(w)
          PROVE  [Lifecycle!Next]_status
      <3>1. at[w] \in Reports /\ status[at[w]] \in {"PROCESSING", "DELETED"}
        BY <2>3 DEF WriteReady, SeriesInv, Claiming
      <3> QED
        BY <2>1, <2>3, <3>1 DEF WriteReady, SetStatus, Rows, Statuses,
           Lifecycle!Next, Lifecycle!Deliver, Lifecycle!Move
    <2>4. ASSUME NEW w \in Workers, Catch(w)
          PROVE  [Lifecycle!Next]_status
      <3>1. at[w] \in Reports /\ status[at[w]] \in {"PROCESSING", "DELETED"}
        BY <2>4 DEF Catch, SeriesInv, Claiming
      <3>2. CASE status[at[w]] = "DELETED"
        BY <2>1, <2>4, <3>2 DEF Catch, SetStatus, Rows, Statuses
      <3>3. CASE status' = [status EXCEPT ![at[w]] = "FAILED"] /\ status[at[w]] = "PROCESSING"
        BY <3>1, <3>3 DEF Lifecycle!Next, Lifecycle!GiveUp, Lifecycle!Move
      <3>4. CASE status' = [status EXCEPT ![at[w]] = "PENDING"] /\ status[at[w]] = "PROCESSING"
        <4>1. /\ {at[w]} \in (SUBSET {r \in Reports : status[r] = "PROCESSING"}) \ {{}}
              /\ status' = [r \in Reports |-> IF r \in {at[w]} THEN "PENDING" ELSE status[r]]
          BY <3>1, <3>4
        <4> QED
          BY <4>1 DEF Lifecycle!Next, Lifecycle!Retry
      <3> QED
        BY <2>1, <2>4, <3>1, <3>2, <3>3, <3>4 DEF Catch, SetStatus
    <2>5. ASSUME NEW r \in Reports, NEW q, NEW k, Insert(r, q, k)
          PROVE  [Lifecycle!Next]_status
      BY <2>5 DEF Insert, Lifecycle!Next, Lifecycle!Submit, Lifecycle!Move
    <2>6. CASE ResetStalled
      <3> DEFINE old == {r \in stale : status[r] = "PROCESSING"}
      <3>1. /\ old \in (SUBSET {r \in Reports : status[r] = "PROCESSING"}) \ {{}}
            /\ status' = [r \in Reports |-> IF r \in old THEN "PENDING" ELSE status[r]]
        BY <2>6 DEF ResetStalled
      <3> QED
        BY <3>1 DEF Lifecycle!Next, Lifecycle!Retry
    <2>7. ASSUME NEW r \in Reports, Cancel(r)
          PROVE  [Lifecycle!Next]_status
      BY <2>7 DEF Cancel, SetStatusIfPending, SetStatus, Rows, Statuses,
         Lifecycle!Next, Lifecycle!Withdraw, Lifecycle!Move
    <2>8. ASSUME NEW r \in Reports, Delete(r)
          PROVE  [Lifecycle!Next]_status
      BY <2>1, <2>8 DEF Delete, SetStatus, Rows, Statuses, Lifecycle!Next,
         Lifecycle!Remove, Lifecycle!Move
    <2>9. ASSUME NEW w \in Workers, CreateNext(w)
          PROVE  [Lifecycle!Next]_status
      BY <2>1, <2>5, <2>9 DEF CreateNext, rowVars
    <2>10. ASSUME NEW q \in Requests, Generate(q)
           PROVE  [Lifecycle!Next]_status
      BY <2>5, <2>10 DEF Generate
    <2>11. ASSUME NEW w \in Workers,
                  \/ Read(w) \/ Reload(w) \/ Compute(w) \/ EnqueueNext(w)
                  \/ Throw(w) \/ Finish(w) \/ Crash(w)
           PROVE  UNCHANGED status
      BY <2>11 DEF Read, Reload, Compute, EnqueueNext, Throw, Finish, Crash, rowVars
    <2>12. ASSUME NEW r \in Reports,
                  \/ \E w \in Workers : Take(w, r)
                  \/ Stall(r) \/ Age(r) \/ Enqueue(r) \/ DeleteCheck(r)
           PROVE  UNCHANGED status
      BY <2>12 DEF Take, LockJob, Stall, Age, Enqueue, DeleteCheck, rowVars
    <2> QED
      BY <2>1, <2>2, <2>3, <2>4, <2>6, <2>7, <2>8, <2>9, <2>10, <2>11, <2>12
         DEF Next, WorkerStep, vars, rowVars
  <1> QED
    BY <1>1, <1>2, SeriesInvariant, PTL DEF Spec, ImplementsLifecycle, Lifecycle!Spec

-----------------------------------------------------------------------------
(***************************************************************************)
(* Nothing is stranded as long as nothing fails; workers may be slow.  A   *)
(* worker that runs has the lock of its job and an active job has such a   *)
(* worker, so no job is found stalled and the worker's copy of             *)
(* attemptsMade is right: it gives up on the attempt that is the last.     *)
(***************************************************************************)

Calm == Faults \subseteq {"slow"}

HandInv ==
  /\ \A w \in Workers : phase[w] # "idle" =>
       /\ lock[at[w]] = w
       /\ attempt[w] = attemptsMade[at[w]]
  /\ \A r \in Reports : job[r] = "active" =>
       lock[r] \in Workers /\ phase[lock[r]] # "idle" /\ at[lock[r]] = r

\* What the step a worker is at says of the row of its report.
OutcomeInv ==
  \A w \in Workers :
    /\ phase[w] \in {"read", "claim", "throw"} => status[at[w]] # "PROCESSING"
    /\ phase[w] \in {"schedule", "enqueue", "finish"} =>
         status[at[w]] \notin {"PENDING", "PROCESSING"}
    /\ phase[w] = "throw" /\ IsLastAttempt(w) => status[at[w]] # "PENDING"

Unclaimed(r) == r \in toEnqueue \/ \E w \in Workers : next[w] = r

Succeeded(r) ==
  \E n \in Reports : /\ status[n] # "ABSENT" /\ request[n] = request[r]
                      /\ occurrence[n] = occurrence[r] + 1

RowInv ==
  \A r \in Reports :
    /\ status[r] = "PENDING" => Unclaimed(r) \/ job[r] \in {"waiting", "active"}
    /\ status[r] = "PROCESSING" => job[r] = "active"
    /\ status[r] = "READY" /\ request[r] \in Recurring /\ occurrence[r] < MaxOccurrence =>
         Succeeded(r) \/ (job[r] = "active" /\ phase[lock[r]] = "schedule")

TetherInv == HandInv /\ OutcomeInv /\ RowInv

LEMMA TetheredIsNotStranded ==
  PipelineInv /\ TetherInv => NothingStranded
  <1> SUFFICES ASSUME PipelineInv, TetherInv, NEW r \in Reports
               PROVE  /\ status[r] \in {"PENDING", "PROCESSING"} =>
                           Unclaimed(r) \/ job[r] = "waiting" \/ InHand(r)
                      /\ /\ status[r] = "READY" /\ request[r] \in Recurring
                         /\ occurrence[r] < MaxOccurrence
                         => \/ Succeeded(r)
                            \/ \E w \in Workers :
                                 lock[r] = w /\ at[w] = r /\ phase[w] = "schedule"
    BY DEF NothingStranded, Unclaimed, Succeeded
  <1> USE DEF TetherInv, HandInv, RowInv
  <1>1. ASSUME status[r] \in {"PENDING", "PROCESSING"}, job[r] = "active"
        PROVE  InHand(r)
    <2>1. /\ lock[r] \in Workers /\ at[lock[r]] = r /\ phase[lock[r]] # "idle"
          /\ phase[lock[r]] \in Phases
      BY <1>1 DEF PipelineInv, TypeOK
    <2>2. phase[lock[r]] \notin {"schedule", "enqueue", "finish"}
      BY <1>1, <2>1 DEF OutcomeInv
    <2> QED
      BY <2>1, <2>2 DEF InHand, Phases, Claiming
  <1> QED
    BY <1>1

\* A step that leaves the rows and the queue alone, and a worker at its step.
LEMMA HandFrame ==
  ASSUME PipelineInv, TetherInv, UNCHANGED <<job, attemptsMade, lock>>,
         \A w \in Workers : (phase'[w] = "idle") = (phase[w] = "idle"),
         UNCHANGED <<at, attempt>>
  PROVE  HandInv'
  BY DEF PipelineInv, TypeOK, QueueTypeOK, NextInv, TetherInv, HandInv

\* A worker that runs has its job to itself.
LEMMA OneHand ==
  ASSUME PipelineInv, HandInv, NEW w \in Workers, phase[w] # "idle"
  PROVE  /\ at[w] \in Reports /\ job[at[w]] = "active" /\ lock[at[w]] = w
         /\ status[at[w]] # "ABSENT"
         /\ \A v \in Workers : phase[v] # "idle" /\ at[v] = at[w] => v = w
  <1>1. at[w] \in Reports /\ lock[at[w]] = w /\ lock[at[w]] # None
    BY PipelineAssumption DEF PipelineInv, NextInv, HandInv
  <1> QED
    BY <1>1 DEF PipelineInv, JobInv, HandInv

LEMMA ReturnHand ==
  ASSUME PipelineInv, HandInv, NEW w \in Workers, phase[w] # "idle", Return(w) \/ Raise(w)
  PROVE  /\ HandInv'
         /\ job' = [job EXCEPT ![at[w]] = job'[at[w]]]
         /\ Raise(w) /\ ~IsLastAttempt(w) => job'[at[w]] = "waiting"
         /\ phase' = [phase EXCEPT ![w] = "idle"]
         /\ lock' = [lock EXCEPT ![at[w]] = None]
  <1> USE PipelineAssumption DEF PipelineInv, TypeOK, QueueTypeOK
  <1>1. /\ at[w] \in Reports /\ job[at[w]] = "active" /\ lock[at[w]] = w
        /\ \A v \in Workers : phase[v] # "idle" /\ at[v] = at[w] => v = w
    BY OneHand
  <1>2. /\ phase' = [phase EXCEPT ![w] = "idle"]
        /\ at' = [at EXCEPT ![w] = None]
        /\ attempt' = [attempt EXCEPT ![w] = 0]
    BY DEF Return, Raise, Rest
  <1>3. /\ job' = [job EXCEPT ![at[w]] = job'[at[w]]]
        /\ job'[at[w]] \in {"completed", "waiting", "failed"}
        /\ lock' = [lock EXCEPT ![at[w]] = None]
        /\ \A r \in Reports : r # at[w] => attemptsMade'[r] = attemptsMade[r]
    BY <1>1 DEF Return, CompleteJob, Raise, FailJob
  <1>4. HandInv'
    BY <1>1, <1>2, <1>3 DEF HandInv, NextInv
  <1>5. Raise(w) /\ ~IsLastAttempt(w) => job'[at[w]] = "waiting"
    <2>1. attempt[w] = attemptsMade[at[w]] /\ attemptsMade[at[w]] \in Nat
      BY <1>1 DEF HandInv
    <2> QED
      BY <1>1, <2>1 DEF IsLastAttempt, Raise, FailJob
  <1> QED
    BY <1>2, <1>3, <1>4, <1>5

\* A worker that goes from one step to the next and touches no row of another.
LEMMA OwnStep ==
  ASSUME PipelineInv, TetherInv, NEW w \in Workers, phase[w] # "idle",
         NEW p \in Phases \ {"idle"}, GoTo(w, p),
         UNCHANGED <<jobVars, toEnqueue, request, occurrence>>,
         \A r \in Reports : r # at[w] => status'[r] = status[r],
         status'[at[w]] # "ABSENT",
         p \in {"read", "claim", "throw"} => status'[at[w]] # "PROCESSING",
         p \in {"schedule", "enqueue", "finish"} =>
           status'[at[w]] \notin {"PENDING", "PROCESSING"},
         p = "throw" /\ IsLastAttempt(w) => status'[at[w]] # "PENDING",
         status'[at[w]] = "READY" =>
           \/ p = "schedule" \/ request[at[w]] \notin Recurring
           \/ status[at[w]] = "READY" /\ phase[w] # "schedule"
           \/ Succeeded(at[w]) \/ occurrence[at[w]] >= MaxOccurrence
  PROVE  TetherInv'
  <1> USE DEF TetherInv
  <1>1. /\ at[w] \in Reports /\ job[at[w]] = "active" /\ lock[at[w]] = w
        /\ \A v \in Workers : phase[v] # "idle" /\ at[v] = at[w] => v = w
        /\ occurrence[at[w]] \in Nat /\ MaxOccurrence \in Nat
    BY OneHand, PipelineAssumption DEF PipelineInv, TypeOK
  <1>2. /\ phase' = [phase EXCEPT ![w] = p] /\ UNCHANGED <<at, attempt, next>>
        /\ UNCHANGED <<job, attemptsMade, lock>>
    BY DEF GoTo, jobVars
  <1>3. HandInv'
    BY <1>1, <1>2, HandFrame DEF PipelineInv, TypeOK
  <1>4. OutcomeInv'
    <2> SUFFICES ASSUME NEW v \in Workers
                 PROVE  /\ phase'[v] \in {"read", "claim", "throw"} => status'[at[v]] # "PROCESSING"
                        /\ phase'[v] \in {"schedule", "enqueue", "finish"} =>
                             status'[at[v]] \notin {"PENDING", "PROCESSING"}
                        /\ phase'[v] = "throw" /\ attempt[v] >= MaxAttempts - 1 =>
                             status'[at[v]] # "PENDING"
      BY <1>2 DEF OutcomeInv, IsLastAttempt
    <2>1. CASE v = w
      BY <1>2, <2>1 DEF PipelineInv, TypeOK, IsLastAttempt
    <2>2. CASE v # w /\ phase[v] # "idle"
      <3>1. phase'[v] = phase[v] /\ at[v] \in Reports /\ at[v] # at[w]
        BY <1>1, <1>2, <2>2 DEF PipelineInv, TypeOK, NextInv
      <3> QED
        BY <2>2, <3>1 DEF OutcomeInv, IsLastAttempt
    <2>3. CASE v # w /\ phase[v] = "idle"
      BY <1>2, <2>3 DEF PipelineInv, TypeOK
    <2> QED
      BY <2>1, <2>2, <2>3
  <1>5. RowInv'
    <2> SUFFICES ASSUME NEW r \in Reports
                 PROVE  /\ status'[r] = "PENDING" => Unclaimed(r) \/ job[r] \in {"waiting", "active"}
                        /\ status'[r] = "PROCESSING" => job[r] = "active"
                        /\ /\ status'[r] = "READY" /\ request[r] \in Recurring
                           /\ occurrence[r] < MaxOccurrence
                           => Succeeded(r) \/ (job[r] = "active" /\ phase'[lock[r]] = "schedule")
      <3>1. \A r \in Reports : status[r] # "ABSENT" => status'[r] # "ABSENT"
        OBVIOUS
      <3> QED
        BY <1>2, <3>1 DEF RowInv, Unclaimed, Succeeded
    <2>1. CASE r = at[w]
      BY <1>1, <1>2, <2>1 DEF PipelineInv, TypeOK, RowInv
    <2>2. CASE r # at[w]
      <3>1. job[r] = "active" => lock[r] # w /\ lock[r] \in Workers
        BY <1>1, <2>2 DEF HandInv
      <3> QED
        BY <1>2, <2>2, <3>1 DEF PipelineInv, TypeOK, RowInv
    <2> QED
      BY <2>1, <2>2
  <1> QED
    BY <1>3, <1>4, <1>5

\* A worker whose handler ends: the report is settled, or has attempts left.
LEMMA OwnEnd ==
  ASSUME PipelineInv, TetherInv, NEW w \in Workers, phase[w] # "idle", next[w] \notin Reports,
         Return(w) \/ Raise(w), UNCHANGED <<status, toEnqueue, request, occurrence>>,
         status[at[w]] # "PROCESSING",
         status[at[w]] = "PENDING" => Raise(w) /\ ~IsLastAttempt(w),
         phase[w] # "schedule"
  PROVE  TetherInv'
  <1> USE DEF TetherInv
  <1>1. /\ at[w] \in Reports /\ job[at[w]] = "active" /\ lock[at[w]] = w
        /\ \A v \in Workers : phase[v] # "idle" /\ at[v] = at[w] => v = w
    BY OneHand
  <1>2. /\ HandInv'
        /\ job' = [job EXCEPT ![at[w]] = job'[at[w]]]
        /\ Raise(w) /\ ~IsLastAttempt(w) => job'[at[w]] = "waiting"
        /\ phase' = [phase EXCEPT ![w] = "idle"]
        /\ lock' = [lock EXCEPT ![at[w]] = None]
    BY ReturnHand
  <1>3. \A v \in Workers : v # w => /\ phase'[v] = phase[v] /\ at'[v] = at[v]
                                    /\ attempt'[v] = attempt[v] /\ next'[v] = next[v]
    BY DEF Return, Raise, Rest, PipelineInv, TypeOK
  <1>4. phase'[w] = "idle"
    BY <1>2 DEF PipelineInv, TypeOK
  <1>5. OutcomeInv'
    <2> SUFFICES ASSUME NEW v \in Workers
                 PROVE  /\ phase'[v] \in {"read", "claim", "throw"} => status[at'[v]] # "PROCESSING"
                        /\ phase'[v] \in {"schedule", "enqueue", "finish"} =>
                             status[at'[v]] \notin {"PENDING", "PROCESSING"}
                        /\ phase'[v] = "throw" /\ attempt'[v] >= MaxAttempts - 1 =>
                             status[at'[v]] # "PENDING"
      BY DEF OutcomeInv, IsLastAttempt
    <2> QED
      BY <1>3, <1>4 DEF OutcomeInv, IsLastAttempt
  <1>6. RowInv'
    <2> SUFFICES ASSUME NEW r \in Reports
                 PROVE  /\ status[r] = "PENDING" =>
                             \/ r \in toEnqueue \/ \E v \in Workers : next'[v] = r
                             \/ job'[r] \in {"waiting", "active"}
                        /\ status[r] = "PROCESSING" => job'[r] = "active"
                        /\ /\ status[r] = "READY" /\ request[r] \in Recurring
                           /\ occurrence[r] < MaxOccurrence
                           => Succeeded(r) \/ (job'[r] = "active" /\ phase'[lock'[r]] = "schedule")
      BY DEF RowInv, Unclaimed, Succeeded
    <2>1. CASE r = at[w]
      BY <1>1, <1>2, <2>1 DEF PipelineInv, TypeOK, QueueTypeOK, RowInv
    <2>2. CASE r # at[w]
      <3>1. job'[r] = job[r] /\ lock'[r] = lock[r]
        BY <1>2, <2>2 DEF PipelineInv, TypeOK, QueueTypeOK
      <3>2. job[r] = "active" => lock[r] # w /\ lock[r] \in Workers
        BY <1>1, <2>2 DEF HandInv
      <3>3. status[r] = "PENDING" /\ (\E v \in Workers : next[v] = r) =>
              \E v \in Workers : next'[v] = r
        BY <1>3
      <3> QED
        BY <1>3, <3>1, <3>2, <3>3 DEF RowInv, Unclaimed
    <2> QED
      BY <2>1, <2>2
  <1> QED
    BY <1>2, <1>5, <1>6

\* Steps of the users, of time and of the cron: no worker moves.
LEMMA OthersStep ==
  ASSUME PipelineInv, TetherInv,
         UNCHANGED <<workerVars, attemptsMade, lock, request, occurrence>>,
         \A r \in Reports : job'[r] = job[r] \/ (job[r] # "active" /\ job'[r] = "waiting"),
         \A r \in Reports :
           \/ status'[r] = status[r]
           \/ status[r] = "PENDING" /\ status'[r] = "CANCELLED"
           \/ status'[r] = "DELETED"
           \/ /\ status[r] = "PROCESSING" /\ status'[r] = "PENDING"
              /\ \A w \in Workers : phase[w] = "throw" => at[w] # r,
         \A r \in Reports : r \in toEnqueue => r \in toEnqueue' \/ job'[r] = "waiting"
  PROVE  TetherInv'
  <1> USE DEF TetherInv
  <1>1. UNCHANGED <<phase, at, attempt, next>>
    BY DEF workerVars
  <1>2. HandInv'
    <2>1. \A r \in Reports : job'[r] = "active" => job[r] = "active"
      OBVIOUS
    <2> QED
      BY <1>1, <2>1 DEF HandInv, PipelineInv, NextInv
  <1>3. OutcomeInv'
    BY <1>1, OneHand DEF OutcomeInv, IsLastAttempt
  <1>4. RowInv'
    BY <1>1 DEF RowInv, Unclaimed, Succeeded
  <1> QED
    BY <1>2, <1>3, <1>4

\* A row is created, and somebody is about to enqueue it.
LEMMA InsertStep ==
  ASSUME PipelineInv, TetherInv, NEW r \in Reports, NEW q, NEW k, Insert(r, q, k),
         UNCHANGED <<jobVars, at, attempt>>,
         Unclaimed(r)', toEnqueue \subseteq toEnqueue',
         \A w \in Workers : next[w] \in Reports => next'[w] = next[w],
         \A w \in Workers :
           \/ phase'[w] = phase[w]
           \/ /\ phase[w] = "schedule" /\ phase'[w] = "enqueue"
              /\ q = request[at[w]] /\ k = occurrence[at[w]] + 1
  PROVE  TetherInv'
  <1> USE DEF TetherInv
  <1>1. /\ status[r] = "ABSENT" /\ job[r] = "none" /\ UNCHANGED <<job, attemptsMade, lock>>
        /\ status'[r] = "PENDING" /\ request'[r] = q /\ occurrence'[r] = k
        /\ \A s \in Reports \ {r} : /\ status'[s] = status[s] /\ request'[s] = request[s]
                                     /\ occurrence'[s] = occurrence[s]
    BY DEF Insert, jobVars, PipelineInv, TypeOK, JobInv
  <1>2. HandInv'
    BY <1>1, HandFrame
  <1>3. \A w \in Workers : phase[w] # "idle" => at[w] \in Reports \ {r} /\ job[at[w]] = "active"
    BY <1>1, OneHand
  <1>4. OutcomeInv'
    BY <1>1, <1>3 DEF OutcomeInv, IsLastAttempt
  <1>5. RowInv'
    <2> SUFFICES ASSUME NEW s \in Reports
                 PROVE  /\ status'[s] = "PENDING" => Unclaimed(s)' \/ job[s] \in {"waiting", "active"}
                        /\ status'[s] = "PROCESSING" => job[s] = "active"
                        /\ /\ status'[s] = "READY" /\ request'[s] \in Recurring
                           /\ occurrence'[s] < MaxOccurrence
                           => Succeeded(s)' \/ (job[s] = "active" /\ phase'[lock[s]] = "schedule")
      BY <1>1 DEF RowInv
    <2>1. CASE s = r
      BY <1>1, <2>1
    <2>2. CASE s # r
      <3>1. Unclaimed(s) => Unclaimed(s)'
        BY DEF Unclaimed
      <3>2. Succeeded(s) => Succeeded(s)'
        BY <1>1, <2>2 DEF Succeeded
      <3>3. ASSUME job[s] = "active", phase[lock[s]] = "schedule", phase'[lock[s]] # "schedule"
            PROVE  Succeeded(s)'
        <4>1. at[lock[s]] = s /\ lock[s] \in Workers
          BY <3>3 DEF HandInv
        <4> QED
          BY <1>1, <2>2, <3>3, <4>1 DEF Succeeded
      <3> QED
        BY <1>1, <2>2, <3>1, <3>2, <3>3 DEF RowInv
    <2> QED
      BY <2>1, <2>2
  <1> QED
    BY <1>2, <1>4, <1>5

LEMMA StepTetherInv ==
  ASSUME Calm, PipelineInv, TetherInv, [Next]_vars
  PROVE  TetherInv'
  <1> USE DEF TetherInv
  <1>0. /\ ~Faulty("crash") /\ ~Faulty("dbError") /\ ~Faulty("lostAck")
        /\ ~Faulty("queueError") /\ ~Faulty("lockLost")
    BY DEF Calm, Faulty
  <1>1. ASSUME NEW w \in Workers, Read(w)
        PROVE  TetherInv'
    <2>1. phase[w] = "read" /\ next[w] \notin Reports /\ at[w] \in Reports
      BY <1>1 DEF Read, PipelineInv, NextInv
    <2>2. CASE status[at[w]] = "PENDING" /\ GoTo(w, "claim") /\ UNCHANGED jobVars
      BY <1>1, <2>1, <2>2, OwnStep DEF Read, rowVars, apiVars, Phases
    <2>3. CASE status[at[w]] # "PENDING" /\ Raise(w)
      BY <1>1, <2>1, <2>3, OwnEnd DEF Read, rowVars, apiVars, OutcomeInv
    <2> QED
      BY <1>0, <1>1, <2>2, <2>3 DEF Read
  <1>2. ASSUME NEW w \in Workers, Claim(w)
        PROVE  TetherInv'
    <2>1. phase[w] = "claim" /\ next[w] \notin Reports /\ at[w] \in Reports
      BY <1>2 DEF Claim, PipelineInv, NextInv
    <2>2. CASE SetStatusIfPending(at[w], "PROCESSING") /\ GoTo(w, "reload") /\ UNCHANGED jobVars
      <3>1. /\ \A r \in Reports : r # at[w] => status'[r] = status[r]
            /\ status'[at[w]] = "PROCESSING"
        BY <2>1, <2>2 DEF SetStatusIfPending, SetStatus, Rows, Statuses, PipelineInv, TypeOK
      <3> QED
        BY <1>2, <2>1, <2>2, <3>1, OwnStep DEF Claim, apiVars, Phases
    <2>3. CASE status[at[w]] # "PENDING" /\ Return(w) /\ UNCHANGED <<status, stale>>
      BY <1>2, <2>1, <2>3, OwnEnd DEF Claim, apiVars, OutcomeInv
    <2> QED
      BY <1>0, <1>2, <2>2, <2>3 DEF Claim
  <1>3. ASSUME NEW w \in Workers, Reload(w)
        PROVE  TetherInv'
    <2>1. /\ phase[w] = "reload" /\ next[w] \notin Reports /\ at[w] \in Reports
          /\ status[at[w]] # "ABSENT"
      BY <1>3, OneHand DEF Reload, PipelineInv, NextInv
    <2>2. CASE at[w] \in Rows /\ GoTo(w, "compute") /\ UNCHANGED jobVars
      BY <1>3, <2>1, <2>2, OwnStep DEF Reload, rowVars, apiVars, Phases
    <2>3. CASE at[w] \notin Rows /\ Return(w)
      BY <1>3, <2>1, <2>3, OwnEnd DEF Reload, rowVars, apiVars, Rows, Statuses
    <2> QED
      BY <1>0, <1>3, <2>2, <2>3 DEF Reload
  <1>4. ASSUME NEW w \in Workers, Compute(w)
        PROVE  TetherInv'
    <2>1. /\ phase[w] = "compute" /\ at[w] \in Reports
          /\ status[at[w]] # "ABSENT"
      BY <1>4, OneHand DEF Compute, PipelineInv, NextInv
    <2> QED
      BY <1>4, <2>1, OwnStep DEF Compute, rowVars, apiVars, Phases
  <1>5. ASSUME NEW w \in Workers, WriteReady(w)
        PROVE  TetherInv'
    <2>1. /\ phase[w] = "write" /\ at[w] \in Reports
          /\ status[at[w]] # "ABSENT"
      BY <1>5, OneHand DEF WriteReady, PipelineInv, NextInv
    <2>2. /\ SetStatus(at[w], "READY")
          /\ GoTo(w, IF request[at[w]] \in Recurring THEN "schedule" ELSE "finish")
      BY <1>0, <1>5 DEF WriteReady
    <2>3. /\ \A r \in Reports : r # at[w] => status'[r] = status[r]
          /\ status'[at[w]] \notin {"PENDING", "PROCESSING", "ABSENT"}
      BY <2>1, <2>2 DEF SetStatus, Rows, Statuses, PipelineInv, TypeOK
    <2>4. CASE request[at[w]] \in Recurring
      BY <1>5, <2>1, <2>2, <2>3, <2>4, OwnStep DEF WriteReady, apiVars, Phases
    <2>5. CASE request[at[w]] \notin Recurring
      BY <1>5, <2>1, <2>2, <2>3, <2>5, OwnStep DEF WriteReady, apiVars, Phases
    <2> QED
      BY <2>4, <2>5
  <1>6. ASSUME NEW w \in Workers, CreateNext(w)
        PROVE  TetherInv'
    <2> DEFINE q == request[at[w]]
               k == occurrence[at[w]] + 1
    <2>1. phase[w] = "schedule" /\ at[w] \in Reports /\ next[w] \notin Reports
      BY <1>6 DEF CreateNext, PipelineInv, NextInv
    <2>2. CASE \E r \in Reports : /\ Insert(r, q, k)
                                   /\ phase' = [phase EXCEPT ![w] = "enqueue"]
                                   /\ next' = [next EXCEPT ![w] = r]
                                   /\ UNCHANGED <<at, attempt>>
      <3>1. PICK r \in Reports : /\ Insert(r, q, k)
                                 /\ phase' = [phase EXCEPT ![w] = "enqueue"]
                                 /\ next' = [next EXCEPT ![w] = r]
                                 /\ UNCHANGED <<at, attempt>>
        BY <2>2
      <3>2. Unclaimed(r)'
        BY <3>1 DEF Unclaimed, PipelineInv, TypeOK
      <3>3. \A v \in Workers : /\ next[v] \in Reports => next'[v] = next[v]
                                /\ (phase'[v] = phase[v] \/ (v = w /\ phase'[v] = "enqueue"))
        BY <2>1, <3>1 DEF PipelineInv, TypeOK
      <3> QED
        BY <1>6, <2>1, <3>1, <3>2, <3>3, InsertStep DEF CreateNext, apiVars
    <2>3. CASE /\ (k > MaxOccurrence \/ OccurrenceTaken(q, k))
               /\ GoTo(w, "finish") /\ UNCHANGED rowVars
      <3>1. /\ status[at[w]] \notin {"PENDING", "PROCESSING"}
            /\ status[at[w]] # "ABSENT"
        BY <2>1, OneHand DEF OutcomeInv, PipelineInv, JobInv
      <3>2. Succeeded(at[w]) \/ occurrence[at[w]] >= MaxOccurrence
        <4>1. occurrence[at[w]] \in Nat /\ MaxOccurrence \in Nat
          BY <2>1, PipelineAssumption DEF PipelineInv, TypeOK
        <4>2. OccurrenceTaken(q, k) => Succeeded(at[w])
          BY DEF OccurrenceTaken, Rows, Statuses, Succeeded
        <4> QED
          BY <2>3, <4>1, <4>2
      <3> QED
        BY <1>6, <2>1, <2>3, <3>1, <3>2, OwnStep DEF CreateNext, rowVars, apiVars, Phases
    <2> QED
      BY <1>0, <1>6, <2>2, <2>3 DEF CreateNext
  <1>7. ASSUME NEW w \in Workers, EnqueueNext(w)
        PROVE  TetherInv'
    <2>1. /\ phase[w] = "enqueue" /\ at[w] \in Reports /\ next[w] \in Reports
          /\ job[next[w]] = "none" /\ at[w] # next[w]
      BY <1>7, OneHand DEF EnqueueNext, PipelineInv, NextInv
    <2>2. /\ job' = [job EXCEPT ![next[w]] = "waiting"]
          /\ phase' = [phase EXCEPT ![w] = "finish"]
          /\ next' = [next EXCEPT ![w] = None]
          /\ UNCHANGED <<at, attempt, attemptsMade, lock, status, request, occurrence, toEnqueue>>
      BY <1>0, <1>7 DEF EnqueueNext, AddJob, rowVars, apiVars
    <2>3. /\ job'[next[w]] = "waiting"
          /\ \A r \in Reports \ {next[w]} : job'[r] = job[r]
          /\ phase'[w] = "finish"
          /\ \A v \in Workers \ {w} : phase'[v] = phase[v] /\ next'[v] = next[v]
      BY <2>1, <2>2 DEF PipelineInv, TypeOK, QueueTypeOK
    <2>4. HandInv'
      BY <2>1, <2>2, <2>3 DEF HandInv, PipelineInv, NextInv
    <2>5. OutcomeInv'
      BY <2>1, <2>2, <2>3 DEF OutcomeInv, IsLastAttempt
    <2>6. RowInv'
      <3>1. \A r \in Reports \ {next[w]} : Unclaimed(r) => Unclaimed(r)'
        BY <2>2, <2>3 DEF Unclaimed
      <3>2. \A r \in Reports : Succeeded(r)' <=> Succeeded(r)
        BY <2>2 DEF Succeeded
      <3> QED
        BY <2>1, <2>2, <2>3, <3>1, <3>2 DEF RowInv, HandInv
    <2> QED
      BY <2>4, <2>5, <2>6
  <1>8. ASSUME NEW w \in Workers, Catch(w)
        PROVE  TetherInv'
    <2>1. /\ phase[w] = "catch" /\ at[w] \in Reports /\ GoTo(w, "throw")
          /\ status[at[w]] # "ABSENT"
      BY <1>8, OneHand DEF Catch, PipelineInv, NextInv
    <2>2. SetStatus(at[w], IF IsLastAttempt(w) THEN "FAILED" ELSE "PENDING")
      BY <1>0, <1>8 DEF Catch
    <2>3. /\ \A r \in Reports : r # at[w] => status'[r] = status[r]
          /\ status'[at[w]] \notin {"PROCESSING", "READY", "ABSENT"}
          /\ IsLastAttempt(w) => status'[at[w]] # "PENDING"
      BY <2>1, <2>2 DEF SetStatus, Rows, Statuses, PipelineInv, TypeOK
    <2> QED
      BY <1>8, <2>1, <2>3, OwnStep DEF Catch, apiVars, Phases
  <1>9. ASSUME NEW w \in Workers, Throw(w)
        PROVE  TetherInv'
    <2>1. phase[w] = "throw" /\ next[w] \notin Reports /\ Raise(w)
      BY <1>9 DEF Throw, PipelineInv, NextInv
    <2> QED
      BY <1>9, <2>1, OwnEnd DEF Throw, rowVars, apiVars, OutcomeInv
  <1>10. ASSUME NEW w \in Workers, Finish(w)
         PROVE  TetherInv'
    <2>1. phase[w] = "finish" /\ next[w] \notin Reports /\ Return(w)
      BY <1>10 DEF Finish, PipelineInv, NextInv
    <2> QED
      BY <1>10, <2>1, OwnEnd DEF Finish, rowVars, apiVars, OutcomeInv
  <1>12. ASSUME NEW w \in Workers, NEW r \in Reports, Take(w, r)
         PROVE  TetherInv'
    <2>1. /\ phase[w] = "idle" /\ job[r] = "waiting" /\ next[w] \notin Reports
          /\ job' = [job EXCEPT ![r] = "active"]
          /\ lock' = [lock EXCEPT ![r] = w]
          /\ phase' = [phase EXCEPT ![w] = "read"]
          /\ at' = [at EXCEPT ![w] = r]
          /\ attempt' = [attempt EXCEPT ![w] = attemptsMade[r]]
          /\ UNCHANGED <<attemptsMade, next, status, request, occurrence, toEnqueue>>
      BY <1>12 DEF Take, LockJob, rowVars, apiVars, PipelineInv, NextInv
    <2>2. /\ job'[r] = "active" /\ lock'[r] = w
          /\ \A s \in Reports \ {r} : job'[s] = job[s] /\ lock'[s] = lock[s]
          /\ phase'[w] = "read" /\ at'[w] = r /\ attempt'[w] = attemptsMade[r]
          /\ \A v \in Workers \ {w} : /\ phase'[v] = phase[v] /\ at'[v] = at[v]
                                       /\ attempt'[v] = attempt[v]
      BY <2>1 DEF PipelineInv, TypeOK, QueueTypeOK
    <2>3. \A v \in Workers : phase[v] # "idle" => at[v] \in Reports \ {r}
      BY <2>1, OneHand
    <2>4. HandInv'
      BY <2>1, <2>2, <2>3 DEF HandInv
    <2>5. status[r] # "PROCESSING"
      BY <2>1 DEF RowInv
    <2>6. OutcomeInv'
      BY <2>1, <2>2, <2>3, <2>5 DEF OutcomeInv, IsLastAttempt
    <2>7. RowInv'
      <3>1. \A s \in Reports : (Unclaimed(s)' <=> Unclaimed(s)) /\ (Succeeded(s)' <=> Succeeded(s))
        BY <2>1 DEF Unclaimed, Succeeded
      <3>2. \A s \in Reports : job[s] = "active" => lock[s] \in Workers \ {w}
        BY <2>1 DEF HandInv
      <3> QED
        BY <2>1, <2>2, <3>1, <3>2 DEF RowInv
    <2> QED
      BY <2>4, <2>6, <2>7
  <1>13. ASSUME NEW r \in Reports, Stall(r)
         PROVE  FALSE
    <2>1. job[r] = "active" /\ lock[r] = None
      BY <1>0, <1>13 DEF Stall, StallJob
    <2> QED
      BY <2>1, PipelineAssumption DEF HandInv
  <1>14. ASSUME NEW r \in Reports, Age(r) \/ DeleteCheck(r) \/ Enqueue(r)
         PROVE  TetherInv'
    <2>1. UNCHANGED <<workerVars, attemptsMade, lock, request, occurrence, status>>
      BY <1>14 DEF Age, DeleteCheck, Enqueue, AddJob, rowVars, jobVars
    <2>2. /\ \A s \in Reports : job'[s] = job[s] \/ (job[s] # "active" /\ job'[s] = "waiting")
          /\ \A s \in Reports : s \in toEnqueue => s \in toEnqueue' \/ job'[s] = "waiting"
      BY <1>0, <1>14 DEF Age, DeleteCheck, Enqueue, AddJob, jobVars, apiVars, PipelineInv, JobInv,
         TypeOK, QueueTypeOK
    <2> QED
      BY <2>1, <2>2, OthersStep
  <1>15. CASE ResetStalled
    <2>1. \A r \in Reports :
            \/ status'[r] = status[r]
            \/ status[r] = "PROCESSING" /\ status'[r] = "PENDING"
      BY <1>15 DEF ResetStalled
    <2>2. \A r \in Reports, w \in Workers : status[r] = "PROCESSING" /\ phase[w] = "throw" => at[w] # r
      BY DEF OutcomeInv
    <2> QED
      BY <1>15, <2>1, <2>2, OthersStep DEF ResetStalled, jobVars, apiVars
  <1>16. ASSUME NEW q \in Requests, Generate(q)
         PROVE  TetherInv'
    <2>1. PICK r \in Reports : /\ Insert(r, q, IF q \in Recurring THEN 1 ELSE 0)
                               /\ toEnqueue' = toEnqueue \cup {r}
      BY <1>16 DEF Generate
    <2> QED
      BY <1>16, <2>1, InsertStep DEF Generate, workerVars, Unclaimed
  <1>18. ASSUME NEW r \in Reports, Cancel(r) \/ Delete(r)
         PROVE  TetherInv'
    <2>1. /\ UNCHANGED <<jobVars, workerVars, toEnqueue, request, occurrence>>
          /\ \A s \in Reports :
               \/ status'[s] = status[s]
               \/ status[s] = "PENDING" /\ status'[s] = "CANCELLED"
               \/ status'[s] = "DELETED"
      BY <1>18 DEF Cancel, Delete, SetStatusIfPending, SetStatus, apiVars, PipelineInv, TypeOK
    <2> QED
      BY <2>1, OthersStep DEF jobVars
  <1>21. CASE UNCHANGED vars
    BY <1>21, OthersStep DEF vars, rowVars, jobVars, apiVars
  <1> QED
    BY <1>0, <1>1, <1>2, <1>3, <1>4, <1>5, <1>6, <1>7, <1>8, <1>9, <1>10,
       <1>12, <1>13, <1>14, <1>15, <1>16, <1>18, <1>21
       DEF Next, WorkerStep, Crash

\* Without failures, and however slow the workers are: a report that is not
\* settled never waits for nobody, and a series never stops.  It is what
\* fairness turns into Settles and SeriesContinues.
THEOREM NobodyIsStranded ==
  ASSUME Calm
  PROVE  Spec => []NothingStranded
  <1>1. Init => TetherInv
    BY DEF Init, QueueInit, TetherInv, HandInv, OutcomeInv, RowInv
  <1>2. PipelineInv /\ TetherInv /\ [Next]_vars => (PipelineInv /\ TetherInv)'
    BY StepPipelineInv, StepTetherInv
  <1> QED
    BY <1>1, <1>2, InitPipelineInv, TetheredIsNotStranded, PTL DEF Spec

=============================================================================
