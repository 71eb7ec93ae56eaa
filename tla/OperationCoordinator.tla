------------------------ MODULE OperationCoordinator ------------------------
(***************************************************************************)
(* One durable Operation of the orchestrator: a plan of jobs with          *)
(* dependencies and ON_FAILURE compensation, driven by OperationCoordinator *)
(* calls that run concurrently in API threads, agent completions and the   *)
(* recovery loop.                                                          *)
(*                                                                         *)
(* An action is one call of the job store or of the operation repository,  *)
(* with the thread-local code up to the next one.  Between two actions of  *)
(* a thread, other threads and the workers move.  Deciding one step of the *)
(* plan (is it ready, how is it shown) reads its dependencies in one go:   *)
(* terminal job states never change, so a decision that reads them one by  *)
(* one is a decision some single instant allows.                           *)
(*                                                                         *)
(* revision is modelled by what compare_and_swap uses it for: a thread's   *)
(* copy is `fresh` until someone else saves.  A call that loses the race   *)
(* ends; the next round of its CAS loop is another call.                   *)
(***************************************************************************)
EXTENDS Integers, Sequences, FiniteSets, FiniteSetsExt

CONSTANTS
    Plan,           \* planned_jobs: the step ids, in order
    DependsOn,      \* depends_on of each step, in order
    OnFailure,      \* the steps with condition ON_FAILURE
    Rollback,       \* TRUE: mode ROLLBACK
    Retryable,      \* steps with max_attempts > 1
    RetrySafe,      \* steps whose JobKind is_retry_safe_after_lease_expiry
    Observation,    \* steps whose job_kind_is_observation
    Threads,        \* concurrent callers of the coordinator
    MaxGeneration,  \* bound on retry
    MaxFailures     \* bound on crashes and store errors in the middle of a call

Steps == {Plan[i] : i \in 1 .. Len(Plan)}
Deps(s) == {DependsOn[s][i] : i \in 1 .. Len(DependsOn[s])}
First(S) == Plan[Min({i \in 1 .. Len(Plan) : Plan[i] \in S})]

ASSUME PlanAssumption ==
    /\ Len(Plan) = Cardinality(Steps) /\ Plan # <<>>
    /\ \A s \in Steps : Deps(s) \subseteq Steps \ {s}
    /\ OnFailure \subseteq {s \in Steps : DependsOn[s] # <<>>}
    /\ Observation \subseteq RetrySafe /\ RetrySafe \subseteq Steps
    /\ Retryable \subseteq Steps
ASSUME BoundsAssumption == MaxGeneration \in Nat /\ MaxFailures \in Nat

VARIABLES
    op,             \* the durable operation
    job,            \* status of the job of each step and generation
    thread,         \* the coordinator call each thread is in
    failures        \* how many calls were cut off

vars == <<op, job, thread, failures>>

-----------------------------------------------------------------------------
JobIds == Steps \X (0 .. MaxGeneration)

\* QUEUED stands for QUEUED and RETRY_WAIT: the coordinator treats them alike.
Terminal == {"SUCCEEDED", "FAILED", "CANCELLED", "NEEDS_ATTENTION"}
Held == {"LEASED", "CANCEL_REQUESTED"}
JobStatus == {"ABSENT", "QUEUED"} \cup Held \cup Terminal

Settled == {"SUCCEEDED", "FAILED", "CANCELLED", "ROLLED_BACK"}
OpTerminal == Settled \cup {"NEEDS_ATTENTION"}
Recoverable == {"CONFIRMED", "ENQUEUING", "RUNNING", "CANCELLING"}
OpStatus == OpTerminal \cup Recoverable \cup {"PLANNED"}

Shown == JobStatus \cup {"DORMANT", "BLOCKED", "SKIPPED", "UNKNOWN", "NONE"}

NothingShown == [s \in Steps |-> "NONE"]

\* operation_from_plan.
PlannedOp == [status |-> "PLANNED", pending |-> Steps, bindings |-> {},
              generation |-> 0, result |-> NothingShown]

Operation == [status : OpStatus, pending : SUBSET Steps, bindings : SUBSET JobIds,
              generation : 0 .. MaxGeneration, result : [Steps -> Shown]]

\* A call: the next store call (pc), the local copy of the operation, the
\* steps or jobs a loop still has to visit, the ones it selected, the result
\* derived so far, the result of the previous round of the cancellation loop,
\* and where to continue after a save.
NoCall == [pc |-> "idle", op |-> PlannedOp, fresh |-> FALSE, todo |-> {},
           ready |-> {}, shown |-> NothingShown, prev |-> NothingShown,
           project |-> FALSE, then |-> "return"]

-----------------------------------------------------------------------------
(* Reading the plan against an operation and the jobs.                     *)

IsBound(o, s) == \E g \in 0 .. MaxGeneration : <<s, g>> \in o.bindings

ActiveBinding(o, s) == <<s, Max({g \in 0 .. MaxGeneration : <<s, g>> \in o.bindings})>>

\* binding_for: the deterministic job id of a step in this generation.
BindingFor(o, s) == <<s, o.generation>>

\* materialized_job: ABSENT where the store has no such job.
MaterializedJob(o, s) ==
    IF IsBound(o, s) THEN job[ActiveBinding(o, s)]
    ELSE IF s \in o.pending THEN job[BindingFor(o, s)]
    ELSE "ABSENT"

\* compensation_step_ids: ON_FAILURE steps and everything downstream.
CompensationSteps ==
    LET comp[s \in Steps] == s \in OnFailure \/ \E d \in Deps(s) : comp[d]
    IN  {s \in Steps : comp[s]}
ForwardSteps == Steps \ CompensationSteps

\* step_has_materialized_evidence, for some dependency of s.
CompensationApplicable(o, s) ==
    LET evidence[d \in Steps] ==
            \/ IsBound(o, d)
            \/ d \in o.pending /\ job[BindingFor(o, d)] # "ABSENT"
            \/ \E e \in Deps(d) : evidence[e]
    IN  \E d \in Deps(s) : evidence[d]

\* Mutant: an unknown outcome counts as an ended one.
CompensatorReadyUnknown(o, s) ==
    /\ CompensationApplicable(o, s)
    /\ \A d \in ForwardSteps \cup Deps(s) : MaterializedJob(o, d) \in Terminal \cup {"ABSENT"}

CompensatorReady(o, s) ==
    /\ CompensationApplicable(o, s)
    /\ \A f \in ForwardSteps : MaterializedJob(o, f) \in Terminal \cup {"ABSENT"}
    /\ \A d \in Deps(s) :
          /\ MaterializedJob(o, d) \in Terminal \cup {"ABSENT"}
          /\ MaterializedJob(o, d) # "NEEDS_ATTENTION"
          /\ MaterializedJob(o, d) = "ABSENT" /\ d \in CompensationSteps
                => ~CompensationApplicable(o, d)

\* Mutant: compensation does not wait for a failure.
PlannedJobReadyUnfailed(o, s) ==
    LET statuses == {job[ActiveBinding(o, d)] : d \in {e \in Deps(s) : IsBound(o, e)}}
    IN  IF o.status = "CANCELLING" /\ s \in OnFailure
        THEN CompensatorReady(o, s)
        ELSE /\ \A d \in Deps(s) : IsBound(o, d)
             /\ statuses \subseteq IF s \in OnFailure THEN Terminal \ {"NEEDS_ATTENTION"}
                                                      ELSE {"SUCCEEDED"}

PlannedJobReady(o, s) ==
    LET statuses == {job[ActiveBinding(o, d)] : d \in {e \in Deps(s) : IsBound(o, e)}}
    IN  IF o.status = "CANCELLING" /\ s \in OnFailure
        THEN CompensatorReady(o, s)
        ELSE IF s \in OnFailure
        THEN /\ "NEEDS_ATTENTION" \notin statuses
             /\ statuses \subseteq Terminal
             /\ statuses \cap {"FAILED", "CANCELLED"} # {}
        ELSE /\ \A d \in Deps(s) : IsBound(o, d)
             /\ statuses \subseteq {"SUCCEEDED"}

\* planned_step_is_impossible: the first dependency that decides an
\* ON_FAILURE step decides it.
Impossible(o, s) ==
    LET imp[x \in Steps] ==
          LET Status(d) == job[ActiveBinding(o, d)]
              decisive == {i \in 1 .. Len(DependsOn[x]) :
                             LET d == DependsOn[x][i]
                             IN  IF IsBound(o, d)
                                 THEN Status(d) \notin Terminal \ {"NEEDS_ATTENTION"}
                                 ELSE ~imp[d]}
          IN  IF x \in OnFailure
              THEN IF decisive = {}
                   THEN \A d \in Deps(x) :
                           IsBound(o, d) => Status(d) \notin {"FAILED", "CANCELLED"}
                   ELSE LET d == DependsOn[x][Min(decisive)]
                        IN  IsBound(o, d) /\ Status(d) = "NEEDS_ATTENTION"
              ELSE \E d \in Deps(x) :
                      IF IsBound(o, d) THEN Status(d) \in Terminal \ {"SUCCEEDED"}
                                       ELSE imp[d]
    IN  imp[s]

\* Mutant: a step that can never become ready is still waited for.
ShowRunningNeverSkips(o, s) ==
    IF IsBound(o, s) THEN job[ActiveBinding(o, s)]
    ELSE IF s \in OnFailure THEN "DORMANT" ELSE "BLOCKED"

\* How the projection shows one step of a RUNNING operation.
ShowRunning(o, s) ==
    IF IsBound(o, s) THEN job[ActiveBinding(o, s)]
    ELSE IF s \in OnFailure THEN "DORMANT"
    ELSE IF Impossible(o, s) THEN "SKIPPED"
    ELSE "BLOCKED"

\* How it shows one step of a CANCELLING operation.
ShowCancelling(o, s) ==
    IF MaterializedJob(o, s) # "ABSENT" THEN MaterializedJob(o, s)
    ELSE IF IsBound(o, s) THEN "UNKNOWN"
    ELSE IF s \in ForwardSteps THEN "CANCELLED"
    ELSE IF s \in OnFailure
    THEN IF CompensationApplicable(o, s) THEN "BLOCKED" ELSE "DORMANT"
    ELSE IF Impossible(o, s) THEN "SKIPPED" ELSE "BLOCKED"

Show(o, s) == IF o.status = "CANCELLING" THEN ShowCancelling(o, s) ELSE ShowRunning(o, s)

\* Mutant: one failed job ends the operation while others still run.
RunningStatusFailFast(shown) ==
    LET statuses == {shown[s] : s \in Steps} \ {"DORMANT", "SKIPPED", "BLOCKED"}
        pendingSuccess == \E s \in Steps : shown[s] = "BLOCKED"
    IN  IF "NEEDS_ATTENTION" \in statuses THEN "NEEDS_ATTENTION"
        ELSE IF ~pendingSuccess /\ statuses \subseteq {"SUCCEEDED"}
        THEN IF Rollback THEN "ROLLED_BACK" ELSE "SUCCEEDED"
        ELSE IF "FAILED" \in statuses THEN "FAILED"
        ELSE IF statuses \subseteq Terminal /\ ~pendingSuccess THEN "CANCELLED"
        ELSE "RUNNING"

\* Mutant: steps that still wait for their dependencies are not counted.
RunningStatusForgetsBlocked(shown) ==
    LET statuses == {shown[s] : s \in Steps} \ {"DORMANT", "SKIPPED", "BLOCKED"}
    IN  IF "NEEDS_ATTENTION" \in statuses THEN "NEEDS_ATTENTION"
        ELSE IF statuses \subseteq {"SUCCEEDED"}
        THEN IF Rollback THEN "ROLLED_BACK" ELSE "SUCCEEDED"
        ELSE IF "FAILED" \in statuses /\ statuses \subseteq Terminal THEN "FAILED"
        ELSE IF statuses \subseteq Terminal THEN "CANCELLED"
        ELSE "RUNNING"

\* derive_projection: the status of a RUNNING operation, from what is shown.
RunningStatus(shown) ==
    LET statuses == {shown[s] : s \in Steps} \ {"DORMANT", "SKIPPED", "BLOCKED"}
        pendingSuccess == \E s \in Steps : shown[s] = "BLOCKED"
    IN  IF "NEEDS_ATTENTION" \in statuses THEN "NEEDS_ATTENTION"
        ELSE IF ~pendingSuccess /\ statuses \subseteq {"SUCCEEDED"}
        THEN IF Rollback THEN "ROLLED_BACK" ELSE "SUCCEEDED"
        ELSE IF "FAILED" \in statuses /\ statuses \subseteq Terminal THEN "FAILED"
        ELSE IF statuses \subseteq Terminal /\ ~pendingSuccess THEN "CANCELLED"
        ELSE "RUNNING"

\* derive_cancelling_projection.
CancellingStatus(shown) ==
    LET failed == {"FAILED", "CANCELLED", "NEEDS_ATTENTION", "UNKNOWN"}
        needsAttention == \/ \E s \in CompensationSteps : shown[s] \in failed
                          \/ \E s \in ForwardSteps : shown[s] \in {"NEEDS_ATTENTION", "UNKNOWN"}
        forwardPending == \E s \in ForwardSteps : shown[s] \notin Terminal
        compensationPending == \E s \in CompensationSteps :
                                  shown[s] \notin Terminal \cup {"DORMANT", "SKIPPED"}
    IN  IF needsAttention THEN "NEEDS_ATTENTION"
        ELSE IF forwardPending \/ compensationPending THEN "CANCELLING"
        ELSE "CANCELLED"

\* Mutant: any operation can be marked.
ValidStatusTransitionMarksAll(from, to) ==
    \/ from = to
    \/ to = "NEEDS_ATTENTION"
    \/ from = "PLANNED" /\ to \in {"CONFIRMED", "CANCELLED"}
    \/ from = "CONFIRMED" /\ to \in {"ENQUEUING", "CANCELLED"}
    \/ from = "ENQUEUING" /\ to \in {"RUNNING", "CANCELLING"}
    \/ from = "RUNNING" /\ to \in OpTerminal \cup {"CANCELLING"}
    \/ from = "CANCELLING" /\ to \in {"CANCELLED", "FAILED"}
    \/ from = "FAILED" /\ to = "ENQUEUING"

ValidStatusTransition(from, to) ==
    \/ from = to
    \/ from = "PLANNED" /\ to \in {"CONFIRMED", "CANCELLED"}
    \/ from = "CONFIRMED" /\ to \in {"ENQUEUING", "CANCELLED"}
    \/ from = "ENQUEUING" /\ to \in {"RUNNING", "CANCELLING", "NEEDS_ATTENTION"}
    \/ from = "RUNNING" /\ to \in OpTerminal \cup {"CANCELLING"}
    \/ from = "CANCELLING" /\ to \in {"CANCELLED", "FAILED", "NEEDS_ATTENTION"}
    \/ from = "FAILED" /\ to = "ENQUEUING"

-----------------------------------------------------------------------------
(* Thread-local control between two store calls.                           *)

ToSave(th, then) == [th EXCEPT !.pc = "save", !.then = then]

\* After materialize_pending: project_once goes on to derive the projection.
AfterMaterialize(th) ==
    IF th.project THEN [th EXCEPT !.pc = "derive", !.todo = Steps,
                                  !.ready = {}, !.shown = NothingShown]
    ELSE NoCall

\* The bindings of the enqueued steps are saved in one write.
SaveBindings(th) ==
    ToSave([th EXCEPT !.op.pending = @ \ th.ready,
                      !.op.status = IF @ = "ENQUEUING" THEN "RUNNING" ELSE @,
                      !.todo = {}],
           "materialized")

EndScan(th) ==
    IF th.ready # {} THEN [th EXCEPT !.pc = "enqueue", !.todo = th.ready]
    ELSE IF th.op.status = "ENQUEUING" THEN SaveBindings(th)
    ELSE AfterMaterialize(th)

\* materialize_pending: cancellation freezes the forward graph.
MaterializePending(th) ==
    LET todo == IF th.op.status = "CANCELLING" THEN th.op.pending \cap CompensationSteps
                ELSE th.op.pending
        scan == [th EXCEPT !.pc = "scan", !.todo = todo, !.ready = {}]
    IN  IF todo = {} THEN EndScan(scan) ELSE scan

\* cancel_jobs: every forward job that is bound, or may exist unbound.
CancelJobs(th) ==
    LET o == th.op
        ids == {IF IsBound(o, s) THEN ActiveBinding(o, s) ELSE BindingFor(o, s) :
                  s \in {x \in ForwardSteps : IsBound(o, x) \/ x \in o.pending}}
    IN  [th EXCEPT !.pc = IF ids = {} THEN "project" ELSE "cancel", !.todo = ids]

\* The end of project_once: nothing is written when nothing changed.
EndProjection(th, status) ==
    IF status = th.op.status /\ th.shown = th.op.result THEN NoCall
    ELSE ToSave([th EXCEPT !.op.status = status, !.op.result = th.shown], "return")

\* After a save; the cancellation loop compares with the saved operation.
Resume(saved) ==
    LET th == [saved EXCEPT !.then = "return", !.prev = NothingShown]
    IN  CASE saved.then = "return" -> NoCall
          [] saved.then = "materialize" -> MaterializePending(th)
          [] saved.then = "materialized" -> AfterMaterialize(th)
          [] saved.then = "cancel" -> CancelJobs(th)
          [] saved.then = "mark" -> IF th.todo = {} THEN NoCall
                                    ELSE [th EXCEPT !.pc = "mark", !.op = PlannedOp]

\* Mutant: the revision is not compared.
OvertakenUnnoticed(th) == th

\* A save by somebody else.  A call that has only to save, or only to derive
\* the projection of a RUNNING operation and save, can write nothing any more.
Overtaken(th) ==
    IF th.pc = "save" \/ (th.pc = "derive" /\ th.op.status = "RUNNING") THEN NoCall
    ELSE [th EXCEPT !.fresh = FALSE]

Goto(t, th) == thread' = [thread EXCEPT ![t] = th]

\* A new call reads the operation.
Begin(o) == [NoCall EXCEPT !.op = o, !.fresh = TRUE]

-----------------------------------------------------------------------------
(* The calls.  Each starts by reading the operation.                       *)

Idle(t) == thread[t].pc = "idle"

Confirm(t) ==
    /\ Idle(t)
    /\ op.status = "PLANNED"
    /\ Goto(t, ToSave([Begin(op) EXCEPT !.op.status = "CONFIRMED"], "return"))
    /\ UNCHANGED <<op, job, failures>>

\* enqueue_once; on a RUNNING operation it is project.
Enqueue(t) ==
    /\ Idle(t)
    /\ \/ /\ op.status = "CONFIRMED"
          /\ Goto(t, ToSave([Begin(op) EXCEPT !.op.status = "ENQUEUING"], "materialize"))
       \/ /\ op.status = "ENQUEUING"
          /\ Goto(t, MaterializePending(Begin(op)))
    /\ UNCHANGED <<op, job, failures>>

Cancel(t) ==
    /\ Idle(t)
    /\ \/ /\ op.status \in {"PLANNED", "CONFIRMED"}
          /\ Goto(t, ToSave([Begin(op) EXCEPT !.op.status = "CANCELLED"], "return"))
       \/ /\ op.status \in {"ENQUEUING", "RUNNING"}
          /\ Goto(t, ToSave([Begin(op) EXCEPT !.op.status = "CANCELLING"], "cancel"))
       \/ /\ op.status = "CANCELLING"
          /\ Goto(t, CancelJobs(Begin(op)))
    /\ UNCHANGED <<op, job, failures>>

\* Mutant: a retry does not start a new generation.
RetrySameGeneration(t) ==
    /\ Idle(t)
    /\ op.status = "FAILED"
    /\ Goto(t, ToSave([Begin(op) EXCEPT !.op.pending = {s \in Steps : ~IsBound(op, s)},
                                        !.op.status = "ENQUEUING"],
                      "materialize"))
    /\ UNCHANGED <<op, job, failures>>

\* A new generation for the steps that did not succeed.
Retry(t) ==
    LET statuses == {job[ActiveBinding(op, s)] : s \in {x \in Steps : IsBound(op, x)}}
        pending == {s \in Steps : IsBound(op, s) =>
                                     job[ActiveBinding(op, s)] \in {"FAILED", "CANCELLED"}}
    IN  /\ Idle(t)
        /\ op.status = "FAILED"
        /\ op.generation < MaxGeneration
        /\ statuses \subseteq Terminal \ {"NEEDS_ATTENTION"}
        /\ pending # {}
        /\ Goto(t, ToSave([Begin(op) EXCEPT !.op.generation = @ + 1,
                                            !.op.pending = pending,
                                            !.op.status = "ENQUEUING"],
                          "materialize"))
        /\ UNCHANGED <<op, job, failures>>

\* project_once, from the top: called by itself or at the end of cancel.
Project(t) ==
    /\ thread[t].pc \in {"idle", "project"}
    /\ \/ /\ op.status \in {"RUNNING", "CANCELLING"}
          /\ LET th == [Begin(op) EXCEPT !.project = TRUE]
                 missing == \E s \in Steps : IsBound(op, s) /\ job[ActiveBinding(op, s)] = "ABSENT"
             IN  Goto(t, IF op.pending = {} \/ missing THEN AfterMaterialize(th)
                         ELSE MaterializePending(th))
       \/ /\ op.status \notin {"RUNNING", "CANCELLING"}
          /\ ~Idle(t)
          /\ Goto(t, NoCall)
    /\ UNCHANGED <<op, job, failures>>

\* repair_recoverable_operation_projections, and recover on each operation.
Repair(t) == (op.status \in {"ENQUEUING"} /\ Enqueue(t))
             \/ (op.status = "CANCELLING" /\ Cancel(t))
             \/ (op.status = "RUNNING" /\ Idle(t) /\ Project(t))

\* How an expired lease ends.  With attempts left over, a retry-safe job waits
\* again.
AfterExpiry(s, status) ==
    {"NEEDS_ATTENTION"} \cup
    (IF status = "LEASED" /\ s \in RetrySafe \cap Retryable THEN {"QUEUED"} ELSE {})

\* recover: one transaction ends every expired lease; then each job whose
\* outcome is unproven marks the operation.
Recover(t) ==
    /\ Idle(t)
    /\ \E S \in SUBSET {id \in JobIds : job[id] \in Held} \ {{}} :
       \E back \in SUBSET {id \in S : "QUEUED" \in AfterExpiry(id[1], job[id])} :
         LET marks == {id \in S : id \in back => id[1] \notin Observation}
         IN  /\ job' = [id \in JobIds |-> IF id \in back THEN "QUEUED"
                                         ELSE IF id \in S THEN "NEEDS_ATTENTION"
                                         ELSE job[id]]
             /\ Goto(t, IF marks = {} THEN NoCall
                        ELSE [NoCall EXCEPT !.pc = "mark", !.todo = marks,
                                            !.ready = back \cap marks])
    /\ UNCHANGED <<op, failures>>

-----------------------------------------------------------------------------
(* The store calls in the middle of a call.                                *)

\* compare_and_swap: a stale copy is refused, and so is an illegal change.
Save(t) ==
    LET th == thread[t]
    IN  /\ th.pc = "save"
        /\ \/ /\ th.fresh
              /\ ValidStatusTransition(op.status, th.op.status)
              /\ op' = th.op
              /\ thread' = [u \in Threads |->
                              IF u = t THEN Resume(th) ELSE Overtaken(thread[u])]
           \/ /\ ~(th.fresh /\ ValidStatusTransition(op.status, th.op.status))
              /\ Goto(t, NoCall)
              /\ UNCHANGED op
        /\ UNCHANGED <<job, failures>>

\* materialize_pending decides the pending steps in order.
Scan(t) ==
    LET th == thread[t]
        s == First(th.todo)
        next == [th EXCEPT !.todo = @ \ {s},
                           !.ready = IF PlannedJobReady(th.op, s) THEN @ \cup {s} ELSE @]
    IN  /\ th.pc = "scan"
        /\ Goto(t, IF next.todo = {} THEN EndScan(next) ELSE next)
        /\ UNCHANGED <<op, job, failures>>

\* Mutant: the step is taken off the pending list but its binding is dropped.
EnqueueJobUnbound(t) ==
    LET th == thread[t]
        s == First(th.todo)
        id == BindingFor(th.op, s)
        next == [th EXCEPT !.todo = @ \ {s}]
    IN  /\ th.pc = "enqueue"
        /\ job' = [job EXCEPT ![id] = IF @ = "ABSENT" THEN "QUEUED" ELSE @]
        /\ Goto(t, IF next.todo = {} THEN SaveBindings(next) ELSE next)
        /\ UNCHANGED <<op, failures>>

\* Mutant: an error of the job store is swallowed.
EnqueueJobSwallowed(t) ==
    LET th == thread[t]
        s == First(th.todo)
        id == BindingFor(th.op, s)
        next == [th EXCEPT !.todo = @ \ {s}, !.op.bindings = @ \cup {id}]
    IN  /\ th.pc = "enqueue"
        /\ job' \in {job, [job EXCEPT ![id] = IF @ = "ABSENT" THEN "QUEUED" ELSE @]}
        /\ Goto(t, IF next.todo = {} THEN SaveBindings(next) ELSE next)
        /\ UNCHANGED <<op, failures>>

\* ... and enqueues the ready ones; a job that exists already stays as it is.
EnqueueJob(t) ==
    LET th == thread[t]
        s == First(th.todo)
        id == BindingFor(th.op, s)
        next == [th EXCEPT !.todo = @ \ {s}, !.op.bindings = @ \cup {id}]
    IN  /\ th.pc = "enqueue"
        /\ job' = [job EXCEPT ![id] = IF @ = "ABSENT" THEN "QUEUED" ELSE @]
        /\ Goto(t, IF next.todo = {} THEN SaveBindings(next) ELSE next)
        /\ UNCHANGED <<op, failures>>

Cancelled(status) ==
    CASE status = "QUEUED" -> "CANCELLED"
      [] status = "LEASED" -> "CANCEL_REQUESTED"
      [] OTHER -> status

CancelJob(t) ==
    LET th == thread[t]
    IN  /\ th.pc = "cancel"
        /\ \E id \in th.todo :
              /\ job' = [job EXCEPT ![id] = Cancelled(@)]
              /\ Goto(t, [th EXCEPT !.todo = @ \ {id},
                                    !.pc = IF th.todo = {id} THEN "project" ELSE "cancel"])
        /\ UNCHANGED <<op, failures>>

\* derive_projection reads the jobs of the steps in order.  A CANCELLING
\* operation is concluded after one more look at the jobs.
Derive(t) ==
    LET th == thread[t]
        s == First(th.todo)
        next == [th EXCEPT !.todo = @ \ {s}, !.shown[s] = Show(th.op, s)]
    IN  /\ th.pc = "derive"
        /\ Goto(t, IF next.todo # {} THEN next
                   ELSE IF th.op.status = "CANCELLING" THEN [next EXCEPT !.pc = "conclude"]
                   ELSE EndProjection(next, RunningStatus(next.shown)))
        /\ UNCHANGED <<op, job, failures>>

\* The cancellation loop of project_once: with compensation blocked and no
\* job active, materialize and derive again; the same result twice is stuck.
Conclude(t) ==
    LET th == thread[t]
        status == CancellingStatus(th.shown)
        blocked == \E s \in th.op.pending \cap CompensationSteps : th.shown[s] = "BLOCKED"
        active == \E s \in Steps : MaterializedJob(th.op, s) \notin Terminal \cup {"ABSENT"}
    IN  /\ th.pc = "conclude"
        /\ Goto(t, IF th.prev = th.shown THEN EndProjection(th, "NEEDS_ATTENTION")
                   ELSE IF status # "CANCELLING" \/ ~blocked \/ active
                   THEN EndProjection(th, status)
                   ELSE MaterializePending([th EXCEPT !.prev = th.shown]))
        /\ UNCHANGED <<op, job, failures>>

\* recover, on one job: a job sent back is cancelled first; then
\* mark_needs_attention reads the operation and saves it.
Mark(t) ==
    LET th == thread[t]
    IN  /\ th.pc = "mark"
        /\ \E id \in th.todo :
              \/ /\ id \in th.ready
                 /\ job' = [job EXCEPT ![id] = Cancelled(@)]
                 /\ Goto(t, [th EXCEPT !.ready = @ \ {id}])
              \/ /\ id \notin th.ready
                 /\ Goto(t, ToSave([th EXCEPT !.op = [op EXCEPT !.status = "NEEDS_ATTENTION"],
                                              !.fresh = TRUE,
                                              !.todo = @ \ {id}],
                                   "mark"))
                 /\ UNCHANGED job
        /\ UNCHANGED <<op, failures>>

\* The process dies, or the store fails, before the next store call.
Fail(t) ==
    /\ ~Idle(t)
    /\ failures < MaxFailures
    /\ failures' = failures + 1
    /\ Goto(t, NoCall)
    /\ UNCHANGED <<op, job>>

Step(t) == Save(t) \/ Scan(t) \/ EnqueueJob(t) \/ CancelJob(t) \/ Derive(t)
           \/ Conclude(t) \/ Mark(t) \/ (~Idle(t) /\ Project(t))

-----------------------------------------------------------------------------
(* The workers, through the job store: see JobLifecycle.                   *)

SetJob(id, status) ==
    /\ job' = [job EXCEPT ![id] = status]
    /\ UNCHANGED <<op, thread, failures>>

ClaimJob(id) == job[id] = "QUEUED" /\ SetJob(id, "LEASED")

\* A completion, or the expiry a late heartbeat or completion meets.
EndJob(id) ==
    job[id] \in Held /\ \E status \in Terminal : SetJob(id, status)

\* A retryable failure with attempts left over.
ReturnJob(id) == id[1] \in Retryable /\ job[id] \in Held /\ SetJob(id, "QUEUED")

-----------------------------------------------------------------------------
Init ==
    /\ op = PlannedOp
    /\ job = [id \in JobIds |-> "ABSENT"]
    /\ thread = [t \in Threads |-> NoCall]
    /\ failures = 0

Next ==
    \/ \E t \in Threads :
          \/ Confirm(t) \/ Enqueue(t) \/ Cancel(t) \/ Retry(t) \/ Project(t) \/ Recover(t)
          \/ Step(t) \/ Fail(t)
    \/ \E id \in JobIds : ClaimJob(id) \/ EndJob(id) \/ ReturnJob(id)

Spec == Init /\ [][Next]_vars

\* A call that has begun goes on; the recovery loop keeps calling; a job is
\* claimed and, within its attempts, ends.
Fairness ==
    /\ \A t \in Threads : WF_vars(Step(t))
    /\ WF_vars(\E t \in Threads : Repair(t))
    /\ \A id \in JobIds : WF_vars(ClaimJob(id)) /\ SF_vars(EndJob(id))

FairSpec == Spec /\ Fairness

-----------------------------------------------------------------------------
(* Properties.                                                             *)

(* The operation, the jobs and the calls have their types, and every step  *)
(* of the plan is pending or bound.                                        *)
TypeOK ==
    /\ op \in Operation
    /\ job \in [JobIds -> JobStatus]
    /\ \A t \in Threads : thread[t].op \in Operation
    /\ failures \in 0 .. MaxFailures
    /\ \A s \in Steps : s \in op.pending \/ IsBound(op, s)

(* A binding saved in the operation always has its job: jobs are enqueued  *)
(* before the bindings are saved, whichever call crashes or loses a race.  *)
BindingsBacked == \A id \in op.bindings : job[id] # "ABSENT"

(* Concurrent calls never lose each other's work: a binding that was saved *)
(* stays, so cancel and project reach the job behind it, although every    *)
(* call writes the whole operation from its own copy.                      *)
BindingsKept == [][op.bindings \subseteq op'.bindings]_vars

(* An operation that ended with a known outcome has no live job behind its *)
(* bindings, and its stored result shows the final status of each of them: *)
(* no terminal job is left behind a stale LEASED or RUNNING snapshot.      *)
SettledSnapshot ==
    op.status \in Settled /\ op.bindings # {} =>
        \A s \in Steps : IsBound(op, s) =>
            /\ job[ActiveBinding(op, s)] \in Terminal
            /\ op.result[s] = job[ActiveBinding(op, s)]

(* Success is earned: when the operation is reported successful, every     *)
(* forward step has a job that succeeded in its newest generation.         *)
SuccessIsEarned ==
    op.status \in {"SUCCEEDED", "ROLLED_BACK"} =>
        \A s \in ForwardSteps : IsBound(op, s) /\ job[ActiveBinding(op, s)] = "SUCCEEDED"

(* A successful first generation has started no compensation.              *)
NoCompensationOfSuccess ==
    op.status \in {"SUCCEEDED", "ROLLED_BACK"} /\ op.generation = 0 =>
        \A s \in CompensationSteps : job[<<s, 0>>] = "ABSENT"

(* The newest job the store has for a step. *)
Newest(s) ==
    LET gens == {g \in 0 .. MaxGeneration : job[<<s, g>>] # "ABSENT"}
    IN  IF gens = {} THEN "ABSENT" ELSE job[<<s, Max(gens)>>]

Created(id) == job[id] = "ABSENT" /\ job'[id] # "ABSENT"

(* What PlannedJobCondition::OnFailure says: NEEDS_ATTENTION never         *)
(* auto-compensates.  No ON_FAILURE job is created once the newest job of   *)
(* one of its dependencies has ended with an unknown outcome.              *)
NoCompensationOfUnknown ==
    [][\A s \in OnFailure, g \in 0 .. MaxGeneration :
         Created(<<s, g>>) => \A d \in Deps(s) : Newest(d) # "NEEDS_ATTENTION"]_vars

(* An ended operation stays as it ended, except that retry starts a new    *)
(* generation of a failed one.                                             *)
EndedStays ==
    [][op.status \in OpTerminal =>
         \/ op'.status = op.status
         \/ op.status = "FAILED" /\ op'.status = "ENQUEUING"
            /\ op'.generation = op.generation + 1]_vars

(* Every operation that started ends: none stays ENQUEUING, RUNNING or     *)
(* CANCELLING for ever.                                                    *)
StartedEnds ==
    op.status \in {"ENQUEUING", "RUNNING", "CANCELLING"} ~> op.status \in OpTerminal

(* What PlannedJobCondition::OnFailure says: once the dependencies have    *)
(* ended and one of them is known to have failed, the compensation is      *)
(* materialized; a FAILED operation has not left it out.                   *)
CompensationNotLost ==
    op.status = "FAILED" =>
        \A s \in OnFailure :
            PlannedJobReady(op, s) => IsBound(op, s)

(* What operation-model.md says of cancellation: the operation stays       *)
(* CANCELLING until every outcome is proven; a CANCELLED one has no forward *)
(* job that can still run.                                                 *)
CancelledIsQuiet ==
    op.status = "CANCELLED" =>
        \A s \in ForwardSteps, g \in 0 .. MaxGeneration :
            job[<<s, g>>] \in Terminal \cup {"ABSENT"}

(* What PlannedJobCondition::OnFailure says: compensation is materialized  *)
(* after its dependencies are terminal; what the uninstall fragment says:  *)
(* the restoring health check completes before the abort.                  *)
CompensationAfterOutcome ==
    [][\A s \in OnFailure, g \in 0 .. MaxGeneration :
         Created(<<s, g>>) => \A d \in Deps(s) : Newest(d) \in Terminal \cup {"ABSENT"}]_vars

=============================================================================
