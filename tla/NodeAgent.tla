----------------------------- MODULE NodeAgent -----------------------------
(***************************************************************************)
(* One node agent executing the jobs of the durable store (JobLifecycle):  *)
(* the worker loop, the local SQLite ledger that remembers what was run,   *)
(* and the requests between them and the control plane.                    *)
(*                                                                         *)
(* The agent may crash or be shut down anywhere; only the ledger survives. *)
(* A claim response may be lost.  A completion request may be lost, or     *)
(* delivered any time later and more than once.  A lease may expire while  *)
(* its holder is alive, because heartbeats are late or lost.               *)
(***************************************************************************)
EXTENDS JobLifecycle

CONSTANT MaxRestarts    \* bound on crashes and shutdowns of the agent
ASSUME MaxRestartsAssumption == MaxRestarts \in Nat

VARIABLES
    worker,         \* the worker loop: where it is, on which job and lease
    ledger,         \* job_runs: what the agent recorded about each job
    requests,       \* completion requests on their way to the store
    runs,           \* history: how each execution of a job ended
    restarts        \* how often the agent went down

agentVars == <<worker, ledger, requests, runs, restarts>>
allVars == <<vars, agentVars>>

LedgerState == CompletionStatus \cup {"NONE", "RUNNING"}

\* How an execution ended: what the executor returned, "drained" for a
\* cancellation during shutdown, "interrupted" when nobody knows.
RunEnd == CompletionStatus \cup {"running", "drained", "interrupted"}

\* The completions the agent makes up itself.
AnyResult == CHOOSE r \in Results : TRUE
Unproven == [status |-> "NEEDS_ATTENTION", result |-> AnyResult]
Released == [status |-> "RETRYABLE_FAILURE", result |-> AnyResult]

NoEntry == [state |-> "NONE", completion |-> NoFingerprint]
Entry(o) == [state |-> o.status, completion |-> o]

\* The worker loop stands at one of these points; "shutdown" is the watched
\* signal, "cancel" and "drain" belong to the execution in progress.
Points == {"down", "poll", "claimed", "execute", "finish", "report"}
At(pc) == worker.pc = pc
Polling == [pc |-> "poll", job |-> "none", token |-> NoToken, outcome |-> NoFingerprint,
            shutdown |-> FALSE, cancel |-> FALSE, drain |-> FALSE]
Down == [Polling EXCEPT !.pc = "down"]

-----------------------------------------------------------------------------
AgentInit ==
    /\ Init
    /\ worker = Polling
    /\ ledger = [j \in Jobs |-> NoEntry]
    /\ requests = {}
    /\ runs = [j \in Jobs |-> <<>>]
    /\ restarts = 0

\* The execution in progress ends this way.
EndRun(j, end) == runs' = [runs EXCEPT ![j][Len(runs[j])] = end]

\* The control plane, without the agent.
ControlPlane ==
    /\ \/ \E j \in Jobs : Enqueue(j) \/ RequestCancel(j)
       \/ \E S \in SUBSET Jobs : Expire(S)
    /\ UNCHANGED agentVars

\* The store grants a lease but the response does not arrive: a transport
\* error, or a shutdown observed first.
ClaimLost(j) ==
    /\ At("poll")
    /\ Claim(j)
    /\ UNCHANGED agentVars

\* A job is claimed and the response arrives, perhaps just after a shutdown.
ClaimJob(j) ==
    /\ At("poll")
    /\ Claim(j)
    /\ worker' = [worker EXCEPT !.pc = "claimed", !.job = j, !.token = life'[j].token]
    /\ UNCHANGED <<ledger, requests, runs, restarts>>

ToReport(o) == worker' = [worker EXCEPT !.pc = "report", !.outcome = o]

\* Shutdown raced with the claim response: the lease is given back before
\* anything runs.
ReleaseClaim ==
    /\ At("claimed") /\ worker.shutdown
    /\ ToReport(Released)
    /\ UNCHANGED <<ledger, requests, runs, restarts>>

\* The payload does not have its hash, or not the one the ledger recorded.
RefusePayload ==
    /\ At("claimed") /\ ~worker.shutdown
    /\ ToReport(Unproven)
    /\ UNCHANGED <<ledger, requests, runs, restarts>>

\* ledger.begin: a new job or a retryable one is executed.
BeginExecute ==
    /\ At("claimed") /\ ~worker.shutdown
    /\ ledger[worker.job].state \in {"NONE", "RETRYABLE_FAILURE"}
    /\ ledger' = [ledger EXCEPT ![worker.job] = [state |-> "RUNNING",
                                                 completion |-> NoFingerprint]]
    /\ runs' = [runs EXCEPT ![worker.job] = Append(@, "running")]
    /\ worker' = [worker EXCEPT !.pc = "execute"]
    /\ UNCHANGED <<requests, restarts>>

\* ledger.begin: any other job answers with what the ledger holds; a run
\* still RUNNING is ambiguous.
BeginReplay ==
    LET entry == ledger[worker.job]
        completion == IF entry.state = "RUNNING" THEN Unproven ELSE entry.completion
    IN  /\ At("claimed") /\ ~worker.shutdown
        /\ entry.state \notin {"NONE", "RETRYABLE_FAILURE"}
        /\ ledger' = [ledger EXCEPT ![worker.job] = Entry(completion)]
        /\ ToReport(completion)
        /\ UNCHANGED <<requests, runs, restarts>>

\* A heartbeat is answered with cancel_requested: the executor is told.
HeartbeatCancel ==
    /\ At("execute") /\ ~worker.drain
    /\ life[worker.job].status = "CANCEL_REQUESTED"
    /\ life[worker.job].token = worker.token
    /\ worker' = [worker EXCEPT !.cancel = TRUE]
    /\ UNCHANGED <<ledger, requests, runs, restarts>>

\* The loop notices the shutdown: the executor is told to cancel and drained.
BeginDrain ==
    /\ At("execute") /\ worker.shutdown /\ ~worker.drain
    /\ worker' = [worker EXCEPT !.cancel = TRUE, !.drain = TRUE]
    /\ UNCHANGED <<ledger, requests, runs, restarts>>

Executed(o, end) ==
    /\ worker' = [worker EXCEPT !.pc = "finish", !.outcome = o,
                                !.cancel = FALSE, !.drain = FALSE]
    /\ EndRun(worker.job, end)
    /\ UNCHANGED <<ledger, requests, restarts>>

\* Mutant: an execution that was dropped counts as failed.
OutcomeUnknownFails ==
    /\ At("execute")
    /\ Executed([Unproven EXCEPT !.status = "FAILED"], "interrupted")

\* A heartbeat is lost or refused, or the drain deadline passes: the
\* execution is dropped and its outcome is unknown.
OutcomeUnknown ==
    /\ At("execute")
    /\ Executed(Unproven, "interrupted")

\* The executor returns; CANCELLED only if it was told to cancel.
ExecutorReturns ==
    /\ At("execute")
    /\ \E o \in Outcomes :
          /\ o.status = "CANCELLED" => worker.cancel
          /\ IF o.status = "CANCELLED" /\ worker.drain
             THEN Executed([o EXCEPT !.status = "RETRYABLE_FAILURE"], "drained")
             ELSE Executed(o, o.status)

\* Mutant: the state is written, the completion is not.
LedgerFinishStateOnly ==
    /\ At("finish")
    /\ ledger' = [ledger EXCEPT ![worker.job].state = worker.outcome.status]
    /\ ToReport(worker.outcome)
    /\ UNCHANGED <<requests, runs, restarts>>

\* Mutant: an error of the ledger is ignored and the outcome reported.
LedgerFinishIgnored ==
    /\ At("finish")
    /\ ToReport(worker.outcome)
    /\ UNCHANGED <<ledger, requests, runs, restarts>>

\* ledger.finish: the outcome is durable on the node before it is reported.
LedgerFinish ==
    /\ At("finish")
    /\ ledger[worker.job].state = "RUNNING"
    /\ ledger' = [ledger EXCEPT ![worker.job] = Entry(worker.outcome)]
    /\ ToReport(worker.outcome)
    /\ UNCHANGED <<requests, runs, restarts>>

\* Mutant: the report is repeated until the store has it.
ReportUntilAccepted ==
    /\ At("report")
    /\ requests' = requests \cup {[job |-> worker.job, token |-> worker.token,
                                   outcome |-> worker.outcome]}
    /\ worker' = IF requests' \subseteq acked
                 THEN IF worker.shutdown THEN Down ELSE Polling
                 ELSE worker
    /\ UNCHANGED <<ledger, runs, restarts>>

\* report_completion: one request.  Whatever the answer, the loop goes on,
\* or ends if it was shut down.
ReportCompletion ==
    /\ At("report")
    /\ requests' = requests \cup {[job |-> worker.job, token |-> worker.token,
                                   outcome |-> worker.outcome]}
    /\ worker' = IF worker.shutdown THEN Down ELSE Polling
    /\ UNCHANGED <<ledger, runs, restarts>>

\* The store handles a completion request: it accepts the one of the current
\* lease and the repeated one.  The others change nothing, and a request
\* that is never delivered is lost.
Deliver(m) ==
    /\ life[m.job].token = m.token
    /\ HandBack(m.job, m.outcome) \/ Finish(m.job, m.outcome) \/ Reacknowledge(m.job, m.outcome)
    /\ UNCHANGED agentVars

Shutdown ==
    /\ ~At("down") /\ ~worker.shutdown
    /\ restarts < MaxRestarts
    /\ restarts' = restarts + 1
    /\ worker' = [worker EXCEPT !.shutdown = TRUE]
    /\ UNCHANGED <<ledger, requests, runs>>

\* The loop ends between two jobs.
ShutdownRequested ==
    /\ At("poll") /\ worker.shutdown
    /\ worker' = Down
    /\ UNCHANGED <<ledger, requests, runs, restarts>>

\* The process ends anywhere: a crash, or an error of the ledger or executor.
Crash ==
    /\ ~At("down")
    /\ restarts < MaxRestarts
    /\ restarts' = restarts + 1
    /\ worker' = Down
    /\ IF At("execute") THEN EndRun(worker.job, "interrupted") ELSE UNCHANGED runs
    /\ UNCHANGED <<ledger, requests>>

\* Mutant: an interrupted run may be tried again.
RestartRetries ==
    /\ At("down")
    /\ worker' = Polling
    /\ ledger' = [j \in Jobs |->
                    IF ledger[j].state = "RUNNING" THEN Entry(Released) ELSE ledger[j]]
    /\ UNCHANGED <<requests, runs, restarts>>

\* A new process opens the ledger, which runs recover_interrupted.
Restart ==
    /\ At("down")
    /\ worker' = Polling
    /\ ledger' = [j \in Jobs |->
                    IF ledger[j].state = "RUNNING" THEN Entry(Unproven) ELSE ledger[j]]
    /\ UNCHANGED <<requests, runs, restarts>>

WorkerStep ==
    \/ ReleaseClaim \/ BeginExecute \/ BeginReplay \/ BeginDrain \/ ExecutorReturns
    \/ LedgerFinish \/ ReportCompletion \/ ShutdownRequested \/ Restart

AgentNext ==
    \/ ControlPlane
    \/ \E j \in Jobs : ClaimLost(j) \/ ClaimJob(j)
    \/ \E m \in requests : Deliver(m)
    \/ /\ WorkerStep \/ RefusePayload \/ HeartbeatCancel \/ OutcomeUnknown
          \/ Shutdown \/ Crash
       /\ UNCHANGED vars

AgentSpec == AgentInit /\ [][AgentNext]_allVars

\* Nobody renews the lease of j.
Abandoned(j) == worker.job # j \/ worker.token # life[j].token

\* The agent is restarted and keeps polling, the executor returns, and the
\* recovery loop finds a lease nobody renews.  No request need arrive.
AgentFairness ==
    /\ WF_allVars(WorkerStep /\ UNCHANGED vars)
    /\ \A j \in Jobs : WF_allVars(ClaimJob(j))
    /\ \A j \in Jobs : WF_allVars(Abandoned(j) /\ Expire({j}) /\ UNCHANGED agentVars)

FairAgentSpec == AgentSpec /\ AgentFairness

-----------------------------------------------------------------------------
(* Properties.                                                             *)

(* The agent's state has its type; a ledger entry that is neither absent   *)
(* nor running holds a completion with that status.                        *)
AgentTypeOK ==
    /\ TypeOK
    /\ worker.pc \in Points
    /\ \A j \in Jobs : /\ ledger[j].state \in LedgerState
                       /\ ledger[j].state \in CompletionStatus
                             => ledger[j].completion.status = ledger[j].state
    /\ requests \subseteq Ack
    /\ runs \in [Jobs -> Seq(RunEnd)]
    /\ restarts \in 0 .. MaxRestarts

(* The executor runs a job again only after the run before it returned a   *)
(* retryable failure or was drained by a shutdown; never after success,    *)
(* failure or an unknown outcome, however many leases, crashes and lost    *)
(* responses lie between, and even for a job the store hands out again     *)
(* after expiry.                                                           *)
NoRerunAfterUnknown ==
    \A j \in Jobs : \A k \in 1 .. Len(runs[j]) - 1 :
        runs[j][k] \in {"RETRYABLE_FAILURE", "drained"}

(* Node and control plane agree: a lease ends SUCCEEDED or CANCELLED only  *)
(* if the ledger holds exactly this completion and the job's last          *)
(* execution ended that way.                                               *)
OutcomeAgreement ==
    \A j \in Jobs :
        life[j].status = life[j].fingerprint.status
        /\ life[j].status \in {"SUCCEEDED", "CANCELLED"} =>
            /\ ledger[j].completion = life[j].fingerprint
            /\ runs[j] # <<>> /\ runs[j][Len(runs[j])] = life[j].status

(* The FAILED that lets an operation compensate is a known failure: a job  *)
(* that is not safe to repeat is FAILED only if it never ran, or its last  *)
(* run failed or was drained.  Lost reports, crashes in mid-execution and  *)
(* leases released at shutdown never make one out of a success or an       *)
(* unknown outcome.                                                        *)
FailureIsKnown ==
    \A j \in Jobs \ RetrySafe :
        life[j].status = "FAILED" /\ runs[j] # <<>> =>
            runs[j][Len(runs[j])] \in {"FAILED", "RETRYABLE_FAILURE", "drained"}

(* Every job that was enqueued ends, although claims, reports and the      *)
(* agent itself get lost on the way.                                       *)
EnqueuedEnds ==
    \A j \in Jobs : life[j].status \in Waiting ~> life[j].status \in IsTerminal

=============================================================================
