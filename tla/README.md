# Untitled-OJ: TLA+ specifications

Untitled-OJ is an online judge made of services (Go and Rust) that an
*orchestrator* installs, connects and upgrades on nodes. This directory holds
TLA+ models of the parts where several processes must agree on what was done,
the TLC configurations that check them on small instances, and TLAPS proofs.
Every definition is written from the source; `PROJECT.json` maps each one to the
lines it stands for.

## The system

| Part | Source | State |
|---|---|---|
| Agent API: claim and complete | `backend/src/agent_api.rs` | only what these two endpoints do to the job store |
| Durable jobs: lease, heartbeat, completion, expiry, retry, cancellation | `services/orchestrator/control-plane/src/lib.rs`, `storage/src/{jobs,postgres_jobs}.rs` | modelled |
| Upgrade of the expired-lease count from schema v8 | `backend/src/observability.rs`, `storage/src/operations.rs` | modelled, in `JobStore` |
| Operations: plans of dependent jobs with compensation | `control-plane/src/operation.rs`, `backend/src/topology_worker/recovery.rs` | modelled except the creation of plans |
| Node agent: worker loop and ledger of job runs | `agent/src/worker.rs`, `agent/src/ledger.rs` | modelled; the ledger's migration, provider and runtime-context tables are not |
| Control-plane worker with its heartbeat thread | `backend/src/topology_worker/lease.rs` | planned |
| Topology revisions, apply and compensation fenced by job leases | `storage/src/topology.rs`, `topology_worker/apply.rs` | planned |
| Contribution activation and acknowledgement | `storage/src/contribution.rs`, `backend/src/contribution_controller.rs` | planned |
| Idempotent API requests | `storage/src/idempotency.rs` | planned |
| Judge tasks: queue, leases, reports, recovery, result outbox | `services/judge-api/internal/repository`, `services/judge-worker/src/worker_link.rs` | planned |
| Event outbox and consumers | `platform/shared/go/eventing` | planned |
| Problem packages: journalled mutation, artifact collection | `services/problem-service/internal/{packagemutation,artifactgc}` | planned |
| Installer's version switch | `manager/installer/src/lib.rs` | planned |
| Agent's container executor, sandbox, checkers | `agent/src/executor.rs`, `services/judge-worker/src` | operating system side effects; not planned |
| Node identity, transport | `storage/src/node_identity.rs`, `agent/src/{identity,transport}.rs` | mostly parsing and cryptography; not planned |
| HTTP routes, gateway, domain services, manager UIs, SDK, deployment files, legacy orchestrator | the rest | request handling and CRUD, one database statement each; not planned |

How the modelled parts interact: an API call plans an *operation* and confirms
it. The coordinator enqueues the jobs whose dependencies allow it. Agents (or
the control plane's own worker) claim jobs under a lease with a random token,
execute them and report a completion. Each completion, and a periodic recovery
loop, projects the operation: it enqueues what became ready and derives the
operation's status from its jobs. A lease that is not renewed expires, and what
happens to its job depends on whether its kind is safe to repeat.

## Modules

`JobLifecycle` is the abstract job store: what it promises, without time,
selection order or storage. Per job it has the status, attempt, token of the
current or last lease and the completion fingerprint (`life`). Two history
variables record how each lease ended (`leases`) and which completions were
acknowledged (`acked`). A token is the number of the grant, because real tokens
are never reused. Its actions are the operations of the `JobStore` trait in
`lib.rs`: `Enqueue`, `Claim`, `RequestCancel`, `HandBack` (a completion that
returns the job for another attempt), `Finish` (one that ends it),
`Reacknowledge` (a repeated completion), `Expire` and `ResolveSuccess`.

`JobStore` is the SQL store, one action per transaction, with the wall clock
(`clock`), the columns that decide (`job`), the table of status counters
(`counts`), the anomaly counter (`expired`) and the markers of leases that were
counted before (`marker`). A request carries the instant its caller read, which may be up to `MaxLag` old when the transaction runs:
the agent API reads the clock before it takes the store's mutex
(`agent_api.rs:1492`). Any holder of any past lease may send heartbeats and
completions at any time. With `SkipLocked` the selection passes over rows another
transaction has locked, as PostgreSQL's does. It INSTANCEs `JobLifecycle`, and
`ImplementsLifecycle` is the refinement.

Expired leases are counted once per *episode* (attempt, deadline and token,
`lease_episode_identity`). Schema v8 kept the count and the episodes it had seen
in a generic record; this version moves them into tables of the store when it
starts, before it recovers or serves anything (`server.rs:718`), and a marker keeps
a lease that v8 had counted from being counted again. A behaviour therefore
starts under v8 (`legacy.phase`), goes through `MigrateLegacyAnomalyState` (one
transaction) and `ClearLegacyAnomalyState` (the rewrite of the record; a process
that dies before it migrates again) and then serves requests. An empty v8 is a
fresh installation. v8 itself is not in the repository: `ObserveExpired` and
`ExpireObserved` are what its record tells, and marked external. `noticed` is a
history of the episodes any process found expired.

`OperationCoordinator` is one operation and the calls on it. An action is one
call of the job store or of the operation repository, with the thread-local code
up to the next one; `Threads` run such calls concurrently, while workers move
the jobs. `op` is the durable operation, `thread[t]` the call a thread is in with
its own copy of the operation, and `Save` the compare-and-swap. A copy is
`fresh` until somebody else saves, which is all the revision is used for. A call
that loses the race ends; the next round of its CAS loop (up to four in the
code, `operation.rs:9-10`) is another call. `Fail` cuts a call off before its
next store call: a crash or a store error. QUEUED and RETRY_WAIT are one status here. The plans in
`MCOperationCoordinator` are those the code builds: `InstallPlan` is the topology
part of an installation (`store/install.rs:747`), `ReplacementPlan` an upgrade
without topology that publishes a contribution (`store/replacement.rs:917`,
`contribution_controller.rs:480`), `UninstallPlan` an uninstall that withdraws one
(`deployment.rs:84`, `contribution_controller.rs:555`). `PairPlan` is the smallest
plan with a compensation; it is run in mode ROLLBACK, where the API accepts any
plan that `validate_plan` does.

`NodeAgent` composes `JobLifecycle` with one agent: `worker` is the point the loop
has reached, `ledger` the table `job_runs`, `requests` the completion requests
on their way, `runs` a history of how each execution ended. Claim responses
get lost; completion requests get lost, delayed and repeated; a lease may expire
under a living holder; the agent may crash, or be shut down, anywhere. Only the
ledger survives. An answer 422 of the API (the runtime observation is older than
the completion) is a lost request in this model.

## Runs

| Run | Instance | What it shows |
|---|---|---|
| `job_lifecycle` | 2 jobs, one retry-safe, 2 attempts | the inductive invariant of the proofs; finality |
| `job_store` | 2 jobs, 1 node, 2 attempts, lag 1, locked rows, upgrade at any point | one holder, no blind rerun, acknowledged outcomes stand, one verdict per lease, exact counters (status and expired leases), refinement of `JobLifecycle` |
| `job_store_time` | 1 job, 4 attempts, lag 2, clock to 9, lease 3, delays 1 and 4 | attempt budget; no lease ends early and no completion is accepted late; waiting is bounded above and below by the delay of the attempt; the lease counter over several attempts |
| `operation_race` | 2 threads, an action and its compensation | every interleaving of the store calls of two callers, in mode ROLLBACK: no lost binding, settled snapshots, no compensation of a success or an unknown outcome, ended operations stay ended |
| `operation_retry` | 1 caller, the 4-step installation plan, 2 generations, 1 failure of a call | settled snapshots, backed bindings and ended operations over a retry, and success is earned |
| `operation_ends` | 1 caller, the 5-step replacement plan, 1 failure of a call | a started operation ends |
| `node_agent` | 2 jobs, 2 attempts, 1 crash or shutdown | the ledger prevents reruns, node and control plane agree, failures are known, every job ends |
| `cancel_request`, `lost_compensation`, `late_forward_job`, `retried_unknown`, `abort_before_health` | | the findings below |

The bounds. Two jobs are enough for what jobs share: the batch of a recovery,
the counters, the worker. Two attempts give one retry; `job_store_time` has
four, so three retries meet a delay table of two entries and the index of the
third is clamped (in the code, up to seven retries meet three). The delays 1
and 4 are further apart than the lag, so a wrong entry shows. Its lease of
three ticks exceeds the lag of two, as a lease of 30 s exceeds the wait for a
lock. Two threads exhibit every race between one stale copy and one save. With
two generations a retried plan meets the bindings of the former one. One crash
of the agent is enough to lose any one step; the safety properties also hold
with two (1.15 million states, not part of the runs).

`CHECK_DEADLOCK FALSE` everywhere: jobs and operations end, and the bounded
clock stops.

## Fairness

`operation_ends`: a call that has begun goes on (failures are bounded), the recovery
loop keeps calling (`run_lease_recovery_loop`, about once a second), a queued job is
claimed, and a held job ends (strong fairness, because it may go back and forth
between attempts, which the attempt budget bounds in the code and the model of the
coordinator does not count).

`node_agent`: the loop keeps polling and is restarted by its supervisor, the
executor returns, a claim is eventually answered, and the recovery loop expires
a lease that nobody renews. No completion request is assumed to arrive:
`EnqueuedEnds` rests on the expiry alone.

## What is proved

With `tlapm`, for every value of the constants allowed by the named assumptions
(finite set of jobs, positive attempt budgets and lease time, non-empty table of
delays, any lag and any bound on the clock):

* `JobLifecycleProofs!Safety`: the abstract store always satisfies its types and
  `SingleHolder`, `NoBlindRerun`, `AttemptBudget`, `AckedOutcomeStands`,
  `OneVerdictPerLease`.
* `JobLifecycleProofs!Finality`: a terminal job never changes.
* `JobStoreProofs!StoreTypes`: types of the SQL store, including that no status
  counter becomes negative.
* `JobStoreProofs!Refinement`: the SQL store implements `JobLifecycle`.
* `JobStoreProofs!StoreSafety`: hence the safety properties hold of the SQL store.

The argument. None of the five properties is inductive: that an acknowledged
outcome stands depends on how the lease that carried it ended, which only the
history of leases knows. `IndInv` ties each job's row to its lease history
(`RowOK`: the token is the number of leases; only the newest lease can be held, and
is exactly when the status says so; the attempt is within the budget) and each
acknowledged completion to both (`AckOK`: its lease has ended, and either was
handed back or is the one the terminal row shows). Each action has a lemma
that it preserves `IndInv`; the lemmas about one row (`ClaimRow`, `EndRow`, `AckEnd`)
are shared. For the refinement, each transaction has a lemma that maps it to an
action of `JobLifecycle` or to a stutter; a batch of expired leases maps to
one `Expire(S)`, and a late heartbeat or completion that meets an expired lease to
`Expire({j})`. The upgrade, and v8 noting a lease it found expired, are
stutters. `IndInv` is also checked by TLC in the run `job_lifecycle`.

Only model-checked: the exact counters (status and expired leases), the timing
properties, finality stated on the SQL store, everything about operations and agents, and all liveness (fairness
and ENABLED are outside the prover).

## Findings

1. **A cancellation request is forgotten** (`cancel_request`). `complete` with
   RETRYABLE_FAILURE sends a CANCEL_REQUESTED job to RETRY_WAIT when it has
   attempts left (`storage/src/jobs.rs:275`), and it runs again. An agent that is shut
   down while cancelling reports exactly this. `docs/orchestrator/operation-model.md:41`
   has `CANCEL_REQUESTED -> CANCELLED`.
2. **Compensation can be left out** (`lost_compensation`). `project_once` decides
   which steps are ready and then reads the jobs again (`operation.rs:551-553`). A job
   that fails in between makes the operation FAILED with its compensation dormant.
3. **A forward job of a cancelled operation** (`late_forward_job`). A caller that
   decided before the cancellation enqueues afterwards; only its save is
   refused (`operation.rs:702`). The job is claimed and runs although the operation
   is CANCELLED.
4. **Compensation beside its retried step** (`retried_unknown`). After `retry`,
   readiness reads the former generation's failed binding (`operation.rs:751`), so
   the compensation is enqueued in the same round as the step it depends on,
   whatever the new job does. In this run it has ended NEEDS_ATTENTION by then;
   `operation.rs:75` says that NEEDS_ATTENTION never auto-compensates, and
   `docs/orchestrator/operation-model.md:59` that it stops compensation. Within one
   generation `NoCompensationOfUnknown` holds (`operation_race`).
5. **The abort does not wait for the health check** (`abort_before_health`). In an
   uninstall plan the contribution's ABORT depends on an ON_FAILURE health check. A
   dependency that is not bound yet is skipped (`operation.rs:757`), also one that
   becomes ready in the same round, so both are enqueued together when the
   uninstall fails. An abort that runs first finds no successful health job and
   ends NEEDS_ATTENTION (`contribution_controller.rs:1517`), where
   `contribution_controller.rs:550` says that the health observation completes
   first.

Smaller observations, without a run of their own: `recover` stops at the first
operation that refuses to be marked NEEDS_ATTENTION (a terminal one), leaving the
rest to the next pass. The stored result of a NEEDS_ATTENTION operation may be
stale; `SettledSnapshot` is therefore about known outcomes. A compensation that
succeeded in one generation is not run again in the next. A shutdown that races
with a claim on the last attempt makes the job FAILED without running it. For a
retry-safe job, FAILED may be recorded though the node's ledger says SUCCEEDED;
`FailureIsKnown` is therefore about the others. A retry-safe job interrupted by a
crash is leased again, but the ledger answers NEEDS_ATTENTION. A contribution's
ABORT does not depend on its COMMIT (`contribution_controller.rs:453-461`), so a commit
that fails ends the operation FAILED with the abort dormant; the topology
ABORT of `store/install.rs:768` does list the FINALIZE it compensates.

## What the models leave out

In the anomaly record: the episodes of long operations, which have a counter and
markers of their own, and later starts of this version, which find the record
empty and move nothing. Payloads, hashes, event logs and error texts: a request
that is rejected is a step that changes nothing. The evidence by which topology jobs are resolved as
successful after expiry is a fact that may exist. Database transactions are
atomic, and row locks are what PostgreSQL promises. Only the failing store calls
of `Fail` are modelled, not a commit whose answer is lost (for enqueue and save
this is the same as a crash just after the call). `plan` and `rollback` insert new
operations and are the initial state, in both modes; the ids of jobs needing
attention are folded into NEEDS_ATTENTION.

## Plan

Next modules, in this order, each with its abstract specification where it has
one: `TopologyRevisions` (heads, group apply and fencing by the job's lease,
composed with `JobLifecycle`), the control-plane worker's heartbeat,
`JudgeTasks` (task lease, report, stale recovery, worker link) and the result
outbox, `Eventing` (at-least-once delivery, refined to effects happening once),
`PackageMutation` (journal, directories and database row under crashes), artifact
collection, idempotent requests, contribution activation, the installer's switch,
and the agent's migration ledger. Then proofs: `StatusCountsExact`,
`NoEarlyExpiry`, `BoundedWait` and finality of `JobStore`, the safety of
`NodeAgent` (by the invariant that relates runs, ledger and requests),
`BindingsBacked` and `EndedStays` of the coordinator, and the inductive
invariants of the modules to come.
