------------------------------ MODULE JobStore ------------------------------
(***************************************************************************)
(* The durable job store of the orchestrator's control plane: the JobStore *)
(* trait as MemoryJobStore, SqliteJobStore and PostgresJobStore implement  *)
(* it.  Every operation is one transaction, hence one action.              *)
(*                                                                         *)
(* Time is a bounded counter.  A request carries the `now_ms` its caller   *)
(* read, and callers read the clock before they take the store's lock (the *)
(* agent API's claim) or wait for a transaction, so `now` is any instant   *)
(* up to MaxLag behind the clock when the transaction runs.  Holders of    *)
(* any lease ever granted may send heartbeats and completions at any time: *)
(* requests are delayed, repeated and reordered.                           *)
(*                                                                         *)
(* A request the store rejects without writing (StaleLease, EventConflict, *)
(* InvalidTransition, an idempotent replay) is a stuttering step.          *)
(*                                                                         *)
(* Expired leases are counted, one per episode (a grant and its deadline). *)
(* A behaviour starts under schema v8, which kept the count and the        *)
(* episodes it had seen in a generic state record.  When this version      *)
(* starts it moves both into the store's own tables, before it serves any  *)
(* request; a marker keeps a lease that v8 had counted from being counted  *)
(* again.  An empty v8 is a fresh installation.                            *)
(***************************************************************************)
EXTENDS Integers, Sequences, FiniteSets

CONSTANTS
    Jobs,           \* job ids; numbers, for the order of job_id
    Nodes,          \* agent nodes and the control plane's own node
    NodeOf,         \* node_id of each job
    RetrySafe,      \* jobs whose JobKind is_retry_safe_after_lease_expiry
    MaxAttempts,    \* max_attempts of each job
    Results,        \* the result payloads a completion can carry
    LeaseMs,        \* lease_ms of claims and heartbeats
    RetryBackoffMs, \* RETRY_BACKOFF_MS: the delays of successive retries
    SkipLocked,     \* TRUE: PostgreSQL, queries pass over locked rows
    MaxLag,         \* bound: how far a request's now_ms is behind the clock
    MaxClock        \* bound on the clock

ASSUME JobsAssumption == Jobs \subseteq Nat /\ IsFiniteSet(Jobs)
ASSUME NodesAssumption == NodeOf \in [Jobs -> Nodes]
ASSUME RetrySafeAssumption == RetrySafe \subseteq Jobs
ASSUME MaxAttemptsAssumption == MaxAttempts \in [Jobs -> Nat \ {0}]
ASSUME TimesAssumption ==
    /\ LeaseMs \in Nat \ {0}
    /\ RetryBackoffMs \in Seq(Nat) /\ RetryBackoffMs # <<>>
    /\ MaxLag \in Nat
    /\ MaxClock \in Nat
ASSUME SkipLockedAssumption == SkipLocked \in BOOLEAN

VARIABLES
    clock,          \* the wall clock of the control plane
    job,            \* the orchestrator_jobs table
    counts,         \* orchestrator_job_status_counts
    expired,        \* counter expired_job_lease_transitions
    marker,         \* orchestrator_active_expired_lease_anomalies
    legacy,         \* the v8 anomaly record, and how far the upgrade has come
    leases,         \* history: how each lease of a job ended, by token
    acked,          \* history: the completions the store has acknowledged
    noticed         \* history: the episodes some process found expired

vars == <<clock, job, counts, expired, marker, legacy, leases, acked, noticed>>

-----------------------------------------------------------------------------
\* The part of a job row that the abstract specification shows.
LifeOf(r) == [status |-> r.status, attempt |-> r.attempt, token |-> r.token,
              fingerprint |-> r.fingerprint]

L == INSTANCE JobLifecycle WITH life <- [j \in Jobs |-> LifeOf(job[j])]

JobRow == [status : L!JobStatus \cup {"ABSENT"}, attempt : Nat, token : Nat,
           fingerprint : L!Outcomes \cup {L!NoFingerprint},
           available : Nat, created : Nat, deadline : Nat]

\* No row yet.  deadline is 0 where lease_expires_at_ms is None.
AbsentRow == [status |-> "ABSENT", attempt |-> 0, token |-> L!NoToken,
              fingerprint |-> L!NoFingerprint,
              available |-> 0, created |-> 0, deadline |-> 0]

\* A lease episode: attempt, deadline and token.
Episodes == Nat \X Nat \X Nat
NoEpisode == <<0, 0, L!NoToken>>

Legacy == [phase : {"v8", "starting", "running"}, total : Nat,
           active : [Jobs -> Episodes]]

-----------------------------------------------------------------------------
(* Helpers of the store, on one row.                                       *)

Nows == {now \in 0 .. clock : clock - now <= MaxLag}

\* Mutant: the table is started over when the attempts outnumber it.
RetryBackoffCycled(attempt) == RetryBackoffMs[((attempt - 1) % Len(RetryBackoffMs)) + 1]

RetryBackoff(attempt) ==
    RetryBackoffMs[IF attempt <= 1 THEN 1
                   ELSE IF attempt <= Len(RetryBackoffMs) THEN attempt
                   ELSE Len(RetryBackoffMs)]

\* Mutant: a row is judged by its leftover deadline, whatever its status.
LeaseIsExpiredAnyStatus(r, now) == r.token # L!NoToken /\ r.deadline <= now

\* Mutant: off by one at the deadline.
LeaseIsExpiredEarly(r, now) == r.status \in L!Held /\ r.deadline <= now + 1

LeaseIsExpired(r, now) == r.status \in L!Held /\ r.deadline <= now

\* Mutant: the lease token is not compared.
ActiveLeaseAnyToken(r, token, now) == r.status \in L!Held /\ now < r.deadline

\* Mutant: the token alone makes a lease alive.
ActiveLeaseAnyTime(r, token, now) == r.status \in L!Held /\ r.token = token

ActiveLease(r, token, now) ==
    r.status \in L!Held /\ r.token = token /\ now < r.deadline

\* Mutant: a repeated completion is recognised without its fingerprint.
SameLeaseOnly(r, token, outcome) == r.status \in L!IsTerminal /\ r.token = token

\* The request repeats the completion the terminal row already carries.
CompletionRepeated(r, token, outcome) ==
    r.status \in L!IsTerminal /\ r.token = token /\ r.fingerprint = outcome

\* Mutant: the deadline is set to a sentinel instead of NULL.
ClearLeaseSentinel(r) == [r EXCEPT !.token = L!NoToken, !.deadline = -1]

ClearLease(r) == [r EXCEPT !.token = L!NoToken, !.deadline = 0]

\* Mutant: every kind of job is tried again after expiry.
RecoverExpiredAnyKind(j, r, now) ==
    ClearLease(
        IF r.status = "LEASED" /\ r.attempt < MaxAttempts[j]
        THEN [r EXCEPT !.status = "RETRY_WAIT",
                       !.available = now + RetryBackoff(r.attempt)]
        ELSE [r EXCEPT !.status = "NEEDS_ATTENTION"])

RecoverExpiredJob(j, r, now) ==
    ClearLease(
        IF L!RetriedAfterExpiry(j, r.status, r.attempt)
        THEN [r EXCEPT !.status = "RETRY_WAIT",
                       !.available = now + RetryBackoff(r.attempt)]
        ELSE [r EXCEPT !.status = "NEEDS_ATTENTION"])

\* Mutant: a retryable failure is retried whatever the attempt.
CompletedJobNoBudget(j, r, outcome, now) ==
    IF outcome.status = "RETRYABLE_FAILURE"
    THEN ClearLease([r EXCEPT !.status = "RETRY_WAIT",
                              !.available = now + RetryBackoff(r.attempt)])
    ELSE [r EXCEPT !.status = L!StatusAfter(outcome), !.fingerprint = outcome]

CompletedJob(j, r, outcome, now) ==
    IF L!HandsBack(j, r.attempt, outcome)
    THEN ClearLease([r EXCEPT !.status = "RETRY_WAIT",
                              !.available = now + RetryBackoff(r.attempt)])
    ELSE [r EXCEPT !.status = L!StatusAfter(outcome), !.fingerprint = outcome]

LeaseEpisodeIdentity(r) ==
    IF r.status \in L!Held THEN <<r.attempt, r.deadline, r.token>> ELSE NoEpisode

\* update_job on the rows that change, moving the status counters with them.
\* adjust_status_count refuses a counter below zero.  A marker does not
\* outlive its episode.
UpdateJobs(rows) ==
    LET Leaving(s) == {j \in Jobs : job[j].status = s /\ rows[j].status # s}
        Entering(s) == {j \in Jobs : job[j].status # s /\ rows[j].status = s}
    IN  /\ \A s \in L!JobStatus : counts[s] >= Cardinality(Leaving(s))
        /\ counts' = [s \in L!JobStatus |->
                        counts[s] - Cardinality(Leaving(s)) + Cardinality(Entering(s))]
        /\ job' = rows
        /\ marker' = [j \in Jobs |->
                        IF LeaseEpisodeIdentity(job[j]) = LeaseEpisodeIdentity(rows[j])
                        THEN marker[j] ELSE NoEpisode]

\* Mutant: the counter of the status a row leaves is forgotten.
UpdateJobKeepingOldCount(j, row) ==
    /\ counts' = [s \in L!JobStatus |->
                    IF s = row.status /\ s # job[j].status THEN counts[s] + 1 ELSE counts[s]]
    /\ job' = [job EXCEPT ![j] = row]
    /\ UNCHANGED marker

UpdateJob(j, row) == UpdateJobs([job EXCEPT ![j] = row])

\* Mutant: the marker is deleted but not asked.
CountExpiredUnasked(S) ==
    /\ expired' = expired + Cardinality(S)
    /\ noticed' = noticed \cup {<<j, LeaseEpisodeIdentity(job[j])>> : j \in S}

\* was_already_observed: only episodes without a marker move the counter.
CountExpired(S) ==
    /\ expired' = expired
                    + Cardinality({j \in S : marker[j] # LeaseEpisodeIdentity(job[j])})
    /\ noticed' = noticed \cup {<<j, LeaseEpisodeIdentity(job[j])>> : j \in S}

\* recover_expired_job on every row of S, and the anomaly counter.
Recover(S, now) ==
    /\ UpdateJobs([j \in Jobs |-> IF j \in S THEN RecoverExpiredJob(j, job[j], now)
                                             ELSE job[j]])
    /\ CountExpired(S)
    /\ L!EndLease(S, "expired")
    /\ UNCHANGED <<clock, legacy, acked>>

-----------------------------------------------------------------------------
Init ==
    /\ clock = 0
    /\ job = [j \in Jobs |-> AbsentRow]
    /\ counts = [s \in L!JobStatus |-> 0]
    /\ expired = 0
    /\ marker = [j \in Jobs |-> NoEpisode]
    /\ legacy = [phase |-> "v8", total |-> 0, active |-> [j \in Jobs |-> NoEpisode]]
    /\ leases = [j \in Jobs |-> <<>>]
    /\ acked = {}
    /\ noticed = {}

Tick ==
    /\ clock < MaxClock
    /\ clock' = clock + 1
    /\ UNCHANGED <<job, counts, expired, marker, legacy, leases, acked, noticed>>

\* insert_job; a second enqueue with the same idempotency key writes nothing.
Enqueue(j, now) ==
    /\ job[j].status = "ABSENT"
    /\ UpdateJob(j, [AbsentRow EXCEPT !.status = "QUEUED",
                                      !.available = now, !.created = now])
    /\ UNCHANGED <<clock, expired, legacy, leases, acked, noticed>>

\* Mutant: a leased job is offered again without being recovered first.
ClaimableWhileLeased(node, now) ==
    {j \in Jobs : /\ NodeOf[j] = node
                  /\ job[j].status \in L!Waiting \cup {"LEASED"}
                  /\ job[j].available <= now}

Claimable(node, now) ==
    {j \in Jobs : /\ NodeOf[j] = node
                  /\ job[j].status \in L!Waiting
                  /\ job[j].available <= now}

\* ORDER BY available_at_ms, created_at_ms, job_id.
ComesBefore(j, k) ==
    \/ job[j].available < job[k].available
    \/ /\ job[j].available = job[k].available
       /\ \/ job[j].created < job[k].created
          \/ job[j].created = job[k].created /\ j <= k

\* The rows other transactions hold locked: SQLite and the in-memory store
\* serialize whole transactions, PostgreSQL passes over locked rows.
LockedRows == IF SkipLocked THEN SUBSET Jobs ELSE {{}}

Claim(node, now) ==
    \E locked \in LockedRows : \E j \in Claimable(node, now) \ locked :
        /\ \A k \in Claimable(node, now) \ locked : ComesBefore(j, k)
        /\ UpdateJob(j, [job[j] EXCEPT !.status = "LEASED",
                                       !.attempt = @ + 1,
                                       !.token = Len(leases[j]) + 1,
                                       !.deadline = now + LeaseMs])
        /\ leases' = [leases EXCEPT ![j] = Append(@, "held")]
        /\ UNCHANGED <<clock, expired, legacy, acked, noticed>>

\* Mutant: a heartbeat extends the old deadline instead of starting from now.
HeartbeatAccumulating(j, token, now) ==
    \/ /\ LeaseIsExpired(job[j], now)
       /\ Recover({j}, now)
    \/ /\ ActiveLease(job[j], token, now)
       /\ UpdateJob(j, [job[j] EXCEPT !.deadline = @ + LeaseMs])
       /\ UNCHANGED <<clock, expired, legacy, leases, acked, noticed>>

Heartbeat(j, token, now) ==
    \/ /\ LeaseIsExpired(job[j], now)
       /\ Recover({j}, now)
    \/ /\ ActiveLease(job[j], token, now)
       /\ UpdateJob(j, [job[j] EXCEPT !.deadline = now + LeaseMs])
       /\ UNCHANGED <<clock, expired, legacy, leases, acked, noticed>>

Complete(j, token, outcome, now) ==
    \/ /\ CompletionRepeated(job[j], token, outcome)
       /\ L!Acknowledge(j, token, outcome)
       /\ UNCHANGED <<clock, job, counts, expired, marker, legacy, leases, noticed>>
    \/ /\ LeaseIsExpired(job[j], now)
       /\ Recover({j}, now)
    \/ /\ ActiveLease(job[j], token, now)
       /\ UpdateJob(j, CompletedJob(j, job[j], outcome, now))
       /\ L!EndLease({j}, IF L!HandsBack(j, job[j].attempt, outcome)
                          THEN "handed_back" ELSE "finished")
       /\ L!Acknowledge(j, token, outcome)
       /\ UNCHANGED <<clock, expired, legacy, noticed>>

\* Durable evidence outside the job proves the expired holder's success.
ResolveExpiredSuccess(j, result, now) ==
    /\ LeaseIsExpired(job[j], now)
    /\ UpdateJob(j, [job[j] EXCEPT
                       !.status = "SUCCEEDED",
                       !.fingerprint = [status |-> "SUCCEEDED", result |-> result]])
    /\ CountExpired({j})
    /\ L!EndLease({j}, "expired")
    /\ UNCHANGED <<clock, legacy, acked>>

\* Mutant: a leased job is cancelled under its holder.
RequestCancelAtOnce(j) ==
    /\ job[j].status \in L!Waiting \cup {"LEASED"}
    /\ UpdateJob(j, [job[j] EXCEPT !.status = "CANCELLED"])
    /\ UNCHANGED <<clock, expired, legacy, leases, acked, noticed>>

RequestCancel(j) ==
    /\ job[j].status \in L!Waiting \cup {"LEASED"}
    /\ UpdateJob(j, [job[j] EXCEPT
                       !.status = IF @ = "LEASED" THEN "CANCEL_REQUESTED"
                                                  ELSE "CANCELLED"])
    /\ UNCHANGED <<clock, expired, legacy, leases, acked, noticed>>

RecoverExpired(now) ==
    \E locked \in LockedRows :
        LET S == {j \in Jobs \ locked : LeaseIsExpired(job[j], now)}
        IN  S # {} /\ Recover(S, now)

Tokens(j) == 1 .. Len(leases[j])

-----------------------------------------------------------------------------
(* The version before schema v9, as far as its record tells: it noted each *)
(* expired lease with its episode and counted it; it expired leases it had *)
(* noted, and may have stopped before it dropped the note.                 *)

ObserveExpired(j, now) ==
    /\ LeaseIsExpired(job[j], now)
    /\ legacy.active[j] # LeaseEpisodeIdentity(job[j])
    /\ legacy' = [legacy EXCEPT !.total = @ + 1,
                                !.active[j] = LeaseEpisodeIdentity(job[j])]
    /\ noticed' = noticed \cup {<<j, LeaseEpisodeIdentity(job[j])>>}
    /\ UNCHANGED <<clock, job, counts, expired, marker, leases, acked>>

ExpireObserved(j, now) ==
    /\ LeaseIsExpired(job[j], now)
    /\ legacy.active[j] = LeaseEpisodeIdentity(job[j])
    /\ UpdateJob(j, RecoverExpiredJob(j, job[j], now))
    /\ \E left \in {NoEpisode, legacy.active[j]} :
          legacy' = [legacy EXCEPT !.active[j] = left]
    /\ L!EndLease({j}, "expired")
    /\ UNCHANGED <<clock, expired, acked, noticed>>

(* The start of this version: a transaction on the store, then the rewrite *)
(* of the generic record.  A process that dies in between starts over.     *)

\* Mutant: the old total is added to the counter.
CounterFloorAdded(floor) == expired + floor

SetCounterFloor(floor) == IF expired < floor THEN floor ELSE expired

MigrateLegacyAnomalyState ==
    /\ legacy.phase # "running"
    /\ Cardinality({j \in Jobs : legacy.active[j] # NoEpisode}) <= legacy.total
    /\ expired' = SetCounterFloor(legacy.total)
    /\ marker' = [j \in Jobs |->
                    IF legacy.active[j] \in {LeaseEpisodeIdentity(job[j])} \ {NoEpisode}
                    THEN legacy.active[j] ELSE marker[j]]
    /\ legacy' = [legacy EXCEPT !.phase = "starting"]
    /\ UNCHANGED <<clock, job, counts, leases, acked, noticed>>

ClearLegacyAnomalyState ==
    /\ legacy.phase = "starting"
    /\ legacy' = [phase |-> "running", total |-> 0, active |-> [j \in Jobs |-> NoEpisode]]
    /\ UNCHANGED <<clock, job, counts, expired, marker, leases, acked, noticed>>

-----------------------------------------------------------------------------
PriorVersion ==
    \E now \in Nows :
        \/ \E node \in Nodes : Claim(node, now)
        \/ \E j \in Jobs : \/ Enqueue(j, now)
                           \/ ObserveExpired(j, now)
                           \/ ExpireObserved(j, now)

Requests ==
    \/ \E now \in Nows :
         \/ RecoverExpired(now)
         \/ \E node \in Nodes : Claim(node, now)
         \/ \E j \in Jobs :
              \/ Enqueue(j, now)
              \/ \E token \in Tokens(j) :
                   \/ Heartbeat(j, token, now)
                   \/ \E outcome \in L!Outcomes : Complete(j, token, outcome, now)
              \/ \E result \in Results : ResolveExpiredSuccess(j, result, now)
    \/ \E j \in Jobs : RequestCancel(j)

Next ==
    \/ Tick
    \/ legacy.phase = "v8" /\ PriorVersion
    \/ MigrateLegacyAnomalyState
    \/ ClearLegacyAnomalyState
    \/ legacy.phase = "running" /\ Requests

Spec == Init /\ [][Next]_vars

-----------------------------------------------------------------------------
(* Properties.                                                             *)

(* Every row, counter and history entry has its type; deadlines and        *)
(* availability times are never negative.                                  *)
TypeOK ==
    /\ clock \in Nat
    /\ job \in [Jobs -> JobRow]
    /\ counts \in [L!JobStatus -> Nat]
    /\ expired \in Nat
    /\ marker \in [Jobs -> Episodes]
    /\ legacy \in Legacy
    /\ leases \in [Jobs -> Seq(L!LeaseEnd)]
    /\ acked \subseteq L!Ack
    /\ noticed \subseteq Jobs \X Episodes

(* The store implements the clock-free life cycle: every transaction of    *)
(* JobStore is a step of JobLifecycle or leaves its state alone.           *)
ImplementsLifecycle == L!Spec

(* The job table never shows two live leases of one job: only the newest   *)
(* grant is held, and only while the row is LEASED or CANCEL_REQUESTED.    *)
SingleHolder == L!SingleHolder

(* recover_expired never sends a job back whose kind is not retry-safe: it *)
(* is claimed again only after its own holder handed it back.              *)
NoBlindRerun == L!NoBlindRerun

(* claim grants a job at most max_attempts times, although the budget is   *)
(* only looked at when a lease ends.                                       *)
AttemptBudget == L!AttemptBudget

(* A completion that complete() answered with success is the outcome of    *)
(* the job ever after, unless it handed the lease back.                    *)
AckedOutcomeStands == L!AckedOutcomeStands

(* complete() never answers two different completions of one lease with    *)
(* success.                                                                *)
OneVerdictPerLease == L!OneVerdictPerLease

(* No heartbeat, completion, recovery or cancel changes a terminal row.    *)
TerminalIsFinal == L!TerminalIsFinal

(* What the life-cycle diagram of operation-model.md says of cancellation: *)
(* a job whose cancellation was requested ends; it does not wait for       *)
(* another attempt.                                                        *)
CancelRequestStands ==
    [][\A j \in Jobs : job[j].status = "CANCEL_REQUESTED"
                         => job'[j].status \notin L!Waiting]_vars

(* The status counters that metrics_snapshot reads agree with the table    *)
(* after any sequence of single and batched updates, so the guard of       *)
(* adjust_status_count never makes a transaction fail.                     *)
StatusCountsExact ==
    \A s \in L!JobStatus : counts[s] = Cardinality({j \in Jobs : job[j].status = s})

(* The anomaly counter counts every expired episode exactly once, whichever *)
(* of heartbeat, complete, recover_expired and resolve_expired_success met *)
(* it first, or the version before, which left its own count behind; also  *)
(* when the upgrade dies between its two writes and is done again.         *)
ExpiryCountedOnce ==
    legacy.phase = "running" => expired = Cardinality(noticed)

(* A holder never loses its lease early: a lease ends as expired only once *)
(* the clock has reached the deadline the store last promised the holder,  *)
(* however stale the now_ms of the request that ended it.                  *)
NoEarlyExpiry ==
    [][\A j \in Jobs :
         job[j].status \in L!Held /\ leases'[j] # leases[j]
             /\ leases'[j][Len(leases[j])] = "expired"
         => job[j].deadline <= clock]_vars

(* A completion is accepted only from a lease that was alive when the      *)
(* caller read the clock: never later than MaxLag after the deadline.      *)
NoLateVerdict ==
    [][\A j \in Jobs :
         job[j].status \in L!Held /\ leases'[j] # leases[j]
             /\ leases'[j][Len(leases[j])] \in {"handed_back", "finished"}
         => clock < job[j].deadline + MaxLag]_vars

\* The delay table says: the k-th delay after attempt k, the last one for all
\* later attempts.
DelayAfter(attempt) ==
    IF attempt \in DOMAIN RetryBackoffMs THEN RetryBackoffMs[attempt]
    ELSE RetryBackoffMs[Len(RetryBackoffMs)]

(* A live lease is never longer than LeaseMs from now, and a waiting job   *)
(* becomes claimable within the delay its attempt calls for: no request,   *)
(* however stale, parks a job further in the future than that.             *)
BoundedWait ==
    \A j \in Jobs :
        /\ job[j].status \in L!Held => job[j].deadline <= clock + LeaseMs
        /\ job[j].status = "QUEUED" => job[j].available <= clock
        /\ job[j].status = "RETRY_WAIT" =>
              job[j].available <= clock + DelayAfter(job[j].attempt)

(* A job that a failure or an expiry sent back is not granted again before *)
(* the delay of its attempt is over, counted from the instant the request  *)
(* that sent it back had read, also when the attempts outnumber the delays. *)
BacksOff ==
    [][\A j \in Jobs :
         job[j].status \in L!Held /\ job'[j].status = "RETRY_WAIT" =>
            job'[j].available >= clock - MaxLag + DelayAfter(job[j].attempt)]_vars

=============================================================================
