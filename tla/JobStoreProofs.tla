--------------------------- MODULE JobStoreProofs ---------------------------
(***************************************************************************)
(* JobStore keeps its type invariant and implements JobLifecycle, for any  *)
(* number of jobs and nodes, any lease and retry delays and any lag of the *)
(* callers' clocks, before, during and after the upgrade.  The safety of   *)
(* the life cycle therefore holds of the store.                            *)
(***************************************************************************)
EXTENDS JobStore, FiniteSetTheorems, TLAPS

-----------------------------------------------------------------------------
(* A finite set of jobs has a natural number of members.                   *)
LEMMA JobCount ==
    ASSUME NEW S \in SUBSET Jobs
    PROVE  Cardinality(S) \in Nat
  BY JobsAssumption, FS_Subset, FS_CardinalityType

(* retry_backoff_ms is defined for every attempt.                          *)
LEMMA BackoffType ==
    ASSUME NEW n \in Nat
    PROVE  RetryBackoff(n) \in Nat
  BY TimesAssumption DEF RetryBackoff

(* lease_episode_identity of a row is an episode.                          *)
LEMMA IdentityType ==
    ASSUME NEW r \in JobRow
    PROVE  LeaseEpisodeIdentity(r) \in Episodes
  BY DEF LeaseEpisodeIdentity, NoEpisode, Episodes, JobRow, L!NoToken

(* An update of any rows keeps counters and markers well-typed.            *)
LEMMA UpdateJobsType ==
    ASSUME TypeOK, NEW rows \in [Jobs -> JobRow], UpdateJobs(rows)
    PROVE  /\ job' = rows
           /\ counts' \in [L!JobStatus -> Nat]
           /\ marker' \in [Jobs -> Episodes]
  <1> DEFINE Leaving(s) == {k \in Jobs : job[k].status = s /\ rows[k].status # s}
             Entering(s) == {k \in Jobs : job[k].status # s /\ rows[k].status = s}
             Same(k) == LeaseEpisodeIdentity(job[k]) = LeaseEpisodeIdentity(rows[k])
  <1>1. /\ \A s \in L!JobStatus : counts[s] >= Cardinality(Leaving(s))
        /\ counts' = [s \in L!JobStatus |->
                        counts[s] - Cardinality(Leaving(s)) + Cardinality(Entering(s))]
        /\ job' = rows
        /\ marker' = [k \in Jobs |-> IF Same(k) THEN marker[k] ELSE NoEpisode]
    BY DEF UpdateJobs
  <1>2. \A s \in L!JobStatus : /\ Leaving(s) \in SUBSET Jobs
                               /\ Entering(s) \in SUBSET Jobs
    OBVIOUS
  <1>3. \A s \in L!JobStatus : /\ Cardinality(Leaving(s)) \in Nat
                               /\ Cardinality(Entering(s)) \in Nat
    BY <1>2, JobCount
  <1>4. /\ counts \in [L!JobStatus -> Nat]
        /\ marker \in [Jobs -> Episodes]
        /\ NoEpisode \in Episodes
    BY DEF TypeOK, NoEpisode, Episodes, L!NoToken
  <1> HIDE DEF Leaving, Entering, Same
  <1>5. counts' \in [L!JobStatus -> Nat]
    BY <1>1, <1>3, <1>4
  <1>6. marker' \in [Jobs -> Episodes]
    BY <1>1, <1>4
  <1> QED
    BY <1>1, <1>5, <1>6

(* What update_job does to the table; counters and markers stay well-typed. *)
LEMMA UpdateJobType ==
    ASSUME TypeOK, NEW j \in Jobs, NEW row \in JobRow, UpdateJob(j, row)
    PROVE  /\ job' = [job EXCEPT ![j] = row]
           /\ job' \in [Jobs -> JobRow]
           /\ counts' \in [L!JobStatus -> Nat]
           /\ marker' \in [Jobs -> Episodes]
  <1> DEFINE rows == [job EXCEPT ![j] = row]
  <1>1. rows \in [Jobs -> JobRow]
    BY DEF TypeOK
  <1>2. UpdateJobs(rows)
    BY DEF UpdateJob
  <1> HIDE DEF rows
  <1>3. /\ job' = rows
        /\ counts' \in [L!JobStatus -> Nat]
        /\ marker' \in [Jobs -> Episodes]
    BY <1>1, <1>2, UpdateJobsType
  <1> QED
    BY <1>1, <1>3 DEF rows

(* The anomaly counter and the noticed episodes stay well-typed.           *)
LEMMA CountExpiredType ==
    ASSUME TypeOK, NEW S \in SUBSET Jobs, CountExpired(S)
    PROVE  expired' \in Nat /\ noticed' \subseteq Jobs \X Episodes
  <1> DEFINE New == {k \in S : marker[k] # LeaseEpisodeIdentity(job[k])}
  <1>1. expired' = expired + Cardinality(New) /\ expired \in Nat
    BY DEF CountExpired, TypeOK
  <1>2. Cardinality(New) \in Nat
    <2>1. New \in SUBSET Jobs
      OBVIOUS
    <2> QED
      BY <2>1, JobCount
  <1> HIDE DEF New
  <1>3. expired' \in Nat
    BY <1>1, <1>2
  <1>4. \A k \in S : LeaseEpisodeIdentity(job[k]) \in Episodes
    BY IdentityType DEF TypeOK
  <1>5. noticed' \subseteq Jobs \X Episodes
    <2>1. /\ noticed' = noticed \cup {<<k, LeaseEpisodeIdentity(job[k])>> : k \in S}
          /\ noticed \subseteq Jobs \X Episodes
      BY DEF CountExpired, TypeOK
    <2>2. {<<k, LeaseEpisodeIdentity(job[k])>> : k \in S} \subseteq Jobs \X Episodes
      BY <1>4
    <2> QED
      BY <2>1, <2>2
  <1> QED
    BY <1>3, <1>5

-----------------------------------------------------------------------------
(* Rows of the abstract specification, as literal records.                 *)

LifeRow(s, a, t, f) == [status |-> s, attempt |-> a, token |-> t, fingerprint |-> f]

(* The updates the abstract actions make to one row.                       *)
LEMMA LifeRowUpdates ==
    ASSUME NEW r, NEW x, NEW y
    PROVE  /\ [LifeOf(r) EXCEPT !.status = x]
                 = LifeRow(x, r.attempt, r.token, r.fingerprint)
           /\ [LifeOf(r) EXCEPT !.status = x, !.token = y]
                 = LifeRow(x, r.attempt, y, r.fingerprint)
           /\ [LifeOf(r) EXCEPT !.status = x, !.attempt = @ + 1, !.token = y]
                 = LifeRow(x, r.attempt + 1, y, r.fingerprint)
  <1> DEFINE a == r.attempt
             t == r.token
             f == r.fingerprint
             b == a + 1
  <1>1. LifeOf(r) = LifeRow(r.status, a, t, f)
    BY DEF LifeOf, LifeRow
  <1> HIDE DEF a, t, f, b
  <1>2. [LifeRow(r.status, a, t, f) EXCEPT !.status = x] = LifeRow(x, a, t, f)
    BY SMT DEF LifeRow
  <1>3. [LifeRow(x, a, t, f) EXCEPT !.token = y] = LifeRow(x, a, y, f)
    BY SMT DEF LifeRow
  <1>4. [LifeRow(x, a, t, f) EXCEPT !.attempt = b] = LifeRow(x, b, t, f)
    BY SMT DEF LifeRow
  <1>5. [LifeRow(x, b, t, f) EXCEPT !.token = y] = LifeRow(x, b, y, f)
    BY SMT DEF LifeRow
  <1>6. LifeOf(r).attempt + 1 = b
    BY <1>1 DEF b, LifeRow
  <1>7. [LifeOf(r) EXCEPT !.status = x] = LifeRow(x, a, t, f)
    BY <1>1, <1>2
  <1>8. [LifeOf(r) EXCEPT !.status = x, !.token = y] = LifeRow(x, a, y, f)
    BY <1>1, <1>2, <1>3, Zenon
  <1>9. [LifeOf(r) EXCEPT !.status = x, !.attempt = @ + 1, !.token = y]
           = LifeRow(x, b, y, f)
    BY <1>1, <1>2, <1>4, <1>5, <1>6, Zenon
  <1> QED
    BY <1>7, <1>8, <1>9 DEF a, t, f, b

(* The visible part of a row after a final completion.                     *)
LEMMA LifeRowFinish ==
    ASSUME NEW r, NEW x, NEW y
    PROVE  [LifeOf(r) EXCEPT !.status = x, !.fingerprint = y]
             = LifeRow(x, r.attempt, r.token, y)
  <1> DEFINE a == r.attempt
             t == r.token
             f == r.fingerprint
  <1>1. LifeOf(r) = LifeRow(r.status, a, t, f)
    BY DEF LifeOf, LifeRow
  <1> HIDE DEF a, t, f
  <1>2. [LifeRow(r.status, a, t, f) EXCEPT !.status = x] = LifeRow(x, a, t, f)
    BY SMT DEF LifeRow
  <1>3. [LifeRow(x, a, t, f) EXCEPT !.fingerprint = y] = LifeRow(x, a, t, y)
    BY SMT DEF LifeRow
  <1>4. [LifeOf(r) EXCEPT !.status = x, !.fingerprint = y] = LifeRow(x, a, t, y)
    BY <1>1, <1>2, <1>3, Zenon
  <1> QED
    BY <1>4 DEF a, t

(* The rows the store writes, typed and as the abstraction sees them.      *)
LEMMA ClearedRow ==
    ASSUME NEW r \in JobRow
    PROVE  /\ ClearLease(r) \in JobRow
           /\ LifeOf(ClearLease(r)) = LifeRow(r.status, r.attempt, L!NoToken, r.fingerprint)
  <1>1. L!NoToken \in Nat /\ 0 \in Nat
    BY DEF L!NoToken
  <1> QED
    BY <1>1, Zenon DEF ClearLease, JobRow, LifeOf, LifeRow

(* A row sent back to wait is a job row, without lease.                    *)
LEMMA RetryRow ==
    ASSUME NEW r \in JobRow, NEW now \in Nat
    PROVE  LET q == [r EXCEPT !.status = "RETRY_WAIT",
                              !.available = now + RetryBackoff(r.attempt)]
           IN  /\ ClearLease(q) \in JobRow
               /\ LifeOf(ClearLease(q))
                    = LifeRow("RETRY_WAIT", r.attempt, L!NoToken, r.fingerprint)
  <1> DEFINE n == now + RetryBackoff(r.attempt)
             q == [r EXCEPT !.status = "RETRY_WAIT", !.available = n]
  <1>1. "RETRY_WAIT" \in L!JobStatus \cup {"ABSENT"}
    BY DEF L!JobStatus
  <1>2. n \in Nat
    BY BackoffType DEF JobRow
  <1> HIDE DEF n
  <1>3. /\ q \in JobRow
        /\ q.status = "RETRY_WAIT"
        /\ q.attempt = r.attempt
        /\ q.fingerprint = r.fingerprint
    BY <1>1, <1>2, Zenon DEF JobRow
  <1> HIDE DEF q
  <1>4. /\ ClearLease(q) \in JobRow
        /\ LifeOf(ClearLease(q))
             = LifeRow("RETRY_WAIT", r.attempt, L!NoToken, r.fingerprint)
    BY <1>3, ClearedRow
  <1> QED
    BY <1>4 DEF q, n

(* What recover_expired_job leaves is a job row, and its visible part is   *)
(* the one of the abstract Expire.                                         *)
LEMMA RecoveredRow ==
    ASSUME NEW j \in Jobs, NEW r \in JobRow, NEW now \in Nat
    PROVE  /\ RecoverExpiredJob(j, r, now) \in JobRow
           /\ LifeOf(RecoverExpiredJob(j, r, now)) =
                LifeRow(IF L!RetriedAfterExpiry(j, r.status, r.attempt)
                        THEN "RETRY_WAIT" ELSE "NEEDS_ATTENTION",
                        r.attempt, L!NoToken, r.fingerprint)
  <1> DEFINE v == [r EXCEPT !.status = "NEEDS_ATTENTION"]
  <1>1. "NEEDS_ATTENTION" \in L!JobStatus \cup {"ABSENT"}
    BY DEF L!JobStatus
  <1>2. /\ v \in JobRow
        /\ v.status = "NEEDS_ATTENTION"
        /\ v.attempt = r.attempt
        /\ v.fingerprint = r.fingerprint
    BY <1>1, Zenon DEF JobRow
  <1>3. CASE L!RetriedAfterExpiry(j, r.status, r.attempt)
    BY <1>3, RetryRow, Zenon DEF RecoverExpiredJob
  <1>4. CASE ~L!RetriedAfterExpiry(j, r.status, r.attempt)
    <2>1. RecoverExpiredJob(j, r, now) = ClearLease(v)
      BY <1>4, Zenon DEF RecoverExpiredJob
    <2> HIDE DEF v
    <2> QED
      BY <1>2, <1>4, <2>1, ClearedRow
  <1> QED
    BY <1>3, <1>4
-----------------------------------------------------------------------------
(* The abstract life of the jobs, and how the updates of the store and of  *)
(* the abstract actions show in it.                                        *)

AbstractLife == [k \in Jobs |-> LifeOf(job[k])]

WithRow(j, row) == [k \in Jobs |-> IF k = j THEN row ELSE AbstractLife[k]]

(* Writing one row changes the abstract life of that job only.             *)
LEMMA StoreUpdate ==
    ASSUME NEW j \in Jobs, NEW row, job \in [Jobs -> JobRow],
           job' = [job EXCEPT ![j] = row]
    PROVE  AbstractLife' = WithRow(j, LifeOf(row))
  <1>1. \A k \in Jobs : job'[k] = IF k = j THEN row ELSE job[k]
    BY Zenon
  <1>2. \A k \in Jobs : LifeOf(job'[k]) =
           IF k = j THEN LifeOf(row) ELSE AbstractLife[k]
    BY <1>1 DEF AbstractLife
  <1> QED
    BY <1>2, Zenon DEF AbstractLife, WithRow

(* The abstract update of a status, as a replaced row.                     *)
LEMMA StatusUpdate ==
    ASSUME NEW j \in Jobs, NEW x
    PROVE  [AbstractLife EXCEPT ![j].status = x]
             = WithRow(j, LifeRow(x, job[j].attempt, job[j].token, job[j].fingerprint))
  <1> DEFINE r == job[j]
  <1>1. AbstractLife = [k \in Jobs |-> AbstractLife[k]] /\ AbstractLife[j] = LifeOf(r)
    BY DEF AbstractLife
  <1>2. [AbstractLife EXCEPT ![j].status = x]
          = WithRow(j, [AbstractLife[j] EXCEPT !.status = x])
    BY <1>1, Zenon DEF WithRow
  <1>3. [LifeOf(r) EXCEPT !.status = x]
          = LifeRow(x, r.attempt, r.token, r.fingerprint)
    BY LifeRowUpdates
  <1> HIDE DEF r
  <1>4. [AbstractLife[j] EXCEPT !.status = x]
          = LifeRow(x, r.attempt, r.token, r.fingerprint)
    BY <1>1, <1>3, Zenon
  <1> QED
    BY <1>2, <1>4 DEF r

(* The abstract update of status and token, as a replaced row.             *)
LEMMA TokenUpdate ==
    ASSUME NEW j \in Jobs, NEW x, NEW y
    PROVE  [AbstractLife EXCEPT ![j].status = x, ![j].token = y]
             = WithRow(j, LifeRow(x, job[j].attempt, y, job[j].fingerprint))
  <1> DEFINE r == job[j]
  <1>1. AbstractLife = [k \in Jobs |-> AbstractLife[k]] /\ AbstractLife[j] = LifeOf(r)
    BY DEF AbstractLife
  <1>2. [AbstractLife EXCEPT ![j].status = x, ![j].token = y]
          = WithRow(j, [AbstractLife[j] EXCEPT !.status = x, !.token = y])
    BY <1>1, Zenon DEF WithRow
  <1>3. [LifeOf(r) EXCEPT !.status = x, !.token = y]
          = LifeRow(x, r.attempt, y, r.fingerprint)
    BY LifeRowUpdates
  <1> HIDE DEF r
  <1>4. [AbstractLife[j] EXCEPT !.status = x, !.token = y]
          = LifeRow(x, r.attempt, y, r.fingerprint)
    BY <1>1, <1>3, Zenon
  <1> QED
    BY <1>2, <1>4 DEF r

(* The abstract update of status and fingerprint, as a replaced row.       *)
LEMMA FingerprintUpdate ==
    ASSUME NEW j \in Jobs, NEW x, NEW y
    PROVE  [AbstractLife EXCEPT ![j].status = x, ![j].fingerprint = y]
             = WithRow(j, LifeRow(x, job[j].attempt, job[j].token, y))
  <1> DEFINE r == job[j]
  <1>1. AbstractLife = [k \in Jobs |-> AbstractLife[k]] /\ AbstractLife[j] = LifeOf(r)
    BY DEF AbstractLife
  <1>2. [AbstractLife EXCEPT ![j].status = x, ![j].fingerprint = y]
          = WithRow(j, [AbstractLife[j] EXCEPT !.status = x, !.fingerprint = y])
    BY <1>1, Zenon DEF WithRow
  <1>3. [LifeOf(r) EXCEPT !.status = x, !.fingerprint = y]
          = LifeRow(x, r.attempt, r.token, y)
    BY LifeRowFinish
  <1> HIDE DEF r
  <1>4. [AbstractLife[j] EXCEPT !.status = x, !.fingerprint = y]
          = LifeRow(x, r.attempt, r.token, y)
    BY <1>1, <1>3, Zenon
  <1> QED
    BY <1>2, <1>4 DEF r

(* The abstract grant of a lease, as a replaced row.                       *)
LEMMA GrantUpdate ==
    ASSUME NEW j \in Jobs, NEW x, NEW y
    PROVE  [AbstractLife EXCEPT ![j].status = x, ![j].attempt = @ + 1, ![j].token = y]
             = WithRow(j, LifeRow(x, job[j].attempt + 1, y, job[j].fingerprint))
  <1> DEFINE r == job[j]
  <1>1. AbstractLife = [k \in Jobs |-> AbstractLife[k]] /\ AbstractLife[j] = LifeOf(r)
    BY DEF AbstractLife
  <1>2. [AbstractLife EXCEPT ![j].status = x, ![j].attempt = @ + 1, ![j].token = y]
          = WithRow(j, [AbstractLife[j] EXCEPT !.status = x, !.attempt = @ + 1, !.token = y])
    BY <1>1, Zenon DEF WithRow
  <1>3. [LifeOf(r) EXCEPT !.status = x, !.attempt = @ + 1, !.token = y]
          = LifeRow(x, r.attempt + 1, y, r.fingerprint)
    BY LifeRowUpdates
  <1> HIDE DEF r
  <1>4. [AbstractLife[j] EXCEPT !.status = x, !.attempt = @ + 1, !.token = y]
          = LifeRow(x, r.attempt + 1, y, r.fingerprint)
    BY <1>1, <1>3, Zenon
  <1> QED
    BY <1>2, <1>4 DEF r

-----------------------------------------------------------------------------
(* One lemma per operation: the step keeps the type invariant and is a     *)
(* step of the abstract specification.                                     *)

(* enqueue is the abstract Enqueue.                                        *)
LEMMA EnqueueStep ==
    ASSUME TypeOK, NEW j \in Jobs, NEW now \in Nat, Enqueue(j, now)
    PROVE  TypeOK' /\ L!Enqueue(j)
  <1> DEFINE row == [AbsentRow EXCEPT !.status = "QUEUED", !.available = now, !.created = now]
             abs == [L!AbsentLife EXCEPT !.status = "QUEUED"]
  <1>1. /\ job[j].status = "ABSENT"
        /\ UpdateJob(j, row)
        /\ UNCHANGED <<clock, expired, legacy, leases, acked, noticed>>
    BY DEF Enqueue
  <1>2. AbsentRow \in JobRow
    BY DEF AbsentRow, JobRow, L!NoToken, L!NoFingerprint
  <1>3. "QUEUED" \in L!JobStatus \cup {"ABSENT"}
    BY DEF L!JobStatus
  <1>4. /\ row \in JobRow
        /\ LifeOf(row) = LifeRow("QUEUED", AbsentRow.attempt, AbsentRow.token,
                                 AbsentRow.fingerprint)
    BY <1>2, <1>3, Zenon DEF JobRow, LifeOf, LifeRow
  <1>5. abs = LifeRow("QUEUED", AbsentRow.attempt, AbsentRow.token, AbsentRow.fingerprint)
    BY SMT DEF L!AbsentLife, AbsentRow, LifeRow
  <1>6. LifeOf(row) = abs
    BY <1>4, <1>5
  <1> HIDE DEF row, abs
  <1>7. /\ job' = [job EXCEPT ![j] = row]
        /\ job' \in [Jobs -> JobRow]
        /\ counts' \in [L!JobStatus -> Nat]
        /\ marker' \in [Jobs -> Episodes]
    BY <1>1, <1>4, UpdateJobType
  <1>8. AbstractLife' = WithRow(j, abs)
    BY <1>6, <1>7, StoreUpdate DEF TypeOK
  <1>9. [AbstractLife EXCEPT ![j] = abs] = WithRow(j, abs)
    BY DEF AbstractLife, WithRow
  <1>10. AbstractLife[j].status = "ABSENT"
    BY <1>1 DEF AbstractLife, LifeOf
  <1>11. L!Enqueue(j)
    BY <1>1, <1>8, <1>9, <1>10, Zenon DEF L!Enqueue, AbstractLife, abs
  <1>12. TypeOK'
    BY <1>1, <1>7 DEF TypeOK
  <1> QED
    BY <1>11, <1>12

(* claim is the abstract Claim of the job it selects.                      *)
LEMMA ClaimStep ==
    ASSUME TypeOK, NEW node \in Nodes, NEW now \in Nat, Claim(node, now)
    PROVE  TypeOK' /\ \E j \in Jobs : L!Claim(j)
  <1>1. PICK j \in Jobs :
          /\ job[j].status \in L!Waiting
          /\ UpdateJob(j, [job[j] EXCEPT !.status = "LEASED",
                                         !.attempt = @ + 1,
                                         !.token = Len(leases[j]) + 1,
                                         !.deadline = now + LeaseMs])
          /\ leases' = [leases EXCEPT ![j] = Append(@, "held")]
          /\ UNCHANGED <<clock, expired, legacy, acked, noticed>>
    BY Zenon DEF Claim, Claimable
  <1> DEFINE a == job[j].attempt + 1
             t == Len(leases[j]) + 1
             d == now + LeaseMs
             row == [job[j] EXCEPT !.status = "LEASED", !.attempt = a, !.token = t,
                                   !.deadline = d]
  <1>2. /\ job \in [Jobs -> JobRow]
        /\ leases \in [Jobs -> Seq(L!LeaseEnd)]
    BY DEF TypeOK
  <1>3. /\ a \in Nat /\ t \in Nat /\ d \in Nat
        /\ "LEASED" \in L!JobStatus \cup {"ABSENT"}
        /\ "held" \in L!LeaseEnd
    BY <1>2, TimesAssumption DEF JobRow, L!JobStatus, L!LeaseEnd
  <1>4. UpdateJob(j, row)
    BY <1>1
  <1> HIDE DEF a, t, d
  <1>5. row \in JobRow /\ LifeOf(row) = LifeRow("LEASED", a, t, job[j].fingerprint)
    BY <1>2, <1>3, Zenon DEF JobRow, LifeOf, LifeRow
  <1> HIDE DEF row
  <1>6. /\ job' = [job EXCEPT ![j] = row]
        /\ job' \in [Jobs -> JobRow]
        /\ counts' \in [L!JobStatus -> Nat]
        /\ marker' \in [Jobs -> Episodes]
    BY <1>4, <1>5, UpdateJobType
  <1>7. AbstractLife' = WithRow(j, LifeRow("LEASED", a, t, job[j].fingerprint))
    BY <1>2, <1>5, <1>6, StoreUpdate
  <1>8. [AbstractLife EXCEPT ![j].status = "LEASED", ![j].attempt = @ + 1, ![j].token = t]
          = WithRow(j, LifeRow("LEASED", a, t, job[j].fingerprint))
    BY GrantUpdate DEF a
  <1>9. AbstractLife[j].status \in L!Waiting
    BY <1>1 DEF AbstractLife, LifeOf
  <1>10. L!Claim(j)
    BY <1>1, <1>7, <1>8, <1>9, Zenon DEF L!Claim, AbstractLife, t
  <1>11. TypeOK'
    BY <1>1, <1>2, <1>3, <1>6 DEF TypeOK
  <1> QED
    BY <1>10, <1>11

(* request_cancel is the abstract RequestCancel.                           *)
LEMMA RequestCancelStep ==
    ASSUME TypeOK, NEW j \in Jobs, RequestCancel(j)
    PROVE  TypeOK' /\ L!RequestCancel(j)
  <1> DEFINE s == IF job[j].status = "LEASED" THEN "CANCEL_REQUESTED" ELSE "CANCELLED"
             row == [job[j] EXCEPT !.status = s]
  <1>1. /\ job[j].status \in L!Waiting \cup {"LEASED"}
        /\ UpdateJob(j, row)
        /\ UNCHANGED <<clock, expired, legacy, leases, acked, noticed>>
    BY DEF RequestCancel
  <1>2. job \in [Jobs -> JobRow] /\ s \in L!JobStatus \cup {"ABSENT"}
    BY DEF TypeOK, L!JobStatus
  <1>3. AbstractLife[j].status = job[j].status
    BY DEF AbstractLife, LifeOf
  <1>4. s = IF AbstractLife[j].status = "LEASED" THEN "CANCEL_REQUESTED" ELSE "CANCELLED"
    BY <1>3
  <1> HIDE DEF s
  <1>5. /\ row \in JobRow
        /\ LifeOf(row) = LifeRow(s, job[j].attempt, job[j].token, job[j].fingerprint)
    BY <1>2, Zenon DEF JobRow, LifeOf, LifeRow
  <1> HIDE DEF row
  <1>6. /\ job' = [job EXCEPT ![j] = row]
        /\ job' \in [Jobs -> JobRow]
        /\ counts' \in [L!JobStatus -> Nat]
        /\ marker' \in [Jobs -> Episodes]
    BY <1>1, <1>5, UpdateJobType
  <1>7. AbstractLife' = WithRow(j, LifeRow(s, job[j].attempt, job[j].token, job[j].fingerprint))
    BY <1>2, <1>5, <1>6, StoreUpdate
  <1>8. AbstractLife' = [AbstractLife EXCEPT ![j].status = s]
    BY <1>7, StatusUpdate
  <1>9. AbstractLife' = [AbstractLife EXCEPT
                           ![j].status = IF @ = "LEASED" THEN "CANCEL_REQUESTED"
                                                         ELSE "CANCELLED"]
    BY <1>4, <1>8, Zenon
  <1>10. L!RequestCancel(j)
    BY <1>1, <1>3, <1>9, Zenon DEF L!RequestCancel, AbstractLife
  <1>11. TypeOK'
    BY <1>1, <1>6 DEF TypeOK
  <1> QED
    BY <1>10, <1>11

(* Extending a lease is invisible to the abstract specification.           *)
LEMMA HeartbeatActive ==
    ASSUME TypeOK, NEW j \in Jobs, NEW now \in Nat,
           UpdateJob(j, [job[j] EXCEPT !.deadline = now + LeaseMs]),
           UNCHANGED <<clock, expired, legacy, leases, acked, noticed>>
    PROVE  TypeOK' /\ UNCHANGED L!vars
  <1> DEFINE d == now + LeaseMs
             row == [job[j] EXCEPT !.deadline = d]
  <1>1. job \in [Jobs -> JobRow] /\ d \in Nat
    BY TimesAssumption DEF TypeOK
  <1>2. UpdateJob(j, row)
    OBVIOUS
  <1> HIDE DEF d
  <1>3. row \in JobRow /\ LifeOf(row) = LifeOf(job[j])
    BY <1>1, Zenon DEF JobRow, LifeOf
  <1> HIDE DEF row
  <1>4. /\ job' = [job EXCEPT ![j] = row]
        /\ job' \in [Jobs -> JobRow]
        /\ counts' \in [L!JobStatus -> Nat]
        /\ marker' \in [Jobs -> Episodes]
    BY <1>2, <1>3, UpdateJobType
  <1>5. AbstractLife' = WithRow(j, AbstractLife[j])
    BY <1>1, <1>3, <1>4, StoreUpdate DEF AbstractLife
  <1>6. AbstractLife' = AbstractLife
    BY <1>5, Zenon DEF AbstractLife, WithRow
  <1>7. UNCHANGED L!vars
    BY <1>6, Zenon DEF L!vars, AbstractLife
  <1>8. TypeOK'
    BY <1>4 DEF TypeOK
  <1> QED
    BY <1>7, <1>8

(* Ending leases keeps the lease histories well-typed.                     *)
LEMMA EndLeaseType ==
    ASSUME TypeOK, NEW S \in SUBSET Jobs, NEW e \in L!LeaseEnd, L!EndLease(S, e)
    PROVE  leases' \in [Jobs -> Seq(L!LeaseEnd)]
  <1>1. leases \in [Jobs -> Seq(L!LeaseEnd)]
    BY DEF TypeOK
  <1>2. ASSUME NEW ls \in Seq(L!LeaseEnd)
        PROVE  [ls EXCEPT ![Len(ls)] = e] \in Seq(L!LeaseEnd)
    <2>1. ls \in [1 .. Len(ls) -> L!LeaseEnd] /\ Len(ls) \in Nat
      BY <1>2
    <2>2. [ls EXCEPT ![Len(ls)] = e] \in [1 .. Len(ls) -> L!LeaseEnd]
      BY <2>1, Zenon
    <2> QED
      BY <2>1, <2>2
  <1>3. leases' = [k \in Jobs |->
                     IF k \in S THEN [leases[k] EXCEPT ![Len(leases[k])] = e]
                                ELSE leases[k]]
    BY DEF L!EndLease
  <1>4. \A k \in Jobs : leases'[k] \in Seq(L!LeaseEnd)
    BY <1>1, <1>2, <1>3, Zenon
  <1> QED
    BY <1>3, <1>4

(* recover_expired_job on a set of expired leases is one abstract expiry.  *)
LEMMA ExpireRows ==
    ASSUME TypeOK, NEW S \in SUBSET Jobs, NEW now \in Nat, S # {},
           \A j \in S : LeaseIsExpired(job[j], now),
           UpdateJobs([k \in Jobs |-> IF k \in S THEN RecoverExpiredJob(k, job[k], now)
                                                  ELSE job[k]]),
           L!EndLease(S, "expired"), UNCHANGED acked
    PROVE  /\ job' \in [Jobs -> JobRow]
           /\ counts' \in [L!JobStatus -> Nat]
           /\ marker' \in [Jobs -> Episodes]
           /\ leases' \in [Jobs -> Seq(L!LeaseEnd)]
           /\ L!Expire(S)
  <1> DEFINE Row(k) == RecoverExpiredJob(k, job[k], now)
             rows == [k \in Jobs |-> IF k \in S THEN Row(k) ELSE job[k]]
             stat(k) == IF L!RetriedAfterExpiry(k, job[k].status, job[k].attempt)
                        THEN "RETRY_WAIT" ELSE "NEEDS_ATTENTION"
             abs(k) == IF L!RetriedAfterExpiry(k, AbstractLife[k].status, AbstractLife[k].attempt)
                       THEN "RETRY_WAIT" ELSE "NEEDS_ATTENTION"
  <1>1. UpdateJobs(rows)
    OBVIOUS
  <1>2. job \in [Jobs -> JobRow]
    BY DEF TypeOK
  <1>3. \A k \in S : /\ Row(k) \in JobRow
                     /\ LifeOf(Row(k)) = LifeRow(stat(k), job[k].attempt, L!NoToken,
                                                 job[k].fingerprint)
    BY <1>2, RecoveredRow
  <1>4. \A k \in Jobs : /\ AbstractLife[k].status = job[k].status
                        /\ AbstractLife[k].attempt = job[k].attempt
                        /\ AbstractLife[k] = LifeOf(job[k])
    BY DEF AbstractLife, LifeOf
  <1>5. \A k \in S : stat(k) = abs(k)
    BY <1>4
  <1> HIDE DEF Row, stat
  <1>6. rows \in [Jobs -> JobRow]
    BY <1>2, <1>3
  <1>7. /\ job' = rows
        /\ counts' \in [L!JobStatus -> Nat]
        /\ marker' \in [Jobs -> Episodes]
    BY <1>1, <1>6, UpdateJobsType
  <1>8. "expired" \in L!LeaseEnd
    BY DEF L!LeaseEnd
  <1>9. leases' \in [Jobs -> Seq(L!LeaseEnd)]
    BY <1>8, EndLeaseType
  <1>10. \A k \in S : [AbstractLife[k] EXCEPT !.status = abs(k), !.token = L!NoToken]
                        = LifeRow(stat(k), job[k].attempt, L!NoToken, job[k].fingerprint)
    <2> SUFFICES ASSUME NEW k \in S
                 PROVE  [AbstractLife[k] EXCEPT !.status = abs(k), !.token = L!NoToken]
                          = LifeRow(stat(k), job[k].attempt, L!NoToken, job[k].fingerprint)
      OBVIOUS
    <2>1. AbstractLife[k] = LifeOf(job[k]) /\ abs(k) = stat(k)
      BY <1>4, <1>5
    <2> HIDE DEF abs
    <2>2. [LifeOf(job[k]) EXCEPT !.status = stat(k), !.token = L!NoToken]
            = LifeRow(stat(k), job[k].attempt, L!NoToken, job[k].fingerprint)
      BY LifeRowUpdates
    <2> QED
      BY <2>1, <2>2, Zenon
  <1>11. \A k \in Jobs : LifeOf(job'[k]) =
            IF k \in S THEN LifeRow(stat(k), job[k].attempt, L!NoToken, job[k].fingerprint)
                       ELSE AbstractLife[k]
    BY <1>7, <1>3, <1>4
  <1>12. AbstractLife' =
           [k \in Jobs |->
              IF k \in S THEN [AbstractLife[k] EXCEPT !.status = abs(k), !.token = L!NoToken]
                         ELSE AbstractLife[k]]
    <2> HIDE DEF abs
    <2> QED
      BY <1>10, <1>11, Zenon DEF AbstractLife
  <1>13. \A k \in S : AbstractLife[k].status \in L!Held
    BY <1>4 DEF LeaseIsExpired
  <1>14. L!Expire(S)
    BY <1>12, <1>13, Zenon DEF L!Expire, AbstractLife
  <1> QED
    BY <1>6, <1>7, <1>9, <1>14

(* Recovering a set of expired leases is one abstract expiry step.         *)
LEMMA RecoverStep ==
    ASSUME TypeOK, NEW S \in SUBSET Jobs, NEW now \in Nat, S # {},
           \A j \in S : LeaseIsExpired(job[j], now), Recover(S, now)
    PROVE  TypeOK' /\ L!Expire(S)
  <1>1. /\ UpdateJobs([k \in Jobs |-> IF k \in S THEN RecoverExpiredJob(k, job[k], now)
                                                   ELSE job[k]])
        /\ CountExpired(S)
        /\ L!EndLease(S, "expired")
        /\ UNCHANGED <<clock, legacy, acked>>
    BY DEF Recover
  <1>2. /\ job' \in [Jobs -> JobRow]
        /\ counts' \in [L!JobStatus -> Nat]
        /\ marker' \in [Jobs -> Episodes]
        /\ leases' \in [Jobs -> Seq(L!LeaseEnd)]
        /\ L!Expire(S)
    BY <1>1, ExpireRows, Zenon
  <1>3. expired' \in Nat /\ noticed' \subseteq Jobs \X Episodes
    BY <1>1, CountExpiredType
  <1>4. TypeOK'
    BY <1>1, <1>2, <1>3 DEF TypeOK
  <1> QED
    BY <1>2, <1>4

(* resolve_expired_success is the abstract ResolveSuccess.                 *)
LEMMA ResolveStep ==
    ASSUME TypeOK, NEW j \in Jobs, NEW x \in Results, NEW now \in Nat,
           ResolveExpiredSuccess(j, x, now)
    PROVE  TypeOK' /\ L!ResolveSuccess(j, x)
  <1> DEFINE o == [status |-> "SUCCEEDED", result |-> x]
             row == [job[j] EXCEPT !.status = "SUCCEEDED", !.fingerprint = o]
  <1>1. /\ LeaseIsExpired(job[j], now)
        /\ UpdateJob(j, row)
        /\ CountExpired({j})
        /\ L!EndLease({j}, "expired")
        /\ UNCHANGED <<clock, legacy, acked>>
    BY DEF ResolveExpiredSuccess
  <1>2. /\ job \in [Jobs -> JobRow]
        /\ "SUCCEEDED" \in L!JobStatus \cup {"ABSENT"}
        /\ o \in L!Outcomes \cup {L!NoFingerprint}
        /\ "expired" \in L!LeaseEnd
    BY DEF TypeOK, L!JobStatus, L!Outcomes, L!CompletionStatus, L!LeaseEnd
  <1> HIDE DEF o
  <1>3. row \in JobRow /\ LifeOf(row) = LifeRow("SUCCEEDED", job[j].attempt, job[j].token, o)
    BY <1>2, Zenon DEF JobRow, LifeOf, LifeRow
  <1> HIDE DEF row
  <1>4. /\ job' = [job EXCEPT ![j] = row]
        /\ job' \in [Jobs -> JobRow]
        /\ counts' \in [L!JobStatus -> Nat]
        /\ marker' \in [Jobs -> Episodes]
    BY <1>1, <1>3, UpdateJobType
  <1>5. AbstractLife' = WithRow(j, LifeRow("SUCCEEDED", job[j].attempt, job[j].token, o))
    BY <1>2, <1>3, <1>4, StoreUpdate
  <1>6. AbstractLife' = [AbstractLife EXCEPT ![j].status = "SUCCEEDED", ![j].fingerprint = o]
    BY <1>5, FingerprintUpdate
  <1>7. AbstractLife[j].status \in L!Held
    BY <1>1 DEF AbstractLife, LifeOf, LeaseIsExpired
  <1>8. L!ResolveSuccess(j, x)
    BY <1>1, <1>6, <1>7, Zenon DEF L!ResolveSuccess, AbstractLife, o
  <1>9. /\ leases' \in [Jobs -> Seq(L!LeaseEnd)]
        /\ expired' \in Nat /\ noticed' \subseteq Jobs \X Episodes
    <2>1. {j} \in SUBSET Jobs
      OBVIOUS
    <2>2. leases' \in [Jobs -> Seq(L!LeaseEnd)]
      BY <1>1, <1>2, <2>1, EndLeaseType
    <2> QED
      BY <1>1, <2>1, <2>2, CountExpiredType
  <1>10. TypeOK'
    BY <1>1, <1>4, <1>9 DEF TypeOK
  <1> QED
    BY <1>8, <1>10

(* A completion by the holder of a live lease.                             *)
LEMMA CompleteActive ==
    ASSUME TypeOK, NEW j \in Jobs, NEW token, NEW o \in L!Outcomes, NEW now \in Nat,
           ActiveLease(job[j], token, now),
           UpdateJob(j, CompletedJob(j, job[j], o, now)),
           L!EndLease({j}, IF L!HandsBack(j, job[j].attempt, o)
                           THEN "handed_back" ELSE "finished"),
           L!Acknowledge(j, token, o),
           UNCHANGED <<clock, expired, legacy, noticed>>
    PROVE  TypeOK' /\ (L!HandBack(j, o) \/ L!Finish(j, o))
  <1> DEFINE row == CompletedJob(j, job[j], o, now)
             end == IF L!HandsBack(j, job[j].attempt, o) THEN "handed_back" ELSE "finished"
  <1>1. /\ job \in [Jobs -> JobRow]
        /\ leases \in [Jobs -> Seq(L!LeaseEnd)]
        /\ acked \subseteq L!Ack
    BY DEF TypeOK
  <1>2. /\ AbstractLife[j].status \in L!Held
        /\ AbstractLife[j].attempt = job[j].attempt
        /\ AbstractLife[j].token = token
        /\ token \in Nat
    BY <1>1 DEF ActiveLease, AbstractLife, LifeOf, JobRow
  <1>3. leases' \in [Jobs -> Seq(L!LeaseEnd)]
    <2>1. {j} \in SUBSET Jobs /\ end \in L!LeaseEnd
      BY DEF L!LeaseEnd
    <2> QED
      BY <2>1, EndLeaseType
  <1>4. acked' \subseteq L!Ack
    BY <1>1, <1>2 DEF L!Acknowledge, L!Ack
  <1>5. /\ L!StatusAfter(o) \in L!JobStatus \cup {"ABSENT"}
        /\ o \in L!Outcomes \cup {L!NoFingerprint}
    BY DEF L!Outcomes, L!CompletionStatus, L!StatusAfter, L!JobStatus
  <1>6. CASE L!HandsBack(j, job[j].attempt, o)
    <2>1. /\ row \in JobRow
          /\ LifeOf(row) = LifeRow("RETRY_WAIT", job[j].attempt, L!NoToken,
                                   job[j].fingerprint)
      BY <1>1, <1>6, RetryRow, Zenon DEF CompletedJob
    <2> HIDE DEF row
    <2>2. /\ job' = [job EXCEPT ![j] = row]
          /\ job' \in [Jobs -> JobRow]
          /\ counts' \in [L!JobStatus -> Nat]
          /\ marker' \in [Jobs -> Episodes]
      BY <2>1, UpdateJobType DEF row
    <2>3. AbstractLife' = WithRow(j, LifeRow("RETRY_WAIT", job[j].attempt, L!NoToken,
                                             job[j].fingerprint))
      BY <1>1, <2>1, <2>2, StoreUpdate
    <2>4. AbstractLife' = [AbstractLife EXCEPT ![j].status = "RETRY_WAIT",
                                               ![j].token = L!NoToken]
      BY <2>3, TokenUpdate
    <2>5. L!EndLease({j}, "handed_back")
      BY <1>6
    <2>6. L!Acknowledge(j, AbstractLife[j].token, o)
      BY <1>2
    <2>7. L!HandBack(j, o)
      BY <1>2, <1>6, <2>4, <2>5, <2>6, Zenon DEF L!HandBack, AbstractLife
    <2>8. TypeOK'
      BY <1>3, <1>4, <2>2 DEF TypeOK
    <2> QED
      BY <2>7, <2>8
  <1>7. CASE ~L!HandsBack(j, job[j].attempt, o)
    <2> DEFINE fin == [job[j] EXCEPT !.status = L!StatusAfter(o), !.fingerprint = o]
    <2>1. /\ fin \in JobRow
          /\ LifeOf(fin) = LifeRow(L!StatusAfter(o), job[j].attempt, job[j].token, o)
      BY <1>1, <1>5, Zenon DEF JobRow, LifeOf, LifeRow
    <2>2. row = fin
      BY <1>7, Zenon DEF CompletedJob
    <2> HIDE DEF row, fin
    <2>3. /\ job' = [job EXCEPT ![j] = row]
          /\ job' \in [Jobs -> JobRow]
          /\ counts' \in [L!JobStatus -> Nat]
          /\ marker' \in [Jobs -> Episodes]
      BY <2>1, <2>2, UpdateJobType DEF row
    <2>4. AbstractLife' = WithRow(j, LifeRow(L!StatusAfter(o), job[j].attempt,
                                             job[j].token, o))
      BY <1>1, <2>1, <2>2, <2>3, StoreUpdate
    <2>5. AbstractLife' = [AbstractLife EXCEPT ![j].status = L!StatusAfter(o),
                                               ![j].fingerprint = o]
      BY <2>4, FingerprintUpdate
    <2>6. L!EndLease({j}, "finished")
      BY <1>7
    <2>7. L!Acknowledge(j, AbstractLife[j].token, o)
      BY <1>2
    <2>8. L!Finish(j, o)
      BY <1>2, <1>7, <2>5, <2>6, <2>7, Zenon DEF L!Finish, AbstractLife
    <2>9. TypeOK'
      BY <1>3, <1>4, <2>3 DEF TypeOK
    <2> QED
      BY <2>8, <2>9
  <1> QED
    BY <1>6, <1>7

(* complete is, by case, an acknowledgement repeated, an expiry, or the    *)
(* end of the lease.                                                       *)
LEMMA CompleteStep ==
    ASSUME TypeOK, NEW j \in Jobs, NEW token \in Tokens(j), NEW o \in L!Outcomes,
           NEW now \in Nat, Complete(j, token, o, now)
    PROVE  TypeOK' /\ L!Next
  <1>1. CASE /\ job[j].status \in L!IsTerminal
             /\ job[j].token = token
             /\ job[j].fingerprint = o
             /\ L!Acknowledge(j, token, o)
             /\ UNCHANGED <<clock, job, counts, expired, marker, legacy, leases, noticed>>
    <2>1. token \in Nat /\ token # L!NoToken
      BY DEF TypeOK, Tokens, L!NoToken
    <2>2. /\ AbstractLife[j].status \in L!IsTerminal
          /\ AbstractLife[j].token = token
          /\ AbstractLife[j].fingerprint = o
      BY <1>1 DEF AbstractLife, LifeOf
    <2>3. AbstractLife' = AbstractLife
      BY <1>1 DEF AbstractLife
    <2>4. L!Reacknowledge(j, o)
      BY <1>1, <2>1, <2>2, <2>3, Zenon DEF L!Reacknowledge, AbstractLife
    <2>5. TypeOK'
      BY <1>1, <2>1 DEF TypeOK, L!Acknowledge, L!Ack
    <2> QED
      BY <2>4, <2>5 DEF L!Next
  <1>2. CASE LeaseIsExpired(job[j], now) /\ Recover({j}, now)
    <2>1. TypeOK' /\ L!Expire({j})
      BY <1>2, RecoverStep
    <2> QED
      BY <2>1 DEF L!Next
  <1>3. CASE /\ ActiveLease(job[j], token, now)
             /\ UpdateJob(j, CompletedJob(j, job[j], o, now))
             /\ L!EndLease({j}, IF L!HandsBack(j, job[j].attempt, o)
                                THEN "handed_back" ELSE "finished")
             /\ L!Acknowledge(j, token, o)
             /\ UNCHANGED <<clock, expired, legacy, noticed>>
    <2>1. TypeOK' /\ (L!HandBack(j, o) \/ L!Finish(j, o))
      BY <1>3, CompleteActive
    <2> QED
      BY <2>1 DEF L!Next
  <1> QED
    BY <1>1, <1>2, <1>3 DEF Complete, CompletionRepeated

-----------------------------------------------------------------------------
(* The version before, and the upgrade from it.                            *)

(* A lease noted as expired is still there: the life cycle does not move.  *)
LEMMA ObserveStep ==
    ASSUME TypeOK, NEW j \in Jobs, NEW now \in Nat, ObserveExpired(j, now)
    PROVE  TypeOK' /\ UNCHANGED L!vars
  <1> DEFINE e == LeaseEpisodeIdentity(job[j])
             n == legacy.total + 1
             f == [legacy.active EXCEPT ![j] = e]
  <1>1. /\ legacy' = [legacy EXCEPT !.total = @ + 1, !.active[j] = e]
        /\ noticed' = noticed \cup {<<j, e>>}
        /\ UNCHANGED <<clock, job, counts, expired, marker, leases, acked>>
    BY DEF ObserveExpired
  <1>2. e \in Episodes
    BY IdentityType DEF TypeOK
  <1>3. /\ legacy \in Legacy
        /\ noticed \subseteq Jobs \X Episodes
    BY DEF TypeOK
  <1> HIDE DEF e
  <1>4. n \in Nat /\ f \in [Jobs -> Episodes]
    BY <1>2, <1>3 DEF Legacy
  <1>5. legacy' = [legacy EXCEPT !.total = n, !.active = f]
    BY <1>1, <1>3, Zenon DEF Legacy
  <1> HIDE DEF n, f
  <1>6. legacy' \in Legacy
    BY <1>3, <1>4, <1>5, Zenon DEF Legacy
  <1>7. noticed' \subseteq Jobs \X Episodes
    BY <1>1, <1>2, <1>3
  <1>8. TypeOK'
    BY <1>1, <1>6, <1>7 DEF TypeOK
  <1>9. UNCHANGED L!vars
    BY <1>1 DEF L!vars
  <1> QED
    BY <1>8, <1>9

(* Expiring a noted lease is an abstract expiry.                           *)
LEMMA ExpireObservedStep ==
    ASSUME TypeOK, NEW j \in Jobs, NEW now \in Nat, ExpireObserved(j, now)
    PROVE  TypeOK' /\ L!Expire({j})
  <1> DEFINE row == RecoverExpiredJob(j, job[j], now)
             rows == [k \in Jobs |-> IF k \in {j} THEN RecoverExpiredJob(k, job[k], now)
                                                   ELSE job[k]]
  <1>1. /\ LeaseIsExpired(job[j], now)
        /\ UpdateJobs([job EXCEPT ![j] = row])
        /\ L!EndLease({j}, "expired")
        /\ UNCHANGED <<clock, expired, acked, noticed>>
    BY DEF ExpireObserved, UpdateJob
  <1>2. PICK left \in {NoEpisode, legacy.active[j]} :
          legacy' = [legacy EXCEPT !.active[j] = left]
    BY DEF ExpireObserved
  <1>3. [job EXCEPT ![j] = row] = rows
    <2>1. job = [k \in Jobs |-> job[k]]
      BY DEF TypeOK
    <2> QED
      BY <2>1, Zenon
  <1>4. UpdateJobs(rows)
    BY <1>1, <1>3, Zenon
  <1>5. /\ job' \in [Jobs -> JobRow]
        /\ counts' \in [L!JobStatus -> Nat]
        /\ marker' \in [Jobs -> Episodes]
        /\ leases' \in [Jobs -> Seq(L!LeaseEnd)]
        /\ L!Expire({j})
    <2>1. {j} \in SUBSET Jobs /\ {j} # {} /\ \A k \in {j} : LeaseIsExpired(job[k], now)
      BY <1>1
    <2> QED
      BY <1>1, <1>4, <2>1, ExpireRows, Zenon
  <1>6. legacy' \in Legacy
    <2> DEFINE f == [legacy.active EXCEPT ![j] = left]
    <2>1. legacy \in Legacy /\ left \in Episodes
      BY DEF TypeOK, Legacy, NoEpisode, Episodes, L!NoToken
    <2>2. f \in [Jobs -> Episodes]
      BY <2>1 DEF Legacy
    <2>3. legacy' = [legacy EXCEPT !.active = f]
      BY <1>2, <2>1, Zenon DEF Legacy
    <2> HIDE DEF f
    <2> QED
      BY <2>1, <2>2, <2>3, Zenon DEF Legacy
  <1>7. TypeOK'
    BY <1>1, <1>5, <1>6 DEF TypeOK
  <1> QED
    BY <1>5, <1>7

(* The upgrade leaves the jobs alone.                                      *)
LEMMA UpgradeStep ==
    ASSUME TypeOK, MigrateLegacyAnomalyState \/ ClearLegacyAnomalyState
    PROVE  TypeOK' /\ UNCHANGED L!vars
  <1> DEFINE none == [k \in Jobs |-> NoEpisode]
  <1>1. /\ legacy \in Legacy
        /\ expired \in Nat
        /\ marker \in [Jobs -> Episodes]
        /\ none \in [Jobs -> Episodes]
    BY DEF TypeOK, NoEpisode, Episodes, L!NoToken
  <1>2. CASE MigrateLegacyAnomalyState
    <2>1. UNCHANGED <<clock, job, counts, leases, acked, noticed>>
      BY <1>2 DEF MigrateLegacyAnomalyState
    <2>2. expired' \in Nat
      BY <1>1, <1>2 DEF MigrateLegacyAnomalyState, SetCounterFloor, Legacy
    <2>3. marker' \in [Jobs -> Episodes]
      <3> DEFINE Moved(k) == legacy.active[k] \in {LeaseEpisodeIdentity(job[k])} \ {NoEpisode}
      <3>1. marker' = [k \in Jobs |-> IF Moved(k) THEN legacy.active[k] ELSE marker[k]]
        BY <1>2 DEF MigrateLegacyAnomalyState
      <3>2. legacy.active \in [Jobs -> Episodes]
        BY <1>1 DEF Legacy
      <3> HIDE DEF Moved
      <3> QED
        BY <1>1, <3>1, <3>2
    <2>4. legacy' \in Legacy
      BY <1>1, <1>2, Zenon DEF MigrateLegacyAnomalyState, Legacy
    <2>5. TypeOK'
      BY <2>1, <2>2, <2>3, <2>4 DEF TypeOK
    <2> QED
      BY <2>1, <2>5 DEF L!vars
  <1>3. CASE ClearLegacyAnomalyState
    <2>1. /\ legacy' = [phase |-> "running", total |-> 0, active |-> none]
          /\ UNCHANGED <<clock, job, counts, expired, marker, leases, acked, noticed>>
      BY <1>3 DEF ClearLegacyAnomalyState
    <2> HIDE DEF none
    <2>2. legacy' \in Legacy
      BY <1>1, <2>1 DEF Legacy
    <2>3. TypeOK'
      BY <2>1, <2>2 DEF TypeOK
    <2> QED
      BY <2>1, <2>3 DEF L!vars
  <1> QED
    BY <1>2, <1>3

(* Every step of the store keeps the type invariant and is a step of the   *)
(* life cycle or invisible to it.                                          *)
LEMMA StoreStep ==
    ASSUME TypeOK, [Next]_vars
    PROVE  TypeOK' /\ [L!Next]_(L!vars)
  <1>1. CASE UNCHANGED vars
    BY <1>1 DEF vars, TypeOK, L!vars
  <1>2. CASE Tick
    BY <1>2 DEF Tick, TypeOK, L!vars
  <1>3. \A now \in Nows : now \in Nat
    BY DEF Nows, TypeOK
  <1>4. ASSUME NEW now \in Nows, RecoverExpired(now) PROVE TypeOK' /\ L!Next
    <2>1. PICK S \in SUBSET Jobs : /\ S # {}
                                   /\ \A j \in S : LeaseIsExpired(job[j], now)
                                   /\ Recover(S, now)
      BY <1>4 DEF RecoverExpired
    <2> QED
      BY <1>3, <2>1, RecoverStep DEF L!Next
  <1>5. ASSUME NEW now \in Nows, NEW node \in Nodes, Claim(node, now)
        PROVE  TypeOK' /\ L!Next
    BY <1>3, <1>5, ClaimStep DEF L!Next
  <1>6. ASSUME NEW now \in Nows, NEW j \in Jobs, Enqueue(j, now)
        PROVE  TypeOK' /\ L!Next
    BY <1>3, <1>6, EnqueueStep DEF L!Next
  <1>7. ASSUME NEW now \in Nows, NEW j \in Jobs, NEW token \in Tokens(j),
               Heartbeat(j, token, now)
        PROVE  TypeOK' /\ [L!Next]_(L!vars)
    <2>1. CASE LeaseIsExpired(job[j], now) /\ Recover({j}, now)
      <3>1. TypeOK' /\ L!Expire({j})
        BY <1>3, <2>1, RecoverStep
      <3> QED
        BY <3>1 DEF L!Next
    <2>2. CASE /\ UpdateJob(j, [job[j] EXCEPT !.deadline = now + LeaseMs])
               /\ UNCHANGED <<clock, expired, legacy, leases, acked, noticed>>
      BY <1>3, <2>2, HeartbeatActive, Zenon
    <2> QED
      BY <1>7, <2>1, <2>2, Zenon DEF Heartbeat
  <1>8. ASSUME NEW now \in Nows, NEW j \in Jobs, NEW token \in Tokens(j),
               NEW o \in L!Outcomes, Complete(j, token, o, now)
        PROVE  TypeOK' /\ L!Next
    BY <1>3, <1>8, CompleteStep
  <1>9. ASSUME NEW now \in Nows, NEW j \in Jobs, NEW x \in Results,
               ResolveExpiredSuccess(j, x, now)
        PROVE  TypeOK' /\ L!Next
    BY <1>3, <1>9, ResolveStep DEF L!Next
  <1>10. ASSUME NEW j \in Jobs, RequestCancel(j) PROVE TypeOK' /\ L!Next
    BY <1>10, RequestCancelStep DEF L!Next
  <1>11. ASSUME PriorVersion PROVE TypeOK' /\ [L!Next]_(L!vars)
    <2>1. ASSUME NEW now \in Nows, NEW j \in Jobs, ObserveExpired(j, now)
          PROVE  TypeOK' /\ UNCHANGED L!vars
      BY <1>3, <2>1, ObserveStep
    <2>2. ASSUME NEW now \in Nows, NEW j \in Jobs, ExpireObserved(j, now)
          PROVE  TypeOK' /\ L!Next
      <3>1. TypeOK' /\ L!Expire({j})
        BY <1>3, <2>2, ExpireObservedStep
      <3> QED
        BY <3>1 DEF L!Next
    <2> QED
      BY <1>5, <1>6, <1>11, <2>1, <2>2, Zenon DEF PriorVersion
  <1>12. ASSUME Requests PROVE TypeOK' /\ [L!Next]_(L!vars)
    BY <1>4, <1>5, <1>6, <1>7, <1>8, <1>9, <1>10, <1>12, Zenon DEF Requests
  <1>13. ASSUME MigrateLegacyAnomalyState \/ ClearLegacyAnomalyState
         PROVE  TypeOK' /\ [L!Next]_(L!vars)
    BY <1>13, UpgradeStep
  <1> QED
    BY <1>1, <1>2, <1>11, <1>12, <1>13, Zenon DEF Next

(* An empty store maps to the initial state of the life cycle.             *)
LEMMA StoreInit == Init => TypeOK /\ L!Init
  <1> SUFFICES ASSUME Init PROVE TypeOK /\ L!Init
    OBVIOUS
  <1>1. AbsentRow \in JobRow
    BY DEF AbsentRow, JobRow, L!NoToken, L!NoFingerprint
  <1>2. TypeOK
    <2> DEFINE none == [j \in Jobs |-> NoEpisode]
    <2>1. none \in [Jobs -> Episodes]
      BY DEF NoEpisode, Episodes, L!NoToken
    <2>2. marker = none /\ legacy = [phase |-> "v8", total |-> 0, active |-> none]
      BY DEF Init
    <2> HIDE DEF none
    <2>3. marker \in [Jobs -> Episodes] /\ legacy \in Legacy
      BY <2>1, <2>2 DEF Legacy
    <2>4. /\ clock \in Nat /\ expired \in Nat
          /\ job \in [Jobs -> JobRow]
          /\ counts \in [L!JobStatus -> Nat]
          /\ leases \in [Jobs -> Seq(L!LeaseEnd)]
          /\ acked \subseteq L!Ack /\ noticed \subseteq Jobs \X Episodes
      BY <1>1 DEF Init, L!LeaseEnd
    <2> QED
      BY <2>3, <2>4 DEF TypeOK
  <1>3. \A j \in Jobs : LifeOf(job[j]) = L!AbsentLife
    BY DEF Init, AbsentRow, LifeOf, L!AbsentLife
  <1>4. L!Init
    BY <1>3, Zenon DEF Init, L!Init
  <1> QED
    BY <1>2, <1>4

-----------------------------------------------------------------------------
(* The store's rows, counters and histories stay well-typed; in particular *)
(* no status counter becomes negative.                                     *)
THEOREM StoreTypes == Spec => []TypeOK
  <1>1. TypeOK /\ [Next]_vars => TypeOK'
    BY StoreStep
  <1> QED
    BY <1>1, StoreInit, PTL DEF Spec

(* JobStore implements JobLifecycle: clocks, stale now_ms values, claim    *)
(* order, skipped locks and batched recovery never show.                   *)
THEOREM Refinement == Spec => ImplementsLifecycle
  <1>1. TypeOK /\ [Next]_vars => [L!Next]_(L!vars)
    BY StoreStep
  <1> QED
    BY <1>1, StoreInit, StoreTypes, PTL DEF Spec, ImplementsLifecycle, L!Spec

-----------------------------------------------------------------------------
LP == INSTANCE JobLifecycleProofs WITH life <- [j \in Jobs |-> LifeOf(job[j])]

(* What was proved of the life cycle holds of the store: one holder per    *)
(* job, no blind rerun, a bounded number of grants, and acknowledged       *)
(* outcomes that stand.                                                    *)
THEOREM StoreSafety ==
    Spec => [](SingleHolder /\ NoBlindRerun /\ AttemptBudget
               /\ AckedOutcomeStands /\ OneVerdictPerLease)
  <1>1. LP!Spec => [](/\ LP!TypeOK /\ LP!SingleHolder /\ LP!NoBlindRerun /\ LP!AttemptBudget
                      /\ LP!AckedOutcomeStands /\ LP!OneVerdictPerLease)
    BY LP!Safety, RetrySafeAssumption, MaxAttemptsAssumption
  <1>2. L!Init => LP!Init
    BY DEF L!Init, LP!Init, L!AbsentLife, LP!AbsentLife, L!NoToken,
           LP!NoToken, L!NoFingerprint, LP!NoFingerprint
  <1>3. [L!Next]_(L!vars) => [LP!Next]_(LP!vars)
    BY Zenon
       DEF L!Next, LP!Next, L!vars, LP!vars, L!Enqueue, LP!Enqueue, L!Claim,
           LP!Claim, L!RequestCancel, LP!RequestCancel, L!HandBack,
           LP!HandBack, L!Finish, LP!Finish, L!Reacknowledge,
           LP!Reacknowledge, L!ResolveSuccess, LP!ResolveSuccess, L!Expire,
           LP!Expire, L!EndLease, LP!EndLease, L!Acknowledge,
           LP!Acknowledge, L!HandsBack, LP!HandsBack, L!StatusAfter,
           LP!StatusAfter, L!RetriedAfterExpiry, LP!RetriedAfterExpiry,
           L!Outcomes, LP!Outcomes, L!CompletionStatus, LP!CompletionStatus,
           L!Held, LP!Held, L!Waiting, LP!Waiting, L!IsTerminal,
           LP!IsTerminal, L!NoToken, LP!NoToken, L!NoFingerprint,
           LP!NoFingerprint, L!AbsentLife, LP!AbsentLife
  <1>4. LP!SingleHolder /\ LP!NoBlindRerun /\ LP!AttemptBudget
           /\ LP!AckedOutcomeStands /\ LP!OneVerdictPerLease
        => SingleHolder /\ NoBlindRerun /\ AttemptBudget
           /\ AckedOutcomeStands /\ OneVerdictPerLease
    BY Zenon
       DEF SingleHolder, NoBlindRerun, AttemptBudget, AckedOutcomeStands, OneVerdictPerLease,
           L!SingleHolder, LP!SingleHolder, L!NoBlindRerun, LP!NoBlindRerun,
           L!AttemptBudget, LP!AttemptBudget, L!AckedOutcomeStands,
           LP!AckedOutcomeStands, L!OneVerdictPerLease,
           LP!OneVerdictPerLease, L!StatusAfter, LP!StatusAfter, L!Held,
           LP!Held, L!NoToken, LP!NoToken
  <1> QED
    BY <1>1, <1>2, <1>3, <1>4, Refinement, PTL
       DEF ImplementsLifecycle, L!Spec, LP!Spec
=============================================================================
