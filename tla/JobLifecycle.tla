---------------------------- MODULE JobLifecycle ----------------------------
(***************************************************************************)
(* What the orchestrator's job store promises to its callers, without      *)
(* clocks, selection order or storage: a durable job is leased to one      *)
(* holder at a time, a lease ends exactly once (handed back, finished or   *)
(* expired), and the job's first terminal outcome is its last.             *)
(*                                                                         *)
(* JobStore implements this specification; NodeAgent composes it with the  *)
(* agent that executes the jobs.                                           *)
(***************************************************************************)
EXTENDS Naturals, Sequences

CONSTANTS
    Jobs,           \* the durable jobs, present or still to be enqueued
    RetrySafe,      \* jobs whose JobKind is_retry_safe_after_lease_expiry
    MaxAttempts,    \* max_attempts of each job
    Results         \* the result payloads a completion can carry

ASSUME RetrySafeAssumption == RetrySafe \subseteq Jobs
ASSUME MaxAttemptsAssumption == MaxAttempts \in [Jobs -> Nat \ {0}]

VARIABLES
    life,           \* status, attempt, lease token and fingerprint per job
    leases,         \* history: how each lease of a job ended, by token
    acked           \* history: the completions the store has acknowledged

vars == <<life, leases, acked>>

-----------------------------------------------------------------------------
(* The alphabet of job states and completions.  A job that was never       *)
(* enqueued is ABSENT.  The lease token of a job is the number of the      *)
(* grant: real tokens are random and never reused.                         *)

JobStatus == {"QUEUED", "LEASED", "RETRY_WAIT", "CANCEL_REQUESTED",
              "SUCCEEDED", "FAILED", "CANCELLED", "NEEDS_ATTENTION"}
IsTerminal == {"SUCCEEDED", "FAILED", "CANCELLED", "NEEDS_ATTENTION"}
Held == {"LEASED", "CANCEL_REQUESTED"}
Waiting == {"QUEUED", "RETRY_WAIT"}

CompletionStatus == {"SUCCEEDED", "RETRYABLE_FAILURE", "FAILED", "CANCELLED",
                     "NEEDS_ATTENTION"}
Outcomes == [status : CompletionStatus, result : Results]

NoToken == 0
NoFingerprint == [status |-> "NONE"]

LeaseEnd == {"held", "handed_back", "finished", "expired"}
Life == [status : JobStatus \cup {"ABSENT"}, attempt : Nat, token : Nat,
         fingerprint : Outcomes \cup {NoFingerprint}]
Ack == [job : Jobs, token : Nat, outcome : Outcomes]

AbsentLife == [status |-> "ABSENT", attempt |-> 0, token |-> NoToken,
               fingerprint |-> NoFingerprint]

-----------------------------------------------------------------------------
(* Where a completion and an expired lease lead.                           *)

HandsBack(j, attempt, outcome) ==
    outcome.status = "RETRYABLE_FAILURE" /\ attempt < MaxAttempts[j]

StatusAfter(outcome) ==
    IF outcome.status = "RETRYABLE_FAILURE" THEN "FAILED" ELSE outcome.status

\* Mutant: a job of any kind is retried after expiry.
RetriedWhateverKind(j, status, attempt) ==
    status = "LEASED" /\ attempt < MaxAttempts[j]

RetriedAfterExpiry(j, status, attempt) ==
    status = "LEASED" /\ j \in RetrySafe /\ attempt < MaxAttempts[j]

\* The newest lease of each job in S ends in the given way.
EndLease(S, end) ==
    leases' = [j \in Jobs |->
                 IF j \in S THEN [leases[j] EXCEPT ![Len(leases[j])] = end]
                            ELSE leases[j]]

Acknowledge(j, t, o) ==
    acked' = acked \cup {[job |-> j, token |-> t, outcome |-> o]}

-----------------------------------------------------------------------------
Init ==
    /\ life = [j \in Jobs |-> AbsentLife]
    /\ leases = [j \in Jobs |-> <<>>]
    /\ acked = {}

Enqueue(j) ==
    /\ life[j].status = "ABSENT"
    /\ life' = [life EXCEPT ![j] = [AbsentLife EXCEPT !.status = "QUEUED"]]
    /\ UNCHANGED <<leases, acked>>

Claim(j) ==
    /\ life[j].status \in Waiting
    /\ life' = [life EXCEPT ![j].status = "LEASED",
                            ![j].attempt = @ + 1,
                            ![j].token = Len(leases[j]) + 1]
    /\ leases' = [leases EXCEPT ![j] = Append(@, "held")]
    /\ UNCHANGED acked

\* The holder's completion is accepted and the job may be tried again.
HandBack(j, o) ==
    /\ life[j].status \in Held
    /\ HandsBack(j, life[j].attempt, o)
    /\ life' = [life EXCEPT ![j].status = "RETRY_WAIT", ![j].token = NoToken]
    /\ EndLease({j}, "handed_back")
    /\ Acknowledge(j, life[j].token, o)

\* The holder's completion is accepted and final.
Finish(j, o) ==
    /\ life[j].status \in Held
    /\ ~HandsBack(j, life[j].attempt, o)
    /\ life' = [life EXCEPT ![j].status = StatusAfter(o), ![j].fingerprint = o]
    /\ EndLease({j}, "finished")
    /\ Acknowledge(j, life[j].token, o)

\* The same completion arrives again and is acknowledged again.
Reacknowledge(j, o) ==
    /\ life[j].status \in IsTerminal
    /\ life[j].token # NoToken
    /\ life[j].fingerprint = o
    /\ Acknowledge(j, life[j].token, o)
    /\ UNCHANGED <<life, leases>>

\* Some set of leases is found expired, in one transaction.
Expire(S) ==
    /\ S # {}
    /\ \A j \in S : life[j].status \in Held
    /\ life' = [j \in Jobs |->
                  IF j \in S
                  THEN [life[j] EXCEPT
                          !.status = IF RetriedAfterExpiry(j, @, life[j].attempt)
                                     THEN "RETRY_WAIT" ELSE "NEEDS_ATTENTION",
                          !.token = NoToken]
                  ELSE life[j]]
    /\ EndLease(S, "expired")
    /\ UNCHANGED acked

\* Evidence outside the lease proves that the expired holder had succeeded.
ResolveSuccess(j, r) ==
    /\ life[j].status \in Held
    /\ life' = [life EXCEPT
                  ![j].status = "SUCCEEDED",
                  ![j].fingerprint = [status |-> "SUCCEEDED", result |-> r]]
    /\ EndLease({j}, "expired")
    /\ UNCHANGED acked

\* Mutant: cancelling a finished job overwrites its outcome.
RequestCancelAny(j) ==
    /\ life[j].status # "ABSENT"
    /\ life' = [life EXCEPT ![j].status = IF @ = "LEASED" THEN "CANCEL_REQUESTED"
                                                          ELSE "CANCELLED"]
    /\ UNCHANGED <<leases, acked>>

RequestCancel(j) ==
    /\ life[j].status \in Waiting \cup {"LEASED"}
    /\ life' = [life EXCEPT ![j].status = IF @ = "LEASED" THEN "CANCEL_REQUESTED"
                                                          ELSE "CANCELLED"]
    /\ UNCHANGED <<leases, acked>>

Next ==
    \/ \E j \in Jobs : Enqueue(j) \/ Claim(j) \/ RequestCancel(j)
    \/ \E j \in Jobs, o \in Outcomes :
          HandBack(j, o) \/ Finish(j, o) \/ Reacknowledge(j, o)
    \/ \E j \in Jobs, r \in Results : ResolveSuccess(j, r)
    \/ \E S \in SUBSET Jobs : Expire(S)

Spec == Init /\ [][Next]_vars

-----------------------------------------------------------------------------
(* Properties.                                                             *)

(* The rows, the lease histories and the acknowledgements have their types. *)
TypeOK ==
    /\ life \in [Jobs -> Life]
    /\ leases \in [Jobs -> Seq(LeaseEnd)]
    /\ acked \subseteq Ack

(* One holder at a time: only the newest lease of a job can still be held, *)
(* it is held exactly while the job is LEASED or CANCEL_REQUESTED, and the *)
(* token the store compares requests with is then the newest one.  An      *)
(* older holder is fenced off for good.                                    *)
SingleHolder ==
    \A j \in Jobs :
        /\ \A t \in 1 .. Len(leases[j]) :
              leases[j][t] = "held" <=> /\ t = Len(leases[j])
                                        /\ life[j].status \in Held
        /\ life[j].status \in Held =>
              /\ life[j].token = Len(leases[j])
              /\ life[j].token # NoToken

(* A job whose side effects are not proven repeatable is granted a second  *)
(* time only after every earlier holder handed it back itself: a lease     *)
(* that expired with an unknown outcome is never followed by another.      *)
NoBlindRerun ==
    \A j \in Jobs \ RetrySafe : \A t \in 1 .. Len(leases[j]) :
        t < Len(leases[j]) => leases[j][t] = "handed_back"

(* The retry budget: a job is never granted more often than max_attempts,  *)
(* whichever of expiry and retryable failure sent it back, although claim  *)
(* itself checks no budget.                                                *)
AttemptBudget ==
    \A j \in Jobs : Len(leases[j]) <= MaxAttempts[j]

(* What the store acknowledged stands: a completion it acknowledged either *)
(* handed its lease back for another attempt, or is the job's outcome in   *)
(* every later state, whatever expiry, cancel, recovery or late completion *)
(* follows.                                                                *)
AckedOutcomeStands ==
    \A a \in acked :
        \/ leases[a.job][a.token] = "handed_back"
        \/ /\ life[a.job].status = StatusAfter(a.outcome)
           /\ life[a.job].fingerprint = a.outcome
           /\ life[a.job].token = a.token

(* No lease is ever acknowledged with two different completions.           *)
OneVerdictPerLease ==
    \A a, b \in acked : a.job = b.job /\ a.token = b.token => a.outcome = b.outcome

(* A terminal job never changes status or fingerprint again.               *)
TerminalIsFinal ==
    [][\A j \in Jobs : life[j].status \in IsTerminal => life'[j] = life[j]]_vars

=============================================================================
