------------------------- MODULE JobLifecycleProofs -------------------------
(***************************************************************************)
(* Proofs of the safety of the job life cycle, for any set of jobs, any    *)
(* retry budget and any set of results.                                    *)
(*                                                                         *)
(* No step relates two jobs, so the inductive invariant is a predicate on  *)
(* one job's row r and lease history ls (RowOK) together with one on an    *)
(* acknowledgement and the row and history of its job (AckOK).  One lemma  *)
(* per transition shows that it preserves both.                            *)
(***************************************************************************)
EXTENDS JobLifecycle, TLAPS

RowOK(j, r, ls) ==
    /\ r \in Life
    /\ ls \in Seq(LeaseEnd)
    /\ r.attempt = Len(ls)
    /\ Len(ls) <= MaxAttempts[j]
    /\ r.status \in {"ABSENT", "QUEUED"} => Len(ls) = 0
    /\ r.status \in Waiting \cup {"ABSENT"} => r.token = NoToken
    /\ r.status = "RETRY_WAIT" =>
          /\ Len(ls) # 0
          /\ Len(ls) < MaxAttempts[j]
          /\ j \in RetrySafe \/ ls[Len(ls)] = "handed_back"
    /\ r.status \in Held =>
          Len(ls) # 0 /\ r.token = Len(ls) /\ ls[Len(ls)] = "held"
    /\ r.status \notin Held /\ Len(ls) # 0 => ls[Len(ls)] # "held"
    /\ r.status \in IsTerminal /\ r.token # NoToken =>
          /\ Len(ls) # 0
          /\ r.token = Len(ls)
          /\ ls[Len(ls)] \in {"finished", "expired"}
          /\ r.status = StatusAfter(r.fingerprint)
    /\ \A t \in 1 .. Len(ls) : t < Len(ls) =>
          /\ ls[t] # "held"
          /\ j \in RetrySafe \/ ls[t] = "handed_back"

AckOK(a, r, ls) ==
    /\ a.token \in 1 .. Len(ls)
    /\ ls[a.token] # "held"
    /\ \/ ls[a.token] = "handed_back"
       \/ /\ r.status = StatusAfter(a.outcome)
          /\ r.status \in IsTerminal
          /\ r.fingerprint = a.outcome
          /\ r.token = a.token

IndInv ==
    /\ TypeOK
    /\ \A j \in Jobs : RowOK(j, life[j], leases[j])
    /\ \A a \in acked : AckOK(a, life[a.job], leases[a.job])
    /\ OneVerdictPerLease

-----------------------------------------------------------------------------
(* The lease history after the newest lease ended: same length, only the   *)
(* last entry differs.                                                     *)
LEMMA EndLast ==
    ASSUME NEW ls \in Seq(LeaseEnd), Len(ls) # 0, NEW e \in LeaseEnd,
           NEW m, m = [ls EXCEPT ![Len(ls)] = e]
    PROVE  /\ m \in Seq(LeaseEnd)
           /\ Len(m) = Len(ls)
           /\ m[Len(ls)] = e
           /\ \A t \in 1 .. Len(ls) : t < Len(ls) => m[t] = ls[t]
  OBVIOUS

(* The lease history after a grant: one entry longer, the old ones kept.   *)
LEMMA GrantLast ==
    ASSUME NEW ls \in Seq(LeaseEnd), NEW m, m = Append(ls, "held")
    PROVE  /\ m \in Seq(LeaseEnd)
           /\ Len(m) = Len(ls) + 1
           /\ m[Len(m)] = "held"
           /\ \A t \in 1 .. Len(ls) : m[t] = ls[t]
  BY DEF LeaseEnd

(* Granting a lease to a waiting job keeps its row consistent; this is     *)
(* where the retry budget and the ban on blind reruns are used up.         *)
LEMMA ClaimRow ==
    ASSUME NEW j \in Jobs, NEW r, NEW ls, RowOK(j, r, ls), r.status \in Waiting,
           NEW r2 \in Life, r2.status = "LEASED", r2.attempt = r.attempt + 1,
           r2.token = Len(ls) + 1
    PROVE  RowOK(j, r2, Append(ls, "held"))
  <1> DEFINE m == Append(ls, "held")
  <1>1. ls \in Seq(LeaseEnd) /\ r \in Life /\ Len(ls) \in Nat
    BY DEF RowOK
  <1>2. /\ m \in Seq(LeaseEnd)
        /\ Len(m) = Len(ls) + 1
        /\ m[Len(m)] = "held"
        /\ \A t \in 1 .. Len(ls) : m[t] = ls[t]
    BY <1>1, GrantLast
  <1> HIDE DEF m
  <1>3. Len(m) <= MaxAttempts[j]
    BY <1>1, <1>2, MaxAttemptsAssumption DEF RowOK, Waiting
  <1>4. \A t \in 1 .. Len(m) : t < Len(m) =>
           m[t] # "held" /\ (j \in RetrySafe \/ m[t] = "handed_back")
    <2> SUFFICES ASSUME NEW t \in 1 .. Len(m), t < Len(m)
                 PROVE  m[t] # "held" /\ (j \in RetrySafe \/ m[t] = "handed_back")
      OBVIOUS
    <2>1. t \in 1 .. Len(ls) /\ m[t] = ls[t]
      BY <1>1, <1>2
    <2>2. CASE t < Len(ls)
      BY <2>1, <2>2 DEF RowOK
    <2>3. CASE t = Len(ls)
      BY <1>1, <2>1, <2>3 DEF RowOK, Waiting, Held
    <2> QED
      BY <1>1, <2>1, <2>2, <2>3
  <1>5. RowOK(j, r2, m)
    BY <1>1, <1>2, <1>3, <1>4
       DEF RowOK, Waiting, Held, IsTerminal, NoToken
  <1> QED
    BY <1>5 DEF m

(* Ending the newest lease of a held job keeps its row consistent, provided *)
(* that a job waiting again still has budget and may be repeated.          *)
LEMMA EndRow ==
    ASSUME NEW j \in Jobs, NEW r, NEW ls, NEW e \in LeaseEnd \ {"held"}, NEW r2 \in Life,
           NEW m, m = [ls EXCEPT ![Len(ls)] = e],
           RowOK(j, r, ls), r.status \in Held,
           r2.attempt = r.attempt,
           r2.status \in IsTerminal \cup {"RETRY_WAIT"},
           r2.status = "RETRY_WAIT" =>
              /\ r2.token = NoToken
              /\ r.attempt < MaxAttempts[j]
              /\ e = "handed_back" \/ j \in RetrySafe,
           r2.token # NoToken =>
              /\ r2.token = r.token
              /\ e \in {"finished", "expired"}
              /\ r2.status = StatusAfter(r2.fingerprint)
    PROVE  RowOK(j, r2, m)
  <1>1. ls \in Seq(LeaseEnd) /\ Len(ls) # 0 /\ e \in LeaseEnd
    BY DEF RowOK
  <1>2. /\ m \in Seq(LeaseEnd)
        /\ Len(m) = Len(ls)
        /\ m[Len(ls)] = e
        /\ \A t \in 1 .. Len(ls) : t < Len(ls) => m[t] = ls[t]
    BY <1>1, EndLast
  <1> QED
    BY <1>1, <1>2, MaxAttemptsAssumption
       DEF RowOK, Waiting, Held, IsTerminal, NoToken
(* While a job is not terminal, all it acknowledged was handed back; an    *)
(* ended lease stays as it ended, so these acknowledgements stand whatever *)
(* the row becomes.                                                        *)
LEMMA AckKept ==
    ASSUME NEW a, NEW r, NEW ls, NEW r2, NEW m,
           AckOK(a, r, ls), r.status \notin IsTerminal,
           Len(ls) \in Nat, Len(m) \in Nat, Len(ls) <= Len(m),
           \A t \in 1 .. Len(ls) : ls[t] # "held" => m[t] = ls[t]
    PROVE  AckOK(a, r2, m)
  BY DEF AckOK

(* A completion leads to a status of the job that is terminal.             *)
LEMMA FinalStatus ==
    ASSUME NEW o \in Outcomes
    PROVE  StatusAfter(o) \in IsTerminal /\ StatusAfter(o) \in JobStatus
  BY DEF Outcomes, CompletionStatus, StatusAfter, IsTerminal, JobStatus

-----------------------------------------------------------------------------
(* A step that changes one job keeps the invariant if the new row is       *)
(* consistent, the acknowledgements of that job survive, and at most one   *)
(* acknowledgement is added, which agrees with the earlier ones.           *)
LEMMA OneJobStep ==
    ASSUME IndInv, NEW j \in Jobs,
           DOMAIN life' = Jobs, DOMAIN leases' = Jobs,
           life' = [k \in Jobs |-> life'[k]], leases' = [k \in Jobs |-> leases'[k]],
           \A k \in Jobs : k # j => life'[k] = life[k] /\ leases'[k] = leases[k],
           RowOK(j, life'[j], leases'[j]),
           \A a \in acked : a.job = j => AckOK(a, life'[j], leases'[j]),
           \/ acked' = acked
           \/ \E b \in Ack :
                /\ acked' = acked \cup {b}
                /\ b.job = j
                /\ AckOK(b, life'[j], leases'[j])
                /\ \A a \in acked : a.job = j /\ a.token = b.token => a.outcome = b.outcome
    PROVE  IndInv'
  <1>1. \A k \in Jobs : RowOK(k, life'[k], leases'[k])
    BY DEF IndInv
  <1>2. life' \in [Jobs -> Life] /\ leases' \in [Jobs -> Seq(LeaseEnd)]
    BY <1>1 DEF RowOK
  <1>3. acked' \subseteq Ack
    BY DEF IndInv, TypeOK
  <1>4. \A a \in acked : a \in Ack /\ a.job \in Jobs
    BY DEF IndInv, TypeOK, Ack
  <1>5. \A a \in acked : AckOK(a, life'[a.job], leases'[a.job])
    BY <1>4 DEF IndInv
  <1>6. \A a \in acked' : AckOK(a, life'[a.job], leases'[a.job])
    BY <1>5
  <1>7. OneVerdictPerLease'
    BY DEF IndInv, OneVerdictPerLease
  <1> QED
    BY <1>1, <1>2, <1>3, <1>6, <1>7 DEF IndInv, TypeOK

(* The lease histories as EndLease leaves them, for one job.               *)
LEMMA EndLeaseAt ==
    ASSUME NEW j \in Jobs, NEW e \in LeaseEnd, EndLease({j}, e)
    PROVE  /\ leases' = [k \in Jobs |-> leases'[k]]
           /\ \A k \in Jobs : k # j => leases'[k] = leases[k]
           /\ leases'[j] = [leases[j] EXCEPT ![Len(leases[j])] = e]
  BY Zenon DEF EndLease

(* Ending a held lease leaves every acknowledgement of the job standing.   *)
LEMMA AckEnd ==
    ASSUME NEW j \in Jobs, NEW a, NEW r, NEW ls, NEW r2, NEW e \in LeaseEnd,
           RowOK(j, r, ls), r.status \in Held, AckOK(a, r, ls)
    PROVE  AckOK(a, r2, [ls EXCEPT ![Len(ls)] = e]) /\ a.token # r.token
  <1> DEFINE m == [ls EXCEPT ![Len(ls)] = e]
  <1>1. ls \in Seq(LeaseEnd) /\ Len(ls) # 0 /\ ls[Len(ls)] = "held"
        /\ r.token = Len(ls) /\ r.status \notin IsTerminal
    BY DEF RowOK, Held, IsTerminal
  <1>2. Len(m) = Len(ls) /\ \A t \in 1 .. Len(ls) : t < Len(ls) => m[t] = ls[t]
    BY <1>1, EndLast
  <1> HIDE DEF m
  <1>3. \A t \in 1 .. Len(ls) : ls[t] # "held" => m[t] = ls[t]
    BY <1>1, <1>2
  <1>4. AckOK(a, r2, m)
    BY <1>1, <1>2, <1>3, AckKept
  <1>5. a.token # r.token
    BY <1>1 DEF AckOK
  <1> QED
    BY <1>4, <1>5 DEF m

(* The initial state satisfies the invariant.                              *)
LEMMA InitInv == Init => IndInv
  <1> SUFFICES ASSUME Init PROVE IndInv
    OBVIOUS
  <1>1. AbsentLife \in Life
    BY DEF AbsentLife, Life, NoToken, NoFingerprint
  <1>2. \A j \in Jobs : life[j] = AbsentLife /\ leases[j] = <<>>
    BY DEF Init
  <1>3. \A j \in Jobs : RowOK(j, AbsentLife, <<>>)
    BY <1>1, MaxAttemptsAssumption
       DEF RowOK, AbsentLife, Held, Waiting, IsTerminal, NoToken, LeaseEnd
  <1>4. TypeOK
    BY <1>1 DEF Init, TypeOK, LeaseEnd
  <1> QED
    BY <1>2, <1>3, <1>4 DEF IndInv, Init, OneVerdictPerLease

(* Enqueue preserves the invariant.                                        *)
LEMMA EnqueueInv == ASSUME IndInv, NEW j \in Jobs, Enqueue(j) PROVE IndInv'
  <1>1. life \in [Jobs -> Life] /\ leases \in [Jobs -> Seq(LeaseEnd)]
    BY DEF IndInv, TypeOK
  <1>2. life' = [life EXCEPT ![j] = [AbsentLife EXCEPT !.status = "QUEUED"]]
    BY DEF Enqueue
  <1>3. /\ "QUEUED" \in JobStatus \cup {"ABSENT"}
        /\ AbsentLife \in Life
        /\ AbsentLife.attempt = 0
        /\ AbsentLife.token = NoToken
    BY DEF JobStatus, Life, AbsentLife, NoToken
  <1>4. /\ life' = [k \in Jobs |-> life'[k]]
        /\ \A k \in Jobs : k # j => life'[k] = life[k]
        /\ life'[j] \in Life
        /\ life'[j].status = "QUEUED"
        /\ life'[j].attempt = 0
        /\ life'[j].token = NoToken
    BY <1>1, <1>2, <1>3, Zenon DEF Life
  <1>5. leases' = leases /\ acked' = acked /\ life[j].status = "ABSENT"
    BY DEF Enqueue
  <1>6. RowOK(j, life[j], leases[j])
    BY DEF IndInv
  <1>7. RowOK(j, life'[j], leases'[j])
    BY <1>4, <1>5, <1>6 DEF RowOK, Waiting, Held, IsTerminal, NoToken
  <1>8. \A a \in acked : a.job = j => AckOK(a, life'[j], leases'[j])
    BY <1>5, <1>6 DEF IndInv, AckOK, RowOK
  <1> QED
    BY <1>1, <1>4, <1>5, <1>7, <1>8, OneJobStep

(* A grant preserves the invariant.                                        *)
LEMMA ClaimInv == ASSUME IndInv, NEW j \in Jobs, Claim(j) PROVE IndInv'
  <1>1. life \in [Jobs -> Life] /\ leases \in [Jobs -> Seq(LeaseEnd)]
    BY DEF IndInv, TypeOK
  <1>2. life' = [life EXCEPT ![j].status = "LEASED", ![j].attempt = @ + 1,
                             ![j].token = Len(leases[j]) + 1]
    BY DEF Claim
  <1>3. /\ "LEASED" \in JobStatus \cup {"ABSENT"}
        /\ life[j].attempt + 1 \in Nat
        /\ Len(leases[j]) + 1 \in Nat
    BY <1>1 DEF JobStatus, Life
  <1>4. /\ life' = [k \in Jobs |-> life'[k]]
        /\ \A k \in Jobs : k # j => life'[k] = life[k]
        /\ life'[j] \in Life
        /\ life'[j].status = "LEASED"
        /\ life'[j].attempt = life[j].attempt + 1
        /\ life'[j].token = Len(leases[j]) + 1
    BY <1>1, <1>2, <1>3, Zenon DEF Life
  <1>5. /\ leases' = [k \in Jobs |-> leases'[k]]
        /\ \A k \in Jobs : k # j => leases'[k] = leases[k]
        /\ leases'[j] = Append(leases[j], "held")
        /\ acked' = acked
        /\ life[j].status \in Waiting
    BY <1>1 DEF Claim
  <1>6. RowOK(j, life[j], leases[j])
    BY DEF IndInv
  <1>7. RowOK(j, life'[j], leases'[j])
    BY <1>4, <1>5, <1>6, ClaimRow
  <1>8. \A a \in acked : a.job = j => AckOK(a, life'[j], leases'[j])
    <2>1. /\ leases'[j] \in Seq(LeaseEnd)
          /\ Len(leases'[j]) = Len(leases[j]) + 1
          /\ \A t \in 1 .. Len(leases[j]) : leases'[j][t] = leases[j][t]
      BY <1>1, <1>5, GrantLast
    <2>2. life[j].status \notin IsTerminal
      BY <1>5 DEF Waiting, IsTerminal
    <2> QED
      BY <1>1, <2>1, <2>2, AckKept DEF IndInv
  <1> QED
    BY <1>4, <1>5, <1>7, <1>8, OneJobStep

(* A cancel request preserves the invariant.                               *)
LEMMA RequestCancelInv == ASSUME IndInv, NEW j \in Jobs, RequestCancel(j) PROVE IndInv'
  <1> DEFINE s == IF life[j].status = "LEASED" THEN "CANCEL_REQUESTED" ELSE "CANCELLED"
  <1>1. life \in [Jobs -> Life] /\ leases \in [Jobs -> Seq(LeaseEnd)]
    BY DEF IndInv, TypeOK
  <1>2. life' = [life EXCEPT ![j].status = s]
    BY DEF RequestCancel
  <1>3. s \in JobStatus \cup {"ABSENT"}
    BY DEF JobStatus
  <1>4. /\ life[j].status \in Waiting \cup {"LEASED"}
        /\ leases' = leases /\ acked' = acked
        /\ \/ life[j].status = "LEASED" /\ s = "CANCEL_REQUESTED"
           \/ life[j].status \in Waiting /\ s = "CANCELLED"
    BY DEF RequestCancel, Waiting
  <1> HIDE DEF s
  <1>5. /\ life' = [k \in Jobs |-> life'[k]]
        /\ \A k \in Jobs : k # j => life'[k] = life[k]
        /\ life'[j] \in Life
        /\ life'[j].status = s
        /\ life'[j].attempt = life[j].attempt
        /\ life'[j].token = life[j].token
    BY <1>1, <1>2, <1>3, Zenon DEF Life
  <1>6. RowOK(j, life[j], leases[j])
    BY DEF IndInv
  <1>7. RowOK(j, life'[j], leases'[j])
    BY <1>4, <1>5, <1>6 DEF RowOK, Waiting, Held, IsTerminal, NoToken
  <1>8. \A a \in acked : a.job = j => AckOK(a, life'[j], leases'[j])
    <2>1. life[j].status \notin IsTerminal /\ Len(leases[j]) \in Nat
      BY <1>1, <1>4 DEF IsTerminal, Waiting
    <2> QED
      BY <1>4, <2>1, AckKept DEF IndInv
  <1> QED
    BY <1>1, <1>4, <1>5, <1>7, <1>8, OneJobStep

(* Handing a lease back preserves the invariant.                           *)
LEMMA HandBackInv ==
    ASSUME IndInv, NEW j \in Jobs, NEW o \in Outcomes, HandBack(j, o) PROVE IndInv'
  <1> DEFINE b == [job |-> j, token |-> life[j].token, outcome |-> o]
  <1>1. life \in [Jobs -> Life] /\ leases \in [Jobs -> Seq(LeaseEnd)]
    BY DEF IndInv, TypeOK
  <1>2. /\ life' = [life EXCEPT ![j].status = "RETRY_WAIT", ![j].token = NoToken]
        /\ EndLease({j}, "handed_back")
        /\ acked' = acked \cup {b}
        /\ life[j].status \in Held
        /\ life[j].attempt < MaxAttempts[j]
    BY DEF HandBack, Acknowledge, HandsBack
  <1>3. /\ "RETRY_WAIT" \in JobStatus \cup {"ABSENT"}
        /\ NoToken \in Nat
        /\ "handed_back" \in LeaseEnd \ {"held"}
    BY DEF JobStatus, NoToken, LeaseEnd
  <1>4. /\ life' = [k \in Jobs |-> life'[k]]
        /\ \A k \in Jobs : k # j => life'[k] = life[k]
        /\ life'[j] \in Life
        /\ life'[j].status = "RETRY_WAIT"
        /\ life'[j].attempt = life[j].attempt
        /\ life'[j].token = NoToken
    BY <1>1, <1>2, <1>3, Zenon DEF Life
  <1>5. /\ leases' = [k \in Jobs |-> leases'[k]]
        /\ \A k \in Jobs : k # j => leases'[k] = leases[k]
        /\ leases'[j] = [leases[j] EXCEPT ![Len(leases[j])] = "handed_back"]
    BY <1>2, <1>3, EndLeaseAt
  <1>6. RowOK(j, life[j], leases[j])
    BY DEF IndInv
  <1>7. RowOK(j, life'[j], leases'[j])
    BY <1>2, <1>3, <1>4, <1>5, <1>6, EndRow
  <1>8. \A a \in acked : a.job = j =>
           AckOK(a, life'[j], leases'[j]) /\ a.token # life[j].token
    BY <1>2, <1>3, <1>5, <1>6, AckEnd DEF IndInv
  <1>9. b \in Ack /\ b.job = j /\ b.token = life[j].token
    BY <1>1 DEF Ack, Life
  <1>10. AckOK(b, life'[j], leases'[j])
    <2>1. /\ Len(leases[j]) \in 1 .. Len(leases'[j])
          /\ leases'[j][Len(leases[j])] = "handed_back"
          /\ life[j].token = Len(leases[j])
      BY <1>1, <1>2, <1>3, <1>5, <1>6, EndLast DEF RowOK
    <2> QED
      BY <1>9, <2>1 DEF AckOK
  <1>11. \E c \in Ack :
            /\ acked' = acked \cup {c}
            /\ c.job = j
            /\ AckOK(c, life'[j], leases'[j])
            /\ \A a \in acked : a.job = j /\ a.token = c.token => a.outcome = c.outcome
    BY <1>2, <1>8, <1>9, <1>10
  <1> QED
    BY <1>4, <1>5, <1>7, <1>8, <1>11, OneJobStep

(* A final completion preserves the invariant.                             *)
LEMMA FinishInv ==
    ASSUME IndInv, NEW j \in Jobs, NEW o \in Outcomes, Finish(j, o) PROVE IndInv'
  <1> DEFINE b == [job |-> j, token |-> life[j].token, outcome |-> o]
  <1>1. life \in [Jobs -> Life] /\ leases \in [Jobs -> Seq(LeaseEnd)]
    BY DEF IndInv, TypeOK
  <1>2. /\ life' = [life EXCEPT ![j].status = StatusAfter(o), ![j].fingerprint = o]
        /\ EndLease({j}, "finished")
        /\ acked' = acked \cup {b}
        /\ life[j].status \in Held
    BY DEF Finish, Acknowledge
  <1>3. /\ StatusAfter(o) \in IsTerminal
        /\ StatusAfter(o) \in JobStatus \cup {"ABSENT"}
        /\ "finished" \in LeaseEnd \ {"held"}
    BY FinalStatus DEF LeaseEnd
  <1>4. /\ life' = [k \in Jobs |-> life'[k]]
        /\ \A k \in Jobs : k # j => life'[k] = life[k]
        /\ life'[j] \in Life
        /\ life'[j].status = StatusAfter(o)
        /\ life'[j].attempt = life[j].attempt
        /\ life'[j].token = life[j].token
        /\ life'[j].fingerprint = o
    BY <1>1, <1>2, <1>3, Zenon DEF Life
  <1>5. /\ leases' = [k \in Jobs |-> leases'[k]]
        /\ \A k \in Jobs : k # j => leases'[k] = leases[k]
        /\ leases'[j] = [leases[j] EXCEPT ![Len(leases[j])] = "finished"]
    BY <1>2, <1>3, EndLeaseAt
  <1>6. RowOK(j, life[j], leases[j])
    BY DEF IndInv
  <1>7. RowOK(j, life'[j], leases'[j])
    <2>1. /\ life'[j].status \in IsTerminal \cup {"RETRY_WAIT"}
          /\ life'[j].status # "RETRY_WAIT"
          /\ life'[j].status = StatusAfter(life'[j].fingerprint)
          /\ "finished" \in {"finished", "expired"}
      BY <1>3, <1>4 DEF IsTerminal
    <2> QED
      BY <1>2, <1>3, <1>4, <1>5, <1>6, <2>1, EndRow
  <1>8. \A a \in acked : a.job = j =>
           AckOK(a, life'[j], leases'[j]) /\ a.token # life[j].token
    BY <1>2, <1>3, <1>5, <1>6, AckEnd DEF IndInv
  <1>9. b \in Ack /\ b.job = j /\ b.token = life[j].token /\ b.outcome = o
    BY <1>1 DEF Ack, Life
  <1>10. AckOK(b, life'[j], leases'[j])
    <2>1. /\ Len(leases[j]) \in 1 .. Len(leases'[j])
          /\ leases'[j][Len(leases[j])] = "finished"
          /\ life[j].token = Len(leases[j])
      BY <1>1, <1>2, <1>3, <1>5, <1>6, EndLast DEF RowOK
    <2> QED
      BY <1>3, <1>4, <1>9, <2>1 DEF AckOK
  <1>11. \E c \in Ack :
            /\ acked' = acked \cup {c}
            /\ c.job = j
            /\ AckOK(c, life'[j], leases'[j])
            /\ \A a \in acked : a.job = j /\ a.token = c.token => a.outcome = c.outcome
    BY <1>2, <1>8, <1>9, <1>10
  <1> QED
    BY <1>4, <1>5, <1>7, <1>8, <1>11, OneJobStep

(* Acknowledging the recorded completion again preserves the invariant.    *)
LEMMA ReacknowledgeInv ==
    ASSUME IndInv, NEW j \in Jobs, NEW o \in Outcomes, Reacknowledge(j, o) PROVE IndInv'
  <1> DEFINE b == [job |-> j, token |-> life[j].token, outcome |-> o]
  <1>1. life \in [Jobs -> Life] /\ leases \in [Jobs -> Seq(LeaseEnd)]
    BY DEF IndInv, TypeOK
  <1>2. /\ life' = life /\ leases' = leases
        /\ acked' = acked \cup {b}
        /\ life[j].status \in IsTerminal
        /\ life[j].token # NoToken
        /\ life[j].fingerprint = o
    BY DEF Reacknowledge, Acknowledge
  <1>3. RowOK(j, life[j], leases[j])
    BY DEF IndInv
  <1>4. b \in Ack /\ b.job = j /\ b.token = life[j].token /\ b.outcome = o
    BY <1>1 DEF Ack, Life
  <1>5. /\ life[j].token \in 1 .. Len(leases[j])
        /\ leases[j][life[j].token] \in {"finished", "expired"}
    BY <1>1, <1>2, <1>3 DEF RowOK
  <1>6. \A a \in acked : a.job = j =>
           /\ AckOK(a, life[j], leases[j])
           /\ a.token = b.token => a.outcome = o
    BY <1>2, <1>4, <1>5 DEF IndInv, AckOK
  <1>7. AckOK(b, life[j], leases[j])
    BY <1>2, <1>3, <1>4, <1>5 DEF AckOK, RowOK
  <1>8. \E c \in Ack :
           /\ acked' = acked \cup {c}
           /\ c.job = j
           /\ AckOK(c, life'[j], leases'[j])
           /\ \A a \in acked : a.job = j /\ a.token = c.token => a.outcome = c.outcome
    BY <1>2, <1>4, <1>6, <1>7
  <1> QED
    BY <1>1, <1>2, <1>3, <1>6, <1>8, OneJobStep

(* Resolving an expired lease as a success preserves the invariant.        *)
LEMMA ResolveSuccessInv ==
    ASSUME IndInv, NEW j \in Jobs, NEW x \in Results, ResolveSuccess(j, x) PROVE IndInv'
  <1> DEFINE o == [status |-> "SUCCEEDED", result |-> x]
  <1>1. life \in [Jobs -> Life] /\ leases \in [Jobs -> Seq(LeaseEnd)]
    BY DEF IndInv, TypeOK
  <1>2. /\ life' = [life EXCEPT ![j].status = "SUCCEEDED", ![j].fingerprint = o]
        /\ EndLease({j}, "expired")
        /\ acked' = acked
        /\ life[j].status \in Held
    BY DEF ResolveSuccess
  <1>3. /\ "SUCCEEDED" \in JobStatus \cup {"ABSENT"}
        /\ "SUCCEEDED" \in IsTerminal
        /\ o \in Outcomes
        /\ StatusAfter(o) = "SUCCEEDED"
        /\ "expired" \in LeaseEnd \ {"held"}
    BY DEF JobStatus, IsTerminal, Outcomes, CompletionStatus, StatusAfter, LeaseEnd
  <1> HIDE DEF o
  <1>4. /\ life' = [k \in Jobs |-> life'[k]]
        /\ \A k \in Jobs : k # j => life'[k] = life[k]
        /\ life'[j] \in Life
        /\ life'[j].status = "SUCCEEDED"
        /\ life'[j].attempt = life[j].attempt
        /\ life'[j].token = life[j].token
        /\ life'[j].fingerprint = o
    BY <1>1, <1>2, <1>3, Zenon DEF Life
  <1>5. /\ leases' = [k \in Jobs |-> leases'[k]]
        /\ \A k \in Jobs : k # j => leases'[k] = leases[k]
        /\ leases'[j] = [leases[j] EXCEPT ![Len(leases[j])] = "expired"]
    BY <1>2, <1>3, EndLeaseAt
  <1>6. RowOK(j, life[j], leases[j])
    BY DEF IndInv
  <1>7. RowOK(j, life'[j], leases'[j])
    <2>1. /\ life'[j].status \in IsTerminal \cup {"RETRY_WAIT"}
          /\ life'[j].status # "RETRY_WAIT"
          /\ life'[j].status = StatusAfter(life'[j].fingerprint)
          /\ "expired" \in {"finished", "expired"}
      BY <1>3, <1>4
    <2> QED
      BY <1>2, <1>3, <1>4, <1>5, <1>6, <2>1, EndRow
  <1>8. \A a \in acked : a.job = j => AckOK(a, life'[j], leases'[j])
    BY <1>2, <1>3, <1>5, <1>6, AckEnd DEF IndInv
  <1> QED
    BY <1>2, <1>4, <1>5, <1>7, <1>8, OneJobStep

(* The expiry of any set of leases preserves the invariant.                *)
LEMMA ExpireInv == ASSUME IndInv, NEW S \in SUBSET Jobs, Expire(S) PROVE IndInv'
  <1> DEFINE s(k) == IF RetriedAfterExpiry(k, life[k].status, life[k].attempt)
                     THEN "RETRY_WAIT" ELSE "NEEDS_ATTENTION"
             e == "expired"
  <1>1. life \in [Jobs -> Life] /\ leases \in [Jobs -> Seq(LeaseEnd)]
    BY DEF IndInv, TypeOK
  <1>2. /\ life' = [k \in Jobs |->
                      IF k \in S THEN [life[k] EXCEPT !.status = s(k), !.token = NoToken]
                                 ELSE life[k]]
        /\ leases' = [k \in Jobs |->
                        IF k \in S THEN [leases[k] EXCEPT ![Len(leases[k])] = e]
                                   ELSE leases[k]]
        /\ acked' = acked
        /\ \A k \in S : life[k].status \in Held
    BY Zenon DEF Expire, EndLease
  <1>3. \A k \in S : /\ s(k) \in JobStatus \cup {"ABSENT"}
                     /\ s(k) \in IsTerminal \cup {"RETRY_WAIT"}
                     /\ s(k) = "RETRY_WAIT" =>
                           k \in RetrySafe /\ life[k].attempt < MaxAttempts[k]
    BY DEF JobStatus, IsTerminal, RetriedAfterExpiry
  <1>4. NoToken \in Nat /\ e \in LeaseEnd \ {"held"}
    BY DEF NoToken, LeaseEnd
  <1> HIDE DEF s, e
  <1>5. \A k \in Jobs \ S : life'[k] = life[k] /\ leases'[k] = leases[k]
    BY <1>2, Zenon
  <1>6. ASSUME NEW k \in S
        PROVE  /\ life'[k] \in Life
               /\ life'[k].status = s(k)
               /\ life'[k].attempt = life[k].attempt
               /\ life'[k].token = NoToken
               /\ leases'[k] = [leases[k] EXCEPT ![Len(leases[k])] = e]
    <2>1. life'[k] = [life[k] EXCEPT !.status = s(k), !.token = NoToken]
      BY <1>2, Zenon
    <2> QED
      BY <1>1, <1>2, <1>3, <1>4, <2>1, Zenon DEF Life
  <1>7. ASSUME NEW k \in Jobs PROVE RowOK(k, life'[k], leases'[k])
    <2>1. RowOK(k, life[k], leases[k])
      BY DEF IndInv
    <2>2. CASE k \notin S
      BY <1>5, <2>1, <2>2
    <2>3. CASE k \in S
      <3>1. /\ life[k].status \in Held
            /\ life'[k] \in Life
            /\ life'[k].attempt = life[k].attempt
            /\ life'[k].token = NoToken
            /\ life'[k].status \in IsTerminal \cup {"RETRY_WAIT"}
            /\ life'[k].status = "RETRY_WAIT" =>
                  k \in RetrySafe /\ life[k].attempt < MaxAttempts[k]
        BY <1>2, <1>3, <1>6, <2>3
      <3>2. leases'[k] = [leases[k] EXCEPT ![Len(leases[k])] = e]
        BY <1>6, <2>3
      <3> QED
        BY <1>4, <2>1, <3>1, <3>2, EndRow
    <2> QED
      BY <2>2, <2>3
  <1>8. ASSUME NEW a \in acked PROVE AckOK(a, life'[a.job], leases'[a.job])
    <2>1. a.job \in Jobs /\ AckOK(a, life[a.job], leases[a.job])
      BY DEF IndInv, TypeOK, Ack
    <2>2. RowOK(a.job, life[a.job], leases[a.job])
      BY <2>1 DEF IndInv
    <2>3. CASE a.job \notin S
      BY <1>5, <2>1, <2>3
    <2>4. CASE a.job \in S
      <3>1. life[a.job].status \in Held /\ e \in LeaseEnd
        BY <1>2, <1>4, <2>4
      <3>2. leases'[a.job] = [leases[a.job] EXCEPT ![Len(leases[a.job])] = e]
        BY <1>6, <2>4
      <3> QED
        BY <2>1, <2>2, <3>1, <3>2, AckEnd
    <2> QED
      BY <2>3, <2>4
  <1>9. life' \in [Jobs -> Life] /\ leases' \in [Jobs -> Seq(LeaseEnd)]
    <2>1. /\ life' = [k \in Jobs |-> life'[k]]
          /\ leases' = [k \in Jobs |-> leases'[k]]
      BY <1>2, Zenon
    <2> QED
      BY <1>7, <2>1 DEF RowOK
  <1> QED
    BY <1>2, <1>7, <1>8, <1>9 DEF IndInv, TypeOK, OneVerdictPerLease

(* Every step of the life cycle preserves the invariant.                   *)
LEMMA NextInv == IndInv /\ [Next]_vars => IndInv'
  <1> SUFFICES ASSUME IndInv, [Next]_vars PROVE IndInv'
    OBVIOUS
  <1>1. CASE UNCHANGED vars
    BY <1>1 DEF vars, IndInv, TypeOK, OneVerdictPerLease
  <1>2. ASSUME NEW j \in Jobs, Enqueue(j) \/ Claim(j) \/ RequestCancel(j)
        PROVE  IndInv'
    BY <1>2, EnqueueInv, ClaimInv, RequestCancelInv
  <1>3. ASSUME NEW j \in Jobs, NEW o \in Outcomes,
               HandBack(j, o) \/ Finish(j, o) \/ Reacknowledge(j, o)
        PROVE  IndInv'
    BY <1>3, HandBackInv, FinishInv, ReacknowledgeInv
  <1>4. ASSUME NEW j \in Jobs, NEW x \in Results, ResolveSuccess(j, x)
        PROVE  IndInv'
    BY <1>4, ResolveSuccessInv
  <1>5. ASSUME NEW S \in SUBSET Jobs, Expire(S) PROVE IndInv'
    BY <1>5, ExpireInv
  <1> QED
    BY <1>1, <1>2, <1>3, <1>4, <1>5 DEF Next

-----------------------------------------------------------------------------
(* The invariant implies the properties.                                   *)
LEMMA IndInvImplies ==
    ASSUME IndInv
    PROVE  /\ SingleHolder
           /\ NoBlindRerun
           /\ AttemptBudget
           /\ AckedOutcomeStands
  <1>1. \A j \in Jobs : RowOK(j, life[j], leases[j])
    BY DEF IndInv
  <1>2. SingleHolder
    <2> SUFFICES ASSUME NEW j \in Jobs
                 PROVE  /\ \A t \in 1 .. Len(leases[j]) :
                             leases[j][t] = "held" <=>
                                t = Len(leases[j]) /\ life[j].status \in Held
                        /\ life[j].status \in Held =>
                             life[j].token = Len(leases[j]) /\ life[j].token # NoToken
      BY DEF SingleHolder
    <2> QED
      BY <1>1 DEF RowOK, NoToken
  <1>3. NoBlindRerun
    BY <1>1 DEF NoBlindRerun, RowOK
  <1>4. AttemptBudget
    BY <1>1 DEF AttemptBudget, RowOK
  <1>5. AckedOutcomeStands
    BY DEF AckedOutcomeStands, IndInv, AckOK
  <1> QED
    BY <1>2, <1>3, <1>4, <1>5

(* The job life cycle keeps its type invariant and has one holder per job, *)
(* no blind rerun, a bounded number of grants, and acknowledged outcomes   *)
(* that stand.                                                             *)
THEOREM Safety ==
    Spec => [](/\ TypeOK /\ SingleHolder /\ NoBlindRerun /\ AttemptBudget
               /\ AckedOutcomeStands /\ OneVerdictPerLease)
  <1>1. Spec => []IndInv
    BY InitInv, NextInv, PTL DEF Spec
  <1>2. IndInv => /\ TypeOK /\ SingleHolder /\ NoBlindRerun /\ AttemptBudget
                  /\ AckedOutcomeStands /\ OneVerdictPerLease
    BY IndInvImplies DEF IndInv
  <1> QED
    BY <1>1, <1>2, PTL

(* No step changes a terminal job.                                         *)
LEMMA TerminalStep ==
    ASSUME [Next]_vars, life \in [Jobs -> Life], NEW k \in Jobs, life[k].status \in IsTerminal
    PROVE  life'[k] = life[k]
  <1>1. CASE UNCHANGED vars
    BY <1>1 DEF vars
  <1>2. ASSUME NEW j \in Jobs, Enqueue(j) \/ Claim(j) \/ RequestCancel(j)
        PROVE  life'[k] = life[k]
    <2>1. j # k
      BY <1>2 DEF Enqueue, Claim, RequestCancel, Waiting, IsTerminal
    <2> QED
      BY <1>2, <2>1, Zenon DEF Enqueue, Claim, RequestCancel
  <1>3. ASSUME NEW j \in Jobs, NEW o \in Outcomes,
               HandBack(j, o) \/ Finish(j, o) \/ Reacknowledge(j, o)
        PROVE  life'[k] = life[k]
    <2>1. CASE Reacknowledge(j, o)
      BY <2>1 DEF Reacknowledge
    <2>2. CASE HandBack(j, o) \/ Finish(j, o)
      <3>1. j # k
        BY <2>2 DEF HandBack, Finish, Held, IsTerminal
      <3> QED
        BY <2>2, <3>1, Zenon DEF HandBack, Finish
    <2> QED
      BY <1>3, <2>1, <2>2
  <1>4. ASSUME NEW j \in Jobs, NEW x \in Results, ResolveSuccess(j, x)
        PROVE  life'[k] = life[k]
    <2>1. j # k
      BY <1>4 DEF ResolveSuccess, Held, IsTerminal
    <2> QED
      BY <1>4, <2>1, Zenon DEF ResolveSuccess
  <1>5. ASSUME NEW S \in SUBSET Jobs, Expire(S) PROVE life'[k] = life[k]
    <2>1. k \notin S
      BY <1>5 DEF Expire, Held, IsTerminal
    <2> QED
      BY <1>5, <2>1, Zenon DEF Expire
  <1> QED
    BY <1>1, <1>2, <1>3, <1>4, <1>5 DEF Next

(* Once terminal, always the same: status, attempt, token and fingerprint  *)
(* of a terminal job never change again.                                   *)
THEOREM Finality == Spec => TerminalIsFinal
  <1>1. Spec => []TypeOK
    BY Safety, PTL
  <1>2. TypeOK /\ [Next]_vars =>
           [\A j \in Jobs : life[j].status \in IsTerminal => life'[j] = life[j]]_vars
    BY TerminalStep DEF TypeOK
  <1> QED
    BY <1>1, <1>2, PTL DEF Spec, TerminalIsFinal

=============================================================================
