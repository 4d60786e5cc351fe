------------------------------- MODULE Outbox -------------------------------
(***************************************************************************)
(* internal/persistence/outbox.go on top of the fill ledger: the leases,   *)
(* retries and terminal states of the order_outbox rows that ObserveFill   *)
(* creates, used by dispatch workers that may be slow or crash.            *)
(*                                                                         *)
(* The store's mutex makes every operation one atomic step.  Time is       *)
(* relative: a lease is "none" (lease_until 0), "live" (lease_until in the *)
(* future) or "lapsed", and "due" says that next_attempt_at has passed.    *)
(* The workers and the exchange are external (src/ has no dispatch loop):  *)
(* a worker claims, sends under the intent's deterministic client order    *)
(* id, and reports with CompleteOutbox, FailOutbox or ScheduleRetry.       *)
(* Nothing ties it to its lease of ten seconds: the lease may lapse at any *)
(* time, the row may be given to another worker, and the first one reports *)
(* all the same.  The reports test neither status nor owner nor lease.     *)
(***************************************************************************)
EXTENDS FillLedger

CONSTANTS
    Workers,
    MaxAttempts,    \* bound on retries: the worker then fails the entry
    MaxCrashes      \* bound on worker crashes

ASSUME OutboxAssumption ==
    /\ "none" \notin Workers
    /\ MaxAttempts \in Nat
    /\ MaxCrashes \in Nat

VARIABLES
    job,        \* per worker: the outbox key it works on, or <<>>
    result,     \* per worker: what it knows of the request it sent
    placed,     \* external: client order ids the exchange has accepted
    crashes     \* crashes so far

outboxVars == <<job, result, placed, crashes>>
vars == <<ledgerVars, outboxVars>>

OutboxRows ==
    [status : OutboxStatuses, owner : Workers \cup {"none"},
     lease : {"none", "live", "lapsed"}, due : BOOLEAN, attempts : 0..MaxAttempts]

Results == {"none", "accepted", "rejected", "unknown"}

\* A worker's statements about rows that exist.
Holds(w, k) == job[w] = k
Idle(w) == job[w] = <<>>

OutboxInit ==
    /\ Init
    /\ job = [w \in Workers |-> <<>>]
    /\ result = [w \in Workers |-> "none"]
    /\ placed = {}
    /\ crashes = 0

-----------------------------------------------------------------------------
\* The operations of SQLiteStore on rows.

\* The WHERE clause of ClaimOutbox.  ORDER BY next_attempt_at LIMIT 1 picks
\* one of the rows that qualify.
Claimable(row) ==
    /\ row.status \in {"pending", "uncertain"}
    /\ row.due
    /\ row.lease # "live" \/ row.owner = "none"

Leased(row, w) == [row EXCEPT !.status = "leased", !.owner = w, !.lease = "live"]

\* Mutant: the lease is not looked at.
ExpiredNoLease(row) == row.status = "leased"

\* Mutant: the wrong status is looked for.
ExpiredUncertain(row) == row.status = "uncertain" /\ row.lease = "lapsed"

\* The WHERE clause and the SET clause of RecoverExpiredLeases.
Expired(row) == row.status = "leased" /\ row.lease = "lapsed"

Recovered(row) == [row EXCEPT !.status = "pending", !.owner = "none", !.lease = "none"]

\* ScheduleRetry: no condition on the row's status, owner or lease.
Retried(row) ==
    [row EXCEPT !.status = "uncertain", !.owner = "none", !.lease = "none",
                !.due = FALSE, !.attempts = @ + 1]

SetRow(k, row) == outbox' = [outbox EXCEPT ![k] = row]

\* ClaimOutbox commits.  "told" is FALSE when the COMMIT is reported as
\* uncertain although it was applied: nobody works on the leased row.
ClaimOutbox(w, k, told) ==
    /\ Idle(w)
    /\ k \in DOMAIN outbox
    /\ Claimable(outbox[k])
    /\ SetRow(k, Leased(outbox[k], w))
    /\ IF told
         THEN job' = [job EXCEPT ![w] = k] /\ UNCHANGED crashes
         ELSE crashes < MaxCrashes /\ crashes' = crashes + 1 /\ UNCHANGED job
    /\ UNCHANGED <<executed, ledger, watermark, position, intents, result, placed>>

\* RecoverExpiredLeases: one UPDATE over every row whose lease has expired.
RecoverExpiredLeases ==
    /\ \E k \in DOMAIN outbox : Expired(outbox[k])
    /\ outbox' = [k \in DOMAIN outbox |->
                     IF Expired(outbox[k]) THEN Recovered(outbox[k]) ELSE outbox[k]]
    /\ UNCHANGED <<executed, ledger, watermark, position, intents, outboxVars>>

\* The worker has reported and is idle again.
Report(w) ==
    /\ job' = [job EXCEPT ![w] = <<>>]
    /\ result' = [result EXCEPT ![w] = "none"]
    /\ UNCHANGED <<executed, ledger, watermark, position, placed, crashes>>

\* Mutant: the intent is left as it was.
SettleRowOnly(k, rowStatus, intentStatus) ==
    /\ SetRow(k, [outbox[k] EXCEPT !.status = rowStatus])
    /\ UNCHANGED intents

\* CompleteOutbox and FailOutbox end the row and its intent in one
\* transaction; the lease columns keep their values.
Settle(k, rowStatus, intentStatus) ==
    /\ SetRow(k, [outbox[k] EXCEPT !.status = rowStatus])
    /\ intents' = [intents EXCEPT ![k].status = intentStatus]

CompleteOutbox(w) ==
    /\ result[w] = "accepted"
    /\ Settle(job[w], "completed", "confirmed")
    /\ Report(w)

FailOutbox(w) ==
    /\ \/ result[w] = "rejected"
       \/ result[w] = "unknown" /\ outbox[job[w]].attempts = MaxAttempts
    /\ Settle(job[w], "failed", "safe-failure-terminal")
    /\ Report(w)

\* Mutant: the intent is put back with its row.
MutScheduleRetry(w) ==
    /\ result[w] = "unknown"
    /\ outbox[job[w]].attempts < MaxAttempts
    /\ SetRow(job[w], Retried(outbox[job[w]]))
    /\ intents' = [intents EXCEPT ![job[w]].status = "pending"]
    /\ Report(w)

ScheduleRetry(w) ==
    /\ result[w] = "unknown"
    /\ outbox[job[w]].attempts < MaxAttempts
    /\ SetRow(job[w], Retried(outbox[job[w]]))
    /\ UNCHANGED intents
    /\ Report(w)

-----------------------------------------------------------------------------
\* External steps: the exchange, the workers' lives and the clock.

\* A request under the deterministic client order id: the exchange accepts
\* an id once; the answer may be lost after or before it was accepted.
Send(w) ==
    /\ ~Idle(w) /\ result[w] = "none"
    /\ \E answer \in {"accepted", "rejected", "unknown"} :
        /\ result' = [result EXCEPT ![w] = answer]
        /\ CASE answer = "accepted" -> placed' = placed \cup {job[w]}
             [] answer = "rejected" -> job[w] \notin placed /\ UNCHANGED placed
             [] answer = "unknown" -> placed' \in {placed, placed \cup {job[w]}}
    /\ UNCHANGED <<ledgerVars, job, crashes>>

Crash(w) ==
    /\ ~Idle(w)
    /\ crashes < MaxCrashes
    /\ crashes' = crashes + 1
    /\ job' = [job EXCEPT ![w] = <<>>]
    /\ result' = [result EXCEPT ![w] = "none"]
    /\ UNCHANGED <<ledgerVars, placed>>

\* OutboxLeaseTimeout passes for a leased row, whatever its owner is doing.
LeaseLapses(k) ==
    /\ outbox[k].status = "leased" /\ outbox[k].lease = "live"
    /\ SetRow(k, [outbox[k] EXCEPT !.lease = "lapsed"])
    /\ UNCHANGED <<executed, ledger, watermark, position, intents, outboxVars>>

\* next_attempt_at passes.
BecomesDue(k) ==
    /\ ~outbox[k].due
    /\ SetRow(k, [outbox[k] EXCEPT !.due = TRUE])
    /\ UNCHANGED <<executed, ledger, watermark, position, intents, outboxVars>>

-----------------------------------------------------------------------------
LedgerStep == Next /\ UNCHANGED outboxVars

WorkerStep(w) ==
    \/ Send(w)
    \/ CompleteOutbox(w)
    \/ FailOutbox(w)
    \/ ScheduleRetry(w)

ClaimStep(w) == \E k \in DOMAIN outbox, told \in BOOLEAN : ClaimOutbox(w, k, told)

TimeStep == \E k \in DOMAIN outbox : LeaseLapses(k) \/ BecomesDue(k)

OutboxNext ==
    \/ LedgerStep
    \/ \E w \in Workers : WorkerStep(w) \/ ClaimStep(w) \/ Crash(w)
    \/ RecoverExpiredLeases
    \/ TimeStep

OutboxSpec == OutboxInit /\ [][OutboxNext]_vars

-----------------------------------------------------------------------------
\* Properties.

OutboxTypeOK ==
    /\ TypeOK
    /\ \A k \in DOMAIN outbox : outbox[k] \in OutboxRows
    /\ job \in [Workers -> DOMAIN outbox \cup {<<>>}]
    /\ result \in [Workers -> Results]
    /\ placed \subseteq DOMAIN outbox
    /\ crashes \in 0..MaxCrashes

Settled == {"completed", "failed"}

\* A worker reports on the row, or dies over it.
LetsGo(k) == \E w \in Workers : Holds(w, k) /\ job'[w] = <<>>

\* A live lease stays with its owner until some worker that was given the row
\* reports on it: neither another claim nor the recovery scan takes it away,
\* whoever still works on the row from an earlier lease (ClaimOutbox,
\* RecoverExpiredLeases, late reports).
LeaseIsRespected ==
    [][\A k \in DOMAIN outbox :
          outbox[k].status = "leased" /\ outbox[k].lease = "live" /\ ~LetsGo(k) =>
              outbox'[k].status = "leased" /\ outbox'[k].owner = outbox[k].owner]_vars

\* A row that is closed has an intent that ended the same way, however many
\* workers report on it and in whatever order, so that no counter order drops
\* out of the claims without its outcome (CompleteOutbox, FailOutbox).  The
\* converse fails: a late ScheduleRetry reopens the row of a settled intent.
ClosedRowsAgree ==
    \A k \in DOMAIN outbox :
        /\ outbox[k].status = "completed" => intents[k].status = "confirmed"
        /\ outbox[k].status = "failed" => intents[k].status = "safe-failure-terminal"

\* An intent that has ended stays ended, also when its row is reopened by a
\* late report, claimed and recovered again.
IntentsStayEnded ==
    [][\A k \in DOMAIN intents :
          intents[k].status # "pending" => intents'[k].status # "pending"]_vars

\* The row once its time has come and every lease has run out.
Later(row) ==
    [row EXCEPT !.due = TRUE,
                !.lease = IF row.lease = "live" THEN "lapsed" ELSE row.lease]

\* No open row is stranded by a dead worker, an uncertain COMMIT or a late
\* report: after some time it can be claimed, at the latest once the recovery
\* scan has run (ClaimOutbox's and RecoverExpiredLeases' conditions fit
\* together).  That somebody claims and scans is not promised by src/.
NoRowIsStranded ==
    \A k \in DOMAIN outbox :
        outbox[k].status \notin Settled =>
            LET row == Later(outbox[k])
            IN  Claimable(row) \/ (Expired(row) /\ Claimable(Recovered(row)))

-----------------------------------------------------------------------------
\* What the code does not keep; TLC refutes both.

\* No two workers dispatch the same row: fails when a lease lapses under a
\* worker that is slower than OutboxLeaseTimeout.
LeaseIsExclusive ==
    \A v, w \in Workers : v # w /\ ~Idle(v) => job[v] # job[w]

\* What has been settled is never reopened: fails with a late ScheduleRetry,
\* or with a late FailOutbox after a CompleteOutbox.
SettledForGood ==
    [][\A k \in DOMAIN outbox : outbox[k].status \in Settled =>
            outbox'[k] = outbox[k] /\ intents'[k] = intents[k]]_vars
=============================================================================
