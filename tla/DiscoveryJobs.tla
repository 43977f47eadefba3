--------------------------- MODULE DiscoveryJobs ---------------------------
(***************************************************************************)
(* The durable collection jobs of server/discovery/store.js: rows of       *)
(* discovery_jobs that competing processes create, claim for a bounded     *)
(* lease, renew, update, abandon and reopen, and the evidence transactions *)
(* of server/discovery/job-fence.js that may commit only under a live      *)
(* claim.                                                                  *)
(*                                                                         *)
(* One element of Owner is one attempt of one process: the string          *)
(* `worker:<pid>:<uuid>` (or coordinator:, scheduler:) that a process      *)
(* makes for itself and writes in lease_owner.  A process that ends its    *)
(* attempt and starts another takes a fresh uuid; a uuid no row and no     *)
(* statement names any more stands for the fresh one (action Respawn).     *)
(*                                                                         *)
(* Time is kept as distances, so that the state space is finite without a  *)
(* horizon: left[j] is lease_expires_at - now, age[j] is now - started_at  *)
(* and late[o] is how long ago the NOW() of a statement still waiting in   *)
(* the database was fixed.  PostgreSQL fixes NOW() when a statement        *)
(* starts, and a statement waits for the row lock of an open evidence      *)
(* transaction, so claims and heartbeats decide with a NOW() of the past;  *)
(* the fence itself reads clock_timestamp(), the present.                  *)
(***************************************************************************)
EXTENDS Integers, Sequences, FiniteSets

CONSTANTS
  Job,          \* rows of discovery_jobs, one per idempotency key
  Owner,        \* claim owners: attempts of worker, scheduler and API processes
  NoOwner,      \* lease_owner IS NULL
  NoJob,        \* an owner that has not chosen a job
  Ttl,          \* lease length granted by a claim or a renewal
  SweepAge,     \* failAbandonedJobs: how old started_at must be
  MaxLate,      \* bound: how far behind the clock a waiting statement's NOW() may be
  MaxAttempts,  \* bound: attempt_count of a row
  MaxEvidence   \* bound: evidence transactions committed for a job

ASSUME NoOwnerAssumption == NoOwner \notin Owner
ASSUME NoJobAssumption   == NoJob \notin Job
ASSUME TimeAssumption    == /\ Ttl \in Nat \ {0}
                            /\ SweepAge \in Nat \ {0}
                            /\ MaxLate \in Nat
ASSUME BoundAssumption   == /\ MaxAttempts \in Nat
                            /\ MaxEvidence \in Nat

VARIABLES
  job,      \* the row: status, owner, left, age, attempts, errors
  evidence, \* history: the attempts whose transactions committed, in order
  pc,       \* where the attempt is
  tgt,      \* the job the attempt works on
  epoch,    \* the attempt_count the claim returned
  want,     \* the status change the attempt is about to write
  seen,     \* the errors array updateJob read with getJob
  tx,       \* the attempt's evidence transaction
  stmt,     \* the statement of the attempt that waits in the database
  late      \* how long ago that statement's NOW() was fixed

rowVars  == <<job, evidence>>
planVars == <<want, seen>>
stmtVars == <<stmt, late>>
vars     == <<job, evidence, pc, tgt, epoch, want, seen, tx, stmt, late>>

-----------------------------------------------------------------------------
(* Statuses and control points.  A definition Name_Suffix is Name with a     *)
(* plausible mistake in it; it is used only to see that a property notices.  *)

Retryable_WithCompleted == {"completed", "partial", "failed"}
Retryable_FailedOnly    == {"failed"}
Retryable == {"partial", "failed"}              \* RETRYABLE_TERMINAL_JOB_STATUSES
Terminal  == {"completed", "partial", "failed"}
Status    == {"absent", "queued", "running"} \cup Terminal

\* left is exact down to the largest lateness and saturates one below it.
Floor == -(MaxLate + 1)

Row == [status   : Status,
        owner    : Owner \cup {NoOwner},
        left     : Floor .. Ttl,
        age      : 0 .. (SweepAge + 1),
        attempts : Nat,
        errors   : Nat]

\* "claiming" waits for the claim; from "claimed" on, the claim was granted.
\* "reading" has read the row for updateJob and is about to write it.
Attempting == {"claimed", "working", "settling", "evaluating", "reading"}
Control    == {"idle", "acquire", "reopen", "claim", "claiming", "done", "dead"}
                \cup Attempting

\* What an updateJob call is for.
Purpose == {"start", "stages", "completed", "partial", "failed"}

NewRow == [status |-> "absent", owner |-> NoOwner, left |-> Floor, age |-> 0,
           attempts |-> 0, errors |-> 0]

Live(j)     == job[j].left > 0
Locked_NoForUpdate(j) == FALSE
Locked(j)   == \E o \in Owner : tgt[o] = j /\ tx[o] # "none"

\* What claimJob and claimNextEligibleJob offer: queued, or running with a
\* lease that had expired d ticks ago (NULL compares as unknown, so not taken).
Claimable_LiveToo(j, d) == job[j].status \in {"queued", "running"}
Claimable_Failed(j, d)  == job[j].status \in {"queued", "failed"}
Claimable(j, d) == \/ job[j].status = "queued"
                   \/ /\ job[j].status = "running"
                      /\ job[j].owner # NoOwner
                      /\ job[j].left < -d

\* The predicate of failAbandonedJobs, and of the health report's expired count.
Expired(j)   == /\ job[j].status = "running"
                /\ job[j].owner = NoOwner \/ job[j].left < 0
Abandoned(j) == Expired(j) /\ job[j].age > SweepAge

\* Attempts granted or being asked for: what the bound MaxAttempts counts.
Asking(j) == {o \in Owner : stmt[o] = "claim" /\ tgt[o] = j}

Init ==
  /\ job = [j \in Job |-> NewRow]
  /\ evidence = [j \in Job |-> <<>>]
  /\ pc = [o \in Owner |-> "idle"]
  /\ tgt = [o \in Owner |-> NoJob]
  /\ epoch = [o \in Owner |-> 0]
  /\ want = [o \in Owner |-> "start"]
  /\ seen = [o \in Owner |-> 0]
  /\ tx = [o \in Owner |-> "none"]
  /\ stmt = [o \in Owner |-> "none"]
  /\ late = [o \in Owner |-> 0]

-----------------------------------------------------------------------------
(* Acquiring a job *)

Swept(r) == [status |-> "failed", owner |-> NoOwner, left |-> Floor, age |-> r.age,
             attempts |-> r.attempts, errors |-> r.errors + 1]

\* failAbandonedJobs, at the start of every worker iteration.  Its NOW() is
\* the present: an older one selects fewer rows and writes nothing else.  An
\* UPDATE of a row an evidence transaction holds waits for that transaction.
Sweep(o) ==
  /\ pc[o] = "idle"
  /\ \A j \in Job : Abandoned(j) => ~Locked(j)
  /\ job' = [j \in Job |-> IF Abandoned(j) THEN Swept(job[j]) ELSE job[j]]
  /\ pc' = [pc EXCEPT ![o] = "acquire"]
  /\ UNCHANGED <<evidence, tgt, epoch, planVars, tx, stmtVars>>

\* claimNextEligibleJob: an unlocked SELECT proposes a row, claimJob decides.
PickCandidate(o, j) ==
  /\ pc[o] = "acquire"
  /\ Claimable(j, 0)
  /\ tgt' = [tgt EXCEPT ![o] = j]
  /\ pc' = [pc EXCEPT ![o] = "claim"]
  /\ UNCHANGED <<rowVars, epoch, planVars, tx, stmtVars>>

\* createOrReuseJob: one upsert returns the new row or the one the key already
\* names; a retryable terminal row goes on to reopenRetryableTerminalJob.
CreateOrReuse(o, j) ==
  /\ pc[o] = "acquire"
  /\ ~Locked(j)
  /\ job' = IF job[j].status = "absent" THEN [job EXCEPT ![j].status = "queued"] ELSE job
  /\ tgt' = [tgt EXCEPT ![o] = j]
  /\ pc' = [pc EXCEPT ![o] = IF job[j].status \in Retryable THEN "reopen" ELSE "claim"]
  /\ UNCHANGED <<evidence, epoch, planVars, tx, stmtVars>>

\* The upsert returns no row: the key is bound to another collection scope.
ScopeConflict(o, j) ==
  /\ pc[o] = "acquire"
  /\ job[j].status # "absent"
  /\ pc' = [pc EXCEPT ![o] = "done"]
  /\ UNCHANGED <<rowVars, tgt, epoch, planVars, tx, stmtVars>>

\* The worker finds every source collected within its cadence.
NothingDue(o) ==
  /\ pc[o] = "acquire"
  /\ \A j \in Job : job[j].status = "completed"
  /\ pc' = [pc EXCEPT ![o] = "done"]
  /\ UNCHANGED <<rowVars, tgt, epoch, planVars, tx, stmtVars>>

Reopened(r) == [status |-> "queued", owner |-> NoOwner, left |-> Floor, age |-> 0,
                attempts |-> r.attempts, errors |-> r.errors + 1]

\* reopenRetryableTerminalJob: a second statement, conditional on the row being
\* terminal still; when another process was faster, its row is the truth.
Reopen(o) ==
  LET j == tgt[o] IN
  /\ pc[o] = "reopen"
  /\ ~Locked(j)
  /\ job' = IF job[j].status \in Retryable
            THEN [job EXCEPT ![j] = Reopened(job[j])] ELSE job
  /\ pc' = [pc EXCEPT ![o] = "claim"]
  /\ UNCHANGED <<evidence, tgt, epoch, planVars, tx, stmtVars>>

\* Bound: the claims granted and asked for stay within MaxAttempts.
WithinBudget(j) == job[j].attempts + Cardinality(Asking(j)) < MaxAttempts

\* claimJob reaches the database: its NOW() is fixed here.
SendClaim(o) ==
  /\ pc[o] = "claim"
  /\ WithinBudget(tgt[o])
  /\ stmt' = [stmt EXCEPT ![o] = "claim"]
  /\ pc' = [pc EXCEPT ![o] = "claiming"]
  /\ UNCHANGED <<rowVars, tgt, epoch, planVars, tx, late>>

\* Bound: where the model grants no further attempt, the process gives up.
GiveUp(o) ==
  /\ pc[o] = "claim"
  /\ ~WithinBudget(tgt[o])
  /\ pc' = [pc EXCEPT ![o] = "done"]
  /\ UNCHANGED <<rowVars, tgt, epoch, planVars, tx, stmtVars>>

Claimed(r, o, d) == [status |-> "running", owner |-> o, left |-> Ttl - d, age |-> r.age,
                     attempts |-> r.attempts + 1, errors |-> r.errors]

\* claimJob takes effect: one UPDATE decides and writes.  A process that died
\* while the statement waited has claimed the row all the same.
GrantClaim(o) ==
  LET j == tgt[o] IN
  /\ stmt[o] = "claim"
  /\ ~Locked(j)
  /\ Claimable(j, late[o])
  /\ job' = [job EXCEPT ![j] = Claimed(job[j], o, late[o])]
  /\ epoch' = [epoch EXCEPT ![o] = job[j].attempts + 1]
  /\ pc' = [pc EXCEPT ![o] = IF @ = "dead" THEN @ ELSE "claimed"]
  /\ stmt' = [stmt EXCEPT ![o] = "none"]
  /\ late' = [late EXCEPT ![o] = 0]
  /\ UNCHANGED <<evidence, tgt, planVars, tx>>

\* The UPDATE matches no row: `collection_jobs_claimed`.
RefuseClaim(o) ==
  /\ stmt[o] = "claim"
  /\ ~Locked(tgt[o])
  /\ ~Claimable(tgt[o], late[o])
  /\ pc' = [pc EXCEPT ![o] = IF @ = "dead" THEN @ ELSE "done"]
  /\ stmt' = [stmt EXCEPT ![o] = "none"]
  /\ late' = [late EXCEPT ![o] = 0]
  /\ UNCHANGED <<rowVars, tgt, epoch, planVars, tx>>

-----------------------------------------------------------------------------
(* Working under the claim.  The main line of an attempt is one statement at *)
(* a time; only the heartbeat runs beside it.                                *)

Idle(o) == tx[o] = "none" /\ ~Locked(tgt[o])     \* nothing of the main line waits

\* What renewJobClaim and assertJobClaim ask of the row, by a clock d ticks slow.
HoldsClaim_AnyOwner(o, d) == job[tgt[o]].status = "running" /\ job[tgt[o]].left > -d
HoldsClaim(o, d) == /\ job[tgt[o]].status = "running"
                    /\ job[tgt[o]].owner = o
                    /\ job[tgt[o]].left > -d

\* The fence of updateJob: the owner and the expiry, not the status.
Owned_Unfenced(o)    == TRUE
Owned_ExpiryOnly(o)  == Live(tgt[o])
Owned(o) == job[tgt[o]].owner = o /\ Live(tgt[o])

\* leaseGuard: every assertLease renews the claim, and a refused renewal ends
\* the attempt with DISCOVERY_JOB_LEASE_LOST.  The cycle asks before and after
\* each piece of work, and once more before finalize settles the job.
AssertLease(o, next) ==
  /\ pc[o] \in {"working", "evaluating"}
  /\ next = pc[o] \/ (pc[o] = "working" /\ next = "settling")
  /\ Idle(o)
  /\ job' = IF HoldsClaim(o, 0) THEN [job EXCEPT ![tgt[o]].left = Ttl] ELSE job
  /\ pc' = [pc EXCEPT ![o] = IF HoldsClaim(o, 0) THEN next ELSE "done"]
  /\ UNCHANGED <<evidence, tgt, epoch, planVars, tx, stmtVars>>

\* The heartbeat timer of the worker sends a renewal of its own.
SendHeartbeat_NotCleared(o) ==
  /\ pc[o] \in Attempting \/ (pc[o] = "dead" /\ epoch[o] > 0)
  /\ stmt[o] = "none"
  /\ stmt' = [stmt EXCEPT ![o] = "renew"]
  /\ UNCHANGED <<rowVars, pc, tgt, epoch, planVars, tx, late>>
SendHeartbeat(o) ==
  /\ pc[o] \in Attempting
  /\ stmt[o] = "none"
  /\ stmt' = [stmt EXCEPT ![o] = "renew"]
  /\ UNCHANGED <<rowVars, pc, tgt, epoch, planVars, tx, late>>

\* It takes effect once no transaction holds the row, whatever became of the
\* process meanwhile.
ApplyHeartbeat(o) ==
  /\ stmt[o] = "renew"
  /\ ~Locked(tgt[o])
  /\ job' = IF HoldsClaim(o, late[o])
            THEN [job EXCEPT ![tgt[o]].left = Ttl - late[o]] ELSE job
  /\ stmt' = [stmt EXCEPT ![o] = "none"]
  /\ late' = [late EXCEPT ![o] = 0]
  /\ UNCHANGED <<evidence, pc, tgt, epoch, planVars, tx>>

\* BEGIN and the first assertJobClaim of an evidence transaction: SELECT ...
\* FOR UPDATE takes the row lock, or the attempt ends with a lost lease.
BeginEvidence(o) ==
  /\ pc[o] \in {"working", "evaluating"}
  /\ Idle(o)
  /\ Len(evidence[tgt[o]]) < MaxEvidence
  /\ IF HoldsClaim(o, 0)
     THEN tx' = [tx EXCEPT ![o] = "open"] /\ UNCHANGED pc
     ELSE pc' = [pc EXCEPT ![o] = "done"] /\ UNCHANGED tx
  /\ UNCHANGED <<rowVars, tgt, epoch, planVars, stmtVars>>

\* The second assertJobClaim, after the write: by the clock of this moment the
\* lease still runs and COMMIT is sent, or the transaction is rolled back.
RecheckClaim(o) ==
  /\ tx[o] = "open" /\ pc[o] # "dead"
  /\ IF HoldsClaim(o, 0)
     THEN tx' = [tx EXCEPT ![o] = "checked"] /\ UNCHANGED pc
     ELSE tx' = [tx EXCEPT ![o] = "none"] /\ pc' = [pc EXCEPT ![o] = "done"]
  /\ UNCHANGED <<rowVars, tgt, epoch, planVars, stmtVars>>

\* The operation itself fails (a constraint, a hunt edited meanwhile): ROLLBACK.
RollbackEvidence(o) ==
  /\ tx[o] = "open" /\ pc[o] # "dead"
  /\ tx' = [tx EXCEPT ![o] = "none"]
  /\ UNCHANGED <<rowVars, pc, tgt, epoch, planVars, stmtVars>>

\* The database commits, however long COMMIT took and whether or not the
\* process that sent it still lives.
CommitEvidence(o) ==
  /\ tx[o] = "checked"
  /\ evidence' = [evidence EXCEPT ![tgt[o]] = Append(@, epoch[o])]
  /\ tx' = [tx EXCEPT ![o] = "none"]
  /\ UNCHANGED <<job, pc, tgt, epoch, planVars, stmtVars>>

\* The database notices a lost connection and undoes its transaction.
AbortOrphan(o) ==
  /\ pc[o] = "dead" /\ tx[o] # "none"
  /\ tx' = [tx EXCEPT ![o] = "none"]
  /\ UNCHANGED <<rowVars, pc, tgt, epoch, planVars, stmtVars>>

-----------------------------------------------------------------------------
(* updateJob: a read of the row, then an owner-fenced write of it            *)

\* What an attempt writes next, by where it is: execute marks the job running;
\* finalize writes the stage results, then a terminal status; a failure of the
\* cycle that is not a lost lease writes `failed`.
Purposes(o) == CASE pc[o] = "claimed"    -> {"start"}
                 [] pc[o] = "working"    -> {"failed"}
                 [] pc[o] = "settling"   -> {"stages"}
                 [] pc[o] = "evaluating" -> {"completed", "partial"}
                 [] OTHER                -> {}

\* finalize finds the job terminal already and returns it as it is.
AlreadyTerminal(o) ==
  /\ pc[o] = "settling"
  /\ job[tgt[o]].status \in Terminal
  /\ pc' = [pc EXCEPT ![o] = "done"]
  /\ UNCHANGED <<rowVars, tgt, epoch, planVars, tx, stmtVars>>

\* getJob: the errors array that will be written back is the one read here.
ReadJob(o, w) ==
  /\ w \in Purposes(o)
  /\ tx[o] = "none"
  /\ pc[o] = "settling" => job[tgt[o]].status \notin Terminal
  /\ want' = [want EXCEPT ![o] = w]
  /\ seen' = [seen EXCEPT ![o] = job[tgt[o]].errors]
  /\ pc' = [pc EXCEPT ![o] = "reading"]
  /\ UNCHANGED <<rowVars, tgt, epoch, tx, stmtVars>>

\* Errors an update appends: a stage or a partial result may carry one.
Added(w) == CASE w \in {"start", "completed"} -> {0}
              [] w \in {"stages", "partial"}  -> {0, 1}
              [] w = "failed"                 -> {1}

StatusAfter(w, s) == CASE w = "start" -> "running" [] w = "stages" -> s [] OTHER -> w
Resume(w)         == CASE w = "start" -> "working" [] w = "stages" -> "evaluating"
                       [] OTHER -> "done"

Updated(r, w, e) == [status |-> StatusAfter(w, r.status), owner |-> r.owner,
                     left |-> r.left, age |-> r.age, attempts |-> r.attempts,
                     errors |-> e]

\* The UPDATE: no status in its predicate, and no row matched means lease lost.
WriteJob(o) ==
  LET j == tgt[o]
      w == want[o]
  IN /\ pc[o] = "reading"
     /\ ~Locked(j)
     /\ \E n \in Added(w) :
          job' = IF Owned(o) THEN [job EXCEPT ![j] = Updated(job[j], w, seen[o] + n)]
                             ELSE job
     /\ pc' = [pc EXCEPT ![o] = IF Owned(o) THEN Resume(w) ELSE "done"]
     /\ want' = [want EXCEPT ![o] = "start"]
     /\ seen' = [seen EXCEPT ![o] = 0]
     /\ UNCHANGED <<evidence, tgt, epoch, tx, stmtVars>>

-----------------------------------------------------------------------------
(* The environment *)

\* The attempt ends without a word: the process dies, or an error escapes it.
\* What it sent to the database is still there.
Crash(o) ==
  /\ pc[o] \notin {"idle", "done", "dead"}
  /\ pc' = [pc EXCEPT ![o] = "dead"]
  /\ want' = [want EXCEPT ![o] = "start"]
  /\ seen' = [seen EXCEPT ![o] = 0]
  /\ UNCHANGED <<rowVars, tgt, epoch, tx, stmtVars>>

\* A fresh uuid for the next iteration: the old one is on no running row, and
\* nothing the old attempt sent is left.
Respawn(o) ==
  /\ pc[o] \in {"done", "dead"}
  /\ tx[o] = "none" /\ stmt[o] = "none"
  /\ \A j \in Job : job[j].status = "running" => job[j].owner # o
  /\ pc' = [pc EXCEPT ![o] = "idle"]
  /\ tgt' = [tgt EXCEPT ![o] = NoJob]
  /\ epoch' = [epoch EXCEPT ![o] = 0]
  /\ UNCHANGED <<rowVars, planVars, tx, stmtVars>>

Aged(r) == [status |-> r.status, owner |-> r.owner,
            left |-> IF r.left > Floor THEN r.left - 1 ELSE r.left,
            age |-> IF r.status = "running" /\ r.age <= SweepAge THEN r.age + 1 ELSE r.age,
            attempts |-> r.attempts, errors |-> r.errors]

\* The database clock.  A statement that has arrived runs at once unless the
\* row is locked; only then does time pass over it.  Bound: MaxLate ticks.
Tick ==
  /\ \A o \in Owner : stmt[o] # "none" => Locked(tgt[o]) /\ late[o] < MaxLate
  /\ job' = [j \in Job |-> Aged(job[j])]
  /\ late' = [o \in Owner |-> IF stmt[o] = "none" THEN late[o] ELSE late[o] + 1]
  /\ UNCHANGED <<evidence, pc, tgt, epoch, planVars, tx, stmt>>

-----------------------------------------------------------------------------
(* Specification *)

Acquire(o) == \/ Sweep(o) \/ NothingDue(o) \/ Reopen(o)
              \/ SendClaim(o) \/ GiveUp(o) \/ GrantClaim(o) \/ RefuseClaim(o)
              \/ \E j \in Job : PickCandidate(o, j) \/ CreateOrReuse(o, j)

Transaction(o) == RecheckClaim(o) \/ CommitEvidence(o) \/ AbortOrphan(o)

Settle(o) == \/ AssertLease(o, "settling") \/ AlreadyTerminal(o)
             \/ \E w \in Purpose : ReadJob(o, w)
             \/ WriteJob(o)

\* What an attempt may do but need not.
Optional(o) == \/ \E j \in Job : ScopeConflict(o, j)
               \/ AssertLease(o, pc[o])
               \/ BeginEvidence(o) \/ RollbackEvidence(o)
               \/ SendHeartbeat(o) \/ Crash(o)

Next == \/ \E o \in Owner : \/ Acquire(o) \/ Transaction(o) \/ Settle(o)
                            \/ Optional(o) \/ ApplyHeartbeat(o) \/ Respawn(o)
        \/ Tick

Spec == Init /\ [][Next]_vars

\* Every process takes its next step unless it crashes: feeds are finite and
\* network calls time out, so a cycle reaches finalize.  The worker loop polls
\* for ever (Respawn), the database serves what waits and undoes what was
\* abandoned, and time passes however often statements are sent.
Fairness == /\ \A o \in Owner :
                 /\ WF_vars(Acquire(o) \/ Transaction(o) \/ Settle(o))
                 /\ WF_vars(ApplyHeartbeat(o))
                 /\ WF_vars(Respawn(o))
            /\ SF_vars(Tick)

FairSpec == Spec /\ Fairness

\* Not part of FairSpec: as long as a source is due its callers keep asking for
\* its job, and not every one of them dies between the upsert and the reopen.
Asked == /\ \A j \in Job : SF_vars(\E o \in Owner : CreateOrReuse(o, j))
         /\ \A o \in Owner : SF_vars(Reopen(o))

-----------------------------------------------------------------------------
(* Properties *)

\* Every variable holds a value of its type: rows carry a known status and an
\* owner or NULL, and every attempt is at a known point.
TypeOK ==
  /\ job \in [Job -> Row]
  /\ evidence \in [Job -> Seq(Nat)]
  /\ pc \in [Owner -> Control]
  /\ tgt \in [Owner -> Job \cup {NoJob}]
  /\ epoch \in [Owner -> Nat]
  /\ want \in [Owner -> Purpose]
  /\ seen \in [Owner -> Nat]
  /\ tx \in [Owner -> {"none", "open", "checked"}]
  /\ stmt \in [Owner -> {"none", "claim", "renew"}]
  /\ late \in [Owner -> 0 .. MaxLate]

\* job-fence.js: "A successor cannot take ownership between this check and the
\* write."  While an evidence transaction is open, its attempt is the one the
\* row names, and the row is running, however late COMMIT arrives.
OpenEvidenceHoldsClaim ==
  \A o \in Owner : tx[o] # "none" =>
    /\ job[tgt[o]].status = "running"
    /\ job[tgt[o]].owner = o
    /\ job[tgt[o]].attempts = epoch[o]

\* Evidence of an older attempt never lands after evidence of a newer one, and
\* none is from an attempt the row has not granted.
EvidenceInAttemptOrder ==
  \A j \in Job : \A m, n \in 1 .. Len(evidence[j]) :
    m <= n => evidence[j][m] <= evidence[j][n] /\ evidence[j][n] <= job[j].attempts

\* claimJob and the sweep never displace an attempt whose lease still runs: the
\* owner of a running row changes only after the lease has run out.
LiveClaimKept ==
  [][\A j \in Job :
       (job[j].status = "running" /\ job'[j].owner # job[j].owner) => ~Live(j)]_vars

\* A job that collected its scope is finished for its idempotency window: it is
\* not reopened, claimed, rewritten, nor does evidence arrive in its name.
CompletedIsFinal ==
  [][\A j \in Job : job[j].status = "completed" =>
       /\ job'[j].status = "completed"
       /\ job'[j].attempts = job[j].attempts
       /\ job'[j].errors = job[j].errors
       /\ evidence'[j] = evidence[j]]_vars

\* RETRYABLE_TERMINAL_JOB_STATUSES: a partial or failed job "must never be
\* claimed again, so it has to be reopened": its only way on is the queue, and
\* no owner writes to it meanwhile.
TerminalOnlyReopens ==
  [][\A j \in Job : job[j].status \in {"partial", "failed"} =>
       /\ job'[j].status \in {job[j].status, "queued"}
       /\ evidence'[j] = evidence[j]]_vars

\* updateJob writes back the errors array it read before; no entry that the
\* sweep, a reopen or another attempt appended meanwhile is lost.
ErrorsNeverLost == [][\A j \in Job : job'[j].errors >= job[j].errors]_vars

Orphaned(j, o) == job[j].status = "running" /\ job[j].owner = o /\ pc[o] \in {"done", "dead"}

\* A job whose owner is gone does not stay `running` in its name: the next claim
\* takes it over or the sweep fails it.
AbandonedIsReleased ==
  \A j \in Job : \A o \in Owner : Orphaned(j, o) ~> ~Orphaned(j, o)

\* "A terminal job used to poison the rest of its own idempotency window": a
\* partial or failed job that is asked for again returns to the queue.
RetryWindowOpens == Asked =>
  \A j \in Job : job[j].status \in {"partial", "failed"} ~> job[j].status = "queued"

-----------------------------------------------------------------------------
(* Why the fence holds: the inductive invariant *)

\* Whoever is past choosing a job, or has left something in the database, has one.
JobChosen == \A o \in Owner :
  \/ pc[o] \in {"reopen", "claim", "claiming"} \cup Attempting
  \/ tx[o] # "none" \/ stmt[o] # "none"
  => tgt[o] \in Job

\* Where an attempt is says what it may have in the database.
StatementsMatchControl == \A o \in Owner :
  /\ pc[o] = "claiming" => stmt[o] = "claim"
  /\ stmt[o] = "claim" => pc[o] \in {"claiming", "dead"} /\ tx[o] = "none"
  /\ tx[o] # "none" => pc[o] \in {"working", "evaluating", "dead"}

\* An attempt the row still names is the attempt granted last, its row runs,
\* and the errors it read are the row's errors.
NamedAttemptIsCurrent == \A o \in Owner :
  (pc[o] \in Attempting /\ job[tgt[o]].owner = o) =>
    /\ job[tgt[o]].status = "running"
    /\ job[tgt[o]].attempts = epoch[o]
    /\ pc[o] = "reading" => seen[o] = job[tgt[o]].errors

\* A running row names the attempt it was granted to: lease_owner is cleared only
\* together with the status.
RunningHasOwner == \A j \in Job : job[j].status = "running" => job[j].owner \in Owner

\* Inductive: a granted attempt is current until another claim, the sweep or its
\* own last write takes the row away, and while its transaction is open nothing
\* can, because the row is locked.
IndInv == /\ TypeOK
          /\ JobChosen
          /\ StatementsMatchControl
          /\ NamedAttemptIsCurrent
          /\ RunningHasOwner
          /\ OpenEvidenceHoldsClaim
          /\ EvidenceInAttemptOrder

-----------------------------------------------------------------------------
(* What the table promises *)

Contract == INSTANCE JobContract WITH
  status   <- [j \in Job |-> job[j].status],
  holder   <- [j \in Job |-> IF job[j].status = "running" THEN job[j].owner ELSE NoOwner],
  attempts <- [j \in Job |-> job[j].attempts],
  evidence <- evidence

\* The leases, the row locks and the fenced statements implement the promise:
\* one holder at a time, and evidence only of the holder.
ImplementsContract == Contract!Spec
=============================================================================
