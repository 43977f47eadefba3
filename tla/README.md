# Property-crawl: TLA+ models of the collection system

Property-crawl collects property listings from public publishers, keeps the evidence for
every claim it makes, evaluates saved hunts against what it collected, and sells access to
the result. This directory models the parts where concurrency and failure decide whether
the evidence, the alerts and the entitlements can be trusted. One module per component
holds its specification, `MC*` modules and `.cfg` files are the TLC instances,
the `*Proofs` modules hold the TLAPS proofs, and `PROJECT.json` maps every definition to
the source lines it stands for. Paths below are relative to `src/server/` unless they
begin with another directory; numbers in brackets are lines.

## 1. The system

A Next.js front end talks to a Node API (`server.js`, `routes/`). Collection runs in three
kinds of processes: the API (a request starts a job through `CollectionCoordinator.start`),
the in-process scheduler (`scrapers/scheduler.js`, its timer and its durable-cycle hooks)
and the dedicated worker (`scripts/discovery-worker.js`). In advanced mode they share one
PostgreSQL database, and nothing else; without it they share JSON files on one host, each
behind a lock file. The payment provider calls a webhook of the front end, which writes to
the accounts through the API.

| Component | State it keeps | Operations | Interacts with | What makes it correct | Module |
|---|---|---|---|---|---|
| Durable jobs, `discovery/store.js`, `discovery/job-fence.js` | rows of `discovery_jobs`: status, owner, lease, attempts, errors, stages | create or reuse, reopen, claim, renew, update, sweep; fenced evidence transactions | worker, scheduler and API all write the same rows | one holder; a superseded holder writes no evidence; completed is final; nothing stays running for ever; no error entry is lost | `DiscoveryJobs`, `JobContract` |
| Collection cycle, `scrapers/scheduler.js`, `sources/collection-coordinator.js` | runs, checkpoints, snapshots; in memory: `isRunning`, the collectors' checkpoint and last report | start cycle, run sources in parallel, write records, finish run, advance checkpoint, settle the job | jobs (every write under the claim), collectors (shared per process) | a checkpoint never skips what was not stored; a full-sweep claim is true; a completed job's outcomes are settled and stay | `CollectionCycle` |
| Discovery worker, `scripts/discovery-worker.js` | one owner string per iteration, a heartbeat timer and its busy flag | choose what is due, claim, execute, collect the wider scope, canary, loop | jobs, rollout, coordinator | a worker whose heartbeats come and are answered in time owns what it collects; the due sources and the wider scope are collected in the end | `WorkerIteration`, `SourceRollout` |
| Source rollout, `discovery/store.js` [80-148] | `discovery_source_rollouts`: state, clean runs, scope | record a canary, promote, decide what may be collected | runs written by the cycle, the checkpoint | only two distinct clean full runs of one scope promote a source; an approval lasts while the scope does | `SourceRollout` |
| Circuit breaker, `scrapers/circuit-breaker.js`, `http.js`, `base.js` | state, failure count, versions, trip time | success, failure, trip, cooldown, retry | concurrent requests of one collector | an open breaker lets no data in; a late success does not hide newer failures; it closes again | `CircuitBreaker` |
| Lock-file stores (collection jobs, research cases, source intake; hunts, accounts) and evidence ledger | a JSON file, or a hash chain, and a lock file each | take the lock, take over a stale one (hunts, accounts, ledger), load, write, release | every process on the host | one writer; no lost update; one chain; where stale locks are taken over a crash does not lock everybody out | `LockFile`, `AtomicStore` |
| File job store, `sources/collection-coordinator.js` | the newest `MAX_JOBS` jobs in a file; in memory `inFlight` | start, execute, finalize | scheduler, command line | a conclusion is earned and final; a key asked for again is concluded, unless a crash left the lock file | `FileJobs` |
| Hunts, `intelligence/hunts.js`, `discovery/hunt-store.js` | criteria with versions, a baseline, events | edit, evaluate, save | cycles, requests | every change told once; the baseline never goes back | `HuntBaselines` |
| Accounts and billing, `accounts/store.js`, the Stripe webhook | accounts, subscription state, processed events | check out, claim, look up, apply, release | the payment provider | an event runs once at a time; entitlement agrees with the subscription | `Billing` |
| Enrichment DAG, `swarm/` | blackboard, results of the nodes | run stages, time out a node | one request | a timed-out node does not feed its successors | none |
| Alerts, document reviews, caches, rate limiters, compaction, worker pool | see `PROJECT.json` | | | | none |
| Publisher collectors, calculators, catalog, exports, routes | none shared beyond the above | parse, compute, render | cycle, routes | input and output, covered by example tests | none |

Behaviour that is hard here, and where it bites, is listed line by line under `hazards` in
`PROJECT.json`: statements that wait for a row lock and decide by an old `NOW()`,
read-modify-write updates, takeover of a job whose owner is slow rather than dead, outcome
and checkpoint in separate transactions, in-memory collectors shared by cycles, evaluations
that overlap, events out of order, errors that escape, and lock files with a stale-lock
takeover. Each hazard names the properties that cover it; four have none and say why.

How the modules fit together. `JobContract` is what the durable table promises.
`DiscoveryJobs` implements it (`ImplementsContract`, checked and proved), `CollectionCycle`
uses the table only as it allows (`KeepsContract`). `AtomicStore` is what a locked file
promises; `LockFile` implements it as long as no lock is stolen (`KeepsContract`), and
`FileJobs` takes a mutation of the file as one step for that reason. `WorkerIteration`
takes a claim as one step because `DiscoveryJobs` shows how claims race, and
`SourceRollout` looks only at what the runs of `CollectionCycle` leave behind.

## 2. The modules

### DiscoveryJobs: the table and its users

State: `job[j]` is a row of `discovery_jobs` (status, owner, lease, age since `started_at`,
`attempt_count`, length of the `errors` array). For each attempt (`Owner`, the
`worker:<pid>:<uuid>` string a process makes for itself) `pc`, `tgt`, `epoch`, `want` and
`seen` say where its code is, which job it chose, which `attempt_count` its claim returned
and what `updateJob` is about to write after its `getJob`; `tx` is its evidence
transaction, `stmt` a claim or renewal waiting in the database. `evidence[j]` is a history
variable: the attempts whose transactions committed.

| Actions | Code |
|---|---|
| `Sweep` | `failAbandonedJobs` at the start of a worker iteration |
| `PickCandidate`, `CreateOrReuse`, `ScopeConflict`, `Reopen`, `NothingDue` | `claimNextEligibleJob`, `createOrReuseJob`, `reopenRetryableTerminalJob`, `dueSources` |
| `SendClaim`, `GrantClaim`, `RefuseClaim` | `claimJob`: the statement arrives (its `NOW()` is fixed), then decides |
| `AssertLease`, `SendHeartbeat`, `ApplyHeartbeat` | `leaseGuard` of the cycle and the worker's timer, both `renewJobClaim` |
| `BeginEvidence`, `RecheckClaim`, `RollbackEvidence`, `CommitEvidence`, `AbortOrphan` | `withJobFence`: `FOR UPDATE`, recheck, `COMMIT` or `ROLLBACK` |
| `ReadJob`, `WriteJob`, `AlreadyTerminal` | `updateJob` as two steps, and `finalize`'s early return |
| `Crash`, `Respawn`, `Tick` | a process dies or an error escapes it; the next iteration; the clock |

Time is relative: `left` is the distance to `lease_expires_at`, `late` how far a waiting
statement's `NOW()` lies back. So there is no horizon, and the instance is finite. Rows
are locked exactly while an evidence transaction is open; all other statements are single
and atomic, as PostgreSQL runs them.

### JobContract: what the cycle may rely on

Status, holder, number of grants and evidence; no lease, no clock, no statement in flight.
`DiscoveryJobs` implements it: `ImplementsContract` maps a running row's owner to the
holder, everything else by name. TLC checks it on an instance and `ContractImplemented`
proves it. `CollectionCycle` is written against it, and `KeepsContract` checks that the
cycle treats the table only as the contract allows.

### CollectionCycle: what runs under a job

State: `status`, `holder`, `live` are the contract's job and whether the holder's lease
still runs; `run` (a row per job and source, because the idempotency key of `beginRun` is
`job:source`), `ckpt` and `stored` are durable; `collector[p]` is the memory of the
collector singletons of a process; `pc`, `tgt`, `work` are the attempts. A feed is the
records `1 .. Records`; a *sweep* is one pass from the first record to the last, however
many runs it takes, and `stored[s][r]` is the newest sweep in which record `r` was dealt
with: stored in a fenced transaction, or rejected by validation. A cycle runs the sources of
`Scope[j]`: those the job's row names (`Named`) that pass `admitListingsScrapers`
(`Serving`); the others have no run.

| Actions | Code |
|---|---|
| `Ask`, `Claim`, `Expire`, `RenewLate`, `SweepJob` | the job table, by its contract |
| `SweepRun` | `failAbandonedRuns` |
| `Execute`, `CycleFails`, `EndSources` | `execute` and `runAll` around the sources, with `isRunning` |
| `StartSource`, `BeginRun`, `Scrape`, `WriteRecord`, `FinishRun`, `SaveCheckpoint` | the worker function of `mapWithConcurrency`, one action per await that matters |
| `SourceFails` | its catch block, in which marking the run failed may fail as well |
| `Settle`, `Escape` | `finalize`, and an error of the database that leaves `execute` |
| `Crash` | a process dies, with its collectors' memory |

Two collectors stand for all: one that pages and resumes from a checkpoint (ServiceLink:
`PagesFrom`) and one that takes a whole feed and reports the parts that failed (USDA:
`OnePass`). The initial state lets an earlier job have left a resumable source anywhere in
its feed.

What it abstracts: the content of records, scopes and scope hashes, telemetry and drift
alarms; the stages of `finalize` before the last write (their failure leads to `partial`,
which `Settle` may always choose); the age a run must have to be swept (`SweepRun` may
come at any age, which allows more); heartbeats, of which only the late one matters here.
A cycle that the scheduler's timer starts claims its job inside `runAll`, after it has set
`isRunning`; here every cycle claims first, as worker and API do.

### SourceRollout: how a source earns unattended collection

State: the rows of `discovery_source_runs` with the scope they declared and covered, the
rollout row, the checkpoint, and for each process where it is and what it has read.
`Ask`, `Iterate`, `CheckPolicy`, `CheckWider` and `Collect` are the ways into a cycle: a
canary or a request at will, the worker only after `promotedSourcesWithinScope` or
`widerThanPromoted` let it pass; each of these reads the rollout, then the checkpoint, then
the rollout again, and a canary may act in between. With approved sources the worker takes
any waiting or left-behind job of theirs (`Eligible`). `Begin`, `FinishRun`, `FailRun`,
`SaveCheckpoint` are the cycle's statements; `Verify` and `Record` the two statements of
`recordCanary`; `Promote` the operator. `counted`, `approved` and the checkpoint's `from`
are history. Scopes are sets of states, one contained in the other. Checkpoints written
before scopes were recorded, which the scheduler refuses ([300-301]), are left out.

### WorkerIteration: the loop around the jobs

State: the two jobs an iteration can have (due sources, wider scope), the iteration of each
worker, and the renewals still on their way when an iteration ended. `Begin` sweeps and
claims; `Start` comes after the first health row and sets the timer. The heartbeat is not one
step: `Beat` is the timer's callback, which sends a renewal of the iteration's first job or,
with its busy flag up, returns at once; `Answer`, `HealthWritten` and `Unanswered` are what
becomes of the renewal and of the health row after it, whenever that is. `Guard` and `Settle`
are the executed job's use of its claim, `Proceed` decides about the wider job, `Over`,
`Escape` and `Restart` end an iteration or a process: a lost lease ends the process, another
error may be transient and only end the iteration. `Passing` lets time pass for leases and
timers; a beat that is due and does not come is missed. The canary command is in
`SourceRollout`: no worker claims its job.

### CircuitBreaker: one collector's requests

State: the breaker, the requests in flight and whether a failure was recorded since each
began. `Ask`, `Good`, `Forbidden`, `Broken`, `Unparsable` are what `fetchTextWithPolicy`,
`fetchJsonWithPolicy` and `executeWithRetry` do with a request; `Observe` is the state
getter, which moves OPEN to HALF-OPEN; `Outage` is the publisher. `streak` and `wall` are
history: failures and refusals no later success has answered. A request looks at the breaker
and is sent in one step; the wait of the throttle between the two (`scrapers/http.js`
[146-180]) and the waterfall of `base.js` around the breaker are left out.

### LockFile and AtomicStore: files that processes share

Every file operation of `mutateStore`, `mutate` and `withLedgerLock` is a step: `Open`,
`Stat`, `Unlink`, `Reopen`, `Load`, `Write`, `Close`. The three kinds of store are one
module (`kind`): without takeover (collection jobs, research cases, source intake), with
takeover (hunts, accounts), and the ledger, which appends. A process
may die anywhere. The history variable `stolen` says that a writer unlinked a lock that was
not the stale one it had looked at; the code has nothing against that, and the properties
hold until it happens and show that nothing else breaks them.

### FileJobs: jobs without PostgreSQL

State: the file of jobs, and for each process how far it is with executing each. `Start`
and `Launch` are `start` before and after its await, `Cycle` a sweep of the scheduler
itself, `Swept` to `Caught` are `execute` and `finalize` with every update that can find
a writer at work or the job cut off the file. `Crash` empties `inFlight`, and if it comes in
the midst of a mutation it leaves the lock file (`faults.locked`): this store never takes a
lock over, so from then on every update throws (`Throws`) and nothing is created.

### HuntBaselines: hunts evaluated by jobs and requests at once

State: what publishers said of each record, the criteria's version, the baseline rows, the
events, and the evaluations at work. `Collect` and `ReadBaseline` come in the order of the
caller (a job has its listings first, a request last); `Save` compares page by page
(`Silent`, `Previous`, `Current`, `TypeOf`) and writes rows and events in the transaction
that locks the hunt. `EditCriteria` bumps the version and leaves the rows. `known`, what
the events add up to, is history, and so are the two things that may part it from the
baseline: `raced` (another evaluation changed the row in between) and `leftover` (rows of
older criteria beside newer ones). Only a row that `Silent` names is known without an event,
and an edit forgets what was known, so a record that is new to a baseline and matches must be
told like any other change.

### Billing: checkout and the provider's events

State: the provider's subscriptions, sessions and events; the ledger of claimed events; the
account; the deliveries at work. `Deliver` is the claim, `Look` the look-up of the live
subscription with its fallback, `Apply` the write, `Release` the way back after a failure,
each of which may fail or take effect unanswered. `excuses` is history: the five things
that may leave entitlement and subscription apart, each marked where it happens.

## 3. What is checked

A definition `Name_Suffix` is `Name` with a plausible mistake in it. It is never part of
the specification; substituting it must make the property that `PROJECT.json` pairs it
with fail, which shows that the property depends on that line of the code.

| Run | Instance | Distinct states | What it shows |
|---|---|---|---|
| `jobs` | 1 job, 2 owners, lease 2, sweep age 2, lateness 1, 2 attempts, 2 evidence transactions | 0.98 M | the fence (`OpenEvidenceHoldsClaim`, `EvidenceInAttemptOrder`), `LiveClaimKept`, `CompletedIsFinal`, `TerminalOnlyReopens`, `ErrorsNeverLost`, and the refinement of `JobContract` |
| `jobs_live` | the same with lease 1, sweep age 1, no lateness, 1 transaction | 0.21 M | a running job whose owner is gone is taken over or swept; a partial or failed job that callers ask for returns to the queue |
| `cycle` | 2 jobs over one paged source of 3 records, budget 1, 2 attempts in one process and 1 in another | 2.0 M | `CheckpointCovered`, `FullSweepHonest`, `OutcomesOnlyUnderClaim`, `CompletedRunsFrozen`, `KeepsContract` |
| `cycle_sources` | 1 job over a paged source, a one-pass source and one that is not served | 76 k | a completed job has a settled, unfailed run for every source it admits; no run stays running |
| `rollout` | 3 runs, 2 processes, a scope and a wider one | 1.2 M | approvals are earned and last; the worker collects only what was approved; no sweep mixes scopes |
| `worker` | 2 workers, a wider scope, lease 3, a beat every 1 | 0.24 M | `HealthyOwns`; due sources and wider scope are collected in the end (`AllCollected`) |
| `breaker` | 3 requests, threshold 3, cooldown 2, timeout 1 | 2.4 k | `WallHolds`, `StrikesCount`, `Recovers` |
| `locks` | 4 calls, 3 kinds of store, stale after 2 ticks, 2 deaths | 0.32 M | `Exclusive`, `ChainValid`, the refinement of `AtomicStore`, `EveryoneAnswered` |
| `file_jobs` | 1 process, 3 jobs of which the file keeps 1, 1 busy lock, 1 crash, which may leave the lock | 0.14 M | `CompletedEarned`, `ConclusionKept`, `KeyConcluded` |
| `hunts` | 2 records with 2 and 1 observations of 3 values, 2 versions, a job and a request | 4.2 M | `BaselineForward`, `RowOfItsCriteria`, `ChangesTold`, `ToldOnce` |
| `hunts_edit` | the same with one request | stops at the counterexample | the finding below |
| `billing` | 2 subscriptions, 2 deliveries, 2 faults | 1.7 M | `OneDeliveryRuns`, `ClaimsHeld`, `EntitlementIsLive` |

Each module defines its `TypeOK` (`LockTypeOK` in `LockFile`); that of `CollectionCycle` is
checked in `cycle`, and all are proved.

Why the bounds are enough.

- Jobs do not interact in `DiscoveryJobs` except that an attempt chooses one, so one row
  shows every race; two owners are the slow one and its successor, and as an owner is
  respawned, more attempts than two follow each other within `MaxAttempts`. A lease of 2
  with lateness 1 separates live, expired and expired-while-waiting.
- In the cycle, 3 records with a budget of 1 make a sweep last three runs, the shortest with
  a middle one; the past may already be two records into the feed, so a few attempts reach
  the end of a sweep and the start of the next. Two jobs on one source are the smallest
  conflict over a checkpoint that is fenced per job; two attempts of one process share its
  collectors, the third has its own. `cycle_sources` is about outcomes, not positions.
- Three runs are a promotion (two) and one that comes after; two scopes are the promoted
  and the wider; `MaxCount` 2 is where the count stops mattering.
- Three requests are a success, the failure that overtakes it and the one that trips;
  threshold 3 needs them all; cooldown 2 separates "just tripped" from "about to open".
- The code's lease is 300 s with a beat every 120 s; what the worker relies on is that two
  beats fit into a lease, and a lease of 3 with a beat every 1 is the smallest with room for
  more (`HealthyWorkerOwns` is proved for all of them). Crashes, failed queries, late beats and
  hanging calls are not bounded.
- Two calls steal a lock, a third dies, a fourth comes back to the store they left.
- One process of `FileJobs` is what `inFlight` protects. A file that keeps one job of three
  cuts one off while it runs. What two processes do is under the observations.
- Two records make a baseline of old and new rows; two observations of one make a change
  and a late save; three values differ in the verdict, in the value only, and in evidence.
- Two subscriptions are a lapsed and a new one; two deliveries overlap; with two faults a
  release can fail after what it releases.

Every bound is a constant named in a guard or an assumption. Deadlock is not checked in
`rollout`, `billing`, `hunts` and `file_jobs`: nothing obliges an operator, a member or a
publisher to act for ever, and their bounded runs, events, observations and jobs end. In
`locks` the end is a step of its own (`Ended`); everywhere else deadlock is checked.

Fairness. `DiscoveryJobs`: weak fairness for each process's main line (a cycle's requests
time out and its feeds end), for a statement that waits in the database, and for the next
iteration (`main` polls every `DISCOVERY_POLL_MS`, and `docker-compose.discovery.yml`
restarts an exited worker, `restart: unless-stopped`); strong fairness for the clock,
because statements arriving again and again do not stop time. Nothing is assumed of
heartbeats, crashes or evidence. `RetryWindowOpens` assumes in addition that callers go on
asking (`Asked`), which is what it is about. `CollectionCycle`: weak fairness for the steps
of a cycle that does not crash, for the expiry of the lease of an attempt that is over, and
for the sweep of runs that every worker iteration begins with. `WorkerIteration`: weak
fairness for time, for each process's loop, for the lease guard of `finalize` and for the end
of a job in hand; strong fairness for the job an iteration began with: when it is tried again
and again with its lease, it is started, swept and whole at last. `AllCollected` is about what
the loop makes of repeated attempts, not about a source that is never whole. Nothing is
assumed of a second job (the wider scope has to get by without it), nor that a heartbeat is
ever sent or answered. `CircuitBreaker`: time passes, cycles keep
asking, a request is answered or times out. `LockFile`: time passes, a process that is not
dead goes on, and a caller that was refused comes back (the ledger does so by itself, other
callers when they are asked again). `FileJobs`: a started job goes on, and its key is asked
for again; strong fairness, because crashes and a taken lock interrupt. The others are
checked for safety only.

### Finding

`docs/hunts-workflow.md` [110]: "Changing normalized criteria creates a new immutable
criteria version and clears the old comparison baseline. The next run establishes a fresh
baseline without transition noise." The file store does that (`intelligence/hunts.js`
[344]). `PgHuntStore.update` (`discovery/hunt-store.js` [12]) bumps the version and leaves
the rows. The next evaluation rewrites the rows of the records it sees; a record not seen
keeps its old row, and `baseline` [14] gives all of them the version of whichever row comes
first, the query having no `ORDER BY`. With an old row first the baseline is started again
in silence; with a new one first, old verdicts are compared with and relabelled. In both
cases a change is not told (`ToldAfterEdit`, run `hunts_edit`).

### Observations

What the models contain, and what the properties therefore leave open or name as an
exception. No run is kept for these.

- `discovery/store.js` [67-68] says an expired lease can never be renewed. `NOW()` is fixed
  when a statement starts, so a heartbeat that waits for a row lock can renew a lease that
  expired meanwhile. The fence reads `clock_timestamp()`; the theorems hold regardless.
- `collectionCyclePartial` (`sources/collection-coordinator.js` [129]) looks at truncation,
  errors and accepted counts. A one-pass source with failed parts (`scrapers/usda.js`
  [91-110]) leaves a run `partial` in a job settled `completed`, which closes its hour.
- Two writers that judge the same lock stale: the second unlinks the lock of the first
  (`intelligence/hunt-store.js` [84-88], `accounts/store.js` [74-80],
  `discovery/evidence-ledger.js` [287-293]).
- A pending checkpoint of one scope is overwritten by a run of another
  (`scrapers/scheduler.js` [302]): the sweep starts again, it is never mixed.
- The end of an old subscription, delivered late, is written over a new one that is paid
  (`accounts/store.js` [244]); the other four ways to part entitlement and subscription are
  a claim left behind, a duplicate answered before its first delivery failed, the fallback
  on the event's own object, and two look-ups written in the wrong order.
- A body that is corrupt every time counts as a success first and a failure afterwards
  (`scrapers/http.js` [236-244]) and never opens the breaker; in HALF-OPEN every request
  passes, not one probe.
- The file job store keeps the newest jobs, running or not; a job cut off is never
  concluded. Its conclusions are final within one process; two processes asked for the same
  key execute one job together.
- A heartbeat that fires after its job settled finds nothing to renew, reports the lease as
  lost and ends the worker; the work is done and the restart continues.
- While a renewal or the health row after it hangs, the busy flag (`scripts/discovery-worker.js`
  [120]) skips every further beat. The lease can run out meanwhile and another worker claim
  the job while `leaseHealthy` is still true; only the fence and the lease guard notice. The
  same holds before the first beat if the health row before it [118] hangs. `HealthyOwns`
  names these two exceptions beside a heartbeat that failed.
- A process that dies while it mutates the file of collection jobs leaves the lock file
  (`sources/collection-coordinator.js` [37-56]), and nothing removes it: every later update
  throws until someone does. Research cases and source intake are alike
  (`intelligence/research-store.js` [91], `sources/store.js` [45]). `KeyConcluded` names it as its
  exception, and `EveryoneAnswered` is about the stores with takeover.
- A source that a job names but the catalog does not serve is dropped with a line in the log
  (`scrapers/scheduler.js` [217-221]). It has no run, and the job may be settled `completed`
  without it, which closes its hour.
- A save of document reviews takes the lock but writes what its process has in memory
  (`intelligence/document-review-store.js` [177-231]): a review another process saved is lost.
  `KeepsContract` is not about that store.
- `updateJob` finds its owner in a map of its store (`discovery/store.js` [181-184]). The model
  fences each update with the owner of the attempt that makes it, which the code does because
  whoever updates a job has claimed or bound it through the same store, and a store has one
  attempt of a job at a time.
- Webhook and mail of a hunt are sent once, after the events are saved, and not retried.

## 4. What is proved

Eight modules hold theorems, one beside each specification: `DiscoveryJobsProofs`,
`CollectionCycleProofs`, `HuntBaselinesProofs`, `SourceRolloutProofs`, `BillingProofs`,
`WorkerIterationProofs`, `CircuitBreakerProofs`, and `FileStoreProofs` for both `LockFile` and
`FileJobs`; so that one module can extend the two, `LockFile` calls its frame `LockInit`,
`LockNext` and `LockSpec`, and its theorems are about `LockSpec`. Each assumes only
the named `ASSUME`s of its specification: marks such as `Nobody` are not a worker, bounds
are natural numbers, a feed has a record, a count of clean runs can reach two, the versions
of criteria count from 1. The sets of processes, jobs, records, subscriptions and scopes
are arbitrary, also infinite; no bound has a value. One hypothesis is not an `ASSUME`:
the last two theorems about `FileJobs` are for `OneProcess`, a set `Proc` of at most one
process. In every module `IndInv` is the inductive invariant (`LockInv` for `LockFile`;
`AnyInv`, a part of `IndInv`, where `FileJobs` has many processes), `InvariantHolds` says
that it always holds, `TypeCorrect` that the variables keep their types, and TLC checked
`IndInv` on the instance of the module's run before it was proved. The proof that a step
keeps it has one lemma or case per action, and under it one step for each conjunct that the
action can disturb.

| Theorem | States | Of |
|---|---|---|
| `FenceHolds`, `EvidenceOrdered` | `OpenEvidenceHoldsClaim`, `EvidenceInAttemptOrder` | `DiscoveryJobs` |
| `LiveClaimsKept`, `CompletedStays`, `TerminalReopens`, `ErrorsKept` | the action properties | |
| `ContractImplemented` | `ImplementsContract`: it implements `JobContract` | |
| `CheckpointIsCovered`, `FullSweepIsHonest`, `CompletedRunsAreSettled` | `CheckpointCovered`, `FullSweepHonest`, `CompletedRunsSettled` | `CollectionCycle` |
| `CompletedRunsStayFrozen`, `OutcomesUnderClaim` | the action properties | |
| `ContractKept` | `KeepsContract`: it implements `JobContract` | |
| `RowsAreOfTheirCriteria`, `ChangesAreTold`, `EachToldOnce` | `RowOfItsCriteria`, `ChangesTold`, `ToldOnce` | `HuntBaselines` |
| `BaselineMovesForward` | `BaselineForward` | |
| `ApprovalIsEarned`, `UnattendedIsApproved`, `SweepStaysInScope` | `ApprovalEarned`, `UnattendedScopeApproved`, `SweepOfOneScope` | `SourceRollout` |
| `ApprovalIsKept` | `ApprovalKept` | |
| `OneDelivery`, `ClaimsAreHeld`, `EntitlementFollows` | `OneDeliveryRuns`, `ClaimsHeld`, `EntitlementIsLive` | `Billing` |
| `HealthyWorkerOwns` | `HealthyOwns` | `WorkerIteration` |
| `MutualExclusion`, `ChainStaysValid` | `Exclusive`, `ChainValid` | `LockFile` |
| `StoreIsAtomic` | `KeepsContract`: it implements `AtomicStore` | |
| `CompletedIsEarned` | `CompletedEarned`, for any number of processes | `FileJobs` |
| `ConclusionsStand` | `ConclusionKept`, for one process | |
| `WallStands`, `EveryStrikeCounts` | `WallHolds`, `StrikesCount` | `CircuitBreaker` |

The arguments, in the order of the table.

**DiscoveryJobs.** None of the properties is inductive alone. `IndInv` adds to the types:
whoever is past choosing has a job (`JobChosen`); what an attempt has in the database fits
where its code is (`StatementsMatchControl`); an attempt the row still names is the one
granted last, its row runs, and the errors it read are the row's errors
(`NamedAttemptIsCurrent`); a running row names somebody. The key is the third fact: the
fence of `updateJob` is the owner column alone, without the status, and it is enough only
because every statement that takes a job from its owner also clears or replaces that
column, so an owner still in the row means that nobody else touched it since its claim.

**CollectionCycle.** A checkpoint is covered because of what was true long before it was
saved, in memory. `CursorsCovered` says it of every cursor, durable or set on a collector:
the records before it were dealt with since its sweep began. `ReportsCovered` says it of
the last report of a collector while an attempt writes what it scraped: up to the report's
end, and everywhere if it missed nothing, a record was dealt with or is still to be
written. That needs `AttemptsInOrder`: one process runs one cycle (`isRunning`), so nobody
else moves the collector between `Scrape` and `SaveCheckpoint`; and it survives another
process because `stored` only grows, so its invariant is about sweeps not older than the
report's, and `SweepsStarted` keeps a new sweep ahead of all. `OutcomesStand` carries the
recorded outcomes of a holder to `Settle`. `ContractKept` maps the attempts that have a job
to its grants, a finite set, and each step to a step of `JobContract` or a stutter.

**HuntBaselines.** What ties events to the baseline is what an evaluation compared with.
`OneVersion` says that without left-over rows all rows are of the version in force or none
is; `ReadOfItsVersion` that an evaluation which will pass the version check of `Save`
compares with rows of that version that hold its verdicts, or with none; `Published` orders
what was seen, read, saved and told of a record. From them, for a record whose row is as
the evaluation read it, the event of `TypeOf`, or the silence of an equal verdict, is
exactly what takes what is known to the row saved (`FreshTold`); a record without news
keeps its row or gets the same one relabelled (`StaleTold`); and an event that is already
there would be no newer than the row (`NotTold`). Overlap on a record
and left-over rows are thereby the only two exceptions there are. Verdicts are any function
to the three statuses.

**SourceRollout.** `CountBacked`: the count of the rollout row never exceeds the number of
distinct clean canaries of the configured scope, although `recordCanary` verifies the run
in one statement and counts it in another. It rests on `ProcessesSane` (what a process
holds between its statements is still true of the rows: its run is its own, is not counted
yet, and is clean if it was found clean) and on `OneWriter`. The same per-process
statement carries the two scope properties: a worker that has passed one of its reads
goes on only in a scope that was promoted, and the sweep it continues is of its scope.

**Billing.** `EntitlementIsLive` speaks of settled events only; the induction is over what
an unsettled one still has to write. `CancellationsFollow`: a cancellation that the account,
or a delivery about to write what it found, does not show yet is not settled.
`ActivationsFollow`: once the creation of an active subscription is settled the account is
entitled. `FoundIsOfEvent` says that what a delivery looked up was true at some time after
its event, `EventsOfChanges` which events the provider has sent. Both end when an excuse is
recorded, and no other step ends them: the five excuses are complete.

**WorkerIteration.** `HealthyOwns` says nothing of time and is not inductive. `Current` says
of a worker that executes the job it began with, with no beat failed and none missed since the
last renewal (`Timely`), that it owns the job and how much of the lease is left (`Enough`): at
least the lease less the time since the last beat, and one interval less while a renewal is
under way, because that renewal was sent at the last beat and the lease counts from the one
before. A beat comes within an interval or is missed, so `2 * Every < Lease` keeps the lease
running, and nobody else's statement touches a live row. A renewal whose answer is late may
renew from an old `NOW()`; it ends `Timely` before it does.

**LockFile.** Until a lock is stolen, whoever is between acquisition and release created
the lock file there is, and it is not stale where locks are taken over (`InsideOwnsLock`);
what it loaded is what the file holds (`LoadedIsCurrent`). Exclusion, the chain and the
refinement follow.

**FileJobs.** With any number of processes `AnyInv` holds: a job's id is given to one job
(`IdsDistinct`; a job cut off the file leaves its id used), and an execution that will
conclude a job completed has swept all of it (`WholeIsPast`). All steps of an execution are
shown to be of one kind (`Works`, `AdvanceEffect`): the file stays, or its job gets a status
that is earned, and a conclusion only together with the end of the execution or if it is the
status the file has. `CompletedEarned` needs no more, so it survives two processes that
execute one job together. `ConclusionKept` needs `OneProcess`, because two facts hold for
the process whose memory `inFlight` is: what a call of `start` has read of its job is still
what the file says when it goes on (`CallIsCurrent`), and no execution is left of a job that
is concluded (`AtWorkUnconcluded`). With them no update is of a concluded job: `start`
answers those, and an execution ends with the conclusion it writes. The model lets nothing
of the process run between the read and the look at `inFlight`; in the code one microtask
can, and an execution that writes its conclusion in it is in `inFlight` for several more.

**CircuitBreaker.** `WallWithinCooldown` and `StreakIsCounted`: what is left of a refusal's
wall fits into what is left of the cooldown, and the breaker has counted every failure no
later success has answered.

Only model-checked:

- liveness, and the fairness and `ENABLED` behind it, which the prover does not reach:
  `AbandonedIsReleased`, `RetryWindowOpens`, `RunningRunSettles`, `AllCollected`,
  `Recovers`, `EveryoneAnswered`, `KeyConcluded`;
- that the finding's `ToldAfterEdit` fails: it is refuted by a behaviour, not a theorem.

## 5. What is not modelled, and the plan

Not modelled on purpose: parsing of publisher pages, normalisation, calculators, static
catalogs, queries, rendering and exports. They share no state beyond what is above and
their examples are tested in the repository. Most of the repository's lines are of this
kind: `src/data.js` alone, generated listings, is 208,800 of its 332,910. The worker pool
and the two compactors are not called by anything but their tests. `PROJECT.json` lists
every component with its status and reason.

Parts of modelled components that are left out: `discovery_leases`; cycles without a durable
job, drift alarms and telemetry; snapshot files of the ledger; the readers of the health
row; creating, naming, enabling and deleting hunts and the rules that give a verdict;
sign-in tokens, and the cut of the file ledger of webhook events at 2,000.

The plan, most important first. Modules meant for proofs use functions and folds only.

1. Refinement between components: `FileJobs` over `AtomicStore`, and `WorkerIteration` as
   one more user of `JobContract`.
2. The enrichment DAG: stages, timeouts and late nodes.
3. Two processes of `FileJobs` and the stages of `finalize` in `CollectionCycle`, to replace
   the present two views of the coordinator by one.
