--------------------------- MODULE CollectionCycle ---------------------------
(***************************************************************************)
(* One collection cycle, as server/scrapers/scheduler.js runs it under a   *)
(* durable job and server/sources/collection-coordinator.js settles it:    *)
(* a bounded number of sources at a time, and for each source the durable  *)
(* checkpoint, the collector run, the feed, one fenced write per record,   *)
(* the outcome of the run and the advance of the checkpoint.               *)
(*                                                                         *)
(* Several processes (workers, the scheduler, the API) run cycles of       *)
(* different jobs, or of the same job one after the other, over the same   *)
(* sources.  Within a process the collectors are singletons: what a cycle  *)
(* sets on a collector (setCheckpoint) and reads back from it after the    *)
(* writes (lastRunReport) is shared by every cycle of that process, and    *)
(* only the flag isRunning keeps two cycles apart.                         *)
(*                                                                         *)
(* The job table appears as JobContract promises it (DiscoveryJobs         *)
(* implements that contract): a holder, and whether its lease runs.  A     *)
(* publisher's feed is the records 1 .. Records in the publisher's order.  *)
(***************************************************************************)
EXTENDS Integers, FiniteSets, FiniteSetsExt

CONSTANTS
  Job,         \* rows of discovery_jobs
  Attempt,     \* claims: one uuid each, so an attempt runs one cycle
  Process,     \* operating system processes
  Source,      \* source keys
  None,        \* nobody, no job
  ProcessOf,   \* the process an attempt belongs to
  Named,       \* the sources a job's row names, all with a collector
  Serving,     \* sources whose catalog entry may serve listings
  Resumable,   \* sources whose collector resumes from a checkpoint
  Records,     \* records in a publisher's feed
  Budget,      \* records a run of a resumable collector reads at most
  Concurrency, \* sources a cycle works on at once
  MaxAttempts  \* bound: attempts that claim a job

ASSUME NoneAssumption  == None \notin Attempt \cup Job
ASSUME ScopeAssumption == /\ ProcessOf \in [Attempt -> Process]
                          /\ Named \in [Job -> SUBSET Source]
                          /\ Serving \subseteq Source
                          /\ Resumable \subseteq Source
ASSUME FeedAssumption  == /\ Records \in Nat \ {0}
                          /\ Budget \in Nat \ {0}
                          /\ Concurrency \in Nat \ {0}
ASSUME BoundAssumption == MaxAttempts \in Nat

VARIABLES
  status,    \* of the job
  holder,    \* the attempt the row names while it runs
  live,      \* whether that attempt's lease still runs
  run,       \* discovery_source_runs, by job and source: status, full, sweep
  ckpt,      \* discovery_checkpoints, by source: next = 0 is the cursor {}
  stored,    \* by source and record: the newest sweep whose copy was handled
  sweeps,    \* how many sweeps were started: the names of sweeps
  collector, \* the collectors of a process: checkpoint and last report
  pc,        \* where the attempt is
  tgt,       \* the job it claimed
  work       \* what the attempt's cycle is doing for each source

jobVars     == <<status, holder, live>>
durable     == <<run, ckpt, stored>>
attemptVars == <<pc, tgt>>
vars        == <<status, holder, live, run, ckpt, stored, sweeps, collector, pc, tgt, work>>

-----------------------------------------------------------------------------
\* The sources a cycle of the job runs: runAll passes what the job names through
\* admitListingsScrapers, which drops the others with a line in the log.
Scope == [j \in Job |-> Named[j] \cap Serving]

Record == 1 .. Records
Sweep  == 0 .. sweeps                 \* 0: no sweep

Ended     == {"completed", "partial", "failed"}
Control   == {"new", "claimed", "cycle", "settling", "done"}
Finished  == {"ok", "failed", "lost"}                  \* its worker has returned
InFlight  == {"ready", "begun", "writing", "saving"}   \* a worker has taken it

RunRow    == [status : {"none", "running", "complete", "partial", "failed"},
              full : BOOLEAN, sweep : Nat]
Cursor    == [next : 0 .. Records, sweep : Nat]
\* next, sweep: set from the checkpoint.  end, cut, missed: the last report's
\* continuation token, whether it says truncated, and what it did not reach.
Collector == [next : 0 .. Records, sweep : Nat, end : 0 .. Records,
              cut : BOOLEAN, missed : BOOLEAN]
Work      == [at : {"waiting"} \cup InFlight \cup Finished,
              todo : SUBSET Record, sweep : Nat, accepted : BOOLEAN, cut : BOOLEAN]

NoRun    == [status |-> "none", full |-> FALSE, sweep |-> 0]
Start    == [next |-> 0, sweep |-> 0]
Unused   == [next |-> 0, sweep |-> 0, end |-> 0, cut |-> FALSE, missed |-> FALSE]
Waiting  == [at |-> "waiting", todo |-> {}, sweep |-> 0, accepted |-> FALSE, cut |-> FALSE]
Untouched == [s \in Source |-> Waiting]

\* Sweep 1 is the past: earlier jobs may have left a resumable source anywhere
\* in its feed, with the records up to there handled.
Init ==
  /\ status = [j \in Job |-> "absent"]
  /\ holder = [j \in Job |-> None]
  /\ live = [j \in Job |-> FALSE]
  /\ run = [j \in Job |-> [s \in Source |-> NoRun]]
  /\ \E done \in [Resumable -> 0 .. Records - 1] :
       LET past(s) == IF s \in Resumable THEN done[s] ELSE 0 IN
       /\ ckpt = [s \in Source |->
                    IF past(s) = 0 THEN Start ELSE [next |-> past(s), sweep |-> 1]]
       /\ stored = [s \in Source |-> [r \in Record |-> IF r <= past(s) THEN 1 ELSE 0]]
  /\ sweeps = 1
  /\ collector = [p \in Process |-> [s \in Source |-> Unused]]
  /\ pc = [a \in Attempt |-> "new"]
  /\ tgt = [a \in Attempt |-> None]
  /\ work = [a \in Attempt |-> Untouched]

-----------------------------------------------------------------------------
(* The job table, by its contract.  A definition Name_Suffix is Name with a   *)
(* plausible mistake in it; it is used only to see that a property notices.  *)

\* createOrReuseJob, and the reopening of a job that ended short of its scope.
Ask(j) ==
  /\ status[j] \in {"absent", "partial", "failed"}
  /\ status' = [status EXCEPT ![j] = "queued"]
  /\ UNCHANGED <<holder, live, durable, sweeps, collector, attemptVars, work>>

\* claimJob: a queued job, or one whose holder's lease ran out.
Claim(a, j) ==
  /\ pc[a] = "new"
  /\ Cardinality({b \in Attempt : pc[b] # "new"}) < MaxAttempts
  /\ status[j] = "queued" \/ (status[j] = "running" /\ ~live[j])
  /\ status' = [status EXCEPT ![j] = "running"]
  /\ holder' = [holder EXCEPT ![j] = a]
  /\ live' = [live EXCEPT ![j] = TRUE]
  /\ pc' = [pc EXCEPT ![a] = "claimed"]
  /\ tgt' = [tgt EXCEPT ![a] = j]
  /\ UNCHANGED <<durable, sweeps, collector, work>>

\* The lease runs out, while its holder works or after it is gone.
Expire(j) ==
  /\ live[j]
  /\ live' = [live EXCEPT ![j] = FALSE]
  /\ UNCHANGED <<status, holder, durable, sweeps, collector, attemptVars, work>>

\* A heartbeat that reached the database before the lease ran out, and waited
\* there, renews it afterwards.
RenewLate(a) ==
  /\ pc[a] \in {"claimed", "cycle", "settling"}
  /\ holder[tgt[a]] = a /\ status[tgt[a]] = "running" /\ ~live[tgt[a]]
  /\ live' = [live EXCEPT ![tgt[a]] = TRUE]
  /\ UNCHANGED <<status, holder, durable, sweeps, collector, attemptVars, work>>

\* The row of an ended job names no holder whose lease could matter.
EndJob(j, s) == /\ status' = [status EXCEPT ![j] = s]
                /\ holder' = [holder EXCEPT ![j] = None]
                /\ live' = [live EXCEPT ![j] = FALSE]

\* failAbandonedJobs.
SweepJob(j) ==
  /\ status[j] = "running" /\ ~live[j]
  /\ EndJob(j, "failed")
  /\ UNCHANGED <<durable, sweeps, collector, attemptVars, work>>

\* failAbandonedRuns: a run still `running` although no job under a live lease
\* accounts for it.  Its age, at least a minute, is left out.
Unaccounted_JobRuns(j) == status[j] = "running" /\ ~live[j]
Unaccounted(j) == ~(status[j] = "running" /\ live[j])
SweepRun(j, s) ==
  /\ run[j][s].status = "running"
  /\ Unaccounted(j)
  /\ run' = [run EXCEPT ![j][s].status = "failed"]
  /\ UNCHANGED <<jobVars, ckpt, stored, sweeps, collector, attemptVars, work>>

\* assertLease and assertJobClaim: every durable write of an attempt asks this
\* first and commits only under it; otherwise DISCOVERY_JOB_LEASE_LOST.
Holds_Unchecked(a) == TRUE
Holds_AnyHolder(a) == status[tgt[a]] = "running" /\ live[tgt[a]]
Holds(a) == status[tgt[a]] = "running" /\ holder[tgt[a]] = a /\ live[tgt[a]]

-----------------------------------------------------------------------------
(* The cycle *)

\* isRunning, set when a cycle starts and cleared by stopCycle.
Busy_Never(p) == FALSE
Busy(p) == \E a \in Attempt : ProcessOf[a] = p /\ pc[a] = "cycle"

\* execute and runAll up to the sources.  Another cycle of this process makes
\* runAll return `skipped`, which finalize settles as partial.
Execute(a) ==
  /\ pc[a] = "claimed"
  /\ pc' = [pc EXCEPT ![a] = CASE ~Holds(a) -> "done"
                               [] Busy(ProcessOf[a]) -> "settling"
                               [] OTHER -> "cycle"]
  /\ UNCHANGED <<jobVars, durable, sweeps, collector, tgt, work>>

\* The cycle fails before its sources (storage, a source it does not know) and
\* execute writes `failed`.
CycleFails(a) ==
  /\ pc[a] = "claimed"
  /\ IF Holds(a)
     THEN EndJob(tgt[a], "failed")
     ELSE UNCHANGED jobVars
  /\ pc' = [pc EXCEPT ![a] = "done"]
  /\ UNCHANGED <<durable, sweeps, collector, tgt, work>>

At(a, s, point) == pc[a] = "cycle" /\ s \in Scope[tgt[a]] /\ work[a][s].at = point
Lose(a, s)      == work' = [work EXCEPT ![a][s].at = "lost"]

\* mapWithConcurrency hands a source to a free worker, which reads the durable
\* checkpoint and sets it on the collector of this process.
StartSource(a, s) ==
  /\ At(a, s, "waiting")
  /\ Cardinality({t \in Source : work[a][t].at \in InFlight}) < Concurrency
  /\ IF Holds(a)
     THEN /\ work' = [work EXCEPT ![a][s].at = "ready"]
          /\ collector' = IF s \in Resumable
                          THEN [collector EXCEPT ![ProcessOf[a]][s] =
                                  [@ EXCEPT !.next = ckpt[s].next, !.sweep = ckpt[s].sweep]]
                          ELSE collector
     ELSE Lose(a, s) /\ UNCHANGED collector
  /\ UNCHANGED <<jobVars, durable, sweeps, attemptVars>>

\* beginRun: the row of an earlier attempt of this job is returned as it is.
BeginRun(a, s) ==
  /\ At(a, s, "ready")
  /\ IF Holds(a)
     THEN /\ work' = [work EXCEPT ![a][s].at = "begun"]
          /\ run' = IF run[tgt[a]][s].status = "none"
                    THEN [run EXCEPT ![tgt[a]][s].status = "running"] ELSE run
     ELSE Lose(a, s) /\ UNCHANGED run
  /\ UNCHANGED <<jobVars, ckpt, stored, sweeps, collector, attemptVars>>

\* What a resumable collector can come back with: it reads on from the
\* checkpoint within its budget, or stops early without a usable token.
PagesFrom_NoEnd(c) ==
  {[got |-> {c.next + 1}, end |-> c.next + Budget, cut |-> TRUE, missed |-> TRUE]}
PagesFrom(c) ==
  LET last == IF c.next + Budget < Records THEN c.next + Budget ELSE Records
  IN {[got |-> (c.next + 1) .. last, end |-> IF last < Records THEN last ELSE 0,
       cut |-> last < Records, missed |-> last < Records]}
     \cup {[got |-> (c.next + 1) .. n, end |-> 0, cut |-> TRUE, missed |-> TRUE] :
             n \in (c.next + 1) .. last}

\* A one-pass collector takes what its requests return and reports the parts
\* that failed; it has no budget and no token.
OnePass == {[got |-> R, end |-> 0, cut |-> FALSE, missed |-> R # Record] : R \in SUBSET Record}

\* scrapeFeed: a sweep that no checkpoint continues is a new one.
Scrape(a, s) ==
  LET p == ProcessOf[a]
      c == collector[p][s]
      continued == s \in Resumable /\ c.sweep # 0
      sweep == IF continued THEN c.sweep ELSE sweeps + 1
  IN /\ At(a, s, "begun")
     /\ sweeps' = IF continued THEN sweeps ELSE sweeps + 1
     /\ \E feed \in (IF s \in Resumable THEN PagesFrom(c) ELSE OnePass) :
          /\ collector' = [collector EXCEPT ![p][s] =
               [next |-> c.next, sweep |-> sweep, end |-> feed.end,
                cut |-> feed.cut, missed |-> feed.missed]]
          /\ work' = [work EXCEPT ![a][s] =
               [at |-> "writing", todo |-> feed.got, sweep |-> sweep,
                accepted |-> FALSE, cut |-> FALSE]]
     /\ UNCHANGED <<jobVars, durable, attemptVars>>

Newer(m, n) == IF m > n THEN m ELSE n

\* One record: validation rejects it, or ingestSnapshot stores snapshot and
\* listing in one fenced transaction.  Either way it has been dealt with.
WriteRecord(a, s) ==
  LET w == work[a][s]
      r == Min(w.todo)
  IN /\ At(a, s, "writing")
     /\ w.todo # {}
     /\ IF Holds(a)
        THEN /\ stored' = [stored EXCEPT ![s][r] = Newer(@, w.sweep)]
             /\ \E valid \in BOOLEAN :
                  work' = [work EXCEPT ![a][s] = [@ EXCEPT !.todo = w.todo \ {r},
                                                           !.accepted = w.accepted \/ valid]]
        ELSE Lose(a, s) /\ UNCHANGED stored
     /\ UNCHANGED <<jobVars, run, ckpt, sweeps, collector, attemptVars>>

AllWritten_Always(a, s) == TRUE
AllWritten(a, s) == work[a][s].todo = {}

\* finishRun, with what the collector's last report says by now.
FinishRun(a, s) ==
  LET c == collector[ProcessOf[a]][s] IN
  /\ At(a, s, "writing")
  /\ AllWritten(a, s)
  /\ IF Holds(a)
     THEN /\ run' = [run EXCEPT ![tgt[a]][s] =
               [status |-> IF c.missed THEN "partial" ELSE "complete",
                full |-> ~c.missed, sweep |-> c.sweep]]
          /\ work' = [work EXCEPT ![a][s] = [@ EXCEPT !.at = "saving", !.cut = c.cut]]
     ELSE Lose(a, s) /\ UNCHANGED run
  /\ UNCHANGED <<jobVars, ckpt, stored, sweeps, collector, attemptVars>>

CursorOf(c) == IF c.end # 0 THEN [next |-> c.end, sweep |-> c.sweep] ELSE Start

\* saveCheckpoint, last: the report's token, or {} when there is none.
SaveCheckpoint(a, s) ==
  LET c == collector[ProcessOf[a]][s] IN
  /\ At(a, s, "saving")
  /\ IF Holds(a)
     THEN /\ ckpt' = [ckpt EXCEPT ![s] = CursorOf(c)]
          /\ work' = [work EXCEPT ![a][s].at = "ok"]
     ELSE Lose(a, s) /\ UNCHANGED ckpt
  /\ UNCHANGED <<jobVars, run, stored, sweeps, collector, attemptVars>>

\* Any other error (network, parser, circuit breaker, storage, one write): the
\* run is marked failed, or that too fails and the row stays as it is.
SourceFails(a, s) ==
  LET begun == work[a][s].at # "ready" IN
  /\ \E point \in InFlight : At(a, s, point)
  /\ \/ /\ ~begun \/ Holds(a)
        /\ work' = [work EXCEPT ![a][s] = [Waiting EXCEPT !.at = "failed"]]
        /\ \/ begun /\ run' = [run EXCEPT ![tgt[a]][s] = [@ EXCEPT !.status = "failed",
                                                                  !.full = FALSE]]
           \/ UNCHANGED run
     \/ /\ begun /\ ~Holds(a)
        /\ Lose(a, s) /\ UNCHANGED run
  /\ UNCHANGED <<jobVars, ckpt, stored, sweeps, collector, attemptVars>>

\* Promise.all: every worker has returned, stopCycle, and a lost lease of any
\* source ends the attempt.
EndSources(a) ==
  /\ pc[a] = "cycle"
  /\ \A s \in Scope[tgt[a]] : work[a][s].at \in Finished
  /\ pc' = [pc EXCEPT ![a] =
       IF \E s \in Scope[tgt[a]] : work[a][s].at = "lost" THEN "done" ELSE "settling"]
  /\ work' = [work EXCEPT ![a] = IF pc'[a] = "done" THEN Untouched ELSE @]
  /\ UNCHANGED <<jobVars, durable, sweeps, collector, tgt>>

\* collectionCyclePartial over the results of the sources.
CyclePartial_AnyAccepted(w) == \A s \in Source : ~w[s].accepted
CyclePartial(w) == \/ \E s \in Source : w[s].cut
                   \/ \E s \in Source : w[s].at = "failed"
                   \/ \A s \in Source : ~w[s].accepted

\* finalize, under the claim still: partial also when the hunts or the cases
\* stage fails, an evaluation is truncated, or an empty source kept no history.
Settle(a) ==
  /\ pc[a] = "settling"
  /\ IF Holds(a)
     THEN \E s \in {"partial"} \cup (IF CyclePartial(work[a]) THEN {} ELSE {"completed"}) :
            EndJob(tgt[a], s)
     ELSE UNCHANGED jobVars
  /\ pc' = [pc EXCEPT ![a] = "done"]
  /\ work' = [work EXCEPT ![a] = Untouched]
  /\ UNCHANGED <<durable, sweeps, collector, tgt>>

\* An error of the database escapes execute: its own update outside or after the
\* try, or finalize, whose promise it returns unawaited.  The attempt is over and
\* the job stays running until its lease runs out.
Escape(a) ==
  /\ pc[a] \in {"claimed", "settling"}
  /\ pc' = [pc EXCEPT ![a] = "done"]
  /\ work' = [work EXCEPT ![a] = Untouched]
  /\ UNCHANGED <<jobVars, durable, sweeps, collector, tgt>>

\* The process dies; the next one starts with collectors of its own.
Crash(p) ==
  LET gone == {a \in Attempt : ProcessOf[a] = p /\ pc[a] \in {"claimed", "cycle", "settling"}}
  IN /\ gone # {}
     /\ pc' = [a \in Attempt |-> IF a \in gone THEN "done" ELSE pc[a]]
     /\ work' = [a \in Attempt |-> IF a \in gone THEN Untouched ELSE work[a]]
     /\ collector' = [collector EXCEPT ![p] = [s \in Source |-> Unused]]
     /\ UNCHANGED <<jobVars, durable, sweeps, tgt>>

\* Bound: the attempts of the instance are used up, or no job asks for another.
AllUsed ==
  /\ \A a \in Attempt : pc[a] \in {"new", "done"}
  /\ \A j \in Job : status[j] \notin {"absent", "running"}
  /\ UNCHANGED vars

-----------------------------------------------------------------------------
Pipeline(a, s) == \/ StartSource(a, s) \/ BeginRun(a, s) \/ Scrape(a, s)
                  \/ WriteRecord(a, s) \/ FinishRun(a, s) \/ SaveCheckpoint(a, s)

Cycle(a) == Execute(a) \/ EndSources(a) \/ Settle(a)

Next == \/ \E j \in Job : \/ Ask(j) \/ Expire(j) \/ SweepJob(j)
                          \/ \E a \in Attempt : Claim(a, j)
                          \/ \E s \in Source : SweepRun(j, s)
        \/ \E a \in Attempt : \/ RenewLate(a) \/ Cycle(a) \/ CycleFails(a) \/ Escape(a)
                              \/ \E s \in Source : Pipeline(a, s) \/ SourceFails(a, s)
        \/ \E p \in Process : Crash(p)
        \/ AllUsed

Spec == Init /\ [][Next]_vars

\* A cycle that does not crash goes on: requests time out and feeds end.  The
\* lease of an attempt that is over runs out, and workers sweep for ever.
Gone(j) == /\ \A a \in Attempt : holder[j] = a => pc[a] = "done"
           /\ Expire(j)

Fairness == /\ \A a \in Attempt : /\ WF_vars(Cycle(a))
                                  /\ \A s \in Source : WF_vars(Pipeline(a, s))
            /\ \A j \in Job : /\ WF_vars(Gone(j))
                              /\ \A s \in Source : WF_vars(SweepRun(j, s))

FairSpec == Spec /\ Fairness

-----------------------------------------------------------------------------
(* Properties *)

\* Every variable holds a value of its type; no sweep is named before it starts.
TypeOK ==
  /\ status \in [Job -> {"absent", "queued", "running"} \cup Ended]
  /\ holder \in [Job -> Attempt \cup {None}]
  /\ live \in [Job -> BOOLEAN]
  /\ run \in [Job -> [Source -> RunRow]]
  /\ ckpt \in [Source -> Cursor]
  /\ stored \in [Source -> [Record -> Sweep]]
  /\ sweeps \in Nat
  /\ collector \in [Process -> [Source -> Collector]]
  /\ pc \in [Attempt -> Control]
  /\ tgt \in [Attempt -> Job \cup {None}]
  /\ work \in [Attempt -> [Source -> Work]]

\* docs/discovery-brain-runbook.md: a run "commits a checkpoint only after
\* accepted records have been stored".  Whatever a checkpoint lets the next run
\* skip has been dealt with since the sweep it continues began.
CheckpointCovered ==
  \A s \in Source : \A r \in 1 .. ckpt[s].next : stored[s][r] >= ckpt[s].sweep

\* "Partial pages are never counted as clean complete canaries": a run recorded
\* complete and as a full sweep has dealt with every record of the feed since
\* its sweep began, over however many runs, jobs, processes and crashes.
FullSweepHonest ==
  \A j \in Job, s \in Source :
    (run[j][s].status = "complete" /\ run[j][s].full) =>
      \A r \in Record : stored[s][r] >= run[j][s].sweep

\* A job that counts as completed has an outcome for every source the cycle admits,
\* and it is not `failed`: no run of it is open for the sweeper to fail later.  (A
\* source the job names and the admission gate drops has no run at all.)
CompletedRunsSettled ==
  \A j \in Job : status[j] = "completed" =>
    \A s \in Scope[j] : run[j][s].status \in {"complete", "partial"}

\* The runs of a completed job are evidence for promotions; an attempt that was
\* superseded, or a sweep, does not rewrite them afterwards.
CompletedRunsFrozen ==
  [][\A j \in Job : status[j] = "completed" => run'[j] = run[j]]_vars

\* Promotion counts distinct full runs, and only what a lease holder recorded: the
\* attempt whose step writes a run row, an outcome or a failure, is the one that
\* holds the job under a live lease in that step, or it is the sweep, which fails a
\* run no live job accounts for.  An attempt that was displaced writes nothing,
\* also while its successor collects the same source.
OutcomesOnlyUnderClaim ==
  [][\A j \in Job, s \in Source : run'[j][s] # run[j][s] =>
       \/ \E a \in Attempt : /\ holder[j] = a /\ live[j]
                             /\ pc[a] = "cycle" /\ tgt[a] = j
                             /\ work'[a][s] # work[a][s]
       \/ /\ run[j][s].status = "running" /\ run'[j][s].status = "failed"
          /\ ~(status[j] = "running" /\ live[j])
          /\ work' = work]_vars

\* A run does not stay `running`: its attempt finishes it or the sweep fails it.
RunningRunSettles ==
  \A j \in Job, s \in Source : run[j][s].status = "running" ~> run[j][s].status # "running"

\* The cycle treats the job table as its contract allows: only the holder ends a
\* job, an ended job comes back through the queue, a completed one never does.
\* (The contract's evidence, the fenced writes, is left out of this mapping.)
Granted(j) == Cardinality({a \in Attempt : tgt[a] = j})
Contract == INSTANCE JobContract WITH
  Owner    <- Attempt,
  NoOwner  <- None,
  attempts <- [j \in Job |-> Granted(j)],
  evidence <- [j \in Job |-> <<>>]
KeepsContract == Contract!Spec
=============================================================================
