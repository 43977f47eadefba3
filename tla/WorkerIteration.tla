-------------------------- MODULE WorkerIteration --------------------------
(***************************************************************************)
(* The loop of scripts/discovery-worker.js around the durable jobs: what   *)
(* an iteration claims, the heartbeat that renews the claim beside it, the *)
(* second job of a wider scope, and what ends the process.  How claims     *)
(* race on a row is DiscoveryJobs; what is collected is CollectionCycle; a *)
(* canary command, whose job no worker claims, is SourceRollout.           *)
(*                                                                         *)
(* Time is counted in units of Lease and Every.  The heartbeat's renewal,  *)
(* and the health row written after it, take as long as they take: until   *)
(* they are answered further beats are skipped, and the timer itself may   *)
(* be late.                                                                *)
(***************************************************************************)
EXTENDS Naturals, FiniteSets

CONSTANTS
  Worker,    \* worker processes of one wave
  Nobody,    \* lease_owner IS NULL, or an iteration that is over
  HasWider,  \* whether a collector searches more than the promoted scope
  Lease,     \* what a claim is for, 300 s
  Every      \* the heartbeat's interval, 120 s

ASSUME NobodyAssumption == Nobody \notin Worker
ASSUME WiderAssumption  == HasWider \in BOOLEAN
ASSUME LeaseAssumption  == Lease \in Nat /\ Every \in Nat /\ Lease > 2 * Every

\* The job of the sources that are due, and the one of the wider scope.
Job == {"due", "wider"}

VARIABLES
  jobs,    \* the rows of discovery_jobs
  workers, \* the iteration of each process
  stray    \* jobs whose renewal was under way when their iteration ended

vars == <<jobs, workers, stray>>

-----------------------------------------------------------------------------
\* unfinished: partial or failed, which can be tried again; new: no row, or queued.
Outcome  == {"completed", "unfinished"}
Status   == Outcome \cup {"new", "running"}
Timed    == {"collect", "finalize", "settled"}
Active   == {"claimed"} \cup Timed
Step     == {"idle", "ended"} \cup Active
Call     == {"none", "renew", "late", "health"}

\* job: the job whose id the heartbeat renews; hand: the job being executed; beat:
\* the time since the last beat; call: what the heartbeat waits for (its busy
\* flag), a renewal being late once a beat was missed meanwhile; slow: a beat was
\* missed since the last renewal that was not late.
Idle == [at |-> "idle", job |-> "due", hand |-> "due", healthy |-> TRUE, beat |-> 0,
         call |-> "none", slow |-> FALSE]

TypeOK ==
  /\ jobs \in [Job -> [status : Status, owner : Worker \cup {Nobody}, lease : 0 .. Lease]]
  /\ workers \in [Worker -> [at : Step, job : Job, hand : Job, healthy : BOOLEAN, beat : 0 .. Every,
                             call : Call, slow : BOOLEAN]]
  /\ stray \subseteq Job

NoJob == [status |-> "new", owner |-> Nobody, lease |-> 0]

Init ==
  /\ jobs = [j \in Job |-> NoJob]
  /\ workers = [w \in Worker |-> Idle]
  /\ stray = {}

-----------------------------------------------------------------------------
(* A definition Name_Suffix is Name with a plausible mistake in it.          *)

Live(j) == jobs[j].status = "running" /\ jobs[j].lease > 0
Owns(w, j) == jobs[j].owner = w /\ jobs[j].status = "running"

\* claimJob after createOrReuseJob: a new row, a queued or expired one, or one
\* that ended partial or failed and is reopened.
Claimable(j) == jobs[j].status \notin {"running", "completed"} \/ (jobs[j].status = "running" /\ ~Live(j))

\* failAbandonedJobs at the start of an iteration fails the jobs in `old`, whose
\* lease has expired an hour or more after their start.
Swept(old) == [j \in Job |-> IF j \in old THEN [jobs[j] EXCEPT !.status = "unfinished", !.owner = Nobody]
                             ELSE jobs[j]]

Expired == {j \in Job : jobs[j].status = "running" /\ ~Live(j)}

Claim_Interval(w, j, table) == [table EXCEPT ![j] = [status |-> "running", owner |-> w, lease |-> Every]]
Claim(w, j, table) == [table EXCEPT ![j] = [status |-> "running", owner |-> w, lease |-> Lease]]

\* One iteration up to its claim.  The worker takes the due job; when it is done
\* for this hour and a wider scope exists, the wider one.
Chosen_DueOnly == "due"
Chosen == IF jobs["due"].status # "completed" \/ ~HasWider THEN "due" ELSE "wider"

Begin(w) == \E old \in SUBSET Expired :
  LET j == Chosen
  IN  /\ workers[w].at = "idle"
      /\ \/ /\ j \in old \/ Claimable(j)
            /\ jobs' = Claim(w, j, Swept(old))
            /\ workers' = [workers EXCEPT ![w] = [Idle EXCEPT !.at = "claimed", !.job = j, !.hand = j]]
            /\ stray' = stray \ {j}
         \/ /\ ~(j \in old \/ Claimable(j))
            /\ jobs' = Swept(old)
            /\ UNCHANGED <<workers, stray>>

\* The health row is written, and only then the timer is set.
Start(w) ==
  /\ workers[w].at = "claimed"
  /\ workers' = [workers EXCEPT ![w].at = "collect"]
  /\ UNCHANGED <<jobs, stray>>

\* renewJobClaim
Renewable(w, j) == Owns(w, j) /\ Live(j)
Renewed(j, lease) == [jobs EXCEPT ![j].lease = lease]

\* What a missed beat does to an iteration.
Missed(x) == [x EXCEPT !.slow = TRUE, !.call = IF @ = "renew" THEN "late" ELSE @]

\* A timer that somebody reads.  It goes on while a second job is executed, but the
\* first job is concluded by then, and what it finds is read no more.
Beats(x) == x.at \in Timed /\ x.hand = x.job

\* The interval's callback sends a renewal of the job the iteration began with,
\* or returns at once while the last one, or its health row, is not written.
Beat(w) ==
  /\ Beats(workers[w]) /\ workers[w].beat = Every
  /\ workers' = [workers EXCEPT ![w] =
       [(IF workers[w].call = "none" THEN [workers[w] EXCEPT !.call = "renew"] ELSE Missed(workers[w]))
          EXCEPT !.beat = 0]]
  /\ UNCHANGED <<jobs, stray>>

\* A renewal is answered.  It counts from its own NOW(), which may be as old as
\* the renewal; the health row is next.  When it renews nothing, the lease is
\* unhealthy.
Answer(w) ==
  LET j == workers[w].job
  IN  /\ workers[w].call \in {"renew", "late"}
      /\ UNCHANGED stray
      /\ \/ \E waited \in 0 .. IF workers[w].call = "late" THEN Lease ELSE workers[w].beat :
              /\ Owns(w, j) /\ (Live(j) \/ waited > 0)
              /\ jobs' = Renewed(j, Lease - waited)
              /\ workers' = [workers EXCEPT ![w].call = "health", ![w].slow = @ /\ workers[w].call = "late"]
         \/ /\ ~Renewable(w, j)
            /\ workers' = [workers EXCEPT ![w].call = "none", ![w].healthy = FALSE]
            /\ UNCHANGED jobs

HealthWritten(w) ==
  /\ workers[w].call = "health"
  /\ workers' = [workers EXCEPT ![w].call = "none"]
  /\ UNCHANGED <<jobs, stray>>

\* A query of the heartbeat fails, with or without its effect.
Unanswered(w) ==
  /\ workers[w].call # "none"
  /\ workers' = [workers EXCEPT ![w].call = "none", ![w].healthy = FALSE]
  /\ \/ UNCHANGED jobs
     \/ /\ workers[w].call \in {"renew", "late"} /\ Renewable(w, workers[w].job)
        /\ jobs' = Renewed(workers[w].job, Lease)
  /\ UNCHANGED stray

\* The finally block clears the timer and the iteration is over: its owner is used
\* no more, but a renewal it had sent may still reach the row.
Over(w, next) ==
  /\ jobs' = [j \in Job |-> IF Owns(w, j) THEN [jobs[j] EXCEPT !.owner = Nobody] ELSE jobs[j]]
  /\ workers' = [workers EXCEPT ![w] = [Idle EXCEPT !.at = next]]
  /\ stray' = stray \cup {j \in {workers[w].job} : Owns(w, j) /\ workers[w].call \in {"renew", "late"}}

\* A lost lease ends the process: it is not among the transient errors of main.
LeaseLost(w) == Over(w, "ended")

\* The lease guard of execute for the job in hand: before each source, between
\* its writes and in finalize, where it is the first thing.
Guard(w, next) ==
  /\ workers[w].at \in {"collect", next}
  /\ LET j == workers[w].hand
     IN  \/ /\ Renewable(w, j)
            /\ jobs' = Renewed(j, Lease)
            /\ workers' = [workers EXCEPT ![w].at = next]
            /\ UNCHANGED stray
         \/ ~Renewable(w, j) /\ LeaseLost(w)

\* Owner and lease stay in a row that is closed; nothing reads them there.
Closed(j, outcome) == [jobs EXCEPT ![j] = [NoJob EXCEPT !.status = outcome]]

\* The last update of execute is fenced by owner and lease; without them it throws.
\* A cycle that failed is closed at once, without a guard.  finalize leaves a job
\* that it finds concluded as it is.
Fenced(w, j) == Renewable(w, j)
Executed(w) == IF workers[w].hand = workers[w].job
               THEN workers' = [workers EXCEPT ![w].at = "settled"]
               ELSE workers' = [workers EXCEPT ![w] = Idle]
Settle(w, outcome) ==
  LET j == workers[w].hand
  IN  /\ workers[w].at = "finalize" \/ (workers[w].at = "collect" /\ outcome = "unfinished")
      /\ \/ Fenced(w, j) /\ jobs' = Closed(j, outcome) /\ Executed(w) /\ UNCHANGED stray
         \/ ~Fenced(w, j) /\ LeaseLost(w)
         \/ /\ workers[w].at = "finalize" /\ jobs[j].status \in Outcome
            /\ Executed(w)
            /\ UNCHANGED <<jobs, stray>>

\* After execute: an unhealthy lease throws, whatever became of the job; then the
\* wider job is claimed under the same owner, unless it was this one.
Second(w) == workers[w].job = "due" /\ HasWider /\ Claimable("wider")
Proceed(w) ==
  /\ workers[w].at = "settled"
  /\ \/ ~workers[w].healthy /\ LeaseLost(w)
     \/ /\ workers[w].healthy /\ Second(w)
        /\ jobs' = Claim(w, "wider", jobs)
        /\ workers' = [workers EXCEPT ![w] = [Idle EXCEPT !.at = "collect", !.hand = "wider"]]
        /\ stray' = stray \ {"wider"}
     \/ workers[w].healthy /\ ~Second(w) /\ Over(w, "idle")

\* Another error escapes from the iteration, and a transient one does not end the
\* process; or the process crashes.
Escape(w) == \E next \in {"idle", "ended"} :
  /\ workers[w].at \in Active
  /\ Over(w, next)

\* restart: unless-stopped
Restart(w) ==
  /\ workers[w].at = "ended"
  /\ workers' = [workers EXCEPT ![w] = Idle]
  /\ UNCHANGED <<jobs, stray>>

\* A renewal of an iteration that is over reaches the row.
Afterwards == \E j \in stray :
  /\ stray' = stray \ {j}
  /\ jobs' = IF jobs[j].status = "running" THEN Renewed(j, Lease) ELSE jobs
  /\ UNCHANGED workers

\* Time passes; a beat that is due and does not come is missed, and so is the
\* time in which there is no timer yet.
Passed(x) == IF Beats(x) /\ x.beat < Every THEN [x EXCEPT !.beat = @ + 1]
             ELSE IF Beats(x) \/ x.at = "claimed" THEN Missed(x) ELSE x
Passing ==
  /\ \E j \in Job : Live(j)
  /\ jobs' = [j \in Job |-> IF Live(j) THEN [jobs[j] EXCEPT !.lease = @ - 1] ELSE jobs[j]]
  /\ workers' = [w \in Worker |-> Passed(workers[w])]
  /\ UNCHANGED stray

Loop(w) == Begin(w) \/ Start(w) \/ Proceed(w) \/ Restart(w)

Conclude(w) == \E outcome \in Outcome : Settle(w, outcome)

Next ==
  \/ Passing
  \/ Afterwards
  \/ \E w \in Worker :
       \/ Loop(w)
       \/ Beat(w) \/ Answer(w) \/ HealthWritten(w) \/ Unanswered(w)
       \/ \E next \in {"collect", "finalize"} : Guard(w, next)
       \/ Conclude(w)
       \/ Escape(w)

Spec == Init /\ [][Next]_vars

\* Time passes and processes go on.  An iteration's first job, when it is tried
\* again and again with its lease, is started, swept and whole at last; nothing is
\* assumed of the second job, nor that a heartbeat is ever answered.
First(w) == workers[w].hand = workers[w].job /\ Renewable(w, workers[w].hand)
FairSpec == Spec /\ WF_vars(Passing)
                 /\ \A w \in Worker :
                      /\ WF_vars(Loop(w))
                      /\ WF_vars(Guard(w, "finalize"))
                      /\ WF_vars(Conclude(w))
                      /\ SF_vars(First(w) /\ Start(w))
                      /\ SF_vars(First(w) /\ workers[w].at = "collect" /\ Guard(w, "finalize"))
                      /\ SF_vars(First(w) /\ Settle(w, "completed"))

-----------------------------------------------------------------------------
(* What the loop is for.                                                     *)

\* While a worker executes the job it began with, it owns it: nobody executes
\* beside it.  It loses the job in three ways only: a heartbeat failed, or one has
\* been missed since the last renewal (because an earlier one hangs, or the timer
\* is late), or the first health row took its time.  Only the first of the three
\* clears leaseHealthy (discovery-worker.js:118-121).
HealthyOwns == \A w \in Worker :
  /\ workers[w].at \in {"collect", "finalize"} /\ workers[w].hand = workers[w].job
  /\ workers[w].healthy /\ ~workers[w].slow
  => Owns(w, workers[w].job)

\* The due sources are collected in the end, and so is a wider scope, whatever
\* crashed, lost its lease or was partial before: although a heartbeat that finds
\* its job already settled ends the process, and although the timer does not renew
\* the wider job while it is a second one; when nothing is due, an iteration begins
\* with it (store.js:150-156, discovery-worker.js:111-137).
AllCollected == <>[](\A j \in Job : j = "due" \/ HasWider => jobs[j].status = "completed")
=============================================================================
