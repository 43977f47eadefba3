------------------------------ MODULE FileJobs ------------------------------
(***************************************************************************)
(* Collection jobs without PostgreSQL: CollectionJobStore, one JSON file,  *)
(* and the coordinator that starts, executes and finalizes jobs on it.     *)
(* There is no lease here.  The only thing that keeps a job from being     *)
(* executed twice is inFlight, a map in the memory of one process; the     *)
(* server and the command line are processes of their own.  That a         *)
(* mutation of the file is atomic is LockFile; what remains of the lock    *)
(* here is that a mutation may find it taken and throw: by a writer that   *)
(* is at work, or by one that crashed, whose lock file nothing removes.    *)
(***************************************************************************)
EXTENDS Naturals, Sequences, FiniteSets, SequencesExt

CONSTANTS
  Proc,       \* processes with a coordinator
  Key,        \* idempotency keys
  NoKey,      \* a job without one
  MaxJobs,    \* MAX_JOBS
  MaxCreated, \* bound: jobs ever created
  MaxBusy,    \* bound: mutations that find another writer at work
  MaxDeaths   \* bound: crashes

ASSUME KeyAssumption == NoKey \notin Key
ASSUME BoundAssumption ==
  MaxJobs \in Nat \ {0} /\ {MaxCreated, MaxBusy, MaxDeaths} \subseteq Nat

Id    == 1 .. MaxCreated
Fault == [busy : 0 .. MaxBusy, deaths : 0 .. MaxDeaths, locked : BOOLEAN]

VARIABLES
  jobs,    \* the file, newest job first
  made,    \* jobs created so far
  run,     \* run[p][id]: how far p is with executing id
  calling, \* the start() of each process that has created or found its job
  past,    \* history: the jobs that had a sweep that was whole
  faults   \* mutations that found a writer at work, crashes, and the lock left by one

vars == <<jobs, made, run, calling, past, faults>>

-----------------------------------------------------------------------------
Terminal == {"completed", "partial", "failed"}
Job == [id : Id, key : Key \cup {NoKey}, status : Terminal \cup {"queued", "running"}]

\* "cycle": a sweep of the scheduler itself; "threw": the sweep failed;
\* "caughtCases", "caught": finalize handles an error in its cases, and then in
\* its hunts stage.
Stage  == {"idle", "sweep", "cycle", "threw", "stages", "hunts", "cases", "caughtCases", "caught"}
Result == [safe : BOOLEAN, whole : BOOLEAN]
Idle   == [at |-> "idle", result |-> [safe |-> FALSE, whole |-> FALSE]]
NoCall == [id |-> 0, status |-> "queued"]

TypeOK ==
  /\ jobs \in Seq(Job) /\ Len(jobs) <= MaxJobs
  /\ made \in 0 .. MaxCreated
  /\ run \in [Proc -> [Id -> [at : Stage, result : Result]]]
  /\ calling \in [Proc -> [id : 0 .. MaxCreated, status : Terminal \cup {"queued", "running"}]]
  /\ past \subseteq Id
  /\ faults \in Fault

Init ==
  /\ jobs = <<>> /\ made = 0
  /\ run = [p \in Proc |-> [id \in Id |-> Idle]]
  /\ calling = [p \in Proc |-> NoCall]
  /\ past = {}
  /\ faults = [busy |-> 0, deaths |-> 0, locked |-> FALSE]

Stored   == {jobs[i].id : i \in DOMAIN jobs}
StatusOf(id) == IF id \in Stored THEN (CHOOSE j \in ToSet(jobs) : j.id = id).status ELSE "gone"
Holding(key) == {j \in ToSet(jobs) : key # NoKey /\ j.key = key}

\* One microtask lies between the result of createOrReuse and the look at
\* inFlight.  An execution that concludes in it leaves inFlight several later, so
\* start answers as if nothing of its process had run in between.
Idles(p) == calling[p] = NoCall

-----------------------------------------------------------------------------
(* A definition Name_Suffix is Name with a plausible mistake in it.          *)

\* data.jobs.unshift(job); data.jobs.slice(0, MAX_JOBS)
Kept(list) == SubSeq(list, 1, IF Len(list) < MaxJobs THEN Len(list) ELSE MaxJobs)

Create(key) ==
  /\ ~faults.locked /\ made < MaxCreated
  /\ made' = made + 1
  /\ jobs' = Kept(<<[id |-> made', key |-> key, status |-> "queued"]>> \o jobs)

\* start(): createOrReuse, a mutation also where it only finds the job.
Start(p, key) ==
  /\ Idles(p) /\ ~faults.locked
  /\ \/ \E j \in Holding(key) :
          calling' = [calling EXCEPT ![p] = [id |-> j.id, status |-> j.status]]
          /\ UNCHANGED <<jobs, made>>
     \/ /\ Holding(key) = {}
        /\ Create(key)
        /\ calling' = [calling EXCEPT ![p] = [id |-> made', status |-> "queued"]]
  /\ UNCHANGED <<run, past, faults>>

\* update(): takes effect, or throws because the lock is taken (after a crash
\* that left it, every time) or the job is not in the file any more.
Put(id, status) ==
  /\ id \in Stored /\ ~faults.locked
  /\ jobs' = [i \in DOMAIN jobs |->
                IF jobs[i].id = id THEN [jobs[i] EXCEPT !.status = status] ELSE jobs[i]]
  /\ UNCHANGED faults

Throws(id) ==
  /\ UNCHANGED jobs
  /\ \/ (id \notin Stored \/ faults.locked) /\ UNCHANGED faults
     \/ faults.busy < MaxBusy /\ faults' = [faults EXCEPT !.busy = @ + 1]

Goes(p, id, stage) == run' = [run EXCEPT ![p][id].at = stage]
Ends(p, id)        == run' = [run EXCEPT ![p][id] = Idle]

\* What start() returns without executing.
Answered_Interrupted(p) == calling[p].status \in Terminal \cup {"running"}
Answered_Finished(p)    == calling[p].status \in Terminal \ {"partial"} \/ run[p][calling[p].id] # Idle
Answered(p) == calling[p].status \in Terminal \/ run[p][calling[p].id] # Idle

\* start() and the beginning of execute(); an error there ends the call.
Launch(p) ==
  /\ ~Idles(p)
  /\ calling' = [calling EXCEPT ![p] = NoCall]
  /\ LET id == calling[p].id
     IN  \/ Answered(p) /\ UNCHANGED <<jobs, run, faults>>
         \/ ~Answered(p) /\ Put(id, "running") /\ Goes(p, id, "sweep")
         \/ ~Answered(p) /\ Throws(id) /\ UNCHANGED run
  /\ UNCHANGED <<made, past>>

\* The scheduler's own cycle: a job without a key, which stays queued meanwhile
\* and for good when the sweep throws.
Cycle(p) ==
  /\ Idles(p)
  /\ Create(NoKey)
  /\ Goes(p, made', "cycle")
  /\ UNCHANGED <<calling, past, faults>>

At(p, id, stage) == Idles(p) /\ run[p][id].at = stage
Rest == UNCHANGED <<made, calling>>

\* runAll returns; finalize leaves a job alone that is gone or concluded.
Swept(p, id) ==
  /\ At(p, id, "sweep") \/ At(p, id, "cycle")
  /\ \E result \in Result :
       /\ past' = IF result.whole THEN past \cup {id} ELSE past
       /\ run' = [run EXCEPT ![p][id] = IF StatusOf(id) \in Terminal \cup {"gone"} THEN Idle
                                        ELSE [at |-> "stages", result |-> result]]
  /\ UNCHANGED <<jobs, faults>> /\ Rest

SweepThrows(p, id) ==
  /\ \/ At(p, id, "sweep") /\ Goes(p, id, "threw")
     \/ At(p, id, "cycle") /\ Ends(p, id)
  /\ UNCHANGED <<jobs, past, faults>> /\ Rest

\* The update of execute's catch block.
Failed(p, id) ==
  /\ At(p, id, "threw")
  /\ Put(id, "failed") \/ Throws(id)
  /\ Ends(p, id) /\ UNCHANGED past /\ Rest

Concluded_Always(p, id) == "completed"
Concluded(p, id) == IF run[p][id].result.whole THEN "completed" ELSE "partial"

\* The stages collection, inventory and observations, and without a safe source
\* the end.  An error here is handled by nobody: execute returns finalize's
\* promise without awaiting it, and start ignores it.
Stages(p, id) ==
  /\ At(p, id, "stages")
  /\ \/ /\ run[p][id].result.safe /\ Put(id, StatusOf(id)) /\ Goes(p, id, "hunts")
     \/ /\ ~run[p][id].result.safe /\ Put(id, Concluded(p, id)) /\ Ends(p, id)
     \/ Throws(id) /\ Ends(p, id)
  /\ UNCHANGED past /\ Rest

\* The hunts are evaluated, or their evaluation, inventory or update throws.
Hunts(p, id) ==
  /\ At(p, id, "hunts")
  /\ \/ /\ Put(id, StatusOf(id)) /\ Goes(p, id, "cases")
     \/ (Throws(id) \/ UNCHANGED <<jobs, faults>>) /\ Goes(p, id, "caught")
  /\ UNCHANGED past /\ Rest

\* The cases are handed off and the job concluded; a truncated evaluation makes
\* it partial.
Cases(p, id) ==
  /\ At(p, id, "cases")
  /\ \/ \E status \in {Concluded(p, id), "partial"} : Put(id, status) /\ Ends(p, id)
     \/ (Throws(id) \/ UNCHANGED <<jobs, faults>>) /\ Goes(p, id, "caughtCases")
  /\ UNCHANGED past /\ Rest

Caught(p, id) ==
  /\ \/ At(p, id, "caughtCases") /\ Throws(id) /\ Goes(p, id, "caught")
     \/ At(p, id, "caughtCases") /\ Put(id, "partial") /\ Ends(p, id)
     \/ At(p, id, "caught") /\ (Put(id, "partial") \/ Throws(id)) /\ Ends(p, id)
  /\ UNCHANGED past /\ Rest

\* A crash; the process starts again with an empty inFlight.  One in the midst
\* of a mutation, before or after its write, leaves the lock file for good.
Crash(p) ==
  /\ faults.deaths < MaxDeaths
  /\ \E left \in BOOLEAN :
       faults' = [faults EXCEPT !.deaths = @ + 1, !.locked = @ \/ left]
  /\ run' = [run EXCEPT ![p] = [id \in Id |-> Idle]]
  /\ calling' = [calling EXCEPT ![p] = NoCall]
  /\ UNCHANGED <<jobs, made, past>>

Advance(p, id) ==
  Swept(p, id) \/ SweepThrows(p, id) \/ Failed(p, id) \/ Stages(p, id)
  \/ Hunts(p, id) \/ Cases(p, id) \/ Caught(p, id)

Next == \E p \in Proc :
  \/ Launch(p) \/ Cycle(p) \/ Crash(p)
  \/ \E id \in Id : Advance(p, id)
  \/ \E key \in Key \cup {NoKey} : Start(p, key)

Spec == Init /\ [][Next]_vars

\* Sweeps end, and whoever wants a key collected asks again with the same key.
FairSpec == Spec /\ \A p \in Proc : /\ WF_vars(Launch(p))
                                    /\ \A id \in Id : SF_vars(Advance(p, id))
                                    /\ \A key \in Key : SF_vars(Start(p, key))

-----------------------------------------------------------------------------
(* What the jobs are for.                                                    *)

\* A job that reports completed had a sweep that was whole, whichever of its
\* executions, errors and crashes came after (collection-coordinator.js:239, 295).
CompletedEarned == \A j \in ToSet(jobs) : j.status = "completed" => j.id \in past

\* With one process, a conclusion is final: no retry, crash or late error of the
\* same job changes it (collection-coordinator.js:206, 232).
ConclusionKept == [][\A j \in ToSet(jobs) : j.status \in Terminal =>
                      \A k \in ToSet(jobs') : k.id = j.id => k = j]_vars

\* A key that is asked for again and again is concluded, whatever crashed, threw
\* or found another writer at work before, unless newer jobs cut its job off the
\* file or a crash left the lock, which ends all writing: no process is left with
\* a job that it takes for running for ever (collection-coordinator.js:203-214).
KeyConcluded == \A key \in Key :
  Holding(key) # {} ~> faults.locked \/ \A j \in Holding(key) : j.status \in Terminal
=============================================================================
