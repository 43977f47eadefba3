---------------------------- MODULE JobContract ----------------------------
(***************************************************************************)
(* What the durable job table promises to the collection cycle built on    *)
(* it: a job has one holder at a time, only the holder of a running job    *)
(* adds evidence or ends it, a completed job is finished, and a job that   *)
(* ended short of its scope comes back only through the queue.  No lease,  *)
(* no clock, no statement in flight: DiscoveryJobs implements this.        *)
(***************************************************************************)
EXTENDS Naturals, Sequences

CONSTANTS Job, Owner, NoOwner

VARIABLES
  status,    \* of the job
  holder,    \* the attempt that has the job while it runs
  attempts,  \* how many attempts were granted
  evidence   \* the attempts whose evidence was committed, in order

cvars == <<status, holder, attempts, evidence>>

Init == /\ status = [j \in Job |-> "absent"]
        /\ holder = [j \in Job |-> NoOwner]
        /\ attempts = [j \in Job |-> 0]
        /\ evidence = [j \in Job |-> <<>>]

Holds(o, j) == status[j] = "running" /\ holder[j] = o

\* A caller asks for the job: it is queued, or queued again.
Enqueue(j) == /\ status[j] \in {"absent", "partial", "failed"}
              /\ status' = [status EXCEPT ![j] = "queued"]
              /\ UNCHANGED <<holder, attempts, evidence>>

\* An attempt gets the job: from the queue, or from a holder that lost it.
Grant(o, j) == /\ status[j] \in {"queued", "running"}
               /\ status' = [status EXCEPT ![j] = "running"]
               /\ holder' = [holder EXCEPT ![j] = o]
               /\ attempts' = [attempts EXCEPT ![j] = @ + 1]
               /\ UNCHANGED evidence

\* The holder commits evidence in the name of the attempt granted last.
Commit(o, j) == /\ Holds(o, j)
                /\ evidence' = [evidence EXCEPT ![j] = Append(@, attempts[j])]
                /\ UNCHANGED <<status, holder, attempts>>

\* The holder ends the job.
Finish(o, j, s) == /\ Holds(o, j)
                   /\ status' = [status EXCEPT ![j] = s]
                   /\ holder' = [holder EXCEPT ![j] = NoOwner]
                   /\ UNCHANGED <<attempts, evidence>>

\* Jobs whose holders are gone are failed for them, any number at once.
Abandon(J) == /\ \A j \in J : status[j] = "running"
              /\ status' = [j \in Job |-> IF j \in J THEN "failed" ELSE status[j]]
              /\ holder' = [j \in Job |-> IF j \in J THEN NoOwner ELSE holder[j]]
              /\ UNCHANGED <<attempts, evidence>>

Next == \/ \E j \in Job :
             \/ Enqueue(j)
             \/ \E o \in Owner : \/ Grant(o, j) \/ Commit(o, j)
                                 \/ \E s \in {"completed", "partial", "failed"} :
                                      Finish(o, j, s)
        \/ \E J \in SUBSET Job : Abandon(J)

Spec == Init /\ [][Next]_cvars
=============================================================================
