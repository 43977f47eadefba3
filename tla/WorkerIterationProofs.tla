----------------------- MODULE WorkerIterationProofs -----------------------
(***************************************************************************)
(* Proofs about WorkerIteration for any number of worker processes, with   *)
(* and without a wider scope, and for every lease of more than two beats.  *)
(***************************************************************************)
EXTENDS WorkerIteration, Integers, TLAPS

Row  == [status : Status, owner : Worker \cup {Nobody}, lease : 0 .. Lease]
Work == [at : Step, job : Job, hand : Job, healthy : BOOLEAN, beat : 0 .. Every,
         call : Call, slow : BOOLEAN]

\* A worker that executes the job it began with, none of whose beats failed or was
\* missed since the last renewal.
Timely(x) == /\ x.at \in {"claimed", "collect", "finalize"} /\ x.hand = x.job
             /\ x.healthy /\ ~x.slow

\* It owns the job, and has as much of the lease left as the time since its last
\* beat allows; one interval less while a renewal is under way.
Enough(v, x, r) ==
  /\ r.owner = v /\ r.status = "running"
  /\ r.lease + x.beat >= IF x.call = "renew" THEN Lease - Every ELSE Lease

Current(v) == /\ workers[v].call = "late" => workers[v].slow
              /\ Timely(workers[v]) => Enough(v, workers[v], jobs[workers[v].job])

IndInv == TypeOK /\ \A v \in Worker : Current(v)

LEMMA Types == TypeOK <=> jobs \in [Job -> Row] /\ workers \in [Worker -> Work] /\ stray \subseteq Job
  BY DEF TypeOK, Row, Work

LEMMA Constants == Lease \in Nat /\ Every \in Nat /\ Lease > 2 * Every
  BY LeaseAssumption

LEMMA IdleIs ==
  /\ Idle \in Work
  /\ \A s \in Step : LET y == [Idle EXCEPT !.at = s]
                     IN  y \in Work /\ y.at = s /\ y.call = "none"
  /\ Idle.at = "idle" /\ Idle.call = "none" /\ Idle.beat = 0
<1>1. Idle \in Work
  BY Constants DEF Idle, Work, Step, Active, Timed, Job, Call
<1>2. \A x \in Work, s \in Step : LET y == [x EXCEPT !.at = s]
                                 IN  y \in Work /\ y.at = s /\ y.call = x.call
  BY DEF Work
<1>3. Idle.at = "idle" /\ Idle.call = "none" /\ Idle.beat = 0
  BY DEF Idle
<1>. QED
  BY <1>1, <1>2, <1>3

\* No job, and every process idle.
LEMMA InitInv == Init => IndInv
<1>. SUFFICES ASSUME Init PROVE IndInv
  OBVIOUS
<1>1. NoJob \in Row
  BY Constants DEF NoJob, Row, Status
<1>2. jobs \in [Job -> Row] /\ workers \in [Worker -> Work] /\ stray \subseteq Job
  BY <1>1, IdleIs DEF Init
<1>3. \A v \in Worker : Current(v)
  BY IdleIs DEF Init, Current, Timely
<1>. QED
  BY <1>2, <1>3, Types DEF IndInv

-----------------------------------------------------------------------------
(* The rows.  A step of w leaves every live row it does not own alone.       *)

Others(w, table) == \A j \in Job : Live(j) /\ ~Owns(w, j) => table[j] = jobs[j]

\* What the statements write is a row again.
LEMMA Written ==
  ASSUME NEW r \in Row
  PROVE  /\ [r EXCEPT !.status = "unfinished", !.owner = Nobody] \in Row
         /\ [r EXCEPT !.owner = Nobody] \in Row
         /\ \A l \in 0 .. Lease : LET n == [r EXCEPT !.lease = l]
                                  IN  n \in Row /\ n.lease = l /\ n.owner = r.owner /\ n.status = r.status
         /\ \A w \in Worker : [status |-> "running", owner |-> w, lease |-> Lease] \in Row
         /\ \A o \in Outcome : [NoJob EXCEPT !.status = o] \in Row
<1>. USE Constants DEF Row, Status, Outcome
<1>1. [r EXCEPT !.status = "unfinished", !.owner = Nobody] \in Row
  OBVIOUS
<1>2. [r EXCEPT !.owner = Nobody] \in Row
  OBVIOUS
<1>3. \A l \in 0 .. Lease : LET n == [r EXCEPT !.lease = l]
                           IN  n \in Row /\ n.lease = l /\ n.owner = r.owner /\ n.status = r.status
  OBVIOUS
<1>4. \A w \in Worker : [status |-> "running", owner |-> w, lease |-> Lease] \in Row
  OBVIOUS
<1>5. \A o \in Outcome : [NoJob EXCEPT !.status = o] \in Row
  BY DEF NoJob
<1>. QED
  BY <1>1, <1>2, <1>3, <1>4, <1>5

\* The sweep leaves live rows alone.
LEMMA SweptIs ==
  ASSUME TypeOK, NEW old \in SUBSET Expired
  PROVE  Swept(old) \in [Job -> Row] /\ \A j \in Job : Live(j) => Swept(old)[j] = jobs[j]
<1>1. jobs \in [Job -> Row]
  BY Types
<1>2. \A j \in Job : [jobs[j] EXCEPT !.status = "unfinished", !.owner = Nobody] \in Row
  BY <1>1, Written
<1>3. \A j \in Job : Live(j) => j \notin old
  BY DEF Expired
<1>. HIDE DEF Row
<1>. QED
  BY <1>1, <1>2, <1>3 DEF Swept

\* A claim takes a row that is not live, and makes it the claimant's.
LEMMA ClaimIs ==
  ASSUME TypeOK, NEW w \in Worker, NEW j \in Job, ~Live(j), NEW table \in [Job -> Row],
         \A i \in Job : Live(i) => table[i] = jobs[i], jobs' = Claim(w, j, table)
  PROVE  /\ jobs' \in [Job -> Row] /\ Others(w, jobs')
         /\ jobs'[j].owner = w /\ jobs'[j].status = "running" /\ jobs'[j].lease = Lease
<1>1. [status |-> "running", owner |-> w, lease |-> Lease] \in Row
  BY Constants DEF Row, Status
<1>2. jobs' = [table EXCEPT ![j] = [status |-> "running", owner |-> w, lease |-> Lease]]
  BY DEF Claim
<1>3. jobs'[j] = [status |-> "running", owner |-> w, lease |-> Lease] /\ jobs' \in [Job -> Row]
  BY <1>1, <1>2
<1>4. \A i \in Job : Live(i) => jobs'[i] = jobs[i]
  BY <1>2
<1>. QED
  BY <1>3, <1>4 DEF Others

LEMMA RenewedIs ==
  ASSUME TypeOK, NEW j \in Job, NEW l \in 0 .. Lease, jobs' = Renewed(j, l)
  PROVE  /\ jobs' \in [Job -> Row] /\ jobs'[j].lease = l
         /\ jobs'[j].owner = jobs[j].owner /\ jobs'[j].status = jobs[j].status
         /\ \A i \in Job \ {j} : jobs'[i] = jobs[i]
<1>1. jobs \in [Job -> Row]
  BY Types
<1>2. /\ [jobs[j] EXCEPT !.lease = l] \in Row /\ [jobs[j] EXCEPT !.lease = l].lease = l
      /\ [jobs[j] EXCEPT !.lease = l].owner = jobs[j].owner
      /\ [jobs[j] EXCEPT !.lease = l].status = jobs[j].status
  BY <1>1, Written
<1>3. jobs' = [jobs EXCEPT ![j] = [jobs[j] EXCEPT !.lease = l]]
  BY DEF Renewed
<1>. QED
  BY <1>1, <1>2, <1>3

\* The end of an iteration leaves the rows of others alone.
LEMMA OverIs ==
  ASSUME TypeOK, NEW w \in Worker, NEW s \in {"idle", "ended"}, Over(w, s)
  PROVE  /\ jobs' \in [Job -> Row] /\ Others(w, jobs') /\ stray' \subseteq Job
         /\ workers' \in [Worker -> Work] /\ workers'[w].at = s /\ workers'[w].call = "none"
         /\ \A v \in Worker \ {w} : workers'[v] = workers[v]
<1>1. jobs \in [Job -> Row] /\ workers \in [Worker -> Work] /\ stray \subseteq Job
  BY Types
<1>2. \A j \in Job : [jobs[j] EXCEPT !.owner = Nobody] \in Row
  BY <1>1, Written
<1>3. s \in Step /\ workers[w].job \in Job
  BY <1>1 DEF Step, Work
<1>4. jobs' \in [Job -> Row] /\ Others(w, jobs')
  <2>. HIDE DEF Row
  <2>. QED
    BY <1>1, <1>2 DEF Over, Others
<1>5. stray' \subseteq Job
  BY <1>1, <1>3 DEF Over
<1>6. workers' = [workers EXCEPT ![w] = [Idle EXCEPT !.at = s]]
  BY DEF Over
<1>. QED
  BY <1>1, <1>3, <1>4, <1>5, <1>6, IdleIs

-----------------------------------------------------------------------------
(* The job of a timely worker is live, and what another process does leaves  *)
(* it so.                                                                    *)

LEMMA TimelyLive ==
  ASSUME IndInv, NEW v \in Worker, Timely(workers[v])
  PROVE  LET j == workers[v].job
         IN  j \in Job /\ Owns(v, j) /\ Live(j) /\ Enough(v, workers[v], jobs[j])
<1>. DEFINE j == workers[v].job
<1>1. /\ jobs[j] \in Row /\ j \in Job /\ workers[v].beat \in 0 .. Every
  BY Types DEF IndInv, Work
<1>2. Enough(v, workers[v], jobs[j])
  BY DEF IndInv, Current
<1>3. jobs[j].lease \in Nat /\ jobs[j].lease + workers[v].beat >= Lease - Every
  BY <1>1, <1>2, Constants DEF Row, Enough
<1>4. jobs[j].lease > 0
  BY <1>1, <1>3, Constants
<1>. QED
  BY <1>1, <1>2, <1>4 DEF Enough, Owns, Live

LEMMA OthersKeep ==
  ASSUME IndInv, NEW w, NEW v \in Worker, v # w, workers'[v] = workers[v], Others(w, jobs')
  PROVE  Current(v)'
<1>1. workers[v].call = "late" => workers[v].slow
  BY DEF IndInv, Current
<1>2. ASSUME Timely(workers[v]) PROVE Enough(v, workers[v], jobs'[workers[v].job])
  <2>1. LET j == workers[v].job
        IN  j \in Job /\ Owns(v, j) /\ Live(j) /\ Enough(v, workers[v], jobs[j])
    BY <1>2, TimelyLive
  <2>. QED
    BY <2>1 DEF Others, Owns
<1>. QED
  BY <1>1, <1>2 DEF Current

\* So a step of w has to be looked at for w alone.
LEMMA StepOf ==
  ASSUME IndInv, NEW w \in Worker, jobs' \in [Job -> Row], workers' \in [Worker -> Work],
         stray' \subseteq Job, Others(w, jobs'), \A v \in Worker \ {w} : workers'[v] = workers[v],
         Current(w)'
  PROVE  IndInv'
<1>1. TypeOK'
  BY Types DEF TypeOK, Row, Work
<1>2. \A v \in Worker : Current(v)'
  BY OthersKeep
<1>. QED
  BY <1>1, <1>2 DEF IndInv

-----------------------------------------------------------------------------
LEMMA BeginKeeps ==
  ASSUME IndInv, NEW w \in Worker, Begin(w)
  PROVE  IndInv'
<1>0. TypeOK /\ jobs \in [Job -> Row] /\ workers \in [Worker -> Work] /\ stray \subseteq Job
  BY Types DEF IndInv
<1>. DEFINE j == Chosen
            y == [Idle EXCEPT !.at = "claimed", !.job = j, !.hand = j]
<1>1. PICK old \in SUBSET Expired :
        \/ /\ j \in old \/ Claimable(j)
           /\ jobs' = Claim(w, j, Swept(old))
           /\ workers' = [workers EXCEPT ![w] = y]
           /\ stray' = stray \ {j}
        \/ jobs' = Swept(old) /\ UNCHANGED <<workers, stray>>
  BY DEF Begin
<1>2. j \in Job /\ Swept(old) \in [Job -> Row] /\ \A i \in Job : Live(i) => Swept(old)[i] = jobs[i]
  BY <1>0, SweptIs DEF Chosen, Job
<1>. HIDE DEF j
<1>3. CASE /\ j \in old \/ Claimable(j)
           /\ jobs' = Claim(w, j, Swept(old))
           /\ workers' = [workers EXCEPT ![w] = y]
           /\ stray' = stray \ {j}
  <2>1. ~Live(j)
    BY <1>3 DEF Expired, Claimable, Live
  <2>2. /\ jobs' \in [Job -> Row] /\ Others(w, jobs')
        /\ jobs'[j].owner = w /\ jobs'[j].status = "running" /\ jobs'[j].lease = Lease
    BY <1>0, <1>2, <1>3, <2>1, ClaimIs
  <2>3. y \in Work /\ y.job = j /\ y.beat = 0 /\ y.call = "none"
    <3>1. "claimed" \in Step
      BY DEF Step, Active
    <3>. QED
      BY <1>2, <3>1, IdleIs DEF Work
  <2>. HIDE DEF y
  <2>4. workers'[w] = y /\ workers' \in [Worker -> Work] /\ \A v \in Worker \ {w} : workers'[v] = workers[v]
    BY <1>0, <1>3, <2>3
  <2>5. Current(w)'
    BY <2>2, <2>3, <2>4, Constants DEF Current, Enough
  <2>. QED
    BY <1>0, <1>3, <2>2, <2>4, <2>5, StepOf
<1>4. CASE jobs' = Swept(old) /\ UNCHANGED <<workers, stray>>
  <2>1. Others(w, jobs')
    BY <1>2, <1>4 DEF Others
  <2>2. Current(w)'
    <3>1. ASSUME Timely(workers[w]) PROVE jobs'[workers[w].job] = jobs[workers[w].job]
      BY <1>2, <1>4, <3>1, TimelyLive
    <3>. QED
      BY <1>4, <3>1 DEF IndInv, Current
  <2>. QED
    BY <1>0, <1>2, <1>4, <2>1, <2>2, StepOf
<1>. QED
  BY <1>1, <1>3, <1>4

\* Steps that write no row.
LEMMA SilentKeeps ==
  ASSUME IndInv, NEW w \in Worker, NEW x \in Work, workers' = [workers EXCEPT ![w] = x],
         UNCHANGED jobs, stray' = stray,
         x.call = "late" => x.slow,
         Timely(x) => Enough(w, x, jobs[x.job])
  PROVE  IndInv'
<1>1. jobs \in [Job -> Row] /\ workers \in [Worker -> Work] /\ stray \subseteq Job
  BY Types DEF IndInv
<1>2. workers'[w] = x /\ workers' \in [Worker -> Work] /\ \A v \in Worker \ {w} : workers'[v] = workers[v]
  BY <1>1
<1>3. Current(w)'
  BY <1>2 DEF Current
<1>. QED
  BY <1>1, <1>2, <1>3, StepOf DEF Others

\* Steps that renew the row of the worker itself.
LEMMA RenewKeeps ==
  ASSUME IndInv, NEW w \in Worker, NEW x \in Work, workers' = [workers EXCEPT ![w] = x],
         NEW j \in Job, NEW l \in 0 .. Lease, Owns(w, j), jobs' = Renewed(j, l), stray' = stray,
         x.call = "late" => x.slow,
         Timely(x) => x.job = j /\ (l + x.beat >= Lease)
  PROVE  IndInv'
<1>1. TypeOK /\ jobs \in [Job -> Row] /\ workers \in [Worker -> Work] /\ stray \subseteq Job
  BY Types DEF IndInv
<1>2. workers'[w] = x /\ workers' \in [Worker -> Work] /\ \A v \in Worker \ {w} : workers'[v] = workers[v]
  BY <1>1
<1>3. /\ jobs' \in [Job -> Row] /\ jobs'[j].lease = l
      /\ jobs'[j].owner = jobs[j].owner /\ jobs'[j].status = jobs[j].status
      /\ \A i \in Job \ {j} : jobs'[i] = jobs[i]
  BY <1>1, RenewedIs
<1>4. Others(w, jobs')
  BY <1>3 DEF Others
<1>5. ASSUME Timely(x) PROVE Enough(w, x, jobs'[x.job])
  <2>1. x.beat \in Nat /\ l \in Nat
    BY Constants DEF Work
  <2>2. jobs'[x.job].lease + x.beat >= Lease /\ jobs'[x.job].owner = w /\ jobs'[x.job].status = "running"
    BY <1>3, <1>5 DEF Owns
  <2>. QED
    BY <1>3, <1>5, <2>1, <2>2, Constants DEF Enough
<1>6. Current(w)'
  BY <1>2, <1>5 DEF Current
<1>. QED
  BY <1>1, <1>2, <1>3, <1>4, <1>6, StepOf

\* Steps after which the worker does not execute its first job.
LEMMA AwayKeeps ==
  ASSUME IndInv, NEW w \in Worker, jobs' \in [Job -> Row], workers' \in [Worker -> Work],
         stray' \subseteq Job, Others(w, jobs'), \A v \in Worker \ {w} : workers'[v] = workers[v],
         ~Timely(workers'[w]), workers'[w].call = "late" => workers'[w].slow
  PROVE  IndInv'
  BY StepOf DEF Current

LEMMA OverKeeps ==
  ASSUME IndInv, NEW w \in Worker, NEW s \in {"idle", "ended"}, Over(w, s)
  PROVE  IndInv'
<1>1. TypeOK
  BY DEF IndInv
<1>2. /\ jobs' \in [Job -> Row] /\ Others(w, jobs') /\ stray' \subseteq Job
      /\ workers' \in [Worker -> Work] /\ workers'[w].at = s /\ workers'[w].call = "none"
      /\ \A v \in Worker \ {w} : workers'[v] = workers[v]
  BY <1>1, OverIs
<1>3. ~Timely(workers'[w])
  BY <1>2 DEF Timely
<1>. QED
  BY <1>2, <1>3, AwayKeeps

\* A missed beat is remembered.
LEMMA MissedIs ==
  ASSUME NEW x \in Work
  PROVE  Missed(x) \in Work /\ Missed(x).slow
<1>. DEFINE c == IF x.call = "renew" THEN "late" ELSE x.call
<1>1. c \in Call
  BY DEF Work, Call
<1>2. Missed(x) = [x EXCEPT !.slow = TRUE, !.call = c]
  BY DEF Missed
<1>. HIDE DEF c
<1>. QED
  BY <1>1, <1>2 DEF Work

LEMMA StartKeeps ==
  ASSUME IndInv, NEW w \in Worker, Start(w)
  PROVE  IndInv'
<1>. DEFINE x == workers[w]
            y == [x EXCEPT !.at = "collect"]
<1>1. x \in Work /\ "collect" \in Step
  BY Types DEF IndInv, Step, Active, Timed
<1>2. /\ y \in Work /\ y.at = "collect" /\ y.job = x.job /\ y.hand = x.hand
      /\ y.healthy = x.healthy /\ y.beat = x.beat /\ y.call = x.call /\ y.slow = x.slow
  BY <1>1 DEF Work
<1>3. workers' = [workers EXCEPT ![w] = y] /\ UNCHANGED jobs /\ stray' = stray /\ x.at = "claimed"
  BY DEF Start
<1>4. Current(w)
  BY DEF IndInv
<1>. HIDE DEF y
<1>5. (y.call = "late" => y.slow) /\ (Timely(y) => Enough(w, y, jobs[y.job]))
  BY <1>2, <1>3, <1>4 DEF Current, Timely, Enough
<1>. QED
  BY <1>2, <1>3, <1>5, SilentKeeps

\* A beat that is sent at its time leaves an interval less.
LEMMA BeatKeeps ==
  ASSUME IndInv, NEW w \in Worker, Beat(w)
  PROVE  IndInv'
<1>. DEFINE x == workers[w]
            m == IF x.call = "none" THEN [x EXCEPT !.call = "renew"] ELSE Missed(x)
            y == [m EXCEPT !.beat = 0]
<1>1. x \in Work /\ "renew" \in Call /\ 0 \in 0 .. Every /\ x.job \in Job
  BY Types, Constants DEF IndInv, Call, Work
<1>2. m \in Work /\ (x.call # "none" => m.slow)
      /\ (x.call = "none" => /\ m.at = x.at /\ m.job = x.job /\ m.hand = x.hand
                             /\ m.healthy = x.healthy /\ m.call = "renew" /\ m.slow = x.slow)
  <2>1. x.call # "none" => m \in Work /\ m.slow
    BY <1>1, MissedIs
  <2>2. x.call = "none" => m = [x EXCEPT !.call = "renew"]
    OBVIOUS
  <2>. HIDE DEF m
  <2>. QED
    BY <1>1, <2>1, <2>2 DEF Work
<1>. HIDE DEF m
<1>3. /\ y \in Work /\ y.at = m.at /\ y.job = m.job /\ y.hand = m.hand /\ y.beat = 0
      /\ y.healthy = m.healthy /\ y.call = m.call /\ y.slow = m.slow
  BY <1>1, <1>2 DEF Work
<1>4. workers' = [workers EXCEPT ![w] = y] /\ UNCHANGED jobs /\ stray' = stray /\ x.beat = Every
  BY DEF Beat, m
<1>5. Current(w) /\ jobs[x.job] \in Row
  BY <1>1, Types DEF IndInv
<1>. HIDE DEF y
<1>6. y.call = "late" => y.slow
  BY <1>2, <1>3
<1>7. ASSUME Timely(y) PROVE Enough(w, y, jobs[y.job])
  <2>1. x.call = "none" /\ Timely(x) /\ y.job = x.job /\ y.call = "renew"
    BY <1>2, <1>3, <1>7 DEF Timely
  <2>2. Enough(w, x, jobs[x.job])
    BY <1>5, <2>1 DEF Current
  <2>3. jobs[x.job].lease + Every >= Lease /\ jobs[x.job].lease \in Nat
    BY <1>4, <1>5, <2>1, <2>2 DEF Enough, Row
  <2>4. jobs[x.job].lease + 0 >= Lease - Every
    BY <2>3, Constants
  <2>. QED
    BY <1>3, <2>1, <2>2, <2>4 DEF Enough
<1>. QED
  BY <1>3, <1>4, <1>6, <1>7, SilentKeeps

\* A renewal that is not late brings back the whole lease, less what it took.
LEMMA AnswerKeeps ==
  ASSUME IndInv, NEW w \in Worker, Answer(w)
  PROVE  IndInv'
<1>. DEFINE x == workers[w]
            j == x.job
<1>1. x \in Work /\ j \in Job /\ x.beat \in 0 .. Every /\ "none" \in Call /\ "health" \in Call
  BY Types DEF IndInv, Work, Call
<1>2. Current(w) /\ x.call \in {"renew", "late"} /\ stray' = stray
  BY DEF IndInv, Answer
<1>3. CASE \E waited \in 0 .. IF x.call = "late" THEN Lease ELSE x.beat :
             /\ Owns(w, j)
             /\ jobs' = Renewed(j, Lease - waited)
             /\ workers' = [workers EXCEPT ![w].call = "health", ![w].slow = @ /\ x.call = "late"]
  <2>1. PICK waited \in 0 .. IF x.call = "late" THEN Lease ELSE x.beat :
             /\ Owns(w, j)
             /\ jobs' = Renewed(j, Lease - waited)
             /\ workers' = [workers EXCEPT ![w].call = "health", ![w].slow = @ /\ x.call = "late"]
    BY <1>3
  <2>2. PICK b \in BOOLEAN : b = (x.slow /\ x.call = "late")
    BY <1>1 DEF Work
  <2>. DEFINE y == [x EXCEPT !.call = "health", !.slow = b]
  <2>3. workers' = [workers EXCEPT ![w] = y]
    <3>1. workers' = [workers EXCEPT ![w] = [x EXCEPT !.call = "health", !.slow = x.slow /\ x.call = "late"]]
      BY <2>1, Zenon
    <3>. QED
      BY <2>2, <3>1
  <2>4. /\ y \in Work /\ y.at = x.at /\ y.job = x.job /\ y.hand = x.hand
        /\ y.healthy = x.healthy /\ y.beat = x.beat /\ y.call = "health" /\ y.slow = b
    BY <1>1 DEF Work
  <2>5. Lease - waited \in 0 .. Lease /\ (x.call # "late" => Lease - waited + x.beat >= Lease)
    BY <1>1, <2>1, Constants
  <2>. HIDE DEF y
  <2>6. Timely(y) => x.call # "late"
    BY <1>2, <2>2, <2>4 DEF Timely, Current
  <2>. QED
    BY <1>1, <1>2, <2>1, <2>3, <2>4, <2>5, <2>6, RenewKeeps
<1>4. CASE UNCHANGED jobs /\ workers' = [workers EXCEPT ![w].call = "none", ![w].healthy = FALSE]
  <2>. DEFINE y == [x EXCEPT !.call = "none", !.healthy = FALSE]
  <2>1. y \in Work /\ ~y.healthy /\ y.call = "none"
    BY <1>1 DEF Work
  <2>2. workers' = [workers EXCEPT ![w] = y]
    BY <1>4, Zenon
  <2>. HIDE DEF y
  <2>. QED
    BY <1>2, <1>4, <2>1, <2>2, SilentKeeps DEF Timely
<1>. QED
  BY <1>3, <1>4 DEF Answer

LEMMA HealthWrittenKeeps ==
  ASSUME IndInv, NEW w \in Worker, HealthWritten(w)
  PROVE  IndInv'
<1>. DEFINE x == workers[w]
            y == [x EXCEPT !.call = "none"]
<1>1. x \in Work /\ "none" \in Call
  BY Types DEF IndInv, Call
<1>2. /\ y \in Work /\ y.at = x.at /\ y.job = x.job /\ y.hand = x.hand
      /\ y.healthy = x.healthy /\ y.beat = x.beat /\ y.call = "none" /\ y.slow = x.slow
  BY <1>1 DEF Work
<1>3. workers' = [workers EXCEPT ![w] = y] /\ UNCHANGED jobs /\ stray' = stray /\ x.call = "health"
  BY DEF HealthWritten
<1>4. Current(w)
  BY DEF IndInv
<1>. HIDE DEF y
<1>5. Timely(y) => Enough(w, y, jobs[y.job])
  BY <1>2, <1>3, <1>4 DEF Current, Timely, Enough
<1>. QED
  BY <1>2, <1>3, <1>5, SilentKeeps

LEMMA UnansweredKeeps ==
  ASSUME IndInv, NEW w \in Worker, Unanswered(w)
  PROVE  IndInv'
<1>. DEFINE x == workers[w]
            y == [x EXCEPT !.call = "none", !.healthy = FALSE]
<1>1. x \in Work /\ "none" \in Call /\ x.job \in Job
  BY Types DEF IndInv, Call, Work
<1>2. y \in Work /\ ~y.healthy /\ y.call = "none"
  BY <1>1 DEF Work
<1>3. workers' = [workers EXCEPT ![w] = y] /\ stray' = stray
  BY Zenon DEF Unanswered
<1>4. UNCHANGED jobs \/ (Owns(w, x.job) /\ jobs' = Renewed(x.job, Lease))
  BY DEF Unanswered, Renewable
<1>5. Lease \in 0 .. Lease
  BY Constants
<1>. HIDE DEF y
<1>6. CASE UNCHANGED jobs
  BY <1>2, <1>3, <1>6, SilentKeeps DEF Timely
<1>7. CASE Owns(w, x.job) /\ jobs' = Renewed(x.job, Lease)
  BY <1>1, <1>2, <1>3, <1>5, <1>7, RenewKeeps DEF Timely
<1>. QED
  BY <1>4, <1>6, <1>7

LEMMA GuardKeeps ==
  ASSUME IndInv, NEW w \in Worker, NEW next \in {"collect", "finalize"}, Guard(w, next)
  PROVE  IndInv'
<1>. DEFINE x == workers[w]
            y == [x EXCEPT !.at = next]
<1>1. x \in Work /\ next \in Step /\ x.hand \in Job /\ x.beat \in Nat /\ Lease \in 0 .. Lease
  BY Types, Constants DEF IndInv, Step, Active, Timed, Work
<1>2. y \in Work /\ y.job = x.job /\ y.hand = x.hand /\ y.beat = x.beat /\ y.call = x.call /\ y.slow = x.slow
  BY <1>1 DEF Work
<1>3. CASE Renewable(w, x.hand) /\ jobs' = Renewed(x.hand, Lease)
           /\ workers' = [workers EXCEPT ![w].at = next] /\ UNCHANGED stray
  <2>1. workers' = [workers EXCEPT ![w] = y] /\ Owns(w, x.hand)
    BY <1>3 DEF Renewable
  <2>. HIDE DEF y
  <2>2. y.call = "late" => y.slow
    BY <1>2 DEF IndInv, Current
  <2>3. Timely(y) => y.job = x.hand /\ Lease + y.beat >= Lease
    BY <1>1, <1>2, Constants DEF Timely
  <2>. QED
    BY <1>1, <1>2, <1>3, <2>1, <2>2, <2>3, RenewKeeps
<1>4. CASE LeaseLost(w)
  BY <1>4, OverKeeps DEF LeaseLost
<1>. QED
  BY <1>3, <1>4 DEF Guard

LEMMA SettleKeeps ==
  ASSUME IndInv, NEW w \in Worker, NEW outcome \in Outcome, Settle(w, outcome)
  PROVE  IndInv'
<1>. DEFINE x == workers[w]
            j == x.hand
            y == [x EXCEPT !.at = "settled"]
<1>1. /\ TypeOK /\ x \in Work /\ j \in Job /\ "settled" \in Step
      /\ jobs \in [Job -> Row] /\ workers \in [Worker -> Work] /\ stray \subseteq Job
  BY Types DEF IndInv, Step, Active, Timed, Work
<1>2. ASSUME Executed(w)
      PROVE  /\ workers' \in [Worker -> Work] /\ ~Timely(workers'[w])
             /\ workers'[w].call = "late" => workers'[w].slow
             /\ \A v \in Worker \ {w} : workers'[v] = workers[v]
  <2>1. y \in Work /\ y.at = "settled" /\ y.call = x.call /\ y.slow = x.slow
    BY <1>1 DEF Work
  <2>2. workers' = [workers EXCEPT ![w] = y] \/ workers' = [workers EXCEPT ![w] = Idle]
    BY <1>2 DEF Executed
  <2>. HIDE DEF y
  <2>3. workers'[w] \in {y, Idle} /\ workers' \in [Worker -> Work]
    BY <1>1, <2>1, <2>2, IdleIs
  <2>4. x.call = "late" => x.slow
    BY DEF IndInv, Current
  <2>. QED
    BY <1>1, <2>1, <2>2, <2>3, <2>4, IdleIs DEF Timely
<1>3. CASE Fenced(w, j) /\ jobs' = Closed(j, outcome) /\ Executed(w) /\ UNCHANGED stray
  <2>1. [NoJob EXCEPT !.status = outcome] \in Row
    BY <1>1, Written
  <2>2. jobs' \in [Job -> Row] /\ Others(w, jobs')
    BY <1>1, <1>3, <2>1 DEF Closed, Fenced, Renewable, Others
  <2>. QED
    BY <1>1, <1>2, <1>3, <2>2, AwayKeeps
<1>4. CASE LeaseLost(w)
  BY <1>4, OverKeeps DEF LeaseLost
<1>5. CASE Executed(w) /\ UNCHANGED <<jobs, stray>>
  BY <1>1, <1>2, <1>5, AwayKeeps DEF Others
<1>. QED
  BY <1>3, <1>4, <1>5 DEF Settle

LEMMA ProceedKeeps ==
  ASSUME IndInv, NEW w \in Worker, Proceed(w)
  PROVE  IndInv'
<1>1. /\ TypeOK /\ jobs \in [Job -> Row] /\ workers \in [Worker -> Work] /\ stray \subseteq Job
      /\ "wider" \in Job
  BY Types DEF IndInv, Job
<1>2. CASE LeaseLost(w)
  BY <1>2, OverKeeps DEF LeaseLost
<1>3. CASE Over(w, "idle")
  BY <1>3, OverKeeps
<1>4. CASE /\ Second(w) /\ jobs' = Claim(w, "wider", jobs) /\ stray' = stray \ {"wider"}
           /\ workers' = [workers EXCEPT ![w] = [Idle EXCEPT !.at = "collect", !.hand = "wider"]]
  <2>. DEFINE y == [Idle EXCEPT !.at = "collect", !.hand = "wider"]
  <2>1. Idle.job = "due" /\ "collect" \in Step
    BY DEF Idle, Step, Active, Timed
  <2>2. y \in Work /\ y.job # y.hand /\ y.call = "none"
    BY <1>1, <2>1, IdleIs DEF Work
  <2>. HIDE DEF y
  <2>3. workers'[w] = y /\ workers' \in [Worker -> Work] /\ \A v \in Worker \ {w} : workers'[v] = workers[v]
    BY <1>1, <1>4, <2>2 DEF y
  <2>4. jobs' \in [Job -> Row] /\ Others(w, jobs')
    <3>1. ~Live("wider")
      BY <1>4 DEF Second, Claimable, Live
    <3>. QED
      BY <1>1, <1>4, <3>1, ClaimIs
  <2>. QED
    BY <1>1, <1>4, <2>2, <2>3, <2>4, AwayKeeps DEF Timely
<1>. QED
  BY <1>2, <1>3, <1>4 DEF Proceed

\* A renewal that comes afterwards can only make a lease longer.
LEMMA AfterwardsKeeps ==
  ASSUME IndInv, Afterwards
  PROVE  IndInv'
<1>1. TypeOK /\ jobs \in [Job -> Row] /\ workers \in [Worker -> Work] /\ stray \subseteq Job
  BY Types DEF IndInv
<1>2. PICK j \in stray : /\ stray' = stray \ {j} /\ UNCHANGED workers
                         /\ jobs' = IF jobs[j].status = "running" THEN Renewed(j, Lease) ELSE jobs
  BY DEF Afterwards
<1>3. /\ jobs' \in [Job -> Row]
      /\ \A i \in Job : /\ jobs'[i].owner = jobs[i].owner /\ jobs'[i].status = jobs[i].status
                        /\ jobs'[i].lease >= jobs[i].lease
  <2>1. \A i \in Job : jobs[i].lease \in 0 .. Lease
    BY <1>1 DEF Row
  <2>2. CASE jobs' = Renewed(j, Lease)
    <3>1. /\ jobs' \in [Job -> Row] /\ jobs'[j].lease = Lease
          /\ jobs'[j].owner = jobs[j].owner /\ jobs'[j].status = jobs[j].status
          /\ \A i \in Job \ {j} : jobs'[i] = jobs[i]
      BY <1>1, <1>2, <2>2, RenewedIs, Constants
    <3>. QED
      BY <2>1, <3>1, Constants
  <2>3. CASE jobs' = jobs
    BY <1>1, <2>1, <2>3, Constants
  <2>. QED
    BY <1>2, <2>2, <2>3
<1>4. ASSUME NEW v \in Worker PROVE Current(v)'
  <2>1. workers' = workers /\ Current(v) /\ workers[v] \in Work
    BY <1>1, <1>2 DEF IndInv
  <2>2. ASSUME Timely(workers[v]) PROVE Enough(v, workers[v], jobs'[workers[v].job])
    <3>. DEFINE i == workers[v].job
    <3>1. i \in Job /\ workers[v].beat \in Nat /\ Enough(v, workers[v], jobs[i])
      BY <2>1, <2>2, Constants DEF Work, Current
    <3>2. jobs[i].lease \in Nat /\ jobs'[i].lease \in Nat /\ jobs'[i].lease >= jobs[i].lease
      BY <1>1, <1>3, <3>1 DEF Row
    <3>. QED
      BY <1>3, <3>1, <3>2, Constants DEF Enough
  <2>. QED
    BY <2>1, <2>2 DEF Current
<1>. QED
  BY <1>1, <1>2, <1>3, <1>4 DEF IndInv, TypeOK, Row, Work

\* Time takes from the lease what it adds to the beat, or misses the beat.
LEMMA PassingKeeps ==
  ASSUME IndInv, Passing
  PROVE  IndInv'
<1>1. TypeOK /\ jobs \in [Job -> Row] /\ workers \in [Worker -> Work] /\ stray \subseteq Job
  BY Types DEF IndInv
<1>2. /\ jobs' = [j \in Job |-> IF Live(j) THEN [jobs[j] EXCEPT !.lease = @ - 1] ELSE jobs[j]]
      /\ workers' = [w \in Worker |-> Passed(workers[w])] /\ stray' = stray
  BY DEF Passing
<1>3. ASSUME NEW j \in Job, Live(j)
      PROVE  /\ jobs'[j] \in Row /\ jobs'[j].lease = jobs[j].lease - 1
             /\ jobs'[j].owner = jobs[j].owner /\ jobs'[j].status = jobs[j].status
  <2>1. jobs[j] \in Row /\ jobs[j].lease - 1 \in 0 .. Lease
    BY <1>1, <1>3, Constants DEF Live, Row
  <2>2. jobs'[j] = [jobs[j] EXCEPT !.lease = jobs[j].lease - 1]
    BY <1>2, <1>3
  <2>. QED
    BY <2>1, <2>2 DEF Row
<1>4. jobs' \in [Job -> Row]
  <2>1. ASSUME NEW j \in Job PROVE jobs'[j] \in Row
    <3>1. ~Live(j) => jobs'[j] = jobs[j]
      BY <1>2
    <3>. HIDE DEF Row
    <3>. QED
      BY <1>1, <1>3, <3>1
  <2>. QED
    BY <1>2, <2>1
<1>5. ASSUME NEW v \in Worker
      PROVE  Passed(workers[v]) \in Work /\ workers'[v] = Passed(workers[v]) /\ Current(v)'
  <2>. DEFINE x == workers[v]
              y == Passed(x)
  <2>1. x \in Work /\ workers'[v] = y /\ Current(v)
    BY <1>1, <1>2 DEF IndInv
  <2>. SUFFICES y \in Work /\ Current(v)'
    BY <2>1
  <2>2. CASE Beats(x) /\ x.beat < Every
    <3>1. y = [x EXCEPT !.beat = x.beat + 1] /\ x.beat + 1 \in 0 .. Every
      BY <2>1, <2>2, Constants DEF Passed, Work
    <3>2. /\ y \in Work /\ y.at = x.at /\ y.job = x.job /\ y.hand = x.hand
          /\ y.healthy = x.healthy /\ y.beat = x.beat + 1 /\ y.call = x.call /\ y.slow = x.slow
      BY <2>1, <3>1 DEF Work
    <3>. HIDE DEF y
    <3>3. ASSUME Timely(y) PROVE Enough(v, y, jobs'[y.job])
      <4>1. Timely(x)
        BY <3>2, <3>3 DEF Timely
      <4>2. x.job \in Job /\ Live(x.job) /\ Enough(v, x, jobs[x.job])
        BY <4>1, TimelyLive
      <4>3. /\ jobs'[x.job].lease = jobs[x.job].lease - 1
            /\ jobs'[x.job].owner = jobs[x.job].owner /\ jobs'[x.job].status = jobs[x.job].status
        BY <1>3, <4>2
      <4>4. jobs[x.job].lease \in Int /\ x.beat \in Int
        BY <1>1, <2>1, <4>2 DEF Row, Work
      <4>. QED
        BY <3>2, <4>2, <4>3, <4>4, Constants DEF Enough
    <3>. QED
      BY <2>1, <3>2, <3>3 DEF Current
  <2>3. CASE ~(Beats(x) /\ x.beat < Every) /\ (Beats(x) \/ x.at = "claimed")
    <3>1. y = Missed(x)
      BY <2>3 DEF Passed
    <3>2. y \in Work /\ y.slow
      BY <2>1, <3>1, MissedIs
    <3>. HIDE DEF y
    <3>. QED
      BY <2>1, <3>2 DEF Current, Timely
  <2>4. CASE ~Beats(x) /\ x.at # "claimed"
    <3>1. y = x
      BY <2>4 DEF Passed
    <3>2. ~Timely(x)
      BY <2>4 DEF Timely, Beats, Timed
    <3>. QED
      BY <2>1, <3>1, <3>2 DEF Current
  <2>. QED
    BY <2>2, <2>3, <2>4
<1>6. workers' \in [Worker -> Work]
  BY <1>2, <1>5
<1>. QED
  BY <1>1, <1>2, <1>4, <1>5, <1>6 DEF IndInv, TypeOK, Row, Work

\* Every step leaves the timely workers the owners of live jobs.
LEMMA InvStep ==
  ASSUME IndInv, [Next]_vars
  PROVE  IndInv'
<1>1. ASSUME NEW w \in Worker, Loop(w) PROVE IndInv'
  <2>1. CASE Restart(w)
    <3>1. workers' = [workers EXCEPT ![w] = Idle] /\ UNCHANGED jobs /\ stray' = stray
      BY <2>1 DEF Restart
    <3>2. Idle \in Work /\ Idle.call # "late" /\ ~Timely(Idle)
      BY IdleIs DEF Timely
    <3>. QED
      BY <3>1, <3>2, SilentKeeps
  <2>. QED
    BY <1>1, <2>1, BeginKeeps, StartKeeps, ProceedKeeps DEF Loop
<1>2. ASSUME NEW w \in Worker, Escape(w) PROVE IndInv'
  BY <1>2, OverKeeps DEF Escape
<1>3. ASSUME NEW w \in Worker, NEW next \in {"collect", "finalize"}, Guard(w, next) PROVE IndInv'
  BY <1>3, GuardKeeps
<1>4. ASSUME NEW w \in Worker, Conclude(w) PROVE IndInv'
  BY <1>4, SettleKeeps DEF Conclude
<1>5. ASSUME NEW w \in Worker, Beat(w) \/ Answer(w) \/ HealthWritten(w) \/ Unanswered(w) PROVE IndInv'
  BY <1>5, BeatKeeps, AnswerKeeps, HealthWrittenKeeps, UnansweredKeeps
<1>6. CASE UNCHANGED vars
  BY <1>6 DEF vars, IndInv, TypeOK, Current, Timely, Enough
<1>. QED
  BY <1>1, <1>2, <1>3, <1>4, <1>5, <1>6, AfterwardsKeeps, PassingKeeps DEF Next

-----------------------------------------------------------------------------
\* The inductive invariant holds in every reachable state, for any number of workers.
THEOREM InvariantHolds == Spec => []IndInv
  BY InitInv, InvStep, PTL DEF Spec

\* Every variable keeps a value of its type.
THEOREM TypeCorrect == Spec => []TypeOK
  BY InvariantHolds, PTL DEF IndInv

\* The worker owns the job it began with until a heartbeat fails, a beat is missed
\* or the first health row takes its time, however long each renewal is under way.
THEOREM HealthyWorkerOwns == Spec => []HealthyOwns
<1>1. IndInv => HealthyOwns
  BY DEF IndInv, Current, Timely, Enough, HealthyOwns, Owns
<1>. QED
  BY <1>1, InvariantHolds, PTL
=============================================================================
