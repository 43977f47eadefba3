--------------------------- MODULE FileStoreProofs ---------------------------
(***************************************************************************)
(* Proofs about the file stores: first the lock file, behind which a       *)
(* mutation is one step; then the jobs of FileJobs, which takes that for   *)
(* granted.  About LockFile, for any callers, any age at which locks are   *)
(* stale and any number of deaths, for all three kinds of store.  About    *)
(* FileJobs, for any keys, any size of the file and any number of jobs and *)
(* faults; where it says so, for one process.                              *)
(***************************************************************************)
EXTENDS LockFile, FileJobs, FiniteSetTheorems, SequenceTheorems, TLAPS

-----------------------------------------------------------------------------
(* The lock file.                                                            *)

\* As long as no lock was stolen, whoever is between acquisition and release has
\* created the lock file there is, and where locks are taken over it is not stale.
InsideOwnsLock == ~stolen =>
  \A w \in Writer : at[w] \in Inside => lock.by = w /\ (Takeover => lock.age <= Stale)

\* And what it loaded is still what the file holds.
LoadedIsCurrent == ~stolen => \A w \in Writer : at[w] = "write" => mem[w] = store

LockInv == LockTypeOK /\ InsideOwnsLock /\ LoadedIsCurrent /\ ChainValid

\* Nobody holds the lock, and nothing is stored.
LEMMA LockInitially == LockInit => LockInv
<1>. SUFFICES ASSUME LockInit PROVE LockInv
  OBVIOUS
<1>1. LockTypeOK
  <2>1. at \in [Writer -> IF Takeover THEN Step ELSE Step \ Taking]
    BY DEF LockInit, Step, Taking
  <2>2. lock \in [by : Writer \cup {NoWriter}, age : 0 .. Stale + 1]
    BY LimitAssumption DEF LockInit, NoLock
  <2>3. store \in Seq(Block) /\ mem \in [Writer -> Seq(Block)]
    BY DEF LockInit
  <2>. QED
    BY <2>1, <2>2, <2>3 DEF LockInit, LockTypeOK
<1>2. InsideOwnsLock /\ LoadedIsCurrent
  BY DEF LockInit, InsideOwnsLock, LoadedIsCurrent, Inside
<1>3. ChainValid
  BY DEF LockInit, ChainValid, Valid
<1>. QED
  BY <1>1, <1>2, <1>3 DEF LockInv

\* A call only goes to a step of its kind of store.
LEMMA Going ==
  ASSUME LockTypeOK, UNCHANGED kind, NEW w \in Writer, NEW s \in Step, Takeover \/ s \notin Taking, Go(w, s)
  PROVE  (at \in [Writer -> IF Takeover THEN Step ELSE Step \ Taking])'
<1>1. CASE Takeover
  BY <1>1 DEF LockTypeOK, Go, Takeover
<1>2. CASE ~Takeover
  BY <1>2 DEF LockTypeOK, Go, Takeover
<1>. QED
  BY <1>1, <1>2

\* Every action leaves values of their types.
LEMMA TypeStep ==
  ASSUME LockTypeOK, [LockNext]_lockVars
  PROVE  LockTypeOK'
<1>. DEFINE AtOK == at \in [Writer -> IF Takeover THEN Step ELSE Step \ Taking]
            RestOK == /\ kind \in Kind
                    /\ lock \in [by : Writer \cup {NoWriter}, age : 0 .. Stale + 1]
                    /\ store \in Seq(Block)
                    /\ mem \in [Writer -> Seq(Block)]
                    /\ stolen \in BOOLEAN
<1>a. LockTypeOK <=> AtOK /\ RestOK
  BY DEF LockTypeOK
<1>b. LockTypeOK' <=> AtOK' /\ RestOK'
  BY DEF LockTypeOK
<1>c. \A w \in Writer : at[w] \in Step /\ (Takeover \/ at[w] \notin Taking)
  BY DEF LockTypeOK
<1>d. \A w \in Writer, s \in Step : Go(w, s) /\ (Takeover \/ s \notin Taking) /\ UNCHANGED kind => AtOK'
  BY Going
<1>e. UNCHANGED <<kind, at>> => AtOK'
  BY <1>a DEF Takeover
<1>f. NoLock \in [by : Writer \cup {NoWriter}, age : 0 .. Stale + 1]
      /\ \A w \in Writer : [by |-> w, age |-> 0] \in [by : Writer \cup {NoWriter}, age : 0 .. Stale + 1]
  BY LimitAssumption DEF NoLock
<1>. HIDE DEF AtOK
<1>. USE <1>a, <1>b DEF Step, Taking
<1>1. ASSUME NEW w \in Writer, Open(w), UNCHANGED kind PROVE LockTypeOK'
  <2>1. RestOK'
    BY <1>1, <1>f DEF Open
  <2>. QED
    BY <1>1, <1>d, <2>1 DEF Open, OnBusy
<1>2. ASSUME NEW w \in Writer, Stat(w), UNCHANGED kind PROVE LockTypeOK'
  BY <1>2, <1>c, <1>d DEF Stat
<1>3. ASSUME NEW w \in Writer, Unlink(w), UNCHANGED kind PROVE LockTypeOK'
  <2>1. RestOK'
    BY <1>3, <1>f DEF Unlink
  <2>. QED
    BY <1>3, <1>c, <1>d, <2>1 DEF Unlink
<1>4. ASSUME NEW w \in Writer, Reopen(w), UNCHANGED kind PROVE LockTypeOK'
  <2>1. RestOK'
    BY <1>4, <1>f DEF Reopen
  <2>. QED
    BY <1>4, <1>d, <2>1 DEF Reopen
<1>5. ASSUME NEW w \in Writer, ComeBack(w), UNCHANGED kind PROVE LockTypeOK'
  BY <1>5, <1>d DEF ComeBack
<1>6. ASSUME NEW w \in Writer, Load(w), UNCHANGED kind PROVE LockTypeOK'
  BY <1>6, <1>d DEF Load
<1>7. ASSUME NEW w \in Writer, Write(w), UNCHANGED kind PROVE LockTypeOK'
  <2>1. [by |-> w, on |-> Len(mem[w])] \in Block
    BY DEF Block
  <2>. QED
    BY <1>7, <1>d, <2>1 DEF Write, Base
<1>8. ASSUME NEW w \in Writer, Close(w), UNCHANGED kind PROVE LockTypeOK'
  <2>1. RestOK'
    BY <1>8, <1>f DEF Close
  <2>. QED
    BY <1>8, <1>d, <2>1 DEF Close
<1>9. ASSUME NEW w \in Writer, Die(w), UNCHANGED kind PROVE LockTypeOK'
  BY <1>9, <1>d DEF Die
<1>10. ASSUME Tick, UNCHANGED kind PROVE LockTypeOK'
  <2>1. lock' \in [by : Writer \cup {NoWriter}, age : 0 .. Stale + 1]
    BY <1>10, LimitAssumption DEF Tick
  <2>. QED
    BY <1>10, <1>e, <2>1 DEF Tick
<1>11. CASE UNCHANGED lockVars
  BY <1>11, <1>e DEF lockVars, moving
<1>. QED
  BY <1>1, <1>2, <1>3, <1>4, <1>5, <1>6, <1>7, <1>8, <1>9, <1>10, <1>11 DEF LockNext, WriterStep, Ended, lockVars

\* The lock keeps the others out.
LEMMA OwnStep ==
  ASSUME LockTypeOK, InsideOwnsLock, [LockNext]_lockVars
  PROVE  InsideOwnsLock'
<1>. USE WriterAssumption, LimitAssumption DEF LockTypeOK, InsideOwnsLock, Inside, Go, Free, NoLock
<1>1. ASSUME NEW w \in Writer, Open(w), UNCHANGED kind PROVE InsideOwnsLock'
  BY <1>1 DEF Open, OnBusy, Takeover
<1>2. ASSUME NEW w \in Writer, Stat(w), UNCHANGED kind PROVE InsideOwnsLock'
  BY <1>2 DEF Stat, Takeover
<1>3. ASSUME NEW w \in Writer, Unlink(w), UNCHANGED kind PROVE InsideOwnsLock'
  <2>1. Takeover
    BY <1>3 DEF Unlink, Taking
  <2>. QED
    BY <1>3, <2>1 DEF Unlink
<1>4. ASSUME NEW w \in Writer, Reopen(w), UNCHANGED kind PROVE InsideOwnsLock'
  BY <1>4 DEF Reopen, Takeover
<1>5. ASSUME NEW w \in Writer, ComeBack(w), UNCHANGED kind PROVE InsideOwnsLock'
  BY <1>5 DEF ComeBack, Takeover
<1>6. ASSUME NEW w \in Writer, Load(w), UNCHANGED kind PROVE InsideOwnsLock'
  BY <1>6 DEF Load, Takeover
<1>7. ASSUME NEW w \in Writer, Write(w), UNCHANGED kind PROVE InsideOwnsLock'
  BY <1>7 DEF Write, Takeover
<1>8. ASSUME NEW w \in Writer, Close(w), UNCHANGED kind PROVE InsideOwnsLock'
  BY <1>8 DEF Close, Takeover
<1>9. ASSUME NEW w \in Writer, Die(w), UNCHANGED kind PROVE InsideOwnsLock'
  BY <1>9 DEF Die, Takeover
<1>10. ASSUME Tick, UNCHANGED kind PROVE InsideOwnsLock'
  BY <1>10 DEF Tick, Takeover
<1>11. CASE UNCHANGED lockVars
  BY <1>11 DEF lockVars, moving, Takeover
<1>. QED
  BY <1>1, <1>2, <1>3, <1>4, <1>5, <1>6, <1>7, <1>8, <1>9, <1>10, <1>11 DEF LockNext, WriterStep, Ended, lockVars

\* While nobody steals, of two writers inside one is the other.
LEMMA Alone ==
  ASSUME InsideOwnsLock, ~stolen, NEW v \in Writer, NEW w \in Writer, at[v] \in Inside, at[w] \in Inside
  PROVE  v = w
  BY DEF InsideOwnsLock

\* The file changes by a write only.
LEMMA StoreStep ==
  ASSUME LockTypeOK, LockNext
  PROVE  \/ UNCHANGED store
         \/ \E w \in Writer : Write(w)
  BY DEF LockNext, WriterStep, Open, Stat, Unlink, Reopen, ComeBack, Load, Close, Die, Tick, Ended, moving

\* A stolen lock stays stolen.
LEMMA StolenStays == LockNext => (stolen => stolen')
  BY DEF LockNext, WriterStep, Open, Stat, Unlink, Reopen, ComeBack, Load, Write, Close, Die, Tick, Ended, moving

\* What a writer has loaded stays current, for only a writer inside the lock writes.
LEMMA LoadedStep ==
  ASSUME LockTypeOK, InsideOwnsLock, LoadedIsCurrent, [LockNext]_lockVars
  PROVE  LoadedIsCurrent'
<1>1. CASE UNCHANGED lockVars
  BY <1>1 DEF lockVars, moving, LoadedIsCurrent
<1>2. CASE LockNext
  <2>. SUFFICES ASSUME ~stolen', NEW w \in Writer, at'[w] = "write" PROVE mem'[w] = store'
    BY DEF LoadedIsCurrent
  <2>1. ~stolen
    BY <1>2, StolenStays
  <2>2. ASSUME NEW v \in Writer, Write(v) PROVE FALSE
    <3>1. at[v] = "write" /\ v # w /\ at[w] = "write"
      BY <2>2 DEF Write, Go, LockTypeOK
    <3>. QED
      BY <2>1, <3>1, Alone DEF Inside
  <2>3. UNCHANGED store
    BY <1>2, <2>2, StoreStep
  <2>4. CASE at[w] = "write" /\ mem'[w] = mem[w]
    BY <2>1, <2>3, <2>4 DEF LoadedIsCurrent
  <2>5. CASE Load(w)
    BY <2>3, <2>5 DEF Load, LockTypeOK
  <2>6. Load(w) \/ (at[w] = "write" /\ mem'[w] = mem[w])
    BY <1>2, <2>2 DEF LockNext, WriterStep, Open, OnBusy, Stat, Unlink, Reopen, ComeBack, Load, Close, Die, Tick, Ended,
       moving, Go, LockTypeOK
  <2>. QED
    BY <2>4, <2>5, <2>6
<1>. QED
  BY <1>1, <1>2

\* The block appended to a valid chain is the next one.
LEMMA ChainStep ==
  ASSUME LockTypeOK, LoadedIsCurrent, ChainValid, [LockNext]_lockVars
  PROVE  ChainValid'
<1>1. CASE UNCHANGED <<store, stolen, kind>>
  BY <1>1 DEF ChainValid, AppendOnly, Valid
<1>2. CASE LockNext
  <2>. SUFFICES ASSUME AppendOnly, ~stolen' PROVE Valid(store')
    BY <1>2 DEF LockNext, ChainValid, AppendOnly, Valid
  <2>1. ~stolen /\ Valid(store)
    BY <1>2, StolenStays DEF ChainValid
  <2>2. ASSUME NEW w \in Writer, Write(w) PROVE Valid(store')
    <3>1. mem[w] = store
      BY <2>1, <2>2 DEF LoadedIsCurrent, Write
    <3>2. store' = Append(store, [by |-> w, on |-> Len(store)])
      BY <2>2, <3>1 DEF Write, Base
    <3>3. store \in Seq(Block)
      BY DEF LockTypeOK
    <3>. QED
      BY <2>1, <3>2, <3>3 DEF Valid
  <2>. QED
    BY <1>2, <2>1, <2>2, StoreStep
<1>. QED
  BY <1>1, <1>2 DEF lockVars, moving

\* Every step keeps the invariant.
LEMMA LockStep == LockInv /\ [LockNext]_lockVars => LockInv'
  BY TypeStep, OwnStep, LoadedStep, ChainStep DEF LockInv

-----------------------------------------------------------------------------
\* The inductive invariant holds in every reachable state, for any callers and any kind of store.
THEOREM LockInvariantHolds == LockSpec => []LockInv
  BY LockInitially, LockStep, PTL DEF LockSpec

\* Every variable keeps a value of its type.
THEOREM LockTypeCorrect == LockSpec => []LockTypeOK
  BY LockInvariantHolds, PTL DEF LockInv

\* No two live writers are between acquisition and release of the lock file,
\* unless the lock of one was unlinked by another that had judged an older one.
THEOREM MutualExclusion == LockSpec => []Exclusive
<1>1. LockInv => Exclusive
  <2>. SUFFICES ASSUME LockInv, ~stolen PROVE Cardinality({w \in Writer : at[w] \in Inside}) <= 1
    BY DEF Exclusive
  <2>. DEFINE S == {w \in Writer : at[w] \in Inside}
  <2>1. S \subseteq {lock.by}
    BY DEF LockInv, InsideOwnsLock
  <2>2. IsFiniteSet({lock.by}) /\ Cardinality({lock.by}) = 1
    BY FS_Singleton
  <2>. QED
    BY <2>1, <2>2, FS_Subset
<1>. QED
  BY <1>1, LockInvariantHolds, PTL

\* Whoever appends to the ledger, each block follows from those before it.
THEOREM ChainStaysValid == LockSpec => []ChainValid
  BY LockInvariantHolds, PTL DEF LockInv

-----------------------------------------------------------------------------
(* The store as one atomic variable.                                         *)

\* An empty file is a store that was never updated.
LEMMA ContractInit == LockInit => Contract!Init
  BY DEF LockInit, Contract!Init, Content, Told

\* A write adds the writer to what is stored, if it was not there.
LEMMA WriteCommits ==
  ASSUME LockInv, ~stolen, NEW w \in Writer, Write(w)
  PROVE  Content' = Content \cup {w} /\ UNCHANGED Told
<1>1. mem[w] = store /\ store \in Seq(Block)
  BY DEF LockInv, LoadedIsCurrent, LockTypeOK, Write
<1>2. store' = Append(store, [by |-> w, on |-> Len(store)])
  BY <1>1 DEF Write, Base
<1>3. Content' = Content \cup {w}
  BY <1>1, <1>2 DEF Content
<1>4. UNCHANGED Told
  BY DEF Write, Go, Told, LockInv, LockTypeOK
<1>. QED
  BY <1>3, <1>4

\* Without a theft a step is one of the atomic store's or changes nothing of it.
LEMMA ContractStep ==
  ASSUME LockInv, [LockNext]_lockVars
  PROVE  [stolen' \/ Contract!Next]_<<Content, Told>>
<1>. SUFFICES ASSUME LockNext, ~stolen' PROVE Contract!Next \/ UNCHANGED <<Content, Told>>
  BY DEF lockVars, moving, Content, Told
<1>1. ~stolen
  BY StolenStays
<1>2. ASSUME NEW w \in Writer, Write(w) PROVE Contract!Next \/ UNCHANGED <<Content, Told>>
  BY <1>1, <1>2, WriteCommits DEF Contract!Next, Contract!Commit
<1>3. ASSUME NEW w \in Writer, Close(w) PROVE Contract!Next \/ UNCHANGED <<Content, Told>>
  <2>1. UNCHANGED Content
    BY <1>3 DEF Close, Content
  <2>2. CASE at' = [at EXCEPT ![w] = "done"]
    <3>1. w \in Content
      BY <1>3, <2>2 DEF Close, Go, Written, Content, LockInv, LockTypeOK
    <3>2. Told' = Told \cup {w}
      BY <2>2 DEF Told, LockInv, LockTypeOK
    <3>. QED
      BY <2>1, <3>1, <3>2 DEF Contract!Next, Contract!Tell
  <2>3. CASE at' = [at EXCEPT ![w] = "failed"]
    BY <1>3, <2>1, <2>3 DEF Close, Told, LockInv, LockTypeOK
  <2>. QED
    BY <1>3, <2>2, <2>3 DEF Close, Go
<1>4. ASSUME NEW w \in Writer, Open(w) \/ Stat(w) \/ Unlink(w) \/ Reopen(w) \/ ComeBack(w) \/ Load(w) \/ Die(w)
      PROVE  UNCHANGED <<Content, Told>>
  <2>1. UNCHANGED Content
    BY <1>4 DEF Open, Stat, Unlink, Reopen, ComeBack, Load, Die, Content
  <2>2. at[w] # "done" /\ \E s \in Step \ {"done"} : at' = [at EXCEPT ![w] = s]
    BY <1>4 DEF Open, OnBusy, Stat, Unlink, Reopen, ComeBack, Load, Die, Go, Over, Step
  <2>3. UNCHANGED Told
    BY <2>2 DEF Told, LockInv, LockTypeOK
  <2>. QED
    BY <2>1, <2>3
<1>5. ASSUME Tick \/ Ended PROVE UNCHANGED <<Content, Told>>
  BY <1>5 DEF Tick, Ended, moving, Content, Told
<1>. QED
  BY <1>2, <1>3, <1>4, <1>5 DEF LockNext, WriterStep

\* Behind a lock that is never stolen the file is an atomic store: no update is
\* lost, and what was reported as written is there.
THEOREM StoreIsAtomic == LockSpec => KeepsContract
  BY ContractInit, ContractStep, LockInvariantHolds, PTL DEF LockSpec, KeepsContract

-----------------------------------------------------------------------------
(* The jobs in the file.                                                     *)

Status == Terminal \cup {"queued", "running"}
Work   == [at : Stage, result : Result]
Call   == [id : 0 .. MaxCreated, status : Status]

\* An id is given to one job.
IdsDistinct ==
  /\ \A i \in DOMAIN jobs : jobs[i].id <= made
  /\ \A i, k \in DOMAIN jobs : jobs[i].id = jobs[k].id => i = k

\* An execution that will conclude a job completed has swept all of it.
WholeIsPast == \A p \in Proc, id \in Id : run[p][id].result.whole => id \in past

AnyInv == TypeOK /\ IdsDistinct /\ WholeIsPast /\ CompletedEarned

\* What a call of start() has read of its job is still what the file says.
CallIsCurrent ==
  \A p \in Proc : ~Idles(p) =>
    \A i \in DOMAIN jobs : jobs[i].id = calling[p].id => jobs[i].status = calling[p].status

\* No execution is left of a job that is concluded.
AtWorkUnconcluded ==
  \A p \in Proc, id \in Id : run[p][id].at # "idle" =>
    \A i \in DOMAIN jobs : jobs[i].id = id => jobs[i].status \notin Terminal

IndInv == AnyInv /\ CallIsCurrent /\ AtWorkUnconcluded

\* inFlight is the memory of one process.
OneProcess == \A p, q \in Proc : p = q
-----------------------------------------------------------------------------
\* No job was made, and nothing is at work.
LEMMA InitInv == Init => IndInv
<1>. SUFFICES ASSUME Init PROVE IndInv
  OBVIOUS
<1>1. /\ jobs = <<>> /\ made = 0 /\ past = {} /\ faults = [busy |-> 0, deaths |-> 0, locked |-> FALSE]
      /\ run = [p \in Proc |-> [id \in Id |-> Idle]] /\ calling = [p \in Proc |-> NoCall]
  BY DEF Init
<1>2. MaxJobs \in Nat /\ MaxCreated \in Nat /\ MaxBusy \in Nat /\ MaxDeaths \in Nat
  BY BoundAssumption
<1>3. Idle \in Work /\ Idle.at = "idle" /\ Idle.result.whole = FALSE
  BY DEF Idle, Work, Stage, Result
<1>4. NoCall \in Call
  BY <1>2 DEF NoCall, Call, Status
<1>5. run \in [Proc -> [Id -> Work]] /\ calling \in [Proc -> Call]
  BY <1>1, <1>3, <1>4
<1>6. jobs \in Seq(Job) /\ Len(jobs) = 0 /\ DOMAIN jobs = {}
  BY <1>1
<1>7. faults \in Fault /\ made \in 0 .. MaxCreated /\ past \subseteq Id
  BY <1>1, <1>2 DEF Fault
<1>8. TypeOK
  BY <1>2, <1>5, <1>6, <1>7 DEF TypeOK, Work, Call, Status
<1>9. IdsDistinct /\ CompletedEarned
  BY <1>6 DEF IdsDistinct, CompletedEarned, ToSet
<1>10. WholeIsPast /\ CallIsCurrent /\ AtWorkUnconcluded
  BY <1>1, <1>3 DEF WholeIsPast, CallIsCurrent, AtWorkUnconcluded, Idles
<1>. QED
  BY <1>8, <1>9, <1>10 DEF IndInv, AnyInv

-----------------------------------------------------------------------------
(* What the operations on the file and on an execution do.                   *)

\* The types, one by one.
LEMMA Types ==
  ASSUME TypeOK
  PROVE  /\ jobs \in Seq(Job) /\ Len(jobs) \in Nat /\ Len(jobs) <= MaxJobs /\ DOMAIN jobs = 1 .. Len(jobs)
         /\ \A i \in DOMAIN jobs : jobs[i] \in Job /\ jobs[i].id \in Id /\ jobs[i].status \in Status
         /\ made \in 0 .. MaxCreated
         /\ run \in [Proc -> [Id -> Work]]
         /\ calling \in [Proc -> Call]
         /\ past \subseteq Id
         /\ faults \in Fault
<1>1. jobs \in Seq(Job) /\ Len(jobs) <= MaxJobs
  BY DEF TypeOK
<1>2. Len(jobs) \in Nat /\ DOMAIN jobs = 1 .. Len(jobs) /\ \A i \in DOMAIN jobs : jobs[i] \in Job
  BY <1>1
<1>3. \A i \in DOMAIN jobs : jobs[i].id \in Id /\ jobs[i].status \in Status
  BY <1>2 DEF Job, Status
<1>4. /\ run \in [Proc -> [Id -> Work]] /\ calling \in [Proc -> Call] /\ made \in 0 .. MaxCreated
      /\ past \subseteq Id /\ faults \in Fault
  BY DEF TypeOK, Work, Call, Status
<1>. QED
  BY <1>1, <1>2, <1>3, <1>4

\* An update changes the status of its job and nothing else of the file.
LEMMA PutIs ==
  ASSUME TypeOK, NEW id, NEW s \in Status, Put(id, s)
  PROVE  /\ id \in Id /\ UNCHANGED faults
         /\ jobs' \in Seq(Job) /\ Len(jobs') = Len(jobs) /\ DOMAIN jobs' = DOMAIN jobs
         /\ \A i \in DOMAIN jobs : /\ jobs'[i].id = jobs[i].id
                                   /\ jobs[i].id = id => jobs'[i].status = s
                                   /\ jobs[i].id # id => jobs'[i] = jobs[i]
<1>1. /\ jobs \in Seq(Job) /\ Len(jobs) \in Nat /\ DOMAIN jobs = 1 .. Len(jobs)
      /\ \A i \in DOMAIN jobs : jobs[i] \in Job
  BY Types
<1>2. /\ id \in Stored /\ UNCHANGED faults
      /\ jobs' = [i \in DOMAIN jobs |-> IF jobs[i].id = id THEN [jobs[i] EXCEPT !.status = s] ELSE jobs[i]]
  BY DEF Put
<1>3. id \in Id
  BY <1>2, Types DEF Stored
<1>4. \A j \in Job : /\ [j EXCEPT !.status = s] \in Job /\ [j EXCEPT !.status = s].id = j.id
                     /\ [j EXCEPT !.status = s].status = s
  BY DEF Job, Status
<1>5. \A i \in DOMAIN jobs : /\ jobs'[i] \in Job /\ jobs'[i].id = jobs[i].id
                             /\ jobs[i].id = id => jobs'[i].status = s
                             /\ jobs[i].id # id => jobs'[i] = jobs[i]
  BY <1>1, <1>2, <1>4
<1>6. jobs' \in [1 .. Len(jobs) -> Job]
  BY <1>1, <1>2, <1>5
<1>7. jobs' \in Seq(Job) /\ Len(jobs') = Len(jobs) /\ DOMAIN jobs' = DOMAIN jobs
  BY <1>1, <1>6
<1>. QED
  BY <1>2, <1>3, <1>5, <1>7

\* A new job is the first of the file; the others move down, the last may go.
LEMMA CreateIs ==
  ASSUME TypeOK, NEW key \in Key \cup {NoKey}, Create(key)
  PROVE  /\ made' = made + 1 /\ made' \in Id
         /\ jobs' \in Seq(Job) /\ Len(jobs') <= MaxJobs
         /\ \A i \in DOMAIN jobs' :
              \/ i = 1 /\ jobs'[i].id = made' /\ jobs'[i].status = "queued"
              \/ i - 1 \in DOMAIN jobs /\ jobs'[i] = jobs[i - 1]
<1>1. /\ jobs \in Seq(Job) /\ Len(jobs) \in Nat /\ Len(jobs) <= MaxJobs /\ made \in 0 .. MaxCreated
  BY Types
<1>2. MaxJobs \in Nat \ {0} /\ MaxCreated \in Nat
  BY BoundAssumption
<1>3. made' = made + 1 /\ made' \in Id
  BY <1>1, <1>2 DEF Create, Id
<1>. DEFINE new == [id |-> made', key |-> key, status |-> "queued"]
            list == <<new>> \o jobs
            kept == IF Len(list) < MaxJobs THEN Len(list) ELSE MaxJobs
<1>4. new \in Job /\ new.id = made' /\ new.status = "queued"
  BY <1>3 DEF Job
<1>5. jobs' = SubSeq(list, 1, kept)
  BY DEF Create, Kept
<1>. HIDE DEF new
<1>6. /\ list \in Seq(Job) /\ Len(list) = Len(jobs) + 1
      /\ \A i \in 1 .. Len(list) : list[i] = IF i = 1 THEN new ELSE jobs[i - 1]
  <2>1. <<new>> \in Seq(Job) /\ Len(<<new>>) = 1 /\ <<new>>[1] = new
    BY <1>4
  <2>2. list \in Seq(Job) /\ Len(list) = 1 + Len(jobs)
    BY <1>1, <2>1, ConcatProperties
  <2>3. \A i \in 1 .. 1 + Len(jobs) : list[i] = IF i <= 1 THEN <<new>>[i] ELSE jobs[i - 1]
    BY <1>1, <2>1, ConcatProperties
  <2>. QED
    BY <1>1, <2>1, <2>2, <2>3
<1>. HIDE DEF list
<1>7. kept \in 1 .. Len(list) /\ kept <= MaxJobs /\ kept \in Nat
  BY <1>1, <1>2, <1>6
<1>. HIDE DEF kept
<1>8. /\ jobs' \in Seq(Job) /\ Len(jobs') = kept /\ DOMAIN jobs' = 1 .. kept
      /\ \A i \in 1 .. kept : jobs'[i] = list[i]
  BY <1>5, <1>6, <1>7
<1>9. ASSUME NEW i \in DOMAIN jobs'
      PROVE  \/ i = 1 /\ jobs'[i].id = made' /\ jobs'[i].status = "queued"
             \/ i - 1 \in DOMAIN jobs /\ jobs'[i] = jobs[i - 1]
  <2>1. i \in 1 .. Len(list) /\ jobs'[i] = IF i = 1 THEN new ELSE jobs[i - 1]
    BY <1>6, <1>7, <1>8
  <2>2. i # 1 => i - 1 \in DOMAIN jobs
    BY <1>1, <1>6, <2>1
  <2>. QED
    BY <1>4, <2>1, <2>2
<1>. QED
  BY <1>3, <1>7, <1>8, <1>9

\* The status of a stored job is one that the file has for it.
LEMMA StatusIs ==
  ASSUME TypeOK, NEW id, id \in Stored
  PROVE  \E i \in DOMAIN jobs : jobs[i].id = id /\ StatusOf(id) = jobs[i].status
<1>1. \E j \in ToSet(jobs) : j.id = id
  BY DEF Stored, ToSet
<1>. DEFINE c == CHOOSE j \in ToSet(jobs) : j.id = id
<1>2. c \in ToSet(jobs) /\ c.id = id
  BY <1>1
<1>3. StatusOf(id) = c.status
  BY DEF StatusOf
<1>. QED
  BY <1>2, <1>3 DEF ToSet

\* The execution of id by p becomes x.
Becomes(p, id, x) == run' = [run EXCEPT ![p][id] = x]

\* It does, and no other changes.
LEMMA BecomesCell ==
  ASSUME TypeOK, NEW p \in Proc, NEW id \in Id, NEW x \in Work, Becomes(p, id, x)
  PROVE  /\ run' \in [Proc -> [Id -> Work]]
         /\ run'[p][id] = x
         /\ \A q \in Proc, k \in Id : q # p \/ k # id => run'[q][k] = run[q][k]
<1>1. run \in [Proc -> [Id -> Work]]
  BY Types
<1>. QED
  BY <1>1 DEF Becomes

\* Goes moves the stage of an execution, Ends forgets it.
LEMMA GoesIs ==
  ASSUME TypeOK, NEW p \in Proc, NEW id \in Id, NEW stage \in Stage, Goes(p, id, stage)
  PROVE  \E x \in Work : Becomes(p, id, x) /\ x.at = stage /\ x.result = run[p][id].result
<1>1. run \in [Proc -> [Id -> Work]] /\ run[p][id] \in Work
  BY Types
<1>. DEFINE x == [run[p][id] EXCEPT !.at = stage]
<1>2. x \in Work /\ x.at = stage /\ x.result = run[p][id].result
  BY <1>1 DEF Work
<1>3. Becomes(p, id, x)
  BY <1>1 DEF Becomes, Goes
<1>. QED
  BY <1>2, <1>3

\* The end of an execution leaves nothing of it.
LEMMA EndsIs ==
  ASSUME NEW p \in Proc, NEW id \in Id, Ends(p, id)
  PROVE  Becomes(p, id, Idle) /\ Idle \in Work /\ Idle.at = "idle" /\ ~Idle.result.whole
  BY DEF Ends, Becomes, Idle, Work, Stage, Result

\* A mutation that throws leaves the file as it is.
LEMMA ThrowsIs ==
  ASSUME TypeOK, NEW id, Throws(id)
  PROVE  UNCHANGED jobs /\ faults' \in Fault
<1>1. faults \in Fault /\ MaxBusy \in Nat
  BY Types, BoundAssumption
<1>2. CASE faults.busy < MaxBusy /\ faults' = [faults EXCEPT !.busy = @ + 1]
  BY <1>1, <1>2 DEF Throws, Fault
<1>3. CASE UNCHANGED faults
  BY <1>1, <1>3 DEF Throws
<1>. QED
  BY <1>2, <1>3 DEF Throws

-----------------------------------------------------------------------------
(* The steps of an execution, all alike: the file stays, or its job gets a   *)
(* status that is earned, and the last one if it is a conclusion.            *)

Earned(id, s) == s = "completed" => id \in past

Works(p, id) == \E x \in Work :
  /\ Becomes(p, id, x)
  /\ x.result.whole => id \in past'
  /\ \/ UNCHANGED jobs /\ (x.at # "idle" => run[p][id].at # "idle")
     \/ \E s \in Status : Put(id, s) /\ Earned(id, s) /\ (s \in Terminal => x.at = "idle" \/ s = StatusOf(id))
  /\ faults' \in Fault

\* A put that only moves the execution on, or ends it.
LEMMA Moving ==
  ASSUME TypeOK, WholeIsPast, past \subseteq past', NEW p \in Proc, NEW id \in Id, run[p][id].at # "idle",
         NEW stage \in Stage, Goes(p, id, stage),
         \/ UNCHANGED jobs
         \/ \E s \in Status : Put(id, s) /\ Earned(id, s) /\ (s \in Terminal => s = StatusOf(id)),
         faults' \in Fault
  PROVE  Works(p, id)
<1>1. PICK x \in Work : Becomes(p, id, x) /\ x.at = stage /\ x.result = run[p][id].result
  BY GoesIs
<1>2. x.result.whole => id \in past'
  BY <1>1 DEF WholeIsPast
<1>. QED
  BY <1>1, <1>2 DEF Works

\* The end of an execution, with or without a last update.
LEMMA Ending ==
  ASSUME NEW p \in Proc, NEW id \in Id, Ends(p, id),
         \/ UNCHANGED jobs
         \/ \E s \in Status : Put(id, s) /\ Earned(id, s),
         faults' \in Fault
  PROVE  Works(p, id)
<1>1. Becomes(p, id, Idle) /\ Idle \in Work /\ Idle.at = "idle" /\ ~Idle.result.whole
  BY EndsIs
<1>. QED
  BY <1>1 DEF Works

\* Every step of an execution is of that kind.
LEMMA AdvanceEffect ==
  ASSUME AnyInv, NEW p \in Proc, NEW id \in Id, Advance(p, id)
  PROVE  /\ Idles(p) /\ run[p][id].at # "idle" /\ UNCHANGED <<made, calling>>
         /\ past \subseteq past' /\ past' \subseteq Id
         /\ Works(p, id)
<1>1. TypeOK /\ WholeIsPast /\ CompletedEarned
  BY DEF AnyInv
<1>2. /\ past \subseteq Id /\ faults \in Fault
  BY <1>1, Types
<1>3. Idles(p) /\ run[p][id].at # "idle" /\ UNCHANGED <<made, calling>> /\ past \subseteq past' /\ past' \subseteq Id
  BY <1>2 DEF Advance, Swept, SweepThrows, Failed, Stages, Hunts, Cases, Caught, At, Rest
<1>. SUFFICES Works(p, id)
  BY <1>3
<1>. DEFINE Put1 == \E s \in Status : Put(id, s) /\ Earned(id, s)
            Put2 == \E s \in Status : Put(id, s) /\ Earned(id, s) /\ (s \in Terminal => s = StatusOf(id))
            F == faults' \in Fault
<1>4. \A s : Put(id, s) => UNCHANGED faults /\ id \in Stored
  BY DEF Put
<1>5. Throws(id) => UNCHANGED jobs /\ F
  BY <1>1, ThrowsIs
<1>6. UNCHANGED faults => F
  BY <1>2
<1>7. Put(id, StatusOf(id)) => Put2 /\ F
  <2>. SUFFICES ASSUME Put(id, StatusOf(id)) PROVE Put2 /\ F
    OBVIOUS
  <2>1. PICK i \in DOMAIN jobs : jobs[i].id = id /\ StatusOf(id) = jobs[i].status
    BY <1>1, <1>4, StatusIs
  <2>2. StatusOf(id) \in Status /\ jobs[i] \in ToSet(jobs)
    BY <1>1, <2>1, Types DEF ToSet
  <2>3. Earned(id, StatusOf(id))
    BY <1>1, <2>1, <2>2 DEF CompletedEarned, Earned
  <2>. QED
    BY <1>4, <1>6, <2>2, <2>3
<1>8. Put(id, Concluded(p, id)) => Put1 /\ F
  <2>1. Concluded(p, id) \in Status /\ Earned(id, Concluded(p, id))
    BY <1>1 DEF Concluded, Status, Terminal, Earned, WholeIsPast
  <2>. QED
    BY <1>4, <1>6, <2>1
<1>9. Put(id, "partial") \/ Put(id, "failed") => Put1 /\ F
  BY <1>4, <1>6 DEF Status, Terminal, Earned
<1>10. ASSUME NEW stage \in Stage, Goes(p, id, stage), UNCHANGED jobs \/ Put2, F PROVE Works(p, id)
  BY <1>1, <1>3, <1>10, Moving
<1>11. ASSUME Ends(p, id), UNCHANGED jobs \/ Put1, F PROVE Works(p, id)
  BY <1>11, Ending
<1>. HIDE DEF Put1, Put2, F
<1>12. CASE Swept(p, id)
  <2>1. PICK result \in Result :
          /\ past' = IF result.whole THEN past \cup {id} ELSE past
          /\ run' = [run EXCEPT ![p][id] = IF StatusOf(id) \in Terminal \cup {"gone"} THEN Idle
                                           ELSE [at |-> "stages", result |-> result]]
    BY <1>12 DEF Swept
  <2>2. UNCHANGED <<jobs, faults>>
    BY <1>12 DEF Swept
  <2>3. CASE StatusOf(id) \in Terminal \cup {"gone"}
    BY <1>6, <1>11, <2>1, <2>2, <2>3 DEF Ends
  <2>4. CASE ~(StatusOf(id) \in Terminal \cup {"gone"})
    <3>. DEFINE x == [at |-> "stages", result |-> result]
    <3>1. x \in Work /\ x.result = result
      BY DEF Work, Stage
    <3>2. Becomes(p, id, x)
      BY <2>1, <2>4 DEF Becomes
    <3>3. x.result.whole => id \in past'
      BY <2>1, <3>1
    <3>. HIDE DEF x
    <3>. QED
      BY <1>3, <1>6, <2>2, <3>1, <3>2, <3>3 DEF Works, F
  <2>. QED
    BY <2>3, <2>4
<1>13. CASE SweepThrows(p, id)
  <2>1. CASE Goes(p, id, "threw")
    BY <1>6, <1>10, <1>13, <2>1 DEF SweepThrows, Stage
  <2>2. CASE Ends(p, id)
    BY <1>6, <1>11, <1>13, <2>2 DEF SweepThrows
  <2>. QED
    BY <1>13, <2>1, <2>2 DEF SweepThrows
<1>14. CASE Failed(p, id)
  BY <1>5, <1>9, <1>11, <1>14 DEF Failed
<1>15. CASE Stages(p, id)
  <2>1. CASE Put(id, StatusOf(id)) /\ Goes(p, id, "hunts")
    BY <1>7, <1>10, <2>1 DEF Stage
  <2>2. CASE Put(id, Concluded(p, id)) /\ Ends(p, id)
    BY <1>8, <1>11, <2>2
  <2>3. CASE Throws(id) /\ Ends(p, id)
    BY <1>5, <1>11, <2>3
  <2>. QED
    BY <1>15, <2>1, <2>2, <2>3 DEF Stages
<1>16. CASE Hunts(p, id)
  <2>1. CASE Put(id, StatusOf(id)) /\ Goes(p, id, "cases")
    BY <1>7, <1>10, <2>1 DEF Stage
  <2>2. CASE (Throws(id) \/ UNCHANGED <<jobs, faults>>) /\ Goes(p, id, "caught")
    BY <1>5, <1>6, <1>10, <2>2 DEF Stage
  <2>. QED
    BY <1>16, <2>1, <2>2 DEF Hunts
<1>17. CASE Cases(p, id)
  <2>1. CASE \E status \in {Concluded(p, id), "partial"} : Put(id, status) /\ Ends(p, id)
    BY <1>8, <1>9, <1>11, <2>1
  <2>2. CASE (Throws(id) \/ UNCHANGED <<jobs, faults>>) /\ Goes(p, id, "caughtCases")
    BY <1>5, <1>6, <1>10, <2>2 DEF Stage
  <2>. QED
    BY <1>17, <2>1, <2>2 DEF Cases
<1>18. CASE Caught(p, id)
  <2>1. CASE Throws(id) /\ Goes(p, id, "caught")
    BY <1>5, <1>10, <2>1 DEF Stage
  <2>2. CASE (Put(id, "partial") \/ Throws(id)) /\ Ends(p, id)
    BY <1>5, <1>9, <1>11, <2>2
  <2>. QED
    BY <1>18, <2>1, <2>2 DEF Caught
<1>. QED
  BY <1>12, <1>13, <1>14, <1>15, <1>16, <1>17, <1>18 DEF Advance

\* start() answers, begins an execution of a job that is not concluded, or throws.
LEMMA LaunchEffect ==
  ASSUME AnyInv, NEW p \in Proc, Launch(p)
  PROVE  /\ ~Idles(p) /\ calling' = [calling EXCEPT ![p] = NoCall] /\ UNCHANGED <<made, past>>
         /\ \/ /\ UNCHANGED <<jobs, run>>
               /\ faults' \in Fault
            \/ /\ calling[p].id \in Id /\ calling[p].status \notin Terminal
               /\ Put(calling[p].id, "running") /\ Works(p, calling[p].id)
<1>1. TypeOK /\ WholeIsPast
  BY DEF AnyInv
<1>. DEFINE id == calling[p].id
            F == faults' \in Fault
<1>2. ~Idles(p) /\ calling' = [calling EXCEPT ![p] = NoCall] /\ UNCHANGED <<made, past>>
  BY DEF Launch
<1>3. UNCHANGED faults => F
  BY <1>1, Types
<1>4. CASE UNCHANGED <<jobs, run, faults>>
  BY <1>2, <1>3, <1>4
<1>5. CASE Throws(id) /\ UNCHANGED run
  BY <1>1, <1>2, <1>5, ThrowsIs
<1>6. CASE ~Answered(p) /\ Put(id, "running") /\ Goes(p, id, "sweep")
  <2>1. "running" \in Status /\ "sweep" \in Stage /\ "running" \notin Terminal
    BY DEF Status, Stage, Terminal
  <2>2. id \in Id /\ UNCHANGED faults
    BY <1>1, <1>6, <2>1, PutIs
  <2>3. PICK x \in Work : Becomes(p, id, x) /\ x.at = "sweep" /\ x.result = run[p][id].result
    BY <1>1, <1>6, <2>1, <2>2, GoesIs
  <2>4. x.result.whole => id \in past'
    BY <1>1, <1>2, <2>2, <2>3 DEF WholeIsPast
  <2>5. Earned(id, "running")
    BY DEF Earned
  <2>6. Works(p, id)
    BY <1>3, <1>6, <2>1, <2>2, <2>3, <2>4, <2>5 DEF Works
  <2>. QED
    BY <1>2, <1>6, <2>2, <2>6 DEF Answered
<1>. QED
  BY <1>4, <1>5, <1>6 DEF Launch

-----------------------------------------------------------------------------
(* What every step keeps, with any number of processes.                      *)

\* The types from their parts, one step later.
LEMMA TypesBack ==
  ASSUME jobs' \in Seq(Job), Len(jobs') <= MaxJobs, made' \in 0 .. MaxCreated,
         run' \in [Proc -> [Id -> Work]], calling' \in [Proc -> Call], past' \subseteq Id,
         faults' \in Fault
  PROVE  TypeOK'
  BY DEF TypeOK, Work, Call, Status

\* A step of an execution keeps them: the conclusion it writes is earned.
LEMMA WorksKeeps ==
  ASSUME AnyInv, NEW p \in Proc, NEW id \in Id, Works(p, id), past \subseteq past', past' \subseteq Id,
         UNCHANGED made, calling' \in [Proc -> Call]
  PROVE  AnyInv'
<1>1. TypeOK /\ IdsDistinct /\ WholeIsPast /\ CompletedEarned
  BY DEF AnyInv
<1>2. PICK x \in Work :
        /\ Becomes(p, id, x)
        /\ x.result.whole => id \in past'
        /\ UNCHANGED jobs \/ \E s \in Status : Put(id, s) /\ Earned(id, s)
        /\ faults' \in Fault
  BY DEF Works
<1>3. /\ jobs' \in Seq(Job) /\ Len(jobs') = Len(jobs) /\ DOMAIN jobs' = DOMAIN jobs
      /\ \A i \in DOMAIN jobs : /\ jobs'[i].id = jobs[i].id
                                /\ jobs'[i].status = "completed" => jobs[i].id \in past'
  <2>1. \A i \in DOMAIN jobs : jobs[i].status = "completed" => jobs[i].id \in past
    BY <1>1 DEF CompletedEarned, ToSet
  <2>2. CASE UNCHANGED jobs
    <3>1. jobs \in Seq(Job)
      BY <1>1, Types
    <3>. QED
      BY <2>1, <2>2, <3>1
  <2>3. ASSUME NEW s \in Status, Put(id, s), Earned(id, s)
        PROVE  /\ jobs' \in Seq(Job) /\ Len(jobs') = Len(jobs) /\ DOMAIN jobs' = DOMAIN jobs
               /\ \A i \in DOMAIN jobs : /\ jobs'[i].id = jobs[i].id
                                         /\ jobs'[i].status = "completed" => jobs[i].id \in past'
    <3>1. /\ jobs' \in Seq(Job) /\ Len(jobs') = Len(jobs) /\ DOMAIN jobs' = DOMAIN jobs
          /\ \A i \in DOMAIN jobs : /\ jobs'[i].id = jobs[i].id
                                    /\ jobs[i].id = id => jobs'[i].status = s
                                    /\ jobs[i].id # id => jobs'[i] = jobs[i]
      BY <1>1, <2>3, PutIs
    <3>2. \A i \in DOMAIN jobs : jobs'[i].status = "completed" => jobs[i].id \in past'
      BY <2>1, <2>3, <3>1 DEF Earned
    <3>. QED
      BY <3>1, <3>2
  <2>. QED
    BY <1>2, <2>2, <2>3
<1>4. /\ run' \in [Proc -> [Id -> Work]] /\ run'[p][id] = x
      /\ \A q \in Proc, k \in Id : q # p \/ k # id => run'[q][k] = run[q][k]
  BY <1>1, <1>2, BecomesCell
<1>5. TypeOK'
  <2>1. Len(jobs) <= MaxJobs /\ made \in 0 .. MaxCreated
    BY <1>1, Types
  <2>. QED
    BY <1>2, <1>3, <1>4, <2>1, TypesBack
<1>6. IdsDistinct'
  BY <1>1, <1>3 DEF IdsDistinct
<1>7. WholeIsPast'
  BY <1>1, <1>2, <1>4 DEF WholeIsPast
<1>8. CompletedEarned'
  BY <1>3 DEF CompletedEarned, ToSet
<1>. QED
  BY <1>5, <1>6, <1>7, <1>8 DEF AnyInv

\* So does the creation of a job, whatever becomes of it.
LEMMA CreateKeeps ==
  ASSUME AnyInv, NEW key \in Key \cup {NoKey}, Create(key), UNCHANGED <<past, faults>>,
         run' \in [Proc -> [Id -> Work]], WholeIsPast', calling' \in [Proc -> Call]
  PROVE  AnyInv'
<1>1. TypeOK /\ IdsDistinct /\ CompletedEarned
  BY DEF AnyInv
<1>2. /\ made' = made + 1 /\ made' \in Id
      /\ jobs' \in Seq(Job) /\ Len(jobs') <= MaxJobs
      /\ \A i \in DOMAIN jobs' :
           \/ i = 1 /\ jobs'[i].id = made' /\ jobs'[i].status = "queued"
           \/ i - 1 \in DOMAIN jobs /\ jobs'[i] = jobs[i - 1]
  BY <1>1, CreateIs
<1>3. /\ made \in 0 .. MaxCreated /\ MaxCreated \in Nat /\ past \subseteq Id
      /\ faults \in Fault
      /\ DOMAIN jobs' = 1 .. Len(jobs') /\ Len(jobs') \in Nat
      /\ \A i \in DOMAIN jobs : jobs[i].id \in Id
  BY <1>1, <1>2, Types, BoundAssumption
<1>4. TypeOK'
  <2>1. made' \in 0 .. MaxCreated
    BY <1>2, <1>3 DEF Id
  <2>. QED
    BY <1>2, <1>3, <2>1, TypesBack
<1>5. IdsDistinct'
  <2>1. \A i \in DOMAIN jobs : jobs[i].id <= made /\ jobs[i].id \in Int
    BY <1>1, <1>3 DEF IdsDistinct, Id
  <2>2. \A i \in DOMAIN jobs' : jobs'[i].id <= made'
    BY <1>2, <1>3, <2>1
  <2>3. ASSUME NEW i \in DOMAIN jobs', NEW k \in DOMAIN jobs', jobs'[i].id = jobs'[k].id PROVE i = k
    <3>1. i \in Int /\ k \in Int
      BY <1>3
    <3>2. CASE i = 1 /\ jobs'[i].id = made' /\ ~(k = 1)
      BY <1>2, <1>3, <2>1, <2>3, <3>2
    <3>3. CASE k = 1 /\ jobs'[k].id = made' /\ ~(i = 1)
      BY <1>2, <1>3, <2>1, <2>3, <3>3
    <3>4. CASE i - 1 \in DOMAIN jobs /\ jobs'[i] = jobs[i - 1] /\ k - 1 \in DOMAIN jobs /\ jobs'[k] = jobs[k - 1]
      <4>1. i - 1 = k - 1
        BY <1>1, <2>3, <3>4 DEF IdsDistinct
      <4>. QED
        BY <3>1, <4>1
    <3>. QED
      BY <1>2, <3>2, <3>3, <3>4
  <2>. QED
    BY <2>2, <2>3 DEF IdsDistinct
<1>6. CompletedEarned'
  BY <1>1, <1>2 DEF CompletedEarned, ToSet
<1>. QED
  BY <1>4, <1>5, <1>6 DEF AnyInv

\* Every step keeps the inductive invariant.
LEMMA AnyStep == AnyInv /\ [Next]_vars => AnyInv'
<1>. SUFFICES ASSUME AnyInv, [Next]_vars PROVE AnyInv'
  OBVIOUS
<1>1. TypeOK /\ IdsDistinct /\ WholeIsPast /\ CompletedEarned
  BY DEF AnyInv
<1>2. /\ jobs \in Seq(Job) /\ Len(jobs) <= MaxJobs /\ made \in 0 .. MaxCreated
      /\ \A i \in DOMAIN jobs : jobs[i].id \in Id /\ jobs[i].status \in Status
      /\ run \in [Proc -> [Id -> Work]] /\ calling \in [Proc -> Call] /\ past \subseteq Id
      /\ faults \in Fault
      /\ MaxCreated \in Nat /\ MaxBusy \in Nat /\ MaxDeaths \in Nat
  BY <1>1, Types, BoundAssumption
<1>3. Idle \in Work /\ Idle.result.whole = FALSE /\ NoCall \in Call
  BY <1>2 DEF Idle, Work, Stage, Result, NoCall, Call, Status
<1>4. ASSUME UNCHANGED jobs, UNCHANGED <<made, past>>, run' \in [Proc -> [Id -> Work]], WholeIsPast',
             calling' \in [Proc -> Call], faults' \in Fault
      PROVE  AnyInv'
  <2>1. TypeOK'
    BY <1>2, <1>4, TypesBack
  <2>2. IdsDistinct' /\ CompletedEarned'
    BY <1>1, <1>4 DEF IdsDistinct, CompletedEarned
  <2>. QED
    BY <1>4, <2>1, <2>2 DEF AnyInv
<1>5. UNCHANGED run /\ past \subseteq past' => run' \in [Proc -> [Id -> Work]] /\ WholeIsPast'
  BY <1>1, <1>2 DEF WholeIsPast
<1>6. ASSUME NEW p \in Proc, Launch(p) PROVE AnyInv'
  <2>1. calling' \in [Proc -> Call] /\ UNCHANGED <<made, past>>
    BY <1>2, <1>3, <1>6, LaunchEffect
  <2>2. CASE UNCHANGED <<jobs, run>> /\ faults' \in Fault
    BY <1>4, <1>5, <2>1, <2>2
  <2>3. CASE calling[p].id \in Id /\ Works(p, calling[p].id)
    BY <1>2, <2>1, <2>3, WorksKeeps
  <2>. QED
    BY <1>6, <2>2, <2>3, LaunchEffect
<1>7. ASSUME NEW p \in Proc, Cycle(p) PROVE AnyInv'
  <2>1. Create(NoKey) /\ Goes(p, made', "cycle") /\ UNCHANGED <<calling, past, faults>>
    BY <1>7 DEF Cycle
  <2>2. PICK id \in Id : id = made'
    BY <1>1, <2>1, CreateIs
  <2>3. Goes(p, id, "cycle") /\ "cycle" \in Stage
    BY <2>1, <2>2 DEF Goes, Stage
  <2>4. PICK x \in Work : Becomes(p, id, x) /\ x.at = "cycle" /\ x.result = run[p][id].result
    BY <1>1, <2>3, GoesIs
  <2>5. /\ run' \in [Proc -> [Id -> Work]] /\ run'[p][id] = x
        /\ \A q \in Proc, k \in Id : q # p \/ k # id => run'[q][k] = run[q][k]
    BY <1>1, <2>4, BecomesCell
  <2>6. WholeIsPast'
    BY <1>1, <2>1, <2>4, <2>5 DEF WholeIsPast
  <2>. QED
    BY <1>2, <2>1, <2>5, <2>6, CreateKeeps
<1>8. ASSUME NEW p \in Proc, Crash(p) PROVE AnyInv'
  <2>1. /\ run' = [run EXCEPT ![p] = [id \in Id |-> Idle]] /\ calling' = [calling EXCEPT ![p] = NoCall]
        /\ UNCHANGED jobs /\ UNCHANGED <<made, past>>
    BY <1>8 DEF Crash
  <2>2. run' \in [Proc -> [Id -> Work]] /\ calling' \in [Proc -> Call]
    BY <1>2, <1>3, <2>1
  <2>3. WholeIsPast'
    BY <1>1, <1>2, <1>3, <2>1 DEF WholeIsPast
  <2>4. faults' \in Fault
    <3>1. PICK left \in BOOLEAN :
            /\ faults.deaths < MaxDeaths
            /\ faults' = [faults EXCEPT !.deaths = @ + 1, !.locked = @ \/ left]
      BY <1>8 DEF Crash
    <3>2. faults \in Fault /\ MaxDeaths \in Nat
      BY <1>2, BoundAssumption
    <3>3. faults.locked \in BOOLEAN /\ faults.deaths + 1 \in 0 .. MaxDeaths
      BY <3>1, <3>2 DEF Fault
    <3>4. PICK b \in BOOLEAN : b = (faults.locked \/ left)
      BY <3>3
    <3>5. faults' = [faults EXCEPT !.deaths = faults.deaths + 1, !.locked = b]
      BY <3>1, <3>4
    <3>. QED
      BY <3>2, <3>3, <3>5 DEF Fault
  <2>. QED
    BY <1>4, <2>1, <2>2, <2>3, <2>4
<1>9. ASSUME NEW p \in Proc, NEW id \in Id, Advance(p, id) PROVE AnyInv'
  <2>1. UNCHANGED <<made, calling>> /\ past \subseteq past' /\ past' \subseteq Id /\ Works(p, id)
    BY <1>9, AdvanceEffect
  <2>. QED
    BY <1>2, <2>1, WorksKeeps
<1>10. ASSUME NEW p \in Proc, NEW key \in Key \cup {NoKey}, Start(p, key) PROVE AnyInv'
  <2>1. UNCHANGED <<run, past, faults>>
    BY <1>10 DEF Start
  <2>2. run' \in [Proc -> [Id -> Work]] /\ WholeIsPast'
    BY <1>5, <2>1
  <2>3. ASSUME NEW j \in Holding(key), UNCHANGED <<jobs, made>>,
               calling' = [calling EXCEPT ![p] = [id |-> j.id, status |-> j.status]]
        PROVE  AnyInv'
    <3>1. j.id \in 0 .. MaxCreated /\ j.status \in Status
      BY <1>2 DEF Holding, ToSet, Id
    <3>2. calling' \in [Proc -> Call]
      BY <1>2, <2>3, <3>1 DEF Call
    <3>. QED
      BY <1>2, <1>4, <2>1, <2>2, <2>3, <3>2
  <2>4. CASE Create(key) /\ calling' = [calling EXCEPT ![p] = [id |-> made', status |-> "queued"]]
    <3>1. made' \in 0 .. MaxCreated
      BY <1>1, <2>4, CreateIs DEF Id
    <3>2. calling' \in [Proc -> Call]
      BY <1>2, <2>4, <3>1 DEF Call, Status
    <3>. QED
      BY <2>1, <2>2, <2>4, <3>2, CreateKeeps
  <2>. QED
    BY <1>10, <2>3, <2>4 DEF Start
<1>11. CASE UNCHANGED vars
  BY <1>2, <1>4, <1>5, <1>11 DEF vars
<1>. QED
  BY <1>6, <1>7, <1>8, <1>9, <1>10, <1>11 DEF Next

-----------------------------------------------------------------------------
(* With one process.                                                         *)

\* A conclusion in the file stays there as it is, or is cut off.
Stays == \A j \in ToSet(jobs) : j.status \in Terminal => \A k \in ToSet(jobs') : k.id = j.id => k = j

\* An update of a job that is not concluded leaves the conclusions alone.
LEMMA PutStays ==
  ASSUME AnyInv, NEW id, NEW s \in Status, Put(id, s),
         \A i \in DOMAIN jobs : jobs[i].id = id => jobs[i].status \notin Terminal
  PROVE  Stays
<1>1. /\ DOMAIN jobs' = DOMAIN jobs
      /\ \A i \in DOMAIN jobs : jobs'[i].id = jobs[i].id /\ (jobs[i].id # id => jobs'[i] = jobs[i])
  BY PutIs DEF AnyInv
<1>. SUFFICES ASSUME NEW i \in DOMAIN jobs, jobs[i].status \in Terminal,
                     NEW k \in DOMAIN jobs, jobs'[k].id = jobs[i].id
              PROVE  jobs'[k] = jobs[i]
  BY <1>1 DEF Stays, ToSet
<1>2. i = k
  BY <1>1 DEF AnyInv, IdsDistinct
<1>. QED
  BY <1>1, <1>2

\* So does a file that nobody touches.
LEMMA FileStays ==
  ASSUME AnyInv, UNCHANGED jobs
  PROVE  Stays
  BY DEF Stays, AnyInv, IdsDistinct, ToSet

\* And so does the creation of a job: its id is new.
LEMMA CreateStays ==
  ASSUME AnyInv, NEW key \in Key \cup {NoKey}, Create(key)
  PROVE  Stays
<1>1. /\ made' = made + 1 /\ made \in Int
      /\ \A i \in DOMAIN jobs' : \/ jobs'[i].id = made'
                                 \/ i - 1 \in DOMAIN jobs /\ jobs'[i] = jobs[i - 1]
  BY CreateIs, Types DEF AnyInv
<1>2. \A i \in DOMAIN jobs : jobs[i].id # made'
  BY <1>1, Types DEF AnyInv, IdsDistinct, Id
<1>. SUFFICES ASSUME NEW i \in DOMAIN jobs, jobs[i].status \in Terminal,
                     NEW k \in DOMAIN jobs', jobs'[k].id = jobs[i].id
              PROVE  jobs'[k] = jobs[i]
  BY DEF Stays, ToSet
<1>3. k - 1 \in DOMAIN jobs /\ jobs'[k] = jobs[k - 1]
  BY <1>1, <1>2
<1>4. k - 1 = i
  BY <1>3 DEF AnyInv, IdsDistinct
<1>. QED
  BY <1>3, <1>4

\* No execution is left of what a step of an execution concludes.
LEMMA WorksUnconcluded ==
  ASSUME OneProcess, AnyInv, AtWorkUnconcluded, NEW p \in Proc, NEW id \in Id, Works(p, id),
         run[p][id].at # "idle" \/ \E s \in Status \ Terminal : Put(id, s)
  PROVE  AtWorkUnconcluded'
<1>1. TypeOK
  BY DEF AnyInv
<1>2. PICK x \in Work :
        /\ Becomes(p, id, x)
        /\ \/ UNCHANGED jobs /\ (x.at # "idle" => run[p][id].at # "idle")
           \/ \E s \in Status : Put(id, s) /\ (s \in Terminal => x.at = "idle" \/ s = StatusOf(id))
  BY DEF Works
<1>3. /\ run'[p][id] = x
      /\ \A q \in Proc, k \in Id : q # p \/ k # id => run'[q][k] = run[q][k]
  BY <1>1, <1>2, BecomesCell
<1>4. CASE UNCHANGED jobs /\ (x.at # "idle" => run[p][id].at # "idle")
  BY <1>3, <1>4 DEF AtWorkUnconcluded
<1>5. ASSUME NEW s \in Status, Put(id, s), s \in Terminal => x.at = "idle" \/ s = StatusOf(id)
      PROVE  AtWorkUnconcluded'
  <2>1. /\ DOMAIN jobs' = DOMAIN jobs
        /\ \A i \in DOMAIN jobs : /\ jobs'[i].id = jobs[i].id
                                  /\ jobs[i].id = id => jobs'[i].status = s
                                  /\ jobs[i].id # id => jobs'[i] = jobs[i]
    BY <1>1, <1>5, PutIs
  <2>2. PICK n \in DOMAIN jobs : jobs[n].id = id /\ StatusOf(id) = jobs[n].status
    BY <1>1, <1>5, StatusIs DEF Put
  <2>3. x.at # "idle" => s \notin Terminal
    <3>1. CASE run[p][id].at # "idle"
      BY <1>5, <2>2, <3>1 DEF AtWorkUnconcluded
    <3>2. ASSUME NEW t \in Status \ Terminal, Put(id, t) PROVE s \notin Terminal
      <4>1. jobs'[n].status = t
        BY <1>1, <2>2, <3>2, PutIs
      <4>. QED
        BY <2>1, <2>2, <4>1
    <3>. QED
      BY <3>1, <3>2
  <2>. SUFFICES ASSUME NEW q \in Proc, NEW k \in Id, run'[q][k].at # "idle",
                       NEW i \in DOMAIN jobs, jobs[i].id = k
                PROVE  jobs'[i].status \notin Terminal
    BY <2>1 DEF AtWorkUnconcluded
  <2>4. q = p
    BY DEF OneProcess
  <2>5. CASE k = id
    BY <1>3, <2>1, <2>3, <2>4, <2>5
  <2>6. CASE k # id
    BY <1>3, <2>1, <2>6 DEF AtWorkUnconcluded
  <2>. QED
    BY <2>5, <2>6
<1>. QED
  BY <1>2, <1>4, <1>5

\* What one process knows of the jobs it executes and is about to execute stays
\* true, and so do the conclusions in the file.
LEMMA OneStep ==
  ASSUME OneProcess, IndInv, [Next]_vars
  PROVE  CallIsCurrent' /\ AtWorkUnconcluded' /\ Stays
<1>1. AnyInv /\ TypeOK /\ IdsDistinct /\ CallIsCurrent /\ AtWorkUnconcluded
  BY DEF IndInv, AnyInv
<1>2. /\ calling \in [Proc -> Call] /\ run \in [Proc -> [Id -> Work]]
      /\ made \in Int /\ \A i \in DOMAIN jobs : jobs[i].id \in Int
  BY <1>1, Types DEF Id
<1>3. \A q \in Proc : Idles(q) => CallIsCurrent
  BY DEF OneProcess, CallIsCurrent
<1>4. \A q \in Proc : Idles(q)' => CallIsCurrent'
  BY DEF OneProcess, CallIsCurrent
<1>5. \A q \in Proc : Idles(q) /\ UNCHANGED calling => Idles(q)'
  BY DEF Idles
<1>6. \A q \in Proc : calling' = [calling EXCEPT ![q] = NoCall] => Idles(q)'
  BY <1>2 DEF Idles
<1>7. ASSUME NEW key \in Key \cup {NoKey}, Create(key)
      PROVE  /\ \A i \in DOMAIN jobs' : \/ jobs'[i].id = made' /\ jobs'[i].status = "queued"
                                        \/ i - 1 \in DOMAIN jobs /\ jobs'[i] = jobs[i - 1]
             /\ \A i \in DOMAIN jobs : jobs[i].id # made'
  <2>1. made' = made + 1 /\ \A i \in DOMAIN jobs' : \/ jobs'[i].id = made' /\ jobs'[i].status = "queued"
                                                    \/ i - 1 \in DOMAIN jobs /\ jobs'[i] = jobs[i - 1]
    BY <1>1, <1>7, CreateIs
  <2>. QED
    BY <1>1, <1>2, <2>1 DEF IdsDistinct
<1>8. "queued" \notin Terminal /\ "running" \in Status \ Terminal
  BY DEF Terminal, Status
<1>9. ASSUME NEW p \in Proc, Launch(p) PROVE CallIsCurrent' /\ AtWorkUnconcluded' /\ Stays
  <2>1. ~Idles(p) /\ Idles(p)'
    BY <1>1, <1>6, <1>9, LaunchEffect
  <2>2. CASE UNCHANGED <<jobs, run>>
    <3>1. AtWorkUnconcluded'
      BY <1>1, <2>2 DEF AtWorkUnconcluded
    <3>. QED
      BY <1>1, <1>4, <2>1, <2>2, <3>1, FileStays
  <2>3. CASE /\ calling[p].id \in Id /\ calling[p].status \notin Terminal
             /\ Put(calling[p].id, "running") /\ Works(p, calling[p].id)
    <3>1. \A i \in DOMAIN jobs : jobs[i].id = calling[p].id => jobs[i].status \notin Terminal
      BY <1>1, <2>1, <2>3 DEF CallIsCurrent
    <3>2. AtWorkUnconcluded'
      BY <1>1, <1>8, <2>3, WorksUnconcluded
    <3>3. Stays
      BY <1>1, <1>8, <2>3, <3>1, PutStays
    <3>. QED
      BY <1>4, <2>1, <3>2, <3>3
  <2>. QED
    BY <1>1, <1>9, <2>2, <2>3, LaunchEffect
<1>10. ASSUME NEW p \in Proc, Cycle(p) PROVE CallIsCurrent' /\ AtWorkUnconcluded' /\ Stays
  <2>1. Idles(p) /\ UNCHANGED calling /\ Create(NoKey) /\ Goes(p, made', "cycle")
    BY <1>10 DEF Cycle
  <2>2. PICK id \in Id : id = made'
    BY <1>1, <2>1, CreateIs
  <2>3. Goes(p, id, "cycle") /\ "cycle" \in Stage
    BY <2>1, <2>2 DEF Goes, Stage
  <2>4. PICK x \in Work : Becomes(p, id, x)
    BY <1>1, <2>3, GoesIs
  <2>5. \A q \in Proc, k \in Id : k # id => run'[q][k] = run[q][k]
    BY <1>1, <2>4, BecomesCell
  <2>6. /\ \A i \in DOMAIN jobs' : \/ jobs'[i].id = id /\ jobs'[i].status = "queued"
                                   \/ i - 1 \in DOMAIN jobs /\ jobs'[i] = jobs[i - 1]
        /\ \A i \in DOMAIN jobs : jobs[i].id # id
    BY <1>7, <2>1, <2>2
  <2>7. AtWorkUnconcluded'
    <3>. SUFFICES ASSUME NEW q \in Proc, NEW k \in Id, run'[q][k].at # "idle",
                         NEW i \in DOMAIN jobs', jobs'[i].id = k
                  PROVE  jobs'[i].status \notin Terminal
      BY DEF AtWorkUnconcluded
    <3>1. CASE k = id
      BY <1>8, <2>6, <3>1
    <3>2. CASE k # id
      BY <1>1, <2>5, <2>6, <3>2 DEF AtWorkUnconcluded
    <3>. QED
      BY <3>1, <3>2
  <2>. QED
    BY <1>1, <1>4, <1>5, <2>1, <2>7, CreateStays
<1>11. ASSUME NEW p \in Proc, Crash(p) PROVE CallIsCurrent' /\ AtWorkUnconcluded' /\ Stays
  <2>1. /\ UNCHANGED jobs /\ Idles(p)' /\ run' = [run EXCEPT ![p] = [id \in Id |-> Idle]]
    BY <1>6, <1>11 DEF Crash
  <2>2. AtWorkUnconcluded'
    BY <1>2, <2>1 DEF AtWorkUnconcluded, OneProcess, Idle
  <2>. QED
    BY <1>1, <1>4, <2>1, <2>2, FileStays
<1>12. ASSUME NEW p \in Proc, NEW id \in Id, Advance(p, id) PROVE CallIsCurrent' /\ AtWorkUnconcluded' /\ Stays
  <2>1. Idles(p)' /\ run[p][id].at # "idle" /\ Works(p, id)
    BY <1>1, <1>5, <1>12, AdvanceEffect
  <2>2. AtWorkUnconcluded'
    BY <1>1, <2>1, WorksUnconcluded
  <2>3. UNCHANGED jobs \/ \E s \in Status : Put(id, s)
    BY <2>1 DEF Works
  <2>4. \A i \in DOMAIN jobs : jobs[i].id = id => jobs[i].status \notin Terminal
    BY <1>1, <2>1 DEF AtWorkUnconcluded
  <2>5. Stays
    BY <1>1, <2>3, <2>4, FileStays, PutStays
  <2>. QED
    BY <1>4, <2>1, <2>2, <2>5
<1>13. ASSUME NEW p \in Proc, NEW key \in Key \cup {NoKey}, Start(p, key)
       PROVE  CallIsCurrent' /\ AtWorkUnconcluded' /\ Stays
  <2>1. UNCHANGED run
    BY <1>13 DEF Start
  <2>2. ASSUME NEW j \in Holding(key), UNCHANGED <<jobs, made>>,
               calling' = [calling EXCEPT ![p] = [id |-> j.id, status |-> j.status]]
        PROVE  CallIsCurrent' /\ AtWorkUnconcluded' /\ Stays
    <3>1. PICK n \in DOMAIN jobs : jobs[n] = j
      BY DEF Holding, ToSet
    <3>2. calling'[p].id = j.id /\ calling'[p].status = j.status
      BY <1>2, <2>2
    <3>3. CallIsCurrent'
      <4>. SUFFICES ASSUME NEW q \in Proc, NEW i \in DOMAIN jobs, jobs[i].id = calling'[q].id
                    PROVE  jobs[i].status = calling'[q].status
        BY <2>2 DEF CallIsCurrent
      <4>1. q = p
        BY DEF OneProcess
      <4>2. i = n
        BY <1>1, <3>1, <3>2, <4>1 DEF IdsDistinct
      <4>. QED
        BY <3>1, <3>2, <4>1, <4>2
    <3>4. AtWorkUnconcluded'
      BY <1>1, <2>1, <2>2 DEF AtWorkUnconcluded
    <3>. QED
      BY <1>1, <2>2, <3>3, <3>4, FileStays
  <2>3. CASE Create(key) /\ calling' = [calling EXCEPT ![p] = [id |-> made', status |-> "queued"]]
    <3>1. calling'[p].id = made' /\ calling'[p].status = "queued"
      BY <1>2, <2>3
    <3>2. /\ \A i \in DOMAIN jobs' : \/ jobs'[i].id = made' /\ jobs'[i].status = "queued"
                                     \/ i - 1 \in DOMAIN jobs /\ jobs'[i] = jobs[i - 1]
          /\ \A i \in DOMAIN jobs : jobs[i].id # made'
      BY <1>7, <2>3
    <3>3. CallIsCurrent'
      <4>. SUFFICES ASSUME NEW q \in Proc, NEW i \in DOMAIN jobs', jobs'[i].id = calling'[q].id
                    PROVE  jobs'[i].status = calling'[q].status
        BY DEF CallIsCurrent
      <4>1. q = p
        BY DEF OneProcess
      <4>. QED
        BY <3>1, <3>2, <4>1
    <3>4. AtWorkUnconcluded'
      BY <1>1, <1>8, <2>1, <3>2 DEF AtWorkUnconcluded
    <3>. QED
      BY <1>1, <2>3, <3>3, <3>4, CreateStays
  <2>. QED
    BY <1>13, <2>2, <2>3 DEF Start
<1>14. CASE UNCHANGED vars
  BY <1>1, <1>14, FileStays DEF vars, CallIsCurrent, AtWorkUnconcluded, Idles
<1>. QED
  BY <1>9, <1>10, <1>11, <1>12, <1>13, <1>14 DEF Next

-----------------------------------------------------------------------------
\* With any number of processes, the inductive invariant holds in every reachable state.
THEOREM InvariantHolds == Spec => []AnyInv
<1>1. Init => AnyInv
  BY InitInv DEF IndInv
<1>. QED
  BY <1>1, AnyStep, PTL DEF Spec

\* Every variable keeps a value of its type.
THEOREM TypeCorrect == Spec => []TypeOK
  BY InvariantHolds, PTL DEF AnyInv

\* With any number of processes, a job that reports completed had a sweep that was whole.
THEOREM CompletedIsEarned == Spec => []CompletedEarned
  BY InvariantHolds, PTL DEF AnyInv

\* With one process, a call goes on from what the file says of its job, and no
\* execution is left of a job that is concluded.
THEOREM OneProcessInvariant ==
  ASSUME OneProcess
  PROVE  Spec => []IndInv
<1>1. IndInv /\ [Next]_vars => IndInv'
  BY AnyStep, OneStep DEF IndInv
<1>. QED
  BY <1>1, InitInv, PTL DEF Spec

\* With one process, a conclusion is final: no retry, crash or late error of the
\* same job changes it.
THEOREM ConclusionsStand ==
  ASSUME OneProcess
  PROVE  Spec => ConclusionKept
<1>1. IndInv /\ [Next]_vars =>
        [\A j \in ToSet(jobs) : j.status \in Terminal => \A k \in ToSet(jobs') : k.id = j.id => k = j]_vars
  BY OneStep DEF Stays
<1>. QED
  BY <1>1, OneProcessInvariant, PTL DEF Spec, ConclusionKept
=============================================================================
