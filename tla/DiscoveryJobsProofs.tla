------------------------ MODULE DiscoveryJobsProofs ------------------------
(***************************************************************************)
(* Proofs about DiscoveryJobs for any set of jobs and owners and any lease *)
(* length, sweep age and bounds.                                           *)
(***************************************************************************)
EXTENDS DiscoveryJobs, TLAPS

\* The table starts empty and every process idle.
LEMMA InitInv == Init => IndInv
  BY NoOwnerAssumption, NoJobAssumption, TimeAssumption
  DEF Init, IndInv, TypeOK, JobChosen, StatementsMatchControl, NamedAttemptIsCurrent,
      RunningHasOwner, OpenEvidenceHoldsClaim, EvidenceInAttemptOrder, Row, NewRow, Status, Terminal,
      Control, Attempting, Purpose, Floor

\* What the statements write is a row again.
LEMMA RowUpdates ==
  ASSUME NEW r \in Row
  PROVE  /\ Swept(r) \in Row
         /\ Reopened(r) \in Row
         /\ Aged(r) \in Row
         /\ \A o \in Owner, d \in 0 .. MaxLate : Claimed(r, o, d) \in Row
         /\ \A w \in Purpose, e \in Nat : Updated(r, w, e) \in Row
         /\ \A s \in Status : [r EXCEPT !.status = s] \in Row
         /\ \A n \in Floor .. Ttl : [r EXCEPT !.left = n] \in Row
<1>. USE TimeAssumption DEF Row, Floor
<1>1. Swept(r) \in Row
  BY DEF Swept, Status, Terminal
<1>2. Reopened(r) \in Row
  BY DEF Reopened, Status
<1>3. Aged(r) \in Row
  BY DEF Aged
<1>4. \A o \in Owner, d \in 0 .. MaxLate : Claimed(r, o, d) \in Row
  BY DEF Claimed, Status
<1>5. \A w \in Purpose, e \in Nat : Updated(r, w, e) \in Row
  BY DEF Updated, StatusAfter, Purpose, Status, Terminal
<1>. QED
  BY <1>1, <1>2, <1>3, <1>4, <1>5

\* Every action leaves values of their types.
LEMMA TypeStep ==
  ASSUME TypeOK, JobChosen, [Next]_vars
  PROVE  TypeOK'
<1>. USE TimeAssumption DEF TypeOK, Control, Attempting, Purpose, rowVars, planVars, stmtVars,
         JobChosen
<1>1. ASSUME NEW o \in Owner, Sweep(o) PROVE TypeOK'
  BY <1>1, RowUpdates DEF Sweep
<1>2. ASSUME NEW o \in Owner, NothingDue(o) PROVE TypeOK'
  BY <1>2 DEF NothingDue
<1>3. ASSUME NEW o \in Owner, Reopen(o) PROVE TypeOK'
  BY <1>3, RowUpdates DEF Reopen
<1>4. ASSUME NEW o \in Owner, SendClaim(o) PROVE TypeOK'
  BY <1>4 DEF SendClaim
<1>5. ASSUME NEW o \in Owner, GiveUp(o) PROVE TypeOK'
  BY <1>5 DEF GiveUp
<1>6. ASSUME NEW o \in Owner, GrantClaim(o) PROVE TypeOK'
  <2>1. tgt[o] \in Job /\ late[o] \in 0 .. MaxLate
    BY <1>6 DEF GrantClaim
  <2>2. Claimed(job[tgt[o]], o, late[o]) \in Row /\ job[tgt[o]].attempts \in Nat
    BY <2>1, RowUpdates DEF Row
  <2>. QED
    BY <1>6, <2>1, <2>2 DEF GrantClaim
<1>7. ASSUME NEW o \in Owner, RefuseClaim(o) PROVE TypeOK'
  BY <1>7 DEF RefuseClaim
<1>8. ASSUME NEW o \in Owner, NEW j \in Job, PickCandidate(o, j) PROVE TypeOK'
  BY <1>8 DEF PickCandidate
<1>9. ASSUME NEW o \in Owner, NEW j \in Job, CreateOrReuse(o, j) PROVE TypeOK'
  <2>1. [job[j] EXCEPT !.status = "queued"] \in Row
    BY RowUpdates DEF Status
  <2>. QED
    BY <1>9, <2>1 DEF CreateOrReuse
<1>10. ASSUME NEW o \in Owner, NEW j \in Job, ScopeConflict(o, j) PROVE TypeOK'
  BY <1>10 DEF ScopeConflict
<1>11. ASSUME NEW o \in Owner, NEW next \in {"settling", pc[o]}, AssertLease(o, next)
       PROVE TypeOK'
  <2>1. tgt[o] \in Job /\ Ttl \in Floor .. Ttl
    BY <1>11 DEF AssertLease, Floor
  <2>2. [job[tgt[o]] EXCEPT !.left = Ttl] \in Row
    BY <2>1, RowUpdates
  <2>. QED
    BY <1>11, <2>1, <2>2 DEF AssertLease
<1>12. ASSUME NEW o \in Owner, SendHeartbeat(o) PROVE TypeOK'
  BY <1>12 DEF SendHeartbeat
<1>13. ASSUME NEW o \in Owner, ApplyHeartbeat(o) PROVE TypeOK'
  <2>1. tgt[o] \in Job /\ Ttl - late[o] \in Floor .. Ttl
    BY <1>13 DEF ApplyHeartbeat, Floor
  <2>2. [job[tgt[o]] EXCEPT !.left = Ttl - late[o]] \in Row
    BY <2>1, RowUpdates
  <2>. QED
    BY <1>13, <2>1, <2>2 DEF ApplyHeartbeat
<1>14. ASSUME NEW o \in Owner, BeginEvidence(o) PROVE TypeOK'
  BY <1>14 DEF BeginEvidence
<1>15. ASSUME NEW o \in Owner, RecheckClaim(o) PROVE TypeOK'
  BY <1>15 DEF RecheckClaim
<1>16. ASSUME NEW o \in Owner, RollbackEvidence(o) PROVE TypeOK'
  BY <1>16 DEF RollbackEvidence
<1>17. ASSUME NEW o \in Owner, CommitEvidence(o) PROVE TypeOK'
  BY <1>17 DEF CommitEvidence
<1>18. ASSUME NEW o \in Owner, AbortOrphan(o) PROVE TypeOK'
  BY <1>18 DEF AbortOrphan
<1>19. ASSUME NEW o \in Owner, AlreadyTerminal(o) PROVE TypeOK'
  BY <1>19 DEF AlreadyTerminal
<1>20. ASSUME NEW o \in Owner, NEW w \in Purpose, ReadJob(o, w) PROVE TypeOK'
  <2>1. tgt[o] \in Job
    BY <1>20 DEF ReadJob, Purposes
  <2>. QED
    BY <1>20, <2>1 DEF ReadJob, Row
<1>21. ASSUME NEW o \in Owner, WriteJob(o) PROVE TypeOK'
  <2>1. tgt[o] \in Job /\ want[o] \in Purpose
    BY <1>21 DEF WriteJob
  <2>2. \A n \in Added(want[o]) : seen[o] + n \in Nat
    BY <2>1 DEF Added
  <2>3. \A n \in Added(want[o]) : Updated(job[tgt[o]], want[o], seen[o] + n) \in Row
    BY <2>1, <2>2, RowUpdates
  <2>4. Resume(want[o]) \in Control
    BY DEF Resume
  <2>. QED
    BY <1>21, <2>1, <2>3, <2>4 DEF WriteJob
<1>22. ASSUME NEW o \in Owner, Crash(o) PROVE TypeOK'
  BY <1>22 DEF Crash
<1>23. ASSUME NEW o \in Owner, Respawn(o) PROVE TypeOK'
  BY <1>23 DEF Respawn
<1>24. CASE Tick
  BY <1>24, RowUpdates DEF Tick
<1>25. CASE UNCHANGED vars
  BY <1>25 DEF vars
<1>. QED
  BY <1>1, <1>2, <1>3, <1>4, <1>5, <1>6, <1>7, <1>8, <1>9, <1>10, <1>11, <1>12, <1>13,
     <1>14, <1>15, <1>16, <1>17, <1>18, <1>19, <1>20, <1>21, <1>22, <1>23, <1>24, <1>25
  DEF Next, Acquire, Transaction, Settle, Optional

\* Control points, statements and the chosen job stay together.
LEMMA ControlStep ==
  ASSUME TypeOK, JobChosen, StatementsMatchControl, [Next]_vars
  PROVE  JobChosen' /\ StatementsMatchControl'
<1>. DEFINE Goal == JobChosen /\ StatementsMatchControl
<1>. USE NoJobAssumption DEF TypeOK, Control, Attempting, rowVars, planVars, stmtVars, JobChosen,
         StatementsMatchControl
<1>1. ASSUME NEW o \in Owner, Sweep(o) PROVE Goal'
  BY <1>1 DEF Sweep
<1>2. ASSUME NEW o \in Owner, NothingDue(o) PROVE Goal'
  BY <1>2 DEF NothingDue
<1>3. ASSUME NEW o \in Owner, Reopen(o) PROVE Goal'
  BY <1>3 DEF Reopen
<1>4. ASSUME NEW o \in Owner, SendClaim(o) PROVE Goal'
  BY <1>4 DEF SendClaim
<1>5. ASSUME NEW o \in Owner, GiveUp(o) PROVE Goal'
  BY <1>5 DEF GiveUp
<1>6. ASSUME NEW o \in Owner, GrantClaim(o) PROVE Goal'
  BY <1>6 DEF GrantClaim
<1>7. ASSUME NEW o \in Owner, RefuseClaim(o) PROVE Goal'
  BY <1>7 DEF RefuseClaim
<1>8. ASSUME NEW o \in Owner, NEW j \in Job, PickCandidate(o, j) PROVE Goal'
  BY <1>8 DEF PickCandidate
<1>9. ASSUME NEW o \in Owner, NEW j \in Job, CreateOrReuse(o, j) PROVE Goal'
  BY <1>9 DEF CreateOrReuse
<1>10. ASSUME NEW o \in Owner, NEW j \in Job, ScopeConflict(o, j) PROVE Goal'
  BY <1>10 DEF ScopeConflict
<1>11. ASSUME NEW o \in Owner, NEW next \in {"settling", pc[o]}, AssertLease(o, next)
       PROVE Goal'
  BY <1>11 DEF AssertLease, Idle
<1>12. ASSUME NEW o \in Owner, SendHeartbeat(o) PROVE Goal'
  BY <1>12 DEF SendHeartbeat
<1>13. ASSUME NEW o \in Owner, ApplyHeartbeat(o) PROVE Goal'
  BY <1>13 DEF ApplyHeartbeat
<1>14. ASSUME NEW o \in Owner, BeginEvidence(o) PROVE Goal'
  BY <1>14 DEF BeginEvidence, Idle
<1>15. ASSUME NEW o \in Owner, RecheckClaim(o) PROVE Goal'
  BY <1>15 DEF RecheckClaim
<1>16. ASSUME NEW o \in Owner, RollbackEvidence(o) PROVE Goal'
  BY <1>16 DEF RollbackEvidence
<1>17. ASSUME NEW o \in Owner, CommitEvidence(o) PROVE Goal'
  BY <1>17 DEF CommitEvidence
<1>18. ASSUME NEW o \in Owner, AbortOrphan(o) PROVE Goal'
  BY <1>18 DEF AbortOrphan
<1>19. ASSUME NEW o \in Owner, AlreadyTerminal(o) PROVE Goal'
  BY <1>19 DEF AlreadyTerminal
<1>20. ASSUME NEW o \in Owner, NEW w \in Purpose, ReadJob(o, w) PROVE Goal'
  BY <1>20 DEF ReadJob, Purposes
<1>21. ASSUME NEW o \in Owner, WriteJob(o) PROVE Goal'
  BY <1>21 DEF WriteJob, Resume
<1>22. ASSUME NEW o \in Owner, Crash(o) PROVE Goal'
  BY <1>22 DEF Crash
<1>23. ASSUME NEW o \in Owner, Respawn(o) PROVE Goal'
  BY <1>23 DEF Respawn
<1>24. CASE Tick
  BY <1>24 DEF Tick
<1>25. CASE UNCHANGED vars
  BY <1>25 DEF vars
<1>. QED
  BY <1>1, <1>2, <1>3, <1>4, <1>5, <1>6, <1>7, <1>8, <1>9, <1>10, <1>11, <1>12, <1>13, 
     <1>14, <1>15, <1>16, <1>17, <1>18, <1>19, <1>20, <1>21, <1>22, <1>23, <1>24, 
     <1>25
  DEF Next, Acquire, Transaction, Settle, Optional

\* The fence: a granted attempt stays current, and its transaction keeps the row.
LEMMA FenceStep ==
  ASSUME TypeOK, JobChosen, StatementsMatchControl, NamedAttemptIsCurrent,
         OpenEvidenceHoldsClaim, [Next]_vars
  PROVE  NamedAttemptIsCurrent' /\ OpenEvidenceHoldsClaim'
<1>. DEFINE Goal == NamedAttemptIsCurrent /\ OpenEvidenceHoldsClaim
<1>. USE NoJobAssumption, NoOwnerAssumption
     DEF TypeOK, Attempting, rowVars, planVars, stmtVars, JobChosen,
         StatementsMatchControl, NamedAttemptIsCurrent, OpenEvidenceHoldsClaim
<1>1. ASSUME NEW o \in Owner, Sweep(o) PROVE Goal'
  <2>1. \A p \in Owner : tx[p] # "none" => ~Abandoned(tgt[p])
    BY <1>1 DEF Sweep, Locked
  <2>2. \A j \in Job : job'[j] = job[j] \/ (Abandoned(j) /\ job'[j].owner = NoOwner)
    BY <1>1 DEF Sweep, Swept
  <2>. QED
    BY <1>1, <2>1, <2>2 DEF Sweep
<1>2. ASSUME NEW o \in Owner, NothingDue(o) PROVE Goal'
  BY <1>2 DEF NothingDue
<1>3. ASSUME NEW o \in Owner, Reopen(o) PROVE Goal'
  <2>1. tgt[o] \in Job /\ Reopened(job[tgt[o]]).owner = NoOwner
    BY <1>3 DEF Reopen, Reopened
  <2>2. job[tgt[o]].status \in Retryable => job[tgt[o]].status # "running"
    BY DEF Retryable
  <2>3. \A j \in Job : job'[j] = job[j] \/ (/\ job[j].status # "running"
                                            /\ job'[j].owner = NoOwner)
    BY <1>3, <2>1, <2>2 DEF Reopen
  <2>. QED
    BY <1>3, <2>3 DEF Reopen
<1>4. ASSUME NEW o \in Owner, SendClaim(o) PROVE Goal'
  BY <1>4 DEF SendClaim
<1>5. ASSUME NEW o \in Owner, GiveUp(o) PROVE Goal'
  BY <1>5 DEF GiveUp
<1>6. ASSUME NEW o \in Owner, GrantClaim(o) PROVE Goal'
  BY <1>6 DEF GrantClaim, Claimed, Claimable, Locked
<1>7. ASSUME NEW o \in Owner, RefuseClaim(o) PROVE Goal'
  BY <1>7 DEF RefuseClaim
<1>8. ASSUME NEW o \in Owner, NEW j \in Job, PickCandidate(o, j) PROVE Goal'
  BY <1>8 DEF PickCandidate
<1>9. ASSUME NEW o \in Owner, NEW j \in Job, CreateOrReuse(o, j) PROVE Goal'
  BY <1>9 DEF CreateOrReuse, Locked
<1>10. ASSUME NEW o \in Owner, NEW j \in Job, ScopeConflict(o, j) PROVE Goal'
  BY <1>10 DEF ScopeConflict
<1>11. ASSUME NEW o \in Owner, NEW next \in {"settling", pc[o]}, AssertLease(o, next)
       PROVE Goal'
  BY <1>11 DEF AssertLease, Idle, HoldsClaim
<1>12. ASSUME NEW o \in Owner, SendHeartbeat(o) PROVE Goal'
  BY <1>12 DEF SendHeartbeat
<1>13. ASSUME NEW o \in Owner, ApplyHeartbeat(o) PROVE Goal'
  BY <1>13 DEF ApplyHeartbeat, HoldsClaim
<1>14. ASSUME NEW o \in Owner, BeginEvidence(o) PROVE Goal'
  BY <1>14 DEF BeginEvidence, Idle, HoldsClaim
<1>15. ASSUME NEW o \in Owner, RecheckClaim(o) PROVE Goal'
  BY <1>15 DEF RecheckClaim, HoldsClaim
<1>16. ASSUME NEW o \in Owner, RollbackEvidence(o) PROVE Goal'
  BY <1>16 DEF RollbackEvidence
<1>17. ASSUME NEW o \in Owner, CommitEvidence(o) PROVE Goal'
  BY <1>17 DEF CommitEvidence
<1>18. ASSUME NEW o \in Owner, AbortOrphan(o) PROVE Goal'
  BY <1>18 DEF AbortOrphan
<1>19. ASSUME NEW o \in Owner, AlreadyTerminal(o) PROVE Goal'
  BY <1>19 DEF AlreadyTerminal
<1>20. ASSUME NEW o \in Owner, NEW w \in Purpose, ReadJob(o, w) PROVE Goal'
  BY <1>20 DEF ReadJob, Purposes
<1>21. ASSUME NEW o \in Owner, WriteJob(o) PROVE Goal'
  BY <1>21 DEF WriteJob, Owned, Resume, Updated, StatusAfter, Locked
<1>22. ASSUME NEW o \in Owner, Crash(o) PROVE Goal'
  BY <1>22 DEF Crash
<1>23. ASSUME NEW o \in Owner, Respawn(o) PROVE Goal'
  BY <1>23 DEF Respawn
<1>24. CASE Tick
  BY <1>24 DEF Tick, Aged
<1>25. CASE UNCHANGED vars
  BY <1>25 DEF vars
<1>. QED
  BY <1>1, <1>2, <1>3, <1>4, <1>5, <1>6, <1>7, <1>8, <1>9, <1>10, <1>11, <1>12, <1>13, 
     <1>14, <1>15, <1>16, <1>17, <1>18, <1>19, <1>20, <1>21, <1>22, <1>23, <1>24, 
     <1>25
  DEF Next, Acquire, Transaction, Settle, Optional

-----------------------------------------------------------------------------
(* What one step may do to one row                                           *)

KeptStep(j) == /\ job'[j].status = job[j].status /\ job'[j].owner = job[j].owner
               /\ job'[j].attempts = job[j].attempts /\ job'[j].errors = job[j].errors
               /\ evidence'[j] = evidence[j]

EnqueueStep(j) == /\ job[j].status \in {"absent", "partial", "failed"}
                  /\ job'[j].status = "queued"
                  /\ job'[j].attempts = job[j].attempts /\ job'[j].errors >= job[j].errors
                  /\ evidence'[j] = evidence[j]

GrantStep(j) == /\ \E d \in 0 .. MaxLate : Claimable(j, d)
                /\ job'[j].status = "running" /\ job'[j].owner \in Owner
                /\ job'[j].attempts = job[j].attempts + 1 /\ job'[j].errors = job[j].errors
                /\ evidence'[j] = evidence[j]

WriteStep(j) == /\ job[j].status = "running" /\ job'[j].owner = job[j].owner
                /\ job'[j].status \in {"running", "completed", "partial", "failed"}
                /\ job'[j].attempts = job[j].attempts /\ job'[j].errors >= job[j].errors
                /\ evidence'[j] = evidence[j]

FailStep(j) == /\ Expired(j) /\ job'[j].status = "failed"
               /\ job'[j].attempts = job[j].attempts /\ job'[j].errors >= job[j].errors
               /\ evidence'[j] = evidence[j]

CommitStep(j) == /\ job[j].status = "running" /\ job' = job
                 /\ evidence'[j] = Append(evidence[j], job[j].attempts)

RowMoves(j) == \/ KeptStep(j) \/ EnqueueStep(j) \/ GrantStep(j)
               \/ WriteStep(j) \/ FailStep(j) \/ CommitStep(j)

\* Whatever happens, a row is left alone, queued, granted, written by the attempt
\* it names, failed after its expiry, or given evidence of its current attempt.
LEMMA RowStep ==
  ASSUME IndInv, [Next]_vars, NEW j \in Job
  PROVE  RowMoves(j)
<1>. USE NoJobAssumption, NoOwnerAssumption
     DEF TypeOK, Row, Attempting, rowVars, planVars, stmtVars, JobChosen, RowMoves, KeptStep
<1>. TypeOK /\ JobChosen /\ NamedAttemptIsCurrent /\ OpenEvidenceHoldsClaim
  BY DEF IndInv
<1>1. ASSUME NEW o \in Owner, Sweep(o) PROVE RowMoves(j)
  BY <1>1 DEF Sweep, Swept, Abandoned, Expired, FailStep
<1>2. ASSUME NEW o \in Owner, NothingDue(o) PROVE RowMoves(j)
  BY <1>2 DEF NothingDue
<1>3. ASSUME NEW o \in Owner, Reopen(o) PROVE RowMoves(j)
  BY <1>3 DEF Reopen, Reopened, Retryable, EnqueueStep
<1>4. ASSUME NEW o \in Owner, SendClaim(o) PROVE RowMoves(j)
  BY <1>4 DEF SendClaim
<1>5. ASSUME NEW o \in Owner, GiveUp(o) PROVE RowMoves(j)
  BY <1>5 DEF GiveUp
<1>6. ASSUME NEW o \in Owner, GrantClaim(o) PROVE RowMoves(j)
  BY <1>6 DEF GrantClaim, Claimed, Claimable, GrantStep
<1>7. ASSUME NEW o \in Owner, RefuseClaim(o) PROVE RowMoves(j)
  BY <1>7 DEF RefuseClaim
<1>8. ASSUME NEW o \in Owner, NEW k \in Job, PickCandidate(o, k) PROVE RowMoves(j)
  BY <1>8 DEF PickCandidate
<1>9. ASSUME NEW o \in Owner, NEW k \in Job, CreateOrReuse(o, k) PROVE RowMoves(j)
  BY <1>9 DEF CreateOrReuse, EnqueueStep
<1>10. ASSUME NEW o \in Owner, NEW k \in Job, ScopeConflict(o, k) PROVE RowMoves(j)
  BY <1>10 DEF ScopeConflict
<1>11. ASSUME NEW o \in Owner, NEW next \in {"settling", pc[o]}, AssertLease(o, next)
       PROVE RowMoves(j)
  BY <1>11 DEF AssertLease, HoldsClaim
<1>12. ASSUME NEW o \in Owner, SendHeartbeat(o) PROVE RowMoves(j)
  BY <1>12 DEF SendHeartbeat
<1>13. ASSUME NEW o \in Owner, ApplyHeartbeat(o) PROVE RowMoves(j)
  BY <1>13 DEF ApplyHeartbeat, HoldsClaim
<1>14. ASSUME NEW o \in Owner, BeginEvidence(o) PROVE RowMoves(j)
  BY <1>14 DEF BeginEvidence
<1>15. ASSUME NEW o \in Owner, RecheckClaim(o) PROVE RowMoves(j)
  BY <1>15 DEF RecheckClaim
<1>16. ASSUME NEW o \in Owner, RollbackEvidence(o) PROVE RowMoves(j)
  BY <1>16 DEF RollbackEvidence
<1>17. ASSUME NEW o \in Owner, CommitEvidence(o) PROVE RowMoves(j)
  BY <1>17 DEF CommitEvidence, CommitStep, OpenEvidenceHoldsClaim
<1>18. ASSUME NEW o \in Owner, AbortOrphan(o) PROVE RowMoves(j)
  BY <1>18 DEF AbortOrphan
<1>19. ASSUME NEW o \in Owner, AlreadyTerminal(o) PROVE RowMoves(j)
  BY <1>19 DEF AlreadyTerminal
<1>20. ASSUME NEW o \in Owner, NEW w \in Purpose, ReadJob(o, w) PROVE RowMoves(j)
  BY <1>20 DEF ReadJob
<1>21. ASSUME NEW o \in Owner, WriteJob(o) PROVE RowMoves(j)
  BY <1>21 DEF WriteJob, Owned, Live, Updated, StatusAfter, Added, WriteStep, Purpose, NamedAttemptIsCurrent
<1>22. ASSUME NEW o \in Owner, Crash(o) PROVE RowMoves(j)
  BY <1>22 DEF Crash
<1>23. ASSUME NEW o \in Owner, Respawn(o) PROVE RowMoves(j)
  BY <1>23 DEF Respawn
<1>24. CASE Tick
  BY <1>24 DEF Tick, Aged
<1>25. CASE UNCHANGED vars
  BY <1>25 DEF vars
<1>. QED
  BY <1>1, <1>2, <1>3, <1>4, <1>5, <1>6, <1>7, <1>8, <1>9, <1>10, <1>11, <1>12, <1>13, 
     <1>14, <1>15, <1>16, <1>17, <1>18, <1>19, <1>20, <1>21, <1>22, <1>23, <1>24, 
     <1>25
  DEF Next, Acquire, Transaction, Settle, Optional

-----------------------------------------------------------------------------
(* The invariant *)

\* Evidence grows only by the attempt granted last, and attempts only grow.
LEMMA EvidenceStep ==
  ASSUME IndInv, [Next]_vars
  PROVE  EvidenceInAttemptOrder'
<1>. SUFFICES ASSUME NEW j \in Job
              PROVE  \A m, n \in 1 .. Len(evidence'[j]) : m <= n =>
                       /\ evidence'[j][m] <= evidence'[j][n]
                       /\ evidence'[j][n] <= job'[j].attempts
  BY DEF EvidenceInAttemptOrder
<1>. DEFINE e == evidence[j]
<1>1. /\ e \in Seq(Nat) /\ job[j].attempts \in Nat
      /\ \A m, n \in 1 .. Len(e) : m <= n => e[m] <= e[n] /\ e[n] <= job[j].attempts
  BY DEF IndInv, TypeOK, Row, EvidenceInAttemptOrder
<1>2. RowMoves(j)
  BY RowStep
<1>3. CASE evidence'[j] = e /\ job'[j].attempts >= job[j].attempts
  <2>1. job'[j].attempts \in Nat
    BY TypeStep DEF IndInv, TypeOK, Row
  <2>. QED
    BY <1>1, <1>3, <2>1
<1>4. CASE CommitStep(j)
  <2>1. evidence'[j] = Append(e, job[j].attempts) /\ job'[j].attempts = job[j].attempts
    BY <1>4 DEF CommitStep
  <2>. HIDE DEF e
  <2>. QED
    BY <1>1, <2>1
<1>. QED
  BY <1>1, <1>2, <1>3, <1>4
  DEF RowMoves, KeptStep, EnqueueStep, GrantStep, WriteStep, FailStep

\* IndInv is preserved by every step.
LEMMA InvStep == IndInv /\ [Next]_vars => IndInv'
<1>. SUFFICES ASSUME IndInv, [Next]_vars PROVE IndInv'
  OBVIOUS
<1>1. TypeOK'
  BY TypeStep DEF IndInv
<1>2. JobChosen' /\ StatementsMatchControl'
  BY ControlStep DEF IndInv
<1>3. NamedAttemptIsCurrent' /\ OpenEvidenceHoldsClaim'
  BY FenceStep DEF IndInv
<1>4. EvidenceInAttemptOrder'
  BY EvidenceStep
<1>5. RunningHasOwner'
  <2>1. \A j \in Job : RowMoves(j)
    BY RowStep
  <2>2. \A j \in Job : job[j].status = "running" => job[j].owner \in Owner
    BY DEF IndInv, RunningHasOwner
  <2>. QED
    BY <2>1, <2>2
    DEF RunningHasOwner, RowMoves, KeptStep, EnqueueStep, GrantStep, WriteStep, FailStep,
        CommitStep
<1>. QED
  BY <1>1, <1>2, <1>3, <1>4, <1>5 DEF IndInv

\* The inductive invariant holds of every behaviour of the job table.
THEOREM InvariantHolds == Spec => []IndInv
  BY InitInv, InvStep, PTL DEF Spec

\* Every variable keeps its type (store.js rows, control of the attempts).
THEOREM TypeCorrect == Spec => []TypeOK
<1>1. IndInv => TypeOK
  BY DEF IndInv
<1>. QED
  BY <1>1, InvariantHolds, PTL

\* No successor takes a job over while an evidence transaction is open: the
\* promise of job-fence.js.
THEOREM FenceHolds == Spec => []OpenEvidenceHoldsClaim
<1>1. IndInv => OpenEvidenceHoldsClaim
  BY DEF IndInv
<1>. QED
  BY <1>1, InvariantHolds, PTL

\* Evidence is committed in the order of the attempts that wrote it.
THEOREM EvidenceOrdered == Spec => []EvidenceInAttemptOrder
<1>1. IndInv => EvidenceInAttemptOrder
  BY DEF IndInv
<1>. QED
  BY <1>1, InvariantHolds, PTL

-----------------------------------------------------------------------------
(* What a step may never do *)

\* A claim or a sweep takes a running row away only after its lease ran out.
THEOREM LiveClaimsKept == Spec => LiveClaimKept
<1>1. ASSUME IndInv, [Next]_vars, NEW j \in Job, job[j].status = "running",
             job'[j].owner # job[j].owner
      PROVE  ~Live(j)
  <2>1. RowMoves(j)
    BY <1>1, RowStep
  <2>2. job[j].left \in Int /\ MaxLate \in Nat
    BY <1>1, TimeAssumption DEF IndInv, TypeOK, Row, Floor
  <2>3. ~KeptStep(j) /\ ~EnqueueStep(j) /\ ~WriteStep(j) /\ ~CommitStep(j)
    BY <1>1 DEF KeptStep, EnqueueStep, WriteStep, CommitStep
  <2>4. job[j].owner # NoOwner
    BY <1>1, NoOwnerAssumption DEF IndInv, RunningHasOwner
  <2>5. CASE FailStep(j)
    BY <2>2, <2>4, <2>5 DEF FailStep, Expired, Live
  <2>6. CASE GrantStep(j)
    BY <1>1, <2>2, <2>6 DEF GrantStep, Claimable, Live
  <2>. QED
    BY <2>1, <2>3, <2>5, <2>6 DEF RowMoves
<1>2. IndInv /\ [Next]_vars =>
        [\A j \in Job : (job[j].status = "running" /\ job'[j].owner # job[j].owner)
                          => ~Live(j)]_vars
  BY <1>1
<1>. QED
  BY <1>2, InvariantHolds, PTL DEF Spec, LiveClaimKept

\* A completed job stays as it is: neither reopened nor claimed nor written to.
THEOREM CompletedStays == Spec => CompletedIsFinal
<1>1. ASSUME IndInv, [Next]_vars, NEW j \in Job, job[j].status = "completed"
      PROVE  /\ job'[j].status = "completed"
             /\ job'[j].attempts = job[j].attempts
             /\ job'[j].errors = job[j].errors
             /\ evidence'[j] = evidence[j]
  BY <1>1, RowStep
  DEF RowMoves, KeptStep, EnqueueStep, GrantStep, WriteStep, FailStep, CommitStep,
      Claimable, Expired
<1>2. IndInv /\ [Next]_vars =>
        [\A j \in Job : job[j].status = "completed" =>
           /\ job'[j].status = "completed"
           /\ job'[j].attempts = job[j].attempts
           /\ job'[j].errors = job[j].errors
           /\ evidence'[j] = evidence[j]]_vars
  BY <1>1
<1>. QED
  BY <1>2, InvariantHolds, PTL DEF Spec, CompletedIsFinal

\* A partial or failed job moves on only to the queue.
THEOREM TerminalReopens == Spec => TerminalOnlyReopens
<1>1. ASSUME IndInv, [Next]_vars, NEW j \in Job, job[j].status \in {"partial", "failed"}
      PROVE  /\ job'[j].status \in {job[j].status, "queued"}
             /\ evidence'[j] = evidence[j]
  BY <1>1, RowStep
  DEF RowMoves, KeptStep, EnqueueStep, GrantStep, WriteStep, FailStep, CommitStep,
      Claimable, Expired
<1>2. IndInv /\ [Next]_vars =>
        [\A j \in Job : job[j].status \in {"partial", "failed"} =>
           /\ job'[j].status \in {job[j].status, "queued"}
           /\ evidence'[j] = evidence[j]]_vars
  BY <1>1
<1>. QED
  BY <1>2, InvariantHolds, PTL DEF Spec, TerminalOnlyReopens

\* No read-modify-write of updateJob drops an error somebody else appended.
THEOREM ErrorsKept == Spec => ErrorsNeverLost
<1>1. ASSUME IndInv, [Next]_vars, NEW j \in Job
      PROVE  job'[j].errors >= job[j].errors
  <2>1. job[j].errors \in Nat
    BY <1>1 DEF IndInv, TypeOK, Row
  <2>. QED
    BY <1>1, <2>1, RowStep
    DEF RowMoves, KeptStep, EnqueueStep, GrantStep, WriteStep, FailStep, CommitStep
<1>2. IndInv /\ [Next]_vars => [\A j \in Job : job'[j].errors >= job[j].errors]_vars
  BY <1>1
<1>. QED
  BY <1>2, InvariantHolds, PTL DEF Spec, ErrorsNeverLost

-----------------------------------------------------------------------------
(* The table implements its contract                                         *)

Others(j) == \A k \in Job \ {j} : KeptStep(k)

\* Only the sweep writes more than one row, and it only fails expired ones.
LEMMA OneRowAtATime ==
  ASSUME IndInv, [Next]_vars
  PROVE  \/ \E j \in Job : Others(j)
         \/ \A k \in Job : KeptStep(k) \/ FailStep(k)
<1>. DEFINE Goal == \/ \E j \in Job : Others(j)
                   \/ \A k \in Job : KeptStep(k) \/ FailStep(k)
<1>. USE DEF TypeOK, Row, Attempting, rowVars, JobChosen, Others, KeptStep
<1>. TypeOK /\ JobChosen
  BY DEF IndInv
<1>1. CASE job' = job /\ evidence' = evidence
  BY <1>1
<1>2. CASE \E j \in Job : /\ \A k \in Job \ {j} : job'[k] = job[k]
                         /\ \A k \in Job \ {j} : evidence'[k] = evidence[k]
  BY <1>2
<1>3. ASSUME NEW o \in Owner, Sweep(o) PROVE Goal
  <2>1. ASSUME NEW k \in Job PROVE KeptStep(k) \/ FailStep(k)
    <3>1. evidence' = evidence /\ job[k].errors \in Nat
      BY <1>3 DEF Sweep
    <3>2. job'[k] = IF Abandoned(k) THEN Swept(job[k]) ELSE job[k]
      BY <1>3 DEF Sweep
    <3>. QED
      BY <3>1, <3>2 DEF Swept, Abandoned, FailStep
  <2>. QED
    BY <2>1
<1>4. ASSUME NEW o \in Owner, Acquire(o) PROVE Goal
  BY <1>1, <1>2, <1>3, <1>4
  DEF Acquire, NothingDue, Reopen, SendClaim, GiveUp, GrantClaim, RefuseClaim,
      PickCandidate, CreateOrReuse
<1>5. ASSUME NEW o \in Owner, Transaction(o) PROVE Goal
  BY <1>1, <1>2, <1>5 DEF Transaction, RecheckClaim, CommitEvidence, AbortOrphan
<1>6. ASSUME NEW o \in Owner, Settle(o) PROVE Goal
  <2>1. CASE \E next \in {"settling", pc[o]} : AssertLease(o, next)
    BY <1>1, <1>2, <2>1 DEF AssertLease
  <2>2. CASE AlreadyTerminal(o) \/ \E w \in Purpose : ReadJob(o, w)
    BY <1>1, <2>2 DEF AlreadyTerminal, ReadJob
  <2>3. CASE WriteJob(o)
    BY <1>1, <1>2, <2>3 DEF WriteJob
  <2>. QED
    BY <1>6, <2>1, <2>2, <2>3 DEF Settle
<1>7. ASSUME NEW o \in Owner, Optional(o) PROVE Goal
  BY <1>1, <1>2, <1>7
  DEF Optional, ScopeConflict, AssertLease, BeginEvidence, RollbackEvidence,
      SendHeartbeat, Crash
<1>8. ASSUME NEW o \in Owner, ApplyHeartbeat(o) PROVE Goal
  BY <1>1, <1>2, <1>8 DEF ApplyHeartbeat
<1>9. ASSUME NEW o \in Owner, Respawn(o) PROVE Goal
  BY <1>1, <1>9 DEF Respawn
<1>10. CASE Tick
  BY <1>10 DEF Tick, Aged
<1>11. CASE UNCHANGED vars
  BY <1>1, <1>11 DEF vars
<1>. QED
  BY <1>4, <1>5, <1>6, <1>7, <1>8, <1>9, <1>10, <1>11 DEF Next

\* Initially the table is empty, as the contract asks.
LEMMA ContractInit == Init => Contract!Init
  BY DEF Init, NewRow, Contract!Init

\* Every step is one the contract allows, or none it can see.
LEMMA ContractStep ==
  ASSUME IndInv, [Next]_vars
  PROVE  [Contract!Next]_(Contract!cvars)
<1>. DEFINE Goal == [Contract!Next]_(Contract!cvars)
<1>. USE DEF KeptStep
<1>1. /\ evidence = [k \in Job |-> evidence[k]]
      /\ evidence' = [k \in Job |-> evidence'[k]]
      /\ \A k \in Job : job[k].attempts \in Nat
  BY TypeStep DEF IndInv, TypeOK, Row
<1>2. CASE \A k \in Job : KeptStep(k)
  BY <1>1, <1>2 DEF Contract!cvars
<1>3. CASE \A k \in Job : KeptStep(k) \/ FailStep(k)
  <2>. PICK J \in SUBSET Job : \A k \in Job : k \in J <=> ~KeptStep(k)
    <3>. {k \in Job : ~KeptStep(k)} \in SUBSET Job
      OBVIOUS
    <3>. QED
      OBVIOUS
  <2>1. \A k \in J : job[k].status = "running" /\ job'[k].status = "failed"
    BY <1>3 DEF FailStep, Expired
  <2>2. Contract!Abandon(J)
    BY <1>1, <1>3, <2>1 DEF FailStep, Contract!Abandon
  <2>. QED
    BY <2>2 DEF Contract!Next
<1>4. ASSUME NEW j \in Job, Others(j) PROVE Goal
  <2>. USE <1>4 DEF Others
  <2>1. CASE KeptStep(j)
    BY <1>2, <2>1
  <2>2. CASE EnqueueStep(j)
    <3>1. Contract!Enqueue(j)
      BY <1>1, <2>2 DEF EnqueueStep, Contract!Enqueue
    <3>. QED
      BY <3>1 DEF Contract!Next
  <2>3. CASE GrantStep(j)
    <3>1. Contract!Grant(job'[j].owner, j)
      BY <1>1, <2>3 DEF GrantStep, Claimable, Contract!Grant
    <3>. QED
      BY <2>3, <3>1 DEF GrantStep, Contract!Next
  <2>4. CASE WriteStep(j)
    <3>1. job[j].owner \in Owner
      BY <2>4 DEF WriteStep, IndInv, RunningHasOwner
    <3>2. CASE job'[j].status = "running"
      BY <1>1, <2>4, <3>2 DEF WriteStep, Contract!cvars
    <3>3. CASE job'[j].status # "running"
      <4>. PICK s \in {"completed", "partial", "failed"} : s = job'[j].status
        BY <2>4, <3>3 DEF WriteStep
      <4>1. Contract!Finish(job[j].owner, j, s)
        BY <1>1, <2>4, <3>3 DEF WriteStep, Contract!Finish, Contract!Holds
      <4>. QED
        BY <3>1, <4>1 DEF Contract!Next
    <3>. QED
      BY <3>2, <3>3
  <2>5. CASE FailStep(j)
    BY <1>3, <2>5
  <2>6. CASE CommitStep(j)
    <3>1. job[j].owner \in Owner
      BY <2>6 DEF CommitStep, IndInv, RunningHasOwner
    <3>2. Contract!Commit(job[j].owner, j)
      BY <1>1, <2>6 DEF CommitStep, Contract!Commit, Contract!Holds
    <3>. QED
      BY <3>1, <3>2 DEF Contract!Next
  <2>. QED
    BY <2>1, <2>2, <2>3, <2>4, <2>5, <2>6, RowStep DEF RowMoves
<1>. QED
  BY <1>3, <1>4, OneRowAtATime

\* One holder at a time, evidence only of the holder, a completed job final: the
\* lease protocol of store.js and job-fence.js implements JobContract.
THEOREM ContractImplemented == Spec => ImplementsContract
<1>1. IndInv /\ [Next]_vars => [Contract!Next]_(Contract!cvars)
  BY ContractStep
<1>. QED
  BY <1>1, ContractInit, InvariantHolds, PTL DEF Spec, ImplementsContract, Contract!Spec
=============================================================================
