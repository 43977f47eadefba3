------------------------ MODULE SourceRolloutProofs ------------------------
(***************************************************************************)
(* Proofs about SourceRollout for any scopes, any number of runs and       *)
(* processes, and any bound on the count.                                  *)
(***************************************************************************)
EXTENDS SourceRollout, FiniteSetTheorems, TLAPS

Walk    == [at : Step, trigger : Trigger, scope : Scope \cup {NoScope},
            read : Scope \cup {NoScope}, run : Run \cup {NoRun},
            from : SUBSET Scope, pending : BOOLEAN, sound : BOOLEAN]
Rollout == [state : {"candidate", "canary", "promoted"}, count : 0 .. MaxCount,
            scope : Scope \cup {NoScope}, last : Run \cup {NoRun}]

Recording == {"scrape", "save", "verify", "record"}

\* What a row declares was approved, if it was collected unattended.
Allowed(row, ok) ==
  /\ row.trigger = "worker" => row.scope \in ok
  /\ row.trigger = "wider"  => \E s \in ok : s \subseteq row.scope

\* What is true of a process x, given the rows, the counted runs and the scopes
\* promoted so far: it works on a row of its own kind that is not evidence yet,
\* what it calls clean is clean, it goes on only in a scope that was promoted, and
\* the sweep it continues is of its scope.
Sane(x, table, done, ok) ==
  /\ x.run # NoRun <=> x.at \in Recording
  /\ x.run # NoRun => /\ table[x.run].status # "absent"
                      /\ table[x.run].trigger = x.trigger
                      /\ x.run \notin done
  /\ x.at \in {"verify", "record"} => x.trigger = "canary"
  /\ x.at = "record" /\ x.sound => CleanRunOf(table[x.run], x.scope)
  /\ x.at = "checkpoint" => x.trigger = "worker" /\ x.scope \in ok
  /\ x.at = "begin" => x.trigger \in {"worker", "wider"} /\ Allowed(x, ok)
  /\ x.at # "idle" => x.scope \in Scope
  /\ x.from \subseteq {x.scope}

ProcessesSane == \A p \in Proc : Sane(proc[p], runs, counted, approved)

\* No two processes work on one row.
OneWriter == \A p, q \in Proc : p # q /\ proc[p].run # NoRun => proc[p].run # proc[q].run

\* The rows there are, are finitely many: their number is one.
Begun == {r \in Run : runs[r].status # "absent"}

\* The count is backed by as many clean canaries of the configured scope.
CountBacked ==
  /\ IsFiniteSet(Begun)
  /\ IsFiniteSet(counted)
  /\ rollout.count <= Cardinality(counted)
  /\ \A r \in counted : runs[r].trigger = "canary" /\ CleanRunOf(runs[r], rollout.scope)

PromotedApproved == rollout.state = "promoted" => rollout.scope \in approved

IndInv == /\ TypeOK
          /\ ProcessesSane
          /\ OneWriter
          /\ CountBacked
          /\ PromotedApproved
          /\ UnattendedScopeApproved
          /\ SweepOfOneScope

-----------------------------------------------------------------------------
\* Nothing has begun, and no process works.
LEMMA InitInv == Init => IndInv
<1>1. NoRunRow \in RunRow /\ NoRunRow.status = "absent"
  BY DEF NoRunRow, RunRow, Trigger
<1>2. Idle \in Walk /\ Idle.run = NoRun /\ Idle.at = "idle" /\ Idle.from = {}
  BY DEF Idle, Walk, Step, Trigger
<1>3. NoCheckpoint \in Checkpoint /\ NoCheckpoint.from = {}
  BY DEF NoCheckpoint, Checkpoint
<1>4. ASSUME Init PROVE TypeOK
  <2>1. rollout \in Rollout
    BY <1>4, CountAssumption DEF Init, Rollout
  <2>2. runs \in [Run -> RunRow] /\ proc \in [Proc -> Walk]
    BY <1>1, <1>2, <1>4 DEF Init
  <2>. QED
    BY <1>3, <1>4, <2>1, <2>2 DEF Init, TypeOK, Rollout, Walk
<1>5. ASSUME Init PROVE ProcessesSane /\ OneWriter
  BY <1>2, <1>5 DEF Init, ProcessesSane, OneWriter, Sane, Recording
<1>6. ASSUME Init PROVE CountBacked
  <2>1. Begun = {}
    BY <1>1, <1>6 DEF Init, Begun
  <2>2. rollout.count = 0 /\ counted = {}
    BY <1>6 DEF Init
  <2>. QED
    BY <2>1, <2>2, FS_EmptySet DEF CountBacked
<1>7. ASSUME Init PROVE PromotedApproved /\ UnattendedScopeApproved /\ SweepOfOneScope
  BY <1>1, <1>3, <1>7 DEF Init, PromotedApproved, UnattendedScopeApproved, SweepOfOneScope
<1>. QED
  BY <1>4, <1>5, <1>6, <1>7 DEF IndInv

-----------------------------------------------------------------------------
(* What the steps of a process leave of it.                                  *)

\* A single field of a process.
LEMMA WalkFields ==
  \A x \in Walk :
    /\ \A v \in Step : LET y == [x EXCEPT !.at = v] IN
         /\ y \in Walk /\ y.at = v /\ y.trigger = x.trigger /\ y.scope = x.scope /\ y.read = x.read
         /\ y.run = x.run /\ y.from = x.from /\ y.sound = x.sound
    /\ \A v \in Trigger : LET y == [x EXCEPT !.trigger = v] IN
         /\ y \in Walk /\ y.at = x.at /\ y.trigger = v /\ y.scope = x.scope /\ y.read = x.read
         /\ y.run = x.run /\ y.from = x.from /\ y.sound = x.sound
    /\ \A v \in BOOLEAN : LET y == [x EXCEPT !.pending = v] IN
         /\ y \in Walk /\ y.at = x.at /\ y.trigger = x.trigger /\ y.scope = x.scope /\ y.read = x.read
         /\ y.run = x.run /\ y.from = x.from /\ y.sound = x.sound
    /\ \A v \in BOOLEAN : LET y == [x EXCEPT !.sound = v] IN
         /\ y \in Walk /\ y.at = x.at /\ y.trigger = x.trigger /\ y.scope = x.scope /\ y.read = x.read
         /\ y.run = x.run /\ y.from = x.from /\ y.sound = v
  BY DEF Walk

\* An idle process.
LEMMA FromIdle ==
  Idle \in Walk /\ Idle.at = "idle" /\ Idle.run = NoRun /\ Idle.from = {} /\ Idle.sound = FALSE
  BY DEF Idle, Walk, Step, Trigger

\* A process that begins an iteration, and one that begins a cycle.
Policy(v, s, d) == [Idle EXCEPT !.at = v, !.trigger = "worker", !.scope = s, !.read = d]
Cycle(k, s, r, f) ==
  [Idle EXCEPT !.at = "scrape", !.trigger = k, !.scope = s, !.run = r, !.from = f]

\* An iteration has no run and has begun from nothing.
LEMMA Iterating ==
  ASSUME NEW v \in Step, NEW s \in Scope, NEW d \in Scope \cup {NoScope}
  PROVE  /\ Policy(v, s, d) \in Walk
         /\ Policy(v, s, d).at = v /\ Policy(v, s, d).trigger = "worker" /\ Policy(v, s, d).scope = s
         /\ Policy(v, s, d).run = NoRun /\ Policy(v, s, d).from = {}
  BY DEF Policy, Idle, Walk, Trigger

\* A cycle scrapes its run in its scope, from the checkpoint it was given.
LEMMA Scraping ==
  ASSUME NEW k \in Trigger, NEW s \in Scope, NEW r \in Run, NEW f \in SUBSET Scope
  PROVE  /\ Cycle(k, s, r, f) \in Walk
         /\ Cycle(k, s, r, f).at = "scrape" /\ Cycle(k, s, r, f).trigger = k
         /\ Cycle(k, s, r, f).scope = s /\ Cycle(k, s, r, f).run = r /\ Cycle(k, s, r, f).from = f
  BY DEF Cycle, Idle, Walk, Step

\* A process whose row is left alone stays sane.
LEMMA StaysSane ==
  ASSUME NEW x \in Walk, NEW table, NEW table2, NEW done, NEW done2, NEW ok, NEW ok2,
         Sane(x, table, done, ok), ok \subseteq ok2,
         x.run # NoRun => table2[x.run] = table[x.run] /\ x.run \notin done2
  PROVE  Sane(x, table2, done2, ok2)
<1>1. Allowed(x, ok) => Allowed(x, ok2)
  BY DEF Allowed
<1>2. x.at \in {"scrape", "save", "verify", "record"} <=> x.run # NoRun
  BY DEF Sane, Recording
<1>3. x.at = "record" /\ x.sound => CleanRunOf(table2[x.run], x.scope)
  BY <1>2 DEF Sane
<1>. QED
  BY <1>1, <1>3 DEF Sane

\* A process that leaves is sane, whatever the rows are.
LEMMA IdleSane == \A table, done, ok : Sane(Idle, table, done, ok)
  BY FromIdle DEF Sane, Recording

\* Every step but a promotion and a canary's record keeps the invariant, given
\* what it does to the processes, and to the few rows R that are no evidence.
LEMMA StepKeeps ==
  ASSUME IndInv, UNCHANGED <<rollout, counted, approved>>,
         runs' \in [Run -> RunRow], checkpoint' \in Checkpoint, proc' \in [Proc -> Walk],
         NEW R \in SUBSET Run, IsFiniteSet(R),
         \A r \in Run \ R : runs'[r] = runs[r],
         \A r \in R : r \notin counted /\ Allowed(runs'[r], approved),
         \A q \in Proc : Sane(proc'[q], runs', counted, approved),
         \A p, q \in Proc : p # q /\ proc'[p].run # NoRun => proc'[p].run # proc'[q].run,
         checkpoint'.from \subseteq {checkpoint'.scope}
  PROVE  IndInv'
<1>1. TypeOK'
  BY DEF IndInv, TypeOK, Walk
<1>2. ProcessesSane' /\ OneWriter' /\ SweepOfOneScope' /\ PromotedApproved'
  BY DEF IndInv, ProcessesSane, OneWriter, SweepOfOneScope, PromotedApproved
<1>3. IsFiniteSet(Begun')
  <2>1. Begun' \subseteq Begun \cup R
    BY DEF Begun
  <2>2. IsFiniteSet(Begun \cup R)
    BY FS_Union DEF IndInv, CountBacked
  <2>. QED
    BY <2>1, <2>2, FS_Subset
<1>4. CountBacked'
  <2>1. ASSUME NEW r \in counted PROVE runs'[r] = runs[r]
    BY <2>1 DEF IndInv, TypeOK
  <2>. QED
    BY <1>3, <2>1 DEF IndInv, CountBacked
<1>5. UnattendedScopeApproved'
  BY DEF IndInv, UnattendedScopeApproved, Allowed
<1>. QED
  BY <1>1, <1>2, <1>4, <1>5 DEF IndInv

\* A step that changes one process alone.
LEMMA ProcStep ==
  ASSUME IndInv, UNCHANGED <<runs, rollout, checkpoint, counted, approved>>,
         NEW p \in Proc, NEW x \in Walk, proc' = [proc EXCEPT ![p] = x],
         x.run \in {NoRun, proc[p].run}, Sane(x, runs, counted, approved)
  PROVE  IndInv'
<1>1. proc \in [Proc -> Walk] /\ runs \in [Run -> RunRow] /\ checkpoint \in Checkpoint
  BY DEF IndInv, TypeOK, Walk
<1>2. proc' \in [Proc -> Walk] /\ \A q \in Proc : proc'[q] = IF q = p THEN x ELSE proc[q]
  BY <1>1
<1>3. \A q \in Proc : Sane(proc'[q], runs', counted, approved)
  BY <1>2 DEF IndInv, ProcessesSane
<1>4. \A o, q \in Proc : o # q /\ proc'[o].run # NoRun => proc'[o].run # proc'[q].run
  BY <1>2 DEF IndInv, OneWriter
<1>. QED
  BY <1>1, <1>2, <1>3, <1>4, StepKeeps, FS_EmptySet DEF IndInv, SweepOfOneScope

\* A step that changes one process and the row r, which nobody else works on.
LEMMA RowStep ==
  ASSUME IndInv, UNCHANGED <<rollout, checkpoint, counted, approved>>,
         NEW p \in Proc, NEW x \in Walk, proc' = [proc EXCEPT ![p] = x],
         NEW r \in Run, NEW row \in RunRow, runs' = [runs EXCEPT ![r] = row],
         r \notin counted, Allowed(row, approved), x.run \in {NoRun, r},
         \A q \in Proc \ {p} : proc[q].run # r,
         Sane(x, runs', counted, approved)
  PROVE  IndInv'
<1>1. proc \in [Proc -> Walk] /\ runs \in [Run -> RunRow] /\ checkpoint \in Checkpoint
  BY DEF IndInv, TypeOK, Walk
<1>2. proc' \in [Proc -> Walk] /\ \A q \in Proc : proc'[q] = IF q = p THEN x ELSE proc[q]
  BY <1>1
<1>3. runs' \in [Run -> RunRow] /\ runs'[r] = row /\ \A s \in Run \ {r} : runs'[s] = runs[s]
  BY <1>1
<1>4. ASSUME NEW q \in Proc PROVE Sane(proc'[q], runs', counted, approved)
  <2>1. CASE q = p
    BY <1>2, <2>1
  <2>2. CASE q # p
    <3>1. proc'[q] = proc[q] /\ proc[q] \in Walk /\ Sane(proc[q], runs, counted, approved)
      BY <1>1, <1>2, <2>2 DEF IndInv, ProcessesSane
    <3>2. proc[q].run # NoRun => proc[q].run \in Run \ {r} /\ proc[q].run \notin counted
      BY <2>2, <3>1 DEF Walk, Sane
    <3>3. proc[q].run # NoRun => runs'[proc[q].run] = runs[proc[q].run] /\ proc[q].run \notin counted
      BY <1>3, <3>2
    <3>4. Sane(proc[q], runs', counted, approved)
      BY <3>1, <3>3, StaysSane
    <3>. QED
      BY <3>1, <3>4
  <2>. QED
    BY <2>1, <2>2
<1>5. \A o, q \in Proc : o # q /\ proc'[o].run # NoRun => proc'[o].run # proc'[q].run
  BY <1>2 DEF IndInv, OneWriter
<1>6. IsFiniteSet({r}) /\ {r} \in SUBSET Run
  BY FS_Singleton
<1>7. checkpoint'.from \subseteq {checkpoint'.scope} /\ checkpoint' \in Checkpoint
  BY <1>1 DEF IndInv, SweepOfOneScope
<1>8. \A s \in {r} : s \notin counted /\ Allowed(runs'[s], approved)
  BY <1>3
<1>. HIDE DEF IndInv
<1>. QED
  BY <1>2, <1>3, <1>4, <1>5, <1>6, <1>7, <1>8, StepKeeps

-----------------------------------------------------------------------------
(* The actions.                                                              *)

\* A cycle begins its row, or takes the one an earlier attempt left.
LEMMA BeginStep ==
  ASSUME IndInv, NEW p \in Proc, NEW trigger \in Trigger, NEW s \in Scope,
         Begin(p, trigger, s),
         trigger = "worker" => s \in approved,
         trigger = "wider" => \E a \in approved : a \subseteq s
  PROVE  IndInv'
<1>1. runs \in [Run -> RunRow] /\ checkpoint \in Checkpoint /\ checkpoint.from \subseteq {checkpoint.scope}
  BY DEF IndInv, TypeOK, SweepOfOneScope
<1>2. PICK r \in Run :
        /\ Reusable(r, trigger)
        /\ runs' = IF runs[r].status = "absent"
                   THEN [runs EXCEPT ![r] = [NoRunRow EXCEPT !.trigger = trigger,
                                               !.status = "running", !.scope = s]]
                   ELSE runs
        /\ proc' = [proc EXCEPT ![p] = [Idle EXCEPT !.at = "scrape", !.trigger = trigger,
                       !.scope = s, !.run = r,
                       !.from = IF Continued(s) THEN checkpoint.from ELSE {}]]
        /\ UNCHANGED <<rollout, checkpoint, counted, approved>>
  BY DEF Begin
<1>. DEFINE f == IF Continued(s) THEN checkpoint.from ELSE {}
            x == Cycle(trigger, s, r, f)
            fresh == [NoRunRow EXCEPT !.trigger = trigger, !.status = "running", !.scope = s]
            row == IF runs[r].status = "absent" THEN fresh ELSE runs[r]
<1>3. f \in SUBSET Scope /\ f \subseteq {s}
  BY <1>1 DEF Continued, Checkpoint
<1>. HIDE DEF f
<1>4. x \in Walk /\ x.at = "scrape" /\ x.trigger = trigger /\ x.scope = s /\ x.run = r /\ x.from = f
  <2>1. r \in Run
    BY <1>2
  <2>2. f \in SUBSET Scope
    BY <1>3
  <2>. QED
    BY <2>1, <2>2, Scraping
<1>5. fresh \in RunRow /\ fresh.trigger = trigger /\ fresh.scope = s /\ fresh.status = "running"
  BY DEF NoRunRow, RunRow
<1>6. proc' = [proc EXCEPT ![p] = x]
  BY <1>2 DEF f, Cycle
<1>. HIDE DEF x, fresh
<1>7. /\ row \in RunRow /\ row.trigger = trigger /\ row.status # "absent" /\ r \notin counted
      /\ Allowed(row, approved) /\ \A q \in Proc \ {p} : proc[q].run # r
  <2>1. CASE runs[r].status = "absent"
    <3>1. row = fresh
      BY <2>1
    <3>2. \A q \in Proc : proc[q].run # r
      BY <2>1, NoRunAssumption DEF IndInv, ProcessesSane, Sane
    <3>3. r \notin counted
      BY <2>1 DEF IndInv, CountBacked, CleanRunOf
    <3>. QED
      BY <1>5, <3>1, <3>2, <3>3 DEF Allowed
  <2>2. CASE runs[r].status # "absent"
    <3>1. trigger # "canary" /\ runs[r].trigger = trigger /\ \A q \in Proc : proc[q].run # r
      BY <1>2, <2>2 DEF Reusable
    <3>2. r \notin counted
      BY <3>1 DEF IndInv, CountBacked
    <3>3. Allowed(runs[r], approved)
      BY <2>2 DEF IndInv, UnattendedScopeApproved, Allowed
    <3>. QED
      BY <1>1, <2>2, <3>1, <3>2, <3>3
  <2>. QED
    BY <2>1, <2>2
<1>8. runs' = [runs EXCEPT ![r] = row]
  BY <1>1, <1>2 DEF fresh
<1>. HIDE DEF row
<1>9. Sane(x, runs', counted, approved)
  <2>1. runs'[r] = row
    BY <1>1, <1>8
  <2>. QED
    BY <1>3, <1>4, <1>7, <2>1, NoRunAssumption DEF Sane, Recording
<1>. QED
  BY <1>2, <1>4, <1>6, <1>7, <1>8, <1>9, RowStep

\* A worker looks at its policy, and at the checkpoint or the approved scope after
\* it; a canary looks for its evidence; a process leaves.
LEMMA ReadingSteps ==
  ASSUME IndInv, NEW p \in Proc,
         (\E s \in Scope : Iterate(p, s)) \/ CheckPolicy(p) \/ CheckWider(p) \/ Verify(p) \/ Die(p)
  PROVE  IndInv'
<1>1. /\ proc[p] \in Walk /\ Sane(proc[p], runs, counted, approved)
      /\ PromotedApproved /\ rollout.scope \in Scope \cup {NoScope}
  BY DEF IndInv, ProcessesSane, TypeOK, Walk
<1>2. ASSUME proc' = [proc EXCEPT ![p] = Idle], UNCHANGED <<runs, rollout, checkpoint, counted, approved>>
      PROVE  IndInv'
  BY <1>2, FromIdle, IdleSane, ProcStep
<1>3. {"checkpoint", "wider", "begin", "record"} \subseteq Step /\ "wider" \in Trigger
  BY DEF Step, Trigger
<1>4. ASSUME NEW s \in Scope, Iterate(p, s) PROVE IndInv'
  <2>. DEFINE v == ReadPolicy(p, s)
              x == Policy(v, s, rollout.scope)
  <2>1. v \in {"checkpoint", "wider"} /\ (v = "checkpoint" => s \in approved)
    BY <1>1, <1>4 DEF Iterate, ReadPolicy, Approved, PromotedApproved
  <2>2. proc' = [proc EXCEPT ![p] = x] /\ UNCHANGED <<runs, rollout, checkpoint, counted, approved>>
    BY <1>4 DEF Iterate, Policy
  <2>. HIDE DEF v
  <2>3. /\ x \in Walk /\ x.at = v /\ x.trigger = "worker" /\ x.scope = s
        /\ x.run = NoRun /\ x.from = {}
    <3>1. v \in Step /\ s \in Scope /\ rollout.scope \in Scope \cup {NoScope}
      BY <1>1, <1>3, <1>4, <2>1
    <3>. QED
      BY <3>1, Iterating
  <2>. HIDE DEF x
  <2>4. Sane(x, runs, counted, approved)
    BY <2>1, <2>3 DEF Sane, Recording
  <2>. QED
    BY <2>2, <2>3, <2>4, ProcStep
<1>5. ASSUME CheckPolicy(p) PROVE IndInv'
  <2>1. UNCHANGED <<runs, rollout, checkpoint, counted, approved>> /\ proc[p].at = "checkpoint"
    BY <1>5 DEF CheckPolicy
  <2>. DEFINE x == [proc[p] EXCEPT !.at = "begin"]
  <2>2. /\ x \in Walk /\ x.at = "begin" /\ x.trigger = proc[p].trigger /\ x.scope = proc[p].scope
        /\ x.run = proc[p].run /\ x.from = proc[p].from
    BY <1>1, <1>3, WalkFields
  <2>3. proc' = [proc EXCEPT ![p] = x] \/ proc' = [proc EXCEPT ![p] = Idle]
    BY <1>5 DEF CheckPolicy, Go, Leave
  <2>. HIDE DEF x
  <2>4. Sane(x, runs, counted, approved)
    BY <1>1, <2>1, <2>2 DEF Sane, Recording, Allowed
  <2>. QED
    BY <1>2, <2>1, <2>2, <2>3, <2>4, ProcStep
<1>6. ASSUME CheckWider(p) PROVE IndInv'
  <2>1. UNCHANGED <<runs, rollout, checkpoint, counted, approved>> /\ proc[p].at = "wider"
    BY <1>6 DEF CheckWider
  <2>. DEFINE y == [proc[p] EXCEPT !.at = "begin"]
              x == [y EXCEPT !.trigger = "wider"]
  <2>2. /\ y \in Walk /\ y.at = "begin" /\ y.scope = proc[p].scope
        /\ y.run = proc[p].run /\ y.from = proc[p].from
    BY <1>1, <1>3, WalkFields
  <2>3. \/ proc' = [proc EXCEPT ![p] = x] /\ Approved /\ rollout.scope \subseteq proc[p].scope
        \/ proc' = [proc EXCEPT ![p] = Idle]
    BY <1>6 DEF CheckWider, Leave
  <2>. HIDE DEF y
  <2>4. /\ x \in Walk /\ x.at = "begin" /\ x.trigger = "wider" /\ x.scope = proc[p].scope
        /\ x.run = proc[p].run /\ x.from = proc[p].from
    BY <1>3, <2>2, WalkFields
  <2>. HIDE DEF x
  <2>5. ASSUME Approved, rollout.scope \subseteq proc[p].scope PROVE Sane(x, runs, counted, approved)
    <3>1. Allowed(x, approved)
      BY <1>1, <2>4, <2>5 DEF Allowed, Approved, PromotedApproved
    <3>. QED
      BY <1>1, <2>1, <2>4, <3>1 DEF Sane, Recording
  <2>. QED
    BY <1>2, <2>1, <2>3, <2>4, <2>5, ProcStep
<1>7. ASSUME Verify(p) PROVE IndInv'
  <2>1. UNCHANGED <<runs, rollout, checkpoint, counted, approved>> /\ proc[p].at = "verify"
    BY <1>7 DEF Verify
  <2>. DEFINE b == proc[p].sound /\ CleanRunOf(runs[proc[p].run], proc[p].scope)
              y == [proc[p] EXCEPT !.at = "record"]
              x == [y EXCEPT !.sound = b]
  <2>2. /\ y \in Walk /\ y.at = "record" /\ y.trigger = proc[p].trigger /\ y.scope = proc[p].scope
        /\ y.run = proc[p].run /\ y.from = proc[p].from
    BY <1>1, <1>3, WalkFields
  <2>3. proc' = [proc EXCEPT ![p] = x]
    BY <1>7 DEF Verify
  <2>4. b \in BOOLEAN
    BY <1>1 DEF Walk, CleanRunOf
  <2>5. b => CleanRunOf(runs[proc[p].run], proc[p].scope)
    OBVIOUS
  <2>. HIDE DEF y, b
  <2>6. /\ x \in Walk /\ x.at = "record" /\ x.trigger = proc[p].trigger /\ x.scope = proc[p].scope
        /\ x.run = proc[p].run /\ x.from = proc[p].from /\ x.sound = b
    BY <2>2, <2>4, WalkFields
  <2>. HIDE DEF x
  <2>7. Sane(x, runs, counted, approved)
    BY <1>1, <2>1, <2>5, <2>6 DEF Sane, Recording
  <2>. QED
    BY <2>1, <2>3, <2>6, <2>7, ProcStep
<1>8. ASSUME Die(p) PROVE IndInv'
  BY <1>2, <1>8 DEF Die, Leave
<1>. QED
  BY <1>4, <1>5, <1>6, <1>7, <1>8

\* The run's outcome is written, and then the checkpoint.
LEMMA WritingSteps ==
  ASSUME IndInv, NEW p \in Proc, FinishRun(p) \/ FailRun(p) \/ SaveCheckpoint(p)
  PROVE  IndInv'
<1>. DEFINE r == proc[p].run
            Outcome(st, c, b) == [runs[r] EXCEPT !.status = st, !.covered = c, !.clean = b]
<1>1. /\ proc[p] \in Walk /\ Sane(proc[p], runs, counted, approved)
      /\ proc \in [Proc -> Walk] /\ runs \in [Run -> RunRow]
      /\ checkpoint \in Checkpoint /\ checkpoint.from \subseteq {checkpoint.scope}
  BY DEF IndInv, ProcessesSane, TypeOK, Walk, SweepOfOneScope
<1>2. {"save", "verify"} \subseteq Step /\ {"save", "verify", "scrape"} \subseteq Recording
  BY DEF Step, Recording
<1>3. /\ r \in Run /\ r # NoRun /\ runs[r] \in RunRow /\ runs[r].status # "absent"
      /\ runs[r].trigger = proc[p].trigger /\ r \notin counted
      /\ \A q \in Proc \ {p} : proc[q].run # r
  <2>1. proc[p].at \in Recording
    BY <1>2 DEF FinishRun, FailRun, SaveCheckpoint
  <2>2. r \in Run /\ r # NoRun
    BY <1>1, <2>1 DEF Sane, Walk
  <2>3. \A q \in Proc \ {p} : proc[q].run # r
    BY <2>2 DEF IndInv, OneWriter
  <2>. QED
    BY <1>1, <2>2, <2>3 DEF Sane
<1>4. Allowed(runs[r], approved)
  BY <1>3 DEF IndInv, UnattendedScopeApproved, Allowed
<1>5. ASSUME NEW st \in {"complete", "partial", "failed"}, NEW c \in Scope \cup {NoScope}, NEW b \in BOOLEAN
      PROVE  /\ Outcome(st, c, b) \in RunRow /\ Outcome(st, c, b).status = st
             /\ Outcome(st, c, b).trigger = proc[p].trigger /\ Allowed(Outcome(st, c, b), approved)
  <2>. DEFINE row == Outcome(st, c, b)
  <2>1. row \in RunRow
    BY <1>3 DEF RunRow
  <2>2. row.status = st /\ row.trigger = runs[r].trigger /\ row.scope = runs[r].scope
    BY <1>3 DEF RunRow
  <2>. HIDE DEF row
  <2>3. Allowed(row, approved)
    BY <1>4, <2>2 DEF Allowed
  <2>. QED
    BY <1>3, <2>1, <2>2, <2>3 DEF row
<1>. HIDE DEF r, Outcome
<1>6. ASSUME FinishRun(p) PROVE IndInv'
  <2>1. PICK status \in {"complete", "partial"}, clean \in BOOLEAN :
          /\ proc[p].at = "scrape"
          /\ runs' = [runs EXCEPT ![r].status = status, ![r].covered = proc[p].scope, ![r].clean = clean]
          /\ proc' = [proc EXCEPT ![p].at = "save", ![p].pending = (status = "partial"),
                          ![p].sound = (status = "complete" /\ proc[p].trigger = "canary")]
          /\ UNCHANGED <<rollout, checkpoint, counted, approved>>
    BY <1>6 DEF FinishRun, r
  <2>. DEFINE row == Outcome(status, proc[p].scope, clean)
              d == status = "complete" /\ proc[p].trigger = "canary"
              e == status = "partial"
              y == [proc[p] EXCEPT !.at = "save"]
              z == [y EXCEPT !.pending = e]
              x == [z EXCEPT !.sound = d]
  <2>2. runs' = [runs EXCEPT ![r] = row] /\ runs'[r] = row
    BY <1>1, <1>3, <2>1 DEF Outcome
  <2>3. row \in RunRow /\ row.status = status /\ row.trigger = proc[p].trigger /\ Allowed(row, approved)
    <3>1. proc[p].scope \in Scope \cup {NoScope} /\ status \in {"complete", "partial", "failed"}
      BY <1>1, <2>1 DEF Walk
    <3>2. clean \in BOOLEAN
      BY <2>1
    <3>. QED
      BY <1>5, <3>1, <3>2
  <2>4. proc' = [proc EXCEPT ![p] = x]
    BY <1>1, <2>1
  <2>5. d \in BOOLEAN /\ e \in BOOLEAN
    OBVIOUS
  <2>. HIDE DEF row, d, e
  <2>6. /\ y \in Walk /\ y.at = "save" /\ y.trigger = proc[p].trigger /\ y.scope = proc[p].scope
        /\ y.run = r /\ y.from = proc[p].from
    BY <1>1, <1>2, WalkFields DEF r
  <2>. HIDE DEF y
  <2>7. /\ z \in Walk /\ z.at = "save" /\ z.trigger = proc[p].trigger /\ z.scope = proc[p].scope
        /\ z.run = r /\ z.from = proc[p].from
    BY <2>5, <2>6, WalkFields
  <2>. HIDE DEF z
  <2>8. /\ x \in Walk /\ x.at = "save" /\ x.trigger = proc[p].trigger /\ x.scope = proc[p].scope
        /\ x.run = r /\ x.from = proc[p].from
    BY <2>5, <2>7, WalkFields
  <2>. HIDE DEF x
  <2>9. Sane(x, runs', counted, approved)
    BY <1>1, <1>2, <1>3, <2>1, <2>2, <2>3, <2>8 DEF Sane
  <2>. QED
    BY <1>3, <2>1, <2>2, <2>3, <2>4, <2>8, <2>9, RowStep
<1>7. ASSUME NEW x \in Walk, proc' = [proc EXCEPT ![p] = x], x.run \in {NoRun, r},
             NEW table \in [Run -> RunRow],
             table[r].status # "absent", table[r].trigger = proc[p].trigger,
             \/ x = Idle
             \/ x = [proc[p] EXCEPT !.at = "verify"] /\ proc[p].trigger = "canary"
      PROVE  Sane(x, table, counted, approved)
  <2>1. CASE x = Idle
    BY <2>1, IdleSane
  <2>2. CASE x = [proc[p] EXCEPT !.at = "verify"] /\ proc[p].trigger = "canary"
    <3>1. /\ x.at = "verify" /\ x.trigger = proc[p].trigger /\ x.scope = proc[p].scope
          /\ x.run = r /\ x.from = proc[p].from
      BY <1>1, <1>2, <2>2, WalkFields DEF r
    <3>. QED
      <4>1. table[r].status # "absent" /\ table[r].trigger = "canary" /\ x.trigger = "canary"
        BY <1>7, <2>2, <3>1
      <4>2. x.scope \in Scope /\ x.from \subseteq {x.scope}
        <5>1. proc[p].at \in Recording /\ proc[p].at # "idle"
          BY <1>1, <1>3 DEF Sane, r, Recording
        <5>. QED
          BY <1>1, <3>1, <5>1 DEF Sane
      <4>. QED
        BY <1>2, <1>3, <3>1, <4>1, <4>2 DEF Sane
  <2>. QED
    BY <1>7, <2>1, <2>2
<1>8. ASSUME IF proc[p].trigger = "canary" THEN Go(p, "verify") ELSE Leave(p)
      PROVE  \E x \in Walk :
               /\ proc' = [proc EXCEPT ![p] = x] /\ x.run \in {NoRun, r}
               /\ \/ x = Idle
                  \/ x = [proc[p] EXCEPT !.at = "verify"] /\ proc[p].trigger = "canary"
  <2>. DEFINE x == [proc[p] EXCEPT !.at = "verify"]
  <2>1. x \in Walk /\ x.run = r
    BY <1>1, <1>2, WalkFields DEF r
  <2>2. \/ proc' = [proc EXCEPT ![p] = x] /\ proc[p].trigger = "canary"
        \/ proc' = [proc EXCEPT ![p] = Idle]
    BY <1>8 DEF Go, Leave
  <2>. QED
    BY <2>1, <2>2, FromIdle
<1>9. ASSUME FailRun(p) PROVE IndInv'
  <2>. DEFINE row == Outcome("failed", NoScope, FALSE)
  <2>1. /\ runs' = [runs EXCEPT ![r].status = "failed", ![r].covered = NoScope, ![r].clean = FALSE]
        /\ UNCHANGED <<rollout, checkpoint, counted, approved>>
        /\ IF proc[p].trigger = "canary" THEN Go(p, "verify") ELSE Leave(p)
    BY <1>9 DEF FailRun, r
  <2>2. runs' = [runs EXCEPT ![r] = row]
    BY <1>1, <1>3, <2>1 DEF Outcome
  <2>3. row \in RunRow /\ row.status = "failed" /\ row.trigger = proc[p].trigger /\ Allowed(row, approved)
    BY <1>5
  <2>. HIDE DEF row
  <2>4. runs' \in [Run -> RunRow] /\ runs'[r] = row
    BY <1>1, <1>3, <2>2, <2>3
  <2>5. PICK x \in Walk :
          /\ proc' = [proc EXCEPT ![p] = x] /\ x.run \in {NoRun, r}
          /\ \/ x = Idle
             \/ x = [proc[p] EXCEPT !.at = "verify"] /\ proc[p].trigger = "canary"
    BY <1>8, <2>1
  <2>6. Sane(x, runs', counted, approved)
    BY <1>7, <2>3, <2>4, <2>5
  <2>. QED
    BY <1>3, <2>1, <2>2, <2>3, <2>5, <2>6, RowStep
<1>10. ASSUME SaveCheckpoint(p) PROVE IndInv'
  <2>1. /\ UNCHANGED <<runs, rollout, counted, approved>>
        /\ checkpoint' = [scope |-> proc[p].scope, pending |-> proc[p].pending,
                          from |-> IF proc[p].pending THEN proc[p].from \cup {proc[p].scope} ELSE {}]
        /\ IF proc[p].trigger = "canary" THEN Go(p, "verify") ELSE Leave(p)
    BY <1>10 DEF SaveCheckpoint
  <2>2. checkpoint' \in Checkpoint /\ checkpoint'.from \subseteq {checkpoint'.scope}
    <3>. DEFINE f == IF proc[p].pending THEN proc[p].from \cup {proc[p].scope} ELSE {}
    <3>1. /\ proc[p].scope \in Scope /\ proc[p].pending \in BOOLEAN
          /\ proc[p].from \subseteq Scope /\ proc[p].from \subseteq {proc[p].scope}
      BY <1>1, <1>10 DEF Walk, Sane, SaveCheckpoint
    <3>2. f \subseteq {proc[p].scope}
      BY <3>1
    <3>3. f \subseteq Scope
      BY <3>1
    <3>. HIDE DEF f
    <3>4. checkpoint' = [scope |-> proc[p].scope, pending |-> proc[p].pending, from |-> f]
      BY <2>1 DEF f
    <3>. QED
      BY <3>1, <3>2, <3>3, <3>4 DEF Checkpoint
  <2>3. PICK x \in Walk :
          /\ proc' = [proc EXCEPT ![p] = x] /\ x.run \in {NoRun, r}
          /\ \/ x = Idle
             \/ x = [proc[p] EXCEPT !.at = "verify"] /\ proc[p].trigger = "canary"
    BY <1>8, <2>1
  <2>4. Sane(x, runs, counted, approved)
    BY <1>1, <1>3, <1>7, <2>3
  <2>5. proc' \in [Proc -> Walk] /\ \A q \in Proc : proc'[q] = IF q = p THEN x ELSE proc[q]
    BY <1>1, <2>3
  <2>6. \A q \in Proc : Sane(proc'[q], runs', counted, approved)
    BY <2>1, <2>4, <2>5 DEF IndInv, ProcessesSane
  <2>7. \A o, q \in Proc : o # q /\ proc'[o].run # NoRun => proc'[o].run # proc'[q].run
    BY <1>3, <2>3, <2>5 DEF IndInv, OneWriter
  <2>. HIDE DEF IndInv
  <2>8. runs' \in [Run -> RunRow] /\ \A s \in Run \ {} : runs'[s] = runs[s]
    BY <1>1, <2>1
  <2>. QED
    BY <2>1, <2>2, <2>5, <2>6, <2>7, <2>8, StepKeeps, FS_EmptySet
<1>. QED
  BY <1>6, <1>9, <1>10

\* An operator promotes the scope that is configured.
LEMMA PromoteStep == IndInv /\ Promote => IndInv'
<1>. SUFFICES ASSUME IndInv, Promote PROVE IndInv'
  OBVIOUS
<1>1. /\ rollout \in Rollout /\ rollout.scope \in Scope
      /\ runs' = runs /\ checkpoint' = checkpoint /\ proc' = proc /\ counted' = counted
      /\ rollout' = [rollout EXCEPT !.state = "promoted"] /\ approved' = approved \cup {rollout.scope}
  BY DEF IndInv, TypeOK, Rollout, Promote, Evidence
<1>2. /\ rollout' \in Rollout /\ rollout'.scope = rollout.scope /\ rollout'.count = rollout.count
  BY <1>1 DEF Rollout
<1>3. approved \subseteq approved' /\ rollout.scope \in approved'
  BY <1>1
<1>4. approved' \subseteq Scope
  BY <1>1 DEF IndInv, TypeOK
<1>5. TypeOK'
  BY <1>1, <1>2, <1>4 DEF IndInv, TypeOK, Rollout
<1>6. ProcessesSane'
  <2>1. ASSUME NEW q \in Proc PROVE Sane(proc[q], runs, counted, approved')
    <3>1. proc[q] \in Walk /\ Sane(proc[q], runs, counted, approved)
      BY DEF IndInv, ProcessesSane, TypeOK, Walk
    <3>2. proc[q].run # NoRun => proc[q].run \notin counted
      BY <3>1 DEF Sane
    <3>. QED
      BY <1>3, <3>1, <3>2, StaysSane
  <2>. QED
    BY <1>1, <2>1 DEF ProcessesSane
<1>7. OneWriter' /\ SweepOfOneScope'
  BY <1>1 DEF IndInv, OneWriter, SweepOfOneScope
<1>8. CountBacked' /\ PromotedApproved'
  <2>1. Begun' = Begun
    BY <1>1 DEF Begun
  <2>2. CountBacked'
    BY <1>1, <1>2, <2>1 DEF IndInv, CountBacked
  <2>. QED
    BY <1>2, <1>3, <2>2 DEF PromotedApproved
<1>9. UnattendedScopeApproved'
  BY <1>1, <1>3 DEF IndInv, UnattendedScopeApproved
<1>. QED
  BY <1>5, <1>6, <1>7, <1>8, <1>9 DEF IndInv

\* What the upsert of a clean canary leaves.
LEMMA RecordedRow ==
  ASSUME rollout \in Rollout, NEW s \in Scope, NEW r \in Run
  PROVE  LET n == Recorded(s, r)
         IN  /\ n \in Rollout /\ n.scope = s
             /\ n.state = "promoted" => rollout.scope = s /\ rollout.state = "promoted"
             /\ rollout.scope # s => n.state = "canary" /\ n.count = 1
             /\ rollout.scope = s =>
                  /\ n.state = "promoted" <=> rollout.state = "promoted"
                  /\ n.count >= rollout.count
                  /\ n.count # rollout.count => n.count = rollout.count + 1
<1>. DEFINE st == IF rollout.scope = s /\ rollout.state = "promoted" THEN "promoted" ELSE "canary"
            c == IF rollout.scope # s THEN 1
                 ELSE IF rollout.last = r \/ rollout.count = MaxCount THEN rollout.count
                 ELSE rollout.count + 1
<1>1. rollout.count \in 0 .. MaxCount
  BY DEF Rollout
<1>2. c \in 0 .. MaxCount
  BY <1>1, CountAssumption
<1>3. /\ rollout.scope # s => c = 1
      /\ rollout.scope = s => c = rollout.count \/ c = rollout.count + 1
  OBVIOUS
<1>4. /\ st \in {"promoted", "canary"}
      /\ st = "promoted" <=> rollout.scope = s /\ rollout.state = "promoted"
  OBVIOUS
<1>5. Recorded(s, r) = [state |-> st, count |-> c, scope |-> s, last |-> r]
  BY DEF Recorded
<1>. HIDE DEF st, c
<1>6. /\ Recorded(s, r).state = st /\ Recorded(s, r).count = c /\ Recorded(s, r).scope = s
      /\ Recorded(s, r) \in Rollout
  BY <1>2, <1>4, <1>5 DEF Rollout
<1>7. rollout.scope = s => c >= rollout.count /\ (c # rollout.count => c = rollout.count + 1)
  BY <1>1, <1>3
<1>. QED
  BY <1>3, <1>4, <1>6, <1>7

\* A canary's record: a clean one is one more run behind the count, or the first
\* of another scope.
LEMMA RecordStep ==
  ASSUME IndInv, NEW p \in Proc, Record(p)
  PROVE  IndInv'
<1>. DEFINE r == proc[p].run
            s == proc[p].scope
<1>1. /\ proc[p] \in Walk /\ Sane(proc[p], runs, counted, approved) /\ proc \in [Proc -> Walk]
      /\ rollout \in Rollout /\ rollout.count \in Nat /\ counted \subseteq Run
  BY DEF IndInv, ProcessesSane, TypeOK, Walk, Rollout
<1>2. /\ proc[p].at = "record" /\ runs' = runs /\ checkpoint' = checkpoint /\ approved' = approved
      /\ proc' = [proc EXCEPT ![p] = Idle]
  BY DEF Record, Leave
<1>3. /\ r \in Run /\ r # NoRun /\ s \in Scope /\ r \notin counted
      /\ runs[r].trigger = "canary"
      /\ proc[p].sound => CleanRunOf(runs[r], s)
  BY <1>1, <1>2 DEF Sane, Walk, Recording
<1>4. proc' \in [Proc -> Walk] /\ \A q \in Proc : proc'[q] = IF q = p THEN Idle ELSE proc[q]
  BY <1>1, <1>2, FromIdle
<1>5. OneWriter' /\ SweepOfOneScope' /\ UnattendedScopeApproved'
  BY <1>2, <1>4, FromIdle DEF IndInv, OneWriter, SweepOfOneScope, UnattendedScopeApproved
<1>6. Begun' = Begun
  BY <1>2 DEF Begun
<1>7. ASSUME counted' \subseteq counted \cup {r} PROVE ProcessesSane'
  <2>1. ASSUME NEW q \in Proc, q # p PROVE Sane(proc[q], runs, counted', approved)
    <3>1. proc[q] \in Walk /\ Sane(proc[q], runs, counted, approved)
      BY <1>1 DEF IndInv, ProcessesSane
    <3>2. proc[q].run # NoRun => proc[q].run \notin counted /\ proc[q].run # r
      BY <2>1, <3>1 DEF Sane, IndInv, OneWriter
    <3>3. proc[q].run # NoRun => proc[q].run \notin counted'
      BY <1>7, <3>2
    <3>. QED
      BY <3>1, <3>3, StaysSane
  <2>. QED
    BY <1>2, <1>4, <2>1, IdleSane DEF ProcessesSane
<1>. HIDE DEF r, s
<1>8. CASE proc[p].sound
  <2>1. /\ rollout' = Recorded(s, r)
        /\ counted' = {r} \cup IF rollout.scope = s THEN counted ELSE {}
    BY <1>8 DEF Record, r, s
  <2>2. /\ rollout' \in Rollout /\ rollout'.scope = s
        /\ rollout'.state = "promoted" => rollout.scope = s /\ rollout.state = "promoted"
        /\ rollout.scope # s => rollout'.count = 1
        /\ rollout.scope = s => rollout'.count \in {rollout.count, rollout.count + 1}
    BY <1>1, <1>3, <2>1, RecordedRow
  <2>3. TypeOK'
    BY <1>1, <1>2, <1>3, <1>4, <2>1, <2>2 DEF IndInv, TypeOK, Rollout, Walk
  <2>4. PromotedApproved'
    BY <1>2, <2>2 DEF IndInv, PromotedApproved
  <2>5. CountBacked'
    <3>1. CASE rollout.scope = s
      <4>1. counted' = counted \cup {r}
        BY <2>1, <3>1
      <4>2. IsFiniteSet(counted') /\ Cardinality(counted') = Cardinality(counted) + 1
        BY <1>3, <4>1, FS_AddElement DEF IndInv, CountBacked
      <4>3. rollout'.count <= Cardinality(counted')
        <5>1. Cardinality(counted) \in Nat /\ rollout.count <= Cardinality(counted)
          BY FS_CardinalityType DEF IndInv, CountBacked
        <5>2. rollout'.count \in {rollout.count, rollout.count + 1}
          BY <2>2, <3>1
        <5>. QED
          BY <1>1, <4>2, <5>1, <5>2
      <4>4. \A q \in counted' : runs'[q].trigger = "canary" /\ CleanRunOf(runs'[q], rollout'.scope)
        BY <1>2, <1>3, <1>8, <2>2, <3>1, <4>1 DEF IndInv, CountBacked
      <4>. QED
        BY <1>6, <4>2, <4>3, <4>4 DEF IndInv, CountBacked
    <3>2. CASE rollout.scope # s
      <4>1. counted' = {r}
        BY <2>1, <3>2
      <4>2. IsFiniteSet(counted') /\ Cardinality(counted') = 1
        BY <4>1, FS_Singleton
      <4>3. rollout'.count <= Cardinality(counted')
        BY <2>2, <3>2, <4>2
      <4>4. \A q \in counted' : runs'[q].trigger = "canary" /\ CleanRunOf(runs'[q], rollout'.scope)
        BY <1>2, <1>3, <1>8, <2>2, <4>1
      <4>. QED
        BY <1>6, <4>2, <4>3, <4>4 DEF IndInv, CountBacked
    <3>. QED
      BY <3>1, <3>2
  <2>6. ProcessesSane'
    BY <1>7, <2>1
  <2>. QED
    BY <1>5, <2>3, <2>4, <2>5, <2>6 DEF IndInv
<1>9. CASE ~proc[p].sound
  <2>1. rollout' = RecordedUnclean /\ counted' = counted
    BY <1>9 DEF Record
  <2>2. /\ rollout' \in Rollout /\ rollout'.scope = rollout.scope /\ rollout'.count = rollout.count
        /\ rollout'.state = "promoted" => rollout.state = "promoted"
    BY <1>1, <2>1 DEF Rollout, RecordedUnclean
  <2>3. TypeOK'
    BY <1>2, <1>4, <2>1, <2>2 DEF IndInv, TypeOK, Rollout, Walk
  <2>4. CountBacked'
    BY <1>2, <1>6, <2>1, <2>2 DEF IndInv, CountBacked
  <2>5. PromotedApproved'
    BY <1>2, <2>2 DEF IndInv, PromotedApproved
  <2>6. ProcessesSane'
    BY <1>7, <2>1
  <2>. QED
    BY <1>5, <2>3, <2>4, <2>5, <2>6 DEF IndInv
<1>. QED
  BY <1>8, <1>9

\* A run no process works on is failed.
LEMMA SweepStep ==
  ASSUME IndInv, NEW r \in Run, SweepRun(r)
  PROVE  IndInv'
<1>1. /\ runs \in [Run -> RunRow] /\ proc \in [Proc -> Walk] /\ checkpoint \in Checkpoint
      /\ checkpoint.from \subseteq {checkpoint.scope}
  BY DEF IndInv, TypeOK, Walk, SweepOfOneScope
<1>. DEFINE row == [runs[r] EXCEPT !.status = "failed"]
<1>2. /\ runs[r].status = "running" /\ \A p \in Proc : proc[p].run # r
      /\ runs' = [runs EXCEPT ![r] = row]
      /\ UNCHANGED <<rollout, checkpoint, proc, counted, approved>>
  BY DEF SweepRun
<1>3. /\ row \in RunRow /\ row.trigger = runs[r].trigger /\ row.scope = runs[r].scope
  BY <1>1 DEF RunRow
<1>. HIDE DEF row
<1>4. runs' \in [Run -> RunRow] /\ runs'[r] = row /\ \A s \in Run \ {r} : runs'[s] = runs[s]
  BY <1>1, <1>2, <1>3
<1>5. r \notin counted
  BY <1>2 DEF IndInv, CountBacked, CleanRunOf
<1>6. Allowed(row, approved)
  <2>1. Allowed(runs[r], approved)
    BY <1>2 DEF IndInv, UnattendedScopeApproved, Allowed
  <2>. QED
    BY <1>3, <2>1 DEF Allowed
<1>7. ASSUME NEW q \in Proc PROVE Sane(proc'[q], runs', counted, approved)
  <2>1. proc'[q] = proc[q] /\ proc[q] \in Walk /\ Sane(proc[q], runs, counted, approved)
    BY <1>1, <1>2 DEF IndInv, ProcessesSane
  <2>2. proc[q].run # NoRun => proc[q].run \in Run \ {r} /\ proc[q].run \notin counted
    BY <1>2, <2>1 DEF Sane, Walk
  <2>3. proc[q].run # NoRun => runs'[proc[q].run] = runs[proc[q].run] /\ proc[q].run \notin counted
    BY <1>4, <2>2
  <2>. QED
    BY <2>1, <2>3, StaysSane
<1>8. \A o, q \in Proc : o # q /\ proc'[o].run # NoRun => proc'[o].run # proc'[q].run
  BY <1>2 DEF IndInv, OneWriter
<1>9. /\ IsFiniteSet({r}) /\ {r} \in SUBSET Run
      /\ \A s \in {r} : s \notin counted /\ Allowed(runs'[s], approved)
  BY <1>4, <1>5, <1>6, FS_Singleton
<1>10. checkpoint' \in Checkpoint /\ checkpoint'.from \subseteq {checkpoint'.scope} /\ proc' \in [Proc -> Walk]
  BY <1>1, <1>2
<1>. HIDE DEF IndInv
<1>. QED
  BY <1>2, <1>4, <1>7, <1>8, <1>9, <1>10, StepKeeps

\* The invariant is inductive.
LEMMA InvStep == IndInv /\ [Next]_vars => IndInv'
<1>. SUFFICES ASSUME IndInv, [Next]_vars PROVE IndInv'
  OBVIOUS
<1>1. CASE Promote
  BY <1>1, PromoteStep
<1>2. ASSUME NEW r \in Run, SweepRun(r) PROVE IndInv'
  BY <1>2, SweepStep
<1>3. ASSUME NEW p \in Proc, NEW s \in Scope, Ask(p, "canary", s) \/ Ask(p, "manual", s) PROVE IndInv'
  <2>1. {"canary", "manual"} \subseteq Trigger
    BY DEF Trigger
  <2>. QED
    BY <1>3, <2>1, BeginStep DEF Ask
<1>4. ASSUME NEW p \in Proc, Collect(p) PROVE IndInv'
  <2>1. proc[p] \in Walk /\ Sane(proc[p], runs, counted, approved) /\ proc[p].at = "begin"
    BY <1>4 DEF IndInv, ProcessesSane, TypeOK, Walk, Collect
  <2>2. proc[p].trigger \in Trigger /\ proc[p].scope \in Scope /\ Allowed(proc[p], approved)
    BY <2>1 DEF Walk, Sane
  <2>3. PICK trigger \in Eligible(proc[p].trigger) : Begin(p, trigger, proc[p].scope)
    BY <1>4 DEF Collect
  <2>4. /\ trigger \in Trigger
        /\ trigger = "worker" => proc[p].scope \in approved
        /\ trigger = "wider" => \E a \in approved : a \subseteq proc[p].scope
    BY <2>2, <2>3 DEF Eligible, Allowed, Trigger
  <2>. HIDE DEF IndInv
  <2>. QED
    BY <2>2, <2>3, <2>4, BeginStep
<1>5. ASSUME NEW p \in Proc, (\E s \in Scope : Iterate(p, s)) \/ CheckPolicy(p) \/ CheckWider(p) \/ Verify(p) \/ Die(p)
      PROVE  IndInv'
  BY <1>5, ReadingSteps
<1>6. ASSUME NEW p \in Proc, FinishRun(p) \/ FailRun(p) \/ SaveCheckpoint(p) PROVE IndInv'
  BY <1>6, WritingSteps
<1>7. ASSUME NEW p \in Proc, Record(p) PROVE IndInv'
  BY <1>7, RecordStep
<1>8. CASE UNCHANGED vars
  BY <1>8 DEF vars, IndInv, TypeOK, ProcessesSane, OneWriter, CountBacked, Begun, PromotedApproved,
              UnattendedScopeApproved, SweepOfOneScope
<1>. QED
  BY <1>1, <1>2, <1>3, <1>4, <1>5, <1>6, <1>7, <1>8 DEF Next

\* With the invariant, the evidence of a promoted scope stands: the counted runs
\* are clean runs of it, and they are two.
LEMMA EvidenceStands ==
  ASSUME NEW table, NEW done, NEW scope, NEW count \in Nat, done \subseteq Run,
         IsFiniteSet({r \in Run : table[r].status # "absent"}),
         \A r \in done : CleanRunOf(table[r], scope),
         IsFiniteSet(done), count >= 2, count <= Cardinality(done)
  PROVE  Cardinality({r \in Run : CleanRunOf(table[r], scope)}) >= 2
<1>. DEFINE clean == {r \in Run : CleanRunOf(table[r], scope)}
<1>1. clean \subseteq {r \in Run : table[r].status # "absent"} /\ done \subseteq clean
  BY DEF CleanRunOf
<1>. HIDE DEF clean
<1>2. IsFiniteSet(clean)
  BY <1>1, FS_Subset
<1>3. Cardinality(done) <= Cardinality(clean) /\ Cardinality(done) \in Nat /\ Cardinality(clean) \in Nat
  BY <1>1, <1>2, FS_Subset, FS_CardinalityType
<1>4. Cardinality(clean) >= 2
  BY <1>3
<1>. QED
  BY <1>4 DEF clean

\* A step keeps an approval, unless it records a clean canary of another scope.
LEMMA KeepStep ==
  ASSUME IndInv, IndInv', [Next]_vars, Approved
  PROVE  Approved' <=> rollout'.scope = rollout.scope
<1>1. /\ rollout \in Rollout /\ rollout.count \in Nat /\ rollout.state = "promoted" /\ rollout.count >= 2
      /\ rollout.scope # NoScope
  BY DEF IndInv, TypeOK, Rollout, Approved, Evidence
<1>2. rollout' \in Rollout /\ rollout'.count \in Nat
  BY DEF IndInv, TypeOK, Rollout
<1>3. /\ rollout'.scope = rollout.scope => rollout'.state = "promoted" /\ rollout'.count >= rollout.count
      /\ rollout'.scope # rollout.scope => rollout'.state = "canary"
  <2>1. CASE rollout' = rollout
    BY <1>1, <2>1
  <2>2. CASE Promote
    BY <1>1, <2>2 DEF Promote, Rollout
  <2>3. ASSUME NEW p \in Proc, Record(p)
        PROVE  /\ rollout'.scope = rollout.scope => rollout'.state = "promoted" /\ rollout'.count >= rollout.count
               /\ rollout'.scope # rollout.scope => rollout'.state = "canary"
    <3>1. /\ proc[p].run \in Run /\ proc[p].scope \in Scope
      BY <2>3 DEF IndInv, ProcessesSane, TypeOK, Sane, Record, Recording
    <3>2. rollout' = Recorded(proc[p].scope, proc[p].run) \/ rollout' = RecordedUnclean
      BY <2>3 DEF Record
    <3>3. CASE rollout' = Recorded(proc[p].scope, proc[p].run)
      BY <1>1, <3>1, <3>3, RecordedRow
    <3>4. CASE rollout' = RecordedUnclean
      BY <1>1, <3>4 DEF RecordedUnclean, Rollout
    <3>. QED
      BY <3>2, <3>3, <3>4
  <2>4. rollout' = rollout \/ Promote \/ \E p \in Proc : Record(p)
    BY DEF Next, vars, SweepRun, Ask, Begin, Iterate, CheckPolicy, CheckWider, Collect, FinishRun,
           FailRun, SaveCheckpoint, Verify, Die
  <2>. QED
    BY <2>1, <2>2, <2>3, <2>4
<1>4. ASSUME rollout'.scope = rollout.scope PROVE Approved'
  <2>1. rollout'.count >= 2 /\ rollout'.scope # NoScope /\ rollout'.state = "promoted"
    BY <1>1, <1>2, <1>3, <1>4
  <2>2. /\ counted' \subseteq Run /\ IsFiniteSet(counted') /\ rollout'.count <= Cardinality(counted')
        /\ \A r \in counted' : CleanRunOf(runs'[r], rollout'.scope)
        /\ IsFiniteSet({r \in Run : runs'[r].status # "absent"})
    BY DEF IndInv, TypeOK, CountBacked, Begun
  <2>3. Cardinality({r \in Run : CleanRunOf(runs'[r], rollout'.scope)}) >= 2
    BY <1>2, <2>1, <2>2, EvidenceStands
  <2>. QED
    BY <2>1, <2>3 DEF Approved, Evidence
<1>5. Approved' => rollout'.scope = rollout.scope
  BY <1>3 DEF Approved
<1>. QED
  BY <1>4, <1>5

-----------------------------------------------------------------------------
\* The inductive invariant holds in every reachable state, for any scopes, runs and processes.
THEOREM InvariantHolds == Spec => []IndInv
  BY InitInv, InvStep, PTL DEF Spec

\* Every variable keeps a value of its type.
THEOREM TypeCorrect == Spec => []TypeOK
  BY InvariantHolds, PTL DEF IndInv

\* Two distinct clean canaries of the approved scope stand behind an approval,
\* whatever happens between the two statements of recordCanary.
THEOREM ApprovalIsEarned == Spec => []ApprovalEarned
<1>1. IndInv => ApprovalEarned
  <2>. SUFFICES ASSUME IndInv, Approved PROVE ApprovalEarned
    BY DEF ApprovalEarned
  <2>1. rollout.count \in Nat /\ rollout.count >= 2 /\ rollout.count <= Cardinality(counted)
        /\ Cardinality(counted) \in Nat
    BY FS_CardinalityType DEF IndInv, TypeOK, CountBacked, Approved, Evidence
  <2>2. \A r \in counted : /\ runs[r].trigger = "canary" /\ runs[r].status = "complete"
                            /\ runs[r].covered = rollout.scope
    BY DEF IndInv, CountBacked, CleanRunOf
  <2>3. Cardinality(counted) >= 2
    BY <2>1
  <2>. QED
    BY <2>2, <2>3 DEF ApprovalEarned
<1>. QED
  BY <1>1, InvariantHolds, PTL

\* An approval lasts until a clean canary of another scope: no failed canary, retry or
\* policy check of the worker takes it away.
THEOREM ApprovalIsKept == Spec => ApprovalKept
<1>1. IndInv /\ IndInv' /\ [Next]_vars => [Approved => (Approved' <=> rollout'.scope = rollout.scope)]_vars
  BY KeepStep
<1>. QED
  BY <1>1, InvariantHolds, PTL DEF Spec, ApprovalKept

\* What the worker collects unattended was promoted, in that scope or a narrower one,
\* though it reads rollout and checkpoint one after the other.
THEOREM UnattendedIsApproved == Spec => []UnattendedScopeApproved
  BY InvariantHolds, PTL DEF IndInv

\* No sweep is pieced together from two scopes, though all deployments share one
\* checkpoint per source.
THEOREM SweepStaysInScope == Spec => []SweepOfOneScope
  BY InvariantHolds, PTL DEF IndInv
=============================================================================
