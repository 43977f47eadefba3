--------------------------- MODULE SourceRollout ---------------------------
(***************************************************************************)
(* How one source earns and keeps the right to be collected unattended:    *)
(* the rollout row of server/discovery/store.js (recordCanary,             *)
(* promoteSource, promotedSourceScopes), the runs that are its evidence,   *)
(* the checkpoint they share, and the iterations of                        *)
(* scripts/discovery-worker.js that read all three before they collect.    *)
(*                                                                         *)
(* A scope is the set of states a deployed collector searches; endpoint,   *)
(* filters and page size, the other parts of a scope, are the same here.   *)
(* A process takes its scope from the environment it was started with, so  *)
(* two processes may disagree, and a restart may change it.                *)
(***************************************************************************)
EXTENDS Naturals, FiniteSets

CONSTANTS
  Scope,    \* sets of states a deployed collector searches
  Run,      \* rows of discovery_source_runs
  Proc,     \* processes: worker, canary CLI, API
  NoRun,    \* last_clean_run_id IS NULL
  MaxCount  \* bound: clean_canary_runs of the row

ASSUME ScopeAssumption == {} \notin Scope
ASSUME NoRunAssumption == NoRun \notin Run
ASSUME CountAssumption == MaxCount \in Nat \ {0, 1}

VARIABLES
  runs,       \* the rows: trigger, status, scope declared by beginRun, coverage by finishRun
  rollout,    \* the row of discovery_source_rollouts
  checkpoint, \* the source's row of discovery_checkpoints
  proc,       \* the process: where it is and what it has read
  counted,    \* history: runs recorded as clean since the configured scope changed
  approved    \* history: scopes an operator promoted

vars == <<runs, rollout, checkpoint, proc, counted, approved>>

-----------------------------------------------------------------------------
NoScope == {}                        \* '{}'::jsonb, a NULL hash, a missing row
Trigger == {"canary", "worker", "wider", "manual"}
Step    == {"idle", "checkpoint", "wider", "begin", "scrape", "save", "verify", "record"}

\* What finishRun stored: `result` is clean for a complete, untruncated full
\* sweep with records accepted and none rejected.
RunRow == [trigger : Trigger, status : {"absent", "running", "complete", "partial", "failed"},
           scope : Scope \cup {NoScope}, covered : Scope \cup {NoScope}, clean : BOOLEAN]
NoRunRow == [trigger |-> "manual", status |-> "absent", scope |-> NoScope,
             covered |-> NoScope, clean |-> FALSE]

\* A checkpoint is pending while its cursor is not empty; `from` is history,
\* the scopes of the runs that advanced the sweep the cursor continues.
Checkpoint == [scope : Scope \cup {NoScope}, pending : BOOLEAN, from : SUBSET Scope]
NoCheckpoint == [scope |-> NoScope, pending |-> FALSE, from |-> {}]

Idle == [at |-> "idle", trigger |-> "manual", scope |-> NoScope, read |-> NoScope,
         run |-> NoRun, from |-> {}, pending |-> FALSE, sound |-> FALSE]

TypeOK ==
  /\ runs \in [Run -> RunRow]
  /\ rollout \in [state : {"candidate", "canary", "promoted"}, count : 0 .. MaxCount,
                  scope : Scope \cup {NoScope}, last : Run \cup {NoRun}]
  /\ checkpoint \in Checkpoint
  /\ proc \in [Proc -> [at : Step, trigger : Trigger, scope : Scope \cup {NoScope},
                        read : Scope \cup {NoScope}, run : Run \cup {NoRun},
                        from : SUBSET Scope, pending : BOOLEAN, sound : BOOLEAN]]
  /\ counted \subseteq Run
  /\ approved \subseteq Scope

Init ==
  /\ runs = [r \in Run |-> NoRunRow]
  /\ rollout = [state |-> "candidate", count |-> 0, scope |-> NoScope, last |-> NoRun]
  /\ checkpoint = NoCheckpoint
  /\ proc = [p \in Proc |-> Idle]
  /\ counted = {}
  /\ approved = {}

-----------------------------------------------------------------------------
(* Evidence and approval.  A definition Name_Suffix is Name with a plausible *)
(* mistake in it.                                                            *)

\* The conditions on one row shared by recordCanary and PROMOTION_EVIDENCE_SQL.
CleanRunOf(row, s) == /\ row.status = "complete"
                      /\ row.clean
                      /\ row.scope = s
                      /\ row.covered = s

Evidence == /\ rollout.count >= 2
            /\ rollout.scope # NoScope
            /\ Cardinality({r \in Run : CleanRunOf(runs[r], rollout.scope)}) >= 2

\* A row of promotedSources and promotedSourceScopes.
Approved == rollout.state = "promoted" /\ Evidence

Promote ==
  /\ Evidence
  /\ rollout' = [rollout EXCEPT !.state = "promoted"]
  /\ approved' = approved \cup {rollout.scope}
  /\ UNCHANGED <<runs, checkpoint, proc, counted>>

\* The upsert of recordCanary for a verified clean run.
Recorded_CountsOn(s, r) ==
  [state |-> IF rollout.scope = s /\ rollout.state = "promoted" THEN "promoted" ELSE "canary",
   count |-> IF rollout.last = r \/ rollout.count = MaxCount THEN rollout.count
             ELSE rollout.count + 1,
   scope |-> s,
   last  |-> r]
Recorded(s, r) ==
  [state |-> IF rollout.scope = s /\ rollout.state = "promoted" THEN "promoted" ELSE "canary",
   count |-> IF rollout.scope # s THEN 1
             ELSE IF rollout.last = r \/ rollout.count = MaxCount THEN rollout.count
             ELSE rollout.count + 1,
   scope |-> s,
   last  |-> r]

\* The same upsert for a canary that is not clean: only a missing row changes.
RecordedUnclean_Reset == [rollout EXCEPT !.state = "canary", !.count = 0]
RecordedUnclean ==
  [rollout EXCEPT !.state = IF @ = "candidate" THEN "canary" ELSE @]

-----------------------------------------------------------------------------
(* A process.                                                                *)

Go(p, step) == proc' = [proc EXCEPT ![p].at = step]
Leave(p)    == proc' = [proc EXCEPT ![p] = Idle]

\* promotedSourcesWithinScope reads the approved scope and compares it with the
\* collector's; an equal one is looked at again with the checkpoint, another one
\* may still be wider.
ReadPolicy_AnyScope(p, s) == "checkpoint"
ReadPolicy(p, s) == IF rollout.scope = s THEN "checkpoint" ELSE "wider"

Iterate(p, s) ==
  /\ proc[p].at = "idle"
  /\ Approved
  /\ proc' = [proc EXCEPT ![p] = [Idle EXCEPT !.at = ReadPolicy(p, s), !.trigger = "worker",
                                              !.scope = s, !.read = rollout.scope]]
  /\ UNCHANGED <<runs, rollout, checkpoint, counted, approved>>

\* The rest of promotedSourcesWithinScope: a checkpoint of another scope rejects.
CheckPolicy(p) ==
  /\ proc[p].at = "checkpoint"
  /\ IF checkpoint.scope \in {NoScope, proc[p].read} THEN Go(p, "begin") ELSE Leave(p)
  /\ UNCHANGED <<runs, rollout, checkpoint, counted, approved>>

\* widerThanPromoted reads the approved scopes once more.
CheckWider(p) ==
  /\ proc[p].at = "wider"
  /\ IF Approved /\ rollout.scope \subseteq proc[p].scope /\ rollout.scope # proc[p].scope
     THEN proc' = [proc EXCEPT ![p].at = "begin", ![p].trigger = "wider"]
     ELSE Leave(p)
  /\ UNCHANGED <<runs, rollout, checkpoint, counted, approved>>

\* The run row of a cycle: a fresh one, or, for a job that is being retried, the
\* row its earlier attempt left, with the scope that attempt declared.  A canary
\* job has a key of its own and is never tried again.
Reusable(r, trigger) ==
  \/ runs[r].status = "absent"
  \/ /\ trigger # "canary"
     /\ runs[r].trigger = trigger
     /\ \A q \in Proc : proc[q].run # r

\* The collector continues from the cursor only if it belongs to the same scope.
Continued_AnyScope(s) == checkpoint.pending
Continued(s) == checkpoint.pending /\ checkpoint.scope = s

\* The scheduler begins a source: it reads the checkpoint, then beginRun.
Begin(p, trigger, s) == \E r \in Run :
  /\ Reusable(r, trigger)
  /\ runs' = IF runs[r].status = "absent"
             THEN [runs EXCEPT ![r] = [NoRunRow EXCEPT !.trigger = trigger,
                                         !.status = "running", !.scope = s]]
             ELSE runs
  /\ proc' = [proc EXCEPT ![p] = [Idle EXCEPT !.at = "scrape", !.trigger = trigger,
                 !.scope = s, !.run = r,
                 !.from = IF Continued(s) THEN checkpoint.from ELSE {}]]
  /\ UNCHANGED <<rollout, checkpoint, counted, approved>>

\* canary-live or the API asks for a collection whatever the rollout says.
Ask(p, trigger, s) == proc[p].at = "idle" /\ Begin(p, trigger, s)

\* claimNextEligibleJob: with approved sources the worker takes any job of theirs
\* that waits or was left behind, one that was asked for or a wider one as well;
\* the wider scope has a job of its own.
Eligible(trigger) == IF trigger = "worker" THEN {"worker", "wider", "manual"} ELSE {trigger}

\* The worker's own cycle, after the policy let it pass.
Collect(p) ==
  /\ proc[p].at = "begin"
  /\ \E trigger \in Eligible(proc[p].trigger) : Begin(p, trigger, proc[p].scope)

\* finishRun after a scrape.  A request budget leaves the sweep pending; records
\* the publisher sent but the parser refused make a complete run unclean.
FinishRun(p) == \E status \in {"complete", "partial"}, clean \in BOOLEAN :
  /\ proc[p].at = "scrape"
  /\ clean => status = "complete"
  /\ runs' = [runs EXCEPT ![proc[p].run].status = status,
                          ![proc[p].run].covered = proc[p].scope,
                          ![proc[p].run].clean = clean]
  /\ proc' = [proc EXCEPT ![p].at = "save", ![p].pending = (status = "partial"),
                          ![p].sound = (status = "complete" /\ proc[p].trigger = "canary")]
  /\ UNCHANGED <<rollout, checkpoint, counted, approved>>

\* The catch of the scheduler: the run failed, the checkpoint stays.
FailRun(p) ==
  /\ proc[p].at = "scrape"
  /\ runs' = [runs EXCEPT ![proc[p].run].status = "failed",
                          ![proc[p].run].covered = NoScope, ![proc[p].run].clean = FALSE]
  /\ IF proc[p].trigger = "canary" THEN Go(p, "verify") ELSE Leave(p)
  /\ UNCHANGED <<rollout, checkpoint, counted, approved>>

SaveCheckpoint(p) ==
  /\ proc[p].at = "save"
  /\ checkpoint' = [scope   |-> proc[p].scope,
                    pending |-> proc[p].pending,
                    from    |-> IF proc[p].pending THEN proc[p].from \cup {proc[p].scope} ELSE {}]
  /\ IF proc[p].trigger = "canary" THEN Go(p, "verify") ELSE Leave(p)
  /\ UNCHANGED <<runs, rollout, counted, approved>>

\* recordCanary looks for the evidence of the run the worker calls clean (the
\* worker does not look at rejected records, the statement does) ...
Verify(p) ==
  /\ proc[p].at = "verify"
  /\ proc' = [proc EXCEPT ![p].at = "record",
                 ![p].sound = @ /\ CleanRunOf(runs[proc[p].run], proc[p].scope)]
  /\ UNCHANGED <<runs, rollout, checkpoint, counted, approved>>

\* ... and upserts the rollout row in a statement of its own.
Record(p) ==
  /\ proc[p].at = "record"
  /\ IF proc[p].sound
     THEN /\ rollout' = Recorded(proc[p].scope, proc[p].run)
          /\ counted' = {proc[p].run} \cup IF rollout.scope = proc[p].scope THEN counted ELSE {}
     ELSE /\ rollout' = RecordedUnclean
          /\ UNCHANGED counted
  /\ Leave(p)
  /\ UNCHANGED <<runs, checkpoint, approved>>

\* A process dies, or its lease is lost and it leaves the cycle.
Die(p) ==
  /\ proc[p].at # "idle"
  /\ Leave(p)
  /\ UNCHANGED <<runs, rollout, checkpoint, counted, approved>>

\* failAbandonedRuns: a running row no process works on (its job is not live).
SweepRun(r) ==
  /\ runs[r].status = "running"
  /\ \A p \in Proc : proc[p].run # r
  /\ runs' = [runs EXCEPT ![r].status = "failed"]
  /\ UNCHANGED <<rollout, checkpoint, proc, counted, approved>>

Next ==
  \/ Promote
  \/ \E r \in Run : SweepRun(r)
  \/ \E p \in Proc :
       \/ \E s \in Scope : Ask(p, "canary", s) \/ Ask(p, "manual", s) \/ Iterate(p, s)
       \/ CheckPolicy(p) \/ CheckWider(p) \/ Collect(p) \/ FinishRun(p) \/ FailRun(p)
       \/ SaveCheckpoint(p) \/ Verify(p) \/ Record(p) \/ Die(p)

Spec == Init /\ [][Next]_vars

-----------------------------------------------------------------------------
(* What a rollout promises.                                                  *)

\* Two distinct clean runs of the very scope that is approved stand behind an
\* approval, each recorded by a canary of its own since the scope was last
\* changed (store.js:20 and :80); runs of other scopes, retries of one run and
\* runs that only declared the scope do not count.
ApprovalEarned ==
  Approved => /\ Cardinality(counted) >= 2
              /\ \A r \in counted : /\ runs[r].trigger = "canary"
                                    /\ runs[r].status = "complete"
                                    /\ runs[r].covered = rollout.scope

\* An approval lasts: an unclean canary, a failed or retried run, a sweep or a
\* crash never withdraws it; a clean canary of another scope does, at once
\* (store.js:95).
ApprovalKept == [][Approved => (Approved' <=> rollout'.scope = rollout.scope)]_vars

\* What the worker collects on its own was promoted by an operator, in that scope
\* or in a narrower one, although rollout, checkpoint and scopes are read one
\* after the other while canaries go on (discovery-worker.js:46 and :57).
UnattendedScopeApproved ==
  \A r \in Run : runs[r].status # "absent" =>
    /\ runs[r].trigger = "worker" => runs[r].scope \in approved
    /\ runs[r].trigger = "wider"  => \E s \in approved : s \subseteq runs[r].scope

\* The cursor of a pending sweep was advanced by runs of its own scope only
\* (scheduler.js:302): no sweep is pieced together from two geographies.
SweepOfOneScope == checkpoint.from \subseteq {checkpoint.scope}
=============================================================================
