--------------------------- MODULE HuntBaselines ---------------------------
(***************************************************************************)
(* A saved hunt in PostgreSQL: its criteria, which have versions, the      *)
(* baseline of the records it has seen, and the events by which changes    *)
(* are told (discovery/hunt-store.js, intelligence/hunts.js).  A hunt is   *)
(* evaluated by collection jobs (finalize of collection-coordinator.js)    *)
(* and on request (routes/hunts.js), all at once: each reads the hunt, its *)
(* baseline and listings at different times, compares in memory, and saves *)
(* rows and events in one transaction that locks the hunt.                 *)
(*                                                                         *)
(* An observation of a record is its number; published[k][n] is what the   *)
(* n-th one says of the fields the hunt compares.  Verdict[v][x] is the    *)
(* status that version v of the criteria gives to x.                       *)
(***************************************************************************)
EXTENDS Naturals, Sequences

CONSTANTS
  Record,   \* publisher records (identity keys)
  Value,    \* material snapshots of a record
  Nothing,  \* what is known of a record that does not match
  Verdict,  \* status by version and value
  Job,      \* evaluations by a collection job
  Request,  \* evaluations on request
  MaxObs    \* bound: observations of each record

Status == {"match", "no_match", "unknown"}

ASSUME NothingAssumption == Nothing \notin Value
ASSUME KindAssumption    == Job \cap Request = {}
ASSUME ObsAssumption     == MaxObs \in [Record -> Nat]
ASSUME VerdictAssumption == /\ 1 \in DOMAIN Verdict /\ DOMAIN Verdict \subseteq Nat \ {0}
                            /\ \A v \in DOMAIN Verdict, x \in Value : Verdict[v][x] \in Status

VARIABLES
  published, \* the observations of each record
  version,   \* of the hunt's criteria
  baseline,  \* discovery_hunt_baselines: the row of each record
  events,    \* discovery_hunt_events
  eval,      \* the evaluations at work
  known,     \* history: what the events, after a silent start, say of a record
  raced,     \* history: records saved although their row had changed since it was read
  leftover,  \* history: rows of older criteria were left beside newer ones
  repeated   \* history: an evaluation found an event that was recorded before

histories == <<known, raced, leftover, repeated>>
vars == <<published, version, baseline, events, eval, histories>>

-----------------------------------------------------------------------------
Version == DOMAIN Verdict
Row(k)  == [version : Version \cup {0}, at : 0 .. MaxObs[k], status : Status]
Type    == {"new_match", "material_change", "no_longer_matches", "evaluation_unknown"}
Event   == UNION {[record : {k}, version : Version, type : Type, at : 1 .. MaxObs[k]] : k \in Record}
Eval    == Job \cup Request

NoRow == [version |-> 0, at |-> 0, status |-> "unknown"]
Blank == [k \in Record |-> NoRow]
Has(row) == row.at > 0

Idle == [at |-> "idle", version |-> 1, rows |-> Blank, comparable |-> FALSE,
         seen |-> [k \in Record |-> 0]]

TypeOK ==
  /\ \A k \in Record : Len(published[k]) <= MaxObs[k] /\ published[k] \in Seq(Value)
  /\ version \in Version
  /\ \A k \in Record : baseline[k] \in Row(k) /\ (Has(baseline[k]) <=> baseline[k].version \in Version)
  /\ events \subseteq Event
  /\ \A c \in Eval :
       /\ eval[c].at \in {"idle", "collected", "baseline", "save"}
       /\ eval[c].version \in Version
       /\ \A k \in Record : eval[c].rows[k] \in Row(k) /\ eval[c].seen[k] \in 0 .. MaxObs[k]
  /\ known \in [Record -> Value \cup {Nothing}]
  /\ raced \subseteq Record
  /\ leftover \in BOOLEAN /\ repeated \in BOOLEAN

Init ==
  /\ published = [k \in Record |-> <<>>]
  /\ version = 1
  /\ baseline = Blank
  /\ events = {}
  /\ eval = [c \in Eval |-> Idle]
  /\ known = [k \in Record |-> Nothing]
  /\ raced = {} /\ leftover = FALSE /\ repeated = FALSE

-----------------------------------------------------------------------------
(* Publishers and members.                                                   *)

Publish(k, x) ==
  /\ Len(published[k]) < MaxObs[k]
  /\ published' = [published EXCEPT ![k] = Append(@, x)]
  /\ UNCHANGED <<version, baseline, events, eval, histories>>

\* PATCH with other criteria: the version is bumped, the rows stay.
EditCriteria ==
  /\ version + 1 \in Version
  /\ version' = version + 1
  /\ known' = [k \in Record |-> Nothing]
  /\ raced' = {} /\ leftover' = FALSE /\ repeated' = FALSE
  /\ UNCHANGED <<published, baseline, events, eval>>

-----------------------------------------------------------------------------
(* An evaluation.  A definition Name_Suffix is Name with a plausible mistake.*)

Working(c, next) == eval' = [eval EXCEPT ![c] = next]
Reads == UNCHANGED <<published, version, baseline, events, histories>>

\* A job has its listings before it looks at the hunts; a request reads them
\* last.  Either sees any part of what is published, as it is then.
Collect(c) ==
  /\ eval[c].at = IF c \in Job THEN "idle" ELSE "baseline"
  /\ \E part \in SUBSET Record :
       Working(c, [eval[c] EXCEPT !.at = IF c \in Job THEN "collected" ELSE "save",
         !.seen = [k \in Record |-> IF k \in part THEN Len(published[k]) ELSE 0]])
  /\ Reads

\* The version of a baseline is that of its first row, and the query has no
\* ORDER BY; with another version than the hunt's it is not compared with.
Comparable_Always == {TRUE}
Comparable == {baseline[k].version = version : k \in {j \in Record : Has(baseline[j])}}

\* The hunt and its baseline are read one after the other; an edit in between makes
\* Save refuse, so they are one step.
ReadBaseline(c) ==
  /\ eval[c].at = IF c \in Job THEN "collected" ELSE "idle"
  /\ \E like \in IF baseline = Blank THEN {FALSE} ELSE Comparable :
       Working(c, [eval[c] EXCEPT !.at = IF c \in Job THEN "save" ELSE "baseline",
                                  !.version = version, !.rows = baseline, !.comparable = like])
  /\ Reads

\* The record an observation is compared with, the row an evaluation makes of it,
\* and whether that replaces the row it had.
Previous(c, k) == IF eval[c].comparable THEN eval[c].rows[k] ELSE NoRow
Current(c, k) ==
  LET n == eval[c].seen[k]
  IN  [version |-> eval[c].version, at |-> n, status |-> Verdict[eval[c].version][published[k][n]]]
Fresh(c) == {k \in Record : eval[c].seen[k] > Previous(c, k).at}

\* The event of a change from row p to row q of record k, if any.
TypeOf_Known(p, q, moved) ==
  CASE Has(p) /\ p.status # "match" /\ q.status = "match" -> {"new_match"}
    [] Has(p) /\ p.status = "match" /\ q.status = "no_match" -> {"no_longer_matches"}
    [] Has(p) /\ p.status # "unknown" /\ q.status = "unknown" -> {"evaluation_unknown"}
    [] Has(p) /\ p.status = "match" /\ q.status = "match" /\ moved -> {"material_change"}
    [] OTHER -> {}
TypeOf(p, q, moved) ==
  CASE (~Has(p) \/ p.status # "match") /\ q.status = "match" -> {"new_match"}
    [] Has(p) /\ p.status = "match" /\ q.status = "no_match" -> {"no_longer_matches"}
    [] Has(p) /\ p.status # "unknown" /\ q.status = "unknown" -> {"evaluation_unknown"}
    [] Has(p) /\ p.status = "match" /\ q.status = "match" /\ moved -> {"material_change"}
    [] OTHER -> {}

Moved(k, p, q) == Has(p) /\ published[k][p.at] # published[k][q.at]

\* Listings are compared page by page.  The first page starts a baseline where
\* there is none to compare with, silently, and every later page is compared with
\* what the pages before it made: silent too only if the hunt had no row at all.
Silent(c, first) == IF eval[c].rows = Blank THEN Record
                    ELSE IF eval[c].comparable THEN {} ELSE first

News(c, first) ==
  UNION {{[record |-> k, version |-> eval[c].version, type |-> t, at |-> eval[c].seen[k]] :
            t \in TypeOf(Previous(c, k), Current(c, k), Moved(k, Previous(c, k), Current(c, k)))} :
         k \in Fresh(c) \ Silent(c, first)}

\* The rows of an evaluation: what it compared with, and what is newer.  All of
\* them are saved under the version of the hunt.
Rows_FirstKept(c) == [k \in Record |-> IF k \in Fresh(c) /\ ~Has(Previous(c, k)) THEN Current(c, k)
                                       ELSE [Previous(c, k) EXCEPT !.version = eval[c].version]]
Rows(c) == [k \in Record |-> IF k \in Fresh(c) THEN Current(c, k)
                             ELSE [Previous(c, k) EXCEPT !.version = eval[c].version]]

\* ON CONFLICT DO UPDATE ... WHERE observed_at <= EXCLUDED.observed_at
Replaces_Always(new, old) == Has(new)
Replaces(new, old) == Has(new) /\ old.at <= new.at

Saved(c) == [k \in Record |-> IF Replaces(Rows(c)[k], baseline[k]) THEN Rows(c)[k] ELSE baseline[k]]

\* A record is known by its events, or by the row that started its baseline, if
\* it was saved silently.
Learnt(c, first) == [k \in Record |->
  LET fresh == {e \in News(c, first) \ events : e.record = k}
      row   == Saved(c)[k]
      says  == IF row.status = "match" THEN published[k][row.at] ELSE Nothing
  IN  IF \E e \in fresh : e.type \in {"new_match", "material_change"}
        THEN published[k][eval[c].seen[k]]
      ELSE IF fresh # {} THEN Nothing
      ELSE IF k \in Fresh(c) \cap Silent(c, first) /\ baseline[k].version # row.version THEN says
      ELSE known[k]]

\* SELECT version ... FOR UPDATE: HUNT_VERSION_CONFLICT when it has changed.
VersionMoved(c) == eval[c].version # version

Save(c) ==
  /\ eval[c].at = "save"
  /\ ~VersionMoved(c)
  /\ \E first \in SUBSET {k \in Record : eval[c].seen[k] > 0} :
       /\ first = {} => \A k \in Record : eval[c].seen[k] = 0
       /\ baseline' = Saved(c)
       /\ events' = events \cup News(c, first)
       /\ repeated' = (repeated \/ News(c, first) \cap events # {})
       /\ known' = Learnt(c, first)
       /\ raced' = raced \cup {k \in Fresh(c) : baseline[k] # eval[c].rows[k]}
       /\ leftover' = (leftover \/ \E k \in Record : Has(Saved(c)[k]) /\ Saved(c)[k].version # version)
  /\ Working(c, Idle)
  /\ UNCHANGED <<published, version>>

\* The job's claim is lost, the version has moved, a call fails, the process dies.
GiveUp(c) == eval[c].at # "idle" /\ Working(c, Idle) /\ Reads

Evaluate(c) == Collect(c) \/ ReadBaseline(c) \/ Save(c) \/ GiveUp(c)

Next ==
  \/ \E k \in Record, x \in Value : Publish(k, x)
  \/ EditCriteria
  \/ \E c \in Eval : Evaluate(c)

Spec == Init /\ [][Next]_vars

-----------------------------------------------------------------------------
(* What a hunt promises.                                                     *)

\* docs/hunts-workflow.md:95: "An older or equal observation cannot overwrite a
\* newer baseline record", whichever evaluation saves last.
BaselineForward == [][\A k \in Record : baseline'[k].at >= baseline[k].at]_baseline

\* A row of the current criteria holds their verdict, so the next comparison is
\* with the same criteria, unless older rows were left beside it.
RowOfItsCriteria == ~leftover => \A k \in Record :
  LET row == baseline[k] IN
  Has(row) /\ row.version = version => row.status = Verdict[version][published[k][row.at]]

Agrees(k) ==
  LET row == baseline[k] IN
  known[k] = IF Has(row) /\ row.version = version /\ row.status = "match"
             THEN published[k][row.at] ELSE Nothing

\* docs/hunts-workflow.md:99-104: from the silent start on every change between
\* what the baseline held and what it holds is told by an event, and the events
\* add up to the baseline.  Two evaluations that overlap on a record, and rows
\* left of older criteria, are all that can part them.
ChangesTold == ~leftover => \A k \in Record \ raced : Agrees(k)

\* docs/hunts-workflow.md:106, "retrying the same observation does not duplicate
\* an event": webhook and mail are sent what an evaluation found, recorded before
\* or not, so it must not find an event twice, with the same two exceptions.
ToldOnce == repeated => leftover \/ raced # {}

\* docs/hunts-workflow.md:110: "Changing normalized criteria creates a new
\* immutable criteria version and clears the old comparison baseline. The next run
\* establishes a fresh baseline": changes are told again after it.
ToldAfterEdit == \A k \in Record \ raced : Agrees(k)
=============================================================================
