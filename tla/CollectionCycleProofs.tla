----------------------- MODULE CollectionCycleProofs -----------------------
(***************************************************************************)
(* Proofs about CollectionCycle for any jobs, attempts, processes and      *)
(* sources, and feeds, budgets and concurrency of any size.                *)
(***************************************************************************)
EXTENDS CollectionCycle, FiniteSetTheorems, TLAPS

\* No sweep is continued that was not started.
SweepsStarted ==
  /\ \A s \in Source : ckpt[s].sweep <= sweeps
  /\ \A p \in Process, s \in Source : collector[p][s].sweep <= sweeps
  /\ \A a \in Attempt, s \in Source : work[a][s].sweep <= sweeps

\* An attempt has a job from its claim to its end, and nothing in hand before its
\* cycle; a process runs one cycle; a job was granted finitely often.
AttemptsInOrder ==
  /\ \A a \in Attempt : pc[a] = "new" => tgt[a] = None
  /\ \A a \in Attempt : pc[a] \in {"claimed", "cycle", "settling"} => tgt[a] \in Job
  /\ \A a \in Attempt : pc[a] \in {"new", "claimed"} => work[a] = Untouched
  /\ \A a, b \in Attempt : pc[a] = "cycle" /\ pc[b] = "cycle" /\ ProcessOf[a] = ProcessOf[b] => a = b
  /\ \A j \in Job : IsFiniteSet({a \in Attempt : tgt[a] = j})

\* The first n records have been dealt with since sweep w began.
Covered(s, n, w) == \A r \in 1 .. n : stored[s][r] >= w

\* What a cursor, durable or set on a collector, lets a run skip.  A one-pass
\* collector skips nothing.
CursorsCovered ==
  /\ \A s \in Source : /\ Covered(s, ckpt[s].next, ckpt[s].sweep)
                       /\ ckpt[s].sweep = 0 => ckpt[s].next = 0
  /\ \A p \in Process, s \in Source :
       /\ Covered(s, collector[p][s].next, collector[p][s].sweep)
       /\ collector[p][s].sweep = 0 => collector[p][s].next = 0
       /\ s \notin Resumable => collector[p][s].next = 0

\* Up to the end of the report c, and everywhere when it missed nothing, a record
\* of the feed has been dealt with or is still to be written.
Reported(s, c, todo) ==
  /\ \A r \in 1 .. c.end : r \in todo \/ stored[s][r] >= c.sweep
  /\ ~c.missed => \A r \in Record : r \in todo \/ stored[s][r] >= c.sweep

ReportsCovered ==
  \A a \in Attempt, s \in Source :
    pc[a] = "cycle" /\ work[a][s].at \in {"writing", "saving"} =>
      /\ collector[ProcessOf[a]][s].sweep # 0
      /\ work[a][s].at = "writing" => work[a][s].sweep = collector[ProcessOf[a]][s].sweep
      /\ work[a][s].at = "saving" => work[a][s].todo = {}
      /\ Reported(s, collector[ProcessOf[a]][s], work[a][s].todo)

\* While an attempt is the holder its outcomes stand as it recorded them.
OutcomesStand ==
  /\ \A j \in Job : \A s \in Source \ Scope[j] : run[j][s].status = "none"
  /\ \A a \in Attempt :
       pc[a] \in {"cycle", "settling"} /\ holder[tgt[a]] = a =>
         \A s \in Scope[tgt[a]] :
           work[a][s].at \in {"saving", "ok"} => run[tgt[a]][s].status \in {"complete", "partial"}
  /\ \A a \in Attempt :
       pc[a] = "settling" =>
         \/ work[a] = Untouched
         \/ \A s \in Scope[tgt[a]] : work[a][s].at \in {"ok", "failed"}

IndInv == /\ TypeOK
          /\ SweepsStarted
          /\ AttemptsInOrder
          /\ CursorsCovered
          /\ ReportsCovered
          /\ FullSweepHonest
          /\ OutcomesStand
          /\ CompletedRunsSettled

-----------------------------------------------------------------------------
\* The past, and nothing else.
LEMMA InitInv == Init => IndInv
<1>. SUFFICES ASSUME Init PROVE IndInv
  OBVIOUS
<1>1. /\ status = [j \in Job |-> "absent"] /\ holder = [j \in Job |-> None] /\ live = [j \in Job |-> FALSE]
      /\ run = [j \in Job |-> [s \in Source |-> NoRun]] /\ sweeps = 1
      /\ collector = [p \in Process |-> [s \in Source |-> Unused]]
      /\ pc = [a \in Attempt |-> "new"] /\ tgt = [a \in Attempt |-> None]
      /\ work = [a \in Attempt |-> Untouched]
  BY DEF Init
<1>2. NoRun \in RunRow /\ NoRun.status = "none"
  BY DEF NoRun, RunRow
<1>3. Start \in Cursor /\ Start.next = 0 /\ Start.sweep = 0
  BY FeedAssumption DEF Start, Cursor
<1>4. Unused \in Collector /\ Unused.next = 0 /\ Unused.sweep = 0
  BY FeedAssumption DEF Unused, Collector
<1>5. Untouched \in [Source -> Work] /\ \A s \in Source : Untouched[s].at = "waiting" /\ Untouched[s].sweep = 0
  <2>1. Waiting \in Work /\ Waiting.at = "waiting" /\ Waiting.sweep = 0
    BY DEF Waiting, Work
  <2>. QED
    BY <2>1 DEF Untouched
<1>6. PICK done \in [Resumable -> 0 .. Records - 1] :
        LET past(s) == IF s \in Resumable THEN done[s] ELSE 0 IN
        /\ ckpt = [s \in Source |-> IF past(s) = 0 THEN Start ELSE [next |-> past(s), sweep |-> 1]]
        /\ stored = [s \in Source |-> [r \in Record |-> IF r <= past(s) THEN 1 ELSE 0]]
  BY DEF Init
<1>. DEFINE past(s) == IF s \in Resumable THEN done[s] ELSE 0
<1>7. \A s \in Source : past(s) \in 0 .. Records /\ past(s) \in Int
  BY FeedAssumption
<1>. HIDE DEF past
<1>8. /\ \A s \in Source : ckpt[s] \in Cursor
      /\ \A s \in Source : ckpt[s].next = past(s)
      /\ \A s \in Source : ckpt[s].sweep \in 0 .. 1
      /\ \A s \in Source : ckpt[s].sweep = 0 => ckpt[s].next = 0
  <2>1. \A s \in Source : ckpt[s] = IF past(s) = 0 THEN Start ELSE [next |-> past(s), sweep |-> 1]
    BY <1>6 DEF past
  <2>2. ASSUME NEW s \in Source
        PROVE  /\ ckpt[s] \in Cursor /\ ckpt[s].next = past(s) /\ ckpt[s].sweep \in 0 .. 1
               /\ ckpt[s].sweep = 0 => ckpt[s].next = 0
    <3>1. CASE past(s) = 0
      <4>1. ckpt[s] = Start
        BY <2>1, <3>1
      <4>. QED
        BY <1>3, <3>1, <4>1
    <3>2. CASE past(s) # 0
      <4>1. ckpt[s] = [next |-> past(s), sweep |-> 1]
        BY <2>1, <3>2
      <4>. QED
        BY <1>7, <4>1 DEF Cursor
    <3>. QED
      BY <3>1, <3>2
  <2>. QED
    BY <2>2
<1>9. /\ stored \in [Source -> [Record -> 0 .. 1]]
      /\ \A s \in Source, r \in Record : r <= past(s) => stored[s][r] = 1
  <2>1. stored = [s \in Source |-> [r \in Record |-> IF r <= past(s) THEN 1 ELSE 0]]
    BY <1>6 DEF past
  <2>2. \A s \in Source, r \in Record : (IF r <= past(s) THEN 1 ELSE 0) \in 0 .. 1
    OBVIOUS
  <2>. QED
    BY <2>1, <2>2
<1>10. TypeOK
  <2>1. ckpt \in [Source -> Cursor]
    <3>1. ckpt = [s \in Source |-> IF past(s) = 0 THEN Start ELSE [next |-> past(s), sweep |-> 1]]
      BY <1>6 DEF past
    <3>2. ckpt = [s \in Source |-> ckpt[s]]
      BY <3>1
    <3>. QED
      BY <1>8, <3>2
  <2>2. run \in [Job -> [Source -> RunRow]] /\ collector \in [Process -> [Source -> Collector]]
        /\ work \in [Attempt -> [Source -> Work]]
    BY <1>1, <1>2, <1>4, <1>5
  <2>3. stored \in [Source -> [Record -> Sweep]] /\ sweeps \in Nat
    BY <1>1, <1>9 DEF Sweep
  <2>4. /\ status \in [Job -> {"absent", "queued", "running"} \cup Ended]
        /\ holder \in [Job -> Attempt \cup {None}] /\ live \in [Job -> BOOLEAN]
        /\ pc \in [Attempt -> Control] /\ tgt \in [Attempt -> Job \cup {None}]
    BY <1>1 DEF Control
  <2>. QED
    BY <2>1, <2>2, <2>3, <2>4 DEF TypeOK
<1>11. SweepsStarted
  BY <1>1, <1>4, <1>5, <1>8 DEF SweepsStarted
<1>12. AttemptsInOrder
  <2>1. \A j \in Job : {a \in Attempt : tgt[a] = j} = {}
    BY <1>1, NoneAssumption
  <2>. QED
    BY <1>1, <2>1, FS_EmptySet DEF AttemptsInOrder
<1>13. CursorsCovered
  <2>1. ASSUME NEW s \in Source PROVE Covered(s, ckpt[s].next, ckpt[s].sweep)
    <3>1. \A r \in 1 .. ckpt[s].next : r \in Record /\ r <= past(s)
      <4>1. ckpt[s].next = past(s) /\ past(s) \in 0 .. Records
        BY <1>7, <1>8
      <4>. QED
        BY <4>1, FeedAssumption DEF Record
    <3>2. ckpt[s].sweep \in 0 .. 1
      BY <1>8
    <3>3. \A r \in 1 .. ckpt[s].next : stored[s][r] = 1
      BY <1>9, <3>1
    <3>. QED
      BY <3>2, <3>3 DEF Covered
  <2>2. \A p \in Process, s \in Source : Covered(s, collector[p][s].next, collector[p][s].sweep)
    BY <1>1, <1>4 DEF Covered
  <2>3. \A s \in Source : ckpt[s].sweep = 0 => ckpt[s].next = 0
    BY <1>8
  <2>4. \A p \in Process, s \in Source : collector[p][s].next = 0
    BY <1>1, <1>4
  <2>. QED
    BY <2>1, <2>2, <2>3, <2>4 DEF CursorsCovered
<1>14. ReportsCovered /\ FullSweepHonest /\ CompletedRunsSettled
  BY <1>1, <1>2 DEF ReportsCovered, FullSweepHonest, CompletedRunsSettled
<1>15. OutcomesStand
  <2>1. \A j \in Job, s \in Source : run[j][s].status = "none"
    BY <1>1, <1>2
  <2>2. \A a \in Attempt : pc[a] = "new"
    BY <1>1
  <2>. QED
    BY <2>1, <2>2 DEF OutcomesStand
<1>. QED
  BY <1>10, <1>11, <1>12, <1>13, <1>14, <1>15 DEF IndInv

-----------------------------------------------------------------------------
(* What the steps write.                                                     *)

\* One cell of a function of functions.
LEMMA Cell ==
  ASSUME NEW A, NEW B, NEW V, NEW f \in [A -> [B -> V]], NEW a \in A, NEW b \in B, NEW v \in V
  PROVE  LET g == [f EXCEPT ![a][b] = v]
         IN  g \in [A -> [B -> V]] /\ \A x \in A, y \in B : g[x][y] = IF x = a /\ y = b THEN v ELSE f[x][y]
  OBVIOUS

\* A job's scope are sources.
LEMMA ScopeType == Scope \in [Job -> SUBSET Source]
  BY ScopeAssumption DEF Scope

\* What is kept of a source has its type.
LEMMA InScope ==
  ASSUME TypeOK, NEW a \in Attempt, NEW s \in Source
  PROVE  /\ work[a][s] \in Work /\ ProcessOf[a] \in Process
         /\ collector[ProcessOf[a]][s] \in Collector /\ ckpt[s] \in Cursor
         /\ \A j \in Job : run[j][s] \in RunRow
  BY ScopeAssumption DEF TypeOK

\* Nothing in hand.
LEMMA AtRest == /\ Untouched \in [Source -> Work] /\ Waiting \in Work
                /\ \A s \in Source : Untouched[s] = Waiting
                /\ Waiting.at = "waiting" /\ Waiting.sweep = 0 /\ ~Waiting.accepted
<1>1. Waiting \in Work /\ Waiting.at = "waiting" /\ Waiting.sweep = 0 /\ ~Waiting.accepted
  BY DEF Waiting, Work
<1>. QED
  BY <1>1 DEF Untouched

\* The source moves on; what it has in hand stays.
LEMMA WorkAt ==
  ASSUME NEW x \in Work, NEW v \in {"waiting"} \cup InFlight \cup Finished
  PROVE  LET y == [x EXCEPT !.at = v]
         IN  /\ y \in Work /\ y.at = v /\ y.todo = x.todo /\ y.sweep = x.sweep
             /\ y.accepted = x.accepted /\ y.cut = x.cut
  BY DEF Work

\* The work of one source becomes x.
Becomes(a, s, x) == work' = [work EXCEPT ![a][s] = x]

\* It does, and no other work changes.
LEMMA BecomesCell ==
  ASSUME TypeOK, NEW a \in Attempt, NEW s \in Source, NEW x \in Work, Becomes(a, s, x)
  PROVE  /\ work' \in [Attempt -> [Source -> Work]]
         /\ work'[a][s] = x
         /\ \A b \in Attempt, t \in Source : b # a \/ t # s => work'[b][t] = work[b][t]
         /\ \A b \in Attempt : b # a => work'[b] = work[b]
<1>1. work \in [Attempt -> [Source -> Work]]
  BY DEF TypeOK
<1>. QED
  BY <1>1, Cell DEF Becomes

\* A lost lease leaves only the mark that it was lost.
Lost(a, s) == /\ Becomes(a, s, [work[a][s] EXCEPT !.at = "lost"])
              /\ UNCHANGED <<jobVars, durable, sweeps, collector, attemptVars>>

\* A step of one source of an attempt, or the loss of its lease.
Acts(a, s, points) == /\ pc[a] = "cycle" /\ s \in Scope[tgt[a]]
                      /\ work[a][s].at \in points

\* The collector of the process is set from the checkpoint.
LEMMA StartEffect ==
  ASSUME TypeOK, NEW a \in Attempt, NEW s \in Source, StartSource(a, s)
  PROVE  /\ Acts(a, s, {"waiting"})
         /\ \/ Lost(a, s)
            \/ \E c2 \in Collector :
                 /\ Becomes(a, s, [work[a][s] EXCEPT !.at = "ready"])
                 /\ collector' = [collector EXCEPT ![ProcessOf[a]][s] = c2]
                 /\ \/ c2.next = collector[ProcessOf[a]][s].next /\ c2.sweep = collector[ProcessOf[a]][s].sweep
                    \/ s \in Resumable /\ c2.next = ckpt[s].next /\ c2.sweep = ckpt[s].sweep
                 /\ UNCHANGED <<jobVars, durable, sweeps, attemptVars>>
<1>. DEFINE p == ProcessOf[a]
            c == collector[p][s]
            c2 == [c EXCEPT !.next = ckpt[s].next, !.sweep = ckpt[s].sweep]
<1>1. p \in Process /\ c \in Collector /\ ckpt[s] \in Cursor /\ collector \in [Process -> [Source -> Collector]]
  BY InScope DEF TypeOK
<1>2. c2 \in Collector /\ c2.next = ckpt[s].next /\ c2.sweep = ckpt[s].sweep
  BY <1>1 DEF Collector, Cursor
<1>3. /\ pc[a] = "cycle" /\ s \in Scope[tgt[a]] /\ work[a][s].at = "waiting"
      /\ UNCHANGED <<jobVars, durable, sweeps, attemptVars>>
  BY DEF StartSource, At
<1>4. \/ Becomes(a, s, [work[a][s] EXCEPT !.at = "lost"]) /\ UNCHANGED collector
      \/ /\ Becomes(a, s, [work[a][s] EXCEPT !.at = "ready"])
         /\ \/ s \in Resumable /\ collector' = [collector EXCEPT ![p][s] = c2]
            \/ collector' = collector
  BY DEF StartSource, Lose, Becomes
<1>. HIDE DEF c2
<1>5. collector' = collector => collector' = [collector EXCEPT ![p][s] = c]
  BY <1>1
<1>. QED
  BY <1>1, <1>2, <1>3, <1>4, <1>5 DEF Acts, Lost

\* The row of an earlier attempt, or a new one.
LEMMA BeginEffect ==
  ASSUME TypeOK, NEW a \in Attempt, NEW s \in Source, tgt[a] \in Job, BeginRun(a, s)
  PROVE  /\ Acts(a, s, {"ready"})
         /\ \/ Lost(a, s)
            \/ /\ Becomes(a, s, [work[a][s] EXCEPT !.at = "begun"])
               /\ Holds(a)
               /\ \/ run' = run
                  \/ \E row \in RunRow : row.status = "running" /\ run[tgt[a]][s].status = "none"
                                      /\ run' = [run EXCEPT ![tgt[a]][s] = row]
               /\ UNCHANGED <<jobVars, ckpt, stored, sweeps, collector, attemptVars>>
<1>. DEFINE row == [run[tgt[a]][s] EXCEPT !.status = "running"]
<1>1. row \in RunRow /\ row.status = "running"
  BY InScope DEF RunRow
<1>2. /\ pc[a] = "cycle" /\ s \in Scope[tgt[a]] /\ work[a][s].at = "ready"
      /\ UNCHANGED <<jobVars, ckpt, stored, sweeps, collector, attemptVars>>
  BY DEF BeginRun, At
<1>3. \/ Becomes(a, s, [work[a][s] EXCEPT !.at = "lost"]) /\ UNCHANGED run
      \/ /\ Becomes(a, s, [work[a][s] EXCEPT !.at = "begun"])
         /\ Holds(a)
         /\ \/ run' = run
            \/ run[tgt[a]][s].status = "none" /\ run' = [run EXCEPT ![tgt[a]][s].status = "running"]
  BY DEF BeginRun, Lose, Becomes
<1>4. run' = [run EXCEPT ![tgt[a]][s].status = "running"] => run' = [run EXCEPT ![tgt[a]][s] = row]
  BY DEF TypeOK
<1>. HIDE DEF row
<1>. QED
  BY <1>1, <1>2, <1>3, <1>4 DEF Acts, Lost, durable

\* The feed: what a report says was reached is in hand, or was skipped.
LEMMA ScrapeEffect ==
  ASSUME TypeOK, NEW a \in Attempt, NEW s \in Source, Scrape(a, s)
  PROVE  /\ Acts(a, s, {"begun"})
         /\ \E x \in Work, c2 \in Collector :
              LET c == collector[ProcessOf[a]][s] IN
              /\ Becomes(a, s, x)
              /\ x.at = "writing" /\ x.sweep = c2.sweep
              /\ collector' = [collector EXCEPT ![ProcessOf[a]][s] = c2]
              /\ c2.next = c.next
              /\ \/ sweeps' = sweeps /\ c2.sweep = c.sweep /\ c.sweep # 0
                 \/ /\ sweeps' = sweeps + 1 /\ c2.sweep = sweeps + 1
                    /\ s \in Resumable => c.sweep = 0
              /\ s \in Resumable =>
                   /\ \A r \in 1 .. c2.end : r \in 1 .. c.next \/ r \in x.todo
                   /\ ~c2.missed => \A r \in Record : r \in 1 .. c.next \/ r \in x.todo
              /\ s \notin Resumable => c2.end = 0 /\ (~c2.missed => Record \subseteq x.todo)
              /\ UNCHANGED <<jobVars, durable, attemptVars>>
<1>. DEFINE p == ProcessOf[a]
            c == collector[p][s]
            continued == s \in Resumable /\ c.sweep # 0
            sweep == IF continued THEN c.sweep ELSE sweeps + 1
<1>1. p \in Process /\ c \in Collector /\ c.next \in 0 .. Records /\ c.sweep \in Nat /\ sweeps \in Nat
  BY InScope DEF TypeOK, Collector
<1>2. PICK feed \in (IF s \in Resumable THEN PagesFrom(c) ELSE OnePass) :
          /\ collector' = [collector EXCEPT ![p][s] =
               [next |-> c.next, sweep |-> sweep, end |-> feed.end,
                cut |-> feed.cut, missed |-> feed.missed]]
          /\ work' = [work EXCEPT ![a][s] =
               [at |-> "writing", todo |-> feed.got, sweep |-> sweep,
                accepted |-> FALSE, cut |-> FALSE]]
  BY DEF Scrape
<1>3. /\ pc[a] = "cycle" /\ s \in Scope[tgt[a]] /\ work[a][s].at = "begun"
      /\ UNCHANGED <<jobVars, durable, attemptVars>>
      /\ sweeps' = IF continued THEN sweeps ELSE sweeps + 1
  BY DEF Scrape, At
<1>4. /\ sweep \in Nat
      /\ \/ sweeps' = sweeps /\ sweep = c.sweep /\ c.sweep # 0
         \/ /\ sweeps' = sweeps + 1 /\ sweep = sweeps + 1
            /\ s \in Resumable => c.sweep = 0
  BY <1>1, <1>3
<1>5. /\ feed.got \subseteq Record /\ feed.end \in 0 .. Records /\ feed.cut \in BOOLEAN /\ feed.missed \in BOOLEAN
      /\ s \in Resumable =>
           /\ \A r \in 1 .. feed.end : r \in 1 .. c.next \/ r \in feed.got
           /\ ~feed.missed => \A r \in Record : r \in 1 .. c.next \/ r \in feed.got
      /\ s \notin Resumable => feed.end = 0 /\ (~feed.missed => Record \subseteq feed.got)
  <2>1. CASE s \notin Resumable
    <3>1. PICK R \in SUBSET Record : feed = [got |-> R, end |-> 0, cut |-> FALSE, missed |-> R # Record]
      BY <1>2, <2>1 DEF OnePass
    <3>2. feed.got = R /\ feed.end = 0 /\ feed.cut = FALSE /\ feed.missed = (R # Record)
      BY <3>1
    <3>3. 0 \in 0 .. Records
      BY FeedAssumption
    <3>. QED
      BY <2>1, <3>2, <3>3
  <2>2. CASE s \in Resumable
    <3>. DEFINE last == IF c.next + Budget < Records THEN c.next + Budget ELSE Records
    <3>1. last \in 0 .. Records /\ Records \in Nat
      BY <1>1, FeedAssumption
    <3>. HIDE DEF last
    <3>2. \/ feed = [got |-> (c.next + 1) .. last, end |-> IF last < Records THEN last ELSE 0,
                     cut |-> last < Records, missed |-> last < Records]
          \/ \E n \in (c.next + 1) .. last :
               feed = [got |-> (c.next + 1) .. n, end |-> 0, cut |-> TRUE, missed |-> TRUE]
      BY <1>2, <2>2 DEF PagesFrom, last
    <3>3. CASE feed = [got |-> (c.next + 1) .. last, end |-> IF last < Records THEN last ELSE 0,
                       cut |-> last < Records, missed |-> last < Records]
      <4>1. /\ feed.got = (c.next + 1) .. last /\ feed.cut = (last < Records) /\ feed.missed = (last < Records)
            /\ feed.end = IF last < Records THEN last ELSE 0
        BY <3>3
      <4>2. feed.got \subseteq Record /\ feed.end \in 0 .. Records
        BY <1>1, <3>1, <4>1 DEF Record
      <4>3. feed.cut \in BOOLEAN /\ feed.missed \in BOOLEAN
        BY <4>1
      <4>4. \A r \in 1 .. last : r \in 1 .. c.next \/ r \in feed.got
        BY <1>1, <3>1, <4>1
      <4>5. feed.end = last \/ feed.end = 0
        BY <4>1
      <4>6. ~feed.missed => last = Records
        <5>1. last < Records \/ last = Records
          BY <3>1
        <5>. QED
          BY <4>1, <5>1, Zenon
      <4>7. \A r \in 1 .. feed.end : r \in 1 .. c.next \/ r \in feed.got
        BY <4>4, <4>5
      <4>8. ~feed.missed => \A r \in Record : r \in 1 .. c.next \/ r \in feed.got
        BY <4>4, <4>6 DEF Record
      <4>. QED
        BY <2>2, <4>2, <4>3, <4>7, <4>8
    <3>4. ASSUME NEW n \in (c.next + 1) .. last,
                 feed = [got |-> (c.next + 1) .. n, end |-> 0, cut |-> TRUE, missed |-> TRUE]
          PROVE  /\ feed.got \subseteq Record /\ feed.end = 0 /\ feed.cut = TRUE /\ feed.missed = TRUE
      BY <1>1, <3>1, <3>4 DEF Record
    <3>5. 0 \in 0 .. Records /\ 1 .. 0 = {}
      BY <3>1
    <3>. QED
      BY <2>2, <3>2, <3>3, <3>4, <3>5
  <2>. QED
    BY <2>1, <2>2
<1>. DEFINE x == [at |-> "writing", todo |-> feed.got, sweep |-> sweep, accepted |-> FALSE, cut |-> FALSE]
            c2 == [next |-> c.next, sweep |-> sweep, end |-> feed.end, cut |-> feed.cut, missed |-> feed.missed]
<1>6. Becomes(a, s, x) /\ collector' = [collector EXCEPT ![p][s] = c2]
  BY <1>2 DEF Becomes
<1>. HIDE DEF sweep, continued
<1>7. x \in Work /\ x.at = "writing" /\ x.sweep = sweep /\ x.todo = feed.got
  BY <1>4, <1>5 DEF Work, InFlight
<1>8. /\ c2 \in Collector /\ c2.next = c.next /\ c2.sweep = sweep /\ c2.end = feed.end /\ c2.missed = feed.missed
  BY <1>1, <1>4, <1>5 DEF Collector
<1>. HIDE DEF x, c2
<1>9. Acts(a, s, {"begun"})
  BY <1>3 DEF Acts
<1>10. /\ s \in Resumable =>
            /\ \A r \in 1 .. c2.end : r \in 1 .. c.next \/ r \in x.todo
            /\ ~c2.missed => \A r \in Record : r \in 1 .. c.next \/ r \in x.todo
       /\ s \notin Resumable => c2.end = 0 /\ (~c2.missed => Record \subseteq x.todo)
  BY <1>5, <1>7, <1>8
<1>11. \/ sweeps' = sweeps /\ c2.sweep = c.sweep /\ c.sweep # 0
       \/ /\ sweeps' = sweeps + 1 /\ c2.sweep = sweeps + 1
          /\ s \in Resumable => c.sweep = 0
  BY <1>4, <1>8
<1>12. UNCHANGED <<jobVars, durable, attemptVars>> /\ c2.next = c.next /\ x.at = "writing" /\ x.sweep = c2.sweep
  BY <1>3, <1>7, <1>8
<1>13. x \in Work /\ c2 \in Collector
  BY <1>7, <1>8
<1>. QED
  BY <1>6, <1>9, <1>10, <1>11, <1>12, <1>13

\* One record less in hand, and stored under the sweep.
LEMMA WriteEffect ==
  ASSUME TypeOK, NEW a \in Attempt, NEW s \in Source, WriteRecord(a, s)
  PROVE  /\ Acts(a, s, {"writing"})
         /\ \/ Lost(a, s)
            \/ \E x \in Work : \E r :
                 /\ Becomes(a, s, x)
                 /\ x.at = "writing" /\ x.sweep = work[a][s].sweep /\ x.todo = work[a][s].todo \ {r}
                 /\ stored' = [stored EXCEPT ![s][r] = Newer(@, work[a][s].sweep)]
                 /\ UNCHANGED <<jobVars, run, ckpt, sweeps, collector, attemptVars>>
<1>. DEFINE w == work[a][s]
            r == Min(w.todo)
<1>1. /\ pc[a] = "cycle" /\ s \in Scope[tgt[a]] /\ w.at = "writing"
      /\ UNCHANGED <<jobVars, run, ckpt, sweeps, collector, attemptVars>>
  BY DEF WriteRecord, At
<1>. HIDE DEF r
<1>2. \/ Lose(a, s) /\ UNCHANGED stored
      \/ /\ stored' = [stored EXCEPT ![s][r] = Newer(@, w.sweep)]
         /\ \E valid \in BOOLEAN :
              work' = [work EXCEPT ![a][s] = [@ EXCEPT !.todo = w.todo \ {r}, !.accepted = w.accepted \/ valid]]
  BY DEF WriteRecord, r
<1>3. Lose(a, s) => Becomes(a, s, [w EXCEPT !.at = "lost"])
  BY DEF Lose, Becomes
<1>4. ASSUME NEW valid \in BOOLEAN,
             work' = [work EXCEPT ![a][s] = [@ EXCEPT !.todo = w.todo \ {r}, !.accepted = w.accepted \/ valid]]
      PROVE  \E x \in Work : /\ Becomes(a, s, x) /\ x.at = "writing" /\ x.sweep = w.sweep
                             /\ x.todo = w.todo \ {r}
  <2>. DEFINE y == [w EXCEPT !.todo = w.todo \ {r}]
              x == [y EXCEPT !.accepted = w.accepted \/ valid]
  <2>1. w \in Work
    BY InScope
  <2>2. y \in Work /\ y.at = w.at /\ y.sweep = w.sweep /\ y.todo = w.todo \ {r}
    BY <2>1 DEF Work
  <2>3. x = [w EXCEPT !.todo = w.todo \ {r}, !.accepted = w.accepted \/ valid]
    BY <2>1 DEF Work
  <2>4. Becomes(a, s, x)
    <3>1. work' = [work EXCEPT ![a][s] = [w EXCEPT !.todo = w.todo \ {r}, !.accepted = w.accepted \/ valid]]
      BY <1>4, Zenon
    <3>. HIDE DEF x, y
    <3>. QED
      BY <2>3, <3>1 DEF Becomes
  <2>. HIDE DEF y
  <2>5. (w.accepted \/ valid) \in BOOLEAN
    OBVIOUS
  <2>6. x \in Work /\ x.at = y.at /\ x.sweep = y.sweep /\ x.todo = y.todo
    BY <2>2, <2>5 DEF Work
  <2>. HIDE DEF x
  <2>. QED
    BY <1>1, <2>2, <2>4, <2>6
<1>. QED
  BY <1>1, <1>2, <1>3, <1>4 DEF Acts, Lost, durable

\* The outcome is what the collector's report says.
LEMMA FinishEffect ==
  ASSUME TypeOK, NEW a \in Attempt, NEW s \in Source, FinishRun(a, s)
  PROVE  /\ Acts(a, s, {"writing"})
         /\ \/ Lost(a, s)
            \/ \E x \in Work, row \in RunRow :
                 LET c == collector[ProcessOf[a]][s] IN
                 /\ Becomes(a, s, x)
                 /\ x.at = "saving" /\ x.sweep = work[a][s].sweep /\ x.todo = {} /\ work[a][s].todo = {}
                 /\ Holds(a)
                 /\ run' = [run EXCEPT ![tgt[a]][s] = row]
                 /\ row.status \in {"complete", "partial"} /\ row.sweep = c.sweep
                 /\ row.status = "complete" => ~c.missed
                 /\ UNCHANGED <<jobVars, ckpt, stored, sweeps, collector, attemptVars>>
<1>. DEFINE w == work[a][s]
            c == collector[ProcessOf[a]][s]
            row == [status |-> IF c.missed THEN "partial" ELSE "complete", full |-> ~c.missed, sweep |-> c.sweep]
            y == [w EXCEPT !.at = "saving"]
            x == [y EXCEPT !.cut = c.cut]
<1>1. /\ pc[a] = "cycle" /\ s \in Scope[tgt[a]] /\ w.at = "writing" /\ w.todo = {}
      /\ UNCHANGED <<jobVars, ckpt, stored, sweeps, collector, attemptVars>>
  BY DEF FinishRun, At, AllWritten
<1>2. w \in Work /\ c \in Collector /\ c.sweep \in Nat /\ c.cut \in BOOLEAN /\ c.missed \in BOOLEAN
  BY InScope DEF Collector
<1>3. \/ Becomes(a, s, [w EXCEPT !.at = "lost"]) /\ UNCHANGED run
      \/ /\ run' = [run EXCEPT ![tgt[a]][s] = row] /\ Holds(a)
         /\ Becomes(a, s, [w EXCEPT !.at = "saving", !.cut = c.cut])
  BY DEF FinishRun, Lose, Becomes
<1>4. y \in Work /\ y.at = "saving" /\ y.sweep = w.sweep /\ y.todo = w.todo
  BY <1>2, WorkAt DEF InFlight
<1>. HIDE DEF c
<1>5. Becomes(a, s, [w EXCEPT !.at = "saving", !.cut = c.cut]) => Becomes(a, s, x)
  OBVIOUS
<1>. HIDE DEF y
<1>6. x \in Work /\ x.at = y.at /\ x.sweep = y.sweep /\ x.todo = y.todo
  BY <1>2, <1>4 DEF Work
<1>7. /\ row.status = IF c.missed THEN "partial" ELSE "complete"
      /\ row.sweep = c.sweep /\ row.full = ~c.missed
  OBVIOUS
<1>8. row.status \in {"complete", "partial"} /\ (row.status = "complete" => ~c.missed)
  BY <1>7
<1>9. row \in RunRow
  BY <1>2 DEF RunRow
<1>. HIDE DEF row, x
<1>. QED
  BY <1>1, <1>3, <1>4, <1>5, <1>6, <1>7, <1>8, <1>9 DEF Acts, Lost, durable, c

\* The checkpoint is the end of the report.
LEMMA SaveEffect ==
  ASSUME TypeOK, NEW a \in Attempt, NEW s \in Source, SaveCheckpoint(a, s)
  PROVE  /\ Acts(a, s, {"saving"})
         /\ \/ Lost(a, s)
            \/ /\ Becomes(a, s, [work[a][s] EXCEPT !.at = "ok"])
               /\ ckpt' = [ckpt EXCEPT ![s] = CursorOf(collector[ProcessOf[a]][s])]
               /\ UNCHANGED <<jobVars, run, stored, sweeps, collector, attemptVars>>
  BY DEF SaveCheckpoint, At, Lose, Becomes, Acts, Lost, durable

\* An error: the holder may mark the run failed, another attempt may not.
LEMMA FailEffect ==
  ASSUME TypeOK, NEW a \in Attempt, NEW s \in Source, tgt[a] \in Job, SourceFails(a, s)
  PROVE  /\ Acts(a, s, InFlight)
         /\ \/ Lost(a, s)
            \/ \E x \in Work :
                 /\ Becomes(a, s, x) /\ x.at = "failed" /\ x.sweep = 0
                 /\ \/ run' = run
                    \/ \E row \in RunRow : /\ row.status = "failed" /\ Holds(a)
                                         /\ run' = [run EXCEPT ![tgt[a]][s] = row]
                 /\ UNCHANGED <<jobVars, ckpt, stored, sweeps, collector, attemptVars>>
<1>. DEFINE x == [Waiting EXCEPT !.at = "failed"]
            row == [run[tgt[a]][s] EXCEPT !.status = "failed", !.full = FALSE]
<1>1. x \in Work /\ x.at = "failed" /\ x.sweep = 0
  BY DEF Waiting, Work, Finished
<1>2. row \in RunRow /\ row.status = "failed"
  BY InScope DEF RunRow
<1>3. Acts(a, s, InFlight)
  BY DEF SourceFails, At, Acts
<1>4. \/ Becomes(a, s, [work[a][s] EXCEPT !.at = "lost"]) /\ UNCHANGED run
      \/ /\ Becomes(a, s, x)
         /\ run' = run \/ (Holds(a) /\ run' = [run EXCEPT ![tgt[a]][s] = row])
  BY DEF SourceFails, Lose, Becomes
<1>5. UNCHANGED <<jobVars, ckpt, stored, sweeps, collector, attemptVars>>
  BY DEF SourceFails
<1>. HIDE DEF x, row
<1>. QED
  BY <1>1, <1>2, <1>3, <1>4, <1>5 DEF Lost, durable

-----------------------------------------------------------------------------
(* Types.                                                                    *)

\* A step of the pipeline of one source, or its failure.
Pipe(a, s) == Pipeline(a, s) \/ SourceFails(a, s)

\* What a record's write stores is the name of a sweep.
LEMMA StoredCell ==
  ASSUME TypeOK, NEW s \in Source, NEW r, NEW w \in Nat, w <= sweeps,
         stored' = [stored EXCEPT ![s][r] = Newer(@, w)]
  PROVE  /\ stored' \in [Source -> [Record -> Sweep]]
         /\ \A t \in Source, q \in Record : stored'[t][q] >= stored[t][q]
         /\ r \in Record => stored'[s][r] >= w
<1>1. stored \in [Source -> [Record -> Sweep]] /\ sweeps \in Nat
  BY DEF TypeOK
<1>2. CASE r \notin Record
  <2>1. stored' = stored
    BY <1>1, <1>2
  <2>2. \A t \in Source, q \in Record : stored[t][q] \in Nat
    BY <1>1 DEF Sweep
  <2>3. \A t \in Source, q \in Record : stored[t][q] >= stored[t][q]
    BY <2>2
  <2>. QED
    BY <1>1, <1>2, <2>1, <2>3
<1>3. CASE r \in Record
  <2>. DEFINE n == Newer(stored[s][r], w)
  <2>1. stored[s][r] \in Sweep /\ stored[s][r] \in Nat
    BY <1>1, <1>3 DEF Sweep
  <2>2. n \in Sweep /\ n >= w /\ n >= stored[s][r]
    BY <1>1, <2>1 DEF Newer, Sweep
  <2>3. stored' = [stored EXCEPT ![s][r] = n]
    BY <1>1, <1>3
  <2>. HIDE DEF n
  <2>4. stored' \in [Source -> [Record -> Sweep]]
        /\ \A t \in Source, q \in Record : stored'[t][q] = IF t = s /\ q = r THEN n ELSE stored[t][q]
    BY <1>1, <1>3, <2>2, <2>3, Cell
  <2>. HIDE DEF Record
  <2>5. ASSUME NEW t \in Source, NEW q \in Record PROVE stored'[t][q] >= stored[t][q]
    <3>1. stored[t][q] \in Nat
      BY <1>1 DEF Sweep
    <3>2. CASE t = s /\ q = r
      BY <2>2, <2>4, <3>2
    <3>3. CASE ~(t = s /\ q = r)
      <4>1. stored'[t][q] = stored[t][q]
        BY <2>4, <3>3
      <4>. QED
        BY <3>1, <4>1
    <3>. QED
      BY <3>2, <3>3
  <2>. QED
    BY <1>3, <2>2, <2>4, <2>5
<1>. QED
  BY <1>2, <1>3

\* Of the pipeline, the steps leave the job table and the attempts alone.
LEMMA PipeFrame ==
  ASSUME TypeOK, NEW a \in Attempt, NEW s \in Source, Pipe(a, s)
  PROVE  /\ UNCHANGED <<jobVars, attemptVars>>
         /\ pc[a] = "cycle" /\ s \in Scope[tgt[a]]
  BY DEF Pipe, Pipeline, StartSource, BeginRun, Scrape, WriteRecord, FinishRun, SaveCheckpoint, SourceFails,
         At

\* They leave values of their types, and name no sweep before it starts.
LEMMA PipeType ==
  ASSUME TypeOK, SweepsStarted, NEW a \in Attempt, NEW s \in Source, tgt[a] \in Job, Pipe(a, s)
  PROVE  TypeOK' /\ SweepsStarted'
<1>1. UNCHANGED <<jobVars, attemptVars>>
  BY PipeFrame
<1>2. /\ work \in [Attempt -> [Source -> Work]] /\ collector \in [Process -> [Source -> Collector]]
      /\ run \in [Job -> [Source -> RunRow]] /\ ckpt \in [Source -> Cursor]
      /\ stored \in [Source -> [Record -> Sweep]] /\ sweeps \in Nat
  BY DEF TypeOK
<1>3. /\ work[a][s] \in Work /\ ProcessOf[a] \in Process /\ collector[ProcessOf[a]][s] \in Collector
      /\ ckpt[s] \in Cursor /\ work[a][s].sweep <= sweeps /\ work[a][s].sweep \in Nat
      /\ collector[ProcessOf[a]][s].sweep <= sweeps
      /\ ckpt[s].sweep <= sweeps
  BY InScope DEF SweepsStarted, Work
<1>4. ASSUME /\ work' \in [Attempt -> [Source -> Work]] /\ collector' \in [Process -> [Source -> Collector]]
             /\ run' \in [Job -> [Source -> RunRow]] /\ ckpt' \in [Source -> Cursor]
             /\ stored' \in [Source -> [Record -> Sweep']] /\ sweeps' \in Nat
      PROVE  TypeOK'
  BY <1>1, <1>4 DEF TypeOK, jobVars, attemptVars
<1>5. ASSUME NEW x \in Work, Becomes(a, s, x), x.sweep <= sweeps', sweeps' \in {sweeps, sweeps + 1}
      PROVE  /\ work' \in [Attempt -> [Source -> Work]]
             /\ \A b \in Attempt, t \in Source : work'[b][t].sweep <= sweeps'
  <2>1. /\ work' \in [Attempt -> [Source -> Work]] /\ work'[a][s] = x
        /\ \A b \in Attempt, t \in Source : b # a \/ t # s => work'[b][t] = work[b][t]
    BY <1>5, BecomesCell
  <2>2. ASSUME NEW b \in Attempt, NEW t \in Source PROVE work'[b][t].sweep <= sweeps'
    <3>1. work[b][t].sweep \in Nat /\ work[b][t].sweep <= sweeps
      BY <1>2 DEF SweepsStarted, Work
    <3>2. work[b][t].sweep <= sweeps'
      BY <1>2, <1>5, <3>1
    <3>. QED
      BY <1>5, <2>1, <3>2
  <2>. QED
    BY <2>1, <2>2
<1>6. ASSUME NEW c2 \in Collector, collector' = [collector EXCEPT ![ProcessOf[a]][s] = c2],
             c2.sweep <= sweeps', sweeps' \in {sweeps, sweeps + 1}
      PROVE  /\ collector' \in [Process -> [Source -> Collector]]
             /\ \A p \in Process, t \in Source : collector'[p][t].sweep <= sweeps'
  <2>1. /\ collector' \in [Process -> [Source -> Collector]]
        /\ \A p \in Process, t \in Source :
             collector'[p][t] = IF p = ProcessOf[a] /\ t = s THEN c2 ELSE collector[p][t]
    BY <1>2, <1>3, <1>6, Cell
  <2>2. ASSUME NEW p \in Process, NEW t \in Source PROVE collector'[p][t].sweep <= sweeps'
    <3>1. collector[p][t].sweep \in Nat /\ collector[p][t].sweep <= sweeps
      BY <1>2 DEF SweepsStarted, Collector
    <3>2. collector[p][t].sweep <= sweeps'
      BY <1>2, <1>6, <3>1
    <3>. QED
      BY <1>6, <2>1, <3>2
  <2>. QED
    BY <2>1, <2>2
<1>7. ASSUME NEW row \in RunRow, run' = [run EXCEPT ![tgt[a]][s] = row]
      PROVE  run' \in [Job -> [Source -> RunRow]]
  BY <1>2, <1>7, Cell
<1>8. \A v \in {"lost", "ready", "begun", "ok"} :
        LET y == [work[a][s] EXCEPT !.at = v] IN y \in Work /\ y.sweep = work[a][s].sweep
  BY <1>3, WorkAt DEF InFlight, Finished
<1>9. ASSUME /\ \A t \in Source : ckpt'[t].sweep <= sweeps'
             /\ \A p \in Process, t \in Source : collector'[p][t].sweep <= sweeps'
             /\ \A b \in Attempt, t \in Source : work'[b][t].sweep <= sweeps'
      PROVE  SweepsStarted'
  BY <1>9 DEF SweepsStarted
<1>10. UNCHANGED <<ckpt, sweeps>> => \A t \in Source : ckpt'[t].sweep <= sweeps'
  BY DEF SweepsStarted
<1>11. UNCHANGED <<collector, sweeps>> => \A p \in Process, t \in Source : collector'[p][t].sweep <= sweeps'
  BY DEF SweepsStarted
<1>12. UNCHANGED <<stored, sweeps>> => stored' \in [Source -> [Record -> Sweep']] /\ sweeps' \in Nat
  BY <1>2 DEF Sweep
<1>13. ASSUME NEW v \in {"lost", "ready", "begun", "ok"}, Becomes(a, s, [work[a][s] EXCEPT !.at = v]), sweeps' = sweeps
       PROVE  /\ work' \in [Attempt -> [Source -> Work]]
              /\ \A b \in Attempt, t \in Source : work'[b][t].sweep <= sweeps'
  <2>. DEFINE y == [work[a][s] EXCEPT !.at = v]
  <2>1. y \in Work /\ y.sweep = work[a][s].sweep
    BY <1>8
  <2>2. Becomes(a, s, y)
    BY <1>13
  <2>. HIDE DEF y
  <2>. QED
    BY <1>3, <1>5, <1>13, <2>1, <2>2
<1>14. CASE Lost(a, s)
  <2>1. UNCHANGED <<run, ckpt, stored, sweeps, collector>> /\ Becomes(a, s, [work[a][s] EXCEPT !.at = "lost"])
    BY <1>14 DEF Lost, durable
  <2>. QED
    BY <1>2, <1>4, <1>9, <1>10, <1>11, <1>12, <1>13, <2>1
<1>15. ASSUME StartSource(a, s), ~Lost(a, s) PROVE TypeOK' /\ SweepsStarted'
  <2>1. PICK c2 \in Collector :
          /\ Becomes(a, s, [work[a][s] EXCEPT !.at = "ready"])
          /\ collector' = [collector EXCEPT ![ProcessOf[a]][s] = c2]
          /\ c2.sweep = collector[ProcessOf[a]][s].sweep \/ c2.sweep = ckpt[s].sweep
          /\ UNCHANGED <<run, ckpt, stored, sweeps>>
    <3>1. PICK c2 \in Collector :
            /\ Becomes(a, s, [work[a][s] EXCEPT !.at = "ready"])
            /\ collector' = [collector EXCEPT ![ProcessOf[a]][s] = c2]
            /\ \/ c2.next = collector[ProcessOf[a]][s].next /\ c2.sweep = collector[ProcessOf[a]][s].sweep
               \/ s \in Resumable /\ c2.next = ckpt[s].next /\ c2.sweep = ckpt[s].sweep
            /\ UNCHANGED <<jobVars, durable, sweeps, attemptVars>>
      BY <1>15, StartEffect, Zenon
    <3>2. UNCHANGED <<run, ckpt, stored, sweeps>>
      BY <3>1 DEF durable
    <3>. QED
      BY <3>1, <3>2, Zenon
  <2>2. c2.sweep <= sweeps'
    BY <1>3, <2>1
  <2>. QED
    BY <1>2, <1>4, <1>6, <1>9, <1>10, <1>12, <1>13, <2>1, <2>2
<1>16. ASSUME BeginRun(a, s), ~Lost(a, s) PROVE TypeOK' /\ SweepsStarted'
  <2>1. /\ Becomes(a, s, [work[a][s] EXCEPT !.at = "begun"])
        /\ run' = run \/ \E row \in RunRow : run' = [run EXCEPT ![tgt[a]][s] = row]
        /\ UNCHANGED <<ckpt, stored, sweeps, collector>>
    <3>1. /\ Becomes(a, s, [work[a][s] EXCEPT !.at = "begun"])
          /\ \/ run' = run
             \/ \E row \in RunRow : row.status = "running" /\ run[tgt[a]][s].status = "none"
                                 /\ run' = [run EXCEPT ![tgt[a]][s] = row]
          /\ UNCHANGED <<jobVars, ckpt, stored, sweeps, collector, attemptVars>>
      BY <1>16, BeginEffect, Zenon
    <3>. QED
      BY <3>1, Zenon
  <2>2. run' \in [Job -> [Source -> RunRow]]
    BY <1>2, <1>7, <2>1
  <2>. QED
    BY <1>2, <1>4, <1>9, <1>10, <1>11, <1>12, <1>13, <2>1, <2>2
<1>17. ASSUME Scrape(a, s) PROVE TypeOK' /\ SweepsStarted'
  <2>1. PICK x \in Work, c2 \in Collector :
          /\ Becomes(a, s, x) /\ x.sweep = c2.sweep
          /\ collector' = [collector EXCEPT ![ProcessOf[a]][s] = c2]
          /\ \/ sweeps' = sweeps /\ c2.sweep = collector[ProcessOf[a]][s].sweep
             \/ sweeps' = sweeps + 1 /\ c2.sweep = sweeps + 1
          /\ UNCHANGED durable
    BY <1>17, ScrapeEffect
  <2>2. sweeps' \in {sweeps, sweeps + 1} /\ c2.sweep <= sweeps' /\ x.sweep <= sweeps'
    BY <1>2, <1>3, <2>1
  <2>3. ckpt' = ckpt /\ run' = run /\ stored' = stored
    BY <2>1 DEF durable
  <2>4. stored' \in [Source -> [Record -> Sweep']] /\ sweeps' \in Nat
    <3>1. Sweep \subseteq Sweep' /\ sweeps' \in Nat
      BY <1>2, <2>2 DEF Sweep
    <3>. QED
      BY <1>2, <2>3, <3>1
  <2>5. \A t \in Source : ckpt'[t].sweep <= sweeps'
    <3>1. \A t \in Source : ckpt[t].sweep \in Nat /\ ckpt[t].sweep <= sweeps
      BY <1>2 DEF SweepsStarted, Cursor
    <3>. QED
      BY <1>2, <2>2, <2>3, <3>1
  <2>. QED
    BY <1>2, <1>4, <1>5, <1>6, <1>9, <2>1, <2>2, <2>3, <2>4, <2>5
<1>18. ASSUME WriteRecord(a, s), ~Lost(a, s) PROVE TypeOK' /\ SweepsStarted'
  <2>1. PICK x \in Work :
          /\ Becomes(a, s, x) /\ x.sweep = work[a][s].sweep
          /\ \E r : stored' = [stored EXCEPT ![s][r] = Newer(@, work[a][s].sweep)]
          /\ UNCHANGED <<run, ckpt, sweeps, collector>>
    BY <1>18, WriteEffect
  <2>2. stored' \in [Source -> [Record -> Sweep']] /\ sweeps' \in Nat
    <3>1. PICK r : stored' = [stored EXCEPT ![s][r] = Newer(@, work[a][s].sweep)]
      BY <2>1
    <3>2. stored' \in [Source -> [Record -> Sweep]]
      BY <1>3, <3>1, StoredCell
    <3>. QED
      BY <1>2, <2>1, <3>2 DEF Sweep
  <2>3. x.sweep <= sweeps' /\ sweeps' \in {sweeps, sweeps + 1}
    BY <1>3, <2>1
  <2>. QED
    BY <1>2, <1>4, <1>5, <1>9, <1>10, <1>11, <2>1, <2>2, <2>3
<1>19. ASSUME FinishRun(a, s), ~Lost(a, s) PROVE TypeOK' /\ SweepsStarted'
  <2>1. PICK x \in Work, row \in RunRow :
          /\ Becomes(a, s, x) /\ x.sweep = work[a][s].sweep
          /\ run' = [run EXCEPT ![tgt[a]][s] = row]
          /\ UNCHANGED <<ckpt, stored, sweeps, collector>>
    BY <1>19, FinishEffect
  <2>2. x.sweep <= sweeps' /\ sweeps' \in {sweeps, sweeps + 1}
    BY <1>3, <2>1
  <2>. QED
    BY <1>2, <1>4, <1>5, <1>7, <1>9, <1>10, <1>11, <1>12, <2>1, <2>2
<1>20. ASSUME SaveCheckpoint(a, s), ~Lost(a, s) PROVE TypeOK' /\ SweepsStarted'
  <2>. DEFINE c == collector[ProcessOf[a]][s]
  <2>1. /\ Becomes(a, s, [work[a][s] EXCEPT !.at = "ok"]) /\ ckpt' = [ckpt EXCEPT ![s] = CursorOf(c)]
        /\ UNCHANGED <<run, stored, sweeps, collector>>
    BY <1>20, SaveEffect
  <2>2. CursorOf(c) \in Cursor /\ CursorOf(c).sweep <= sweeps
    <3>1. c \in Collector /\ c.end \in 0 .. Records /\ c.sweep \in Nat /\ c.sweep <= sweeps
      BY <1>3 DEF Collector
    <3>. HIDE DEF c
    <3>2. Start \in Cursor /\ Start.sweep <= sweeps
      BY <1>2, FeedAssumption DEF Start, Cursor
    <3>3. [next |-> c.end, sweep |-> c.sweep] \in Cursor
      BY <3>1 DEF Cursor
    <3>. QED
      BY <3>1, <3>2, <3>3 DEF CursorOf
  <2>. HIDE DEF c
  <2>3. ckpt' \in [Source -> Cursor] /\ \A t \in Source : ckpt'[t] = IF t = s THEN CursorOf(c) ELSE ckpt[t]
    BY <1>2, <2>1, <2>2
  <2>4. \A t \in Source : ckpt'[t].sweep <= sweeps'
    BY <2>1, <2>2, <2>3 DEF SweepsStarted
  <2>. QED
    BY <1>2, <1>4, <1>9, <1>11, <1>12, <1>13, <2>1, <2>3, <2>4
<1>21. ASSUME SourceFails(a, s), ~Lost(a, s) PROVE TypeOK' /\ SweepsStarted'
  <2>1. PICK x \in Work :
          /\ Becomes(a, s, x) /\ x.sweep = 0
          /\ run' = run \/ \E row \in RunRow : run' = [run EXCEPT ![tgt[a]][s] = row]
          /\ UNCHANGED <<ckpt, stored, sweeps, collector>>
    BY <1>21, FailEffect
  <2>2. x.sweep <= sweeps' /\ sweeps' \in {sweeps, sweeps + 1}
    BY <1>2, <2>1
  <2>3. run' \in [Job -> [Source -> RunRow]]
    BY <1>2, <1>7, <2>1
  <2>. QED
    BY <1>2, <1>4, <1>5, <1>9, <1>10, <1>11, <1>12, <2>1, <2>2, <2>3
<1>. QED
  BY <1>14, <1>15, <1>16, <1>17, <1>18, <1>19, <1>20, <1>21 DEF Pipe, Pipeline

-----------------------------------------------------------------------------
(* The steps outside the sources: of the job table, of the sweeps, of the    *)
(* attempts.                                                                 *)

\* What such a step leaves of the cycles: an attempt keeps what it has in hand or
\* ends, a collector keeps its place or was replaced with its process, and only a
\* claim makes an attempt the holder.
Quiet ==
  /\ UNCHANGED <<ckpt, stored, sweeps>>
  /\ \A a \in Attempt : work'[a] = work[a] \/ (work'[a] = Untouched /\ pc'[a] = "done")
  /\ \A p \in Process : \/ collector'[p] = collector[p]
                        \/ /\ collector'[p] = [s \in Source |-> Unused]
                           /\ \A a \in Attempt : ProcessOf[a] = p => pc'[a] # "cycle"
  /\ \A a \in Attempt : pc'[a] = "cycle" => pc[a] \in {"cycle", "claimed"}
  /\ \A a \in Attempt : pc'[a] \in {"cycle", "settling"} =>
                          tgt'[a] = tgt[a] /\ pc[a] \in {"claimed", "cycle", "settling"}
  /\ \A j \in Job, a \in Attempt : holder'[j] = a => holder[j] = a \/ pc'[a] = "claimed"
  /\ run' = run \/ \E j \in Job, s \in Source : SweepRun(j, s)

\* Of the job table, and of the runs nobody accounts for.
Rows == \/ \E j \in Job : \/ Ask(j) \/ Expire(j) \/ SweepJob(j)
                          \/ \E s \in Source : SweepRun(j, s)
        \/ \E a \in Attempt : RenewLate(a)

\* Of one attempt outside its sources.
Turns(a) == Execute(a) \/ CycleFails(a) \/ EndSources(a) \/ Settle(a) \/ Escape(a)

\* The rows of the table keep their types; no attempt and no cycle is touched.
LEMMA RowsStep ==
  ASSUME TypeOK, AttemptsInOrder, Rows
  PROVE  TypeOK' /\ Quiet /\ UNCHANGED <<pc, tgt, work>>
<1>1. ASSUME NEW j \in Job, Ask(j) PROVE TypeOK' /\ Quiet /\ UNCHANGED <<pc, tgt, work>>
  <2>1. UNCHANGED <<holder, live, run, ckpt, stored, sweeps, collector, pc, tgt, work>>
        /\ status' = [status EXCEPT ![j] = "queued"]
    BY <1>1 DEF Ask, durable, attemptVars
  <2>. QED
    BY <2>1 DEF TypeOK, Quiet, Sweep
<1>2. ASSUME NEW j \in Job, Expire(j) PROVE TypeOK' /\ Quiet /\ UNCHANGED <<pc, tgt, work>>
  <2>1. UNCHANGED <<status, holder, run, ckpt, stored, sweeps, collector, pc, tgt, work>>
        /\ live' = [live EXCEPT ![j] = FALSE]
    BY <1>2 DEF Expire, durable, attemptVars
  <2>. QED
    BY <2>1 DEF TypeOK, Quiet, Sweep
<1>3. ASSUME NEW j \in Job, SweepJob(j) PROVE TypeOK' /\ Quiet /\ UNCHANGED <<pc, tgt, work>>
  <2>1. UNCHANGED <<run, ckpt, stored, sweeps, collector, pc, tgt, work>>
        /\ status' = [status EXCEPT ![j] = "failed"] /\ holder' = [holder EXCEPT ![j] = None]
        /\ live' = [live EXCEPT ![j] = FALSE]
    BY <1>3 DEF SweepJob, EndJob, durable, attemptVars
  <2>2. \A k \in Job, a \in Attempt : holder'[k] = a => holder[k] = a
    BY <2>1, NoneAssumption DEF TypeOK
  <2>3. TypeOK'
    BY <2>1 DEF TypeOK, Sweep, Ended
  <2>. QED
    BY <2>1, <2>2, <2>3 DEF Quiet
<1>4. ASSUME NEW a \in Attempt, RenewLate(a) PROVE TypeOK' /\ Quiet /\ UNCHANGED <<pc, tgt, work>>
  <2>1. UNCHANGED <<status, holder, run, ckpt, stored, sweeps, collector, pc, tgt, work>>
        /\ live' = [live EXCEPT ![tgt[a]] = TRUE] /\ tgt[a] \in Job
    BY <1>4 DEF RenewLate, durable, attemptVars, AttemptsInOrder
  <2>. QED
    BY <2>1 DEF TypeOK, Quiet, Sweep
<1>5. ASSUME NEW j \in Job, NEW s \in Source, SweepRun(j, s)
      PROVE  TypeOK' /\ Quiet /\ UNCHANGED <<pc, tgt, work>>
  <2>1. UNCHANGED <<status, holder, live, ckpt, stored, sweeps, collector, pc, tgt, work>>
        /\ run' = [run EXCEPT ![j][s].status = "failed"]
    BY <1>5 DEF SweepRun, jobVars, attemptVars
  <2>2. run' \in [Job -> [Source -> RunRow]]
    <3>. DEFINE row == [run[j][s] EXCEPT !.status = "failed"]
    <3>1. row \in RunRow
      <4>1. run[j][s] \in RunRow
        BY DEF TypeOK
      <4>. QED
        BY <4>1 DEF RunRow
    <3>2. run' = [run EXCEPT ![j][s] = row]
      BY <2>1
    <3>. HIDE DEF row
    <3>. QED
      BY <3>1, <3>2, Cell DEF TypeOK
  <2>3. TypeOK'
    BY <2>1, <2>2 DEF TypeOK, Sweep
  <2>. QED
    BY <1>5, <2>1, <2>3 DEF Quiet
<1>. QED
  BY <1>1, <1>2, <1>3, <1>4, <1>5 DEF Rows

\* A claim gives an attempt its job.
LEMMA ClaimStep ==
  ASSUME TypeOK, NEW a \in Attempt, NEW j \in Job, Claim(a, j)
  PROVE  /\ TypeOK' /\ Quiet
         /\ pc[a] = "new" /\ pc' = [pc EXCEPT ![a] = "claimed"] /\ tgt' = [tgt EXCEPT ![a] = j]
         /\ work' = work /\ run' = run
         /\ holder' = [holder EXCEPT ![j] = a] /\ status' = [status EXCEPT ![j] = "running"]
<1>1. /\ UNCHANGED <<run, ckpt, stored, sweeps, collector, work>>
      /\ pc[a] = "new" /\ pc' = [pc EXCEPT ![a] = "claimed"] /\ tgt' = [tgt EXCEPT ![a] = j]
      /\ holder' = [holder EXCEPT ![j] = a] /\ status' = [status EXCEPT ![j] = "running"]
      /\ live' = [live EXCEPT ![j] = TRUE]
  BY DEF Claim, durable
<1>2. TypeOK'
  BY <1>1 DEF TypeOK, Sweep, Control
<1>3. Quiet
  <2>1. pc'[a] = "claimed" /\ \A b \in Attempt : b # a => pc'[b] = pc[b] /\ tgt'[b] = tgt[b]
    BY <1>1 DEF TypeOK
  <2>2. \A k \in Job, b \in Attempt : holder'[k] = b => holder[k] = b \/ b = a
    BY <1>1 DEF TypeOK
  <2>. QED
    BY <1>1, <2>1, <2>2 DEF Quiet
<1>. QED
  BY <1>1, <1>2, <1>3

\* An attempt that starts its cycle, ends its sources, or ends.
LEMMA TurnsStep ==
  ASSUME TypeOK, AttemptsInOrder, NEW a \in Attempt, Turns(a)
  PROVE  /\ TypeOK' /\ Quiet /\ UNCHANGED <<tgt, run>>
         /\ pc[a] \in {"claimed", "cycle", "settling"}
         /\ \A b \in Attempt : b # a => pc'[b] = pc[b] /\ work'[b] = work[b]
         /\ \/ pc'[a] \in {"done", "settling"}
            \/ pc[a] = "claimed" /\ pc'[a] = "cycle" /\ ~Busy(ProcessOf[a])
         /\ pc'[a] # "done" => work'[a] = work[a]
         /\ pc'[a] = "settling" =>
              \/ pc[a] = "claimed"
              \/ pc[a] = "cycle" /\ \A s \in Scope[tgt[a]] : work[a][s].at \in {"ok", "failed"}
         /\ \/ UNCHANGED jobVars
            \/ Holds(a) /\ \E s \in {"partial", "failed"} : EndJob(tgt[a], s)
            \/ Holds(a) /\ EndJob(tgt[a], "completed") /\ pc[a] = "settling" /\ ~CyclePartial(work[a])
<1>1. /\ pc \in [Attempt -> Control] /\ work \in [Attempt -> [Source -> Work]] /\ Untouched \in [Source -> Work]
  BY AtRest DEF TypeOK
<1>2. ASSUME pc[a] \in {"claimed", "cycle", "settling"} PROVE tgt[a] \in Job
  BY <1>2 DEF AttemptsInOrder
<1>3. ASSUME UNCHANGED jobVars \/ (tgt[a] \in Job /\ \E s \in Ended : EndJob(tgt[a], s)),
             UNCHANGED <<durable, sweeps, collector, tgt>>,
             pc' \in [Attempt -> Control], work' \in [Attempt -> [Source -> Work]]
      PROVE  TypeOK'
  <2>1. /\ status' \in [Job -> {"absent", "queued", "running"} \cup Ended]
        /\ holder' \in [Job -> Attempt \cup {None}] /\ live' \in [Job -> BOOLEAN]
    BY <1>3 DEF EndJob, jobVars, TypeOK
  <2>. QED
    BY <1>3, <2>1 DEF TypeOK, durable, Sweep
<1>4. ASSUME UNCHANGED <<durable, sweeps, collector, tgt>>, NEW c \in {"done", "settling", "cycle"},
             UNCHANGED jobVars \/ (tgt[a] \in Job /\ \E s \in Ended : EndJob(tgt[a], s)),
             pc[a] \in {"claimed", "cycle", "settling"},
             pc' = [pc EXCEPT ![a] = c], c = "cycle" => pc[a] = "claimed",
             work' = work \/ (c = "done" /\ work' = [work EXCEPT ![a] = Untouched])
      PROVE  /\ Quiet /\ run' = run /\ pc' \in [Attempt -> Control] /\ work' \in [Attempt -> [Source -> Work]]
             /\ \A b \in Attempt : b # a => pc'[b] = pc[b] /\ work'[b] = work[b]
             /\ pc'[a] # "done" => work'[a] = work[a]
             /\ pc'[a] = c
  <2>1. /\ pc' \in [Attempt -> Control] /\ work' \in [Attempt -> [Source -> Work]]
        /\ \A b \in Attempt : b # a => pc'[b] = pc[b] /\ work'[b] = work[b]
        /\ pc'[a] = c
        /\ work'[a] = work[a] \/ (c = "done" /\ work'[a] = Untouched)
    BY <1>1, <1>4 DEF Control
  <2>2. \A k \in Job, b \in Attempt : holder'[k] = b => holder[k] = b
    BY <1>4, NoneAssumption DEF EndJob, jobVars, TypeOK
  <2>. QED
    BY <1>4, <2>1, <2>2 DEF Quiet, durable
<1>5. CASE Execute(a)
  <2>. DEFINE c == CASE ~Holds(a) -> "done" [] Busy(ProcessOf[a]) -> "settling" [] OTHER -> "cycle"
  <2>1. /\ pc[a] = "claimed" /\ pc' = [pc EXCEPT ![a] = c]
        /\ UNCHANGED <<jobVars, durable, sweeps, collector, tgt, work>>
    BY <1>5 DEF Execute
  <2>2. c \in {"done", "settling"} \/ (c = "cycle" /\ ~Busy(ProcessOf[a]))
    OBVIOUS
  <2>. HIDE DEF c
  <2>3. c \in {"done", "settling", "cycle"}
    BY <2>2
  <2>4. /\ Quiet /\ run' = run /\ pc' \in [Attempt -> Control] /\ work' \in [Attempt -> [Source -> Work]]
        /\ \A b \in Attempt : b # a => pc'[b] = pc[b] /\ work'[b] = work[b]
        /\ pc'[a] # "done" => work'[a] = work[a]
        /\ pc'[a] = c
    BY <1>4, <2>1, <2>3
  <2>5. TypeOK'
    BY <1>3, <2>1, <2>4
  <2>. QED
    BY <2>1, <2>2, <2>4, <2>5
<1>6. CASE CycleFails(a)
  <2>1. /\ pc[a] = "claimed" /\ pc' = [pc EXCEPT ![a] = "done"]
        /\ UNCHANGED <<durable, sweeps, collector, tgt, work>>
        /\ UNCHANGED jobVars \/ (Holds(a) /\ EndJob(tgt[a], "failed"))
    BY <1>6 DEF CycleFails
  <2>2. /\ Quiet /\ run' = run /\ pc' \in [Attempt -> Control] /\ work' \in [Attempt -> [Source -> Work]]
        /\ \A b \in Attempt : b # a => pc'[b] = pc[b] /\ work'[b] = work[b]
        /\ pc'[a] = "done"
    BY <1>2, <1>4, <2>1 DEF Ended
  <2>3. TypeOK'
    BY <1>2, <1>3, <2>1, <2>2 DEF Ended
  <2>. QED
    BY <2>1, <2>2, <2>3
<1>7. CASE EndSources(a)
  <2>. DEFINE c == IF \E s \in Scope[tgt[a]] : work[a][s].at = "lost" THEN "done" ELSE "settling"
  <2>1. /\ pc[a] = "cycle" /\ pc' = [pc EXCEPT ![a] = c]
        /\ \A s \in Scope[tgt[a]] : work[a][s].at \in Finished
        /\ work' = [work EXCEPT ![a] = IF pc'[a] = "done" THEN Untouched ELSE @]
        /\ UNCHANGED <<jobVars, durable, sweeps, collector, tgt>>
    BY <1>7 DEF EndSources
  <2>2. /\ c \in {"done", "settling"}
        /\ c = "settling" => \A s \in Scope[tgt[a]] : work[a][s].at # "lost"
    OBVIOUS
  <2>. HIDE DEF c
  <2>3. pc'[a] = c
    BY <1>1, <2>1
  <2>4. work' = work \/ (c = "done" /\ work' = [work EXCEPT ![a] = Untouched])
    BY <1>1, <2>1, <2>2, <2>3
  <2>5. /\ Quiet /\ run' = run /\ pc' \in [Attempt -> Control] /\ work' \in [Attempt -> [Source -> Work]]
        /\ \A b \in Attempt : b # a => pc'[b] = pc[b] /\ work'[b] = work[b]
        /\ pc'[a] # "done" => work'[a] = work[a]
    BY <1>4, <2>1, <2>2, <2>4
  <2>6. TypeOK'
    BY <1>3, <2>1, <2>5
  <2>7. c = "settling" => \A s \in Scope[tgt[a]] : work[a][s].at \in {"ok", "failed"}
    BY <2>1, <2>2 DEF Finished
  <2>. QED
    BY <2>1, <2>2, <2>3, <2>5, <2>6, <2>7
<1>8. CASE Settle(a)
  <2>1. /\ pc[a] = "settling" /\ pc' = [pc EXCEPT ![a] = "done"] /\ work' = [work EXCEPT ![a] = Untouched]
        /\ UNCHANGED <<durable, sweeps, collector, tgt>>
        /\ \/ UNCHANGED jobVars
           \/ Holds(a) /\ EndJob(tgt[a], "partial")
           \/ Holds(a) /\ ~CyclePartial(work[a]) /\ EndJob(tgt[a], "completed")
    BY <1>8 DEF Settle
  <2>2. /\ Quiet /\ run' = run /\ pc' \in [Attempt -> Control] /\ work' \in [Attempt -> [Source -> Work]]
        /\ \A b \in Attempt : b # a => pc'[b] = pc[b] /\ work'[b] = work[b]
        /\ pc'[a] = "done"
    BY <1>2, <1>4, <2>1 DEF Ended
  <2>3. TypeOK'
    BY <1>2, <1>3, <2>1, <2>2 DEF Ended
  <2>. QED
    BY <2>1, <2>2, <2>3
<1>9. CASE Escape(a)
  <2>1. /\ pc[a] \in {"claimed", "settling"} /\ pc' = [pc EXCEPT ![a] = "done"]
        /\ work' = [work EXCEPT ![a] = Untouched]
        /\ UNCHANGED <<jobVars, durable, sweeps, collector, tgt>>
    BY <1>9 DEF Escape
  <2>2. /\ Quiet /\ run' = run /\ pc' \in [Attempt -> Control] /\ work' \in [Attempt -> [Source -> Work]]
        /\ \A b \in Attempt : b # a => pc'[b] = pc[b] /\ work'[b] = work[b]
        /\ pc'[a] = "done"
    BY <1>2, <1>4, <2>1 DEF Ended
  <2>3. TypeOK'
    BY <1>3, <2>1, <2>2
  <2>. QED
    BY <2>1, <2>2, <2>3
<1>. QED
  BY <1>5, <1>6, <1>7, <1>8, <1>9 DEF Turns

\* A crash ends the attempts of the process and replaces its collectors.
LEMMA CrashStep ==
  ASSUME TypeOK, NEW p \in Process, Crash(p)
  PROVE  /\ TypeOK' /\ Quiet /\ UNCHANGED <<jobVars, run, tgt>>
         /\ \A a \in Attempt : \/ pc'[a] = pc[a] /\ work'[a] = work[a]
                               \/ pc[a] \in {"claimed", "cycle", "settling"} /\ pc'[a] = "done"
<1>. DEFINE gone == {a \in Attempt : ProcessOf[a] = p /\ pc[a] \in {"claimed", "cycle", "settling"}}
<1>1. /\ pc' = [a \in Attempt |-> IF a \in gone THEN "done" ELSE pc[a]]
      /\ work' = [a \in Attempt |-> IF a \in gone THEN Untouched ELSE work[a]]
      /\ collector' = [collector EXCEPT ![p] = [s \in Source |-> Unused]]
      /\ UNCHANGED <<status, holder, live, run, ckpt, stored, sweeps, tgt>>
  BY DEF Crash, jobVars, durable
<1>2. pc' \in [Attempt -> Control] /\ work' \in [Attempt -> [Source -> Work]]
  BY <1>1, AtRest DEF TypeOK, Control
<1>3. Unused \in Collector
  BY FeedAssumption DEF Unused, Collector
<1>4. collector' \in [Process -> [Source -> Collector]]
  BY <1>1, <1>3 DEF TypeOK
<1>5. TypeOK'
  BY <1>1, <1>2, <1>4 DEF TypeOK, Sweep
<1>6. \A a \in Attempt : \/ pc'[a] = pc[a] /\ work'[a] = work[a] /\ a \notin gone
                         \/ /\ pc[a] \in {"claimed", "cycle", "settling"}
                            /\ pc'[a] = "done" /\ work'[a] = Untouched
  BY <1>1
<1>7. \A a \in Attempt : ProcessOf[a] = p => pc'[a] # "cycle"
  BY <1>6
<1>8. \A q \in Process : collector'[q] = collector[q] \/ (q = p /\ collector'[q] = [s \in Source |-> Unused])
  BY <1>1 DEF TypeOK
<1>. HIDE DEF gone
<1>9. Quiet
  BY <1>1, <1>6, <1>7, <1>8 DEF Quiet
<1>. QED
  BY <1>1, <1>5, <1>6, <1>9 DEF jobVars

-----------------------------------------------------------------------------
(* Attempts.                                                                 *)

\* An attempt that only moves on towards its end leaves the order as it is.
LEMMA Retires ==
  ASSUME AttemptsInOrder, tgt' = tgt,
         \A a \in Attempt : \/ pc'[a] = pc[a] /\ (pc[a] \in {"new", "claimed"} => work'[a] = work[a])
                            \/ pc[a] \in {"claimed", "cycle", "settling"} /\ pc'[a] \in {"settling", "done"}
  PROVE  AttemptsInOrder'
<1>1. \A a \in Attempt : pc'[a] = "new" => tgt'[a] = None
  BY DEF AttemptsInOrder
<1>2. \A a \in Attempt : pc'[a] \in {"claimed", "cycle", "settling"} => tgt'[a] \in Job
  BY DEF AttemptsInOrder
<1>3. \A a \in Attempt : pc'[a] \in {"new", "claimed"} => work'[a] = Untouched
  BY DEF AttemptsInOrder
<1>4. \A a, b \in Attempt : pc'[a] = "cycle" /\ pc'[b] = "cycle" /\ ProcessOf[a] = ProcessOf[b] => a = b
  BY DEF AttemptsInOrder
<1>5. \A j \in Job : IsFiniteSet({a \in Attempt : tgt'[a] = j})
  BY DEF AttemptsInOrder
<1>. QED
  BY <1>1, <1>2, <1>3, <1>4, <1>5 DEF AttemptsInOrder

\* Every step keeps the attempts in order.
LEMMA OrderStep ==
  ASSUME TypeOK, AttemptsInOrder, [Next]_vars
  PROVE  AttemptsInOrder'
<1>1. CASE UNCHANGED <<pc, tgt, work>>
  BY <1>1, Retires
<1>2. CASE Rows
  BY <1>1, <1>2, RowsStep
<1>3. ASSUME NEW a \in Attempt, NEW j \in Job, Claim(a, j) PROVE AttemptsInOrder'
  <2>1. /\ pc[a] = "new" /\ pc' = [pc EXCEPT ![a] = "claimed"] /\ tgt' = [tgt EXCEPT ![a] = j]
        /\ work' = work
    BY <1>3, ClaimStep
  <2>2. /\ pc'[a] = "claimed" /\ tgt'[a] = j
        /\ \A b \in Attempt : b # a => pc'[b] = pc[b] /\ tgt'[b] = tgt[b]
    BY <2>1 DEF TypeOK
  <2>3. \A b \in Attempt : pc'[b] = "new" => tgt'[b] = None
    BY <2>2 DEF AttemptsInOrder
  <2>4. \A b \in Attempt : pc'[b] \in {"claimed", "cycle", "settling"} => tgt'[b] \in Job
    BY <2>2 DEF AttemptsInOrder
  <2>5. \A b \in Attempt : pc'[b] \in {"new", "claimed"} => work'[b] = Untouched
    BY <2>1, <2>2 DEF AttemptsInOrder
  <2>6. \A b, c \in Attempt : pc'[b] = "cycle" /\ pc'[c] = "cycle" /\ ProcessOf[b] = ProcessOf[c] => b = c
    BY <2>2 DEF AttemptsInOrder
  <2>7. ASSUME NEW k \in Job PROVE IsFiniteSet({b \in Attempt : tgt'[b] = k})
    <3>1. IsFiniteSet({b \in Attempt : tgt[b] = k} \cup {a})
      BY FS_AddElement DEF AttemptsInOrder
    <3>2. {b \in Attempt : tgt'[b] = k} \subseteq {b \in Attempt : tgt[b] = k} \cup {a}
      BY <2>2
    <3>. QED
      BY <3>1, <3>2, FS_Subset
  <2>. QED
    BY <2>3, <2>4, <2>5, <2>6, <2>7 DEF AttemptsInOrder
<1>4. ASSUME NEW a \in Attempt, Turns(a) PROVE AttemptsInOrder'
  <2>1. /\ tgt' = tgt /\ pc[a] \in {"claimed", "cycle", "settling"}
        /\ \A b \in Attempt : b # a => pc'[b] = pc[b] /\ work'[b] = work[b]
        /\ \/ pc'[a] \in {"done", "settling"}
           \/ pc[a] = "claimed" /\ pc'[a] = "cycle" /\ ~Busy(ProcessOf[a])
        /\ pc'[a] # "done" => work'[a] = work[a]
    BY <1>4, TurnsStep
  <2>2. CASE pc'[a] \in {"done", "settling"}
    <3>1. \A b \in Attempt : \/ pc'[b] = pc[b] /\ (pc[b] \in {"new", "claimed"} => work'[b] = work[b])
                             \/ pc[b] \in {"claimed", "cycle", "settling"} /\ pc'[b] \in {"settling", "done"}
      BY <2>1, <2>2
    <3>. QED
      BY <2>1, <3>1, Retires
  <2>3. CASE pc[a] = "claimed" /\ pc'[a] = "cycle" /\ ~Busy(ProcessOf[a])
    <3>1. \A b \in Attempt : b # a /\ pc'[b] = "cycle" => ProcessOf[b] # ProcessOf[a]
      BY <2>1, <2>3 DEF Busy
    <3>2. \A b, c \in Attempt : pc'[b] = "cycle" /\ pc'[c] = "cycle" /\ ProcessOf[b] = ProcessOf[c] => b = c
      <4>. TAKE b, c \in Attempt
      <4>1. CASE b = a
        BY <3>1, <4>1
      <4>2. CASE c = a
        BY <3>1, <4>2
      <4>3. CASE b # a /\ c # a
        BY <2>1, <4>3 DEF AttemptsInOrder
      <4>. QED
        BY <4>1, <4>2, <4>3
    <3>3. \A b \in Attempt : /\ pc'[b] = "new" => tgt'[b] = None
                             /\ pc'[b] \in {"claimed", "cycle", "settling"} => tgt'[b] \in Job
                             /\ pc'[b] \in {"new", "claimed"} => work'[b] = Untouched
      BY <2>1, <2>3 DEF AttemptsInOrder
    <3>4. \A j \in Job : IsFiniteSet({b \in Attempt : tgt'[b] = j})
      BY <2>1 DEF AttemptsInOrder
    <3>. QED
      BY <3>2, <3>3, <3>4 DEF AttemptsInOrder
  <2>. QED
    BY <2>1, <2>2, <2>3
<1>5. ASSUME NEW p \in Process, Crash(p) PROVE AttemptsInOrder'
  <2>1. /\ tgt' = tgt
        /\ \A a \in Attempt : \/ pc'[a] = pc[a] /\ work'[a] = work[a]
                              \/ pc[a] \in {"claimed", "cycle", "settling"} /\ pc'[a] = "done"
    BY <1>5, CrashStep
  <2>. QED
    BY <2>1, Retires
<1>6. ASSUME NEW a \in Attempt, NEW s \in Source, Pipe(a, s) PROVE AttemptsInOrder'
  <2>1. UNCHANGED <<pc, tgt>> /\ pc[a] = "cycle"
    BY <1>6, PipeFrame DEF attemptVars
  <2>2. \A b \in Attempt : b # a => work'[b] = work[b]
    BY <1>6 DEF Pipe, Pipeline, StartSource, BeginRun, Scrape, WriteRecord, FinishRun, SaveCheckpoint,
                SourceFails, Lose, TypeOK
  <2>3. \A b \in Attempt : pc'[b] = pc[b] /\ (pc[b] \in {"new", "claimed"} => work'[b] = work[b])
    BY <2>1, <2>2
  <2>. QED
    BY <2>1, <2>3, Retires
<1>. QED
  BY <1>1, <1>2, <1>3, <1>4, <1>5, <1>6 DEF Next, vars, AllUsed, Rows, Turns, Cycle, Pipe

-----------------------------------------------------------------------------
(* What a cursor or a report says was dealt with.                            *)

\* Writes only add: what was dealt with stays dealt with.
LEMMA CoveredStays ==
  ASSUME TypeOK, TypeOK', \A t \in Source, r \in Record : stored'[t][r] >= stored[t][r],
         NEW s \in Source, NEW n \in 0 .. Records, NEW w \in Nat, Covered(s, n, w)
  PROVE  \A r \in 1 .. n : stored'[s][r] >= w
<1>1. \A r \in Record : stored[s][r] \in Nat /\ stored'[s][r] \in Nat
  BY DEF TypeOK, Sweep
<1>2. \A r \in 1 .. n : r \in Record
  BY FeedAssumption DEF Record
<1>. HIDE DEF Record
<1>3. ASSUME NEW r \in 1 .. n PROVE stored'[s][r] >= w
  <2>1. r \in Record /\ stored[s][r] >= w
    BY <1>2, <1>3 DEF Covered
  <2>2. stored'[s][r] >= stored[s][r] /\ stored[s][r] \in Nat /\ stored'[s][r] \in Nat
    BY <1>1, <2>1
  <2>. QED
    BY <2>1, <2>2
<1>. QED
  BY <1>3

\* The steps outside the sources leave all of it as it was.
LEMMA QuietCovers ==
  ASSUME TypeOK, AttemptsInOrder, CursorsCovered, ReportsCovered, FullSweepHonest, SweepsStarted, Quiet
  PROVE  CursorsCovered' /\ ReportsCovered' /\ FullSweepHonest' /\ SweepsStarted'
<1>1. UNCHANGED <<ckpt, stored, sweeps>>
  BY DEF Quiet
<1>2. Unused.next = 0 /\ Unused.sweep = 0
  BY DEF Unused
<1>3. \A p \in Process : \/ collector'[p] = collector[p]
                         \/ \A s \in Source : collector'[p][s].next = 0 /\ collector'[p][s].sweep = 0
  BY <1>2 DEF Quiet
<1>4. CursorsCovered'
  <2>1. ASSUME NEW p \in Process, NEW s \in Source
        PROVE  /\ \A r \in 1 .. collector'[p][s].next : stored'[s][r] >= collector'[p][s].sweep
               /\ collector'[p][s].sweep = 0 => collector'[p][s].next = 0
               /\ s \notin Resumable => collector'[p][s].next = 0
    <3>1. CASE collector'[p] = collector[p]
      BY <1>1, <3>1 DEF CursorsCovered, Covered
    <3>2. CASE collector'[p][s].next = 0
      <4>1. 1 .. 0 = {}
        OBVIOUS
      <4>. QED
        BY <3>2, <4>1
    <3>. QED
      BY <1>3, <3>1, <3>2
  <2>2. ASSUME NEW s \in Source
        PROVE  /\ \A r \in 1 .. ckpt'[s].next : stored'[s][r] >= ckpt'[s].sweep
               /\ ckpt'[s].sweep = 0 => ckpt'[s].next = 0
    BY <1>1 DEF CursorsCovered, Covered
  <2>. QED
    BY <2>1, <2>2 DEF CursorsCovered, Covered
<1>5. ReportsCovered'
  <2>. SUFFICES ASSUME NEW a \in Attempt, NEW s \in Source, pc'[a] = "cycle",
                       work'[a][s].at \in {"writing", "saving"}
                PROVE  /\ work'[a][s] = work[a][s] /\ pc[a] = "cycle"
                       /\ collector'[ProcessOf[a]] = collector[ProcessOf[a]]
    BY <1>1 DEF ReportsCovered, Reported
  <2>1. work'[a] = work[a]
    BY DEF Quiet
  <2>2. pc[a] # "claimed"
    BY <2>1, AtRest DEF AttemptsInOrder
  <2>3. ProcessOf[a] \in Process
    BY ScopeAssumption
  <2>. QED
    BY <2>1, <2>2, <2>3 DEF Quiet
<1>6. FullSweepHonest'
  <2>. SUFFICES ASSUME NEW j \in Job, NEW s \in Source, run'[j][s].status = "complete"
                PROVE  run'[j][s] = run[j][s]
    BY <1>1 DEF FullSweepHonest
  <2>1. ASSUME NEW k \in Job, NEW t \in Source, SweepRun(k, t) PROVE run'[j][s] = run[j][s]
    <3>. DEFINE row == [run[k][t] EXCEPT !.status = "failed"]
    <3>1. run[k][t] \in RunRow /\ run \in [Job -> [Source -> RunRow]]
      BY DEF TypeOK
    <3>2. row \in RunRow /\ row.status = "failed"
      BY <3>1 DEF RunRow
    <3>3. run' = [run EXCEPT ![k][t] = row]
      BY <2>1 DEF SweepRun
    <3>. HIDE DEF row
    <3>4. run'[j][s] = IF j = k /\ s = t THEN row ELSE run[j][s]
      BY <3>1, <3>2, <3>3, Cell
    <3>. QED
      BY <3>2, <3>4
  <2>. QED
    BY <2>1 DEF Quiet
<1>7. SweepsStarted'
  <2>0. 0 <= sweeps
    BY DEF TypeOK
  <2>1. ASSUME NEW p \in Process, NEW s \in Source PROVE collector'[p][s].sweep <= sweeps'
    <3>1. collector[p][s].sweep <= sweeps
      BY DEF SweepsStarted
    <3>2. collector'[p][s].sweep \in {collector[p][s].sweep, 0}
      BY <1>3
    <3>. QED
      BY <1>1, <2>0, <3>1, <3>2
  <2>2. ASSUME NEW a \in Attempt, NEW s \in Source PROVE work'[a][s].sweep <= sweeps'
    <3>1. work[a][s].sweep <= sweeps
      BY DEF SweepsStarted
    <3>2. work'[a] = work[a] \/ work'[a] = Untouched
      BY DEF Quiet
    <3>3. work'[a][s].sweep \in {work[a][s].sweep, 0}
      BY <3>2, AtRest
    <3>. QED
      BY <1>1, <2>0, <3>1, <3>3
  <2>3. \A s \in Source : ckpt'[s].sweep <= sweeps'
    BY <1>1 DEF SweepsStarted
  <2>. QED
    BY <2>1, <2>2, <2>3 DEF SweepsStarted
<1>. QED
  BY <1>4, <1>5, <1>6, <1>7

\* A step of the sources that moves no cursor and stores nothing less leaves the
\* reports of the other sources and attempts as they were.
LEMMA OthersReport ==
  ASSUME TypeOK, TypeOK', AttemptsInOrder, ReportsCovered, UNCHANGED attemptVars,
         NEW a \in Attempt, NEW s \in Source, NEW x \in Work, Becomes(a, s, x), pc[a] = "cycle",
         \A t \in Source, r \in Record : stored'[t][r] >= stored[t][r],
         NEW c2 \in Collector, collector' = [collector EXCEPT ![ProcessOf[a]][s] = c2],
         x.at \in {"writing", "saving"} =>
           /\ c2.sweep # 0
           /\ x.at = "writing" => x.sweep = c2.sweep
           /\ x.at = "saving" => x.todo = {}
           /\ \A r \in 1 .. c2.end : r \in x.todo \/ stored'[s][r] >= c2.sweep
           /\ ~c2.missed => \A r \in Record : r \in x.todo \/ stored'[s][r] >= c2.sweep
  PROVE  ReportsCovered'
<1>1. /\ work'[a][s] = x
      /\ \A b \in Attempt, t \in Source : b # a \/ t # s => work'[b][t] = work[b][t]
  BY BecomesCell
<1>2. /\ ProcessOf[a] \in Process /\ \A b \in Attempt : ProcessOf[b] \in Process
      /\ \A p \in Process, t \in Source : collector'[p][t] = IF p = ProcessOf[a] /\ t = s THEN c2 ELSE collector[p][t]
  BY ScopeAssumption, Cell DEF TypeOK
<1>3. pc' = pc
  BY DEF attemptVars
<1>. SUFFICES ASSUME NEW b \in Attempt, NEW t \in Source, pc[b] = "cycle", work'[b][t].at \in {"writing", "saving"}
              PROVE  LET c == collector'[ProcessOf[b]][t]
                         w == work'[b][t]
                     IN  /\ c.sweep # 0
                         /\ w.at = "writing" => w.sweep = c.sweep
                         /\ w.at = "saving" => w.todo = {}
                         /\ \A r \in 1 .. c.end : r \in w.todo \/ stored'[t][r] >= c.sweep
                         /\ ~c.missed => \A r \in Record : r \in w.todo \/ stored'[t][r] >= c.sweep
  BY <1>3 DEF ReportsCovered, Reported
<1>4. CASE b = a /\ t = s
  <2>1. collector'[ProcessOf[b]][t] = c2 /\ work'[b][t] = x
    BY <1>1, <1>2, <1>4
  <2>2. x.at \in {"writing", "saving"}
    BY <2>1
  <2>. QED
    BY <1>4, <2>1, <2>2
<1>5. CASE ~(b = a /\ t = s)
  <2>. DEFINE c == collector[ProcessOf[b]][t]
              w == work[b][t]
  <2>1. ~(ProcessOf[b] = ProcessOf[a] /\ t = s)
    BY <1>5 DEF AttemptsInOrder
  <2>2. collector'[ProcessOf[b]][t] = c /\ work'[b][t] = w
    BY <1>1, <1>2, <1>5, <2>1
  <2>3. /\ c.sweep # 0
        /\ w.at = "writing" => w.sweep = c.sweep
        /\ w.at = "saving" => w.todo = {}
        /\ \A r \in 1 .. c.end : r \in w.todo \/ stored[t][r] >= c.sweep
        /\ ~c.missed => \A r \in Record : r \in w.todo \/ stored[t][r] >= c.sweep
    BY <2>2 DEF ReportsCovered, Reported
  <2>4. c \in Collector
    BY <1>2 DEF TypeOK
  <2>5. c.end \in 0 .. Records /\ c.sweep \in Nat
    BY <2>4 DEF Collector
  <2>6. \A r \in 1 .. c.end : r \in Record
    BY <2>5, FeedAssumption DEF Record
  <2>7. \A r \in Record : stored[t][r] \in Nat /\ stored'[t][r] \in Nat
    BY DEF TypeOK, Sweep
  <2>. HIDE DEF c, w, Record
  <2>8. ASSUME NEW r \in Record, stored[t][r] >= c.sweep PROVE stored'[t][r] >= c.sweep
    <3>1. stored'[t][r] >= stored[t][r] /\ stored[t][r] \in Nat /\ stored'[t][r] \in Nat
      BY <2>7
    <3>. QED
      BY <2>5, <2>8, <3>1
  <2>9. \A r \in 1 .. c.end : r \in w.todo \/ stored'[t][r] >= c.sweep
    BY <2>3, <2>6, <2>8
  <2>10. ~c.missed => \A r \in Record : r \in w.todo \/ stored'[t][r] >= c.sweep
    BY <2>3, <2>8
  <2>. QED
    BY <2>2, <2>3, <2>9, <2>10
<1>. QED
  BY <1>4, <1>5

\* The cursors that a step does not move stay covered.
LEMMA CursorsStay ==
  ASSUME TypeOK, TypeOK', CursorsCovered, \A t \in Source, r \in Record : stored'[t][r] >= stored[t][r],
         \A s \in Source : \/ ckpt'[s] = ckpt[s]
                           \/ /\ \A r \in 1 .. ckpt'[s].next : stored'[s][r] >= ckpt'[s].sweep
                              /\ ckpt'[s].sweep = 0 => ckpt'[s].next = 0,
         \A p \in Process, s \in Source :
           \/ collector'[p][s].next = collector[p][s].next /\ collector'[p][s].sweep = collector[p][s].sweep
           \/ /\ \A r \in 1 .. collector'[p][s].next : stored'[s][r] >= collector'[p][s].sweep
              /\ collector'[p][s].sweep = 0 => collector'[p][s].next = 0
              /\ s \notin Resumable => collector'[p][s].next = 0
  PROVE  CursorsCovered'
<1>1. ASSUME NEW s \in Source
      PROVE  /\ \A r \in 1 .. ckpt'[s].next : stored'[s][r] >= ckpt'[s].sweep
             /\ ckpt'[s].sweep = 0 => ckpt'[s].next = 0
  <2>. DEFINE k == ckpt[s]
  <2>1. CASE ckpt'[s] = k
    <3>1. k.next \in 0 .. Records /\ k.sweep \in Nat /\ Covered(s, k.next, k.sweep) /\ (k.sweep = 0 => k.next = 0)
      BY DEF TypeOK, Cursor, CursorsCovered
    <3>2. \A r \in 1 .. k.next : stored'[s][r] >= k.sweep
      BY <3>1, CoveredStays
    <3>. QED
      BY <2>1, <3>1, <3>2
  <2>. QED
    BY <2>1
<1>2. ASSUME NEW p \in Process, NEW s \in Source
      PROVE  /\ \A r \in 1 .. collector'[p][s].next : stored'[s][r] >= collector'[p][s].sweep
             /\ collector'[p][s].sweep = 0 => collector'[p][s].next = 0
             /\ s \notin Resumable => collector'[p][s].next = 0
  <2>. DEFINE k == collector[p][s]
  <2>1. CASE collector'[p][s].next = k.next /\ collector'[p][s].sweep = k.sweep
    <3>1. /\ k.next \in 0 .. Records /\ k.sweep \in Nat /\ Covered(s, k.next, k.sweep)
          /\ k.sweep = 0 => k.next = 0
          /\ s \notin Resumable => k.next = 0
      BY DEF TypeOK, Collector, CursorsCovered
    <3>2. \A r \in 1 .. k.next : stored'[s][r] >= k.sweep
      BY <3>1, CoveredStays
    <3>. QED
      BY <2>1, <3>1, <3>2
  <2>. QED
    BY <2>1
<1>. QED
  BY <1>1, <1>2 DEF CursorsCovered, Covered

\* A run that is not finished by a step stays an honest one.
LEMMA FullSweepStays ==
  ASSUME TypeOK, TypeOK', FullSweepHonest, \A t \in Source, r \in Record : stored'[t][r] >= stored[t][r],
         \A j \in Job, s \in Source :
           \/ run'[j][s] = run[j][s]
           \/ run'[j][s].status = "complete" => \A r \in Record : stored'[s][r] >= run'[j][s].sweep
  PROVE  FullSweepHonest'
<1>. SUFFICES ASSUME NEW j \in Job, NEW s \in Source, run'[j][s].status = "complete" /\ run'[j][s].full,
                     NEW r \in Record
              PROVE  stored'[s][r] >= run'[j][s].sweep
  BY DEF FullSweepHonest
<1>1. CASE run'[j][s] = run[j][s]
  <2>1. run[j][s] \in RunRow
    BY DEF TypeOK
  <2>2. run[j][s].sweep \in Nat
    BY <2>1 DEF RunRow
  <2>3. stored[s][r] \in Nat /\ stored'[s][r] \in Nat
    BY DEF TypeOK, Sweep
  <2>4. stored[s][r] >= run[j][s].sweep
    BY <1>1 DEF FullSweepHonest
  <2>5. stored'[s][r] >= stored[s][r]
    OBVIOUS
  <2>. QED
    BY <1>1, <2>2, <2>3, <2>4, <2>5
<1>. QED
  BY <1>1

\* A step of a source that sets no collector, stores nothing and moves no
\* checkpoint, and whose work is not a report after it.
LEMMA PlainCovers ==
  ASSUME TypeOK, TypeOK', AttemptsInOrder, CursorsCovered, ReportsCovered, FullSweepHonest,
         UNCHANGED <<ckpt, stored, collector, attemptVars>>,
         NEW a \in Attempt, NEW s \in Source, pc[a] = "cycle",
         NEW x \in Work, Becomes(a, s, x), x.at \notin {"writing", "saving"},
         run' = run \/ (tgt[a] \in Job /\ \E row \in RunRow : row.status # "complete" /\ run' = [run EXCEPT ![tgt[a]][s] = row])
  PROVE  CursorsCovered' /\ ReportsCovered' /\ FullSweepHonest'
<1>1. \A t \in Source, r \in Record : stored'[t][r] >= stored[t][r]
  BY DEF TypeOK, Sweep
<1>2. CursorsCovered'
  BY <1>1, CursorsStay
<1>3. ReportsCovered'
  <2>1. collector[ProcessOf[a]][s] \in Collector /\ collector' = [collector EXCEPT ![ProcessOf[a]][s] = collector[ProcessOf[a]][s]]
    BY InScope DEF TypeOK
  <2>. QED
    BY <1>1, <2>1, OthersReport
<1>4. \A j \in Job, t \in Source : run'[j][t] = run[j][t] \/ run'[j][t].status # "complete"
  <2>1. CASE run' = run
    BY <2>1
  <2>2. ASSUME tgt[a] \in Job, NEW row \in RunRow, row.status # "complete", run' = [run EXCEPT ![tgt[a]][s] = row]
        PROVE  \A j \in Job, t \in Source : run'[j][t] = run[j][t] \/ run'[j][t].status # "complete"
    BY <2>2, Cell DEF TypeOK
  <2>. QED
    BY <2>1, <2>2
<1>5. FullSweepHonest'
  BY <1>1, <1>4, FullSweepStays
<1>. QED
  BY <1>2, <1>3, <1>5

\* Each step of a source keeps cursors, reports and full sweeps covered.
LEMMA PipeCovers ==
  ASSUME TypeOK, SweepsStarted, AttemptsInOrder, CursorsCovered, ReportsCovered, FullSweepHonest,
         NEW a \in Attempt, NEW s \in Source, Pipe(a, s)
  PROVE  CursorsCovered' /\ ReportsCovered' /\ FullSweepHonest'
<1>. DEFINE p == ProcessOf[a]
            c == collector[p][s]
            w == work[a][s]
<1>1. pc[a] = "cycle" /\ tgt[a] \in Job /\ s \in Scope[tgt[a]] /\ UNCHANGED attemptVars
  BY PipeFrame DEF AttemptsInOrder
<1>2. TypeOK'
  BY <1>1, PipeType
<1>3. w \in Work /\ p \in Process /\ c \in Collector /\ ckpt[s] \in Cursor
  BY InScope
<1>4. c.next \in 0 .. Records /\ c.end \in 0 .. Records /\ c.sweep \in Nat /\ w.sweep \in Nat
      /\ ckpt[s].next \in 0 .. Records /\ ckpt[s].sweep \in Nat
  BY <1>3 DEF Collector, Work, Cursor
<1>5. stored' = stored => \A t \in Source, r \in Record : stored'[t][r] >= stored[t][r]
  BY DEF TypeOK, Sweep
<1>6. UNCHANGED collector => collector' = [collector EXCEPT ![p][s] = c]
  BY DEF TypeOK
<1>7. /\ Covered(s, c.next, c.sweep) /\ (c.sweep = 0 => c.next = 0) /\ (s \notin Resumable => c.next = 0)
      /\ Covered(s, ckpt[s].next, ckpt[s].sweep) /\ (ckpt[s].sweep = 0 => ckpt[s].next = 0)
  BY <1>3 DEF CursorsCovered
<1>8. w.at \in {"writing", "saving"} =>
        /\ c.sweep # 0
        /\ w.at = "writing" => w.sweep = c.sweep
        /\ w.at = "saving" => w.todo = {}
        /\ \A r \in 1 .. c.end : r \in w.todo \/ stored[s][r] >= c.sweep
        /\ ~c.missed => \A r \in Record : r \in w.todo \/ stored[s][r] >= c.sweep
  BY <1>1 DEF ReportsCovered, Reported
<1>9. \A v \in {"lost", "ready", "begun", "ok"} :
        LET y == [w EXCEPT !.at = v] IN y \in Work /\ y.at = v
  BY <1>3, WorkAt DEF InFlight, Finished
<1>. HIDE DEF w, c, p, Record
<1>10. CASE Lost(a, s)
  <2>. DEFINE x == [w EXCEPT !.at = "lost"]
  <2>1. x \in Work /\ x.at = "lost"
    BY <1>9
  <2>2. UNCHANGED <<run, ckpt, stored, collector>> /\ Becomes(a, s, x)
    BY <1>10 DEF Lost, durable, w
  <2>. HIDE DEF x
  <2>. QED
    BY <1>1, <1>2, <2>1, <2>2, PlainCovers
<1>11. ASSUME StartSource(a, s), ~Lost(a, s) PROVE CursorsCovered' /\ ReportsCovered' /\ FullSweepHonest'
  <2>1. PICK c2 \in Collector :
          /\ Becomes(a, s, [w EXCEPT !.at = "ready"])
          /\ collector' = [collector EXCEPT ![p][s] = c2]
          /\ \/ c2.next = c.next /\ c2.sweep = c.sweep
             \/ s \in Resumable /\ c2.next = ckpt[s].next /\ c2.sweep = ckpt[s].sweep
          /\ UNCHANGED <<jobVars, durable, sweeps, attemptVars>>
    BY <1>11, StartEffect, Zenon DEF w, c, p
  <2>2. UNCHANGED <<run, ckpt, stored>>
    BY <2>1 DEF durable
  <2>. DEFINE x == [w EXCEPT !.at = "ready"]
  <2>3. x \in Work /\ x.at = "ready" /\ Becomes(a, s, x)
    BY <1>9, <2>1
  <2>. HIDE DEF x
  <2>4. \A t \in Source, r \in Record : stored'[t][r] >= stored[t][r]
    BY <1>5, <2>2
  <2>5. /\ collector'[p][s] = c2
        /\ \A q \in Process, t \in Source : q # p \/ t # s => collector'[q][t] = collector[q][t]
    BY <1>3, <2>1, Cell DEF TypeOK
  <2>6. \/ c2.next = c.next /\ c2.sweep = c.sweep
        \/ /\ \A r \in 1 .. c2.next : stored'[s][r] >= c2.sweep
           /\ c2.sweep = 0 => c2.next = 0
           /\ s \notin Resumable => c2.next = 0
    BY <1>7, <2>1, <2>2 DEF Covered
  <2>7. CursorsCovered'
    <3>1. ASSUME NEW q \in Process, NEW t \in Source
          PROVE  \/ collector'[q][t].next = collector[q][t].next /\ collector'[q][t].sweep = collector[q][t].sweep
                 \/ /\ \A r \in 1 .. collector'[q][t].next : stored'[t][r] >= collector'[q][t].sweep
                    /\ collector'[q][t].sweep = 0 => collector'[q][t].next = 0
                    /\ t \notin Resumable => collector'[q][t].next = 0
      <4>1. CASE q = p /\ t = s
        BY <2>5, <2>6, <4>1 DEF c
      <4>. QED
        BY <2>5, <4>1
    <3>. QED
      BY <1>2, <2>2, <2>4, <3>1, CursorsStay
  <2>8. ReportsCovered'
    BY <1>1, <1>2, <2>1, <2>3, <2>4, OthersReport DEF p
  <2>9. FullSweepHonest'
    BY <1>2, <2>2, <2>4, FullSweepStays
  <2>. QED
    BY <2>7, <2>8, <2>9
<1>12. ASSUME BeginRun(a, s), ~Lost(a, s) PROVE CursorsCovered' /\ ReportsCovered' /\ FullSweepHonest'
  <2>1. /\ Becomes(a, s, [w EXCEPT !.at = "begun"])
        /\ run' = run \/ \E row \in RunRow : row.status # "complete" /\ run' = [run EXCEPT ![tgt[a]][s] = row]
        /\ UNCHANGED <<ckpt, stored, collector>>
    <3>1. /\ Becomes(a, s, [w EXCEPT !.at = "begun"])
          /\ \/ run' = run
             \/ \E row \in RunRow : row.status = "running" /\ run[tgt[a]][s].status = "none"
                                 /\ run' = [run EXCEPT ![tgt[a]][s] = row]
          /\ UNCHANGED <<jobVars, ckpt, stored, sweeps, collector, attemptVars>>
      BY <1>1, <1>12, BeginEffect, Zenon DEF w
    <3>. QED
      BY <3>1
  <2>. DEFINE x == [w EXCEPT !.at = "begun"]
  <2>2. x \in Work /\ x.at = "begun" /\ Becomes(a, s, x)
    BY <1>9, <2>1
  <2>. HIDE DEF x
  <2>. QED
    BY <1>1, <1>2, <2>1, <2>2, PlainCovers
<1>13. ASSUME Scrape(a, s) PROVE CursorsCovered' /\ ReportsCovered' /\ FullSweepHonest'
  <2>1. PICK x \in Work, c2 \in Collector :
          /\ Becomes(a, s, x)
          /\ x.at = "writing" /\ x.sweep = c2.sweep
          /\ collector' = [collector EXCEPT ![p][s] = c2]
          /\ c2.next = c.next
          /\ \/ sweeps' = sweeps /\ c2.sweep = c.sweep /\ c.sweep # 0
             \/ /\ sweeps' = sweeps + 1 /\ c2.sweep = sweeps + 1
                /\ s \in Resumable => c.sweep = 0
          /\ s \in Resumable =>
               /\ \A r \in 1 .. c2.end : r \in 1 .. c.next \/ r \in x.todo
               /\ ~c2.missed => \A r \in Record : r \in 1 .. c.next \/ r \in x.todo
          /\ s \notin Resumable => c2.end = 0 /\ (~c2.missed => Record \subseteq x.todo)
          /\ UNCHANGED <<jobVars, durable, attemptVars>>
    BY <1>13, ScrapeEffect DEF p, c
  <2>2. UNCHANGED <<run, ckpt, stored>>
    BY <2>1 DEF durable
  <2>3. \A t \in Source, r \in Record : stored'[t][r] >= stored[t][r]
    BY <1>5, <2>2
  <2>4. c2.sweep \in Nat /\ c2.sweep # 0
    BY <1>4, <2>1 DEF TypeOK
  <2>5. \/ c2.next = c.next /\ c2.sweep = c.sweep
        \/ c.next = 0 /\ c2.next = 0
    BY <1>7, <2>1
  <2>6. \A r \in 1 .. c.next : stored[s][r] >= c2.sweep
    <3>1. CASE c2.sweep = c.sweep
      BY <1>7, <3>1 DEF Covered
    <3>2. CASE c.next = 0
      BY <3>2
    <3>. QED
      BY <2>5, <3>1, <3>2
  <2>7. /\ \A r \in 1 .. c2.end : r \in x.todo \/ stored'[s][r] >= c2.sweep
        /\ ~c2.missed => \A r \in Record : r \in x.todo \/ stored'[s][r] >= c2.sweep
    <3>1. CASE s \in Resumable
      <4>1. /\ \A r \in 1 .. c2.end : r \in 1 .. c.next \/ r \in x.todo
            /\ ~c2.missed => \A r \in Record : r \in 1 .. c.next \/ r \in x.todo
        BY <2>1, <3>1
      <4>. QED
        BY <2>2, <2>6, <4>1
    <3>2. CASE s \notin Resumable
      <4>1. c2.end = 0 /\ (~c2.missed => Record \subseteq x.todo)
        BY <2>1, <3>2
      <4>2. 1 .. 0 = {}
        OBVIOUS
      <4>. QED
        BY <4>1, <4>2
    <3>. QED
      BY <3>1, <3>2
  <2>8. ReportsCovered'
    BY <1>1, <1>2, <2>1, <2>3, <2>4, <2>7, OthersReport DEF p
  <2>9. /\ collector'[p][s] = c2
        /\ \A q \in Process, t \in Source : q # p \/ t # s => collector'[q][t] = collector[q][t]
    BY <1>3, <2>1, Cell DEF TypeOK
  <2>10. CursorsCovered'
    <3>1. 1 .. 0 = {}
      OBVIOUS
    <3>2. ASSUME NEW q \in Process, NEW t \in Source
          PROVE  \/ collector'[q][t].next = collector[q][t].next /\ collector'[q][t].sweep = collector[q][t].sweep
                 \/ /\ \A r \in 1 .. collector'[q][t].next : stored'[t][r] >= collector'[q][t].sweep
                    /\ collector'[q][t].sweep = 0 => collector'[q][t].next = 0
                    /\ t \notin Resumable => collector'[q][t].next = 0
      <4>1. CASE q = p /\ t = s
        BY <2>5, <2>9, <3>1, <4>1 DEF c
      <4>. QED
        BY <2>9, <4>1
    <3>. QED
      BY <1>2, <2>2, <2>3, <3>2, CursorsStay
  <2>11. FullSweepHonest'
    BY <1>2, <2>2, <2>3, FullSweepStays
  <2>. QED
    BY <2>8, <2>10, <2>11
<1>14. ASSUME WriteRecord(a, s), ~Lost(a, s) PROVE CursorsCovered' /\ ReportsCovered' /\ FullSweepHonest'
  <2>1. PICK x \in Work : \E r :
          /\ Becomes(a, s, x)
          /\ x.at = "writing" /\ x.sweep = w.sweep /\ x.todo = w.todo \ {r}
          /\ stored' = [stored EXCEPT ![s][r] = Newer(@, w.sweep)]
          /\ UNCHANGED <<jobVars, run, ckpt, sweeps, collector, attemptVars>>
    BY <1>14, WriteEffect DEF w
  <2>2. PICK r :
          /\ Becomes(a, s, x)
          /\ x.at = "writing" /\ x.sweep = w.sweep /\ x.todo = w.todo \ {r}
          /\ stored' = [stored EXCEPT ![s][r] = Newer(@, w.sweep)]
          /\ UNCHANGED <<jobVars, run, ckpt, sweeps, collector, attemptVars>>
    BY <2>1
  <2>3. w.at = "writing"
    BY <1>14, WriteEffect DEF Acts, w
  <2>4. w.sweep <= sweeps
    BY DEF SweepsStarted, w
  <2>5. /\ \A t \in Source, q \in Record : stored'[t][q] >= stored[t][q]
        /\ r \in Record => stored'[s][r] >= w.sweep
    BY <1>4, <2>2, <2>4, StoredCell
  <2>6. /\ c.sweep # 0 /\ w.sweep = c.sweep
        /\ \A q \in 1 .. c.end : q \in w.todo \/ stored[s][q] >= c.sweep
        /\ ~c.missed => \A q \in Record : q \in w.todo \/ stored[s][q] >= c.sweep
    BY <1>8, <2>3
  <2>7. ASSUME NEW q \in Record, q \in w.todo \/ stored[s][q] >= c.sweep
        PROVE  q \in x.todo \/ stored'[s][q] >= c.sweep
    <3>1. CASE stored[s][q] >= c.sweep
      <4>1. stored[s][q] \in Nat /\ stored'[s][q] \in Nat
        BY <1>2 DEF TypeOK, Sweep
      <4>2. stored'[s][q] >= stored[s][q]
        BY <2>5
      <4>. QED
        BY <1>4, <3>1, <4>1, <4>2
    <3>2. CASE q \in w.todo
      <4>1. CASE q = r
        BY <2>5, <2>6, <4>1
      <4>2. CASE q # r
        BY <2>2, <3>2, <4>2
      <4>. QED
        BY <4>1, <4>2
    <3>. QED
      BY <2>7, <3>1, <3>2
  <2>8. \A q \in 1 .. c.end : q \in Record
    BY <1>4, FeedAssumption DEF Record
  <2>9. /\ \A q \in 1 .. c.end : q \in x.todo \/ stored'[s][q] >= c.sweep
        /\ ~c.missed => \A q \in Record : q \in x.todo \/ stored'[s][q] >= c.sweep
    BY <2>6, <2>7, <2>8
  <2>10. collector' = [collector EXCEPT ![p][s] = c]
    BY <1>6, <2>2
  <2>11. ReportsCovered'
    <3>1. x.at \in {"writing", "saving"} =>
            /\ c.sweep # 0
            /\ x.at = "writing" => x.sweep = c.sweep
            /\ x.at = "saving" => x.todo = {}
            /\ \A q \in 1 .. c.end : q \in x.todo \/ stored'[s][q] >= c.sweep
            /\ ~c.missed => \A q \in Record : q \in x.todo \/ stored'[s][q] >= c.sweep
      BY <2>2, <2>6, <2>9
    <3>2. Becomes(a, s, x) /\ UNCHANGED attemptVars
      BY <2>2
    <3>. QED
      BY <1>1, <1>2, <1>3, <2>5, <2>10, <3>1, <3>2, OthersReport DEF p
  <2>12. CursorsCovered'
    BY <1>2, <2>2, <2>5, CursorsStay
  <2>13. FullSweepHonest'
    BY <1>2, <2>2, <2>5, FullSweepStays
  <2>. QED
    BY <2>11, <2>12, <2>13
<1>15. ASSUME FinishRun(a, s), ~Lost(a, s) PROVE CursorsCovered' /\ ReportsCovered' /\ FullSweepHonest'
  <2>1. PICK x \in Work, row \in RunRow :
          /\ Becomes(a, s, x)
          /\ x.at = "saving" /\ x.sweep = w.sweep /\ x.todo = {} /\ w.todo = {}
          /\ Holds(a)
          /\ run' = [run EXCEPT ![tgt[a]][s] = row]
          /\ row.status \in {"complete", "partial"} /\ row.sweep = c.sweep
          /\ row.status = "complete" => ~c.missed
          /\ UNCHANGED <<jobVars, ckpt, stored, sweeps, collector, attemptVars>>
    BY <1>1, <1>15, FinishEffect DEF w, c, p
  <2>2. w.at = "writing"
    BY <1>1, <1>15, FinishEffect DEF Acts, w
  <2>3. \A t \in Source, r \in Record : stored'[t][r] >= stored[t][r]
    BY <1>5, <2>1
  <2>4. /\ c.sweep # 0
        /\ \A r \in 1 .. c.end : stored'[s][r] >= c.sweep
        /\ ~c.missed => \A r \in Record : stored'[s][r] >= c.sweep
    BY <1>8, <2>1, <2>2
  <2>5. ReportsCovered'
    <3>1. collector' = [collector EXCEPT ![p][s] = c]
      BY <1>6, <2>1
    <3>2. x.at \in {"writing", "saving"} =>
            /\ c.sweep # 0
            /\ x.at = "writing" => x.sweep = c.sweep
            /\ x.at = "saving" => x.todo = {}
            /\ \A q \in 1 .. c.end : q \in x.todo \/ stored'[s][q] >= c.sweep
            /\ ~c.missed => \A q \in Record : q \in x.todo \/ stored'[s][q] >= c.sweep
      BY <2>1, <2>4
    <3>3. Becomes(a, s, x) /\ UNCHANGED attemptVars
      BY <2>1
    <3>. QED
      BY <1>1, <1>2, <1>3, <2>3, <3>1, <3>2, <3>3, OthersReport DEF p
  <2>6. CursorsCovered'
    BY <1>2, <2>1, <2>3, CursorsStay
  <2>7. FullSweepHonest'
    <3>1. /\ run'[tgt[a]][s] = row
          /\ \A j \in Job, t \in Source : j # tgt[a] \/ t # s => run'[j][t] = run[j][t]
      BY <1>1, <2>1, Cell DEF TypeOK
    <3>2. row.status = "complete" => \A r \in Record : stored'[s][r] >= row.sweep
      BY <2>1, <2>4
    <3>3. ASSUME NEW j \in Job, NEW t \in Source
          PROVE  \/ run'[j][t] = run[j][t]
                 \/ run'[j][t].status = "complete" => \A r \in Record : stored'[t][r] >= run'[j][t].sweep
      BY <3>1, <3>2
    <3>. QED
      BY <1>2, <2>3, <3>3, FullSweepStays
  <2>. QED
    BY <2>5, <2>6, <2>7
<1>16. ASSUME SaveCheckpoint(a, s), ~Lost(a, s) PROVE CursorsCovered' /\ ReportsCovered' /\ FullSweepHonest'
  <2>1. /\ Becomes(a, s, [w EXCEPT !.at = "ok"]) /\ ckpt' = [ckpt EXCEPT ![s] = CursorOf(c)]
        /\ UNCHANGED <<jobVars, run, stored, sweeps, collector, attemptVars>>
    BY <1>16, SaveEffect DEF w, c, p
  <2>2. w.at = "saving"
    BY <1>16, SaveEffect DEF Acts, w
  <2>3. \A t \in Source, r \in Record : stored'[t][r] >= stored[t][r]
    BY <1>5, <2>1
  <2>. DEFINE x == [w EXCEPT !.at = "ok"]
  <2>4. x \in Work /\ x.at = "ok" /\ Becomes(a, s, x)
    BY <1>9, <2>1
  <2>. HIDE DEF x
  <2>5. c.sweep # 0 /\ \A r \in 1 .. c.end : stored'[s][r] >= c.sweep
    BY <1>8, <2>1, <2>2
  <2>. DEFINE k == CursorOf(c)
  <2>6. (\A r \in 1 .. k.next : stored'[s][r] >= k.sweep) /\ (k.sweep = 0 => k.next = 0)
    <3>1. CASE c.end # 0
      <4>1. k.next = c.end /\ k.sweep = c.sweep
        BY <3>1 DEF CursorOf
      <4>. QED
        BY <2>5, <4>1
    <3>2. CASE c.end = 0
      <4>1. k.next = 0
        BY <3>2 DEF CursorOf, Start
      <4>2. 1 .. 0 = {}
        OBVIOUS
      <4>. QED
        BY <4>1, <4>2
    <3>. QED
      BY <3>1, <3>2
  <2>7. \A t \in Source : ckpt'[t] = IF t = s THEN k ELSE ckpt[t]
    BY <2>1 DEF TypeOK
  <2>. HIDE DEF k
  <2>8. CursorsCovered'
    BY <1>2, <2>1, <2>3, <2>6, <2>7, CursorsStay
  <2>9. ReportsCovered'
    <3>1. collector' = [collector EXCEPT ![p][s] = c]
      BY <1>6, <2>1
    <3>. QED
      BY <1>1, <1>2, <1>3, <2>3, <2>4, <3>1, OthersReport DEF p
  <2>10. FullSweepHonest'
    BY <1>2, <2>1, <2>3, FullSweepStays
  <2>. QED
    BY <2>8, <2>9, <2>10
<1>17. ASSUME SourceFails(a, s), ~Lost(a, s) PROVE CursorsCovered' /\ ReportsCovered' /\ FullSweepHonest'
  <2>1. PICK x \in Work :
          /\ Becomes(a, s, x) /\ x.at = "failed"
          /\ \/ run' = run
             \/ \E row \in RunRow : /\ row.status = "failed" /\ Holds(a)
                                  /\ run' = [run EXCEPT ![tgt[a]][s] = row]
          /\ UNCHANGED <<jobVars, ckpt, stored, sweeps, collector, attemptVars>>
    BY <1>1, <1>17, FailEffect
  <2>2. run' = run \/ \E row \in RunRow : row.status # "complete" /\ run' = [run EXCEPT ![tgt[a]][s] = row]
    BY <2>1
  <2>. QED
    BY <1>1, <1>2, <2>1, <2>2, PlainCovers
<1>. QED
  BY <1>10, <1>11, <1>12, <1>13, <1>14, <1>15, <1>16, <1>17 DEF Pipe, Pipeline

-----------------------------------------------------------------------------
(* Outcomes.                                                                 *)

\* A step of a source changes at most that run, and only under its claim; a source
\* gets past its run only with the run's outcome recorded.
LEMMA PipeOutcome ==
  ASSUME TypeOK, NEW a \in Attempt, NEW s \in Source, tgt[a] \in Job, Pipe(a, s)
  PROVE  \E x \in Work :
           /\ Becomes(a, s, x)
           /\ \/ run' = run /\ (x.at \in {"saving", "ok"} => work[a][s].at = "saving")
              \/ \E row \in RunRow :
                   /\ Holds(a) /\ run' = [run EXCEPT ![tgt[a]][s] = row]
                   /\ x.at \in {"saving", "ok"} => row.status \in {"complete", "partial"}
<1>. DEFINE Goal == \E x \in Work :
           /\ Becomes(a, s, x)
           /\ \/ run' = run /\ (x.at \in {"saving", "ok"} => work[a][s].at = "saving")
              \/ \E row \in RunRow :
                   /\ Holds(a) /\ run' = [run EXCEPT ![tgt[a]][s] = row]
                   /\ x.at \in {"saving", "ok"} => row.status \in {"complete", "partial"}
<1>1. work[a][s] \in Work
  BY InScope
<1>2. \A v \in {"lost", "ready", "begun", "ok"} :
        LET y == [work[a][s] EXCEPT !.at = v] IN y \in Work /\ y.at = v
  BY <1>1, WorkAt DEF InFlight, Finished
<1>3. ASSUME NEW v \in {"lost", "ready", "begun"}, Becomes(a, s, [work[a][s] EXCEPT !.at = v]),
             run' = run \/ \E row \in RunRow : Holds(a) /\ run' = [run EXCEPT ![tgt[a]][s] = row]
      PROVE  Goal
  <2>. DEFINE y == [work[a][s] EXCEPT !.at = v]
  <2>1. y \in Work /\ y.at \notin {"saving", "ok"} /\ Becomes(a, s, y)
    BY <1>2, <1>3
  <2>. HIDE DEF y
  <2>. QED
    BY <1>3, <2>1
<1>4. CASE Lost(a, s)
  <2>1. Becomes(a, s, [work[a][s] EXCEPT !.at = "lost"]) /\ run' = run
    BY <1>4 DEF Lost, durable
  <2>. QED
    BY <1>3, <2>1
<1>5. ASSUME StartSource(a, s), ~Lost(a, s) PROVE Goal
  <2>1. Becomes(a, s, [work[a][s] EXCEPT !.at = "ready"]) /\ UNCHANGED durable
    BY <1>5, StartEffect, Zenon
  <2>2. run' = run
    BY <2>1 DEF durable
  <2>. QED
    BY <1>3, <2>1, <2>2
<1>6. ASSUME BeginRun(a, s), ~Lost(a, s) PROVE Goal
  <2>1. /\ Becomes(a, s, [work[a][s] EXCEPT !.at = "begun"])
        /\ run' = run \/ \E row \in RunRow : Holds(a) /\ run' = [run EXCEPT ![tgt[a]][s] = row]
    <3>1. /\ Becomes(a, s, [work[a][s] EXCEPT !.at = "begun"])
          /\ Holds(a)
          /\ \/ run' = run
             \/ \E row \in RunRow : row.status = "running" /\ run[tgt[a]][s].status = "none"
                                 /\ run' = [run EXCEPT ![tgt[a]][s] = row]
      BY <1>6, BeginEffect, Zenon
    <3>. QED
      BY <3>1, Zenon
  <2>. QED
    BY <1>3, <2>1
<1>7. ASSUME Scrape(a, s) PROVE Goal
  <2>1. PICK x \in Work : Becomes(a, s, x) /\ x.at = "writing" /\ UNCHANGED durable
    BY <1>7, ScrapeEffect
  <2>2. run' = run
    BY <2>1 DEF durable
  <2>. QED
    BY <2>1, <2>2
<1>8. ASSUME WriteRecord(a, s), ~Lost(a, s) PROVE Goal
  <2>1. PICK x \in Work : Becomes(a, s, x) /\ x.at = "writing" /\ run' = run
    BY <1>8, WriteEffect
  <2>. QED
    BY <2>1
<1>9. ASSUME FinishRun(a, s), ~Lost(a, s) PROVE Goal
  <2>1. PICK x \in Work, row \in RunRow :
          /\ Becomes(a, s, x) /\ Holds(a) /\ run' = [run EXCEPT ![tgt[a]][s] = row]
          /\ row.status \in {"complete", "partial"}
    BY <1>9, FinishEffect
  <2>. QED
    BY <2>1
<1>10. ASSUME SaveCheckpoint(a, s), ~Lost(a, s) PROVE Goal
  <2>. DEFINE y == [work[a][s] EXCEPT !.at = "ok"]
  <2>1. Becomes(a, s, y) /\ run' = run /\ work[a][s].at = "saving"
    BY <1>10, SaveEffect DEF Acts
  <2>2. y \in Work
    BY <1>2
  <2>. HIDE DEF y
  <2>. QED
    BY <2>1, <2>2
<1>11. ASSUME SourceFails(a, s), ~Lost(a, s) PROVE Goal
  <2>1. PICK x \in Work :
          /\ Becomes(a, s, x) /\ x.at = "failed"
          /\ \/ run' = run
             \/ \E row \in RunRow : /\ row.status = "failed" /\ Holds(a)
                                  /\ run' = [run EXCEPT ![tgt[a]][s] = row]
    BY <1>11, FailEffect
  <2>2. run' = run \/ \E row \in RunRow : Holds(a) /\ run' = [run EXCEPT ![tgt[a]][s] = row]
    BY <2>1
  <2>. QED
    BY <2>1, <2>2
<1>. QED
  BY <1>4, <1>5, <1>6, <1>7, <1>8, <1>9, <1>10, <1>11 DEF Pipe, Pipeline

\* The sweep of a run.
LEMMA SweepRunCell ==
  ASSUME TypeOK, NEW j \in Job, NEW s \in Source, SweepRun(j, s)
  PROVE  /\ run[j][s].status = "running" /\ Unaccounted(j)
         /\ run'[j][s].status = "failed"
         /\ \A k \in Job, t \in Source : k # j \/ t # s => run'[k][t] = run[k][t]
         /\ \A k \in Job : k # j => run'[k] = run[k]
<1>. DEFINE row == [run[j][s] EXCEPT !.status = "failed"]
<1>1. run[j][s] \in RunRow /\ run \in [Job -> [Source -> RunRow]]
  BY DEF TypeOK
<1>2. row \in RunRow /\ row.status = "failed"
  BY <1>1 DEF RunRow
<1>3. run' = [run EXCEPT ![j][s] = row] /\ run[j][s].status = "running" /\ Unaccounted(j)
  BY DEF SweepRun
<1>. HIDE DEF row
<1>4. \A k \in Job, t \in Source : run'[k][t] = IF k = j /\ t = s THEN row ELSE run[k][t]
  BY <1>1, <1>2, <1>3, Cell
<1>5. \A k \in Job : k # j => run'[k] = run[k]
  BY <1>1, <1>3
<1>. QED
  BY <1>2, <1>3, <1>4, <1>5

\* The outcomes stand over every step of the sources.
LEMMA PipeStands ==
  ASSUME TypeOK, AttemptsInOrder, OutcomesStand, CompletedRunsSettled,
         NEW a \in Attempt, NEW s \in Source, Pipe(a, s)
  PROVE  OutcomesStand' /\ CompletedRunsSettled'
<1>1. pc[a] = "cycle" /\ tgt[a] \in Job /\ s \in Scope[tgt[a]]
      /\ UNCHANGED <<pc, tgt, status, holder, live>>
  BY PipeFrame DEF AttemptsInOrder, jobVars, attemptVars
<1>2. PICK x \in Work :
        /\ Becomes(a, s, x)
        /\ \/ run' = run /\ (x.at \in {"saving", "ok"} => work[a][s].at = "saving")
           \/ \E row \in RunRow :
                /\ Holds(a) /\ run' = [run EXCEPT ![tgt[a]][s] = row]
                /\ x.at \in {"saving", "ok"} => row.status \in {"complete", "partial"}
  BY <1>1, PipeOutcome
<1>3. /\ work'[a][s] = x
      /\ \A b \in Attempt, t \in Source : b # a \/ t # s => work'[b][t] = work[b][t]
      /\ \A b \in Attempt : b # a => work'[b] = work[b]
  BY <1>2, BecomesCell
<1>4. \/ run' = run /\ (x.at \in {"saving", "ok"} => work[a][s].at = "saving")
      \/ /\ Holds(a)
         /\ \A j \in Job, t \in Source : j # tgt[a] \/ t # s => run'[j][t] = run[j][t]
         /\ x.at \in {"saving", "ok"} => run'[tgt[a]][s].status \in {"complete", "partial"}
  <2>1. ASSUME NEW row \in RunRow, Holds(a), run' = [run EXCEPT ![tgt[a]][s] = row],
               x.at \in {"saving", "ok"} => row.status \in {"complete", "partial"}
        PROVE  /\ \A j \in Job, t \in Source : j # tgt[a] \/ t # s => run'[j][t] = run[j][t]
               /\ x.at \in {"saving", "ok"} => run'[tgt[a]][s].status \in {"complete", "partial"}
    BY <1>1, <2>1, Cell DEF TypeOK
  <2>. QED
    BY <1>2, <2>1
<1>5. \A j \in Job : Scope[j] \subseteq Source
  BY ScopeType
<1>6. \A j \in Job : \A t \in Source \ Scope[j] : run'[j][t].status = "none"
  <2>. TAKE j \in Job
  <2>. TAKE t \in Source \ Scope[j]
  <2>1. run'[j][t] = run[j][t]
    BY <1>1, <1>4
  <2>. QED
    BY <2>1 DEF OutcomesStand
<1>7. ASSUME NEW b \in Attempt, pc[b] \in {"cycle", "settling"}, holder[tgt[b]] = b,
             NEW t \in Scope[tgt[b]], work'[b][t].at \in {"saving", "ok"}
      PROVE  run'[tgt[b]][t].status \in {"complete", "partial"}
  <2>1. tgt[b] \in Job /\ t \in Source
    BY <1>5, <1>7 DEF AttemptsInOrder
  <2>2. work[b][t].at \in {"saving", "ok"} => run[tgt[b]][t].status \in {"complete", "partial"}
    BY <1>7 DEF OutcomesStand
  <2>3. CASE b # a
    <3>1. Holds(a) => tgt[b] # tgt[a]
      BY <1>7, <2>3 DEF Holds
    <3>2. run'[tgt[b]][t] = run[tgt[b]][t]
      BY <1>4, <2>1, <3>1
    <3>. QED
      BY <1>3, <1>7, <2>2, <2>3, <3>2
  <2>4. CASE b = a /\ t # s
    BY <1>3, <1>4, <1>7, <2>1, <2>2, <2>4
  <2>5. CASE b = a /\ t = s
    BY <1>3, <1>4, <1>7, <2>2, <2>5
  <2>. QED
    BY <2>3, <2>4, <2>5
<1>8. \A b \in Attempt : pc[b] = "settling" =>
        \/ work'[b] = Untouched
        \/ \A t \in Scope[tgt[b]] : work'[b][t].at \in {"ok", "failed"}
  BY <1>1, <1>3 DEF OutcomesStand
<1>9. OutcomesStand'
  BY <1>1, <1>6, <1>7, <1>8 DEF OutcomesStand
<1>10. CompletedRunsSettled'
  <2>. SUFFICES ASSUME NEW j \in Job, status[j] = "completed", NEW t \in Scope[j]
                PROVE  run'[j][t].status \in {"complete", "partial"}
    BY <1>1 DEF CompletedRunsSettled
  <2>1. t \in Source /\ run[j][t].status \in {"complete", "partial"}
    BY <1>5 DEF CompletedRunsSettled
  <2>2. Holds(a) => j # tgt[a]
    BY DEF Holds
  <2>. QED
    BY <1>4, <2>1, <2>2
<1>. QED
  BY <1>9, <1>10

\* A run that a step outside the sources changes was open, and is not completed
\* work of anybody.
LEMMA QuietRun ==
  ASSUME TypeOK, CompletedRunsSettled, OutcomesStand, Quiet, NEW j \in Job, NEW s \in Source
  PROVE  \/ run'[j][s] = run[j][s]
         \/ /\ run[j][s].status = "running" /\ run'[j][s].status = "failed"
            /\ status[j] # "completed" /\ s \in Scope[j]
<1>1. ASSUME NEW k \in Job, NEW t \in Source, SweepRun(k, t), j = k /\ s = t
      PROVE  /\ run[j][s].status = "running" /\ run'[j][s].status = "failed"
             /\ status[j] # "completed" /\ s \in Scope[j]
  <2>1. run[j][s].status = "running" /\ run'[j][s].status = "failed"
    BY <1>1, SweepRunCell
  <2>2. s \in Scope[j]
    BY <2>1 DEF OutcomesStand
  <2>. QED
    BY <2>1, <2>2 DEF CompletedRunsSettled
<1>2. ASSUME NEW k \in Job, NEW t \in Source, SweepRun(k, t), ~(j = k /\ s = t)
      PROVE  run'[j][s] = run[j][s]
  BY <1>2, SweepRunCell
<1>. QED
  BY <1>1, <1>2 DEF Quiet

\* The outcomes stand over the steps outside the sources.
LEMMA QuietStands ==
  ASSUME TypeOK, AttemptsInOrder, OutcomesStand, CompletedRunsSettled, Quiet,
         \A a \in Attempt : pc'[a] = "settling" /\ pc[a] = "cycle" =>
           \A s \in Scope[tgt[a]] : work[a][s].at \in {"ok", "failed"},
         \A j \in Job : status'[j] = "completed" =>
           \A s \in Scope[j] : run[j][s].status \in {"complete", "partial"}
  PROVE  OutcomesStand' /\ CompletedRunsSettled'
<1>1. \A j \in Job : Scope[j] \subseteq Source
  BY ScopeType
<1>2. \A j \in Job : \A t \in Source \ Scope[j] : run'[j][t].status = "none"
  <2>. TAKE j \in Job
  <2>. TAKE t \in Source \ Scope[j]
  <2>1. run'[j][t] = run[j][t]
    BY QuietRun
  <2>. QED
    BY <2>1 DEF OutcomesStand
<1>3. \A a \in Attempt : pc'[a] \in {"cycle", "settling"} =>
        /\ work'[a] = work[a] /\ tgt'[a] = tgt[a] /\ tgt[a] \in Job
        /\ (pc[a] = "claimed" /\ work[a] = Untouched) \/ pc[a] \in {"cycle", "settling"}
  BY DEF Quiet, AttemptsInOrder
<1>4. ASSUME NEW a \in Attempt, pc'[a] \in {"cycle", "settling"}, holder'[tgt'[a]] = a,
             NEW s \in Scope[tgt'[a]], work'[a][s].at \in {"saving", "ok"}
      PROVE  run'[tgt'[a]][s].status \in {"complete", "partial"}
  <2>1. /\ work'[a] = work[a] /\ tgt'[a] = tgt[a] /\ tgt[a] \in Job /\ s \in Source
        /\ (pc[a] = "claimed" /\ work[a] = Untouched) \/ pc[a] \in {"cycle", "settling"}
    BY <1>1, <1>3, <1>4
  <2>2. pc[a] \in {"cycle", "settling"}
    BY <1>4, <2>1, AtRest
  <2>3. holder[tgt[a]] = a
    BY <1>4, <2>1 DEF Quiet
  <2>4. run[tgt[a]][s].status \in {"complete", "partial"}
    BY <1>4, <2>1, <2>2, <2>3 DEF OutcomesStand
  <2>5. run'[tgt[a]][s] = run[tgt[a]][s]
    BY <2>1, <2>4, QuietRun
  <2>. QED
    BY <2>1, <2>4, <2>5
<1>5. \A a \in Attempt : pc'[a] = "settling" =>
        \/ work'[a] = Untouched
        \/ \A s \in Scope[tgt'[a]] : work'[a][s].at \in {"ok", "failed"}
  <2>. SUFFICES ASSUME NEW a \in Attempt, pc'[a] = "settling"
                PROVE  \/ work'[a] = Untouched
                       \/ \A s \in Scope[tgt'[a]] : work'[a][s].at \in {"ok", "failed"}
    OBVIOUS
  <2>1. /\ work'[a] = work[a] /\ tgt'[a] = tgt[a]
        /\ (pc[a] = "claimed" /\ work[a] = Untouched) \/ pc[a] \in {"cycle", "settling"}
    BY <1>3
  <2>2. CASE pc[a] = "settling"
    BY <2>1, <2>2 DEF OutcomesStand
  <2>3. CASE pc[a] = "cycle"
    BY <2>1, <2>3
  <2>. QED
    BY <2>1, <2>2, <2>3
<1>6. OutcomesStand'
  BY <1>2, <1>4, <1>5 DEF OutcomesStand
<1>7. CompletedRunsSettled'
  <2>. SUFFICES ASSUME NEW j \in Job, status'[j] = "completed", NEW s \in Scope[j]
                PROVE  run'[j][s].status \in {"complete", "partial"}
    BY DEF CompletedRunsSettled
  <2>1. s \in Source /\ run[j][s].status \in {"complete", "partial"}
    BY <1>1
  <2>2. run'[j][s] = run[j][s]
    BY <2>1, QuietRun
  <2>. QED
    BY <2>1, <2>2
<1>. QED
  BY <1>6, <1>7

\* Completing asks that every source of the scope is done and none failed; a cycle
\* that touched no source is partial.
LEMMA TurnsStands ==
  ASSUME TypeOK, AttemptsInOrder, OutcomesStand, CompletedRunsSettled, NEW a \in Attempt, Turns(a)
  PROVE  OutcomesStand' /\ CompletedRunsSettled'
<1>1. /\ Quiet /\ pc[a] \in {"claimed", "cycle", "settling"}
      /\ \A b \in Attempt : b # a => pc'[b] = pc[b]
      /\ pc'[a] = "settling" =>
           \/ pc[a] = "claimed"
           \/ pc[a] = "cycle" /\ \A s \in Scope[tgt[a]] : work[a][s].at \in {"ok", "failed"}
      /\ \/ UNCHANGED jobVars
         \/ Holds(a) /\ \E s \in {"partial", "failed"} : EndJob(tgt[a], s)
         \/ Holds(a) /\ EndJob(tgt[a], "completed") /\ pc[a] = "settling" /\ ~CyclePartial(work[a])
  BY TurnsStep
<1>2. \A b \in Attempt : pc'[b] = "settling" /\ pc[b] = "cycle" =>
        \A s \in Scope[tgt[b]] : work[b][s].at \in {"ok", "failed"}
  <2>. SUFFICES ASSUME NEW b \in Attempt, pc'[b] = "settling", pc[b] = "cycle"
                PROVE  \A s \in Scope[tgt[b]] : work[b][s].at \in {"ok", "failed"}
    OBVIOUS
  <2>1. b = a
    BY <1>1
  <2>. QED
    BY <1>1, <2>1
<1>3. \A j \in Job : status'[j] = "completed" =>
        \A s \in Scope[j] : run[j][s].status \in {"complete", "partial"}
  <2>1. CASE UNCHANGED jobVars
    BY <2>1 DEF jobVars, CompletedRunsSettled
  <2>2. CASE \E s \in {"partial", "failed"} : EndJob(tgt[a], s)
    <3>1. \A j \in Job : status'[j] = "completed" => status[j] = "completed"
      BY <2>2 DEF EndJob, TypeOK
    <3>. QED
      BY <3>1 DEF CompletedRunsSettled
  <2>3. CASE Holds(a) /\ EndJob(tgt[a], "completed") /\ pc[a] = "settling" /\ ~CyclePartial(work[a])
    <3>1. /\ \E s \in Source : work[a][s].accepted
          /\ \A s \in Source : work[a][s].at # "failed"
      BY <2>3 DEF CyclePartial
    <3>2. work[a] # Untouched
      BY <3>1, AtRest
    <3>3. \A s \in Scope[tgt[a]] : work[a][s].at \in {"ok", "failed"}
      BY <2>3, <3>2 DEF OutcomesStand
    <3>4. \A s \in Scope[tgt[a]] : s \in Source
      BY <1>1, ScopeType DEF AttemptsInOrder
    <3>5. \A s \in Scope[tgt[a]] : work[a][s].at = "ok"
      BY <3>1, <3>3, <3>4
    <3>6. \A s \in Scope[tgt[a]] : run[tgt[a]][s].status \in {"complete", "partial"}
      BY <2>3, <3>5 DEF OutcomesStand, Holds
    <3>7. \A j \in Job : j # tgt[a] => status'[j] = status[j]
      BY <2>3 DEF EndJob, TypeOK
    <3>. QED
      BY <3>6, <3>7 DEF CompletedRunsSettled
  <2>. QED
    BY <1>1, <2>1, <2>2, <2>3
<1>. QED
  BY <1>1, <1>2, <1>3, QuietStands

\* The other steps complete no job and settle no cycle.
LEMMA OutsideStands ==
  ASSUME TypeOK, AttemptsInOrder, OutcomesStand, CompletedRunsSettled,
         Rows \/ (\E a \in Attempt, j \in Job : Claim(a, j)) \/ (\E p \in Process : Crash(p))
  PROVE  OutcomesStand' /\ CompletedRunsSettled'
<1>1. ASSUME Quiet, \A a \in Attempt : pc'[a] = pc[a] \/ pc'[a] # "settling",
             \A j \in Job : status'[j] = "completed" => status[j] = "completed"
      PROVE  OutcomesStand' /\ CompletedRunsSettled'
  <2>1. \A a \in Attempt : pc'[a] = "settling" /\ pc[a] = "cycle" =>
           \A s \in Scope[tgt[a]] : work[a][s].at \in {"ok", "failed"}
    BY <1>1
  <2>2. \A j \in Job : status'[j] = "completed" =>
           \A s \in Scope[j] : run[j][s].status \in {"complete", "partial"}
    BY <1>1 DEF CompletedRunsSettled
  <2>. QED
    BY <1>1, <2>1, <2>2, QuietStands
<1>2. CASE Rows
  <2>1. Quiet /\ pc' = pc
    BY <1>2, RowsStep
  <2>2. status \in [Job -> {"absent", "queued", "running"} \cup Ended]
    BY DEF TypeOK
  <2>3. \A j \in Job : status'[j] = "completed" => status[j] = "completed"
    BY <1>2, <2>2 DEF Rows, Ask, Expire, SweepJob, SweepRun, RenewLate, EndJob, jobVars
  <2>. QED
    BY <1>1, <2>1, <2>3
<1>3. ASSUME NEW a \in Attempt, NEW j \in Job, Claim(a, j) PROVE OutcomesStand' /\ CompletedRunsSettled'
  <2>1. Quiet /\ pc' = [pc EXCEPT ![a] = "claimed"] /\ status' = [status EXCEPT ![j] = "running"]
    BY <1>3, ClaimStep
  <2>2. \A b \in Attempt : pc'[b] = pc[b] \/ pc'[b] # "settling"
    BY <2>1 DEF TypeOK
  <2>3. \A k \in Job : status'[k] = "completed" => status[k] = "completed"
    BY <2>1 DEF TypeOK
  <2>. QED
    BY <1>1, <2>1, <2>2, <2>3
<1>4. ASSUME NEW p \in Process, Crash(p) PROVE OutcomesStand' /\ CompletedRunsSettled'
  <2>1. /\ Quiet /\ UNCHANGED jobVars
        /\ \A a \in Attempt : pc'[a] = pc[a] \/ pc'[a] = "done"
    BY <1>4, CrashStep
  <2>2. status' = status
    BY <2>1 DEF jobVars
  <2>. QED
    BY <1>1, <2>1, <2>2
<1>. QED
  BY <1>2, <1>3, <1>4

\* The invariant is inductive.
LEMMA InvStep ==
  ASSUME IndInv, [Next]_vars
  PROVE  IndInv'
<1>1. /\ TypeOK /\ SweepsStarted /\ AttemptsInOrder /\ CursorsCovered /\ ReportsCovered
      /\ FullSweepHonest /\ OutcomesStand /\ CompletedRunsSettled
  BY DEF IndInv
<1>2. AttemptsInOrder'
  BY <1>1, OrderStep
<1>3. CASE UNCHANGED vars
  BY <1>1, <1>3 DEF IndInv, vars, TypeOK, SweepsStarted, AttemptsInOrder, CursorsCovered, ReportsCovered,
     FullSweepHonest, OutcomesStand, CompletedRunsSettled, Covered, Reported, Sweep
<1>4. ASSUME TypeOK', Quiet, OutcomesStand' /\ CompletedRunsSettled' PROVE IndInv'
  BY <1>1, <1>2, <1>4, QuietCovers DEF IndInv
<1>5. CASE Rows
  BY <1>1, <1>4, <1>5, RowsStep, OutsideStands
<1>6. ASSUME NEW a \in Attempt, NEW j \in Job, Claim(a, j) PROVE IndInv'
  BY <1>1, <1>4, <1>6, ClaimStep, OutsideStands
<1>7. ASSUME NEW a \in Attempt, Turns(a) PROVE IndInv'
  BY <1>1, <1>4, <1>7, TurnsStep, TurnsStands
<1>8. ASSUME NEW p \in Process, Crash(p) PROVE IndInv'
  BY <1>1, <1>4, <1>8, CrashStep, OutsideStands
<1>9. ASSUME NEW a \in Attempt, NEW s \in Source, Pipe(a, s) PROVE IndInv'
  <2>1. tgt[a] \in Job
    BY <1>1, <1>9, PipeFrame DEF AttemptsInOrder
  <2>2. TypeOK' /\ SweepsStarted'
    BY <1>1, <1>9, <2>1, PipeType
  <2>3. CursorsCovered' /\ ReportsCovered' /\ FullSweepHonest'
    BY <1>1, <1>9, PipeCovers
  <2>4. OutcomesStand' /\ CompletedRunsSettled'
    BY <1>1, <1>9, PipeStands
  <2>. QED
    BY <1>2, <2>2, <2>3, <2>4 DEF IndInv
<1>. QED
  BY <1>3, <1>5, <1>6, <1>7, <1>8, <1>9 DEF Next, AllUsed, Rows, Turns, Cycle, Pipe

-----------------------------------------------------------------------------
(* Theorems.                                                                 *)

\* The invariant holds in every reachable state.
THEOREM InvariantHolds == Spec => []IndInv
<1>1. IndInv /\ [Next]_vars => IndInv'
  BY InvStep
<1>. QED
  BY <1>1, InitInv, PTL DEF Spec

\* Every variable holds a value of its type.
THEOREM TypeCorrect == Spec => []TypeOK
<1>1. IndInv => TypeOK
  BY DEF IndInv
<1>. QED
  BY <1>1, InvariantHolds, PTL

\* Whatever a durable checkpoint lets the next run skip was stored, or rejected,
\* since the sweep it continues began.
THEOREM CheckpointIsCovered == Spec => []CheckpointCovered
<1>1. IndInv => CheckpointCovered
  BY DEF IndInv, CursorsCovered, Covered, CheckpointCovered
<1>. QED
  BY <1>1, InvariantHolds, PTL

\* A run recorded complete and full dealt with the whole feed in its sweep.
THEOREM FullSweepIsHonest == Spec => []FullSweepHonest
<1>1. IndInv => FullSweepHonest
  BY DEF IndInv
<1>. QED
  BY <1>1, InvariantHolds, PTL

\* A completed job has an outcome for every source of its scope.
THEOREM CompletedRunsAreSettled == Spec => []CompletedRunsSettled
<1>1. IndInv => CompletedRunsSettled
  BY DEF IndInv
<1>. QED
  BY <1>1, InvariantHolds, PTL

\* No step rewrites the runs of a completed job.
THEOREM CompletedRunsStayFrozen == Spec => CompletedRunsFrozen
<1>1. ASSUME IndInv, [Next]_vars PROVE \A j \in Job : status[j] = "completed" => run'[j] = run[j]
  <2>1. TypeOK /\ AttemptsInOrder /\ OutcomesStand /\ CompletedRunsSettled
    BY <1>1 DEF IndInv
  <2>2. ASSUME Quiet, NEW j \in Job, status[j] = "completed" PROVE run'[j] = run[j]
    <3>1. ASSUME NEW k \in Job, NEW t \in Source, SweepRun(k, t) PROVE k # j
      <4>1. run'[k][t].status = "failed" /\ run[k][t].status = "running"
        BY <2>1, <3>1, SweepRunCell
      <4>2. status[k] # "completed"
        BY <2>1, <2>2, <4>1, QuietRun
      <4>. QED
        BY <2>2, <4>2
    <3>2. run' = run \/ \E k \in Job, t \in Source : SweepRun(k, t)
      BY <2>2 DEF Quiet
    <3>. QED
      BY <2>1, <3>1, <3>2, SweepRunCell
  <2>3. ASSUME NEW a \in Attempt, NEW s \in Source, Pipe(a, s), NEW j \in Job, status[j] = "completed"
        PROVE  run'[j] = run[j]
    <3>1. tgt[a] \in Job
      BY <2>1, <2>3, PipeFrame DEF AttemptsInOrder
    <3>2. run' = run \/ \E row \in RunRow : Holds(a) /\ run' = [run EXCEPT ![tgt[a]][s] = row]
      BY <2>1, <2>3, <3>1, PipeOutcome
    <3>3. Holds(a) => tgt[a] # j
      BY <2>3 DEF Holds
    <3>. QED
      BY <2>1, <3>2, <3>3 DEF TypeOK
  <2>4. \/ UNCHANGED vars
        \/ Quiet
        \/ \E a \in Attempt, s \in Source : Pipe(a, s)
    BY <1>1, <2>1, RowsStep, ClaimStep, TurnsStep, CrashStep
    DEF Next, AllUsed, Rows, Turns, Cycle, Pipe
  <2>. QED
    BY <2>2, <2>3, <2>4 DEF vars
<1>. QED
  BY <1>1, InvariantHolds, PTL DEF Spec, CompletedRunsFrozen

\* A step of a source that changes a run moves that source on.
LEMMA OutcomeMoves ==
  ASSUME TypeOK, NEW a \in Attempt, NEW s \in Source, Pipe(a, s), run' # run
  PROVE  work'[a][s] # work[a][s]
<1>. DEFINE y(v) == [work[a][s] EXCEPT !.at = v]
<1>1. work[a][s] \in Work
  BY InScope
<1>2. ASSUME NEW x \in Work, Becomes(a, s, x), x.at # work[a][s].at PROVE work'[a][s] # work[a][s]
  BY <1>2, BecomesCell
<1>3. \A v \in {"begun", "saving", "failed"} : y(v) \in Work /\ y(v).at = v
  BY <1>1, WorkAt DEF InFlight, Finished
<1>4. CASE BeginRun(a, s)
  <2>1. work[a][s].at = "ready" /\ Becomes(a, s, y("begun"))
    BY <1>4 DEF BeginRun, At, Becomes
  <2>. HIDE DEF y
  <2>. QED
    BY <1>2, <1>3, <2>1
<1>5. CASE FinishRun(a, s)
  <2>. DEFINE x == [work[a][s] EXCEPT !.at = "saving", !.cut = collector[ProcessOf[a]][s].cut]
  <2>1. work[a][s].at = "writing" /\ Becomes(a, s, x)
    BY <1>5 DEF FinishRun, At, Becomes
  <2>2. x \in Work /\ x.at = "saving"
    BY <1>1, InScope DEF Work, Collector, InFlight
  <2>. HIDE DEF x
  <2>. QED
    BY <1>2, <2>1, <2>2
<1>6. CASE SourceFails(a, s)
  <2>. DEFINE x == [Waiting EXCEPT !.at = "failed"]
  <2>1. work[a][s].at \in InFlight /\ Becomes(a, s, x)
    BY <1>6 DEF SourceFails, At, Becomes
  <2>2. x \in Work /\ x.at = "failed"
    BY DEF Work, Waiting, Finished
  <2>3. "failed" \notin InFlight
    BY DEF InFlight
  <2>. HIDE DEF x
  <2>. QED
    BY <1>2, <2>1, <2>2, <2>3
<1>. QED
  BY <1>4, <1>5, <1>6
     DEF Pipe, Pipeline, StartSource, Scrape, WriteRecord, SaveCheckpoint, durable

\* Whoever writes a run of a job holds the job in that step, in its cycle and
\* under its lease, or it is the sweep of a run no live job accounts for.
THEOREM OutcomesUnderClaim == Spec => OutcomesOnlyUnderClaim
<1>. DEFINE Step == \A j \in Job, s \in Source : run'[j][s] # run[j][s] =>
                      \/ \E a \in Attempt : /\ holder[j] = a /\ live[j]
                                            /\ pc[a] = "cycle" /\ tgt[a] = j
                                            /\ work'[a][s] # work[a][s]
                      \/ /\ run[j][s].status = "running" /\ run'[j][s].status = "failed"
                         /\ ~(status[j] = "running" /\ live[j])
                         /\ work' = work
<1>1. ASSUME IndInv, [Next]_vars PROVE Step
  <2>. DEFINE ByHolder(j, s) == \E a \in Attempt : /\ holder[j] = a /\ live[j]
                                                   /\ pc[a] = "cycle" /\ tgt[a] = j
                                                   /\ work'[a][s] # work[a][s]
              BySweep(j, s) == /\ run[j][s].status = "running" /\ run'[j][s].status = "failed"
                               /\ ~(status[j] = "running" /\ live[j])
                               /\ work' = work
  <2>1. TypeOK /\ AttemptsInOrder /\ OutcomesStand /\ CompletedRunsSettled
    BY <1>1 DEF IndInv
  <2>2. ASSUME NEW k \in Job, NEW t \in Source, SweepRun(k, t) PROVE Step
    <3>1. BySweep(k, t) /\ \A j \in Job, s \in Source : j # k \/ s # t => run'[j][s] = run[j][s]
      BY <2>1, <2>2, SweepRunCell DEF SweepRun, Unaccounted
    <3>. QED
      BY <3>1
  <2>3. ASSUME NEW a \in Attempt, NEW t \in Source, Pipe(a, t), run' # run PROVE Step
    <3>1. tgt[a] \in Job /\ pc[a] = "cycle"
      BY <2>1, <2>3, PipeFrame DEF AttemptsInOrder
    <3>2. \E row \in RunRow : Holds(a) /\ run' = [run EXCEPT ![tgt[a]][t] = row]
      BY <2>1, <2>3, <3>1, PipeOutcome
    <3>3. \A j \in Job, s \in Source : j # tgt[a] \/ s # t => run'[j][s] = run[j][s]
      BY <2>1, <3>1, <3>2 DEF TypeOK
    <3>4. ByHolder(tgt[a], t)
      BY <2>1, <2>3, <3>1, <3>2, OutcomeMoves DEF Holds
    <3>. QED
      BY <3>3, <3>4
  <2>4. \/ run' = run
        \/ Quiet
        \/ \E a \in Attempt, s \in Source : Pipe(a, s)
    BY <1>1, <2>1, RowsStep, ClaimStep, TurnsStep, CrashStep
    DEF Next, AllUsed, Rows, Turns, Cycle, Pipe, vars
  <2>5. Quiet => run' = run \/ \E j \in Job, s \in Source : SweepRun(j, s)
    BY DEF Quiet
  <2>. QED
    BY <2>2, <2>3, <2>4, <2>5
<1>. QED
  BY <1>1, InvariantHolds, PTL DEF Spec, OutcomesOnlyUnderClaim

-----------------------------------------------------------------------------
(* The cycle keeps the contract of the job table.                            *)

\* A claim is one more grant of the job, and of no other.
LEMMA ClaimGrants ==
  ASSUME TypeOK, AttemptsInOrder, NEW a \in Attempt, NEW j \in Job, Claim(a, j)
  PROVE  [k \in Job |-> Granted(k)]' = [[k \in Job |-> Granted(k)] EXCEPT ![j] = @ + 1]
<1>1. pc[a] = "new" /\ tgt' = [tgt EXCEPT ![a] = j]
  BY ClaimStep
<1>2. tgt[a] = None /\ \A k \in Job : IsFiniteSet({b \in Attempt : tgt[b] = k})
  BY <1>1 DEF AttemptsInOrder
<1>3. tgt'[a] = j /\ \A b \in Attempt : b # a => tgt'[b] = tgt[b]
  BY <1>1 DEF TypeOK
<1>4. j # None
  BY NoneAssumption
<1>5. {b \in Attempt : tgt'[b] = j} = {b \in Attempt : tgt[b] = j} \cup {a} /\ a \notin {b \in Attempt : tgt[b] = j}
  BY <1>2, <1>3, <1>4
<1>6. Granted(j)' = Granted(j) + 1
  BY <1>2, <1>5, FS_AddElement DEF Granted
<1>7. ASSUME NEW k \in Job, k # j PROVE Granted(k)' = Granted(k)
  <2>1. {b \in Attempt : tgt'[b] = k} = {b \in Attempt : tgt[b] = k}
    BY <1>2, <1>3, <1>7, NoneAssumption
  <2>. QED
    BY <2>1 DEF Granted
<1>. QED
  BY <1>6, <1>7

\* At first no job was asked for and none granted.
LEMMA ContractInit == Init => Contract!Init
<1>. SUFFICES ASSUME Init PROVE Contract!Init
  OBVIOUS
<1>1. \A j \in Job : {a \in Attempt : tgt[a] = j} = {}
  BY NoneAssumption DEF Init
<1>2. \A j \in Job : Granted(j) = 0
  BY <1>1, FS_EmptySet DEF Granted
<1>. QED
  BY <1>2 DEF Init, Contract!Init

\* Every step is one the contract allows, or none it can see.
LEMMA ContractStep ==
  ASSUME IndInv, [Next]_vars
  PROVE  [Contract!Next]_(Contract!cvars)
<1>. DEFINE Goal == [Contract!Next]_(Contract!cvars)
<1>1. TypeOK /\ AttemptsInOrder
  BY DEF IndInv
<1>2. tgt' = tgt => UNCHANGED [j \in Job |-> Granted(j)]
  BY DEF Granted
<1>3. UNCHANGED [j \in Job |-> <<>>]
  OBVIOUS
<1>4. CASE UNCHANGED <<status, holder, tgt>>
  BY <1>2, <1>3, <1>4 DEF Contract!cvars
<1>5. ASSUME NEW j \in Job, Ask(j) PROVE Goal
  <2>1. tgt' = tgt /\ holder' = holder /\ status[j] \in {"absent", "partial", "failed"}
        /\ status' = [status EXCEPT ![j] = "queued"]
    BY <1>5 DEF Ask, attemptVars
  <2>2. Contract!Enqueue(j)
    BY <1>2, <1>3, <2>1 DEF Contract!Enqueue
  <2>. QED
    BY <2>2 DEF Contract!Next
<1>6. ASSUME NEW j \in Job, SweepJob(j) PROVE Goal
  <2>1. tgt' = tgt /\ status[j] = "running" /\ status' = [status EXCEPT ![j] = "failed"]
        /\ holder' = [holder EXCEPT ![j] = None]
    BY <1>6 DEF SweepJob, EndJob, attemptVars
  <2>2. /\ status' = [k \in Job |-> IF k \in {j} THEN "failed" ELSE status[k]]
        /\ holder' = [k \in Job |-> IF k \in {j} THEN None ELSE holder[k]]
    BY <1>1, <2>1 DEF TypeOK
  <2>3. Contract!Abandon({j})
    BY <1>2, <1>3, <2>1, <2>2 DEF Contract!Abandon
  <2>4. {j} \in SUBSET Job
    OBVIOUS
  <2>. QED
    BY <2>3, <2>4 DEF Contract!Next
<1>7. ASSUME NEW a \in Attempt, NEW j \in Job, Claim(a, j) PROVE Goal
  <2>1. status' = [status EXCEPT ![j] = "running"] /\ holder' = [holder EXCEPT ![j] = a]
        /\ status[j] \in {"queued", "running"}
    BY <1>7 DEF Claim
  <2>2. [k \in Job |-> Granted(k)]' = [[k \in Job |-> Granted(k)] EXCEPT ![j] = @ + 1]
    BY <1>1, <1>7, ClaimGrants
  <2>3. Contract!Grant(a, j)
    BY <1>3, <2>1, <2>2 DEF Contract!Grant
  <2>. QED
    BY <2>3 DEF Contract!Next
<1>8. ASSUME NEW a \in Attempt, Turns(a) PROVE Goal
  <2>1. /\ tgt' = tgt /\ pc[a] \in {"claimed", "cycle", "settling"}
        /\ \/ UNCHANGED jobVars
           \/ Holds(a) /\ \E s \in {"partial", "failed"} : EndJob(tgt[a], s)
           \/ Holds(a) /\ EndJob(tgt[a], "completed")
    BY <1>1, <1>8, TurnsStep
  <2>2. tgt[a] \in Job
    BY <1>1, <2>1 DEF AttemptsInOrder
  <2>3. ASSUME Holds(a), NEW s \in {"completed", "partial", "failed"}, EndJob(tgt[a], s) PROVE Goal
    <3>1. Contract!Finish(a, tgt[a], s)
      BY <1>2, <1>3, <2>1, <2>3 DEF Holds, EndJob, Contract!Finish, Contract!Holds
    <3>. QED
      BY <2>2, <3>1 DEF Contract!Next
  <2>4. CASE UNCHANGED jobVars
    BY <1>4, <2>1, <2>4 DEF jobVars
  <2>. QED
    BY <2>1, <2>3, <2>4
<1>9. CASE \/ \E j \in Job : Expire(j) \/ \E s \in Source : SweepRun(j, s)
           \/ \E a \in Attempt : RenewLate(a)
           \/ \E p \in Process : Crash(p)
           \/ UNCHANGED vars
  <2>1. UNCHANGED <<status, holder, tgt>>
    BY <1>9 DEF Expire, SweepRun, RenewLate, Crash, vars, jobVars, attemptVars
  <2>. QED
    BY <1>4, <2>1
<1>10. ASSUME NEW a \in Attempt, NEW s \in Source, Pipe(a, s) PROVE Goal
  <2>1. UNCHANGED <<status, holder, tgt>>
    BY <1>1, <1>10, PipeFrame DEF jobVars, attemptVars
  <2>. QED
    BY <1>4, <2>1
<1>. QED
  BY <1>5, <1>6, <1>7, <1>8, <1>9, <1>10 DEF Next, AllUsed, Turns, Cycle, Pipe

\* The cycle treats the job table as its contract allows: it implements
\* JobContract, with a grant for each attempt that has the job.
THEOREM ContractKept == Spec => KeepsContract
<1>1. IndInv /\ [Next]_vars => [Contract!Next]_(Contract!cvars)
  BY ContractStep
<1>. QED
  BY <1>1, ContractInit, InvariantHolds, PTL DEF Spec, KeepsContract, Contract!Spec
=============================================================================
