------------------------ MODULE HuntBaselinesProofs ------------------------
(***************************************************************************)
(* Proofs about HuntBaselines for any records, values, criteria and        *)
(* evaluations, and any number of versions and observations.               *)
(***************************************************************************)
EXTENDS HuntBaselines, TLAPS

RowType   == [version : Version \cup {0}, at : Nat, status : Status]
EvalType  == [at : {"idle", "collected", "baseline", "save"}, version : Version,
              rows : [Record -> RowType], comparable : BOOLEAN, seen : [Record -> Nat]]
EventType == [record : Record, version : Version, type : Type, at : Nat]

\* Every variable is a function over its records or evaluations.
Shape ==
  /\ published \in [Record -> Seq(Value)]
  /\ version \in Version
  /\ baseline \in [Record -> RowType]
  /\ events \subseteq EventType
  /\ eval \in [Eval -> EvalType]
  /\ known \in [Record -> Value \cup {Nothing}]
  /\ raced \subseteq Record
  /\ leftover \in BOOLEAN /\ repeated \in BOOLEAN

\* What is saved, seen or told is an observation that was published, under a
\* version that existed; what was told of a record is no newer than its row.
Published ==
  /\ \A k \in Record : Len(published[k]) <= MaxObs[k]
  /\ \A k \in Record : /\ baseline[k].at <= Len(published[k])
                       /\ baseline[k].version <= version
                       /\ Has(baseline[k]) <=> baseline[k].version \in Version
  /\ \A c \in Eval : /\ eval[c].version <= version
                     /\ \A k \in Record : /\ eval[c].rows[k].at <= baseline[k].at
                                          /\ eval[c].seen[k] <= Len(published[k])
  /\ \A e \in events : /\ e.at >= 1 /\ e.at <= baseline[e.record].at
                       /\ e.version <= version

Judged(k, row) == row.status = Verdict[version][published[k][row.at]]

\* Unless older rows were left beside newer ones, either all rows are of the
\* criteria in force or none is, and then nothing was told under them either.
OneVersion ==
  ~leftover =>
    /\ \/ \A k \in Record : Has(baseline[k]) => baseline[k].version = version
       \/ \A k \in Record : baseline[k].version # version
    /\ \A e \in events : e.version = version => baseline[e.record].version = version

\* An evaluation under the criteria in force compares with rows of those criteria,
\* or with none.
Reading(c) == eval[c].at \in {"baseline", "save"} /\ eval[c].version = version

ReadOfItsVersion ==
  ~leftover => \A c \in Eval : Reading(c) =>
    IF eval[c].comparable
    THEN /\ \A k \in Record : LET row == eval[c].rows[k] IN
              Has(row) => row.version = version /\ Judged(k, row)
         /\ \E k \in Record : Has(eval[c].rows[k])
         /\ \E k \in Record : Has(baseline[k]) /\ baseline[k].version = version
    ELSE \A k \in Record : eval[c].rows[k].version # version

IndInv == /\ Shape
          /\ Published
          /\ OneVersion
          /\ ReadOfItsVersion
          /\ RowOfItsCriteria
          /\ ChangesTold
          /\ ToldOnce

-----------------------------------------------------------------------------
\* Nothing is published, saved or told.
LEMMA InitInv == Init => IndInv
<1>. SUFFICES ASSUME Init PROVE IndInv
  OBVIOUS
<1>1. /\ published = [k \in Record |-> <<>>] /\ version = 1 /\ baseline = Blank /\ events = {}
      /\ eval = [c \in Eval |-> Idle] /\ known = [k \in Record |-> Nothing]
      /\ raced = {} /\ leftover = FALSE /\ repeated = FALSE
  BY DEF Init
<1>2. 1 \in Version /\ 0 \notin Version /\ Version \subseteq Nat
  BY VerdictAssumption DEF Version
<1>3. NoRow \in RowType /\ NoRow.at = 0 /\ NoRow.version = 0
  BY DEF NoRow, RowType, Status
<1>4. Blank \in [Record -> RowType] /\ \A k \in Record : Blank[k].at = 0 /\ Blank[k].version = 0
  BY <1>3 DEF Blank
<1>5. /\ Idle \in EvalType /\ Idle.version = 1 /\ Idle.rows = Blank /\ Idle.at = "idle"
      /\ \A k \in Record : Idle.seen[k] = 0
  BY <1>2, <1>4 DEF Idle, EvalType
<1>6. Shape
  <2>1. published \in [Record -> Seq(Value)]
    BY <1>1
  <2>2. known \in [Record -> Value \cup {Nothing}]
    BY <1>1
  <2>3. eval \in [Eval -> EvalType]
    BY <1>1, <1>5
  <2>4. /\ version \in Version /\ baseline \in [Record -> RowType] /\ events \subseteq EventType
        /\ raced \subseteq Record /\ leftover \in BOOLEAN /\ repeated \in BOOLEAN
    BY <1>1, <1>2, <1>4
  <2>. QED
    BY <2>1, <2>2, <2>3, <2>4 DEF Shape
<1>7. Published
  <2>1. \A k \in Record : Len(published[k]) = 0 /\ MaxObs[k] \in Nat
    BY <1>1, ObsAssumption
  <2>. QED
    BY <1>1, <1>2, <1>4, <1>5, <2>1 DEF Published, Has
<1>8. OneVersion /\ RowOfItsCriteria /\ ChangesTold /\ ToldOnce
  BY <1>1, <1>4 DEF OneVersion, RowOfItsCriteria, ChangesTold, ToldOnce, Agrees, Has
<1>9. ReadOfItsVersion
  BY <1>1, <1>5 DEF ReadOfItsVersion, Reading
<1>. QED
  BY <1>6, <1>7, <1>8, <1>9 DEF IndInv

\* The invariant bounds everything it says is published.
LEMMA Typed == IndInv => TypeOK
<1>. SUFFICES ASSUME IndInv PROVE TypeOK
  OBVIOUS
<1>1. Shape /\ Published
  BY DEF IndInv
<1>2. \A k \in Record : /\ MaxObs[k] \in Nat /\ published[k] \in Seq(Value) /\ Len(published[k]) \in Nat
                        /\ Len(published[k]) <= MaxObs[k]
  <2>1. \A k \in Record : published[k] \in Seq(Value)
    BY <1>1 DEF Shape
  <2>2. \A k \in Record : Len(published[k]) <= MaxObs[k] /\ MaxObs[k] \in Nat
    BY <1>1, ObsAssumption DEF Published
  <2>3. \A k \in Record : Len(published[k]) \in Nat
    BY <1>1 DEF Shape
  <2>. QED
    BY <2>1, <2>2, <2>3, Zenon
<1>3. ASSUME NEW k \in Record, NEW row \in RowType, row.at <= Len(published[k]) PROVE row \in Row(k)
  <2>1. row.at \in 0 .. MaxObs[k]
    BY <1>2, <1>3 DEF RowType
  <2>. QED
    BY <1>3, <2>1 DEF RowType, Row
<1>4. \A k \in Record : baseline[k] \in Row(k) /\ (Has(baseline[k]) <=> baseline[k].version \in Version)
  BY <1>1, <1>3 DEF Shape, Published
<1>5. events \subseteq Event
  <2>. SUFFICES ASSUME NEW e \in events PROVE e \in Event
    OBVIOUS
  <2>. DEFINE k == e.record
  <2>1. e \in EventType /\ k \in Record
    BY <1>1 DEF Shape, EventType
  <2>2. e.at >= 1 /\ e.at <= baseline[k].at /\ baseline[k].at <= Len(published[k]) /\ baseline[k].at \in Nat
    BY <1>1, <2>1 DEF Published, Shape, RowType
  <2>3. e.at \in 1 .. MaxObs[k]
    BY <1>2, <2>1, <2>2 DEF EventType
  <2>4. e \in [record : {k}, version : Version, type : Type, at : 1 .. MaxObs[k]]
    BY <2>1, <2>3 DEF EventType
  <2>. QED
    BY <2>1, <2>4 DEF Event
<1>6. ASSUME NEW c \in Eval
      PROVE  /\ eval[c].at \in {"idle", "collected", "baseline", "save"}
             /\ eval[c].version \in Version
             /\ \A k \in Record : eval[c].rows[k] \in Row(k) /\ eval[c].seen[k] \in 0 .. MaxObs[k]
  <2>1. eval[c] \in EvalType
    BY <1>1 DEF Shape
  <2>2. ASSUME NEW k \in Record PROVE eval[c].rows[k] \in Row(k) /\ eval[c].seen[k] \in 0 .. MaxObs[k]
    <3>1. eval[c].rows[k] \in RowType /\ eval[c].seen[k] \in Nat /\ baseline[k] \in RowType
      BY <1>1, <2>1 DEF EvalType, Shape
    <3>2. eval[c].rows[k].at <= baseline[k].at /\ baseline[k].at <= Len(published[k])
          /\ eval[c].seen[k] <= Len(published[k])
      BY <1>1 DEF Published
    <3>3. eval[c].rows[k].at <= Len(published[k]) /\ eval[c].seen[k] \in 0 .. MaxObs[k]
      BY <1>2, <3>1, <3>2 DEF RowType
    <3>. QED
      BY <1>3, <3>1, <3>3
  <2>. QED
    BY <2>1, <2>2 DEF EvalType
<1>. QED
  BY <1>1, <1>2, <1>4, <1>5, <1>6 DEF TypeOK, Shape

-----------------------------------------------------------------------------
(* Publishers and members.                                                   *)

\* A publisher only adds; nothing that was compared changes.
LEMMA PublishStep ==
  ASSUME IndInv, NEW k \in Record, NEW x \in Value, Publish(k, x)
  PROVE  IndInv'
<1>1. /\ Len(published[k]) < MaxObs[k] /\ published' = [published EXCEPT ![k] = Append(@, x)]
      /\ UNCHANGED <<version, baseline, events, eval, known, raced, leftover, repeated>>
  BY DEF Publish, histories
<1>2. /\ Shape /\ Published /\ OneVersion /\ ReadOfItsVersion /\ RowOfItsCriteria /\ ChangesTold /\ ToldOnce
  BY DEF IndInv
<1>3. \A r \in Record : published[r] \in Seq(Value)
  BY <1>2 DEF Shape
<1>4. \A r \in Record : published'[r] = IF r = k THEN Append(published[k], x) ELSE published[r]
  BY <1>1, <1>2 DEF Shape
<1>5. \A r \in Record : /\ published'[r] \in Seq(Value)
                        /\ Len(published[r]) \in Nat /\ Len(published'[r]) \in Nat
                        /\ Len(published'[r]) >= Len(published[r])
                        /\ Len(published'[r]) <= MaxObs[r]
                        /\ \A n \in 1 .. Len(published[r]) : published'[r][n] = published[r][n]
  <2>. TAKE r \in Record
  <2>1. CASE r = k
    BY <1>1, <1>3, <1>4, <2>1, ObsAssumption
  <2>2. CASE r # k
    <3>1. published'[r] = published[r] /\ Len(published[r]) <= MaxObs[r]
      BY <1>2, <1>4, <2>2 DEF Published
    <3>. QED
      BY <1>3, <3>1
  <2>. QED
    BY <2>1, <2>2
<1>6. ASSUME NEW r \in Record, NEW row \in RowType, row.at <= Len(published[r]), Has(row)
      PROVE  published'[r][row.at] = published[r][row.at]
  <2>1. row.at \in 1 .. Len(published[r])
    BY <1>5, <1>6 DEF Has, RowType
  <2>. QED
    BY <1>5, <2>1
<1>7. \A r \in Record : baseline[r] \in RowType /\ baseline[r].at <= Len(published[r])
  BY <1>2 DEF Shape, Published
<1>8. Shape'
  <2>1. published' \in [Record -> Seq(Value)]
    BY <1>1, <1>2, <1>5 DEF Shape
  <2>. QED
    BY <1>1, <1>2, <2>1 DEF Shape
<1>9. Published'
  <2>1. ASSUME NEW r \in Record
        PROVE  baseline[r].at <= Len(published'[r]) /\ \A c \in Eval : eval[c].seen[r] <= Len(published'[r])
    <3>1. baseline[r].at \in Nat /\ \A c \in Eval : eval[c].seen[r] \in Nat /\ eval[c].seen[r] <= Len(published[r])
      BY <1>2, <1>7 DEF RowType, Shape, EvalType, Published
    <3>2. Len(published'[r]) >= Len(published[r]) /\ Len(published[r]) \in Nat /\ Len(published'[r]) \in Nat
      BY <1>5
    <3>. QED
      BY <1>7, <3>1, <3>2
  <2>. QED
    BY <1>1, <1>2, <1>5, <2>1 DEF Published
<1>10. OneVersion' /\ ToldOnce'
  BY <1>1, <1>2 DEF OneVersion, ToldOnce
<1>11. RowOfItsCriteria'
  BY <1>1, <1>2, <1>6, <1>7 DEF RowOfItsCriteria
<1>12. ChangesTold'
  <2>. SUFFICES ASSUME ~leftover, NEW r \in Record \ raced
                PROVE  known[r] = IF Has(baseline[r]) /\ baseline[r].version = version /\ baseline[r].status = "match"
                                  THEN published'[r][baseline[r].at] ELSE Nothing
    BY <1>1 DEF ChangesTold, Agrees
  <2>1. Has(baseline[r]) => published'[r][baseline[r].at] = published[r][baseline[r].at]
    BY <1>6, <1>7
  <2>2. Agrees(r)
    BY <1>2 DEF ChangesTold
  <2>. QED
    BY <2>1, <2>2 DEF Agrees
<1>13. ReadOfItsVersion'
  <2>1. ASSUME NEW c \in Eval, NEW r \in Record, Has(eval[c].rows[r])
        PROVE  published'[r][eval[c].rows[r].at] = published[r][eval[c].rows[r].at]
    <3>1. eval[c].rows[r] \in RowType /\ eval[c].rows[r].at <= baseline[r].at
      BY <1>2 DEF Shape, EvalType, Published
    <3>2. eval[c].rows[r].at <= Len(published[r])
      BY <1>5, <1>7, <3>1 DEF RowType
    <3>. QED
      BY <1>6, <2>1, <3>1, <3>2
  <2>. QED
    <3>. SUFFICES ASSUME ~leftover, NEW c \in Eval, Reading(c)
                  PROVE  IF eval[c].comparable
                         THEN /\ \A r \in Record : LET row == eval[c].rows[r] IN Has(row) =>
                                   /\ row.version = version
                                   /\ row.status = Verdict[version][published'[r][row.at]]
                              /\ \E r \in Record : Has(eval[c].rows[r])
                              /\ \E r \in Record : Has(baseline[r]) /\ baseline[r].version = version
                         ELSE \A r \in Record : eval[c].rows[r].version # version
      BY <1>1 DEF ReadOfItsVersion, Reading, Judged
    <3>. QED
      BY <1>2, <2>1 DEF ReadOfItsVersion, Judged
<1>. QED
  BY <1>8, <1>9, <1>10, <1>11, <1>12, <1>13 DEF IndInv

\* After an edit no row, no event and no evaluation is of the criteria in force.
LEMMA EditStep ==
  ASSUME IndInv, EditCriteria
  PROVE  IndInv'
<1>1. /\ version + 1 \in Version /\ version' = version + 1
      /\ raced' = {} /\ leftover' = FALSE /\ repeated' = FALSE
      /\ known' = [k \in Record |-> Nothing]
      /\ UNCHANGED <<published, baseline, events, eval>>
  BY DEF EditCriteria
<1>2. Shape /\ Published
  BY DEF IndInv
<1>3. Version \subseteq Nat /\ version \in Nat
  BY <1>2, VerdictAssumption DEF Version, Shape
<1>4. Shape'
  BY <1>1, <1>2 DEF Shape
<1>5. /\ \A k \in Record : baseline[k].version \in Nat /\ baseline[k].version <= version
      /\ \A c \in Eval : eval[c].version \in Nat /\ eval[c].version <= version
      /\ \A e \in events : e.version \in Nat /\ e.version <= version
  <2>1. /\ \A k \in Record : baseline[k] \in RowType
        /\ \A c \in Eval : eval[c] \in EvalType
        /\ \A e \in events : e \in EventType
    BY <1>2 DEF Shape
  <2>2. 0 \in Nat /\ Version \cup {0} \subseteq Nat
    BY <1>3
  <2>3. \A k \in Record : baseline[k].version \in Nat
    BY <2>1, <2>2 DEF RowType
  <2>4. \A c \in Eval : eval[c].version \in Nat
    BY <1>3, <2>1 DEF EvalType
  <2>5. \A e \in events : e.version \in Nat
    BY <1>3, <2>1 DEF EventType
  <2>. QED
    BY <1>2, <2>3, <2>4, <2>5 DEF Published
<1>6. /\ \A k \in Record : baseline[k].version # version' /\ baseline[k].version <= version'
      /\ \A c \in Eval : eval[c].version # version' /\ eval[c].version <= version'
      /\ \A e \in events : e.version # version' /\ e.version <= version'
  BY <1>1, <1>3, <1>5
<1>7. Published'
  BY <1>1, <1>2, <1>6 DEF Published
<1>8. OneVersion' /\ RowOfItsCriteria' /\ ChangesTold' /\ ToldOnce'
  BY <1>1, <1>6 DEF OneVersion, RowOfItsCriteria, ChangesTold, Agrees, ToldOnce
<1>9. ReadOfItsVersion'
  BY <1>1, <1>6 DEF ReadOfItsVersion, Reading
<1>. QED
  BY <1>4, <1>7, <1>8, <1>9 DEF IndInv

-----------------------------------------------------------------------------
(* An evaluation reads.                                                      *)

\* Only the evaluation c changes, to x.
LEMMA ReadsStep ==
  ASSUME IndInv, NEW c \in Eval, NEW x \in EvalType, Working(c, x), Reads,
         x.version <= version,
         \A k \in Record : x.rows[k].at <= baseline[k].at /\ x.seen[k] <= Len(published[k]),
         ~leftover /\ x.at \in {"baseline", "save"} /\ x.version = version =>
           IF x.comparable
           THEN /\ \A k \in Record : LET row == x.rows[k] IN
                     Has(row) => row.version = version /\ Judged(k, row)
                /\ \E k \in Record : Has(x.rows[k])
                /\ \E k \in Record : Has(baseline[k]) /\ baseline[k].version = version
           ELSE \A k \in Record : x.rows[k].version # version
  PROVE  IndInv'
<1>1. UNCHANGED <<published, version, baseline, events, known, raced, leftover, repeated>>
      /\ eval' = [eval EXCEPT ![c] = x]
  BY DEF Reads, Working, histories
<1>2. /\ Shape /\ Published /\ OneVersion /\ ReadOfItsVersion /\ RowOfItsCriteria /\ ChangesTold /\ ToldOnce
  BY DEF IndInv
<1>3. eval' \in [Eval -> EvalType] /\ eval'[c] = x /\ \A d \in Eval : d # c => eval'[d] = eval[d]
  BY <1>1, <1>2 DEF Shape
<1>4. Shape'
  BY <1>1, <1>2, <1>3 DEF Shape
<1>5. Published'
  BY <1>1, <1>2, <1>3 DEF Published
<1>6. OneVersion' /\ RowOfItsCriteria' /\ ChangesTold' /\ ToldOnce'
  BY <1>1, <1>2 DEF OneVersion, RowOfItsCriteria, ChangesTold, Agrees, ToldOnce
<1>7. ReadOfItsVersion'
  <2>. SUFFICES ASSUME ~leftover, NEW d \in Eval, eval'[d].at \in {"baseline", "save"}, eval'[d].version = version
                PROVE  IF eval'[d].comparable
                       THEN /\ \A k \in Record : LET row == eval'[d].rows[k] IN
                                 Has(row) => row.version = version /\ Judged(k, row)
                            /\ \E k \in Record : Has(eval'[d].rows[k])
                            /\ \E k \in Record : Has(baseline[k]) /\ baseline[k].version = version
                       ELSE \A k \in Record : eval'[d].rows[k].version # version
    BY <1>1 DEF ReadOfItsVersion, Reading, Judged
  <2>1. CASE d = c
    BY <1>3, <2>1
  <2>2. CASE d # c
    BY <1>2, <1>3, <2>2 DEF ReadOfItsVersion, Reading
  <2>. QED
    BY <2>1, <2>2
<1>. QED
  BY <1>4, <1>5, <1>6, <1>7 DEF IndInv

\* The listings of an evaluation.
LEMMA CollectStep ==
  ASSUME IndInv, NEW c \in Eval, Collect(c)
  PROVE  IndInv'
<1>1. PICK part \in SUBSET Record :
        Working(c, [eval[c] EXCEPT !.at = IF c \in Job THEN "collected" ELSE "save",
          !.seen = [k \in Record |-> IF k \in part THEN Len(published[k]) ELSE 0]])
  BY DEF Collect
<1>. DEFINE at2 == IF c \in Job THEN "collected" ELSE "save"
            seen2 == [k \in Record |-> IF k \in part THEN Len(published[k]) ELSE 0]
            x == [eval[c] EXCEPT !.at = at2, !.seen = seen2]
<1>2. Reads /\ eval[c].at = (IF c \in Job THEN "idle" ELSE "baseline")
  BY DEF Collect
<1>3. Shape /\ Published /\ ReadOfItsVersion
  BY DEF IndInv
<1>4. \A k \in Record : Len(published[k]) \in Nat
  BY <1>3 DEF Shape
<1>5. seen2 \in [Record -> Nat] /\ \A k \in Record : seen2[k] <= Len(published[k])
  BY <1>4
<1>6. at2 \in {"collected", "save"} /\ (at2 = "save" => eval[c].at = "baseline")
  BY <1>2
<1>7. Working(c, x)
  BY <1>1
<1>. HIDE DEF at2, seen2
<1>8. eval[c] \in EvalType
  BY <1>3 DEF Shape
<1>9. /\ x \in EvalType /\ x.at = at2 /\ x.seen = seen2 /\ x.version = eval[c].version
      /\ x.rows = eval[c].rows /\ x.comparable = eval[c].comparable
  BY <1>5, <1>6, <1>8 DEF EvalType
<1>. HIDE DEF x
<1>10. /\ x.version <= version
       /\ \A k \in Record : x.rows[k].at <= baseline[k].at /\ x.seen[k] <= Len(published[k])
  BY <1>3, <1>5, <1>9 DEF Published
<1>11. ~leftover /\ x.at \in {"baseline", "save"} /\ x.version = version =>
         IF x.comparable
         THEN /\ \A k \in Record : LET row == x.rows[k] IN
                   Has(row) => row.version = version /\ Judged(k, row)
              /\ \E k \in Record : Has(x.rows[k])
              /\ \E k \in Record : Has(baseline[k]) /\ baseline[k].version = version
         ELSE \A k \in Record : x.rows[k].version # version
  BY <1>3, <1>6, <1>9 DEF ReadOfItsVersion, Reading
<1>. QED
  BY <1>2, <1>7, <1>9, <1>10, <1>11, ReadsStep

\* The baseline of an evaluation: all of one version, unless rows were left over.
LEMMA BaselineStep ==
  ASSUME IndInv, NEW c \in Eval, ReadBaseline(c)
  PROVE  IndInv'
<1>1. PICK like \in IF baseline = Blank THEN {FALSE} ELSE Comparable :
        Working(c, [eval[c] EXCEPT !.at = IF c \in Job THEN "save" ELSE "baseline",
                                   !.version = version, !.rows = baseline, !.comparable = like])
  BY DEF ReadBaseline
<1>. DEFINE at2 == IF c \in Job THEN "save" ELSE "baseline"
            x == [eval[c] EXCEPT !.at = at2, !.version = version, !.rows = baseline, !.comparable = like]
<1>2. Reads
  BY DEF ReadBaseline
<1>3. Shape /\ Published /\ OneVersion /\ RowOfItsCriteria
  BY DEF IndInv
<1>4. at2 \in {"save", "baseline"}
  OBVIOUS
<1>5. Working(c, x)
  BY <1>1
<1>. HIDE DEF at2
<1>6. /\ like = TRUE => \E k \in Record : Has(baseline[k]) /\ baseline[k].version = version
      /\ like = FALSE => baseline = Blank \/ \E k \in Record : Has(baseline[k]) /\ baseline[k].version # version
      /\ like \in BOOLEAN
  BY <1>1 DEF Comparable
<1>7. eval[c] \in EvalType /\ baseline \in [Record -> RowType] /\ version \in Version
  BY <1>3 DEF Shape
<1>8. /\ x \in EvalType /\ x.at = at2 /\ x.version = version /\ x.rows = baseline
      /\ x.comparable = like /\ x.seen = eval[c].seen
  BY <1>4, <1>6, <1>7 DEF EvalType
<1>. HIDE DEF x
<1>9. \A k \in Record : baseline[k].at \in Nat
  BY <1>7 DEF RowType
<1>10. version \in Nat
  BY <1>7, VerdictAssumption DEF Version
<1>11. /\ x.version <= version
       /\ \A k \in Record : x.rows[k].at <= baseline[k].at /\ x.seen[k] <= Len(published[k])
  BY <1>3, <1>8, <1>9, <1>10 DEF Published
<1>12. ASSUME ~leftover, like = TRUE
       PROVE  /\ \A k \in Record : Has(baseline[k]) => baseline[k].version = version /\ Judged(k, baseline[k])
              /\ \E k \in Record : Has(baseline[k]) /\ baseline[k].version = version
  BY <1>3, <1>6, <1>12 DEF OneVersion, RowOfItsCriteria, Judged
<1>13. ASSUME ~leftover, like = FALSE
       PROVE  \A k \in Record : baseline[k].version # version
  <2>1. CASE baseline = Blank
    <3>1. 0 \notin Version
      BY VerdictAssumption DEF Version
    <3>2. \A k \in Record : baseline[k].version = 0
      BY <2>1 DEF Blank, NoRow
    <3>. QED
      BY <1>7, <3>1, <3>2
  <2>2. CASE \E k \in Record : Has(baseline[k]) /\ baseline[k].version # version
    BY <1>3, <1>13, <2>2 DEF OneVersion
  <2>. QED
    BY <1>6, <1>13, <2>1, <2>2
<1>14. ~leftover /\ x.at \in {"baseline", "save"} /\ x.version = version =>
         IF x.comparable
         THEN /\ \A k \in Record : LET row == x.rows[k] IN
                   Has(row) => row.version = version /\ Judged(k, row)
              /\ \E k \in Record : Has(x.rows[k])
              /\ \E k \in Record : Has(baseline[k]) /\ baseline[k].version = version
         ELSE \A k \in Record : x.rows[k].version # version
  <2>1. CASE like = TRUE
    BY <1>8, <1>12, <2>1
  <2>2. CASE like = FALSE
    BY <1>8, <1>13, <2>2
  <2>. QED
    BY <1>6, <2>1, <2>2
<1>. QED
  BY <1>2, <1>5, <1>8, <1>11, <1>14, ReadsStep

\* An evaluation that gives up leaves nothing behind.
LEMMA GiveUpStep ==
  ASSUME IndInv, NEW c \in Eval, GiveUp(c)
  PROVE  IndInv'
<1>1. Working(c, Idle) /\ Reads
  BY DEF GiveUp
<1>2. Shape
  BY DEF IndInv
<1>3. 1 \in Version /\ Version \subseteq Nat \ {0} /\ version \in Version
  BY <1>2, VerdictAssumption DEF Version, Shape
<1>4. NoRow \in RowType /\ NoRow.at = 0
  BY DEF NoRow, RowType, Status
<1>5. /\ Idle \in EvalType /\ Idle.version = 1 /\ Idle.at = "idle"
      /\ \A k \in Record : Idle.seen[k] = 0 /\ Idle.rows[k].at = 0
  BY <1>3, <1>4 DEF Idle, EvalType, Blank
<1>6. \A k \in Record : baseline[k].at \in Nat /\ Len(published[k]) \in Nat
  BY <1>2 DEF Shape, RowType
<1>7. Idle.version <= version /\ \A k \in Record : Idle.rows[k].at <= baseline[k].at /\ Idle.seen[k] <= Len(published[k])
  BY <1>3, <1>5, <1>6
<1>. QED
  BY <1>1, <1>5, <1>7, ReadsStep

-----------------------------------------------------------------------------
(* An evaluation saves.                                                      *)

\* What happened to the status of a record, as an event.
LEMMA TypeOfIs ==
  ASSUME NEW p \in RowType, NEW q \in RowType, NEW moved \in BOOLEAN
  PROVE  LET T == TypeOf(p, q, moved) IN
         /\ T \subseteq Type
         /\ q.status = "match" /\ (~Has(p) \/ p.status # "match") => T = {"new_match"}
         /\ q.status = "match" /\ Has(p) /\ p.status = "match" => T = IF moved THEN {"material_change"} ELSE {}
         /\ q.status # "match" /\ Has(p) /\ p.status = "match" => T # {} /\ T \subseteq {"no_longer_matches", "evaluation_unknown"}
         /\ q.status # "match" => T \subseteq {"no_longer_matches", "evaluation_unknown"}
         /\ q.status # "match" /\ ~Has(p) => T = {}
<1>1. p.status \in {"match", "no_match", "unknown"} /\ q.status \in {"match", "no_match", "unknown"}
  BY DEF RowType, Status
<1>. QED
  BY <1>1 DEF TypeOf, Type

\* The state in which an evaluation may save.
Saving(c) == eval[c].at = "save" /\ eval[c].version = version

\* What an evaluation compares with is of the hunt's past; what it makes of a
\* fresh observation is the verdict of the criteria in force.
LEMMA Compared ==
  ASSUME Shape, Published, NEW c \in Eval, Saving(c), NEW k \in Record
  PROVE  /\ Previous(c, k) \in RowType /\ Previous(c, k).at <= baseline[k].at
         /\ k \in Fresh(c) =>
              /\ eval[c].seen[k] \in 1 .. Len(published[k]) /\ eval[c].seen[k] > Previous(c, k).at
              /\ Current(c, k) \in RowType /\ Current(c, k).version = version
              /\ Current(c, k).at = eval[c].seen[k] /\ Judged(k, Current(c, k))
<1>1. /\ eval[c] \in EvalType /\ baseline[k] \in RowType /\ published[k] \in Seq(Value)
  BY DEF Shape
<1>2. eval[c].rows[k] \in RowType /\ eval[c].seen[k] \in Nat /\ eval[c].rows[k].at <= baseline[k].at
      /\ eval[c].seen[k] <= Len(published[k]) /\ Len(published[k]) \in Nat /\ baseline[k].at \in Nat
  BY <1>1 DEF EvalType, Published, RowType
<1>3. NoRow \in RowType /\ NoRow.at = 0
  BY DEF NoRow, RowType, Status
<1>4. Previous(c, k) \in RowType /\ Previous(c, k).at <= baseline[k].at
  BY <1>2, <1>3 DEF Previous
<1>5. ASSUME k \in Fresh(c)
      PROVE  /\ eval[c].seen[k] \in 1 .. Len(published[k]) /\ eval[c].seen[k] > Previous(c, k).at
             /\ Current(c, k) \in RowType /\ Current(c, k).version = version
             /\ Current(c, k).at = eval[c].seen[k] /\ Judged(k, Current(c, k))
  <2>. DEFINE n == eval[c].seen[k]
  <2>1. n > Previous(c, k).at /\ Previous(c, k).at \in Nat
    BY <1>4, <1>5 DEF Fresh, RowType
  <2>2. n \in 1 .. Len(published[k])
    BY <1>2, <2>1
  <2>3. published[k][n] \in Value
    BY <1>1, <2>2
  <2>4. eval[c].version = version /\ version \in Version
    BY DEF Saving, Shape
  <2>5. Verdict[version][published[k][n]] \in Status
    BY <2>3, <2>4, VerdictAssumption DEF Version
  <2>6. Current(c, k) = [version |-> version, at |-> n, status |-> Verdict[version][published[k][n]]]
    BY <2>4 DEF Current
  <2>7. Current(c, k) \in RowType
    BY <1>2, <2>4, <2>5, <2>6 DEF RowType
  <2>8. /\ Current(c, k).version = version /\ Current(c, k).at = n
        /\ Current(c, k).status = Verdict[version][published[k][n]]
    BY <2>6
  <2>. HIDE DEF n
  <2>9. Judged(k, Current(c, k))
    BY <2>8 DEF Judged
  <2>. QED
    BY <2>1, <2>2, <2>7, <2>8, <2>9 DEF n
<1>. QED
  BY <1>4, <1>5

\* The row that is left: the one there was, or a row of the criteria in force made
\* of a fresh observation or of the row it was compared with.
LEMMA SavedRow ==
  ASSUME Shape, Published, NEW c \in Eval, Saving(c), NEW k \in Record
  PROVE  LET row == Saved(c)[k]
             old == Previous(c, k)
         IN  /\ row \in RowType /\ row.at >= baseline[k].at /\ row.at <= Len(published[k])
             /\ Has(row) <=> row.version \in Version
             /\ row.version <= version
             /\ k \in Fresh(c) => row.at >= eval[c].seen[k] /\ (row = Current(c, k) \/ row = baseline[k])
             /\ k \in Fresh(c) /\ baseline[k].at <= old.at => row = Current(c, k)
             /\ k \notin Fresh(c) =>
                  \/ row = baseline[k]
                  \/ /\ Has(old) /\ row.version = version
                     /\ row.at = old.at /\ row.status = old.status /\ row.at = baseline[k].at
<1>. DEFINE row == Saved(c)[k]
            old == Previous(c, k)
            new == Rows(c)[k]
<1>1. /\ old \in RowType /\ old.at <= baseline[k].at /\ baseline[k] \in RowType
      /\ old.at \in Nat /\ baseline[k].at \in Nat /\ Len(published[k]) \in Nat
      /\ baseline[k].at <= Len(published[k]) /\ baseline[k].version <= version
      /\ Has(baseline[k]) <=> baseline[k].version \in Version
  BY Compared DEF Shape, RowType, Published
<1>2. k \in Fresh(c) =>
        /\ eval[c].seen[k] \in 1 .. Len(published[k]) /\ eval[c].seen[k] > old.at
        /\ Current(c, k) \in RowType /\ Current(c, k).version = version
        /\ Current(c, k).at = eval[c].seen[k]
  BY Compared
<1>3. version \in Version /\ version \in Nat /\ eval[c].version = version
  BY VerdictAssumption DEF Shape, Version, Saving
<1>4. row = IF Has(new) /\ baseline[k].at <= new.at THEN new ELSE baseline[k]
  BY DEF Saved, Replaces
<1>5. new = IF k \in Fresh(c) THEN Current(c, k) ELSE [old EXCEPT !.version = version]
  BY <1>3 DEF Rows
<1>. HIDE DEF row, old, new
<1>6. CASE k \in Fresh(c)
  <2>1. /\ new = Current(c, k) /\ new \in RowType /\ new.version = version /\ new.at = eval[c].seen[k]
        /\ new.at \in Nat /\ new.at > 0 /\ new.at <= Len(published[k]) /\ new.at > old.at
    BY <1>1, <1>2, <1>5, <1>6
  <2>2. Has(new)
    BY <2>1 DEF Has
  <2>3. row = IF baseline[k].at <= new.at THEN new ELSE baseline[k]
    BY <1>4, <2>2
  <2>4. CASE baseline[k].at <= new.at
    <3>1. row = new
      BY <2>3, <2>4
    <3>. QED
      BY <1>3, <1>6, <2>1, <2>2, <2>4, <3>1 DEF row, old
  <2>5. CASE ~(baseline[k].at <= new.at)
    <3>1. row = baseline[k] /\ baseline[k].at >= new.at
      BY <1>1, <2>1, <2>3, <2>5
    <3>2. ~(baseline[k].at <= old.at)
      BY <1>1, <2>1, <2>5
    <3>. QED
      BY <1>1, <1>6, <2>1, <3>1, <3>2 DEF row, old
  <2>. QED
    BY <2>4, <2>5
<1>7. CASE k \notin Fresh(c)
  <2>1. new = [old EXCEPT !.version = version]
    BY <1>5, <1>7
  <2>2. new \in RowType /\ new.version = version /\ new.at = old.at /\ new.status = old.status
    BY <1>1, <1>3, <2>1 DEF RowType
  <2>3. CASE Has(new) /\ baseline[k].at <= new.at
    <3>1. row = new /\ Has(old) /\ row.at = baseline[k].at
      BY <1>1, <1>4, <2>2, <2>3 DEF Has
    <3>. QED
      BY <1>1, <1>3, <1>7, <2>2, <2>3, <3>1 DEF row, old
  <2>4. CASE ~(Has(new) /\ baseline[k].at <= new.at)
    <3>1. row = baseline[k]
      BY <1>4, <2>4
    <3>. QED
      BY <1>1, <1>7, <3>1 DEF row, old
  <2>. QED
    BY <2>3, <2>4
<1>. QED
  BY <1>6, <1>7

\* What an evaluation tells.
LEMMA NewsAre ==
  ASSUME Shape, Published, NEW c \in Eval, Saving(c), NEW first
  PROVE  /\ \A e \in News(c, first) :
              LET k == e.record IN
              /\ e \in EventType /\ k \in Fresh(c) \ Silent(c, first)
              /\ e.version = version /\ e.at = eval[c].seen[k]
              /\ e.type \in TypeOf(Previous(c, k), Current(c, k), Moved(k, Previous(c, k), Current(c, k)))
         /\ \A k \in Fresh(c) \ Silent(c, first) :
              \A t \in TypeOf(Previous(c, k), Current(c, k), Moved(k, Previous(c, k), Current(c, k))) :
                [record |-> k, version |-> version, type |-> t, at |-> eval[c].seen[k]] \in News(c, first)
<1>1. version \in Version /\ eval[c].version = version
  BY DEF Shape, Saving
<1>. DEFINE T(k) == TypeOf(Previous(c, k), Current(c, k), Moved(k, Previous(c, k), Current(c, k)))
<1>2. ASSUME NEW k \in Fresh(c) PROVE k \in Record /\ T(k) \subseteq Type /\ eval[c].seen[k] \in Nat
  <2>1. k \in Record
    BY DEF Fresh
  <2>2. Previous(c, k) \in RowType /\ Current(c, k) \in RowType /\ eval[c].seen[k] \in Nat
    BY <2>1, Compared
  <2>3. Moved(k, Previous(c, k), Current(c, k)) \in BOOLEAN
    BY DEF Moved
  <2>. QED
    BY <2>1, <2>2, <2>3, TypeOfIs
<1>3. News(c, first) = UNION {{[record |-> k, version |-> version, type |-> t, at |-> eval[c].seen[k]] : t \in T(k)} :
                              k \in Fresh(c) \ Silent(c, first)}
  BY <1>1 DEF News
<1>. HIDE DEF T
<1>4. ASSUME NEW e \in News(c, first)
      PROVE  LET k == e.record IN
             /\ e \in EventType /\ k \in Fresh(c) \ Silent(c, first)
             /\ e.version = version /\ e.at = eval[c].seen[k] /\ e.type \in T(k)
  <2>1. PICK k \in Fresh(c) \ Silent(c, first) :
          e \in {[record |-> k, version |-> version, type |-> t, at |-> eval[c].seen[k]] : t \in T(k)}
    BY <1>3, <1>4
  <2>2. PICK t \in T(k) : e = [record |-> k, version |-> version, type |-> t, at |-> eval[c].seen[k]]
    BY <2>1
  <2>3. e.record = k /\ e.version = version /\ e.type = t /\ e.at = eval[c].seen[k]
    BY <2>2
  <2>4. e \in EventType
    BY <1>1, <1>2, <2>1, <2>2 DEF EventType
  <2>. QED
    BY <2>1, <2>2, <2>3, <2>4
<1>5. ASSUME NEW k \in Fresh(c) \ Silent(c, first), NEW t \in T(k)
      PROVE  [record |-> k, version |-> version, type |-> t, at |-> eval[c].seen[k]] \in News(c, first)
  BY <1>3, <1>5
<1>. QED
  BY <1>4, <1>5 DEF T

\* With nothing left over, the row an evaluation finds unchanged is one it compared
\* with, of the criteria in force, or it is of older ones.
LEMMA Unchanged ==
  ASSUME IndInv, NEW c \in Eval, Saving(c), ~leftover, NEW k \in Record
  PROVE  /\ eval[c].comparable =>
              /\ Has(baseline[k]) => baseline[k].version = version
              /\ Has(Previous(c, k)) => Previous(c, k).version = version /\ Judged(k, Previous(c, k))
              /\ Previous(c, k) = eval[c].rows[k]
              /\ \A first : Silent(c, first) = {}
         /\ ~eval[c].comparable => eval[c].rows[k].version # version /\ Previous(c, k) = NoRow
<1>1. Shape /\ Published /\ OneVersion /\ ReadOfItsVersion
  BY DEF IndInv
<1>2. Reading(c)
  BY DEF Saving, Reading
<1>3. ASSUME eval[c].comparable
      PROVE  /\ Has(baseline[k]) => baseline[k].version = version
             /\ Has(Previous(c, k)) => Previous(c, k).version = version /\ Judged(k, Previous(c, k))
             /\ Previous(c, k) = eval[c].rows[k]
             /\ \A first : Silent(c, first) = {}
  <2>1. /\ \A r \in Record : LET row == eval[c].rows[r] IN
             Has(row) => row.version = version /\ Judged(r, row)
        /\ \E r \in Record : Has(eval[c].rows[r])
        /\ \E r \in Record : Has(baseline[r]) /\ baseline[r].version = version
    BY <1>1, <1>2, <1>3 DEF ReadOfItsVersion
  <2>2. Previous(c, k) = eval[c].rows[k]
    BY <1>3 DEF Previous
  <2>3. Has(baseline[k]) => baseline[k].version = version
    BY <1>1, <2>1 DEF OneVersion
  <2>4. eval[c].rows # Blank
    <3>1. \A r \in Record : ~Has(Blank[r])
      BY DEF Blank, NoRow, Has
    <3>. QED
      BY <2>1, <3>1
  <2>5. \A first : Silent(c, first) = {}
    BY <1>3, <2>4 DEF Silent
  <2>. QED
    BY <2>1, <2>2, <2>3, <2>5
<1>4. ASSUME ~eval[c].comparable
      PROVE  eval[c].rows[k].version # version /\ Previous(c, k) = NoRow
  BY <1>1, <1>2, <1>4 DEF ReadOfItsVersion, Previous
<1>. QED
  BY <1>3, <1>4

\* Nothing newer than an unchanged row was told of its record.
LEMMA NotTold ==
  ASSUME IndInv, NEW c \in Eval, Saving(c), ~leftover, NEW k \in Fresh(c), baseline[k] = eval[c].rows[k],
         NEW e \in events, e.record = k, e.version = version, e.at = eval[c].seen[k]
  PROVE  FALSE
<1>1. Shape /\ Published /\ OneVersion /\ k \in Record
  BY DEF IndInv, Fresh
<1>2. e.at <= baseline[k].at /\ baseline[k].version = version
  BY <1>1 DEF Published, OneVersion
<1>3. eval[c].comparable /\ Previous(c, k) = baseline[k]
  BY <1>1, <1>2, Unchanged
<1>4. eval[c].seen[k] \in Nat /\ baseline[k].at \in Nat /\ eval[c].seen[k] > baseline[k].at
  BY <1>1, <1>3, Compared DEF Shape, RowType
<1>. QED
  BY <1>2, <1>4

\* What is known of a record after the events of an evaluation.
LEMMA LearntIs ==
  ASSUME NEW c, NEW first, NEW k \in Record
  PROVE  LET fresh == {e \in News(c, first) \ events : e.record = k}
             row   == Saved(c)[k]
         IN  /\ (\E e \in fresh : e.type \in {"new_match", "material_change"})
                  => Learnt(c, first)[k] = published[k][eval[c].seen[k]]
             /\ (fresh # {} /\ \A e \in fresh : e.type \notin {"new_match", "material_change"})
                  => Learnt(c, first)[k] = Nothing
             /\ fresh = {} /\ k \in Fresh(c) \cap Silent(c, first) /\ baseline[k].version # row.version =>
                  Learnt(c, first)[k] = IF row.status = "match" THEN published[k][row.at] ELSE Nothing
             /\ fresh = {} /\ (k \notin Fresh(c) \cap Silent(c, first) \/ baseline[k].version = row.version) =>
                  Learnt(c, first)[k] = known[k]
  BY DEF Learnt

\* The events told of a fresh record whose row is as the evaluation found it, and
\* what is known of it then, agree with the row that is saved.
LEMMA FreshTold ==
  ASSUME IndInv, NEW c \in Eval, Saving(c), ~leftover, NEW k \in Fresh(c), k \notin raced,
         baseline[k] = eval[c].rows[k], NEW first, Saved(c)[k].version = version
  PROVE  Learnt(c, first)[k]
           = IF Saved(c)[k].status = "match" THEN published[k][Saved(c)[k].at] ELSE Nothing
<1>. DEFINE row == Saved(c)[k]
            p == Previous(c, k)
            q == Current(c, k)
            news == News(c, first)
            fresh == {e \in news \ events : e.record = k}
            T == TypeOf(p, q, Moved(k, p, q))
            says == IF q.status = "match" THEN published[k][q.at] ELSE Nothing
            n == eval[c].seen[k]
<1>1. Shape /\ Published /\ ChangesTold /\ k \in Record
  BY DEF IndInv, Fresh
<1>2. p \in RowType /\ q \in RowType /\ q.at = n /\ n \in 1 .. Len(published[k]) /\ n > p.at
      /\ q.version = version
  BY <1>1, Compared
<1>3. \A e \in news : e.record = k =>
        e.version = version /\ e.at = n /\ e.type \in T /\ k \notin Silent(c, first)
  BY <1>1, NewsAre
<1>4. \A e \in news : e.record = k => e \notin events
  BY <1>3, NotTold
<1>5. k \notin Silent(c, first) =>
        \A t \in T : [record |-> k, version |-> version, type |-> t, at |-> n] \in news
  BY <1>1, NewsAre
<1>6. Moved(k, p, q) \in BOOLEAN
  BY DEF Moved
<1>7. /\ T \subseteq Type
      /\ q.status = "match" /\ (~Has(p) \/ p.status # "match") => T = {"new_match"}
      /\ q.status = "match" /\ Has(p) /\ p.status = "match" => T = IF Moved(k, p, q) THEN {"material_change"} ELSE {}
      /\ q.status # "match" /\ Has(p) /\ p.status = "match" => T # {} /\ T \subseteq {"no_longer_matches", "evaluation_unknown"}
      /\ q.status # "match" => T \subseteq {"no_longer_matches", "evaluation_unknown"}
      /\ q.status # "match" /\ ~Has(p) => T = {}
  BY <1>2, <1>6, TypeOfIs
<1>8. row = q
  <2>1. row = q \/ row = baseline[k]
    BY <1>1, SavedRow
  <2>2. CASE eval[c].comparable
    <3>1. p = baseline[k]
      BY <1>1, <2>2, Unchanged
    <3>2. baseline[k].at \in Nat
      BY <1>1 DEF Shape, RowType
    <3>3. baseline[k].at <= p.at
      BY <3>1, <3>2
    <3>. QED
      BY <1>1, <3>3, SavedRow
  <2>3. CASE ~eval[c].comparable
    <3>1. baseline[k].version # version
      BY <1>1, <2>3, Unchanged
    <3>. QED
      BY <2>1, <3>1
  <2>. QED
    BY <2>2, <2>3
<1>9. /\ (\E e \in fresh : e.type \in {"new_match", "material_change"})
           => Learnt(c, first)[k] = published[k][n]
      /\ (fresh # {} /\ \A e \in fresh : e.type \notin {"new_match", "material_change"})
           => Learnt(c, first)[k] = Nothing
      /\ fresh = {} /\ k \in Silent(c, first) /\ baseline[k].version # row.version =>
           Learnt(c, first)[k] = IF row.status = "match" THEN published[k][row.at] ELSE Nothing
      /\ fresh = {} /\ k \notin Silent(c, first) => Learnt(c, first)[k] = known[k]
  BY <1>1, LearntIs
<1>10. ASSUME k \notin Silent(c, first), NEW t \in T
       PROVE  \E e \in fresh : e.type = t
  <2>. DEFINE e == [record |-> k, version |-> version, type |-> t, at |-> n]
  <2>1. e \in news /\ e.record = k /\ e.type = t
    BY <1>5, <1>10
  <2>. HIDE DEF e, news
  <2>. QED
    BY <1>4, <2>1
<1>11. \A e \in fresh : e.type \in T /\ k \notin Silent(c, first)
  BY <1>3
<1>. HIDE DEF row, p, q, news, T, n, fresh
<1>12. CASE k \notin Silent(c, first) /\ T # {}
  <2>1. fresh # {} /\ \A e \in fresh : e.type \in T
    BY <1>10, <1>11, <1>12
  <2>2. CASE q.status = "match"
    <3>1. T \subseteq {"new_match", "material_change"}
      BY <1>7, <1>12, <2>2
    <3>2. Learnt(c, first)[k] = published[k][n]
      BY <1>9, <2>1, <3>1
    <3>. QED
      BY <1>2, <1>8, <2>2, <3>2 DEF row
  <2>3. CASE q.status # "match"
    <3>1. T \subseteq {"no_longer_matches", "evaluation_unknown"}
      BY <1>7, <2>3
    <3>2. Learnt(c, first)[k] = Nothing
      BY <1>9, <2>1, <3>1
    <3>. QED
      BY <1>8, <2>3, <3>2 DEF row
  <2>. QED
    BY <2>2, <2>3
<1>13. CASE k \in Silent(c, first)
  <2>1. baseline[k].version # row.version
    BY <1>1, <1>13, Unchanged DEF row
  <2>. QED
    BY <1>9, <1>11, <1>13, <2>1 DEF row
<1>14. CASE k \notin Silent(c, first) /\ T = {}
  <2>1. Learnt(c, first)[k] = known[k]
    BY <1>9, <1>11, <1>14
  <2>2. CASE Has(p)
    <3>1. eval[c].comparable
      <4>1. ~Has(NoRow)
        BY DEF NoRow, Has
      <4>. QED
        BY <1>1, <2>2, <4>1, Unchanged DEF p
    <3>2. p = baseline[k] /\ p.version = version
      BY <1>1, <2>2, <3>1, Unchanged DEF p
    <3>3. known[k] = IF p.status = "match" THEN published[k][p.at] ELSE Nothing
      BY <1>1, <2>2, <3>2 DEF ChangesTold, Agrees
    <3>4. CASE q.status = "match"
      <4>1. p.status = "match" /\ ~Moved(k, p, q)
        BY <1>7, <1>14, <2>2, <3>4
      <4>2. published[k][p.at] = published[k][q.at]
        BY <2>2, <4>1 DEF Moved
      <4>. QED
        BY <1>8, <2>1, <3>3, <3>4, <4>1, <4>2 DEF row
    <3>5. CASE q.status # "match"
      <4>1. p.status # "match"
        BY <1>7, <1>14, <2>2, <3>5
      <4>. QED
        BY <1>8, <2>1, <3>3, <3>5, <4>1 DEF row
    <3>. QED
      BY <3>4, <3>5
  <2>3. CASE ~Has(p)
    <3>1. ~(Has(baseline[k]) /\ baseline[k].version = version)
      BY <1>1, <2>3, Unchanged DEF p
    <3>2. known[k] = Nothing
      BY <1>1, <3>1 DEF ChangesTold, Agrees
    <3>3. q.status # "match"
      BY <1>7, <1>14, <2>3
    <3>. QED
      BY <1>8, <2>1, <3>2, <3>3 DEF row
  <2>. QED
    BY <2>2, <2>3
<1>. QED
  BY <1>12, <1>13, <1>14

\* A record of which an evaluation has nothing new keeps what is known of it.
LEMMA StaleTold ==
  ASSUME IndInv, NEW c \in Eval, Saving(c), ~leftover, NEW k \in Record, k \notin Fresh(c), k \notin raced,
         NEW first
  PROVE  Learnt(c, first)[k]
           = IF Has(Saved(c)[k]) /\ Saved(c)[k].version = version /\ Saved(c)[k].status = "match"
             THEN published[k][Saved(c)[k].at] ELSE Nothing
<1>. DEFINE row == Saved(c)[k]
            p == Previous(c, k)
            b == baseline[k]
<1>1. Shape /\ Published /\ ChangesTold /\ RowOfItsCriteria
  BY DEF IndInv
<1>2. {e \in News(c, first) \ events : e.record = k} = {}
  BY <1>1, NewsAre
<1>3. Learnt(c, first)[k] = known[k]
  BY <1>2, LearntIs
<1>4. \/ row = b
      \/ Has(p) /\ row.version = version /\ row.at = p.at /\ row.status = p.status /\ row.at = b.at
  BY <1>1, SavedRow
<1>5. row = b \/ (b.version = version /\ row.version = version /\ Has(b) /\ Has(row)
                    /\ row.status = b.status /\ row.at = b.at)
  <2>1. CASE row = b
    BY <2>1
  <2>2. CASE Has(p) /\ row.version = version /\ row.at = p.at /\ row.status = p.status /\ row.at = b.at
    <3>1. Has(b)
      BY <2>2 DEF Has
    <3>2. p # NoRow
      <4>1. ~Has(NoRow)
        BY DEF NoRow, Has
      <4>. HIDE DEF p
      <4>. QED
        BY <2>2, <4>1
    <3>3. b.version = version /\ Judged(k, p)
      BY <1>1, <2>2, <3>1, <3>2, Unchanged
    <3>4. Judged(k, b)
      BY <1>1, <3>1, <3>3 DEF RowOfItsCriteria, Judged
    <3>. QED
      BY <2>2, <3>1, <3>3, <3>4 DEF Judged, Has
  <2>. QED
    BY <1>4, <2>1, <2>2
<1>6. known[k] = IF Has(b) /\ b.version = version /\ b.status = "match" THEN published[k][b.at] ELSE Nothing
  BY <1>1 DEF ChangesTold, Agrees
<1>. QED
  BY <1>3, <1>5, <1>6

\* What the events say of a record is something it once was, or nothing.
LEMMA LearntType ==
  ASSUME Shape, Published, NEW c \in Eval, Saving(c), NEW first, NEW k \in Record
  PROVE  Learnt(c, first)[k] \in Value \cup {Nothing}
<1>. DEFINE row == Saved(c)[k]
            news == News(c, first)
            fresh == {e \in news \ events : e.record = k}
<1>1. published[k] \in Seq(Value) /\ known[k] \in Value \cup {Nothing} /\ Len(published[k]) \in Nat
  BY DEF Shape
<1>2. fresh # {} => published[k][eval[c].seen[k]] \in Value
  <2>. SUFFICES ASSUME NEW e \in news, e.record = k PROVE published[k][eval[c].seen[k]] \in Value
    OBVIOUS
  <2>1. k \in Fresh(c)
    BY NewsAre
  <2>2. eval[c].seen[k] \in 1 .. Len(published[k])
    BY <2>1, Compared
  <2>. QED
    BY <1>1, <2>2
<1>3. k \in Fresh(c) => published[k][row.at] \in Value
  <2>. SUFFICES ASSUME k \in Fresh(c) PROVE published[k][row.at] \in Value
    OBVIOUS
  <2>1. eval[c].seen[k] \in 1 .. Len(published[k]) /\ row.at >= eval[c].seen[k]
        /\ row.at \in Nat /\ row.at <= Len(published[k])
    BY Compared, SavedRow DEF RowType
  <2>. HIDE DEF row
  <2>2. row.at \in 1 .. Len(published[k])
    BY <1>1, <2>1
  <2>. QED
    BY <1>1, <2>2
<1>4. /\ (\E e \in fresh : e.type \in {"new_match", "material_change"})
           => Learnt(c, first)[k] = published[k][eval[c].seen[k]]
      /\ (fresh # {} /\ \A e \in fresh : e.type \notin {"new_match", "material_change"})
           => Learnt(c, first)[k] = Nothing
      /\ fresh = {} /\ k \in Fresh(c) \cap Silent(c, first) /\ baseline[k].version # row.version =>
           Learnt(c, first)[k] = IF row.status = "match" THEN published[k][row.at] ELSE Nothing
      /\ fresh = {} /\ (k \notin Fresh(c) \cap Silent(c, first) \/ baseline[k].version = row.version) =>
           Learnt(c, first)[k] = known[k]
  BY LearntIs
<1>. HIDE DEF row, news, fresh
<1>. QED
  BY <1>1, <1>2, <1>3, <1>4

\* Rows and events move together, or the record is raced or left over.
LEMMA SaveStep ==
  ASSUME IndInv, NEW c \in Eval, Save(c)
  PROVE  IndInv'
<1>1. PICK first \in SUBSET {k \in Record : eval[c].seen[k] > 0} :
        /\ baseline' = Saved(c)
        /\ events' = events \cup News(c, first)
        /\ repeated' = (repeated \/ News(c, first) \cap events # {})
        /\ known' = Learnt(c, first)
        /\ raced' = raced \cup {k \in Fresh(c) : baseline[k] # eval[c].rows[k]}
        /\ leftover' = (leftover \/ \E k \in Record : Has(Saved(c)[k]) /\ Saved(c)[k].version # version)
  BY DEF Save
<1>2. UNCHANGED <<published, version>> /\ eval' = [eval EXCEPT ![c] = Idle]
  BY DEF Save, Working
<1>3. Saving(c)
  BY DEF Save, VersionMoved, Saving
<1>4. Shape /\ Published /\ OneVersion /\ ReadOfItsVersion /\ RowOfItsCriteria /\ ChangesTold /\ ToldOnce
  BY DEF IndInv
<1>5. 1 \in Version /\ Version \subseteq Nat \ {0} /\ version \in Version
  BY <1>4, VerdictAssumption DEF Version, Shape
<1>6. NoRow \in RowType /\ NoRow.at = 0
  BY DEF NoRow, RowType, Status
<1>7. /\ Idle \in EvalType /\ Idle.version = 1 /\ Idle.at = "idle"
      /\ \A k \in Record : Idle.seen[k] = 0 /\ Idle.rows[k].at = 0
  BY <1>5, <1>6 DEF Idle, EvalType, Blank
<1>8. eval' \in [Eval -> EvalType] /\ eval'[c] = Idle /\ \A d \in Eval : d # c => eval'[d] = eval[d]
  BY <1>2, <1>4, <1>7 DEF Shape
<1>9. \A k \in Record :
        /\ baseline'[k] \in RowType /\ baseline'[k].at >= baseline[k].at /\ baseline'[k].at <= Len(published[k])
        /\ Has(baseline'[k]) <=> baseline'[k].version \in Version
        /\ baseline'[k].version <= version
        /\ baseline'[k].at \in Nat /\ baseline[k].at \in Nat
  BY <1>1, <1>3, <1>4, SavedRow DEF RowType, Shape
<1>10. \A e \in News(c, first) : /\ e \in EventType /\ e.record \in Fresh(c)
                                  /\ e.version = version /\ e.at = eval[c].seen[e.record]
  BY <1>3, <1>4, NewsAre
<1>11. \A k \in Fresh(c) : k \in Record /\ eval[c].seen[k] \in Nat /\ eval[c].seen[k] >= 1
                            /\ eval[c].seen[k] <= baseline'[k].at
  <2>. TAKE k \in Fresh(c)
  <2>1. k \in Record
    BY DEF Fresh
  <2>2. eval[c].seen[k] \in 1 .. Len(published[k]) /\ baseline'[k].at >= eval[c].seen[k]
    BY <1>1, <1>3, <1>4, <2>1, Compared, SavedRow
  <2>. QED
    BY <1>9, <2>1, <2>2
<1>12. Shape'
  <2>1. baseline' \in [Record -> RowType]
    BY <1>1, <1>9 DEF Saved
  <2>2. known' \in [Record -> Value \cup {Nothing}]
    <3>1. \A k \in Record : known'[k] \in Value \cup {Nothing}
      BY <1>1, <1>3, <1>4, LearntType
    <3>2. known' = [k \in Record |-> known'[k]]
      BY <1>1 DEF Learnt
    <3>. QED
      BY <3>1, <3>2
  <2>3. events' \subseteq EventType
    BY <1>1, <1>4, <1>10 DEF Shape
  <2>4. raced' \subseteq Record
    BY <1>1, <1>4, <1>11 DEF Shape
  <2>5. leftover' \in BOOLEAN /\ repeated' \in BOOLEAN
    BY <1>1, <1>4 DEF Shape
  <2>6. published' \in [Record -> Seq(Value)] /\ version' \in Version
    BY <1>2, <1>4 DEF Shape
  <2>. QED
    BY <1>8, <2>1, <2>2, <2>3, <2>4, <2>5, <2>6 DEF Shape
<1>13. Published'
  <2>1. ASSUME NEW d \in Eval
        PROVE  /\ eval'[d].version <= version
               /\ \A k \in Record : /\ eval'[d].rows[k].at <= baseline'[k].at
                                     /\ eval'[d].seen[k] <= Len(published[k])
    <3>1. CASE d = c
      <4>1. \A k \in Record : Len(published[k]) \in Nat /\ Len(published[k]) >= 0
        BY <1>4 DEF Shape
      <4>2. 1 <= version
        BY <1>5
      <4>. QED
        BY <1>7, <1>8, <1>9, <3>1, <4>1, <4>2
    <3>2. CASE d # c
      <4>1. eval'[d] = eval[d] /\ eval[d].version <= version
            /\ \A k \in Record : eval[d].rows[k].at <= baseline[k].at /\ eval[d].seen[k] <= Len(published[k])
        BY <1>4, <1>8, <3>2 DEF Published
      <4>2. \A k \in Record : eval[d].rows[k].at \in Nat
        BY <1>4 DEF Shape, EvalType, RowType
      <4>3. \A k \in Record : eval[d].rows[k].at <= baseline'[k].at
        BY <1>9, <4>1, <4>2
      <4>. QED
        BY <4>1, <4>3
    <3>. QED
      BY <3>1, <3>2
  <2>2. ASSUME NEW e \in events'
        PROVE  e.at >= 1 /\ e.at <= baseline'[e.record].at /\ e.version <= version
    <3>1. CASE e \in events
      <4>1. e \in EventType /\ e.at >= 1 /\ e.at <= baseline[e.record].at /\ e.version <= version
        BY <1>4, <3>1 DEF Shape, Published
      <4>2. e.record \in Record /\ e.at \in Nat
        BY <4>1 DEF EventType
      <4>3. e.at <= baseline'[e.record].at
        BY <1>9, <4>1, <4>2
      <4>. QED
        BY <4>1, <4>3
    <3>2. CASE e \in News(c, first)
      BY <1>5, <1>10, <1>11, <3>2
    <3>. QED
      BY <1>1, <3>1, <3>2
  <2>3. \A k \in Record : Len(published[k]) <= MaxObs[k]
    BY <1>4 DEF Published
  <2>. QED
    BY <1>2, <1>9, <2>1, <2>2, <2>3 DEF Published
<1>14. ASSUME ~leftover'
       PROVE  ~leftover /\ \A k \in Record : Has(baseline'[k]) => baseline'[k].version = version
  BY <1>1, <1>14
<1>15. OneVersion'
  <2>. SUFFICES ASSUME ~leftover'
                PROVE  /\ \A k \in Record : Has(baseline'[k]) => baseline'[k].version = version
                       /\ \A e \in events' : baseline'[e.record].version = version
    BY <1>2 DEF OneVersion
  <2>1. ASSUME NEW e \in events' PROVE e.record \in Record /\ Has(baseline'[e.record])
    <3>1. e \in EventType /\ e.at >= 1 /\ e.at <= baseline'[e.record].at
      BY <1>12, <1>13, <2>1 DEF Shape, Published
    <3>2. e.record \in Record /\ e.at \in Nat
      BY <3>1 DEF EventType
    <3>. QED
      BY <1>9, <3>1, <3>2 DEF Has
  <2>. QED
    BY <1>14, <2>1
<1>16. ReadOfItsVersion'
  <2>. SUFFICES ASSUME ~leftover', NEW d \in Eval, eval'[d].at \in {"baseline", "save"}, eval'[d].version = version
                PROVE  IF eval'[d].comparable
                       THEN /\ \A k \in Record : LET row == eval'[d].rows[k] IN
                                 Has(row) => row.version = version /\ Judged(k, row)
                            /\ \E k \in Record : Has(eval'[d].rows[k])
                            /\ \E k \in Record : Has(baseline'[k]) /\ baseline'[k].version = version
                       ELSE \A k \in Record : eval'[d].rows[k].version # version
    BY <1>2 DEF ReadOfItsVersion, Reading, Judged
  <2>1. d # c /\ eval'[d] = eval[d]
    BY <1>7, <1>8
  <2>2. Reading(d) /\ ~leftover
    BY <1>14, <2>1 DEF Reading
  <2>3. IF eval[d].comparable
        THEN /\ \A k \in Record : LET row == eval[d].rows[k] IN
                  Has(row) => row.version = version /\ Judged(k, row)
             /\ \E k \in Record : Has(eval[d].rows[k])
             /\ \E k \in Record : Has(baseline[k]) /\ baseline[k].version = version
        ELSE \A k \in Record : eval[d].rows[k].version # version
    BY <1>4, <2>2 DEF ReadOfItsVersion
  <2>4. \A k \in Record : Has(baseline[k]) => Has(baseline'[k]) /\ baseline'[k].version = version
    <3>1. \A k \in Record : Has(baseline[k]) => Has(baseline'[k])
      BY <1>9 DEF Has
    <3>. QED
      BY <1>14, <3>1
  <2>. QED
    BY <2>1, <2>3, <2>4
<1>17. RowOfItsCriteria'
  <2>. SUFFICES ASSUME ~leftover', NEW k \in Record, Has(baseline'[k]), baseline'[k].version = version
                PROVE  Judged(k, baseline'[k])
    BY <1>2 DEF RowOfItsCriteria, Judged
  <2>1. ~leftover
    BY <1>14
  <2>2. CASE baseline'[k] = baseline[k]
    BY <1>4, <2>1, <2>2 DEF RowOfItsCriteria, Judged
  <2>3. CASE k \in Fresh(c) /\ baseline'[k] # baseline[k]
    <3>1. baseline'[k] = Current(c, k)
      BY <1>1, <1>3, <1>4, <2>3, SavedRow
    <3>. QED
      BY <1>3, <1>4, <2>3, <3>1, Compared
  <2>4. CASE k \notin Fresh(c) /\ baseline'[k] # baseline[k]
    <3>. DEFINE p == Previous(c, k)
    <3>1. Has(p) /\ baseline'[k].at = p.at /\ baseline'[k].status = p.status
      BY <1>1, <1>3, <1>4, <2>4, SavedRow
    <3>2. p # NoRow
      <4>1. ~Has(NoRow)
        BY DEF NoRow, Has
      <4>. HIDE DEF p
      <4>. QED
        BY <3>1, <4>1
    <3>3. Judged(k, p)
      BY <1>3, <2>1, <3>1, <3>2, Unchanged
    <3>. HIDE DEF p
    <3>. QED
      BY <3>1, <3>3 DEF Judged
  <2>. QED
    BY <2>2, <2>3, <2>4
<1>18. ChangesTold'
  <2>. SUFFICES ASSUME ~leftover', NEW k \in Record \ raced'
                PROVE  known'[k] = IF Has(baseline'[k]) /\ baseline'[k].version = version /\ baseline'[k].status = "match"
                                   THEN published[k][baseline'[k].at] ELSE Nothing
    BY <1>2 DEF ChangesTold, Agrees
  <2>1. ~leftover /\ k \notin raced /\ (k \in Fresh(c) => baseline[k] = eval[c].rows[k])
    BY <1>1, <1>14
  <2>2. CASE k \in Fresh(c)
    <3>1. Has(baseline'[k])
      BY <1>9, <1>11, <2>2 DEF Has
    <3>2. baseline'[k].version = version
      BY <1>14, <3>1
    <3>. QED
      BY <1>1, <1>3, <2>1, <2>2, <3>1, <3>2, FreshTold
  <2>3. CASE k \notin Fresh(c)
    BY <1>1, <1>3, <2>1, <2>3, StaleTold
  <2>. QED
    BY <2>2, <2>3
<1>19. ToldOnce'
  <2>. SUFFICES ASSUME repeated', ~leftover', raced' = {} PROVE FALSE
    BY DEF ToldOnce
  <2>1. ~leftover /\ raced = {} /\ \A k \in Fresh(c) : baseline[k] = eval[c].rows[k]
    BY <1>1, <1>14
  <2>2. ~repeated
    BY <1>4, <2>1 DEF ToldOnce
  <2>3. PICK e \in News(c, first) : e \in events
    BY <1>1, <2>2
  <2>4. e.record \in Fresh(c) /\ e.version = version /\ e.at = eval[c].seen[e.record]
    BY <1>10, <2>3
  <2>. QED
    BY <1>3, <2>1, <2>3, <2>4, NotTold
<1>. QED
  BY <1>12, <1>13, <1>15, <1>16, <1>17, <1>18, <1>19 DEF IndInv

-----------------------------------------------------------------------------
(* What a hunt promises.                                                     *)

\* Every step of a publisher, a member or an evaluation keeps the invariant.
LEMMA InvStep == IndInv /\ [Next]_vars => IndInv'
<1>. SUFFICES ASSUME IndInv, [Next]_vars PROVE IndInv'
  OBVIOUS
<1>1. ASSUME NEW k \in Record, NEW x \in Value, Publish(k, x) PROVE IndInv'
  BY <1>1, PublishStep
<1>2. CASE EditCriteria
  BY <1>2, EditStep
<1>3. ASSUME NEW c \in Eval, Evaluate(c) PROVE IndInv'
  BY <1>3, CollectStep, BaselineStep, SaveStep, GiveUpStep DEF Evaluate
<1>4. CASE UNCHANGED vars
  BY <1>4 DEF vars, histories, IndInv, Shape, Published, OneVersion, ReadOfItsVersion, Reading, Judged,
     RowOfItsCriteria, ChangesTold, Agrees, ToldOnce
<1>. QED
  BY <1>1, <1>2, <1>3, <1>4 DEF Next

\* The invariant holds of every hunt, however its evaluations overlap.
THEOREM InvariantHolds == Spec => []IndInv
<1>. QED
  BY InitInv, InvStep, PTL DEF Spec

\* Rows, events and evaluations are of published observations and existing versions.
THEOREM TypeCorrect == Spec => []TypeOK
<1>. QED
  BY InvariantHolds, Typed, PTL

\* A row of the criteria in force holds their verdict on what was published, so that
\* the comparison of the next evaluation is with the same criteria, unless a save
\* left older rows beside newer ones.
THEOREM RowsAreOfTheirCriteria == Spec => []RowOfItsCriteria
<1>1. IndInv => RowOfItsCriteria
  BY DEF IndInv
<1>. QED
  BY <1>1, InvariantHolds, PTL

\* From the silent start on, the events that the save transaction records add up to
\* the baseline, but for records saved by overlapping evaluations.
THEOREM ChangesAreTold == Spec => []ChangesTold
<1>1. IndInv => ChangesTold
  BY DEF IndInv
<1>. QED
  BY <1>1, InvariantHolds, PTL

\* An evaluation finds an event that was recorded before only if it overlapped with
\* another on a record, or rows of older criteria were left.
THEOREM EachToldOnce == Spec => []ToldOnce
<1>1. IndInv => ToldOnce
  BY DEF IndInv
<1>. QED
  BY <1>1, InvariantHolds, PTL

\* Whichever evaluation saves last, ON CONFLICT ... WHERE keeps an older observation
\* from the place of a newer one.
THEOREM BaselineMovesForward == Spec => BaselineForward
<1>1. ASSUME IndInv, [Next]_vars, baseline' # baseline, NEW k \in Record
      PROVE  baseline'[k].at >= baseline[k].at
  <2>1. PICK c \in Eval : Save(c)
    BY <1>1 DEF Next, vars, Publish, EditCriteria, Evaluate, Collect, ReadBaseline, GiveUp, Reads
  <2>2. Saving(c) /\ baseline' = Saved(c)
    BY <2>1 DEF Save, VersionMoved, Saving
  <2>3. Shape /\ Published
    BY <1>1 DEF IndInv
  <2>. QED
    BY <2>2, <2>3, SavedRow
<1>2. IndInv /\ [Next]_vars => [\A k \in Record : baseline'[k].at >= baseline[k].at]_baseline
  BY <1>1
<1>. QED
  BY <1>2, InvariantHolds, PTL DEF Spec, BaselineForward

=============================================================================
