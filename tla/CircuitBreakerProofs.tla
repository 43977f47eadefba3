------------------------ MODULE CircuitBreakerProofs ------------------------
(***************************************************************************)
(* Proofs about CircuitBreaker for any number of requests in flight, any   *)
(* threshold, cooldown and timeout, and any bound on the failures counted. *)
(***************************************************************************)
EXTENDS CircuitBreaker, TLAPS

\* What is left of a refusal's wall fits into what is left of the cooldown.
WallWithinCooldown == wall > 0 => breaker.state = "OPEN" /\ breaker.since + wall <= Cooldown + 1

\* The breaker has counted every failure of the streak, and a closed one has not
\* counted enough of them.
StreakIsCounted ==
  /\ streak <= breaker.fails
  /\ breaker.state = "CLOSED" => breaker.fails < Threshold

IndInv == TypeOK /\ WallWithinCooldown /\ StreakIsCounted

Breaker == [state : {"CLOSED", "OPEN", "HALF-OPEN"}, fails : 0 .. MaxFails, since : 0 .. Cooldown + 1]
Call    == [asked : BOOLEAN, fresh : BOOLEAN, age : 0 .. Timeout]

\* Counting up to a limit stays below it, and keeps the order of two counters.
LEMMA Counting ==
  ASSUME NEW limit \in Nat, NEW m \in 0 .. limit, NEW n \in 0 .. limit
  PROVE  /\ Next1(n, limit) \in 0 .. limit
         /\ Next1(n, limit) <= n + 1
         /\ Next1(0, limit) <= 1
         /\ m <= n => Next1(m, limit) <= Next1(n, limit)
  BY DEF Next1

\* The getter only ever turns an open breaker whose cooldown has passed half-open.
LEMMA Reading ==
  ASSUME NEW b \in Breaker
  PROVE  /\ Read(b) \in Breaker
         /\ Read(b).fails = b.fails /\ Read(b).since = b.since
         /\ Read(b).state = "CLOSED" <=> b.state = "CLOSED"
         /\ b.state = "OPEN" /\ b.since <= Cooldown => Read(b) = b
<1>1. b.since \in 0 .. Cooldown + 1 /\ Cooldown \in Nat
  BY TimeAssumption DEF Breaker
<1>2. CASE b.state = "OPEN" /\ b.since > Cooldown
  <2>1. Read(b) = [b EXCEPT !.state = "HALF-OPEN"]
    BY <1>2 DEF Read
  <2>2. /\ [b EXCEPT !.state = "HALF-OPEN"] \in Breaker
        /\ [b EXCEPT !.state = "HALF-OPEN"].fails = b.fails
        /\ [b EXCEPT !.state = "HALF-OPEN"].since = b.since
        /\ [b EXCEPT !.state = "HALF-OPEN"].state = "HALF-OPEN"
    BY DEF Breaker
  <2>. QED
    BY <1>1, <1>2, <2>1, <2>2
<1>3. CASE ~(b.state = "OPEN" /\ b.since > Cooldown)
  BY <1>3 DEF Read
<1>. QED
  BY <1>2, <1>3

\* A failure is counted; what it leaves closed has not counted enough.
LEMMA Tripping ==
  ASSUME NEW b \in Breaker, NEW immediate \in BOOLEAN
  PROVE  /\ Trip(b, immediate) \in Breaker
         /\ Trip(b, immediate).fails = Next1(b.fails, MaxFails)
         /\ Trip(b, immediate).since <= b.since
         /\ b.state = "OPEN" \/ immediate => Trip(b, immediate).state = "OPEN"
         /\ immediate => Trip(b, immediate).since = 0
         /\ Trip(b, immediate).state = "CLOSED" => Next1(b.fails, MaxFails) < Threshold
<1>. DEFINE n == Next1(b.fails, MaxFails)
<1>1. n \in 0 .. MaxFails /\ b.fails \in 0 .. MaxFails /\ b.since \in 0 .. Cooldown + 1
  BY LimitAssumption, Counting DEF Breaker
<1>. HIDE DEF n
<1>2. CASE immediate \/ n >= Threshold \/ b.state = "HALF-OPEN"
  <2>1. Trip(b, immediate) = [state |-> "OPEN", fails |-> n, since |-> 0]
    BY <1>2 DEF Trip, n
  <2>. QED
    BY <1>1, <2>1, TimeAssumption DEF Breaker, n
<1>3. CASE ~(immediate \/ n >= Threshold \/ b.state = "HALF-OPEN")
  <2>1. Trip(b, immediate) = [b EXCEPT !.fails = n]
    BY <1>3 DEF Trip, n
  <2>2. n < Threshold
    BY <1>1, <1>3, LimitAssumption
  <2>3. /\ [b EXCEPT !.fails = n] \in Breaker
        /\ [b EXCEPT !.fails = n].fails = n /\ [b EXCEPT !.fails = n].since = b.since
        /\ [b EXCEPT !.fails = n].state = b.state
    BY <1>1 DEF Breaker
  <2>. QED
    BY <1>1, <1>3, <2>1, <2>2, <2>3 DEF n
<1>. QED
  BY <1>2, <1>3

\* Nothing counted, nobody asked.
LEMMA InitInv == Init => IndInv
  BY LimitAssumption, TimeAssumption
  DEF Init, IndInv, TypeOK, WallWithinCooldown, StreakIsCounted, Closed, NotAsked

\* A good answer leaves an open breaker alone, and any other at most resets.
LEMMA Validating ==
  ASSUME TypeOK, NEW r \in Request
  PROVE  /\ Validated(breaker, r) \in Breaker
         /\ Read(breaker).state = "OPEN" => Validated(breaker, r) = breaker
         /\ ~flight[r].fresh => /\ Validated(breaker, r).fails = breaker.fails
                                /\ Validated(breaker, r).state = "CLOSED" => breaker.state = "CLOSED"
         /\ flight[r].fresh /\ Read(breaker).state # "OPEN" => Validated(breaker, r) = Closed
<1>1. breaker \in Breaker /\ Closed \in Breaker
  BY LimitAssumption, TimeAssumption DEF TypeOK, Breaker, Closed
<1>. QED
  BY <1>1, Reading DEF Validated, Reset, Fresh

\* Every step keeps the inductive invariant.
LEMMA InvStep == IndInv /\ [Next]_vars => IndInv'
<1>. SUFFICES ASSUME IndInv, [Next]_vars PROVE IndInv'
  OBVIOUS
<1>. USE LimitAssumption, TimeAssumption
<1>1. /\ breaker \in Breaker
      /\ breaker.state \in {"CLOSED", "OPEN", "HALF-OPEN"} /\ breaker.fails \in 0 .. MaxFails
      /\ breaker.since \in 0 .. Cooldown + 1
      /\ flight \in [Request -> Call] /\ up \in BOOLEAN
      /\ streak \in 0 .. MaxFails /\ wall \in 0 .. Cooldown + 1
  BY DEF IndInv, TypeOK, Breaker, Call
<1>2. TypeOK' <=> /\ breaker' \in Breaker /\ flight' \in [Request -> Call] /\ up' \in BOOLEAN
                  /\ streak' \in 0 .. MaxFails /\ wall' \in 0 .. Cooldown + 1
  BY DEF TypeOK, Breaker, Call
<1>3. wall > 0 => Read(breaker) = breaker /\ breaker.state = "OPEN"
  BY <1>1, Reading DEF IndInv, WallWithinCooldown
<1>4. \A r \in Request : Answered(r) \in [Request -> Call] /\ Overtaken(r) \in [Request -> Call]
  <2>1. NotAsked \in Call /\ \A c \in Call : [c EXCEPT !.fresh = FALSE] \in Call
    <3>1. NotAsked \in Call
      BY DEF NotAsked, Call
    <3>2. \A c \in Call : [c EXCEPT !.fresh = FALSE] \in Call
      BY DEF Call
    <3>. QED
      BY <3>1, <3>2
  <2>. QED
    BY <1>1, <2>1 DEF Answered, Overtaken
<1>5. Next1(streak, MaxFails) \in 0 .. MaxFails /\ Next1(streak, MaxFails) <= Next1(breaker.fails, MaxFails)
  BY <1>1, Counting DEF IndInv, StreakIsCounted
<1>. USE DEF WallWithinCooldown, StreakIsCounted
<1>6. ASSUME NEW r \in Request, Ask(r) PROVE IndInv'
  <2>1. [asked |-> TRUE, fresh |-> TRUE, age |-> 0] \in Call
    BY DEF Call
  <2>. QED
    BY <1>1, <1>2, <1>3, <1>6, <2>1, Reading DEF Ask, IndInv
<1>7. ASSUME NEW r \in Request, Good(r) PROVE IndInv'
  <2>1. CASE flight[r].fresh
    <3>1. streak' = 0 /\ wall' = 0 /\ up' = up /\ flight' = Answered(r) /\ breaker' = Validated(breaker, r)
      BY <1>7, <2>1 DEF Good
    <3>2. breaker' = breaker \/ breaker' = Closed
      BY <1>1, <2>1, <3>1, Validating DEF IndInv
    <3>3. breaker' \in Breaker /\ breaker'.fails >= 0
      BY <3>1, Validating DEF IndInv, Breaker
    <3>. QED
      BY <1>1, <1>2, <1>4, <3>1, <3>2, <3>3 DEF IndInv, Closed
  <2>2. CASE ~flight[r].fresh
    <3>1. UNCHANGED <<streak, wall, up>> /\ flight' = Answered(r) /\ breaker' = Validated(breaker, r)
      BY <1>7, <2>2 DEF Good
    <3>2. /\ breaker' \in Breaker /\ breaker'.fails = breaker.fails
          /\ breaker'.state = "CLOSED" => breaker.state = "CLOSED"
          /\ wall > 0 => breaker' = breaker
      BY <1>3, <2>2, <3>1, Validating DEF IndInv
    <3>. QED
      BY <1>1, <1>2, <1>4, <3>1, <3>2 DEF IndInv
  <2>. QED
    BY <2>1, <2>2
<1>8. ASSUME NEW r \in Request, Forbidden(r) PROVE IndInv'
  <2>1. /\ breaker' = Trip(breaker, TRUE) /\ flight' = Overtaken(r) /\ UNCHANGED up
        /\ streak' = Next1(streak, MaxFails) /\ wall' = Cooldown + 1
    BY <1>8 DEF Forbidden
  <2>2. /\ breaker' \in Breaker /\ breaker'.fails = Next1(breaker.fails, MaxFails)
        /\ breaker'.state = "OPEN" /\ breaker'.since = 0
    BY <1>1, <2>1, Tripping
  <2>3. WallWithinCooldown' /\ wall' \in 0 .. Cooldown + 1
    <3>1. wall' = Cooldown + 1 /\ breaker'.state = "OPEN" /\ breaker'.since = 0
      BY <2>1, <2>2
    <3>. QED
      BY <3>1
  <2>4. StreakIsCounted'
    BY <1>5, <2>1, <2>2
  <2>. QED
    BY <1>2, <1>1, <1>4, <1>5, <2>1, <2>2, <2>3, <2>4 DEF IndInv
<1>9. ASSUME NEW r \in Request, Broken(r) PROVE IndInv'
  <2>1. /\ breaker' = Trip(breaker, FALSE) /\ flight' = Overtaken(r) /\ UNCHANGED <<up, wall>>
        /\ streak' = Next1(streak, MaxFails)
    BY <1>9 DEF Broken
  <2>2. /\ breaker' \in Breaker /\ breaker'.fails = Next1(breaker.fails, MaxFails)
        /\ breaker'.since <= breaker.since
        /\ breaker.state = "OPEN" => breaker'.state = "OPEN"
        /\ breaker'.state = "CLOSED" => breaker'.fails < Threshold
    BY <1>1, <2>1, Tripping
  <2>3. breaker'.since \in 0 .. Cooldown + 1
    BY <2>2 DEF Breaker
  <2>4. WallWithinCooldown'
    <3>1. wall > 0 => breaker.state = "OPEN" /\ breaker.since + wall <= Cooldown + 1
      BY DEF IndInv
    <3>. QED
      <4>1. CASE wall > 0
        <5>1. breaker'.state = "OPEN" /\ wall' = wall /\ breaker.since + wall <= Cooldown + 1
          BY <2>1, <2>2, <3>1, <4>1
        <5>2. breaker'.since + wall <= breaker.since + wall
          BY <1>1, <2>2, <2>3
        <5>3. breaker'.since + wall <= Cooldown + 1
          BY <1>1, <2>3, <5>1, <5>2
        <5>. QED
          BY <5>1, <5>3
      <4>2. CASE ~(wall > 0)
        BY <2>1, <4>2
      <4>. QED
        BY <4>1, <4>2
  <2>. QED
    BY <1>1, <1>2, <1>4, <1>5, <2>1, <2>2, <2>4 DEF IndInv
<1>10. ASSUME NEW r \in Request, Unparsable(r) PROVE IndInv'
  <2>1. CASE Read(breaker).state = "OPEN"
    BY <1>1, <1>2, <1>4, <1>10, <2>1 DEF Unparsable, IndInv
  <2>2. CASE Read(breaker).state # "OPEN"
    <3>. DEFINE b == Validated(breaker, r)
    <3>1. /\ breaker' = Trip(b, FALSE) /\ flight' = Overtaken(r) /\ UNCHANGED <<up, wall>>
          /\ streak' = IF flight[r].fresh THEN 1 ELSE Next1(streak, MaxFails)
      BY <1>10, <2>2 DEF Unparsable
    <3>2. wall = 0
      BY <1>1, <1>3, <2>2
    <3>3. b \in Breaker /\ (flight[r].fresh => b.fails = 0) /\ (~flight[r].fresh => b.fails = breaker.fails)
      BY <2>2, Validating DEF IndInv, Closed
    <3>. HIDE DEF b
    <3>4. /\ breaker' \in Breaker /\ breaker'.fails = Next1(b.fails, MaxFails)
          /\ breaker'.state = "CLOSED" => breaker'.fails < Threshold
      BY <3>1, <3>3, Tripping
    <3>5. streak' \in 0 .. MaxFails /\ streak' <= breaker'.fails
      <4>1. Next1(0, MaxFails) = 1
        BY DEF Next1
      <4>. QED
        <5>1. CASE flight[r].fresh
          <6>1. b.fails = 0 /\ streak' = 1
            BY <3>1, <3>3, <5>1
          <6>. QED
            BY <3>4, <4>1, <6>1
        <5>2. CASE ~flight[r].fresh
          BY <1>5, <3>1, <3>3, <3>4, <5>2
        <5>. QED
          BY <5>1, <5>2
    <3>. QED
      <4>1. WallWithinCooldown' /\ StreakIsCounted'
        <5>1. wall' = 0
          BY <3>1, <3>2
        <5>. QED
          BY <3>4, <3>5, <5>1
      <4>. QED
        BY <1>1, <1>2, <1>4, <3>1, <3>4, <3>5, <4>1 DEF IndInv
  <2>. QED
    BY <2>1, <2>2
<1>11. ASSUME Observe PROVE IndInv'
  BY <1>1, <1>2, <1>3, <1>11, Reading DEF Observe, IndInv
<1>12. ASSUME Tick PROVE IndInv'
  <2>1. Next1(breaker.since, Cooldown + 1) \in 0 .. Cooldown + 1
        /\ Next1(breaker.since, Cooldown + 1) <= breaker.since + 1
    BY <1>1 DEF Next1
  <2>2. /\ breaker' \in Breaker /\ breaker'.state = breaker.state /\ breaker'.fails = breaker.fails
        /\ breaker'.since = Next1(breaker.since, Cooldown + 1)
    BY <1>1, <1>12, <2>1 DEF Tick, Breaker
  <2>3. flight' \in [Request -> Call]
    BY <1>1, <1>12 DEF Tick, Call
  <2>4. wall' \in 0 .. Cooldown + 1 /\ (wall' > 0 => wall' = wall - 1 /\ wall > 0)
    BY <1>1, <1>12 DEF Tick
  <2>. QED
    BY <1>1, <1>2, <1>12, <2>1, <2>2, <2>3, <2>4 DEF Tick, IndInv
<1>13. ASSUME Outage PROVE IndInv'
  BY <1>1, <1>2, <1>13 DEF Outage, IndInv
<1>14. CASE UNCHANGED vars
  BY <1>1, <1>2, <1>14 DEF vars, IndInv
<1>. QED
  BY <1>6, <1>7, <1>8, <1>9, <1>10, <1>11, <1>12, <1>13, <1>14 DEF Next, Answer

-----------------------------------------------------------------------------
\* The inductive invariant holds in every reachable state, for any number of requests and any limits.
THEOREM InvariantHolds == Spec => []IndInv
  BY InitInv, InvStep, PTL DEF Spec

\* Every variable keeps a value of its type.
THEOREM TypeCorrect == Spec => []TypeOK
  BY InvariantHolds, PTL DEF IndInv

\* After a refusal or a challenge the breaker stays open for the whole cooldown,
\* unless a request that began after the refusal succeeds.
THEOREM WallStands == Spec => []WallHolds
<1>1. IndInv => WallHolds
  BY DEF IndInv, WallWithinCooldown, WallHolds
<1>. QED
  BY <1>1, InvariantHolds, PTL

\* As many failures as the threshold, with no good response to a later call among
\* them, always leave the closed state.
THEOREM EveryStrikeCounts == Spec => []StrikesCount
<1>1. IndInv => StrikesCount
  BY LimitAssumption DEF IndInv, StreakIsCounted, StrikesCount, TypeOK
<1>. QED
  BY <1>1, InvariantHolds, PTL
=============================================================================
