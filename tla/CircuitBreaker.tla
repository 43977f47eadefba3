--------------------------- MODULE CircuitBreaker ---------------------------
(***************************************************************************)
(* The circuit breaker of one collector (scrapers/circuit-breaker.js) under *)
(* the requests the collector has in flight at once: fetchTextWithPolicy   *)
(* and fetchJsonWithPolicy of scrapers/http.js inside the retry loop of    *)
(* scrapers/base.js, with its cooldown and the outages of the publisher.   *)
(*                                                                         *)
(* failureVersion only ever grows and is only compared with the value a    *)
(* request remembers, so the comparison is kept instead of the number:     *)
(* fresh says that no failure was recorded since the request began.        *)
(***************************************************************************)
EXTENDS Naturals, FiniteSets

CONSTANTS
  Request,   \* requests a collector may have in flight (its concurrency)
  Threshold, \* failureThreshold
  Cooldown,  \* cooldownMs, in ticks
  Timeout,   \* ticks after which a request is aborted
  MaxFails   \* bound: consecutiveFailures, counted no further

ASSUME LimitAssumption == /\ Threshold \in Nat \ {0}
                          /\ MaxFails \in Nat /\ MaxFails >= Threshold
ASSUME TimeAssumption  == Cooldown \in Nat /\ Timeout \in Nat

VARIABLES
  breaker, \* _state, consecutiveFailures, ticks since lastTrippedAt
  flight,  \* the requests under way
  up,      \* the publisher answers properly
  streak,  \* history: failures since the last call that got a good response
  wall     \* history: ticks for which a 403 or a challenge is still to be respected

vars == <<breaker, flight, up, streak, wall>>

-----------------------------------------------------------------------------
NotAsked == [asked |-> FALSE, fresh |-> FALSE, age |-> 0]

TypeOK ==
  /\ breaker \in [state : {"CLOSED", "OPEN", "HALF-OPEN"}, fails : 0 .. MaxFails,
                  since : 0 .. Cooldown + 1]
  /\ flight \in [Request -> [asked : BOOLEAN, fresh : BOOLEAN, age : 0 .. Timeout]]
  /\ up \in BOOLEAN
  /\ streak \in 0 .. MaxFails
  /\ wall \in 0 .. Cooldown + 1

Closed == [state |-> "CLOSED", fails |-> 0, since |-> 0]

Init ==
  /\ breaker = Closed
  /\ flight = [r \in Request |-> NotAsked]
  /\ up = TRUE
  /\ streak = 0
  /\ wall = 0

\* One more, up to a limit.
Next1(n, limit) == IF n < limit THEN n + 1 ELSE n

-----------------------------------------------------------------------------
(* The breaker.  A definition Name_Suffix is Name with a plausible mistake. *)

\* The getter `state`, which every isOpen() goes through.
Read_Restamps(b) == IF b.state # "OPEN" THEN b
                    ELSE IF b.since > Cooldown THEN [b EXCEPT !.state = "HALF-OPEN"]
                    ELSE [b EXCEPT !.since = 0]
Read(b) == IF b.state = "OPEN" /\ b.since > Cooldown
           THEN [b EXCEPT !.state = "HALF-OPEN"]
           ELSE b

\* trip looks at the stored state, not through the getter.
Trip_ByCount(b, immediate) ==
  LET n == Next1(b.fails, MaxFails) IN
  IF n >= Threshold THEN [state |-> "OPEN", fails |-> n, since |-> 0]
  ELSE [b EXCEPT !.fails = n]
Trip(b, immediate) ==
  LET n == Next1(b.fails, MaxFails) IN
  IF immediate \/ n >= Threshold \/ b.state = "HALF-OPEN"
  THEN [state |-> "OPEN", fails |-> n, since |-> 0]
  ELSE [b EXCEPT !.fails = n]

Reset(b) == Closed

\* requestGeneration === failureVersion
Fresh_Always(r) == TRUE
Fresh(r) == flight[r].fresh

\* validateResponse of a well-formed 2xx body: refused while open, and only a
\* request no failure overtook may reset the breaker.
Validated(b, r) ==
  IF Read(b).state = "OPEN" THEN b
  ELSE IF Fresh(r) THEN Reset(Read(b)) ELSE Read(b)

-----------------------------------------------------------------------------
(* Requests.                                                                 *)

\* Every check before a request (executeWithRetry and fetchTextWithPolicy).
Ask(r) ==
  /\ ~flight[r].asked
  /\ Read(breaker).state # "OPEN"
  /\ breaker' = Read(breaker)
  /\ flight' = [flight EXCEPT ![r] = [asked |-> TRUE, fresh |-> TRUE, age |-> 0]]
  /\ UNCHANGED <<up, streak, wall>>

Answered(r) == [flight EXCEPT ![r] = NotAsked]

\* A failure makes every request that is still out a stale one.
Overtaken(r) == [q \in Request |-> IF q = r THEN NotAsked
                                   ELSE [flight[q] EXCEPT !.fresh = FALSE]]

Good(r) ==
  /\ flight[r].asked
  /\ breaker' = Validated(breaker, r)
  /\ flight' = Answered(r)
  /\ IF flight[r].fresh THEN streak' = 0 /\ wall' = 0 ELSE UNCHANGED <<streak, wall>>
  /\ UNCHANGED up

\* A 403, a challenge page or an empty body: trip at once.
Forbidden(r) ==
  /\ flight[r].asked /\ ~up
  /\ breaker' = Trip(breaker, TRUE)
  /\ flight' = Overtaken(r)
  /\ streak' = Next1(streak, MaxFails)
  /\ wall' = Cooldown + 1
  /\ UNCHANGED up

\* Another status, a truncated body, a transport error, or the timeout.
Broken(r) ==
  /\ flight[r].asked /\ (~up \/ flight[r].age = Timeout)
  /\ breaker' = Trip(breaker, FALSE)
  /\ flight' = Overtaken(r)
  /\ streak' = Next1(streak, MaxFails)
  /\ UNCHANGED <<up, wall>>

\* A body that passes validateResponse and then does not parse: the success is
\* recorded first, the failure after it (fetchJsonWithPolicy, executeWithRetry),
\* so a feed that is corrupt every time never counts more than one failure.
Unparsable(r) ==
  /\ flight[r].asked /\ ~up
  /\ IF Read(breaker).state = "OPEN"
     THEN /\ flight' = Answered(r)
          /\ UNCHANGED <<breaker, streak>>
     ELSE /\ breaker' = Trip(Validated(breaker, r), FALSE)
          /\ flight' = Overtaken(r)
          /\ streak' = IF flight[r].fresh THEN 1 ELSE Next1(streak, MaxFails)
  /\ UNCHANGED <<up, wall>>

\* isOpen() of the scheduler before ingestion, toJSON() of the telemetry.
Observe ==
  /\ breaker' = Read(breaker)
  /\ UNCHANGED <<flight, up, streak, wall>>

Tick ==
  /\ \A r \in Request : flight[r].asked => flight[r].age < Timeout
  /\ breaker' = [breaker EXCEPT !.since = Next1(@, Cooldown + 1)]
  /\ flight' = [r \in Request |->
                  [flight[r] EXCEPT !.age = IF flight[r].asked THEN @ + 1 ELSE @]]
  /\ wall' = IF wall > 0 THEN wall - 1 ELSE wall
  /\ UNCHANGED <<up, streak>>

\* The publisher fails or recovers.
Outage ==
  /\ up' = ~up
  /\ UNCHANGED <<breaker, flight, streak, wall>>

Answer(r) == Good(r) \/ Forbidden(r) \/ Broken(r) \/ Unparsable(r)

Next ==
  \/ \E r \in Request : Ask(r) \/ Answer(r)
  \/ Observe \/ Tick \/ Outage

\* Cycles keep asking, time passes, and a request is answered or times out.
Fairness == /\ WF_vars(Tick)
            /\ \A r \in Request : WF_vars(Ask(r)) /\ WF_vars(Answer(r))

Spec == Init /\ [][Next]_vars
FairSpec == Spec /\ Fairness

-----------------------------------------------------------------------------
(* What the breaker promises.                                                *)

\* Once a publisher refused or challenged a request, no request starts and no
\* body is accepted until the cooldown has passed or a later request succeeded,
\* whatever the requests still in flight bring back (circuit-breaker.js:129,
\* :185).
WallHolds == wall > 0 => breaker.state = "OPEN"

\* A slower success that began before a failure does not erase it: Threshold
\* failures with no good response to a later call in between always leave the
\* closed state (circuit-breaker.js:185).
StrikesCount == streak >= Threshold => breaker.state # "CLOSED"

\* A publisher that recovers for good is collected again: the breaker closes and
\* stays closed, however often its state is looked at meanwhile.
\* A timeout counts as an answer of a publisher that is down.
Recovers == <>[](up /\ \A r \in Request : flight[r].age < Timeout)
              => <>[](breaker.state = "CLOSED")
=============================================================================
