------------------------------- MODULE Billing -------------------------------
(***************************************************************************)
(* Subscriptions and entitlement of one member account: checkout, the      *)
(* payment provider's events, and the webhook that claims an event in the  *)
(* ledger of accounts/store.js, looks up the live subscription and writes  *)
(* its state to the account (app/api/webhooks/stripe/route.ts).            *)
(*                                                                         *)
(* The provider delivers an event until it is answered with success: late, *)
(* out of order, and again while an earlier delivery is still at work.     *)
(* Every await of a delivery is a step; a call of the account API may      *)
(* fail, or take effect and its answer be lost (it is aborted after 8 s).  *)
(* Subscriptions carry the account's id, so the account is always found.   *)
(***************************************************************************)
EXTENDS Naturals, FiniteSets

CONSTANTS
  Sub,       \* subscriptions the member may take out
  Handler,   \* deliveries at work at once
  Nothing,   \* no delivery, or nothing looked up
  MaxFaults  \* bound: failed calls and crashes

ASSUME FaultAssumption == MaxFaults \in Nat

VARIABLES
  live,      \* the provider: status of each subscription
  open,      \* checkout sessions that can still be paid
  emitted,   \* events of the provider
  answered,  \* events answered with a success status
  ledger,    \* stripe_webhook_events
  account,   \* subscription_id and subscription_status of the account
  handler,   \* the deliveries at work
  faults,
  excuses    \* history: what may have parted account and subscription

vars == <<live, open, emitted, answered, ledger, account, handler, faults, excuses>>

-----------------------------------------------------------------------------
Event  == Sub \X {"completed", "created", "deleted"}
State  == [sub : Sub, status : {"none", "active", "canceled"}]
Step   == {"idle", "claimed", "found", "releasing"}
Work   == [at : Step, event : Event \cup {Nothing}, state : State \cup {Nothing}, fresh : BOOLEAN]

ASSUME NothingAssumption == Nothing \notin Event \cup State

\* A claim nobody releases (a crash, a failed release, a call that took effect
\* unanswered); a duplicate answered before its first delivery failed; an old
\* object for want of the live one; a state read before and written after a newer
\* one; a lapsed subscription written while another one is active.
Excuse == {"claim left behind", "answered early", "stale object", "overtaken", "other subscription"}

\* What a subscription event carries: the subscription as it was then.  (Here and
\* below, Name_Suffix is Name with a plausible mistake.)
Object(e) == [sub |-> e[1], status |-> IF e[2] = "deleted" THEN "canceled" ELSE "active"]
Current(s) == [sub |-> s, status |-> live[s]]

Idle == [at |-> "idle", event |-> Nothing, state |-> Nothing, fresh |-> TRUE]

TypeOK ==
  /\ live \in [Sub -> {"none", "active", "canceled"}]
  /\ open \subseteq Sub
  /\ emitted \subseteq Event
  /\ answered \subseteq emitted
  /\ ledger \subseteq emitted
  /\ account \in State
  /\ handler \in [Handler -> Work]
  /\ faults \in 0 .. MaxFaults
  /\ excuses \subseteq Excuse

Init ==
  /\ live = [s \in Sub |-> "none"]
  /\ open = {} /\ emitted = {} /\ answered = {} /\ ledger = {}
  /\ account \in {Current(s) : s \in Sub}
  /\ handler = [h \in Handler |-> Idle]
  /\ faults = 0 /\ excuses = {}

Entitled == account.status = "active"

-----------------------------------------------------------------------------
(* The member and the provider.                                              *)

\* POST /api/checkout: refused to a member who is entitled; a session once made
\* stays payable.
Checkout(s) ==
  /\ ~Entitled
  /\ live[s] = "none"
  /\ open' = open \cup {s}
  /\ UNCHANGED <<live, emitted, answered, ledger, account, handler, faults, excuses>>

Emit(s, status, kinds) ==
  /\ live' = [live EXCEPT ![s] = status]
  /\ emitted' = emitted \cup ({s} \X kinds)
  /\ UNCHANGED <<answered, ledger, account, handler, faults, excuses>>

Pay(s)    == s \in open /\ open' = open \ {s} /\ Emit(s, "active", {"completed", "created"})
Cancel(s) == live[s] = "active" /\ Emit(s, "canceled", {"deleted"}) /\ UNCHANGED open

-----------------------------------------------------------------------------
(* A delivery.                                                               *)

Provider == UNCHANGED <<live, open, emitted>>
Fault    == faults < MaxFaults /\ faults' = faults + 1
Excused(cond, why) == excuses' = IF cond THEN excuses \cup {why} ELSE excuses

Becomes(h, step) == handler' = [handler EXCEPT ![h] = [@ EXCEPT !.at = step]]
Ends(h)          == handler' = [handler EXCEPT ![h] = Idle]

\* recordWebhookEvent: INSERT ... ON CONFLICT DO NOTHING, or under the file lock.
Duplicate_Never(e) == FALSE
Duplicate(e) == e \in ledger

Accept(h, e) ==
  /\ ~Duplicate(e)
  /\ ledger' = ledger \cup {e}
  /\ handler' = [handler EXCEPT ![h] = [@ EXCEPT !.at = "claimed", !.event = e]]
  /\ UNCHANGED <<answered, faults, excuses>>

Repeat(e) ==
  /\ Duplicate(e)
  /\ answered' = answered \cup {e}
  /\ UNCHANGED <<ledger, handler, faults, excuses>>

\* 503 without a claim, or with one that nobody will release.
Refuse(e) ==
  /\ Fault
  /\ ledger' \in {ledger, ledger \cup {e}}
  /\ Excused(~Duplicate(e) /\ e \in ledger', "claim left behind")
  /\ UNCHANGED <<answered, handler>>

Deliver(h, e) ==
  /\ handler[h].at = "idle"
  /\ e \in emitted \ answered
  /\ Accept(h, e) \/ Repeat(e) \/ Refuse(e)
  /\ UNCHANGED account /\ Provider

\* getSubscription; without an answer a checkout is retried later, any other
\* event falls back on the object it carries.
Lookup_Object(e) == Object(e)
Lookup(e) == Current(e[1])

Finds(h, state) == handler' = [handler EXCEPT ![h] =
  [@ EXCEPT !.at = "found", !.state = state, !.fresh = TRUE]]

Answers(h, e)   == Finds(h, Lookup(e)) /\ UNCHANGED <<faults, excuses>>
Postpones(h, e) == Fault /\ e[2] = "completed" /\ Becomes(h, "releasing") /\ UNCHANGED excuses
FallsBack(h, e) ==
  /\ Fault
  /\ e[2] # "completed"
  /\ Finds(h, Object(e))
  /\ Excused(Object(e) # Current(e[1]), "stale object")

Look(h) ==
  /\ handler[h].at = "claimed"
  /\ LET e == handler[h].event IN Answers(h, e) \/ Postpones(h, e) \/ FallsBack(h, e)
  /\ UNCHANGED <<answered, ledger, account>> /\ Provider

\* applySubscription: the state of one subscription becomes the account's.
Written(h) ==
  /\ account' = handler[h].state
  /\ LET s == handler[h].state
         overtaken == ~handler[h].fresh /\ s # Current(s.sub)
         other == s.status # "active" /\ \E t \in Sub \ {s.sub} : live[t] = "active"
     IN  excuses' = excuses \cup (IF overtaken THEN {"overtaken"} ELSE {})
                            \cup (IF other THEN {"other subscription"} ELSE {})

Overtaking(h, own) == handler' = [q \in Handler |->
  IF q = h THEN own ELSE [handler[q] EXCEPT !.fresh = handler[q].at # "found"]]

AfterFailure_Forgets(h) == Idle
AfterFailure(h) == [Idle EXCEPT !.at = "releasing", !.event = handler[h].event]

Succeeds(h) ==
  /\ Written(h)
  /\ Overtaking(h, Idle)
  /\ answered' = answered \cup {handler[h].event}
  /\ UNCHANGED faults

Unanswered(h) == Fault /\ Written(h) /\ Overtaking(h, AfterFailure(h)) /\ UNCHANGED answered

Fails(h) ==
  /\ Fault
  /\ handler' = [handler EXCEPT ![h] = AfterFailure(h)]
  /\ UNCHANGED <<account, excuses, answered>>

Apply(h) ==
  /\ handler[h].at = "found"
  /\ Succeeds(h) \/ Unanswered(h) \/ Fails(h)
  /\ UNCHANGED ledger /\ Provider

\* retryLater: the claim is released, or that call fails as well.
Released(h) ==
  /\ ledger' = ledger \ {handler[h].event}
  /\ Excused(handler[h].event \in answered, "answered early")
  /\ UNCHANGED faults

LeftBehind == Fault /\ Excused(TRUE, "claim left behind") /\ UNCHANGED ledger

Release(h) ==
  /\ handler[h].at = "releasing"
  /\ Ends(h)
  /\ Released(h) \/ LeftBehind
  /\ UNCHANGED <<answered, account>> /\ Provider

\* The front end crashes or is redeployed; nobody releases the claim.
Die(h) ==
  /\ handler[h].at # "idle"
  /\ Ends(h)
  /\ LeftBehind
  /\ UNCHANGED <<answered, account>> /\ Provider

Delivery(h) == Look(h) \/ Apply(h) \/ Release(h)

Next ==
  \/ \E s \in Sub : Checkout(s) \/ Pay(s) \/ Cancel(s)
  \/ \E h \in Handler : Delivery(h) \/ Die(h) \/ \E e \in Event : Deliver(h, e)

Spec == Init /\ [][Next]_vars

-----------------------------------------------------------------------------
(* What the webhook promises.                                                *)

\* route.ts:67-68: "two simultaneous deliveries cannot both run": an event has
\* one delivery past its claim, however often it is delivered, failed, released
\* and claimed again.
OneDeliveryRuns == \A g, h \in Handler :
  handler[g].event = handler[h].event /\ handler[g].event # Nothing => g = h

\* route.ts:69, "A failure below releases the claim so Stripe's retry is
\* processed": a claim is of an event that was answered or has a delivery at
\* work, unless the release itself failed.
ClaimsHeld == "claim left behind" \notin excuses =>
  \A e \in ledger \ answered : \E h \in Handler : handler[h].event = e

\* route.ts:60-62, 97: the account's state is the entitlement and the live
\* subscription is the truth.  When every event has been answered the two agree,
\* in whatever order events came, unless one of the excuses occurred: these five
\* are all the ways to part them.
EntitlementIsLive ==
  /\ emitted \subseteq answered
  /\ \A h \in Handler : handler[h].at = "idle"
  /\ excuses = {}
  => (Entitled <=> \E s \in Sub : live[s] = "active")
=============================================================================
