--------------------------- MODULE BillingProofs ---------------------------
(***************************************************************************)
(* Proofs about Billing for any set of subscriptions, any number of        *)
(* deliveries at work and any number of faults.                            *)
(***************************************************************************)
EXTENDS Billing, TLAPS

\* A delivery past its claim has an event, and that event is in the ledger.
ClaimMatchesControl == \A h \in Handler :
  /\ handler[h].at = "idle" <=> handler[h].event = Nothing
  /\ handler[h].event # Nothing => handler[h].event \in ledger

\* A subscription goes from none to active to canceled, and each change leaves
\* its events behind.
EventsOfChanges == \A s \in Sub :
  /\ s \in open => live[s] = "none"
  /\ <<s, "created">> \in emitted <=> live[s] # "none"
  /\ <<s, "completed">> \in emitted => live[s] # "none"
  /\ <<s, "deleted">> \in emitted <=> live[s] = "canceled"

\* A state of the event's own subscription that was true at some time after the
\* event.
TrueSince(s, e) ==
  /\ s \in State
  /\ s.sub = e[1]
  /\ s.status \in {"active", "canceled"}
  /\ s.status = "canceled" => live[e[1]] = "canceled"
  /\ e[2] = "deleted" => s.status = "canceled"

\* That is what a delivery has looked up.
FoundIsOfEvent == \A h \in Handler :
  handler[h].at = "found" => TrueSince(handler[h].state, handler[h].event)

\* Nobody is entitled by a subscription that never was.
AccountOfPaid == Entitled => live[account.sub] # "none"

\* An event is settled when it has been answered and no delivery of it is left.
Settled(e) == e \in answered /\ \A h \in Handler : handler[h].event # e

\* A state says active of a subscription that is not.
Outdated(s) == s.status = "active" /\ live[s.sub] # "active"

\* Until something excuses it: a cancellation that the account, or a delivery
\* about to write what it found, does not show yet is not settled; and once the
\* creation of an active subscription is settled the account is entitled.
CancellationsFollow == excuses = {} =>
  /\ Outdated(account) => ~Settled(<<account.sub, "deleted">>)
  /\ \A h \in Handler :
       handler[h].at = "found" /\ handler[h].fresh /\ Outdated(handler[h].state)
       => ~Settled(<<handler[h].state.sub, "deleted">>)

ActivationsFollow == excuses = {} =>
  \A s \in Sub : live[s] = "active" /\ Settled(<<s, "created">>) => Entitled

IndInv ==
  /\ TypeOK /\ ClaimMatchesControl /\ EventsOfChanges /\ FoundIsOfEvent
  /\ OneDeliveryRuns /\ ClaimsHeld
  /\ AccountOfPaid /\ CancellationsFollow /\ ActivationsFollow

\* No event, nobody at work, and an account without a subscription.
LEMMA InitInv == Init => IndInv
<1>. SUFFICES ASSUME Init PROVE IndInv
  OBVIOUS
<1>1. /\ \A s \in Sub : live[s] = "none"
      /\ emitted = {} /\ answered = {} /\ ledger = {} /\ open = {}
      /\ \A h \in Handler : handler[h] = Idle
  BY DEF Init
<1>2. account \in State /\ account.status = "none"
  BY <1>1 DEF Init, Current, State
<1>3. TypeOK
  BY <1>2, FaultAssumption DEF Init, TypeOK, Idle, Work, Step
<1>4. ClaimMatchesControl /\ OneDeliveryRuns /\ FoundIsOfEvent
  BY <1>1 DEF ClaimMatchesControl, OneDeliveryRuns, FoundIsOfEvent, Idle
<1>5. EventsOfChanges /\ ClaimsHeld
  BY <1>1 DEF EventsOfChanges, ClaimsHeld
<1>6. AccountOfPaid /\ CancellationsFollow /\ ActivationsFollow
  BY <1>1, <1>2 DEF AccountOfPaid, Entitled, CancellationsFollow, ActivationsFollow, Settled, Outdated, Idle
<1>. QED
  BY <1>3, <1>4, <1>5, <1>6 DEF IndInv

\* What the steps of a delivery leave in its place.
LEMMA WorkUpdates ==
  ASSUME TypeOK
  PROVE  /\ Idle \in Work
         /\ \A h \in Handler : /\ AfterFailure(h) \in Work
                               /\ [handler[h] EXCEPT !.at = "releasing"] \in Work
                               /\ [handler[h] EXCEPT !.fresh = (handler[h].at # "found")] \in Work
         /\ \A h \in Handler, e \in Event : [handler[h] EXCEPT !.at = "claimed", !.event = e] \in Work
         /\ \A h \in Handler, s \in State :
              [handler[h] EXCEPT !.at = "found", !.state = s, !.fresh = TRUE] \in Work
  BY DEF TypeOK, Work, Step, Idle, AfterFailure

\* The subscription of an event, as the provider or the event has it, is a state.
LEMMA FoundStates ==
  ASSUME TypeOK, NEW e \in Event
  PROVE  Lookup(e) \in State /\ Object(e) \in State
  BY DEF TypeOK, Lookup, Current, Object, State, Event

\* The count of faults, and the excuses, whoever adds to them.
LEMMA FaultsStep ==
  ASSUME TypeOK, [Next]_vars
  PROVE  faults' \in 0 .. MaxFaults
<1>1. faults' = faults \/ Fault
  BY DEF Next, vars, Delivery, Checkout, Pay, Cancel, Emit, Deliver, Accept, Repeat, Refuse, Look, Answers,
         Postpones, FallsBack, Apply, Succeeds, Unanswered, Fails, Release, Released, LeftBehind, Die
<1>2. faults \in 0 .. MaxFaults
  BY DEF TypeOK
<1>. QED
  BY <1>1, <1>2, FaultAssumption DEF Fault

\* Every action leaves values of their types.
LEMMA TypeStep ==
  ASSUME TypeOK, FoundIsOfEvent, ClaimMatchesControl, [Next]_vars
  PROVE  TypeOK'
<1>. USE FaultsStep DEF TypeOK, Excuse
<1>1. ASSUME NEW s \in Sub, Checkout(s) PROVE TypeOK'
  BY <1>1 DEF Checkout
<1>2. ASSUME NEW s \in Sub, Pay(s) PROVE TypeOK'
  BY <1>2 DEF Pay, Emit, Event
<1>3. ASSUME NEW s \in Sub, Cancel(s) PROVE TypeOK'
  BY <1>3 DEF Cancel, Emit, Event
<1>4. ASSUME NEW h \in Handler, NEW e \in Event, Deliver(h, e) PROVE TypeOK'
  <2>1. CASE Accept(h, e)
    BY <1>4, <2>1, WorkUpdates DEF Deliver, Provider, Accept
  <2>2. CASE Repeat(e)
    BY <1>4, <2>2 DEF Deliver, Provider, Repeat, Duplicate
  <2>3. CASE Refuse(e)
    BY <1>4, <2>3 DEF Deliver, Provider, Refuse, Excused
  <2>. QED
    BY <1>4, <2>1, <2>2, <2>3 DEF Deliver
<1>5. ASSUME NEW h \in Handler, Look(h) PROVE TypeOK'
  <2>1. handler[h].event \in Event
    BY <1>5 DEF Look, ClaimMatchesControl
  <2>2. ASSUME NEW s \in State, Finds(h, s) PROVE handler' \in [Handler -> Work]
    <3>1. [handler[h] EXCEPT !.at = "found", !.state = s, !.fresh = TRUE] \in Work
      BY WorkUpdates
    <3>. QED
      BY <2>2, <3>1 DEF Finds
  <2>3. handler' \in [Handler -> Work]
    BY <1>5, <2>1, <2>2, FoundStates, WorkUpdates DEF Look, Answers, Postpones, Becomes, FallsBack
  <2>4. excuses' \subseteq Excuse
    BY <1>5 DEF Look, Answers, Postpones, FallsBack, Excused
  <2>. QED
    BY <1>5, <2>3, <2>4 DEF Look, Provider
<1>6. ASSUME NEW h \in Handler, Apply(h) PROVE TypeOK'
  <2>1. /\ handler[h].state \in State
        /\ handler[h].event \in emitted
    BY <1>6 DEF Apply, FoundIsOfEvent, TrueSince, ClaimMatchesControl
  <2>2. CASE Succeeds(h)
    <3>1. handler' \in [Handler -> Work]
      BY <2>2, WorkUpdates DEF Succeeds, Overtaking
    <3>. QED
      BY <1>6, <2>1, <2>2, <3>1 DEF Apply, Provider, Succeeds, Written
  <2>3. CASE Unanswered(h)
    <3>1. handler' \in [Handler -> Work]
      BY <2>3, WorkUpdates DEF Unanswered, Overtaking
    <3>. QED
      BY <1>6, <2>1, <2>3, <3>1 DEF Apply, Provider, Unanswered, Written
  <2>4. CASE Fails(h)
    BY <1>6, <2>4, WorkUpdates DEF Apply, Provider, Fails
  <2>. QED
    BY <1>6, <2>2, <2>3, <2>4 DEF Apply
<1>7. ASSUME NEW h \in Handler, Release(h) PROVE TypeOK'
  BY <1>7, WorkUpdates DEF Release, Provider, Ends, Released, LeftBehind, Excused
<1>8. ASSUME NEW h \in Handler, Die(h) PROVE TypeOK'
  BY <1>8, WorkUpdates DEF Die, LeftBehind, Provider, Excused, Ends
<1>9. ASSUME UNCHANGED vars PROVE TypeOK'
  BY <1>9 DEF vars
<1>. QED
  BY <1>1, <1>2, <1>3, <1>4, <1>5, <1>6, <1>7, <1>8, <1>9 DEF Next, Delivery

\* The ledger keeps a second delivery of an event out.
LEMMA ClaimStep ==
  ASSUME TypeOK, ClaimMatchesControl, OneDeliveryRuns, [Next]_vars
  PROVE  (ClaimMatchesControl /\ OneDeliveryRuns)'
<1>. USE NothingAssumption DEF TypeOK, Work, Step, ClaimMatchesControl, OneDeliveryRuns
<1>1. ASSUME NEW s \in Sub, Checkout(s) PROVE (ClaimMatchesControl /\ OneDeliveryRuns)'
  BY <1>1 DEF Checkout
<1>2. ASSUME NEW s \in Sub, Pay(s) PROVE (ClaimMatchesControl /\ OneDeliveryRuns)'
  BY <1>2 DEF Pay, Emit
<1>3. ASSUME NEW s \in Sub, Cancel(s) PROVE (ClaimMatchesControl /\ OneDeliveryRuns)'
  BY <1>3 DEF Cancel, Emit
<1>4. ASSUME NEW h \in Handler, NEW e \in Event, Deliver(h, e) PROVE (ClaimMatchesControl /\ OneDeliveryRuns)'
  <2>1. CASE Accept(h, e)
    BY <1>4, <2>1 DEF Deliver, Provider, Accept, Duplicate
  <2>2. CASE Repeat(e)
    BY <1>4, <2>2 DEF Deliver, Provider, Repeat, Duplicate
  <2>3. CASE Refuse(e)
    BY <1>4, <2>3 DEF Deliver, Provider, Refuse, Excused, Duplicate, Fault
  <2>. QED
    BY <1>4, <2>1, <2>2, <2>3 DEF Deliver
<1>5. ASSUME NEW h \in Handler, Look(h) PROVE (ClaimMatchesControl /\ OneDeliveryRuns)'
  <2>1. CASE Answers(h, handler[h].event)
    BY <1>5, <2>1 DEF Look, Provider, Answers, Finds, Lookup, Current
  <2>2. CASE Postpones(h, handler[h].event)
    BY <1>5, <2>2 DEF Look, Provider, Postpones, Becomes, Fault
  <2>3. CASE FallsBack(h, handler[h].event)
    BY <1>5, <2>3 DEF Look, Provider, FallsBack, Finds, Excused, Object, Current, Fault
  <2>. QED
    BY <1>5, <2>1, <2>2, <2>3 DEF Look
<1>6. ASSUME NEW h \in Handler, Apply(h) PROVE (ClaimMatchesControl /\ OneDeliveryRuns)'
  <2>1. CASE Succeeds(h)
    BY <1>6, <2>1 DEF Apply, Provider, Succeeds, Written, Overtaking, Idle
  <2>2. CASE Unanswered(h)
    BY <1>6, <2>2 DEF Apply, Provider, Unanswered, Written, Overtaking, AfterFailure, Idle, Fault
  <2>3. CASE Fails(h)
    BY <1>6, <2>3 DEF Apply, Provider, Fails, AfterFailure, Idle, Fault
  <2>. QED
    BY <1>6, <2>1, <2>2, <2>3 DEF Apply
<1>7. ASSUME NEW h \in Handler, Release(h) PROVE (ClaimMatchesControl /\ OneDeliveryRuns)'
  <2>1. CASE Released(h)
    BY <1>7, <2>1 DEF Release, Provider, Ends, Idle, Released, Excused
  <2>2. CASE LeftBehind
    BY <1>7, <2>2 DEF Release, Provider, Ends, Idle, LeftBehind, Excused, Fault
  <2>. QED
    BY <1>7, <2>1, <2>2 DEF Release
<1>8. ASSUME NEW h \in Handler, Die(h) PROVE (ClaimMatchesControl /\ OneDeliveryRuns)'
  BY <1>8 DEF Die, LeftBehind, Provider, Fault, Excused, Ends, Idle
<1>9. ASSUME UNCHANGED vars PROVE (ClaimMatchesControl /\ OneDeliveryRuns)'
  BY <1>9 DEF vars
<1>. QED
  BY <1>1, <1>2, <1>3, <1>4, <1>5, <1>6, <1>7, <1>8, <1>9 DEF Next, Delivery

\* Changes and their events go together.
LEMMA ChangeStep ==
  ASSUME TypeOK, EventsOfChanges, [Next]_vars
  PROVE  EventsOfChanges'
<1>. USE DEF TypeOK, EventsOfChanges, Event
<1>1. ASSUME NEW s \in Sub, Checkout(s) PROVE EventsOfChanges'
  BY <1>1 DEF Checkout
<1>2. ASSUME NEW s \in Sub, Pay(s) PROVE EventsOfChanges'
  BY <1>2 DEF Pay, Emit
<1>3. ASSUME NEW s \in Sub, Cancel(s) PROVE EventsOfChanges'
  BY <1>3 DEF Cancel, Emit
<1>4. ASSUME NEW h \in Handler, NEW e \in Event, Deliver(h, e) PROVE EventsOfChanges'
  <2>1. CASE Accept(h, e)
    BY <1>4, <2>1 DEF Deliver, Provider, Accept, Duplicate
  <2>2. CASE Repeat(e)
    BY <1>4, <2>2 DEF Deliver, Provider, Repeat, Duplicate
  <2>3. CASE Refuse(e)
    BY <1>4, <2>3 DEF Deliver, Provider, Refuse, Excused, Duplicate, Fault
  <2>. QED
    BY <1>4, <2>1, <2>2, <2>3 DEF Deliver
<1>5. ASSUME NEW h \in Handler, Look(h) PROVE EventsOfChanges'
  <2>1. CASE Answers(h, handler[h].event)
    BY <1>5, <2>1 DEF Look, Provider, Answers, Finds, Lookup, Current
  <2>2. CASE Postpones(h, handler[h].event)
    BY <1>5, <2>2 DEF Look, Provider, Postpones, Becomes, Fault
  <2>3. CASE FallsBack(h, handler[h].event)
    BY <1>5, <2>3 DEF Look, Provider, FallsBack, Finds, Excused, Object, Current, Fault
  <2>. QED
    BY <1>5, <2>1, <2>2, <2>3 DEF Look
<1>6. ASSUME NEW h \in Handler, Apply(h) PROVE EventsOfChanges'
  <2>1. CASE Succeeds(h)
    BY <1>6, <2>1 DEF Apply, Provider, Succeeds, Written, Overtaking, Idle
  <2>2. CASE Unanswered(h)
    BY <1>6, <2>2 DEF Apply, Provider, Unanswered, Written, Overtaking, AfterFailure, Idle, Fault
  <2>3. CASE Fails(h)
    BY <1>6, <2>3 DEF Apply, Provider, Fails, AfterFailure, Idle, Fault
  <2>. QED
    BY <1>6, <2>1, <2>2, <2>3 DEF Apply
<1>7. ASSUME NEW h \in Handler, Release(h) PROVE EventsOfChanges'
  <2>1. CASE Released(h)
    BY <1>7, <2>1 DEF Release, Provider, Ends, Idle, Released, Excused
  <2>2. CASE LeftBehind
    BY <1>7, <2>2 DEF Release, Provider, Ends, Idle, LeftBehind, Excused, Fault
  <2>. QED
    BY <1>7, <2>1, <2>2 DEF Release
<1>8. ASSUME NEW h \in Handler, Die(h) PROVE EventsOfChanges'
  BY <1>8 DEF Die, LeftBehind, Provider, Fault, Excused, Ends, Idle
<1>9. ASSUME UNCHANGED vars PROVE EventsOfChanges'
  BY <1>9 DEF vars
<1>. QED
  BY <1>1, <1>2, <1>3, <1>4, <1>5, <1>6, <1>7, <1>8, <1>9 DEF Next, Delivery

\* The live subscription, or for want of it the object of the event.
LEMMA FoundTrue ==
  ASSUME TypeOK, EventsOfChanges, NEW e \in emitted
  PROVE  TrueSince(Lookup(e), e) /\ TrueSince(Object(e), e)
<1>1. /\ e \in Event
      /\ e = <<e[1], e[2]>> /\ e[1] \in Sub
      /\ e[2] \in {"completed", "created", "deleted"}
  BY DEF TypeOK, Event
<1>2. live[e[1]] \in {"active", "canceled"} /\ (e[2] = "deleted" => live[e[1]] = "canceled")
  BY <1>1 DEF TypeOK, EventsOfChanges
<1>. QED
  BY <1>1, <1>2, FoundStates DEF TrueSince, Lookup, Current, Object

\* A looked up state stays true of the past.
LEMMA FoundStep ==
  ASSUME TypeOK, ClaimMatchesControl, EventsOfChanges, FoundIsOfEvent, [Next]_vars
  PROVE  FoundIsOfEvent'
<1>. USE DEF FoundIsOfEvent
<1>1. ASSUME \A s \in Sub : live[s] = "canceled" => live'[s] = "canceled", UNCHANGED handler
      PROVE  FoundIsOfEvent'
  BY <1>1 DEF TrueSince, State
<1>2. ASSUME NEW s \in Sub, Checkout(s) \/ Pay(s) \/ Cancel(s) PROVE FoundIsOfEvent'
  <2>1. \A t \in Sub : live[t] = "canceled" => live'[t] = "canceled"
    BY <1>2 DEF Checkout, Pay, Cancel, Emit, TypeOK, EventsOfChanges
  <2>. QED
    BY <1>1, <1>2, <2>1 DEF Checkout, Pay, Cancel, Emit
<1>3. ASSUME NEW h \in Handler, UNCHANGED live, 
             \A q \in Handler \ {h} : handler'[q].at = handler[q].at
                /\ handler'[q].event = handler[q].event /\ handler'[q].state = handler[q].state,
             handler'[h].at = "found" => TrueSince(handler'[h].state, handler'[h].event)
      PROVE  FoundIsOfEvent'
  BY <1>3 DEF TrueSince
<1>4. ASSUME NEW h \in Handler, NEW e \in Event, Deliver(h, e) PROVE FoundIsOfEvent'
  <2>1. CASE Accept(h, e)
    BY <1>3, <1>4, <2>1 DEF Deliver, Accept, Provider, TypeOK, Work
  <2>2. CASE UNCHANGED handler
    BY <1>1, <1>4, <2>2 DEF Deliver, Provider
  <2>. QED
    BY <1>4, <2>1, <2>2 DEF Deliver, Repeat, Refuse
<1>5. ASSUME NEW h \in Handler, Look(h) PROVE FoundIsOfEvent'
  <2>1. handler[h].event \in emitted /\ UNCHANGED live
    BY <1>5 DEF Look, ClaimMatchesControl, TypeOK, Provider
  <2>2. ASSUME NEW s, Finds(h, s), TrueSince(s, handler[h].event) PROVE FoundIsOfEvent'
    BY <1>3, <2>1, <2>2 DEF Finds, TypeOK, Work
  <2>3. CASE Postpones(h, handler[h].event)
    BY <1>3, <2>1, <2>3 DEF Postpones, Becomes, TypeOK, Work
  <2>. QED
    BY <1>5, <2>1, <2>2, <2>3, FoundTrue DEF Look, Answers, FallsBack
<1>6. ASSUME NEW h \in Handler, Apply(h) PROVE FoundIsOfEvent'
  <2>1. UNCHANGED live
    BY <1>6 DEF Apply, Provider
  <2>2. Idle.at # "found" /\ AfterFailure(h).at # "found"
    BY DEF Idle, AfterFailure
  <2>3. ASSUME NEW own, own.at # "found", Overtaking(h, own) PROVE FoundIsOfEvent'
    BY <1>3, <2>1, <2>3 DEF Overtaking, TypeOK, Work
  <2>4. CASE Fails(h)
    BY <1>3, <2>1, <2>2, <2>4 DEF Fails, TypeOK, Work
  <2>. QED
    BY <1>6, <2>2, <2>3, <2>4 DEF Apply, Succeeds, Unanswered
<1>7. ASSUME NEW h \in Handler, Release(h) \/ Die(h) PROVE FoundIsOfEvent'
  BY <1>3, <1>7 DEF Release, Die, Provider, Ends, Idle, TypeOK, Work
<1>8. CASE UNCHANGED vars
  BY <1>1, <1>8 DEF vars
<1>. QED
  BY <1>2, <1>4, <1>5, <1>6, <1>7, <1>8 DEF Next, Delivery

\* The events of the deliveries after a step of one of them.
LEMMA EventsAfter ==
  ASSUME TypeOK, NEW h \in Handler, NEW q \in Handler
  PROVE  /\ \A e \in Event : Accept(h, e) => handler'[q].event = IF q = h THEN e ELSE handler[q].event
         /\ Look(h) => handler'[q].event = handler[q].event
         /\ Succeeds(h) => handler'[q].event = IF q = h THEN Nothing ELSE handler[q].event
         /\ Unanswered(h) \/ Fails(h) => handler'[q].event = handler[q].event
<1>1. /\ handler \in [Handler -> Work]
      /\ \A w \in Work : \A s, e, b :
           /\ [w EXCEPT !.at = "claimed", !.event = e].event = e
           /\ [w EXCEPT !.at = "found", !.state = s, !.fresh = TRUE].event = w.event
           /\ [w EXCEPT !.at = s].event = w.event
           /\ [w EXCEPT !.fresh = b].event = w.event
  BY DEF TypeOK, Work
<1>2. Idle.event = Nothing /\ AfterFailure(h).event = handler[h].event
  BY DEF Idle, AfterFailure
<1>. HIDE DEF Work
<1>3. \A e \in Event : Accept(h, e) => handler'[q].event = IF q = h THEN e ELSE handler[q].event
  BY <1>1 DEF Accept
<1>4. ASSUME Look(h) PROVE handler'[q].event = handler[q].event
  <2>1. ASSUME NEW s, Finds(h, s) PROVE handler'[q].event = handler[q].event
    BY <1>1, <2>1 DEF Finds
  <2>2. Becomes(h, "releasing") => handler'[q].event = handler[q].event
    BY <1>1 DEF Becomes
  <2>. QED
    BY <1>4, <2>1, <2>2 DEF Look, Answers, Postpones, FallsBack
<1>5. ASSUME NEW own, Overtaking(h, own)
      PROVE  handler'[q].event = IF q = h THEN own.event ELSE handler[q].event
  <2>1. CASE q = h
    BY <1>5, <2>1 DEF Overtaking
  <2>2. CASE q # h
    BY <1>1, <1>5, <2>2 DEF Overtaking
  <2>. QED
    BY <2>1, <2>2
<1>6. Fails(h) => handler'[q].event = handler[q].event
  BY <1>1, <1>2 DEF Fails
<1>. QED
  BY <1>2, <1>3, <1>4, <1>5, <1>6 DEF Succeeds, Unanswered

\* A claim goes with its delivery: whoever gives a delivery up removes its event
\* from the ledger, has it answered, or leaves an excuse.
LEMMA HeldStep ==
  ASSUME TypeOK, ClaimMatchesControl, OneDeliveryRuns, ClaimsHeld, [Next]_vars
  PROVE  ClaimsHeld'
<1>. USE DEF ClaimsHeld
<1>1. ASSUME excuses \subseteq excuses', ledger' \ answered' \subseteq ledger \ answered,
             \A q \in Handler : handler[q].event \in ledger' \ answered' => handler'[q].event = handler[q].event
      PROVE  ClaimsHeld'
  BY <1>1
<1>2. CASE UNCHANGED <<handler, excuses, ledger>> /\ answered \subseteq answered'
  BY <1>1, <1>2
<1>3. ASSUME NEW h \in Handler, NEW e \in Event, Deliver(h, e) PROVE ClaimsHeld'
  <2>1. CASE Accept(h, e)
    <3>1. ASSUME NEW d \in ledger' \ answered', "claim left behind" \notin excuses
          PROVE  \E q \in Handler : handler'[q].event = d
      <4>1. CASE d = e
        BY <2>1, <4>1, EventsAfter
      <4>2. CASE d # e
        <5>1. PICK q \in Handler : handler[q].event = d
          BY <2>1, <3>1, <4>2 DEF Accept
        <5>2. d \in Event /\ handler[h].event = Nothing
          BY <1>3, <2>1, <3>1 DEF Deliver, Accept, ClaimMatchesControl, TypeOK
        <5>3. q # h
          BY <5>1, <5>2, NothingAssumption
        <5>. QED
          BY <2>1, <5>1, <5>3, EventsAfter
      <4>. QED
        BY <4>1, <4>2
    <3>. QED
      BY <2>1, <3>1 DEF Accept
  <2>2. CASE Repeat(e)
    BY <1>2, <2>2 DEF Repeat
  <2>3. CASE Refuse(e)
    BY <2>3 DEF Refuse, Excused, Duplicate
  <2>. QED
    BY <1>3, <2>1, <2>2, <2>3 DEF Deliver
<1>4. ASSUME NEW h \in Handler, Look(h) PROVE ClaimsHeld'
  <2>1. \A q \in Handler : handler'[q].event = handler[q].event
    BY <1>4, EventsAfter
  <2>2. excuses \subseteq excuses'
    BY <1>4 DEF Look, Answers, Postpones, FallsBack, Excused
  <2>. QED
    BY <1>1, <1>4, <2>1, <2>2 DEF Look
<1>5. ASSUME NEW h \in Handler, Apply(h) PROVE ClaimsHeld'
  <2>1. excuses \subseteq excuses' /\ answered \subseteq answered' /\ UNCHANGED ledger
    BY <1>5 DEF Apply, Succeeds, Unanswered, Fails, Written
  <2>2. \A q \in Handler : handler'[q].event = handler[q].event \/ handler[q].event \in answered'
    <3>1. Succeeds(h) => handler[h].event \in answered'
      BY DEF Succeeds
    <3>. QED
      BY <1>5, <3>1, EventsAfter DEF Apply
  <2>. QED
    BY <1>1, <2>1, <2>2
<1>6. ASSUME NEW h \in Handler, Release(h) PROVE ClaimsHeld'
  <2>1. CASE Released(h)
    BY <1>1, <1>6, <2>1 DEF Release, Ends, Released, Excused, TypeOK
  <2>2. CASE LeftBehind
    BY <2>2 DEF LeftBehind, Excused
  <2>. QED
    BY <1>6, <2>1, <2>2 DEF Release
<1>7. ASSUME NEW h \in Handler, Die(h) PROVE ClaimsHeld'
  BY <1>7 DEF Die, LeftBehind, Excused
<1>. QED
  BY <1>2, <1>3, <1>4, <1>5, <1>6, <1>7 DEF Next, Delivery, Checkout, Pay, Cancel, Emit, vars

-----------------------------------------------------------------------------
(* Entitlement.  Without an excuse only a successful write settles an event, *)
(* and it makes every state found before it stale.                           *)

\* What leads from invariant to invariant below.
Known ==
  /\ TypeOK /\ ClaimMatchesControl /\ EventsOfChanges /\ FoundIsOfEvent
  /\ OneDeliveryRuns /\ ClaimsHeld

\* An event is settled by the delivery that writes for it and answers.
LEMMA SettledByWrite ==
  ASSUME Known, Next, excuses' = {}, NEW e \in Event, ~Settled(e), Settled(e)'
  PROVE  \E h \in Handler : Apply(h) /\ Succeeds(h) /\ handler[h].event = e
<1>. USE DEF Known, Settled
<1>1. ASSUME UNCHANGED answered, \A q \in Handler : handler[q].event = e => handler'[q].event = e
      PROVE  FALSE
  BY <1>1
<1>2. ASSUME NEW h \in Handler, NEW d \in Event, Deliver(h, d) PROVE FALSE
  <2>1. CASE Accept(h, d)
    <3>1. handler[h].event # e
      BY <1>2, NothingAssumption DEF Deliver, ClaimMatchesControl
    <3>. QED
      BY <1>1, <2>1, <3>1 DEF Accept, TypeOK
  <2>2. CASE Repeat(d)
    <3>1. \E q \in Handler : handler[q].event = d
      BY <1>2, <2>2 DEF Deliver, Repeat, Duplicate, ClaimsHeld
    <3>. QED
      BY <2>2, <3>1 DEF Repeat
  <2>3. CASE Refuse(d)
    BY <1>1, <2>3 DEF Refuse
  <2>. QED
    BY <1>2, <2>1, <2>2, <2>3 DEF Deliver
<1>3. ASSUME NEW h \in Handler, Look(h) PROVE FALSE
  <2>1. \A q \in Handler : handler'[q].event = handler[q].event
    BY <1>3, EventsAfter
  <2>. QED
    BY <1>1, <1>3, <2>1 DEF Look
<1>4. ASSUME NEW h \in Handler, Apply(h)
      PROVE  Succeeds(h) /\ handler[h].event = e
  <2>1. CASE Succeeds(h)
    BY <2>1, EventsAfter DEF Succeeds
  <2>2. CASE Unanswered(h)
    <3>1. \A q \in Handler : handler'[q].event = handler[q].event
      BY <2>2, EventsAfter
    <3>. QED
      BY <1>1, <2>2, <3>1 DEF Unanswered
  <2>3. CASE Fails(h)
    <3>1. \A q \in Handler : handler'[q].event = handler[q].event
      BY <2>3, EventsAfter
    <3>. QED
      BY <1>1, <2>3, <3>1 DEF Fails
  <2>. QED
    BY <1>4, <2>1, <2>2, <2>3 DEF Apply
<1>5. ASSUME NEW h \in Handler, Release(h) PROVE FALSE
  BY <1>5 DEF Release, Released, LeftBehind, Ends, Excused, TypeOK
<1>6. ASSUME NEW h \in Handler, Die(h) PROVE FALSE
  BY <1>6 DEF Die, LeftBehind, Excused
<1>7. ASSUME UNCHANGED <<handler, answered>> PROVE FALSE
  BY <1>1, <1>7
<1>. QED
  BY <1>2, <1>3, <1>4, <1>5, <1>6, <1>7 DEF Next, Delivery, Checkout, Pay, Cancel, Emit

\* A state that a step makes outdated has an unsettled cancellation: the step's.
LEMMA OutdatedByCancel ==
  ASSUME Known, Next, NEW s \in State, ~Outdated(s), Outdated(s)'
  PROVE  ~Settled(<<s.sub, "deleted">>)'
<1>1. s.sub \in Sub /\ live[s.sub] = "active" /\ live'[s.sub] # "active"
  BY DEF Outdated, State
<1>2. <<s.sub, "deleted">> \notin answered
  BY <1>1 DEF Known, EventsOfChanges, TypeOK
<1>3. UNCHANGED answered
  BY <1>1 DEF Next, Delivery, Checkout, Pay, Cancel, Emit, Deliver, Look, Apply, Release, Die, Provider
<1>. QED
  BY <1>2, <1>3 DEF Settled

\* No step takes an excuse back.
LEMMA ExcusesStay == Next => excuses \subseteq excuses'
  BY DEF Next, Delivery, Checkout, Pay, Cancel, Emit, Deliver, Accept, Repeat, Refuse, Look, Answers,
         Postpones, FallsBack, Apply, Succeeds, Unanswered, Fails, Written, Release, Released,
         LeftBehind, Die, Excused

\* Of one step: the account changes by a write only, which is of a state that is
\* not outdated or was fresh, and does not end an entitlement that is still owed.
LEMMA Writing ==
  ASSUME Known, Next, excuses' = {}, ~UNCHANGED account
  PROVE  \E h \in Handler :
           /\ handler[h].at = "found" /\ account' = handler[h].state
           /\ Outdated(handler[h].state) => handler[h].fresh
           /\ handler[h].state.status = "active"
              \/ \A t \in Sub \ {handler[h].state.sub} : live[t] # "active"
<1>1. PICK h \in Handler : handler[h].at = "found" /\ Written(h)
  BY DEF Next, Delivery, Checkout, Pay, Cancel, Emit, Deliver, Look, Apply, Succeeds, Unanswered, Fails,
         Release, Die
<1>2. handler[h].state \in State /\ handler[h].fresh \in BOOLEAN
  BY <1>1 DEF Known, FoundIsOfEvent, TrueSince, TypeOK, Work
<1>3. /\ ~handler[h].fresh => handler[h].state = Current(handler[h].state.sub)
      /\ handler[h].state.status = "active"
         \/ \A t \in Sub \ {handler[h].state.sub} : live[t] # "active"
  BY <1>1 DEF Written
<1>4. Outdated(handler[h].state) => handler[h].fresh
  BY <1>2, <1>3 DEF Outdated, Current, State
<1>. QED
  BY <1>1, <1>3, <1>4 DEF Written

\* What a step finds anew is not outdated without an excuse, and what was found
\* before a successful write is not fresh after it.
LEMMA FoundAfter ==
  ASSUME Known, Next, excuses' = {}, NEW q \in Handler, (handler[q].at = "found" /\ handler[q].fresh)'
  PROVE  /\ \A h \in Handler : ~Succeeds(h)
         /\ \/ /\ handler[q].at = "found" /\ handler[q].fresh
               /\ handler'[q].state = handler[q].state
            \/ ~Outdated(handler[q].state)'
<1>. DEFINE Same == handler'[q] = handler[q]
            New(w) == handler'[q] = w /\ w.at # "found"
<1>1. /\ handler \in [Handler -> Work]
      /\ \A w \in Work : \A e, s, b :
           /\ [w EXCEPT !.at = "claimed", !.event = e].at = "claimed"
           /\ [w EXCEPT !.at = "found", !.state = s, !.fresh = TRUE].state = s
           /\ [w EXCEPT !.at = "releasing"].at = "releasing"
           /\ [w EXCEPT !.fresh = b].at = w.at
           /\ [w EXCEPT !.fresh = FALSE].fresh = FALSE
  BY DEF Known, TypeOK, Work
<1>2. Idle.at = "idle" /\ \A h \in Handler : AfterFailure(h).at = "releasing"
  BY DEF Idle, AfterFailure
<1>3. ASSUME NEW h \in Handler, NEW own, own.at # "found", Overtaking(h, own) PROVE FALSE
  <2>1. CASE q = h
    BY <1>3, <2>1 DEF Overtaking
  <2>2. CASE q # h
    <3>1. handler'[q] = [handler[q] EXCEPT !.fresh = (handler[q].at # "found")]
      BY <1>3, <2>2 DEF Overtaking
    <3>2. handler[q].at = "found"
      BY <1>1, <3>1
    <3>3. handler'[q] = [handler[q] EXCEPT !.fresh = FALSE]
      BY <3>1, <3>2
    <3>. QED
      BY <1>1, <3>3
  <2>. QED
    BY <2>1, <2>2
<1>4. \A h \in Handler : ~Succeeds(h) /\ ~Unanswered(h)
  BY <1>2, <1>3 DEF Succeeds, Unanswered
<1>5. ASSUME NEW h \in Handler, NEW e \in Event, Deliver(h, e) PROVE Same
  <2>1. CASE Accept(h, e)
    <3>1. q # h
      BY <1>1, <2>1 DEF Accept
    <3>. QED
      BY <1>1, <2>1, <3>1 DEF Accept
  <2>2. CASE UNCHANGED handler
    BY <2>2
  <2>. QED
    BY <1>5, <2>1, <2>2 DEF Deliver, Repeat, Refuse
<1>6. ASSUME NEW h \in Handler, Look(h) PROVE Same \/ ~Outdated(handler[q].state)'
  <2>. DEFINE e == handler[h].event
  <2>1. CASE q # h
    BY <1>6, <2>1 DEF Look, Answers, Postpones, FallsBack, Finds, Becomes, Known, TypeOK
  <2>2. CASE q = h
    <3>1. Finds(h, Current(e[1]))
      <4>1. ~Becomes(h, "releasing")
        BY <1>1, <2>2 DEF Becomes
      <4>. QED
        BY <1>6, <4>1 DEF Look, Answers, Postpones, FallsBack, Lookup, Excused
    <3>2. handler'[q].state = Current(e[1])
      BY <1>1, <2>2, <3>1 DEF Finds
    <3>3. UNCHANGED live /\ e[1] \in Sub
      BY <1>6 DEF Look, Provider, Known, ClaimMatchesControl, TypeOK, Event
    <3>. QED
      BY <3>2, <3>3 DEF Outdated, Current
  <2>. QED
    BY <2>1, <2>2
<1>7. ASSUME NEW h \in Handler, Apply(h) PROVE Same
  BY <1>1, <1>2, <1>4, <1>7 DEF Apply, Fails
<1>8. ASSUME NEW h \in Handler, Release(h) \/ Die(h) PROVE Same
  BY <1>1, <1>2, <1>8 DEF Release, Die, Ends
<1>. QED
  BY <1>4, <1>5, <1>6, <1>7, <1>8 DEF Next, Delivery, Checkout, Pay, Cancel, Emit

\* A cancellation reaches the account: no write leaves it outdated, and no step
\* makes a state outdated and settles its cancellation.
LEMMA CancellationsStep ==
  ASSUME Known, CancellationsFollow, Next
  PROVE  CancellationsFollow'
<1>. SUFFICES ASSUME excuses' = {}
              PROVE  /\ Outdated(account)' => ~Settled(<<account.sub, "deleted">>)'
                     /\ \A q \in Handler :
                          (handler[q].at = "found" /\ handler[q].fresh /\ Outdated(handler[q].state))'
                          => ~Settled(<<handler[q].state.sub, "deleted">>)'
  BY DEF CancellationsFollow
<1>1. excuses = {}
  BY ExcusesStay
<1>2. TypeOK' /\ FoundIsOfEvent'
  BY TypeStep, FoundStep DEF Known
<1>3. \A s \in State : ~Outdated(s) /\ Outdated(s)' => ~Settled(<<s.sub, "deleted">>)'
  BY OutdatedByCancel
<1>4. ASSUME NEW s \in State, ~Settled(<<s.sub, "deleted">>), Settled(<<s.sub, "deleted">>)'
      PROVE  account'.status = "canceled" /\ \E h \in Handler : Succeeds(h)
  <2>1. <<s.sub, "deleted">> \in Event
    BY DEF State, Event
  <2>2. PICK h \in Handler : Apply(h) /\ Succeeds(h) /\ handler[h].event = <<s.sub, "deleted">>
    BY <1>4, <2>1, SettledByWrite
  <2>3. handler[h].state.status = "canceled"
    BY <2>2 DEF Apply, Known, FoundIsOfEvent, TrueSince
  <2>. QED
    BY <2>2, <2>3 DEF Succeeds, Written
<1>5. ASSUME Outdated(account)', Settled(<<account.sub, "deleted">>)' PROVE FALSE
  <2>1. account' \in State /\ account'.status = "active"
    BY <1>2, <1>5 DEF TypeOK, Outdated
  <2>2. ~Settled(<<account'.sub, "deleted">>)
    <3>1. CASE ~Outdated(account') 
      BY <1>3, <1>5, <2>1, <3>1
    <3>2. CASE UNCHANGED account /\ Outdated(account')
      BY <1>1, <3>2 DEF CancellationsFollow
    <3>3. CASE ~UNCHANGED account /\ Outdated(account')
      BY <1>1, <3>3, Writing DEF CancellationsFollow
    <3>. QED
      BY <3>1, <3>2, <3>3
  <2>. QED
    BY <1>4, <1>5, <2>1, <2>2
<1>6. ASSUME NEW q \in Handler, (handler[q].at = "found" /\ handler[q].fresh /\ Outdated(handler[q].state))',
             Settled(<<handler[q].state.sub, "deleted">>)'
      PROVE  FALSE
  <2>. DEFINE s == handler'[q].state
  <2>1. s \in State
    BY <1>2, <1>6 DEF FoundIsOfEvent, TrueSince
  <2>2. /\ \A h \in Handler : ~Succeeds(h)
        /\ handler[q].at = "found" /\ handler[q].fresh /\ s = handler[q].state
    BY <1>6, FoundAfter
  <2>3. ~Settled(<<s.sub, "deleted">>)
    BY <1>1, <1>3, <1>6, <2>1, <2>2 DEF CancellationsFollow
  <2>. QED
    BY <1>4, <1>6, <2>1, <2>2, <2>3
<1>. QED
  BY <1>5, <1>6

\* Once a creation is settled, whatever takes the entitlement away is the end of
\* that subscription, or an excuse.
LEMMA ActivationsStep ==
  ASSUME Known, ActivationsFollow, Next
  PROVE  ActivationsFollow'
<1>. SUFFICES ASSUME excuses' = {}, NEW s \in Sub, live'[s] = "active", Settled(<<s, "created">>)'
              PROVE  Entitled'
  BY DEF ActivationsFollow
<1>1. excuses = {} /\ <<s, "created">> \in Event
  BY ExcusesStay DEF Event
<1>2. live[s] = "active"
  <2>1. CASE live'[s] # live[s]
    <3>1. <<s, "created">> \notin answered /\ UNCHANGED answered
      BY <2>1 DEF Known, EventsOfChanges, TypeOK, Next, Delivery, Checkout, Pay, Cancel, Emit, Deliver, Look, Apply,
             Release, Die, Provider
    <3>. QED
      BY <3>1 DEF Settled
  <2>. QED
    BY <2>1
<1>3. ASSUME NEW h \in Handler, handler[h].at = "found", handler[h].state.sub = s
      PROVE  handler[h].state.status = "active"
  BY <1>2, <1>3 DEF Known, FoundIsOfEvent, TrueSince
<1>4. CASE Settled(<<s, "created">>)
  <2>1. Entitled
    BY <1>1, <1>2, <1>4 DEF ActivationsFollow
  <2>2. CASE ~UNCHANGED account
    BY <1>2, <1>3, <2>2, Writing DEF Entitled
  <2>. QED
    BY <2>1, <2>2 DEF Entitled
<1>5. CASE ~Settled(<<s, "created">>)
  <2>1. PICK h \in Handler : Apply(h) /\ Succeeds(h) /\ handler[h].event = <<s, "created">>
    BY <1>1, <1>5, SettledByWrite
  <2>2. handler[h].state.sub = s
    BY <2>1 DEF Apply, Known, FoundIsOfEvent, TrueSince
  <2>. QED
    BY <1>3, <2>1, <2>2 DEF Apply, Succeeds, Written, Entitled
<1>. QED
  BY <1>4, <1>5

\* What is written is of a subscription that had an event.
LEMMA PaidStep ==
  ASSUME Known, AccountOfPaid, Next
  PROVE  AccountOfPaid'
<1>1. \A s \in Sub : live[s] # "none" => live'[s] # "none"
  BY DEF Known, TypeOK, EventsOfChanges, Next, Delivery, Checkout, Pay, Cancel, Emit, Deliver, Look, Apply,
         Release, Die, Provider
<1>2. ASSUME NEW h \in Handler, handler[h].at = "found", handler[h].state.status = "active"
      PROVE  handler[h].state.sub \in Sub /\ live[handler[h].state.sub] # "none"
  <2>1. /\ handler[h].event \in emitted /\ handler[h].state \in State
        /\ handler[h].state.sub = handler[h].event[1]
    BY <1>2 DEF Known, ClaimMatchesControl, FoundIsOfEvent, TrueSince, TypeOK
  <2>2. \A e \in emitted : e = <<e[1], e[2]>> /\ e[1] \in Sub /\ e[2] \in {"completed", "created", "deleted"}
    BY DEF Known, TypeOK, Event
  <2>3. live[handler[h].event[1]] # "none"
    BY <2>1, <2>2 DEF Known, EventsOfChanges
  <2>. QED
    BY <2>1, <2>2, <2>3
<1>3. account' = account \/ \E h \in Handler : handler[h].at = "found" /\ account' = handler[h].state
  BY DEF Next, Delivery, Checkout, Pay, Cancel, Emit, Deliver, Look, Apply, Succeeds, Unanswered, Fails, Written,
         Release, Die
<1>. QED
  BY <1>1, <1>2, <1>3 DEF AccountOfPaid, Entitled, Known, TypeOK, State

\* Every step keeps the inductive invariant.
LEMMA InvStep == IndInv /\ [Next]_vars => IndInv'
<1>. SUFFICES ASSUME IndInv, [Next]_vars PROVE IndInv'
  OBVIOUS
<1>1. Known'
  BY TypeStep, ClaimStep, ChangeStep, FoundStep, HeldStep DEF IndInv, Known
<1>2. CASE Next
  BY <1>1, <1>2, PaidStep, CancellationsStep, ActivationsStep DEF IndInv, Known
<1>3. CASE UNCHANGED vars
  BY <1>1, <1>3 DEF vars, IndInv, Known, AccountOfPaid, CancellationsFollow, ActivationsFollow, Settled, Outdated, Entitled
<1>. QED
  BY <1>2, <1>3

-----------------------------------------------------------------------------
\* The inductive invariant holds in every reachable state, for any number of subscriptions, deliveries and faults.
THEOREM InvariantHolds == Spec => []IndInv
  BY InitInv, InvStep, PTL DEF Spec

\* Every variable keeps a value of its type.
THEOREM TypeCorrect == Spec => []TypeOK
  BY InvariantHolds, PTL DEF IndInv

\* An event never has two deliveries past its claim: the claim of
\* recordWebhookEvent keeps out whoever comes while it is held.
THEOREM OneDelivery == Spec => []OneDeliveryRuns
  BY InvariantHolds, PTL DEF IndInv

\* A claim has its delivery, was answered, or was left behind by a crash or a
\* failed release: retryLater leaves none behind otherwise.
THEOREM ClaimsAreHeld == Spec => []ClaimsHeld
  BY InvariantHolds, PTL DEF IndInv

\* When every event has been answered, the five excuses are all that can part the
\* entitlement of the account from its subscriptions.
THEOREM EntitlementFollows == Spec => []EntitlementIsLive
<1>1. IndInv => EntitlementIsLive
  <2>. SUFFICES ASSUME IndInv, emitted \subseteq answered, \A h \in Handler : handler[h].at = "idle", excuses = {}
                PROVE  Entitled <=> \E s \in Sub : live[s] = "active"
    BY DEF EntitlementIsLive
  <2>1. \A e \in emitted : Settled(e)
    <3>1. \A h \in Handler : handler[h].event = Nothing
      BY DEF IndInv, ClaimMatchesControl
    <3>2. Nothing \notin emitted
      BY NothingAssumption DEF IndInv, TypeOK
    <3>. QED
      BY <3>1, <3>2 DEF Settled
  <2>2. ASSUME Entitled PROVE live[account.sub] = "active" /\ account.sub \in Sub
    <3>1. account.sub \in Sub
      BY DEF IndInv, TypeOK, State
    <3>2. ~Outdated(account) \/ <<account.sub, "deleted">> \notin emitted
      BY <2>1 DEF IndInv, CancellationsFollow
    <3>3. live[account.sub] \in {"active", "canceled"}
      BY <2>2, <3>1 DEF IndInv, AccountOfPaid, TypeOK
    <3>4. live[account.sub] = "canceled" => <<account.sub, "deleted">> \in emitted
      BY <3>1 DEF IndInv, EventsOfChanges
    <3>. QED
      BY <2>2, <3>1, <3>2, <3>3, <3>4 DEF Entitled, Outdated
  <2>3. ASSUME NEW s \in Sub, live[s] = "active" PROVE Entitled
    <3>1. <<s, "created">> \in emitted
      BY <2>3 DEF IndInv, EventsOfChanges
    <3>. QED
      BY <2>1, <2>3, <3>1 DEF IndInv, ActivationsFollow
  <2>. QED
    BY <2>2, <2>3
<1>. QED
  BY <1>1, InvariantHolds, PTL
=============================================================================
