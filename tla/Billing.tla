------------------------------- MODULE Billing -------------------------------
(***************************************************************************)
(* The paid plan of one pool (saas/src/release/billing.ts): members start  *)
(* checkouts at the payment provider, which sends webhooks; a scheduled    *)
(* drain, one at a time by a lease, reads the subscription an event names  *)
(* and brings the pool in line with it, and an hourly reconciliation       *)
(* repairs what a webhook missed.                                          *)
(*                                                                         *)
(* A caller or a drain stands at an await and may stop there for ever, so  *)
(* an answer that is lost is a caller that does not go on.  A request is   *)
(* named by the operation key that is unique to it, its session and its    *)
(* subscription by the request.  The provider is external: a key of        *)
(* idempotency makes one session, which is paid or expires, and a          *)
(* subscription changes until it has ended.                                *)
(***************************************************************************)
EXTENDS BillingTerms, BillingPromise

VARIABLES
  pool,     \* release_pools: the customer is known, the subscription, the state
  requests, \* release_checkout_requests and the closures of them
  session,  \* external: the provider's checkout sessions
  events,   \* release_billing_events
  lock,     \* release_billing_lock
  caller,   \* where each call stands, what it read
  drain,    \* where each drain stands, its event, what it read
  faults    \* failures left

provider == <<session, sub>>
queue == <<events, lock, drain, applied>>
vars == <<pool, requests, provider, queue, caller, faults>>

(* The events of a request: one by the next checkout, one for each webhook, *)
(* and the one of reconcile(), whose row is new in every hour.              *)
CheckoutEvent(r) == <<r, 0>>
Webhook(r, k) == <<r, k>>
HourlyEvent(r) == <<r, MaxVersion + 1>>
EventsOf(r) == {r} \X (0 .. MaxVersion + 1)
Events == UNION {EventsOf(r) : r \in CheckoutRequests}

NotRequested == [made |-> FALSE, attempted |-> FALSE, expired |-> FALSE, recorded |-> FALSE, closed |-> FALSE]
NoEvent == [state |-> "none", attempt |-> 0, due |-> TRUE]
Pending == [NoEvent EXCEPT !.state = "pending"]
Idle == [at |-> "idle", event |-> None, status |-> "none", version |-> 0, done |-> 0]

CallPlaces == {"start", "find", "close", "customer", "claim", "check", "send", "record", "told", "end"}
DrainPlaces == {"off", "idle", "take", "read", "apply", "fail"}

(* A type invariant. *)
TypeOK ==
  /\ pool \in [customer: BOOLEAN, sub: CheckoutRequests \cup {None}, state: {"free", "active", "read_only"}]
  /\ requests \in [CheckoutRequests -> [made: BOOLEAN, attempted: BOOLEAN, expired: BOOLEAN,
                                        recorded: BOOLEAN, closed: BOOLEAN]]
  /\ session \in [CheckoutRequests -> {"none", "open", "paid", "expired"}]
  /\ sub \in [CheckoutRequests -> [status: Statuses, version: 0 .. MaxVersion]]
  /\ events \in [Events -> [state: {"none", "pending", "done", "dead"}, attempt: 0 .. MaxAttempts,
                            due: BOOLEAN]]
  /\ lock \in [holder: Drains \cup {None}, lapsed: BOOLEAN]
  /\ caller \in [Callers -> [at: CallPlaces, customer: BOOLEAN, todo: SUBSET CheckoutRequests]]
  /\ drain \in [Drains -> [at: DrainPlaces, event: Events \cup {None}, status: Statuses,
                           version: 0 .. MaxVersion, done: 0 .. Limit]]
  /\ applied \in [CheckoutRequests -> 0 .. MaxVersion]
  /\ faults \in Nat

Fault == faults > 0 /\ faults' = faults - 1
Ended(r) == sub[r].status = "ended"

------------------------------------------------------------------------------
(* checkout.  Authority may be refused at every place, which ends the call. *)
Goto(c, place) == caller' = [caller EXCEPT ![c].at = place]
OfCaller == <<provider, queue, faults>>

Look(c) ==
  /\ caller[c].at = "start"
  /\ caller' = [caller EXCEPT ![c].at = IF pool.sub = None THEN "find" ELSE "end",
                              ![c].customer = pool.customer]
  /\ UNCHANGED <<pool, requests, OfCaller>>

(* Earlier requests whose outcome is not known to be over. *)
Unclosed == {r \in CheckoutRequests : requests[r].attempted /\ requests[r].expired /\ ~ requests[r].closed}

Find(c) ==
  LET request == requests[Key[c]] IN
  /\ caller[c].at = "find"
  /\ caller' = [caller EXCEPT
       ![c].at = IF ~ request.made THEN "close"
                 ELSE IF request.expired THEN "end"
                 ELSE IF request.recorded THEN "told" ELSE "customer",
       ![c].todo = IF request.made THEN {} ELSE Unclosed]
  /\ UNCHANGED <<pool, requests, OfCaller>>

(* closePreviousCheckouts: what the provider says of one earlier session.  *)
(* Both answers that close a request are final.                            *)
Over(r) == session[r] = "expired" \/ (session[r] = "paid" /\ Ended(r))

ClosePrevious(c, r) ==
  /\ caller[c].at = "close" /\ r \in caller[c].todo
  /\ requests[r].recorded /\ caller[c].customer /\ Over(r)
  /\ requests' = [requests EXCEPT ![r].closed = TRUE]
  /\ caller' = [caller EXCEPT ![c].todo = @ \ {r}]
  /\ UNCHANGED <<pool, OfCaller>>

(* A purchase that lives is queued once; whatever is open or not known stays. *)
Insert(id) == IF events[id].state = "none" THEN [events EXCEPT ![id] = Pending] ELSE events

KeepPrevious(c, r) ==
  /\ caller[c].at = "close" /\ r \in caller[c].todo
  /\ ~ (requests[r].recorded /\ caller[c].customer /\ Over(r))
  /\ events' = IF requests[r].recorded /\ caller[c].customer /\ session[r] = "paid"
               THEN Insert(CheckoutEvent(r)) ELSE events
  /\ Goto(c, "end")
  /\ UNCHANGED <<pool, requests, provider, lock, drain, applied, faults>>

(* Mutant: a request that expired does not stand in the way any more. *)
MayRequestMutant == pool.sub = None /\ \A r \in CheckoutRequests : requests[r].made => requests[r].expired

MayRequest ==
  /\ pool.sub = None
  /\ \A r \in CheckoutRequests : requests[r].made =>
       /\ requests[r].expired
       /\ requests[r].attempted => requests[r].closed

Request(c) ==
  /\ caller[c].at = "close" /\ caller[c].todo = {}
  /\ IF MayRequest /\ ~ requests[Key[c]].made
     THEN requests' = [requests EXCEPT ![Key[c]].made = TRUE] /\ Goto(c, "customer")
     ELSE Goto(c, "end") /\ UNCHANGED requests
  /\ UNCHANGED <<pool, OfCaller>>

Customer(c) ==
  /\ caller[c].at = "customer"
  /\ pool' = [pool EXCEPT !.customer = TRUE]
  /\ Goto(c, "claim")
  /\ UNCHANGED <<requests, OfCaller>>

(* The first attempt fixes the expiry that every retry sends. *)
Claim(c) ==
  /\ caller[c].at = "claim"
  /\ requests' = [requests EXCEPT ![Key[c]].attempted = @ \/ (~ requests[Key[c]].expired /\ pool.sub = None)]
  /\ Goto(c, "check")
  /\ UNCHANGED <<pool, OfCaller>>

Check(c) ==
  /\ caller[c].at = "check"
  /\ Goto(c, IF requests[Key[c]].attempted /\ ~ requests[Key[c]].expired THEN "send" ELSE "end")
  /\ UNCHANGED <<pool, requests, OfCaller>>

(* External: the provider makes one session per request, and none that   *)
(* would end too soon.                                                   *)
Send(c) ==
  LET r == Key[c] IN
  /\ caller[c].at = "send"
  /\ IF session[r] = "none" /\ requests[r].expired
     THEN Goto(c, "end") /\ UNCHANGED session
     ELSE Goto(c, "record") /\ session' = [session EXCEPT ![r] = IF @ = "none" THEN "open" ELSE @]
  /\ UNCHANGED <<pool, requests, sub, queue, faults>>

Record(c) ==
  /\ caller[c].at = "record"
  /\ requests' = [requests EXCEPT ![Key[c]].recorded = TRUE]
  /\ Goto(c, IF requests[Key[c]].expired THEN "end" ELSE "told")
  /\ UNCHANGED <<pool, OfCaller>>

Checkout(c) ==
  \/ Look(c) \/ Find(c) \/ Request(c) \/ Customer(c) \/ Claim(c) \/ Check(c) \/ Send(c) \/ Record(c)
  \/ \E r \in CheckoutRequests : ClosePrevious(c, r) \/ KeepPrevious(c, r)

Expire(r) ==
  /\ requests[r].made /\ ~ requests[r].expired
  /\ requests' = [requests EXCEPT ![r].expired = TRUE]
  /\ UNCHANGED <<pool, provider, queue, caller, faults>>

------------------------------------------------------------------------------
(* External: the provider. *)
OfProvider == <<pool, requests, queue, caller, faults>>

Pay(r) ==
  /\ session[r] = "open"
  /\ session' = [session EXCEPT ![r] = "paid"]
  /\ sub' = [sub EXCEPT ![r] = [status |-> "active", version |-> 1]]
  /\ UNCHANGED OfProvider

SessionExpires(r) ==
  /\ session[r] = "open" /\ requests[r].expired
  /\ session' = [session EXCEPT ![r] = "expired"]
  /\ UNCHANGED <<sub, OfProvider>>

Change(r) ==
  /\ sub[r].status \in {"active", "past_due"} /\ sub[r].version < MaxVersion
  /\ \E status \in {"active", "past_due", "ended"} \ {sub[r].status} :
       sub' = [sub EXCEPT ![r] = [status |-> status, version |-> @.version + 1]]
  /\ UNCHANGED <<session, OfProvider>>

(* webhook: an event is recorded and queued once, however often it is sent. *)
Receive(r) ==
  /\ \E k \in 1 .. sub[r].version :
       /\ events[Webhook(r, k)].state = "none"
       /\ events' = Insert(Webhook(r, k))
  /\ UNCHANGED <<pool, requests, provider, lock, drain, applied, caller, faults>>

------------------------------------------------------------------------------
(* reconcile: a bound subscription nothing is queued for is read again. *)

(* Mutant: it counts as queued for by the events of earlier hours as well. *)
UnqueuedMutant(r) == events[HourlyEvent(r)].state = "none"

Unqueued(r) == \A id \in EventsOf(r) : events[id].state # "pending"

Reconcile ==
  /\ pool.sub # None /\ Unqueued(pool.sub)
  /\ events' = [events EXCEPT ![HourlyEvent(pool.sub)] = Pending]
  /\ UNCHANGED <<pool, requests, provider, lock, drain, applied, caller, faults>>

(* drain: a lease, up to Limit events, and the lease is given back. *)
Holds(d) == lock.holder = d /\ ~ lock.lapsed
OfDrain == <<requests, provider, caller>>

Acquire(d) ==
  /\ drain[d].at = "idle"
  /\ lock.holder = None \/ lock.lapsed
  /\ lock' = [holder |-> d, lapsed |-> FALSE]
  /\ drain' = [drain EXCEPT ![d].at = "take"]
  /\ UNCHANGED <<pool, events, applied, faults, OfDrain>>

Due == {id \in Events : events[id].state = "pending" /\ events[id].due}

Take(d) ==
  /\ drain[d].at = "take" /\ drain[d].done < Limit /\ Holds(d)
  /\ \E id \in Due : drain' = [drain EXCEPT ![d].at = "read", ![d].event = id]
  /\ UNCHANGED <<pool, events, lock, applied, faults, OfDrain>>

(* The subscription, and the pool it belongs to: the one it is bound to, or *)
(* a pool without a subscription that asked for it.  Two reads, but only    *)
(* who holds the lease changes what the second one finds.                   *)
Read(d) ==
  LET r == drain[d].event[1] IN
  /\ drain[d].at = "read"
  /\ drain' = [drain EXCEPT ![d].at = IF pool.sub \in {None, r} THEN "apply" ELSE "fail",
                            ![d].status = sub[r].status, ![d].version = sub[r].version]
  /\ UNCHANGED <<pool, events, lock, applied, faults, OfDrain>>

ReadFails(d) ==
  /\ drain[d].at = "read" /\ Fault
  /\ drain' = [drain EXCEPT ![d].at = "fail"]
  /\ UNCHANGED <<pool, events, lock, applied, OfDrain>>

Entitled(r, status) ==
  IF status = "ended" THEN [pool EXCEPT !.sub = None, !.state = "free"]
  ELSE [pool EXCEPT !.sub = r, !.state = IF status = "active" THEN "active" ELSE "read_only"]

NextEvent(d) == drain' = [drain EXCEPT ![d] = [Idle EXCEPT !.at = "take", !.done = drain[d].done + 1]]

(* The batch: the pool and the event, if the lease is still held. *)

(* Mutant: it does not name the lease. *)
WriteMutant(d) ==
  LET id == drain[d].event IN
  /\ pool' = Entitled(id[1], drain[d].status)
  /\ applied' = [applied EXCEPT ![id[1]] = drain[d].version]
  /\ events' = [events EXCEPT ![id].state = "done"]

Write(d) ==
  LET id == drain[d].event IN
  IF Holds(d)
  THEN /\ pool' = Entitled(id[1], drain[d].status)
       /\ applied' = [applied EXCEPT ![id[1]] = drain[d].version]
       /\ events' = [events EXCEPT ![id].state = "done"]
  ELSE UNCHANGED <<pool, applied, events>>

Apply(d) ==
  /\ drain[d].at = "apply" /\ Write(d)
  /\ NextEvent(d)
  /\ UNCHANGED <<lock, faults, OfDrain>>

(* The batch fails, or only its answer does. *)
ApplyFails(d) ==
  /\ drain[d].at = "apply" /\ Fault
  /\ Write(d) \/ UNCHANGED <<pool, applied, events>>
  /\ drain' = [drain EXCEPT ![d].at = "fail"]
  /\ UNCHANGED <<lock, OfDrain>>

Fail(d) ==
  LET id == drain[d].event
      attempt == events[id].attempt + 1 IN
  /\ drain[d].at = "fail"
  /\ events' = IF Holds(d)
               THEN [events EXCEPT ![id] = [state |-> IF attempt >= MaxAttempts THEN "dead" ELSE "pending",
                                            attempt |-> attempt, due |-> FALSE]]
               ELSE events
  /\ NextEvent(d)
  /\ UNCHANGED <<pool, lock, applied, faults, OfDrain>>

Release(d) ==
  /\ drain[d].at = "take"
  /\ drain[d].done = Limit \/ Due = {} \/ ~ Holds(d)
  /\ lock' = IF lock.holder = d THEN [holder |-> None, lapsed |-> FALSE] ELSE lock
  /\ drain' = [drain EXCEPT ![d] = Idle]
  /\ UNCHANGED <<pool, events, applied, faults, OfDrain>>

Draining(d) ==
  Acquire(d) \/ Take(d) \/ Read(d) \/ ReadFails(d) \/ Apply(d) \/ ApplyFails(d) \/ Fail(d) \/ Release(d)

Crash(d) ==
  /\ drain[d].at \notin {"idle", "off"} /\ Fault
  /\ drain' = [drain EXCEPT ![d] = Idle]
  /\ UNCHANGED <<pool, events, lock, applied, OfDrain>>

(* A drain is done before its lease ends unless it is held up. *)
Lapse ==
  /\ lock.holder # None /\ ~ lock.lapsed
  /\ lock' = [lock EXCEPT !.lapsed = TRUE]
  /\ IF drain[lock.holder].at = "idle" THEN UNCHANGED faults ELSE Fault
  /\ UNCHANGED <<pool, events, drain, applied, OfDrain>>

DueAgain(id) ==
  /\ events[id].state = "pending" /\ ~ events[id].due
  /\ events' = [events EXCEPT ![id].due = TRUE]
  /\ UNCHANGED <<pool, lock, drain, applied, faults, OfDrain>>

------------------------------------------------------------------------------
(* A request that was paid before, as its checkout and the provider left it. *)
PaidRequest == [made |-> TRUE, attempted |-> TRUE, expired |-> FALSE, recorded |-> TRUE, closed |-> FALSE]

Init ==
  \E start \in Starts :
    /\ pool = [customer |-> start.paid # None, sub |-> None, state |-> "free"]
    /\ requests = [r \in CheckoutRequests |-> IF r = start.paid THEN PaidRequest ELSE NotRequested]
    /\ session = [r \in CheckoutRequests |-> IF r = start.paid THEN "paid" ELSE "none"]
    /\ sub = [r \in CheckoutRequests |-> IF r = start.paid THEN [status |-> "active", version |-> 1]
                                         ELSE [status |-> "none", version |-> 0]]
    /\ events = [id \in Events |-> NoEvent]
    /\ lock = [holder |-> None, lapsed |-> FALSE]
    /\ caller = [c \in Callers |-> [at |-> IF c \in start.callers THEN "start" ELSE "end",
                                   customer |-> FALSE, todo |-> {}]]
    /\ drain = [d \in Drains |-> IF d \in start.drains THEN Idle ELSE [Idle EXCEPT !.at = "off"]]
    /\ applied = [r \in CheckoutRequests |-> 0]
    /\ faults = start.faults

Provider(r) == Pay(r) \/ SessionExpires(r) \/ Change(r) \/ Receive(r)

Next ==
  \/ \E c \in Callers : Checkout(c)
  \/ \E r \in CheckoutRequests : Expire(r) \/ Provider(r)
  \/ \E d \in Drains : Draining(d) \/ Crash(d)
  \/ Reconcile \/ Lapse \/ \E id \in Events : DueAgain(id)

Spec == Init /\ [][Next]_vars

(* The schedule starts a drain every minute, every step of it ends in an *)
(* answer or a timeout, and a lease and a back-off end.                  *)
Fairness ==
  /\ WF_vars(Reconcile) /\ WF_vars(Lapse)
  /\ \A d \in Drains : WF_vars(Draining(d))
  /\ \A id \in Events : WF_vars(DueAgain(id))

------------------------------------------------------------------------------
(* A pool does not keep the plan of a subscription that ended, even if no   *)
(* webhook ever says so (billing.ts:274).                                   *)
EndedIsReleased == \A r \in CheckoutRequests : (pool.sub = r /\ Ended(r)) ~> (pool.sub # r)
==============================================================================
