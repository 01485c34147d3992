---------------------------- MODULE BillingProofs ----------------------------
(* Proofs about Billing: a pool pays for one subscription at a time, and it  *)
(* is told of each in the order in which it changed, for any calls, keys,    *)
(* drains, limits and starts.                                                *)
EXTENDS Billing, FiniteSetTheorems, TLAPS

(* The type of each variable, to cite one without the others. *)
PoolType == [customer: BOOLEAN, sub: CheckoutRequests \cup {None}, state: {"free", "active", "read_only"}]
RequestType == [made: BOOLEAN, attempted: BOOLEAN, expired: BOOLEAN, recorded: BOOLEAN, closed: BOOLEAN]
SubType == [status: Statuses, version: 0 .. MaxVersion]
EventType == [state: {"none", "pending", "done", "dead"}, attempt: 0 .. MaxAttempts, due: BOOLEAN]
LockType == [holder: Drains \cup {None}, lapsed: BOOLEAN]
CallerType == [at: CallPlaces, customer: BOOLEAN, todo: SUBSET CheckoutRequests]
DrainType == [at: DrainPlaces, event: Events \cup {None}, status: Statuses, version: 0 .. MaxVersion,
              done: 0 .. Limit]

(* Nothing can come of a request any more: it takes no first attempt, and   *)
(* what an earlier attempt may have bought is over.                         *)
Settled(r) == requests[r].expired /\ (requests[r].attempted => requests[r].closed)

(* What a request, its session and its subscription say of each other. *)
Traced(r) ==
  /\ requests[r].attempted => requests[r].made
  /\ session[r] # "none" => requests[r].attempted
  /\ session[r] = "paid" <=> sub[r].status # "none"
  /\ sub[r].status = "none" => sub[r].version = 0
  /\ requests[r].closed => Over(r)

(* A call on its way to the provider has a request, and was granted its     *)
(* attempt before it sends.                                                 *)
Granted(c) ==
  /\ caller[c].at \in {"customer", "claim", "check", "send", "record"} => requests[Key[c]].made
  /\ caller[c].at = "send" => requests[Key[c]].attempted

(* Of two requests of a pool one is settled. *)
OneOpen ==
  \A r, s \in CheckoutRequests :
    requests[r].made /\ requests[s].made /\ r # s => Settled(r) \/ Settled(s)

CheckoutInv ==
  /\ \A r \in CheckoutRequests : Traced(r)
  /\ \A c \in Callers : Granted(c)
  /\ OneOpen

(* What a drain stands on while it has an event: it read no newer state than *)
(* there is, and, as long as it has the lease, none older than the pool was  *)
(* told, of an event that has attempts left.                                 *)
Working(d) == drain[d].at \in {"read", "apply", "fail"}

OnItsEvent(d) ==
  Working(d) =>
    /\ drain[d].event \in Events /\ drain[d].done < Limit
    /\ Holds(d) => events[drain[d].event].attempt < MaxAttempts
    /\ drain[d].at = "apply" =>
         /\ drain[d].version <= sub[drain[d].event[1]].version
         /\ Holds(d) => applied[drain[d].event[1]] <= drain[d].version

DrainInv ==
  /\ \A id \in Events : events[id].state = "pending" => events[id].attempt < MaxAttempts
  /\ \A r \in CheckoutRequests : applied[r] <= sub[r].version
  /\ \A d \in Drains : OnItsEvent(d)

(* Inductive. *)
IInv == TypeOK /\ CheckoutInv /\ DrainInv

------------------------------------------------------------------------------
(* The events a request has are events, each of its own request. *)
LEMMA EventsOfRequests ==
  /\ \A id \in Events : id[1] \in CheckoutRequests
  /\ \A r \in CheckoutRequests : CheckoutEvent(r) \in Events /\ HourlyEvent(r) \in Events
  /\ \A r \in CheckoutRequests, k \in 1 .. MaxVersion : Webhook(r, k) \in Events
<1>1. ASSUME NEW id \in Events PROVE id[1] \in CheckoutRequests
  <2>1. PICK r \in CheckoutRequests : id \in EventsOf(r)
    BY DEF Events
  <2>2. id[1] = r
    BY <2>1 DEF EventsOf
  <2> QED BY <2>1, <2>2
<1>2. \A r \in CheckoutRequests, k \in 0 .. MaxVersion + 1 : <<r, k>> \in Events
  BY DEF Events, EventsOf
<1>3. 0 \in 0 .. MaxVersion + 1 /\ MaxVersion + 1 \in 0 .. MaxVersion + 1 /\ 1 .. MaxVersion \subseteq 0 .. MaxVersion + 1
  BY TermsAssumption
<1> QED BY <1>1, <1>2, <1>3 DEF CheckoutEvent, HourlyEvent, Webhook

(* An event that waits anew has all its attempts, and the others are as they *)
(* were.                                                                     *)
LEMMA Inserted ==
  ASSUME events \in [Events -> EventType], NEW id \in Events, events' = Insert(id)
  PROVE  /\ events' \in [Events -> EventType]
         /\ \A e \in Events : events'[e] = events[e] \/ events'[e].attempt = 0
<1>1. Pending \in EventType /\ Pending.attempt = 0
  <2>1. NoEvent \in EventType /\ NoEvent.attempt = 0
    BY TermsAssumption DEF NoEvent, EventType
  <2> QED BY <2>1 DEF Pending, EventType
<1> QED BY <1>1 DEF Insert

(* The pool after a drain applied what it read. *)
LEMMA EntitledTyped ==
  ASSUME pool \in PoolType, NEW r \in CheckoutRequests, NEW status
  PROVE  Entitled(r, status) \in PoolType
  BY DEF PoolType, Entitled

------------------------------------------------------------------------------
(* A behaviour starts with all of it: at most one request, paid, whose       *)
(* subscription the pool was not told of.                                    *)
LEMMA InitKeeps == Init => IInv
<1> SUFFICES ASSUME Init PROVE IInv
  OBVIOUS
<1>1. PICK start \in Starts : Init!(start)
  BY DEF Init
<1>2. start.paid \in CheckoutRequests \cup {None} /\ start.faults \in Nat /\ 1 \in 0 .. MaxVersion
      /\ 0 \in 0 .. MaxVersion /\ 0 \in 0 .. MaxAttempts /\ 0 \in 0 .. Limit /\ 0 < MaxAttempts
  BY <1>1, StartAssumption, TermsAssumption
<1>3. TypeOK
  <2>1. pool \in PoolType /\ faults \in Nat /\ lock \in LockType
    BY <1>1, <1>2 DEF PoolType, LockType
  <2>2. requests \in [CheckoutRequests -> RequestType]
    BY <1>1 DEF RequestType, PaidRequest, NotRequested
  <2>3. session \in [CheckoutRequests -> {"none", "open", "paid", "expired"}]
    BY <1>1
  <2>4. sub \in [CheckoutRequests -> SubType] /\ applied \in [CheckoutRequests -> 0 .. MaxVersion]
    BY <1>1, <1>2 DEF SubType, Statuses
  <2>5. events \in [Events -> EventType]
    BY <1>1, <1>2 DEF EventType, NoEvent
  <2>6. caller \in [Callers -> CallerType]
    BY <1>1 DEF CallerType, CallPlaces
  <2>7. drain \in [Drains -> DrainType]
    <3>1. [Idle EXCEPT !.at = "off"] = [at |-> "off", event |-> None, status |-> "none", version |-> 0, done |-> 0]
      BY DEF Idle
    <3>2. Idle \in DrainType /\ [Idle EXCEPT !.at = "off"] \in DrainType
      BY <1>2, <3>1 DEF DrainType, DrainPlaces, Statuses, Idle
    <3> QED BY <1>1, <3>2
  <2> QED BY <2>1, <2>2, <2>3, <2>4, <2>5, <2>6, <2>7
          DEF TypeOK, PoolType, RequestType, SubType, EventType, LockType, CallerType, DrainType
<1>4. CheckoutInv
  <2>1. \A r \in CheckoutRequests : Traced(r)
    BY <1>1 DEF Traced, PaidRequest, NotRequested
  <2>2. \A c \in Callers : Granted(c)
    BY <1>1 DEF Granted
  <2>3. \A r \in CheckoutRequests : requests[r].made => r = start.paid
    BY <1>1 DEF NotRequested
  <2>4. OneOpen
    BY <2>3 DEF OneOpen
  <2> QED BY <2>1, <2>2, <2>4 DEF CheckoutInv
<1>5. DrainInv
  <2>1. \A d \in Drains : ~ Working(d)
    BY <1>1 DEF Working, Idle
  <2>2. \A r \in CheckoutRequests : applied[r] <= sub[r].version
    BY <1>1
  <2>3. \A id \in Events : events[id].state # "pending"
    BY <1>1 DEF NoEvent
  <2> QED BY <2>1, <2>2, <2>3 DEF DrainInv, OnItsEvent
<1> QED BY <1>3, <1>4, <1>5 DEF IInv

------------------------------------------------------------------------------
(* TypeOK by the types of the variables. *)
LEMMA TypeParts ==
  TypeOK <=>
    /\ pool \in PoolType
    /\ requests \in [CheckoutRequests -> RequestType]
    /\ session \in [CheckoutRequests -> {"none", "open", "paid", "expired"}]
    /\ sub \in [CheckoutRequests -> SubType]
    /\ events \in [Events -> EventType]
    /\ lock \in LockType
    /\ caller \in [Callers -> CallerType]
    /\ drain \in [Drains -> DrainType]
    /\ applied \in [CheckoutRequests -> 0 .. MaxVersion]
    /\ faults \in Nat
  BY DEF TypeOK, PoolType, RequestType, SubType, EventType, LockType, CallerType, DrainType

(* A step of a call changes nothing of what the provider or a drain keeps, *)
(* but a session it makes.                                                 *)
LEMMA CheckoutTyped ==
  ASSUME TypeOK, NEW c \in Callers, Checkout(c)
  PROVE  TypeOK'
<1>1. Key[c] \in CheckoutRequests
  BY DEF CheckoutRequests
<1>2. requests' \in [CheckoutRequests -> RequestType]
  <2>1. requests \in [CheckoutRequests -> RequestType]
    BY TypeParts
  <2>2. CASE \E r \in CheckoutRequests : ClosePrevious(c, r) \/ KeepPrevious(c, r)
    BY ZenonT(60), <2>1, <2>2 DEF ClosePrevious, KeepPrevious, RequestType
  <2>3. CASE Claim(c)
    BY <2>1, <2>3, <1>1 DEF Claim, RequestType
  <2>4. CASE Request(c) \/ Record(c)
    BY ZenonT(60), <2>1, <2>4, <1>1 DEF Request, Record, RequestType
  <2>5. CASE Look(c) \/ Find(c) \/ Customer(c) \/ Check(c) \/ Send(c)
    BY <2>1, <2>5 DEF Look, Find, Customer, Check, Send
  <2> QED BY <2>2, <2>3, <2>4, <2>5 DEF Checkout
<1>3. caller' \in [Callers -> CallerType]
  <2>1. caller \in [Callers -> CallerType]
    BY TypeParts
  <2>2. ASSUME NEW place \in CallPlaces, Goto(c, place) PROVE caller' \in [Callers -> CallerType]
    BY <2>1, <2>2 DEF Goto, CallerType
  <2>3. CASE Look(c)
    <3>1. pool.customer \in BOOLEAN
      BY TypeParts DEF PoolType
    <3> QED BY ZenonT(60), <2>1, <2>3, <3>1 DEF Look, CallerType, CallPlaces
  <2>4. CASE Find(c)
    <3>1. Unclosed \subseteq CheckoutRequests
      BY DEF Unclosed
    <3>2. \E place \in CallPlaces, rest \in SUBSET CheckoutRequests :
            caller' = [caller EXCEPT ![c].at = place, ![c].todo = rest]
      BY <2>4, <3>1 DEF Find, CallPlaces
    <3> QED BY ZenonT(60), <2>1, <3>2 DEF CallerType
  <2>5. CASE \E r \in CheckoutRequests : ClosePrevious(c, r)
    <3>1. PICK r \in CheckoutRequests : ClosePrevious(c, r)
      BY <2>5
    <3>2. caller[c] \in CallerType /\ caller[c].todo \ {r} \in SUBSET CheckoutRequests
      BY <2>1 DEF CallerType
    <3> QED BY <2>1, <3>1, <3>2 DEF ClosePrevious, CallerType
  <2>6. CASE Request(c) \/ Customer(c) \/ Claim(c) \/ Check(c) \/ Send(c) \/ Record(c)
             \/ \E r \in CheckoutRequests : KeepPrevious(c, r)
    <3>1. \E place \in CallPlaces : Goto(c, place)
      BY <2>6 DEF Request, Customer, Claim, Check, Send, Record, KeepPrevious, CallPlaces
    <3> QED BY <3>1, <2>2
  <2> QED BY <2>3, <2>4, <2>5, <2>6 DEF Checkout
<1>4. pool' \in PoolType
  <2>1. pool \in PoolType
    BY TypeParts
  <2>2. CASE Customer(c)
    BY <2>1, <2>2 DEF Customer, PoolType
  <2>3. CASE ~ Customer(c)
    BY <2>1, <2>3 DEF Checkout, Look, Find, Request, Claim, Check, Send, Record, ClosePrevious, KeepPrevious
  <2> QED BY <2>2, <2>3
<1>5. events' \in [Events -> EventType]
  <2>1. events \in [Events -> EventType]
    BY TypeParts
  <2>2. CASE \E r \in CheckoutRequests : KeepPrevious(c, r)
    BY <2>1, <2>2, Inserted, EventsOfRequests DEF KeepPrevious
  <2>3. CASE Look(c) \/ Find(c) \/ Request(c) \/ Customer(c) \/ Claim(c) \/ Check(c) \/ Send(c) \/ Record(c)
             \/ \E r \in CheckoutRequests : ClosePrevious(c, r)
    BY <2>1, <2>3
       DEF Look, Find, Request, Customer, Claim, Check, Send, Record, ClosePrevious, OfCaller, queue
  <2> QED BY <2>2, <2>3 DEF Checkout
<1>6. session' \in [CheckoutRequests -> {"none", "open", "paid", "expired"}]
  <2>1. session \in [CheckoutRequests -> {"none", "open", "paid", "expired"}]
    BY TypeParts
  <2>2. CASE Send(c)
    BY <2>1, <2>2 DEF Send
  <2>3. CASE Look(c) \/ Find(c) \/ Request(c) \/ Customer(c) \/ Claim(c) \/ Check(c) \/ Record(c)
             \/ \E r \in CheckoutRequests : ClosePrevious(c, r) \/ KeepPrevious(c, r)
    BY <2>1, <2>3
       DEF Look, Find, Request, Customer, Claim, Check, Record, ClosePrevious, KeepPrevious, OfCaller, provider
  <2> QED BY <2>2, <2>3 DEF Checkout
<1>7. UNCHANGED <<sub, lock, drain, applied, faults>>
  BY DEF Checkout, Look, Find, Request, Customer, Claim, Check, Send, Record, ClosePrevious, KeepPrevious,
         OfCaller, provider, queue
<1>8. sub' \in [CheckoutRequests -> SubType] /\ lock' \in LockType /\ drain' \in [Drains -> DrainType]
      /\ applied' \in [CheckoutRequests -> 0 .. MaxVersion] /\ faults' \in Nat
  BY <1>7, TypeParts
<1> QED BY <1>2, <1>3, <1>4, <1>5, <1>6, <1>8
        DEF TypeOK, PoolType, RequestType, SubType, EventType, LockType, CallerType, DrainType

(* A step of a drain, of the provider and of what else runs by itself. *)
LEMMA OthersTyped ==
  ASSUME TypeOK, DrainInv, Next, ~ \E c \in Callers : Checkout(c)
  PROVE  TypeOK'
<1>1. CASE \E r \in CheckoutRequests : Expire(r)
  <2>1. requests' \in [CheckoutRequests -> RequestType]
    <3>1. requests \in [CheckoutRequests -> RequestType]
      BY TypeParts
    <3> QED BY <1>1, <3>1 DEF Expire, RequestType
  <2>2. UNCHANGED <<pool, session, sub, events, lock, caller, drain, applied, faults>>
    BY <1>1 DEF Expire, provider, queue
  <2> QED BY <2>1, <2>2, TypeParts DEF TypeOK, RequestType
<1>2. CASE \E r \in CheckoutRequests : Pay(r) \/ SessionExpires(r) \/ Change(r)
  <2>1. PICK r \in CheckoutRequests : Pay(r) \/ SessionExpires(r) \/ Change(r)
    BY <1>2
  <2>2. session' \in [CheckoutRequests -> {"none", "open", "paid", "expired"}]
    BY <2>1, TypeParts DEF Pay, SessionExpires, Change
  <2>3. sub' \in [CheckoutRequests -> SubType]
    <3>1. sub \in [CheckoutRequests -> SubType] /\ 1 \in 0 .. MaxVersion
      BY TypeParts, TermsAssumption
    <3>2. CASE Pay(r)
      BY <3>1, <3>2 DEF Pay, SubType, Statuses
    <3>3. CASE SessionExpires(r)
      BY <3>1, <3>3 DEF SessionExpires
    <3>4. CASE Change(r)
      <4>1. sub[r].version + 1 \in 0 .. MaxVersion
        BY <3>1, <3>4, TermsAssumption DEF Change, SubType
      <4> QED BY <3>1, <3>4, <4>1 DEF Change, SubType, Statuses
    <3> QED BY <2>1, <3>2, <3>3, <3>4
  <2>4. UNCHANGED <<pool, requests, events, lock, caller, drain, applied, faults>>
    BY <2>1 DEF Pay, SessionExpires, Change, OfProvider, queue
  <2> QED BY <2>2, <2>3, <2>4, TypeParts DEF TypeOK, SubType
<1>3. CASE (\E r \in CheckoutRequests : Receive(r)) \/ Reconcile \/ (\E id \in Events : DueAgain(id))
  <2>1. events' \in [Events -> EventType]
    <3>1. events \in [Events -> EventType] /\ pool.sub \in CheckoutRequests \cup {None}
      BY TypeParts DEF PoolType
    <3>2. ASSUME NEW r \in CheckoutRequests, Receive(r) PROVE events' \in [Events -> EventType]
      <4>1. PICK k \in 1 .. sub[r].version : events' = Insert(Webhook(r, k))
        BY <3>2 DEF Receive
      <4>2. k \in 1 .. MaxVersion
        BY <4>1, TypeParts, TermsAssumption DEF SubType
      <4> QED BY <3>1, <4>1, <4>2, Inserted, EventsOfRequests
    <3>3. CASE Reconcile
      <4>1. Pending \in EventType
        <5>1. NoEvent \in EventType
          BY TermsAssumption DEF NoEvent, EventType
        <5> QED BY <5>1 DEF Pending, EventType
      <4> QED BY <3>1, <3>3, <4>1 DEF Reconcile
    <3>4. ASSUME NEW id \in Events, DueAgain(id) PROVE events' \in [Events -> EventType]
      BY <3>1, <3>4 DEF DueAgain, EventType
    <3> QED BY <1>3, <3>2, <3>3, <3>4
  <2>2. UNCHANGED <<pool, requests, session, sub, lock, caller, drain, applied, faults>>
    BY <1>3 DEF Receive, Reconcile, DueAgain, provider, OfDrain
  <2> QED BY <2>1, <2>2, TypeParts DEF TypeOK, EventType
<1>4. CASE Lapse
  <2>1. lock' \in LockType
    BY <1>4, TypeParts DEF Lapse, LockType
  <2>2. faults' \in Nat
    BY <1>4, TypeParts DEF Lapse, Fault
  <2>3. UNCHANGED <<pool, requests, session, sub, events, caller, drain, applied>>
    BY <1>4 DEF Lapse, provider, OfDrain
  <2> QED BY <2>1, <2>2, <2>3, TypeParts DEF TypeOK, LockType
<1>5. ASSUME NEW d \in Drains, Draining(d) \/ Crash(d)
      PROVE  TypeOK'
  <2>1. UNCHANGED <<requests, session, sub, caller>>
    BY <1>5 DEF Draining, Acquire, Take, Read, ReadFails, Apply, ApplyFails, Fail, Release, Crash, OfDrain, provider
  <2>2. drain[d] \in DrainType /\ (Working(d) => drain[d].event \in Events /\ drain[d].done < Limit)
    BY TypeParts DEF DrainInv, OnItsEvent
  <2>3. lock' \in LockType
    <3>1. lock \in LockType
      BY TypeParts
    <3>2. [holder |-> d, lapsed |-> FALSE] \in LockType /\ [holder |-> None, lapsed |-> FALSE] \in LockType
      BY DEF LockType
    <3>3. lock' \in {lock, [holder |-> d, lapsed |-> FALSE], [holder |-> None, lapsed |-> FALSE]}
      BY <1>5 DEF Draining, Acquire, Take, Read, ReadFails, Apply, ApplyFails, Fail, Release, Crash
    <3> QED BY <3>1, <3>2, <3>3
  <2>4. faults' \in Nat
    <3>1. faults \in Nat
      BY TypeParts
    <3> QED BY <1>5, <3>1
       DEF Draining, Acquire, Take, Read, ReadFails, Apply, ApplyFails, Fail, Release, Crash, Fault
  <2>5. drain' \in [Drains -> DrainType]
    <3>1. drain \in [Drains -> DrainType] /\ sub \in [CheckoutRequests -> SubType]
      BY TypeParts
    <3>2. CASE Acquire(d) \/ ReadFails(d) \/ ApplyFails(d)
      BY <3>1, <3>2 DEF Acquire, ReadFails, ApplyFails, DrainType, DrainPlaces
    <3>3. CASE Take(d)
      <4>1. PICK id \in Events : drain' = [drain EXCEPT ![d].at = "read", ![d].event = id]
        BY <3>3 DEF Take, Due
      <4>2. [drain[d] EXCEPT !.at = "read", !.event = id] \in DrainType
        BY <2>2 DEF DrainType, DrainPlaces
      <4> QED BY <3>1, <4>1, <4>2
    <3>4. CASE Read(d)
      <4>1. drain[d].event[1] \in CheckoutRequests
        BY <2>2, <3>4, EventsOfRequests DEF Read, Working
      <4>2. sub[drain[d].event[1]].status \in Statuses /\ sub[drain[d].event[1]].version \in 0 .. MaxVersion
        BY <3>1, <4>1 DEF SubType
      <4>3. \E place \in DrainPlaces, status \in Statuses, version \in 0 .. MaxVersion :
              drain' = [drain EXCEPT ![d].at = place, ![d].status = status, ![d].version = version]
        BY <3>4, <4>2 DEF Read, DrainPlaces
      <4>4. PICK place \in DrainPlaces, status \in Statuses, version \in 0 .. MaxVersion :
              drain' = [drain EXCEPT ![d].at = place, ![d].status = status, ![d].version = version]
        BY <4>3
      <4> QED BY <3>1, <4>4, <2>2 DEF DrainType
    <3>5. Idle \in DrainType
      BY TermsAssumption DEF DrainType, DrainPlaces, Statuses, Idle
    <3>6. CASE Release(d) \/ Crash(d)
      BY <3>1, <3>5, <3>6 DEF Release, Crash
    <3>7. CASE Apply(d) \/ Fail(d)
      <4>1. drain[d].done + 1 \in 0 .. Limit
        BY <2>2, <3>7, TermsAssumption DEF Apply, Fail, Working, DrainType
      <4>2. [Idle EXCEPT !.at = "take", !.done = drain[d].done + 1] \in DrainType
        BY <3>5, <4>1 DEF DrainType, DrainPlaces
      <4> QED BY <3>1, <3>7, <4>2 DEF Apply, Fail, NextEvent
    <3> QED BY <1>5, <3>2, <3>3, <3>4, <3>6, <3>7 DEF Draining
  <2>6. CASE Apply(d) \/ ApplyFails(d)
    <3>1. drain[d].event \in Events /\ drain[d].event[1] \in CheckoutRequests
      BY <2>2, <2>6, EventsOfRequests DEF Apply, ApplyFails, Working
    <3>2. pool' \in PoolType
      BY <2>6, <3>1, TypeParts, EntitledTyped DEF Apply, ApplyFails, Write
    <3>3. events' \in [Events -> EventType]
      <4>1. events \in [Events -> EventType]
        BY TypeParts
      <4>2. events' \in {events, [events EXCEPT ![drain[d].event].state = "done"]}
        BY <2>6 DEF Apply, ApplyFails, Write
      <4> QED BY <4>1, <4>2, <3>1 DEF EventType
    <3>4. applied' \in [CheckoutRequests -> 0 .. MaxVersion]
      <4>1. applied \in [CheckoutRequests -> 0 .. MaxVersion] /\ drain[d].version \in 0 .. MaxVersion
        BY <2>2, TypeParts DEF DrainType
      <4>2. applied' \in {applied, [applied EXCEPT ![drain[d].event[1]] = drain[d].version]}
        BY <2>6 DEF Apply, ApplyFails, Write
      <4> QED BY <4>1, <4>2, <3>1
    <3> QED BY <2>1, <2>3, <2>4, <2>5, <3>2, <3>3, <3>4, TypeParts
            DEF TypeOK, PoolType, EventType, LockType, DrainType
  <2>7. CASE Fail(d)
    <3>1. drain[d].event \in Events /\ (Holds(d) => events[drain[d].event].attempt < MaxAttempts)
      BY <2>7 DEF Fail, DrainInv, OnItsEvent, Working
    <3>2. events' \in [Events -> EventType]
      <4>1. events \in [Events -> EventType]
        BY TypeParts
      <4>2. CASE Holds(d)
        <5>1. events[drain[d].event].attempt + 1 \in 0 .. MaxAttempts
          BY <3>1, <4>1, <4>2, TermsAssumption DEF EventType
        <5>2. \E state \in {"dead", "pending"} :
                events' = [events EXCEPT ![drain[d].event] =
                             [state |-> state, attempt |-> events[drain[d].event].attempt + 1, due |-> FALSE]]
          BY <2>7, <4>2 DEF Fail
        <5> QED BY <3>1, <4>1, <5>1, <5>2 DEF EventType
      <4>3. CASE ~ Holds(d)
        BY <2>7, <4>1, <4>3 DEF Fail
      <4> QED BY <4>2, <4>3
    <3>3. UNCHANGED <<pool, applied>>
      BY <2>7 DEF Fail
    <3> QED BY <2>1, <2>3, <2>4, <2>5, <3>2, <3>3, TypeParts DEF TypeOK, EventType, LockType, DrainType
  <2>8. CASE Acquire(d) \/ Take(d) \/ Read(d) \/ ReadFails(d) \/ Release(d) \/ Crash(d)
    <3>1. UNCHANGED <<pool, events, applied>>
      BY <2>8 DEF Acquire, Take, Read, ReadFails, Release, Crash
    <3> QED BY <2>1, <2>3, <2>4, <2>5, <3>1, TypeParts DEF TypeOK, LockType, DrainType
  <2> QED BY <1>5, <2>6, <2>7, <2>8 DEF Draining
<1> QED BY <1>1, <1>2, <1>3, <1>4, <1>5 DEF Next, Provider

------------------------------------------------------------------------------
(* The steps of a call keep it: a request is made when every earlier one is  *)
(* settled, an attempt is granted to none that expired, and what closes a    *)
(* request is final.                                                         *)
LEMMA CallsKeep ==
  ASSUME TypeOK, CheckoutInv, NEW c \in Callers, Checkout(c)
  PROVE  CheckoutInv'
<1>1. Key[c] \in CheckoutRequests /\ \A b \in Callers : Key[b] \in CheckoutRequests
  BY DEF CheckoutRequests
<1>2. /\ requests \in [CheckoutRequests -> RequestType]
      /\ session \in [CheckoutRequests -> {"none", "open", "paid", "expired"}]
      /\ caller \in [Callers -> CallerType]
  BY TypeParts
<1>3. /\ \A r \in CheckoutRequests : Traced(r)
      /\ \A b \in Callers : Granted(b)
      /\ \A r, s \in CheckoutRequests :
           requests[r].made /\ requests[s].made /\ r # s => Settled(r) \/ Settled(s)
  BY DEF CheckoutInv, OneOpen
<1>4. sub' = sub
  BY DEF Checkout, Look, Find, Request, Customer, Claim, Check, Send, Record, ClosePrevious, KeepPrevious,
         OfCaller, provider
<1>5. CASE Look(c) \/ Find(c) \/ Customer(c) \/ Check(c) \/ \E r \in CheckoutRequests : KeepPrevious(c, r)
  <2>1. UNCHANGED <<requests, session, sub>>
    BY <1>5 DEF Look, Find, Customer, Check, KeepPrevious, OfCaller, provider
  <2>2. \A r \in CheckoutRequests : Traced(r)' /\ (Settled(r)' <=> Settled(r))
    BY <1>3, <2>1 DEF Traced, Settled, Over, Ended
  <2>3. \A b \in Callers : b # c => caller'[b] = caller[b]
    BY <1>2, <1>5 DEF Look, Find, Customer, Check, KeepPrevious, Goto
  <2>4. Granted(c)'
    <3>1. Granted(c) /\ caller[c] \in CallerType
      BY <1>2, <1>3
    <3>2. CASE Look(c)
      BY <1>2, <3>2 DEF Look, Granted
    <3>3. CASE Find(c)
      <4>1. caller'[c].at \in {"close", "end", "told"} \/ (caller'[c].at = "customer" /\ requests[Key[c]].made)
        BY <1>2, <3>3 DEF Find, CallerType
      <4> QED BY <4>1, <2>1 DEF Granted
    <3>4. CASE Customer(c) \/ Check(c)
      <4>1. CASE Customer(c)
        BY <1>2, <2>1, <3>1, <4>1 DEF Customer, Goto, Granted
      <4>2. CASE Check(c)
        <5>1. caller[c].at = "check" /\ caller'[c].at \in {"end", "send"}
              /\ (caller'[c].at = "send" => requests[Key[c]].attempted)
          BY <1>2, <4>2 DEF Check, Goto
        <5> QED BY <2>1, <3>1, <5>1 DEF Granted
      <4> QED BY <3>4, <4>1, <4>2
    <3>5. CASE \E r \in CheckoutRequests : KeepPrevious(c, r)
      BY <1>2, <3>5 DEF KeepPrevious, Goto, Granted
    <3> QED BY <1>5, <3>2, <3>3, <3>4, <3>5
  <2>5. \A b \in Callers : Granted(b)'
    BY <1>3, <2>1, <2>3, <2>4 DEF Granted
  <2> QED BY <1>3, <2>1, <2>2, <2>5 DEF CheckoutInv, OneOpen
<1>6. ASSUME NEW r \in CheckoutRequests, ClosePrevious(c, r)
      PROVE  CheckoutInv'
  <2>1. UNCHANGED <<session, sub>> /\ Over(r)
    BY <1>6 DEF ClosePrevious, OfCaller, provider
  <2>2. \A s \in CheckoutRequests :
          /\ requests'[s].made = requests[s].made /\ requests'[s].attempted = requests[s].attempted
          /\ requests'[s].expired = requests[s].expired
          /\ requests[s].closed => requests'[s].closed
          /\ requests'[s].closed => requests[s].closed \/ s = r
    BY <1>2, <1>6 DEF ClosePrevious, RequestType
  <2>3. \A s \in CheckoutRequests : Traced(s)' /\ (Settled(s) => Settled(s)')
    BY <1>3, <2>1, <2>2 DEF Traced, Settled, Over, Ended
  <2>4. \A b \in Callers : caller'[b].at = caller[b].at
    BY <1>2, <1>6 DEF ClosePrevious, CallerType
  <2>5. \A b \in Callers : Granted(b)'
    BY <1>1, <1>3, <2>2, <2>4 DEF Granted
  <2> QED BY <1>3, <2>2, <2>3, <2>5 DEF CheckoutInv, OneOpen
<1>7. CASE Request(c)
  <2>1. UNCHANGED <<session, sub>>
    BY <1>7 DEF Request, OfCaller, provider
  <2>2. CASE MayRequest /\ ~ requests[Key[c]].made
    <3>1. requests' = [requests EXCEPT ![Key[c]].made = TRUE] /\ caller' = [caller EXCEPT ![c].at = "customer"]
      BY <1>7, <2>2 DEF Request, Goto
    <3>2. \A s \in CheckoutRequests :
            /\ requests'[s].made <=> requests[s].made \/ s = Key[c]
            /\ requests'[s].attempted = requests[s].attempted /\ requests'[s].expired = requests[s].expired
            /\ requests'[s].closed = requests[s].closed
      BY <1>1, <1>2, <3>1 DEF RequestType
    <3>3. \A s \in CheckoutRequests : Traced(s)' /\ (Settled(s) <=> Settled(s)')
      BY <1>3, <2>1, <3>2 DEF Traced, Settled, Over, Ended
    <3>4. \A s \in CheckoutRequests : requests[s].made => Settled(s)
      BY <2>2 DEF MayRequest, Settled
    <3>5. OneOpen'
      BY <3>2, <3>3, <3>4 DEF OneOpen
    <3>6. \A b \in Callers : Granted(b)'
      BY <1>1, <1>2, <1>3, <3>1, <3>2 DEF Granted
    <3> QED BY <3>3, <3>5, <3>6 DEF CheckoutInv
  <2>3. CASE ~ (MayRequest /\ ~ requests[Key[c]].made)
    <3>1. requests' = requests /\ caller' = [caller EXCEPT ![c].at = "end"]
      BY <1>7, <2>3 DEF Request, Goto
    <3>2. \A s \in CheckoutRequests : Traced(s)' /\ (Settled(s) <=> Settled(s)')
      BY <1>3, <2>1, <3>1 DEF Traced, Settled, Over, Ended
    <3>3. \A b \in Callers : Granted(b)'
      BY <1>2, <1>3, <3>1 DEF Granted
    <3> QED BY <1>3, <3>1, <3>2, <3>3 DEF CheckoutInv, OneOpen
  <2> QED BY <2>2, <2>3
<1>8. CASE Claim(c)
  <2>1. UNCHANGED <<session, sub>> /\ caller[c].at = "claim" /\ caller' = [caller EXCEPT ![c].at = "check"]
    BY <1>8 DEF Claim, OfCaller, provider, Goto
  <2>2. requests[Key[c]].made
    BY <1>3, <2>1 DEF Granted
  <2>3. \A s \in CheckoutRequests :
          /\ requests'[s].made = requests[s].made /\ requests'[s].expired = requests[s].expired
          /\ requests'[s].closed = requests[s].closed
          /\ requests[s].attempted => requests'[s].attempted
          /\ requests'[s].attempted => requests[s].attempted \/ (s = Key[c] /\ ~ requests[s].expired)
    BY <1>1, <1>2, <1>8 DEF Claim, RequestType
  <2>4. \A s \in CheckoutRequests : Traced(s)' /\ (Settled(s) => Settled(s)')
    BY <1>3, <2>1, <2>2, <2>3 DEF Traced, Settled, Over, Ended
  <2>5. \A b \in Callers : Granted(b)'
    BY <1>1, <1>2, <1>3, <2>1, <2>3 DEF Granted
  <2> QED BY <1>3, <2>3, <2>4, <2>5 DEF CheckoutInv, OneOpen
<1>9. CASE Send(c)
  <2>1. UNCHANGED <<requests, sub>> /\ requests[Key[c]].attempted /\ requests[Key[c]].made
    BY <1>1, <1>3, <1>9 DEF Send, Granted, Traced
  <2>2. \A s \in CheckoutRequests :
          session'[s] = session[s] \/ (s = Key[c] /\ session[s] = "none" /\ session'[s] = "open")
    BY <1>1, <1>2, <1>9 DEF Send
  <2>3. \A s \in CheckoutRequests : Traced(s)' /\ (Settled(s) <=> Settled(s)')
    BY <1>3, <2>1, <2>2 DEF Traced, Settled, Over, Ended
  <2>4. \E place \in {"end", "record"} : caller' = [caller EXCEPT ![c].at = place]
    BY <1>9 DEF Send, Goto
  <2>5. \A b \in Callers : Granted(b)'
    BY <1>1, <1>2, <1>3, <2>1, <2>4 DEF Granted
  <2> QED BY <1>3, <2>1, <2>3, <2>5 DEF CheckoutInv, OneOpen
<1>10. CASE Record(c)
  <2>1. UNCHANGED <<session, sub>>
    BY <1>10 DEF Record, OfCaller, provider
  <2>2. \A s \in CheckoutRequests :
          /\ requests'[s].made = requests[s].made /\ requests'[s].attempted = requests[s].attempted
          /\ requests'[s].expired = requests[s].expired /\ requests'[s].closed = requests[s].closed
    BY <1>1, <1>2, <1>10 DEF Record, RequestType
  <2>3. \A s \in CheckoutRequests : Traced(s)' /\ (Settled(s) <=> Settled(s)')
    BY <1>3, <2>1, <2>2 DEF Traced, Settled, Over, Ended
  <2>4. \E place \in {"end", "told"} : caller' = [caller EXCEPT ![c].at = place]
    BY <1>10 DEF Record, Goto
  <2>5. \A b \in Callers : Granted(b)'
    BY <1>1, <1>2, <1>3, <2>2, <2>4 DEF Granted
  <2> QED BY <1>3, <2>2, <2>3, <2>5 DEF CheckoutInv, OneOpen
<1> QED BY <1>5, <1>6, <1>7, <1>8, <1>9, <1>10 DEF Checkout

(* So do those of the provider, and nothing else touches what it speaks of. *)
LEMMA OthersKeepCheckouts ==
  ASSUME TypeOK, CheckoutInv, Next, ~ \E c \in Callers : Checkout(c)
  PROVE  CheckoutInv'
<1>1. /\ requests \in [CheckoutRequests -> RequestType]
      /\ session \in [CheckoutRequests -> {"none", "open", "paid", "expired"}]
      /\ sub \in [CheckoutRequests -> SubType]
      /\ \A b \in Callers : Key[b] \in CheckoutRequests
  BY TypeParts DEF CheckoutRequests
<1>2. /\ \A r \in CheckoutRequests : Traced(r)
      /\ \A b \in Callers : Granted(b)
      /\ \A r, s \in CheckoutRequests :
           requests[r].made /\ requests[s].made /\ r # s => Settled(r) \/ Settled(s)
  BY DEF CheckoutInv, OneOpen
<1>3. CASE \E r \in CheckoutRequests : Expire(r)
  <2>1. UNCHANGED <<session, sub, caller>>
    BY <1>3 DEF Expire, provider
  <2>2. \A s \in CheckoutRequests :
          /\ requests'[s].made = requests[s].made /\ requests'[s].attempted = requests[s].attempted
          /\ requests[s].expired => requests'[s].expired
          /\ requests'[s].closed = requests[s].closed
    BY <1>1, <1>3 DEF Expire, RequestType
  <2>3. \A s \in CheckoutRequests : Traced(s)' /\ (Settled(s) => Settled(s)')
    BY <1>2, <2>1, <2>2 DEF Traced, Settled, Over, Ended
  <2>4. \A b \in Callers : Granted(b)'
    BY <1>1, <1>2, <2>1, <2>2 DEF Granted
  <2> QED BY <1>2, <2>2, <2>3, <2>4 DEF CheckoutInv, OneOpen
<1>4. CASE \E r \in CheckoutRequests : Pay(r) \/ SessionExpires(r) \/ Change(r)
  <2>1. PICK r \in CheckoutRequests : Pay(r) \/ SessionExpires(r) \/ Change(r)
    BY <1>4
  <2>2. UNCHANGED <<requests, caller>>
    BY <2>1 DEF Pay, SessionExpires, Change, OfProvider
  <2>3. \A s \in CheckoutRequests : s # r => session'[s] = session[s] /\ sub'[s] = sub[s]
    BY <1>1, <2>1 DEF Pay, SessionExpires, Change
  <2>4. Traced(r)'
    <3>1. Traced(r) /\ requests'[r] = requests[r]
      BY <1>2, <2>2
    <3>2. CASE Pay(r)
      <4>1. session[r] = "open" /\ session'[r] = "paid" /\ sub'[r].status = "active"
        BY <1>1, <3>2 DEF Pay
      <4> QED BY <3>1, <4>1 DEF Traced, Over
    <3>3. CASE SessionExpires(r)
      <4>1. session[r] = "open" /\ session'[r] = "expired" /\ sub' = sub
        BY <1>1, <3>3 DEF SessionExpires
      <4> QED BY <3>1, <4>1 DEF Traced, Over
    <3>4. CASE Change(r)
      <4>1. session' = session /\ sub[r].status \in {"active", "past_due"}
            /\ sub'[r].status \in {"active", "past_due", "ended"}
        BY <1>1, <3>4 DEF Change
      <4> QED BY <3>1, <4>1 DEF Traced, Over, Ended
    <3> QED BY <2>1, <3>2, <3>3, <3>4
  <2>5. \A s \in CheckoutRequests : Traced(s)' /\ (Settled(s) <=> Settled(s)')
    BY <1>2, <2>2, <2>3, <2>4 DEF Traced, Settled, Over, Ended
  <2> QED BY <1>2, <2>2, <2>5 DEF CheckoutInv, OneOpen, Granted
<1>5. CASE UNCHANGED <<requests, session, sub, caller>>
  BY <1>2, <1>5 DEF CheckoutInv, OneOpen, Granted, Traced, Settled, Over, Ended
<1>6. ASSUME NEW d \in Drains, Draining(d) \/ Crash(d)
      PROVE  UNCHANGED <<requests, session, sub, caller>>
  BY <1>6 DEF Draining, Acquire, Take, Read, ReadFails, Apply, ApplyFails, Fail, Release, Crash, OfDrain, provider
<1>7. ASSUME (\E r \in CheckoutRequests : Receive(r)) \/ Reconcile \/ Lapse \/ (\E id \in Events : DueAgain(id))
      PROVE  UNCHANGED <<requests, session, sub, caller>>
  BY <1>7 DEF Receive, Reconcile, Lapse, DueAgain, OfDrain, provider
<1> QED BY <1>3, <1>4, <1>5, <1>6, <1>7 DEF Next, Provider

------------------------------------------------------------------------------
(* The states of a subscription only rise, so nothing but a drain, and an    *)
(* event that waits anew, can disturb what the drains stand on.              *)
LEMMA OthersKeepDrains ==
  ASSUME TypeOK, DrainInv, UNCHANGED <<lock, drain, applied>>,
         \A r \in CheckoutRequests : sub'[r].version \in Nat /\ sub[r].version <= sub'[r].version,
         \A id \in Events :
           /\ events'[id].attempt = events[id].attempt \/ events'[id].attempt = 0
           /\ events'[id].state = "pending" => events'[id].attempt = 0 \/ events[id].state = "pending"
  PROVE  DrainInv'
<1>1. /\ sub \in [CheckoutRequests -> SubType] /\ applied \in [CheckoutRequests -> 0 .. MaxVersion]
      /\ drain \in [Drains -> DrainType] /\ events \in [Events -> EventType]
      /\ MaxAttempts \in Nat \ {0} /\ MaxVersion \in Nat
  BY TypeParts, TermsAssumption
<1>2. \A id \in Events : events'[id].state = "pending" => events'[id].attempt < MaxAttempts
  BY <1>1 DEF DrainInv
<1>3. \A r \in CheckoutRequests : applied'[r] <= sub'[r].version
  BY <1>1 DEF DrainInv, SubType
<1>4. ASSUME NEW d \in Drains, Working(d)
      PROVE  OnItsEvent(d)'
  <2>1. drain[d].event \in Events /\ drain[d].event[1] \in CheckoutRequests
    BY <1>4, EventsOfRequests DEF DrainInv, OnItsEvent
  <2>2. Holds(d)' <=> Holds(d)
    BY DEF Holds
  <2>3. drain[d].version \in Nat /\ sub[drain[d].event[1]].version \in Nat
        /\ events[drain[d].event].attempt \in Nat
    BY <1>1, <2>1 DEF DrainType, SubType, EventType
  <2> QED BY <1>1, <1>4, <2>1, <2>2, <2>3 DEF DrainInv, OnItsEvent
<1>5. \A d \in Drains : OnItsEvent(d)'
  BY <1>4 DEF OnItsEvent, Working
<1> QED BY <1>2, <1>3, <1>5 DEF DrainInv

(* A drain that acts keeps it for itself, and for a drain that does not act: *)
(* the pool is told, and an attempt counted, by the one that holds the lease. *)
LEMMA DrainsKeep ==
  ASSUME TypeOK, DrainInv, NEW d \in Drains, Draining(d) \/ Crash(d)
  PROVE  DrainInv'
<1>1. /\ sub \in [CheckoutRequests -> SubType] /\ applied \in [CheckoutRequests -> 0 .. MaxVersion]
      /\ drain \in [Drains -> DrainType] /\ events \in [Events -> EventType]
      /\ lock \in LockType /\ MaxAttempts \in Nat \ {0} /\ MaxVersion \in Nat
  BY TypeParts, TermsAssumption
<1>2. sub' = sub /\ \A b \in Drains : b # d => drain'[b] = drain[b]
  BY <1>1 DEF Draining, Acquire, Take, Read, ReadFails, Apply, ApplyFails, Fail, Release, Crash,
              NextEvent, OfDrain, provider
<1>3. /\ \A id \in Events : events[id].state = "pending" => events[id].attempt < MaxAttempts
      /\ \A r \in CheckoutRequests : applied[r] <= sub[r].version
      /\ \A b \in Drains : OnItsEvent(b)
  BY DEF DrainInv
(* It takes the lease, gives it back or leaves it. *)
<1>4. lock' = lock \/ (\A b \in Drains : Holds(b)' => b = d /\ ~ Working(d)')
  <2>1. CASE Acquire(d)
    BY <1>1, <2>1 DEF Acquire, Holds, Working, DrainType
  <2>2. CASE Release(d)
    BY <1>1, <2>2, NoneAssumption DEF Release, Holds
  <2>3. CASE Take(d) \/ Read(d) \/ ReadFails(d) \/ Apply(d) \/ ApplyFails(d) \/ Fail(d) \/ Crash(d)
    BY <2>3 DEF Take, Read, ReadFails, Apply, ApplyFails, Fail, Crash
  <2> QED BY <2>1, <2>2, <2>3 DEF Draining
(* Without the lease it writes nothing. *)
<1>5. ~ Holds(d) => UNCHANGED <<events, applied>>
  BY DEF Draining, Acquire, Take, Read, ReadFails, Apply, ApplyFails, Fail, Release, Crash, Write
(* Whoever does not hold it keeps its part. *)
<1>6. ASSUME NEW b \in Drains, b # d
      PROVE  OnItsEvent(b)'
  <2>1. drain'[b] = drain[b] /\ OnItsEvent(b)
    BY <1>2, <1>3, <1>6
  <2>2. Holds(b)' => Holds(b) /\ ~ Holds(d)
    BY <1>4, <1>6 DEF Holds
  <2> QED BY <1>2, <1>5, <2>1, <2>2 DEF OnItsEvent, Working
<1>7. CASE Apply(d) \/ ApplyFails(d)
  <2>1. drain[d].at = "apply" /\ Working(d) /\ lock' = lock
    BY <1>7 DEF Apply, ApplyFails, Working
  <2> DEFINE id == drain[d].event
  <2>2. /\ id \in Events /\ id[1] \in CheckoutRequests
        /\ drain[d].version <= sub[id[1]].version /\ drain[d].done < Limit
        /\ Holds(d) => events[id].attempt < MaxAttempts
    BY <1>3, <2>1, EventsOfRequests DEF OnItsEvent
  <2>3. /\ events' \in {events, [events EXCEPT ![id].state = "done"]}
        /\ applied' \in {applied, [applied EXCEPT ![id[1]] = drain[d].version]}
    BY <1>7 DEF Apply, ApplyFails, Write
  <2>4. \A e \in Events : events'[e].attempt = events[e].attempt
                          /\ (events'[e].state = "pending" => events[e].state = "pending")
    BY <1>1, <2>2, <2>3 DEF EventType
  <2>5. \A r \in CheckoutRequests : applied'[r] <= sub'[r].version
    BY <1>1, <1>2, <1>3, <2>2, <2>3
  <2>6. OnItsEvent(d)'
    <3>1. CASE Apply(d)
      <4>1. drain'[d].at = "take"
        BY <1>1, <3>1 DEF Apply, NextEvent, Idle
      <4> QED BY <4>1 DEF OnItsEvent, Working
    <3>2. CASE ApplyFails(d)
      <4>1. drain'[d].at = "fail" /\ drain'[d].event = id /\ drain'[d].done = drain[d].done
        BY <1>1, <3>2 DEF ApplyFails, DrainType
      <4>2. Holds(d)' <=> Holds(d)
        BY <2>1 DEF Holds
      <4> QED BY <2>2, <2>4, <4>1, <4>2 DEF OnItsEvent
    <3> QED BY <1>7, <3>1, <3>2
  <2> QED BY <1>3, <1>6, <2>4, <2>5, <2>6 DEF DrainInv
<1>8. CASE Fail(d)
  <2> DEFINE id == drain[d].event
  <2>1. id \in Events /\ applied' = applied
    BY <1>3, <1>8 DEF Fail, OnItsEvent, Working
  <2>2. drain'[d].at = "take"
    BY <1>1, <1>8 DEF Fail, NextEvent, Idle
  <2>3. \A e \in Events : events'[e].state = "pending" => events'[e].attempt < MaxAttempts
    <3>1. CASE Holds(d)
      <4>1. events' = [events EXCEPT ![id] =
                         [state |-> IF events[id].attempt + 1 >= MaxAttempts THEN "dead" ELSE "pending",
                          attempt |-> events[id].attempt + 1, due |-> FALSE]]
        BY <1>8, <3>1 DEF Fail
      <4>2. events[id].attempt \in Nat
        BY <1>1, <2>1 DEF EventType
      <4>3. events'[id].state = "pending" => events'[id].attempt < MaxAttempts
        BY <1>1, <2>1, <4>1, <4>2
      <4>4. \A e \in Events : e # id => events'[e] = events[e]
        BY <1>1, <4>1
      <4> QED BY <1>3, <4>3, <4>4
    <3>2. CASE ~ Holds(d)
      BY <1>3, <1>5, <3>2
    <3> QED BY <3>1, <3>2
  <2> QED BY <1>2, <1>3, <1>6, <2>1, <2>2, <2>3 DEF DrainInv, OnItsEvent, Working
<1>9. CASE Acquire(d) \/ Take(d) \/ Read(d) \/ ReadFails(d) \/ Release(d) \/ Crash(d)
  <2>1. UNCHANGED <<events, applied>>
    BY <1>9 DEF Acquire, Take, Read, ReadFails, Release, Crash
  <2>2. OnItsEvent(d)'
    <3>1. CASE Acquire(d) \/ Release(d) \/ Crash(d)
      <4>1. drain'[d].at \in {"take", "idle"}
        BY <1>1, <3>1 DEF Acquire, Release, Crash, Idle, DrainType
      <4> QED BY <4>1 DEF OnItsEvent, Working
    <3>2. CASE Take(d)
      <4>1. PICK e \in Due : drain' = [drain EXCEPT ![d].at = "read", ![d].event = e]
        BY <3>2 DEF Take
      <4>2. e \in Events /\ events[e].attempt < MaxAttempts /\ drain[d].done < Limit
        BY <1>3, <3>2, <4>1 DEF Due, Take
      <4>3. drain'[d].at = "read" /\ drain'[d].event = e /\ drain'[d].done = drain[d].done
        BY <1>1, <4>1 DEF DrainType
      <4> QED BY <2>1, <4>2, <4>3 DEF OnItsEvent
    <3>3. CASE Read(d)
      <4> DEFINE r == drain[d].event[1]
      <4>1. OnItsEvent(d) /\ Working(d) /\ lock' = lock
        BY <1>3, <3>3 DEF Read, Working
      <4>2. /\ drain'[d].event = drain[d].event /\ drain'[d].done = drain[d].done
            /\ drain'[d].version = sub[r].version
        BY <1>1, <3>3 DEF Read, DrainType
      <4>3. r \in CheckoutRequests
        BY <4>1, EventsOfRequests DEF OnItsEvent
      <4>4. sub[r].version \in Nat /\ applied[r] <= sub[r].version
        BY <1>1, <1>3, <4>3 DEF SubType
      <4>5. Holds(d)' <=> Holds(d)
        BY <4>1 DEF Holds
      <4> QED BY <1>2, <2>1, <4>1, <4>2, <4>3, <4>4, <4>5 DEF OnItsEvent
    <3>4. CASE ReadFails(d)
      <4>1. OnItsEvent(d) /\ Working(d) /\ lock' = lock
        BY <1>3, <3>4 DEF ReadFails, Working
      <4>2. drain'[d].at = "fail" /\ drain'[d].event = drain[d].event /\ drain'[d].done = drain[d].done
        BY <1>1, <3>4 DEF ReadFails, DrainType
      <4>3. Holds(d)' <=> Holds(d)
        BY <4>1 DEF Holds
      <4> QED BY <2>1, <4>1, <4>2, <4>3 DEF OnItsEvent
    <3> QED BY <1>9, <3>1, <3>2, <3>3, <3>4
  <2> QED BY <1>2, <1>3, <1>6, <2>1, <2>2 DEF DrainInv
<1> QED BY <1>7, <1>8, <1>9 DEF Draining

(* Every step keeps it. *)
LEMMA NextKeeps == IInv /\ [Next]_vars => IInv'
<1> SUFFICES ASSUME IInv, [Next]_vars PROVE IInv'
  OBVIOUS
<1> USE DEF IInv
<1>1. CASE UNCHANGED vars
  <2>1. UNCHANGED <<pool, requests, session, sub, events, lock, caller, drain, applied, faults>>
    BY <1>1 DEF vars, provider, queue
  <2> QED BY <2>1 DEF TypeOK, CheckoutInv, Traced, Granted, OneOpen, Settled, Over, Ended,
                      DrainInv, OnItsEvent, Working, Holds
<1>2. CASE Next
  <2>1. TypeOK'
    BY <1>2, CheckoutTyped, OthersTyped
  <2>2. CheckoutInv'
    BY <1>2, CallsKeep, OthersKeepCheckouts
  <2>3. DrainInv'
    <3>1. CASE \E d \in Drains : Draining(d) \/ Crash(d)
      BY <3>1, DrainsKeep
    <3>2. CASE Lapse
      <4>1. UNCHANGED <<events, drain, applied, sub>> /\ \A d \in Drains : Holds(d)' => Holds(d)
        BY <3>2 DEF Lapse, Holds, OfDrain, provider
      <4> QED BY <4>1 DEF DrainInv, OnItsEvent, Working
    <3>3. ASSUME UNCHANGED <<events, lock, drain, applied>>,
                 \A r \in CheckoutRequests : sub[r].version <= sub'[r].version
          PROVE  DrainInv'
      <4>1. \A r \in CheckoutRequests : sub'[r].version \in Nat
        BY <2>1, TermsAssumption DEF TypeOK
      <4> QED BY <3>3, <4>1, OthersKeepDrains
    <3>4. ASSUME UNCHANGED <<lock, drain, applied, sub>>,
                 \A id \in Events :
                   /\ events'[id].attempt = events[id].attempt \/ events'[id].attempt = 0
                   /\ events'[id].state = "pending" => events'[id].attempt = 0 \/ events[id].state = "pending"
          PROVE  DrainInv'
      <4>1. \A r \in CheckoutRequests : sub[r].version \in Nat
        BY TermsAssumption DEF TypeOK
      <4> QED BY <3>4, <4>1, OthersKeepDrains
    <3>5. CASE \E c \in Callers : Checkout(c)
      <4>1. PICK c \in Callers : Checkout(c)
        BY <3>5
      <4>2. UNCHANGED <<lock, drain, applied, sub>>
        BY <4>1 DEF Checkout, Look, Find, Request, Customer, Claim, Check, Send, Record, ClosePrevious, KeepPrevious,
                    OfCaller, provider, queue
      <4>3. events' = events \/ \E r \in CheckoutRequests : events' = Insert(CheckoutEvent(r))
        BY <4>1 DEF Checkout, Look, Find, Request, Customer, Claim, Check, Send, Record, ClosePrevious, KeepPrevious,
                    OfCaller, queue
      <4> QED BY <3>4, <4>2, <4>3, TypeParts, Inserted, EventsOfRequests
    <3>6. ASSUME NEW r \in CheckoutRequests, Expire(r) \/ Pay(r) \/ SessionExpires(r) \/ Change(r)
          PROVE  DrainInv'
      <4>1. UNCHANGED <<events, lock, drain, applied>>
        BY <3>6 DEF Expire, Pay, SessionExpires, Change, OfProvider, queue
      <4>2. sub \in [CheckoutRequests -> SubType] /\ \A q \in CheckoutRequests : sub[q].version \in Nat
        BY TypeParts, TermsAssumption DEF SubType
      <4>3. session[r] = "open" => sub[r].version = 0
        BY DEF CheckoutInv, Traced
      <4>4. \A q \in CheckoutRequests : sub[q].version <= sub'[q].version
        BY <3>6, <4>2, <4>3 DEF Expire, Pay, SessionExpires, Change, provider
      <4> QED BY <3>3, <4>1, <4>4
    <3>7. ASSUME NEW r \in CheckoutRequests, Receive(r)
          PROVE  DrainInv'
      <4>1. PICK k \in 1 .. sub[r].version : events' = Insert(Webhook(r, k))
        BY <3>7 DEF Receive
      <4>2. k \in 1 .. MaxVersion
        BY <4>1, TypeParts, TermsAssumption DEF SubType
      <4>3. UNCHANGED <<lock, drain, applied, sub>>
        BY <3>7 DEF Receive, provider
      <4> QED BY <3>4, <4>1, <4>2, <4>3, TypeParts, Inserted, EventsOfRequests
    <3>8. CASE Reconcile
      <4>1. events' = [events EXCEPT ![HourlyEvent(pool.sub)] = Pending] /\ UNCHANGED <<lock, drain, applied, sub>>
        BY <3>8 DEF Reconcile, provider
      <4>2. Pending.attempt = 0
        BY DEF Pending, NoEvent
      <4> QED BY <3>4, <4>1, <4>2, TypeParts
    <3>9. ASSUME NEW id \in Events, DueAgain(id)
          PROVE  DrainInv'
      <4>1. events' = [events EXCEPT ![id].due = TRUE] /\ UNCHANGED <<lock, drain, applied, sub>>
        BY <3>9 DEF DueAgain, OfDrain, provider
      <4>2. events \in [Events -> EventType]
        BY TypeParts
      <4>3. \A e \in Events : events'[e].attempt = events[e].attempt /\ events'[e].state = events[e].state
        BY <4>1, <4>2 DEF EventType
      <4> QED BY <3>4, <4>1, <4>3
    <3> QED BY <1>2, <3>1, <3>2, <3>5, <3>6, <3>7, <3>8, <3>9 DEF Next, Provider
  <2> QED BY <2>1, <2>2, <2>3
<1> QED BY <1>1, <1>2

------------------------------------------------------------------------------
(* Every state has the inductive invariant. *)
THEOREM BillingInvariant == Spec => []IInv
<1>1. Init => IInv
  BY InitKeeps
<1>2. IInv /\ [Next]_vars => IInv'
  BY NextKeeps
<1> QED BY <1>1, <1>2, PTL DEF Spec

(* Every state of the plan, its checkouts and its drains is well typed: no    *)
(* event has more failures than its limit, and no drain more events than its. *)
THEOREM TypeCorrect == Spec => []TypeOK
<1>1. IInv => TypeOK
  BY DEF IInv
<1> QED BY <1>1, BillingInvariant, PTL

(* A pool pays for one subscription at a time, whatever retries, lost        *)
(* answers, expiries and late webhooks there were (billing.ts:161): of two   *)
(* requests one is settled, and a settled one bought nothing that lives.     *)
THEOREM AlwaysOneSubscription == Spec => []OneSubscription
<1>1. ASSUME IInv PROVE OneSubscription
  <2> DEFINE Live == {r \in CheckoutRequests : sub[r].status \in {"active", "past_due"}}
  <2>1. ASSUME NEW r \in Live PROVE requests[r].made /\ ~ Settled(r)
    <3>1. session[r] = "paid" /\ ~ Over(r) /\ Traced(r)
      BY <1>1 DEF IInv, CheckoutInv, Traced, Over, Ended
    <3> QED BY <3>1 DEF Traced, Settled
  <2>2. \A r, s \in Live : r = s
    BY <1>1, <2>1 DEF IInv, CheckoutInv, OneOpen
  <2>3. Live = {} \/ \E r \in Live : Live = {r}
    BY <2>2
  <2>4. Cardinality(Live) \in {0, 1}
    <3> HIDE DEF Live
    <3>1. CASE Live = {}
      BY <3>1, FS_EmptySet
    <3>2. ASSUME NEW r \in Live, Live = {r} PROVE Cardinality(Live) = 1
      BY <3>2, FS_Singleton
    <3> QED BY <2>3, <3>1, <3>2
  <2>5. DOMAIN sub = CheckoutRequests
    BY <1>1, TypeParts DEF IInv
  <2> QED BY <2>4, <2>5 DEF OneSubscription
<1> QED BY <1>1, BillingInvariant, PTL

(* What the pool is told of a subscription never falls behind what it was     *)
(* told before (billing.ts:320): only the drain with the lease tells it, and  *)
(* what that one read is no older than what was told since it took the lease. *)
THEOREM AlwaysAppliedInOrder == Spec => AppliedInOrder
<1>1. ASSUME IInv, [Next]_vars
      PROVE  [\A r \in DOMAIN applied : applied'[r] >= applied[r]]_applied
  <2>1. /\ applied \in [CheckoutRequests -> 0 .. MaxVersion] /\ drain \in [Drains -> DrainType]
        /\ MaxVersion \in Nat
    BY <1>1, TypeParts, TermsAssumption DEF IInv
  <2>2. ASSUME NEW d \in Drains, Apply(d) \/ ApplyFails(d)
        PROVE  \A r \in CheckoutRequests : applied'[r] >= applied[r]
    <3>1. drain[d].at = "apply" /\ Working(d) /\ drain[d].version \in 0 .. MaxVersion
      BY <2>1, <2>2 DEF Apply, ApplyFails, Working, DrainType
    <3>2. applied' = applied \/
            (Holds(d) /\ applied' = [applied EXCEPT ![drain[d].event[1]] = drain[d].version])
      BY <2>2 DEF Apply, ApplyFails, Write
    <3>3. Holds(d) => applied[drain[d].event[1]] <= drain[d].version
      BY <1>1, <3>1 DEF IInv, DrainInv, OnItsEvent
    <3> QED BY <2>1, <3>1, <3>2, <3>3
  <2>3. ASSUME NEW d \in Drains, Draining(d) \/ Crash(d), ~ (Apply(d) \/ ApplyFails(d))
        PROVE  applied' = applied
    BY <2>3 DEF Draining, Acquire, Take, Read, ReadFails, Fail, Release, Crash
  <2>4. ASSUME ~ \E d \in Drains : Draining(d) \/ Crash(d)
        PROVE  applied' = applied
    <3>1. CASE \E c \in Callers : Checkout(c)
      BY <3>1 DEF Checkout, Look, Find, Request, Customer, Claim, Check, Send, Record, ClosePrevious, KeepPrevious,
                  OfCaller, queue
    <3>2. CASE ~ \E c \in Callers : Checkout(c)
      BY <1>1, <2>4, <3>2 DEF Next, Provider, Expire, Pay, SessionExpires, Change, Receive, Reconcile, Lapse, DueAgain,
                              OfProvider, OfDrain, queue, vars
    <3> QED BY <3>1, <3>2
  <2>5. DOMAIN applied = CheckoutRequests
    BY <2>1
  <2>6. CASE \E d \in Drains : Apply(d) \/ ApplyFails(d)
    BY <2>2, <2>5, <2>6
  <2> QED BY <2>3, <2>4, <2>6
<1> QED BY <1>1, BillingInvariant, PTL DEF Spec, AppliedInOrder

=============================================================================
