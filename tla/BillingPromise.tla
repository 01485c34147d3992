---------------------------- MODULE BillingPromise ----------------------------
(* What a pool may rely on in its plan, in terms of the subscriptions of the *)
(* provider and of what the pool was told of each.                           *)
EXTENDS Naturals, FiniteSets

VARIABLES
  sub,     \* external: the provider's subscriptions, by the request that bought each
  applied  \* history: the newest state of each subscription the pool was told

(* External: what the provider says of a subscription. *)
Statuses == {"none", "active", "past_due", "ended"}

(* A pool pays for one subscription at a time, whatever retries, lost       *)
(* answers, expiries and late webhooks there were: a new checkout waits for *)
(* the proof that every earlier attempt is over (billing.ts:161).           *)
OneSubscription == Cardinality({r \in DOMAIN sub : sub[r].status \in {"active", "past_due"}}) <= 1

(* What the pool is told of a subscription never falls behind what it was   *)
(* told before: a drain that was held up past its lease writes nothing of   *)
(* what it read (billing.ts:320).                                           *)
AppliedInOrder == [][\A r \in DOMAIN applied : applied'[r] >= applied[r]]_applied
===============================================================================
