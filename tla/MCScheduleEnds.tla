----------------------------- MODULE MCScheduleEnds -----------------------------
(* What the schedule of every minute has to finish, whatever of it is lost:  *)
(* the clean-up of payloads, and the plan of a pool whose subscription was   *)
(* paid before and may end without a webhook.  They share no state, so in a  *)
(* behaviour one of them runs and the other has nothing to do.               *)
EXTENDS MCPayloads, BillingPromise

VARIABLES
  pool, requests, session, events, lock, caller, drain, planFaults,
  subject  \* which of them this behaviour is of

CONSTANTS d1, d2
CONSTANTS None, Limit, MaxVersion

PlanCallers == {c1}
PlanKey == c1 :> k1
PlanDrains == {d1, d2}
NoPlan == [callers |-> {}, drains |-> {}, paid |-> None, faults |-> 0]
PaidPlan == [callers |-> {}, drains |-> PlanDrains, paid |-> k1, faults |-> 1]

Subscription == INSTANCE Billing WITH
  Callers <- PlanCallers, Key <- PlanKey, Drains <- PlanDrains, Starts <- {NoPlan, PaidPlan}, faults <- planFaults

planVars == <<pool, requests, session, sub, events, lock, caller, drain, applied, planFaults>>
everything == <<vars, planVars, subject>>

(* A memory nothing has happened to needs no clean-up once the time of its   *)
(* preparation is over, and a pool without a subscription no drain: fairness *)
(* asks nothing else of the part that rests.                                 *)
ScheduleInit ==
  /\ Init /\ Subscription!Init
  /\ subject = IF pool.customer THEN "plan" ELSE "payloads"

ScheduleNext ==
  /\ UNCHANGED subject
  /\ \/ subject = "payloads" /\ Next /\ UNCHANGED planVars
     \/ subject = "plan" /\ Subscription!Next /\ UNCHANGED vars
     \/ subject = "plan" /\ (\E k \in Keys : IntentExpires(k)) /\ UNCHANGED planVars

ScheduleSpec == ScheduleInit /\ [][ScheduleNext]_everything /\ Fairness /\ Subscription!Fairness

(* A pool does not keep the plan of a subscription that ended, even if no *)
(* webhook ever says so (billing.ts:274).                                 *)
EndedIsReleased == Subscription!EndedIsReleased
===============================================================================
