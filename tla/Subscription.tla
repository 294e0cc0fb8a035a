---------------------------- MODULE Subscription ----------------------------
(***************************************************************************)
(* The SaaS subscription of one tenant: checkout and setup payments, the   *)
(* handlers of PAYMENT_INTENT_SUCCEEDED and PAYMENT_INTENT_FAILED, the     *)
(* renewal, dunning and billing crons, and the tenant's own switches.      *)
(*                                                                         *)
(* Every writer reads platform_subscriptions, awaits something, and        *)
(* updates the row by id; the JSON column externalRefs is written back     *)
(* whole from what was read.  Crons run on every pod.  The unit of time is *)
(* a day.  An intent is what module Payment shows its callers: one row per *)
(* idempotency key, settled once, and its terminal event may be lost.  The *)
(* saved methods are left out of externalRefs; the requests that replace   *)
(* them are there for the rest of it, which they write back.               *)
(***************************************************************************)
EXTENDS Naturals

CONSTANTS
    Methods,       \* payment methods of the tenant
    Workers,       \* requests, event handlers and crons of the pods that run at once
    Intents,       \* identifiers of payment_intents rows
    Cycle,         \* days of a billing cycle
    LeadDays,      \* renewal.leadDays
    DunningAfter,  \* days past due after which each reminder is sent
    SuspendAfter,  \* dunning.suspendAfterDays
    MaxDay,        \* bound on the clock
    MaxOps,        \* bound: the tenant's calls on its switches and its methods
    None

Reminders == {"day1", "day3", "day7"}

ASSUME SubscriptionAssumption ==
    /\ Cycle \in Nat \ {0} /\ LeadDays \in Nat /\ SuspendAfter \in Nat
    /\ DunningAfter \in [Reminders -> Nat]
    /\ MaxDay \in Nat /\ MaxOps \in Nat
    /\ None \notin Methods \cup Intents \cup Reminders \cup Nat

VARIABLES
    today,
    sub,        \* the platform_subscriptions row
    intents,    \* payment_intents of entityType SUBSCRIPTION, and the fate of their event
    sent,       \* reminders that were e-mailed
    pc, job,    \* workers: step, and what they carry from await to await
    ops

vars == <<today, sub, intents, sent, pc, job, ops>>

Refs == [last : Methods \cup {None},      \* lastMethod
         renewal : SUBSET Nat,            \* renewalSent, by period end
         dunning : SUBSET Reminders]      \* dunningSent

Subs == [status : {"TRIAL", "ACTIVE", "PAST_DUE", "SUSPENDED"}, start : Nat, end : Nat,
         cancelled : BOOLEAN, autoRenew : BOOLEAN, since : Nat \cup {None}, refs : Refs]

\* The idempotency key: sub-<id>-<periodStart>-<method>, sub-<id>-renewal-<periodEnd>,
\* or sub-setup-<id>-<method>-<Date.now()>, which no other call has.
Keys == [kind : {"checkout", "renewal", "setup"}, day : Nat, method : Methods]

Rows == [key : Keys, status : {"PROCESSING", "SUCCEEDED", "FAILED"},
         event : {"none", "emitted", "ignored"}]

Steps == {"idle", "activate", "setup", "fail", "renew", "renewed",
          "remind", "reminded", "suspend", "bill", "list"}

\* What a worker carries: the columns it read, and an intent, a method or a reminder.
Jobs == [x : Intents \cup Methods \cup Reminders \cup {None}, day : Nat, refs : Refs]

NoRefs == [last |-> None, renewal |-> {}, dunning |-> {}]

\* createSubscription at sign-up, for one cycle: a trial; or later, the checkout by method m
\* has been paid and autoRenew switched on.
Init ==
    /\ today = 0
    /\ \E m \in Methods \cup {None} :
          sub = [status |-> IF m = None THEN "TRIAL" ELSE "ACTIVE", start |-> 0, end |-> Cycle,
                 cancelled |-> FALSE, autoRenew |-> m # None, since |-> None,
                 refs |-> [NoRefs EXCEPT !.last = m]]
    /\ intents = [i \in Intents |-> None]
    /\ sent = {}
    /\ pc = [w \in Workers |-> "idle"]
    /\ job = [w \in Workers |-> None]
    /\ ops = 0

-----------------------------------------------------------------------------
(* Workers and intents *)

\* w has read the row and goes on.
Take(w, step, x, day, refs) ==
    /\ pc[w] = "idle"
    /\ pc' = [pc EXCEPT ![w] = step]
    /\ job' = [job EXCEPT ![w] = [x |-> x, day |-> day, refs |-> refs]]

Goto(w, step) == pc' = [pc EXCEPT ![w] = step] /\ UNCHANGED job

Finish(w) == /\ pc' = [pc EXCEPT ![w] = "idle"]
             /\ job' = [job EXCEPT ![w] = None]

NewIntent(k) ==
    LET free == {i \in Intents : intents[i] = None}
    IN  /\ free # {}
        /\ intents' = [intents EXCEPT ![CHOOSE i \in free : TRUE] =
                          [key |-> k, status |-> "PROCESSING", event |-> "none"]]

\* The provider settles the payment; the terminal event is emitted, or lost (the pod dies, or
\* a handler throws: its error is logged and nothing is retried).
Settle(i) ==
    /\ intents[i] # None /\ intents[i].status = "PROCESSING"
    /\ \E s \in {"SUCCEEDED", "FAILED"}, e \in {"none", "emitted"} :
          intents' = [intents EXCEPT ![i].status = s, ![i].event = e]
    /\ UNCHANGED <<today, sub, sent, pc, job, ops>>

Tick ==
    /\ today < MaxDay
    /\ today' = today + 1
    /\ UNCHANGED <<sub, intents, sent, pc, job, ops>>

-----------------------------------------------------------------------------
(* SubscriptionCheckoutService *)

\* startCheckout: refused for an ACTIVE subscription.  createIntent returns the row that
\* already has the key as it is; it may also throw, which creates nothing.
Checkout(m) ==
    LET k == [kind |-> "checkout", day |-> sub.start, method |-> m] IN
    /\ sub.status # "ACTIVE"
    /\ \A i \in Intents : intents[i] # None => intents[i].key # k
    /\ NewIntent(k)
    /\ UNCHANGED <<today, sub, sent, pc, job, ops>>

Op == ops < MaxOps /\ ops' = ops + 1

\* startSetupIntent: a micro-charge that only registers the method.
SetupIntent(m) ==
    /\ Op
    /\ NewIntent([kind |-> "setup", day |-> 0, method |-> m])
    /\ UNCHANGED <<today, sub, sent, pc, job>>

UpdateAutoRenew ==
    /\ Op
    /\ sub' = [sub EXCEPT !.autoRenew = ~@]
    /\ UNCHANGED <<today, intents, sent, pc, job>>

Cancel ==
    /\ Op
    /\ ~sub.cancelled
    /\ sub' = [sub EXCEPT !.cancelled = TRUE, !.autoRenew = FALSE]
    /\ UNCHANGED <<today, intents, sent, pc, job>>

Resume ==
    /\ sub.cancelled
    /\ sub' = [sub EXCEPT !.cancelled = FALSE]
    /\ UNCHANGED <<today, intents, sent, pc, job, ops>>

-----------------------------------------------------------------------------
(* SubscriptionReconciliationService *)

SetEvent(i, e) == intents' = [intents EXCEPT ![i].event = e]

Emitted(i, s) == /\ intents[i] # None
                 /\ intents[i].event = "emitted" /\ intents[i].status = s

\* onPaymentSucceeded: a subscription that is active and within its period is left alone.
Succeeded(w, i) ==
    /\ Emitted(i, "SUCCEEDED")
    /\ \/ /\ intents[i].key.kind = "setup"
          /\ SetEvent(i, "none")
          /\ Take(w, "setup", i, 0, sub.refs)
       \/ /\ intents[i].key.kind # "setup"
          /\ sub.status = "ACTIVE" /\ sub.end > today
          /\ SetEvent(i, "ignored")
          /\ UNCHANGED <<pc, job>>
       \/ /\ intents[i].key.kind # "setup"
          /\ ~(sub.status = "ACTIVE" /\ sub.end > today)
          /\ SetEvent(i, "none")
          /\ Take(w, "activate", i, IF sub.end > today THEN sub.end ELSE today, sub.refs)
    /\ UNCHANGED <<today, sub, sent, ops>>

\* The update, with the start computed from what was read: the end of that period, or
\* now.  (Then tenant.activatedAt.)
Activate(w) ==
    /\ pc[w] = "activate"
    /\ sub' = [sub EXCEPT !.status = "ACTIVE", !.start = job[w].day, !.end = job[w].day + Cycle,
                          !.cancelled = FALSE, !.since = None,
                          !.refs = [job[w].refs EXCEPT !.last = intents[job[w].x].key.method,
                                                       !.dunning = {}]]
    /\ Finish(w)
    /\ UNCHANGED <<today, intents, sent, ops>>

\* handleSetupIntentSuccess: externalRefs is written back with the method, if the provider
\* sent a token.  The refund of the charge that follows is module Payment's.
SetupSucceeded(w) ==
    /\ pc[w] = "setup"
    /\ sub' \in {sub, [sub EXCEPT !.refs = job[w].refs]}
    /\ Finish(w)
    /\ UNCHANGED <<today, intents, sent, ops>>

-----------------------------------------------------------------------------
(* SubscriptionDunningService *)

\* onPaymentFailed.
Failed(w, i) ==
    /\ Emitted(i, "FAILED")
    /\ \/ /\ sub.status = "SUSPENDED" \/ (sub.status = "PAST_DUE" /\ sub.since # None)
          /\ SetEvent(i, "ignored")
          /\ UNCHANGED <<pc, job>>
       \/ /\ sub.status # "SUSPENDED" /\ ~(sub.status = "PAST_DUE" /\ sub.since # None)
          /\ SetEvent(i, "none")
          /\ Take(w, "fail", i, 0, sub.refs)
    /\ UNCHANGED <<today, sub, sent, ops>>

\* Slip: pastDueSince is not stamped.
PastDueUntimed(w) ==
    /\ pc[w] = "fail"
    /\ sub' = [sub EXCEPT !.status = "PAST_DUE", !.refs = [job[w].refs EXCEPT !.dunning = {}]]
    /\ Finish(w)
    /\ UNCHANGED <<today, intents, sent, ops>>

PastDue(w) ==
    /\ pc[w] = "fail"
    /\ sub' = [sub EXCEPT !.status = "PAST_DUE", !.since = today,
                          !.refs = [job[w].refs EXCEPT !.dunning = {}]]
    /\ Finish(w)
    /\ UNCHANGED <<today, intents, sent, ops>>

\* The most advanced reminder that is due and not marked as sent.
NextReminder ==
    LET due(r) == today - sub.since >= DunningAfter[r] /\ r \notin sub.refs.dunning
    IN  CASE due("day7") -> "day7" [] due("day3") -> "day3" [] due("day1") -> "day1"
          [] OTHER -> None

\* runDailyDunning, the read and what it decides for this subscription.
Dunning(w) ==
    /\ sub.status = "PAST_DUE" /\ sub.since # None
    /\ \/ NextReminder # None /\ Take(w, "remind", NextReminder, 0, sub.refs)
       \/ /\ NextReminder = None
          /\ today - sub.since >= SuspendAfter /\ "day7" \in sub.refs.dunning
          /\ Take(w, "suspend", None, 0, NoRefs)
    /\ UNCHANGED <<today, sub, intents, sent, ops>>

\* Slip: the reminder is marked although the e-mail failed.
RemindFailsMarked(w) ==
    /\ pc[w] = "remind"
    /\ Goto(w, "reminded")
    /\ UNCHANGED <<today, sub, intents, sent, ops>>

\* The e-mail fails, and the reminder is left for the next run.
RemindFails(w) ==
    /\ pc[w] = "remind"
    /\ Finish(w)
    /\ UNCHANGED <<today, sub, intents, sent, ops>>

Remind(w) ==
    /\ pc[w] = "remind"
    /\ sent' = sent \cup {job[w].x}
    /\ Goto(w, "reminded")
    /\ UNCHANGED <<today, sub, intents, ops>>

MarkReminder(w) ==
    /\ pc[w] = "reminded"
    /\ sub' = [sub EXCEPT !.refs = [job[w].refs EXCEPT !.dunning = @ \cup {job[w].x}]]
    /\ Finish(w)
    /\ UNCHANGED <<today, intents, sent, ops>>

\* Slip: the tenant that does not pay is cancelled.
SuspendCancels(w) ==
    /\ pc[w] = "suspend"
    /\ sub' = [sub EXCEPT !.status = "CANCELLED"]
    /\ Finish(w)
    /\ UNCHANGED <<today, intents, sent, ops>>

Suspend(w) ==
    /\ pc[w] = "suspend"
    /\ sub' = [sub EXCEPT !.status = "SUSPENDED"]
    /\ Finish(w)
    /\ UNCHANGED <<today, intents, sent, ops>>

-----------------------------------------------------------------------------
(* SubscriptionRenewalService and the billing cron *)

\* runRenewalReminders: the subscriptions whose period ends in LeadDays days.
Renewal(w) ==
    /\ sub.status = "ACTIVE" /\ ~sub.cancelled
    /\ sub.end = today + LeadDays
    /\ sub.end \notin sub.refs.renewal
    /\ Take(w, "renew", IF sub.autoRenew THEN sub.refs.last ELSE None, sub.end, sub.refs)
    /\ UNCHANGED <<today, sub, intents, sent, ops>>

\* Slip: the key of the attempt is made of the time of the call.
RenewalKeyFresh(end) == FALSE

\* The idempotency key of the period is in use.
RenewalKey(end) == \E i \in Intents : intents[i] # None /\ intents[i].key.kind = "renewal"
                                                     /\ intents[i].key.day = end

\* tryCreateRenewalIntent, whose error is swallowed.
RenewalIntent(w) ==
    /\ pc[w] = "renew"
    /\ \/ /\ job[w].x # None /\ ~RenewalKey(job[w].day)
          /\ NewIntent([kind |-> "renewal", day |-> job[w].day, method |-> job[w].x])
       \/ UNCHANGED intents
    /\ Goto(w, "renewed")
    /\ UNCHANGED <<today, sub, sent, ops>>

\* The e-mail, and if it went out the mark.
MarkRenewal(w) ==
    /\ pc[w] = "renewed"
    /\ sub' \in {sub, [sub EXCEPT !.refs = [job[w].refs EXCEPT !.renewal = @ \cup {job[w].day}]]}
    /\ Finish(w)
    /\ UNCHANGED <<today, intents, sent, ops>>

\* runRenewalBatch: a subscription at the end of its period.
Billing(w) ==
    /\ sub.status \in {"ACTIVE", "TRIAL"}
    /\ sub.end <= today
    /\ Take(w, "bill", None, sub.end, NoRefs)
    /\ UNCHANGED <<today, sub, intents, sent, ops>>

\* The period begins where the one read ended; the DRAFT invoice of the same transaction is
\* not kept.
Bill(w) ==
    /\ pc[w] = "bill"
    /\ sub' = [sub EXCEPT !.status = "ACTIVE", !.start = job[w].day, !.end = job[w].day + Cycle]
    /\ Finish(w)
    /\ UNCHANGED <<today, intents, sent, ops>>

-----------------------------------------------------------------------------
(* SubscriptionPaymentMethodsService *)

\* remove and setDefault: writeList reads the row again ...
ReadList(w) ==
    /\ Op
    /\ Take(w, "list", None, 0, sub.refs)
    /\ UNCHANGED <<today, sub, intents, sent>>

\* ... and writes its externalRefs back with the new list.
WriteList(w) ==
    /\ pc[w] = "list"
    /\ sub' = [sub EXCEPT !.refs = job[w].refs]
    /\ Finish(w)
    /\ UNCHANGED <<today, intents, sent, ops>>

-----------------------------------------------------------------------------

\* A step of a handler or a cron that has begun.
Continue(w) ==
    \/ Activate(w) \/ SetupSucceeded(w)
    \/ PastDue(w) \/ Remind(w) \/ RemindFails(w) \/ MarkReminder(w) \/ Suspend(w)
    \/ RenewalIntent(w) \/ MarkRenewal(w) \/ Bill(w) \/ WriteList(w)

Next ==
    \/ Tick
    \/ \E m \in Methods : Checkout(m) \/ SetupIntent(m)
    \/ UpdateAutoRenew \/ Cancel \/ Resume
    \/ \E i \in Intents : Settle(i)
    \/ \E w \in Workers :
          \/ Continue(w)
          \/ ReadList(w)
          \/ \E i \in Intents : Succeeded(w, i) \/ Failed(w, i)
          \/ Dunning(w) \/ Renewal(w) \/ Billing(w)

Spec == Init /\ [][Next]_vars

\* Days pass, what has begun goes on, the dunning cron runs daily, and an e-mail that is tried
\* day after day goes out.
FairSpec ==
    /\ Spec
    /\ WF_vars(Tick)
    /\ \A w \in Workers : WF_vars(Continue(w))
    /\ SF_vars(\E w \in Workers : Dunning(w))
    /\ SF_vars(\E w \in Workers : Remind(w))

-----------------------------------------------------------------------------
(* Properties *)

(* The columns and what the workers carry keep their types; dunning and billing never write
   a status they do not own. *)
TypeOK ==
    /\ today \in 0..MaxDay
    /\ sub \in Subs
    /\ intents \in [Intents -> Rows \cup {None}]
    /\ sent \subseteq Reminders
    /\ pc \in [Workers -> Steps]
    /\ job \in [Workers -> Jobs \cup {None}]
    /\ ops \in 0..MaxOps

(* A period is renewed by at most one automatic payment, although every pod runs the
   cron and the mark renewalSent may be lost to a stale write of externalRefs. *)
OneRenewalPerPeriod ==
    \A i, j \in Intents :
        /\ intents[i] # None /\ intents[j] # None
        /\ intents[i].key.kind = "renewal" /\ intents[j].key.kind = "renewal"
        /\ intents[i].key.day = intents[j].key.day
        => i = j

(* No subscription is suspended before all three reminders have been sent, whatever
   stale marks the crons of two pods write over each other. *)
SuspendedWarned == sub.status = "SUSPENDED" => sent = Reminders

\* Past due since a day that leaves the dunning its days before the clock stops.
Overdue == sub.status = "PAST_DUE" /\ (sub.since = None \/ sub.since + SuspendAfter <= MaxDay)

(* A subscription does not stay past due: it is paid, or the reminders run out and it is
   suspended, although reminders fail and marks get lost. *)
OverdueEnds == Overdue ~> ~Overdue

(* The comment of onPaymentSucceeded: a renewal that is paid prolongs the period it
   was for. *)
PaidRenewalProlongs ==
    \A i \in Intents :
        intents[i] # None /\ intents[i].key.kind = "renewal" /\ intents[i].event = "ignored"
            /\ intents[i].status = "SUCCEEDED"
        => sub.end > intents[i].key.day

-----------------------------------------------------------------------------
(* What makes TypeOK, OneRenewalPerPeriod and SuspendedWarned inductive. *)

\* The reminders a suspension waits for: the last one, and those due by then.
Warnings == {"day7"} \cup {r \in Reminders : DunningAfter[r] <= SuspendAfter}

\* What a worker carries into its next step: marks that are true, also the ones it will
\* write back when they are stale, and what the step reads from the job.
Carries(w) ==
    LET j == job[w] IN
    pc[w] # "idle" =>
        /\ j \in Jobs
        /\ j.refs.dunning \subseteq sent
        /\ pc[w] = "activate" => j.x \in Intents /\ intents[j.x] \in Rows
        /\ pc[w] \in {"remind", "reminded"} => j.x \in Reminders
        /\ pc[w] = "reminded" => j.x \in sent
        /\ pc[w] = "renew" => j.x \in Methods \cup {None}
        /\ pc[w] = "suspend" => Warnings \subseteq sent

\* Only reminders that were sent are marked, and none is missing at a suspension.
Warned == /\ sub.refs.dunning \subseteq sent
          /\ sub.status = "SUSPENDED" => Warnings \subseteq sent

IInv ==
    /\ TypeOK
    /\ OneRenewalPerPeriod
    /\ Warned
    /\ \A w \in Workers : Carries(w)
=============================================================================
