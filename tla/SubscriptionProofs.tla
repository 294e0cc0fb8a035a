------------------------- MODULE SubscriptionProofs -------------------------
(***************************************************************************)
(* Proofs that hold for every number of workers, intents and methods, and  *)
(* for every setting of the cycle, the reminders and the suspension: type  *)
(* correctness, the inductive invariant IInv of Subscription and what it   *)
(* says of renewals and of suspensions.                                    *)
(***************************************************************************)
EXTENDS Subscription, TLAPS

\* The fields of the subscription, of a row and of a job.
LEMMA Fields ==
    /\ \A s \in Subs : /\ s.start \in Nat /\ s.end \in Nat /\ s.refs \in Refs
                       /\ s.since \in Nat \cup {None} /\ s.cancelled \in BOOLEAN
                       /\ s.autoRenew \in BOOLEAN
                       /\ s.status \in {"TRIAL", "ACTIVE", "PAST_DUE", "SUSPENDED"}
    /\ \A r \in Refs : /\ r.last \in Methods \cup {None}
                       /\ r.renewal \subseteq Nat /\ r.dunning \subseteq Reminders
    /\ \A r \in Rows : /\ r.key \in Keys /\ r.key.method \in Methods /\ r.key.day \in Nat
                       /\ r.status \in {"PROCESSING", "SUCCEEDED", "FAILED"}
                       /\ r.event \in {"none", "emitted", "ignored"}
    /\ \A j \in Jobs : /\ j.x \in Intents \cup Methods \cup Reminders \cup {None}
                       /\ j.day \in Nat /\ j.refs \in Refs
    /\ NoRefs \in Refs /\ NoRefs.dunning = {}
  BY DEF Subs, Refs, Rows, Keys, Jobs, NoRefs

\* What the steps write: the marks, the row of a settled or handled intent, a job.
LEMMA Written ==
    /\ \A r \in Refs, m \in Methods \cup {None} :
          LET n == [r EXCEPT !.last = m] IN n \in Refs /\ n.dunning = r.dunning
    /\ \A r \in Refs, m \in Methods \cup {None} :
          LET n == [r EXCEPT !.last = m, !.dunning = {}] IN n \in Refs /\ n.dunning = {}
    /\ \A r \in Refs : LET n == [r EXCEPT !.dunning = {}] IN n \in Refs /\ n.dunning = {}
    /\ \A r \in Refs, x \in Reminders :
          LET n == [r EXCEPT !.dunning = @ \cup {x}]
          IN  n \in Refs /\ n.dunning = r.dunning \cup {x}
    /\ \A r \in Refs, d \in Nat :
          LET n == [r EXCEPT !.renewal = @ \cup {d}]
          IN  n \in Refs /\ n.dunning = r.dunning
  BY DEF Refs

-----------------------------------------------------------------------------
(* Intents *)

\* What a step leaves of the intents: rows stay rows, one renewal for each period.
RowsKept == /\ intents' \in [Intents -> Rows \cup {None}]
            /\ \A i \in Intents : intents[i] \in Rows => intents'[i] \in Rows
            /\ OneRenewalPerPeriod'

\* createIntent adds a row, whose key no renewal has.
LEMMA NewRow ==
    ASSUME IInv, NEW k \in Keys, NewIntent(k), k.kind = "renewal" => ~RenewalKey(k.day)
    PROVE  RowsKept
<1> DEFINE row == [key |-> k, status |-> "PROCESSING", event |-> "none"]
<1>1. PICK n \in Intents : intents[n] = None /\ intents' = [intents EXCEPT ![n] = row]
  BY DEF NewIntent
<1>2. row \in Rows /\ row.key = k /\ intents \in [Intents -> Rows \cup {None}]
  BY DEF Rows, IInv, TypeOK
<1>3. intents'[n] = row /\ \A i \in Intents \ {n} : intents'[i] = intents[i]
  BY <1>1, <1>2
<1>4. intents' \in [Intents -> Rows \cup {None}]
  BY <1>1, <1>2
<1>5. OneRenewalPerPeriod'
  BY <1>2, <1>3 DEF OneRenewalPerPeriod, RenewalKey, IInv
<1> QED BY <1>2, <1>3, <1>4, <1>5 DEF RowsKept

\* An intent that is settled, or whose event is handled, keeps its key.
LEMMA SameKey ==
    ASSUME IInv, NEW i \in Intents, intents[i] # None, NEW row \in Rows, row.key = intents[i].key,
           intents' = [intents EXCEPT ![i] = row]
    PROVE  RowsKept
<1>1. intents \in [Intents -> Rows \cup {None}]
  BY DEF IInv, TypeOK
<1>2. intents'[i] = row /\ \A n \in Intents \ {i} : intents'[n] = intents[n]
  BY <1>1
<1>3. intents' \in [Intents -> Rows \cup {None}]
  BY <1>1
<1>4. OneRenewalPerPeriod'
  BY <1>2 DEF OneRenewalPerPeriod, IInv
<1> QED BY <1>2, <1>3, <1>4 DEF RowsKept

\* The handling of an event.
LEMMA Handled ==
    ASSUME IInv, NEW i \in Intents, intents[i] # None, NEW e \in {"none", "ignored"}, SetEvent(i, e)
    PROVE  RowsKept
<1>1. intents[i] \in Rows
  BY DEF IInv, TypeOK
<1>2. PICK row : row = [intents[i] EXCEPT !.event = e]
  OBVIOUS
<1>3. row \in Rows /\ row.key = intents[i].key
  BY <1>1, <1>2 DEF Rows
<1>4. intents' = [intents EXCEPT ![i] = row]
  BY <1>2 DEF SetEvent
<1> QED BY <1>3, <1>4, SameKey

-----------------------------------------------------------------------------
(* Workers *)

\* A step keeps the invariant when its tables do and its worker carries what it should.
LEMMA Kept ==
    ASSUME IInv, TypeOK', RowsKept, Warned', sent \subseteq sent',
           \A u \in Workers : (pc'[u] = pc[u] /\ job'[u] = job[u]) \/ Carries(u)'
    PROVE  IInv'
<1>1. ASSUME NEW u \in Workers, pc'[u] = pc[u], job'[u] = job[u] PROVE Carries(u)'
  <2>1. Carries(u)
    BY DEF IInv
  <2> QED BY <1>1, <2>1 DEF Carries, RowsKept
<1> QED BY <1>1 DEF IInv, RowsKept

\* A worker that begins.
LEMMA Begins ==
    ASSUME IInv, NEW w \in Workers, NEW step \in Steps \ {"idle"}, NEW x, NEW day \in Nat, NEW refs \in Refs,
           Take(w, step, x, day, refs), x \in Intents \cup Methods \cup Reminders \cup {None}
    PROVE  /\ pc' \in [Workers -> Steps] /\ job' \in [Workers -> Jobs \cup {None}]
           /\ pc'[w] = step /\ job'[w] \in Jobs
           /\ job'[w].x = x /\ job'[w].day = day /\ job'[w].refs = refs
           /\ \A u \in Workers \ {w} : pc'[u] = pc[u] /\ job'[u] = job[u]
<1>1. PICK j : j = [x |-> x, day |-> day, refs |-> refs]
  OBVIOUS
<1>2. j \in Jobs /\ j.x = x /\ j.day = day /\ j.refs = refs
  BY <1>1 DEF Jobs
<1>3. pc \in [Workers -> Steps] /\ job \in [Workers -> Jobs \cup {None}]
  BY DEF IInv, TypeOK
<1>4. pc' = [pc EXCEPT ![w] = step] /\ job' = [job EXCEPT ![w] = j]
  BY <1>1 DEF Take
<1> QED BY <1>2, <1>3, <1>4

\* A worker that has done its last step.
LEMMA Ends ==
    ASSUME IInv, NEW w \in Workers, Finish(w)
    PROVE  /\ pc' \in [Workers -> Steps] /\ job' \in [Workers -> Jobs \cup {None}]
           /\ \A u \in Workers : (pc'[u] = pc[u] /\ job'[u] = job[u]) \/ Carries(u)'
<1>1. pc' \in [Workers -> Steps] /\ job' \in [Workers -> Jobs \cup {None}]
  BY DEF Finish, IInv, TypeOK, Steps
<1>2. pc'[w] = "idle" /\ \A u \in Workers \ {w} : pc'[u] = pc[u] /\ job'[u] = job[u]
  BY DEF Finish, IInv, TypeOK
<1>3. Carries(w)'
  BY <1>2 DEF Carries
<1> QED BY <1>1, <1>2, <1>3

\* A worker that goes on with what it carries.
LEMMA GoesOn ==
    ASSUME IInv, NEW w \in Workers, NEW step \in Steps, Goto(w, step)
    PROVE  /\ pc' \in [Workers -> Steps] /\ job' \in [Workers -> Jobs \cup {None}]
           /\ pc'[w] = step /\ job'[w] = job[w]
           /\ \A u \in Workers \ {w} : pc'[u] = pc[u] /\ job'[u] = job[u]
  BY DEF Goto, IInv, TypeOK

\* Nothing is said of intents that do not change.
LEMMA SameIntents ==
    ASSUME IInv, intents' = intents
    PROVE  RowsKept
  BY DEF IInv, TypeOK, OneRenewalPerPeriod, RowsKept

-----------------------------------------------------------------------------
(* Steps that are no worker's *)

\* The tenant, its payments and the days.
LEMMA TenantSteps ==
    ASSUME IInv, \/ Tick \/ UpdateAutoRenew \/ Cancel \/ Resume
                 \/ \E m \in Methods : Checkout(m) \/ SetupIntent(m)
                 \/ \E i \in Intents : Settle(i)
    PROVE  IInv'
<1>0. TypeOK /\ OneRenewalPerPeriod /\ Warned /\ sub \in Subs /\ ops \in 0..MaxOps /\ MaxOps \in Nat /\ MaxDay \in Nat
  BY SubscriptionAssumption DEF IInv, TypeOK
<1>1. UNCHANGED <<sent, pc, job>>
  BY DEF Tick, UpdateAutoRenew, Cancel, Resume, Checkout, SetupIntent, Settle
<1>2. RowsKept
  <2>1. CASE Tick \/ UpdateAutoRenew \/ Cancel \/ Resume
    <3>1. intents' = intents
      BY <2>1 DEF Tick, UpdateAutoRenew, Cancel, Resume
    <3> QED BY <3>1, SameIntents
  <2>2. ASSUME NEW m \in Methods, Checkout(m) \/ SetupIntent(m)
        PROVE  RowsKept
    <3>1. PICK k \in Keys : NewIntent(k) /\ k.kind # "renewal"
      <4>1. /\ [kind |-> "checkout", day |-> sub.start, method |-> m] \in Keys
            /\ [kind |-> "setup", day |-> 0, method |-> m] \in Keys
        BY <1>0, Fields DEF Keys
      <4> QED BY <2>2, <4>1 DEF Checkout, SetupIntent
    <3> QED BY <3>1, NewRow
  <2>3. ASSUME NEW i \in Intents, Settle(i) PROVE RowsKept
    <3>1. PICK s \in {"SUCCEEDED", "FAILED"}, e \in {"none", "emitted"} :
             intents' = [intents EXCEPT ![i].status = s, ![i].event = e]
      BY <2>3 DEF Settle
    <3>2. PICK row : row = [intents[i] EXCEPT !.status = s, !.event = e]
      OBVIOUS
    <3>3. intents \in [Intents -> Rows \cup {None}] /\ intents[i] # None /\ intents[i] \in Rows
      BY <1>0, <2>3 DEF TypeOK, Settle
    <3>4. row \in Rows /\ row.key = intents[i].key
      BY <3>2, <3>3 DEF Rows
    <3>5. intents' = [intents EXCEPT ![i] = row]
      BY <3>1, <3>2, <3>3
    <3> QED BY <3>3, <3>4, <3>5, SameKey
  <2> QED BY <2>1, <2>2, <2>3
<1>3. sub' \in Subs /\ sub'.refs = sub.refs /\ sub'.status = sub.status
  <2>1. CASE sub' = sub
    BY <1>0, <2>1
  <2>2. CASE UpdateAutoRenew \/ Cancel \/ Resume
    BY <1>0, <2>2 DEF UpdateAutoRenew, Cancel, Resume, Subs
  <2> QED BY <2>1, <2>2 DEF Tick, Checkout, SetupIntent, Settle
<1>4. ops' \in 0..MaxOps /\ today' \in 0..MaxDay
  <2>1. today' = today \/ (today < MaxDay /\ today' = today + 1)
    BY DEF Tick, UpdateAutoRenew, Cancel, Resume, Checkout, SetupIntent, Settle
  <2>2. ops' = ops \/ (ops < MaxOps /\ ops' = ops + 1)
    BY DEF Tick, UpdateAutoRenew, Cancel, Resume, Checkout, SetupIntent, Settle, Op
  <2> QED BY <1>0, <2>1, <2>2 DEF TypeOK
<1>5. TypeOK'
  BY <1>0, <1>1, <1>2, <1>3, <1>4 DEF TypeOK, RowsKept
<1>6. Warned'
  BY <1>0, <1>1, <1>3 DEF Warned
<1> QED BY <1>1, <1>2, <1>5, <1>6, Kept DEF RowsKept

-----------------------------------------------------------------------------
(* Steps of the workers *)

\* A worker that begins changes no column, and carries what is true.
LEMMA BeginKept ==
    ASSUME IInv, NEW w \in Workers, NEW step \in Steps \ {"idle"}, NEW x, NEW day \in Nat, NEW refs \in Refs,
           Take(w, step, x, day, refs), x \in Intents \cup Methods \cup Reminders \cup {None},
           UNCHANGED <<today, sub, sent>>, ops' \in 0..MaxOps, RowsKept, refs.dunning \subseteq sent,
           step # "reminded",
           step = "activate" => x \in Intents /\ intents[x] \in Rows,
           step = "remind" => x \in Reminders, step = "renew" => x \in Methods \cup {None},
           step = "suspend" => Warnings \subseteq sent
    PROVE  IInv'
<1>1. /\ pc' \in [Workers -> Steps] /\ job' \in [Workers -> Jobs \cup {None}]
      /\ pc'[w] = step /\ job'[w] \in Jobs
      /\ job'[w].x = x /\ job'[w].day = day /\ job'[w].refs = refs
      /\ \A u \in Workers \ {w} : pc'[u] = pc[u] /\ job'[u] = job[u]
  BY Begins
<1>2. TypeOK' /\ Warned'
  BY <1>1 DEF IInv, TypeOK, Warned, RowsKept
<1>3. Carries(w)'
  BY <1>1 DEF Carries, RowsKept
<1> QED BY <1>1, <1>2, <1>3, Kept

\* The two handlers of a terminal event.
LEMMA HandlerSteps ==
    ASSUME IInv, NEW w \in Workers, NEW i \in Intents, Succeeded(w, i) \/ Failed(w, i)
    PROVE  IInv'
<1>0. /\ UNCHANGED <<today, sub, sent, ops>>
      /\ intents[i] # None /\ intents[i] \in Rows
      /\ sub \in Subs /\ sub.refs.dunning \subseteq sent /\ ops \in 0..MaxOps /\ today \in Nat
  BY SubscriptionAssumption DEF IInv, TypeOK, Warned, Succeeded, Failed, Emitted
<1>1. sub.refs \in Refs /\ sub.end \in Nat
  BY <1>0, Fields
<1>2. PICK e \in {"none", "ignored"} : SetEvent(i, e)
  BY DEF Succeeded, Failed
<1>3. RowsKept
  BY <1>0, <1>2, Handled
<1>4. CASE UNCHANGED <<pc, job>>
  BY <1>0, <1>3, <1>4, Kept DEF IInv, TypeOK, Warned, RowsKept
<1>5. ASSUME NEW step \in {"setup", "activate", "fail"}, NEW day \in Nat, Take(w, step, i, day, sub.refs)
      PROVE  IInv'
  <2>1. step \in Steps \ {"idle"} /\ step \notin {"reminded", "remind", "renew", "suspend"}
    BY DEF Steps
  <2> QED BY <1>0, <1>1, <1>3, <1>5, <2>1, BeginKept
<1> QED BY <1>0, <1>1, <1>4, <1>5 DEF Succeeded, Failed

\* The crons and the rewriting of the methods begin.
LEMMA CronSteps ==
    ASSUME IInv, NEW w \in Workers, Dunning(w) \/ Renewal(w) \/ Billing(w) \/ ReadList(w)
    PROVE  IInv'
<1>0. /\ UNCHANGED <<today, sub, sent>> /\ intents' = intents /\ ops' \in 0..MaxOps
      /\ sub \in Subs /\ sub.refs.dunning \subseteq sent /\ today \in Nat /\ DunningAfter \in [Reminders -> Nat]
  BY SubscriptionAssumption DEF IInv, TypeOK, Warned, Dunning, Renewal, Billing, ReadList, Op
<1>1. /\ sub.refs \in Refs /\ sub.end \in Nat /\ sub.since \in Nat \cup {None} /\ sub.refs.last \in Methods \cup {None}
      /\ NoRefs \in Refs /\ NoRefs.dunning = {} /\ RowsKept
  BY <1>0, Fields, SameIntents
<1>2. {"remind", "suspend", "renew", "bill", "list"} \subseteq Steps \ {"idle"}
  BY DEF Steps
<1>3. CASE Dunning(w) /\ NextReminder # None
  <2>1. NextReminder \in Reminders
    BY <1>3 DEF NextReminder, Reminders
  <2>2. Take(w, "remind", NextReminder, 0, sub.refs)
    BY <1>3 DEF Dunning
  <2> QED BY <1>0, <1>1, <1>2, <2>1, <2>2, BeginKept
<1>4. CASE Dunning(w) /\ NextReminder = None
  <2>1. /\ sub.since \in Nat /\ today - sub.since >= SuspendAfter /\ "day7" \in sub.refs.dunning
        /\ Take(w, "suspend", None, 0, NoRefs)
    BY <1>1, <1>4 DEF Dunning
  <2>2. \A r \in Reminders : ~(today - sub.since >= DunningAfter[r] /\ r \notin sub.refs.dunning)
    BY <1>4, SubscriptionAssumption DEF NextReminder, Reminders
  <2>3. \A r \in Reminders : DunningAfter[r] <= SuspendAfter => r \in sub.refs.dunning
    BY <1>0, <2>1, <2>2, SubscriptionAssumption
  <2>4. Warnings \subseteq sent
    BY <1>0, <2>1, <2>3 DEF Warnings
  <2> QED BY <1>0, <1>1, <1>2, <2>1, <2>4, BeginKept
<1>5. CASE Renewal(w)
  <2>1. PICK x \in Methods \cup {None} : Take(w, "renew", x, sub.end, sub.refs)
    BY <1>1, <1>5 DEF Renewal
  <2> QED BY <1>0, <1>1, <1>2, <2>1, BeginKept
<1>6. CASE Billing(w)
  <2>1. Take(w, "bill", None, sub.end, NoRefs)
    BY <1>6 DEF Billing
  <2> QED BY <1>0, <1>1, <1>2, <2>1, BeginKept
<1>7. CASE ReadList(w)
  <2>1. Take(w, "list", None, 0, sub.refs)
    BY <1>7 DEF ReadList
  <2> QED BY <1>0, <1>1, <1>2, <2>1, BeginKept
<1> QED BY <1>3, <1>4, <1>5, <1>6, <1>7

\* A worker that ends writes columns of the right types, marks that are true, and
\* suspends only when it was told that all warnings are out.
LEMMA EndKept ==
    ASSUME IInv, NEW w \in Workers, Finish(w), UNCHANGED <<today, sent, ops>>, intents' = intents,
           sub' \in Subs, sub'.refs.dunning \subseteq sent,
           sub'.status = "SUSPENDED" => Warnings \subseteq sent
    PROVE  IInv'
<1>1. /\ pc' \in [Workers -> Steps] /\ job' \in [Workers -> Jobs \cup {None}]
      /\ \A u \in Workers : (pc'[u] = pc[u] /\ job'[u] = job[u]) \/ Carries(u)'
  BY Ends
<1>2. RowsKept
  BY SameIntents
<1>3. TypeOK' /\ Warned'
  BY <1>1, <1>2 DEF IInv, TypeOK, Warned, RowsKept
<1> QED BY <1>1, <1>2, <1>3, Kept

\* The last steps of the handlers, the crons and the rewriting of the methods.
LEMMA EndSteps ==
    ASSUME IInv, NEW w \in Workers,
           \/ Activate(w) \/ SetupSucceeded(w) \/ PastDue(w) \/ RemindFails(w) \/ MarkReminder(w)
           \/ Suspend(w) \/ MarkRenewal(w) \/ Bill(w) \/ WriteList(w)
    PROVE  IInv'
<1> DEFINE j == job[w]
<1>0. /\ Finish(w) /\ UNCHANGED <<today, sent, ops>> /\ intents' = intents
      /\ pc[w] # "idle" /\ Carries(w) /\ sub \in Subs /\ Warned /\ today \in Nat /\ Cycle \in Nat
  BY SubscriptionAssumption DEF IInv, TypeOK, Activate, SetupSucceeded, PastDue, RemindFails, MarkReminder,
     Suspend, MarkRenewal, Bill, WriteList
<1>1. j \in Jobs /\ j.refs \in Refs /\ j.day \in Nat /\ j.refs.dunning \subseteq sent
  BY <1>0, Fields DEF Carries
<1>x. PICK day, end : day = j.day /\ end = j.day + Cycle /\ day \in Nat /\ end \in Nat
  <2>1. \A a, b \in Nat : a + b \in Nat
    OBVIOUS
  <2> QED BY <1>0, <1>1, <2>1
<1>2. ASSUME NEW refs \in Refs, refs.dunning \subseteq sent, sub' = [sub EXCEPT !.refs = refs]
      PROVE  IInv'
  <2>1. sub' \in Subs /\ sub'.refs = refs /\ sub'.status = sub.status
    BY <1>0, <1>2 DEF Subs
  <2> QED BY <1>0, <1>2, <2>1, EndKept DEF Warned
<1>3. CASE sub' = sub
  BY <1>0, <1>3, EndKept DEF Warned
<1>4. CASE Activate(w)
  <2>1. j.x \in Intents /\ intents[j.x] \in Rows
    BY <1>0, <1>4 DEF Activate, Carries
  <2>2. PICK m \in Methods : m = intents[j.x].key.method
    BY <2>1, Fields
  <2>3. PICK refs : refs = [j.refs EXCEPT !.last = m, !.dunning = {}]
    OBVIOUS
  <2>4. refs \in Refs /\ refs.dunning = {}
    BY <1>1, <2>3, Written
  <2>5. sub' = [sub EXCEPT !.status = "ACTIVE", !.start = day, !.end = end,
                           !.cancelled = FALSE, !.since = None, !.refs = refs]
    BY <1>4, <1>x, <2>2, <2>3 DEF Activate
  <2>6. sub' \in Subs /\ sub'.refs = refs /\ sub'.status = "ACTIVE"
    BY <1>0, <1>x, <2>4, <2>5 DEF Subs
  <2> QED BY <1>0, <2>4, <2>6, EndKept
<1>5. CASE SetupSucceeded(w) \/ WriteList(w)
  BY <1>1, <1>2, <1>3, <1>5 DEF SetupSucceeded, WriteList
<1>6. CASE PastDue(w)
  <2>1. PICK refs : refs = [j.refs EXCEPT !.dunning = {}]
    OBVIOUS
  <2>2. refs \in Refs /\ refs.dunning = {}
    BY <1>1, <2>1, Written
  <2>3. sub' = [sub EXCEPT !.status = "PAST_DUE", !.since = today, !.refs = refs]
    BY <1>6, <2>1 DEF PastDue
  <2>4. sub' \in Subs /\ sub'.refs = refs /\ sub'.status = "PAST_DUE"
    BY <1>0, <2>2, <2>3 DEF Subs
  <2> QED BY <1>0, <2>2, <2>4, EndKept
<1>7. CASE RemindFails(w)
  BY <1>3, <1>7 DEF RemindFails
<1>8. CASE MarkReminder(w)
  <2>1. j.x \in Reminders /\ j.x \in sent
    BY <1>0, <1>8 DEF MarkReminder, Carries
  <2>2. PICK refs : refs = [j.refs EXCEPT !.dunning = @ \cup {j.x}]
    OBVIOUS
  <2>3. refs \in Refs /\ refs.dunning = j.refs.dunning \cup {j.x}
    BY <1>1, <2>1, <2>2, Written
  <2>4. sub' = [sub EXCEPT !.refs = refs]
    BY <1>8, <2>2 DEF MarkReminder
  <2> QED BY <1>1, <1>2, <2>1, <2>3, <2>4
<1>9. CASE Suspend(w)
  <2>1. Warnings \subseteq sent
    BY <1>0, <1>9 DEF Suspend, Carries
  <2>2. sub' \in Subs /\ sub'.refs = sub.refs
    BY <1>0, <1>9 DEF Suspend, Subs
  <2> QED BY <1>0, <2>1, <2>2, EndKept DEF Warned
<1>10. CASE MarkRenewal(w)
  <2>1. PICK refs : refs = [j.refs EXCEPT !.renewal = @ \cup {j.day}]
    OBVIOUS
  <2>2. refs \in Refs /\ refs.dunning = j.refs.dunning
    BY <1>1, <2>1, Written
  <2>3. sub' \in {sub, [sub EXCEPT !.refs = refs]}
    BY <1>10, <2>1 DEF MarkRenewal
  <2> QED BY <1>1, <1>2, <1>3, <2>2, <2>3
<1>11. CASE Bill(w)
  <2>1. sub' \in Subs /\ sub'.refs = sub.refs /\ sub'.status = "ACTIVE"
    <3>1. sub' = [sub EXCEPT !.status = "ACTIVE", !.start = day, !.end = end]
      BY <1>11, <1>x DEF Bill
    <3> QED BY <1>0, <1>x, <3>1 DEF Subs
  <2> QED BY <1>0, <2>1, EndKept DEF Warned
<1> QED BY <1>4, <1>5, <1>6, <1>7, <1>8, <1>9, <1>10, <1>11

\* The steps after which a worker goes on: the reminder is sent, the renewal is tried.
LEMMA MiddleSteps ==
    ASSUME IInv, NEW w \in Workers, Remind(w) \/ RenewalIntent(w)
    PROVE  IInv'
<1> DEFINE j == job[w]
<1>0. /\ UNCHANGED <<today, sub, ops>> /\ pc[w] # "idle" /\ Carries(w) /\ j \in Jobs /\ TypeOK /\ Warned
  BY DEF IInv, Remind, RenewalIntent, Carries
<1>1. CASE Remind(w)
  <2>1. /\ j.x \in Reminders /\ j.refs.dunning \subseteq sent /\ sent' = sent \cup {j.x}
        /\ Goto(w, "reminded") /\ intents' = intents
    BY <1>0, <1>1 DEF Remind, Carries
  <2>2. /\ pc' \in [Workers -> Steps] /\ job' \in [Workers -> Jobs \cup {None}]
        /\ pc'[w] = "reminded" /\ job'[w] = job[w]
        /\ \A u \in Workers \ {w} : pc'[u] = pc[u] /\ job'[u] = job[u]
    BY <2>1, GoesOn DEF Steps
  <2>3. RowsKept
    BY <2>1, SameIntents
  <2>4. TypeOK' /\ Warned'
    BY <1>0, <2>1, <2>2, <2>3 DEF TypeOK, Warned, RowsKept
  <2>5. Carries(w)'
    BY <1>0, <2>1, <2>2 DEF Carries
  <2> QED BY <2>1, <2>2, <2>3, <2>4, <2>5, Kept
<1>2. CASE RenewalIntent(w)
  <2>1. /\ j.x \in Methods \cup {None} /\ j.refs.dunning \subseteq sent /\ sent' = sent
        /\ j.day \in Nat /\ Goto(w, "renewed")
    BY <1>0, <1>2, Fields DEF RenewalIntent, Carries
  <2>2. /\ pc' \in [Workers -> Steps] /\ job' \in [Workers -> Jobs \cup {None}]
        /\ pc'[w] = "renewed" /\ job'[w] = job[w]
        /\ \A u \in Workers \ {w} : pc'[u] = pc[u] /\ job'[u] = job[u]
    BY <2>1, GoesOn DEF Steps
  <2>3. RowsKept
    <3>1. CASE intents' = intents
      BY <3>1, SameIntents
    <3>2. CASE /\ j.x # None /\ ~RenewalKey(j.day)
               /\ NewIntent([kind |-> "renewal", day |-> j.day, method |-> j.x])
      <4>1. PICK k : k = [kind |-> "renewal", day |-> j.day, method |-> j.x]
        OBVIOUS
      <4>2. k \in Keys /\ k.day = j.day
        BY <2>1, <3>2, <4>1 DEF Keys
      <4> QED BY <3>2, <4>1, <4>2, NewRow
    <3> QED BY <1>2, <3>1, <3>2 DEF RenewalIntent
  <2>4. TypeOK' /\ Warned'
    BY <1>0, <2>1, <2>2, <2>3 DEF TypeOK, Warned, RowsKept
  <2>5. Carries(w)'
    BY <1>0, <2>1, <2>2 DEF Carries
  <2> QED BY <2>1, <2>2, <2>3, <2>4, <2>5, Kept
<1> QED BY <1>1, <1>2

-----------------------------------------------------------------------------
(* The invariant *)

\* A subscription begins with no mark, no intent and no worker.
LEMMA InvInit == Init => IInv
<1> SUFFICES ASSUME Init PROVE IInv
  OBVIOUS
<1>1. PICK m \in Methods \cup {None} :
          sub = [status |-> IF m = None THEN "TRIAL" ELSE "ACTIVE", start |-> 0, end |-> Cycle,
                 cancelled |-> FALSE, autoRenew |-> m # None, since |-> None,
                 refs |-> [NoRefs EXCEPT !.last = m]]
  BY DEF Init
<1>2. PICK refs : refs = [NoRefs EXCEPT !.last = m]
  OBVIOUS
<1>3. refs \in Refs /\ refs.dunning = {}
  BY <1>2, Fields, Written
<1>4. /\ sub \in Subs /\ sub.refs = refs /\ sub.status # "SUSPENDED"
  BY <1>1, <1>2, <1>3, SubscriptionAssumption DEF Subs
<1>5. TypeOK
  BY <1>4, SubscriptionAssumption DEF Init, TypeOK, Steps
<1>6. Warned /\ OneRenewalPerPeriod /\ \A w \in Workers : Carries(w)
  BY <1>3, <1>4 DEF Init, Warned, OneRenewalPerPeriod, Carries
<1> QED BY <1>5, <1>6 DEF IInv

\* Every step keeps it.
LEMMA InvStep == IInv /\ [Next]_vars => IInv'
<1> SUFFICES ASSUME IInv, [Next]_vars PROVE IInv'
  OBVIOUS
<1>1. CASE UNCHANGED vars
  <2>1. TypeOK' /\ Warned'
    BY <1>1 DEF vars, IInv, TypeOK, Warned
  <2>2. RowsKept /\ sent \subseteq sent' /\ \A u \in Workers : pc'[u] = pc[u] /\ job'[u] = job[u]
    BY <1>1, SameIntents DEF vars
  <2> QED BY <2>1, <2>2, Kept
<1>2. ASSUME NEW w \in Workers, Continue(w) PROVE IInv'
  BY <1>2, EndSteps, MiddleSteps DEF Continue
<1>3. ASSUME NEW w \in Workers, NEW i \in Intents, Succeeded(w, i) \/ Failed(w, i) PROVE IInv'
  BY <1>3, HandlerSteps
<1>4. ASSUME NEW w \in Workers, Dunning(w) \/ Renewal(w) \/ Billing(w) \/ ReadList(w) PROVE IInv'
  BY <1>4, CronSteps
<1> QED BY <1>1, <1>2, <1>3, <1>4, TenantSteps DEF Next

(* The inductive invariant, whatever pods, crons and handlers overlap. *)
THEOREM Invariance == Spec => []IInv
  BY InvInit, InvStep, PTL DEF Spec

(* The columns, the intents and what the workers carry keep their types. *)
THEOREM TypeCorrect == Spec => []TypeOK
<1>1. IInv => TypeOK
  BY DEF IInv
<1> QED BY <1>1, Invariance, PTL

(* No period has two automatic payments, for any number of pods that run the cron and
   however often the mark renewalSent is lost: the key of the attempt decides. *)
THEOREM RenewalTheorem == Spec => []OneRenewalPerPeriod
<1>1. IInv => OneRenewalPerPeriod
  BY DEF IInv
<1> QED BY <1>1, Invariance, PTL

(* Whatever the platform configures, a suspended tenant has had the last reminder and
   those due within the days before a suspension (runDailyDunning). *)
THEOREM WarningsTheorem == Spec => [](sub.status = "SUSPENDED" => Warnings \subseteq sent)
<1>1. IInv => (sub.status = "SUSPENDED" => Warnings \subseteq sent)
  BY DEF IInv, Warned
<1> QED BY <1>1, Invariance, PTL

(* When each reminder is due before a suspension, as in the defaults (24, 72 and 168 hours
   against 10 days), a suspended tenant has had all three. *)
THEOREM SuspendedTheorem ==
    ASSUME \A r \in Reminders : DunningAfter[r] <= SuspendAfter
    PROVE  Spec => []SuspendedWarned
<1>1. sent \in SUBSET Reminders /\ Warnings \subseteq sent => sent = Reminders
  BY DEF Warnings
<1>2. IInv => SuspendedWarned
  BY <1>1 DEF IInv, TypeOK, Warned, SuspendedWarned
<1> QED BY <1>2, Invariance, PTL
=============================================================================
