------------------------------ MODULE Payment ------------------------------
(***************************************************************************)
(* One payment intent, from createIntent to its refund: the threads of     *)
(* PaymentOrchestrator, the provider (external), its webhooks - delayed,   *)
(* repeated, out of order or dropped by a handler error - and the          *)
(* reconciliation cron.  PostgreSQL at READ COMMITTED without row locks in *)
(* the reads: what a handler read before its write may be out of date.     *)
(*                                                                         *)
(* Time is two facts about the intent: its TTL is past (expiresAt < now),  *)
(* and nothing updated it for reconciliationLagMinutes.                    *)
(***************************************************************************)
EXTENDS Naturals, FiniteSets

CONSTANTS
    Creators,     \* concurrent createIntent calls under one idempotency key
    Workers,      \* webhook handlers, API calls and cron jobs that may run at once
    Amount,       \* intent.amount
    LagBeforeTtl, \* TRUE if reconciliationLagMinutes < intentTtlMinutes
    MaxOps,       \* bound: confirm, refund and cancel calls per behaviour
    MaxWebhooks,  \* bound: webhooks received per behaviour
    MaxFaults     \* bound: pods or handlers that die in the middle

ASSUME PaymentAssumption ==
    /\ Amount \in Nat \ {0}
    /\ LagBeforeTtl \in BOOLEAN
    /\ MaxOps \in Nat /\ MaxWebhooks \in Nat /\ MaxFaults \in Nat

VARIABLES
    intent,     \* PaymentIntent.status, "none" before it exists
    attempt,    \* its PaymentAttempt: status, and whether externalRef is known
    pastTtl, lagged,
    provider,   \* the provider's own state of the payment (external)
    initiated,  \* calls of provider.initiate it accepted
    notices,    \* statuses it has notified by webhook
    asked,      \* total it was asked to refund
    emitted,    \* terminal events emitted: PAYMENT_INTENT_SUCCEEDED, _FAILED
    cpc, cres,  \* createIntent calls: step, provider result
    wpc, job,   \* workers: step, and what they work with
    ops, hooks, faults

dbVars == <<intent, attempt>>
clockVars == <<pastTtl, lagged>>
providerVars == <<provider, initiated, notices, asked>>
creatorVars == <<cpc, cres>>
workerVars == <<wpc, job>>
boundVars == <<ops, hooks, faults>>
vars == <<dbVars, clockVars, providerVars, emitted, creatorVars, workerVars, boundVars>>

ProviderStates == {"PENDING", "SUCCESSFUL", "FAILED", "CANCELLED", "REVERSED"}
Open == {"CREATED", "PROCESSING"}
Terminal == {"SUCCEEDED", "FAILED", "CANCELLED", "REFUNDED", "PARTIALLY_REFUNDED", "EXPIRED"}
AttemptStates == {"INITIATED"} \cup ProviderStates
Jobs == [res : ProviderStates, seen : Open \cup Terminal \cup {"none"}, amt : 0..Amount]

NoJob == [res |-> "PENDING", seen |-> "none", amt |-> 0]

\* Slip: the provider's word is stored as it is.
deriveIdentity(s) == s

\* Slip: a pending status falls into the success branch.
deriveWrongDefault(s) ==
    CASE s = "FAILED" -> "FAILED" [] s = "CANCELLED" -> "CANCELLED"
      [] s = "REVERSED" -> "REFUNDED" [] OTHER -> "SUCCEEDED"

\* (mapProviderStatusToAttempt, for the attempt, keeps the provider's words.)
deriveIntentStatusFromProvider(s) ==
    CASE s = "SUCCESSFUL" -> "SUCCEEDED" [] s = "FAILED" -> "FAILED"
      [] s = "CANCELLED" -> "CANCELLED" [] s = "REVERSED" -> "REFUNDED"
      [] OTHER -> "PROCESSING"

isIntentTransitionAllowed(from, to) ==
    /\ from # to
    /\ from \in Terminal => to \in {"REFUNDED", "PARTIALLY_REFUNDED"}

Init ==
    /\ intent = "none"
    /\ attempt = [status |-> "INITIATED", ref |-> FALSE]
    /\ pastTtl = FALSE /\ lagged = FALSE
    /\ provider = "none" /\ initiated = 0 /\ notices = {} /\ asked = 0
    /\ emitted = {}
    /\ cpc = [c \in Creators |-> "start"]
    /\ cres = [c \in Creators |-> "PENDING"]
    /\ wpc = [w \in Workers |-> "idle"]
    /\ job = [w \in Workers |-> NoJob]
    /\ ops = 0 /\ hooks = 0 /\ faults = 0

-----------------------------------------------------------------------------
(* createIntent *)

\* Slip: no unique index on (tenantId, idempotencyKey).
CreateRowAgain(c) ==
    /\ cpc[c] = "start"
    /\ intent' = "CREATED"
    /\ attempt' = [status |-> "INITIATED", ref |-> FALSE]
    /\ cpc' = [cpc EXCEPT ![c] = "call"]
    /\ UNCHANGED <<clockVars, providerVars, emitted, cres, workerVars, boundVars>>

(* Steps 1-5.  The lookup by key and the insert: a call that finds the intent, or
   whose insert meets the unique index, creates nothing. *)
CreateRow(c) ==
    /\ cpc[c] = "start"
    /\ \/ /\ intent = "none"
          /\ intent' = "CREATED"
          /\ cpc' = [cpc EXCEPT ![c] = "call"]
       \/ /\ intent # "none"
          /\ cpc' = [cpc EXCEPT ![c] = "done"]
          /\ UNCHANGED intent
    /\ UNCHANGED <<attempt, clockVars, providerVars, emitted, cres, workerVars, boundVars>>

(* Step 6, provider.initiate: a synchronous status, or an error - and a timeout
   tells nothing of what the provider did. *)
Initiate(c) ==
    /\ cpc[c] = "call"
    /\ \/ \E s \in {"PENDING", "SUCCESSFUL", "FAILED"} :
             /\ provider' = s
             /\ initiated' = initiated + 1
             /\ cres' = [cres EXCEPT ![c] = s]
             /\ cpc' = [cpc EXCEPT ![c] = "save"]
       \/ /\ provider' \in {provider, "PENDING"}
          /\ initiated' = initiated + (IF provider' = provider THEN 0 ELSE 1)
          /\ cpc' = [cpc EXCEPT ![c] = "error"]
          /\ UNCHANGED cres
    /\ UNCHANGED <<dbVars, clockVars, notices, asked, emitted, workerVars, boundVars>>

(* The result is stored over whatever the intent has become meanwhile. *)
SaveResult(c) ==
    /\ cpc[c] = "save"
    /\ attempt' = [status |-> cres[c], ref |-> TRUE]
    /\ intent' = deriveIntentStatusFromProvider(cres[c])
    /\ lagged' = FALSE
    /\ cpc' = [cpc EXCEPT ![c] = "done"]
    /\ cres' = [cres EXCEPT ![c] = "PENDING"]
    /\ UNCHANGED <<pastTtl, providerVars, emitted, workerVars, boundVars>>

(* recordAttemptFailure, unconditional too. *)
SaveError(c) ==
    /\ cpc[c] = "error"
    /\ attempt' = [attempt EXCEPT !.status = "FAILED"]
    /\ intent' = "FAILED"
    /\ lagged' = FALSE
    /\ cpc' = [cpc EXCEPT ![c] = "done"]
    /\ UNCHANGED <<pastTtl, providerVars, emitted, cres, workerVars, boundVars>>

CreatorDies(c) ==
    /\ cpc[c] \notin {"start", "done"} /\ faults < MaxFaults
    /\ cpc' = [cpc EXCEPT ![c] = "done"]
    /\ cres' = [cres EXCEPT ![c] = "PENDING"]
    /\ faults' = faults + 1
    /\ UNCHANGED <<dbVars, clockVars, providerVars, emitted, workerVars, ops, hooks>>

-----------------------------------------------------------------------------
(* The provider and the clock *)

ProviderSettles ==
    /\ provider = "PENDING"
    /\ provider' \in {"SUCCESSFUL", "FAILED", "CANCELLED"}
    /\ UNCHANGED <<dbVars, clockVars, initiated, notices, asked, emitted, creatorVars,
                   workerVars, boundVars>>

ProviderNotifies ==
    /\ provider # "none" /\ provider \notin notices
    /\ notices' = notices \cup {provider}
    /\ UNCHANGED <<dbVars, clockVars, provider, initiated, asked, emitted, creatorVars,
                   workerVars, boundVars>>

TtlPasses ==
    /\ intent # "none" /\ ~pastTtl
    /\ pastTtl' = TRUE
    /\ UNCHANGED <<dbVars, lagged, providerVars, emitted, creatorVars, workerVars, boundVars>>

\* updatedAt is not before createdAt: with a lag above the TTL the TTL is over first.
LagPasses ==
    /\ intent # "none" /\ ~lagged
    /\ LagBeforeTtl \/ pastTtl
    /\ lagged' = TRUE
    /\ UNCHANGED <<dbVars, pastTtl, providerVars, emitted, creatorVars, workerVars, boundVars>>

-----------------------------------------------------------------------------
(* Handlers *)

Begin(w, step, j) ==
    /\ wpc[w] = "idle"
    /\ wpc' = [wpc EXCEPT ![w] = step]
    /\ job' = [job EXCEPT ![w] = j]

\* The handler returns.
Finish(w) ==
    /\ wpc' = [wpc EXCEPT ![w] = "idle"]
    /\ job' = [job EXCEPT ![w] = NoJob]

\* An API call: counted against the bound.
Count == ops < MaxOps /\ ops' = ops + 1

(* PaymentWebhookController.handle + applyWebhook: the attempt is found by
   externalRef or by txRef (the intent id); an unknown payment is an orphan.  Any
   status ever notified may arrive at any time, again and again (MaxWebhooks). *)
Webhook(w) ==
    /\ intent # "none"
    /\ \E s \in notices : Begin(w, "apply", [NoJob EXCEPT !.res = s])
    /\ hooks < MaxWebhooks /\ hooks' = hooks + 1
    /\ UNCHANGED <<dbVars, clockVars, providerVars, emitted, creatorVars, ops, faults>>

(* confirm: what provider.verify answers now is applied later. *)
Confirm(w) ==
    /\ intent # "none" /\ attempt.ref
    /\ Begin(w, "apply", [NoJob EXCEPT !.res = provider])
    /\ Count
    /\ UNCHANGED <<dbVars, clockVars, providerVars, emitted, creatorVars, hooks, faults>>

(* reconcileStale: the cron asks the provider about intents nothing updated for a
   while and whose TTL is still running. *)
Reconcile(w) ==
    /\ intent \in Open /\ lagged /\ ~pastTtl /\ attempt.ref
    /\ Begin(w, "apply", [NoJob EXCEPT !.res = provider])
    /\ UNCHANGED <<dbVars, clockVars, providerVars, emitted, creatorVars, boundVars>>

(* applyProviderResult: the transaction reads the status without a lock ... *)
ApplyRead(w) ==
    /\ wpc[w] = "apply"
    /\ job' = [job EXCEPT ![w].seen = intent]
    /\ wpc' = [wpc EXCEPT ![w] = "write"]
    /\ UNCHANGED <<dbVars, clockVars, providerVars, emitted, creatorVars, boundVars>>

(* ... writes the attempt, and the intent if the status it read allows it. *)
ApplyWrite(w) ==
    /\ wpc[w] = "write"
    /\ attempt' = [status |-> job[w].res, ref |-> TRUE]
    /\ LET to == deriveIntentStatusFromProvider(job[w].res) IN
         \/ /\ isIntentTransitionAllowed(job[w].seen, to)
            /\ intent' = to
            /\ lagged' = FALSE
            /\ IF to \in {"SUCCEEDED", "FAILED"}
               THEN wpc' = [wpc EXCEPT ![w] = "emit"] /\ UNCHANGED job
               ELSE Finish(w)
         \/ /\ ~isIntentTransitionAllowed(job[w].seen, to)
            /\ Finish(w)
            /\ UNCHANGED <<intent, lagged>>
    /\ UNCHANGED <<pastTtl, providerVars, emitted, creatorVars, boundVars>>

(* emitIntentTerminalEvent, after the transaction. *)
Emit(w) ==
    /\ wpc[w] = "emit"
    /\ emitted' = emitted \cup {deriveIntentStatusFromProvider(job[w].res)}
    /\ Finish(w)
    /\ UNCHANGED <<dbVars, clockVars, providerVars, creatorVars, boundVars>>

\* Slip: the attempt's success is not required.
RefundReadAny(w) ==
    /\ intent # "none"
    /\ \E a \in 1..Amount : Begin(w, "refund", [NoJob EXCEPT !.amt = a])
    /\ Count
    /\ UNCHANGED <<dbVars, clockVars, providerVars, emitted, creatorVars, hooks, faults>>

(* refund: the checks ... *)
RefundRead(w) ==
    /\ intent \in {"SUCCEEDED", "PARTIALLY_REFUNDED"}
    /\ attempt.status = "SUCCESSFUL" /\ attempt.ref
    /\ \E a \in 1..Amount : Begin(w, "refund", [NoJob EXCEPT !.amt = a])
    /\ Count
    /\ UNCHANGED <<dbVars, clockVars, providerVars, emitted, creatorVars, hooks, faults>>

(* ... the provider, which may refuse or time out, and notifies a full refund ... *)
RefundCall(w) ==
    /\ wpc[w] = "refund"
    /\ \/ /\ asked' = asked + job[w].amt
          /\ provider' = IF job[w].amt = Amount THEN "REVERSED" ELSE provider
          /\ wpc' = [wpc EXCEPT ![w] = "refunded"]
          /\ UNCHANGED job
       \/ /\ Finish(w)
          /\ UNCHANGED <<asked, provider>>
    /\ UNCHANGED <<dbVars, clockVars, initiated, notices, emitted, creatorVars, boundVars>>

(* ... and the record; without the encrypted response the attempt is left alone. *)
RefundSave(w) ==
    /\ wpc[w] = "refunded"
    /\ intent' = IF job[w].amt >= Amount THEN "REFUNDED" ELSE "PARTIALLY_REFUNDED"
    /\ attempt' \in {attempt, [attempt EXCEPT !.status = "REVERSED"]}
    /\ lagged' = FALSE
    /\ Finish(w)
    /\ UNCHANGED <<pastTtl, providerVars, emitted, creatorVars, boundVars>>

(* cancel and expirePast read the status, then write theirs unconditionally. *)
CancelRead(w) ==
    /\ intent \in Open
    /\ Begin(w, "cancel", NoJob)
    /\ Count
    /\ UNCHANGED <<dbVars, clockVars, providerVars, emitted, creatorVars, hooks, faults>>

ExpireRead(w) ==
    /\ intent \in Open /\ pastTtl
    /\ Begin(w, "expire", NoJob)
    /\ UNCHANGED <<dbVars, clockVars, providerVars, emitted, creatorVars, boundVars>>

\* Slip: the write is conditional, on the wrong status.
CloseWriteCreated(w) ==
    /\ wpc[w] \in {"cancel", "expire"}
    /\ intent' = IF intent # "CREATED" THEN intent
                 ELSE IF wpc[w] = "cancel" THEN "CANCELLED" ELSE "EXPIRED"
    /\ Finish(w)
    /\ UNCHANGED <<attempt, clockVars, providerVars, emitted, creatorVars, boundVars>>

CloseWrite(w) ==
    /\ wpc[w] \in {"cancel", "expire"}
    /\ intent' = IF wpc[w] = "cancel" THEN "CANCELLED" ELSE "EXPIRED"
    /\ lagged' = FALSE
    /\ Finish(w)
    /\ UNCHANGED <<attempt, pastTtl, providerVars, emitted, creatorVars, boundVars>>

\* A handler throws or its pod dies; the webhook is answered 200 all the same.
WorkerDies(w) ==
    /\ wpc[w] # "idle" /\ faults < MaxFaults
    /\ Finish(w)
    /\ faults' = faults + 1
    /\ UNCHANGED <<dbVars, clockVars, providerVars, emitted, creatorVars, ops, hooks>>

CreatorStep(c) == CreateRow(c) \/ Initiate(c) \/ SaveResult(c) \/ SaveError(c)
WorkerStep(w) == \/ ApplyRead(w) \/ ApplyWrite(w) \/ Emit(w)
                 \/ RefundCall(w) \/ RefundSave(w) \/ CloseWrite(w)
Cron(w) == Reconcile(w) \/ ExpireRead(w)

\* Nothing is pending: the intent is closed, its TTL is over, the bounds are used up.
Settled ==
    /\ intent \notin Open \cup {"none"} /\ pastTtl
    /\ \A c \in Creators : cpc[c] = "done"
    /\ \A w \in Workers : wpc[w] = "idle"
    /\ UNCHANGED vars

Next ==
    \/ \E c \in Creators : CreatorStep(c) \/ CreatorDies(c)
    \/ ProviderSettles \/ ProviderNotifies \/ TtlPasses \/ LagPasses
    \/ \E w \in Workers : \/ WorkerStep(w) \/ Cron(w) \/ WorkerDies(w)
                          \/ Webhook(w) \/ Confirm(w) \/ RefundRead(w) \/ CancelRead(w)
    \/ Settled

Spec == Init /\ [][Next]_vars

\* Pending continuations run, the cron fires, time passes; nothing is assumed of the
\* provider, of its webhooks or of the clients.
FairSpec ==
    /\ Spec
    /\ \A c \in Creators : WF_vars(CreatorStep(c))
    /\ \A w \in Workers : WF_vars(WorkerStep(w)) /\ WF_vars(Cron(w))
    /\ WF_vars(TtlPasses)

-----------------------------------------------------------------------------
Paid == provider \in {"SUCCESSFUL", "REVERSED"}

\* Type correctness of the intent, its attempt and the threads on them.
TypeOK ==
    /\ intent \in {"none"} \cup Open \cup Terminal
    /\ attempt \in [status : AttemptStates, ref : BOOLEAN]
    /\ pastTtl \in BOOLEAN /\ lagged \in BOOLEAN
    /\ provider \in {"none"} \cup ProviderStates
    /\ initiated \in Nat /\ asked \in Nat
    /\ notices \subseteq ProviderStates
    /\ emitted \subseteq {"SUCCEEDED", "FAILED"}
    /\ cpc \in [Creators -> {"start", "call", "save", "error", "done"}]
    /\ cres \in [Creators -> ProviderStates]
    /\ wpc \in [Workers -> {"idle", "apply", "write", "emit", "refund", "refunded",
                            "cancel", "expire"}]
    /\ job \in [Workers -> Jobs]
    /\ ops \in 0..MaxOps /\ hooks \in 0..MaxWebhooks /\ faults \in 0..MaxFaults

\* An idempotency key charges the customer at most once, however many createIntent
\* calls carry it at the same time.
ChargedOnce == initiated <= 1

\* The intent is SUCCEEDED, and subscribers are told so, only when the provider holds
\* the money: no interleaving of stale, repeated and late answers invents a success.
SuccessIsReal == intent = "SUCCEEDED" \/ "SUCCEEDED" \in emitted => Paid

\* The provider is asked for a refund only of a payment it has taken.
RefundOfPayment == asked > 0 => Paid

\* An intent never hangs: it leaves CREATED and PROCESSING, at the latest because the
\* cron expires it, whatever the provider, its webhooks or a dead handler do.
IntentCloses == intent \in Open ~> intent \in Terminal

-----------------------------------------------------------------------------
(* What makes ChargedOnce, SuccessIsReal and RefundOfPayment inductive. *)

Creating(c) == cpc[c] \in {"call", "save", "error"}

\* The unique key leaves the intent to one creator, nobody works on an intent that does
\* not exist, and until the creator's call has returned the provider knows of nothing.
OneCreator ==
    /\ \A c, d \in Creators : Creating(c) /\ Creating(d) => c = d
    /\ intent = "none" => /\ \A c \in Creators : cpc[c] = "start"
                          /\ \A w \in Workers : wpc[w] = "idle"
    /\ intent = "none" \/ (\E c \in Creators : cpc[c] = "call") =>
           provider = "none" /\ initiated = 0

\* Nobody has an answer of the provider before the payment exists there.
AnswersKnown ==
    provider = "none" =>
        /\ ~attempt.ref /\ notices = {}
        /\ \A c \in Creators : cpc[c] # "save"
        /\ \A w \in Workers : wpc[w] \notin {"apply", "write", "emit"}

\* The provider knows the payments it was made to collect, no others.
ChargeKnown == provider # "none" => initiated = 1

Taken == {"SUCCESSFUL", "REVERSED"}

\* Everything that says the money was taken is evidence, wherever it lies and however
\* old it is: a webhook, an answer a thread holds, the attempt, the intent.
Evidence ==
    \/ notices \cap Taken # {}
    \/ \E c \in Creators : cres[c] \in Taken
    \/ \E w \in Workers : \/ wpc[w] \in {"apply", "write", "emit"} /\ job[w].res \in Taken
                          \/ wpc[w] \in {"refund", "refunded"}
    \/ attempt.status \in Taken
    \/ intent \in {"SUCCEEDED", "PARTIALLY_REFUNDED", "REFUNDED"}
    \/ "SUCCEEDED" \in emitted
    \/ asked > 0

\* Only the two outcomes subscribers wait for are about to be emitted.
EmitsOutcome == \A w \in Workers : wpc[w] = "emit" => job[w].res \in {"SUCCESSFUL", "FAILED"}

IInv ==
    /\ TypeOK /\ OneCreator /\ AnswersKnown /\ ChargeKnown /\ EmitsOutcome /\ ChargedOnce
    /\ Evidence => Paid

-----------------------------------------------------------------------------
(* The contract the intent keeps towards the modules that sell for it. *)

Contract == INSTANCE PaymentContract WITH charges <- initiated, taken <- Paid,
                status <- intent, told <- emitted, repaying <- asked > 0

\* However threads, webhooks and the cron interleave, each of their steps is one step of
\* the contract or none: one charge per key, and no status or event ahead of the money.
ImplementsContract == Contract!CSpec
=============================================================================
