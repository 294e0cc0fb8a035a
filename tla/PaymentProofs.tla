--------------------------- MODULE PaymentProofs ---------------------------
(***************************************************************************)
(* Proofs that hold for every number of createIntent calls, webhooks, API  *)
(* calls and cron jobs, and for every amount: type correctness, the        *)
(* inductive invariant IInv of Payment and the safety properties it        *)
(* implies.                                                                *)
(***************************************************************************)
EXTENDS Payment, TLAPS

\* The statuses the two derivations of the orchestrator can give.
LEMMA DerivedStatus ==
    ASSUME NEW s \in ProviderStates
    PROVE  /\ deriveIntentStatusFromProvider(s) \in {"PROCESSING"} \cup Terminal
           /\ deriveIntentStatusFromProvider(s) # "none"
           /\ deriveIntentStatusFromProvider(s) \notin {"CREATED", "PARTIALLY_REFUNDED"}
           /\ deriveIntentStatusFromProvider(s) = "SUCCEEDED" <=> s = "SUCCESSFUL"
           /\ deriveIntentStatusFromProvider(s) \in {"SUCCEEDED", "REFUNDED"} <=> s \in Taken
BY DEF deriveIntentStatusFromProvider, ProviderStates, Terminal, Taken

\* What a worker may hold when it starts.
LEMMA JobTypes ==
    /\ NoJob \in Jobs
    /\ NoJob.res = "PENDING"
    /\ \A s \in ProviderStates : /\ [NoJob EXCEPT !.res = s] \in Jobs
                                 /\ [NoJob EXCEPT !.res = s].res = s
    /\ \A a \in 1..Amount : /\ [NoJob EXCEPT !.amt = a] \in Jobs
                            /\ [NoJob EXCEPT !.amt = a].amt = a
BY PaymentAssumption DEF NoJob, Jobs, ProviderStates

-----------------------------------------------------------------------------
(* Type correctness *)

\* The steps of createIntent keep the types.
LEMMA CreatorTypes ==
    ASSUME TypeOK, NEW c \in Creators, CreatorStep(c) \/ CreatorDies(c)
    PROVE  TypeOK'
<1> USE DEF vars, dbVars, clockVars, providerVars, creatorVars, workerVars, boundVars, TypeOK
<1>1. CASE CreateRow(c)
  BY <1>1 DEF CreateRow, Open
<1>2. CASE Initiate(c)
  BY <1>2 DEF Initiate, ProviderStates
<1>3. CASE SaveResult(c)
  <2>1. deriveIntentStatusFromProvider(cres[c]) \in {"PROCESSING"} \cup Terminal
    BY DerivedStatus
  <2> QED BY <1>3, <2>1 DEF SaveResult, Open, AttemptStates, ProviderStates
<1>4. CASE SaveError(c)
  BY <1>4 DEF SaveError, Terminal, AttemptStates, ProviderStates
<1>5. CASE CreatorDies(c)
  BY <1>5, PaymentAssumption DEF CreatorDies, ProviderStates
<1> QED BY <1>1, <1>2, <1>3, <1>4, <1>5 DEF CreatorStep

\* A request, a webhook or a run of the cron that starts keeps the types: Confirm and
\* Reconcile need an answer of the provider, which AnswersKnown gives them.
LEMMA StartTypes ==
    ASSUME TypeOK, AnswersKnown, NEW w \in Workers,
           Webhook(w) \/ Confirm(w) \/ Reconcile(w) \/ RefundRead(w) \/ CancelRead(w)
             \/ ExpireRead(w)
    PROVE  TypeOK'
<1> USE DEF vars, dbVars, clockVars, providerVars, creatorVars, workerVars, boundVars, TypeOK,
            Begin, Count
<1>1. CASE Webhook(w)
  BY <1>1, JobTypes, PaymentAssumption DEF Webhook
<1>2. CASE Confirm(w) \/ Reconcile(w)
  <2>1. provider \in ProviderStates
    BY <1>2 DEF AnswersKnown, Confirm, Reconcile
  <2> QED BY <1>2, <2>1, JobTypes, PaymentAssumption DEF Confirm, Reconcile
<1>3. CASE RefundRead(w)
  BY <1>3, JobTypes, PaymentAssumption DEF RefundRead
<1>4. CASE CancelRead(w) \/ ExpireRead(w)
  BY <1>4, JobTypes, PaymentAssumption DEF CancelRead, ExpireRead
<1> QED BY <1>1, <1>2, <1>3, <1>4

\* The later steps of a handler keep the types.
LEMMA WorkerTypes ==
    ASSUME TypeOK, EmitsOutcome, NEW w \in Workers, WorkerStep(w) \/ WorkerDies(w)
    PROVE  TypeOK'
<1> USE DEF vars, dbVars, clockVars, providerVars, creatorVars, workerVars, boundVars, TypeOK
<1>0. /\ job[w].res \in ProviderStates /\ job[w].amt \in Nat /\ NoJob \in Jobs
      /\ deriveIntentStatusFromProvider(job[w].res) \in {"PROCESSING"} \cup Terminal
  BY JobTypes, DerivedStatus, PaymentAssumption DEF Jobs
<1>1. CASE ApplyRead(w)
  <2>1. [job[w] EXCEPT !.seen = intent] \in Jobs
    BY DEF Jobs
  <2> QED BY <1>1, <2>1 DEF ApplyRead
<1>2. CASE ApplyWrite(w)
  <2>1. intent' \in {"none"} \cup Open \cup Terminal /\ lagged' \in BOOLEAN
    BY <1>0, <1>2 DEF ApplyWrite, Open
  <2>2. attempt' \in [status : AttemptStates, ref : BOOLEAN]
    BY <1>0, <1>2 DEF ApplyWrite, AttemptStates
  <2>3. \/ wpc' = [wpc EXCEPT ![w] = "emit"] /\ job' = job
        \/ Finish(w)
    BY <1>2 DEF ApplyWrite
  <2>4. /\ wpc' \in [Workers -> {"idle", "apply", "write", "emit", "refund", "refunded",
                                "cancel", "expire"}]
        /\ job' \in [Workers -> Jobs]
    BY <1>0, <2>3 DEF Finish
  <2>5. UNCHANGED <<pastTtl, providerVars, emitted, creatorVars, boundVars>>
    BY <1>2 DEF ApplyWrite
  <2> QED BY <2>1, <2>2, <2>4, <2>5
<1>3. CASE Emit(w)
  <2>1. deriveIntentStatusFromProvider(job[w].res) \in {"SUCCEEDED", "FAILED"}
    BY <1>3 DEF Emit, EmitsOutcome, deriveIntentStatusFromProvider
  <2> QED BY <1>0, <1>3, <2>1 DEF Emit, Finish
<1>4. CASE RefundCall(w)
  BY <1>0, <1>4 DEF RefundCall, Finish, ProviderStates
<1>5. CASE RefundSave(w)
  <2>1. attempt' \in [status : AttemptStates, ref : BOOLEAN]
    BY <1>5 DEF RefundSave, AttemptStates, ProviderStates
  <2> QED BY <1>0, <1>5, <2>1 DEF RefundSave, Finish, Terminal
<1>6. CASE CloseWrite(w)
  BY <1>0, <1>6 DEF CloseWrite, Finish, Terminal
<1>7. CASE WorkerDies(w)
  BY <1>0, <1>7, PaymentAssumption DEF WorkerDies, Finish
<1> QED BY <1>1, <1>2, <1>3, <1>4, <1>5, <1>6, <1>7 DEF WorkerStep

\* Every step keeps the types.
LEMMA TypeStep ==
    ASSUME IInv, [Next]_vars
    PROVE  TypeOK'
<1> USE DEF IInv
<1>1. ASSUME NEW c \in Creators, CreatorStep(c) \/ CreatorDies(c) PROVE TypeOK'
  BY <1>1, CreatorTypes
<1>2. ASSUME NEW w \in Workers,
             \/ WorkerStep(w) \/ Cron(w) \/ WorkerDies(w)
             \/ Webhook(w) \/ Confirm(w) \/ RefundRead(w) \/ CancelRead(w)
      PROVE  TypeOK'
  BY <1>2, StartTypes, WorkerTypes DEF Cron
<1>3. CASE ProviderSettles \/ ProviderNotifies \/ TtlPasses \/ LagPasses
  BY <1>3 DEF ProviderSettles, ProviderNotifies, TtlPasses, LagPasses, TypeOK, ProviderStates,
              dbVars, clockVars, providerVars, creatorVars, workerVars, boundVars
<1>4. CASE UNCHANGED vars
  BY <1>4 DEF TypeOK, vars, dbVars, clockVars, providerVars, creatorVars, workerVars, boundVars
<1> QED BY <1>1, <1>2, <1>3, <1>4 DEF Next, Settled

-----------------------------------------------------------------------------
(* The rest of IInv, step by step *)

\* What the steps below preserve, given the types.
Safe ==
    /\ OneCreator /\ AnswersKnown /\ ChargeKnown /\ EmitsOutcome /\ ChargedOnce
    /\ Evidence => Paid

\* createIntent: the unique key lets one caller in, he calls the provider once, and
\* only from that call on does anyone hold an answer.
LEMMA CreatorSafe ==
    ASSUME IInv, NEW c \in Creators, CreatorStep(c) \/ CreatorDies(c)
    PROVE  Safe'
<1> USE DEF IInv, Safe, TypeOK, dbVars, clockVars, providerVars, creatorVars, workerVars, boundVars
<1>1. CASE CreateRow(c)
  <2>1. CASE intent = "none"
    <3>1. OneCreator'
      BY <1>1, <2>1 DEF CreateRow, OneCreator, Creating
    <3>2. AnswersKnown' /\ ChargeKnown' /\ EmitsOutcome' /\ ChargedOnce'
      BY <1>1, <2>1 DEF CreateRow, AnswersKnown, ChargeKnown, EmitsOutcome, ChargedOnce
    <3>3. (Evidence => Paid)'
      BY <1>1, <2>1 DEF CreateRow, Evidence, Taken, Paid
    <3> QED BY <3>1, <3>2, <3>3
  <2>2. CASE intent # "none"
    <3>1. OneCreator'
      BY <1>1, <2>2 DEF CreateRow, OneCreator, Creating
    <3>2. AnswersKnown' /\ ChargeKnown' /\ EmitsOutcome' /\ ChargedOnce'
      BY <1>1, <2>2 DEF CreateRow, AnswersKnown, ChargeKnown, EmitsOutcome, ChargedOnce
    <3>3. (Evidence => Paid)'
      BY <1>1, <2>2 DEF CreateRow, Evidence, Taken, Paid
    <3> QED BY <3>1, <3>2, <3>3
  <2> QED BY <2>1, <2>2
<1>2. CASE Initiate(c)
  <2>0. /\ provider = "none" /\ initiated = 0 /\ intent # "none"
        /\ \A d \in Creators : cpc[d] \in {"call", "save", "error"} => d = c
    BY <1>2 DEF Initiate, OneCreator, Creating
  <2>1. OneCreator'
    <3>1. \A d \in Creators : d # c => cpc'[d] = cpc[d]
      BY <1>2 DEF Initiate
    <3>2. cpc'[c] \in {"save", "error"} /\ intent' # "none"
      BY <1>2, <2>0 DEF Initiate
    <3> QED BY <2>0, <3>1, <3>2 DEF OneCreator, Creating
  <2>2. AnswersKnown'
    BY <1>2, <2>0 DEF Initiate, AnswersKnown
  <2>3. ChargeKnown' /\ EmitsOutcome' /\ ChargedOnce'
    BY <1>2, <2>0 DEF Initiate, ChargeKnown, EmitsOutcome, ChargedOnce
  <2>4. ~ Evidence
    BY <2>0 DEF Paid
  <2>5. (Evidence => Paid)'
    BY <1>2, <2>4 DEF Initiate, Evidence, Taken, Paid
  <2> QED BY <2>1, <2>2, <2>3, <2>5
<1>3. CASE SaveResult(c)
  <2>0. /\ provider # "none" /\ intent # "none"
        /\ cres[c] \in Taken => Paid
    BY <1>3 DEF SaveResult, AnswersKnown, OneCreator, Evidence
  <2>1. /\ intent' \in {"SUCCEEDED", "REFUNDED"} <=> cres[c] \in Taken
        /\ intent' # "none" /\ intent' # "PARTIALLY_REFUNDED"
    BY <1>3, DerivedStatus DEF SaveResult
  <2>2. OneCreator'
    BY <1>3, <2>0, <2>1 DEF SaveResult, OneCreator, Creating
  <2>3. AnswersKnown' /\ ChargeKnown' /\ EmitsOutcome' /\ ChargedOnce'
    BY <1>3, <2>0 DEF SaveResult, AnswersKnown, ChargeKnown, EmitsOutcome, ChargedOnce
  <2>4. (Evidence => Paid)'
    <3>1. Evidence' => Evidence \/ cres[c] \in Taken
      BY <1>3, <2>1 DEF SaveResult, Evidence, Taken
    <3> QED BY <1>3, <2>0, <3>1 DEF SaveResult, Paid
  <2> QED BY <2>2, <2>3, <2>4
<1>4. CASE SaveError(c)
  <2>1. OneCreator'
    BY <1>4 DEF SaveError, OneCreator, Creating
  <2>2. AnswersKnown' /\ ChargeKnown' /\ EmitsOutcome' /\ ChargedOnce'
    BY <1>4 DEF SaveError, AnswersKnown, ChargeKnown, EmitsOutcome, ChargedOnce
  <2>3. (Evidence => Paid)'
    BY <1>4 DEF SaveError, Evidence, Taken, Paid
  <2> QED BY <2>1, <2>2, <2>3
<1>5. CASE CreatorDies(c)
  <2>1. OneCreator'
    BY <1>5 DEF CreatorDies, OneCreator, Creating
  <2>2. AnswersKnown' /\ ChargeKnown' /\ EmitsOutcome' /\ ChargedOnce'
    BY <1>5 DEF CreatorDies, AnswersKnown, ChargeKnown, EmitsOutcome, ChargedOnce
  <2>3. (Evidence => Paid)'
    BY <1>5 DEF CreatorDies, Evidence, Taken, Paid
  <2> QED BY <2>1, <2>2, <2>3
<1> QED BY <1>1, <1>2, <1>3, <1>4, <1>5 DEF CreatorStep

\* The provider settles what it was asked to charge, and notifies its own state only.
LEMMA ProviderSafe ==
    ASSUME IInv, ProviderSettles \/ ProviderNotifies \/ TtlPasses \/ LagPasses \/ UNCHANGED vars
    PROVE  Safe'
<1> USE DEF IInv, Safe, vars, dbVars, clockVars, providerVars, creatorVars, workerVars, boundVars
<1>1. CASE ProviderSettles
  BY <1>1 DEF ProviderSettles, OneCreator, Creating, AnswersKnown, ChargeKnown, EmitsOutcome, ChargedOnce,
              Evidence, Taken, Paid
<1>2. CASE ProviderNotifies
  BY <1>2 DEF ProviderNotifies, OneCreator, Creating, AnswersKnown, ChargeKnown, EmitsOutcome, ChargedOnce,
              Evidence, Taken, Paid
<1>3. CASE UNCHANGED <<dbVars, providerVars, emitted, creatorVars, workerVars>>
  BY <1>3 DEF OneCreator, Creating, AnswersKnown, ChargeKnown, EmitsOutcome, ChargedOnce, Evidence, Taken, Paid
<1> QED BY <1>1, <1>2, <1>3 DEF TtlPasses, LagPasses

\* A handler that takes up an answer or a refund has evidence of what it works with.
LEMMA StartSafe ==
    ASSUME IInv, NEW w \in Workers,
           Webhook(w) \/ Confirm(w) \/ Reconcile(w) \/ RefundRead(w) \/ CancelRead(w)
             \/ ExpireRead(w)
    PROVE  Safe'
<1> USE DEF IInv, Safe, TypeOK, dbVars, clockVars, providerVars, creatorVars, workerVars,
            boundVars, Begin
<1>1. ASSUME UNCHANGED <<dbVars, clockVars, providerVars, emitted, creatorVars>>,
             NEW step \in {"apply", "refund", "cancel", "expire"}, NEW j \in Jobs, Begin(w, step, j),
             intent # "none", step = "apply" => provider # "none" /\ (j.res \in Taken => Paid),
             step = "refund" => Paid
      PROVE  Safe'
  <2>1. /\ wpc'[w] = step /\ job'[w] = j
        /\ \A v \in Workers : v # w => wpc'[v] = wpc[v] /\ job'[v] = job[v]
    BY <1>1
  <2>2. OneCreator' /\ ChargeKnown' /\ ChargedOnce'
    BY <1>1 DEF OneCreator, Creating, ChargeKnown, ChargedOnce
  <2>3. AnswersKnown' /\ EmitsOutcome'
    BY <1>1, <2>1 DEF AnswersKnown, EmitsOutcome
  <2>4. (Evidence => Paid)'
    <3>1. Evidence' => \/ Evidence
                       \/ step = "apply" /\ j.res \in Taken
                       \/ step = "refund"
      BY <1>1, <2>1 DEF Evidence
    <3> QED BY <1>1, <3>1 DEF Paid
  <2> QED BY <2>2, <2>3, <2>4
<1>2. CASE Webhook(w)
  <2>1. PICK s \in notices : Begin(w, "apply", [NoJob EXCEPT !.res = s])
    BY <1>2 DEF Webhook
  <2>2. /\ s \in ProviderStates /\ provider # "none"
        /\ s \in Taken => Paid
    BY <2>1 DEF AnswersKnown, Evidence
  <2> HIDE DEF Begin, Safe
  <2> QED BY <1>1, <1>2, <2>1, <2>2, JobTypes DEF Webhook
<1>3. CASE Confirm(w) \/ Reconcile(w)
  <2>1. provider \in ProviderStates /\ provider # "none" /\ (provider \in Taken => Paid)
    BY <1>3 DEF AnswersKnown, Confirm, Reconcile, ProviderStates, Taken, Paid
  <2>2. intent # "none"
    BY <1>3 DEF Confirm, Reconcile, Open
  <2> HIDE DEF Begin, Safe
  <2> QED BY <1>1, <1>3, <2>1, <2>2, JobTypes DEF Confirm, Reconcile
<1>4. CASE RefundRead(w)
  <2>1. Paid
    BY <1>4 DEF RefundRead, Evidence
  <2> HIDE DEF Begin, Safe
  <2> QED BY <1>1, <1>4, <2>1, JobTypes DEF RefundRead
<1>5. CASE CancelRead(w) \/ ExpireRead(w)
  <2>1. intent # "none"
    BY <1>5 DEF CancelRead, ExpireRead, Open
  <2> HIDE DEF Begin, Safe
  <2> QED BY <1>1, <1>5, <2>1, JobTypes DEF CancelRead, ExpireRead
<1> QED BY <1>2, <1>3, <1>4, <1>5

\* The later steps of a handler write only what their evidence covers.
LEMMA WorkerSafe ==
    ASSUME IInv, NEW w \in Workers, WorkerStep(w) \/ WorkerDies(w)
    PROVE  Safe'
<1> USE DEF IInv, Safe, TypeOK, dbVars, clockVars, providerVars, creatorVars, workerVars, boundVars
<1>0. NoJob.res = "PENDING" /\ job[w].res \in ProviderStates
  BY JobTypes DEF Jobs
<1>1. CASE ApplyRead(w)
  <2>1. \A v \in Workers : job'[v].res = job[v].res
    BY <1>1 DEF ApplyRead, Jobs
  <2>2. OneCreator' /\ ChargeKnown' /\ ChargedOnce'
    BY <1>1 DEF ApplyRead, OneCreator, Creating, ChargeKnown, ChargedOnce
  <2>3. AnswersKnown' /\ EmitsOutcome'
    BY <1>1, <2>1 DEF ApplyRead, AnswersKnown, EmitsOutcome
  <2>4. (Evidence => Paid)'
    BY <1>1, <2>1 DEF ApplyRead, Evidence, Taken, Paid
  <2> QED BY <2>2, <2>3, <2>4
<1>2. CASE ApplyWrite(w)
  <2>0. /\ provider # "none" /\ intent # "none"
        /\ job[w].res \in Taken => Paid
    BY <1>2 DEF ApplyWrite, AnswersKnown, OneCreator, Evidence
  <2>1. /\ intent' \in {"SUCCEEDED", "REFUNDED"} => intent' = intent \/ job[w].res \in Taken
        /\ intent' # "none"
        /\ intent' = "PARTIALLY_REFUNDED" => intent = "PARTIALLY_REFUNDED"
    BY <1>0, <1>2, <2>0, DerivedStatus DEF ApplyWrite
  <2>2. \A v \in Workers :
           /\ v # w => (wpc'[v] = wpc[v] /\ job'[v] = job[v])
           /\ v = w => \/ wpc'[v] = "idle"
                       \/ /\ wpc'[v] = "emit" /\ job'[v] = job[v]
                          /\ job[v].res \in {"SUCCESSFUL", "FAILED"}
    BY <1>0, <1>2 DEF ApplyWrite, Finish, deriveIntentStatusFromProvider, ProviderStates
  <2>3. OneCreator' /\ ChargeKnown' /\ ChargedOnce'
    BY <1>2, <2>0, <2>1 DEF ApplyWrite, OneCreator, Creating, ChargeKnown, ChargedOnce
  <2>4. AnswersKnown' /\ EmitsOutcome'
    BY <1>2, <2>0, <2>2 DEF ApplyWrite, AnswersKnown, EmitsOutcome
  <2>5. (Evidence => Paid)'
    <3>1. Evidence' => Evidence
      BY <1>2, <2>1, <2>2 DEF ApplyWrite, Evidence
    <3> QED BY <1>2, <3>1 DEF ApplyWrite, Paid
  <2> QED BY <2>3, <2>4, <2>5
<1>3. CASE Emit(w)
  <2>1. \A v \in Workers : \/ wpc'[v] = wpc[v] /\ job'[v] = job[v]
                           \/ wpc'[v] = "idle"
    BY <1>3 DEF Emit, Finish
  <2>2. "SUCCEEDED" \in emitted' => "SUCCEEDED" \in emitted \/ job[w].res \in Taken
    BY <1>0, <1>3, DerivedStatus DEF Emit
  <2>3. OneCreator' /\ ChargeKnown' /\ ChargedOnce'
    BY <1>3 DEF Emit, OneCreator, Creating, ChargeKnown, ChargedOnce
  <2>4. AnswersKnown' /\ EmitsOutcome'
    BY <1>3, <2>1 DEF Emit, AnswersKnown, EmitsOutcome
  <2>5. (Evidence => Paid)'
    <3>1. Evidence' => Evidence
      BY <1>3, <2>1, <2>2 DEF Emit, Evidence
    <3> QED BY <1>3, <3>1 DEF Emit, Paid
  <2> QED BY <2>3, <2>4, <2>5
<1>4. CASE RefundCall(w)
  <2>0. Paid /\ provider # "none" /\ intent # "none" /\ Paid'
    BY <1>4 DEF RefundCall, Evidence, Taken, Paid, OneCreator
  <2>1. \A v \in Workers : \/ wpc'[v] = wpc[v] /\ job'[v] = job[v]
                           \/ wpc'[v] \in {"idle", "refunded"}
    BY <1>4 DEF RefundCall, Finish
  <2>2. OneCreator' /\ ChargeKnown' /\ ChargedOnce'
    BY <1>4, <2>0 DEF RefundCall, OneCreator, Creating, ChargeKnown, ChargedOnce
  <2>3. AnswersKnown' /\ EmitsOutcome'
    BY <1>4, <2>0, <2>1 DEF RefundCall, AnswersKnown, EmitsOutcome, Paid
  <2> QED BY <2>0, <2>2, <2>3
<1>5. CASE RefundSave(w)
  <2>0. Paid /\ provider # "none"
    BY <1>5 DEF RefundSave, Evidence, Taken, Paid
  <2>1. \A v \in Workers : \/ wpc'[v] = wpc[v] /\ job'[v] = job[v]
                           \/ wpc'[v] = "idle"
    BY <1>5 DEF RefundSave, Finish
  <2>2. OneCreator' /\ ChargeKnown' /\ ChargedOnce'
    BY <1>5 DEF RefundSave, OneCreator, Creating, ChargeKnown, ChargedOnce
  <2>3. AnswersKnown' /\ EmitsOutcome'
    BY <1>5, <2>0, <2>1 DEF RefundSave, AnswersKnown, EmitsOutcome
  <2> QED BY <1>5, <2>0, <2>2, <2>3 DEF RefundSave, Paid
<1>6. CASE CloseWrite(w) \/ WorkerDies(w)
  <2>1. \A v \in Workers : \/ wpc'[v] = wpc[v] /\ job'[v] = job[v]
                           \/ wpc'[v] = "idle"
    BY <1>6 DEF CloseWrite, WorkerDies, Finish
  <2>2. OneCreator' /\ ChargeKnown' /\ ChargedOnce'
    BY <1>6 DEF CloseWrite, WorkerDies, OneCreator, Creating, ChargeKnown, ChargedOnce
  <2>3. AnswersKnown' /\ EmitsOutcome'
    BY <1>6, <2>1 DEF CloseWrite, WorkerDies, AnswersKnown, EmitsOutcome
  <2>4. (Evidence => Paid)'
    <3>1. Evidence' => Evidence
      BY <1>6, <2>1 DEF CloseWrite, WorkerDies, Evidence
    <3> QED BY <1>6, <3>1 DEF CloseWrite, WorkerDies, Paid
  <2> QED BY <2>2, <2>3, <2>4
<1> QED BY <1>1, <1>2, <1>3, <1>4, <1>5, <1>6 DEF WorkerStep

-----------------------------------------------------------------------------
(* The theorems *)

\* The invariant behind the four below: one creator per key calls the provider, nobody
\* has an answer before that, and whatever says the money was taken is true.
THEOREM Invariance == Spec => []IInv
<1>1. Init => IInv
  <2> SUFFICES ASSUME Init PROVE IInv
    OBVIOUS
  <2>1. TypeOK
    <3>1. [status |-> "INITIATED", ref |-> FALSE] \in [status : AttemptStates, ref : BOOLEAN]
      BY DEF AttemptStates
    <3>2. cres \in [Creators -> ProviderStates] /\ job \in [Workers -> Jobs]
      BY JobTypes DEF Init, ProviderStates
    <3>3. /\ ops \in 0..MaxOps /\ hooks \in 0..MaxWebhooks /\ faults \in 0..MaxFaults
          /\ initiated \in Nat /\ asked \in Nat
      BY PaymentAssumption DEF Init
    <3> QED BY <3>1, <3>2, <3>3 DEF Init, TypeOK
  <2>2. /\ \A c \in Creators : cpc[c] = "start" /\ cres[c] = "PENDING"
        /\ \A w \in Workers : wpc[w] = "idle"
        /\ provider = "none" /\ initiated = 0 /\ notices = {} /\ asked = 0
        /\ intent = "none" /\ attempt.status = "INITIATED" /\ attempt.ref = FALSE /\ emitted = {}
    BY DEF Init
  <2>3. OneCreator /\ ChargeKnown /\ EmitsOutcome /\ ChargedOnce
    BY <2>2 DEF OneCreator, Creating, ChargeKnown, EmitsOutcome, ChargedOnce
  <2>4. AnswersKnown
    <3>1. ~ attempt.ref
      BY <2>2
    <3>2. \A c \in Creators : cpc[c] # "save"
      BY <2>2
    <3>3. \A w \in Workers : wpc[w] \notin {"apply", "write", "emit"}
      BY <2>2
    <3> QED BY <2>2, <3>1, <3>2, <3>3 DEF AnswersKnown
  <2>5. ~ Evidence
    BY <2>2 DEF Evidence, Taken
  <2> QED BY <2>1, <2>3, <2>4, <2>5 DEF IInv
<1>2. IInv /\ [Next]_vars => IInv'
  <2> SUFFICES ASSUME IInv, [Next]_vars PROVE IInv'
    OBVIOUS
  <2>1. TypeOK'
    BY TypeStep
  <2>2. Safe'
    BY CreatorSafe, ProviderSafe, StartSafe, WorkerSafe DEF Next, Settled, Cron
  <2> QED BY <2>1, <2>2 DEF IInv, Safe
<1> QED BY <1>1, <1>2, PTL DEF Spec

\* The intent, its attempt and the threads on them keep their types: only statuses the
\* orchestrator derives are stored, whatever the provider answers.
THEOREM TypeCorrect == Spec => []TypeOK
<1>1. IInv => TypeOK
  BY DEF IInv
<1> QED BY <1>1, Invariance, PTL

\* createIntent charges the customer at most once per idempotency key, for any number of
\* calls that carry it at the same time.
THEOREM ChargedOnceTheorem == Spec => []ChargedOnce
<1>1. IInv => ChargedOnce
  BY DEF IInv
<1> QED BY <1>1, Invariance, PTL

\* The orchestrator calls a payment SUCCEEDED, and emits its success, only when the
\* provider holds the money: stale, repeated and late answers invent none.
THEOREM SuccessTheorem == Spec => []SuccessIsReal
<1>1. IInv => SuccessIsReal
  BY DEF IInv, Evidence, SuccessIsReal
<1> QED BY <1>1, Invariance, PTL

\* refund asks the provider only for money it has taken.
THEOREM RefundTheorem == Spec => []RefundOfPayment
<1>1. IInv => RefundOfPayment
  BY DEF IInv, Evidence, RefundOfPayment
<1> QED BY <1>1, Invariance, PTL

-----------------------------------------------------------------------------
(* Payment keeps the contract *)

\* createIntent creates the intent, charges, or says what the provider answered.
LEMMA CreatorKeeps ==
    ASSUME IInv, NEW c \in Creators, CreatorStep(c) \/ CreatorDies(c)
    PROVE  [Contract!CNext]_(Contract!contractVars)
<1> USE DEF IInv, TypeOK, Contract!contractVars, dbVars, clockVars, providerVars, creatorVars,
            workerVars, boundVars
<1>1. CASE CreateRow(c)
  <2>1. CASE intent = "none"
    BY <1>1, <2>1 DEF CreateRow, Paid, Contract!CNext, Contract!Say, Contract!SaysTaken
  <2>2. CASE intent # "none"
    BY <1>1, <2>2 DEF CreateRow, Paid
  <2> QED BY <2>1, <2>2
<1>2. CASE Initiate(c)
  <2>1. provider = "none" /\ initiated = 0 /\ intent # "none" /\ ~Paid
    BY <1>2 DEF Initiate, OneCreator, Creating, Paid
  <2>2. UNCHANGED <<intent, emitted, asked>>
    BY <1>2 DEF Initiate
  <2>3. \/ initiated' = 1 /\ Paid' \in BOOLEAN
        \/ UNCHANGED <<initiated, provider>>
    BY <1>2, <2>1 DEF Initiate, Paid
  <2> QED BY <2>1, <2>2, <2>3 DEF Paid, Contract!CNext, Contract!Charge
<1>3. CASE SaveResult(c)
  <2>1. provider # "none" /\ intent # "none" /\ (cres[c] \in Taken => Paid)
    BY <1>3 DEF SaveResult, AnswersKnown, OneCreator, Evidence
  <2>2. PICK s : s = deriveIntentStatusFromProvider(cres[c])
    OBVIOUS
  <2>3. /\ s \in {"PROCESSING"} \cup Terminal /\ s \notin {"CREATED", "PARTIALLY_REFUNDED"}
        /\ s \in {"SUCCEEDED", "REFUNDED"} => Paid
    BY <2>1, <2>2, DerivedStatus
  <2>4. initiated = 1 /\ intent' = s /\ UNCHANGED <<initiated, provider, emitted, asked>>
    BY <1>3, <2>1, <2>2 DEF SaveResult, ChargeKnown
  <2>5. Contract!Say(s)
    BY <2>1, <2>3, <2>4 DEF Contract!Say, Contract!SaysTaken, Paid
  <2> QED BY <2>3, <2>5 DEF Contract!CNext, Contract!SaysTaken, Contract!SaysNot, Terminal
<1>4. CASE SaveError(c)
  <2>1. Contract!Say("FAILED")
    BY <1>4 DEF SaveError, OneCreator, Contract!Say, Contract!SaysTaken, Paid
  <2> QED BY <2>1 DEF Contract!CNext, Contract!SaysNot
<1>5. CASE CreatorDies(c)
  BY <1>5 DEF CreatorDies, Paid
<1> QED BY <1>1, <1>2, <1>3, <1>4, <1>5 DEF CreatorStep

\* The provider collects what it was asked to; the start of a handler is nothing yet.
LEMMA OutsideKeeps ==
    ASSUME IInv,
           \/ ProviderSettles \/ ProviderNotifies \/ TtlPasses \/ LagPasses \/ UNCHANGED vars
           \/ \E w \in Workers : \/ Webhook(w) \/ Confirm(w) \/ Reconcile(w) \/ RefundRead(w)
                                 \/ CancelRead(w) \/ ExpireRead(w) \/ WorkerDies(w)
    PROVE  [Contract!CNext]_(Contract!contractVars)
<1> USE DEF IInv, Contract!contractVars, vars, dbVars, clockVars, providerVars, creatorVars,
            workerVars, boundVars
<1>1. CASE ProviderSettles
  <2>1. initiated = 1 /\ ~Paid /\ UNCHANGED <<initiated, intent, emitted, asked>>
    BY <1>1 DEF ProviderSettles, ChargeKnown, Paid
  <2> QED BY <1>1, <2>1 DEF ProviderSettles, Contract!CNext, Contract!Collect, Paid
<1>2. CASE ProviderNotifies \/ TtlPasses \/ LagPasses \/ UNCHANGED vars
  BY <1>2 DEF ProviderNotifies, TtlPasses, LagPasses, Paid
<1>3. ASSUME NEW w \in Workers,
             \/ Webhook(w) \/ Confirm(w) \/ Reconcile(w) \/ RefundRead(w)
             \/ CancelRead(w) \/ ExpireRead(w) \/ WorkerDies(w)
      PROVE  UNCHANGED Contract!contractVars
  BY <1>3 DEF Webhook, Confirm, Reconcile, RefundRead, CancelRead, ExpireRead, WorkerDies, Paid
<1> QED BY <1>1, <1>2, <1>3

\* A handler says and announces what its evidence covers, and repays what was taken.
LEMMA WorkerKeeps ==
    ASSUME IInv, NEW w \in Workers, WorkerStep(w)
    PROVE  [Contract!CNext]_(Contract!contractVars)
<1> USE DEF IInv, TypeOK, Contract!contractVars, dbVars, clockVars, providerVars, creatorVars,
            workerVars, boundVars
<1>0. job[w].res \in ProviderStates /\ job[w].amt \in Nat
  BY PaymentAssumption DEF Jobs
<1>1. CASE ApplyRead(w)
  BY <1>1 DEF ApplyRead, Paid
<1>2. CASE ApplyWrite(w)
  <2>1. provider # "none" /\ intent # "none" /\ (job[w].res \in Taken => Paid)
    BY <1>2 DEF ApplyWrite, AnswersKnown, OneCreator, Evidence
  <2>2. PICK s : s = deriveIntentStatusFromProvider(job[w].res)
    OBVIOUS
  <2>3. /\ s \in {"PROCESSING"} \cup Terminal /\ s \notin {"CREATED", "PARTIALLY_REFUNDED"}
        /\ s \in {"SUCCEEDED", "REFUNDED"} => Paid
    BY <1>0, <2>1, <2>2, DerivedStatus
  <2>4. initiated = 1 /\ intent' \in {s, intent} /\ UNCHANGED <<initiated, provider, emitted, asked>>
    BY <1>2, <2>1, <2>2 DEF ApplyWrite, ChargeKnown
  <2>5. CASE intent' = intent
    BY <2>4, <2>5 DEF Paid
  <2>6. CASE intent' = s
    <3>1. Contract!Say(s)
      BY <2>1, <2>3, <2>4, <2>6 DEF Contract!Say, Contract!SaysTaken, Paid
    <3> QED BY <2>3, <3>1 DEF Contract!CNext, Contract!SaysTaken, Contract!SaysNot, Terminal
  <2> QED BY <2>4, <2>5, <2>6
<1>3. CASE Emit(w)
  <2>1. provider # "none" /\ (job[w].res \in Taken => Paid)
    BY <1>3 DEF Emit, AnswersKnown, Evidence
  <2>2. PICK s : s = deriveIntentStatusFromProvider(job[w].res)
    OBVIOUS
  <2>3. s \in {"SUCCEEDED", "FAILED"} /\ (s = "SUCCEEDED" => Paid)
    BY <1>3, <2>1, <2>2 DEF Emit, EmitsOutcome, deriveIntentStatusFromProvider, Taken
  <2>4. /\ initiated = 1 /\ emitted' = emitted \cup {s}
        /\ UNCHANGED <<initiated, provider, intent, asked>>
    BY <1>3, <2>1, <2>2 DEF Emit, ChargeKnown
  <2>5. Contract!Announce(s)
    BY <2>3, <2>4 DEF Contract!Announce, Paid
  <2> QED BY <2>3, <2>5 DEF Contract!CNext
<1>4. CASE RefundCall(w)
  <2>1. Paid /\ Paid' /\ UNCHANGED <<initiated, intent, emitted>>
    BY <1>4 DEF RefundCall, Evidence, Paid
  <2>2. asked' \in Nat /\ asked' >= asked /\ (asked' = asked \/ asked' > 0)
    BY <1>0, <1>4 DEF RefundCall
  <2> QED BY <2>1, <2>2 DEF Contract!CNext, Contract!Repay
<1>5. CASE RefundSave(w)
  <2>1. Paid /\ intent # "none"
    BY <1>5 DEF RefundSave, Evidence, OneCreator, Paid
  <2>2. /\ intent' \in {"REFUNDED", "PARTIALLY_REFUNDED"}
        /\ UNCHANGED <<initiated, provider, emitted, asked>>
    BY <1>5 DEF RefundSave
  <2>3. Contract!Say(intent')
    BY <2>1, <2>2 DEF Contract!Say, Paid
  <2> QED BY <2>2, <2>3 DEF Contract!CNext, Contract!SaysTaken
<1>6. CASE CloseWrite(w)
  <2>1. /\ intent' \in {"CANCELLED", "EXPIRED"}
        /\ UNCHANGED <<initiated, provider, emitted, asked>>
    BY <1>6 DEF CloseWrite
  <2>2. intent # "none"
    BY <1>6 DEF CloseWrite, OneCreator
  <2>3. Contract!Say(intent')
    BY <2>1, <2>2 DEF Contract!Say, Contract!SaysTaken, Paid
  <2> QED BY <2>1, <2>3 DEF Contract!CNext, Contract!SaysNot
<1> QED BY <1>1, <1>2, <1>3, <1>4, <1>5, <1>6 DEF WorkerStep

\* Payment implements its contract: each step of a thread, of the provider or of the cron
\* creates, charges, collects, says, announces or repays once, or changes nothing of it.
THEOREM Implements == Spec => ImplementsContract
<1>1. Init => Contract!CInit
  BY DEF Init, Contract!CInit, Paid
<1>2. IInv /\ [Next]_vars => [Contract!CNext]_(Contract!contractVars)
  BY CreatorKeeps, OutsideKeeps, WorkerKeeps DEF Next, Settled, Cron
<1> QED BY <1>1, <1>2, Invariance, PTL DEF Spec, ImplementsContract, Contract!CSpec
=============================================================================
