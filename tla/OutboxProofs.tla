---------------------------- MODULE OutboxProofs ----------------------------
(***************************************************************************)
(* Proofs that hold for every number of pods, rows and subscribers, every  *)
(* payload and every limit of retries: type correctness, the inductive     *)
(* invariant IInv of Outbox and the safety properties it implies.  What    *)
(* jsonb does to a payload stays abstract: no proof needs it.              *)
(***************************************************************************)
EXTENDS Outbox, TLAPS

-----------------------------------------------------------------------------
(* Type correctness *)

\* The publication, the dead letters and their replay keep the types.
LEMMA TableTypes ==
    ASSUME TypeOK, NEW e \in Rows, NEW n \in Rows,
           Publish(e) \/ Discard(e) \/ Replay(e, n)
    PROVE  TypeOK'
<1> USE DEF TypeOK, vars, rowVars, podVars
<1>0. \A x \in [open : Nat, resolved : Nat] :
          x.open > 0 => [open |-> x.open - 1, resolved |-> x.resolved + 1] \in [open : Nat, resolved : Nat]
  OBVIOUS
<1>1. CASE Publish(e)
  BY <1>1 DEF Publish
<1>2. CASE Discard(e)
  BY <1>0, <1>2 DEF Discard
<1>3. CASE Replay(e, n)
  <2>1. Verified(e) \in BOOLEAN
    BY DEF Verified
  <2>2. typed' \in [Rows -> BOOLEAN]
    BY <1>3, <2>1 DEF Replay
  <2>3. dlq' \in [Rows -> [open : Nat, resolved : Nat]]
    BY <1>0, <1>3 DEF Replay
  <2>4. status' \in [Rows -> {"absent", "PENDING", "DELIVERED", "DEAD"}] /\ body' \in [Rows -> Payloads]
    BY <1>3 DEF Replay
  <2>5. UNCHANGED <<attempts, ran, fails, podVars, stops>>
    BY <1>3 DEF Replay
  <2> QED BY <2>2, <2>3, <2>4, <2>5
<1> QED BY <1>1, <1>2, <1>3

\* The steps of a poller keep the types; a failed attempt is counted from the copy, which
\* is below the limit.
LEMMA PollerTypes ==
    ASSUME TypeOK, CopiesHonest, NEW p \in Pods,
           PodStep(p) \/ PollNothing(p) \/ MarkFails(p) \/ PodStops(p)
    PROVE  TypeOK'
<1> USE OutboxAssumption DEF TypeOK, vars, rowVars, podVars, Busy
<1>0. cur[p].id \in Rows /\ cur[p].attempts \in Nat
  BY DEF Copies
<1>1. CASE Poll(p)
  <2>1. {[id |-> e, attempts |-> attempts[e]] : e \in Selected} \in SUBSET Copies
    BY DEF Selected, Copies
  <2> QED BY <1>1, <2>1 DEF Poll
<1>2. CASE TakeRow(p)
  BY <1>2 DEF TakeRow
<1>3. CASE EndOfBatch(p)
  BY <1>3 DEF EndOfBatch
<1>4. CASE Dispatch(p)
  BY <1>0, <1>4 DEF Dispatch
<1>5. CASE PublishRedis(p)
  BY <1>5 DEF PublishRedis
<1>6. CASE MarkDelivered(p)
  BY <1>0, <1>6 DEF MarkDelivered
<1>7. CASE Fail(p)
  <2>1. cur[p].attempts + 1 \in 0..MaxRetries
    BY <1>0, <1>7 DEF CopiesHonest, Copied, Fail, FailAt
  <2>2. attempts' \in [Rows -> 0..MaxRetries]
    BY <1>7, <2>1 DEF Fail, FailAt
  <2>3. fails' \in [Rows -> Nat]
    BY <1>0, <1>7 DEF Fail, FailAt
  <2>4. /\ status' \in [Rows -> {"absent", "PENDING", "DELIVERED", "DEAD"}]
        /\ pc' \in [Pods -> {"idle", "next"} \cup Busy]
    BY <1>7 DEF Fail, FailAt
  <2>5. UNCHANGED <<body, typed, ran, dlq, batch, cur, stops>>
    BY <1>7 DEF Fail, FailAt
  <2> QED BY <2>2, <2>3, <2>4, <2>5
<1>8. CASE Reject(p)
  BY <1>0, <1>8 DEF Reject
<1>9. CASE ToDlq(p)
  <2>1. [dlq[cur[p].id] EXCEPT !.open = @ + 1] \in [open : Nat, resolved : Nat]
    BY <1>0
  <2>2. dlq' \in [Rows -> [open : Nat, resolved : Nat]]
    <3>1. dlq' = [dlq EXCEPT ![cur[p].id] = [dlq[cur[p].id] EXCEPT !.open = @ + 1]]
      BY <1>0, <1>9 DEF ToDlq
    <3> QED BY <2>1, <3>1
  <2> QED BY <1>9, <2>2 DEF ToDlq
<1>10. CASE PollNothing(p)
  BY <1>10 DEF PollNothing
<1>11. CASE MarkFails(p)
  BY <1>11 DEF MarkFails
<1>12. CASE PodStops(p)
  BY <1>12 DEF PodStops
<1> QED BY <1>1, <1>2, <1>3, <1>4, <1>5, <1>6, <1>7, <1>8, <1>9, <1>10, <1>11, <1>12 DEF PodStep

-----------------------------------------------------------------------------
(* The rest of IInv, step by step *)

\* What the steps below preserve, given the types.
Safe == /\ CopiesHonest /\ AttemptsFailed /\ StepsHonest
        /\ DeliveredRanHandlers /\ NotDeadEarly /\ DeadHasLetter

\* Whether a row verifies is decided when it is inserted.
LEMMA VerifiedStays ==
    ASSUME NEW e, body'[e] = body[e], typed'[e] = typed[e]
    PROVE  Verified(e)' <=> Verified(e)
BY DEF Verified

\* A letter that was made stays, resolved or not.
LEMMA LettersStay ==
    ASSUME TypeOK, NEW e \in Rows, NEW n \in Rows, Discard(e) \/ Replay(e, n)
    PROVE  \A x \in Rows : dlq[x].open + dlq[x].resolved > 0 => dlq'[x].open + dlq'[x].resolved > 0
<1>1. CASE UNCHANGED dlq
  BY <1>1
<1>2. CASE /\ dlq[e].open > 0
           /\ dlq' = [dlq EXCEPT ![e] = [open |-> @.open - 1, resolved |-> @.resolved + 1]]
  <2>1. dlq[e].open \in Nat /\ dlq[e].resolved \in Nat
    BY DEF TypeOK
  <2>2. dlq'[e].open + dlq'[e].resolved = dlq[e].open + dlq[e].resolved
    BY <1>2, <2>1 DEF TypeOK
  <2> QED BY <1>2, <2>1, <2>2 DEF TypeOK
<1> QED BY <1>1, <1>2 DEF Discard, Replay

\* A publication or a replay inserts a row no poller works on; a letter that is
\* resolved is kept.
LEMMA TableSafe ==
    ASSUME IInv, NEW e \in Rows, NEW n \in Rows,
           Publish(e) \/ Discard(e) \/ Replay(e, n)
    PROVE  Safe'
<1> USE DEF IInv, Safe, rowVars, podVars
<1>1. CASE Discard(e)
  <2>1. CopiesHonest' /\ AttemptsFailed' /\ StepsHonest' /\ DeliveredRanHandlers' /\ NotDeadEarly'
    BY <1>1 DEF Discard, CopiesHonest, Copied, AttemptsFailed, StepsHonest, DeliveredRanHandlers,
                NotDeadEarly, Verified
  <2>2. DeadHasLetter'
    BY <1>1, LettersStay DEF Discard, DeadHasLetter
  <2> QED BY <2>1, <2>2
<1>2. CASE Publish(e) \/ Replay(e, n)
  <2>1. PICK m \in Rows :
          /\ status[m] = "absent" /\ status' = [status EXCEPT ![m] = "PENDING"]
          /\ \A x \in Rows : x # m => body'[x] = body[x] /\ typed'[x] = typed[x]
    BY <1>2 DEF Publish, Replay, TypeOK
  <2>2. UNCHANGED <<attempts, ran, fails, podVars, stops>>
    BY <1>2 DEF Publish, Replay
  <2>3. \A x \in Rows : x # m => status'[x] = status[x] /\ (Verified(x)' <=> Verified(x))
    BY <2>1, VerifiedStays DEF TypeOK
  <2>4. status'[m] = "PENDING"
    BY <2>1 DEF TypeOK
  <2>5. ASSUME NEW p \in Pods
        PROVE  cur[p].id \in Rows /\ \A c \in batch[p] : c.id \in Rows
    BY DEF TypeOK, Copies
  <2>6. CopiesHonest' /\ AttemptsFailed'
    BY <2>2, <2>3, <2>4, <2>5 DEF CopiesHonest, Copied, AttemptsFailed
  <2>7. StepsHonest'
    <3> SUFFICES ASSUME NEW p \in Pods
                 PROVE  /\ pc[p] \in {"publish", "mark"} => ran[cur[p].id] = Handlers
                        /\ pc[p] = "reject" => ~ Verified(cur[p].id)'
                        /\ pc[p] \in {"dispatch", "publish", "mark", "fail"} => Verified(cur[p].id)'
      BY <2>2 DEF StepsHonest
    <3>1. pc[p] \in Busy => cur[p].id # m
      BY <2>1 DEF CopiesHonest, Copied
    <3>2. pc[p] \in Busy => (Verified(cur[p].id)' <=> Verified(cur[p].id))
      <4>1. UNCHANGED cur
        BY <2>2
      <4> QED BY <2>1, <2>5, <3>1, <4>1 DEF Verified
    <3> QED BY <3>2 DEF StepsHonest, Busy
  <2>8. DeliveredRanHandlers' /\ NotDeadEarly'
    BY <2>2, <2>3, <2>4 DEF DeliveredRanHandlers, NotDeadEarly
  <2>9. DeadHasLetter'
    <3>1. \A x \in Rows : dlq[x].open + dlq[x].resolved > 0 => dlq'[x].open + dlq'[x].resolved > 0
      BY <1>2, LettersStay DEF Publish
    <3> QED BY <2>2, <2>3, <2>4, <3>1 DEF DeadHasLetter
  <2> QED BY <2>6, <2>7, <2>8, <2>9
<1> QED BY <1>1, <1>2

\* A step of a poller that leaves the rows and the letters alone, and moves to a step
\* whose facts hold.
LEMMA Moves ==
    ASSUME IInv, TypeOK', NEW p \in Pods, UNCHANGED <<rowVars, dlq>>,
           stops' = stops \/ stops' > 0,
           \A q \in Pods : q # p => pc'[q] = pc[q] /\ batch'[q] = batch[q] /\ cur'[q] = cur[q],
           \A c \in batch'[p] : Copied(c),
           pc'[p] \in Busy => Copied(cur'[p]),
           pc'[p] \in {"publish", "mark"} => ran[cur'[p].id] = Handlers,
           pc'[p] = "reject" => ~ Verified(cur'[p].id),
           pc'[p] \in {"dispatch", "publish", "mark", "fail"} => Verified(cur'[p].id),
           stops' = stops /\ pc[p] = "toDlq" => pc'[p] = "toDlq" /\ cur'[p] = cur[p]
    PROVE  Safe'
<1> USE DEF IInv, rowVars
<1>1. \A c : Copied(c)' <=> Copied(c)
  BY DEF Copied
<1>2. \A c : Verified(c)' <=> Verified(c)
  BY DEF Verified
<1>3. CopiesHonest' /\ AttemptsFailed'
  <2> SUFFICES ASSUME NEW q \in Pods
               PROVE  /\ \A c \in batch'[q] : Copied(c)
                      /\ pc'[q] \in Busy => Copied(cur'[q])
    BY DEF CopiesHonest, AttemptsFailed, Copied
  <2> QED BY DEF CopiesHonest
<1>4. StepsHonest'
  <2> SUFFICES ASSUME NEW q \in Pods
               PROVE  /\ pc'[q] \in {"publish", "mark"} => ran[cur'[q].id] = Handlers
                      /\ pc'[q] = "reject" => ~ Verified(cur'[q].id)
                      /\ pc'[q] \in {"dispatch", "publish", "mark", "fail"} => Verified(cur'[q].id)
    BY DEF StepsHonest, Verified
  <2> QED BY DEF StepsHonest
<1>5. DeliveredRanHandlers' /\ NotDeadEarly'
  BY <1>2 DEF DeliveredRanHandlers, NotDeadEarly
<1>6. DeadHasLetter'
  <2> SUFFICES ASSUME NEW e \in Rows, status[e] = "DEAD", stops' = 0
               PROVE  \/ dlq[e].open + dlq[e].resolved > 0
                      \/ \E q \in Pods : pc'[q] = "toDlq" /\ cur'[q].id = e
    BY DEF DeadHasLetter
  <2>1. stops' = stops
    OBVIOUS
  <2> QED BY <2>1 DEF DeadHasLetter
<1> QED BY <1>3, <1>4, <1>5, <1>6 DEF Safe

\* A poller reads and takes rows, publishes, and stops, without touching the tables.
LEMMA PollerReads ==
    ASSUME IInv, TypeOK', NEW p \in Pods,
           \/ Poll(p) \/ TakeRow(p) \/ EndOfBatch(p) \/ PublishRedis(p)
           \/ PollNothing(p) \/ MarkFails(p) \/ PodStops(p)
    PROVE  Safe'
<1> USE DEF IInv, TypeOK, podVars, vars
<1>1. CASE Poll(p)
  <2>1. batch'[p] = {[id |-> e, attempts |-> attempts[e]] : e \in Selected} /\ pc'[p] = "next"
    BY <1>1 DEF Poll
  <2>2. \A e \in Selected : Copied([id |-> e, attempts |-> attempts[e]])
    BY DEF Selected, Copied, AttemptsFailed
  <2>3. \A c \in batch'[p] : Copied(c)
    BY <2>1, <2>2
  <2>4. /\ UNCHANGED <<rowVars, dlq, cur, stops>> /\ pc[p] = "idle"
        /\ \A q \in Pods : q # p => pc'[q] = pc[q] /\ batch'[q] = batch[q]
    BY <1>1 DEF Poll
  <2> QED BY <2>1, <2>3, <2>4, Moves DEF Busy
<1>2. CASE TakeRow(p)
  <2>1. PICK c \in batch[p] :
          /\ cur' = [cur EXCEPT ![p] = c]
          /\ batch' = [batch EXCEPT ![p] = @ \ {c}]
          /\ pc' = [pc EXCEPT ![p] = IF Verified(c.id) THEN "dispatch" ELSE "reject"]
    BY <1>2 DEF TakeRow
  <2>2. /\ UNCHANGED <<rowVars, dlq, stops>> /\ pc[p] = "next"
        /\ \A q \in Pods : q # p => pc'[q] = pc[q] /\ batch'[q] = batch[q] /\ cur'[q] = cur[q]
    BY <1>2, <2>1 DEF TakeRow
  <2>3. /\ cur'[p] = c /\ batch'[p] \subseteq batch[p]
        /\ pc'[p] = IF Verified(c.id) THEN "dispatch" ELSE "reject"
    BY <2>1
  <2> QED BY <2>2, <2>3, Moves DEF CopiesHonest
<1>3. CASE EndOfBatch(p)
  BY <1>3, Moves DEF EndOfBatch, CopiesHonest, Busy
<1>4. CASE PublishRedis(p)
  <2>1. /\ pc[p] = "publish" /\ pc'[p] \in {"mark", "fail"}
        /\ \A q \in Pods : q # p => pc'[q] = pc[q]
        /\ UNCHANGED <<rowVars, dlq, batch, cur, stops>>
    BY <1>4 DEF PublishRedis
  <2> QED BY <2>1, Moves DEF CopiesHonest, StepsHonest, Busy
<1>5. CASE PollNothing(p)
  BY <1>5, Moves DEF PollNothing, CopiesHonest, StepsHonest
<1>6. CASE MarkFails(p)
  BY <1>6, Moves DEF MarkFails, CopiesHonest, StepsHonest, Busy
<1>7. CASE PodStops(p)
  BY <1>7, Moves DEF PodStops, CopiesHonest, Busy
<1> QED BY <1>1, <1>2, <1>3, <1>4, <1>5, <1>6, <1>7

\* The dispatch: only subscribers that completed let the poller go on to DELIVERED.
LEMMA DispatchSafe ==
    ASSUME IInv, NEW p \in Pods, Dispatch(p)
    PROVE  Safe'
<1> USE DEF IInv, TypeOK
<1>1. PICK done \in SUBSET Handlers :
        /\ ran' = [ran EXCEPT ![cur[p].id] = @ \cup done]
        /\ pc' = [pc EXCEPT ![p] = IF done = Handlers THEN "publish" ELSE "fail"]
  BY DEF Dispatch
<1>2. UNCHANGED <<status, attempts, body, typed, fails, dlq, batch, cur, stops>> /\ pc[p] = "dispatch"
  BY DEF Dispatch
<1>3. \A e \in Rows : ran[e] = Handlers => ran'[e] = Handlers
  BY <1>1
<1>4. /\ \A q \in Pods : q # p => pc'[q] = pc[q]
      /\ pc'[p] \in {"publish", "fail"}
      /\ pc'[p] = "publish" => ran'[cur[p].id] = Handlers
  <2>1. cur[p].id \in Rows
    BY DEF Copies
  <2> QED BY <1>1, <2>1
<1>5. CopiesHonest' /\ AttemptsFailed'
  BY <1>2, <1>4 DEF CopiesHonest, Copied, AttemptsFailed, Busy
<1>6. StepsHonest'
  <2>1. \A q \in Pods : cur[q].id \in Rows
    BY DEF Copies
  <2> QED BY <1>2, <1>3, <1>4, <2>1 DEF StepsHonest, Verified
<1>7. DeliveredRanHandlers'
  BY <1>2, <1>3 DEF DeliveredRanHandlers
<1>8. NotDeadEarly' /\ DeadHasLetter'
  BY <1>2, <1>4 DEF NotDeadEarly, DeadHasLetter, Verified
<1> QED BY <1>5, <1>6, <1>7, <1>8 DEF Safe

\* The four writes of a poller: each is covered by what the poller knows of its row.
LEMMA WriteSafe ==
    ASSUME IInv, TypeOK', NEW p \in Pods, MarkDelivered(p) \/ Fail(p) \/ Reject(p) \/ ToDlq(p)
    PROVE  Safe'
<1> DEFINE e == cur[p].id
<1>0. /\ cur[p].id \in Rows /\ cur[p].attempts \in Nat /\ status[cur[p].id] # "absent"
      /\ \A q \in Pods : cur[q].id \in Rows /\ \A c \in batch[q] : c.id \in Rows /\ c.attempts \in Nat
      /\ \A x \in Rows : fails[x] \in Nat
  <2>1. pc[p] \in Busy
    BY DEF MarkDelivered, Fail, FailAt, Reject, ToDlq, Busy
  <2> QED BY <2>1 DEF IInv, TypeOK, Copies, CopiesHonest, Copied
<1>1. CASE MarkDelivered(p)
  <2>1. /\ UNCHANGED <<attempts, body, typed, ran, fails, dlq, batch, cur, stops>>
        /\ pc[p] = "mark" /\ pc'[p] = "next" /\ \A q \in Pods : q # p => pc'[q] = pc[q]
        /\ \A x \in Rows : status'[x] = IF x = cur[p].id THEN "DELIVERED" ELSE status[x]
    BY <1>1 DEF MarkDelivered, IInv, TypeOK
  <2>2. CopiesHonest' /\ AttemptsFailed' /\ StepsHonest'
    BY <1>0, <2>1 DEF IInv, CopiesHonest, Copied, AttemptsFailed, StepsHonest, Verified, Busy
  <2>3. DeliveredRanHandlers' /\ NotDeadEarly' /\ DeadHasLetter'
    BY <1>0, <2>1 DEF IInv, DeliveredRanHandlers, NotDeadEarly, DeadHasLetter, StepsHonest, Verified
  <2> QED BY <2>2, <2>3 DEF Safe
<1>2. CASE Reject(p)
  <2>1. /\ UNCHANGED <<attempts, body, typed, ran, fails, dlq, batch, cur, stops>>
        /\ pc[p] = "reject" /\ pc'[p] = "toDlq" /\ \A q \in Pods : q # p => pc'[q] = pc[q]
        /\ \A x \in Rows : status'[x] = IF x = cur[p].id THEN "DEAD" ELSE status[x]
    BY <1>2 DEF Reject, IInv, TypeOK
  <2>2. CopiesHonest' /\ AttemptsFailed' /\ StepsHonest'
    BY <1>0, <2>1 DEF IInv, CopiesHonest, Copied, AttemptsFailed, StepsHonest, Verified, Busy
  <2>3. DeliveredRanHandlers' /\ NotDeadEarly'
    BY <1>0, <2>1 DEF IInv, DeliveredRanHandlers, NotDeadEarly, StepsHonest, Verified
  <2>4. DeadHasLetter'
    BY <1>0, <2>1 DEF IInv, DeadHasLetter
  <2> QED BY <2>2, <2>3, <2>4 DEF Safe
<1>3. CASE ToDlq(p)
  <2>1. /\ UNCHANGED <<rowVars, batch, cur, stops>>
        /\ pc[p] = "toDlq" /\ pc'[p] = "next" /\ \A q \in Pods : q # p => pc'[q] = pc[q]
        /\ dlq' = [dlq EXCEPT ![cur[p].id].open = @ + 1]
    BY <1>3 DEF ToDlq, IInv, TypeOK
  <2>2. /\ \A x \in Rows : x # cur[p].id => dlq'[x] = dlq[x]
        /\ dlq'[cur[p].id].open + dlq'[cur[p].id].resolved > 0
    <3>1. dlq[cur[p].id] \in [open : Nat, resolved : Nat]
      BY <1>0 DEF IInv, TypeOK
    <3>2. /\ dlq'[cur[p].id].open = dlq[cur[p].id].open + 1
          /\ dlq'[cur[p].id].resolved = dlq[cur[p].id].resolved
      BY <1>0, <2>1, <3>1 DEF IInv, TypeOK
    <3>3. dlq[cur[p].id].open \in Nat /\ dlq[cur[p].id].resolved \in Nat
      BY <3>1
    <3> QED BY <1>0, <2>1, <3>2, <3>3 DEF IInv, TypeOK
  <2>3. CopiesHonest' /\ AttemptsFailed' /\ StepsHonest'
    BY <2>1 DEF IInv, CopiesHonest, Copied, AttemptsFailed, StepsHonest, Verified, Busy, rowVars
  <2>4. DeliveredRanHandlers' /\ NotDeadEarly'
    BY <2>1 DEF IInv, DeliveredRanHandlers, NotDeadEarly, Verified, rowVars
  <2>5. DeadHasLetter'
    BY <1>0, <2>1, <2>2 DEF IInv, DeadHasLetter, rowVars
  <2> QED BY <2>3, <2>4, <2>5 DEF Safe
<1>4. CASE Fail(p)
  <2>1. /\ UNCHANGED <<body, typed, ran, dlq, batch, cur, stops>> /\ pc[p] = "fail"
        /\ fails' = [fails EXCEPT ![cur[p].id] = @ + 1]
        /\ attempts' = [attempts EXCEPT ![cur[p].id] = cur[p].attempts + 1]
        /\ \/ /\ cur[p].attempts + 1 >= MaxRetries
              /\ status' = [status EXCEPT ![cur[p].id] = "DEAD"]
              /\ pc' = [pc EXCEPT ![p] = "toDlq"]
           \/ /\ pc' = [pc EXCEPT ![p] = "next"]
              /\ status' = status
    BY <1>4 DEF Fail, FailAt
  <2>2. /\ \A x \in Rows : /\ x # cur[p].id => fails'[x] = fails[x] /\ attempts'[x] = attempts[x]
                           /\ fails'[x] >= fails[x] /\ fails'[x] \in Nat
        /\ fails'[cur[p].id] = fails[cur[p].id] + 1
        /\ attempts'[cur[p].id] = cur[p].attempts + 1
    BY <1>0, <2>1 DEF IInv, TypeOK
  <2>3. /\ \A q \in Pods : q # p => pc'[q] = pc[q]
        /\ \/ pc'[p] = "next" /\ status' = status
           \/ /\ pc'[p] = "toDlq" /\ cur[p].attempts + 1 >= MaxRetries
              /\ \A x \in Rows : status'[x] = IF x = cur[p].id THEN "DEAD" ELSE status[x]
    BY <1>0, <2>1 DEF IInv, TypeOK
  <2>4. Copied(cur[p])
    BY <2>1 DEF IInv, CopiesHonest, Busy
  <2>5. CopiesHonest'
    <3>1. \A c : c.id \in Rows /\ c.attempts \in Nat /\ Copied(c) => Copied(c)'
      BY <1>0, <2>2, <2>3 DEF Copied
    <3> QED BY <1>0, <2>1, <2>3, <3>1, <2>4 DEF IInv, TypeOK, Copies, CopiesHonest, Busy
  <2>6. AttemptsFailed'
    BY <1>0, <2>2, <2>4 DEF IInv, AttemptsFailed, Copied
  <2>7. StepsHonest' /\ DeliveredRanHandlers'
    BY <1>0, <2>1, <2>3 DEF IInv, StepsHonest, DeliveredRanHandlers, Verified
  <2>8. NotDeadEarly'
    <3>1. cur[p].attempts + 1 >= MaxRetries => fails'[cur[p].id] >= MaxRetries
      BY <1>0, <2>2, <2>4, OutboxAssumption DEF Copied
    <3>2. \A x \in Rows : fails[x] >= MaxRetries => fails'[x] >= MaxRetries
      BY <1>0, <2>2, OutboxAssumption
    <3> QED BY <1>0, <2>1, <2>3, <3>1, <3>2 DEF IInv, NotDeadEarly, Verified
  <2>9. DeadHasLetter'
    BY <1>0, <2>1, <2>3 DEF IInv, DeadHasLetter
  <2> QED BY <2>5, <2>6, <2>7, <2>8, <2>9 DEF Safe
<1> QED BY <1>1, <1>2, <1>3, <1>4

-----------------------------------------------------------------------------
(* The theorems *)

\* The invariant behind the four below: a poller's old copy never counts more failures
\* than its row had, and what it found out about the row stays true while it waits.
THEOREM Invariance == Spec => []IInv
<1>1. Init => IInv
  <2> SUFFICES ASSUME Init PROVE IInv
    OBVIOUS
  <2>1. [id |-> CHOOSE e \in Rows : TRUE, attempts |-> 0] \in Copies
    BY OutboxAssumption DEF Copies
  <2>2. TypeOK
    <3>1. /\ status \in [Rows -> {"absent", "PENDING", "DELIVERED", "DEAD"}]
          /\ attempts \in [Rows -> 0..MaxRetries] /\ fails \in [Rows -> Nat]
          /\ typed \in [Rows -> BOOLEAN] /\ stops \in 0..MaxStops
      BY OutboxAssumption DEF Init
    <3>2. body \in [Rows -> Payloads] /\ ran \in [Rows -> SUBSET Handlers]
      BY DEF Init
    <3>3. dlq \in [Rows -> [open : Nat, resolved : Nat]]
      BY DEF Init
    <3>4. pc \in [Pods -> {"idle", "next"} \cup Busy] /\ batch \in [Pods -> SUBSET Copies]
      BY DEF Init
    <3>5. cur \in [Pods -> Copies]
      BY <2>1 DEF Init
    <3> QED BY <3>1, <3>2, <3>3, <3>4, <3>5 DEF TypeOK
  <2>3. /\ \A e \in Rows : status[e] = "absent" /\ attempts[e] = 0 /\ fails[e] = 0
        /\ \A p \in Pods : pc[p] = "idle" /\ batch[p] = {}
    BY DEF Init
  <2>4. CopiesHonest /\ AttemptsFailed /\ StepsHonest
    BY <2>3 DEF CopiesHonest, AttemptsFailed, StepsHonest, Busy
  <2>5. DeliveredRanHandlers /\ NotDeadEarly /\ DeadHasLetter
    BY <2>3 DEF DeliveredRanHandlers, NotDeadEarly, DeadHasLetter
  <2> QED BY <2>2, <2>4, <2>5 DEF IInv
<1>2. IInv /\ [Next]_vars => IInv'
  <2> SUFFICES ASSUME IInv, [Next]_vars PROVE IInv'
    OBVIOUS
  <2>1. TypeOK'
    <3>1. CASE UNCHANGED vars
      BY <3>1 DEF IInv, TypeOK, vars, rowVars, podVars
    <3> QED BY <3>1, TableTypes, PollerTypes DEF Next, IInv
  <2>2. Safe'
    <3>1. CASE UNCHANGED vars
      BY <3>1 DEF IInv, Safe, CopiesHonest, Copied, AttemptsFailed, StepsHonest,
                  DeliveredRanHandlers, NotDeadEarly, DeadHasLetter, Verified, vars, rowVars, podVars
    <3> QED BY <2>1, <3>1, TableSafe, PollerReads, DispatchSafe, WriteSafe DEF Next, PodStep
  <2> QED BY <2>1, <2>2 DEF IInv, Safe
<1> QED BY <1>1, <1>2, PTL DEF Spec

\* The columns and the pollers' copies keep their types; in particular no row ever counts
\* more than MAX_RETRIES attempts, although pods overwrite each other's counts.
THEOREM TypeCorrect == Spec => []TypeOK
<1>1. IInv => TypeOK
  BY DEF IInv
<1> QED BY <1>1, Invariance, PTL

\* At-least-once delivery of processEvent, for any number of pods and subscribers: a row
\* is DELIVERED only after every subscriber has completed for it.
THEOREM DeliveredTheorem == Spec => []DeliveredRanHandlers
<1>1. IInv => DeliveredRanHandlers
  BY DEF IInv
<1> QED BY <1>1, Invariance, PTL

\* No interleaving of pollers takes a dispatch away: a row that verifies is DEAD only
\* after MAX_RETRIES of them have failed.
THEOREM NotDeadEarlyTheorem == Spec => []NotDeadEarly
<1>1. IInv => NotDeadEarly
  BY DEF IInv
<1> QED BY <1>1, Invariance, PTL

\* Without a stop in between, a row given up has its dead letter, or its poller is about
\* to create it; replays and discards keep the letter.
THEOREM DeadLetterTheorem == Spec => []DeadHasLetter
<1>1. IInv => DeadHasLetter
  BY DEF IInv
<1> QED BY <1>1, Invariance, PTL

-----------------------------------------------------------------------------
(* The outbox keeps its promise *)

\* Publications and replays enqueue one row; what happens to letters is outside the promise.
LEMMA TableKeeps ==
    ASSUME IInv, NEW e \in Rows, NEW n \in Rows,
           Publish(e) \/ Discard(e) \/ Replay(e, n)
    PROVE  [Promise!DNext]_(Promise!deliveryVars)
<1> USE DEF IInv, TypeOK, rowVars, podVars
<1>1. CASE Discard(e)
  <2>1. \A x \in Rows : Verified(x)' = Verified(x)
    BY <1>1 DEF Discard, Verified
  <2> QED BY <1>1, <2>1 DEF Discard, Promise!deliveryVars
<1>2. CASE Publish(e) \/ Replay(e, n)
  <2>1. PICK m \in Rows :
          /\ status[m] = "absent" /\ status' = [status EXCEPT ![m] = "PENDING"]
          /\ \A x \in Rows : x # m => body'[x] = body[x] /\ typed'[x] = typed[x]
    BY <1>2 DEF Publish, Replay
  <2>2. UNCHANGED <<ran, fails>>
    BY <1>2 DEF Publish, Replay
  <2>3. \A x \in Rows : x # m => Verified(x)' = Verified(x)
    BY <2>1 DEF Verified
  <2>4. Verified(m)' \in BOOLEAN
    <3>1. typed'[m] \in BOOLEAN
      BY <1>2 DEF Publish, Replay, Verified
    <3> QED BY <3>1 DEF Verified
  <2>5. [x \in Rows |-> Verified(x)]' = [[x \in Rows |-> Verified(x)] EXCEPT ![m] = Verified(m)']
    BY <2>3
  <2>6. Promise!Enqueue(m)
    BY <2>1, <2>2, <2>4, <2>5 DEF Promise!Enqueue
  <2> QED BY <2>6 DEF Promise!DNext
<1> QED BY <1>1, <1>2

\* A poller acts on a row that was inserted, and past the check on one that verifies.
LEMMA PollerKeeps ==
    ASSUME IInv, NEW p \in Pods,
           PodStep(p) \/ PollNothing(p) \/ MarkFails(p) \/ PodStops(p)
    PROVE  [Promise!DNext]_(Promise!deliveryVars)
<1> USE DEF IInv, TypeOK
<1>0. ASSUME UNCHANGED <<body, typed>>
      PROVE  [x \in Rows |-> Verified(x)]' = [x \in Rows |-> Verified(x)]
  BY <1>0 DEF Verified
<1>1. ASSUME pc[p] \in Busy
      PROVE  cur[p].id \in Rows /\ status[cur[p].id] # "absent"
  BY <1>1 DEF CopiesHonest, Copied, Copies
<1>2. CASE Dispatch(p)
  <2>1. PICK done \in SUBSET Handlers : ran' = [ran EXCEPT ![cur[p].id] = @ \cup done]
    BY <1>2 DEF Dispatch
  <2>2. /\ pc[p] = "dispatch" /\ UNCHANGED <<status, fails, body, typed>>
        /\ cur[p].id \in Rows /\ status[cur[p].id] # "absent" /\ Verified(cur[p].id)
    BY <1>1, <1>2 DEF Dispatch, Busy, StepsHonest
  <2>3. Promise!Hear(cur[p].id, done)
    BY <1>0, <2>1, <2>2 DEF Promise!Hear
  <2> QED BY <2>2, <2>3 DEF Promise!DNext
<1>3. CASE MarkDelivered(p)
  <2>1. /\ UNCHANGED <<ran, fails, body, typed>>
        /\ status' = [status EXCEPT ![cur[p].id] = "DELIVERED"]
        /\ cur[p].id \in Rows /\ status[cur[p].id] # "absent" /\ Verified(cur[p].id)
        /\ ran[cur[p].id] = Handlers
    BY <1>1, <1>3 DEF MarkDelivered, Busy, StepsHonest
  <2>2. Promise!Deliver(cur[p].id)
    BY <1>0, <2>1 DEF Promise!Deliver
  <2> QED BY <2>1, <2>2 DEF Promise!DNext
<1>4. CASE Fail(p)
  <2>1. /\ UNCHANGED <<ran, body, typed>>
        /\ fails' = [fails EXCEPT ![cur[p].id] = @ + 1]
        /\ \/ status' = status
           \/ /\ cur[p].attempts + 1 >= MaxRetries
              /\ status' = [status EXCEPT ![cur[p].id] = "DEAD"]
    BY <1>4 DEF Fail, FailAt
  <2>2. /\ cur[p].id \in Rows /\ status[cur[p].id] # "absent" /\ Verified(cur[p].id)
        /\ cur[p].attempts <= fails[cur[p].id]
    BY <1>1, <1>4 DEF Fail, FailAt, Busy, StepsHonest, CopiesHonest, Copied
  <2>3. CASE status' = status
    <3>1. Promise!FailOnce(cur[p].id)
      BY <1>0, <2>1, <2>2, <2>3 DEF Promise!FailOnce
    <3> QED BY <2>2, <3>1 DEF Promise!DNext
  <2>4. CASE /\ cur[p].attempts + 1 >= MaxRetries
             /\ status' = [status EXCEPT ![cur[p].id] = "DEAD"]
    <3>1. fails[cur[p].id] + 1 >= MaxRetries
      <4>1. fails[cur[p].id] \in Nat /\ cur[p].attempts \in Nat
        BY <2>2 DEF Copies
      <4> QED BY <2>2, <2>4, <4>1, OutboxAssumption
    <3>2. Promise!GiveUp(cur[p].id)
      BY <1>0, <2>1, <2>2, <2>4, <3>1 DEF Promise!GiveUp
    <3> QED BY <2>2, <3>2 DEF Promise!DNext
  <2> QED BY <2>1, <2>3, <2>4
<1>5. CASE Reject(p)
  <2>1. /\ UNCHANGED <<ran, fails, body, typed>>
        /\ status' = [status EXCEPT ![cur[p].id] = "DEAD"]
        /\ cur[p].id \in Rows /\ status[cur[p].id] # "absent" /\ ~Verified(cur[p].id)
    BY <1>1, <1>5 DEF Reject, Busy, StepsHonest
  <2>2. Promise!Condemn(cur[p].id)
    BY <1>0, <2>1 DEF Promise!Condemn
  <2> QED BY <2>1, <2>2 DEF Promise!DNext
<1>6. CASE \/ Poll(p) \/ TakeRow(p) \/ EndOfBatch(p) \/ PublishRedis(p) \/ ToDlq(p)
           \/ PollNothing(p) \/ MarkFails(p) \/ PodStops(p)
  <2>1. UNCHANGED rowVars
    BY <1>6 DEF Poll, TakeRow, EndOfBatch, PublishRedis, ToDlq, PollNothing, MarkFails, PodStops, vars
  <2> QED BY <1>0, <2>1 DEF rowVars, Promise!deliveryVars
<1> QED BY <1>2, <1>3, <1>4, <1>5, <1>6 DEF PodStep

\* The outbox implements Delivery: whatever pods race on a row, die on it or overwrite each
\* other's counts, each of their steps is one step of the promise, or none.
THEOREM Implements == Spec => ImplementsDelivery
<1>1. Init => Promise!DInit
  <2> SUFFICES ASSUME Init PROVE Promise!DInit
    OBVIOUS
  <2>1. \A e \in Rows : Verified(e) \in BOOLEAN
    BY DEF Init, Verified
  <2> QED BY <2>1 DEF Init, Promise!DInit
<1>2. IInv /\ [Next]_vars => [Promise!DNext]_(Promise!deliveryVars)
  <2> SUFFICES ASSUME IInv, [Next]_vars PROVE [Promise!DNext]_(Promise!deliveryVars)
    OBVIOUS
  <2>1. CASE UNCHANGED vars
    <3>1. [x \in Rows |-> Verified(x)]' = [x \in Rows |-> Verified(x)]
      BY <2>1 DEF vars, rowVars, Verified
    <3> QED BY <2>1, <3>1 DEF vars, rowVars, Promise!deliveryVars
  <2> QED BY <2>1, TableKeeps, PollerKeeps DEF Next
<1> QED BY <1>1, <1>2, Invariance, PTL DEF Spec, ImplementsDelivery, Promise!DSpec
=============================================================================
