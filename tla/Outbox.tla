------------------------------- MODULE Outbox -------------------------------
(***************************************************************************)
(* The transactional outbox: rows written by OutboxService.publish inside  *)
(* the transaction of the business change, delivered by one poller per pod *)
(* (OutboxPollerService), and, when they cannot be, parked in the dead     *)
(* letter table that DlqService replays or discards.                       *)
(*                                                                         *)
(* A poller reads a batch of PENDING rows and works from that copy; the    *)
(* FOR UPDATE SKIP LOCKED of its SELECT is a statement of its own, so the  *)
(* row locks are gone when the SELECT returns.  Each await of processEvent *)
(* is a step here.  The payload column is jsonb: PostgreSQL stores the     *)
(* fields in its own order (shorter names first, then bytewise) and the    *)
(* HMAC is computed over JSON.stringify, which keeps the order it is given.*)
(* OUTBOX_HMAC_SECRET is set, as in production.                            *)
(***************************************************************************)
EXTENDS Naturals, Sequences, FiniteSets, TLC

CONSTANTS
    Pods,         \* processes that run a poller
    Rows,         \* identifiers of outbox_events rows
    Handlers,     \* in-process subscribers of the event type
    Payloads,     \* payloads events are published with: sequences of fields
    FieldRank,    \* [field -> Nat]: jsonb's order of field names
    MaxRetries,   \* MAX_RETRIES
    MaxStops      \* bound: pod crashes and database errors per behaviour

ASSUME OutboxAssumption ==
    /\ MaxRetries \in Nat \ {0}
    /\ MaxStops \in Nat
    /\ Rows # {}

VARIABLES
    status,     \* status[e] : "absent" before the insert, then the column
    attempts,   \* attempts[e]: the column
    body,       \* body[e]   : payload the signature was computed over
    typed,      \* typed[e]  : aggregateType is the one that was signed
    ran,        \* ran[e]    : subscribers that completed for this row (history)
    fails,      \* fails[e]  : failed dispatches of this row (history)
    dlq,        \* dlq[e]    : dead letters made from row e, unresolved and resolved
    pc,         \* pc[p]     : step of the poller
    batch,      \* batch[p]  : rows of the SELECT still to process, as read
    cur,        \* cur[p]    : the row being processed, as read
    stops       \* crashes and database errors so far

rowVars == <<status, attempts, body, typed, ran, fails>>
podVars == <<pc, batch, cur>>
vars == <<rowVars, dlq, podVars, stops>>

Jsonb(p) == SortSeq(p, LAMBDA f, g : FieldRank[f] < FieldRank[g])

\* verifyOutboxPayload: the HMAC of what was read equals the stored one.
Verified(e) == typed[e] /\ Jsonb(body[e]) = body[e]

Copies == [id : Rows, attempts : Nat]
Busy == {"dispatch", "publish", "mark", "fail", "reject", "toDlq"}

Init ==
    /\ status = [e \in Rows |-> "absent"]
    /\ attempts = [e \in Rows |-> 0]
    /\ body \in [Rows -> Payloads]
    /\ typed = [e \in Rows |-> TRUE]
    /\ ran = [e \in Rows |-> {}]
    /\ fails = [e \in Rows |-> 0]
    /\ dlq = [e \in Rows |-> [open |-> 0, resolved |-> 0]]
    /\ pc = [p \in Pods |-> "idle"]
    /\ batch = [p \in Pods |-> {}]
    /\ cur = [p \in Pods |-> [id |-> CHOOSE e \in Rows : TRUE, attempts |-> 0]]
    /\ stops = 0

-----------------------------------------------------------------------------
(* OutboxService.publish, in the caller's transaction. *)
Publish(e) ==
    /\ status[e] = "absent"
    /\ status' = [status EXCEPT ![e] = "PENDING"]
    /\ UNCHANGED <<attempts, body, typed, ran, fails, dlq, podVars, stops>>

Selected == {e \in Rows : status[e] = "PENDING" /\ attempts[e] < MaxRetries}

(* poll and the SELECT of processOneBatch: scheduledAt orders the rows and does not
   filter them, so a failed row is due at once; the LIMIT of 50 is above their number. *)
Poll(p) ==
    /\ pc[p] = "idle"
    /\ Selected # {}
    /\ batch' = [batch EXCEPT ![p] =
                   {[id |-> e, attempts |-> attempts[e]] : e \in Selected}]
    /\ pc' = [pc EXCEPT ![p] = "next"]
    /\ UNCHANGED <<rowVars, dlq, cur, stops>>

\* Slip: the signature is checked on the retries only.
TakeRowUnchecked(p) ==
    /\ pc[p] = "next"
    /\ \E c \in batch[p] :
         /\ cur' = [cur EXCEPT ![p] = c]
         /\ batch' = [batch EXCEPT ![p] = @ \ {c}]
         /\ pc' = [pc EXCEPT ![p] = IF c.attempts > 0 => Verified(c.id) THEN "dispatch" ELSE "reject"]
    /\ UNCHANGED <<rowVars, dlq, stops>>

(* The loop: the next row of the batch, or the end of the poll. *)
TakeRow(p) ==
    /\ pc[p] = "next"
    /\ \E c \in batch[p] :
         /\ cur' = [cur EXCEPT ![p] = c]
         /\ batch' = [batch EXCEPT ![p] = @ \ {c}]
         /\ pc' = [pc EXCEPT ![p] = IF Verified(c.id) THEN "dispatch" ELSE "reject"]
    /\ UNCHANGED <<rowVars, dlq, stops>>

EndOfBatch(p) ==
    /\ pc[p] = "next" /\ batch[p] = {}
    /\ pc' = [pc EXCEPT ![p] = "idle"]
    /\ UNCHANGED <<rowVars, dlq, batch, cur, stops>>

(* Promise.all over the subscribers: all complete, or some complete and one throws. *)
Dispatch(p) ==
    /\ pc[p] = "dispatch"
    /\ \E done \in SUBSET Handlers :
         /\ ran' = [ran EXCEPT ![cur[p].id] = @ \cup done]
         /\ pc' = [pc EXCEPT ![p] = IF done = Handlers THEN "publish" ELSE "fail"]
    /\ UNCHANGED <<status, attempts, body, typed, fails, dlq, batch, cur, stops>>

(* Redis fan-out. *)
PublishRedis(p) ==
    /\ pc[p] = "publish"
    /\ pc' \in {[pc EXCEPT ![p] = "mark"], [pc EXCEPT ![p] = "fail"]}
    /\ UNCHANGED <<rowVars, dlq, batch, cur, stops>>

\* Unconditional: the status it overwrites is not read.
MarkDelivered(p) ==
    /\ pc[p] = "mark"
    /\ status' = [status EXCEPT ![cur[p].id] = "DELIVERED"]
    /\ pc' = [pc EXCEPT ![p] = "next"]
    /\ UNCHANGED <<attempts, body, typed, ran, fails, dlq, batch, cur, stops>>

\* The catch block, dead-lettering from limit failures on.
FailAt(p, limit, retryStatus) ==
    /\ pc[p] = "fail"
    /\ LET e == cur[p].id
           n == cur[p].attempts + 1 IN
         /\ fails' = [fails EXCEPT ![e] = @ + 1]
         /\ attempts' = [attempts EXCEPT ![e] = n]
         /\ \/ /\ n >= limit
               /\ status' = [status EXCEPT ![e] = "DEAD"]
               /\ pc' = [pc EXCEPT ![p] = "toDlq"]
            \/ /\ n < limit
               /\ pc' = [pc EXCEPT ![p] = "next"]
               /\ status' = retryStatus
    /\ UNCHANGED <<body, typed, ran, dlq, batch, cur, stops>>

\* Slips: the limit is off by one, on either side; a retry moves the row to FAILED,
\* which the schema lists and no SELECT reads.
FailEarly(p) == FailAt(p, MaxRetries - 1, status)
FailLate(p) == FailAt(p, MaxRetries + 1, status)
FailToFailed(p) == FailAt(p, MaxRetries, [status EXCEPT ![cur[p].id] = "FAILED"])

(* The catch block: the count comes from the copy, not from the row; the last
   attempt makes the row DEAD, an earlier one sets attempts and scheduledAt, which
   no SELECT compares with the clock. *)
Fail(p) == FailAt(p, MaxRetries, status)

(* An invalid signature: DEAD at once. *)
Reject(p) ==
    /\ pc[p] = "reject"
    /\ status' = [status EXCEPT ![cur[p].id] = "DEAD"]
    /\ pc' = [pc EXCEPT ![p] = "toDlq"]
    /\ UNCHANGED <<attempts, body, typed, ran, fails, dlq, batch, cur, stops>>

\* Slip: the dead letter is not created.
ToDlqSkipped(p) ==
    /\ pc[p] = "toDlq"
    /\ pc' = [pc EXCEPT ![p] = "next"]
    /\ UNCHANGED <<rowVars, dlq, batch, cur, stops>>

(* deadLetterEvent.create, a write of its own after the status. *)
ToDlq(p) ==
    /\ pc[p] = "toDlq"
    /\ dlq' = [dlq EXCEPT ![cur[p].id].open = @ + 1]
    /\ pc' = [pc EXCEPT ![p] = "next"]
    /\ UNCHANGED <<rowVars, batch, cur, stops>>

(* A database error on the DELIVERED update is caught like a failed dispatch. *)
MarkFails(p) ==
    /\ pc[p] = "mark" /\ stops < MaxStops
    /\ pc' = [pc EXCEPT ![p] = "fail"]
    /\ stops' = stops + 1
    /\ UNCHANGED <<rowVars, dlq, batch, cur>>

(* The pod dies, or a write of the catch block throws out of the batch. *)
PodStops(p) ==
    /\ pc[p] # "idle" /\ stops < MaxStops
    /\ pc' = [pc EXCEPT ![p] = "idle"]
    /\ batch' = [batch EXCEPT ![p] = {}]
    /\ stops' = stops + 1
    /\ UNCHANGED <<rowVars, dlq, cur>>

-----------------------------------------------------------------------------
(* DlqService.replay: a new PENDING row with the stored payload, and the letter is
   resolved, in one transaction.  resolvedAt is not read, so a resolved letter can
   be replayed again; the aggregate type is only kept for letters made by Fail. *)
Replay(e, n) ==
    /\ status[n] = "absent"
    /\ \/ /\ dlq[e].open > 0
          /\ dlq' = [dlq EXCEPT ![e] = [open |-> @.open - 1, resolved |-> @.resolved + 1]]
       \/ /\ dlq[e].resolved > 0
          /\ UNCHANGED dlq
    /\ status' = [status EXCEPT ![n] = "PENDING"]
    /\ body' = [body EXCEPT ![n] = body[e]]
    /\ typed' = [typed EXCEPT ![n] = Verified(e)]
    /\ UNCHANGED <<attempts, ran, fails, podVars, stops>>

(* DlqService.discard. *)
Discard(e) ==
    /\ dlq[e].open > 0
    /\ dlq' = [dlq EXCEPT ![e] = [open |-> @.open - 1, resolved |-> @.resolved + 1]]
    /\ UNCHANGED <<rowVars, podVars, stops>>

PodStep(p) ==
    \/ Poll(p) \/ TakeRow(p) \/ EndOfBatch(p) \/ Dispatch(p) \/ PublishRedis(p)
    \/ MarkDelivered(p) \/ Fail(p) \/ Reject(p) \/ ToDlq(p)

(* The cron fires and the SELECT returns no row. *)
PollNothing(p) ==
    /\ pc[p] = "idle" /\ Selected = {}
    /\ UNCHANGED vars

Next ==
    \/ \E e \in Rows : Publish(e) \/ Discard(e)
    \/ \E e, n \in Rows : Replay(e, n)
    \/ \E p \in Pods : PodStep(p) \/ PollNothing(p) \/ MarkFails(p) \/ PodStops(p)

Spec == Init /\ [][Next]_vars

\* The cron fires every second on every pod, and every await returns.
FairSpec == Spec /\ \A p \in Pods : WF_vars(PodStep(p))

-----------------------------------------------------------------------------
\* Type correctness; a row never counts more than MAX_RETRIES attempts.
TypeOK ==
    /\ status \in [Rows -> {"absent", "PENDING", "DELIVERED", "DEAD"}]
    /\ attempts \in [Rows -> 0..MaxRetries]
    /\ body \in [Rows -> Payloads]
    /\ typed \in [Rows -> BOOLEAN]
    /\ ran \in [Rows -> SUBSET Handlers]
    /\ fails \in [Rows -> Nat]
    /\ dlq \in [Rows -> [open : Nat, resolved : Nat]]
    /\ pc \in [Pods -> {"idle", "next"} \cup Busy]
    /\ batch \in [Pods -> SUBSET Copies]
    /\ cur \in [Pods -> Copies]
    /\ stops \in 0..MaxStops

\* At-least-once delivery: a row is DELIVERED only after every subscriber has
\* completed for it, even when pods race on it or die in the middle.
DeliveredRanHandlers ==
    \A e \in Rows : status[e] = "DELIVERED" => ran[e] = Handlers

\* A row that verifies is given up only after MAX_RETRIES failed dispatches: lost
\* updates of attempts between pods can add dispatches, never take one away.
NotDeadEarly ==
    \A e \in Rows : status[e] = "DEAD" /\ Verified(e) => fails[e] >= MaxRetries

\* A row given up is kept as a dead letter, or the poller is about to create it: only a
\* stop between the two writes loses the letter, never a race of two pods on the row.
DeadHasLetter ==
    \A e \in Rows : status[e] = "DEAD" /\ stops = 0 =>
        \/ dlq[e].open + dlq[e].resolved > 0
        \/ \E p \in Pods : pc[p] = "toDlq" /\ cur[p].id = e

\* Every row is eventually delivered or given up: retries end, whatever pods race
\* on the attempts column and whichever pod stops.
EveryRowSettles ==
    \A e \in Rows : status[e] = "PENDING" ~> status[e] \in {"DELIVERED", "DEAD"}

-----------------------------------------------------------------------------
(* What makes DeliveredRanHandlers, NotDeadEarly and DeadHasLetter inductive. *)

\* A copy a poller works from is old, but of a row that was inserted, and it never
\* counts more attempts than dispatches of the row have failed.
Copied(c) ==
    status[c.id] # "absent" /\ c.attempts < MaxRetries /\ c.attempts <= fails[c.id]

CopiesHonest ==
    \A p \in Pods :
        /\ \A c \in batch[p] : Copied(c)
        /\ pc[p] \in Busy => Copied(cur[p])

AttemptsFailed == \A e \in Rows : attempts[e] <= fails[e]

\* What a poller found out about its row stays true while it waits.
StepsHonest ==
    \A p \in Pods :
        /\ pc[p] \in {"publish", "mark"} => ran[cur[p].id] = Handlers
        /\ pc[p] = "reject" => ~Verified(cur[p].id)
        /\ pc[p] \in {"dispatch", "publish", "mark", "fail"} => Verified(cur[p].id)

IInv == /\ TypeOK /\ CopiesHonest /\ AttemptsFailed /\ StepsHonest
        /\ DeliveredRanHandlers /\ NotDeadEarly /\ DeadHasLetter

-----------------------------------------------------------------------------
(* The promise to publishers and subscribers. *)

Promise == INSTANCE Delivery WITH fate <- status, heard <- ran, failures <- fails,
               sound <- [e \in Rows |-> Verified(e)]

\* However pods race on a row, die on it or overwrite each other, each of their steps is
\* one step of the promise or none: settled rows never wait again, subscribers hear of
\* rows that verify only, and none is given up early.
ImplementsDelivery == Promise!DSpec
=============================================================================
