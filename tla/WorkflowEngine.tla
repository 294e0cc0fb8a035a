--------------------------- MODULE WorkflowEngine ---------------------------
(***************************************************************************)
(* The unified workflow engine: WorkflowEngine.transition() run by several *)
(* concurrent requests against PostgreSQL through LiveWorkflowIO.          *)
(*                                                                         *)
(* A request reads the entity (its snapshot), and then walks through the   *)
(* steps of transition(): the early idempotency check, the configuration,  *)
(* permission and guard checks, and one database transaction that checks   *)
(* the key again, locks the row NOWAIT, compares versions, writes status   *)
(* and history, audits and commits.  Between any two steps other requests  *)
(* run; a request may die at any step, and the client may send it again    *)
(* under the same idempotency key as another request.                      *)
(*                                                                         *)
(* PostgreSQL at READ COMMITTED: what a transaction wrote is seen by the   *)
(* others at its commit, so the writes of 4c and 4d appear in Commit; until*)
(* then they are the row lock and the pending key.  AuditService writes on *)
(* its own connection, so its row is visible at once.                      *)
(***************************************************************************)
EXTENDS Naturals, Sequences

CONSTANTS
    Requests,       \* calls of transition() (a retry is another request)
    Entities,       \* rows of the workflow tables
    States,         \* status values
    InitState,      \* status of a new entity
    Actions,        \* action names
    Perms,          \* permission strings
    Config,         \* active WorkflowConfig rows: [from, action, to, perm]
    Keys,           \* client-chosen Idempotency-Key values
    NoKey,          \* the header is absent
    Actors,         \* acting users
    Granted,        \* RolePermission rows: <<actor, perm>>
    AgencyPerms,    \* permissions whose scope is "agency"
    WithAgency,     \* actors that carry an agencyId
    None            \* no lock holder

ASSUME ConstAssumption ==
    /\ InitState \in States
    /\ Config \subseteq [from : States, action : Actions, to : States, perm : Perms]
    /\ NoKey \notin Keys
    /\ Keys \cap Requests = {}
    /\ None \notin Requests

\* @@unique([tenantId, entityType, fromState, action, version]), one version active.
ASSUME ConfigIsFunction ==
    \A c, d \in Config : c.from = d.from /\ c.action = d.action => c = d

VARIABLES
    status, version, log,   \* committed rows, as in EntityHistory
    lock,      \* lock[e]: request whose transaction holds FOR UPDATE on e
    audit,     \* AuditLog rows: [req, entity, from, to, version]
    pc,        \* pc[r]: next step of transition(), or its outcome
    call,      \* call[r]: the TransitionInput
    snap,      \* snap[r]: status and version the caller read
    reply      \* reply[r]: fromState and toState of the result

hvars == <<status, version, log>>
vars == <<status, version, log, lock, audit, pc, call, snap, reply>>

Running == {"early", "validate", "txCheck", "txLock", "txRecord", "txAudit", "txCommit"}
Outcomes == {"done", "replayed", "rejected", "conflict", "failed"}
\* Steps at which the transaction of 4. holds the row lock.
Locked == {"txRecord", "txAudit", "txCommit"}
\* Steps at which its WorkflowTransition row is inserted but not committed.
Inserted == {"txAudit", "txCommit"}

Tokens == Keys \cup Requests
Rows == [from : States, action : Actions, to : States, key : Tokens]
AuditRows == [req : Requests, entity : Entities, from : States, to : States, version : Nat]
Snapshots == [status : States, version : Nat]
Replies == [from : States, to : States]
Calls == [entity : Entities, action : Actions, actor : Actors, key : Keys \cup {NoKey}]

\* effectiveKey = idempotencyKey ?? randomUUID(): a fresh key is the request's own.
EffectiveKey(r) == IF call[r].key = NoKey THEN r ELSE call[r].key

Fresh(k) == \A e \in Entities : \A i \in 1..Len(log[e]) : log[e][i].key # k

\* What findIdempotentTransition(k) returns when the key is known.
Found(k, ans) ==
    \E e \in Entities : \E i \in 1..Len(log[e]) :
        /\ log[e][i].key = k
        /\ ans = [from |-> log[e][i].from, to |-> log[e][i].to]

\* loadConfig + hasPermission + agency scope + application guards.
Edge(r, c) ==
    /\ c \in Config
    /\ c.from = snap[r].status
    /\ c.action = call[r].action

Permitted(r, c) ==
    /\ <<call[r].actor, c.perm>> \in Granted
    /\ c.perm \in AgencyPerms => call[r].actor \in WithAgency

Unlock(r) == [e \in Entities |-> IF lock[e] = r THEN None ELSE lock[e]]

-----------------------------------------------------------------------------
Init ==
    /\ status = [e \in Entities |-> InitState]
    /\ version = [e \in Entities |-> 0]
    /\ log = [e \in Entities |-> <<>>]
    /\ lock = [e \in Entities |-> None]
    /\ audit = {}
    /\ pc = [r \in Requests |-> "idle"]
    /\ call \in [Requests -> Calls]
    /\ snap = [r \in Requests |-> [status |-> InitState, version |-> 0]]
    /\ reply = [r \in Requests |-> [from |-> InitState, to |-> InitState]]

(* The caller loads the entity and calls transition() on that snapshot. *)
Load(r) ==
    /\ pc[r] = "idle"
    /\ LET e == call[r].entity IN
         snap' = [snap EXCEPT ![r] = [status |-> status[e], version |-> version[e]]]
    /\ pc' = [pc EXCEPT ![r] = "early"]
    /\ UNCHANGED <<hvars, lock, audit, call, reply>>

(* 0. Early exit outside any transaction: a known key is answered from its row. *)
EarlyCheck(r) ==
    /\ pc[r] = "early"
    /\ \/ /\ call[r].key # NoKey
          /\ \E ans \in Replies : Found(call[r].key, ans) /\ reply' = [reply EXCEPT ![r] = ans]
          /\ pc' = [pc EXCEPT ![r] = "replayed"]
       \/ /\ call[r].key = NoKey \/ Fresh(call[r].key)
          /\ pc' = [pc EXCEPT ![r] = "validate"]
          /\ UNCHANGED reply
    /\ UNCHANGED <<hvars, lock, audit, call, snap>>

\* Slip: the verb is stored where the target state belongs.
ValidateStoresVerb(r) ==
    /\ pc[r] = "validate"
    /\ \E c \in Config :
         /\ Edge(r, c) /\ Permitted(r, c)
         /\ reply' = [reply EXCEPT ![r] = [from |-> c.from, to |-> c.action]]
    /\ pc' = [pc EXCEPT ![r] = "txCheck"]
    /\ UNCHANGED <<hvars, lock, audit, call, snap>>

(* 1-3. Configuration, permission, scope and guards, all on the snapshot;
   the guards of the caller are an arbitrary predicate of it.  The edge found
   here fixes the target state.  *)
Validate(r) ==
    /\ pc[r] = "validate"
    /\ \/ \E c \in Config :
             /\ Edge(r, c) /\ Permitted(r, c)
             /\ reply' = [reply EXCEPT ![r] = [from |-> c.from, to |-> c.to]]
             /\ pc' = [pc EXCEPT ![r] = "txCheck"]
       \/ /\ pc' = [pc EXCEPT ![r] = "rejected"]
          /\ UNCHANGED reply
    /\ UNCHANGED <<hvars, lock, audit, call, snap>>

\* Slip: a replay answers with the states computed now, not with the stored ones.
TxCheckOwnReply(r) ==
    /\ pc[r] = "txCheck"
    /\ pc' = [pc EXCEPT ![r] = IF Fresh(EffectiveKey(r)) THEN "txLock" ELSE "replayed"]
    /\ UNCHANGED <<hvars, lock, audit, call, snap, reply>>

(* 4a. The key once more, inside the transaction. *)
TxCheck(r) ==
    /\ pc[r] = "txCheck"
    /\ \/ /\ \E ans \in Replies :
               Found(EffectiveKey(r), ans) /\ reply' = [reply EXCEPT ![r] = ans]
          /\ pc' = [pc EXCEPT ![r] = "replayed"]
       \/ /\ Fresh(EffectiveKey(r))
          /\ pc' = [pc EXCEPT ![r] = "txLock"]
          /\ UNCHANGED reply
    /\ UNCHANGED <<hvars, lock, audit, call, snap>>

\* Slip: the versions are not compared.
TxLockNoVersion(r) ==
    /\ pc[r] = "txLock"
    /\ lock[call[r].entity] = None
    /\ lock' = [lock EXCEPT ![call[r].entity] = r]
    /\ pc' = [pc EXCEPT ![r] = "txRecord"]
    /\ UNCHANGED <<hvars, audit, call, snap, reply>>

\* Slip: FOR UPDATE runs on the pool, not on tx, and its lock ends with the statement.
TxLockOutsideTx(r) ==
    /\ pc[r] = "txLock"
    /\ version[call[r].entity] = snap[r].version
    /\ pc' = [pc EXCEPT ![r] = "txRecord"]
    /\ UNCHANGED <<hvars, lock, audit, call, snap, reply>>

\* Slip: a conflict is retried on the same stale snapshot.
TxLockRetry(r) ==
    /\ pc[r] = "txLock"
    /\ LET ok == lock[call[r].entity] = None /\ version[call[r].entity] = snap[r].version IN
         /\ lock' = IF ok THEN [lock EXCEPT ![call[r].entity] = r] ELSE lock
         /\ pc' = [pc EXCEPT ![r] = IF ok THEN "txRecord" ELSE "txCheck"]
    /\ UNCHANGED <<hvars, audit, call, snap, reply>>

(* 4b. FOR UPDATE NOWAIT: a held lock is an error, never a wait; a version that
   moved since the snapshot is a conflict. *)
TxLock(r) ==
    /\ pc[r] = "txLock"
    /\ LET e == call[r].entity IN
         \/ /\ lock[e] = None
            /\ version[e] = snap[r].version
            /\ lock' = [lock EXCEPT ![e] = r]
            /\ pc' = [pc EXCEPT ![r] = "txRecord"]
         \/ /\ lock[e] # None \/ version[e] # snap[r].version
            /\ pc' = [pc EXCEPT ![r] = "conflict"]
            /\ UNCHANGED lock
    /\ UNCHANGED <<hvars, audit, call, snap, reply>>

\* Slip: no unique index on idempotencyKey.
TxRecordNotUnique(r) ==
    /\ pc[r] = "txRecord"
    /\ pc' = [pc EXCEPT ![r] = "txAudit"]
    /\ UNCHANGED <<hvars, lock, audit, call, snap, reply>>

(* 4c-4d. The status update and the insert of the WorkflowTransition row.  The
   unique index makes the insert wait for a transaction that inserted the same
   key; if that one committed, P2002 aborts this transaction: the second lookup
   of the catch block runs in an aborted transaction, so the error is thrown. *)
TxRecord(r) ==
    /\ pc[r] = "txRecord"
    /\ \A q \in Requests \ {r} : pc[q] \in Inserted => EffectiveKey(q) # EffectiveKey(r)
    /\ \/ /\ Fresh(EffectiveKey(r))
          /\ pc' = [pc EXCEPT ![r] = "txAudit"]
          /\ UNCHANGED lock
       \/ /\ ~Fresh(EffectiveKey(r))
          /\ pc' = [pc EXCEPT ![r] = "failed"]
          /\ lock' = Unlock(r)
    /\ UNCHANGED <<hvars, audit, call, snap, reply>>

(* 4e. AuditService.record: its own connection, errors swallowed. *)
TxAudit(r) ==
    /\ pc[r] = "txAudit"
    /\ audit' \in {audit, audit \cup {[req |-> r, entity |-> call[r].entity,
                                       from |-> snap[r].status, to |-> reply[r].to,
                                       version |-> snap[r].version + 1]}}
    /\ pc' = [pc EXCEPT ![r] = "txCommit"]
    /\ UNCHANGED <<hvars, lock, call, snap, reply>>

\* Slip: the history row is never written.
CommitNoLog(r) ==
    /\ pc[r] = "txCommit"
    /\ status' = [status EXCEPT ![call[r].entity] = reply[r].to]
    /\ version' = [version EXCEPT ![call[r].entity] = @ + 1]
    /\ lock' = Unlock(r)
    /\ pc' = [pc EXCEPT ![r] = "done"]
    /\ UNCHANGED <<log, audit, call, snap, reply>>

(* 4f and COMMIT: the side-effects succeeded, everything becomes visible. *)
Commit(r) ==
    /\ pc[r] = "txCommit"
    /\ LET e == call[r].entity IN
         /\ status' = [status EXCEPT ![e] = reply[r].to]
         /\ version' = [version EXCEPT ![e] = @ + 1]
         /\ log' = [log EXCEPT ![e] =
                      Append(@, [from |-> snap[r].status, action |-> call[r].action,
                                 to |-> reply[r].to, key |-> EffectiveKey(r)])]
    /\ lock' = Unlock(r)
    /\ pc' = [pc EXCEPT ![r] = "done"]
    /\ UNCHANGED <<audit, call, snap, reply>>

(* The request dies: a persist callback or side-effect throws, the transaction
   times out, the connection or the pod is lost.  PostgreSQL rolls back. *)
Abort(r) ==
    /\ pc[r] \in Running
    /\ pc' = [pc EXCEPT ![r] = "failed"]
    /\ lock' = Unlock(r)
    /\ UNCHANGED <<hvars, audit, call, snap, reply>>

Step(r) ==
    \/ EarlyCheck(r) \/ Validate(r) \/ TxCheck(r) \/ TxLock(r)
    \/ TxRecord(r) \/ TxAudit(r) \/ Commit(r)

Terminated == /\ \A r \in Requests : pc[r] \in Outcomes
              /\ UNCHANGED vars

Next == \/ \E r \in Requests : Load(r) \/ Step(r) \/ Abort(r)
        \/ Terminated

Spec == Init /\ [][Next]_vars

\* Node runs every pending continuation and PostgreSQL answers every statement.
FairSpec == Spec /\ \A r \in Requests : WF_vars(Step(r))

-----------------------------------------------------------------------------
\* Type correctness of the tables and of the requests in flight.
TypeOK ==
    /\ status \in [Entities -> States]
    /\ version \in [Entities -> Nat]
    /\ log \in [Entities -> Seq(Rows)]
    /\ lock \in [Entities -> Requests \cup {None}]
    /\ audit \subseteq AuditRows
    /\ pc \in [Requests -> {"idle"} \cup Running \cup Outcomes]
    /\ call \in [Requests -> Calls]
    /\ snap \in [Requests -> Snapshots]
    /\ reply \in [Requests -> Replies]

\* The history of an entity is one unbroken walk from its creation to its current
\* status, and the version counts its steps: no concurrent request ever applies a
\* transition computed from a state that another request has left (engine 4b-4d).
HistoryChained ==
    \A e \in Entities :
        /\ version[e] = Len(log[e])
        /\ \A i \in 1..Len(log[e]) :
             /\ log[e][i].from = IF i = 1 THEN InitState ELSE log[e][i - 1].to
             /\ i = Len(log[e]) => status[e] = log[e][i].to
        /\ Len(log[e]) = 0 => status[e] = InitState

\* An idempotency key drives at most one transition, of any entity, whatever the
\* retries and their interleaving (engine 0, 4a, 4d with the unique index).
KeyAppliedOnce ==
    \A e, f \in Entities : \A i \in 1..Len(log[e]), j \in 1..Len(log[f]) :
        log[e][i].key = log[f][j].key => e = f /\ i = j

\* A transition acknowledged to its caller is in the history of that entity under
\* the caller's key, for that action and with the states that were returned.
AcknowledgedIsLogged ==
    \A r \in Requests : pc[r] = "done" =>
        LET h == log[call[r].entity] IN
        \E i \in 1..Len(h) :
            h[i] = [from |-> reply[r].from, action |-> call[r].action,
                    to |-> reply[r].to, key |-> EffectiveKey(r)]

\* Two requests under one key that are both answered get the same answer, even
\* when one of them ran the transition and the other met its row at step 0 or 4a.
SameKeySameReply ==
    \A r, q \in Requests :
        /\ pc[r] \in {"done", "replayed"} /\ pc[q] \in {"done", "replayed"}
        /\ call[r].key # NoKey /\ call[r].key = call[q].key
        => reply[r] = reply[q]

\* Every request that reached transition() is answered: NOWAIT and the version
\* check never leave one waiting for another.
EveryRequestAnswered ==
    \A r \in Requests : pc[r] \in Running ~> pc[r] \in Outcomes

\* The refinement mapping: the committed rows are the abstract history.
History == INSTANCE EntityHistory WITH Entities <- Entities, InitState <- InitState,
               Config <- Config, Tokens <- Tokens,
               status <- status, version <- version, log <- log

\* The engine implements the abstract history: every commit is one atomic, allowed
\* transition under an unused key, and no other step touches an entity.
ImplementsHistory == History!HSpec

-----------------------------------------------------------------------------
(* What makes HistoryChained and KeyAppliedOnce inductive. *)

\* A snapshot is never ahead of the row, and at equal versions it is the row.
SnapshotCoherent ==
    \A r \in Requests : pc[r] # "idle" =>
        LET e == call[r].entity IN
        /\ snap[r].version <= version[e]
        /\ snap[r].version = version[e] => snap[r].status = status[e]

\* Inside the transaction the request holds the lock and its snapshot is the row.
LockProtects ==
    \A r \in Requests :
        /\ pc[r] \in Locked =>
             /\ lock[call[r].entity] = r
             /\ snap[r].version = version[call[r].entity]
        /\ \A e \in Entities : lock[e] = r => pc[r] \in Locked /\ call[r].entity = e

\* From the permission check on, the target comes from an edge that leaves the snapshot.
EdgeChosen ==
    \A r \in Requests : pc[r] \in {"txCheck", "txLock"} \cup Locked =>
        \E c \in Config : /\ Edge(r, c) /\ reply[r] = [from |-> c.from, to |-> c.to]

\* The keys of open transactions are unused and differ from each other.
KeysReserved ==
    /\ \A r \in Requests : pc[r] \in Inserted => Fresh(EffectiveKey(r))
    /\ \A r, q \in Requests :
         pc[r] \in Inserted /\ pc[q] \in Inserted /\ r # q
            => EffectiveKey(r) # EffectiveKey(q)

IInv ==
    /\ TypeOK /\ HistoryChained /\ KeyAppliedOnce
    /\ SnapshotCoherent /\ LockProtects /\ EdgeChosen /\ KeysReserved

(* What makes AcknowledgedIsLogged and SameKeySameReply inductive. *)

\* A request that met its key answered with the states of the row under that key.
ReplaysStored ==
    \A r \in Requests : pc[r] = "replayed" => Found(EffectiveKey(r), reply[r])

AnswerInv == IInv /\ AcknowledgedIsLogged /\ ReplaysStored
=============================================================================
