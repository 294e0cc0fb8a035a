------------------------ MODULE WorkflowEngineProofs ------------------------
(***************************************************************************)
(* Proofs that hold for every set of requests, entities, keys and every    *)
(* transition table: type correctness, the inductive invariant IInv of     *)
(* WorkflowEngine, that the engine implements EntityHistory, and what      *)
(* transition() answers: an acknowledged transition is in the history, and *)
(* requests under one idempotency key get one answer.                      *)
(***************************************************************************)
EXTENDS WorkflowEngine, TLAPS

\* The key a request writes is a token: the client's, or its own random one.
LEMMA EffectiveKeyType ==
    ASSUME TypeOK, NEW r \in Requests
    PROVE  EffectiveKey(r) \in Tokens
  BY DEF TypeOK, EffectiveKey, Tokens, Calls

\* Every step keeps the tables and the requests well typed.
LEMMA TypeStep ==
    ASSUME TypeOK, [Next]_vars
    PROVE  TypeOK'
<1> USE ConstAssumption DEF Running, Outcomes
<1>1. ASSUME NEW r \in Requests, Load(r) PROVE TypeOK'
  BY <1>1 DEF TypeOK, Load, hvars, Calls, Snapshots
<1>2. ASSUME NEW r \in Requests, EarlyCheck(r) PROVE TypeOK'
  <2>1. reply' \in [Requests -> Replies]
    BY <1>2 DEF TypeOK, EarlyCheck
  <2>2. pc' \in [Requests -> {"idle"} \cup Running \cup Outcomes]
    BY <1>2 DEF TypeOK, EarlyCheck
  <2> QED
    BY <1>2, <2>1, <2>2 DEF TypeOK, EarlyCheck, hvars
<1>3. ASSUME NEW r \in Requests, Validate(r) PROVE TypeOK'
  <2>1. reply' \in [Requests -> Replies]
    <3>1. \A c \in Config : [from |-> c.from, to |-> c.to] \in Replies
      BY DEF Replies
    <3>2. \/ reply' = reply
          \/ \E c \in Config : reply' = [reply EXCEPT ![r] = [from |-> c.from, to |-> c.to]]
      BY <1>3 DEF Validate
    <3> QED
      BY <3>1, <3>2 DEF TypeOK
  <2>2. pc' \in [Requests -> {"idle"} \cup Running \cup Outcomes]
    BY <1>3 DEF TypeOK, Validate
  <2> QED
    BY <1>3, <2>1, <2>2 DEF TypeOK, Validate, hvars
<1>4. ASSUME NEW r \in Requests, TxCheck(r) PROVE TypeOK'
  <2>1. reply' \in [Requests -> Replies]
    BY <1>4 DEF TypeOK, TxCheck
  <2>2. pc' \in [Requests -> {"idle"} \cup Running \cup Outcomes]
    BY <1>4 DEF TypeOK, TxCheck
  <2> QED
    BY <1>4, <2>1, <2>2 DEF TypeOK, TxCheck, hvars
<1>5. ASSUME NEW r \in Requests, TxLock(r) PROVE TypeOK'
  <2>1. lock' \in [Entities -> Requests \cup {None}]
    <3>1. lock \in [Entities -> Requests \cup {None}]
      BY DEF TypeOK
    <3>2. lock' = lock \/ lock' = [lock EXCEPT ![call[r].entity] = r]
      BY <1>5 DEF TxLock
    <3> QED
      BY <3>1, <3>2
  <2>2. pc' \in [Requests -> {"idle"} \cup Running \cup Outcomes]
    BY <1>5 DEF TypeOK, TxLock
  <2> QED
    BY <1>5, <2>1, <2>2 DEF TypeOK, TxLock, hvars
<1>6. ASSUME NEW r \in Requests, TxRecord(r) PROVE TypeOK'
  BY <1>6 DEF TypeOK, TxRecord, hvars, Unlock
<1>7. ASSUME NEW r \in Requests, TxAudit(r) PROVE TypeOK'
  BY <1>7 DEF TypeOK, TxAudit, hvars, Calls, Snapshots, Replies, AuditRows
<1>8. ASSUME NEW r \in Requests, Commit(r) PROVE TypeOK'
  <2> DEFINE e == call[r].entity
             row == [from |-> snap[r].status, action |-> call[r].action,
                     to |-> reply[r].to, key |-> EffectiveKey(r)]
  <2>1. e \in Entities /\ row \in Rows
    BY EffectiveKeyType DEF TypeOK, Calls, Snapshots, Replies, Rows
  <2>2. status' \in [Entities -> States] /\ version' \in [Entities -> Nat]
    BY <1>8, <2>1 DEF TypeOK, Commit, Replies
  <2>3. log' \in [Entities -> Seq(Rows)]
    <3>1. log' = [log EXCEPT ![e] = Append(@, row)]
      BY <1>8 DEF Commit
    <3>2. Append(log[e], row) \in Seq(Rows)
      BY <2>1 DEF TypeOK
    <3> QED
      BY <2>1, <3>1, <3>2 DEF TypeOK
  <2>4. /\ lock' \in [Entities -> Requests \cup {None}]
        /\ pc' \in [Requests -> {"idle"} \cup Running \cup Outcomes]
    BY <1>8 DEF TypeOK, Commit, Unlock
  <2> QED
    BY <1>8, <2>2, <2>3, <2>4 DEF TypeOK, Commit
<1>9. ASSUME NEW r \in Requests, Abort(r) PROVE TypeOK'
  BY <1>9 DEF TypeOK, Abort, hvars, Unlock
<1>10. CASE UNCHANGED vars
  BY <1>10 DEF TypeOK, vars
<1> QED
  BY <1>1, <1>2, <1>3, <1>4, <1>5, <1>6, <1>7, <1>8, <1>9, <1>10
     DEF Next, Step, Terminated

\* The tables and the requests in flight are always well typed.
THEOREM TypeCorrect == Spec => []TypeOK
<1>1. Init => TypeOK
  BY ConstAssumption DEF Init, TypeOK, Replies, Snapshots
<1>2. TypeOK /\ [Next]_vars => TypeOK'
  BY TypeStep
<1> QED
  BY <1>1, <1>2, PTL DEF Spec

-----------------------------------------------------------------------------
(* IInv is inductive.  Every action but Commit leaves the tables alone. *)

\* The actions of a request that write no entity and no history row.
Quiet(r) == \/ Load(r) \/ EarlyCheck(r) \/ Validate(r) \/ TxCheck(r) \/ TxLock(r)
            \/ TxRecord(r) \/ TxAudit(r) \/ Abort(r)

\* A quiet action leaves status, version and history of every entity alone.
LEMMA QuietTables ==
    ASSUME NEW r \in Requests, Quiet(r)
    PROVE  UNCHANGED hvars /\ UNCHANGED call
  BY DEF Quiet, Load, EarlyCheck, Validate, TxCheck, TxLock, TxRecord, TxAudit, Abort

\* What the quiet actions do to the requests: only the one that moves changes.
LEMMA QuietLocal ==
    ASSUME TypeOK, NEW r \in Requests, Quiet(r), NEW q \in Requests, q # r
    PROVE  pc'[q] = pc[q] /\ snap'[q] = snap[q] /\ reply'[q] = reply[q]
<1>1. CASE Load(r) BY <1>1 DEF TypeOK, Load
<1>2. CASE EarlyCheck(r) BY <1>2 DEF TypeOK, EarlyCheck
<1>3. CASE Validate(r) BY <1>3 DEF TypeOK, Validate
<1>4. CASE TxCheck(r) BY <1>4 DEF TypeOK, TxCheck
<1>5. CASE TxLock(r) BY <1>5 DEF TypeOK, TxLock
<1>6. CASE TxRecord(r) BY <1>6 DEF TypeOK, TxRecord
<1>7. CASE TxAudit(r) BY <1>7 DEF TypeOK, TxAudit
<1>8. CASE Abort(r) BY <1>8 DEF TypeOK, Abort
<1> QED BY <1>1, <1>2, <1>3, <1>4, <1>5, <1>6, <1>7, <1>8 DEF Quiet

\* A quiet action keeps the snapshots coherent: Load takes the row as it is.
LEMMA QuietSnapshot ==
    ASSUME IInv, NEW r \in Requests, Quiet(r)
    PROVE  SnapshotCoherent'
<1> SUFFICES ASSUME NEW q \in Requests, pc'[q] # "idle"
             PROVE  /\ snap'[q].version <= version'[call'[q].entity]
                    /\ snap'[q].version = version'[call'[q].entity]
                         => snap'[q].status = status'[call'[q].entity]
  BY DEF SnapshotCoherent
<1>0. TypeOK /\ SnapshotCoherent /\ UNCHANGED <<status, version, call>>
  BY QuietTables DEF IInv, hvars
<1>1. CASE q # r
  BY <1>0, <1>1, QuietLocal DEF SnapshotCoherent
<1>2. CASE q = r /\ Load(r)
  <2>1. snap'[r] = [status |-> status[call[r].entity], version |-> version[call[r].entity]]
    BY <1>0, <1>2 DEF Load, TypeOK
  <2>2. version[call[r].entity] \in Nat
    BY <1>0 DEF TypeOK, Calls
  <2> QED
    BY <1>0, <1>2, <2>1, <2>2
<1>3. CASE q = r /\ ~Load(r)
  <2>1. pc[r] # "idle" /\ snap' = snap
    BY <1>3 DEF Quiet, EarlyCheck, Validate, TxCheck, TxLock, TxRecord, TxAudit,
                Abort, Running
  <2> QED
    BY <1>0, <1>3, <2>1 DEF SnapshotCoherent
<1> QED BY <1>1, <1>2, <1>3

\* A quiet action keeps the locks with their transactions.
LEMMA QuietLock ==
    ASSUME IInv, NEW r \in Requests, Quiet(r)
    PROVE  LockProtects'
<1> DEFINE e == call[r].entity
<1>0. /\ TypeOK /\ LockProtects /\ UNCHANGED <<version, call>>
      /\ \A q \in Requests : q # r => pc'[q] = pc[q] /\ snap'[q] = snap[q]
  BY QuietTables, QuietLocal DEF IInv, hvars
<1>1. CASE lock' = lock /\ pc[r] \notin Locked /\ pc'[r] \notin Locked
  BY <1>0, <1>1 DEF LockProtects
<1>2. CASE lock' = lock /\ snap' = snap /\ pc[r] \in Locked /\ pc'[r] \in Locked
  BY <1>0, <1>2 DEF LockProtects
<1>3. CASE lock' = Unlock(r) /\ pc'[r] \notin Locked
  <2>1. \A f \in Entities : lock'[f] = IF lock[f] = r THEN None ELSE lock[f]
    BY <1>3 DEF Unlock
  <2>2. \A f \in Entities : lock'[f] # r
    BY <2>1, ConstAssumption
  <2>3. \A q \in Requests : call[q].entity \in Entities
    BY <1>0 DEF TypeOK, Calls
  <2> QED
    BY <1>0, <1>3, <2>1, <2>2, <2>3, ConstAssumption DEF LockProtects
<1>4. CASE /\ lock[e] = None /\ version[e] = snap[r].version
           /\ lock' = [lock EXCEPT ![e] = r] /\ snap' = snap
           /\ pc[r] = "txLock" /\ pc'[r] = "txRecord"
  <2>1. e \in Entities /\ \A q \in Requests : call[q].entity \in Entities
    BY <1>0 DEF TypeOK, Calls
  <2>2. \A f \in Entities : lock'[f] = IF f = e THEN r ELSE lock[f]
    BY <1>0, <1>4 DEF TypeOK
  <2> QED
    BY <1>0, <1>4, <2>1, <2>2, ConstAssumption DEF LockProtects, Locked
<1>5. \/ lock' = lock /\ pc[r] \notin Locked /\ pc'[r] \notin Locked
      \/ lock' = lock /\ snap' = snap /\ pc[r] \in Locked /\ pc'[r] \in Locked
      \/ lock' = Unlock(r) /\ pc'[r] \notin Locked
      \/ /\ lock[e] = None /\ version[e] = snap[r].version
         /\ lock' = [lock EXCEPT ![e] = r] /\ snap' = snap
         /\ pc[r] = "txLock" /\ pc'[r] = "txRecord"
  <2> USE <1>0 DEF Locked
  <2>1. CASE Load(r) BY <2>1 DEF TypeOK, Load
  <2>2. CASE EarlyCheck(r) BY <2>2 DEF TypeOK, EarlyCheck
  <2>3. CASE Validate(r) BY <2>3 DEF TypeOK, Validate
  <2>4. CASE TxCheck(r) BY <2>4 DEF TypeOK, TxCheck
  <2>5. CASE TxLock(r) BY <2>5 DEF TypeOK, TxLock
  <2>6. CASE TxRecord(r) BY <2>6 DEF TypeOK, TxRecord
  <2>7. CASE TxAudit(r) BY <2>7 DEF TypeOK, TxAudit
  <2>8. CASE Abort(r) BY <2>8 DEF TypeOK, Abort
  <2> QED BY <2>1, <2>2, <2>3, <2>4, <2>5, <2>6, <2>7, <2>8 DEF Quiet
<1> QED BY <1>1, <1>2, <1>3, <1>4, <1>5

\* A quiet action keeps the chosen edges: only Validate chooses one.
LEMMA QuietEdge ==
    ASSUME IInv, NEW r \in Requests, Quiet(r)
    PROVE  EdgeChosen'
<1> DEFINE Chosen == {"txCheck", "txLock"} \cup Locked
<1>0. /\ TypeOK /\ EdgeChosen /\ UNCHANGED call
      /\ \A q \in Requests : q # r => pc'[q] = pc[q] /\ snap'[q] = snap[q] /\ reply'[q] = reply[q]
  BY QuietTables, QuietLocal DEF IInv
<1>1. \/ pc'[r] \notin Chosen
      \/ pc[r] \in Chosen /\ reply'[r] = reply[r] /\ snap'[r] = snap[r]
      \/ /\ snap'[r] = snap[r]
         /\ \E c \in Config : Edge(r, c) /\ reply'[r] = [from |-> c.from, to |-> c.to]
  <2> USE <1>0 DEF Locked
  <2>1. CASE Load(r) BY <2>1 DEF TypeOK, Load
  <2>2. CASE EarlyCheck(r) BY <2>2 DEF TypeOK, EarlyCheck
  <2>3. CASE Validate(r) BY <2>3 DEF TypeOK, Validate
  <2>4. CASE TxCheck(r) BY <2>4 DEF TypeOK, TxCheck
  <2>5. CASE TxLock(r) BY <2>5 DEF TypeOK, TxLock
  <2>6. CASE TxRecord(r) BY <2>6 DEF TypeOK, TxRecord
  <2>7. CASE TxAudit(r) BY <2>7 DEF TypeOK, TxAudit
  <2>8. CASE Abort(r) BY <2>8 DEF TypeOK, Abort
  <2> QED BY <2>1, <2>2, <2>3, <2>4, <2>5, <2>6, <2>7, <2>8 DEF Quiet
<1> QED
  BY <1>0, <1>1 DEF EdgeChosen, Edge

\* A quiet action keeps the inserted keys unused and apart: the insert waits.
LEMMA QuietKeys ==
    ASSUME IInv, NEW r \in Requests, Quiet(r)
    PROVE  KeysReserved'
<1>0. /\ TypeOK /\ KeysReserved /\ UNCHANGED <<log, call>>
      /\ \A q \in Requests : q # r => pc'[q] = pc[q]
  BY QuietTables, QuietLocal DEF IInv, hvars
<1>1. \A k : Fresh(k)' <=> Fresh(k)
  BY <1>0 DEF Fresh
<1>2. \A q \in Requests : EffectiveKey(q)' = EffectiveKey(q)
  BY <1>0 DEF EffectiveKey
<1>3. \/ pc'[r] \notin Inserted
      \/ pc[r] \in Inserted
      \/ /\ Fresh(EffectiveKey(r))
         /\ \A q \in Requests \ {r} : pc[q] \in Inserted => EffectiveKey(q) # EffectiveKey(r)
  <2> USE <1>0 DEF Inserted
  <2>1. CASE Load(r) BY <2>1 DEF TypeOK, Load
  <2>2. CASE EarlyCheck(r) BY <2>2 DEF TypeOK, EarlyCheck
  <2>3. CASE Validate(r) BY <2>3 DEF TypeOK, Validate
  <2>4. CASE TxCheck(r) BY <2>4 DEF TypeOK, TxCheck
  <2>5. CASE TxLock(r) BY <2>5 DEF TypeOK, TxLock
  <2>6. CASE TxRecord(r) BY <2>6 DEF TypeOK, TxRecord
  <2>7. CASE TxAudit(r) BY <2>7 DEF TypeOK, TxAudit
  <2>8. CASE Abort(r) BY <2>8 DEF TypeOK, Abort
  <2> QED BY <2>1, <2>2, <2>3, <2>4, <2>5, <2>6, <2>7, <2>8 DEF Quiet
<1> QED
  BY <1>0, <1>1, <1>2, <1>3 DEF KeysReserved

-----------------------------------------------------------------------------
(* The commit.  The lock makes the snapshot the row, so the new history row
   continues the old history; the reserved key makes it the only one. *)

\* What a commit writes, in terms of the state before it.
LEMMA CommitWrites ==
    ASSUME IInv, NEW r \in Requests, Commit(r)
    PROVE  LET e == call[r].entity IN
           /\ e \in Entities
           /\ lock[e] = r
           /\ snap[r].status = status[e]
           /\ Fresh(EffectiveKey(r))
           /\ \E c \in Config :
                /\ c.from = status[e] /\ c.action = call[r].action /\ c.to = reply[r].to
                /\ status' = [status EXCEPT ![e] = c.to]
                /\ version' = [version EXCEPT ![e] = @ + 1]
                /\ log' = [log EXCEPT ![e] =
                             Append(@, [from |-> c.from, action |-> c.action,
                                        to |-> c.to, key |-> EffectiveKey(r)])]
<1> DEFINE e == call[r].entity
<1>1. pc[r] = "txCommit" /\ pc[r] \in Locked /\ pc[r] \in Inserted
  BY DEF Commit, Locked, Inserted
<1>2. e \in Entities /\ lock[e] = r /\ snap[r].version = version[e] /\ Fresh(EffectiveKey(r))
  BY <1>1 DEF IInv, TypeOK, Calls, LockProtects, KeysReserved
<1>3. snap[r].status = status[e]
  BY <1>1, <1>2 DEF IInv, SnapshotCoherent
<1>4. PICK c \in Config : Edge(r, c) /\ reply[r] = [from |-> c.from, to |-> c.to]
  BY <1>1 DEF IInv, EdgeChosen
<1>5. c.from = status[e] /\ c.action = call[r].action /\ c.to = reply[r].to
  BY <1>3, <1>4 DEF Edge
<1>6. /\ status' = [status EXCEPT ![e] = c.to]
      /\ version' = [version EXCEPT ![e] = @ + 1]
      /\ log' = [log EXCEPT ![e] = Append(@, [from |-> c.from, action |-> c.action,
                                              to |-> c.to, key |-> EffectiveKey(r)])]
  BY <1>3, <1>5 DEF Commit
<1> QED
  BY <1>2, <1>3, <1>5, <1>6

\* A commit appends one row to one history and leaves the rest.
LEMMA CommitLog ==
    ASSUME IInv, NEW r \in Requests, Commit(r)
    PROVE  LET e == call[r].entity
               n == Len(log[e]) + 1 IN
           /\ e \in Entities
           /\ Len(log[e]) \in Nat /\ Len(log'[e]) = n
           /\ \A i \in 1..Len(log[e]) : log'[e][i] = log[e][i]
           /\ log'[e][n].from = status[e] /\ log'[e][n].to = status'[e]
           /\ log'[e][n].key = EffectiveKey(r)
           /\ \A f \in Entities \ {e} : log'[f] = log[f] /\ status'[f] = status[f]
                                         /\ version'[f] = version[f]
           /\ version'[e] = version[e] + 1
<1> DEFINE e == call[r].entity
<1>1. PICK c \in Config :
         /\ c.from = status[e]
         /\ status' = [status EXCEPT ![e] = c.to]
         /\ version' = [version EXCEPT ![e] = @ + 1]
         /\ log' = [log EXCEPT ![e] = Append(@, [from |-> c.from, action |-> c.action,
                                                to |-> c.to, key |-> EffectiveKey(r)])]
  BY CommitWrites
<1>2. e \in Entities
  BY CommitWrites
<1> DEFINE row == [from |-> c.from, action |-> c.action, to |-> c.to, key |-> EffectiveKey(r)]
<1>3. log'[e] = Append(log[e], row) /\ log[e] \in Seq(Rows)
  BY <1>1, <1>2 DEF IInv, TypeOK
<1>4. row \in Rows
  BY EffectiveKeyType, ConstAssumption DEF IInv, Rows
<1>5. /\ Len(log[e]) \in Nat /\ Len(log'[e]) = Len(log[e]) + 1
      /\ \A i \in 1..Len(log[e]) : log'[e][i] = log[e][i]
      /\ log'[e][Len(log[e]) + 1] = row
  BY <1>3, <1>4
<1>6. /\ status'[e] = c.to /\ version'[e] = version[e] + 1
      /\ \A f \in Entities \ {e} : log'[f] = log[f] /\ status'[f] = status[f]
                                     /\ version'[f] = version[f]
  BY <1>1, <1>2 DEF IInv, TypeOK
<1>7. row.from = status[e] /\ row.to = c.to /\ row.key = EffectiveKey(r)
  BY <1>1
<1> HIDE DEF row
<1> QED
  BY <1>2, <1>5, <1>6, <1>7

\* A commit extends the walk of its entity by one edge: the locked snapshot is the row,
\* so the new entry leaves the status the old history ends in.
LEMMA CommitHistory ==
    ASSUME IInv, NEW r \in Requests, Commit(r)
    PROVE  HistoryChained'
<1> DEFINE e == call[r].entity
           n == Len(log[e])
<1>1. /\ e \in Entities /\ n \in Nat /\ Len(log'[e]) = n + 1
      /\ \A i \in 1..n : log'[e][i] = log[e][i]
      /\ log'[e][n + 1].from = status[e] /\ log'[e][n + 1].to = status'[e]
      /\ version'[e] = version[e] + 1
      /\ \A f \in Entities \ {e} : log'[f] = log[f] /\ status'[f] = status[f]
                                     /\ version'[f] = version[f]
  BY CommitLog
<1>2. HistoryChained
  BY DEF IInv
<1>3. \A f \in Entities \ {e} :
        /\ version'[f] = Len(log'[f])
        /\ \A i \in 1..Len(log'[f]) :
             /\ log'[f][i].from = IF i = 1 THEN InitState ELSE log'[f][i - 1].to
             /\ i = Len(log'[f]) => status'[f] = log'[f][i].to
        /\ Len(log'[f]) = 0 => status'[f] = InitState
  BY <1>1, <1>2 DEF HistoryChained
<1>4. version'[e] = Len(log'[e])
  BY <1>1, <1>2 DEF HistoryChained
<1>5. ASSUME NEW i \in 1..(n + 1)
      PROVE  log'[e][i].from = IF i = 1 THEN InitState ELSE log'[e][i - 1].to
  <2>1. CASE i \in 1..n
    <3>1. log[e][i].from = IF i = 1 THEN InitState ELSE log[e][i - 1].to
      BY <1>1, <1>2, <2>1 DEF HistoryChained
    <3>2. i = 1 \/ i - 1 \in 1..n
      BY <1>1, <2>1
    <3> QED
      BY <1>1, <2>1, <3>1, <3>2
  <2>2. CASE i = n + 1 /\ n = 0
    BY <1>1, <1>2, <2>2 DEF HistoryChained
  <2>3. CASE i = n + 1 /\ n # 0
    <3>1. n \in 1..n /\ i # 1 /\ i - 1 = n
      BY <1>1, <2>3
    <3>2. status[e] = log[e][n].to
      BY <1>1, <1>2, <3>1 DEF HistoryChained
    <3> QED
      BY <1>1, <2>3, <3>1, <3>2
  <2> QED BY <1>1, <2>1, <2>2, <2>3
<1>6. \A i \in 1..Len(log'[e]) : i = Len(log'[e]) => status'[e] = log'[e][i].to
  BY <1>1
<1>7. Len(log'[e]) # 0
  BY <1>1
<1>8. \A i \in 1..Len(log'[e]) :
        log'[e][i].from = IF i = 1 THEN InitState ELSE log'[e][i - 1].to
  BY <1>1, <1>5
<1> HIDE DEF e
<1> QED
  BY <1>3, <1>4, <1>6, <1>7, <1>8 DEF HistoryChained

\* A commit keeps the keys of all histories distinct: its own was unused.
LEMMA CommitKeyOnce ==
    ASSUME IInv, NEW r \in Requests, Commit(r)
    PROVE  KeyAppliedOnce'
<1> DEFINE e == call[r].entity
           n == Len(log[e])
<1>1. /\ e \in Entities /\ n \in Nat /\ Len(log'[e]) = n + 1
      /\ \A i \in 1..n : log'[e][i] = log[e][i]
      /\ log'[e][n + 1].key = EffectiveKey(r)
      /\ \A f \in Entities \ {e} : log'[f] = log[f]
  BY CommitLog
<1>2. /\ KeyAppliedOnce
      /\ \A f \in Entities : \A i \in 1..Len(log[f]) : log[f][i].key # EffectiveKey(r)
  BY CommitWrites DEF IInv, Fresh
<1> SUFFICES ASSUME NEW f \in Entities, NEW g \in Entities,
                    NEW i \in 1..Len(log'[f]), NEW j \in 1..Len(log'[g]),
                    log'[f][i].key = log'[g][j].key
             PROVE  f = g /\ i = j
  BY DEF KeyAppliedOnce
<1>0. ASSUME NEW h \in Entities, NEW k \in 1..Len(log'[h]), ~(h = e /\ k = n + 1)
      PROVE  k \in 1..Len(log[h]) /\ log'[h][k] = log[h][k]
  <2>1. CASE h = e
    BY <1>0, <1>1, <2>1
  <2>2. CASE h # e
    BY <1>0, <1>1, <2>2
  <2> QED BY <2>1, <2>2
<1>3. \/ f = e /\ i = n + 1
      \/ i \in 1..Len(log[f]) /\ log'[f][i] = log[f][i]
  BY <1>0
<1>4. \/ g = e /\ j = n + 1
      \/ j \in 1..Len(log[g]) /\ log'[g][j] = log[g][j]
  BY <1>0
<1>5. CASE f = e /\ i = n + 1 /\ ~(g = e /\ j = n + 1)
  BY <1>1, <1>2, <1>4, <1>5
<1>6. CASE g = e /\ j = n + 1 /\ ~(f = e /\ i = n + 1)
  BY <1>1, <1>2, <1>3, <1>6
<1>7. CASE ~(f = e /\ i = n + 1) /\ ~(g = e /\ j = n + 1)
  BY <1>2, <1>3, <1>4, <1>7 DEF KeyAppliedOnce
<1> QED BY <1>5, <1>6, <1>7

\* The other requests: their locks, edges and reserved keys survive a commit.
LEMMA CommitRequests ==
    ASSUME IInv, NEW r \in Requests, Commit(r)
    PROVE  SnapshotCoherent' /\ LockProtects' /\ EdgeChosen' /\ KeysReserved'
<1> DEFINE e == call[r].entity
<1>0. /\ TypeOK /\ UNCHANGED <<call, snap, reply>> /\ pc'[r] = "done"
      /\ pc[r] = "txCommit" /\ lock' = Unlock(r)
      /\ \A q \in Requests : q # r => pc'[q] = pc[q]
  BY DEF IInv, TypeOK, Commit
<1>1. /\ e \in Entities /\ lock[e] = r
      /\ \A f \in Entities \ {e} : log'[f] = log[f] /\ status'[f] = status[f]
                                     /\ version'[f] = version[f]
      /\ version'[e] = version[e] + 1
  BY CommitLog, CommitWrites
<1>2. \A q \in Requests : call[q].entity \in Entities /\ snap[q].version \in Nat
  BY <1>0 DEF TypeOK, Calls, Snapshots
<1>3. version[e] \in Nat
  BY <1>0, <1>1 DEF TypeOK
<1>4. SnapshotCoherent'
  <2> SUFFICES ASSUME NEW q \in Requests, pc'[q] # "idle"
               PROVE  /\ snap[q].version <= version'[call[q].entity]
                      /\ snap[q].version = version'[call[q].entity]
                           => snap[q].status = status'[call[q].entity]
    BY <1>0 DEF SnapshotCoherent
  <2>1. pc[q] # "idle"
    BY <1>0
  <2>2. /\ snap[q].version <= version[call[q].entity]
        /\ snap[q].version = version[call[q].entity] => snap[q].status = status[call[q].entity]
    BY <2>1 DEF IInv, SnapshotCoherent
  <2>3. CASE call[q].entity = e
    BY <1>1, <1>2, <1>3, <2>2, <2>3
  <2>4. CASE call[q].entity # e
    BY <1>1, <1>2, <2>2, <2>4
  <2> QED BY <2>3, <2>4
<1>5. LockProtects'
  <2>1. \A f \in Entities : lock'[f] = IF lock[f] = r THEN None ELSE lock[f]
    BY <1>0 DEF Unlock
  <2>2. \A q \in Requests : pc[q] \in Locked /\ q # r => call[q].entity # e
    BY <1>1 DEF IInv, LockProtects
  <2>3. "done" \notin Locked
    BY DEF Locked
  <2> QED
    BY <1>0, <1>1, <1>2, <2>1, <2>2, <2>3, ConstAssumption DEF IInv, LockProtects
<1>6. EdgeChosen'
  BY <1>0 DEF IInv, EdgeChosen, Edge, Locked
<1>7. KeysReserved'
  <2>1. \A q \in Requests : EffectiveKey(q)' = EffectiveKey(q)
    BY <1>0 DEF EffectiveKey
  <2>2. pc[r] \in Inserted /\ pc'[r] \notin Inserted
    BY <1>0 DEF Inserted
  <2>3. ASSUME NEW q \in Requests, pc'[q] \in Inserted
        PROVE  Fresh(EffectiveKey(q))'
    <3>1. q # r /\ pc[q] \in Inserted
      BY <1>0, <2>2, <2>3
    <3>2. EffectiveKey(q) # EffectiveKey(r) /\ Fresh(EffectiveKey(q))
      BY <2>2, <3>1 DEF IInv, KeysReserved
    <3>3. /\ Len(log[e]) \in Nat /\ Len(log'[e]) = Len(log[e]) + 1
          /\ \A i \in 1..Len(log[e]) : log'[e][i] = log[e][i]
          /\ log'[e][Len(log[e]) + 1].key = EffectiveKey(r)
      BY CommitLog
    <3>4. \A f \in Entities : \A i \in 1..Len(log'[f]) : log'[f][i].key # EffectiveKey(q)
      <4> SUFFICES ASSUME NEW f \in Entities, NEW i \in 1..Len(log'[f])
                   PROVE  log'[f][i].key # EffectiveKey(q)
        OBVIOUS
      <4>1. CASE f = e /\ i = Len(log[e]) + 1
        BY <3>2, <3>3, <4>1
      <4>2. CASE f # e \/ i # Len(log[e]) + 1
        <5>1. i \in 1..Len(log[f]) /\ log'[f][i] = log[f][i]
          <6>1. CASE f = e
            BY <3>3, <4>2, <6>1
          <6>2. CASE f # e
            BY <1>1, <6>2
          <6> QED BY <6>1, <6>2
        <5> QED
          BY <3>2, <5>1 DEF Fresh
      <4> QED BY <4>1, <4>2
    <3> QED
      BY <2>1, <3>4 DEF Fresh
  <2> QED
    BY <1>0, <2>1, <2>2, <2>3 DEF IInv, KeysReserved
<1> QED BY <1>4, <1>5, <1>6, <1>7

-----------------------------------------------------------------------------
\* The inductive invariant holds before any request has run.
LEMMA InvInit == Init => IInv
<1> SUFFICES ASSUME Init PROVE IInv
  OBVIOUS
<1>1. TypeOK
  BY ConstAssumption DEF Init, TypeOK, Replies, Snapshots
<1>2. HistoryChained /\ KeyAppliedOnce
  BY DEF Init, HistoryChained, KeyAppliedOnce
<1>3. SnapshotCoherent /\ LockProtects /\ EdgeChosen /\ KeysReserved
  BY ConstAssumption
     DEF Init, SnapshotCoherent, LockProtects, EdgeChosen, KeysReserved, Locked, Inserted
<1> QED BY <1>1, <1>2, <1>3 DEF IInv

\* Every step, quiet or commit, preserves the inductive invariant.
LEMMA InvStep ==
    ASSUME IInv, [Next]_vars
    PROVE  IInv'
<1>1. TypeOK'
  BY TypeStep DEF IInv
<1>2. ASSUME NEW r \in Requests, Quiet(r) PROVE IInv'
  <2>1. HistoryChained' /\ KeyAppliedOnce'
    BY <1>2, QuietTables DEF IInv, hvars, HistoryChained, KeyAppliedOnce
  <2> QED
    BY <1>1, <1>2, <2>1, QuietSnapshot, QuietLock, QuietEdge, QuietKeys DEF IInv
<1>3. ASSUME NEW r \in Requests, Commit(r) PROVE IInv'
  BY <1>1, <1>3, CommitHistory, CommitKeyOnce, CommitRequests DEF IInv
<1>4. CASE UNCHANGED vars
  <2> USE <1>4 DEF vars, IInv
  <2>1. HistoryChained' /\ KeyAppliedOnce'
    BY DEF HistoryChained, KeyAppliedOnce
  <2>2. SnapshotCoherent' /\ LockProtects'
    BY DEF SnapshotCoherent, LockProtects
  <2>3. EdgeChosen'
    BY DEF EdgeChosen, Edge
  <2>4. KeysReserved'
    BY DEF KeysReserved, Fresh, EffectiveKey
  <2> QED
    BY <1>1, <2>1, <2>2, <2>3, <2>4
<1> QED
  BY <1>2, <1>3, <1>4 DEF Next, Step, Terminated, Quiet

\* IInv holds of every reachable state, for every instance.
THEOREM Invariance == Spec => []IInv
  BY InvInit, InvStep, PTL DEF Spec

\* The history of every entity is one unbroken walk, counted by its version.
THEOREM HistoryTheorem == Spec => []HistoryChained
<1>1. IInv => HistoryChained
  BY DEF IInv
<1> QED BY <1>1, Invariance, PTL

\* No idempotency key is applied twice, to one entity or to two.
THEOREM KeyTheorem == Spec => []KeyAppliedOnce
<1>1. IInv => KeyAppliedOnce
  BY DEF IInv
<1> QED BY <1>1, Invariance, PTL

\* The engine implements the abstract history: a commit is one Apply, every other
\* step is a stutter.
THEOREM Implements == Spec => ImplementsHistory
<1>1. Init => History!HInit
  BY DEF Init, History!HInit
<1>2. ASSUME IInv, [Next]_vars
      PROVE  [History!HNext]_(History!hvars)
  <2>1. ASSUME NEW r \in Requests, Quiet(r) PROVE UNCHANGED History!hvars
    BY <2>1, QuietTables DEF hvars, History!hvars
  <2>2. ASSUME NEW r \in Requests, Commit(r) PROVE History!HNext
    <3> DEFINE e == call[r].entity
    <3>1. /\ e \in Entities /\ Fresh(EffectiveKey(r))
          /\ \E c \in Config :
                /\ c.from = status[e]
                /\ status' = [status EXCEPT ![e] = c.to]
                /\ version' = [version EXCEPT ![e] = @ + 1]
                /\ log' = [log EXCEPT ![e] =
                             Append(@, [from |-> c.from, action |-> c.action,
                                        to |-> c.to, key |-> EffectiveKey(r)])]
      BY <1>2, <2>2, CommitWrites
    <3>2. EffectiveKey(r) \in Tokens
      BY <1>2, EffectiveKeyType DEF IInv
    <3> QED
      BY <3>1, <3>2 DEF Fresh, History!HNext, History!Apply, History!Fresh
  <2>3. CASE UNCHANGED vars
    BY <2>3 DEF vars, History!hvars
  <2> QED
    BY <1>2, <2>1, <2>2, <2>3 DEF Next, Step, Terminated, Quiet
<1> QED
  BY <1>1, <1>2, Invariance, PTL DEF Spec, ImplementsHistory, History!HSpec

-----------------------------------------------------------------------------
(* What transition() answers *)

\* A row of a history is there for good: histories only grow at their end.
LEMMA HistoryGrows ==
    ASSUME IInv, [Next]_vars, NEW e \in Entities, NEW i \in 1 .. Len(log[e])
    PROVE  i \in 1 .. Len(log'[e]) /\ log'[e][i] = log[e][i]
<1>1. CASE UNCHANGED log
  BY <1>1
<1>2. ASSUME NEW r \in Requests, Commit(r)
      PROVE  i \in 1 .. Len(log'[e]) /\ log'[e][i] = log[e][i]
  <2>1. CASE e = call[r].entity
    BY <1>2, <2>1, CommitLog
  <2>2. CASE e # call[r].entity
    BY <1>2, <2>2, CommitLog
  <2> QED BY <2>1, <2>2
<1>3. ASSUME NEW r \in Requests, Quiet(r) PROVE UNCHANGED log
  BY <1>3, QuietTables DEF hvars
<1> QED
  BY <1>1, <1>2, <1>3 DEF Next, Step, Terminated, Quiet, vars

\* A key that is known stays known, with the same answer.
LEMMA FoundStays ==
    ASSUME IInv, [Next]_vars, NEW k, NEW ans, Found(k, ans)
    PROVE  \E e \in Entities : \E i \in 1 .. Len(log'[e]) :
             log'[e][i].key = k /\ ans = [from |-> log'[e][i].from, to |-> log'[e][i].to]
<1>1. PICK e \in Entities : \E i \in 1 .. Len(log[e]) :
        log[e][i].key = k /\ ans = [from |-> log[e][i].from, to |-> log[e][i].to]
  BY DEF Found
<1>2. PICK i \in 1 .. Len(log[e]) :
        log[e][i].key = k /\ ans = [from |-> log[e][i].from, to |-> log[e][i].to]
  BY <1>1
<1>3. i \in 1 .. Len(log'[e]) /\ log'[e][i] = log[e][i]
  BY HistoryGrows
<1> QED BY <1>2, <1>3

\* A request that has its answer keeps it, and one that gets it now commits or replays.
LEMMA AnswerStep ==
    ASSUME TypeOK, [Next]_vars, NEW r \in Requests, pc'[r] \in {"done", "replayed"}
    PROVE  \/ pc'[r] = pc[r] /\ reply'[r] = reply[r]
           \/ Commit(r) /\ pc'[r] = "done" /\ reply'[r] = reply[r]
           \/ pc'[r] = "replayed" /\ Found(EffectiveKey(r), reply'[r])
<1> DEFINE Goal == \/ pc'[r] = pc[r] /\ reply'[r] = reply[r]
                   \/ Commit(r) /\ pc'[r] = "done" /\ reply'[r] = reply[r]
                   \/ pc'[r] = "replayed" /\ Found(EffectiveKey(r), reply'[r])
<1>1. ASSUME NEW q \in Requests, q # r, Quiet(q) PROVE Goal
  BY <1>1, QuietLocal
<1>2. ASSUME NEW q \in Requests, q # r, Commit(q) PROVE Goal
  BY <1>2 DEF Commit, TypeOK
<1>3. CASE Commit(r)
  BY <1>3 DEF Commit, TypeOK
<1>4. CASE EarlyCheck(r)
  <2>1. /\ call[r].key # NoKey /\ pc' = [pc EXCEPT ![r] = "replayed"]
        /\ \E ans \in Replies : Found(call[r].key, ans) /\ reply' = [reply EXCEPT ![r] = ans]
    BY <1>4 DEF EarlyCheck, TypeOK
  <2> QED BY <2>1 DEF TypeOK, EffectiveKey
<1>5. CASE TxCheck(r)
  <2>1. /\ pc' = [pc EXCEPT ![r] = "replayed"]
        /\ \E ans \in Replies : Found(EffectiveKey(r), ans) /\ reply' = [reply EXCEPT ![r] = ans]
    BY <1>5 DEF TxCheck, TypeOK
  <2> QED BY <2>1 DEF TypeOK
<1>6. ~ (Load(r) \/ Validate(r) \/ TxLock(r) \/ TxRecord(r) \/ TxAudit(r) \/ Abort(r))
  BY DEF Load, Validate, TxLock, TxRecord, TxAudit, Abort, TypeOK
<1>7. CASE UNCHANGED vars
  BY <1>7 DEF vars
<1> QED
  BY <1>1, <1>2, <1>3, <1>4, <1>5, <1>6, <1>7 DEF Next, Step, Terminated, Quiet

\* A commit leaves the row that its request is told about.
LEMMA CommitAnswers ==
    ASSUME IInv, NEW r \in Requests, Commit(r)
    PROVE  \E i \in 1 .. Len(log'[call[r].entity]) :
             log'[call[r].entity][i] =
                 [from |-> reply[r].from, action |-> call[r].action,
                  to |-> reply[r].to, key |-> EffectiveKey(r)]
<1> DEFINE e == call[r].entity
           row == [from |-> snap[r].status, action |-> call[r].action,
                   to |-> reply[r].to, key |-> EffectiveKey(r)]
<1>1. e \in Entities /\ log[e] \in Seq(Rows) /\ row \in Rows
  BY EffectiveKeyType DEF IInv, TypeOK, Calls, Snapshots, Replies, Rows
<1>2. log'[e] = Append(log[e], row)
  BY <1>1 DEF Commit, IInv, TypeOK
<1>3. Len(log[e]) + 1 \in 1 .. Len(log'[e]) /\ log'[e][Len(log[e]) + 1] = row
  BY <1>1, <1>2
<1>4. snap[r].status = reply[r].from
  <2>1. pc[r] \in Locked
    BY DEF Commit, Locked
  <2>2. PICK c \in Config : Edge(r, c) /\ reply[r] = [from |-> c.from, to |-> c.to]
    BY <2>1 DEF IInv, EdgeChosen
  <2> QED BY <2>2 DEF Edge
<1> QED BY <1>3, <1>4

\* Answers stay true: the rows they name are in the history for good.
LEMMA AnswerInvStep ==
    ASSUME AnswerInv, [Next]_vars
    PROVE  AnswerInv'
<1>1. IInv /\ TypeOK
  BY DEF AnswerInv, IInv
<1>2. IInv'
  BY <1>1, InvStep
<1>3. call' = call /\ \A r \in Requests : EffectiveKey(r)' = EffectiveKey(r)
  <2>1. call' = call
    BY QuietTables DEF Next, Step, Terminated, Quiet, Commit, vars
  <2> QED BY <2>1 DEF EffectiveKey
<1>4. AcknowledgedIsLogged'
  <2> SUFFICES ASSUME NEW r \in Requests, pc'[r] = "done"
               PROVE  \E i \in 1 .. Len(log'[call[r].entity]) :
                        log'[call[r].entity][i] =
                            [from |-> reply'[r].from, action |-> call[r].action,
                             to |-> reply'[r].to, key |-> EffectiveKey(r)]
    BY <1>3 DEF AcknowledgedIsLogged
  <2>1. CASE Commit(r) /\ reply'[r] = reply[r]
    BY <1>1, <2>1, CommitAnswers
  <2>2. CASE pc[r] = "done" /\ reply'[r] = reply[r]
    <3>1. call[r].entity \in Entities
      BY <1>1 DEF TypeOK, Calls
    <3>2. PICK i \in 1 .. Len(log[call[r].entity]) :
            log[call[r].entity][i] =
                [from |-> reply[r].from, action |-> call[r].action,
                 to |-> reply[r].to, key |-> EffectiveKey(r)]
      BY <2>2 DEF AnswerInv, AcknowledgedIsLogged
    <3>3. i \in 1 .. Len(log'[call[r].entity])
          /\ log'[call[r].entity][i] = log[call[r].entity][i]
      BY <1>1, <3>1, HistoryGrows
    <3> QED BY <2>2, <3>2, <3>3
  <2> QED BY <1>1, <2>1, <2>2, AnswerStep
<1>5. ReplaysStored'
  <2> SUFFICES ASSUME NEW r \in Requests, pc'[r] = "replayed"
               PROVE  \E e \in Entities : \E i \in 1 .. Len(log'[e]) :
                        /\ log'[e][i].key = EffectiveKey(r)
                        /\ reply'[r] = [from |-> log'[e][i].from, to |-> log'[e][i].to]
    BY <1>3 DEF ReplaysStored, Found
  <2>1. Found(EffectiveKey(r), reply'[r])
    BY <1>1, AnswerStep DEF AnswerInv, ReplaysStored
  <2> QED BY <1>1, <2>1, FoundStays
<1> QED BY <1>2, <1>4, <1>5 DEF AnswerInv

\* Under one key there is one answer to find.
LEMMA FoundOnce ==
    ASSUME KeyAppliedOnce, NEW k, NEW a, NEW b, Found(k, a), Found(k, b)
    PROVE  a = b
  BY DEF KeyAppliedOnce, Found

-----------------------------------------------------------------------------
\* What the two theorems below rest on holds in every reachable state.
THEOREM AnswerInvariance == Spec => []AnswerInv
<1>1. Init => AnswerInv
  BY InvInit DEF Init, AnswerInv, AcknowledgedIsLogged, ReplaysStored
<1> QED BY <1>1, AnswerInvStep, PTL DEF Spec

\* A transition acknowledged to its caller is in the history under his key, for good,
\* with the action he asked for and the states he was told.
THEOREM AcknowledgedTheorem == Spec => []AcknowledgedIsLogged
<1>1. AnswerInv => AcknowledgedIsLogged
  BY DEF AnswerInv
<1> QED BY <1>1, AnswerInvariance, PTL

\* However often a client sends a request again under its key, and whichever of the
\* copies ran, all that are answered get the same answer.
THEOREM SameReplyTheorem == Spec => []SameKeySameReply
<1>1. ASSUME AnswerInv PROVE SameKeySameReply
  <2> SUFFICES ASSUME NEW r \in Requests, NEW q \in Requests,
                      pc[r] \in {"done", "replayed"}, pc[q] \in {"done", "replayed"},
                      call[r].key # NoKey, call[r].key = call[q].key
               PROVE  reply[r] = reply[q]
    BY DEF SameKeySameReply
  <2>1. ASSUME NEW u \in Requests, pc[u] \in {"done", "replayed"}
        PROVE  Found(EffectiveKey(u), reply[u])
    <3>1. CASE pc[u] = "replayed"
      BY <1>1, <3>1 DEF AnswerInv, ReplaysStored
    <3>2. CASE pc[u] = "done"
      <4>1. call[u].entity \in Entities /\ reply[u] \in Replies
        BY <1>1 DEF AnswerInv, IInv, TypeOK, Calls
      <4>2. PICK i \in 1 .. Len(log[call[u].entity]) :
              log[call[u].entity][i] =
                  [from |-> reply[u].from, action |-> call[u].action,
                   to |-> reply[u].to, key |-> EffectiveKey(u)]
        BY <1>1, <3>2 DEF AnswerInv, AcknowledgedIsLogged
      <4>3. reply[u] = [from |-> reply[u].from, to |-> reply[u].to]
        BY <4>1 DEF Replies
      <4> QED BY <4>1, <4>2, <4>3 DEF Found
    <3> QED BY <2>1, <3>1, <3>2
  <2>2. EffectiveKey(r) = EffectiveKey(q)
    BY DEF EffectiveKey
  <2> QED BY <1>1, <2>1, <2>2, FoundOnce DEF AnswerInv, IInv
<1> QED BY <1>1, AnswerInvariance, PTL
=============================================================================
