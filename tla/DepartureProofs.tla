--------------------------- MODULE DepartureProofs ---------------------------
(***************************************************************************)
(* Proofs about a trip that gets ready to leave, for every set of tickets, *)
(* parcels, shipments and concurrent requests: type correctness, the       *)
(* inductive invariant IInv of Departure and FreightInv of Freight, and    *)
(* what rests on them.  The two components share no state; the freight     *)
(* comes second, and its names carry its prefix.                           *)
(***************************************************************************)
EXTENDS Departure, Freight, FiniteSetTheorems, TLAPS

\* What the blueprint says of the states the arguments below speak of.
LEMMA EdgeFacts ==
    \A x \in Edges :
        /\ x[1] \in Statuses /\ x[3] \in Statuses
        /\ x[1] # "absent" /\ x[3] # "absent"
        /\ x[1] = "SIGNED" => x[3] = "ARCHIVED"
        /\ x[1] # "ARCHIVED"
        /\ x[2] = "DEPART" => x[1] = "BOARDING"
<1>1. \A x \in Edges : x[1] \in Statuses /\ x[3] \in Statuses
  BY DEF Statuses
<1>2. \A x \in Edges : /\ x[1] # "absent" /\ x[3] # "absent"
                       /\ x[1] = "SIGNED" => x[3] = "ARCHIVED"
                       /\ x[1] # "ARCHIVED"
                       /\ x[2] = "DEPART" => x[1] = "BOARDING"
  BY DEF Edges, TripEdges, TravelerEdges, ManifestEdges
<1> QED BY <1>1, <1>2

\* The plans of the requests: one action, or the two that open boarding.
LEMMA PlanFacts ==
    ASSUME NEW p \in Plans
    PROVE  /\ p # <<>>
           /\ Tail(p) \in {<<>>, <<"BEGIN_BOARDING">>}
           /\ Head(p) = "DEPART" => p = <<"DEPART">>
<1>1. CASE p = <<"START_BOARDING", "BEGIN_BOARDING">>
  BY <1>1
<1>2. CASE p # <<"START_BOARDING", "BEGIN_BOARDING">>
  <2>1. PICK x \in Edges : p = <<x[2]>>
    BY <1>2 DEF Plans
  <2> QED BY <2>1
<1> QED BY <1>1, <1>2

\* The plans that are built from an action the table has, and those written out.
LEMMA PlanTypes ==
    /\ \A s, a : Has(s, a) => <<a>> \in Plans
    /\ {<<"BEGIN_BOARDING">>, <<"DEPART">>, <<"END_TRIP">>, <<"revise">>, <<"submit">>,
        <<"SCAN_IN">>, <<"SCAN_BOARD">>, <<"START_BOARDING", "BEGIN_BOARDING">>} \subseteq Plans
<1>1. \A s, a : Has(s, a) => <<a>> \in Plans
  BY DEF Has, Plans
<1>2. /\ Has("OPEN", "BEGIN_BOARDING") /\ Has("BOARDING", "DEPART")
      /\ Has("IN_PROGRESS", "END_TRIP") /\ Has("REJECTED", "revise") /\ Has("DRAFT", "submit")
      /\ Has("VERIFIED", "SCAN_IN") /\ Has("CHECKED_IN", "SCAN_BOARD")
  BY DEF Has, Edges, TripEdges, TravelerEdges, ManifestEdges
<1>3. <<"START_BOARDING", "BEGIN_BOARDING">> \in Plans
  BY DEF Plans
<1> QED BY <1>1, <1>2, <1>3

\* ensureTraveler finds a state from which the scan leaves.
LEMMA ScanFrom ==
    ASSUME NEW a \in {"SCAN_IN", "SCAN_BOARD"}
    PROVE  /\ (CHOOSE s \in Statuses : Has(s, a)) \in Statuses
           /\ (CHOOSE s \in Statuses : Has(s, a)) # "absent"
<1>1. \E s \in Statuses : Has(s, a)
  <2>1. /\ <<"VERIFIED", "SCAN_IN", "CHECKED_IN">> \in Edges
        /\ <<"CHECKED_IN", "SCAN_BOARD", "BOARDED">> \in Edges
    BY DEF Edges, TravelerEdges
  <2>2. "VERIFIED" \in Statuses /\ "CHECKED_IN" \in Statuses
    BY <2>1 DEF Statuses
  <2> QED BY <2>1, <2>2 DEF Has
<1>2. ~ Has("absent", a)
  BY EdgeFacts DEF Has
<1> QED BY <1>1, <1>2

\* The travelers of a trip are at most as many as its tickets.
LEMMA CountType ==
    /\ Cardinality(Tickets) \in Nat
    /\ \A S \in SUBSET Tickets : Cardinality(S) \in 0 .. Cardinality(Tickets)
<1>1. Cardinality(Tickets) \in Nat
  BY DepartureAssumption, FS_CardinalityType
<1>2. ASSUME NEW S \in SUBSET Tickets PROVE Cardinality(S) \in 0 .. Cardinality(Tickets)
  <2>1. IsFiniteSet(S) /\ Cardinality(S) <= Cardinality(Tickets)
    BY DepartureAssumption, FS_Subset
  <2>2. Cardinality(S) \in Nat
    BY <2>1, FS_CardinalityType
  <2> QED BY <1>1, <2>1, <2>2
<1> QED BY <1>1, <1>2

-----------------------------------------------------------------------------
(* What a step does to the rows *)

\* Row e is left alone, is created, or goes along an edge; its version counts that.
RowStep(e) ==
    \/ row'[e] = row[e]
    \/ /\ row'[e].ver = row[e].ver + 1
       /\ row'[e].status # "absent"
       /\ \/ row[e].status = "absent"
          \/ \E x \in Edges : x[1] = row[e].status /\ x[3] = row'[e].status

\* The transaction of the engine moves the row it holds along an edge that leaves the
\* status it really has, because the versions agree.
LEMMA CommitRow ==
    ASSUME IInv, NEW w \in Workers, Commit(w)
    PROVE  \E x \in Edges :
             /\ x[1] = row[job[w].ent].status /\ x[2] = Head(job[w].plan)
             /\ row' = [row EXCEPT ![job[w].ent] = [status |-> x[3], ver |-> @.ver + 1]]
             /\ leftBy' = IF x[2] = "DEPART" THEN job[w].by ELSE leftBy
             /\ \/ /\ Tail(job[w].plan) # <<>>
                   /\ Goto(w, "tx", [job[w] EXCEPT !.was = x[3], !.ver = @ + 1, !.plan = Tail(@)])
                \/ Goto(w, "submit", NoJob)
                \/ Finish(w)
<1>1. InFlight(w)
  BY DEF IInv
<1>2. job[w].was = row[job[w].ent].status
  BY <1>1 DEF InFlight, Commit, Current
<1> QED BY <1>2 DEF Commit

\* A step leaves a row alone, creates it or moves it along an edge.
LEMMA RowSteps ==
    ASSUME IInv, [Next]_vars
    PROVE  /\ row' \in [Entities -> [status : Statuses, ver : Nat]]
           /\ \A e \in Entities : RowStep(e)
<1> DEFINE Goal == /\ row' \in [Entities -> [status : Statuses, ver : Nat]]
                   /\ \A e \in Entities : RowStep(e)
<1>1. row \in [Entities -> [status : Statuses, ver : Nat]]
  BY DEF IInv, TypeOK
<1>2. CASE UNCHANGED row
  BY <1>1, <1>2 DEF RowStep
<1>3. ASSUME NEW d \in Entities, NEW s \in Statuses, s # "absent",
             \/ row[d].status = "absent"
             \/ \E x \in Edges : x[1] = row[d].status /\ x[3] = s,
             row' = [row EXCEPT ![d] = [status |-> s, ver |-> row[d].ver + 1]]
      PROVE  Goal
  <2>1. [status |-> s, ver |-> row[d].ver + 1] \in [status : Statuses, ver : Nat]
    BY <1>1
  <2>2. row' \in [Entities -> [status : Statuses, ver : Nat]]
    BY <1>1, <1>3, <2>1
  <2>3. row'[d] = [status |-> s, ver |-> row[d].ver + 1]
    BY <1>1, <1>3
  <2>4. RowStep(d)
    BY <1>3, <2>3 DEF RowStep
  <2>5. \A e \in Entities \ {d} : RowStep(e)
    BY <1>1, <1>3 DEF RowStep
  <2> QED BY <2>2, <2>4, <2>5
<1>4. ASSUME NEW w \in Workers, Commit(w) PROVE Goal
  <2>1. PICK x \in Edges :
          /\ x[1] = row[job[w].ent].status
          /\ row' = [row EXCEPT ![job[w].ent] = [status |-> x[3], ver |-> @.ver + 1]]
    BY <1>4, CommitRow
  <2>2. x[3] \in Statuses /\ x[3] # "absent"
    BY EdgeFacts
  <2>3. job[w].ent \in Entities
    BY <1>4 DEF IInv, InFlight, Commit
  <2> HIDE DEF Goal
  <2> QED BY <1>3, <2>1, <2>2, <2>3
<1>5. ASSUME NEW w \in Workers, NEW t \in Tickets, NEW a \in {"SCAN_IN", "SCAN_BOARD"},
             EnsureTraveler(w, t, a)
      PROVE  Goal
  <2>1. CASE row[t].status # "absent"
    BY <1>2, <1>5, <2>1 DEF EnsureTraveler
  <2>2. CASE row[t].status = "absent"
    <3>1. row' = [row EXCEPT ![t] = [status |-> CHOOSE s \in Statuses : Has(s, a), ver |-> 1]]
      BY <1>5, <2>2 DEF EnsureTraveler
    <3>2. t \in Entities /\ row[t].ver + 1 = 1
      BY <2>2 DEF Entities, IInv
    <3> HIDE DEF Goal
    <3> QED BY <1>3, <2>2, <3>1, <3>2, ScanFrom
  <2> QED BY <2>1, <2>2
<1>6. ASSUME NEW w \in Workers, FindManifest(w) PROVE Goal
  <2>1. CASE row[Manifest].status # "absent"
    BY <1>2, <1>6, <2>1 DEF FindManifest
  <2>2. CASE row[Manifest].status = "absent"
    <3>1. row' = [row EXCEPT ![Manifest] = [status |-> "DRAFT", ver |-> 1]]
      BY <1>6, <2>2 DEF FindManifest
    <3>2. Manifest \in Entities /\ row[Manifest].ver + 1 = 1
      BY <2>2 DEF Entities, IInv
    <3>3. "DRAFT" \in Statuses
      <4>1. <<"DRAFT", "submit", "SUBMITTED">> \in Edges
        BY DEF Edges, ManifestEdges
      <4> QED BY <4>1 DEF Statuses
    <3> HIDE DEF Goal
    <3> QED BY <1>3, <2>2, <3>1, <3>2, <3>3
  <2> QED BY <2>1, <2>2
<1> QED
  BY <1>2, <1>4, <1>5, <1>6 DEF Next, Request, vars, Dispatch, Driver, Decide, Scan, Generate, Recount,
     Submit, Fail, CancelTicket

\* A signed manifest stays signed, until it is archived.
LEMMA SignedStays ==
    ASSUME IInv, [Next]_vars, Signed
    PROVE  Signed'
<1>1. Manifest \in Entities /\ RowStep(Manifest)
  BY RowSteps DEF Entities
<1> QED BY <1>1, EdgeFacts DEF Signed, RowStep

-----------------------------------------------------------------------------
(* What a step does to the requests *)

\* A request that does not move keeps what it relies on.
LEMMA OthersKeep ==
    ASSUME IInv, [Next]_vars, NEW w \in Workers, pc'[w] = pc[w], job'[w] = job[w]
    PROVE  InFlight(w)'
<1> DEFINE j == job[w]
<1>1. InFlight(w) /\ row \in [Entities -> [status : Statuses, ver : Nat]]
      /\ job \in [Workers -> Jobs]
  BY DEF IInv, TypeOK
<1>2. ASSUME pc[w] = "tx"
      PROVE  /\ j.ver <= row'[j.ent].ver
             /\ j.ver = row'[j.ent].ver => j.was = row'[j.ent].status
  <2>1. j.ent \in Entities /\ j.ver \in Nat /\ row[j.ent].ver \in Nat
    BY <1>1, <1>2 DEF InFlight, Jobs
  <2>2. RowStep(j.ent)
    BY <2>1, RowSteps
  <2> QED BY <1>1, <1>2, <2>1, <2>2 DEF InFlight, RowStep
<1>3. Signed => Signed'
  BY SignedStays
<1> QED BY <1>1, <1>2, <1>3 DEF InFlight

\* A request that has just read row e has it as it is.
LEMMA SnapshotKeeps ==
    ASSUME IInv, NEW w \in Workers, NEW e \in Entities, NEW p \in Plans, row' = row,
           NEW by \in {"driver", "dispatch", "scan", "manifest", "generate"},
           Snapshot(w, e, p, by),
           p = <<"DEPART">> => by = "dispatch" \/ (by = "driver" /\ Signed)
    PROVE  InFlight(w)' /\ job' \in [Workers -> Jobs]
<1> DEFINE n == [ent |-> e, was |-> row[e].status, ver |-> row[e].ver, plan |-> p,
                by |-> by, count |-> 0]
<1>1. /\ row \in [Entities -> [status : Statuses, ver : Nat]] /\ job \in [Workers -> Jobs]
      /\ pc \in [Workers -> {"idle", "tx", "scan", "find", "recount", "submit"}]
  BY DEF IInv, TypeOK
<1>2. n \in Jobs
  <2>1. 0 \in 0 .. Cardinality(Tickets) /\ row[e].status \in Statuses /\ row[e].ver \in Nat
    BY <1>1, CountType
  <2> QED BY <2>1 DEF Jobs
<1>3. pc'[w] = "tx" /\ job'[w] = n /\ job' = [job EXCEPT ![w] = n]
  BY <1>1 DEF Snapshot, Goto
<1>4. n.ent = e /\ n.was = row[e].status /\ n.ver = row[e].ver /\ n.plan = p /\ n.by = by
  OBVIOUS
<1> HIDE DEF n
<1>5. InFlight(w)'
  BY <1>1, <1>3, <1>4 DEF InFlight, Signed
<1> QED BY <1>1, <1>2, <1>3, <1>5

\* An idle request carries nothing.
LEMMA NoJobType == NoJob \in Jobs
<1>1. 0 \in 0 .. Cardinality(Tickets) /\ 0 \in Nat
  BY CountType
<1> QED BY <1>1 DEF Jobs, NoJob

\* One request goes on, to a step that is in order; the others are as they were.
LEMMA GotoKeeps ==
    ASSUME IInv, [Next]_vars, NEW w \in Workers, NEW s, NEW j \in Jobs, Goto(w, s, j),
           s = "tx" => InFlight(w)',
           s = "scan" => j.ent \in Tickets /\ j.plan \in {<<"SCAN_IN">>, <<"SCAN_BOARD">>}
    PROVE  job' \in [Workers -> Jobs] /\ \A u \in Workers : InFlight(u)'
<1>1. /\ job \in [Workers -> Jobs]
      /\ pc \in [Workers -> {"idle", "tx", "scan", "find", "recount", "submit"}]
  BY DEF IInv, TypeOK
<1>2. pc'[w] = s /\ job'[w] = j /\ job' \in [Workers -> Jobs]
  BY <1>1 DEF Goto
<1>3. InFlight(w)'
  BY <1>2 DEF InFlight
<1>4. ASSUME NEW u \in Workers, u # w PROVE InFlight(u)'
  <2>1. pc'[u] = pc[u] /\ job'[u] = job[u]
    BY <1>1, <1>4 DEF Goto
  <2> QED BY <2>1, OthersKeep
<1> QED BY <1>2, <1>3, <1>4

\* A request that ends relies on nothing any more.
LEMMA FinishKeeps ==
    ASSUME IInv, [Next]_vars, NEW w \in Workers, Finish(w)
    PROVE  job' \in [Workers -> Jobs] /\ \A u \in Workers : InFlight(u)'
<1>1. Goto(w, "idle", NoJob)
  BY DEF Finish
<1> QED BY <1>1, NoJobType, GotoKeeps

\* A request that has just read a row goes to its transaction.
LEMMA ReadKeeps ==
    ASSUME IInv, [Next]_vars, NEW w \in Workers, NEW e \in Entities, NEW p \in Plans, row' = row,
           NEW by \in {"driver", "dispatch", "scan", "manifest", "generate"},
           Snapshot(w, e, p, by),
           p = <<"DEPART">> => by = "dispatch" \/ (by = "driver" /\ Signed)
    PROVE  job' \in [Workers -> Jobs] /\ \A u \in Workers : InFlight(u)'
<1> DEFINE n == [ent |-> e, was |-> row[e].status, ver |-> row[e].ver, plan |-> p,
                by |-> by, count |-> 0]
<1>1. Goto(w, "tx", n)
  BY DEF Snapshot
<1>2. InFlight(w)' /\ job' \in [Workers -> Jobs]
  BY SnapshotKeeps
<1>3. job'[w] = n
  BY <1>1 DEF Goto, IInv
<1>4. n \in Jobs
  BY <1>2, <1>3
<1> HIDE DEF n
<1> QED BY <1>1, <1>2, <1>4, GotoKeeps

\* The transaction of a request whose plan goes on leaves it with the row it wrote.
LEMMA CommitKeeps ==
    ASSUME IInv, [Next]_vars, NEW w \in Workers, Commit(w)
    PROVE  job' \in [Workers -> Jobs] /\ \A u \in Workers : InFlight(u)'
<1> DEFINE j == job[w]
<1>1. PICK x \in Edges :
        /\ x[1] = row[j.ent].status /\ x[2] = Head(j.plan)
        /\ row' = [row EXCEPT ![j.ent] = [status |-> x[3], ver |-> @.ver + 1]]
        /\ \/ /\ Tail(j.plan) # <<>>
              /\ Goto(w, "tx", [j EXCEPT !.was = x[3], !.ver = @ + 1, !.plan = Tail(@)])
           \/ Goto(w, "submit", NoJob)
           \/ Finish(w)
  BY CommitRow
<1>2. /\ j \in Jobs /\ j.ent \in Entities /\ j.plan \in Plans /\ j.ver = row[j.ent].ver
      /\ row \in [Entities -> [status : Statuses, ver : Nat]]
  BY DEF IInv, TypeOK, InFlight, Commit, Current
<1>3. CASE Goto(w, "submit", NoJob)
  BY <1>3, NoJobType, GotoKeeps
<1>4. CASE Finish(w)
  BY <1>4, FinishKeeps
<1> DEFINE n == [j EXCEPT !.was = x[3], !.ver = @ + 1, !.plan = Tail(@)]
<1>5. CASE Tail(j.plan) # <<>> /\ Goto(w, "tx", n)
  <2>1. Goto(w, "tx", n)
    BY <1>5
  <2>2. /\ n.ent = j.ent /\ n.was = x[3] /\ n.ver = row[j.ent].ver + 1
        /\ n.plan = <<"BEGIN_BOARDING">>
    BY <1>2, <1>5, PlanFacts DEF Jobs
  <2>3. n \in Jobs
    <3>1. x[3] \in Statuses
      BY EdgeFacts
    <3>2. Tail(j.plan) \in Plans
      BY <1>2, <1>5, PlanFacts, PlanTypes
    <3>3. j.ver + 1 \in Nat
      BY <1>2 DEF Jobs
    <3> QED BY <1>2, <3>1, <3>2, <3>3 DEF Jobs
  <2> HIDE DEF n
  <2>4. InFlight(w)'
    <3>1. pc'[w] = "tx" /\ job'[w] = n
      BY <2>1 DEF Goto, IInv, TypeOK
    <3>2. row'[n.ent] = [status |-> x[3], ver |-> row[j.ent].ver + 1]
      BY <1>1, <1>2, <2>2
    <3>3. n.plan \in Plans /\ n.plan # <<"DEPART">> /\ n.ent \in Entities
      BY <1>2, <2>2, PlanTypes
    <3>4. n.ver \in Nat
      BY <2>3 DEF Jobs
    <3> QED BY <2>2, <3>1, <3>2, <3>3, <3>4 DEF InFlight
  <2> QED BY <2>1, <2>3, <2>4, GotoKeeps
<1> QED BY <1>1, <1>3, <1>4, <1>5

\* Every request keeps what it relies on, one case for each action that moves one.
LEMMA RequestsKeep ==
    ASSUME IInv, [Next]_vars
    PROVE  job' \in [Workers -> Jobs] /\ \A u \in Workers : InFlight(u)'
<1> DEFINE Goal == job' \in [Workers -> Jobs] /\ \A u \in Workers : InFlight(u)'
<1> HIDE DEF Goal
<1>1. /\ job \in [Workers -> Jobs] /\ \A u \in Workers : InFlight(u)
      /\ Trip \in Entities /\ Manifest \in Entities /\ Tickets \subseteq Entities
      /\ NoJob \in Jobs
  BY NoJobType DEF IInv, Entities
<1>2. CASE row' = row /\ pc' = pc /\ job' = job
  BY <1>1, <1>2 DEF InFlight, Signed, Goal
<1>3. ASSUME NEW w \in Workers, NEW e \in Entities, NEW a, Dispatch(w, e, a) PROVE Goal
  BY <1>3, ReadKeeps, PlanTypes DEF Dispatch, Goal
<1>4. ASSUME NEW w \in Workers, NEW target \in {"BOARDING", "IN_PROGRESS", "COMPLETED"},
             Driver(w, target)
      PROVE  Goal
  <2> DEFINE p == Plan(row[Trip].status, target)
  <2>1. p \in Plans /\ (p = <<"DEPART">> => Signed)
    BY <1>4, PlanTypes DEF Driver, Plan, Signed
  <2>2. Snapshot(w, Trip, p, "driver") /\ row' = row
    BY <1>4 DEF Driver
  <2> HIDE DEF p
  <2> QED BY <1>1, <2>1, <2>2, ReadKeeps DEF Goal
<1>5. ASSUME NEW w \in Workers, NEW t \in Tickets, NEW a \in {"SCAN_IN", "SCAN_BOARD"},
             EnsureTraveler(w, t, a)
      PROVE  Goal
  <2> DEFINE n == [NoJob EXCEPT !.ent = t, !.plan = <<a>>]
  <2>1. n \in Jobs /\ n.ent = t /\ n.plan = <<a>>
    BY <1>1, PlanTypes DEF Jobs, NoJob
  <2>2. Goto(w, "scan", n)
    BY <1>5 DEF EnsureTraveler
  <2> HIDE DEF n
  <2> QED BY <2>1, <2>2, GotoKeeps DEF Goal
<1>6. ASSUME NEW w \in Workers, Scan(w) PROVE Goal
  <2>1. job[w].ent \in Tickets /\ job[w].plan \in {<<"SCAN_IN">>, <<"SCAN_BOARD">>}
    BY <1>1, <1>6 DEF Scan, InFlight
  <2>2. <<job[w].plan[1]>> \in Plans \ {<<"DEPART">>}
    BY <2>1, PlanTypes
  <2>3. Snapshot(w, job[w].ent, <<job[w].plan[1]>>, "scan") /\ row' = row
    BY <1>6 DEF Scan
  <2> QED BY <1>1, <2>1, <2>2, <2>3, ReadKeeps DEF Goal
<1>7. ASSUME NEW w \in Workers, Generate(w) PROVE Goal
  <2> DEFINE k == Cardinality({t \in Tickets : row[t].status # "absent"})
             n == [NoJob EXCEPT !.count = k]
  <2>1. k \in 0 .. Cardinality(Tickets)
    BY CountType
  <2>2. Goto(w, "find", n)
    BY <1>7 DEF Generate
  <2> HIDE DEF k
  <2>3. n \in Jobs
    BY <1>1, <2>1 DEF Jobs, NoJob
  <2> HIDE DEF n
  <2> QED BY <2>2, <2>3, GotoKeeps DEF Goal
<1>8. ASSUME NEW w \in Workers, FindManifest(w) PROVE Goal
  <2>1. Goto(w, "submit", NoJob) \/ Goto(w, "recount", job[w]) \/ Finish(w)
    BY <1>8 DEF FindManifest
  <2> QED BY <1>1, <2>1, GotoKeeps, FinishKeeps DEF Goal
<1>9. ASSUME NEW w \in Workers, Recount(w) PROVE Goal
  <2>1. CASE Snapshot(w, Manifest, <<"revise">>, "generate") /\ row' = row
    <3>1. <<"revise">> \in Plans /\ <<"revise">> # <<"DEPART">>
      BY PlanTypes
    <3> QED BY <1>1, <2>1, <3>1, ReadKeeps DEF Goal
  <2>2. CASE Goto(w, "submit", NoJob)
    BY <1>1, <2>2, GotoKeeps DEF Goal
  <2> QED BY <1>9, <2>1, <2>2 DEF Recount
<1>10. ASSUME NEW w \in Workers, Submit(w) PROVE Goal
  <2>1. CASE Snapshot(w, Manifest, <<"submit">>, "generate") /\ row' = row
    <3>1. <<"submit">> \in Plans /\ <<"submit">> # <<"DEPART">>
      BY PlanTypes
    <3> QED BY <1>1, <2>1, <3>1, ReadKeeps DEF Goal
  <2>2. CASE Finish(w)
    BY <2>2, FinishKeeps DEF Goal
  <2> QED BY <1>10, <2>1, <2>2 DEF Submit
<1>11. ASSUME NEW w \in Workers, NEW a \in {"sign", "reject", "archive"}, Decide(w, a) PROVE Goal
  <2>1. Snapshot(w, Manifest, <<a>>, "manifest") /\ row' = row /\ <<a>> \in Plans \ {<<"DEPART">>}
    BY <1>11, PlanTypes DEF Decide
  <2> QED BY <1>1, <2>1, ReadKeeps DEF Goal
<1>12. ASSUME NEW w \in Workers, Fail(w) PROVE Goal
  BY <1>12, FinishKeeps DEF Fail, Goal
<1>13. ASSUME NEW w \in Workers, Commit(w) PROVE Goal
  BY <1>13, CommitKeeps DEF Goal
<1>14. ASSUME NEW t \in Tickets, CancelTicket(t) PROVE Goal
  <2>1. row' = row /\ pc' = pc /\ job' = job
    BY <1>14 DEF CancelTicket
  <2> QED BY <1>2, <2>1 DEF Goal
<1>15. CASE UNCHANGED vars
  BY <1>2, <1>15 DEF vars, Goal
<1>16. ASSUME NEW w \in Workers, Request(w) PROVE Goal
  <2>1. CASE \E e \in Entities, a \in {x[2] : x \in Edges} : Dispatch(w, e, a)
    BY <2>1, <1>3
  <2>2. CASE \E target \in {"BOARDING", "IN_PROGRESS", "COMPLETED"} : Driver(w, target)
    BY <2>2, <1>4
  <2>3. CASE \E t \in Tickets, a \in {"SCAN_IN", "SCAN_BOARD"} : EnsureTraveler(w, t, a)
    BY <2>3, <1>5
  <2>4. CASE \E a \in {"sign", "reject", "archive"} : Decide(w, a)
    BY <2>4, <1>11
  <2> QED
    BY <1>16, <2>1, <2>2, <2>3, <2>4, <1>6, <1>7, <1>8, <1>9, <1>10, <1>12, <1>13 DEF Request
<1>17. CASE Next
  <2>1. CASE \E w \in Workers : Request(w)
    BY <2>1, <1>16 DEF Goal
  <2>2. CASE \E t \in Tickets : CancelTicket(t)
    BY <2>2, <1>14 DEF Goal
  <2> QED BY <1>17, <2>1, <2>2 DEF Next
<1> QED BY <1>15, <1>17 DEF Goal

-----------------------------------------------------------------------------
(* The inductive invariant *)

\* The transaction that makes the trip depart belongs to a dispatcher or to a driver,
\* and the driver's finds the manifest signed.
LEMMA DepartCommit ==
    ASSUME IInv, [Next]_vars, leftBy' # leftBy
    PROVE  leftBy' = "dispatch" \/ (leftBy' = "driver" /\ Signed)
<1>1. PICK w \in Workers : Commit(w)
  BY DEF Next, Request, vars, Dispatch, Driver, Decide, EnsureTraveler, Scan, Generate, FindManifest,
     Recount, Submit, Fail, CancelTicket
<1>2. Head(job[w].plan) = "DEPART" /\ leftBy' = job[w].by
  BY <1>1, CommitRow
<1>3. InFlight(w) /\ pc[w] = "tx"
  BY <1>1 DEF IInv, Commit
<1>4. job[w].plan = <<"DEPART">>
  BY <1>2, <1>3, PlanFacts DEF InFlight
<1> QED BY <1>2, <1>3, <1>4 DEF InFlight

\* A step writes only counts of tickets and known statuses and steps.
LEMMA TypeStep ==
    ASSUME IInv, [Next]_vars
    PROVE  TypeOK'
<1>1. TypeOK /\ job \in [Workers -> Jobs]
  BY DEF IInv
<1>2. row' \in [Entities -> [status : Statuses, ver : Nat]]
  BY RowSteps
<1>3. ticket' \in [Tickets -> {"CONFIRMED", "CANCELLED"}]
  BY <1>1 DEF TypeOK, Next, Request, vars, Dispatch, Driver, Commit, Decide, EnsureTraveler, Scan,
     Generate, FindManifest, Recount, Submit, Fail, CancelTicket
<1>4. count' \in 0 .. Cardinality(Tickets)
  <2>1. \A w \in Workers : job[w].count \in 0 .. Cardinality(Tickets)
    BY <1>1 DEF Jobs
  <2>2. count' = count \/ \E w \in Workers : count' = job[w].count
    BY DEF Next, Request, vars, Dispatch, Driver, Commit, Decide, EnsureTraveler, Scan,
       Generate, FindManifest, Recount, Submit, Fail, CancelTicket
  <2> QED BY <1>1, <2>1, <2>2 DEF TypeOK
<1>5. pc' \in [Workers -> {"idle", "tx", "scan", "find", "recount", "submit"}]
  <2>1. \/ pc' = pc
        \/ \E w \in Workers, s \in {"idle", "tx", "scan", "find", "recount", "submit"} :
              pc' = [pc EXCEPT ![w] = s]
    <3>1. CASE \E w \in Workers : Commit(w)
      BY <3>1 DEF Commit, Finish, Goto
    <3>2. CASE \E w \in Workers :
                 Scan(w) \/ Submit(w) \/ Fail(w) \/ Generate(w) \/ FindManifest(w) \/ Recount(w)
      BY <3>2 DEF Scan, Submit, Fail, Generate, FindManifest, Recount, Snapshot, Finish, Goto
    <3>3. CASE \E w \in Workers :
                 \/ \E e \in Entities, a \in {x[2] : x \in Edges} : Dispatch(w, e, a)
                 \/ \E target \in {"BOARDING", "IN_PROGRESS", "COMPLETED"} : Driver(w, target)
      BY <3>3 DEF Dispatch, Driver, Snapshot, Goto
    <3>4. CASE \E w \in Workers :
                 \/ \E t \in Tickets, a \in {"SCAN_IN", "SCAN_BOARD"} : EnsureTraveler(w, t, a)
                 \/ \E a \in {"sign", "reject", "archive"} : Decide(w, a)
      BY <3>4 DEF EnsureTraveler, Decide, Snapshot, Goto
    <3>5. CASE (\E t \in Tickets : CancelTicket(t)) \/ UNCHANGED vars
      BY <3>5 DEF CancelTicket, vars
    <3> QED BY <3>1, <3>2, <3>3, <3>4, <3>5 DEF Next, Request
  <2> QED BY <1>1, <2>1 DEF TypeOK
<1>6. leftBy' \in {None, "driver", "dispatch"}
  BY <1>1, DepartCommit DEF TypeOK
<1> QED BY <1>2, <1>3, <1>4, <1>5, <1>6 DEF TypeOK

\* Every step preserves the inductive invariant.
LEMMA InvStep == IInv /\ [Next]_vars => IInv'
<1> SUFFICES ASSUME IInv, [Next]_vars PROVE IInv'
  OBVIOUS
<1>1. TypeOK'
  BY TypeStep
<1>2. job' \in [Workers -> Jobs] /\ \A w \in Workers : InFlight(w)'
  BY RequestsKeep
<1>3. \A e \in Entities : row'[e].status = "absent" => row'[e].ver = 0
  BY RowSteps DEF RowStep, IInv
<1>4. DriverDepartsSigned'
  <2>1. CASE leftBy' = leftBy
    BY <2>1, SignedStays DEF IInv, DriverDepartsSigned, Signed
  <2>2. CASE leftBy' # leftBy
    BY <2>2, DepartCommit, SignedStays DEF DriverDepartsSigned, Signed
  <2> QED BY <2>1, <2>2
<1> QED BY <1>1, <1>2, <1>3, <1>4 DEF IInv

\* The initial states satisfy it.
LEMMA InvInit == Init => IInv
<1> SUFFICES ASSUME Init PROVE IInv
  OBVIOUS
<1>1. {"PLANNED", "absent"} \subseteq Statuses
  <2>1. <<"PLANNED", "START_BOARDING", "OPEN">> \in Edges
    BY DEF Edges, TripEdges
  <2> QED BY <2>1 DEF Statuses
<1>2. TypeOK
  BY <1>1, CountType DEF Init, TypeOK
<1>3. job \in [Workers -> Jobs] /\ \A w \in Workers : InFlight(w)
  BY NoJobType DEF Init, InFlight
<1>4. DriverDepartsSigned
  BY DepartureAssumption DEF Init, DriverDepartsSigned
<1>5. \A e \in Entities : row[e].status = "absent" => row[e].ver = 0
  BY DEF Init
<1> QED BY <1>2, <1>3, <1>4, <1>5 DEF IInv

\* IInv holds in every reachable state, however many requests and tickets there are.
THEOREM Invariance == Spec => []IInv
<1> QED BY InvInit, InvStep, PTL DEF Spec

\* The tables and the requests in flight are well typed, and a manifest never counts
\* more passengers than the trip has tickets.
THEOREM TypeCorrect == Spec => []TypeOK
<1>1. IInv => TypeOK
  BY DEF IInv
<1> QED BY <1>1, Invariance, PTL

\* However the requests of drivers, dispatchers and clerks interleave, a trip the driver
\* made depart has a manifest that is signed, or archived since.
THEOREM DriverTheorem == Spec => []DriverDepartsSigned
<1>1. IInv => DriverDepartsSigned
  BY DEF IInv
<1> QED BY <1>1, Invariance, PTL

\* Trip, manifest and travelers only move along the edges of the blueprint, from the
\* status they really have when the transaction commits.
THEOREM BlueprintTheorem == Spec => BlueprintRespected
<1> DEFINE Step == \A e \in Entities :
               row'[e].status # row[e].status /\ row[e].status # "absent" =>
                   \E x \in Edges : x[1] = row[e].status /\ x[3] = row'[e].status
<1>1. IInv /\ [Next]_vars => Step
  BY RowSteps DEF RowStep
<1>2. IInv /\ [Next]_vars => [Step]_vars
  BY <1>1
<1> HIDE DEF Step
<1> QED BY <1>2, Invariance, PTL DEF Spec, BlueprintRespected, Step
-----------------------------------------------------------------------------
(* The freight: sums over sets *)

\* The kilograms of a finite set are finitely many.
LEMMA KilosFinite ==
    ASSUME NEW S, IsFiniteSet(S), NEW f, \A x \in S : f[x] \in Nat
    PROVE  /\ IsFiniteSet(UNION {{x} \X (1..f[x]) : x \in S})
           /\ TotalOf(f, S) \in Nat
<1> DEFINE Boxes == {{x} \X (1..f[x]) : x \in S}
           g == [x \in S |-> {x} \X (1..f[x])]
<1>1. IsFiniteSet(Boxes)
  <2>1. g \in Surjection(S, Boxes)
    BY DEF Surjection
  <2> QED BY <2>1, FS_Surjection
<1>2. ASSUME NEW T \in Boxes PROVE IsFiniteSet(T)
  <2>1. PICK x \in S : T = {x} \X (1..f[x])
    OBVIOUS
  <2>2. IsFiniteSet({x})
    BY FS_Singleton
  <2>3. f[x] \in Int
    OBVIOUS
  <2>4. IsFiniteSet(1..f[x])
    BY <2>3, FS_Interval
  <2> QED BY <2>1, <2>2, <2>4, FS_Product
<1>3. IsFiniteSet(UNION Boxes)
  BY <1>1, <1>2, FS_UNION
<1> QED BY <1>3, FS_CardinalityType DEF TotalOf

\* A sum over nothing.
LEMMA TotalEmpty == \A f : TotalOf(f, {}) = 0
<1> TAKE f
<1>1. UNION {{x} \X (1..f[x]) : x \in {}} = {}
  OBVIOUS
<1> QED BY <1>1, FS_EmptySet DEF TotalOf

\* A sum depends on the values at the elements of the set only.
LEMMA TotalSame ==
    ASSUME NEW S, NEW f, NEW g, \A x \in S : f[x] = g[x]
    PROVE  TotalOf(f, S) = TotalOf(g, S)
<1>1. {{x} \X (1..f[x]) : x \in S} = {{x} \X (1..g[x]) : x \in S}
  OBVIOUS
<1> QED BY <1>1 DEF TotalOf

\* One more element adds its value.
LEMMA TotalAdd ==
    ASSUME NEW S, IsFiniteSet(S), NEW y, y \notin S, NEW f, \A x \in S \cup {y} : f[x] \in Nat
    PROVE  TotalOf(f, S \cup {y}) = TotalOf(f, S) + f[y]
<1> DEFINE K == UNION {{x} \X (1..f[x]) : x \in S}
           L == {y} \X (1..f[y])
<1>1. UNION {{x} \X (1..f[x]) : x \in S \cup {y}} = K \cup L
  OBVIOUS
<1>2. K \cap L = {}
  OBVIOUS
<1>3. IsFiniteSet(K) /\ Cardinality(K) = TotalOf(f, S) /\ TotalOf(f, S) \in Nat
  <2>1. \A x \in S : f[x] \in Nat
    OBVIOUS
  <2>2. IsFiniteSet(K) /\ TotalOf(f, S) \in Nat
    BY <2>1, KilosFinite
  <2> QED BY <2>2 DEF TotalOf
<1>4. IsFiniteSet(L) /\ Cardinality(L) = f[y]
  <2>1. IsFiniteSet({y}) /\ Cardinality({y}) = 1
    BY FS_Singleton
  <2>2. IsFiniteSet(1..f[y]) /\ Cardinality(1..f[y]) = f[y]
    BY FS_Interval
  <2> QED BY <2>1, <2>2, FS_Product
<1> HIDE DEF K, L
<1>5. Cardinality(K \cup L) = TotalOf(f, S) + f[y] - Cardinality(K \cap L)
  BY <1>3, <1>4, FS_Union
<1>6. Cardinality(K \cap L) = 0
  BY <1>2, FS_EmptySet
<1>7. TotalOf(f, S \cup {y}) = Cardinality(K \cup L)
  BY <1>1 DEF TotalOf
<1> QED BY <1>3, <1>5, <1>6, <1>7

\* A part weighs no more than the whole.
LEMMA TotalPart ==
    ASSUME NEW S, IsFiniteSet(S), NEW T, T \subseteq S, NEW f, \A x \in S : f[x] \in Nat
    PROVE  TotalOf(f, T) <= TotalOf(f, S)
<1> DEFINE K == UNION {{x} \X (1..f[x]) : x \in S}
           L == UNION {{x} \X (1..f[x]) : x \in T}
<1>1. L \subseteq K
  OBVIOUS
<1>2. IsFiniteSet(K)
  BY KilosFinite
<1> HIDE DEF K, L
<1>3. Cardinality(L) <= Cardinality(K)
  BY <1>1, <1>2, FS_Subset
<1> QED BY <1>3 DEF TotalOf, K, L

-----------------------------------------------------------------------------
(* The freight: edges and snapshots *)

\* The target of a transition and the row of the workflow it comes from.
LEMMA TargetEdge ==
    ASSUME NEW E, NEW s, NEW a, NEW to \in Targets(E, s, a)
    PROVE  \E x \in E : x[1] = s /\ x[2] = a /\ x[3] = to
BY DEF Targets

\* Nothing leads back to the state a parcel is grouped from, except its reception.
LEMMA ParcelEdgeFacts ==
    \A x \in PEdges :
        /\ x[3] \in States(PEdges)
        /\ x[3] # "CREATED"
        /\ x[3] = "AT_ORIGIN" => x[1] = "CREATED"
        /\ x[2] = "ADD_TO_SHIPMENT" => x[1] = "AT_ORIGIN"
<1> TAKE x \in PEdges
<1>1. x[3] \in States(PEdges)
  BY DEF States
<1>2. CASE x \in ParcelEdges
  BY <1>1, <1>2 DEF ParcelEdges
<1>3. CASE x \in HubEdges
  BY <1>1, <1>3 DEF HubEdges
<1> QED BY <1>2, <1>3 DEF PEdges

\* A shipment that is not under way any more does not come back.
LEMMA ShipmentEdgeFacts ==
    \A x \in ShipmentEdges :
        /\ x[3] \in States(ShipmentEdges)
        /\ x[3] # "absent"
        /\ x[3] \in {"OPEN", "LOADED", "IN_TRANSIT"} => x[1] \in {"OPEN", "LOADED", "IN_TRANSIT"}
<1> TAKE x \in ShipmentEdges
<1>1. x[3] \in States(ShipmentEdges)
  BY DEF States
<1> QED BY <1>1 DEF ShipmentEdges

\* What a request may carry.
LEMMA TaskTypes ==
    /\ NoTask \in Tasks
    /\ \A a \in Verbs(PEdges), p \in Parcels, s \in States(PEdges), n \in Nat :
          /\ [NoTask EXCEPT !.do = a, !.ent = p, !.was = s, !.ver = n] \in Tasks
          /\ \A d \in Shipments :
               [do |-> a, ent |-> p, was |-> s, ver |-> n, into |-> d] \in Tasks
    /\ \A a \in Verbs(ShipmentEdges), p \in Shipments, s \in States(ShipmentEdges), n \in Nat :
          [NoTask EXCEPT !.do = a, !.ent = p, !.was = s, !.ver = n] \in Tasks
<1>1. NoTask \in Tasks
  BY DEF NoTask, Tasks
<1>2. \A E : /\ Verbs(E) \subseteq Verbs(E \cup ShipmentEdges)
             /\ Verbs(E) \subseteq Verbs(PEdges \cup E)
  BY DEF Verbs
<1>3. \A E : /\ States(E) \subseteq States(E \cup ShipmentEdges)
             /\ States(E) \subseteq States(PEdges \cup E)
  BY DEF States
<1>4. ASSUME NEW a \in Verbs(PEdges), NEW p \in Parcels, NEW s \in States(PEdges), NEW n \in Nat
      PROVE  /\ [NoTask EXCEPT !.do = a, !.ent = p, !.was = s, !.ver = n] \in Tasks
             /\ \A d \in Shipments :
                  [do |-> a, ent |-> p, was |-> s, ver |-> n, into |-> d] \in Tasks
  BY <1>1, <1>2, <1>3, <1>4 DEF Tasks
<1>5. ASSUME NEW a \in Verbs(ShipmentEdges), NEW p \in Shipments, NEW s \in States(ShipmentEdges),
             NEW n \in Nat
      PROVE  [NoTask EXCEPT !.do = a, !.ent = p, !.was = s, !.ver = n] \in Tasks
  BY <1>1, <1>2, <1>3, <1>5 DEF Tasks
<1> QED BY <1>1, <1>4, <1>5
-----------------------------------------------------------------------------
(* The freight: requests *)

\* A row that is left alone or moved on.
MovesOn(r, q) == (q.status = r.status /\ q.ver = r.ver) \/ q.ver > r.ver

\* What a request knows stays true while others work: rows only move on, and shipments
\* do not vanish.
LEMMA InHandStays ==
    ASSUME FreightInv, FreightTypeOK', NEW u \in Agents,
           agentPc'[u] = agentPc[u] /\ agentJob'[u] = agentJob[u],
           \A p \in Parcels : MovesOn(parcel[p], parcel'[p]),
           \A s \in Shipments : shipment[s].status # "absent" =>
               shipment'[s].status # "absent" /\ MovesOn(shipment[s], shipment'[s])
    PROVE  InHand(u)'
<1>1. PICK j \in Tasks : j = agentJob[u] /\ j = agentJob'[u]
  BY DEF FreightInv, FreightTypeOK
<1>2. InHand(u) /\ j.ver \in Nat
  BY <1>1 DEF FreightInv, Tasks
<1>3. ASSUME NEW r, NEW q, r.ver \in Nat, q.ver \in Nat, ShowsRow(j, r), MovesOn(r, q)
      PROVE  ShowsRow(j, q)
  BY <1>2, <1>3 DEF ShowsRow, MovesOn
<1>4. ASSUME agentPc[u] \in {"add", "move"}
      PROVE  j.ent \in Parcels /\ ShowsRow(j, parcel'[j.ent])
  <2>1. j.ent \in Parcels /\ ShowsRow(j, parcel[j.ent])
    BY <1>1, <1>2, <1>4 DEF InHand
  <2>2. parcel[j.ent].ver \in Nat /\ parcel'[j.ent].ver \in Nat
    BY <2>1 DEF FreightInv, FreightTypeOK
  <2> QED BY <1>3, <2>1, <2>2
<1>5. ASSUME agentPc[u] = "ship"
      PROVE  /\ j.ent \in Shipments /\ shipment'[j.ent].status # "absent"
             /\ ShowsRow(j, shipment'[j.ent])
  <2>1. j.ent \in Shipments /\ shipment[j.ent].status # "absent" /\ ShowsRow(j, shipment[j.ent])
    BY <1>1, <1>2, <1>5 DEF InHand
  <2>2. shipment[j.ent].ver \in Nat /\ shipment'[j.ent].ver \in Nat
    BY <2>1 DEF FreightInv, FreightTypeOK
  <2> QED BY <1>3, <2>1, <2>2
<1>6. ASSUME agentPc[u] = "add"
      PROVE  /\ j.do = "ADD_TO_SHIPMENT"
             /\ j.into \in Shipments /\ shipment'[j.into].status # "absent"
  BY <1>1, <1>2, <1>6 DEF InHand
<1> QED BY <1>1, <1>4, <1>5, <1>6 DEF InHand

\* A step of one request changes its own place only.
LEMMA OneProceeds ==
    ASSUME FreightTypeOK, NEW w \in Agents, NEW step \in {"idle", "add", "ship", "move"},
           NEW j \in Tasks, Proceed(w, step, j)
    PROVE  /\ agentPc' \in [Agents -> {"idle", "add", "ship", "move"}]
           /\ agentJob' \in [Agents -> Tasks]
           /\ agentPc'[w] = step /\ agentJob'[w] = j
           /\ \A u \in Agents : u # w => agentPc'[u] = agentPc[u] /\ agentJob'[u] = agentJob[u]
BY DEF Proceed, FreightTypeOK

\* A request that reads, fails or ends leaves the tables alone: only what it carries
\* itself is at stake.
LEMMA OnlyReads ==
    ASSUME FreightInv, UNCHANGED <<parcel, shipment, freightClosed>>,
           NEW w \in Agents, NEW step \in {"idle", "add", "ship", "move"}, NEW j \in Tasks,
           Proceed(w, step, j),
           step \in {"add", "move"} => j.ent \in Parcels /\ ShowsRow(j, parcel[j.ent]),
           step = "add" => /\ j.do = "ADD_TO_SHIPMENT"
                           /\ j.into \in Shipments /\ shipment[j.into].status # "absent",
           step = "ship" => /\ j.ent \in Shipments /\ shipment[j.ent].status # "absent"
                            /\ ShowsRow(j, shipment[j.ent])
    PROVE  FreightInv'
<1>0. FreightTypeOK /\ GroupedOnce /\ WeightConserved /\ CapacityRespected
  BY DEF FreightInv
<1>1. /\ agentPc' \in [Agents -> {"idle", "add", "ship", "move"}]
      /\ agentJob' \in [Agents -> Tasks]
      /\ agentPc'[w] = step /\ agentJob'[w] = j
      /\ \A u \in Agents : u # w => agentPc'[u] = agentPc[u] /\ agentJob'[u] = agentJob[u]
  BY <1>0, OneProceeds
<1>2. FreightTypeOK'
  BY <1>0, <1>1 DEF FreightTypeOK
<1>3. ASSUME NEW u \in Agents PROVE InHand(u)'
  <2>1. CASE u = w
    BY <1>1, <2>1 DEF InHand
  <2>2. CASE u # w
    <3>1. \A p \in Parcels : MovesOn(parcel[p], parcel'[p])
      BY DEF MovesOn
    <3>2. \A s \in Shipments : shipment[s].status # "absent" =>
             shipment'[s].status # "absent" /\ MovesOn(shipment[s], shipment'[s])
      BY DEF MovesOn
    <3> QED BY <1>1, <1>2, <2>2, <3>1, <3>2, InHandStays
  <2> QED BY <2>1, <2>2
<1>4. GroupedOnce'
  BY <1>0 DEF GroupedOnce
<1>5. WeightConserved' /\ CapacityRespected'
  BY <1>0 DEF WeightConserved, CapacityRespected, Contents, CommittedKg, Committed, Promised
<1> QED BY <1>2, <1>3, <1>4, <1>5 DEF FreightInv

\* The snapshots the requests start from.
LEMMA StartKeeps ==
    ASSUME FreightInv, NEW w \in Agents,
           \/ \E p \in Parcels, s \in Shipments : AddParcel(w, p, s)
           \/ \E p \in Parcels, a \in Verbs(PEdges), by \in {"service", "dispatch"} :
                 MoveParcel(w, p, a, by)
           \/ \E s \in Shipments, a \in Verbs(ShipmentEdges), by \in {"service", "dispatch"} :
                 MoveShipment(w, s, a, by)
           \/ EndEarly(w)
    PROVE  FreightInv'
<1>0. /\ parcel \in [Parcels -> [status : States(PEdges), ver : Nat,
                                 shipment : Shipments \cup {Nothing}]]
      /\ shipment \in [Shipments -> [status : States(ShipmentEdges) \cup {"absent"}, ver : Nat,
                                     total : Nat, remaining : Int]]
  BY DEF FreightInv, FreightTypeOK
<1>1. ASSUME NEW p \in Parcels, NEW d \in Shipments, AddParcel(w, p, d) PROVE FreightInv'
  <2>1. PICK s \in States(PEdges), n \in Nat : s = parcel[p].status /\ n = parcel[p].ver
    BY <1>0
  <2>2. PICK j : j = [do |-> "ADD_TO_SHIPMENT", ent |-> p, was |-> s, ver |-> n, into |-> d]
    OBVIOUS
  <2>3. "ADD_TO_SHIPMENT" \in Verbs(PEdges)
    <3>1. <<"AT_ORIGIN", "ADD_TO_SHIPMENT", "PACKED">> \in PEdges
      BY DEF PEdges, ParcelEdges
    <3> QED BY <3>1 DEF Verbs
  <2>4. j \in Tasks
    BY <2>2, <2>3, TaskTypes
  <2>5. /\ Proceed(w, "add", j) /\ UNCHANGED <<parcel, shipment, freightClosed>>
        /\ shipment[d].status = "OPEN"
    BY <1>1, <2>1, <2>2 DEF AddParcel
  <2>6. ShowsRow(j, parcel[p])
    BY <2>1, <2>2 DEF ShowsRow
  <2> QED BY <2>2, <2>4, <2>5, <2>6, OnlyReads
<1>2. ASSUME NEW p \in Parcels, NEW a \in Verbs(PEdges), NEW by, MoveParcel(w, p, a, by)
      PROVE  FreightInv'
  <2>1. PICK s \in States(PEdges), n \in Nat : s = parcel[p].status /\ n = parcel[p].ver
    BY <1>0
  <2>2. PICK j : j = [NoTask EXCEPT !.do = a, !.ent = p, !.was = s, !.ver = n]
    OBVIOUS
  <2>3. j \in Tasks /\ j.ent = p /\ j.was = s /\ j.ver = n
    <3>1. j \in Tasks
      BY <2>2, TaskTypes
    <3> QED BY <2>2, <3>1 DEF NoTask
  <2>4. Proceed(w, "move", j) /\ UNCHANGED <<parcel, shipment, freightClosed>>
    BY <1>2, <2>1, <2>2 DEF MoveParcel
  <2>5. ShowsRow(j, parcel[p])
    BY <2>1, <2>3 DEF ShowsRow
  <2> QED BY <2>3, <2>4, <2>5, OnlyReads
<1>3. ASSUME NEW d \in Shipments, NEW a \in Verbs(ShipmentEdges), NEW by, MoveShipment(w, d, a, by)
      PROVE  FreightInv'
  <2>1. shipment[d].status # "absent"
    BY <1>3 DEF MoveShipment
  <2>2. PICK s \in States(ShipmentEdges), n \in Nat : s = shipment[d].status /\ n = shipment[d].ver
    BY <1>0, <2>1
  <2>3. PICK j : j = [NoTask EXCEPT !.do = a, !.ent = d, !.was = s, !.ver = n]
    OBVIOUS
  <2>4. j \in Tasks /\ j.ent = d /\ j.was = s /\ j.ver = n
    <3>1. j \in Tasks
      BY <2>3, TaskTypes
    <3> QED BY <2>3, <3>1 DEF NoTask
  <2>5. Proceed(w, "ship", j) /\ UNCHANGED <<parcel, shipment, freightClosed>>
    BY <1>3, <2>2, <2>3 DEF MoveShipment
  <2>6. ShowsRow(j, shipment[d])
    BY <2>2, <2>4 DEF ShowsRow
  <2> QED BY <2>1, <2>4, <2>5, <2>6, OnlyReads
<1>4. ASSUME EndEarly(w) PROVE FreightInv'
  <2>1. Proceed(w, "idle", NoTask) /\ UNCHANGED <<parcel, shipment, freightClosed>>
    BY <1>4 DEF EndEarly, EndTask
  <2> QED BY <2>1, TaskTypes, OnlyReads
<1> QED BY <1>1, <1>2, <1>3, <1>4
-----------------------------------------------------------------------------
(* The freight: commits *)

\* A commit that only moves rows on leaves what the other requests know true.
LEMMA EndKeeps ==
    ASSUME FreightInv, NEW w \in Agents, EndTask(w),
           parcel' \in [Parcels -> [status : States(PEdges), ver : Nat,
                                    shipment : Shipments \cup {Nothing}]],
           shipment' \in [Shipments -> [status : States(ShipmentEdges) \cup {"absent"}, ver : Nat,
                                        total : Nat, remaining : Int]],
           freightClosed' = freightClosed,
           \A p \in Parcels : MovesOn(parcel[p], parcel'[p]),
           \A s \in Shipments : shipment[s].status # "absent" =>
               shipment'[s].status # "absent" /\ MovesOn(shipment[s], shipment'[s])
    PROVE  FreightTypeOK' /\ \A u \in Agents : InHand(u)'
<1>0. FreightTypeOK
  BY DEF FreightInv
<1>1. /\ agentPc' \in [Agents -> {"idle", "add", "ship", "move"}]
      /\ agentJob' \in [Agents -> Tasks]
      /\ agentPc'[w] = "idle"
      /\ \A u \in Agents : u # w => agentPc'[u] = agentPc[u] /\ agentJob'[u] = agentJob[u]
  BY <1>0, OneProceeds, TaskTypes DEF EndTask
<1>2. FreightTypeOK'
  BY <1>0, <1>1 DEF FreightTypeOK
<1>3. ASSUME NEW u \in Agents PROVE InHand(u)'
  <2>1. CASE u = w
    BY <1>1, <2>1 DEF InHand
  <2>2. CASE u # w
    BY <1>1, <1>2, <2>2, InHandStays
  <2> QED BY <2>1, <2>2
<1> QED BY <1>2, <1>3

\* The commit of a parcel's transition: from the state the parcel really has.
LEMMA CommitParcelKeeps ==
    ASSUME FreightInv, NEW w \in Agents, CommitParcel(w)
    PROVE  FreightInv'
<1>0. /\ parcel \in [Parcels -> [status : States(PEdges), ver : Nat,
                                 shipment : Shipments \cup {Nothing}]]
      /\ shipment \in [Shipments -> [status : States(ShipmentEdges) \cup {"absent"}, ver : Nat,
                                     total : Nat, remaining : Int]]
      /\ GroupedOnce /\ WeightConserved /\ CapacityRespected
  BY DEF FreightInv, FreightTypeOK
<1>1. PICK j : j = agentJob[w]
  OBVIOUS
<1>2. /\ agentPc[w] = "move" /\ parcel[j.ent].ver = j.ver
      /\ EndTask(w) /\ shipment' = shipment /\ freightClosed' = freightClosed
      /\ \E to \in Targets(PEdges, j.was, j.do) :
            parcel' = [parcel EXCEPT ![j.ent].status = to, ![j.ent].ver = @ + 1]
  BY <1>1 DEF CommitParcel, SameVersion
<1>3. PICK e \in Parcels : e = j.ent /\ parcel[e].status = j.was
  BY <1>1, <1>2 DEF FreightInv, InHand, ShowsRow
<1>4. PICK x \in PEdges :
        /\ x[1] = parcel[e].status
        /\ parcel' = [parcel EXCEPT ![e].status = x[3], ![e].ver = @ + 1]
  <2>1. PICK to \in Targets(PEdges, j.was, j.do) :
           parcel' = [parcel EXCEPT ![j.ent].status = to, ![j.ent].ver = @ + 1]
    BY <1>2
  <2>2. PICK x \in PEdges : x[1] = j.was /\ x[2] = j.do /\ x[3] = to
    BY TargetEdge
  <2> QED BY <1>3, <2>1, <2>2
<1>5. /\ parcel'[e].status = x[3] /\ parcel'[e].ver = parcel[e].ver + 1
      /\ parcel'[e].shipment = parcel[e].shipment
      /\ \A p \in Parcels : p # e => parcel'[p] = parcel[p]
  BY <1>0, <1>4
<1>6. parcel' \in [Parcels -> [status : States(PEdges), ver : Nat,
                               shipment : Shipments \cup {Nothing}]]
  BY <1>0, <1>4, ParcelEdgeFacts
<1>7. \A p \in Parcels : MovesOn(parcel[p], parcel'[p])
  BY <1>0, <1>5 DEF MovesOn
<1>8. \A s \in Shipments : shipment[s].status # "absent" =>
         shipment'[s].status # "absent" /\ MovesOn(shipment[s], shipment'[s])
  BY <1>2 DEF MovesOn
<1>9. FreightTypeOK' /\ \A u \in Agents : InHand(u)'
  BY <1>0, <1>2, <1>6, <1>7, <1>8, EndKeeps
<1>10. GroupedOnce'
  BY <1>0, <1>2, <1>4, <1>5, ParcelEdgeFacts DEF GroupedOnce
<1>11. \A s \in Shipments : Contents(s)' = Contents(s)
  BY <1>5 DEF Contents
<1>12. WeightConserved'
  BY <1>0, <1>2, <1>11 DEF WeightConserved, Kg
<1>13. CapacityRespected'
  BY <1>0, <1>2 DEF CapacityRespected, CommittedKg, Committed, Promised
<1> QED BY <1>9, <1>10, <1>12, <1>13 DEF FreightInv

\* The commit of addParcel: the parcel is in no shipment yet, whoever else tried, and the
\* weight that leaves the shipment is the weight that enters it.
LEMMA CommitAddKeeps ==
    ASSUME FreightInv, NEW w \in Agents, CommitAdd(w)
    PROVE  FreightInv'
<1>0. /\ parcel \in [Parcels -> [status : States(PEdges), ver : Nat,
                                 shipment : Shipments \cup {Nothing}]]
      /\ shipment \in [Shipments -> [status : States(ShipmentEdges) \cup {"absent"}, ver : Nat,
                                     total : Nat, remaining : Int]]
      /\ GroupedOnce /\ WeightConserved /\ CapacityRespected
  BY DEF FreightInv, FreightTypeOK
<1>1. PICK j : j = agentJob[w]
  OBVIOUS
<1>2. /\ agentPc[w] = "add" /\ parcel[j.ent].ver = j.ver
      /\ EndTask(w) /\ freightClosed' = freightClosed
      /\ shipment' = [shipment EXCEPT ![j.into].remaining = @ - Weight[j.ent]]
      /\ \E to \in Targets(PEdges, j.was, j.do) :
            parcel' = [parcel EXCEPT ![j.ent] =
                         [status |-> to, ver |-> @.ver + 1, shipment |-> j.into]]
  BY <1>1 DEF CommitAdd, SameVersion
<1>3. PICK e \in Parcels, d \in Shipments :
        /\ e = j.ent /\ d = j.into /\ parcel[e].status = j.was
        /\ j.do = "ADD_TO_SHIPMENT" /\ shipment[d].status # "absent"
  BY <1>1, <1>2 DEF FreightInv, InHand, ShowsRow
<1>4. PICK x \in PEdges :
        /\ x[1] = parcel[e].status /\ x[2] = "ADD_TO_SHIPMENT"
        /\ parcel' = [parcel EXCEPT ![e] = [status |-> x[3], ver |-> @.ver + 1, shipment |-> d]]
  <2>1. PICK to \in Targets(PEdges, j.was, j.do) :
           parcel' = [parcel EXCEPT ![j.ent] =
                   [status |-> to, ver |-> @.ver + 1, shipment |-> j.into]]
    BY <1>2
  <2>2. PICK x \in PEdges : x[1] = j.was /\ x[2] = j.do /\ x[3] = to
    BY TargetEdge
  <2> QED BY <1>3, <2>1, <2>2
<1>5. /\ parcel'[e] = [status |-> x[3], ver |-> parcel[e].ver + 1, shipment |-> d]
      /\ \A p \in Parcels : p # e => parcel'[p] = parcel[p]
  BY <1>0, <1>4
<1>6. Weight[e] \in Nat /\ shipment' = [shipment EXCEPT ![d].remaining = @ - Weight[e]]
  BY <1>2, <1>3, FreightAssumption
<1>7. /\ shipment'[d].remaining = shipment[d].remaining - Weight[e]
      /\ \A s \in Shipments : s # d => shipment'[s] = shipment[s]
      /\ \A s \in Shipments : /\ shipment'[s].status = shipment[s].status
                              /\ shipment'[s].ver = shipment[s].ver
                              /\ shipment'[s].total = shipment[s].total
  BY <1>0, <1>6
<1>8. parcel' \in [Parcels -> [status : States(PEdges), ver : Nat,
                               shipment : Shipments \cup {Nothing}]]
  BY <1>0, <1>4, ParcelEdgeFacts
<1>9. shipment' \in [Shipments -> [status : States(ShipmentEdges) \cup {"absent"}, ver : Nat,
                                   total : Nat, remaining : Int]]
  BY <1>0, <1>6
<1>10. FreightTypeOK' /\ \A u \in Agents : InHand(u)'
  <2>1. \A p \in Parcels : MovesOn(parcel[p], parcel'[p])
    BY <1>0, <1>5 DEF MovesOn
  <2>2. \A s \in Shipments : shipment[s].status # "absent" =>
           shipment'[s].status # "absent" /\ MovesOn(shipment[s], shipment'[s])
    BY <1>7 DEF MovesOn
  <2> QED BY <1>2, <1>8, <1>9, <2>1, <2>2, EndKeeps
<1>11. parcel[e].status = "AT_ORIGIN" /\ parcel[e].shipment = Nothing
  BY <1>0, <1>4, ParcelEdgeFacts DEF GroupedOnce
<1>12. GroupedOnce'
  <2>1. x[3] \notin {"CREATED", "AT_ORIGIN"}
    BY <1>4, <1>11, ParcelEdgeFacts
  <2>2. \A s \in Shipments : shipment[s].status # "absent" => shipment'[s].status # "absent"
    BY <1>7
  <2> SUFFICES ASSUME NEW p \in Parcels, parcel'[p].shipment # Nothing
               PROVE  /\ parcel'[p].status \notin {"CREATED", "AT_ORIGIN"}
                      /\ shipment'[parcel'[p].shipment].status # "absent"
    BY DEF GroupedOnce
  <2>3. CASE p = e
    BY <1>3, <1>5, <2>1, <2>2, <2>3
  <2>4. CASE p # e
    <3>1. parcel[p].shipment \in Shipments
      BY <1>0, <1>5, <2>4
    <3> QED BY <1>0, <1>5, <2>2, <2>4, <3>1 DEF GroupedOnce
  <2> QED BY <2>3, <2>4
<1>13. WeightConserved'
  <2> SUFFICES ASSUME NEW s \in Shipments
               PROVE  shipment'[s].remaining = shipment'[s].total - Kg(Contents(s)')
    BY DEF WeightConserved, Kg
  <2>1. shipment[s].remaining = shipment[s].total - Kg(Contents(s))
    BY <1>0 DEF WeightConserved
  <2>2. CASE s # d
    <3>1. Contents(s)' = Contents(s)
      BY <1>5, <1>11, <2>2, FreightAssumption DEF Contents
    <3> QED BY <1>7, <2>1, <2>2, <3>1
  <2>3. CASE s = d
    <3>1. Contents(d)' = Contents(d) \cup {e} /\ e \notin Contents(d)
      BY <1>5, <1>11, FreightAssumption DEF Contents
    <3>2. IsFiniteSet(Contents(d)) /\ Contents(d) \subseteq Parcels
      BY FS_Subset, FreightAssumption DEF Contents
    <3>3. \A p \in Contents(d) \cup {e} : Weight[p] \in Nat
      BY <3>2, FreightAssumption
    <3>4. Kg(Contents(d) \cup {e}) = Kg(Contents(d)) + Weight[e] /\ Kg(Contents(d)) \in Nat
      BY <3>1, <3>2, <3>3, TotalAdd, KilosFinite DEF Kg
    <3>5. shipment[d].total \in Nat
      BY <1>0
    <3> QED BY <1>6, <1>7, <2>1, <2>3, <3>1, <3>4, <3>5
  <2> QED BY <2>2, <2>3
<1>14. CapacityRespected'
  <2>1. Committed' = Committed /\ Promised' = Promised
    BY <1>7 DEF Committed, Promised
  <2> QED BY <1>0, <2>1 DEF CapacityRespected, CommittedKg
<1> QED BY <1>10, <1>12, <1>13, <1>14 DEF FreightInv

\* The commit of a shipment's transition: what is not under way does not come back.
LEMMA CommitShipmentKeeps ==
    ASSUME FreightInv, NEW w \in Agents, CommitShipment(w)
    PROVE  FreightInv'
<1>0. /\ parcel \in [Parcels -> [status : States(PEdges), ver : Nat,
                                 shipment : Shipments \cup {Nothing}]]
      /\ shipment \in [Shipments -> [status : States(ShipmentEdges) \cup {"absent"}, ver : Nat,
                                     total : Nat, remaining : Int]]
      /\ GroupedOnce /\ WeightConserved /\ CapacityRespected
  BY DEF FreightInv, FreightTypeOK
<1>1. PICK j : j = agentJob[w]
  OBVIOUS
<1>2. /\ agentPc[w] = "ship" /\ shipment[j.ent].ver = j.ver
      /\ EndTask(w) /\ parcel' = parcel /\ freightClosed' = freightClosed
      /\ \E to \in Targets(ShipmentEdges, j.was, j.do) :
            shipment' = [shipment EXCEPT ![j.ent].status = to, ![j.ent].ver = @ + 1]
  BY <1>1 DEF CommitShipment, SameVersion
<1>3. PICK d \in Shipments : d = j.ent /\ shipment[d].status = j.was
  BY <1>1, <1>2 DEF FreightInv, InHand, ShowsRow
<1>4. PICK x \in ShipmentEdges :
        /\ x[1] = shipment[d].status
        /\ shipment' = [shipment EXCEPT ![d].status = x[3], ![d].ver = @ + 1]
  <2>1. PICK to \in Targets(ShipmentEdges, j.was, j.do) :
           shipment' = [shipment EXCEPT ![j.ent].status = to, ![j.ent].ver = @ + 1]
    BY <1>2
  <2>2. PICK x \in ShipmentEdges : x[1] = j.was /\ x[2] = j.do /\ x[3] = to
    BY TargetEdge
  <2> QED BY <1>3, <2>1, <2>2
<1>5. /\ shipment'[d].status = x[3] /\ shipment'[d].ver = shipment[d].ver + 1
      /\ \A s \in Shipments : s # d => shipment'[s] = shipment[s]
      /\ \A s \in Shipments : /\ shipment'[s].total = shipment[s].total
                              /\ shipment'[s].remaining = shipment[s].remaining
  BY <1>0, <1>4
<1>6. shipment' \in [Shipments -> [status : States(ShipmentEdges) \cup {"absent"}, ver : Nat,
                                   total : Nat, remaining : Int]]
  BY <1>0, <1>4, ShipmentEdgeFacts
<1>7. \A s \in Shipments : shipment[s].status # "absent" =>
         shipment'[s].status # "absent" /\ MovesOn(shipment[s], shipment'[s])
  BY <1>0, <1>4, <1>5, ShipmentEdgeFacts DEF MovesOn
<1>8. \A p \in Parcels : MovesOn(parcel[p], parcel'[p])
  BY <1>2 DEF MovesOn
<1>9. FreightTypeOK' /\ \A u \in Agents : InHand(u)'
  BY <1>0, <1>2, <1>6, <1>7, <1>8, EndKeeps
<1>10. GroupedOnce'
  BY <1>0, <1>2, <1>7 DEF GroupedOnce
<1>11. WeightConserved'
  BY <1>0, <1>2, <1>5 DEF WeightConserved, Kg, Contents
<1>12. CapacityRespected'
  <2>1. Committed' \subseteq Committed
    BY <1>4, <1>5, ShipmentEdgeFacts DEF Committed
  <2>2. Promised' = Promised
    BY <1>5 DEF Promised
  <2>3. IsFiniteSet(Committed) /\ \A s \in Committed : Promised[s] \in Nat
    BY <1>0, FS_Subset, FreightAssumption DEF Committed, Promised
  <2>4. TotalOf(Promised, Committed') <= TotalOf(Promised, Committed)
    BY <2>1, <2>3, TotalPart
  <2>5. TotalOf(Promised, Committed') \in Nat /\ TotalOf(Promised, Committed) \in Nat
    BY <2>1, <2>3, FS_Subset, KilosFinite
  <2> QED BY <1>0, <2>2, <2>4, <2>5, FreightAssumption DEF CapacityRespected, CommittedKg
<1> QED BY <1>9, <1>10, <1>11, <1>12 DEF FreightInv

\* A new shipment is empty, and opened within what the bus can still carry.
LEMMA CreateKeeps ==
    ASSUME FreightInv, NEW d \in Shipments, NEW kg \in MaxWeights, CreateShipment(d, kg)
    PROVE  FreightInv'
<1>0. /\ parcel \in [Parcels -> [status : States(PEdges), ver : Nat,
                                 shipment : Shipments \cup {Nothing}]]
      /\ shipment \in [Shipments -> [status : States(ShipmentEdges) \cup {"absent"}, ver : Nat,
                                     total : Nat, remaining : Int]]
      /\ FreightTypeOK /\ GroupedOnce /\ WeightConserved /\ CapacityRespected
  BY DEF FreightInv, FreightTypeOK
<1>1. /\ shipment[d].status = "absent" /\ kg \in Nat
      /\ BusCapacity > 0 => CommittedKg + kg <= BusCapacity
      /\ shipment' = [shipment EXCEPT ![d] =
                        [status |-> "OPEN", ver |-> 1, total |-> kg, remaining |-> kg]]
      /\ UNCHANGED <<parcel, freightClosed, agentPc, agentJob>>
  BY FreightAssumption DEF CreateShipment
<1>2. /\ shipment'[d] = [status |-> "OPEN", ver |-> 1, total |-> kg, remaining |-> kg]
      /\ \A s \in Shipments : s # d => shipment'[s] = shipment[s]
  BY <1>0, <1>1
<1>3. FreightTypeOK'
  <2>1. "OPEN" \in States(ShipmentEdges)
    <3>1. <<"OPEN", "LOAD", "LOADED">> \in ShipmentEdges
      BY DEF ShipmentEdges
    <3> QED BY <3>1 DEF States
  <2>2. [status |-> "OPEN", ver |-> 1, total |-> kg, remaining |-> kg] \in
           [status : States(ShipmentEdges) \cup {"absent"}, ver : Nat, total : Nat, remaining : Int]
    BY <1>1, <2>1
  <2> QED BY <1>0, <1>1, <2>2 DEF FreightTypeOK
<1>4. ASSUME NEW u \in Agents PROVE InHand(u)'
  <2>1. \A p \in Parcels : MovesOn(parcel[p], parcel'[p])
    BY <1>1 DEF MovesOn
  <2>2. \A s \in Shipments : shipment[s].status # "absent" =>
           shipment'[s].status # "absent" /\ MovesOn(shipment[s], shipment'[s])
    BY <1>1, <1>2 DEF MovesOn
  <2> QED BY <1>1, <1>3, <2>1, <2>2, InHandStays
<1>5. GroupedOnce'
  BY <1>0, <1>1, <1>2 DEF GroupedOnce
<1>6. \A s \in Shipments : Contents(s)' = Contents(s)
  BY <1>1 DEF Contents
<1>7. WeightConserved'
  <2> SUFFICES ASSUME NEW s \in Shipments
               PROVE  shipment'[s].remaining = shipment'[s].total - Kg(Contents(s))
    BY <1>6 DEF WeightConserved, Kg
  <2>1. CASE s # d
    BY <1>0, <1>2, <2>1 DEF WeightConserved
  <2>2. CASE s = d
    <3>1. Contents(d) = {}
      BY <1>0, <1>1, FreightAssumption DEF Contents, GroupedOnce
    <3>2. Kg(Contents(d)) = 0
      BY <3>1, TotalEmpty DEF Kg
    <3> QED BY <1>1, <1>2, <2>2, <3>2
  <2> QED BY <2>1, <2>2
<1>8. CapacityRespected'
  <2>1. Committed' = Committed \cup {d} /\ d \notin Committed
    BY <1>1, <1>2 DEF Committed
  <2>2. /\ \A s \in Committed : Promised'[s] = Promised[s]
        /\ \A s \in Committed \cup {d} : Promised'[s] \in Nat
        /\ Promised'[d] = kg
    BY <1>0, <1>1, <1>2, <2>1 DEF Promised, Committed
  <2>3. IsFiniteSet(Committed)
    BY FS_Subset, FreightAssumption DEF Committed
  <2>4. PICK f : f = Promised'
    OBVIOUS
  <2>5. TotalOf(f, Committed \cup {d}) = TotalOf(f, Committed) + kg
    BY <2>1, <2>2, <2>3, <2>4, TotalAdd
  <2>6. TotalOf(f, Committed) = TotalOf(Promised, Committed)
    BY <2>2, <2>4, TotalSame
  <2>7. CommittedKg' = CommittedKg + kg
    BY <2>1, <2>4, <2>5, <2>6 DEF CommittedKg
  <2> QED BY <1>1, <2>7 DEF CapacityRespected
<1> QED BY <1>3, <1>4, <1>5, <1>7, <1>8 DEF FreightInv

-----------------------------------------------------------------------------
(* The freight: theorems *)

\* Every step of the freight keeps the invariant.
LEMMA FreightStep ==
    ASSUME FreightInv, [FreightNext]_freightVars
    PROVE  FreightInv'
<1>1. CASE \E w \in Agents : CommitAdd(w) \/ CommitShipment(w) \/ CommitParcel(w)
  BY <1>1, CommitAddKeeps, CommitShipmentKeeps, CommitParcelKeeps
<1>2. CASE \E s \in Shipments, kg \in MaxWeights : CreateShipment(s, kg)
  BY <1>2, CreateKeeps
<1>3. CASE \E w \in Agents :
             \/ \E p \in Parcels, s \in Shipments : AddParcel(w, p, s)
             \/ \E p \in Parcels, a \in Verbs(PEdges), by \in {"service", "dispatch"} :
                  MoveParcel(w, p, a, by)
             \/ \E s \in Shipments, a \in Verbs(ShipmentEdges), by \in {"service", "dispatch"} :
                  MoveShipment(w, s, a, by)
             \/ EndEarly(w)
  BY <1>3, StartKeeps
<1>4. CASE CloseFreight \/ UNCHANGED freightVars
  <2>1. /\ UNCHANGED <<parcel, shipment, agentPc, agentJob>>
        /\ freightClosed' \in BOOLEAN
    BY <1>4 DEF CloseFreight, freightVars, FreightInv, FreightTypeOK
  <2>2. FreightTypeOK' /\ \A w \in Agents : InHand(w)'
    BY <2>1 DEF FreightInv, FreightTypeOK, InHand
  <2>3. GroupedOnce'
    BY <2>1 DEF FreightInv, GroupedOnce
  <2>4. WeightConserved' /\ CapacityRespected'
    BY <2>1 DEF FreightInv, WeightConserved, CapacityRespected, Contents, CommittedKg, Committed,
                Promised
  <2> QED BY <2>2, <2>3, <2>4 DEF FreightInv
<1> QED BY <1>1, <1>2, <1>3, <1>4 DEF FreightNext

\* It holds at the start: no shipment, nothing promised.
LEMMA FreightStart == FreightInit => FreightInv
<1> SUFFICES ASSUME FreightInit PROVE FreightInv
  OBVIOUS
<1>1. {"CREATED", "AT_ORIGIN"} \subseteq States(PEdges)
  <2>1. <<"CREATED", "RECEIVE", "AT_ORIGIN">> \in PEdges
    BY DEF PEdges, ParcelEdges
  <2> QED BY <2>1 DEF States
<1>2. FreightTypeOK
  <2>1. parcel \in [Parcels -> [status : States(PEdges), ver : Nat,
                                shipment : Shipments \cup {Nothing}]]
    BY <1>1 DEF FreightInit
  <2>2. [status |-> "absent", ver |-> 0, total |-> 0, remaining |-> 0] \in
           [status : States(ShipmentEdges) \cup {"absent"}, ver : Nat, total : Nat, remaining : Int]
    OBVIOUS
  <2>3. shipment \in [Shipments -> [status : States(ShipmentEdges) \cup {"absent"}, ver : Nat,
                                    total : Nat, remaining : Int]]
    BY <2>2 DEF FreightInit
  <2>4. agentJob \in [Agents -> Tasks]
    BY TaskTypes DEF FreightInit
  <2> QED BY <2>1, <2>3, <2>4 DEF FreightInit, FreightTypeOK
<1>3. (\A w \in Agents : InHand(w)) /\ GroupedOnce
  BY DEF FreightInit, InHand, GroupedOnce
<1>4. WeightConserved
  <2>1. ASSUME NEW s \in Shipments PROVE Contents(s) = {}
    BY FreightAssumption DEF FreightInit, Contents
  <2>2. ASSUME NEW s \in Shipments
        PROVE  shipment[s].remaining = 0 /\ shipment[s].total = 0 /\ Kg(Contents(s)) = 0
    <3>1. shipment[s].remaining = 0 /\ shipment[s].total = 0
      BY DEF FreightInit
    <3>2. Kg(Contents(s)) = 0
      BY <2>1, TotalEmpty DEF Kg
    <3> QED BY <3>1, <3>2
  <2> QED BY <2>2 DEF WeightConserved
<1>5. CapacityRespected
  <2>1. Committed = {}
    BY DEF FreightInit, Committed
  <2> QED BY <2>1, TotalEmpty, FreightAssumption DEF CapacityRespected, CommittedKg
<1> QED BY <1>2, <1>3, <1>4, <1>5 DEF FreightInv

\* FreightInv holds in every state the agents and the driver can bring about.
THEOREM FreightInvariance == FreightSpec => []FreightInv
<1> QED BY FreightStart, FreightStep, PTL DEF FreightSpec

\* Parcels, shipments and requests keep their types: only states of the blueprint are
\* stored.
THEOREM FreightTypeCorrect == FreightSpec => []FreightTypeOK
<1>1. FreightInv => FreightTypeOK
  BY DEF FreightInv
<1> QED BY <1>1, FreightInvariance, PTL

\* The remaining weight of a shipment accounts for the parcels in it, for any number of
\* agents who group, load and close at the same time.
THEOREM WeightTheorem == FreightSpec => []WeightConserved
<1>1. FreightInv => WeightConserved
  BY DEF FreightInv
<1> QED BY <1>1, FreightInvariance, PTL

\* The shipments under way never promise more than the bus carries, for any number of
\* shipments, weights and agents.
THEOREM CapacityTheorem == FreightSpec => []CapacityRespected
<1>1. FreightInv => CapacityRespected
  BY DEF FreightInv
<1> QED BY <1>1, FreightInvariance, PTL

\* Parcels and shipments move along their blueprints, whatever the snapshot a request
\* works from, and a parcel that is in a shipment stays in it.
THEOREM FreightBlueprintTheorem == FreightSpec => FreightBlueprint
<1>1. ASSUME FreightInv, [FreightNext]_freightVars PROVE FreightMoves
  <2>1. /\ parcel \in [Parcels -> [status : States(PEdges), ver : Nat,
                                  shipment : Shipments \cup {Nothing}]]
        /\ shipment \in [Shipments -> [status : States(ShipmentEdges) \cup {"absent"}, ver : Nat,
                                       total : Nat, remaining : Int]]
        /\ GroupedOnce /\ \A w \in Agents : InHand(w)
    BY <1>1 DEF FreightInv, FreightTypeOK
  <2>2. ASSUME UNCHANGED parcel, UNCHANGED shipment PROVE FreightMoves
    BY <2>2 DEF FreightMoves, ParcelMoves, ShipmentMoves
  <2>3. ASSUME NEW w \in Agents, CommitAdd(w) PROVE FreightMoves
    <3>1. PICK j : j = agentJob[w]
      OBVIOUS
    <3>2. /\ j.ent \in Parcels /\ j.into \in Shipments /\ j.do = "ADD_TO_SHIPMENT"
          /\ parcel[j.ent].ver = j.ver /\ ShowsRow(j, parcel[j.ent])
      BY <2>1, <2>3, <3>1 DEF InHand, CommitAdd, SameVersion
    <3>3. PICK to \in Targets(PEdges, j.was, j.do) :
             parcel' = [parcel EXCEPT ![j.ent] =
                          [status |-> to, ver |-> parcel[j.ent].ver + 1, shipment |-> j.into]]
      BY <2>3, <3>1 DEF CommitAdd
    <3>4. PICK x \in PEdges : x[1] = j.was /\ x[2] = j.do /\ x[3] = to
      BY <3>3, TargetEdge
    <3>5. parcel[j.ent].status = x[1] /\ x[1] = "AT_ORIGIN"
      <4>1. parcel[j.ent].status = j.was
        BY <3>2 DEF ShowsRow
      <4> QED BY <3>2, <3>4, <4>1, ParcelEdgeFacts
    <3>6. parcel[j.ent].shipment = Nothing
      BY <2>1, <3>2, <3>5 DEF GroupedOnce
    <3>7. ASSUME NEW p \in Parcels PROVE ParcelMoves(p)
      <4>1. CASE p = j.ent
        <5>1. parcel'[p] = [status |-> to, ver |-> parcel[p].ver + 1, shipment |-> j.into]
          BY <2>1, <3>2, <3>3, <4>1
        <5>2. Follows(PEdges, parcel[p], parcel'[p])
          BY <3>4, <3>5, <4>1, <5>1 DEF Follows
        <5> QED BY <3>6, <4>1, <5>2 DEF ParcelMoves
      <4>2. CASE p # j.ent
        BY <2>1, <3>3, <4>2 DEF ParcelMoves
      <4> QED BY <4>1, <4>2
    <3>8. shipment' = [shipment EXCEPT ![j.into].remaining = @ - Weight[j.ent]]
      BY <2>3, <3>1 DEF CommitAdd
    <3>9. \A s \in Shipments : shipment'[s].status = shipment[s].status
      BY <2>1, <3>2, <3>8
    <3> QED BY <3>7, <3>9 DEF FreightMoves, ShipmentMoves
  <2>4. ASSUME NEW w \in Agents, CommitParcel(w) PROVE FreightMoves
    <3>1. PICK j : j = agentJob[w]
      OBVIOUS
    <3>2. j.ent \in Parcels /\ parcel[j.ent].ver = j.ver /\ ShowsRow(j, parcel[j.ent])
      BY <2>1, <2>4, <3>1 DEF InHand, CommitParcel, SameVersion
    <3>3. PICK to \in Targets(PEdges, j.was, j.do) :
             parcel' = [parcel EXCEPT ![j.ent].status = to, ![j.ent].ver = parcel[j.ent].ver + 1]
      BY <2>4, <3>1 DEF CommitParcel
    <3>4. PICK x \in PEdges : x[1] = j.was /\ x[3] = to
      BY <3>3, TargetEdge
    <3>5. parcel[j.ent].status = x[1]
      BY <3>2, <3>4 DEF ShowsRow
    <3>6. ASSUME NEW p \in Parcels PROVE ParcelMoves(p)
      <4>1. CASE p = j.ent
        <5>1. /\ parcel'[p].status = to /\ parcel'[p].ver = parcel[p].ver + 1
              /\ parcel'[p].shipment = parcel[p].shipment
          BY <2>1, <3>2, <3>3, <4>1
        <5>2. Follows(PEdges, parcel[p], parcel'[p])
          BY <3>4, <3>5, <4>1, <5>1 DEF Follows
        <5> QED BY <5>1, <5>2 DEF ParcelMoves
      <4>2. CASE p # j.ent
        BY <2>1, <3>3, <4>2 DEF ParcelMoves
      <4> QED BY <4>1, <4>2
    <3>7. UNCHANGED shipment
      BY <2>4 DEF CommitParcel
    <3> QED BY <3>6, <3>7 DEF FreightMoves, ShipmentMoves
  <2>5. ASSUME NEW w \in Agents, CommitShipment(w) PROVE FreightMoves
    <3>1. PICK j : j = agentJob[w]
      OBVIOUS
    <3>2. j.ent \in Shipments /\ shipment[j.ent].ver = j.ver /\ ShowsRow(j, shipment[j.ent])
      BY <2>1, <2>5, <3>1 DEF InHand, CommitShipment, SameVersion
    <3>3. PICK to \in Targets(ShipmentEdges, j.was, j.do) :
             shipment' = [shipment EXCEPT ![j.ent].status = to,
                                          ![j.ent].ver = shipment[j.ent].ver + 1]
      BY <2>5, <3>1 DEF CommitShipment
    <3>4. PICK x \in ShipmentEdges : x[1] = j.was /\ x[3] = to
      BY <3>3, TargetEdge
    <3>5. shipment[j.ent].status = x[1]
      BY <3>2, <3>4 DEF ShowsRow
    <3>6. ASSUME NEW s \in Shipments PROVE ShipmentMoves(s)
      <4>1. CASE s = j.ent
        <5>1. shipment'[s].status = to /\ shipment'[s].ver = shipment[s].ver + 1
          BY <2>1, <3>2, <3>3, <4>1
        <5>2. Follows(ShipmentEdges, shipment[s], shipment'[s])
          BY <3>4, <3>5, <4>1, <5>1 DEF Follows
        <5> QED BY <5>2 DEF ShipmentMoves
      <4>2. CASE s # j.ent
        BY <2>1, <3>3, <4>2 DEF ShipmentMoves
      <4> QED BY <4>1, <4>2
    <3>7. UNCHANGED parcel
      BY <2>5 DEF CommitShipment
    <3> QED BY <3>6, <3>7 DEF FreightMoves, ParcelMoves
  <2>6. ASSUME NEW s \in Shipments, NEW kg \in MaxWeights, CreateShipment(s, kg) PROVE FreightMoves
    <3>1. /\ UNCHANGED parcel /\ shipment[s].status = "absent"
          /\ shipment' = [shipment EXCEPT ![s] =
                            [status |-> "OPEN", ver |-> 1, total |-> kg, remaining |-> kg]]
      BY <2>6 DEF CreateShipment
    <3>2. shipment'[s].status = "OPEN" /\ \A u \in Shipments : u # s => shipment'[u] = shipment[u]
      BY <2>1, <3>1
    <3> QED BY <3>1, <3>2 DEF FreightMoves, ParcelMoves, ShipmentMoves
  <2>7. \/ UNCHANGED <<parcel, shipment>>
        \/ \E w \in Agents : CommitAdd(w) \/ CommitParcel(w) \/ CommitShipment(w)
        \/ \E s \in Shipments, kg \in MaxWeights : CreateShipment(s, kg)
    BY <1>1 DEF FreightNext, freightVars, AddParcel, MoveParcel, MoveShipment, EndEarly,
                CloseFreight
  <2> QED BY <2>2, <2>3, <2>4, <2>5, <2>6, <2>7
<1>2. FreightInv /\ [FreightNext]_freightVars => [FreightMoves]_freightVars
  BY <1>1
<1> QED BY <1>2, FreightInvariance, PTL DEF FreightSpec, FreightBlueprint
=============================================================================
