-------------------------- MODULE AfterSalesProofs --------------------------
(***************************************************************************)
(* Proofs that hold for every number of tickets, refunds, vouchers,        *)
(* registers, agencies and concurrent requests: type correctness, the      *)
(* inductive invariant IInv of AfterSales and what rests on it.            *)
(***************************************************************************)
EXTENDS AfterSales, TLAPS

\* What the blueprint says of the states the arguments below speak of.
LEMMA EdgeFacts ==
    \A x \in Edges :
        /\ x[1] \in Statuses /\ x[3] \in Statuses
        /\ x[1] # "absent" /\ x[3] # "absent"
        /\ x[1] \notin {"REJECTED", "PROCESSED"}
        /\ x[3] = "PROCESSED" <=> x[2] = "process"
        /\ x[3] = "REJECTED" <=> x[2] = "reject"
        /\ x[3] = "REDEEMED" <=> x[2] = "REDEEM"
<1>1. \A x \in Edges : x[1] \in Statuses /\ x[3] \in Statuses
  BY DEF Statuses
<1>2. \A x \in Edges : /\ x[1] # "absent" /\ x[3] # "absent"
                       /\ x[1] \notin {"REJECTED", "PROCESSED"}
                       /\ x[3] = "PROCESSED" <=> x[2] = "process"
                       /\ x[3] = "REJECTED" <=> x[2] = "reject"
                       /\ x[3] = "REDEEMED" <=> x[2] = "REDEEM"
  BY DEF Edges
<1> QED BY <1>1, <1>2

\* The statuses rows are created with.
LEMMA StatusFacts ==
    {"absent", "PENDING", "ISSUED", "CONFIRMED", "REDEEMED"} \subseteq Statuses
<1>1. {"PENDING", "ISSUED", "CONFIRMED", "REDEEMED"} \subseteq {x[1] : x \in Edges}
  BY DEF Edges
<1> QED BY <1>1 DEF Statuses

\* A request starts and ends without a job.
LEMMA NoJobType == NoJob \in Jobs
BY StatusFacts DEF NoJob, Jobs

\* A booking leaves a reference with exactly one row, if it had none or one.
LEMMA BookFacts ==
    ASSUME IInv, NEW ref \in Refs, NEW g \in Registers, NEW a, Book(ref, g, a)
    PROVE  /\ books' \in [Refs -> [Registers -> Nat]]
           /\ \A x \in Refs : x # ref => books'[x] = books[x]
           /\ (Booked(ref) /\ BookedOnce(ref))'
           /\ a \in Agencies \cup {None} =>
                register' \in [Registers -> [agency : Agencies \cup {None},
                                             status : {"absent", "OPEN", "CLOSED", "DISCREPANCY"}]]
<1>1. books \in [Refs -> [Registers -> Nat]] /\ (Booked(ref) => BookedOnce(ref))
  BY DEF IInv, TypeOK, OneRowPerRef
<1>2. [NoRows EXCEPT ![g] = 1] \in [Registers -> Nat] /\ [NoRows EXCEPT ![g] = 1] # NoRows
  BY DEF NoRows
<1>3. books' = [books EXCEPT ![ref] = IF @ = NoRows THEN [NoRows EXCEPT ![g] = 1] ELSE @]
  BY DEF Book
<1>4. books' \in [Refs -> [Registers -> Nat]] /\ \A x \in Refs : x # ref => books'[x] = books[x]
  BY <1>1, <1>2, <1>3
<1>5. (Booked(ref) /\ BookedOnce(ref))'
  BY <1>1, <1>2, <1>3 DEF Booked, BookedOnce, OneRow
<1>6. a \in Agencies \cup {None} =>
        register' \in [Registers -> [agency : Agencies \cup {None},
                                     status : {"absent", "OPEN", "CLOSED", "DISCREPANCY"}]]
  BY DEF Book, IInv, TypeOK
<1> QED BY <1>4, <1>5, <1>6

\* A reference that had a single row has it still, or none, after a register is deleted.
LEMMA RemovedRows ==
    ASSUME IInv, NEW w \in Workers, RemoveAgency(w)
    PROVE  /\ books' \in [Refs -> [Registers -> Nat]]
           /\ \A x \in Refs : Booked(x)' => Booked(x) /\ BookedOnce(x)'
<1>1. PICK gone \in SUBSET Registers :
        books' = [x \in Refs |-> [g \in Registers |-> IF g \in gone THEN 0 ELSE books[x][g]]]
  BY DEF RemoveAgency
<1>2. books \in [Refs -> [Registers -> Nat]]
  BY DEF IInv, TypeOK
<1>3. books' \in [Refs -> [Registers -> Nat]]
  BY <1>1, <1>2
<1>4. ASSUME NEW x \in Refs, Booked(x)' PROVE Booked(x) /\ BookedOnce(x)'
  <2>1. Booked(x)
    BY <1>1, <1>2, <1>4 DEF Booked, NoRows
  <2>2. PICK g \in Registers : books[x] = [NoRows EXCEPT ![g] = 1]
    BY <2>1 DEF IInv, OneRowPerRef, BookedOnce, OneRow
  <2>3. g \notin gone
    BY <1>1, <1>4, <2>2 DEF Booked, NoRows
  <2>4. books'[x] = [NoRows EXCEPT ![g] = 1]
    BY <1>1, <2>2, <2>3 DEF NoRows
  <2> QED BY <2>1, <2>4 DEF BookedOnce, OneRow
<1> QED BY <1>3, <1>4

-----------------------------------------------------------------------------
(* What other requests know *)

\* What a step may do to a row that other requests have read: move it on, a refund from
\* no rejection.
Overtakes(e) == row'[e].ver > row[e].ver /\ (e \in Refunds => row[e].status # "REJECTED")

\* A request that takes no part in a step still knows what it knew, if the rows that move
\* are not its own and no voucher comes for the rejection it is about to make up for.
LEMMA Bystander ==
    ASSUME IInv, row' \in [Entities -> [status : Statuses, ver : Nat]], agencies' \subseteq agencies,
           NEW u \in Workers, pc'[u] = pc[u], job'[u] = job[u],
           \A e \in Entities : \/ row'[e] = row[e]
                               \/ /\ Overtakes(e)
                                  /\ ~ (Holds(u) /\ job[u].ent = e),
           pc[u] = "fallback" =>
             \A v \in Vouchers : origin'[v] = origin[v] \/ origin'[v] # job[u].ent
    PROVE  KnowsItsRow(u)'
<1> DEFINE j == job[u]
<1>0. /\ row \in [Entities -> [status : Statuses, ver : Nat]] /\ agencies \subseteq Agencies
      /\ job[u] \in Jobs /\ KnowsItsRow(u)
  BY DEF IInv, TypeOK
<1>1. agencies # Agencies => agencies' # Agencies
  BY <1>0
<1>2. ASSUME Request(j) PROVE j.ent \in Entities /\ Request(j)'
  BY <1>2 DEF Request, Entities
<1>3. ASSUME pc[u] = "tx" PROVE Snapshot(j)'
  <2>1. Snapshot(j) /\ Request(j) /\ j.ent \in Entities /\ j.ver \in Nat
    BY <1>0, <1>2, <1>3 DEF KnowsItsRow, Snapshot, Jobs
  <2>2. CASE row'[j.ent] = row[j.ent]
    BY <1>1, <1>2, <2>1, <2>2 DEF Snapshot
  <2>3. CASE row'[j.ent].ver > row[j.ent].ver
    <3>1. row[j.ent].ver \in Nat /\ row'[j.ent].ver \in Nat
      BY <1>0, <2>1
    <3>2. j.ver <= row'[j.ent].ver /\ j.ver # row'[j.ent].ver
      BY <2>1, <2>3, <3>1 DEF Snapshot
    <3> QED BY <1>1, <1>2, <2>1, <3>2 DEF Snapshot
  <2> QED BY <2>1, <2>2, <2>3 DEF Overtakes
<1>4. ASSUME Holds(u), Holding(j) PROVE Holding(j)'
  <2>1. Request(j) /\ j.ent \in Entities /\ Request(j)'
    BY <1>2, <1>4 DEF Holding
  <2>2. row'[j.ent] = row[j.ent]
    BY <1>4, <2>1
  <2> QED BY <1>1, <1>4, <2>1, <2>2 DEF Holding
<1>5. ASSUME pc[u] = "fallback"
      PROVE  row'[j.ent].status = "REJECTED" /\ \A v \in Vouchers : origin'[v] # j.ent
  <2>1. /\ j.ent \in Refunds /\ row[j.ent].status = "REJECTED" /\ j.ent \in Entities
        /\ \A v \in Vouchers : origin[v] # j.ent
    BY <1>0, <1>5 DEF KnowsItsRow, Entities
  <2>2. row'[j.ent] = row[j.ent]
    BY <2>1 DEF Overtakes
  <2> QED BY <1>5, <2>1, <2>2, AfterSalesAssumption
<1> HIDE DEF j
<1>6. job[u]' = j
  BY DEF j
<1> QED
  BY <1>0, <1>3, <1>4, <1>5, <1>6 DEF KnowsItsRow, Holds, j

\* Where a request goes: what it takes over keeps the requests apart.
LEMMA GotoFacts ==
    ASSUME IInv, NEW w \in Workers, NEW step \in Steps, NEW j \in Jobs, Goto(w, step, j),
           step \in {"restore", "commit"} =>
             \A u \in Workers : u # w /\ Holds(u) => job[u].ent # j.ent,
           step = "fallback" =>
             \A u \in Workers : u # w /\ pc[u] = "fallback" => job[u].ent # j.ent
    PROVE  /\ pc' \in [Workers -> Steps] /\ job' \in [Workers -> Jobs] /\ Exclusive'
           /\ pc'[w] = step /\ job'[w] = j
           /\ \A u \in Workers : u # w => pc'[u] = pc[u] /\ job'[u] = job[u]
<1>1. pc \in [Workers -> Steps] /\ job \in [Workers -> Jobs] /\ Exclusive
  BY DEF IInv, TypeOK
<1>2. /\ pc' \in [Workers -> Steps] /\ job' \in [Workers -> Jobs]
      /\ pc'[w] = step /\ job'[w] = j
      /\ \A u \in Workers : u # w => pc'[u] = pc[u] /\ job'[u] = job[u]
  BY <1>1 DEF Goto
<1>3. Exclusive'
  BY <1>1, <1>2 DEF Exclusive, Holds
<1> QED BY <1>2, <1>3

-----------------------------------------------------------------------------
(* Requests that only read, and registers *)

\* A step that leaves the tables alone, where the one request that moves knows its row.
LEMMA Quiet ==
    ASSUME IInv, UNCHANGED <<tables, books, agencies, fallback>>,
           register' \in [Registers -> [agency : Agencies \cup {None},
                                       status : {"absent", "OPEN", "CLOSED", "DISCREPANCY"}]],
           NEW w \in Workers, NEW step \in Steps, NEW j \in Jobs, Goto(w, step, j),
           step # "fallback",
           step \in {"restore", "commit"} =>
             \A u \in Workers : u # w /\ Holds(u) => job[u].ent # j.ent,
           KnowsItsRow(w)'
    PROVE  IInv'
<1>1. /\ pc' \in [Workers -> Steps] /\ job' \in [Workers -> Jobs] /\ Exclusive'
      /\ \A u \in Workers : u # w => pc'[u] = pc[u] /\ job'[u] = job[u]
  BY GotoFacts
<1>2. TypeOK'
  BY <1>1 DEF IInv, TypeOK, tables
<1>3. ASSUME NEW u \in Workers PROVE KnowsItsRow(u)'
  <2>1. CASE u # w
    <3>1. pc'[u] = pc[u] /\ job'[u] = job[u] /\ KnowsItsRow(u)
      BY <1>1, <2>1 DEF IInv
    <3>2. (Snapshot(job[u]) => Snapshot(job[u])') /\ (Holding(job[u]) => Holding(job[u])')
      BY <3>1 DEF Snapshot, Holding, Request, tables
    <3> QED BY <3>1, <3>2 DEF KnowsItsRow, tables
  <2> QED BY <2>1
<1>4. Unborn' /\ OneRowPerRef'
  BY DEF IInv, tables, Unborn, OneRowPerRef, Booked, BookedOnce
<1>5. RefundBookedOnce' /\ RedeemedIsBooked'
  BY DEF IInv, tables, Booked, BookedOnce, RefundBookedOnce, RedeemedIsBooked
<1>6. PaidOrVoucher'
  BY DEF IInv, tables, Booked, PaidOrVoucher
<1> QED BY <1>1, <1>2, <1>3, <1>4, <1>5, <1>6 DEF IInv

\* Ending a request, in order or not, changes no table.
LEMMA FinishQuiet ==
    ASSUME IInv, NEW w \in Workers, Finish(w), UNCHANGED <<tables, cash, fallback>>
    PROVE  IInv'
<1>1. "idle" \in Steps
  BY DEF Steps
<1>2. Goto(w, "idle", NoJob)
  BY DEF Finish
<1>3. pc'[w] = "idle"
  BY <1>2 DEF Goto, IInv, TypeOK
<1>4. KnowsItsRow(w)'
  BY <1>3 DEF KnowsItsRow
<1>5. register' \in [Registers -> [agency : Agencies \cup {None},
                                   status : {"absent", "OPEN", "CLOSED", "DISCREPANCY"}]]
  BY DEF IInv, TypeOK, cash
<1> QED BY <1>1, <1>2, <1>4, <1>5, NoJobType, Quiet DEF cash

\* A reading that starts a transition gives its request a snapshot that is true now.
LEMMA ReadSafe ==
    ASSUME IInv, NEW w \in Workers, NEW e \in Entities, NEW a, NEW j \in Jobs, Read(w, e, a, j),
           UNCHANGED <<tables, cash, fallback>>,
           \/ a \in {"approve", "reject", "process"} /\ e \in Refunds
           \/ a = "REDEEM" /\ e \in Vouchers /\ j.on \in Tickets
           \/ a = "CANCEL" /\ e \in Vouchers
           \/ a = "CANCEL" /\ e \in Tickets /\ j.on \in Vouchers \cup {None},
           a \in {"process", "REDEEM"} /\ j.agency = None => agencies # Agencies
    PROVE  IInv'
<1>1. PICK k : k = [j EXCEPT !.do = a, !.ent = e, !.was = row[e].status, !.ver = row[e].ver]
  OBVIOUS
<1>2. row[e] \in [status : Statuses, ver : Nat]
  BY DEF IInv, TypeOK
<1>3. PICK x \in Edges : x[1] = row[e].status /\ x[2] = a
  BY DEF Read
<1>4. /\ k \in Jobs /\ k.do = a /\ k.ent = e /\ k.was = row[e].status /\ k.ver = row[e].ver
      /\ k.on = j.on /\ k.agency = j.agency
  BY <1>1, <1>2, <1>3 DEF Jobs
<1>5. Request(k)
  BY <1>3, <1>4 DEF Request
<1>6. Snapshot(k)
  BY <1>2, <1>4, <1>5 DEF Snapshot
<1>7. Goto(w, "tx", k) /\ "tx" \in Steps
  BY <1>1 DEF Read, Steps
<1>8. KnowsItsRow(w)'
  <2>1. pc'[w] = "tx" /\ job'[w] = k
    BY <1>7 DEF Goto, IInv, TypeOK
  <2>2. Snapshot(k)'
    BY <1>6 DEF Snapshot, Request, tables, cash
  <2>3. Snapshot(job[w])'
    BY <2>1, <2>2 DEF Snapshot, Request
  <2> QED BY <2>1, <2>3 DEF KnowsItsRow
<1>9. register' \in [Registers -> [agency : Agencies \cup {None},
                                   status : {"absent", "OPEN", "CLOSED", "DISCREPANCY"}]]
  BY DEF IInv, TypeOK, cash
<1> QED BY <1>4, <1>7, <1>8, <1>9, Quiet DEF cash

\* The agency of a booking is missing only when some agency was deleted.
LEMMA AgencyFacts ==
    ASSUME IInv, NEW t \in Tickets, NEW a \in AgencyOf(t)
    PROVE  a \in Agencies \cup {None} /\ (a = None => agencies # Agencies)
BY AfterSalesAssumption DEF AgencyOf, IInv, TypeOK

\* The decisions, redemptions and cancellations that begin.
LEMMA StartSafe ==
    ASSUME IInv, NEW w \in Workers,
           \/ \E f \in Refunds, a \in {"approve", "reject", "process"} : Decide(w, f, a)
           \/ \E v \in Vouchers, t \in Tickets : Redeem(w, v, t)
           \/ \E v \in Vouchers : CancelVoucher(w, v)
           \/ \E t \in Tickets : CancelTicket(w, t)
    PROVE  IInv'
<1>0. \A a \in Agencies \cup {None}, o \in Tickets \cup Vouchers \cup {None}, n \in Nat :
         /\ [NoJob EXCEPT !.agency = a] \in Jobs /\ [NoJob EXCEPT !.agency = a].agency = a
         /\ [NoJob EXCEPT !.on = o, !.agency = a] \in Jobs
         /\ [NoJob EXCEPT !.on = o, !.agency = a].on = o
         /\ [NoJob EXCEPT !.on = o, !.agency = a].agency = a
         /\ [NoJob EXCEPT !.on = o, !.vver = n] \in Jobs
         /\ [NoJob EXCEPT !.on = o, !.vver = n].on = o
  <2> TAKE a \in Agencies \cup {None}, o \in Tickets \cup Vouchers \cup {None}, n \in Nat
  <2>1. [NoJob EXCEPT !.agency = a] \in Jobs /\ [NoJob EXCEPT !.agency = a].agency = a
    BY NoJobType DEF Jobs, NoJob
  <2>2. [NoJob EXCEPT !.on = o, !.agency = a] \in Jobs
    BY NoJobType DEF Jobs
  <2>3. /\ [NoJob EXCEPT !.on = o, !.agency = a].on = o
        /\ [NoJob EXCEPT !.on = o, !.agency = a].agency = a
    BY DEF NoJob
  <2>4. [NoJob EXCEPT !.on = o, !.vver = n] \in Jobs
    BY NoJobType DEF Jobs
  <2>5. [NoJob EXCEPT !.on = o, !.vver = n].on = o
    BY DEF NoJob
  <2> QED BY <2>1, <2>2, <2>3, <2>4, <2>5
<1>1. ASSUME NEW f \in Refunds, NEW a \in {"approve", "reject", "process"}, Decide(w, f, a) PROVE IInv'
  <2>1. f \in Entities /\ UNCHANGED <<tables, cash, fallback>> /\ claim[f] \in Tickets
    BY <1>1 DEF Entities, Decide, IInv, TypeOK
  <2>2. CASE a \in {"approve", "reject"} /\ Read(w, f, a, NoJob)
    BY <2>1, <2>2, NoJobType, ReadSafe
  <2>3. CASE /\ a = "process"
             /\ \E b \in AgencyOf(claim[f]) : Read(w, f, a, [NoJob EXCEPT !.agency = b])
    <3>1. PICK b \in AgencyOf(claim[f]) : Read(w, f, a, [NoJob EXCEPT !.agency = b])
      BY <2>3
    <3>2. b \in Agencies \cup {None} /\ (b = None => agencies # Agencies)
      BY <2>1, AgencyFacts
    <3> QED BY <1>0, <2>1, <2>3, <3>1, <3>2, ReadSafe
  <2> QED BY <1>1, <2>2, <2>3 DEF Decide
<1>2. ASSUME NEW v \in Vouchers, NEW t \in Tickets, Redeem(w, v, t) PROVE IInv'
  <2>1. PICK a \in AgencyOf(t) : Read(w, v, "REDEEM", [NoJob EXCEPT !.on = t, !.agency = a])
    BY <1>2 DEF Redeem
  <2>2. a \in Agencies \cup {None} /\ (a = None => agencies # Agencies)
    BY AgencyFacts
  <2>3. v \in Entities /\ UNCHANGED <<tables, cash, fallback>>
    BY <1>2 DEF Entities, Redeem
  <2> QED BY <1>0, <2>1, <2>2, <2>3, ReadSafe
<1>3. ASSUME NEW v \in Vouchers, CancelVoucher(w, v) PROVE IInv'
  <2>1. v \in Entities /\ UNCHANGED <<tables, cash, fallback>> /\ Read(w, v, "CANCEL", NoJob)
    BY <1>3 DEF Entities, CancelVoucher
  <2> QED BY <2>1, NoJobType, ReadSafe
<1>4. ASSUME NEW t \in Tickets, CancelTicket(w, t) PROVE IInv'
  <2>1. t \in Entities /\ UNCHANGED <<tables, cash, fallback>>
    BY <1>4 DEF Entities, CancelTicket
  <2>2. CASE Read(w, t, "CANCEL", NoJob)
    <3>1. NoJob.on = None
      BY DEF NoJob
    <3> QED BY <2>1, <2>2, <3>1, NoJobType, ReadSafe
  <2>3. CASE \E v \in Linked(t) : Read(w, t, "CANCEL", [NoJob EXCEPT !.on = v, !.vver = row[v].ver])
    <3>1. PICK v \in Linked(t) : Read(w, t, "CANCEL", [NoJob EXCEPT !.on = v, !.vver = row[v].ver])
      BY <2>3
    <3>2. v \in Vouchers /\ row[v].ver \in Nat
      BY DEF Linked, Entities, IInv, TypeOK
    <3>3. /\ [NoJob EXCEPT !.on = v, !.vver = row[v].ver] \in Jobs
          /\ [NoJob EXCEPT !.on = v, !.vver = row[v].ver].on \in Vouchers
      <4>1. [NoJob EXCEPT !.on = v, !.vver = row[v].ver] \in Jobs
        BY <3>2, NoJobType DEF Jobs
      <4>2. [NoJob EXCEPT !.on = v, !.vver = row[v].ver].on = v
        BY DEF NoJob
      <4> QED BY <3>2, <4>1, <4>2
    <3> QED BY <2>1, <3>1, <3>3, ReadSafe
  <2> QED BY <1>4, <2>2, <2>3 DEF CancelTicket
<1> QED BY <1>1, <1>2, <1>3, <1>4

\* The other requests that begin or end, and the transactions that take a row.
LEMMA StepQuiet ==
    ASSUME IInv, NEW w \in Workers,
           \/ \E t \in Tickets : PortalCancel(w, t)
           \/ Begin(w) \/ BeginCancel(w) \/ RemoveCheck(w) \/ Fail(w)
    PROVE  IInv'
<1>0. /\ register \in [Registers -> [agency : Agencies \cup {None},
                                     status : {"absent", "OPEN", "CLOSED", "DISCREPANCY"}]]
      /\ job[w] \in Jobs /\ KnowsItsRow(w) /\ pc \in [Workers -> Steps] /\ job \in [Workers -> Jobs]
      /\ agencies \subseteq Agencies
  BY DEF IInv, TypeOK
<1>1. ASSUME NEW t \in Tickets, PortalCancel(w, t) PROVE IInv'
  <2>1. [NoJob EXCEPT !.on = t] \in Jobs /\ [NoJob EXCEPT !.on = t].on = t
    BY NoJobType DEF NoJob, Jobs
  <2>2. Goto(w, "refund", [NoJob EXCEPT !.on = t]) /\ UNCHANGED <<tables, cash, fallback>> /\ "refund" \in Steps
    BY <1>1 DEF PortalCancel, Steps
  <2>3. KnowsItsRow(w)'
    BY <1>0, <2>1, <2>2 DEF KnowsItsRow, Goto
  <2> QED BY <1>0, <2>1, <2>2, <2>3, Quiet DEF cash
<1>2. CASE Begin(w)
  <2>1. /\ Locks(w, job[w].ent, job[w].ver) /\ Snapshot(job[w]) /\ job[w].do \in {"process", "REDEEM"}
        /\ UNCHANGED <<tables, cash, fallback>>
    BY <1>0, <1>2 DEF Begin, KnowsItsRow
  <2>2. PICK g \in Registers \cup {None} :
          /\ g = None => job[w].agency = None
          /\ Goto(w, "commit", [job[w] EXCEPT !.reg = g])
    <3>1. CASE job[w].agency # None /\ \E g \in RegisterFor(job[w].agency) :
                                         Goto(w, "commit", [job[w] EXCEPT !.reg = g])
      <4>1. \A a : RegisterFor(a) \subseteq Registers
        BY DEF RegisterFor
      <4>2. PICK g \in RegisterFor(job[w].agency) : Goto(w, "commit", [job[w] EXCEPT !.reg = g])
        BY <3>1
      <4>3. g \in Registers /\ g # None
        BY <4>1, <4>2, AfterSalesAssumption
      <4> QED BY <4>2, <4>3
    <3>2. CASE job[w].agency = None /\ Goto(w, "commit", job[w])
      <4>1. PICK g \in Registers \cup {None} : job[w].reg = g
        BY <1>0 DEF Jobs
      <4>2. job[w] = [job[w] EXCEPT !.reg = g]
        BY <1>0, <4>1 DEF Jobs
      <4> QED BY <3>2, <4>1, <4>2
    <3> QED BY <1>2, <3>1, <3>2 DEF Begin
  <2>3. PICK k : k = [job[w] EXCEPT !.reg = g]
    OBVIOUS
  <2>4. /\ k \in Jobs /\ k.do = job[w].do /\ k.ent = job[w].ent /\ k.was = job[w].was
        /\ k.ver = job[w].ver /\ k.on = job[w].on /\ k.reg = g
    BY <1>0, <2>2, <2>3 DEF Jobs
  <2>5. job[w].ent \in Entities /\ Request(k)
    BY <2>1, <2>4 DEF Snapshot, Request, Entities
  <2>6. row[k.ent] = [status |-> k.was, ver |-> k.ver]
    BY <2>1, <2>4, <2>5 DEF Locks, Snapshot, IInv, TypeOK
  <2>7. Holding(k)
    BY <2>1, <2>2, <2>4, <2>5, <2>6 DEF Holding, Snapshot
  <2>8. Goto(w, "commit", k) /\ "commit" \in Steps
    BY <2>2, <2>3 DEF Steps
  <2>9. \A u \in Workers : u # w /\ Holds(u) => job[u].ent # k.ent
    BY <2>1, <2>4 DEF Locks, Holds
  <2>10. KnowsItsRow(w)'
    <3>1. pc'[w] = "commit" /\ job'[w] = k
      BY <1>0, <2>8 DEF Goto
    <3>2. Holding(k)'
      BY <2>1, <2>7 DEF Holding, Request, tables, cash
    <3>3. Holding(job[w])'
      BY <3>1, <3>2 DEF Holding, Request
    <3> QED BY <3>1, <3>3 DEF KnowsItsRow
  <2> QED BY <1>0, <2>1, <2>4, <2>8, <2>9, <2>10, Quiet DEF cash
<1>3. CASE BeginCancel(w)
  <2>1. /\ Locks(w, job[w].ent, job[w].ver) /\ Snapshot(job[w]) /\ job[w].do = "CANCEL"
        /\ job[w].ent \in Tickets /\ UNCHANGED <<tables, cash, fallback>>
    BY <1>0, <1>3 DEF BeginCancel, KnowsItsRow
  <2>2. PICK step \in {"commit", "restore"} :
          Goto(w, step, job[w]) /\ step = (IF job[w].on = None THEN "commit" ELSE "restore")
    BY <1>3 DEF BeginCancel
  <2>3. Request(job[w]) /\ (job[w].on \in Vouchers \cup {None}) /\ job[w].ent \in Entities
    BY <2>1, AfterSalesAssumption DEF Snapshot, Request, Entities
  <2>4. Holding(job[w])
    <3>1. row[job[w].ent] = [status |-> job[w].was, ver |-> job[w].ver]
      BY <2>1, <2>3 DEF Locks, Snapshot, IInv, TypeOK
    <3> QED BY <2>1, <2>3, <3>1 DEF Holding
  <2>5. \A u \in Workers : u # w /\ Holds(u) => job[u].ent # job[w].ent
    BY <2>1 DEF Locks, Holds
  <2>6. KnowsItsRow(w)'
    <3>1. pc'[w] = step /\ job'[w] = job[w]
      BY <1>0, <2>2 DEF Goto
    <3>2. Holding(job[w])'
      BY <2>1, <2>4, <3>1 DEF Holding, Request, tables, cash
    <3> QED BY <2>1, <2>2, <2>3, <3>1, <3>2 DEF KnowsItsRow
  <2>7. step \in Steps
    BY <2>2 DEF Steps
  <2> QED BY <1>0, <2>1, <2>2, <2>5, <2>6, <2>7, Quiet DEF cash
<1>4. CASE RemoveCheck(w)
  <2>1. PICK a \in agencies : Goto(w, "remove", [NoJob EXCEPT !.ent = a])
    BY <1>4 DEF RemoveCheck
  <2>2. [NoJob EXCEPT !.ent = a] \in Jobs /\ "remove" \in Steps
    BY <1>0, NoJobType DEF Jobs, Steps
  <2>3. KnowsItsRow(w)'
    BY <1>0, <2>1 DEF KnowsItsRow, Goto
  <2>4. UNCHANGED <<tables, cash, fallback>>
    BY <1>4 DEF RemoveCheck
  <2> QED BY <1>0, <2>1, <2>2, <2>3, <2>4, Quiet DEF cash
<1>5. CASE Fail(w)
  BY <1>5, FinishQuiet DEF Fail
<1> QED BY <1>1, <1>2, <1>3, <1>4, <1>5

\* Closing or opening a register changes no table either, and no request remembers its status.
LEMMA RegisterQuiet ==
    ASSUME IInv, NEW g \in Registers, MoveRegister(g)
    PROVE  IInv'
<1>1. register' \in [Registers -> [agency : Agencies \cup {None},
                                   status : {"absent", "OPEN", "CLOSED", "DISCREPANCY"}]]
  <2>0. PICK x \in RegisterEdges : register' = [register EXCEPT ![g].status = x[3]]
    BY DEF MoveRegister
  <2>1. PICK s \in {"OPEN", "CLOSED", "DISCREPANCY"} : register' = [register EXCEPT ![g].status = s]
    <3>1. x[3] \in {"OPEN", "CLOSED", "DISCREPANCY"}
      BY DEF RegisterEdges
    <3> QED BY <2>0, <3>1
  <2>2. register[g] \in [agency : Agencies \cup {None}, status : {"absent", "OPEN", "CLOSED", "DISCREPANCY"}]
    BY DEF IInv, TypeOK
  <2>3. [register[g] EXCEPT !.status = s]
          \in [agency : Agencies \cup {None}, status : {"absent", "OPEN", "CLOSED", "DISCREPANCY"}]
    BY <2>2
  <2>4. register' = [register EXCEPT ![g] = [register[g] EXCEPT !.status = s]]
    BY <2>1
  <2> QED BY <2>3, <2>4 DEF IInv, TypeOK
<1>2. UNCHANGED <<tables, books, agencies, fallback, pc, job>>
  BY DEF MoveRegister
<1>3. TypeOK'
  BY <1>1, <1>2 DEF IInv, TypeOK, tables
<1>4. Unborn' /\ Exclusive' /\ OneRowPerRef'
  BY <1>2 DEF IInv, tables, Unborn, Exclusive, Holds, OneRowPerRef, Booked, BookedOnce
<1>5. ASSUME NEW u \in Workers PROVE KnowsItsRow(u)'
  <2>1. (Snapshot(job[u]) => Snapshot(job[u])') /\ (Holding(job[u]) => Holding(job[u])')
    BY <1>2 DEF Snapshot, Holding, Request, tables
  <2> QED BY <1>2, <2>1 DEF IInv, KnowsItsRow, tables
<1>6. RefundBookedOnce'
  BY <1>2 DEF IInv, tables, Booked, BookedOnce, RefundBookedOnce
<1>8. RedeemedIsBooked'
  BY <1>2 DEF IInv, tables, BookedOnce, RedeemedIsBooked
<1>7. PaidOrVoucher'
  BY <1>2 DEF IInv, tables, Booked, PaidOrVoucher
<1> QED BY <1>2, <1>3, <1>4, <1>5, <1>6, <1>7, <1>8 DEF IInv

-----------------------------------------------------------------------------
(* Steps that move a row *)

\* Move(e, s, a) follows an edge of the blueprint.
LEMMA MoveFacts ==
    ASSUME IInv, NEW e \in Entities, NEW s, NEW a, Move(e, s, a)
    PROVE  \E x \in Edges :
             /\ x[1] = s /\ x[2] = a
             /\ row'[e] = [status |-> x[3], ver |-> row[e].ver + 1]
             /\ row' \in [Entities -> [status : Statuses, ver : Nat]] /\ Unborn'
             /\ row'[e].ver > row[e].ver
             /\ \A d \in Entities : d # e => row'[d] = row[d]
<1>1. PICK x \in Edges :
        x[1] = s /\ x[2] = a /\ row' = [row EXCEPT ![e] = [status |-> x[3], ver |-> @.ver + 1]]
  BY DEF Move
<1>2. row \in [Entities -> [status : Statuses, ver : Nat]] /\ Unborn
  BY DEF IInv, TypeOK
<1>3. /\ row'[e] = [status |-> x[3], ver |-> row[e].ver + 1]
      /\ \A d \in Entities : d # e => row'[d] = row[d]
  BY <1>1, <1>2
<1>4. [status |-> x[3], ver |-> row[e].ver + 1] \in [status : Statuses, ver : Nat]
  BY <1>2, EdgeFacts
<1>5. row' \in [Entities -> [status : Statuses, ver : Nat]] /\ row'[e].ver > row[e].ver
  BY <1>1, <1>2, <1>3, <1>4
<1>6. Unborn'
  BY <1>2, <1>3, EdgeFacts DEF Unborn
<1> QED BY <1>1, <1>3, <1>5, <1>6

\* A fresh row is inserted.
LEMMA FreshFacts ==
    ASSUME IInv, NEW e \in Entities, NEW s \in {"PENDING", "ISSUED"}, Fresh(e),
           row' = [row EXCEPT ![e] = [status |-> s, ver |-> 1]]
    PROVE  /\ row'[e] = [status |-> s, ver |-> 1]
           /\ row' \in [Entities -> [status : Statuses, ver : Nat]] /\ Unborn'
           /\ row'[e].ver > row[e].ver
           /\ \A d \in Entities : d # e => row'[d] = row[d]
<1>1. row \in [Entities -> [status : Statuses, ver : Nat]] /\ Unborn
  BY DEF IInv, TypeOK
<1>2. row'[e] = [status |-> s, ver |-> 1] /\ \A d \in Entities : d # e => row'[d] = row[d]
  BY <1>1
<1>3. [status |-> s, ver |-> 1] \in [status : Statuses, ver : Nat]
  BY StatusFacts
<1>4. row' \in [Entities -> [status : Statuses, ver : Nat]]
  BY <1>1, <1>3
<1>5. Unborn' /\ row'[e].ver > row[e].ver
  BY <1>1, <1>2 DEF Unborn, Fresh
<1> QED BY <1>2, <1>4, <1>5

\* Nobody holds a row that is not there yet.
LEMMA FreshFree ==
    ASSUME IInv, NEW e \in Entities, Fresh(e), NEW u \in Workers
    PROVE  ~ (Holds(u) /\ job[u].ent = e)
<1>1. Holds(u) => Holding(job[u])
  BY DEF IInv, KnowsItsRow, Holds
<1>2. Holding(job[u]) => row[job[u].ent].status # "absent"
  BY EdgeFacts DEF Holding, Request
<1> QED BY <1>1, <1>2 DEF Fresh

\* The request has the row it moves: it is the snapshot, and it is in nobody else's hands.
LEMMA LockedFacts ==
    ASSUME IInv, NEW w \in Workers,
           \/ pc[w] = "tx" /\ Locks(w, job[w].ent, job[w].ver)
           \/ Holds(w)
    PROVE  /\ Request(job[w]) /\ job[w].ent \in Entities
           /\ row[job[w].ent] = [status |-> job[w].was, ver |-> job[w].ver]
           /\ job[w].was \notin {"absent", "REJECTED", "PROCESSED"}
           /\ \A u \in Workers : u # w => ~ (Holds(u) /\ job[u].ent = job[w].ent)
<1>0. KnowsItsRow(w) /\ Exclusive /\ row \in [Entities -> [status : Statuses, ver : Nat]]
  BY DEF IInv, TypeOK
<1>1. Request(job[w])
  BY <1>0 DEF KnowsItsRow, Snapshot, Holding, Holds
<1>2. job[w].ent \in Entities
  BY <1>1 DEF Request, Entities
<1>3. row[job[w].ent] = [status |-> job[w].was, ver |-> job[w].ver]
  BY <1>0, <1>2 DEF KnowsItsRow, Snapshot, Holding, Holds, Locks
<1>4. job[w].was \notin {"absent", "REJECTED", "PROCESSED"}
  BY <1>1, EdgeFacts DEF Request
<1>5. \A u \in Workers : u # w => ~ (Holds(u) /\ job[u].ent = job[w].ent)
  BY <1>0 DEF Exclusive, Locks, Holds
<1> QED BY <1>1, <1>2, <1>3, <1>4, <1>5

\* A row that moves to neither REDEEMED nor PROCESSED, from neither REJECTED nor PROCESSED
\* when it is a refund, and takes nothing along, keeps the three properties.
LEMMA TablesMove ==
    ASSUME IInv, NEW e \in Entities, \A d \in Entities : d # e => row'[d] = row[d],
           row'[e].status \notin {"REDEEMED", "PROCESSED"},
           e \in Refunds => row[e].status \notin {"REJECTED", "PROCESSED"},
           UNCHANGED <<origin, books, agencies>>,
           \A v \in Vouchers : v # e => usedOn'[v] = usedOn[v]
    PROVE  OneRowPerRef' /\ RefundBookedOnce' /\ PaidOrVoucher' /\ RedeemedIsBooked'
<1>0. /\ OneRowPerRef /\ RefundBookedOnce /\ PaidOrVoucher /\ RedeemedIsBooked
      /\ Refunds \subseteq Entities /\ Vouchers \subseteq Entities
      /\ \A v \in Vouchers : origin[v] \in Refunds \cup {None}
  BY DEF IInv, TypeOK, Entities
<1>1. OneRowPerRef'
  BY <1>0 DEF OneRowPerRef, Booked, BookedOnce
<1>2. \A x : (Booked(x)' <=> Booked(x)) /\ (BookedOnce(x)' <=> BookedOnce(x))
  BY DEF Booked, BookedOnce
<1>3. RefundBookedOnce'
  BY <1>0, <1>2 DEF RefundBookedOnce
<1>4. PaidOrVoucher'
  <2> SUFFICES ASSUME NEW v \in Vouchers, origin[v] # None
               PROVE  /\ row'[origin[v]].status = "REJECTED" /\ ~ Booked(<<origin[v]>>)
                      /\ \A u \in Vouchers : origin[u] = origin[v] => u = v
    BY <1>2 DEF PaidOrVoucher, Booked
  <2>1. row[origin[v]].status = "REJECTED" /\ origin[v] \in Refunds
    BY <1>0 DEF PaidOrVoucher
  <2>2. row'[origin[v]] = row[origin[v]]
    BY <1>0, <2>1
  <2> QED BY <1>0, <2>1, <2>2 DEF PaidOrVoucher
<1>5. RedeemedIsBooked'
  <2> SUFFICES ASSUME NEW v \in Vouchers, row'[v].status = "REDEEMED"
               PROVE  /\ usedOn'[v] # None
                      /\ agencies = Agencies => BookedOnce(<<v, usedOn'[v]>>)
    BY <1>2 DEF RedeemedIsBooked, BookedOnce
  <2>1. v # e /\ row'[v] = row[v] /\ usedOn'[v] = usedOn[v]
    BY <1>0
  <2> QED BY <1>0, <2>1 DEF RedeemedIsBooked
<1> QED BY <1>1, <1>3, <1>4, <1>5

\* The same, for a step of one request that leaves registers and vouchers' origins alone.
LEMMA MoveSafe ==
    ASSUME IInv, NEW e \in Entities, row' \in [Entities -> [status : Statuses, ver : Nat]], Unborn',
           \A d \in Entities : d # e => row'[d] = row[d],
           Overtakes(e), row'[e].status \notin {"REDEEMED", "PROCESSED"},
           e \in Refunds => row[e].status \notin {"REJECTED", "PROCESSED"},
           UNCHANGED <<origin, register, books, agencies, fallback>>,
           claim' \in [Refunds -> Tickets \cup {None}], usedOn' \in [Vouchers -> Tickets \cup {None}],
           \A v \in Vouchers : v # e => usedOn'[v] = usedOn[v],
           NEW w \in Workers, NEW step \in Steps, NEW j \in Jobs, Goto(w, step, j),
           \A u \in Workers : u # w => ~ (Holds(u) /\ job[u].ent = e),
           step \in {"restore", "commit"} =>
             \A u \in Workers : u # w /\ Holds(u) => job[u].ent # j.ent,
           step = "fallback" =>
             \A u \in Workers : u # w /\ pc[u] = "fallback" => job[u].ent # j.ent,
           KnowsItsRow(w)'
    PROVE  IInv'
<1>1. /\ pc' \in [Workers -> Steps] /\ job' \in [Workers -> Jobs] /\ Exclusive'
      /\ \A u \in Workers : u # w => pc'[u] = pc[u] /\ job'[u] = job[u]
  BY GotoFacts
<1>2. TypeOK'
  BY <1>1 DEF IInv, TypeOK
<1>3. ASSUME NEW u \in Workers PROVE KnowsItsRow(u)'
  <2>1. CASE u # w
    <3>1. pc'[u] = pc[u] /\ job'[u] = job[u] /\ agencies' \subseteq agencies
      BY <1>1, <2>1
    <3>2. \A d \in Entities : row'[d] = row[d] \/ (Overtakes(d) /\ ~ (Holds(u) /\ job[u].ent = d))
      BY <2>1
    <3>3. \A v \in Vouchers : origin'[v] = origin[v] \/ origin'[v] # job[u].ent
      OBVIOUS
    <3> QED BY <3>1, <3>2, <3>3, Bystander
  <2> QED BY <2>1
<1>4. OneRowPerRef' /\ RefundBookedOnce' /\ PaidOrVoucher' /\ RedeemedIsBooked'
  BY TablesMove
<1> QED BY <1>1, <1>2, <1>3, <1>4 DEF IInv

\* A request that ends or goes on knows nothing it has to keep true.
LEMMA Ended ==
    ASSUME IInv, NEW w \in Workers, Finish(w)
    PROVE  KnowsItsRow(w)' /\ Goto(w, "idle", NoJob) /\ "idle" \in Steps
<1>1. pc'[w] = "idle"
  BY DEF Finish, Goto, IInv, TypeOK
<1> QED BY <1>1 DEF KnowsItsRow, Finish, Steps

\* approve and reject: the request that rejects is the only one to owe the voucher.
LEMMA DecisionSafe ==
    ASSUME IInv, NEW w \in Workers, CommitDecision(w)
    PROVE  IInv'
<1>0. /\ job[w] \in Jobs /\ pc \in [Workers -> Steps] /\ job \in [Workers -> Jobs] /\ PaidOrVoucher
      /\ claim \in [Refunds -> Tickets \cup {None}] /\ usedOn \in [Vouchers -> Tickets \cup {None}]
      /\ origin \in [Vouchers -> Refunds \cup {None}]
  BY DEF IInv, TypeOK
<1>1. /\ Locks(w, job[w].ent, job[w].ver) /\ Move(job[w].ent, job[w].was, job[w].do) /\ pc[w] = "tx"
      /\ job[w].do \in {"approve", "reject"} /\ UNCHANGED <<claim, origin, usedOn, cash, fallback>>
  BY DEF CommitDecision
<1>2. /\ Request(job[w]) /\ job[w].ent \in Entities
      /\ row[job[w].ent] = [status |-> job[w].was, ver |-> job[w].ver]
      /\ job[w].was \notin {"absent", "REJECTED", "PROCESSED"}
      /\ \A u \in Workers : u # w => ~ (Holds(u) /\ job[u].ent = job[w].ent)
  BY <1>1, LockedFacts
<1>3. job[w].ent \in Refunds
  BY <1>1, <1>2 DEF Request
<1>4. PICK x \in Edges :
             /\ x[1] = job[w].was /\ x[2] = job[w].do
             /\ row'[job[w].ent] = [status |-> x[3], ver |-> row[job[w].ent].ver + 1]
             /\ row' \in [Entities -> [status : Statuses, ver : Nat]] /\ Unborn'
             /\ row'[job[w].ent].ver > row[job[w].ent].ver
             /\ \A d \in Entities : d # job[w].ent => row'[d] = row[d]
  BY <1>1, <1>2, MoveFacts
<1>5. x[3] \notin {"PROCESSED", "REDEEMED"} /\ (job[w].do = "reject" => x[3] = "REJECTED")
  BY <1>1, <1>4, EdgeFacts
<1>6. Overtakes(job[w].ent) /\ row'[job[w].ent].status \notin {"REDEEMED", "PROCESSED"}
      /\ row[job[w].ent].status \notin {"REJECTED", "PROCESSED"}
  BY <1>2, <1>4, <1>5 DEF Overtakes
<1>7. UNCHANGED <<origin, register, books, agencies, fallback, claim, usedOn>>
  BY <1>1 DEF cash
<1>8. CASE Finish(w)
  <2>1. /\ KnowsItsRow(w)' /\ Goto(w, "idle", NoJob) /\ "idle" \in Steps
        /\ claim' \in [Refunds -> Tickets \cup {None}] /\ usedOn' \in [Vouchers -> Tickets \cup {None}]
    BY <1>0, <1>7, <1>8, Ended
  <2> QED BY <1>2, <1>4, <1>6, <1>7, <2>1, NoJobType, MoveSafe
<1>9. CASE job[w].do = "reject" /\ Goto(w, "fallback", job[w])
  <2>1. pc'[w] = "fallback" /\ job'[w] = job[w] /\ "fallback" \in Steps
    BY <1>0, <1>9 DEF Goto, Steps
  <2>2. \A v \in Vouchers : origin[v] # job[w].ent
    BY <1>0, <1>3, <1>6, AfterSalesAssumption DEF PaidOrVoucher
  <2>3. \A u \in Workers : u # w /\ pc[u] = "fallback" => job[u].ent # job[w].ent
    BY <1>2 DEF IInv, KnowsItsRow
  <2>4. KnowsItsRow(w)'
    <3>1. row'[job[w].ent].status = "REJECTED" /\ \A v \in Vouchers : origin'[v] # job[w].ent
      BY <1>4, <1>5, <1>7, <1>9, <2>2
    <3> QED BY <1>3, <2>1, <3>1 DEF KnowsItsRow
  <2>5. claim' \in [Refunds -> Tickets \cup {None}] /\ usedOn' \in [Vouchers -> Tickets \cup {None}]
    BY <1>0, <1>7
  <2> QED BY <1>0, <1>2, <1>4, <1>6, <1>7, <1>9, <2>1, <2>3, <2>4, <2>5, MoveSafe
<1> QED BY <1>8, <1>9 DEF CommitDecision

\* Cancelling a voucher.
LEMMA VoucherSafe ==
    ASSUME IInv, NEW w \in Workers, CommitVoucher(w)
    PROVE  IInv'
<1>0. claim \in [Refunds -> Tickets \cup {None}] /\ usedOn \in [Vouchers -> Tickets \cup {None}]
  BY DEF IInv, TypeOK
<1>1. /\ Locks(w, job[w].ent, job[w].ver) /\ Move(job[w].ent, job[w].was, job[w].do) /\ pc[w] = "tx"
      /\ job[w].do = "CANCEL" /\ job[w].ent \in Vouchers
      /\ UNCHANGED <<claim, origin, usedOn, cash, fallback>> /\ Finish(w)
  BY DEF CommitVoucher
<1>2. /\ job[w].ent \in Entities
      /\ \A u \in Workers : u # w => ~ (Holds(u) /\ job[u].ent = job[w].ent)
  BY <1>1, LockedFacts
<1>3. PICK x \in Edges :
             /\ x[1] = job[w].was /\ x[2] = job[w].do
             /\ row'[job[w].ent] = [status |-> x[3], ver |-> row[job[w].ent].ver + 1]
             /\ row' \in [Entities -> [status : Statuses, ver : Nat]] /\ Unborn'
             /\ row'[job[w].ent].ver > row[job[w].ent].ver
             /\ \A d \in Entities : d # job[w].ent => row'[d] = row[d]
  BY <1>1, <1>2, MoveFacts
<1>4. x[3] \notin {"PROCESSED", "REDEEMED"} /\ job[w].ent \notin Refunds
  BY <1>1, <1>3, EdgeFacts, AfterSalesAssumption
<1>5. Overtakes(job[w].ent) /\ row'[job[w].ent].status \notin {"REDEEMED", "PROCESSED"}
  BY <1>3, <1>4 DEF Overtakes
<1>6. /\ UNCHANGED <<origin, register, books, agencies, fallback, claim, usedOn>>
      /\ claim' \in [Refunds -> Tickets \cup {None}] /\ usedOn' \in [Vouchers -> Tickets \cup {None}]
  BY <1>0, <1>1 DEF cash
<1>7. KnowsItsRow(w)' /\ Goto(w, "idle", NoJob) /\ "idle" \in Steps
  BY <1>1, Ended
<1> QED BY <1>2, <1>3, <1>4, <1>5, <1>6, <1>7, NoJobType, MoveSafe

\* The RESTORE of a voucher, committed while its request holds the row of the ticket.
LEMMA RestoreSafe ==
    ASSUME IInv, NEW w \in Workers, Restore(w)
    PROVE  IInv'
<1>0. /\ claim \in [Refunds -> Tickets \cup {None}] /\ usedOn \in [Vouchers -> Tickets \cup {None}]
      /\ pc \in [Workers -> Steps] /\ job \in [Workers -> Jobs] /\ job[w] \in Jobs
  BY DEF IInv, TypeOK
<1>1. /\ pc[w] = "restore" /\ Locks(w, job[w].on, job[w].vver) /\ Move(job[w].on, "REDEEMED", "RESTORE")
      /\ usedOn' = [usedOn EXCEPT ![job[w].on] = None] /\ Goto(w, "commit", job[w])
      /\ UNCHANGED <<claim, origin, cash, fallback>>
  BY DEF Restore
<1>2. Holding(job[w]) /\ job[w].ent \in Tickets /\ job[w].on \in Vouchers
  BY <1>1 DEF IInv, KnowsItsRow
<1>3. /\ job[w].on \in Entities /\ job[w].on \notin Refunds /\ job[w].on # job[w].ent
      /\ job[w].ent \in Entities
  BY <1>2, AfterSalesAssumption DEF Entities
<1>4. PICK x \in Edges :
             /\ x[1] = "REDEEMED" /\ x[2] = "RESTORE"
             /\ row'[job[w].on] = [status |-> x[3], ver |-> row[job[w].on].ver + 1]
             /\ row' \in [Entities -> [status : Statuses, ver : Nat]] /\ Unborn'
             /\ row'[job[w].on].ver > row[job[w].on].ver
             /\ \A d \in Entities : d # job[w].on => row'[d] = row[d]
  BY <1>1, <1>3, MoveFacts
<1>5. Overtakes(job[w].on) /\ row'[job[w].on].status \notin {"REDEEMED", "PROCESSED"}
  BY <1>3, <1>4, EdgeFacts DEF Overtakes
<1>6. /\ UNCHANGED <<origin, register, books, agencies, fallback, claim>>
      /\ claim' \in [Refunds -> Tickets \cup {None}] /\ usedOn' \in [Vouchers -> Tickets \cup {None}]
      /\ \A v \in Vouchers : v # job[w].on => usedOn'[v] = usedOn[v]
  BY <1>0, <1>1 DEF cash
<1>7. \A u \in Workers : u # w => ~ (Holds(u) /\ job[u].ent = job[w].on)
  BY <1>1 DEF Locks, Holds
<1>8. \A u \in Workers : u # w /\ Holds(u) => job[u].ent # job[w].ent
  BY <1>1 DEF IInv, Exclusive, Holds
<1>9. KnowsItsRow(w)'
  <2>1. pc'[w] = "commit" /\ job'[w] = job[w]
    BY <1>0, <1>1 DEF Goto
  <2>2. Holding(job[w])'
    BY <1>2, <1>3, <1>4, <1>6, <2>1 DEF Holding, Request
  <2> QED BY <2>1, <2>2 DEF KnowsItsRow
<1>10. "commit" \in Steps
  BY DEF Steps
<1> QED BY <1>0, <1>1, <1>3, <1>4, <1>5, <1>6, <1>7, <1>8, <1>9, <1>10, MoveSafe

\* The ticket is CANCELLED; its refund comes next.
LEMMA CancelSafe ==
    ASSUME IInv, NEW w \in Workers, CommitCancel(w)
    PROVE  IInv'
<1>0. /\ claim \in [Refunds -> Tickets \cup {None}] /\ usedOn \in [Vouchers -> Tickets \cup {None}]
      /\ pc \in [Workers -> Steps] /\ job \in [Workers -> Jobs] /\ job[w] \in Jobs
  BY DEF IInv, TypeOK
<1>1. /\ pc[w] = "commit" /\ job[w].ent \in Tickets /\ Move(job[w].ent, job[w].was, "CANCEL")
      /\ Goto(w, "refund", [NoJob EXCEPT !.on = job[w].ent])
      /\ UNCHANGED <<claim, origin, usedOn, cash, fallback>>
  BY DEF CommitCancel
<1>2. /\ job[w].ent \in Entities /\ job[w].ent \notin Refunds
      /\ \A u \in Workers : u # w => ~ (Holds(u) /\ job[u].ent = job[w].ent)
  BY <1>1, LockedFacts, AfterSalesAssumption DEF Holds
<1>3. PICK x \in Edges :
             /\ x[1] = job[w].was /\ x[2] = "CANCEL"
             /\ row'[job[w].ent] = [status |-> x[3], ver |-> row[job[w].ent].ver + 1]
             /\ row' \in [Entities -> [status : Statuses, ver : Nat]] /\ Unborn'
             /\ row'[job[w].ent].ver > row[job[w].ent].ver
             /\ \A d \in Entities : d # job[w].ent => row'[d] = row[d]
  BY <1>1, <1>2, MoveFacts
<1>4. Overtakes(job[w].ent) /\ row'[job[w].ent].status \notin {"REDEEMED", "PROCESSED"}
  BY <1>2, <1>3, EdgeFacts DEF Overtakes
<1>5. /\ UNCHANGED <<origin, register, books, agencies, fallback, claim, usedOn>>
      /\ claim' \in [Refunds -> Tickets \cup {None}] /\ usedOn' \in [Vouchers -> Tickets \cup {None}]
  BY <1>0, <1>1 DEF cash
<1>6. [NoJob EXCEPT !.on = job[w].ent] \in Jobs /\ [NoJob EXCEPT !.on = job[w].ent].on = job[w].ent
  BY <1>1, NoJobType DEF Jobs, NoJob
<1>7. KnowsItsRow(w)' /\ "refund" \in Steps
  BY <1>0, <1>1, <1>6 DEF KnowsItsRow, Goto, Steps
<1> QED BY <1>1, <1>2, <1>3, <1>4, <1>5, <1>6, <1>7, MoveSafe

\* createRefund.
LEMMA CreateSafe ==
    ASSUME IInv, NEW w \in Workers, CreateRefund(w)
    PROVE  IInv'
<1>0. claim \in [Refunds -> Tickets \cup {None}] /\ usedOn \in [Vouchers -> Tickets \cup {None}]
  BY DEF IInv, TypeOK
<1>1. PICK f \in Refunds : Create(f, job[w].on)
  BY DEF CreateRefund
<1>2. f \in Entities /\ job[w].on \in Tickets /\ row[f].status = "absent"
  BY <1>1 DEF CreateRefund, IInv, KnowsItsRow, Entities, Create, Fresh
<1>3. /\ row'[f] = [status |-> "PENDING", ver |-> 1]
      /\ row' \in [Entities -> [status : Statuses, ver : Nat]] /\ Unborn'
      /\ row'[f].ver > row[f].ver
      /\ \A d \in Entities : d # f => row'[d] = row[d]
  BY <1>1, <1>2, FreshFacts DEF Create
<1>4. Overtakes(f) /\ row'[f].status \notin {"REDEEMED", "PROCESSED"}
  BY <1>2, <1>3 DEF Overtakes
<1>5. /\ UNCHANGED <<origin, register, books, agencies, fallback, usedOn>>
      /\ claim' \in [Refunds -> Tickets \cup {None}] /\ usedOn' \in [Vouchers -> Tickets \cup {None}]
  BY <1>0, <1>1, <1>2 DEF CreateRefund, Create, cash
<1>6. \A u \in Workers : u # w => ~ (Holds(u) /\ job[u].ent = f)
  BY <1>1, <1>2, FreshFree DEF Create
<1>7. KnowsItsRow(w)' /\ Goto(w, "idle", NoJob) /\ "idle" \in Steps
  BY Ended DEF CreateRefund
<1> QED BY <1>2, <1>3, <1>4, <1>5, <1>6, <1>7, NoJobType, MoveSafe

-----------------------------------------------------------------------------
(* The transactions that book, the vouchers that are issued, and a deleted agency *)

\* References of refunds and of vouchers are never the same.
LEMMA RefFacts ==
    /\ \A f \in Refunds : <<f>> \in Refs
    /\ \A v \in Vouchers, t \in Tickets : <<v, t>> \in Refs
    /\ \A f, v, t : <<f>> # <<v, t>>
    /\ \A f, h : <<f>> = <<h>> => f = h
    /\ \A u, v, s, t : <<u, s>> = <<v, t>> => u = v /\ s = t
BY DEF Refs

\* A step that leaves the books alone or books one reference.
BooksAt(ref) ==
    /\ books' \in [Refs -> [Registers -> Nat]]
    /\ \A x \in Refs : x # ref => books'[x] = books[x]
    /\ \/ Booked(ref)' /\ BookedOnce(ref)'
       \/ books' = books /\ agencies # Agencies

\* What a request in its transaction books, with what that does to the registers.
LEMMA BookingFacts ==
    ASSUME IInv, NEW w \in Workers, NEW ref \in Refs, pc[w] = "commit",
           job[w].do \in {"process", "REDEEM"},
           IF job[w].reg = None THEN UNCHANGED <<register, books>>
           ELSE Book(ref, job[w].reg, job[w].agency)
    PROVE  /\ BooksAt(ref) /\ OneRowPerRef'
           /\ register' \in [Registers -> [agency : Agencies \cup {None},
                                         status : {"absent", "OPEN", "CLOSED", "DISCREPANCY"}]]
<1>0. /\ register \in [Registers -> [agency : Agencies \cup {None},
                                     status : {"absent", "OPEN", "CLOSED", "DISCREPANCY"}]]
      /\ books \in [Refs -> [Registers -> Nat]] /\ job[w] \in Jobs /\ OneRowPerRef
      /\ Holding(job[w])
  BY DEF IInv, TypeOK, KnowsItsRow
<1>1. CASE job[w].reg = None
  <2>1. agencies # Agencies
    BY <1>0, <1>1 DEF Holding
  <2> QED BY <1>0, <1>1, <2>1 DEF BooksAt, OneRowPerRef, Booked, BookedOnce
<1>2. CASE job[w].reg # None
  <2>1. job[w].reg \in Registers /\ job[w].agency \in Agencies \cup {None}
    BY <1>0, <1>2 DEF Jobs
  <2>2. BooksAt(ref) /\ register' \in [Registers -> [agency : Agencies \cup {None},
                                         status : {"absent", "OPEN", "CLOSED", "DISCREPANCY"}]]
    BY <1>2, <2>1, BookFacts DEF BooksAt
  <2>3. OneRowPerRef'
    <3>1. \A x \in Refs : x # ref => books'[x] = books[x]
      BY <1>2, <2>1, BookFacts
    <3>2. (Booked(ref) /\ BookedOnce(ref))'
      BY <1>2, <2>1, BookFacts
    <3> QED BY <1>0, <3>1, <3>2 DEF OneRowPerRef, Booked, BookedOnce
  <2> QED BY <2>2, <2>3
<1> QED BY <1>1, <1>2

\* The end of a transaction that books: everything but the three properties.
LEMMA BookedEnd ==
    ASSUME IInv, NEW w \in Workers, pc[w] = "commit", Finish(w),
           NEW s \in {"process", "REDEEM"}, job[w].do = s, Move(job[w].ent, job[w].was, s),
           UNCHANGED <<claim, origin, agencies, fallback>>, OneRowPerRef',
           usedOn' \in [Vouchers -> Tickets \cup {None}], books' \in [Refs -> [Registers -> Nat]],
           register' \in [Registers -> [agency : Agencies \cup {None},
                                       status : {"absent", "OPEN", "CLOSED", "DISCREPANCY"}]],
           RefundBookedOnce', PaidOrVoucher', RedeemedIsBooked'
    PROVE  IInv'
<1>1. /\ Request(job[w]) /\ job[w].ent \in Entities
      /\ row[job[w].ent] = [status |-> job[w].was, ver |-> job[w].ver]
      /\ job[w].was \notin {"absent", "REJECTED", "PROCESSED"}
      /\ \A u \in Workers : u # w => ~ (Holds(u) /\ job[u].ent = job[w].ent)
  BY LockedFacts DEF Holds
<1>2. PICK x \in Edges :
             /\ x[1] = job[w].was /\ x[2] = s
             /\ row'[job[w].ent] = [status |-> x[3], ver |-> row[job[w].ent].ver + 1]
             /\ row' \in [Entities -> [status : Statuses, ver : Nat]] /\ Unborn'
             /\ row'[job[w].ent].ver > row[job[w].ent].ver
             /\ \A d \in Entities : d # job[w].ent => row'[d] = row[d]
  <2>1. Move(job[w].ent, job[w].was, s) /\ IInv /\ job[w].ent \in Entities
    BY <1>1
  <2> QED BY ONLY <2>1, MoveFacts
<1>3. Overtakes(job[w].ent)
  BY <1>1, <1>2 DEF Overtakes
<1>4. KnowsItsRow(w)' /\ Goto(w, "idle", NoJob) /\ "idle" \in Steps
  BY Ended
<1>5. /\ pc' \in [Workers -> Steps] /\ job' \in [Workers -> Jobs] /\ Exclusive'
      /\ \A u \in Workers : u # w => pc'[u] = pc[u] /\ job'[u] = job[u]
  BY <1>4, NoJobType, GotoFacts
<1>6. TypeOK'
  BY <1>2, <1>5 DEF IInv, TypeOK
<1>7. ASSUME NEW u \in Workers PROVE KnowsItsRow(u)'
  <2>1. CASE u # w
    <3>1. pc'[u] = pc[u] /\ job'[u] = job[u] /\ agencies' \subseteq agencies
      BY <1>5, <2>1
    <3>2. \A d \in Entities : row'[d] = row[d] \/ (Overtakes(d) /\ ~ (Holds(u) /\ job[u].ent = d))
      BY <1>1, <1>2, <1>3, <2>1
    <3>3. \A v \in Vouchers : origin'[v] = origin[v] \/ origin'[v] # job[u].ent
      OBVIOUS
    <3> QED BY <1>2, <3>1, <3>2, <3>3, Bystander
  <2> QED BY <1>4, <2>1
<1> QED BY <1>2, <1>5, <1>6, <1>7 DEF IInv

\* process: the status and the booking appear together.
LEMMA ProcessSafe ==
    ASSUME IInv, NEW w \in Workers, CommitProcess(w)
    PROVE  IInv'
<1>0. /\ usedOn \in [Vouchers -> Tickets \cup {None}] /\ origin \in [Vouchers -> Refunds \cup {None}]
      /\ RefundBookedOnce /\ PaidOrVoucher /\ RedeemedIsBooked
  BY DEF IInv, TypeOK
<1>1. /\ pc[w] = "commit" /\ job[w].do = "process" /\ Move(job[w].ent, job[w].was, "process")
      /\ IF job[w].reg = None THEN UNCHANGED <<register, books>>
         ELSE Book(<<job[w].ent>>, job[w].reg, job[w].agency)
      /\ Finish(w) /\ UNCHANGED <<claim, origin, usedOn, agencies, fallback>>
  BY DEF CommitProcess
<1>2. /\ Request(job[w]) /\ job[w].ent \in Entities
      /\ row[job[w].ent].status \notin {"REJECTED", "PROCESSED"}
  <2>1. Holds(w)
    BY <1>1 DEF Holds
  <2>2. /\ Request(job[w]) /\ job[w].ent \in Entities
        /\ row[job[w].ent] = [status |-> job[w].was, ver |-> job[w].ver]
        /\ job[w].was \notin {"absent", "REJECTED", "PROCESSED"}
    BY <2>1, LockedFacts
  <2> QED BY <2>2
<1>3. PICK f \in Refunds : f = job[w].ent
  BY <1>1, <1>2 DEF Request
<1>4. PICK x \in Edges :
             /\ x[2] = "process" /\ row'[f] = [status |-> x[3], ver |-> row[f].ver + 1]
             /\ \A d \in Entities : d # f => row'[d] = row[d]
  BY <1>1, <1>2, <1>3, MoveFacts
<1>5. row'[f].status = "PROCESSED"
  BY <1>4, EdgeFacts
<1>6. <<f>> \in Refs
  BY RefFacts
<1>7. /\ BooksAt(<<f>>) /\ OneRowPerRef'
      /\ register' \in [Registers -> [agency : Agencies \cup {None},
                                    status : {"absent", "OPEN", "CLOSED", "DISCREPANCY"}]]
  BY <1>1, <1>3, <1>6, BookingFacts
<1>8. RefundBookedOnce'
  <2>1. ASSUME NEW h \in Refunds, h # f
        PROVE  /\ Booked(<<h>>)' => row'[h].status = "PROCESSED" /\ BookedOnce(<<h>>)'
               /\ row'[h].status = "PROCESSED" /\ agencies' = Agencies => Booked(<<h>>)'
    <3>1. row'[h] = row[h] /\ books'[<<h>>] = books[<<h>>] /\ agencies' = agencies
      BY <1>1, <1>4, <1>7, <2>1, RefFacts DEF BooksAt, Entities
    <3> QED BY <1>0, <3>1 DEF RefundBookedOnce, Booked, BookedOnce
  <2>2. /\ Booked(<<f>>)' => row'[f].status = "PROCESSED" /\ BookedOnce(<<f>>)'
        /\ row'[f].status = "PROCESSED" /\ agencies' = Agencies => Booked(<<f>>)'
    <3>1. ~ Booked(<<f>>)
      BY <1>0, <1>2, <1>3 DEF RefundBookedOnce
    <3>2. books' = books => ~ Booked(<<f>>)'
      BY <3>1 DEF Booked
    <3> QED BY <1>1, <1>5, <1>7, <3>2 DEF BooksAt
  <2> QED BY <2>1, <2>2 DEF RefundBookedOnce, Booked, BookedOnce
<1>9. PaidOrVoucher'
  <2> SUFFICES ASSUME NEW v \in Vouchers, origin[v] # None
               PROVE  /\ row'[origin[v]].status = "REJECTED" /\ books'[<<origin[v]>>] = NoRows
                      /\ \A u \in Vouchers : origin[u] = origin[v] => u = v
    BY <1>1 DEF PaidOrVoucher, Booked
  <2>1. origin[v] \in Refunds /\ origin[v] # f
    BY <1>0, <1>2, <1>3 DEF PaidOrVoucher
  <2>2. row'[origin[v]] = row[origin[v]] /\ books'[<<origin[v]>>] = books[<<origin[v]>>]
    BY <1>4, <1>7, <2>1, RefFacts DEF BooksAt, Entities
  <2> QED BY <1>0, <2>2 DEF PaidOrVoucher, Booked
<1>10. RedeemedIsBooked'
  <2> SUFFICES ASSUME NEW v \in Vouchers, row'[v].status = "REDEEMED"
               PROVE  /\ usedOn'[v] # None
                      /\ agencies' = Agencies => books'[<<v, usedOn'[v]>>] \in OneRow
    BY DEF RedeemedIsBooked, BookedOnce
  <2>1. v # f /\ v \in Entities
    BY AfterSalesAssumption DEF Entities
  <2>2. row'[v] = row[v] /\ usedOn' = usedOn /\ agencies' = agencies
    BY <1>1, <1>4, <2>1
  <2>3. usedOn[v] # None /\ usedOn[v] \in Tickets
    BY <1>0, <2>2 DEF RedeemedIsBooked
  <2>4. books'[<<v, usedOn[v]>>] = books[<<v, usedOn[v]>>]
    BY <1>7, <2>3, RefFacts DEF BooksAt
  <2> QED BY <1>0, <2>2, <2>3, <2>4 DEF RedeemedIsBooked, BookedOnce
<1>11. usedOn' \in [Vouchers -> Tickets \cup {None}] /\ books' \in [Refs -> [Registers -> Nat]]
  BY <1>0, <1>1, <1>7 DEF BooksAt
<1> QED BY <1>1, <1>7, <1>8, <1>9, <1>10, <1>11, BookedEnd

\* redeem: the voucher is in use, and its booking is there.
LEMMA RedeemSafe ==
    ASSUME IInv, NEW w \in Workers, CommitRedeem(w)
    PROVE  IInv'
<1>0. /\ usedOn \in [Vouchers -> Tickets \cup {None}] /\ origin \in [Vouchers -> Refunds \cup {None}]
      /\ RefundBookedOnce /\ PaidOrVoucher /\ RedeemedIsBooked
  BY DEF IInv, TypeOK
<1>1. /\ pc[w] = "commit" /\ job[w].do = "REDEEM" /\ Move(job[w].ent, job[w].was, "REDEEM")
      /\ usedOn' = [usedOn EXCEPT ![job[w].ent] = job[w].on]
      /\ IF job[w].reg = None THEN UNCHANGED <<register, books>>
         ELSE Book(<<job[w].ent, job[w].on>>, job[w].reg, job[w].agency)
      /\ Finish(w) /\ UNCHANGED <<claim, origin, agencies, fallback>>
  BY DEF CommitRedeem
<1>2. Request(job[w]) /\ job[w].ent \in Entities
  BY <1>1, LockedFacts DEF Holds
<1>3. PICK v \in Vouchers : v = job[w].ent
  BY <1>1, <1>2 DEF Request
<1>4. PICK t \in Tickets : t = job[w].on
  BY <1>1, <1>2 DEF Request
<1>5. \A d \in Entities : d # v => row'[d] = row[d]
  <2>1. PICK s : s = job[w].was
    OBVIOUS
  <2>2. v \in Entities /\ Move(v, s, "REDEEM")
    BY <1>1, <1>2, <1>3, <2>1
  <2> QED BY <2>2, MoveFacts
<1>6. <<v, t>> \in Refs
  BY RefFacts
<1>7. /\ BooksAt(<<v, t>>) /\ OneRowPerRef'
      /\ register' \in [Registers -> [agency : Agencies \cup {None},
                                    status : {"absent", "OPEN", "CLOSED", "DISCREPANCY"}]]
  BY <1>1, <1>3, <1>4, <1>6, BookingFacts
<1>8. \A f \in Refunds : row'[f] = row[f] /\ books'[<<f>>] = books[<<f>>]
  <2>1. \A f \in Refunds : f \in Entities /\ f # v
    BY AfterSalesAssumption DEF Entities
  <2>2. \A f \in Refunds : <<f>> \in Refs /\ <<f>> # <<v, t>>
    BY RefFacts
  <2> QED BY <1>5, <1>7, <2>1, <2>2 DEF BooksAt
<1>9. RefundBookedOnce'
  BY <1>0, <1>1, <1>8 DEF RefundBookedOnce, Booked, BookedOnce
<1>10. PaidOrVoucher'
  <2> SUFFICES ASSUME NEW o \in Vouchers, origin[o] # None
               PROVE  /\ row'[origin[o]].status = "REJECTED" /\ books'[<<origin[o]>>] = NoRows
                      /\ \A u \in Vouchers : origin[u] = origin[o] => u = o
    BY <1>1 DEF PaidOrVoucher, Booked
  <2>1. origin[o] \in Refunds
    BY <1>0
  <2> QED BY <1>0, <1>8, <2>1 DEF PaidOrVoucher, Booked
<1>11. RedeemedIsBooked'
  <2> SUFFICES ASSUME NEW o \in Vouchers, row'[o].status = "REDEEMED"
               PROVE  /\ usedOn'[o] # None
                      /\ agencies' = Agencies => books'[<<o, usedOn'[o]>>] \in OneRow
    BY DEF RedeemedIsBooked, BookedOnce
  <2>1. CASE o = v
    <3>1. usedOn'[o] = t /\ t # None
      BY <1>0, <1>1, <1>3, <1>4, <2>1, AfterSalesAssumption
    <3> QED BY <1>1, <1>7, <2>1, <3>1 DEF BooksAt, BookedOnce
  <2>2. CASE o # v
    <3>1. row'[o] = row[o] /\ usedOn'[o] = usedOn[o]
      BY <1>0, <1>1, <1>3, <1>5, <2>2 DEF Entities
    <3>2. usedOn[o] # None /\ usedOn[o] \in Tickets
      BY <1>0, <3>1 DEF RedeemedIsBooked
    <3>3. books'[<<o, usedOn[o]>>] = books[<<o, usedOn[o]>>]
      BY <1>7, <2>2, <3>2, RefFacts DEF BooksAt
    <3> QED BY <1>0, <1>1, <3>1, <3>2, <3>3 DEF RedeemedIsBooked, BookedOnce
  <2> QED BY <2>1, <2>2
<1>12. usedOn' \in [Vouchers -> Tickets \cup {None}] /\ books' \in [Refs -> [Registers -> Nat]]
  BY <1>0, <1>1, <1>4, <1>7 DEF BooksAt
<1> QED BY <1>1, <1>7, <1>9, <1>10, <1>11, <1>12, BookedEnd

\* A voucher is issued: for nothing, or for a rejection nobody has made up for yet.
LEMMA IssueFacts ==
    ASSUME IInv, NEW v \in Vouchers, NEW f \in Refunds \cup {None}, Issue(v, f),
           UNCHANGED <<claim, usedOn, cash, fallback>>,
           f # None => /\ row[f].status = "REJECTED"
                       /\ \A u \in Vouchers : origin[u] # f
    PROVE  /\ row' \in [Entities -> [status : Statuses, ver : Nat]] /\ Unborn'
           /\ origin' \in [Vouchers -> Refunds \cup {None}]
           /\ \A d \in Entities : row'[d] = row[d] \/ (Overtakes(d) /\ d = v)
           /\ \A u \in Vouchers : u # v => origin'[u] = origin[u]
           /\ origin'[v] = f
           /\ OneRowPerRef' /\ RefundBookedOnce' /\ PaidOrVoucher' /\ RedeemedIsBooked'
<1>0. /\ origin \in [Vouchers -> Refunds \cup {None}] /\ OneRowPerRef
      /\ RefundBookedOnce /\ PaidOrVoucher /\ RedeemedIsBooked
      /\ Refunds \subseteq Entities /\ Vouchers \subseteq Entities /\ v \notin Refunds
  BY AfterSalesAssumption DEF IInv, TypeOK, Entities
<1>1. /\ row'[v] = [status |-> "ISSUED", ver |-> 1]
      /\ row' \in [Entities -> [status : Statuses, ver : Nat]] /\ Unborn'
      /\ row'[v].ver > row[v].ver
      /\ \A d \in Entities : d # v => row'[d] = row[d]
  BY <1>0, FreshFacts DEF Issue
<1>2. /\ origin' \in [Vouchers -> Refunds \cup {None}] /\ origin'[v] = f
      /\ \A u \in Vouchers : u # v => origin'[u] = origin[u]
  BY <1>0 DEF Issue
<1>3. Overtakes(v)
  BY <1>0, <1>1 DEF Overtakes
<1>4. /\ books' = books /\ agencies' = agencies /\ usedOn' = usedOn
      /\ \A h \in Refunds : row'[h] = row[h]
  BY <1>0, <1>1 DEF cash
<1>5. OneRowPerRef' /\ RefundBookedOnce'
  BY <1>0, <1>4 DEF OneRowPerRef, RefundBookedOnce, Booked, BookedOnce
<1>6. PaidOrVoucher'
  <2> SUFFICES ASSUME NEW o \in Vouchers, origin'[o] # None
               PROVE  /\ row'[origin'[o]].status = "REJECTED" /\ books[<<origin'[o]>>] = NoRows
                      /\ \A u \in Vouchers : origin'[u] = origin'[o] => u = o
    BY <1>4 DEF PaidOrVoucher, Booked
  <2>1. CASE o = v
    <3>1. f \in Refunds /\ row[f].status = "REJECTED" /\ origin'[o] = f
      BY <1>2, <2>1
    <3>2. books[<<f>>] = NoRows
      BY <1>0, <3>1 DEF RefundBookedOnce, Booked
    <3>3. \A u \in Vouchers : origin'[u] = f => u = v
      BY <1>2, <3>1
    <3> QED BY <1>4, <2>1, <3>1, <3>2, <3>3
  <2>2. CASE o # v
    <3>1. origin'[o] = origin[o] /\ origin[o] \in Refunds /\ origin[o] # f
      BY <1>0, <1>2, <2>2
    <3>2. /\ row[origin[o]].status = "REJECTED" /\ books[<<origin[o]>>] = NoRows
          /\ \A u \in Vouchers : origin[u] = origin[o] => u = o
      BY <1>0, <3>1 DEF PaidOrVoucher, Booked
    <3>3. \A u \in Vouchers : origin'[u] = origin[o] => u = o
      BY <1>2, <3>1, <3>2
    <3> QED BY <1>4, <3>1, <3>2, <3>3
  <2> QED BY <2>1, <2>2
<1>7. RedeemedIsBooked'
  <2> SUFFICES ASSUME NEW o \in Vouchers, row'[o].status = "REDEEMED"
               PROVE  /\ usedOn[o] # None
                      /\ agencies = Agencies => BookedOnce(<<o, usedOn[o]>>)
    BY <1>4 DEF RedeemedIsBooked, BookedOnce
  <2>1. row'[o] = row[o]
    BY <1>0, <1>1
  <2> QED BY <1>0, <2>1 DEF RedeemedIsBooked
<1> QED BY <1>1, <1>2, <1>3, <1>5, <1>6, <1>7

\* The voucher of a rejection: only the request that rejected issues it.
LEMMA FallbackSafe ==
    ASSUME IInv, NEW w \in Workers, Fallback(w)
    PROVE  IInv'
<1>0. Exclusive /\ KnowsItsRow(w) /\ pc[w] = "fallback" /\ Finish(w)
      /\ UNCHANGED <<claim, usedOn, cash, fallback>>
  BY DEF Fallback, IInv
<1>1. PICK v \in Vouchers : Issue(v, job[w].ent)
  BY DEF Fallback
<1>2. PICK f \in Refunds : /\ f = job[w].ent /\ row[f].status = "REJECTED"
                           /\ \A u \in Vouchers : origin[u] # f
  BY <1>0 DEF KnowsItsRow
<1>3. /\ row' \in [Entities -> [status : Statuses, ver : Nat]] /\ Unborn'
      /\ origin' \in [Vouchers -> Refunds \cup {None}]
      /\ \A d \in Entities : row'[d] = row[d] \/ (Overtakes(d) /\ d = v)
      /\ \A u \in Vouchers : u # v => origin'[u] = origin[u]
      /\ origin'[v] = f
      /\ OneRowPerRef' /\ RefundBookedOnce' /\ PaidOrVoucher' /\ RedeemedIsBooked'
  BY <1>0, <1>1, <1>2, IssueFacts
<1>4. KnowsItsRow(w)' /\ Goto(w, "idle", NoJob) /\ "idle" \in Steps
  BY <1>0, Ended
<1>5. /\ pc' \in [Workers -> Steps] /\ job' \in [Workers -> Jobs] /\ Exclusive'
      /\ \A u \in Workers : u # w => pc'[u] = pc[u] /\ job'[u] = job[u]
  BY <1>4, NoJobType, GotoFacts
<1>6. TypeOK'
  BY <1>0, <1>3, <1>5 DEF IInv, TypeOK, cash
<1>7. ASSUME NEW u \in Workers, u # w PROVE KnowsItsRow(u)'
  <2>1. pc'[u] = pc[u] /\ job'[u] = job[u] /\ agencies' \subseteq agencies
    BY <1>0, <1>5, <1>7 DEF cash
  <2>2. ~ (Holds(u) /\ job[u].ent = v)
    BY <1>1, FreshFree DEF Issue, Entities
  <2>3. \A d \in Entities : row'[d] = row[d] \/ (Overtakes(d) /\ ~ (Holds(u) /\ job[u].ent = d))
    BY <1>3, <2>2
  <2>4. pc[u] = "fallback" => \A o \in Vouchers : origin'[o] = origin[o] \/ origin'[o] # job[u].ent
    BY <1>0, <1>2, <1>3, <1>7 DEF Exclusive
  <2> QED BY <1>3, <2>1, <2>3, <2>4, Bystander
<1> QED BY <1>3, <1>4, <1>5, <1>6, <1>7 DEF IInv

\* A voucher of the staff makes up for no rejection.
LEMMA IssueSafe ==
    ASSUME IInv, IssueVoucher
    PROVE  IInv'
<1>0. UNCHANGED <<claim, usedOn, cash, fallback, pc, job>>
  BY DEF IssueVoucher
<1>1. PICK v \in Vouchers : Issue(v, None)
  BY DEF IssueVoucher
<1>2. /\ row' \in [Entities -> [status : Statuses, ver : Nat]] /\ Unborn'
      /\ origin' \in [Vouchers -> Refunds \cup {None}]
      /\ \A d \in Entities : row'[d] = row[d] \/ (Overtakes(d) /\ d = v)
      /\ \A u \in Vouchers : u # v => origin'[u] = origin[u]
      /\ origin'[v] = None
      /\ OneRowPerRef' /\ RefundBookedOnce' /\ PaidOrVoucher' /\ RedeemedIsBooked'
  BY <1>0, <1>1, IssueFacts
<1>3. TypeOK' /\ Exclusive'
  BY <1>0, <1>2 DEF IInv, TypeOK, cash, Exclusive, Holds
<1>4. ASSUME NEW u \in Workers PROVE KnowsItsRow(u)'
  <2>1. pc'[u] = pc[u] /\ job'[u] = job[u] /\ agencies' \subseteq agencies
    BY <1>0 DEF cash
  <2>2. ~ (Holds(u) /\ job[u].ent = v)
    BY <1>1, FreshFree DEF Issue, Entities
  <2>3. \A d \in Entities : row'[d] = row[d] \/ (Overtakes(d) /\ ~ (Holds(u) /\ job[u].ent = d))
    BY <1>2, <2>2
  <2>4. pc[u] = "fallback" => job[u].ent # None
    BY AfterSalesAssumption DEF IInv, KnowsItsRow
  <2>5. pc[u] = "fallback" => \A o \in Vouchers : origin'[o] = origin[o] \/ origin'[o] # job[u].ent
    BY <1>2, <2>4
  <2> QED BY <1>2, <2>1, <2>3, <2>5, Bystander
<1>5. job' \in [Workers -> Jobs]
  BY <1>0 DEF IInv
<1> QED BY <1>2, <1>3, <1>4, <1>5 DEF IInv

\* A deleted agency takes its bookings along, and what is promised only of all agencies.
LEMMA RemoveSafe ==
    ASSUME IInv, NEW w \in Workers, RemoveAgency(w)
    PROVE  IInv'
<1>0. /\ UNCHANGED <<row, claim, origin, usedOn, fallback>> /\ Finish(w)
      /\ RefundBookedOnce /\ PaidOrVoucher /\ RedeemedIsBooked
      /\ origin \in [Vouchers -> Refunds \cup {None}]
      /\ register \in [Registers -> [agency : Agencies \cup {None},
                                     status : {"absent", "OPEN", "CLOSED", "DISCREPANCY"}]]
  BY DEF RemoveAgency, IInv, TypeOK, tables
<1>1. /\ books' \in [Refs -> [Registers -> Nat]]
      /\ \A x \in Refs : Booked(x)' => Booked(x) /\ BookedOnce(x)'
  BY RemovedRows
<1>2. agencies' \subseteq agencies /\ agencies' \subseteq Agencies /\ agencies' # Agencies
  BY DEF RemoveAgency, IInv, TypeOK
<1>3. register' \in [Registers -> [agency : Agencies \cup {None},
                                   status : {"absent", "OPEN", "CLOSED", "DISCREPANCY"}]]
  BY <1>0 DEF RemoveAgency
<1>4. KnowsItsRow(w)' /\ Goto(w, "idle", NoJob) /\ "idle" \in Steps
  BY <1>0, Ended
<1>5. /\ pc' \in [Workers -> Steps] /\ job' \in [Workers -> Jobs] /\ Exclusive'
      /\ \A u \in Workers : u # w => pc'[u] = pc[u] /\ job'[u] = job[u]
  BY <1>4, NoJobType, GotoFacts
<1>6. TypeOK'
  BY <1>0, <1>1, <1>2, <1>3, <1>5 DEF IInv, TypeOK
<1>7. ASSUME NEW u \in Workers, u # w PROVE KnowsItsRow(u)'
  <2>1. row' \in [Entities -> [status : Statuses, ver : Nat]]
    BY <1>0 DEF IInv, TypeOK
  <2>2. pc'[u] = pc[u] /\ job'[u] = job[u]
    BY <1>5, <1>7
  <2> QED BY <1>0, <1>2, <2>1, <2>2, Bystander
<1>8. Unborn' /\ OneRowPerRef'
  BY <1>0, <1>1 DEF IInv, Unborn, OneRowPerRef
<1>9. RefundBookedOnce'
  <2> SUFFICES ASSUME NEW f \in Refunds, books'[<<f>>] # NoRows
               PROVE  row[f].status = "PROCESSED" /\ books'[<<f>>] \in OneRow
    BY <1>0, <1>2 DEF RefundBookedOnce, Booked, BookedOnce
  <2>1. <<f>> \in Refs
    BY RefFacts
  <2> QED BY <1>0, <1>1, <2>1 DEF RefundBookedOnce, Booked, BookedOnce
<1>10. PaidOrVoucher'
  <2> SUFFICES ASSUME NEW v \in Vouchers, origin[v] # None
               PROVE  /\ row[origin[v]].status = "REJECTED" /\ books'[<<origin[v]>>] = NoRows
                      /\ \A u \in Vouchers : origin[u] = origin[v] => u = v
    BY <1>0 DEF PaidOrVoucher, Booked
  <2>1. <<origin[v]>> \in Refs
    BY <1>0, RefFacts
  <2> QED BY <1>0, <1>1, <2>1 DEF PaidOrVoucher, Booked
<1>11. RedeemedIsBooked'
  BY <1>0, <1>2 DEF RedeemedIsBooked
<1> QED BY <1>4, <1>5, <1>6, <1>7, <1>8, <1>9, <1>10, <1>11 DEF IInv

-----------------------------------------------------------------------------
(* What holds of every behaviour *)

\* The empty tables, every agency and no request.
LEMMA InitSafe == Init => IInv
<1> SUFFICES ASSUME Init PROVE IInv
  OBVIOUS
<1>1. /\ row \in [Entities -> [status : Statuses, ver : Nat]]
      /\ \A e \in Entities : /\ row[e].ver = 0
                             /\ row[e].status \notin {"PROCESSED", "REDEEMED"}
  BY StatusFacts DEF Init
<1>2. NoRows \in [Registers -> Nat] /\ \A x \in Refs : ~ Booked(x)
  BY DEF Init, NoRows, Booked
<1>3. "idle" \in Steps /\ \A w \in Workers : pc[w] = "idle"
  BY DEF Steps, Init
<1>4. TypeOK
  <2>1. register \in [Registers -> [agency : Agencies \cup {None},
                                    status : {"absent", "OPEN", "CLOSED", "DISCREPANCY"}]]
    BY DEF Init
  <2>2. books \in [Refs -> [Registers -> Nat]] /\ pc \in [Workers -> Steps]
    BY <1>2, <1>3 DEF Init
  <2> QED BY <1>1, <2>1, <2>2 DEF Init, TypeOK
<1>5. job \in [Workers -> Jobs]
  BY NoJobType DEF Init
<1>6. Unborn /\ Exclusive /\ OneRowPerRef /\ \A w \in Workers : KnowsItsRow(w)
  BY <1>1, <1>2, <1>3 DEF Unborn, Exclusive, Holds, OneRowPerRef, KnowsItsRow
<1>7. RefundBookedOnce /\ RedeemedIsBooked
  BY <1>1, <1>2, RefFacts DEF RefundBookedOnce, RedeemedIsBooked, Entities
<1>8. PaidOrVoucher
  BY DEF Init, PaidOrVoucher
<1> QED BY <1>4, <1>5, <1>6, <1>7, <1>8 DEF IInv

\* The inductive invariant, for every number of everything.
THEOREM Invariance == Spec => []IInv
<1>1. Init => IInv
  BY InitSafe
<1>2. IInv /\ [Next]_vars => IInv'
  <2> SUFFICES ASSUME IInv, [Next]_vars PROVE IInv'
    OBVIOUS
  <2>1. ASSUME NEW w \in Workers,
               \/ \E f \in Refunds, a \in {"approve", "reject", "process"} : Decide(w, f, a)
               \/ \E v \in Vouchers, t \in Tickets : Redeem(w, v, t)
               \/ \E v \in Vouchers : CancelVoucher(w, v)
               \/ \E t \in Tickets : CancelTicket(w, t)
        PROVE  IInv'
    BY <2>1, StartSafe
  <2>2. ASSUME NEW w \in Workers,
               \/ \E t \in Tickets : PortalCancel(w, t)
               \/ Begin(w) \/ BeginCancel(w) \/ RemoveCheck(w) \/ Fail(w)
        PROVE  IInv'
    BY <2>2, StepQuiet
  <2>3. ASSUME NEW w \in Workers,
               CommitDecision(w) \/ CommitVoucher(w) \/ Restore(w) \/ CommitCancel(w) \/ CreateRefund(w)
        PROVE  IInv'
    BY <2>3, DecisionSafe, VoucherSafe, RestoreSafe, CancelSafe, CreateSafe
  <2>4. ASSUME NEW w \in Workers,
               CommitProcess(w) \/ CommitRedeem(w) \/ Fallback(w) \/ RemoveAgency(w)
        PROVE  IInv'
    BY <2>4, ProcessSafe, RedeemSafe, FallbackSafe, RemoveSafe
  <2>5. ASSUME NEW g \in Registers, MoveRegister(g) PROVE IInv'
    BY <2>5, RegisterQuiet
  <2>6. CASE IssueVoucher
    BY <2>6, IssueSafe
  <2>7. CASE UNCHANGED vars
    <3>1. TypeOK' /\ (job \in [Workers -> Jobs])'
      BY <2>7 DEF vars, IInv, TypeOK
    <3>2. Unborn' /\ Exclusive' /\ OneRowPerRef'
      BY <2>7 DEF vars, IInv, Unborn, Exclusive, Holds, OneRowPerRef, Booked, BookedOnce
    <3>3. ASSUME NEW u \in Workers PROVE KnowsItsRow(u)'
      <4>1. (Snapshot(job[u]) => Snapshot(job[u])') /\ (Holding(job[u]) => Holding(job[u])')
        BY <2>7 DEF vars, Snapshot, Holding, Request
      <4> QED BY <2>7, <4>1 DEF vars, IInv, KnowsItsRow
    <3>4. RefundBookedOnce'
      <4>1. row' = row /\ books' = books /\ agencies' = agencies /\ RefundBookedOnce
        BY <2>7 DEF vars, IInv
      <4> QED BY <4>1 DEF Booked, BookedOnce, RefundBookedOnce
    <3>5. PaidOrVoucher'
      BY <2>7 DEF vars, IInv, Booked, PaidOrVoucher
    <3>6. RedeemedIsBooked'
      BY <2>7 DEF vars, IInv, BookedOnce, RedeemedIsBooked
    <3> QED BY <3>1, <3>2, <3>3, <3>4, <3>5, <3>6 DEF IInv
  <2> QED BY <2>1, <2>2, <2>3, <2>4, <2>5, <2>6, <2>7 DEF Next
<1> QED BY <1>1, <1>2, PTL DEF Spec

\* Tables, registers and requests keep their types.
THEOREM TypeCorrect == Spec => []TypeOK
BY Invariance, PTL DEF IInv

\* A refund is booked exactly once, when it is processed (RefundService.transition with
\* CashierService.recordTransaction in its persist callback).
THEOREM RefundTheorem == Spec => []RefundBookedOnce
BY Invariance, PTL DEF IInv

\* The money or the voucher of the rejection, and never two vouchers.
THEOREM PaidOrVoucherTheorem == Spec => []PaidOrVoucher
BY Invariance, PTL DEF IInv

\* A voucher in use has its one booking.
THEOREM RedeemedTheorem == Spec => []RedeemedIsBooked
BY Invariance, PTL DEF IInv

-----------------------------------------------------------------------------
(* What a step may do to a row *)

\* Request w moves the row it has locked.
Moved(w) ==
    /\ (pc[w] = "tx" /\ Locks(w, job[w].ent, job[w].ver)) \/ Holds(w)
    /\ Move(job[w].ent, job[w].was, job[w].do)

Created(e) == Fresh(e) /\ \E s \in {"PENDING", "ISSUED"} :
                             row' = [row EXCEPT ![e] = [status |-> s, ver |-> 1]]

\* The four ways a step treats the rows.
LEMMA RowSteps ==
    ASSUME IInv, [Next]_vars
    PROVE  \/ row' = row
           \/ \E w \in Workers : Moved(w)
           \/ \E w \in Workers : Restore(w)
           \/ \E e \in Entities : Created(e)
<1>1. CASE UNCHANGED vars
  BY <1>1 DEF vars
<1>2. ASSUME NEW w \in Workers,
             \/ \E f \in Refunds, a \in {"approve", "reject", "process"} : Decide(w, f, a)
             \/ \E v \in Vouchers, t \in Tickets : Redeem(w, v, t)
             \/ \E v \in Vouchers : CancelVoucher(w, v)
             \/ \E t \in Tickets : CancelTicket(w, t) \/ PortalCancel(w, t)
             \/ Begin(w) \/ BeginCancel(w) \/ RemoveCheck(w) \/ RemoveAgency(w) \/ Fail(w)
      PROVE  row' = row
  BY <1>2 DEF Decide, Redeem, CancelVoucher, CancelTicket, PortalCancel, Begin, BeginCancel,
              RemoveCheck, RemoveAgency, Fail, tables
<1>3. ASSUME NEW g \in Registers, MoveRegister(g) PROVE row' = row
  BY <1>3 DEF MoveRegister, tables
<1>4. ASSUME NEW w \in Workers, CommitDecision(w) \/ CommitVoucher(w) PROVE Moved(w)
  BY <1>4 DEF CommitDecision, CommitVoucher, Moved
<1>5. ASSUME NEW w \in Workers, CommitProcess(w) \/ CommitRedeem(w) PROVE Moved(w)
  BY <1>5 DEF CommitProcess, CommitRedeem, Moved, Holds
<1>6. ASSUME NEW w \in Workers, CommitCancel(w) PROVE Moved(w)
  <2>1. pc[w] = "commit" /\ job[w].ent \in Tickets /\ Move(job[w].ent, job[w].was, "CANCEL")
    BY <1>6 DEF CommitCancel
  <2>2. Request(job[w])
    BY <2>1 DEF IInv, KnowsItsRow, Holding
  <2>3. job[w].do = "CANCEL"
    BY <2>1, <2>2, AfterSalesAssumption DEF Request
  <2> QED BY <2>1, <2>3 DEF Moved, Holds
<1>7. ASSUME NEW w \in Workers, CreateRefund(w) PROVE \E e \in Entities : Created(e)
  BY <1>7 DEF CreateRefund, Create, Created, Entities
<1>8. ASSUME NEW w \in Workers, Fallback(w) PROVE \E e \in Entities : Created(e)
  BY <1>8 DEF Fallback, Issue, Created, Entities
<1>9. CASE IssueVoucher
  BY <1>9 DEF IssueVoucher, Issue, Created, Entities
<1> QED BY <1>1, <1>2, <1>3, <1>4, <1>5, <1>6, <1>7, <1>8, <1>9 DEF Next

\* A row moves along an edge from the state it really has.
Walks(e) ==
    \/ row'[e] = row[e]
    \/ Fresh(e) /\ row'[e].ver = 1
    \/ /\ row'[e].ver = row[e].ver + 1
       /\ \E x \in Edges : x[1] = row[e].status /\ x[3] = row'[e].status

\* A request moves the row it has locked from the state it has.
LEMMA MovedWalks ==
    ASSUME IInv, NEW w \in Workers, Moved(w)
    PROVE  \A e \in Entities : Walks(e)
<1>1. /\ job[w].ent \in Entities
      /\ row[job[w].ent] = [status |-> job[w].was, ver |-> job[w].ver]
  BY LockedFacts DEF Moved
<1>2. Move(job[w].ent, job[w].was, job[w].do)
  BY DEF Moved
<1>3. PICK e, s, a : e = job[w].ent /\ s = job[w].was /\ a = job[w].do
  OBVIOUS
<1>4. e \in Entities /\ Move(e, s, a) /\ row[e].status = s
  BY <1>1, <1>2, <1>3
<1>5. PICK x \in Edges :
        /\ x[1] = s /\ x[2] = a
        /\ row'[e] = [status |-> x[3], ver |-> row[e].ver + 1]
        /\ \A d \in Entities : d # e => row'[d] = row[d]
  BY <1>4, MoveFacts
<1>6. Walks(e)
  BY <1>4, <1>5 DEF Walks
<1> QED BY <1>5, <1>6 DEF Walks

\* The voucher of a cancelled ticket is restored from REDEEMED, as its version vouches.
LEMMA RestoreWalks ==
    ASSUME WalkInv, NEW w \in Workers, Restore(w)
    PROVE  \A e \in Entities : Walks(e)
<1>1. /\ pc[w] = "restore" /\ Locks(w, job[w].on, job[w].vver)
      /\ Move(job[w].on, "REDEEMED", "RESTORE")
  BY DEF Restore
<1>2. job[w].on \in Vouchers /\ job[w].on \in Entities /\ job[w].ent \in Tickets
  BY <1>1 DEF WalkInv, IInv, KnowsItsRow, Entities
<1>3. row[job[w].on].status = "REDEEMED"
  BY <1>1, <1>2, AfterSalesAssumption DEF WalkInv, VoucherSeen, Locks
<1>4. PICK x \in Edges :
        /\ x[1] = "REDEEMED" /\ x[2] = "RESTORE"
        /\ row'[job[w].on] = [status |-> x[3], ver |-> row[job[w].on].ver + 1]
        /\ \A d \in Entities : d # job[w].on => row'[d] = row[d]
  BY <1>1, <1>2, MoveFacts DEF WalkInv
<1> QED BY <1>2, <1>3, <1>4 DEF Walks

\* An insert is the first version of its row.
LEMMA CreatedWalks ==
    ASSUME IInv, NEW e \in Entities, Created(e)
    PROVE  \A d \in Entities : Walks(d)
<1>1. PICK s \in {"PENDING", "ISSUED"} : row' = [row EXCEPT ![e] = [status |-> s, ver |-> 1]]
  BY DEF Created
<1>2. row'[e] = [status |-> s, ver |-> 1] /\ \A d \in Entities : d # e => row'[d] = row[d]
  BY <1>1, FreshFacts DEF Created
<1> QED BY <1>2 DEF Walks, Created

\* So does every step.
LEMMA AllWalk ==
    ASSUME WalkInv, [Next]_vars
    PROVE  \A e \in Entities : Walks(e)
<1>1. CASE row' = row
  BY <1>1 DEF Walks
<1> QED BY <1>1, RowSteps, MovedWalks, RestoreWalks, CreatedWalks DEF WalkInv

\* What the request for a ticket knows of its voucher outlives the steps of the others.
LEMMA SeenStays ==
    ASSUME WalkInv, [Next]_vars, NEW w \in Workers, pc[w] \in {"tx", "restore"},
           job[w].ent \in Tickets, job[w].on # None
    PROVE  /\ job[w].vver <= row'[job[w].on].ver
           /\ job[w].vver = row'[job[w].on].ver => row'[job[w].on].status = "REDEEMED"
<1>1. VoucherSeen(w) /\ KnowsItsRow(w) /\ Unborn /\ row \in [Entities -> [status : Statuses, ver : Nat]]
      /\ job[w] \in Jobs
  BY DEF WalkInv, IInv, TypeOK
<1>2. job[w].on \in Vouchers /\ job[w].on \in Entities
  BY <1>1, AfterSalesAssumption DEF KnowsItsRow, Snapshot, Request, Holding, Entities
<1>3. /\ job[w].vver <= row[job[w].on].ver /\ job[w].vver \in Nat /\ row[job[w].on].ver \in Nat
      /\ job[w].vver = row[job[w].on].ver => row[job[w].on].status = "REDEEMED"
  BY <1>1, <1>2 DEF VoucherSeen, Jobs
<1>4. Fresh(job[w].on) => row[job[w].on].ver = 0
  BY <1>1, <1>2 DEF Unborn, Fresh
<1>5. Walks(job[w].on)
  BY <1>2, AllWalk
<1> QED BY <1>3, <1>4, <1>5 DEF Walks

\* A request begins to cancel a ticket with the version of the voucher it has seen in use,
\* and keeps it.
LEMMA SeenFirst ==
    ASSUME WalkInv, [Next]_vars, NEW w \in Workers
    PROVE  VoucherSeen(w)'
<1> SUFFICES ASSUME pc'[w] \in {"tx", "restore"}, job'[w].ent \in Tickets, job'[w].on # None
             PROVE  /\ job'[w].vver <= row'[job'[w].on].ver
                    /\ job'[w].vver = row'[job'[w].on].ver => row'[job'[w].on].status = "REDEEMED"
  BY DEF VoucherSeen
<1>0. /\ pc \in [Workers -> Steps] /\ job \in [Workers -> Jobs]
      /\ row \in [Entities -> [status : Statuses, ver : Nat]]
  BY DEF WalkInv, IInv, TypeOK
<1>1. CASE pc[w] \in {"tx", "restore"} /\ job'[w] = job[w]
  BY <1>1, SeenStays
<1>2. ASSUME NEW t \in Tickets, CancelTicket(w, t)
      PROVE  /\ job'[w].vver <= row'[job'[w].on].ver
             /\ job'[w].vver = row'[job'[w].on].ver => row'[job'[w].on].status = "REDEEMED"
  <2>1. row' = row
    BY <1>2 DEF CancelTicket, tables
  <2>2. CASE Linked(t) = {}
    BY <1>0, <1>2, <2>2 DEF CancelTicket, Read, Goto, NoJob
  <2>3. ASSUME NEW v \in Linked(t),
               Read(w, t, "CANCEL", [NoJob EXCEPT !.on = v, !.vver = row[v].ver])
        PROVE  job'[w].on = v /\ job'[w].vver = row[v].ver
    BY <1>0, <2>3 DEF Read, Goto, NoJob
  <2>4. \A v \in Linked(t) : v \in Entities /\ row[v].status = "REDEEMED" /\ row[v].ver <= row[v].ver
    BY <1>0 DEF Linked, Entities
  <2> QED BY <1>2, <2>1, <2>2, <2>3, <2>4 DEF CancelTicket
<1>3. ASSUME NEW u \in Workers, u # w, NEW step, NEW j, Goto(u, step, j)
      PROVE  pc'[w] = pc[w] /\ job'[w] = job[w]
  BY <1>0, <1>3 DEF Goto
<1>4. ASSUME NEW step, NEW j, Goto(w, step, j)
      PROVE  pc'[w] = step /\ job'[w] = j
  BY <1>0, <1>4 DEF Goto
<1>5. CASE UNCHANGED <<pc, job>>
  BY <1>1, <1>5
<1>6. ASSUME NEW u \in Workers, u # w,
             \/ \E f \in Refunds, a \in {"approve", "reject", "process"} : Decide(u, f, a)
             \/ \E v \in Vouchers, t \in Tickets : Redeem(u, v, t)
             \/ \E v \in Vouchers : CancelVoucher(u, v)
             \/ \E t \in Tickets : CancelTicket(u, t) \/ PortalCancel(u, t)
      PROVE  pc'[w] = pc[w] /\ job'[w] = job[w]
  BY <1>3, <1>6 DEF Decide, Redeem, CancelVoucher, CancelTicket, PortalCancel, Read
<1>7. ASSUME NEW u \in Workers, u # w,
             \/ CommitDecision(u) \/ Fallback(u) \/ Begin(u) \/ CommitProcess(u)
             \/ CommitRedeem(u) \/ CommitVoucher(u)
             \/ BeginCancel(u) \/ Restore(u) \/ CommitCancel(u) \/ CreateRefund(u)
             \/ RemoveCheck(u) \/ RemoveAgency(u) \/ Fail(u)
      PROVE  pc'[w] = pc[w] /\ job'[w] = job[w]
  BY <1>3, <1>7 DEF CommitDecision, Fallback, Begin, CommitProcess, CommitRedeem, CommitVoucher,
                    BeginCancel, Restore, CommitCancel, CreateRefund, RemoveCheck, RemoveAgency,
                    Fail, Finish
<1>8. ASSUME \/ \E f \in Refunds, a \in {"approve", "reject", "process"} : Decide(w, f, a)
             \/ \E v \in Vouchers, t \in Tickets : Redeem(w, v, t)
             \/ \E v \in Vouchers : CancelVoucher(w, v)
      PROVE  FALSE
  <2>1. ASSUME NEW e, NEW a, NEW j, Read(w, e, a, j), "ent" \in DOMAIN j
        PROVE  job'[w].ent = e
    <3>1. PICK s, n : s = row[e].status /\ n = row[e].ver
      OBVIOUS
    <3>2. job'[w] = [j EXCEPT !.do = a, !.ent = e, !.was = s, !.ver = n]
      BY <1>4, <2>1, <3>1 DEF Read
    <3>3. [j EXCEPT !.do = a, !.ent = e, !.was = s, !.ver = n].ent = e
      BY <2>1
    <3> QED BY <3>2, <3>3
  <2>2. "ent" \in DOMAIN NoJob
    BY DEF NoJob
  <2>3. \A b : "ent" \in DOMAIN [NoJob EXCEPT !.agency = b]
    BY <2>2
  <2>4. \A t, b : "ent" \in DOMAIN [NoJob EXCEPT !.on = t, !.agency = b]
    BY <2>2
  <2>5. ASSUME NEW f \in Refunds, NEW a \in {"approve", "reject", "process"}, Decide(w, f, a)
        PROVE  job'[w].ent = f
    BY <2>1, <2>2, <2>3, <2>5 DEF Decide
  <2>6. ASSUME NEW v \in Vouchers, NEW t \in Tickets, Redeem(w, v, t)
        PROVE  job'[w].ent = v
    BY <2>1, <2>4, <2>6 DEF Redeem
  <2>7. ASSUME NEW v \in Vouchers, CancelVoucher(w, v)
        PROVE  job'[w].ent = v
    BY <2>1, <2>2, <2>7 DEF CancelVoucher
  <2>8. \A e \in Refunds \cup Vouchers : job'[w].ent # e
    BY AfterSalesAssumption
  <2> QED BY <1>8, <2>5, <2>6, <2>7, <2>8
<1>9. ASSUME \/ \E t \in Tickets : PortalCancel(w, t)
             \/ CommitDecision(w) \/ Fallback(w) \/ Begin(w) \/ CommitProcess(w)
             \/ CommitRedeem(w) \/ CommitVoucher(w)
             \/ Restore(w) \/ CommitCancel(w) \/ CreateRefund(w)
             \/ RemoveCheck(w) \/ RemoveAgency(w) \/ Fail(w)
      PROVE  FALSE
  <2>1. ASSUME NEW step, step \notin {"tx", "restore"}, NEW j, Goto(w, step, j) PROVE FALSE
    BY <1>4, <2>1
  <2>2. ~ Finish(w)
    BY <2>1 DEF Finish
  <2>3. ~ (Begin(w) \/ Restore(w) \/ CommitCancel(w))
    BY <2>1 DEF Begin, Restore, CommitCancel
  <2>4. ~ (RemoveCheck(w) \/ CommitDecision(w) \/ \E t \in Tickets : PortalCancel(w, t))
    BY <2>1, <2>2 DEF RemoveCheck, CommitDecision, PortalCancel
  <2> QED BY <1>9, <2>2, <2>3, <2>4 DEF Fallback, CommitProcess, CommitRedeem, CommitVoucher,
                                        CreateRefund, RemoveAgency, Fail
<1>10. CASE BeginCancel(w)
  BY <1>1, <1>4, <1>10 DEF BeginCancel
<1>11. CASE \/ UNCHANGED vars \/ IssueVoucher \/ \E g \in Registers : MoveRegister(g)
  BY <1>5, <1>11 DEF vars, IssueVoucher, MoveRegister
<1>12. ASSUME NEW u \in Workers, u # w, pc'[w] = pc[w] /\ job'[w] = job[w]
       PROVE  /\ job'[w].vver <= row'[job'[w].on].ver
              /\ job'[w].vver = row'[job'[w].on].ver => row'[job'[w].on].status = "REDEEMED"
  BY <1>1, <1>12
<1> QED BY <1>2, <1>6, <1>7, <1>8, <1>9, <1>10, <1>11, <1>12 DEF Next

\* The versions of the vouchers add to the invariant what a restoration relies on.
THEOREM WalkInvariance == Spec => []WalkInv
<1>1. Init => WalkInv
  BY InitSafe DEF WalkInv, VoucherSeen, Init
<1>2. WalkInv /\ [Next]_vars /\ IInv' => WalkInv'
  BY SeenFirst DEF WalkInv
<1> QED BY <1>1, <1>2, Invariance, PTL DEF Spec

\* Refunds, vouchers and tickets walk the blueprint from the state they really have, for
\* any number of requests on old snapshots (WorkflowEngine.transition, step 4b).
THEOREM BlueprintTheorem == Spec => BlueprintRespected
<1>1. WalkInv /\ [Next]_vars =>
        [\A e \in Entities : row'[e] # row[e] =>
           \/ Fresh(e) /\ row'[e].ver = 1
           \/ /\ row'[e].ver = row[e].ver + 1
              /\ \E x \in Edges : x[1] = row[e].status /\ x[3] = row'[e].status]_vars
  BY AllWalk DEF Walks
<1> QED BY <1>1, WalkInvariance, PTL DEF Spec, BlueprintRespected

-----------------------------------------------------------------------------
(* AfterSales keeps its promise to the passenger *)

\* The rows of the blueprint a refund walks on.
LEMMA DecisionEdges ==
    \A x \in Edges :
        /\ x[2] = "approve" => x[1] = "PENDING" /\ x[3] = "APPROVED"
        /\ x[2] = "reject" => x[1] \in {"PENDING", "APPROVED"} /\ x[3] = "REJECTED"
        /\ x[2] = "process" => x[1] = "APPROVED" /\ x[3] = "PROCESSED"
BY DEF Edges

\* A voucher gets its origin when it is issued, and is never unissued.
LEMMA UnissuedStays ==
    ASSUME WalkInv, IInv', Unissued, [Next]_vars
    PROVE  Unissued'
<1>1. ASSUME NEW v \in Vouchers, Fresh(v)' PROVE Fresh(v) /\ row'[v] = row[v]
  <2>1. v \in Entities
    BY DEF Entities
  <2>2. row'[v].ver = 0
    BY <1>1, <2>1 DEF IInv, Unborn, Fresh
  <2>3. \A x \in Edges : x[3] # "absent"
    BY EdgeFacts
  <2>4. Walks(v)
    BY <2>1, AllWalk
  <2> QED BY <1>1, <2>2, <2>3, <2>4 DEF Walks, Fresh
<1>2. CASE UNCHANGED origin
  BY <1>1, <1>2 DEF Unissued
<1>3. ASSUME NEW v \in Vouchers, NEW f, Issue(v, f) PROVE Unissued'
  <2>1. ~ Fresh(v)'
    <3>1. v \in Entities /\ row \in [Entities -> [status : Statuses, ver : Nat]]
      BY DEF WalkInv, IInv, TypeOK, Entities
    <3> QED BY <1>3, <3>1 DEF Issue, Fresh
  <2>2. \A u \in Vouchers : u # v => origin'[u] = origin[u]
    BY <1>3 DEF Issue, WalkInv, IInv, TypeOK
  <2> QED BY <1>1, <2>1, <2>2 DEF Unissued
<1>4. ASSUME NEW w \in Workers, Fallback(w) PROVE Unissued'
  BY <1>3, <1>4 DEF Fallback
<1>5. CASE IssueVoucher
  BY <1>3, <1>5 DEF IssueVoucher
<1>6. ASSUME NEW w \in Workers,
             \/ \E f \in Refunds, a \in {"approve", "reject", "process"} : Decide(w, f, a)
             \/ \E v \in Vouchers, t \in Tickets : Redeem(w, v, t)
             \/ \E v \in Vouchers : CancelVoucher(w, v)
             \/ \E t \in Tickets : CancelTicket(w, t) \/ PortalCancel(w, t)
             \/ Begin(w) \/ BeginCancel(w) \/ RemoveCheck(w) \/ RemoveAgency(w) \/ Fail(w)
      PROVE  UNCHANGED origin
  BY <1>6 DEF Decide, Redeem, CancelVoucher, CancelTicket, PortalCancel, Begin, BeginCancel,
              RemoveCheck, RemoveAgency, Fail, tables
<1>7. ASSUME NEW w \in Workers,
             \/ CommitDecision(w) \/ CommitProcess(w) \/ CommitRedeem(w) \/ CommitVoucher(w)
             \/ Restore(w) \/ CommitCancel(w) \/ CreateRefund(w)
      PROVE  UNCHANGED origin
  BY <1>7 DEF CommitDecision, CommitProcess, CommitRedeem, CommitVoucher, Restore, CommitCancel,
              CreateRefund
<1>8. ASSUME NEW g \in Registers, MoveRegister(g) PROVE UNCHANGED origin
  BY <1>8 DEF MoveRegister, tables
<1>9. CASE UNCHANGED vars
  BY <1>2, <1>9 DEF vars
<1> QED BY <1>2, <1>4, <1>5, <1>6, <1>7, <1>8, <1>9 DEF Next

\* A step that leaves the refunds, their bookings and the origins alone is none of the
\* promise's.
LEMMA NothingPromised ==
    ASSUME \A f \in Refunds : row'[f] = row[f] /\ books'[<<f>>] = books[<<f>>],
           UNCHANGED <<origin, agencies>>
    PROVE  UNCHANGED Promise!settlementVars
BY DEF Promise!settlementVars, Booked

\* Refunds are not tickets or vouchers.
LEMMA RefundApart ==
    \A f \in Refunds : f \in Entities /\ f \notin Tickets /\ f \notin Vouchers
BY AfterSalesAssumption DEF Entities

\* Requests for tickets and vouchers do not touch a refund or its booking.
LEMMA OthersKeep ==
    ASSUME IInv, NEW w \in Workers,
           CommitVoucher(w) \/ CommitRedeem(w) \/ Restore(w) \/ CommitCancel(w)
    PROVE  UNCHANGED Promise!settlementVars
<1>1. ASSUME NEW e \in Tickets \cup Vouchers, NEW s, NEW a, Move(e, s, a)
      PROVE  \A f \in Refunds : row'[f] = row[f]
  <2>1. e \in Entities
    BY DEF Entities
  <2>2. \A d \in Entities : d # e => row'[d] = row[d]
    BY <1>1, <2>1, MoveFacts
  <2> QED BY <2>2, RefundApart
<1>2. CASE CommitVoucher(w)
  BY <1>1, <1>2, NothingPromised DEF CommitVoucher, cash
<1>3. CASE CommitCancel(w)
  BY <1>1, <1>3, NothingPromised DEF CommitCancel, cash
<1>4. CASE Restore(w)
  <2>1. job[w].on \in Vouchers
    BY <1>4 DEF Restore, IInv, KnowsItsRow
  <2> QED BY <1>1, <1>4, <2>1, NothingPromised DEF Restore, cash
<1>5. CASE CommitRedeem(w)
  <2>1. /\ pc[w] = "commit" /\ job[w].do = "REDEEM" /\ Move(job[w].ent, job[w].was, "REDEEM")
        /\ IF job[w].reg = None THEN UNCHANGED <<register, books>>
           ELSE Book(<<job[w].ent, job[w].on>>, job[w].reg, job[w].agency)
        /\ UNCHANGED <<origin, agencies>>
    BY <1>5 DEF CommitRedeem
  <2>2. job[w].ent \in Vouchers /\ job[w].on \in Tickets
    <3>1. Request(job[w])
      BY <2>1 DEF IInv, KnowsItsRow, Holding
    <3> QED BY <2>1, <3>1 DEF Request
  <2>3. <<job[w].ent, job[w].on>> \in Refs
    BY <2>2, RefFacts
  <2>4. BooksAt(<<job[w].ent, job[w].on>>)
    BY <2>1, <2>3, BookingFacts
  <2>5. \A f \in Refunds : books'[<<f>>] = books[<<f>>]
    BY <2>4, RefFacts DEF BooksAt
  <2> QED BY <1>1, <2>1, <2>2, <2>5, NothingPromised
<1> QED BY <1>2, <1>3, <1>4, <1>5

\* A refund is asked for, approved, rejected or paid, one at a time.
LEMMA RefundsKeep ==
    ASSUME IInv, NEW w \in Workers,
           CreateRefund(w) \/ CommitDecision(w) \/ CommitProcess(w)
    PROVE  Promise!SNext
<1>0. ASSUME NEW f \in Refunds, NEW s, row'[f].status = s, \A d \in Entities : d # f => row'[d] = row[d]
      PROVE  [h \in Refunds |-> row'[h].status] = [[h \in Refunds |-> row[h].status] EXCEPT ![f] = s]
  BY <1>0, RefundApart
<1>1. ASSUME books' = books
      PROVE  [f \in Refunds |-> Booked(<<f>>)]' = [f \in Refunds |-> Booked(<<f>>)]
  BY <1>1 DEF Booked
<1>2. CASE CreateRefund(w)
  <2>1. PICK f \in Refunds : Create(f, job[w].on)
    BY <1>2 DEF CreateRefund
  <2>2. /\ row[f].status = "absent" /\ row'[f].status = "PENDING"
        /\ \A d \in Entities : d # f => row'[d] = row[d]
    <3>1. f \in Entities /\ Fresh(f) /\ row' = [row EXCEPT ![f] = [status |-> "PENDING", ver |-> 1]]
      BY <2>1, RefundApart DEF Create
    <3>2. row'[f] = [status |-> "PENDING", ver |-> 1] /\ \A d \in Entities : d # f => row'[d] = row[d]
      BY <3>1, FreshFacts
    <3> QED BY <3>1, <3>2 DEF Fresh
  <2>3. UNCHANGED <<origin, books, agencies>>
    BY <1>2 DEF CreateRefund, cash
  <2>4. Promise!Ask(f)
    BY <1>0, <1>1, <2>2, <2>3 DEF Promise!Ask, Promise!Becomes
  <2> QED BY <2>4 DEF Promise!SNext
<1>3. CASE CommitDecision(w)
  <2>1. /\ Locks(w, job[w].ent, job[w].ver) /\ Move(job[w].ent, job[w].was, job[w].do) /\ pc[w] = "tx"
        /\ job[w].do \in {"approve", "reject"} /\ UNCHANGED <<origin, books, agencies>>
    BY <1>3 DEF CommitDecision, cash
  <2>2. /\ Request(job[w]) /\ job[w].ent \in Entities
        /\ row[job[w].ent] = [status |-> job[w].was, ver |-> job[w].ver]
    BY <2>1, LockedFacts
  <2>3. PICK f \in Refunds : f = job[w].ent
    BY <2>1, <2>2 DEF Request
  <2>4. PICK x \in Edges :
          /\ x[1] = job[w].was /\ x[2] = job[w].do
          /\ row'[f] = [status |-> x[3], ver |-> row[f].ver + 1]
          /\ \A d \in Entities : d # f => row'[d] = row[d]
    BY <2>1, <2>2, <2>3, MoveFacts
  <2>5. /\ row'[f].status = x[3] /\ row[f].status = x[1]
        /\ \/ x[1] = "PENDING" /\ x[3] = "APPROVED"
           \/ x[1] \in {"PENDING", "APPROVED"} /\ x[3] = "REJECTED"
    BY <2>1, <2>2, <2>3, <2>4, DecisionEdges
  <2>6. [h \in Refunds |-> row'[h].status] = [[h \in Refunds |-> row[h].status] EXCEPT ![f] = x[3]]
    BY <1>0, <2>4, <2>5
  <2>7. UNCHANGED <<[h \in Refunds |-> Booked(<<h>>)],
                    [h \in Refunds |-> {v \in Vouchers : origin[v] = h}], agencies # Agencies>>
    BY <1>1, <2>1
  <2>8. CASE x[1] = "PENDING" /\ x[3] = "APPROVED"
    <3>1. Promise!Approve(f)
      BY <2>5, <2>6, <2>7, <2>8 DEF Promise!Approve, Promise!Becomes
    <3> QED BY <3>1 DEF Promise!SNext
  <2>9. CASE x[1] \in {"PENDING", "APPROVED"} /\ x[3] = "REJECTED"
    <3>1. Promise!Reject(f)
      BY <2>5, <2>6, <2>7, <2>9 DEF Promise!Reject, Promise!Becomes
    <3> QED BY <3>1 DEF Promise!SNext
  <2> QED BY <2>5, <2>8, <2>9
<1>4. CASE CommitProcess(w)
  <2>1. /\ pc[w] = "commit" /\ job[w].do = "process" /\ Move(job[w].ent, job[w].was, "process")
        /\ IF job[w].reg = None THEN UNCHANGED <<register, books>>
           ELSE Book(<<job[w].ent>>, job[w].reg, job[w].agency)
        /\ UNCHANGED <<origin, agencies>>
    BY <1>4 DEF CommitProcess
  <2>2. /\ Request(job[w]) /\ job[w].ent \in Entities
        /\ row[job[w].ent] = [status |-> job[w].was, ver |-> job[w].ver]
    <3>1. Holds(w)
      BY <2>1 DEF Holds
    <3> QED BY <3>1, LockedFacts
  <2>3. PICK f \in Refunds : f = job[w].ent
    BY <2>1, <2>2 DEF Request
  <2>4. PICK x \in Edges :
          /\ x[1] = job[w].was /\ x[2] = "process"
          /\ row'[f] = [status |-> x[3], ver |-> row[f].ver + 1]
          /\ \A d \in Entities : d # f => row'[d] = row[d]
    <3>1. Move(f, job[w].was, "process") /\ f \in Entities
      BY <2>1, <2>2, <2>3
    <3> QED BY <3>1, MoveFacts
  <2>5. row'[f].status = "PROCESSED" /\ row[f].status = "APPROVED"
    <3>1. row'[f].status = x[3] /\ row[f].status = x[1]
      BY <2>2, <2>3, <2>4
    <3>2. x[1] = "APPROVED" /\ x[3] = "PROCESSED"
      BY <2>4, DecisionEdges
    <3> QED BY <3>1, <3>2
  <2>6. [h \in Refunds |-> row'[h].status]
          = [[h \in Refunds |-> row[h].status] EXCEPT ![f] = "PROCESSED"]
    BY <1>0, <2>4, <2>5
  <2>7. <<f>> \in Refs /\ BooksAt(<<f>>)
    <3>1. <<f>> \in Refs
      BY RefFacts
    <3> QED BY <2>1, <2>3, <3>1, BookingFacts
  <2>8. ~ Booked(<<f>>)
    BY <2>5 DEF IInv, RefundBookedOnce
  <2>9. \/ [h \in Refunds |-> Booked(<<h>>)]' = [[h \in Refunds |-> Booked(<<h>>)] EXCEPT ![f] = TRUE]
        \/ books' = books /\ agencies # Agencies
    <3>1. CASE Booked(<<f>>)'
      <4>1. \A h \in Refunds : h # f => Booked(<<h>>)' = Booked(<<h>>)
        BY <2>7, RefFacts DEF BooksAt, Booked
      <4> QED BY <3>1, <4>1
    <3> QED BY <2>7, <3>1 DEF BooksAt
  <2>10. Promise!Pay(f)
    BY <1>1, <2>1, <2>5, <2>6, <2>8, <2>9 DEF Promise!Pay, Promise!Becomes
  <2> QED BY <2>10 DEF Promise!SNext
<1> QED BY <1>2, <1>3, <1>4

\* A voucher makes up for one rejection, or for none; a deleted agency takes bookings away.
LEMMA RestKeeps ==
    ASSUME IInv, Unissued, IssueVoucher \/ \E w \in Workers : Fallback(w) \/ RemoveAgency(w)
    PROVE  [Promise!SNext]_(Promise!settlementVars)
<1>1. ASSUME NEW v \in Vouchers, NEW f \in Refunds \cup {None}, Issue(v, f)
      PROVE  /\ origin[v] = None /\ origin'[v] = f
             /\ \A u \in Vouchers : u # v => origin'[u] = origin[u]
             /\ \A h \in Refunds : row'[h] = row[h]
  <2>1. v \in Entities /\ Fresh(v) /\ row' = [row EXCEPT ![v] = [status |-> "ISSUED", ver |-> 1]]
    BY <1>1 DEF Issue, Entities
  <2>2. \A d \in Entities : d # v => row'[d] = row[d]
    BY <2>1, FreshFacts
  <2>3. origin' = [origin EXCEPT ![v] = f] /\ origin \in [Vouchers -> Refunds \cup {None}]
    BY <1>1 DEF Issue, IInv, TypeOK
  <2> QED BY <2>1, <2>2, <2>3, RefundApart DEF Unissued
<1>2. CASE IssueVoucher
  <2>1. PICK v \in Vouchers : Issue(v, None)
    BY <1>2 DEF IssueVoucher
  <2>2. origin' = origin /\ \A h \in Refunds : row'[h] = row[h]
    <3>1. origin[v] = None /\ \A h \in Refunds : row'[h] = row[h]
      BY <1>1, <2>1
    <3>2. origin' = [origin EXCEPT ![v] = None] /\ origin \in [Vouchers -> Refunds \cup {None}]
      BY <2>1 DEF Issue, IInv, TypeOK
    <3> QED BY <3>1, <3>2
  <2> QED BY <1>2, <2>2, NothingPromised DEF IssueVoucher, cash
<1>3. ASSUME NEW w \in Workers, Fallback(w) PROVE Promise!SNext
  <2>1. PICK v \in Vouchers : Issue(v, job[w].ent)
    BY <1>3 DEF Fallback
  <2>2. PICK f \in Refunds : /\ f = job[w].ent /\ row[f].status = "REJECTED"
                             /\ \A u \in Vouchers : origin[u] # f
    BY <1>3 DEF Fallback, IInv, KnowsItsRow
  <2>3. /\ origin[v] = None /\ origin'[v] = f
        /\ \A u \in Vouchers : u # v => origin'[u] = origin[u]
        /\ \A h \in Refunds : row'[h] = row[h]
    BY <1>1, <2>1, <2>2
  <2>4. UNCHANGED <<books, agencies>>
    BY <1>3 DEF Fallback, cash
  <2>5. /\ {u \in Vouchers : origin[u] = f} = {} /\ {u \in Vouchers : origin'[u] = f} = {v}
        /\ \A h \in Refunds : h # f =>
              {u \in Vouchers : origin'[u] = h} = {u \in Vouchers : origin[u] = h}
    <3>1. \A h \in Refunds : h # None
      BY AfterSalesAssumption
    <3>2. {u \in Vouchers : origin[u] = f} = {} /\ {u \in Vouchers : origin'[u] = f} = {v}
      BY <2>2, <2>3
    <3>3. ASSUME NEW h \in Refunds, h # f, NEW u \in Vouchers
          PROVE  origin'[u] = h <=> origin[u] = h
      BY <2>3, <3>1, <3>3
    <3> QED BY <3>2, <3>3
  <2>6. [h \in Refunds |-> {u \in Vouchers : origin'[u] = h}]
          = [[h \in Refunds |-> {u \in Vouchers : origin[u] = h}] EXCEPT ![f] = {v}]
    <3> DEFINE New == [h \in Refunds |-> {u \in Vouchers : origin'[u] = h}]
               Old == [h \in Refunds |-> {u \in Vouchers : origin[u] = h}]
    <3>1. New[f] = {v} /\ \A h \in Refunds : h # f => New[h] = Old[h]
      BY <2>5
    <3>2. New = [h \in Refunds |-> New[h]] /\ Old = [h \in Refunds |-> Old[h]]
      OBVIOUS
    <3> HIDE DEF New, Old
    <3>3. New = [Old EXCEPT ![f] = {v}]
      BY <3>1, <3>2
    <3> QED BY <3>3 DEF New, Old
  <2>7. [h \in Refunds |-> row[h].status]' = [h \in Refunds |-> row[h].status]
    BY <2>3
  <2>8. [h \in Refunds |-> Booked(<<h>>)]' = [h \in Refunds |-> Booked(<<h>>)]
    BY <2>4 DEF Booked
  <2>9. Promise!MakeUp(f, v)
    BY <2>2, <2>4, <2>5, <2>6, <2>7, <2>8 DEF Promise!MakeUp
  <2> QED BY <2>9 DEF Promise!SNext
<1>4. ASSUME NEW w \in Workers, RemoveAgency(w) PROVE Promise!SNext
  <2>1. /\ UNCHANGED <<row, origin>> /\ agencies' # Agencies
    BY <1>4 DEF RemoveAgency, tables, IInv, TypeOK
  <2>2. \A f \in Refunds : Booked(<<f>>)' => Booked(<<f>>)
    BY <1>4, RemovedRows, RefFacts
  <2>3. PICK gone \in SUBSET Refunds : gone = {f \in Refunds : ~ Booked(<<f>>)'}
    OBVIOUS
  <2>4. [f \in Refunds |-> Booked(<<f>>)]' = [f \in Refunds |-> Booked(<<f>>) /\ f \notin gone]
    <3>1. \A f \in Refunds : Booked(<<f>>)' = (Booked(<<f>>) /\ f \notin gone)
      <4> TAKE f \in Refunds
      <4>1. Booked(<<f>>)' <=> Booked(<<f>>) /\ f \notin gone
        BY <2>2, <2>3
      <4> QED BY <4>1 DEF Booked
    <3> QED BY <3>1
  <2>5. Promise!Purge
    BY <2>1, <2>3, <2>4 DEF Promise!Purge
  <2> QED BY <2>5 DEF Promise!SNext
<1> QED BY <1>2, <1>3, <1>4

\* AfterSales implements Settlement: a refund is decided once and settled in one way, and
\* nothing of it is taken back but with the books of a deleted agency.
THEOREM Implements == Spec => ImplementsSettlement
<1>1. Init => Promise!SInit /\ Unissued
  <2> SUFFICES ASSUME Init PROVE Promise!SInit /\ Unissued
    OBVIOUS
  <2>1. \A f \in Refunds : row[f].status = "absent" /\ ~ Booked(<<f>>)
    BY RefundApart, RefFacts DEF Init, Booked
  <2>2. (\A v \in Vouchers : origin[v] = None) /\ None \notin Refunds /\ agencies = Agencies
    BY AfterSalesAssumption DEF Init
  <2>3. [f \in Refunds |-> row[f].status] = [f \in Refunds |-> "absent"]
    BY <2>1
  <2>4. [f \in Refunds |-> Booked(<<f>>)] = [f \in Refunds |-> FALSE]
    <3>1. \A f \in Refunds : Booked(<<f>>) = FALSE
      BY <2>1 DEF Booked
    <3> QED BY <3>1
  <2>5. [f \in Refunds |-> {v \in Vouchers : origin[v] = f}] = [f \in Refunds |-> {}]
    <3>1. \A f \in Refunds : {v \in Vouchers : origin[v] = f} = {}
      BY <2>2
    <3> QED BY <3>1
  <2>6. (agencies # Agencies) = FALSE
    BY <2>2
  <2>7. Promise!SInit
    BY <2>3, <2>4, <2>5, <2>6 DEF Promise!SInit
  <2> QED BY <2>2, <2>7 DEF Unissued
<1>2. WalkInv /\ WalkInv' /\ Unissued /\ [Next]_vars => Unissued'
  BY UnissuedStays DEF WalkInv
<1>3. WalkInv /\ Unissued /\ [Next]_vars => [Promise!SNext]_(Promise!settlementVars)
  <2> SUFFICES ASSUME IInv, Unissued, [Next]_vars
               PROVE  [Promise!SNext]_(Promise!settlementVars)
    BY DEF WalkInv
  <2>1. ASSUME NEW w \in Workers,
               \/ \E f \in Refunds, a \in {"approve", "reject", "process"} : Decide(w, f, a)
               \/ \E v \in Vouchers, t \in Tickets : Redeem(w, v, t)
               \/ \E v \in Vouchers : CancelVoucher(w, v)
               \/ \E t \in Tickets : CancelTicket(w, t) \/ PortalCancel(w, t)
               \/ Begin(w) \/ BeginCancel(w) \/ RemoveCheck(w) \/ Fail(w)
        PROVE  UNCHANGED Promise!settlementVars
    BY <2>1, NothingPromised DEF Decide, Redeem, CancelVoucher, CancelTicket, PortalCancel, Begin,
              BeginCancel, RemoveCheck, Fail, tables, cash
  <2>2. ASSUME NEW g \in Registers, MoveRegister(g) PROVE UNCHANGED Promise!settlementVars
    BY <2>2, NothingPromised DEF MoveRegister, tables
  <2>3. CASE UNCHANGED vars
    BY <2>3, NothingPromised DEF vars
  <2> QED BY <2>1, <2>2, <2>3, OthersKeep, RefundsKeep, RestKeeps DEF Next
<1> QED BY <1>1, <1>2, <1>3, WalkInvariance, PTL DEF Spec, ImplementsSettlement, Promise!SSpec
=============================================================================
