----------------------------- MODULE AfterSales -----------------------------
(***************************************************************************)
(* After the sale: ticket cancellation, refunds, vouchers and the virtual  *)
(* cash registers their money movements are booked on, run by concurrent   *)
(* requests.                                                               *)
(*                                                                         *)
(* Tickets, refunds and vouchers are workflow entities: a transition of    *)
(* the engine is applied to a snapshot read before, in one transaction     *)
(* that holds the row (WorkflowEngineProofs!Implements).  A request is the *)
(* sequence of its awaits and may fail at any of them.  The engine acts    *)
(* for a person here: role SYSTEM has no permission row, so transitions in *)
(* its name (auto_approve, EXPIRE) are refused and change nothing.         *)
(***************************************************************************)
EXTENDS Naturals

CONSTANTS
    Tickets,      \* paid tickets
    Refunds,      \* identifiers of refunds rows
    Vouchers,     \* identifiers of vouchers rows
    Registers,    \* identifiers of cash_registers rows (kind VIRTUAL)
    Agencies,     \* agencies of the tenant at the start
    SoldBy,       \* [Tickets -> Agencies \cup {None}]: Ticket.agencyId
    Workers,      \* requests that may run at once
    MaxVersion,   \* bound on the versions of an entity
    None

ASSUME AfterSalesAssumption ==
    /\ Agencies # {}    \* OnboardingService.onboard creates the first
    /\ SoldBy \in [Tickets -> Agencies \cup {None}]
    /\ None \notin Agencies \cup Registers \cup Refunds \cup Vouchers \cup Tickets
    /\ Tickets \cap Refunds = {} /\ Tickets \cap Vouchers = {} /\ Refunds \cap Vouchers = {}
    /\ MaxVersion \in Nat

VARIABLES
    row,       \* row[e]: status and version of the entity e
    claim,     \* claim[f]: ticketId of the refund f
    origin,    \* origin[v]: the rejected refund the voucher v makes up for, or None
    usedOn,    \* usedOn[v]: redeemedOnTicketId
    register,  \* register[g]: agency and status of the virtual register g
    books,     \* books[x][g]: Transaction rows with externalRef x on the register g
    agencies,  \* agencies that still exist
    fallback,  \* TenantBusinessConfig.voucherFallbackOnRejectEnabled
    pc, job    \* requests: step, and what they carry from await to await

tables == <<row, claim, origin, usedOn>>
cash == <<register, books, agencies>>
vars == <<row, claim, origin, usedOn, register, books, agencies, fallback, pc, job>>

Entities == Tickets \cup Refunds \cup Vouchers

\* externalRef of a booking: refund:<id>, or voucher:<id>:ticket:<id>.
Refs == {<<f>> : f \in Refunds} \cup (Vouchers \X Tickets)

NoRows == [g \in Registers |-> 0]
OneRow == {[NoRows EXCEPT ![g] = 1] : g \in Registers}
Booked(x) == books[x] # NoRows
BookedOnce(x) == books[x] \in OneRow

\* WorkflowConfig rows <<from, action, to>> of the transitions people drive here; the
\* states of a ticket, of a refund and of a voucher differ, so one table serves all.
Edges == {
    <<"CONFIRMED", "CANCEL", "CANCELLED">>,
    <<"PENDING", "approve", "APPROVED">>, <<"PENDING", "reject", "REJECTED">>,
    <<"APPROVED", "process", "PROCESSED">>, <<"APPROVED", "reject", "REJECTED">>,
    <<"ISSUED", "REDEEM", "REDEEMED">>, <<"REDEEMED", "RESTORE", "ISSUED">>,
    <<"ISSUED", "CANCEL", "CANCELLED">>}

Statuses == {"absent"} \cup {x[1] : x \in Edges} \cup {x[3] : x \in Edges}

Steps == {"idle", "tx", "restore", "commit", "refund", "fallback", "remove"}

NoJob == [do |-> None, ent |-> None, was |-> "absent", ver |-> 0, on |-> None, reg |-> None,
          agency |-> None, vver |-> 0]

Goto(w, step, j) == /\ pc' = [pc EXCEPT ![w] = step]
                    /\ job' = [job EXCEPT ![w] = j]
Finish(w) == Goto(w, "idle", NoJob)

-----------------------------------------------------------------------------
(* The engine, as its callers see it *)

\* The caller has read entity e and asks for action a on that snapshot.
Read(w, e, a, j) ==
    /\ pc[w] = "idle"
    /\ \E x \in Edges : x[1] = row[e].status /\ x[2] = a
    /\ row[e].ver < MaxVersion
    /\ Goto(w, "tx", [j EXCEPT !.do = a, !.ent = e, !.was = row[e].status, !.ver = row[e].ver])

\* Slip: the version is not compared with the snapshot's.
LocksAnyVersion(w, e, ver) ==
    \A u \in Workers \ {w} : pc[u] \in {"restore", "commit"} => job[u].ent # e

\* FOR UPDATE NOWAIT: nobody holds the row, and it is still the snapshot.
Locks(w, e, ver) ==
    /\ row[e].ver = ver
    /\ \A u \in Workers \ {w} : pc[u] \in {"restore", "commit"} => job[u].ent # e

\* Slip: the verb is stored for the state.
MoveVerb(e, s, a) == row' = [row EXCEPT ![e] = [status |-> a, ver |-> @.ver + 1]]

\* The row of e after action a on a snapshot of status s.
Move(e, s, a) ==
    \E x \in Edges : /\ x[1] = s /\ x[2] = a
                     /\ row' = [row EXCEPT ![e] = [status |-> x[3], ver |-> @.ver + 1]]

-----------------------------------------------------------------------------
(* Virtual registers and bookings *)

\* The agency a movement about ticket t is booked on, resolved before the transaction:
\* the seller's, else any agency of the tenant, else none.
AgencyOf(t) == IF SoldBy[t] # None THEN {SoldBy[t]}
               ELSE IF agencies # {} THEN agencies ELSE {None}

Free(g) == /\ register[g].status = "absent"
           /\ \A u \in Workers : job[u].reg # g

\* getOrCreateVirtualRegister + the status check of recordTransaction: a register of
\* the agency, which must be open, or a new one if the agency has none and exists.
RegisterFor(a) ==
    LET own == {g \in Registers : register[g].status # "absent" /\ register[g].agency = a} IN
    IF own # {} THEN {g \in own : register[g].status = "OPEN"}
    ELSE {g \in Registers : a \in agencies /\ Free(g)}

\* Slip: the row goes in without a look for its externalRef.
BookAgain(ref, g, a) ==
    /\ register[g].status = "absent" => a \in agencies
    /\ register' = [register EXCEPT ![g] =
         IF @.status = "absent" THEN [agency |-> a, status |-> "OPEN"] ELSE @]
    /\ books' = [books EXCEPT ![ref][g] = @ + 1]

\* recordTransaction in the transaction of the transition: a known externalRef is
\* answered with its row.  The foreign keys fail if the agency is gone by now.
Book(ref, g, a) ==
    /\ register[g].status = "absent" => a \in agencies
    /\ register' = [register EXCEPT ![g] =
         IF @.status = "absent" THEN [agency |-> a, status |-> "OPEN"] ELSE @]
    /\ books' = [books EXCEPT ![ref] = IF @ = NoRows THEN [NoRows EXCEPT ![g] = 1] ELSE @]

\* The blueprint of the CashRegister.  closeRegister closes any register, the virtual ones
\* too, resolveDiscrepancy resolves; only the dispatch endpoint opens one again.
RegisterEdges == {
    <<"OPEN", "close", "CLOSED">>, <<"OPEN", "flag", "DISCREPANCY">>,
    <<"DISCREPANCY", "resolve", "CLOSED">>, <<"CLOSED", "open", "OPEN">>}

MoveRegister(g) ==
    /\ \E x \in RegisterEdges : /\ x[1] = register[g].status
                               /\ register' = [register EXCEPT ![g].status = x[3]]
    /\ UNCHANGED <<tables, books, agencies, fallback, pc, job>>

\* AgencyService.remove: the count is read before the transaction, which deletes the
\* agency, its virtual registers and every row booked on them.
RemoveCheck(w) ==
    /\ pc[w] = "idle"
    /\ \E a, b \in agencies : a # b /\ Goto(w, "remove", [NoJob EXCEPT !.ent = a])
    /\ UNCHANGED <<tables, cash, fallback>>

RemoveAgency(w) ==
    /\ pc[w] = "remove"
    /\ LET a == job[w].ent
           gone == {g \in Registers : register[g].agency = a} IN
         /\ a \in agencies
         /\ agencies' = agencies \ {a}
         /\ register' = [g \in Registers |->
              IF g \in gone THEN [agency |-> None, status |-> "absent"] ELSE register[g]]
         /\ books' = [x \in Refs |-> [g \in Registers |-> IF g \in gone THEN 0 ELSE books[x][g]]]
    /\ Finish(w)
    /\ UNCHANGED <<tables, fallback>>

-----------------------------------------------------------------------------
Init ==
    /\ row = [e \in Entities |->
                [status |-> IF e \in Tickets THEN "CONFIRMED" ELSE "absent", ver |-> 0]]
    /\ claim = [f \in Refunds |-> None]
    /\ origin = [v \in Vouchers |-> None]
    /\ usedOn = [v \in Vouchers |-> None]
    /\ register = [g \in Registers |-> [agency |-> None, status |-> "absent"]]
    /\ books = [x \in Refs |-> NoRows]
    /\ agencies = Agencies
    /\ fallback \in BOOLEAN
    /\ pc = [w \in Workers |-> "idle"]
    /\ job = [w \in Workers |-> NoJob]

-----------------------------------------------------------------------------
(* Refunds: createRefund, and the decisions on one *)

Fresh(e) == row[e].status = "absent"

\* createRefund: one row PENDING, with its event, in a transaction of its own.
Create(f, t) ==
    /\ Fresh(f)
    /\ row' = [row EXCEPT ![f] = [status |-> "PENDING", ver |-> 1]]
    /\ claim' = [claim EXCEPT ![f] = t]

\* VoucherService.issue.
Issue(v, f) ==
    /\ Fresh(v)
    /\ row' = [row EXCEPT ![v] = [status |-> "ISSUED", ver |-> 1]]
    /\ origin' = [origin EXCEPT ![v] = f]

Decide(w, f, a) ==
    /\ claim[f] # None
    /\ \/ a \in {"approve", "reject"} /\ Read(w, f, a, NoJob)
       \/ /\ a = "process"
          /\ \E b \in AgencyOf(claim[f]) : Read(w, f, a, [NoJob EXCEPT !.agency = b])
    /\ UNCHANGED <<tables, cash, fallback>>

\* approve; reject goes on with the fallback voucher when the tenant has one.
CommitDecision(w) ==
    /\ pc[w] = "tx" /\ job[w].do \in {"approve", "reject"}
    /\ LET j == job[w] IN
         /\ Locks(w, j.ent, j.ver)
         /\ Move(j.ent, j.was, j.do)
         /\ IF j.do = "reject" /\ fallback THEN Goto(w, "fallback", j) ELSE Finish(w)
    /\ UNCHANGED <<claim, origin, usedOn, cash, fallback>>

Fallback(w) ==
    /\ pc[w] = "fallback"
    /\ \E v \in Vouchers : Issue(v, job[w].ent)
    /\ Finish(w)
    /\ UNCHANGED <<claim, usedOn, cash, fallback>>

\* Slip: the booking is made on the pool: it stays when the transition fails.
BeginBooks(w) ==
    /\ pc[w] = "tx" /\ job[w].do = "process"
    /\ LET j == job[w] IN
         /\ Locks(w, j.ent, j.ver)
         /\ \E g \in RegisterFor(j.agency) :
              /\ Book(<<j.ent>>, g, j.agency)
              /\ Goto(w, "commit", [j EXCEPT !.reg = g])
    /\ UNCHANGED <<tables, agencies, fallback>>

\* process and redeem: the transaction has the row and has read an open register.
Begin(w) ==
    /\ pc[w] = "tx" /\ job[w].do \in {"process", "REDEEM"}
    /\ LET j == job[w] IN
         /\ Locks(w, j.ent, j.ver)
         /\ \/ j.agency # None /\ \E g \in RegisterFor(j.agency) :
                                     Goto(w, "commit", [j EXCEPT !.reg = g])
            \/ j.agency = None /\ Goto(w, "commit", j)
    /\ UNCHANGED <<tables, cash, fallback>>

\* The status and the booking become visible together; without any agency there is
\* no booking.  (The payout that follows finds no providerKey and marks the booking.)
CommitProcess(w) ==
    /\ pc[w] = "commit" /\ job[w].do = "process"
    /\ LET j == job[w] IN
         /\ Move(j.ent, j.was, j.do)
         /\ IF j.reg = None THEN UNCHANGED <<register, books>>
            ELSE Book(<<j.ent>>, j.reg, j.agency)
    /\ Finish(w)
    /\ UNCHANGED <<claim, origin, usedOn, agencies, fallback>>

-----------------------------------------------------------------------------
(* Vouchers *)

\* A promotion or a gesture of the staff.
IssueVoucher == /\ \E v \in Vouchers : Issue(v, None)
                /\ UNCHANGED <<claim, usedOn, cash, fallback, pc, job>>

\* redeem looks at the voucher, and at whose ticket it is, not at the ticket's status.
Redeem(w, v, t) ==
    /\ \E a \in AgencyOf(t) : Read(w, v, "REDEEM", [NoJob EXCEPT !.on = t, !.agency = a])
    /\ UNCHANGED <<tables, cash, fallback>>

CommitRedeem(w) ==
    /\ pc[w] = "commit" /\ job[w].do = "REDEEM"
    /\ LET j == job[w] IN
         /\ Move(j.ent, j.was, j.do)
         /\ usedOn' = [usedOn EXCEPT ![j.ent] = j.on]
         /\ IF j.reg = None THEN UNCHANGED <<register, books>>
            ELSE Book(<<j.ent, j.on>>, j.reg, j.agency)
    /\ Finish(w)
    /\ UNCHANGED <<claim, origin, agencies, fallback>>

CancelVoucher(w, v) == Read(w, v, "CANCEL", NoJob) /\ UNCHANGED <<tables, cash, fallback>>

CommitVoucher(w) ==
    /\ pc[w] = "tx" /\ job[w].do = "CANCEL" /\ job[w].ent \in Vouchers
    /\ LET j == job[w] IN Locks(w, j.ent, j.ver) /\ Move(j.ent, j.was, j.do)
    /\ Finish(w)
    /\ UNCHANGED <<claim, origin, usedOn, cash, fallback>>

-----------------------------------------------------------------------------
(* Cancelling a ticket *)

Linked(t) == {v \in Vouchers : row[v].status = "REDEEMED" /\ usedOn[v] = t}

\* cancel reads the ticket and one voucher redeemed on it.
CancelTicket(w, t) ==
    /\ IF Linked(t) = {} THEN Read(w, t, "CANCEL", NoJob)
       ELSE \E v \in Linked(t) : Read(w, t, "CANCEL", [NoJob EXCEPT !.on = v, !.vver = row[v].ver])
    /\ UNCHANGED <<tables, cash, fallback>>

\* The transaction of the ticket is open; the RESTORE of the voucher comes first.
BeginCancel(w) ==
    /\ pc[w] = "tx" /\ job[w].do = "CANCEL" /\ job[w].ent \in Tickets
    /\ Locks(w, job[w].ent, job[w].ver)
    /\ Goto(w, IF job[w].on = None THEN "commit" ELSE "restore", job[w])
    /\ UNCHANGED <<tables, cash, fallback>>

\* RESTORE is a transition of its own: the engine opens and commits another transaction.
Restore(w) ==
    /\ pc[w] = "restore"
    /\ LET v == job[w].on IN
         /\ Locks(w, v, job[w].vver)
         /\ Move(v, "REDEEMED", "RESTORE")
         /\ usedOn' = [usedOn EXCEPT ![v] = None]
    /\ Goto(w, "commit", job[w])
    /\ UNCHANGED <<claim, origin, cash, fallback>>

CommitCancel(w) ==
    /\ pc[w] = "commit" /\ job[w].ent \in Tickets
    /\ Move(job[w].ent, job[w].was, "CANCEL")
    /\ Goto(w, "refund", [NoJob EXCEPT !.on = job[w].ent])
    /\ UNCHANGED <<claim, origin, usedOn, cash, fallback>>

\* requestCancellation of the portal: a refund, and the ticket stays as it is.
PortalCancel(w, t) ==
    /\ pc[w] = "idle" /\ row[t].status = "CONFIRMED"
    /\ Goto(w, "refund", [NoJob EXCEPT !.on = t])
    /\ UNCHANGED <<tables, cash, fallback>>

CreateRefund(w) ==
    /\ pc[w] = "refund"
    /\ \E f \in Refunds : Create(f, job[w].on)
    /\ Finish(w)
    /\ UNCHANGED <<origin, usedOn, cash, fallback>>

\* A request ends at any await: refused, in conflict, timed out, or its pod died.
\* PostgreSQL rolls back the transaction it was in.
Fail(w) ==
    /\ pc[w] # "idle"
    /\ Finish(w)
    /\ UNCHANGED <<tables, cash, fallback>>

Next ==
    \/ \E w \in Workers :
         \/ \E f \in Refunds, a \in {"approve", "reject", "process"} : Decide(w, f, a)
         \/ \E v \in Vouchers, t \in Tickets : Redeem(w, v, t)
         \/ \E v \in Vouchers : CancelVoucher(w, v)
         \/ \E t \in Tickets : CancelTicket(w, t) \/ PortalCancel(w, t)
         \/ CommitDecision(w) \/ Fallback(w) \/ Begin(w) \/ CommitProcess(w)
         \/ CommitRedeem(w) \/ CommitVoucher(w)
         \/ BeginCancel(w) \/ Restore(w) \/ CommitCancel(w) \/ CreateRefund(w)
         \/ RemoveCheck(w) \/ RemoveAgency(w) \/ Fail(w)
    \/ \E g \in Registers : MoveRegister(g)
    \/ IssueVoucher

Spec == Init /\ [][Next]_vars

-----------------------------------------------------------------------------
\* Type correctness of the tables and of the requests in flight.
TypeOK ==
    /\ row \in [Entities -> [status : Statuses, ver : Nat]]
    /\ claim \in [Refunds -> Tickets \cup {None}]
    /\ origin \in [Vouchers -> Refunds \cup {None}]
    /\ usedOn \in [Vouchers -> Tickets \cup {None}]
    /\ register \in [Registers -> [agency : Agencies \cup {None},
                                   status : {"absent", "OPEN", "CLOSED", "DISCREPANCY"}]]
    /\ books \in [Refs -> [Registers -> Nat]]
    /\ agencies \subseteq Agencies
    /\ fallback \in BOOLEAN
    /\ pc \in [Workers -> Steps]

\* Money of a refund leaves the books exactly when the refund is PROCESSED and exactly
\* once, however many requests process or reject it and wherever they die; as long as
\* no agency was deleted with its bookings (RefundService.transition, persist).
RefundBookedOnce ==
    \A f \in Refunds :
        /\ Booked(<<f>>) => row[f].status = "PROCESSED" /\ BookedOnce(<<f>>)
        /\ row[f].status = "PROCESSED" /\ agencies = Agencies => Booked(<<f>>)

\* A passenger gets the money of a refund or the voucher of its rejection, never both,
\* and one voucher at most (reject, maybeIssueFallbackVoucher against process).
PaidOrVoucher ==
    \A v \in Vouchers : origin[v] # None =>
        /\ row[origin[v]].status = "REJECTED" /\ ~Booked(<<origin[v]>>)
        /\ \A u \in Vouchers : origin[u] = origin[v] => u = v

\* A voucher in use has exactly one booking for its ticket, also when it was restored
\* by a cancellation that failed and redeemed on the same ticket again.
RedeemedIsBooked ==
    \A v \in Vouchers : row[v].status = "REDEEMED" =>
        /\ usedOn[v] # None
        /\ agencies = Agencies => BookedOnce(<<v, usedOn[v]>>)

\* Whatever interleaves, a row changes by one transition of the blueprint at a time, from
\* the state it really had: a decision or a restoration that was prepared on an old
\* snapshot never takes a refund or a voucher out of where another request put it.
BlueprintRespected ==
    [][\A e \in Entities : row'[e] # row[e] =>
         \/ Fresh(e) /\ row'[e].ver = 1
         \/ /\ row'[e].ver = row[e].ver + 1
            /\ \E x \in Edges : x[1] = row[e].status /\ x[3] = row'[e].status]_vars

-----------------------------------------------------------------------------
(* What makes the three properties inductive: what a request knows between awaits. *)

Jobs == [do : {None} \cup {x[2] : x \in Edges}, ent : Entities \cup Agencies \cup {None},
         was : Statuses, ver : Nat, on : Tickets \cup Vouchers \cup {None},
         reg : Registers \cup {None}, agency : Agencies \cup {None}, vver : Nat]

Holds(w) == pc[w] \in {"restore", "commit"}

\* The request is for a transition the blueprint has, on an entity of the right kind;
\* it goes without an agency only when some were deleted.
Request(j) ==
    /\ \E x \in Edges : x[1] = j.was /\ x[2] = j.do
    /\ \/ j.do \in {"approve", "reject"} /\ j.ent \in Refunds
       \/ j.do = "process" /\ j.ent \in Refunds
       \/ j.do = "REDEEM" /\ j.ent \in Vouchers /\ j.on \in Tickets
       \/ j.do = "CANCEL" /\ j.ent \in Vouchers
       \/ j.do = "CANCEL" /\ j.ent \in Tickets /\ j.on \in Vouchers \cup {None}

\* A snapshot may be out of date; if its version is not, nor is its status.
Snapshot(j) ==
    /\ Request(j)
    /\ j.ver <= row[j.ent].ver
    /\ j.ver = row[j.ent].ver => j.was = row[j.ent].status
    /\ j.do \in {"process", "REDEEM"} /\ j.agency = None => agencies # Agencies

\* The row is locked: it still is what was read.
Holding(j) ==
    /\ Request(j) /\ j.do \in {"process", "REDEEM", "CANCEL"}
    /\ row[j.ent] = [status |-> j.was, ver |-> j.ver]
    /\ j.do \in {"process", "REDEEM"} /\ j.reg = None => agencies # Agencies

KnowsItsRow(w) ==
    LET j == job[w] IN
    /\ pc[w] = "tx" => Snapshot(j)
    /\ pc[w] = "restore" => Holding(j) /\ j.ent \in Tickets /\ j.on \in Vouchers
    /\ pc[w] = "commit" => Holding(j)
    /\ pc[w] = "refund" => j.on \in Tickets
    /\ pc[w] = "fallback" => /\ j.ent \in Refunds /\ row[j.ent].status = "REJECTED"
                             /\ \A v \in Vouchers : origin[v] # j.ent

\* One request at a time has a row, and one owes the voucher of a rejection.
Exclusive ==
    \A u, w \in Workers : u # w =>
        /\ Holds(u) /\ Holds(w) => job[u].ent # job[w].ent
        /\ pc[u] = "fallback" /\ pc[w] = "fallback" => job[u].ent # job[w].ent

Unborn == \A e \in Entities : row[e].status = "absent" => row[e].ver = 0

OneRowPerRef == \A x \in Refs : Booked(x) => BookedOnce(x)

IInv ==
    /\ TypeOK
    /\ job \in [Workers -> Jobs]
    /\ Unborn /\ Exclusive /\ OneRowPerRef
    /\ \A w \in Workers : KnowsItsRow(w)
    /\ RefundBookedOnce /\ PaidOrVoucher /\ RedeemedIsBooked

\* A ticket that is being cancelled remembers the version its voucher had when it was in use.
VoucherSeen(w) ==
    LET j == job[w] IN
    pc[w] \in {"tx", "restore"} /\ j.ent \in Tickets /\ j.on # None =>
        /\ j.vver <= row[j.on].ver
        /\ j.vver = row[j.on].ver => row[j.on].status = "REDEEMED"

WalkInv == IInv /\ \A w \in Workers : VoucherSeen(w)

\* A voucher that was not issued yet makes up for nothing.
Unissued == \A v \in Vouchers : Fresh(v) => origin[v] = None

-----------------------------------------------------------------------------
(* The promise to the passenger. *)

Promise == INSTANCE Settlement WITH fate <- [f \in Refunds |-> row[f].status],
               paid <- [f \in Refunds |-> Booked(<<f>>)],
               madeUp <- [f \in Refunds |-> {v \in Vouchers : origin[v] = f}],
               purged <- agencies # Agencies

\* However requests interleave and wherever they die, each of their steps is one step in
\* the settlement of one refund or none: what was decided, paid or made up for stays so.
ImplementsSettlement == Promise!SSpec
=============================================================================
