----------------------------- MODULE Ticketing -----------------------------
(***************************************************************************)
(* Tickets of the numbered trips of one route: the counter (issue,         *)
(* issueBatch, confirm, confirmBatch, validate, cancel, markNoShow, rebook, *)
(* refund of a missed trip), the portal (createBooking and                 *)
(* requestCancellation) and the unified endpoint                           *)
(* (WorkflowDispatchService), all at the same time.  What a trip has for   *)
(* sale is fixed: TripService.update, which may give a planned or open     *)
(* trip another bus without a look at its tickets, is left out.            *)
(*                                                                         *)
(* A transition of the engine is one step here, on a snapshot read before: *)
(* WorkflowEngineProofs!Implements shows that it behaves like one.  A      *)
(* request is the sequence of its awaits; it may die between any two.      *)
(* The clock is the departure times' unit; passengers have distinct names. *)
(***************************************************************************)
EXTENDS Integers, FiniteSets

CONSTANTS
    Rows,         \* identifiers of tickets rows
    Trips, Passengers,
    Seats,        \* seats of the bus, the same for every trip
    Workers,      \* requests that may run at once
    Permitted,    \* actions the roles of the tenant have the permission for
    Bookable,     \* trips whose status lets the portal sell (PLANNED, OPEN, BOARDING)
    MaxSeatsOpen, \* [Trips -> Nat]: Trip.maxSeatsOpen
    Departure,    \* [Trips -> Nat]: Trip.departureScheduled
    PayTtl,       \* PENDING_PAYMENT_TTL_MS
    Grace,        \* noShowGraceMinutes
    TicketTtl,    \* ticketTtlHours
    MaxClock,     \* bound on the clock
    MaxKeyed,     \* bound on the batches confirmed with a key
    MaxReceipts,  \* bound on the receipts
    MaxAsked,     \* bound: with as many refunds of one ticket, nobody asks the portal any more
    None

ASSUME TicketingAssumption ==
    /\ IsFiniteSet(Rows) /\ IsFiniteSet(Seats) /\ Bookable \subseteq Trips
    /\ MaxSeatsOpen \in [Trips -> Nat] /\ Departure \in [Trips -> Nat]
    /\ PayTtl \in Nat /\ Grace \in Nat /\ TicketTtl \in Nat /\ MaxClock \in Nat
    /\ MaxKeyed \in Nat /\ MaxReceipts \in Nat /\ MaxAsked \in Nat
    /\ None \notin Trips \cup Seats \cup Passengers \cup Workers \cup Rows
    /\ None \notin {"counter", "portal", "rebook"}

VARIABLES
    ticket,    \* ticket[r]: the row
    lock,      \* lock[t]: request whose transaction holds FOR UPDATE on trip t
    clock,
    refunds,   \* refunds[r]: Refund rows that TicketingService opened for ticket r
    asked,     \* asked[r]: those that requestCancellation of the portal opened for it
    receipts,  \* receipts[b]: status of the receipt (Invoice) of the batch b of tickets
    keys,      \* idempotency keys of confirmBatch that drove a transition
    pc, job    \* requests: step, and what they carry from await to await

vars == <<ticket, lock, clock, refunds, asked, receipts, keys, pc, job>>

(* Blueprint of the Ticket: WorkflowConfig rows (from, action, to).  REBOOK stands
   for REBOOK_NEXT_AVAILABLE and REBOOK_LATER, which have the same rows. *)
Edges == {
    <<"PENDING_PAYMENT", "PAY", "CONFIRMED">>, <<"PENDING_PAYMENT", "EXPIRE", "EXPIRED">>,
    <<"PENDING_PAYMENT", "CANCEL", "CANCELLED">>, <<"CONFIRMED", "CANCEL", "CANCELLED">>,
    <<"CONFIRMED", "CHECK_IN", "CHECKED_IN">>, <<"CONFIRMED", "BOARD", "BOARDED">>,
    <<"CHECKED_IN", "BOARD", "BOARDED">>, <<"BOARDED", "FINALIZE", "COMPLETED">>,
    <<"CONFIRMED", "REFUND", "REFUND_PENDING">>,
    <<"REFUND_PENDING", "approve", "REFUND_PROCESSING">>,
    <<"REFUND_PROCESSING", "process", "REFUNDED">>,
    <<"REFUND_PROCESSING", "fail", "REFUND_FAILED">>,
    <<"CONFIRMED", "MISS_BOARDING", "NO_SHOW">>, <<"CHECKED_IN", "MISS_BOARDING", "NO_SHOW">>,
    <<"NO_SHOW", "MARK_LATE_ARRIVED", "LATE_ARRIVED">>,
    <<"CONFIRMED", "REBOOK", "REBOOKED">>, <<"NO_SHOW", "REBOOK", "REBOOKED">>,
    <<"LATE_ARRIVED", "REBOOK", "REBOOKED">>,
    <<"NO_SHOW", "REQUEST_REFUND", "REFUND_PENDING">>,
    <<"LATE_ARRIVED", "REQUEST_REFUND", "REFUND_PENDING">>,
    <<"NO_SHOW", "FORFEIT", "FORFEITED">>, <<"LATE_ARRIVED", "FORFEIT", "FORFEITED">>}

Statuses == {"absent"} \cup {e[1] : e \in Edges} \cup {e[3] : e \in Edges}
Verbs == {e[2] : e \in Edges}

Batches == (SUBSET Rows) \ {{}}

NoTicket == [status |-> "absent", trip |-> None, seat |-> None, who |-> None,
             version |-> 0, expires |-> 0, sale |-> None, via |-> None]

Sold == [status : Statuses, trip : Trips, seat : Seats \cup {None}, who : Passengers,
         version : Nat, expires : Nat, sale : Rows, via : {"counter", "portal", "rebook"}]
Tickets == {NoTicket} \cup Sold
Claims == [row : Rows, who : Passengers, seat : Seats]

\* The awaits a request can be at.
Steps == {"idle", "insert", "book", "bookPay", "pay", "payTx", "receipt", "tx",
          "refund", "create", "ask"}

\* Nothing carried: the request is idle.
NoJob == [do |-> None, row |-> None, was |-> "absent", ver |-> 0, trip |-> None,
          claims |-> {}, expires |-> 0, batch |-> {}, left |-> {}, keyed |-> FALSE,
          then |-> "idle"]

Jobs == [do : Verbs \cup {None}, row : Rows \cup {None}, was : Statuses, ver : Nat,
         trip : Trips \cup {None}, claims : SUBSET Claims, expires : Nat,
         batch : SUBSET Rows, left : SUBSET Rows, keyed : BOOLEAN, then : Steps]

-----------------------------------------------------------------------------
\* What the counter counts on a trip.
Active(t) == {r \in Rows : ticket[r].status \notin {"absent", "CANCELLED", "EXPIRED"}
                           /\ ticket[r].trip = t}

\* The portal leaves out tickets whose payment window is over.
PortalActive(t) ==
    {r \in Active(t) : ~(ticket[r].status = "PENDING_PAYMENT" /\ ticket[r].expires <= clock)}

\* countAvailableSeats: neither unpaid tickets nor maxSeatsOpen, and bus.capacity.
AvailableSeats(t) ==
    Cardinality(Seats) -
    Cardinality({r \in Active(t) : ticket[r].status \in {"CONFIRMED", "CHECKED_IN", "BOARDED"}})

\* A row identifier nobody uses (the uuid of a new ticket).
FreshRow(r) == /\ ticket[r].status = "absent"
               /\ \A w \in Workers : \A c \in job[w].claims : c.row # r

\* One new row, passenger and seat for each passenger of a request; the seat is one
\* the passenger chose or the next free one: any free seat.
ClaimSets(taken, names) ==
    {cs \in SUBSET {c \in Claims : FreshRow(c.row) /\ c.seat \notin taken /\ c.who \notin names} :
        /\ cs # {}
        /\ \A c, d \in cs : c.row = d.row \/ c.who = d.who \/ c.seat = d.seat => c = d}

SeatsOf(rs) == {ticket[r].seat : r \in rs} \ {None}
NamesOf(rs) == {ticket[r].who : r \in rs}

\* The rows of a batch, PENDING_PAYMENT, as both channels create them.
Insert(w, via) ==
    ticket' = [r \in Rows |->
        IF \E c \in job[w].claims : c.row = r
        THEN LET c == CHOOSE c \in job[w].claims : c.row = r IN
             [status |-> "PENDING_PAYMENT", trip |-> job[w].trip, seat |-> c.seat, who |-> c.who,
              version |-> 0, expires |-> job[w].expires, sale |-> r, via |-> via]
        ELSE ticket[r]]

Goto(w, step, j) ==
    /\ pc' = [pc EXCEPT ![w] = step]
    /\ job' = [job EXCEPT ![w] = j]

Finish(w) == Goto(w, "idle", NoJob)

Unlock(w) == [t \in Trips |-> IF lock[t] = w THEN None ELSE lock[t]]

Init ==
    /\ ticket = [r \in Rows |-> NoTicket]
    /\ lock = [t \in Trips |-> None]
    /\ clock = 0
    /\ refunds = [r \in Rows |-> 0]
    /\ asked = [r \in Rows |-> 0]
    /\ receipts = [b \in Batches |-> "absent"]
    /\ keys = {}
    /\ pc = [w \in Workers |-> "idle"]
    /\ job = [w \in Workers |-> NoJob]

Tick == /\ clock < MaxClock
        /\ clock' = clock + 1
        /\ UNCHANGED <<ticket, lock, refunds, asked, receipts, keys, pc, job>>

-----------------------------------------------------------------------------
(* issue and issueBatch: one transaction under the lock of the trip *)

TotalSeats(t) ==
    IF MaxSeatsOpen[t] < Cardinality(Seats) THEN MaxSeatsOpen[t] ELSE Cardinality(Seats)

\* The guards of the transaction, with a given number of seats for sale: capacity,
\* duplicate passenger, free seats.  expiresAt is set before the transaction.
IssueWithin(w, t, total) ==
    \E cs \in ClaimSets(SeatsOf(Active(t)), NamesOf(Active(t))) :
        /\ Cardinality(Active(t)) + Cardinality(cs) <= total
        /\ Goto(w, "insert", [NoJob EXCEPT !.trip = t, !.claims = cs, !.expires = clock + PayTtl])

\* Slip: the trip is not locked.
IssueUnlocked(w) ==
    /\ pc[w] = "idle"
    /\ \E t \in Trips : IssueWithin(w, t, TotalSeats(t))
    /\ UNCHANGED <<ticket, lock, clock, refunds, asked, receipts, keys>>

\* Slip: one ticket too many.
IssueOver(w) ==
    /\ pc[w] = "idle"
    /\ \E t \in Trips :
         /\ lock[t] = None
         /\ lock' = [lock EXCEPT ![t] = w]
         /\ IssueWithin(w, t, TotalSeats(t) + 1)
    /\ UNCHANGED <<ticket, clock, refunds, asked, receipts, keys>>

(* FOR UPDATE on the trip, then the guards. *)
Issue(w) ==
    /\ pc[w] = "idle"
    /\ \E t \in Trips :
         /\ lock[t] = None
         /\ lock' = [lock EXCEPT ![t] = w]
         /\ IssueWithin(w, t, TotalSeats(t))
    /\ UNCHANGED <<ticket, clock, refunds, asked, receipts, keys>>

IssueCommit(w) ==
    /\ pc[w] = "insert"
    /\ Insert(w, "counter")
    /\ lock' = Unlock(w)
    /\ Finish(w)
    /\ UNCHANGED <<clock, refunds, asked, receipts, keys>>

-----------------------------------------------------------------------------
(* The portal: createBooking, one transaction without a lock, and the payment,
   which is not implemented yet: each ticket is set to CONFIRMED by its id. *)
PortalCheck(w) ==
    /\ pc[w] = "idle"
    /\ \E t \in Bookable :
       \E cs \in ClaimSets(SeatsOf(PortalActive(t)), NamesOf(PortalActive(t))) :
         /\ Cardinality(PortalActive(t)) + Cardinality(cs) <= Cardinality(Seats)
         /\ Goto(w, "book", [NoJob EXCEPT !.trip = t, !.claims = cs, !.expires = clock + PayTtl])
    /\ UNCHANGED <<ticket, lock, clock, refunds, asked, receipts, keys>>

PortalCommit(w) ==
    /\ pc[w] = "book"
    /\ Insert(w, "portal")
    /\ Goto(w, "bookPay", [NoJob EXCEPT !.left = {c.row : c \in job[w].claims}])
    /\ UNCHANGED <<lock, clock, refunds, asked, receipts, keys>>

PortalConfirm(w) ==
    /\ pc[w] = "bookPay"
    /\ \E r \in job[w].left :
         /\ ticket' = [ticket EXCEPT ![r].status = "CONFIRMED", ![r].version = @ + 1]
         /\ IF job[w].left = {r} THEN Finish(w)
            ELSE Goto(w, "bookPay", [job[w] EXCEPT !.left = @ \ {r}])
    /\ UNCHANGED <<lock, clock, refunds, asked, receipts, keys>>

-----------------------------------------------------------------------------
(* confirm and confirmBatch: the key of the request goes to every ticket of it *)

ConfirmBatch(w) ==
    /\ pc[w] = "idle"
    /\ \E rs \in SUBSET {r \in Rows : ticket[r].status # "absent"}, k \in BOOLEAN :
         /\ rs # {}
         /\ k => rs \in keys \/ Cardinality(keys) < MaxKeyed
         /\ Goto(w, "pay", [NoJob EXCEPT !.do = "PAY", !.batch = rs, !.left = rs, !.keyed = k])
    /\ UNCHANGED <<ticket, lock, clock, refunds, asked, receipts, keys>>

\* confirm: the snapshot, unless the payment window is over (an error).  Without a key
\* the engine refuses a ticket that does not wait for its payment.
PayRead(w) ==
    /\ pc[w] = "pay"
    /\ \E r \in job[w].left :
         /\ clock <= ticket[r].expires
         /\ job[w].keyed \/ ticket[r].status = "PENDING_PAYMENT"
         /\ Goto(w, "payTx", [job[w] EXCEPT !.row = r, !.was = ticket[r].status,
                                            !.ver = ticket[r].version])
    /\ UNCHANGED <<ticket, lock, clock, refunds, asked, receipts, keys>>

\* Slip: the action is stored as the state.
TransitionVerb(r, was, ver, a) ==
    /\ ver = ticket[r].version
    /\ \E e \in Edges : e[1] = was /\ e[2] = a
    /\ ticket' = [ticket EXCEPT ![r].status = a, ![r].version = @ + 1]

\* Slip: the version is not compared.
TransitionStale(r, was, ver, a) ==
    \E e \in Edges :
        /\ e[1] = was /\ e[2] = a
        /\ ticket' = [ticket EXCEPT ![r].status = e[3], ![r].version = @ + 1]

\* The engine applies action a to the snapshot (was, ver) of row r: an edge leaves the
\* snapshot and the version has not moved.
Transition(r, was, ver, a) ==
    /\ ver = ticket[r].version
    /\ \E e \in Edges :
         /\ e[1] = was /\ e[2] = a
         /\ ticket' = [ticket EXCEPT ![r].status = e[3], ![r].version = @ + 1]

\* A known key is answered without a transition; the loop goes on.
PayTx(w) ==
    /\ pc[w] = "payTx"
    /\ LET j == job[w] IN
         /\ \/ j.keyed /\ j.batch \in keys /\ UNCHANGED <<ticket, keys>>
            \/ /\ ~(j.keyed /\ j.batch \in keys)
               /\ Transition(j.row, j.was, j.ver, "PAY")
               /\ keys' = IF j.keyed THEN keys \cup {j.batch} ELSE keys
         /\ Goto(w, "pay", [j EXCEPT !.left = @ \ {j.row}, !.row = None, !.was = "absent",
                                     !.ver = 0])
    /\ UNCHANGED <<lock, clock, refunds, asked, receipts>>

\* Slip: the receipt does not wait for the last confirmation.
ReceiptEarly(w) ==
    /\ pc[w] = "pay"
    /\ receipts[job[w].batch] = "absent"
    /\ receipts' = [receipts EXCEPT ![job[w].batch] = "DRAFT"]
    /\ Goto(w, "receipt", [NoJob EXCEPT !.batch = job[w].batch])
    /\ UNCHANGED <<ticket, lock, clock, refunds, asked, keys>>

\* The receipt of the batch, when a register was found: created, then paid.  The code looks
\* for one and creates it in two statements, so that two requests at once may make two
\* receipts of a batch, each after its own loop; here the second finds the first.
Receipt(w) ==
    /\ pc[w] = "pay" /\ job[w].left = {}
    /\ IF receipts[job[w].batch] # "absent"
       THEN Finish(w) /\ UNCHANGED receipts
       ELSE /\ Cardinality({b \in Batches : receipts[b] # "absent"}) < MaxReceipts
            /\ receipts' = [receipts EXCEPT ![job[w].batch] = "DRAFT"]
            /\ Goto(w, "receipt", [NoJob EXCEPT !.batch = job[w].batch])
    /\ UNCHANGED <<ticket, lock, clock, refunds, asked, keys>>

ReceiptPaid(w) ==
    /\ pc[w] = "receipt"
    /\ receipts' = [receipts EXCEPT ![job[w].batch] = "PAID"]
    /\ Finish(w)
    /\ UNCHANGED <<ticket, lock, clock, refunds, asked, keys>>

-----------------------------------------------------------------------------
(* Operations on one ticket: read, checks, transition, and what follows it *)

\* The snapshot for action a, the step after the transition and the target trip.  When
\* no edge leaves the snapshot by a, or the actor lacks the permission of the edge, the
\* engine refuses and nothing happens.
Read(w, r, a, then, t) ==
    /\ pc[w] = "idle"
    /\ a \in Permitted
    /\ \E e \in Edges : e[1] = ticket[r].status /\ e[2] = a
    /\ Goto(w, "tx", [NoJob EXCEPT !.do = a, !.row = r, !.trip = t, !.then = then,
                                   !.was = ticket[r].status, !.ver = ticket[r].version])
    /\ UNCHANGED <<ticket, lock, clock, refunds, asked, receipts, keys>>

InTicketTtl(r) == clock <= Departure[ticket[r].trip] + TicketTtl

\* The QR of a rebooked ticket carries a temporary id, which findOne does not find.
Validate(w, r) ==
    /\ ticket[r].status \in {"CONFIRMED", "CHECKED_IN"} /\ ticket[r].via # "rebook"
    /\ Read(w, r, "BOARD", "idle", None)

Cancel(w, r) ==
    Read(w, r, "CANCEL",
         IF ticket[r].status \in {"CONFIRMED", "CHECKED_IN"} THEN "refund" ELSE "idle", None)

MarkNoShow(w, r) ==
    /\ clock >= Departure[ticket[r].trip] + Grace
    /\ Read(w, r, "MISS_BOARDING", "idle", None)

\* rebookNextAvailable and rebookLater: a later trip with seats, not locked.
Rebook(w, r) ==
    /\ InTicketTtl(r)
    /\ \E t \in Trips : /\ Departure[t] > clock /\ AvailableSeats(t) > 0
                        /\ Read(w, r, "REBOOK", "create", t)

RequestRefund(w, r) == InTicketTtl(r) /\ Read(w, r, "REQUEST_REFUND", "refund", None)

\* The unified endpoint: any edge, no check of its own, nothing after it.
Dispatch(w, r) == \E a \in Verbs : Read(w, r, a, "idle", None)

Tx(w) ==
    /\ pc[w] = "tx"
    /\ LET j == job[w] IN
         /\ Transition(j.row, j.was, j.ver, j.do)
         /\ IF j.then = "idle" THEN Finish(w) ELSE Goto(w, j.then, j)
    /\ UNCHANGED <<lock, clock, refunds, asked, receipts, keys>>

\* createRefund, in a transaction of its own.
RefundCreate(w) ==
    /\ pc[w] = "refund"
    /\ refunds' = [refunds EXCEPT ![job[w].row] = @ + 1]
    /\ Finish(w)
    /\ UNCHANGED <<ticket, lock, clock, asked, receipts, keys>>

\* The new ticket of a rebooking, in a statement of its own: no seat, no payment window.
RebookCreate(w) ==
    /\ pc[w] = "create"
    /\ \E r \in Rows :
         /\ FreshRow(r)
         /\ ticket' = [ticket EXCEPT ![r] =
                [ticket[job[w].row] EXCEPT !.status = "CONFIRMED", !.trip = job[w].trip,
                                           !.seat = None, !.version = 1,
                                           !.expires = MaxClock, !.via = "rebook"]]
    /\ Finish(w)
    /\ UNCHANGED <<lock, clock, refunds, asked, receipts, keys>>

-----------------------------------------------------------------------------
(* The portal again: requestCancellation of a passenger, for a ticket of any channel.  It
   opens a refund and makes no transition: the ticket still travels, and the passenger
   may ask again. *)
PortalCancel(w, r) ==
    /\ pc[w] = "idle"
    /\ ticket[r].status = "CONFIRMED"
    /\ \A q \in Rows : asked[q] < MaxAsked
    /\ Goto(w, "ask", [NoJob EXCEPT !.row = r])
    /\ UNCHANGED <<ticket, lock, clock, refunds, asked, receipts, keys>>

\* createPolicyBasedRefund, whatever the ticket is by now; the policy may refuse (Stops).
PortalRefund(w) ==
    /\ pc[w] = "ask"
    /\ asked' = [asked EXCEPT ![job[w].row] = @ + 1]
    /\ Finish(w)
    /\ UNCHANGED <<ticket, lock, clock, refunds, receipts, keys>>

-----------------------------------------------------------------------------
(* A request ends with an error or dies: what it committed stays, the transaction it
   was in is rolled back.  A refused check, a moved version, an unknown edge, a
   missing register or a crash end it this way. *)
Stops(w) ==
    /\ pc[w] # "idle"
    /\ lock' = Unlock(w)
    /\ Finish(w)
    /\ UNCHANGED <<ticket, clock, refunds, asked, receipts, keys>>

OnTicket(w, r) ==
    \/ Validate(w, r) \/ Cancel(w, r) \/ MarkNoShow(w, r)
    \/ Rebook(w, r) \/ RequestRefund(w, r) \/ Dispatch(w, r)

Next ==
    \/ Tick
    \/ \E w \in Workers :
         \/ Issue(w) \/ IssueCommit(w)
         \/ PortalCheck(w) \/ PortalCommit(w) \/ PortalConfirm(w)
         \/ ConfirmBatch(w) \/ PayRead(w) \/ PayTx(w) \/ Receipt(w) \/ ReceiptPaid(w)
         \/ \E r \in Rows : ticket[r].status # "absent" /\ OnTicket(w, r)
         \/ Tx(w) \/ RefundCreate(w) \/ RebookCreate(w)
         \/ (\E r \in Rows : PortalCancel(w, r)) \/ PortalRefund(w) \/ Stops(w)

Spec == Init /\ [][Next]_vars

-----------------------------------------------------------------------------
(* Properties *)

(* Every variable has its type; in particular the engine only stores states of
   the blueprint in a ticket, whatever the snapshot it started from. *)
TypeOK ==
    /\ ticket \in [Rows -> Tickets]
    /\ lock \in [Trips -> Workers \cup {None}]
    /\ clock \in 0..MaxClock
    /\ refunds \in [Rows -> Nat]
    /\ asked \in [Rows -> Nat]
    /\ receipts \in [Batches -> {"absent", "DRAFT", "PAID"}]
    /\ keys \subseteq Batches
    /\ pc \in [Workers -> Steps]
    /\ job \in [Workers -> Jobs]

OfCounter(t) == {r \in Active(t) : ticket[r].via = "counter"}

(* Whatever runs at the same time (other counters, the portal, cancellations), two
   active tickets the counter sold on a trip never have the same seat: what the
   FOR UPDATE of issue and issueBatch protects from the read to the insert. *)
CounterSeatsUnique ==
    \A t \in Trips : \A r, s \in OfCounter(t) : ticket[r].seat = ticket[s].seat => r = s

(* Concurrent sales of the counter never take a trip over the seats open for sale
   (maxSeatsOpen or the layout), batches included. *)
CounterWithinCapacity == \A t \in Trips : Cardinality(OfCounter(t)) <= TotalSeats(t)

\* The ticket of a sale and those it was rebooked to.
OfSale(s) == {r \in Rows : ticket[r].sale = s}

(* One sale of the counter gives at most one journey or one refund of TicketingService:
   cancel, boarding, rebooking and the refund of a missed trip may race on the same ticket,
   be retried, or be left half done, and still one of them at most takes effect.  Refunds
   opened elsewhere come on top and are not counted: requestCancellation (asked) looks
   neither at refunds nor at what becomes of the ticket; the incidents and the bulk refunds
   of a trip are those of TripIncident. *)
OneJourneyPerSale ==
    \A s \in Rows : ticket[s].via = "counter" =>
        LET Travels == {r \in OfSale(s) : ticket[r].status \in
                            {"CONFIRMED", "CHECKED_IN", "BOARDED", "COMPLETED"}}
            Refunded == {r \in OfSale(s) : refunds[r] > 0}
        IN  /\ Cardinality(Travels) + Cardinality(Refunded) <= 1
            /\ \A r \in OfSale(s) : refunds[r] <= 1

(* A receipt is PAID only when each ticket of its batch left PENDING_PAYMENT, whatever
   happened between the confirmations and however often the batch was retried.
   Only without a key: confirmBatch gives its key to every ticket, the engine answers
   from the second one on without a transition, and the receipt is made all the same. *)
ReceiptMeansPaid ==
    \A b \in Batches \ keys : receipts[b] = "PAID" =>
        \A r \in b : ticket[r].status # "PENDING_PAYMENT"

-----------------------------------------------------------------------------
(* What makes CounterSeatsUnique and CounterWithinCapacity inductive. *)

Live(r) == ticket[r].status # "absent"

\* The rows a request is about to insert.
ClaimedRows(w) == {c.row : c \in job[w].claims}

\* Between its guards and its insert a sale of the counter has the lock of the trip,
\* and its seats stay free and within the capacity as far as the counter sells them.
SaleSafe(w) ==
    LET j == job[w] IN
    /\ j.trip \in Trips /\ lock[j.trip] = w
    /\ \A c, d \in j.claims : c.row = d.row \/ c.seat = d.seat => c = d
    /\ \A r \in OfCounter(j.trip), c \in j.claims : ticket[r].seat # c.seat
    /\ Cardinality(OfCounter(j.trip)) + Cardinality(j.claims) <= TotalSeats(j.trip)

\* A snapshot of a row that exists is not ahead of it, and is it at equal versions.
SnapshotSafe(w) ==
    LET j == job[w] IN
    j.was # "absent" =>
        /\ j.row \in Rows /\ Live(j.row)
        /\ j.ver <= ticket[j.row].version
        /\ j.ver = ticket[j.row].version => j.was = ticket[j.row].status

\* What a request relies on at the step it is at.
Safe(w) ==
    /\ \A r \in ClaimedRows(w) : ~Live(r)
    /\ pc[w] \notin {"insert", "book"} => job[w].claims = {}
    /\ pc[w] = "insert" => SaleSafe(w)
    /\ pc[w] = "book" => job[w].trip \in Trips
    /\ pc[w] = "bookPay" => \A r \in job[w].left : Live(r) /\ ticket[r].via = "portal"
    /\ pc[w] \in {"pay", "payTx"} => job[w].batch # {}
    /\ pc[w] \in {"tx", "payTx"} => SnapshotSafe(w)
    /\ pc[w] = "tx" => /\ job[w].then \in {"idle", "refund", "create"}
                       /\ job[w].then = "create" => job[w].trip \in Trips
    /\ pc[w] = "create" => job[w].trip \in Trips /\ job[w].row \in Rows /\ Live(job[w].row)

\* Two requests never insert the same row.
RowsApart == \A w, u \in Workers : w # u => ClaimedRows(w) \cap ClaimedRows(u) = {}

IInv ==
    /\ TypeOK
    /\ \A w \in Workers : Safe(w)
    /\ RowsApart
    /\ CounterSeatsUnique /\ CounterWithinCapacity

(* Whatever interleaves, a ticket takes one transition of the blueprint at a time, from the
   state it really had: a late payment, boarding or rebooking on an old snapshot revives no
   ticket that has ended.  The portal confirms its own tickets by their id, whatever their
   state is (createBooking), so that they are not included. *)
BlueprintRespected ==
    [][\A r \in Rows : Live(r) /\ ticket[r].via # "portal" /\ ticket'[r] # ticket[r] =>
         /\ ticket'[r].version = ticket[r].version + 1
         /\ \E x \in Edges : x[1] = ticket[r].status /\ x[3] = ticket'[r].status]_vars

-----------------------------------------------------------------------------
(* What makes OneJourneyPerSale and ReceiptMeansPaid inductive, on top of IInv. *)

RefundStates ==
    {"CANCELLED", "REFUND_PENDING", "REFUND_PROCESSING", "REFUNDED", "REFUND_FAILED"}

\* A ticket belongs to a sale that exists, its own unless it comes from a rebooking.
SalesExist ==
    \A r \in Rows :
        /\ ~Live(r) => ticket[r] = NoTicket
        /\ Live(r) => Live(ticket[r].sale) /\ (ticket[r].via # "rebook" => ticket[r].sale = r)

\* All tickets of a sale but one at most have been rebooked.
OneTicketLeft ==
    \A s \in Rows : ticket[s].via = "counter" =>
        \A r, q \in OfSale(s) : "REBOOKED" \notin {ticket[r].status, ticket[q].status} => r = q

\* A refund of TicketingService is the end of a ticket; createBooking alone takes its own
\* tickets back from there.
RefundEnds ==
    \A r \in Rows :
        /\ ~Live(r) => refunds[r] = 0
        /\ Live(r) /\ ticket[r].via # "portal" =>
              refunds[r] <= 1 /\ (refunds[r] = 1 => ticket[r].status \in RefundStates)

\* What a request owes after its transition: the refund nobody made yet, or the ticket
\* that replaces the last one of the sale.
Owes(w) ==
    LET j == job[w] IN
    /\ pc[w] = "tx" => /\ j.then = "refund" => j.do \in {"CANCEL", "REQUEST_REFUND"}
                       /\ j.then = "create" => j.do = "REBOOK"
    /\ pc[w] = "refund" =>
          /\ j.row \in Rows /\ Live(j.row)
          /\ ticket[j.row].via # "portal" =>
                ticket[j.row].status \in RefundStates /\ refunds[j.row] = 0
    /\ pc[w] = "create" =>
          \A s \in Rows : ticket[s].via = "counter" /\ ticket[j.row].sale = s =>
              \A r \in OfSale(s) : ticket[r].status = "REBOOKED"

\* No two requests owe the same refund, or the ticket of the same sale.
OwedOnce ==
    \A u, w \in Workers : u # w =>
        /\ pc[u] = "refund" /\ pc[w] = "refund" /\ ticket[job[w].row].via # "portal" =>
              job[u].row # job[w].row
        /\ pc[u] = "create" /\ pc[w] = "create"
             /\ ticket[ticket[job[w].row].sale].via = "counter" =>
              ticket[job[u].row].sale # ticket[job[w].row].sale

JourneyInv == SalesExist /\ OneTicketLeft /\ RefundEnds /\ OwedOnce /\ \A w \in Workers : Owes(w)

\* The ticket waits for no payment any more.
Settled(r) == ticket[r].status \notin {"absent", "PENDING_PAYMENT"}

\* Without a known key, the loop of confirmBatch has paid what it has dealt with.
PaysFor(w) ==
    LET j == job[w] IN
    /\ pc[w] \in {"pay", "payTx"} /\ j.batch \notin keys =>
          \A r \in j.batch \ j.left : Settled(r)
    /\ pc[w] = "receipt" => j.batch # {} /\ receipts[j.batch] # "absent"

ReceiptInv ==
    /\ \A b \in Batches \ keys : receipts[b] # "absent" => \A r \in b : Settled(r)
    /\ \A w \in Workers : PaysFor(w)
=============================================================================
