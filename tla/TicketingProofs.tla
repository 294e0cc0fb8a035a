--------------------------- MODULE TicketingProofs ---------------------------
(***************************************************************************)
(* Proofs about the sale of seats that hold for every number of trips,     *)
(* seats, passengers and concurrent requests: type correctness, and that   *)
(* the counter sells a seat once and never more seats than are open.       *)
(***************************************************************************)
EXTENDS Ticketing, FiniteSetTheorems, TLAPS

Closed == {"CANCELLED", "EXPIRED"}

\* What the blueprint says of the states the arguments below speak of.
LEMMA EdgeFacts ==
    \A x \in Edges : /\ x[1] \in Statuses /\ x[3] \in Statuses /\ x[2] \in Verbs
                     /\ x[1] # "absent" /\ x[3] # "absent"
                     /\ x[1] \notin Closed
<1>1. \A x \in Edges : x[1] \in Statuses /\ x[3] \in Statuses /\ x[2] \in Verbs
  BY DEF Statuses, Verbs
<1>2. \A x \in Edges : x[1] # "absent" /\ x[3] # "absent" /\ x[1] \notin Closed
  BY DEF Edges, Closed
<1> QED BY <1>1, <1>2

\* The states and awaits the actions write out.
LEMMA Names ==
    /\ {"absent", "PENDING_PAYMENT", "CONFIRMED"} \subseteq Statuses
    /\ {"PAY", "BOARD", "CANCEL", "MISS_BOARDING", "REBOOK", "REQUEST_REFUND"} \subseteq Verbs
<1>1. /\ <<"PENDING_PAYMENT", "PAY", "CONFIRMED">> \in Edges
      /\ <<"CONFIRMED", "BOARD", "BOARDED">> \in Edges
      /\ <<"CONFIRMED", "CANCEL", "CANCELLED">> \in Edges
      /\ <<"CONFIRMED", "MISS_BOARDING", "NO_SHOW">> \in Edges
      /\ <<"CONFIRMED", "REBOOK", "REBOOKED">> \in Edges
      /\ <<"NO_SHOW", "REQUEST_REFUND", "REFUND_PENDING">> \in Edges
  BY DEF Edges
<1>2. "PENDING_PAYMENT" \in Statuses /\ "CONFIRMED" \in Statuses
  BY <1>1 DEF Statuses
<1>3. "absent" \in Statuses
  BY DEF Statuses
<1>4. {"PAY", "BOARD", "CANCEL", "MISS_BOARDING", "REBOOK", "REQUEST_REFUND"} \subseteq Verbs
  BY <1>1 DEF Verbs
<1> QED BY <1>2, <1>3, <1>4

\* A row that exists is a record of the table; one that does not is NoTicket.
LEMMA TicketFields ==
    ASSUME TypeOK, NEW r \in Rows
    PROVE  /\ ticket[r] \in Tickets
           /\ ticket[r].status \in Statuses /\ ticket[r].version \in Nat
           /\ Live(r) => ticket[r] \in Sold
<1>1. ticket[r] \in Tickets
  BY DEF TypeOK
<1>2. CASE ticket[r] = NoTicket
  BY <1>1, <1>2, Names DEF NoTicket, Live
<1>3. CASE ticket[r] \in Sold
  BY <1>1, <1>3 DEF Sold
<1> QED BY <1>1, <1>2, <1>3 DEF Tickets

\* An idle request carries nothing.
LEMMA NoJobType == NoJob \in Jobs
  BY Names DEF Jobs, NoJob, Steps

-----------------------------------------------------------------------------
(* What the step of a request does to the tables *)

Same(r) == /\ ticket'[r].trip = ticket[r].trip
           /\ ticket'[r].seat = ticket[r].seat
           /\ ticket'[r].via = ticket[r].via

\* Row r gets another status, along an edge unless the portal confirms a row of its own.
Moves(r) ==
    /\ Live(r) /\ ticket'[r].status # "absent" /\ Same(r)
    /\ ticket'[r].version = ticket[r].version + 1
    /\ \/ ticket[r].via = "portal"
       \/ \E x \in Edges : x[1] = ticket[r].status /\ x[3] = ticket'[r].status

\* Row r is created by request w.
Appears(w, r) ==
    /\ ~Live(r) /\ ticket'[r].status # "absent"
    /\ \A u \in Workers \ {w} : r \notin ClaimedRows(u)
    /\ ticket'[r].via = "counter" =>
         /\ pc[w] = "insert" /\ ticket'[r].trip = job[w].trip
         /\ \E c \in job[w].claims : c.row = r /\ ticket'[r].seat = c.seat

TicketStep(w, r) == ticket'[r] = ticket[r] \/ Moves(r) \/ Appears(w, r)

\* A step of request w creates or moves rows, and leaves the locks of the others alone.
Kept(w) ==
    /\ ticket' \in [Rows -> Tickets]
    /\ lock' \in [Trips -> Workers \cup {None}]
    /\ \A r \in Rows : TicketStep(w, r)
    /\ \A u \in Workers \ {w}, t \in Trips : lock[t] = u => lock'[t] = u

\* Taking a free lock, giving one's locks back.
LEMMA LockKept ==
    ASSUME TypeOK, NEW w \in Workers,
           \/ lock' = lock
           \/ lock' = Unlock(w)
           \/ \E t \in Trips : lock[t] = None /\ lock' = [lock EXCEPT ![t] = w]
    PROVE  /\ lock' \in [Trips -> Workers \cup {None}]
           /\ \A u \in Workers \ {w}, t \in Trips : lock[t] = u => lock'[t] = u
<1>1. lock \in [Trips -> Workers \cup {None}] /\ None \notin Workers
  BY TicketingAssumption DEF TypeOK
<1>2. CASE lock' = lock
  BY <1>1, <1>2
<1>3. CASE lock' = Unlock(w)
  BY <1>1, <1>3 DEF Unlock
<1>4. ASSUME NEW t \in Trips, lock[t] = None, lock' = [lock EXCEPT ![t] = w]
      PROVE  /\ lock' \in [Trips -> Workers \cup {None}]
             /\ \A u \in Workers \ {w}, v \in Trips : lock[v] = u => lock'[v] = u
  BY <1>1, <1>4
<1> QED BY <1>2, <1>3, <1>4

\* Most steps write no ticket.
LEMMA QuietKept ==
    ASSUME TypeOK, NEW w \in Workers, ticket' = ticket,
           \/ lock' = lock
           \/ lock' = Unlock(w)
           \/ \E t \in Trips : lock[t] = None /\ lock' = [lock EXCEPT ![t] = w]
    PROVE  Kept(w)
  BY LockKept DEF Kept, TicketStep, TypeOK

\* The rows of a batch are created as its request claimed them.
LEMMA InsertKept ==
    ASSUME IInv, NEW w \in Workers, NEW via \in {"counter", "portal"}, Insert(w, via),
           job[w].trip \in Trips, via = "counter" => pc[w] = "insert",
           lock' = lock \/ lock' = Unlock(w)
    PROVE  /\ Kept(w)
           /\ \A r \in ClaimedRows(w) : ticket'[r].via = via /\ ticket'[r].status # "absent"
           /\ \A r \in Rows \ ClaimedRows(w) : ticket'[r] = ticket[r]
<1>1. /\ TypeOK /\ job[w] \in Jobs /\ job[w].claims \subseteq Claims
      /\ \A r \in ClaimedRows(w) : ~Live(r)
  BY DEF IInv, TypeOK, Safe, Jobs
<1>2. ASSUME NEW r \in ClaimedRows(w)
      PROVE  /\ ticket'[r] \in Sold /\ ticket'[r].via = via
             /\ ticket'[r].status # "absent" /\ ticket'[r].trip = job[w].trip
             /\ \E c \in job[w].claims : c.row = r /\ ticket'[r].seat = c.seat
             /\ r \in Rows
  <2>1. r \in Rows /\ \E c \in job[w].claims : c.row = r
    BY <1>1 DEF ClaimedRows, Claims
  <2> DEFINE k == CHOOSE c \in job[w].claims : c.row = r
  <2>2. k \in job[w].claims /\ k.row = r
    BY <2>1
  <2> HIDE DEF k
  <2>3. ticket'[r] = [status |-> "PENDING_PAYMENT", trip |-> job[w].trip, seat |-> k.seat,
                      who |-> k.who, version |-> 0, expires |-> job[w].expires,
                      sale |-> r, via |-> via]
    BY <2>1 DEF Insert, k
  <2>4. k \in Claims /\ job[w].expires \in Nat
    BY <1>1, <2>2 DEF Jobs
  <2>5. ticket'[r] \in Sold
    BY <2>1, <2>3, <2>4, Names DEF Sold, Claims
  <2> QED BY <2>1, <2>2, <2>3, <2>5
<1>3. ASSUME NEW r \in Rows \ ClaimedRows(w) PROVE ticket'[r] = ticket[r]
  BY <1>3 DEF Insert, ClaimedRows
<1>4. ticket' \in [Rows -> Tickets]
  <2>1. ticket' = [r \in Rows |-> ticket'[r]]
    BY DEF Insert
  <2>2. \A r \in Rows : ticket'[r] \in Tickets
    BY <1>1, <1>2, <1>3 DEF Tickets, TypeOK
  <2> QED BY <2>1, <2>2
<1>5. \A r \in Rows : TicketStep(w, r)
  <2>1. \A r \in ClaimedRows(w) : \A u \in Workers \ {w} : r \notin ClaimedRows(u)
    BY DEF IInv, RowsApart
  <2> QED BY <1>1, <1>2, <1>3, <2>1 DEF TicketStep, Appears
<1> QED BY <1>1, <1>2, <1>3, <1>4, <1>5, LockKept DEF Kept

\* One row gets another status.
LEMMA MoveKept ==
    ASSUME IInv, NEW w \in Workers, NEW r \in Rows, NEW s \in Statuses, s # "absent", Live(r),
           \/ ticket[r].via = "portal"
           \/ \E x \in Edges : x[1] = ticket[r].status /\ x[3] = s,
           ticket' = [ticket EXCEPT ![r].status = s, ![r].version = @ + 1],
           lock' = lock
    PROVE  Kept(w) /\ ticket'[r].status # "absent"
<1>1. TypeOK /\ ticket \in [Rows -> Tickets] /\ ticket[r] \in Sold
  BY TicketFields DEF IInv, TypeOK
<1> DEFINE n == [ticket[r] EXCEPT !.status = s, !.version = @ + 1]
<1>2. n \in Sold /\ n.status = s /\ n.version = ticket[r].version + 1
      /\ n.trip = ticket[r].trip /\ n.seat = ticket[r].seat /\ n.via = ticket[r].via
  BY <1>1 DEF Sold
<1>3. ticket' = [ticket EXCEPT ![r] = n]
  BY <1>1 DEF Sold
<1> HIDE DEF n
<1>4. ticket'[r] = n /\ \A x \in Rows \ {r} : ticket'[x] = ticket[x]
  BY <1>1, <1>3
<1>5. ticket' \in [Rows -> Tickets]
  BY <1>1, <1>2, <1>3 DEF Tickets
<1>6. Moves(r) /\ \A x \in Rows : TicketStep(w, x)
  BY <1>2, <1>4 DEF Moves, Same, TicketStep
<1> QED BY <1>1, <1>2, <1>4, <1>5, <1>6, LockKept DEF Kept

\* The engine applies an action to the row a request has read: the version is the
\* snapshot's, so the edge leaves the status the row really has.
LEMMA TransitionKept ==
    ASSUME IInv, NEW w \in Workers, pc[w] \in {"tx", "payTx"}, NEW a,
           Transition(job[w].row, job[w].was, job[w].ver, a), lock' = lock
    PROVE  Kept(w) /\ job[w].row \in Rows /\ ticket'[job[w].row].status # "absent"
<1> DEFINE r == job[w].row
<1>1. PICK e \in Edges :
        /\ e[1] = job[w].was
        /\ ticket' = [ticket EXCEPT ![r].status = e[3], ![r].version = @ + 1]
  BY DEF Transition
<1>2. e[1] # "absent" /\ e[3] \in Statuses /\ e[3] # "absent"
  BY EdgeFacts
<1>3. r \in Rows /\ Live(r) /\ ticket[r].status = e[1]
  BY <1>1, <1>2 DEF IInv, Safe, SnapshotSafe, Transition
<1> HIDE DEF r
<1>4. Kept(w) /\ ticket'[r].status # "absent"
  BY <1>1, <1>2, <1>3, MoveKept
<1> QED BY <1>3, <1>4 DEF r

\* The portal confirms the rows it has created.
LEMMA PortalConfirmKept ==
    ASSUME IInv, NEW w \in Workers, pc[w] = "bookPay", NEW r \in job[w].left,
           ticket' = [ticket EXCEPT ![r].status = "CONFIRMED", ![r].version = @ + 1],
           lock' = lock
    PROVE  Kept(w)
<1>1. r \in Rows /\ Live(r) /\ ticket[r].via = "portal"
  BY DEF IInv, Safe, TypeOK, Jobs
<1> QED BY <1>1, Names, MoveKept

\* A rebooking creates a row that no request has claimed.
LEMMA RebookKept ==
    ASSUME IInv, NEW w \in Workers, RebookCreate(w)
    PROVE  Kept(w)
<1>1. /\ TypeOK /\ ticket \in [Rows -> Tickets] /\ job[w].trip \in Trips
      /\ job[w].row \in Rows /\ ticket[job[w].row] \in Sold
  BY TicketFields DEF IInv, TypeOK, Safe, RebookCreate
<1> DEFINE n == [ticket[job[w].row] EXCEPT !.status = "CONFIRMED", !.trip = job[w].trip,
                                           !.seat = None, !.version = 1,
                                           !.expires = MaxClock, !.via = "rebook"]
<1>2. n \in Sold /\ n.status = "CONFIRMED" /\ n.via = "rebook"
  BY <1>1, Names, TicketingAssumption DEF Sold
<1>3. PICK r \in Rows : FreshRow(r) /\ ticket' = [ticket EXCEPT ![r] = n]
  BY DEF RebookCreate
<1> HIDE DEF n
<1>4. ticket'[r] = n /\ \A x \in Rows \ {r} : ticket'[x] = ticket[x]
  BY <1>1, <1>3
<1>5. ticket' \in [Rows -> Tickets]
  BY <1>1, <1>2, <1>3 DEF Tickets
<1>6. ~Live(r) /\ \A u \in Workers : r \notin ClaimedRows(u)
  BY <1>3 DEF FreshRow, Live, ClaimedRows
<1>7. Appears(w, r) /\ \A x \in Rows : TicketStep(w, x)
  BY <1>2, <1>4, <1>6 DEF Appears, TicketStep
<1>8. lock' = lock
  BY DEF RebookCreate
<1> QED BY <1>1, <1>5, <1>7, <1>8, LockKept DEF Kept

-----------------------------------------------------------------------------
(* What the others rely on is left alone *)

\* The tickets the counter has sold on a trip only grow by a sale of the counter on it.
LEMMA CounterShrinks ==
    ASSUME IInv, NEW w \in Workers, Kept(w), NEW t, pc[w] = "insert" => job[w].trip # t
    PROVE  /\ OfCounter(t)' \subseteq OfCounter(t)
           /\ \A r \in OfCounter(t)' : ticket'[r].seat = ticket[r].seat
<1> SUFFICES ASSUME NEW r \in OfCounter(t)'
             PROVE  r \in OfCounter(t) /\ ticket'[r].seat = ticket[r].seat
  OBVIOUS
<1>1. /\ r \in Rows /\ ticket'[r].trip = t /\ ticket'[r].via = "counter"
      /\ ticket'[r].status \notin {"absent", "CANCELLED", "EXPIRED"}
  BY DEF OfCounter, Active
<1>2. TicketStep(w, r)
  BY <1>1 DEF Kept
<1>3. CASE ticket'[r] = ticket[r]
  BY <1>1, <1>3 DEF OfCounter, Active
<1>4. CASE Moves(r)
  BY <1>1, <1>4, EdgeFacts DEF Moves, Same, OfCounter, Active, Closed, Live
<1>5. ~Appears(w, r)
  BY <1>1 DEF Appears
<1> QED BY <1>2, <1>3, <1>4, <1>5 DEF TicketStep

\* The counter's tickets of a trip are finitely many.
LEMMA CounterFinite ==
    ASSUME NEW t
    PROVE  /\ IsFiniteSet(OfCounter(t)) /\ Cardinality(OfCounter(t)) \in Nat
           /\ \A S \in SUBSET OfCounter(t) :
                Cardinality(S) \in Nat /\ Cardinality(S) <= Cardinality(OfCounter(t))
<1>1. OfCounter(t) \in SUBSET Rows
  BY DEF OfCounter, Active
<1>2. IsFiniteSet(OfCounter(t))
  BY <1>1, TicketingAssumption, FS_Subset
<1>3. ASSUME NEW S \in SUBSET OfCounter(t)
      PROVE  Cardinality(S) \in Nat /\ Cardinality(S) <= Cardinality(OfCounter(t))
  <2>1. IsFiniteSet(S) /\ Cardinality(S) <= Cardinality(OfCounter(t))
    BY <1>2, FS_Subset
  <2> QED BY <2>1, FS_CardinalityType
<1> QED BY <1>2, <1>3, FS_CardinalityType

\* The rows a sale inserts are as many as its claims.
LEMMA ClaimsFinite ==
    ASSUME NEW cs \in SUBSET Claims, \A c, d \in cs : c.row = d.row => c = d
    PROVE  /\ IsFiniteSet(cs) /\ Cardinality(cs) \in Nat
           /\ IsFiniteSet({c.row : c \in cs}) /\ Cardinality({c.row : c \in cs}) <= Cardinality(cs)
<1> DEFINE f == [c \in cs |-> c.row]
           R == {c.row : c \in cs}
<1>1. f \in Injection(cs, Rows)
  BY DEF Injection, IsInjective, Claims
<1>2. IsFiniteSet(cs)
  BY <1>1, TicketingAssumption, FS_Injection
<1>3. f \in Surjection(cs, R)
  BY DEF Surjection
<1>4. IsFiniteSet(R) /\ Cardinality(R) <= Cardinality(cs)
  BY <1>2, <1>3, FS_Surjection
<1> QED BY <1>2, <1>4, FS_CardinalityType

LEMMA SeatsType == \A t \in Trips : TotalSeats(t) \in Nat
<1>1. Cardinality(Seats) \in Nat
  BY TicketingAssumption, FS_CardinalityType
<1> QED BY <1>1, TicketingAssumption DEF TotalSeats

\* A row that exists stays, and keeps its channel.
LEMMA LiveStays ==
    ASSUME NEW w \in Workers, Kept(w), NEW r \in Rows, Live(r)
    PROVE  /\ ticket'[r].status # "absent" /\ ticket'[r].via = ticket[r].via
           /\ \/ ticket'[r] = ticket[r]
              \/ ticket'[r].version = ticket[r].version + 1
  BY DEF Kept, TicketStep, Moves, Same, Appears, Live

\* A request that does not move keeps all it relies on.
LEMMA OthersSafe ==
    ASSUME IInv, NEW w \in Workers, Kept(w), NEW u \in Workers, u # w,
           pc'[u] = pc[u], job'[u] = job[u]
    PROVE  Safe(u)'
<1> DEFINE j == job[u]
<1>0. TypeOK /\ Safe(u) /\ Safe(w) /\ j \in Jobs /\ job[w] \in Jobs
  BY DEF IInv, TypeOK
<1>1. \A r \in ClaimedRows(u) : ticket'[r].status = "absent"
  <2> SUFFICES ASSUME NEW r \in ClaimedRows(u) PROVE ticket'[r].status = "absent"
    OBVIOUS
  <2>1. r \in Rows /\ ~Live(r)
    BY <1>0 DEF Safe, ClaimedRows, Jobs, Claims
  <2>2. ~Moves(r) /\ ~Appears(w, r)
    BY <2>1 DEF Moves, Appears
  <2> QED BY <2>1, <2>2 DEF Kept, TicketStep, Live
<1>2. ASSUME pc[u] = "insert" PROVE SaleSafe(u)'
  <2> DEFINE t == j.trip
  <2>1. SaleSafe(u)
    BY <1>0, <1>2 DEF Safe
  <2>2. t \in Trips /\ lock[t] = u
    BY <2>1 DEF SaleSafe
  <2>3. lock'[t] = u
    BY <2>2 DEF Kept
  <2>4. pc[w] = "insert" => job[w].trip # t
    BY <1>0, <2>2 DEF Safe, SaleSafe
  <2>5. /\ OfCounter(t)' \subseteq OfCounter(t)
        /\ \A r \in OfCounter(t)' : ticket'[r].seat = ticket[r].seat
    BY <2>4, CounterShrinks
  <2>6. /\ \A c, d \in j.claims : c.row = d.row \/ c.seat = d.seat => c = d
        /\ \A r \in OfCounter(t), c \in j.claims : ticket[r].seat # c.seat
        /\ Cardinality(OfCounter(t)) + Cardinality(j.claims) <= TotalSeats(t)
    BY <2>1 DEF SaleSafe
  <2>7. Cardinality(OfCounter(t)') + Cardinality(j.claims) <= TotalSeats(t)
    <3>1. Cardinality(OfCounter(t)) \in Nat /\ Cardinality(OfCounter(t)') \in Nat
          /\ Cardinality(OfCounter(t)') <= Cardinality(OfCounter(t))
      BY <2>5, CounterFinite
    <3>2. Cardinality(j.claims) \in Nat
      BY <1>0, <2>6, ClaimsFinite DEF Jobs
    <3>3. TotalSeats(t) \in Nat
      BY <2>2, SeatsType
    <3> QED BY <2>6, <3>1, <3>2, <3>3
  <2>8. job'[u].trip = t /\ job'[u].claims = j.claims
    OBVIOUS
  <2>9. OfCounter(job[u].trip)' = OfCounter(t)'
    BY DEF OfCounter, Active
  <2>10. Cardinality(OfCounter(job[u].trip)') + Cardinality(j.claims) <= TotalSeats(t)
    BY <2>7, <2>9
  <2>11. \A r \in OfCounter(job[u].trip)', c \in j.claims : ticket'[r].seat # c.seat
    BY <2>5, <2>6, <2>9
  <2> HIDE DEF t
  <2> QED BY <2>2, <2>3, <2>6, <2>8, <2>10, <2>11 DEF SaleSafe, TotalSeats
<1>3. ASSUME pc[u] \in {"tx", "payTx"} PROVE SnapshotSafe(u)'
  <2> SUFFICES ASSUME j.was # "absent"
               PROVE  /\ j.row \in Rows /\ ticket'[j.row].status # "absent"
                      /\ j.ver <= ticket'[j.row].version
                      /\ j.ver = ticket'[j.row].version => j.was = ticket'[j.row].status
    BY DEF SnapshotSafe, Live
  <2>1. /\ j.row \in Rows /\ Live(j.row) /\ j.ver <= ticket[j.row].version
        /\ j.ver = ticket[j.row].version => j.was = ticket[j.row].status
    BY <1>0, <1>3 DEF Safe, SnapshotSafe
  <2>2. j.ver \in Nat /\ ticket[j.row].version \in Nat
    BY <1>0, <2>1, TicketFields DEF Jobs
  <2> QED BY <2>1, <2>2, LiveStays
<1>4. pc[u] = "bookPay" => \A r \in j.left : ticket'[r].status # "absent" /\ ticket'[r].via = "portal"
  BY <1>0, LiveStays DEF Safe, Jobs
<1>5. pc[u] = "create" => j.trip \in Trips /\ j.row \in Rows /\ ticket'[j.row].status # "absent"
  BY <1>0, LiveStays DEF Safe
<1>6. ClaimedRows(u)' = ClaimedRows(u)
  BY DEF ClaimedRows
<1> QED BY <1>0, <1>1, <1>2, <1>3, <1>4, <1>5, <1>6 DEF Safe, Live

-----------------------------------------------------------------------------
(* What a step does to the requests *)

RequestsSafe ==
    /\ pc \in [Workers -> Steps] /\ job \in [Workers -> Jobs]
    /\ \A w \in Workers : Safe(w)
    /\ RowsApart

\* One request goes on, to a step that is in order; the others are as they were.
LEMMA GotoSafe ==
    ASSUME IInv, NEW w \in Workers, Kept(w), NEW s \in Steps, NEW j \in Jobs, Goto(w, s, j),
           Safe(w)', \A u \in Workers \ {w} : {c.row : c \in j.claims} \cap ClaimedRows(u) = {}
    PROVE  RequestsSafe'
<1>1. pc \in [Workers -> Steps] /\ job \in [Workers -> Jobs] /\ RowsApart
  BY DEF IInv, TypeOK
<1>2. /\ pc' \in [Workers -> Steps] /\ job' \in [Workers -> Jobs] /\ job'[w] = j
      /\ \A u \in Workers \ {w} : pc'[u] = pc[u] /\ job'[u] = job[u]
  BY <1>1 DEF Goto
<1>3. \A u \in Workers : Safe(u)'
  BY <1>2, OthersSafe
<1>4. RowsApart'
  <2>1. ClaimedRows(w)' = {c.row : c \in j.claims}
        /\ \A u \in Workers \ {w} : ClaimedRows(u)' = ClaimedRows(u)
    BY <1>2 DEF ClaimedRows
  <2> QED BY <1>1, <2>1 DEF RowsApart
<1> QED BY <1>2, <1>3, <1>4 DEF RequestsSafe

\* The same for a step that claims nothing.
LEMMA Advance ==
    ASSUME IInv, NEW w \in Workers, Kept(w), NEW s \in Steps \ {"insert", "book"},
           NEW j \in Jobs, j.claims = {}, Goto(w, s, j),
           s = "bookPay" => \A r \in j.left : ticket'[r].status # "absent" /\ ticket'[r].via = "portal",
           s \in {"pay", "payTx"} => j.batch # {},
           s \in {"tx", "payTx"} /\ j.was # "absent" =>
               /\ j.row \in Rows /\ ticket'[j.row].status # "absent"
               /\ j.ver <= ticket'[j.row].version
               /\ j.ver = ticket'[j.row].version => j.was = ticket'[j.row].status,
           s = "tx" => /\ j.then \in {"idle", "refund", "create"}
                       /\ j.then = "create" => j.trip \in Trips,
           s = "create" => j.trip \in Trips /\ j.row \in Rows /\ ticket'[j.row].status # "absent"
    PROVE  RequestsSafe'
<1>1. pc'[w] = s /\ job'[w] = j
  BY DEF Goto, IInv, TypeOK
<1>2. Safe(w)'
  BY <1>1 DEF Safe, SnapshotSafe, ClaimedRows, Live
<1>3. {c.row : c \in j.claims} = {}
  OBVIOUS
<1> QED BY <1>2, <1>3, GotoSafe

\* A request that ends relies on nothing any more.
LEMMA FinishSafe ==
    ASSUME IInv, NEW w \in Workers, Kept(w), Finish(w)
    PROVE  RequestsSafe'
<1>1. NoJob.claims = {} /\ "idle" \in Steps /\ Goto(w, "idle", NoJob)
  BY DEF NoJob, Finish, Steps
<1> QED BY <1>1, NoJobType, Advance

\* What a sale chooses: rows nobody uses, free seats, one each.
LEMMA ClaimSetFacts ==
    ASSUME NEW taken, NEW names, NEW cs \in ClaimSets(taken, names)
    PROVE  /\ cs \in SUBSET Claims
           /\ \A c \in cs : FreshRow(c.row) /\ c.seat \notin taken
           /\ \A c, d \in cs : c.row = d.row \/ c.seat = d.seat => c = d
  BY DEF ClaimSets

\* Fresh rows are claimed by no one else.
LEMMA FreshApart ==
    ASSUME NEW cs \in SUBSET Claims, \A c \in cs : FreshRow(c.row), NEW u \in Workers
    PROVE  {c.row : c \in cs} \cap ClaimedRows(u) = {}
  BY DEF FreshRow, ClaimedRows

\* The guards of issue and issueBatch establish what the insert relies on.
LEMMA IssueSafe ==
    ASSUME IInv, NEW w \in Workers, Issue(w)
    PROVE  RequestsSafe' /\ Kept(w)
<1>0. PICK t \in Trips : /\ lock[t] = None /\ lock' = [lock EXCEPT ![t] = w]
                         /\ IssueWithin(w, t, TotalSeats(t))
  BY DEF Issue
<1>1. PICK cs \in ClaimSets(SeatsOf(Active(t)), NamesOf(Active(t))) :
        /\ Cardinality(Active(t)) + Cardinality(cs) <= TotalSeats(t)
        /\ Goto(w, "insert", [NoJob EXCEPT !.trip = t, !.claims = cs, !.expires = clock + PayTtl])
  BY <1>0 DEF IssueWithin
<1> DEFINE j == [NoJob EXCEPT !.trip = t, !.claims = cs, !.expires = clock + PayTtl]
<1>2. /\ cs \in SUBSET Claims
      /\ \A c \in cs : FreshRow(c.row) /\ c.seat \notin SeatsOf(Active(t))
      /\ \A c, d \in cs : c.row = d.row \/ c.seat = d.seat => c = d
  BY ClaimSetFacts
<1>3. TypeOK /\ ticket' = ticket
  BY DEF IInv, Issue
<1>4. Kept(w)
  BY <1>0, <1>3, QuietKept
<1>5. j \in Jobs /\ j.trip = t /\ j.claims = cs
  <2>1. clock + PayTtl \in Nat
    BY <1>3, TicketingAssumption DEF TypeOK
  <2> QED BY <1>2, <2>1, NoJobType DEF Jobs, NoJob
<1>6. Goto(w, "insert", j) /\ "insert" \in Steps
  BY <1>1 DEF Steps
<1> HIDE DEF j
<1>7. pc'[w] = "insert" /\ job'[w] = j
  BY <1>3, <1>6 DEF Goto, TypeOK
<1>8. \A r \in OfCounter(t), c \in cs : ticket[r].seat # c.seat
  <2>1. OfCounter(t) \subseteq Active(t)
    BY DEF OfCounter
  <2>2. \A c \in cs : c.seat # None
    BY <1>2, TicketingAssumption DEF Claims
  <2> QED BY <1>2, <2>1, <2>2 DEF SeatsOf
<1>9. Cardinality(OfCounter(t)) + Cardinality(cs) <= TotalSeats(t)
  <2>1. IsFiniteSet(Active(t))
    BY TicketingAssumption, FS_Subset DEF Active
  <2>2. OfCounter(t) \in SUBSET Active(t)
    BY DEF OfCounter
  <2>3. Cardinality(OfCounter(t)) <= Cardinality(Active(t)) /\ Cardinality(Active(t)) \in Nat
    BY <2>1, <2>2, FS_Subset, FS_CardinalityType
  <2>4. Cardinality(OfCounter(t)) \in Nat /\ Cardinality(cs) \in Nat /\ TotalSeats(t) \in Nat
    BY <1>2, CounterFinite, ClaimsFinite, SeatsType
  <2> QED BY <1>1, <2>3, <2>4
<1>10. OfCounter(t)' = OfCounter(t) /\ lock'[t] = w
  BY <1>0, <1>3 DEF OfCounter, Active, TypeOK
<1>11. SaleSafe(w)'
  <2>1. OfCounter(job[w].trip)' = OfCounter(t)
    BY <1>5, <1>7, <1>10 DEF OfCounter, Active
  <2> QED BY <1>2, <1>3, <1>5, <1>7, <1>8, <1>9, <1>10, <2>1 DEF SaleSafe, TotalSeats
<1>12. Safe(w)'
  BY <1>2, <1>3, <1>5, <1>7, <1>11 DEF Safe, ClaimedRows, FreshRow, Live
<1>13. \A u \in Workers \ {w} : {c.row : c \in j.claims} \cap ClaimedRows(u) = {}
  BY <1>2, <1>5, FreshApart
<1> QED BY <1>4, <1>5, <1>6, <1>12, <1>13, GotoSafe

\* A booking of the portal relies on its trip and on its rows only.
LEMMA PortalCheckSafe ==
    ASSUME IInv, NEW w \in Workers, PortalCheck(w)
    PROVE  RequestsSafe' /\ Kept(w)
<1>0. PICK t \in Bookable : \E cs \in ClaimSets(SeatsOf(PortalActive(t)), NamesOf(PortalActive(t))) :
        Goto(w, "book", [NoJob EXCEPT !.trip = t, !.claims = cs, !.expires = clock + PayTtl])
  BY DEF PortalCheck
<1>1. PICK cs \in ClaimSets(SeatsOf(PortalActive(t)), NamesOf(PortalActive(t))) :
        Goto(w, "book", [NoJob EXCEPT !.trip = t, !.claims = cs, !.expires = clock + PayTtl])
  BY <1>0
<1> DEFINE j == [NoJob EXCEPT !.trip = t, !.claims = cs, !.expires = clock + PayTtl]
<1>2. cs \in SUBSET Claims /\ \A c \in cs : FreshRow(c.row)
  BY ClaimSetFacts
<1>3. TypeOK /\ ticket' = ticket /\ lock' = lock
  BY DEF IInv, PortalCheck
<1>4. Kept(w)
  BY <1>3, QuietKept
<1>5. j \in Jobs /\ j.trip = t /\ j.claims = cs /\ t \in Trips
  <2>1. clock + PayTtl \in Nat /\ t \in Trips
    BY <1>3, TicketingAssumption DEF TypeOK
  <2> QED BY <1>2, <2>1, NoJobType DEF Jobs, NoJob
<1>6. Goto(w, "book", j) /\ "book" \in Steps
  BY <1>1 DEF Steps
<1> HIDE DEF j
<1>7. pc'[w] = "book" /\ job'[w] = j
  BY <1>3, <1>6 DEF Goto, TypeOK
<1>8. Safe(w)'
  BY <1>2, <1>3, <1>5, <1>7 DEF Safe, ClaimedRows, FreshRow, Live
<1>9. \A u \in Workers \ {w} : {c.row : c \in j.claims} \cap ClaimedRows(u) = {}
  BY <1>2, <1>5, FreshApart
<1> QED BY <1>4, <1>5, <1>6, <1>8, <1>9, GotoSafe

\* The two inserts: the counter's request ends, the portal's goes on to its payment.
LEMMA IssueCommitSafe ==
    ASSUME IInv, NEW w \in Workers, IssueCommit(w)
    PROVE  RequestsSafe' /\ Kept(w)
<1>1. Kept(w)
  BY InsertKept DEF IssueCommit, IInv, Safe, SaleSafe
<1> QED BY <1>1, FinishSafe DEF IssueCommit

LEMMA PortalCommitSafe ==
    ASSUME IInv, NEW w \in Workers, PortalCommit(w)
    PROVE  RequestsSafe' /\ Kept(w)
<1> DEFINE j == [NoJob EXCEPT !.left = {c.row : c \in job[w].claims}]
<1>1. /\ Kept(w)
      /\ \A r \in ClaimedRows(w) : ticket'[r].via = "portal" /\ ticket'[r].status # "absent"
  BY InsertKept DEF PortalCommit, IInv, Safe
<1>2. job[w] \in Jobs
  BY DEF IInv, TypeOK
<1>3. {c.row : c \in job[w].claims} \in SUBSET Rows
  BY <1>2 DEF Jobs, Claims
<1>4. j \in Jobs /\ j.claims = {} /\ j.left = ClaimedRows(w)
  BY <1>3, NoJobType DEF Jobs, NoJob, ClaimedRows
<1>5. Goto(w, "bookPay", j) /\ "bookPay" \in Steps \ {"insert", "book"}
  BY DEF PortalCommit, Steps
<1> HIDE DEF j
<1> QED BY <1>1, <1>4, <1>5, Advance

\* The portal confirms one of its rows and goes on to the next one.
LEMMA PortalConfirmSafe ==
    ASSUME IInv, NEW w \in Workers, PortalConfirm(w)
    PROVE  RequestsSafe' /\ Kept(w)
<1>1. PICK r \in job[w].left :
        /\ ticket' = [ticket EXCEPT ![r].status = "CONFIRMED", ![r].version = @ + 1]
        /\ IF job[w].left = {r} THEN Finish(w)
           ELSE Goto(w, "bookPay", [job[w] EXCEPT !.left = @ \ {r}])
  BY DEF PortalConfirm
<1>2. Kept(w)
  BY <1>1, PortalConfirmKept DEF PortalConfirm
<1>3. CASE Finish(w)
  BY <1>2, <1>3, FinishSafe
<1>4. CASE Goto(w, "bookPay", [job[w] EXCEPT !.left = @ \ {r}])
  <2> DEFINE j == [job[w] EXCEPT !.left = @ \ {r}]
  <2>1. job[w] \in Jobs /\ job[w].claims = {}
        /\ \A x \in job[w].left : x \in Rows /\ Live(x) /\ ticket[x].via = "portal"
    BY DEF PortalConfirm, IInv, TypeOK, Safe, Jobs
  <2>2. j \in Jobs /\ j.claims = {} /\ j.left \subseteq job[w].left
    BY <2>1 DEF Jobs
  <2>3. \A x \in j.left : ticket'[x].status # "absent" /\ ticket'[x].via = "portal"
    BY <1>2, <2>1, <2>2, LiveStays
  <2>4. Goto(w, "bookPay", j) /\ "bookPay" \in Steps \ {"insert", "book"}
    BY <1>4 DEF Steps
  <2> HIDE DEF j
  <2> QED BY <1>2, <2>2, <2>3, <2>4, Advance
<1> QED BY <1>1, <1>2, <1>3, <1>4

\* confirmBatch starts, and reads a ticket.
LEMMA ConfirmBatchSafe ==
    ASSUME IInv, NEW w \in Workers, ConfirmBatch(w)
    PROVE  RequestsSafe' /\ Kept(w)
<1>1. PICK rs \in SUBSET Rows : \E k \in BOOLEAN : rs # {} /\
        Goto(w, "pay", [NoJob EXCEPT !.do = "PAY", !.batch = rs, !.left = rs, !.keyed = k])
  BY DEF ConfirmBatch
<1>2. PICK k \in BOOLEAN : rs # {} /\
        Goto(w, "pay", [NoJob EXCEPT !.do = "PAY", !.batch = rs, !.left = rs, !.keyed = k])
  BY <1>1
<1> DEFINE j == [NoJob EXCEPT !.do = "PAY", !.batch = rs, !.left = rs, !.keyed = k]
<1>3. Kept(w)
  BY QuietKept DEF ConfirmBatch, IInv
<1>4. j \in Jobs /\ j.claims = {} /\ j.batch # {} /\ j.was = "absent"
  BY <1>2, NoJobType, Names DEF Jobs, NoJob
<1>5. Goto(w, "pay", j) /\ "pay" \in Steps \ {"insert", "book"}
  BY <1>2 DEF Steps
<1> HIDE DEF j
<1> QED BY <1>3, <1>4, <1>5, Advance

LEMMA PayReadSafe ==
    ASSUME IInv, NEW w \in Workers, PayRead(w)
    PROVE  RequestsSafe' /\ Kept(w)
<1>1. PICK r \in job[w].left :
        Goto(w, "payTx", [job[w] EXCEPT !.row = r, !.was = ticket[r].status,
                                        !.ver = ticket[r].version])
  BY DEF PayRead
<1> DEFINE j == [job[w] EXCEPT !.row = r, !.was = ticket[r].status, !.ver = ticket[r].version]
<1>2. Kept(w) /\ ticket' = ticket
  BY QuietKept DEF PayRead, IInv
<1>3. job[w] \in Jobs /\ job[w].claims = {} /\ job[w].batch # {} /\ r \in Rows
  BY DEF PayRead, IInv, TypeOK, Safe, Jobs
<1>4. ticket[r].status \in Statuses /\ ticket[r].version \in Nat
  BY <1>3, TicketFields DEF IInv
<1>5. /\ j \in Jobs /\ j.claims = {} /\ j.batch # {}
      /\ j.row = r /\ j.was = ticket[r].status /\ j.ver = ticket[r].version
  BY <1>3, <1>4 DEF Jobs
<1>6. Goto(w, "payTx", j) /\ "payTx" \in Steps \ {"insert", "book"}
  BY <1>1 DEF Steps
<1> HIDE DEF j
<1> QED BY <1>2, <1>3, <1>4, <1>5, <1>6, Advance

\* The transition of one ticket of the batch, or the answer of a known key.
LEMMA PayTxSafe ==
    ASSUME IInv, NEW w \in Workers, PayTx(w)
    PROVE  RequestsSafe' /\ Kept(w)
<1> DEFINE j == [job[w] EXCEPT !.left = @ \ {job[w].row}, !.row = None, !.was = "absent",
                               !.ver = 0]
<1>1. job[w] \in Jobs /\ job[w].claims = {} /\ job[w].batch # {} /\ pc[w] = "payTx" /\ lock' = lock
  BY DEF PayTx, IInv, TypeOK, Safe
<1>2. Kept(w)
  <2>1. CASE ticket' = ticket
    BY <1>1, <2>1, QuietKept DEF IInv
  <2>2. CASE Transition(job[w].row, job[w].was, job[w].ver, "PAY")
    BY <1>1, <2>2, TransitionKept
  <2> QED BY <2>1, <2>2 DEF PayTx
<1>3. j \in Jobs /\ j.claims = {} /\ j.batch # {} /\ j.was = "absent"
  BY <1>1, Names DEF Jobs
<1>4. Goto(w, "pay", j) /\ "pay" \in Steps \ {"insert", "book"}
  BY DEF PayTx, Steps
<1> HIDE DEF j
<1> QED BY <1>2, <1>3, <1>4, Advance

LEMMA ReceiptSafe ==
    ASSUME IInv, NEW w \in Workers, Receipt(w) \/ ReceiptPaid(w)
    PROVE  RequestsSafe' /\ Kept(w)
<1>1. Kept(w)
  BY QuietKept DEF Receipt, ReceiptPaid, IInv
<1>2. CASE Finish(w)
  BY <1>1, <1>2, FinishSafe
<1>3. CASE Goto(w, "receipt", [NoJob EXCEPT !.batch = job[w].batch])
  <2> DEFINE j == [NoJob EXCEPT !.batch = job[w].batch]
  <2>1. job[w].batch \in SUBSET Rows
    BY DEF IInv, TypeOK, Jobs
  <2>2. j \in Jobs /\ j.claims = {}
    BY <2>1, NoJobType DEF Jobs, NoJob
  <2>3. Goto(w, "receipt", j) /\ "receipt" \in Steps \ {"insert", "book"}
    BY <1>3 DEF Steps
  <2> HIDE DEF j
  <2> QED BY <1>1, <2>2, <2>3, Advance
<1> QED BY <1>1, <1>2, <1>3 DEF Receipt, ReceiptPaid

\* The snapshot of an operation on one ticket.
LEMMA ReadSafe ==
    ASSUME IInv, NEW w \in Workers, NEW r \in Rows, NEW a \in Verbs,
           NEW then \in {"idle", "refund", "create"}, NEW t \in Trips \cup {None},
           then = "create" => t \in Trips, Read(w, r, a, then, t)
    PROVE  RequestsSafe' /\ Kept(w)
<1> DEFINE j == [NoJob EXCEPT !.do = a, !.row = r, !.trip = t, !.then = then,
                              !.was = ticket[r].status, !.ver = ticket[r].version]
<1>1. Kept(w) /\ ticket' = ticket
  BY QuietKept DEF Read, IInv
<1>2. ticket[r].status \in Statuses /\ ticket[r].version \in Nat /\ then \in Steps
  BY TicketFields DEF IInv, Steps
<1>3. /\ j \in Jobs /\ j.claims = {} /\ j.then = then /\ j.trip = t
      /\ j.row = r /\ j.was = ticket[r].status /\ j.ver = ticket[r].version
  BY <1>2, NoJobType DEF Jobs, NoJob
<1>4. Goto(w, "tx", j) /\ "tx" \in Steps \ {"insert", "book"}
  BY DEF Read, Steps
<1> HIDE DEF j
<1> QED BY <1>1, <1>2, <1>3, <1>4, Advance

LEMMA OnTicketSafe ==
    ASSUME IInv, NEW w \in Workers, NEW r \in Rows, OnTicket(w, r)
    PROVE  RequestsSafe' /\ Kept(w)
<1>1. CASE Validate(w, r)
  BY <1>1, ReadSafe, Names DEF Validate
<1>2. CASE Cancel(w, r)
  BY <1>2, ReadSafe, Names DEF Cancel
<1>3. CASE MarkNoShow(w, r)
  BY <1>3, ReadSafe, Names DEF MarkNoShow
<1>4. CASE Rebook(w, r)
  BY <1>4, ReadSafe, Names DEF Rebook
<1>5. CASE RequestRefund(w, r)
  BY <1>5, ReadSafe, Names DEF RequestRefund
<1>6. CASE Dispatch(w, r)
  BY <1>6, ReadSafe DEF Dispatch
<1> QED BY <1>1, <1>2, <1>3, <1>4, <1>5, <1>6 DEF OnTicket

\* The transition, and the step after it.
LEMMA TxSafe ==
    ASSUME IInv, NEW w \in Workers, Tx(w)
    PROVE  RequestsSafe' /\ Kept(w)
<1>1. /\ job[w] \in Jobs /\ job[w].claims = {} /\ pc[w] = "tx" /\ lock' = lock
      /\ job[w].then \in {"idle", "refund", "create"}
      /\ job[w].then = "create" => job[w].trip \in Trips
      /\ Transition(job[w].row, job[w].was, job[w].ver, job[w].do)
  BY DEF Tx, IInv, TypeOK, Safe
<1>2. Kept(w) /\ job[w].row \in Rows /\ ticket'[job[w].row].status # "absent"
  BY <1>1, TransitionKept
<1>3. CASE Finish(w)
  BY <1>2, <1>3, FinishSafe
<1>4. CASE job[w].then # "idle" /\ Goto(w, job[w].then, job[w])
  <2>1. job[w].then \in {"refund", "create"} /\ job[w].then \in Steps \ {"insert", "book"}
    BY <1>1, <1>4 DEF Steps
  <2> QED BY <1>1, <1>2, <1>4, <2>1, Advance
<1> QED BY <1>2, <1>3, <1>4 DEF Tx

\* The steps that end a request.
LEMMA EndSafe ==
    ASSUME IInv, NEW w \in Workers,
           RefundCreate(w) \/ RebookCreate(w) \/ PortalRefund(w) \/ Stops(w)
    PROVE  RequestsSafe' /\ Kept(w)
<1>1. Finish(w)
  BY DEF RefundCreate, RebookCreate, PortalRefund, Stops
<1>2. Kept(w)
  BY QuietKept, RebookKept DEF RefundCreate, PortalRefund, Stops, IInv
<1> QED BY <1>1, <1>2, FinishSafe

\* A passenger asks the portal for a refund: no snapshot is carried.
LEMMA PortalCancelSafe ==
    ASSUME IInv, NEW w \in Workers, NEW r \in Rows, PortalCancel(w, r)
    PROVE  RequestsSafe' /\ Kept(w)
<1> DEFINE j == [NoJob EXCEPT !.row = r]
<1>1. Kept(w)
  BY QuietKept DEF PortalCancel, IInv
<1>2. j \in Jobs /\ j.claims = {}
  BY NoJobType DEF Jobs, NoJob
<1>3. Goto(w, "ask", j) /\ "ask" \in Steps \ {"insert", "book"}
  BY DEF PortalCancel, Steps
<1> HIDE DEF j
<1> QED BY <1>1, <1>2, <1>3, Advance

-----------------------------------------------------------------------------
(* Seats and capacity *)

\* Every step but an insert of the counter leaves the counter's tickets, or fewer.
LEMMA CountersStay ==
    ASSUME IInv, NEW w \in Workers, Kept(w), pc[w] = "insert" => ticket' = ticket
    PROVE  CounterSeatsUnique' /\ CounterWithinCapacity'
<1>1. ASSUME NEW t \in Trips
      PROVE  /\ OfCounter(t)' \subseteq OfCounter(t)
             /\ \A r \in OfCounter(t)' : ticket'[r].seat = ticket[r].seat
  <2>1. CASE ticket' = ticket
    BY <2>1 DEF OfCounter, Active
  <2>2. CASE pc[w] # "insert"
    BY <2>2, CounterShrinks
  <2> QED BY <2>1, <2>2
<1>2. CounterSeatsUnique'
  BY <1>1 DEF IInv, CounterSeatsUnique
<1>3. ASSUME NEW t \in Trips PROVE Cardinality(OfCounter(t)') <= TotalSeats(t)
  <2>1. /\ Cardinality(OfCounter(t)) \in Nat /\ Cardinality(OfCounter(t)') \in Nat
        /\ Cardinality(OfCounter(t)') <= Cardinality(OfCounter(t))
    BY <1>1, <1>3, CounterFinite
  <2>2. TotalSeats(t) \in Nat /\ Cardinality(OfCounter(t)) <= TotalSeats(t)
    BY <1>3, SeatsType DEF IInv, CounterWithinCapacity
  <2> QED BY <2>1, <2>2
<1> QED BY <1>2, <1>3 DEF CounterWithinCapacity, TotalSeats

\* The insert of the counter adds its claims, which are free and within the capacity.
LEMMA InsertFits ==
    ASSUME IInv, NEW w \in Workers, IssueCommit(w)
    PROVE  CounterSeatsUnique' /\ CounterWithinCapacity'
<1>0. job[w].trip \in Trips /\ job[w] \in Jobs /\ SaleSafe(w) /\ pc[w] = "insert"
  BY DEF IssueCommit, IInv, Safe, SaleSafe, TypeOK
<1>t. PICK t \in Trips : t = job[w].trip
  BY <1>0
<1>c. PICK cs \in SUBSET Claims : cs = job[w].claims
  BY <1>0 DEF Jobs
<1>1. /\ pc[w] = "insert" /\ t \in Trips /\ cs \in SUBSET Claims
      /\ \A c, d \in cs : c.row = d.row \/ c.seat = d.seat => c = d
      /\ \A r \in OfCounter(t), c \in cs : ticket[r].seat # c.seat
      /\ Cardinality(OfCounter(t)) + Cardinality(cs) <= TotalSeats(t)
  BY <1>0, <1>t, <1>c DEF SaleSafe
<1>2. /\ Kept(w)
      /\ \A r \in ClaimedRows(w) : ticket'[r].via = "counter"
      /\ \A r \in Rows \ ClaimedRows(w) : ticket'[r] = ticket[r]
  BY <1>0, <1>1, InsertKept DEF IssueCommit
<1>3. ASSUME NEW r \in ClaimedRows(w)
      PROVE  ticket'[r].trip = t /\ \E c \in cs : c.row = r /\ ticket'[r].seat = c.seat
  <2>1. r \in Rows /\ ~Live(r)
    BY <1>1, <1>3, <1>c DEF IInv, Safe, ClaimedRows, Claims
  <2>2. ticket'[r].status # "absent"
    BY <1>0, <1>1, <1>3, InsertKept DEF IssueCommit
  <2>3. Appears(w, r)
    BY <1>2, <2>1, <2>2 DEF Kept, TicketStep, Moves, Live
  <2> QED BY <1>2, <1>3, <1>t, <1>c, <2>3 DEF Appears
<1>4. ASSUME NEW r \in OfCounter(t)' \ ClaimedRows(w)
      PROVE  r \in OfCounter(t) /\ ticket'[r].seat = ticket[r].seat
  <2>1. r \in Rows /\ ticket'[r] = ticket[r]
    BY <1>2, <1>4 DEF OfCounter, Active
  <2> QED BY <1>4, <2>1 DEF OfCounter, Active
<1>5. ASSUME NEW v \in Trips \ {t}
      PROVE  /\ OfCounter(v)' \subseteq OfCounter(v)
             /\ \A r \in OfCounter(v)' : ticket'[r].seat = ticket[r].seat
  BY <1>2, <1>5, <1>t, CounterShrinks
<1>6. CounterSeatsUnique'
  <2>1. ASSUME NEW v \in Trips \ {t}, NEW r \in OfCounter(v)', NEW s \in OfCounter(v)',
               ticket'[r].seat = ticket'[s].seat
        PROVE  r = s
    BY <1>5, <2>1 DEF IInv, CounterSeatsUnique
  <2>2. ASSUME NEW r \in OfCounter(t)', NEW s \in OfCounter(t)',
               ticket'[r].seat = ticket'[s].seat
        PROVE  r = s
    <3>1. CASE r \in ClaimedRows(w) /\ s \in ClaimedRows(w)
      BY <1>1, <1>3, <2>2, <3>1
    <3>2. CASE r \in ClaimedRows(w) /\ s \notin ClaimedRows(w)
      BY <1>1, <1>3, <1>4, <2>2, <3>2
    <3>3. CASE r \notin ClaimedRows(w) /\ s \in ClaimedRows(w)
      BY <1>1, <1>3, <1>4, <2>2, <3>3
    <3>4. CASE r \notin ClaimedRows(w) /\ s \notin ClaimedRows(w)
      <4>1. r \in OfCounter(t) /\ s \in OfCounter(t) /\ ticket[r].seat = ticket[s].seat
        BY <1>4, <2>2, <3>4
      <4> QED BY <1>1, <4>1 DEF IInv, CounterSeatsUnique
    <3> QED BY <3>1, <3>2, <3>3, <3>4
  <2> QED BY <2>1, <2>2 DEF CounterSeatsUnique
<1>7. ASSUME NEW v \in Trips \ {t} PROVE Cardinality(OfCounter(v)') <= TotalSeats(v)
  <2>1. /\ Cardinality(OfCounter(v)) \in Nat /\ Cardinality(OfCounter(v)') \in Nat
        /\ Cardinality(OfCounter(v)') <= Cardinality(OfCounter(v))
    BY <1>5, CounterFinite
  <2>2. TotalSeats(v) \in Nat /\ Cardinality(OfCounter(v)) <= TotalSeats(v)
    BY <1>7, SeatsType DEF IInv, CounterWithinCapacity
  <2> QED BY <2>1, <2>2
<1>8. Cardinality(OfCounter(t)') <= TotalSeats(t)
  <2> DEFINE A == OfCounter(t)
             B == ClaimedRows(w)
  <2>1. IsFiniteSet(A) /\ Cardinality(A) \in Nat
    BY CounterFinite
  <2>2. /\ IsFiniteSet(B) /\ Cardinality(B) <= Cardinality(cs)
        /\ Cardinality(B) \in Nat /\ Cardinality(cs) \in Nat
    <3>1. B = {c.row : c \in cs}
      BY <1>c DEF ClaimedRows
    <3> QED BY <1>1, <3>1, ClaimsFinite, FS_CardinalityType
  <2>3. /\ IsFiniteSet(A \cup B) /\ Cardinality(A \cap B) \in Nat
        /\ Cardinality(A \cup B) = Cardinality(A) + Cardinality(B) - Cardinality(A \cap B)
    <3>1. IsFiniteSet(A \cap B)
      BY <2>1, FS_Intersection
    <3> QED BY <2>1, <2>2, <3>1, FS_Union, FS_CardinalityType
  <2>4. OfCounter(t)' \subseteq A \cup B
    BY <1>4
  <2>5. IsFiniteSet(OfCounter(t)') /\ Cardinality(OfCounter(t)') <= Cardinality(A \cup B)
    BY <2>3, <2>4, FS_Subset
  <2>6. Cardinality(OfCounter(t)') \in Nat /\ Cardinality(A \cup B) \in Nat /\ TotalSeats(t) \in Nat
    BY <1>1, <2>3, <2>5, FS_CardinalityType, SeatsType
  <2> HIDE DEF A, B
  <2>7. Cardinality(A) + Cardinality(cs) <= TotalSeats(t)
    BY <1>1 DEF A
  <2> QED BY <2>1, <2>2, <2>3, <2>5, <2>6, <2>7
<1> QED BY <1>6, <1>7, <1>8 DEF CounterWithinCapacity, TotalSeats

-----------------------------------------------------------------------------
(* The theorems *)

\* The tables that no other property speaks of.
Registers ==
    /\ clock \in 0..MaxClock /\ refunds \in [Rows -> Nat] /\ asked \in [Rows -> Nat]
    /\ receipts \in [Batches -> {"absent", "DRAFT", "PAID"}] /\ keys \subseteq Batches

\* A step that is in order for its request keeps the invariant.
LEMMA Assembled ==
    ASSUME IInv, NEW w \in Workers, RequestsSafe' /\ Kept(w), Registers',
           pc[w] = "insert" => ticket' = ticket \/ IssueCommit(w)
    PROVE  IInv'
<1>1. CounterSeatsUnique' /\ CounterWithinCapacity'
  BY CountersStay, InsertFits
<1>2. TypeOK'
  BY DEF TypeOK, RequestsSafe, Kept, Registers
<1> QED BY <1>1, <1>2 DEF IInv, RequestsSafe

\* Counting a Refund row keeps the type of the counter.
LEMMA CountUp ==
    ASSUME NEW f \in [Rows -> Nat], NEW x
    PROVE  [f EXCEPT ![x] = @ + 1] \in [Rows -> Nat]
<1>1. CASE x \in Rows
  BY <1>1
<1>2. CASE x \notin Rows
  BY <1>2
<1> QED BY <1>1, <1>2

LEMMA Registered ==
    ASSUME IInv, [Next]_vars
    PROVE  Registers'
<1>0. Registers
  BY DEF IInv, TypeOK, Registers
<1>1. CASE Tick
  BY <1>0, <1>1, TicketingAssumption DEF Tick, Registers
<1>2. CASE UNCHANGED vars
  BY <1>0, <1>2 DEF vars, Registers
<1>3. ASSUME NEW w \in Workers,
             UNCHANGED <<clock, refunds, asked, receipts, keys>>
      PROVE  Registers'
  BY <1>0, <1>3 DEF Registers
<1>4. ASSUME NEW w \in Workers, PayTx(w) PROVE Registers'
  <2>1. job[w].batch \in Batches
    BY <1>4 DEF PayTx, IInv, TypeOK, Safe, Jobs, Batches
  <2> QED BY <1>0, <1>4, <2>1 DEF PayTx, Registers
<1>5. ASSUME NEW w \in Workers, Receipt(w) \/ ReceiptPaid(w) PROVE Registers'
  BY <1>0, <1>5 DEF Receipt, ReceiptPaid, Registers
<1>6. ASSUME NEW w \in Workers, RefundCreate(w) \/ PortalRefund(w) PROVE Registers'
  <2>1. refunds' \in [Rows -> Nat] /\ asked' \in [Rows -> Nat]
    <3>1. refunds \in [Rows -> Nat] /\ asked \in [Rows -> Nat]
      BY <1>0 DEF Registers
    <3> QED BY <1>6, <3>1, CountUp DEF RefundCreate, PortalRefund
  <2> QED BY <1>0, <1>6, <2>1 DEF RefundCreate, PortalRefund, Registers
<1>7. ASSUME NEW w \in Workers, NEW r \in Rows, OnTicket(w, r) PROVE Registers'
  BY <1>3, <1>7 DEF OnTicket, Validate, Cancel, MarkNoShow, Rebook, RequestRefund, Dispatch, Read
<1>8. ASSUME NEW w \in Workers,
             \/ Issue(w) \/ IssueCommit(w) \/ PortalCheck(w) \/ PortalCommit(w)
             \/ PortalConfirm(w) \/ ConfirmBatch(w) \/ PayRead(w) \/ Tx(w)
             \/ RebookCreate(w) \/ Stops(w) \/ \E r \in Rows : PortalCancel(w, r)
      PROVE  Registers'
  BY <1>3, <1>8 DEF Issue, IssueCommit, PortalCheck, PortalCommit, PortalConfirm, ConfirmBatch,
                    PayRead, Tx, RebookCreate, Stops, PortalCancel
<1> QED BY <1>1, <1>2, <1>4, <1>5, <1>6, <1>7, <1>8 DEF Next

LEMMA InvInit == Init => IInv
<1> SUFFICES ASSUME Init PROVE IInv
  OBVIOUS
<1>1. TypeOK
  <2>1. "idle" \in Steps
    BY DEF Steps
  <2>2. 0 \in 0..MaxClock
    BY TicketingAssumption
  <2> QED BY <2>1, <2>2, NoJobType DEF Init, TypeOK, Tickets
<1>2. \A w \in Workers : Safe(w)
  BY DEF Init, Safe, ClaimedRows, NoJob
<1>3. RowsApart
  BY DEF Init, RowsApart, ClaimedRows, NoJob
<1>4. \A t : OfCounter(t) = {}
  BY DEF Init, OfCounter, Active, NoTicket
<1>5. CounterSeatsUnique
  BY <1>4 DEF CounterSeatsUnique
<1>6. CounterWithinCapacity
  <2>1. Cardinality({}) = 0
    BY FS_EmptySet
  <2>2. \A t \in Trips : TotalSeats(t) >= 0
    BY SeatsType
  <2> QED BY <1>4, <2>1, <2>2 DEF CounterWithinCapacity
<1> QED BY <1>1, <1>2, <1>3, <1>5, <1>6 DEF IInv

LEMMA InvStep == IInv /\ [Next]_vars => IInv'
<1> SUFFICES ASSUME IInv, [Next]_vars PROVE IInv'
  OBVIOUS
<1>1. Registers'
  BY Registered
<1>2. CASE Tick \/ UNCHANGED vars
  <2>1. UNCHANGED <<ticket, lock, pc, job>>
    BY <1>2 DEF Tick, vars
  <2>2. TypeOK'
    BY <1>1, <2>1 DEF IInv, TypeOK, Registers
  <2>3. \A t : OfCounter(t)' = OfCounter(t)
    BY <2>1 DEF OfCounter, Active
  <2>4. \A w \in Workers : Safe(w)'
    <3>1. \A w \in Workers : OfCounter(job[w].trip)' = OfCounter(job[w].trip)
      BY <2>1 DEF OfCounter, Active
    <3>2. ASSUME NEW w \in Workers, pc[w] = "insert" PROVE SaleSafe(w)'
      <4>1. SaleSafe(w)
        BY <3>2 DEF IInv, Safe
      <4> QED BY <2>1, <3>1, <4>1 DEF SaleSafe, TotalSeats
    <3> QED BY <2>1, <3>2 DEF IInv, Safe, SnapshotSafe, ClaimedRows, Live
  <2>5. RowsApart'
    BY <2>1 DEF IInv, RowsApart, ClaimedRows
  <2>6. CounterSeatsUnique' /\ CounterWithinCapacity'
    BY <2>1, <2>3 DEF IInv, CounterSeatsUnique, CounterWithinCapacity, TotalSeats
  <2> QED BY <2>2, <2>4, <2>5, <2>6 DEF IInv
<1>3. ASSUME NEW w \in Workers, Issue(w) PROVE IInv'
  BY <1>1, <1>3, IssueSafe, Assembled DEF Issue
<1>4. ASSUME NEW w \in Workers, IssueCommit(w) PROVE IInv'
  BY <1>1, <1>4, IssueCommitSafe, Assembled
<1>5. ASSUME NEW w \in Workers, PortalCheck(w) PROVE IInv'
  BY <1>1, <1>5, PortalCheckSafe, Assembled DEF PortalCheck
<1>6. ASSUME NEW w \in Workers, PortalCommit(w) PROVE IInv'
  BY <1>1, <1>6, PortalCommitSafe, Assembled DEF PortalCommit
<1>7. ASSUME NEW w \in Workers, PortalConfirm(w) PROVE IInv'
  BY <1>1, <1>7, PortalConfirmSafe, Assembled DEF PortalConfirm
<1>8. ASSUME NEW w \in Workers, ConfirmBatch(w) PROVE IInv'
  BY <1>1, <1>8, ConfirmBatchSafe, Assembled DEF ConfirmBatch
<1>9. ASSUME NEW w \in Workers, PayRead(w) PROVE IInv'
  BY <1>1, <1>9, PayReadSafe, Assembled DEF PayRead
<1>10. ASSUME NEW w \in Workers, PayTx(w) PROVE IInv'
  BY <1>1, <1>10, PayTxSafe, Assembled DEF PayTx
<1>11. ASSUME NEW w \in Workers, Receipt(w) \/ ReceiptPaid(w) PROVE IInv'
  BY <1>1, <1>11, ReceiptSafe, Assembled DEF Receipt, ReceiptPaid
<1>12. ASSUME NEW w \in Workers, NEW r \in Rows, OnTicket(w, r) PROVE IInv'
  <2>1. pc[w] = "idle"
    BY <1>12 DEF OnTicket, Validate, Cancel, MarkNoShow, Rebook, RequestRefund, Dispatch, Read
  <2> QED BY <1>1, <1>12, <2>1, OnTicketSafe, Assembled
<1>13. ASSUME NEW w \in Workers, Tx(w) PROVE IInv'
  BY <1>1, <1>13, TxSafe, Assembled DEF Tx
<1>14. ASSUME NEW w \in Workers,
              RefundCreate(w) \/ RebookCreate(w) \/ PortalRefund(w) \/ Stops(w)
       PROVE  IInv'
  BY <1>1, <1>14, EndSafe, Assembled DEF RefundCreate, RebookCreate, PortalRefund, Stops
<1>15. ASSUME NEW w \in Workers, NEW r \in Rows, PortalCancel(w, r) PROVE IInv'
  BY <1>1, <1>15, PortalCancelSafe, Assembled DEF PortalCancel
<1> QED BY <1>2, <1>3, <1>4, <1>5, <1>6, <1>7, <1>8, <1>9, <1>10, <1>11, <1>12, <1>13, <1>14, <1>15
        DEF Next

(* The lock of a sale covers it from its guards to its insert, snapshots agree with
   the rows at equal versions, and no two requests insert the same row. *)
THEOREM Invariance == Spec => []IInv
  BY InvInit, InvStep, PTL DEF Spec

(* Every variable keeps its type: only states of the blueprint are stored. *)
THEOREM TypeCorrect == Spec => []TypeOK
<1>1. IInv => TypeOK
  BY DEF IInv
<1> QED BY <1>1, Invariance, PTL

(* The counter never sells a seat of a trip twice, whatever runs at the same time
   and for every number of requests. *)
THEOREM SeatsTheorem == Spec => []CounterSeatsUnique
<1>1. IInv => CounterSeatsUnique
  BY DEF IInv
<1> QED BY <1>1, Invariance, PTL

(* The counter never sells more seats of a trip than are open for sale. *)
THEOREM CapacityTheorem == Spec => []CounterWithinCapacity
<1>1. IInv => CounterWithinCapacity
  BY DEF IInv
<1> QED BY <1>1, Invariance, PTL

-----------------------------------------------------------------------------
(* One journey per sale *)

\* What the blueprint says of the states the arguments below speak of.
LEMMA JourneyEdges ==
    \A e \in Edges :
        /\ e[1] # "REBOOKED" /\ e[3] \notin {"absent", "PENDING_PAYMENT"}
        /\ e[1] \in RefundStates => e[3] \in RefundStates
        /\ e[2] \in {"CANCEL", "REQUEST_REFUND"} => e[1] \notin RefundStates /\ e[3] \in RefundStates
        /\ e[2] = "REBOOK" => e[1] \notin RefundStates /\ e[3] = "REBOOKED"
BY DEF Edges, RefundStates

\* One ticket moves along an edge; a ticket of the portal may be set back.
Shifts(x) ==
    /\ x \in Rows /\ Live(x)
    /\ \A r \in Rows \ {x} : ticket'[r] = ticket[r]
    /\ ticket'[x].sale = ticket[x].sale /\ ticket'[x].via = ticket[x].via
    /\ ticket'[x].status \notin {"absent", "PENDING_PAYMENT"}
    /\ ticket[x].via # "portal" =>
          \E e \in Edges : e[1] = ticket[x].status /\ e[3] = ticket'[x].status

\* A transition of the engine, on the snapshot of the request.
LEMMA TransitionShifts ==
    ASSUME IInv, NEW w \in Workers, pc[w] \in {"tx", "payTx"}, NEW a,
           Transition(job[w].row, job[w].was, job[w].ver, a)
    PROVE  /\ Shifts(job[w].row)
           /\ \E e \in Edges : /\ e[1] = ticket[job[w].row].status /\ e[2] = a
                               /\ e[3] = ticket'[job[w].row].status
<1> DEFINE r == job[w].row
<1>1. PICK e \in Edges :
        /\ e[1] = job[w].was /\ e[2] = a
        /\ ticket' = [ticket EXCEPT ![r].status = e[3], ![r].version = @ + 1]
  BY DEF Transition
<1>2. e[1] # "absent" /\ e[3] \notin {"absent", "PENDING_PAYMENT"}
  BY EdgeFacts, JourneyEdges
<1>3. r \in Rows /\ Live(r) /\ ticket[r].status = e[1]
  BY <1>1, <1>2 DEF IInv, Safe, SnapshotSafe, Transition
<1>4. ticket \in [Rows -> Tickets] /\ ticket[r] \in Sold
  BY <1>3, TicketFields DEF IInv, TypeOK
<1> HIDE DEF r
<1>5. /\ \A x \in Rows \ {r} : ticket'[x] = ticket[x]
      /\ ticket'[r] = [ticket[r] EXCEPT !.status = e[3], !.version = ticket[r].version + 1]
  BY <1>1, <1>3, <1>4
<1>6. ticket'[r].sale = ticket[r].sale /\ ticket'[r].via = ticket[r].via /\ ticket'[r].status = e[3]
  BY <1>4, <1>5 DEF Sold
<1>7. Shifts(r)
  BY <1>2, <1>3, <1>5, <1>6 DEF Shifts
<1> QED BY <1>1, <1>3, <1>6, <1>7 DEF r

\* The portal confirms its own tickets, whatever they are by now.
LEMMA PortalShifts ==
    ASSUME IInv, NEW w \in Workers, pc[w] = "bookPay", NEW r \in job[w].left,
           ticket' = [ticket EXCEPT ![r].status = "CONFIRMED", ![r].version = @ + 1]
    PROVE  Shifts(r)
<1>1. r \in Rows /\ Live(r) /\ ticket[r].via = "portal"
  BY DEF IInv, Safe, TypeOK, Jobs
<1>2. ticket \in [Rows -> Tickets] /\ ticket[r] \in Sold
  BY <1>1, TicketFields DEF IInv, TypeOK
<1>3. /\ \A x \in Rows \ {r} : ticket'[x] = ticket[x]
      /\ ticket'[r] = [ticket[r] EXCEPT !.status = "CONFIRMED", !.version = ticket[r].version + 1]
  BY <1>1, <1>2
<1>4. ticket'[r].sale = ticket[r].sale /\ ticket'[r].via = "portal" /\ ticket'[r].status = "CONFIRMED"
  BY <1>1, <1>2, <1>3 DEF Sold
<1> QED BY <1>1, <1>3, <1>4 DEF Shifts

\* The rows a batch creates are sales of their own.
Arrives(w) ==
    /\ \A r \in Rows : ~Live(r) \/ ticket'[r] = ticket[r]
    /\ \A r \in Rows : ticket'[r] = ticket[r] \/ ( /\ ticket'[r].status = "PENDING_PAYMENT"
                                                   /\ ticket'[r].sale = r
                                                   /\ ticket'[r].via \in {"counter", "portal"} )

LEMMA InsertArrives ==
    ASSUME IInv, NEW w \in Workers, NEW via \in {"counter", "portal"}, Insert(w, via)
    PROVE  Arrives(w)
<1>1. \A r \in Rows : (\E c \in job[w].claims : c.row = r) => ~Live(r)
  BY DEF IInv, Safe, ClaimedRows
<1>2. ASSUME NEW r \in Rows
      PROVE  ticket'[r] = ticket[r] \/ ( /\ ticket'[r].status = "PENDING_PAYMENT"
                                         /\ ticket'[r].sale = r
                                         /\ ticket'[r].via \in {"counter", "portal"} )
  <2>1. CASE \E c \in job[w].claims : c.row = r
    <3>1. PICK c : ticket'[r] = [status |-> "PENDING_PAYMENT", trip |-> job[w].trip, seat |-> c.seat,
              who |-> c.who, version |-> 0, expires |-> job[w].expires, sale |-> r, via |-> via]
      BY <2>1 DEF Insert
    <3> QED BY <3>1
  <2>2. CASE ~ \E c \in job[w].claims : c.row = r
    BY <2>2 DEF Insert
  <2> QED BY <2>1, <2>2
<1>3. \A r \in Rows : ~Live(r) \/ ticket'[r] = ticket[r]
  BY <1>1 DEF Insert
<1> QED BY <1>2, <1>3 DEF Arrives

\* What the sale of a ticket is.
LEMMA SaleFacts ==
    ASSUME IInv, JourneyInv
    PROVE  /\ \A r \in Rows : Live(r) => ticket[r].sale \in Rows /\ Live(ticket[r].sale)
           /\ \A r \in Rows : ~Live(r) => ticket[r].sale \notin Rows /\ ticket[r].via = None
           /\ \A s \in Rows : ticket[s].via \in {"counter", "portal"} => Live(s) /\ ticket[s].sale = s
<1>1. \A r \in Rows : Live(r) => ticket[r].sale \in Rows
  BY TicketFields DEF IInv, Sold
<1>2. \A r \in Rows : ~Live(r) => ticket[r].sale \notin Rows /\ ticket[r].via = None
  BY TicketingAssumption DEF JourneyInv, SalesExist, NoTicket
<1>3. \A s \in Rows : ticket[s].via \in {"counter", "portal"} => Live(s) /\ ticket[s].sale = s
  BY TicketingAssumption DEF JourneyInv, SalesExist, NoTicket
<1> QED BY <1>1, <1>2, <1>3 DEF JourneyInv, SalesExist

\* A ticket that moves leaves its sale in order, and what other requests owe.
LEMMA ShiftSales ==
    ASSUME IInv, JourneyInv, NEW x, Shifts(x), refunds' = refunds
    PROVE  /\ SalesExist' /\ OneTicketLeft' /\ RefundEnds'
           /\ \A r \in Rows : Live(r) => /\ ticket'[r].sale = ticket[r].sale
                                         /\ ticket'[r].via = ticket[r].via
           /\ \A u \in Workers : pc'[u] = pc[u] /\ job'[u] = job[u] => Owes(u)'
<1>0. /\ x \in Rows /\ Live(x) /\ (Live(x))' /\ ticket[x].sale \in Rows
      /\ \A r \in Rows \ {x} : ticket'[r] = ticket[r]
      /\ SalesExist /\ OneTicketLeft /\ RefundEnds /\ \A w \in Workers : Owes(w)
  BY SaleFacts DEF Shifts, JourneyInv, Live
<1>1. \A r \in Rows : ticket'[r].sale = ticket[r].sale /\ ticket'[r].via = ticket[r].via
  BY <1>0 DEF Shifts
<1>2. \A r \in Rows : (Live(r))' <=> Live(r)
  BY <1>0 DEF Live
<1>3. SalesExist'
  <2> SUFFICES ASSUME NEW r \in Rows
               PROVE  /\ ~(Live(r))' => ticket'[r] = NoTicket
                      /\ (Live(r))' => /\ ticket'[ticket'[r].sale].status # "absent"
                                       /\ ticket'[r].via # "rebook" => ticket'[r].sale = r
    BY DEF SalesExist, Live
  <2>1. ~(Live(r))' => ticket'[r] = NoTicket
    BY <1>0, <1>2 DEF SalesExist
  <2>2. ASSUME (Live(r))' PROVE ticket'[ticket'[r].sale].status # "absent"
    <3>1. ticket'[r].sale = ticket[r].sale /\ ticket[r].sale \in Rows /\ Live(ticket[r].sale)
      BY <1>1, <1>2, <2>2, SaleFacts
    <3> QED BY <1>2, <3>1 DEF Live
  <2>3. (Live(r))' => (ticket'[r].via # "rebook" => ticket'[r].sale = r)
    BY <1>0, <1>1, <1>2 DEF SalesExist
  <2> QED BY <2>1, <2>2, <2>3
<1>4. \A s : OfSale(s)' = OfSale(s)
  BY <1>1 DEF OfSale
<1>5. ASSUME NEW s \in Rows, ticket[s].via = "counter", NEW r \in OfSale(s), ticket[r].status = "REBOOKED"
      PROVE  ticket'[r].status = "REBOOKED"
  <2>1. CASE r = x
    <3>1. ticket[x].via # "portal"
      BY <1>0, <1>5, <2>1, SaleFacts DEF OfSale
    <3> QED BY <1>5, <2>1, <3>1, JourneyEdges DEF Shifts
  <2>2. CASE r # x
    BY <1>0, <1>5, <2>2 DEF OfSale
  <2> QED BY <2>1, <2>2
<1>6. OneTicketLeft'
  BY <1>0, <1>1, <1>4, <1>5 DEF OneTicketLeft
<1>7. ticket[x].via # "portal" /\ ticket[x].status \in RefundStates => ticket'[x].status \in RefundStates
  BY JourneyEdges DEF Shifts
<1>8. RefundEnds'
  BY <1>0, <1>1, <1>2, <1>7 DEF RefundEnds
<1>9. ASSUME NEW u \in Workers, pc'[u] = pc[u], job'[u] = job[u] PROVE Owes(u)'
  <2>1. pc[u] = "refund" =>
          /\ job[u].row \in Rows /\ (Live(job[u].row))'
          /\ ticket'[job[u].row].via # "portal" =>
                ticket'[job[u].row].status \in RefundStates /\ refunds'[job[u].row] = 0
    <3> SUFFICES ASSUME pc[u] = "refund"
                 PROVE  /\ job[u].row \in Rows /\ (Live(job[u].row))'
                        /\ ticket'[job[u].row].via # "portal" =>
                              ticket'[job[u].row].status \in RefundStates /\ refunds'[job[u].row] = 0
      OBVIOUS
    <3>1. /\ job[u].row \in Rows /\ Live(job[u].row)
          /\ ticket[job[u].row].via # "portal" =>
                ticket[job[u].row].status \in RefundStates /\ refunds[job[u].row] = 0
      BY <1>0 DEF Owes
    <3>2. PICK y \in Rows : y = job[u].row
      BY <3>1
    <3>3. (Live(y))' /\ ticket'[y].via = ticket[y].via
      BY <1>1, <1>2, <3>1, <3>2
    <3>4. ticket[y].via # "portal" => ticket'[y].status \in RefundStates
      BY <1>0, <1>7, <3>1, <3>2
    <3>5. (Live(job[u].row))'
      BY <1>9, <3>2, <3>3 DEF Live
    <3> QED BY <1>9, <3>1, <3>2, <3>3, <3>4, <3>5
  <2>2. pc[u] = "create" =>
          \A s \in Rows : ticket'[s].via = "counter" /\ ticket'[job[u].row].sale = s =>
              \A r \in OfSale(s)' : ticket'[r].status = "REBOOKED"
    <3> SUFFICES ASSUME pc[u] = "create", NEW s \in Rows, ticket'[s].via = "counter",
                        ticket'[job[u].row].sale = s, NEW r \in OfSale(s)'
                 PROVE  ticket'[r].status = "REBOOKED"
      OBVIOUS
    <3>1. job[u].row \in Rows
      BY DEF IInv, Safe
    <3>2. ticket[s].via = "counter" /\ ticket[job[u].row].sale = s /\ r \in OfSale(s)
      BY <1>1, <1>4, <3>1
    <3> QED BY <1>0, <1>5, <3>2 DEF Owes
  <2>3. pc[u] = "tx" => /\ job[u].then = "refund" => job[u].do \in {"CANCEL", "REQUEST_REFUND"}
                        /\ job[u].then = "create" => job[u].do = "REBOOK"
    BY <1>0 DEF Owes
  <2> QED BY <1>9, <2>1, <2>2, <2>3 DEF Owes, Live
<1> QED BY <1>1, <1>3, <1>6, <1>8, <1>9

\* New sales disturb no other.
LEMMA ArrivalSales ==
    ASSUME IInv, JourneyInv, NEW w \in Workers, Arrives(w), refunds' = refunds
    PROVE  /\ SalesExist' /\ OneTicketLeft' /\ RefundEnds'
           /\ \A r \in Rows : Live(r) => /\ ticket'[r].sale = ticket[r].sale
                                         /\ ticket'[r].via = ticket[r].via
           /\ \A u \in Workers : pc'[u] = pc[u] /\ job'[u] = job[u] => Owes(u)'
<1>0. /\ SalesExist /\ OneTicketLeft /\ RefundEnds /\ \A u \in Workers : Owes(u)
      /\ \A r \in Rows : Live(r) => ticket'[r] = ticket[r]
  BY DEF JourneyInv, Arrives
<1>1. ASSUME NEW r \in Rows, ~Live(r)
      PROVE  \/ ticket'[r] = ticket[r]
             \/ /\ ticket'[r].status = "PENDING_PAYMENT" /\ ticket'[r].sale = r
                /\ ticket'[r].via \in {"counter", "portal"} /\ (Live(r))'
  BY DEF Arrives, Live
<1>2. SalesExist'
  <2> SUFFICES ASSUME NEW r \in Rows
               PROVE  /\ ~(Live(r))' => ticket'[r] = NoTicket
                      /\ (Live(r))' => /\ ticket'[ticket'[r].sale].status # "absent"
                                       /\ ticket'[r].via # "rebook" => ticket'[r].sale = r
    BY DEF SalesExist, Live
  <2>1. CASE Live(r)
    <3>1. ticket'[r] = ticket[r] /\ ticket[r].sale \in Rows /\ Live(ticket[r].sale)
      BY <1>0, <2>1, SaleFacts
    <3>2. ticket'[ticket[r].sale].status # "absent"
      BY <1>0, <3>1 DEF Live
    <3> QED BY <1>0, <2>1, <3>1, <3>2 DEF SalesExist, Live
  <2>2. CASE ~Live(r) /\ ticket'[r] = ticket[r]
    BY <1>0, <2>2 DEF SalesExist, Live
  <2>3. CASE ~Live(r) /\ ticket'[r] # ticket[r]
    BY <1>1, <2>3 DEF Live
  <2> QED BY <2>1, <2>2, <2>3
<1>3. \A s \in Rows : Live(s) => OfSale(s)' = OfSale(s) /\ \A r \in OfSale(s) : ticket'[r] = ticket[r]
  <2> SUFFICES ASSUME NEW s \in Rows, Live(s), NEW r \in Rows
               PROVE  (ticket'[r].sale = s <=> ticket[r].sale = s) /\ (ticket[r].sale = s => ticket'[r] = ticket[r])
    BY DEF OfSale
  <2>1. CASE Live(r)
    BY <1>0, <2>1
  <2>2. CASE ~Live(r)
    BY <1>1, <2>2, SaleFacts
  <2> QED BY <2>1, <2>2
<1>4. \A s \in Rows : ~Live(s) => \A r \in OfSale(s)' : r = s
  <2> SUFFICES ASSUME NEW s \in Rows, ~Live(s), NEW r \in Rows, ticket'[r].sale = s PROVE r = s
    BY DEF OfSale
  <2>1. CASE Live(r)
    BY <1>0, <2>1, SaleFacts
  <2>2. CASE ~Live(r)
    BY <1>1, <2>2, SaleFacts
  <2> QED BY <2>1, <2>2
<1>5. OneTicketLeft'
  <2> SUFFICES ASSUME NEW s \in Rows, ticket'[s].via = "counter", NEW r \in OfSale(s)', NEW q \in OfSale(s)',
                      "REBOOKED" \notin {ticket'[r].status, ticket'[q].status}
               PROVE  r = q
    BY DEF OneTicketLeft
  <2>1. CASE Live(s)
    BY <1>0, <1>3, <2>1 DEF OneTicketLeft
  <2>2. CASE ~Live(s)
    BY <1>4, <2>2
  <2> QED BY <2>1, <2>2
<1>6. RefundEnds'
  <2> SUFFICES ASSUME NEW r \in Rows
               PROVE  /\ ~(Live(r))' => refunds[r] = 0
                      /\ (Live(r))' /\ ticket'[r].via # "portal" =>
                           refunds[r] <= 1 /\ (refunds[r] = 1 => ticket'[r].status \in RefundStates)
    BY DEF RefundEnds
  <2>1. CASE Live(r)
    BY <1>0, <2>1 DEF RefundEnds, Live
  <2>2. CASE ~Live(r)
    BY <1>0, <2>2 DEF RefundEnds
  <2> QED BY <2>1, <2>2
<1>7. ASSUME NEW u \in Workers, pc'[u] = pc[u], job'[u] = job[u] PROVE Owes(u)'
  <2>1. ASSUME pc[u] = "refund"
        PROVE  /\ job[u].row \in Rows /\ (Live(job[u].row))'
               /\ ticket'[job[u].row].via # "portal" =>
                    ticket'[job[u].row].status \in RefundStates /\ refunds'[job[u].row] = 0
    <3>1. /\ job[u].row \in Rows /\ Live(job[u].row)
          /\ ticket[job[u].row].via # "portal" =>
                ticket[job[u].row].status \in RefundStates /\ refunds[job[u].row] = 0
      BY <1>0, <2>1 DEF Owes
    <3>2. ticket'[job[u].row] = ticket[job[u].row]
      BY <1>0, <3>1
    <3> QED BY <1>7, <3>1, <3>2 DEF Live
  <2>2. ASSUME pc[u] = "create", NEW s \in Rows, ticket'[s].via = "counter",
               ticket'[job[u].row].sale = s, NEW r \in OfSale(s)'
        PROVE  ticket'[r].status = "REBOOKED"
    <3>1. job[u].row \in Rows /\ Live(job[u].row)
      BY <2>2 DEF IInv, Safe
    <3>2. ticket[job[u].row].sale = s /\ Live(s)
      BY <1>0, <2>2, <3>1, SaleFacts
    <3>3. ticket[s].via = "counter" /\ r \in OfSale(s) /\ ticket'[r] = ticket[r]
      BY <1>0, <1>3, <2>2, <3>2
    <3> QED BY <1>0, <2>2, <3>2, <3>3 DEF Owes
  <2>3. pc[u] = "tx" => /\ job[u].then = "refund" => job[u].do \in {"CANCEL", "REQUEST_REFUND"}
                        /\ job[u].then = "create" => job[u].do = "REBOOK"
    BY <1>0 DEF Owes
  <2> QED BY <1>7, <2>1, <2>2, <2>3 DEF Owes, Live
<1> QED BY <1>0, <1>2, <1>5, <1>6, <1>7

\* A request that comes to owe nothing new leaves every debt with its one debtor.
LEMMA OwedKept ==
    ASSUME IInv, JourneyInv, NEW w \in Workers, NEW j,
           \A r \in Rows : Live(r) => ticket'[r].sale = ticket[r].sale /\ ticket'[r].via = ticket[r].via,
           \A u \in Workers \ {w} : pc'[u] = pc[u] /\ job'[u] = job[u], job'[w] = j,
           pc'[w] = "refund" =>
             /\ j.row \in Rows /\ Live(j.row)
             /\ ticket[j.row].via # "portal" =>
                  \A u \in Workers \ {w} : pc[u] = "refund" => job[u].row # j.row,
           pc'[w] = "create" =>
             /\ j.row \in Rows /\ Live(j.row)
             /\ ticket[ticket[j.row].sale].via = "counter" =>
                  \A u \in Workers \ {w} : pc[u] = "create" => ticket[job[u].row].sale # ticket[j.row].sale
    PROVE  OwedOnce'
<1>0. OwedOnce /\ \A u \in Workers : Owes(u)
  BY DEF JourneyInv
<1>1. ASSUME NEW u \in Workers, NEW v \in Workers, u # v, pc'[u] = "refund", pc'[v] = "refund",
             ticket'[job'[v].row].via # "portal"
      PROVE  job'[u].row # job'[v].row
  <2>1. job'[v].row \in Rows /\ Live(job'[v].row)
    BY <1>0, <1>1 DEF Owes
  <2>2. ticket[job'[v].row].via # "portal"
    BY <1>1, <2>1
  <2>3. CASE v = w
    BY <1>1, <2>2, <2>3
  <2>4. CASE u = w
    BY <1>1, <2>2, <2>4
  <2>5. CASE u # w /\ v # w
    BY <1>0, <1>1, <2>2, <2>5 DEF OwedOnce
  <2> QED BY <2>3, <2>4, <2>5
<1>2. ASSUME NEW u \in Workers, NEW v \in Workers, u # v, pc'[u] = "create", pc'[v] = "create",
             ticket'[ticket'[job'[v].row].sale].via = "counter"
      PROVE  ticket'[job'[u].row].sale # ticket'[job'[v].row].sale
  <2>1. \A x \in Workers : pc'[x] = "create" => job'[x].row \in Rows /\ Live(job'[x].row)
    BY DEF IInv, Safe
  <2>2. /\ ticket'[job'[v].row].sale = ticket[job'[v].row].sale
        /\ ticket'[job'[u].row].sale = ticket[job'[u].row].sale
    BY <1>2, <2>1
  <2>3. ticket[job'[v].row].sale \in Rows /\ Live(ticket[job'[v].row].sale)
    BY <1>2, <2>1, SaleFacts
  <2>4. ticket[ticket[job'[v].row].sale].via = "counter"
    BY <1>2, <2>2, <2>3
  <2>5. CASE v = w
    BY <1>2, <2>2, <2>4, <2>5
  <2>6. CASE u = w
    BY <1>2, <2>2, <2>4, <2>6
  <2>7. CASE u # w /\ v # w
    BY <1>0, <1>2, <2>2, <2>4, <2>7 DEF OwedOnce
  <2> QED BY <2>5, <2>6, <2>7
<1> QED BY <1>1, <1>2 DEF OwedOnce

\* A step that ends in no debt, on tickets that stay, move or arrive.
LEMMA NoDebt ==
    ASSUME IInv, JourneyInv, NEW w \in Workers, NEW step \in Steps \ {"refund", "create"}, NEW j,
           Goto(w, step, j), refunds' = refunds,
           step = "tx" => /\ j.then = "refund" => j.do \in {"CANCEL", "REQUEST_REFUND"}
                          /\ j.then = "create" => j.do = "REBOOK",
           ticket' = ticket \/ (\E x : Shifts(x)) \/ Arrives(w)
    PROVE  JourneyInv'
<1>1. /\ pc'[w] = step /\ job'[w] = j
      /\ \A u \in Workers \ {w} : pc'[u] = pc[u] /\ job'[u] = job[u]
  BY DEF Goto, IInv, TypeOK
<1>2. /\ SalesExist' /\ OneTicketLeft' /\ RefundEnds'
      /\ \A r \in Rows : Live(r) => /\ ticket'[r].sale = ticket[r].sale
                                    /\ ticket'[r].via = ticket[r].via
      /\ \A u \in Workers : pc'[u] = pc[u] /\ job'[u] = job[u] => Owes(u)'
  <2>1. CASE ticket' = ticket
    <3>1. Arrives(w)
      BY <2>1 DEF Arrives
    <3> QED BY <3>1, ArrivalSales
  <2>2. CASE \E x : Shifts(x)
    BY <2>2, ShiftSales
  <2>3. CASE Arrives(w)
    BY <2>3, ArrivalSales
  <2> QED BY <2>1, <2>2, <2>3
<1>3. Owes(w)'
  BY <1>1 DEF Owes
<1>4. \A u \in Workers : Owes(u)'
  BY <1>1, <1>2, <1>3
<1>5. OwedOnce'
  BY <1>1, <1>2, OwedKept
<1> QED BY <1>2, <1>4, <1>5 DEF JourneyInv

\* A transition that is followed by a refund or a new ticket makes its request the debtor.
LEMMA TxJourney ==
    ASSUME IInv, JourneyInv, NEW w \in Workers, Tx(w)
    PROVE  JourneyInv'
<1>x. PICK x : x = job[w].row
  OBVIOUS
<1>0. /\ SalesExist /\ OneTicketLeft /\ RefundEnds /\ (\A u \in Workers : Owes(u)) /\ Safe(w)
      /\ pc[w] = "tx" /\ refunds' = refunds /\ pc \in [Workers -> Steps] /\ job \in [Workers -> Jobs]
  BY DEF Tx, JourneyInv, IInv, TypeOK
<1>1. /\ Shifts(x)
      /\ \E e \in Edges : e[1] = ticket[x].status /\ e[2] = job[w].do /\ e[3] = ticket'[x].status
  BY <1>0, <1>x, TransitionShifts DEF Tx
<1>2. PICK e \in Edges : e[1] = ticket[x].status /\ e[2] = job[w].do /\ e[3] = ticket'[x].status
  BY <1>1
<1>3. CASE job[w].then = "idle"
  <2>1. Goto(w, "idle", NoJob) /\ "idle" \in Steps \ {"refund", "create"}
    BY <1>3 DEF Tx, Finish, Steps
  <2> QED BY <1>0, <1>1, <2>1, NoDebt
<1>4. CASE job[w].then \in {"refund", "create"}
  <2>1. /\ pc'[w] = job[w].then /\ job'[w] = job[w]
        /\ \A u \in Workers \ {w} : pc'[u] = pc[u] /\ job'[u] = job[u]
    BY <1>0, <1>4 DEF Tx, Goto
  <2>2. /\ SalesExist' /\ OneTicketLeft' /\ RefundEnds'
        /\ \A r \in Rows : Live(r) => /\ ticket'[r].sale = ticket[r].sale
                                      /\ ticket'[r].via = ticket[r].via
        /\ \A u \in Workers : pc'[u] = pc[u] /\ job'[u] = job[u] => Owes(u)'
    BY <1>0, <1>1, ShiftSales
  <2>3. x \in Rows /\ Live(x) /\ (Live(x))' /\ \A r \in Rows \ {x} : ticket'[r] = ticket[r]
    BY <1>1 DEF Shifts, Live
  <2>4. PICK s \in Rows : ticket[x].sale = s /\ ticket'[x].sale = s /\ Live(s)
    BY <1>1, <2>3, SaleFacts DEF Shifts
  <2>5. CASE job[w].then = "refund"
    <3>1. e[1] \notin RefundStates /\ e[3] \in RefundStates
      BY <1>0, <1>2, <2>5, JourneyEdges DEF Owes
    <3>2. ticket[x].via # "portal" => refunds[x] # 1 /\ refunds[x] <= 1 /\ ticket'[x].status \in RefundStates
      BY <1>0, <1>2, <2>3, <3>1 DEF RefundEnds
    <3>3. ticket[x].via # "portal" => refunds[x] = 0
      BY <2>3, <3>2 DEF IInv, TypeOK
    <3>4. ticket'[x].via = ticket[x].via
      BY <2>2, <2>3
    <3>5. Owes(w)'
      <4>1. /\ x \in Rows /\ (Live(x))'
            /\ ticket'[x].via # "portal" => ticket'[x].status \in RefundStates /\ refunds'[x] = 0
        BY <1>0, <2>3, <3>2, <3>3, <3>4
      <4> QED BY <1>x, <2>1, <2>5, <4>1 DEF Owes, Live
    <3>6. ticket[x].via # "portal" => \A u \in Workers \ {w} : pc[u] = "refund" => job[u].row # x
      BY <1>0, <1>2, <3>1 DEF Owes
    <3>7. OwedOnce'
      BY <2>1, <2>2, <2>3, <2>5, <3>6, <1>x, OwedKept
    <3> QED BY <2>1, <2>2, <3>5, <3>7 DEF JourneyInv
  <2>6. CASE job[w].then = "create"
    <3>1. e[1] # "REBOOKED" /\ e[3] = "REBOOKED"
      BY <1>0, <1>2, <2>6, JourneyEdges DEF Owes
    <3>2. ticket[s].via = "counter" => \A r \in OfSale(s) : r # x => ticket[r].status = "REBOOKED"
      BY <1>0, <1>2, <2>3, <2>4, <3>1 DEF OneTicketLeft, OfSale
    <3>3. ticket[s].via = "counter" => \A r \in OfSale(s) : ticket'[r].status = "REBOOKED"
      BY <1>2, <2>3, <3>1, <3>2 DEF OfSale
    <3>4. OfSale(s)' = OfSale(s) /\ ticket'[s].via = ticket[s].via
      BY <1>1, <2>3, <2>4 DEF Shifts, OfSale
    <3>5. Owes(w)'
      BY <2>1, <2>4, <2>6, <3>3, <3>4, <1>x DEF Owes
    <3>6. ticket[s].via = "counter" => \A u \in Workers \ {w} : pc[u] = "create" => ticket[job[u].row].sale # s
      BY <1>0, <1>2, <2>3, <2>4, <3>1 DEF Owes, OfSale
    <3>7. OwedOnce'
      BY <2>1, <2>2, <2>3, <2>4, <2>6, <3>6, <1>x, OwedKept
    <3> QED BY <2>1, <2>2, <3>5, <3>7 DEF JourneyInv
  <2> QED BY <1>4, <2>5, <2>6
<1> QED BY <1>0, <1>3, <1>4 DEF Safe

\* The refund is made once: its request was the only one to owe it.
LEMMA RefundJourney ==
    ASSUME IInv, JourneyInv, NEW w \in Workers, RefundCreate(w)
    PROVE  JourneyInv'
<1>0. /\ SalesExist /\ OneTicketLeft /\ RefundEnds /\ OwedOnce /\ (\A u \in Workers : Owes(u))
      /\ pc[w] = "refund" /\ ticket' = ticket /\ refunds \in [Rows -> Nat]
      /\ refunds' = [refunds EXCEPT ![job[w].row] = @ + 1] /\ Finish(w)
      /\ pc \in [Workers -> Steps] /\ job \in [Workers -> Jobs]
  BY DEF RefundCreate, JourneyInv, IInv, TypeOK
<1>1. PICK x \in Rows : /\ x = job[w].row /\ Live(x)
                        /\ ticket[x].via # "portal" => ticket[x].status \in RefundStates /\ refunds[x] = 0
  BY <1>0 DEF Owes
<1>2. refunds'[x] = refunds[x] + 1 /\ \A r \in Rows \ {x} : refunds'[r] = refunds[r]
  BY <1>0, <1>1
<1>3. /\ pc'[w] = "idle" /\ job'[w] = NoJob
      /\ \A u \in Workers \ {w} : pc'[u] = pc[u] /\ job'[u] = job[u]
  BY <1>0 DEF Finish, Goto
<1>4. SalesExist' /\ OneTicketLeft'
  BY <1>0 DEF SalesExist, OneTicketLeft, OfSale, Live
<1>5. RefundEnds'
  <2> SUFFICES ASSUME NEW r \in Rows
               PROVE  /\ ~Live(r) => refunds'[r] = 0
                      /\ Live(r) /\ ticket[r].via # "portal" =>
                           refunds'[r] <= 1 /\ (refunds'[r] = 1 => ticket[r].status \in RefundStates)
    BY <1>0 DEF RefundEnds, Live
  <2>1. CASE r = x
    BY <1>1, <1>2, <2>1
  <2>2. CASE r # x
    BY <1>0, <1>2, <2>2 DEF RefundEnds
  <2> QED BY <2>1, <2>2
<1>6. ASSUME NEW u \in Workers PROVE Owes(u)'
  <2>1. CASE u = w
    BY <1>3, <2>1 DEF Owes
  <2>2. CASE u # w
    <3>1. pc'[u] = pc[u] /\ job'[u] = job[u] /\ Owes(u)
      BY <1>0, <1>3, <2>2
    <3>2. ASSUME pc[u] = "refund"
          PROVE  /\ job[u].row \in Rows /\ Live(job[u].row)
                 /\ ticket[job[u].row].via # "portal" =>
                      ticket[job[u].row].status \in RefundStates /\ refunds'[job[u].row] = 0
      <4>1. /\ job[u].row \in Rows /\ Live(job[u].row)
            /\ ticket[job[u].row].via # "portal" =>
                 ticket[job[u].row].status \in RefundStates /\ refunds[job[u].row] = 0
        BY <3>1, <3>2 DEF Owes
      <4>2. ticket[x].via # "portal" => job[u].row # x
        BY <1>0, <1>1, <2>2, <3>2 DEF OwedOnce
      <4>3. job[u].row # x => refunds'[job[u].row] = refunds[job[u].row]
        BY <1>2, <4>1
      <4> QED BY <4>1, <4>2, <4>3
    <3> QED BY <1>0, <3>1, <3>2 DEF Owes, OfSale, Live
  <2> QED BY <2>1, <2>2
<1>7. OwedOnce'
  BY <1>0, <1>3, OwedKept
<1> QED BY <1>4, <1>5, <1>6, <1>7 DEF JourneyInv

\* The new ticket of a rebooking is the only one of its sale that is left.
LEMMA RebookJourney ==
    ASSUME IInv, JourneyInv, NEW w \in Workers, RebookCreate(w)
    PROVE  JourneyInv'
<1>0. /\ SalesExist /\ OneTicketLeft /\ RefundEnds /\ OwedOnce /\ (\A u \in Workers : Owes(u))
      /\ pc[w] = "create" /\ refunds' = refunds /\ Finish(w) /\ ticket \in [Rows -> Tickets]
      /\ pc \in [Workers -> Steps] /\ job \in [Workers -> Jobs]
  BY DEF RebookCreate, JourneyInv, IInv, TypeOK
<1>1. PICK x \in Rows : x = job[w].row /\ Live(x) /\ ticket[x] \in Sold
  BY <1>0, TicketFields DEF IInv, Safe
<1>2. PICK s \in Rows : ticket[x].sale = s /\ Live(s)
  BY <1>1, SaleFacts
<1>3. PICK n \in Rows :
        /\ FreshRow(n)
        /\ ticket' = [ticket EXCEPT ![n] =
                [ticket[x] EXCEPT !.status = "CONFIRMED", !.trip = job[w].trip, !.seat = None,
                                  !.version = 1, !.expires = MaxClock, !.via = "rebook"]]
  BY <1>1 DEF RebookCreate
<1>4. /\ ~Live(n) /\ n # s /\ n # x /\ ticket[n].via = None /\ ticket[n].sale \notin Rows
      /\ ticket'[n].status = "CONFIRMED" /\ ticket'[n].sale = s /\ ticket'[n].via = "rebook"
      /\ \A r \in Rows \ {n} : ticket'[r] = ticket[r]
  <2>1. ~Live(n)
    BY <1>3 DEF FreshRow, Live
  <2>2. ticket'[n] = [ticket[x] EXCEPT !.status = "CONFIRMED", !.trip = job[w].trip, !.seat = None,
                                  !.version = 1, !.expires = MaxClock, !.via = "rebook"]
    BY <1>0, <1>3
  <2>3. ticket'[n].status = "CONFIRMED" /\ ticket'[n].sale = s /\ ticket'[n].via = "rebook"
    BY <1>1, <1>2, <2>2 DEF Sold
  <2>4. \A r \in Rows \ {n} : ticket'[r] = ticket[r]
    BY <1>0, <1>3
  <2> QED BY <1>1, <1>2, <2>1, <2>3, <2>4, SaleFacts
<1>5. /\ pc'[w] = "idle" /\ job'[w] = NoJob
      /\ \A u \in Workers \ {w} : pc'[u] = pc[u] /\ job'[u] = job[u]
  BY <1>0 DEF Finish, Goto
<1>6. SalesExist'
  <2> SUFFICES ASSUME NEW r \in Rows
               PROVE  /\ ~(Live(r))' => ticket'[r] = NoTicket
                      /\ (Live(r))' => /\ ticket'[ticket'[r].sale].status # "absent"
                                       /\ ticket'[r].via # "rebook" => ticket'[r].sale = r
    BY DEF SalesExist, Live
  <2>1. CASE r = n
    BY <1>2, <1>4, <2>1 DEF Live
  <2>2. CASE r # n /\ ~Live(r)
    BY <1>0, <1>4, <2>2 DEF SalesExist, Live
  <2>3. CASE r # n /\ Live(r)
    <3>1. ticket'[r] = ticket[r] /\ ticket[r].sale \in Rows /\ Live(ticket[r].sale)
      BY <1>4, <2>3, SaleFacts
    <3>2. ticket'[ticket[r].sale].status # "absent"
      BY <1>4, <3>1 DEF Live
    <3> QED BY <1>0, <2>3, <3>1, <3>2 DEF SalesExist, Live
  <2> QED BY <2>1, <2>2, <2>3
<1>7. \A o \in Rows : o # s => OfSale(o)' = OfSale(o)
  BY <1>4 DEF OfSale
<1>8. OfSale(s)' = OfSale(s) \cup {n}
  BY <1>4 DEF OfSale
<1>9. ticket[s].via = "counter" => \A r \in OfSale(s) : ticket[r].status = "REBOOKED"
  BY <1>0, <1>1, <1>2 DEF Owes
<1>10. \A o \in Rows : ticket'[o].via = "counter" => ticket[o].via = "counter" /\ o # n
  BY <1>4
<1>11. \A o \in Rows : \A r \in OfSale(o) : r # n /\ ticket'[r] = ticket[r]
  BY <1>4 DEF OfSale
<1>12. OneTicketLeft'
  <2> SUFFICES ASSUME NEW o \in Rows, ticket'[o].via = "counter", NEW r \in OfSale(o)', NEW q \in OfSale(o)',
                      "REBOOKED" \notin {ticket'[r].status, ticket'[q].status}
               PROVE  r = q
    BY DEF OneTicketLeft
  <2>1. CASE o = s
    BY <1>8, <1>9, <1>10, <1>11, <2>1
  <2>2. CASE o # s
    BY <1>0, <1>7, <1>10, <1>11, <2>2 DEF OneTicketLeft
  <2> QED BY <2>1, <2>2
<1>13. RefundEnds'
  <2> SUFFICES ASSUME NEW r \in Rows
               PROVE  /\ ~(Live(r))' => refunds[r] = 0
                      /\ (Live(r))' /\ ticket'[r].via # "portal" =>
                           refunds[r] <= 1 /\ (refunds[r] = 1 => ticket'[r].status \in RefundStates)
    BY <1>0 DEF RefundEnds
  <2>1. CASE r = n
    BY <1>0, <1>4, <2>1 DEF RefundEnds
  <2>2. CASE r # n
    BY <1>0, <1>4, <2>2 DEF RefundEnds, Live
  <2> QED BY <2>1, <2>2
<1>14. ASSUME NEW u \in Workers PROVE Owes(u)'
  <2>1. CASE u = w
    BY <1>5, <2>1 DEF Owes
  <2>2. CASE u # w
    <3>1. pc'[u] = pc[u] /\ job'[u] = job[u] /\ Owes(u)
      BY <1>0, <1>5, <2>2
    <3>2. ASSUME pc[u] = "refund"
          PROVE  /\ job[u].row \in Rows /\ (Live(job[u].row))'
                 /\ ticket'[job[u].row].via # "portal" =>
                      ticket'[job[u].row].status \in RefundStates /\ refunds'[job[u].row] = 0
      <4>1. job[u].row \in Rows /\ Live(job[u].row)
        BY <3>1, <3>2 DEF Owes
      <4>2. ticket'[job[u].row] = ticket[job[u].row]
        BY <1>4, <4>1
      <4> QED BY <1>0, <3>1, <3>2, <4>1, <4>2 DEF Owes, Live
    <3>3. ASSUME pc[u] = "create", NEW o \in Rows, ticket'[o].via = "counter",
                 ticket'[job[u].row].sale = o, NEW r \in OfSale(o)'
          PROVE  ticket'[r].status = "REBOOKED"
      <4>1. job[u].row \in Rows /\ Live(job[u].row)
        BY <3>3 DEF IInv, Safe
      <4>2. ticket[job[u].row].sale = o /\ ticket[o].via = "counter"
        BY <1>4, <1>10, <3>3, <4>1
      <4>3. o # s
        BY <1>0, <1>1, <1>2, <2>2, <3>3, <4>2 DEF OwedOnce
      <4> QED BY <1>7, <1>11, <3>1, <3>3, <4>2, <4>3 DEF Owes
    <3> QED BY <3>1, <3>2, <3>3 DEF Owes, Live
  <2> QED BY <2>1, <2>2
<1>15. \A r \in Rows : Live(r) => ticket'[r].sale = ticket[r].sale /\ ticket'[r].via = ticket[r].via
  BY <1>4
<1>16. OwedOnce'
  BY <1>5, <1>15, OwedKept
<1> QED BY <1>6, <1>12, <1>13, <1>14, <1>16 DEF JourneyInv

\* Requests that begin on one ticket say what will follow its transition.
LEMMA BeginJourney ==
    ASSUME IInv, JourneyInv, NEW w \in Workers, NEW r \in Rows, OnTicket(w, r)
    PROVE  JourneyInv'
<1>1. PICK a, then, t :
        /\ Read(w, r, a, then, t)
        /\ then = "refund" => a \in {"CANCEL", "REQUEST_REFUND"}
        /\ then = "create" => a = "REBOOK"
  <2>1. CASE Validate(w, r)
    BY <2>1 DEF Validate
  <2>2. CASE Cancel(w, r)
    BY <2>2 DEF Cancel
  <2>3. CASE MarkNoShow(w, r)
    BY <2>3 DEF MarkNoShow
  <2>4. CASE Rebook(w, r)
    BY <2>4 DEF Rebook
  <2>5. CASE RequestRefund(w, r)
    BY <2>5 DEF RequestRefund
  <2>6. CASE Dispatch(w, r)
    BY <2>6 DEF Dispatch
  <2> QED BY <2>1, <2>2, <2>3, <2>4, <2>5, <2>6 DEF OnTicket
<1>2. PICK j : j = [NoJob EXCEPT !.do = a, !.row = r, !.trip = t, !.then = then,
                                 !.was = ticket[r].status, !.ver = ticket[r].version]
  OBVIOUS
<1>3. j.then = then /\ j.do = a
  BY <1>2 DEF NoJob
<1>4. Goto(w, "tx", j) /\ ticket' = ticket /\ refunds' = refunds /\ "tx" \in Steps \ {"refund", "create"}
  BY <1>1, <1>2 DEF Read, Steps
<1> QED BY <1>1, <1>3, <1>4, NoDebt

\* Every step keeps one journey per sale within reach.
LEMMA JourneyStep == IInv /\ JourneyInv /\ [Next]_vars => JourneyInv'
<1> SUFFICES ASSUME IInv, JourneyInv, [Next]_vars PROVE JourneyInv'
  OBVIOUS
<1>0. /\ {"idle", "insert", "book", "bookPay", "pay", "payTx", "receipt", "ask"}
          \subseteq Steps \ {"refund", "create"}
  BY DEF Steps
<1>1. CASE Tick \/ UNCHANGED vars
  <2>1. UNCHANGED <<ticket, refunds, pc, job>>
    BY <1>1 DEF Tick, vars
  <2>2. SalesExist' /\ OneTicketLeft' /\ RefundEnds'
    BY <2>1 DEF JourneyInv, SalesExist, OneTicketLeft, RefundEnds, OfSale, Live
  <2>3. OwedOnce' /\ \A w \in Workers : Owes(w)'
    BY <2>1 DEF JourneyInv, OwedOnce, Owes, OfSale, Live
  <2> QED BY <2>2, <2>3 DEF JourneyInv
<1>2. ASSUME NEW w \in Workers,
             \/ Issue(w) \/ PortalCheck(w) \/ ConfirmBatch(w) \/ PayRead(w) \/ Receipt(w)
             \/ ReceiptPaid(w) \/ PortalRefund(w) \/ Stops(w)
      PROVE  JourneyInv'
  <2>1. ticket' = ticket /\ refunds' = refunds
    BY <1>2 DEF Issue, PortalCheck, ConfirmBatch, PayRead, Receipt, ReceiptPaid, PortalRefund, Stops
  <2>2. \E step \in {"idle", "insert", "book", "pay", "payTx", "receipt"} : \E j : Goto(w, step, j)
    BY <1>2 DEF Issue, IssueWithin, PortalCheck, ConfirmBatch, PayRead, Receipt, ReceiptPaid,
                PortalRefund, Stops, Finish
  <2>3. PICK step \in {"idle", "insert", "book", "pay", "payTx", "receipt"} : \E j : Goto(w, step, j)
    BY <2>2
  <2>4. PICK j : Goto(w, step, j)
    BY <2>3
  <2>5. step \in Steps \ {"refund", "create"} /\ step # "tx"
    BY <1>0, <2>3
  <2> QED BY <2>1, <2>4, <2>5, NoDebt
<1>3. ASSUME NEW w \in Workers, IssueCommit(w) PROVE JourneyInv'
  <2>1. Arrives(w)
    BY <1>3, InsertArrives DEF IssueCommit
  <2>2. Goto(w, "idle", NoJob) /\ refunds' = refunds
    BY <1>3 DEF IssueCommit, Finish
  <2> QED BY <1>0, <2>1, <2>2, NoDebt
<1>4. ASSUME NEW w \in Workers, PortalCommit(w) PROVE JourneyInv'
  <2>1. Arrives(w)
    BY <1>4, InsertArrives DEF PortalCommit
  <2>2. PICK j : Goto(w, "bookPay", j) /\ refunds' = refunds
    BY <1>4 DEF PortalCommit
  <2> QED BY <1>0, <2>1, <2>2, NoDebt
<1>5. ASSUME NEW w \in Workers, PortalConfirm(w) PROVE JourneyInv'
  <2>1. PICK r \in job[w].left :
          /\ ticket' = [ticket EXCEPT ![r].status = "CONFIRMED", ![r].version = @ + 1]
          /\ IF job[w].left = {r} THEN Finish(w)
             ELSE Goto(w, "bookPay", [job[w] EXCEPT !.left = @ \ {r}])
    BY <1>5 DEF PortalConfirm
  <2>2. Shifts(r)
    BY <1>5, <2>1, PortalShifts DEF PortalConfirm
  <2>3. PICK step \in {"idle", "bookPay"} : \E j : Goto(w, step, j)
    BY <2>1 DEF Finish
  <2>4. PICK j : Goto(w, step, j)
    BY <2>3
  <2>5. refunds' = refunds /\ step \in Steps \ {"refund", "create"} /\ step # "tx"
    BY <1>0, <1>5, <2>3 DEF PortalConfirm
  <2> QED BY <2>2, <2>4, <2>5, NoDebt
<1>6. ASSUME NEW w \in Workers, PayTx(w) PROVE JourneyInv'
  <2>1. ticket' = ticket \/ \E x : Shifts(x)
    BY <1>6, TransitionShifts DEF PayTx
  <2>2. PICK j : Goto(w, "pay", j) /\ refunds' = refunds
    BY <1>6 DEF PayTx
  <2> QED BY <1>0, <2>1, <2>2, NoDebt
<1>7. ASSUME NEW w \in Workers, NEW r \in Rows, OnTicket(w, r) PROVE JourneyInv'
  BY <1>7, BeginJourney
<1>8. ASSUME NEW w \in Workers, Tx(w) \/ RefundCreate(w) \/ RebookCreate(w) PROVE JourneyInv'
  BY <1>8, TxJourney, RefundJourney, RebookJourney
<1>9. ASSUME NEW w \in Workers, NEW r \in Rows, PortalCancel(w, r) PROVE JourneyInv'
  <2>1. PICK j : Goto(w, "ask", j) /\ ticket' = ticket /\ refunds' = refunds
    BY <1>9 DEF PortalCancel
  <2> QED BY <1>0, <2>1, NoDebt
<1> QED BY <1>1, <1>2, <1>3, <1>4, <1>5, <1>6, <1>7, <1>8, <1>9 DEF Next

\* No sale, no ticket, no debt.
LEMMA JourneyInit == Init => JourneyInv
<1> SUFFICES ASSUME Init PROVE JourneyInv
  OBVIOUS
<1>1. SalesExist /\ RefundEnds
  BY DEF Init, SalesExist, RefundEnds, Live, NoTicket
<1>2. OneTicketLeft
  BY TicketingAssumption DEF Init, OneTicketLeft, NoTicket
<1>3. OwedOnce /\ \A w \in Workers : Owes(w)
  BY DEF Init, OwedOnce, Owes
<1> QED BY <1>1, <1>2, <1>3 DEF JourneyInv

\* With one ticket left of a sale, it travels or TicketingService refunds it.
LEMMA JourneyCount == IInv /\ JourneyInv => OneJourneyPerSale
<1> SUFFICES ASSUME IInv, JourneyInv, NEW s \in Rows, ticket[s].via = "counter"
             PROVE  /\ Cardinality({r \in OfSale(s) : ticket[r].status \in
                                      {"CONFIRMED", "CHECKED_IN", "BOARDED", "COMPLETED"}})
                       + Cardinality({r \in OfSale(s) : refunds[r] > 0}) <= 1
                    /\ \A r \in OfSale(s) : refunds[r] <= 1
  BY DEF OneJourneyPerSale
<1> DEFINE T == {r \in OfSale(s) : ticket[r].status \in {"CONFIRMED", "CHECKED_IN", "BOARDED", "COMPLETED"}}
           R == {r \in OfSale(s) : refunds[r] > 0}
<1>1. ASSUME NEW r \in OfSale(s)
      PROVE  /\ Live(r) /\ refunds[r] \in Nat /\ refunds[r] <= 1
             /\ refunds[r] > 0 => ticket[r].status \in RefundStates
  <2>1. r \in Rows /\ refunds[r] \in Nat
    BY DEF OfSale, IInv, TypeOK
  <2>2. Live(r) /\ ticket[r].via # "portal"
    BY <2>1, SaleFacts DEF OfSale
  <2> QED BY <2>1, <2>2 DEF JourneyInv, RefundEnds
<1>2. \A r \in T \cup R : r \in OfSale(s) /\ ticket[r].status # "REBOOKED"
  BY <1>1 DEF RefundStates
<1>3. \A r, q \in T \cup R : r = q
  BY <1>2 DEF JourneyInv, OneTicketLeft
<1>4. T \cap R = {}
  BY <1>1 DEF RefundStates
<1>5. Cardinality({}) = 0 /\ \A x : Cardinality({x}) = 1
  BY FS_EmptySet, FS_Singleton
<1>6. Cardinality(T) + Cardinality(R) <= 1
  <2> HIDE DEF T, R
  <2>1. CASE T \cup R = {}
    <3>1. T = {} /\ R = {}
      BY <2>1
    <3> QED BY <1>5, <3>1
  <2>2. ASSUME NEW x \in T PROVE Cardinality(T) + Cardinality(R) <= 1
    <3>1. T = {x} /\ R = {}
      BY <1>3, <1>4, <2>2
    <3>2. Cardinality(T) = 1 /\ Cardinality(R) = 0
      BY <1>5, <3>1
    <3> QED BY <3>2
  <2>3. ASSUME NEW x \in R PROVE Cardinality(T) + Cardinality(R) <= 1
    <3>1. R = {x} /\ T = {}
      BY <1>3, <1>4, <2>3
    <3>2. Cardinality(R) = 1 /\ Cardinality(T) = 0
      BY <1>5, <3>1
    <3> QED BY <3>2
  <2> QED BY <2>1, <2>2, <2>3
<1> QED BY <1>1, <1>6

(* The strengthening of OneJourneyPerSale, for any number of requests on a ticket: a refund
   of TicketingService is the end of its ticket and is owed by one request, while the refunds
   that requestCancellation of the portal opens leave the ticket and are not counted. *)
THEOREM JourneyInvariance == Spec => []JourneyInv
  BY Invariance, JourneyInit, JourneyStep, PTL DEF Spec

(* A sale of the counter ends in one journey or one refund of TicketingService at most:
   cancel, rebook, requestRefundForMissedTicket, the unified endpoint and requestCancellation
   at the same time, each left at any await.  What the portal, an incident or a cancelled trip
   refunds comes on top. *)
THEOREM JourneyTheorem == Spec => []OneJourneyPerSale
  BY Invariance, JourneyInvariance, JourneyCount, PTL

-----------------------------------------------------------------------------
(* Receipts *)

\* How the tickets change in a step.
LEMMA TicketChanges ==
    ASSUME IInv, [Next]_vars
    PROVE  \A r \in Rows : Settled(r) => Settled(r)'
<1>1. CASE ticket' = ticket
  BY <1>1 DEF Settled
<1>2. ASSUME NEW x, Shifts(x) PROVE \A r \in Rows : Settled(r) => Settled(r)'
  BY <1>2 DEF Shifts, Settled
<1>3. ASSUME NEW w \in Workers, Arrives(w) PROVE \A r \in Rows : Settled(r) => Settled(r)'
  BY <1>3 DEF Arrives, Settled, Live
<1>4. ASSUME NEW w \in Workers, RebookCreate(w) PROVE \A r \in Rows : Settled(r) => Settled(r)'
  <2>1. PICK n \in Rows : FreshRow(n) /\ \A r \in Rows \ {n} : ticket'[r] = ticket[r]
    BY <1>4 DEF RebookCreate, IInv, TypeOK
  <2> QED BY <2>1 DEF FreshRow, Settled
<1>5. CASE Tick \/ UNCHANGED vars
  BY <1>1, <1>5 DEF Tick, vars
<1>6. ASSUME NEW w \in Workers, IssueCommit(w) \/ PortalCommit(w)
      PROVE  \A r \in Rows : Settled(r) => Settled(r)'
  BY <1>3, <1>6, InsertArrives DEF IssueCommit, PortalCommit
<1>7. ASSUME NEW w \in Workers, PortalConfirm(w) PROVE \A r \in Rows : Settled(r) => Settled(r)'
  BY <1>2, <1>7, PortalShifts DEF PortalConfirm
<1>8. ASSUME NEW w \in Workers, PayTx(w) \/ Tx(w) PROVE \A r \in Rows : Settled(r) => Settled(r)'
  BY <1>1, <1>2, <1>8, TransitionShifts DEF PayTx, Tx
<1>9. ASSUME NEW w \in Workers,
             \/ Issue(w) \/ PortalCheck(w) \/ ConfirmBatch(w) \/ PayRead(w) \/ Receipt(w)
             \/ ReceiptPaid(w) \/ RefundCreate(w) \/ (\E r \in Rows : PortalCancel(w, r))
             \/ PortalRefund(w) \/ Stops(w)
      PROVE  \A r \in Rows : Settled(r) => Settled(r)'
  BY <1>1, <1>9 DEF Issue, PortalCheck, ConfirmBatch, PayRead, Receipt, ReceiptPaid, RefundCreate,
                    PortalCancel, PortalRefund, Stops
<1>10. ASSUME NEW w \in Workers, NEW r \in Rows, OnTicket(w, r)
       PROVE  \A q \in Rows : Settled(q) => Settled(q)'
  BY <1>1, <1>10 DEF OnTicket, Validate, Cancel, MarkNoShow, Rebook, RequestRefund, Dispatch, Read
<1> QED BY <1>4, <1>5, <1>6, <1>7, <1>8, <1>9, <1>10 DEF Next

\* A step that keeps the receipts, or adds one that is in order.
LEMMA ReceiptKept ==
    ASSUME IInv, ReceiptInv, [Next]_vars, keys \subseteq keys', NEW w \in Workers,
           \A u \in Workers \ {w} : pc'[u] = pc[u] /\ job'[u] = job[u], PaysFor(w)',
           \A b \in Batches \ keys : receipts'[b] # "absent" =>
             receipts[b] # "absent" \/ \A r \in b : Settled(r),
           \A b \in Batches : receipts[b] # "absent" => receipts'[b] # "absent"
    PROVE  ReceiptInv'
<1>0. \A r \in Rows : Settled(r) => Settled(r)'
  BY TicketChanges
<1>1. ASSUME NEW b \in Batches, b \notin keys', receipts'[b] # "absent" PROVE \A r \in b : Settled(r)'
  <2>1. \A r \in b : r \in Rows /\ Settled(r)
    BY <1>1 DEF ReceiptInv, Batches
  <2> QED BY <1>0, <2>1
<1>2. ASSUME NEW u \in Workers, u # w PROVE PaysFor(u)'
  <2>1. job[u].batch \in SUBSET Rows /\ PaysFor(u) /\ pc'[u] = pc[u] /\ job'[u] = job[u]
    BY <1>2 DEF IInv, TypeOK, Jobs, ReceiptInv
  <2>2. ASSUME pc[u] \in {"pay", "payTx"}, job[u].batch \notin keys', NEW r \in job[u].batch \ job[u].left
        PROVE  Settled(r)'
    BY <1>0, <2>1, <2>2 DEF PaysFor
  <2>3. pc[u] = "receipt" => job[u].batch # {} /\ receipts'[job[u].batch] # "absent"
    BY <2>1 DEF PaysFor, Batches
  <2> QED BY <2>1, <2>2, <2>3 DEF PaysFor, Settled
<1> QED BY <1>1, <1>2 DEF ReceiptInv, Settled

\* What the step of a request leaves of the others.
LEMMA GotoMoves ==
    ASSUME IInv, NEW w \in Workers, NEW step, NEW j, Goto(w, step, j)
    PROVE  /\ pc'[w] = step /\ job'[w] = j
           /\ \A u \in Workers \ {w} : pc'[u] = pc[u] /\ job'[u] = job[u]
  BY DEF Goto, IInv, TypeOK

\* Steps that are not about a receipt.
LEMMA NoReceipt ==
    ASSUME IInv, ReceiptInv, [Next]_vars, NEW w \in Workers,
           NEW step \in Steps \ {"pay", "payTx", "receipt"}, NEW j, Goto(w, step, j),
           receipts' = receipts, keys' = keys
    PROVE  ReceiptInv'
<1>1. /\ pc'[w] = step /\ \A u \in Workers \ {w} : pc'[u] = pc[u] /\ job'[u] = job[u]
  BY GotoMoves
<1>2. PaysFor(w)'
  BY <1>1 DEF PaysFor
<1> QED BY <1>1, <1>2, ReceiptKept

\* The loop of confirmBatch begins, and reads the next ticket.
LEMMA LoopReceipts ==
    ASSUME IInv, ReceiptInv, [Next]_vars, NEW w \in Workers, ConfirmBatch(w) \/ PayRead(w)
    PROVE  ReceiptInv'
<1>1. receipts' = receipts /\ keys' = keys /\ ticket' = ticket
  BY DEF ConfirmBatch, PayRead
<1>2. CASE ConfirmBatch(w)
  <2>1. PICK rs, k : Goto(w, "pay", [NoJob EXCEPT !.do = "PAY", !.batch = rs, !.left = rs, !.keyed = k])
    BY <1>2 DEF ConfirmBatch
  <2>2. PICK j : j = [NoJob EXCEPT !.do = "PAY", !.batch = rs, !.left = rs, !.keyed = k]
    OBVIOUS
  <2>3. j.batch = j.left
    BY <2>2 DEF NoJob
  <2>4. /\ pc'[w] = "pay" /\ job'[w] = j
        /\ \A u \in Workers \ {w} : pc'[u] = pc[u] /\ job'[u] = job[u]
    BY <2>1, <2>2, GotoMoves
  <2>5. PaysFor(w)'
    BY <2>3, <2>4 DEF PaysFor
  <2> QED BY <1>1, <2>4, <2>5, ReceiptKept
<1>3. CASE PayRead(w)
  <2>1. PICK r \in job[w].left :
          Goto(w, "payTx", [job[w] EXCEPT !.row = r, !.was = ticket[r].status, !.ver = ticket[r].version])
    BY <1>3 DEF PayRead
  <2>2. PICK j : j = [job[w] EXCEPT !.row = r, !.was = ticket[r].status, !.ver = ticket[r].version]
    OBVIOUS
  <2>3. job[w] \in Jobs /\ PaysFor(w) /\ pc[w] = "pay"
    BY <1>3 DEF IInv, TypeOK, ReceiptInv, PayRead
  <2>4. j.batch = job[w].batch /\ j.left = job[w].left
    BY <2>2, <2>3 DEF Jobs
  <2>5. /\ pc'[w] = "payTx" /\ job'[w] = j
        /\ \A u \in Workers \ {w} : pc'[u] = pc[u] /\ job'[u] = job[u]
    BY <2>1, <2>2, GotoMoves
  <2>6. PaysFor(w)'
    BY <1>1, <2>3, <2>4, <2>5 DEF PaysFor, Settled
  <2> QED BY <1>1, <2>5, <2>6, ReceiptKept
<1> QED BY <1>2, <1>3

\* The transition PAY settles its ticket; a known key puts the batch out of the property.
LEMMA PayReceipts ==
    ASSUME IInv, ReceiptInv, [Next]_vars, NEW w \in Workers, PayTx(w)
    PROVE  ReceiptInv'
<1>1. PICK b : b = job[w].batch
  OBVIOUS
<1>2. PICK j : j = [job[w] EXCEPT !.left = @ \ {job[w].row}, !.row = None, !.was = "absent", !.ver = 0]
  OBVIOUS
<1>3. /\ receipts' = receipts /\ keys \subseteq keys' /\ pc[w] = "payTx" /\ Goto(w, "pay", j)
  BY <1>2 DEF PayTx
<1>4. b \in keys' \/ (~job[w].keyed /\ b \notin keys /\ keys' = keys /\ Shifts(job[w].row))
  <2>1. CASE job[w].keyed
    BY <1>1, <2>1 DEF PayTx
  <2>2. CASE ~job[w].keyed
    <3>1. Transition(job[w].row, job[w].was, job[w].ver, "PAY") /\ keys' = keys
      BY <2>2 DEF PayTx
    <3>2. Shifts(job[w].row)
      BY <1>3, <3>1, TransitionShifts
    <3> QED BY <2>2, <3>1, <3>2
  <2> QED BY <2>1, <2>2
<1>5. job[w] \in Jobs /\ PaysFor(w)
  BY DEF IInv, TypeOK, ReceiptInv
<1>6. j.batch = b /\ j.left = job[w].left \ {job[w].row}
  BY <1>1, <1>2, <1>5 DEF Jobs
<1>7. /\ pc'[w] = "pay" /\ job'[w] = j
      /\ \A u \in Workers \ {w} : pc'[u] = pc[u] /\ job'[u] = job[u]
  BY <1>3, GotoMoves
<1>8. ASSUME b \notin keys', NEW r \in b \ j.left PROVE Settled(r)'
  <2>1. b \notin keys /\ Shifts(job[w].row)
    BY <1>4, <1>8
  <2>2. CASE r = job[w].row
    BY <2>1, <2>2 DEF Shifts, Settled
  <2>3. CASE r # job[w].row
    <3>1. Settled(r) /\ r \in Rows
      BY <1>1, <1>3, <1>5, <1>6, <1>8, <2>1, <2>3 DEF PaysFor, Jobs
    <3> QED BY <3>1, TicketChanges
  <2> QED BY <2>2, <2>3
<1>9. PaysFor(w)'
  BY <1>6, <1>7, <1>8 DEF PaysFor, Settled
<1> QED BY <1>3, <1>7, <1>9, ReceiptKept

\* The receipt is made when the loop is over, and paid when it exists.
LEMMA MakeReceipts ==
    ASSUME IInv, ReceiptInv, [Next]_vars, NEW w \in Workers, Receipt(w) \/ ReceiptPaid(w)
    PROVE  ReceiptInv'
<1>1. PICK b : b = job[w].batch
  OBVIOUS
<1>2. job[w] \in Jobs /\ PaysFor(w) /\ keys' = keys /\ receipts \in [Batches -> {"absent", "DRAFT", "PAID"}]
  BY DEF IInv, TypeOK, ReceiptInv, Receipt, ReceiptPaid
<1>3. b \in Batches
  BY <1>1, <1>2 DEF Jobs, Batches, PaysFor, Receipt, ReceiptPaid, IInv, Safe
<1>4. CASE Receipt(w) /\ receipts[b] # "absent"
  <2>1. Goto(w, "idle", NoJob) /\ receipts' = receipts
    BY <1>1, <1>4 DEF Receipt, Finish
  <2> QED BY <1>2, <2>1, NoReceipt DEF Steps
<1>5. CASE Receipt(w) /\ receipts[b] = "absent"
  <2>1. PICK j : j = [NoJob EXCEPT !.batch = b]
    OBVIOUS
  <2>2. receipts' = [receipts EXCEPT ![b] = "DRAFT"] /\ Goto(w, "receipt", j)
    BY <1>1, <1>5, <2>1 DEF Receipt
  <2>3. j.batch = b
    BY <2>1 DEF NoJob
  <2>4. /\ pc'[w] = "receipt" /\ job'[w] = j
        /\ \A u \in Workers \ {w} : pc'[u] = pc[u] /\ job'[u] = job[u]
    BY <2>2, GotoMoves
  <2>5. receipts'[b] = "DRAFT" /\ \A c \in Batches \ {b} : receipts'[c] = receipts[c]
    BY <1>2, <1>3, <2>2
  <2>6. PaysFor(w)'
    BY <1>3, <2>3, <2>4, <2>5 DEF PaysFor, Batches
  <2>7. b \notin keys => \A r \in b : Settled(r)
    BY <1>1, <1>2, <1>5 DEF PaysFor, Receipt
  <2> QED BY <1>2, <2>4, <2>5, <2>6, <2>7, ReceiptKept
<1>6. CASE ReceiptPaid(w)
  <2>1. receipts' = [receipts EXCEPT ![b] = "PAID"] /\ Goto(w, "idle", NoJob)
    BY <1>1, <1>6 DEF ReceiptPaid, Finish
  <2>2. /\ pc'[w] = "idle" /\ \A u \in Workers \ {w} : pc'[u] = pc[u] /\ job'[u] = job[u]
    BY <2>1, GotoMoves
  <2>3. receipts'[b] = "PAID" /\ \A c \in Batches \ {b} : receipts'[c] = receipts[c]
    BY <1>2, <1>3, <2>1
  <2>4. receipts[b] # "absent"
    BY <1>1, <1>2, <1>6 DEF PaysFor, ReceiptPaid
  <2>5. PaysFor(w)'
    BY <2>2 DEF PaysFor
  <2> QED BY <1>2, <2>2, <2>3, <2>4, <2>5, ReceiptKept
<1> QED BY <1>4, <1>5, <1>6

\* Every step keeps the receipts in order.
LEMMA ReceiptStep == IInv /\ ReceiptInv /\ [Next]_vars => ReceiptInv'
<1> SUFFICES ASSUME IInv, ReceiptInv, [Next]_vars PROVE ReceiptInv'
  OBVIOUS
<1>0. {"idle", "insert", "book", "bookPay", "tx", "refund", "create", "ask"}
          \subseteq Steps \ {"pay", "payTx", "receipt"}
  BY DEF Steps
<1>1. CASE Tick \/ UNCHANGED vars
  <2>1. UNCHANGED <<ticket, receipts, keys, pc, job>>
    BY <1>1 DEF Tick, vars
  <2> QED BY <2>1 DEF ReceiptInv, PaysFor, Settled
<1>2. ASSUME NEW w \in Workers,
             \/ Issue(w) \/ IssueCommit(w) \/ PortalCheck(w) \/ PortalCommit(w) \/ PortalConfirm(w)
             \/ RefundCreate(w) \/ RebookCreate(w) \/ (\E r \in Rows : PortalCancel(w, r))
             \/ PortalRefund(w) \/ Stops(w)
      PROVE  ReceiptInv'
  <2>1. receipts' = receipts /\ keys' = keys
    BY <1>2 DEF Issue, IssueCommit, PortalCheck, PortalCommit, PortalConfirm, RefundCreate, RebookCreate,
                PortalCancel, PortalRefund, Stops
  <2>2. PICK step \in {"idle", "insert", "book", "bookPay", "ask"} : \E j : Goto(w, step, j)
    BY <1>2 DEF Issue, IssueWithin, IssueCommit, PortalCheck, PortalCommit, PortalConfirm, RefundCreate,
                RebookCreate, PortalCancel, PortalRefund, Stops, Finish
  <2>3. PICK j : Goto(w, step, j)
    BY <2>2
  <2>4. step \in Steps \ {"pay", "payTx", "receipt"}
    BY <1>0, <2>2
  <2> QED BY <2>1, <2>3, <2>4, NoReceipt
<1>3. ASSUME NEW w \in Workers, Tx(w) PROVE ReceiptInv'
  <2>1. job[w].then \in {"idle", "refund", "create"}
    BY <1>3 DEF Tx, IInv, Safe
  <2>2. PICK j : Goto(w, job[w].then, j) /\ receipts' = receipts /\ keys' = keys
    BY <1>3 DEF Tx, Finish
  <2>3. job[w].then \in Steps \ {"pay", "payTx", "receipt"}
    BY <1>0, <2>1
  <2> QED BY <2>2, <2>3, NoReceipt
<1>4. ASSUME NEW w \in Workers, NEW r \in Rows, OnTicket(w, r) PROVE ReceiptInv'
  <2>1. PICK a, then, t : Read(w, r, a, then, t)
    BY <1>4 DEF OnTicket, Validate, Cancel, MarkNoShow, Rebook, RequestRefund, Dispatch
  <2>2. PICK j : Goto(w, "tx", j) /\ receipts' = receipts /\ keys' = keys
    BY <2>1 DEF Read
  <2> QED BY <1>0, <2>2, NoReceipt
<1>5. ASSUME NEW w \in Workers, ConfirmBatch(w) \/ PayRead(w) \/ PayTx(w) \/ Receipt(w) \/ ReceiptPaid(w)
      PROVE  ReceiptInv'
  BY <1>5, LoopReceipts, PayReceipts, MakeReceipts
<1> QED BY <1>1, <1>2, <1>3, <1>4, <1>5 DEF Next

(* The strengthening of ReceiptMeansPaid: what the loop of confirmBatch has dealt with. *)
THEOREM ReceiptInvariance == Spec => []ReceiptInv
<1>1. Init => ReceiptInv
  BY DEF Init, ReceiptInv, PaysFor
<1> QED BY <1>1, Invariance, ReceiptStep, PTL DEF Spec

(* A PAID receipt of a batch confirmed without a key stands for tickets that were all paid. *)
THEOREM ReceiptTheorem == Spec => []ReceiptMeansPaid
<1>1. ReceiptInv => ReceiptMeansPaid
  BY DEF ReceiptInv, ReceiptMeansPaid, Settled
<1> QED BY <1>1, ReceiptInvariance, PTL

-----------------------------------------------------------------------------
(* Every transition *)

(* Every step keeps or moves rows as Kept says. *)
LEMMA StepKept ==
    ASSUME IInv, Next
    PROVE  ticket' = ticket \/ \E w \in Workers : Kept(w)
<1>1. CASE Tick
  BY <1>1 DEF Tick
<1>2. ASSUME NEW w \in Workers,
             Issue(w) \/ IssueCommit(w) \/ PortalCheck(w) \/ PortalCommit(w) \/ PortalConfirm(w)
      PROVE  Kept(w)
  BY <1>2, IssueSafe, IssueCommitSafe, PortalCheckSafe, PortalCommitSafe, PortalConfirmSafe
<1>3. ASSUME NEW w \in Workers,
             ConfirmBatch(w) \/ PayRead(w) \/ PayTx(w) \/ Receipt(w) \/ ReceiptPaid(w)
      PROVE  Kept(w)
  BY <1>3, ConfirmBatchSafe, PayReadSafe, PayTxSafe, ReceiptSafe
<1>4. ASSUME NEW w \in Workers,
             \/ \E r \in Rows : OnTicket(w, r)
             \/ Tx(w) \/ RefundCreate(w) \/ RebookCreate(w)
             \/ (\E r \in Rows : PortalCancel(w, r)) \/ PortalRefund(w) \/ Stops(w)
      PROVE  Kept(w)
  BY <1>4, OnTicketSafe, TxSafe, EndSafe, PortalCancelSafe
<1> QED BY <1>1, <1>2, <1>3, <1>4 DEF Next

(* The tickets of the counter and of rebookings walk the blueprint, one version per transition,
   for any number of requests on old snapshots. *)
THEOREM BlueprintTheorem == Spec => BlueprintRespected
<1>1. IInv /\ [Next]_vars =>
        [\A r \in Rows : Live(r) /\ ticket[r].via # "portal" /\ ticket'[r] # ticket[r] =>
           /\ ticket'[r].version = ticket[r].version + 1
           /\ \E x \in Edges : x[1] = ticket[r].status /\ x[3] = ticket'[r].status]_vars
  BY StepKept DEF Kept, TicketStep, Moves, Appears
<1> QED BY <1>1, Invariance, PTL DEF Spec, BlueprintRespected
=============================================================================
