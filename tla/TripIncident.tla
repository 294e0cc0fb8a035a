---------------------------- MODULE TripIncident ----------------------------
(***************************************************************************)
(* A trip that is suspended, delayed or cancelled, and what its passengers *)
(* are given for it: refunds, vouchers and snacks created one by one after *)
(* the transition of the trip, by the request itself (incidents) or by the *)
(* subscriber of TRIP_CANCELLED (RefundTripListener).                      *)
(*                                                                         *)
(* The trip is a workflow entity: a transition is applied to the snapshot  *)
(* read before, if it is still the current version (WorkflowEngine).       *)
(***************************************************************************)
EXTENDS Naturals, Sequences, FiniteSets

CONSTANTS
    Tickets,      \* tickets of the trip
    Workers,      \* requests and outbox deliveries that may run at once
    Routes,       \* ways to move a trip: subset of {"dispatch", "service"}
    MaxVersion,   \* bound on the version of the trip
    MaxDeliveries,  \* bound on how often the outbox starts to deliver one event
    None

ASSUME TripIncidentAssumption ==
    /\ Routes \subseteq {"dispatch", "service"}
    /\ MaxVersion \in Nat /\ MaxDeliveries \in Nat
    /\ None \notin Tickets

VARIABLES
    trip,         \* status and version
    ticket,       \* ticket[t]: status
    given,        \* given[t][c]: rows created for ticket t, c = <<reason, kind>>
    event,        \* outbox row of the cancellation: type, status, deliveries started
    autoApprove,  \* TenantBusinessConfig.autoApproveTripCancelled
    pc, job,      \* requests: step, and what they carry from await to await
    declared,     \* history: committed declarations of a major delay
    due,          \* history: tickets active when the trip was cancelled
    lost          \* history: a listener logged an error and gave up

hist == <<declared, due, lost>>
vars == <<trip, ticket, given, event, autoApprove, pc, job, hist>>

\* WorkflowConfig rows <<from, action, to>> of a trip.
TripEdges == {
    <<"PLANNED", "START_BOARDING", "OPEN">>, <<"OPEN", "BEGIN_BOARDING", "BOARDING">>,
    <<"BOARDING", "DEPART", "IN_PROGRESS">>, <<"PLANNED", "CANCEL", "CANCELLED">>,
    <<"IN_PROGRESS", "PAUSE", "IN_PROGRESS_PAUSED">>,
    <<"IN_PROGRESS_PAUSED", "RESUME", "IN_PROGRESS">>,
    <<"IN_PROGRESS", "REPORT_INCIDENT", "IN_PROGRESS_DELAYED">>,
    <<"IN_PROGRESS_DELAYED", "CLEAR_INCIDENT", "IN_PROGRESS">>,
    <<"IN_PROGRESS", "END_TRIP", "COMPLETED">>}

\* The rows of the incident scenarios.
IncidentEdges ==
    {<<s, "SUSPEND", "SUSPENDED">> : s \in {"IN_PROGRESS", "IN_PROGRESS_DELAYED"}}
    \cup {<<"SUSPENDED", "RESUME_FROM_SUSPEND", "IN_PROGRESS">>}
    \cup {<<s, "CANCEL_IN_TRANSIT", "CANCELLED_IN_TRANSIT">> :
             s \in {"IN_PROGRESS", "IN_PROGRESS_DELAYED", "SUSPENDED"}}
    \cup {<<s, "DECLARE_MAJOR_DELAY", "IN_PROGRESS_DELAYED">> :
             s \in {"IN_PROGRESS", "IN_PROGRESS_DELAYED"}}
    \cup {<<"SUSPENDED", "DECLARE_MAJOR_DELAY", "SUSPENDED">>}

Edges == TripEdges \cup IncidentEdges
TripStates == {x[1] : x \in Edges} \cup {x[3] : x \in Edges}
Verbs == {x[2] : x \in Edges}
IncidentVerbs == {x[2] : x \in IncidentEdges}

Reasons == {"TRIP_CANCELLED", "INCIDENT_IN_TRANSIT", "MAJOR_DELAY"}
Rows == Reasons \X {"refund", "voucher", "item"}

\* What the tier and the form of compensation of a delay create for a ticket, in this
\* order: MONETARY, VOUCHER, MIXED or SNACK (or a percentage of 0), then the snack.
DelayKinds == {money \o snack :
    money \in {<<"refund">>, <<"voucher">>, <<"refund", "voucher">>, <<>>},
    snack \in {<<>>, <<"item">>}}

\* A distance travelled as long as the whole trip leaves nothing to refund.
TransitKinds == {<<"refund">>, <<>>}

\* Tickets the loops are about: CONFIRMED stands for CHECKED_IN and BOARDED too.
Active == {t \in Tickets : ticket[t] = "CONFIRMED"}

NoJob == [do |-> None, was |-> None, ver |-> 0, by |-> None,
          left |-> {}, kinds |-> <<>>, on |-> None, todo |-> <<>>, why |-> None]

Goto(w, step, j) == /\ pc' = [pc EXCEPT ![w] = step]
                    /\ job' = [job EXCEPT ![w] = j]
Finish(w) == Goto(w, "idle", NoJob)

\* A loop that creates rows of these kinds for the tickets that are active now.
Loop(kinds, why) == [NoJob EXCEPT !.left = Active, !.kinds = kinds, !.why = why]

\* A trip in any state it can still leave, its tickets paid or about to be.
Init ==
    /\ trip \in [status : {x[1] : x \in Edges}, ver : {0}]
    /\ ticket \in [Tickets -> {"PENDING_PAYMENT", "CONFIRMED"}]
    /\ given = [t \in Tickets |-> [c \in Rows |-> 0]]
    /\ event = [type |-> None, status |-> "none", tries |-> 0]
    /\ autoApprove \in BOOLEAN
    /\ pc = [w \in Workers |-> "idle"]
    /\ job = [w \in Workers |-> NoJob]
    /\ declared = 0 /\ due = {} /\ lost = FALSE

-----------------------------------------------------------------------------
(* Moving the trip *)

\* A request has read the trip and asks for action a: through POST workflow/transition
\* (any action), TripService.transition (any action) or an incident endpoint.
ReadTrip(w, a, by) ==
    /\ pc[w] = "idle" /\ trip.ver < MaxVersion
    /\ \E x \in Edges : x[1] = trip.status /\ x[2] = a
    /\ by = "incident" => a \in IncidentVerbs
    /\ Goto(w, "tx", [NoJob EXCEPT !.do = a, !.was = trip.status, !.ver = trip.ver, !.by = by])
    /\ UNCHANGED <<trip, ticket, given, event, autoApprove, hist>>

\* Slip: the bare state reached is the type.
EventTypeBare(by) == "CANCELLED"

\* Type of the event published with a cancellation: the dispatcher names it after the
\* action, TripService after the state reached.
EventType(by) == IF by = "dispatch" THEN "trip.cancel" ELSE "trip.cancelled"

\* Slip: the version is not compared with the snapshot's.
CurrentAlways(j) == TRUE

\* Row lock and version check of the engine.
Current(j) == trip.ver = j.ver

\* The fan-out of an incident, if there is anything to create.
Fan(w, kinds, why) == IF kinds = <<>> \/ Active = {} THEN Finish(w)
                      ELSE Goto(w, "loop", Loop(kinds, why))

\* The transaction of the transition.  The incident endpoints then read the active
\* tickets (a ticket that changes between the two steps may as well change before the
\* first) and start to compensate them.
CommitTrip(w) ==
    /\ pc[w] = "tx"
    /\ LET j == job[w] IN
         /\ Current(j)
         /\ \E x \in Edges : /\ x[1] = j.was /\ x[2] = j.do
                             /\ trip' = [status |-> x[3], ver |-> trip.ver + 1]
         /\ IF j.do = "CANCEL"
            THEN /\ event' = [type |-> EventType(j.by), status |-> "PENDING", tries |-> 0]
                 /\ due' = Active
            ELSE UNCHANGED <<event, due>>
         /\ declared' = IF j.do = "DECLARE_MAJOR_DELAY" THEN declared + 1 ELSE declared
         /\ \/ /\ j.by = "incident" /\ j.do = "CANCEL_IN_TRANSIT"
               /\ \E k \in TransitKinds : Fan(w, k, "INCIDENT_IN_TRANSIT")
            \/ /\ j.by = "incident" /\ j.do = "DECLARE_MAJOR_DELAY"
               /\ \E k \in DelayKinds : Fan(w, k, "MAJOR_DELAY")
            \/ /\ j.by # "incident" \/ j.do \in {"SUSPEND", "RESUME_FROM_SUSPEND"}
               /\ Finish(w)
    /\ UNCHANGED <<ticket, given, autoApprove, lost>>

-----------------------------------------------------------------------------
(* The loops over the tickets *)

\* The kinds left for the ticket the loop is at, or all of them for the next ticket.
Todo(j) == IF j.todo = <<>> THEN j.kinds ELSE j.todo
Candidates(j) == IF j.todo = <<>> THEN j.left ELSE {j.on}
Give(j, t) == given' = [given EXCEPT ![t][<<j.why, Head(Todo(j))>>] = @ + 1]

\* Slip: the loop forgets that it has treated the ticket.
AfterSame(j, t) == [j EXCEPT !.on = t, !.todo = Tail(Todo(j))]

\* The loop has created the next row, for ticket t.
After(j, t) == [j EXCEPT !.left = @ \ {t}, !.on = t, !.todo = Tail(Todo(j))]

\* The next row of cancelInTransit or declareMajorDelay, in a transaction of its own.
Compensate(w) ==
    /\ pc[w] = "loop"
    /\ \E t \in Candidates(job[w]) :
         LET next == After(job[w], t) IN
         /\ Give(job[w], t)
         /\ IF Candidates(next) = {} THEN Finish(w) ELSE Goto(w, "loop", next)
    /\ UNCHANGED <<trip, ticket, event, autoApprove, hist>>

\* The outbox delivers the event to the subscribers of its type, again if the delivery
\* was not recorded; the handler of TRIP_CANCELLED reads the active tickets.
Deliver(w) ==
    /\ event.status = "PENDING" /\ event.tries < MaxDeliveries /\ pc[w] = "idle"
    /\ IF event.type = "trip.cancelled"
       THEN /\ Goto(w, "bulk", Loop(<<"refund">>, "TRIP_CANCELLED"))
            /\ event' = [event EXCEPT !.tries = @ + 1]
       ELSE event' = [event EXCEPT !.status = "DELIVERED"] /\ UNCHANGED <<pc, job>>
    /\ UNCHANGED <<trip, ticket, given, autoApprove, hist>>

Delivered(w) == Finish(w) /\ event' = [event EXCEPT !.status = "DELIVERED"]

\* createBulkForTrip, one ticket: the refund, then its approval in the name of SYSTEM
\* if the tenant wants it, which the engine refuses: the error ends the loop, the
\* listener logs it and the delivery counts as done.
Bulk(w) ==
    /\ pc[w] = "bulk"
    /\ \E t \in Candidates(job[w]) :
         /\ Give(job[w], t)
         /\ IF autoApprove THEN Delivered(w) /\ lost' = TRUE
            ELSE Goto(w, "bulk", After(job[w], t)) /\ UNCHANGED <<event, lost>>
    /\ UNCHANGED <<trip, ticket, autoApprove, declared, due>>

\* Slip: the delivery is recorded before the loop has ended.
BulkDoneEarly(w) ==
    /\ pc[w] = "bulk"
    /\ event' = [event EXCEPT !.status = "DELIVERED"]
    /\ UNCHANGED <<trip, ticket, given, autoApprove, pc, job, hist>>

BulkDone(w) ==
    /\ pc[w] = "bulk" /\ Candidates(job[w]) = {}
    /\ Delivered(w)
    /\ UNCHANGED <<trip, ticket, given, autoApprove, hist>>

\* Any other error of the handler (a row that cannot be written).
BulkError(w) ==
    /\ pc[w] = "bulk"
    /\ Delivered(w)
    /\ lost' = TRUE
    /\ UNCHANGED <<trip, ticket, given, autoApprove, declared, due>>

-----------------------------------------------------------------------------
\* A ticket is paid or cancelled meanwhile; neither looks at the trip's status.
Confirm(t) ==
    /\ ticket[t] = "PENDING_PAYMENT"
    /\ ticket' = [ticket EXCEPT ![t] = "CONFIRMED"]
    /\ UNCHANGED <<trip, given, event, autoApprove, pc, job, hist>>

Cancel(t) ==
    /\ ticket[t] = "CONFIRMED"
    /\ ticket' = [ticket EXCEPT ![t] = "CANCELLED"]
    /\ UNCHANGED <<trip, given, event, autoApprove, pc, job, hist>>

\* A request ends at any await: refused, in conflict, timed out, or its pod died.
Fail(w) ==
    /\ pc[w] # "idle"
    /\ Finish(w)
    /\ UNCHANGED <<trip, ticket, given, event, autoApprove, hist>>

Next ==
    \/ \E w \in Workers :
         \/ \E a \in Verbs, by \in Routes \cup {"incident"} : ReadTrip(w, a, by)
         \/ CommitTrip(w) \/ Compensate(w)
         \/ Deliver(w) \/ Bulk(w) \/ BulkDone(w) \/ BulkError(w)
         \/ Fail(w)
    \/ \E t \in Tickets : Confirm(t) \/ Cancel(t)

Spec == Init /\ [][Next]_vars

-----------------------------------------------------------------------------
\* Type correctness of the tables and of the requests in flight.
TypeOK ==
    /\ trip \in [status : TripStates, ver : Nat]
    /\ ticket \in [Tickets -> {"PENDING_PAYMENT", "CONFIRMED", "CANCELLED"}]
    /\ given \in [Tickets -> [Rows -> Nat]]
    /\ event \in [type : {None, "trip.cancel", "trip.cancelled"},
                  status : {"none", "PENDING", "DELIVERED"}, tries : 0 .. MaxDeliveries]
    /\ autoApprove \in BOOLEAN /\ lost \in BOOLEAN
    /\ pc \in [Workers -> {"idle", "tx", "loop", "bulk"}]
    /\ declared \in Nat /\ due \subseteq Tickets

\* A trip cancelled on its way compensates a ticket once, and never one that the
\* cancellation before departure or the loop of the listener also refunds, even if
\* several dispatchers act at the same moment (cancelInTransit, createBulkForTrip).
IncidentRefundOnce ==
    \A t \in Tickets :
        /\ given[t][<<"INCIDENT_IN_TRANSIT", "refund">>] <= 1
        /\ given[t][<<"TRIP_CANCELLED", "refund">>] > 0 =>
             \A k \in {"refund", "voucher", "item"} :
                 given[t][<<"INCIDENT_IN_TRANSIT", k>>] + given[t][<<"MAJOR_DELAY", k>>] = 0

\* A passenger gets at most one row of each kind for each declared delay, however many
\* dispatchers declare it at once (declareMajorDelay: the loop follows the transition).
DelayPaidPerDeclaration ==
    \A t \in Tickets, k \in {"refund", "voucher", "item"} :
        given[t][<<"MAJOR_DELAY", k>>] <= declared

\* When the listener of TRIP_CANCELLED ended without an error, every ticket that was
\* active at the cancellation and still is has its refund, whatever crashes,
\* redeliveries and cancellations came in between.
DeliveredCoversTrip ==
    event.type = "trip.cancelled" /\ event.status = "DELIVERED" /\ ~lost
    => \A t \in due \cap Active : given[t][<<"TRIP_CANCELLED", "refund">>] > 0

\* What the heading of createBulkForTrip says of a cancelled trip: a refund for all
\* active tickets, once the event of the cancellation is delivered.
BulkRefundsAll ==
    event.status = "DELIVERED" =>
        \A t \in due \cap Active : given[t][<<"TRIP_CANCELLED", "refund">>] > 0

\* Whatever interleaves, the trip takes one transition of the blueprint at a time, from the
\* state it really had: an incident declared on an old snapshot revives no cancelled trip.
BlueprintRespected ==
    [][trip' # trip => /\ trip'.ver = trip.ver + 1
                       /\ \E x \in Edges : x[1] = trip.status /\ x[3] = trip'.status]_vars

-----------------------------------------------------------------------------
(* What makes the three properties inductive. *)

Kinds == {"refund", "voucher", "item"}
Elems(kinds) == {kinds[i] : i \in 1 .. Len(kinds)}

Jobs == [do : Verbs \cup {None}, was : TripStates \cup {None}, ver : Nat,
         by : Routes \cup {"incident", None}, left : SUBSET Tickets, kinds : DelayKinds,
         on : Tickets \cup {None}, todo : DelayKinds, why : Reasons \cup {None}]

\* What a request carries: a snapshot that is not ahead of the trip and is it at equal
\* versions, or a loop; the loops of refunds give one row to each ticket.
Carries(w) ==
    LET j == job[w] IN
    /\ pc[w] = "tx" => /\ j.do \in Verbs /\ j.ver <= trip.ver
                       /\ j.ver = trip.ver => j.was = trip.status
    /\ pc[w] \in {"loop", "bulk"} => j.kinds # <<>>
    /\ pc[w] = "loop" => j.why \in {"INCIDENT_IN_TRANSIT", "MAJOR_DELAY"}
    /\ pc[w] = "loop" /\ j.todo # <<>> => j.on \in Tickets
    /\ pc[w] = "bulk" => j.why = "TRIP_CANCELLED"
    /\ (pc[w] = "loop" /\ j.why = "INCIDENT_IN_TRANSIT") \/ pc[w] = "bulk" =>
          j.kinds = <<"refund">> /\ j.todo = <<>>

\* The loop of w will still give ticket t a row of kind k for a declared delay.
Promises(w, t, k) ==
    LET j == job[w] IN
    /\ pc[w] = "loop" /\ j.why = "MAJOR_DELAY"
    /\ (t \in j.left /\ k \in Elems(j.kinds)) \/ (t = j.on /\ k \in Elems(j.todo))

Promising(t, k) == {w \in Workers : Promises(w, t, k)}

\* What a ticket has of the delays and what it is promised is within what was declared.
DelayAccount ==
    \A t \in Tickets, k \in Kinds :
        /\ IsFiniteSet(Promising(t, k))
        /\ given[t][<<"MAJOR_DELAY", k>>] + Cardinality(Promising(t, k)) <= declared

\* One loop at most compensates a trip cancelled on its way.
InTransit(w) == pc[w] = "loop" /\ job[w].why = "INCIDENT_IN_TRANSIT"

OneTransitLoop ==
    /\ trip.status # "CANCELLED_IN_TRANSIT" =>
          /\ \A w \in Workers : ~InTransit(w)
          /\ \A t \in Tickets, k \in Kinds : given[t][<<"INCIDENT_IN_TRANSIT", k>>] = 0
    /\ \A u, w \in Workers : InTransit(u) /\ InTransit(w) => u = w
    /\ \A t \in Tickets :
          /\ given[t][<<"INCIDENT_IN_TRANSIT", "refund">>] <= 1
          /\ \A w \in Workers : InTransit(w) /\ t \in job[w].left =>
                given[t][<<"INCIDENT_IN_TRANSIT", "refund">>] = 0

\* A trip that never left has no incident, one that is not cancelled no refund of the listener.
Before == {"PLANNED", "OPEN", "BOARDING", "CANCELLED"}

Apart ==
    /\ trip.status \in Before =>
          /\ \A w \in Workers : pc[w] # "loop"
          /\ \A t \in Tickets, k \in Kinds : /\ given[t][<<"INCIDENT_IN_TRANSIT", k>>] = 0
                                            /\ given[t][<<"MAJOR_DELAY", k>>] = 0
    /\ trip.status # "CANCELLED" =>
          /\ event.status = "none" /\ \A w \in Workers : pc[w] # "bulk"
          /\ \A t \in Tickets : given[t][<<"TRIP_CANCELLED", "refund">>] = 0

\* The listener's loop skips no ticket it owes a refund.
Covers ==
    /\ \A t \in due : ticket[t] # "PENDING_PAYMENT"
    /\ \A w \in Workers : pc[w] = "bulk" =>
          \A t \in due \cap Active :
              t \in job[w].left \/ given[t][<<"TRIP_CANCELLED", "refund">>] > 0
    /\ DeliveredCoversTrip

IInv ==
    /\ TypeOK /\ job \in [Workers -> Jobs]
    /\ \A w \in Workers : Carries(w)
    /\ DelayAccount /\ OneTransitLoop /\ Apart /\ Covers
=============================================================================
