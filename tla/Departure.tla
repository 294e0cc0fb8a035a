----------------------------- MODULE Departure ------------------------------
(***************************************************************************)
(* Getting a trip on the road: the driver opens boarding and departs from  *)
(* his portal, passengers are checked in and boarded, the manifest is      *)
(* generated, signed or rejected, and the dispatcher endpoint moves any of *)
(* them too, all in concurrent requests.                                   *)
(*                                                                         *)
(* Trip, manifest and travelers are workflow entities: a transition is     *)
(* applied to the snapshot read before, if it is still the current version.*)
(* The code keeps a manifest per kind and the driver needs a signed one of *)
(* any: there is one here, which stands for the one he finds.              *)
(***************************************************************************)
EXTENDS Naturals, Sequences, FiniteSets

CONSTANTS
    Tickets,      \* tickets of the trip; a ticket's traveler is named after it
    Trip, Manifest,
    Workers,      \* requests that may run at once
    MaxVersion,   \* bound on the versions of an entity
    None

ASSUME DepartureAssumption ==
    /\ Trip \notin Tickets /\ Manifest \notin Tickets /\ Trip # Manifest
    /\ MaxVersion \in Nat
    /\ IsFiniteSet(Tickets)
    /\ None \notin {"driver", "dispatch"}

VARIABLES
    row,      \* row[e]: status and version of the trip, the manifest and the travelers
    ticket,   \* ticket[t]: status of the ticket
    count,    \* passengerCount of the manifest
    pc, job,  \* requests: step, and what they carry from await to await
    leftBy    \* history: who made the trip depart, "driver" or "dispatch"

vars == <<row, ticket, count, pc, job, leftBy>>

Entities == Tickets \cup {Trip, Manifest}

\* WorkflowConfig rows <<from, action, to>> up to the end of an undisturbed trip
\* (TripIncident has the others).
TripEdges == {
    <<"PLANNED", "START_BOARDING", "OPEN">>, <<"OPEN", "BEGIN_BOARDING", "BOARDING">>,
    <<"BOARDING", "DEPART", "IN_PROGRESS">>, <<"IN_PROGRESS", "END_TRIP", "COMPLETED">>,
    <<"PLANNED", "CANCEL", "CANCELLED">>}
TravelerEdges == {
    <<"REGISTERED", "VERIFY", "VERIFIED">>, <<"VERIFIED", "SCAN_IN", "CHECKED_IN">>,
    <<"CHECKED_IN", "SCAN_BOARD", "BOARDED">>, <<"BOARDED", "SCAN_OUT", "ARRIVED">>,
    <<"ARRIVED", "EXIT", "EXITED">>}
ManifestEdges == {
    <<"DRAFT", "submit", "SUBMITTED">>, <<"SUBMITTED", "sign", "SIGNED">>,
    <<"SUBMITTED", "reject", "REJECTED">>, <<"SIGNED", "archive", "ARCHIVED">>,
    <<"REJECTED", "revise", "DRAFT">>}

\* The states of the three kinds of entities differ, so one table serves all.
Edges == TripEdges \cup TravelerEdges \cup ManifestEdges
Statuses == {"absent"} \cup {x[1] : x \in Edges} \cup {x[3] : x \in Edges}
Has(s, a) == \E x \in Edges : x[1] = s /\ x[2] = a

NoJob == [ent |-> None, was |-> None, ver |-> 0, plan |-> <<>>, by |-> None, count |-> 0]

Goto(w, step, j) == /\ pc' = [pc EXCEPT ![w] = step]
                    /\ job' = [job EXCEPT ![w] = j]
Finish(w) == Goto(w, "idle", NoJob)

\* The request holds entity e as it is now and goes on with the actions of plan.
Snapshot(w, e, plan, by) ==
    Goto(w, "tx", [ent |-> e, was |-> row[e].status, ver |-> row[e].ver, plan |-> plan,
                   by |-> by, count |-> 0])

Init ==
    /\ row = [e \in Entities |->
                [status |-> IF e = Trip THEN "PLANNED" ELSE "absent", ver |-> 0]]
    /\ ticket = [t \in Tickets |-> "CONFIRMED"]
    /\ count = 0
    /\ pc = [w \in Workers |-> "idle"]
    /\ job = [w \in Workers |-> NoJob]
    /\ leftBy = None

-----------------------------------------------------------------------------
(* Transitions *)

\* POST workflow/transition: any entity, any action of its table, no other condition.
Dispatch(w, e, a) ==
    /\ pc[w] = "idle" /\ row[e].ver < MaxVersion
    /\ Has(row[e].status, a)
    /\ Snapshot(w, e, <<a>>, "dispatch")
    /\ UNCHANGED <<row, ticket, count, leftBy>>

\* planDriverActionSequence.
Plan(from, target) ==
    CASE target = "BOARDING" /\ from = "PLANNED" -> <<"START_BOARDING", "BEGIN_BOARDING">>
      [] target = "BOARDING" /\ from = "OPEN" -> <<"BEGIN_BOARDING">>
      [] target = "IN_PROGRESS" /\ from = "BOARDING" -> <<"DEPART">>
      [] target = "COMPLETED" /\ from = "IN_PROGRESS" -> <<"END_TRIP">>
      [] OTHER -> <<>>

\* Slip: any manifest will do.
DriverUnsigned(w, target) ==
    /\ pc[w] = "idle" /\ row[Trip].ver < MaxVersion
    /\ Plan(row[Trip].status, target) # <<>>
    /\ target = "IN_PROGRESS" => row[Manifest].status # "absent"
    /\ Snapshot(w, Trip, Plan(row[Trip].status, target), "driver")
    /\ UNCHANGED <<row, ticket, count, leftBy>>

\* transitionTripStatus: the driver's button; departing needs a signed manifest.
Driver(w, target) ==
    /\ pc[w] = "idle" /\ row[Trip].ver < MaxVersion
    /\ Plan(row[Trip].status, target) # <<>>
    /\ target = "IN_PROGRESS" => row[Manifest].status = "SIGNED"
    /\ Snapshot(w, Trip, Plan(row[Trip].status, target), "driver")
    /\ UNCHANGED <<row, ticket, count, leftBy>>

\* Slip: the version is not compared with the snapshot's.
CurrentAlways(j) == TRUE

\* Row lock and version check of the engine.
Current(j) == row[j.ent].ver = j.ver

\* The transaction of the engine for the first action of the plan.  The caller goes on
\* with the row it gets back; generate reads the manifest again before it submits.
Commit(w) ==
    /\ pc[w] = "tx"
    /\ LET j == job[w] IN
         /\ Current(j)
         /\ \E x \in Edges :
              /\ x[1] = j.was /\ x[2] = Head(j.plan)
              /\ row' = [row EXCEPT ![j.ent] = [status |-> x[3], ver |-> @.ver + 1]]
              /\ leftBy' = IF x[2] = "DEPART" THEN j.by ELSE leftBy
              /\ \/ /\ Tail(j.plan) # <<>>
                    /\ Goto(w, "tx", [j EXCEPT !.was = x[3], !.ver = @ + 1, !.plan = Tail(@)])
                 \/ /\ j.plan = <<"revise">> /\ j.by = "generate"
                    /\ Goto(w, "submit", NoJob)
                 \/ /\ Tail(j.plan) = <<>> /\ ~(j.plan = <<"revise">> /\ j.by = "generate")
                    /\ Finish(w)
    /\ UNCHANGED <<ticket, count>>

-----------------------------------------------------------------------------
(* Passengers *)

\* Slip: the traveler is created with the action for its state.
EnsureTravelerVerb(w, t, a) ==
    /\ pc[w] = "idle" /\ row[t].status = "absent"
    /\ row' = [row EXCEPT ![t] = [status |-> a, ver |-> 1]]
    /\ Goto(w, "scan", [NoJob EXCEPT !.ent = t, !.plan = <<a>>])
    /\ UNCHANGED <<ticket, count, leftBy>>

\* checkInPassenger and boardPassenger: ensureTraveler creates the missing traveler in
\* the state the action leaves from (ticketId is unique: one of two creators fails).
EnsureTraveler(w, t, a) ==
    /\ pc[w] = "idle"
    /\ IF row[t].status # "absent" THEN UNCHANGED row
       ELSE /\ ticket[t] # "CANCELLED"
            /\ row' = [row EXCEPT ![t] =
                 [status |-> CHOOSE s \in Statuses : Has(s, a), ver |-> 1]]
    /\ Goto(w, "scan", [NoJob EXCEPT !.ent = t, !.plan = <<a>>])
    /\ UNCHANGED <<ticket, count, leftBy>>

\* scanIn wants a confirmed ticket, scanBoard a trip that is boarding.
Scan(w) ==
    /\ pc[w] = "scan"
    /\ LET t == job[w].ent
           a == job[w].plan[1] IN
         /\ a = "SCAN_IN" => ticket[t] = "CONFIRMED"
         /\ a = "SCAN_BOARD" => row[Trip].status = "BOARDING"
         /\ Has(row[t].status, a) /\ row[t].ver < MaxVersion
         /\ Snapshot(w, t, <<a>>, "scan")
    /\ UNCHANGED <<row, ticket, count, leftBy>>

\* TicketingService.cancel (AfterSales has its steps).
CancelTicket(t) ==
    /\ ticket[t] = "CONFIRMED"
    /\ ticket' = [ticket EXCEPT ![t] = "CANCELLED"]
    /\ UNCHANGED <<row, count, pc, job, leftBy>>

-----------------------------------------------------------------------------
(* The manifest *)

\* generate reads the trip with its travelers.
Generate(w) ==
    /\ pc[w] = "idle"
    /\ Goto(w, "find", [NoJob EXCEPT !.count = Cardinality({t \in Tickets : row[t].status # "absent"})])
    /\ UNCHANGED <<row, ticket, count, leftBy>>

\* It creates the draft (one per trip: the second of two creators fails), recounts a
\* draft or a rejected one, and returns any other as it is.
FindManifest(w) ==
    /\ pc[w] = "find"
    /\ CASE row[Manifest].status = "absent" ->
              /\ row' = [row EXCEPT ![Manifest] = [status |-> "DRAFT", ver |-> 1]]
              /\ count' = job[w].count
              /\ Goto(w, "submit", NoJob)
         [] row[Manifest].status \in {"DRAFT", "REJECTED"} ->
              Goto(w, "recount", job[w]) /\ UNCHANGED <<row, count>>
         [] OTHER -> Finish(w) /\ UNCHANGED <<row, count>>
    /\ UNCHANGED <<ticket, leftBy>>

\* The update of the counters names the row only, and returns it as it is by now.
Recount(w) ==
    /\ pc[w] = "recount"
    /\ count' = job[w].count
    /\ IF row[Manifest].status = "REJECTED" THEN Snapshot(w, Manifest, <<"revise">>, "generate")
       ELSE Goto(w, "submit", NoJob)
    /\ UNCHANGED <<row, ticket, leftBy>>

\* The code reads again only after a revise, and otherwise submits the row it has just
\* written; reading again each time allows that and, beside it, later snapshots.
Submit(w) ==
    /\ pc[w] = "submit"
    /\ IF row[Manifest].status = "DRAFT" /\ row[Manifest].ver < MaxVersion
       THEN Snapshot(w, Manifest, <<"submit">>, "generate") ELSE Finish(w)
    /\ UNCHANGED <<row, ticket, count, leftBy>>

\* sign and reject a submitted manifest, archive a signed one; sign on a signed or
\* archived one only prints its PDF.
Decide(w, a) ==
    /\ pc[w] = "idle" /\ row[Manifest].ver < MaxVersion
    /\ a \in {"sign", "reject", "archive"} /\ Has(row[Manifest].status, a)
    /\ Snapshot(w, Manifest, <<a>>, "manifest")
    /\ UNCHANGED <<row, ticket, count, leftBy>>

-----------------------------------------------------------------------------
\* A request ends at any await: refused, in conflict, timed out, or its pod died.
Fail(w) ==
    /\ pc[w] # "idle"
    /\ Finish(w)
    /\ UNCHANGED <<row, ticket, count, leftBy>>

\* What one request does, from one await to the next.
Request(w) ==
    \/ \E e \in Entities, a \in {x[2] : x \in Edges} : Dispatch(w, e, a)
    \/ \E target \in {"BOARDING", "IN_PROGRESS", "COMPLETED"} : Driver(w, target)
    \/ \E t \in Tickets, a \in {"SCAN_IN", "SCAN_BOARD"} : EnsureTraveler(w, t, a)
    \/ \E a \in {"sign", "reject", "archive"} : Decide(w, a)
    \/ Commit(w) \/ Scan(w) \/ Generate(w) \/ FindManifest(w) \/ Recount(w) \/ Submit(w)
    \/ Fail(w)

Next ==
    \/ \E w \in Workers : Request(w)
    \/ \E t \in Tickets : CancelTicket(t)

Spec == Init /\ [][Next]_vars

-----------------------------------------------------------------------------
\* Type correctness of the tables and of the requests in flight.
TypeOK ==
    /\ row \in [Entities -> [status : Statuses, ver : Nat]]
    /\ ticket \in [Tickets -> {"CONFIRMED", "CANCELLED"}]
    /\ count \in 0 .. Cardinality(Tickets)
    /\ pc \in [Workers -> {"idle", "tx", "scan", "find", "recount", "submit"}]
    /\ leftBy \in {None, "driver", "dispatch"}

\* When the driver made the trip depart, its manifest is signed, or archived since:
\* the check is made before the transition, against a manifest others may sign,
\* reject, revise and generate again meanwhile (transitionTripStatus).
DriverDepartsSigned == leftBy = "driver" => row[Manifest].status \in {"SIGNED", "ARCHIVED"}

\* Whatever interleaves, a status only ever changes along an edge of the blueprint from
\* the status the row really had: a scan does not put a boarded passenger back at the
\* check-in, a late submit does not reopen a signed manifest.
BlueprintRespected ==
    [][\A e \in Entities :
         row'[e].status # row[e].status /\ row[e].status # "absent" =>
             \E x \in Edges : x[1] = row[e].status /\ x[3] = row'[e].status]_vars

-----------------------------------------------------------------------------
(* What makes DriverDepartsSigned and BlueprintRespected inductive. *)

Plans == {<<x[2]>> : x \in Edges} \cup {<<"START_BOARDING", "BEGIN_BOARDING">>}

Jobs == [ent : Entities \cup {None}, was : Statuses \cup {None}, ver : Nat,
         plan : Plans \cup {<<>>}, count : 0 .. Cardinality(Tickets),
         by : {"driver", "dispatch", "scan", "manifest", "generate", None}]

Signed == row[Manifest].status \in {"SIGNED", "ARCHIVED"}

\* Before its transaction a request holds a snapshot that is not ahead of the row and
\* that is the row if their versions agree; a driver who is about to depart has found
\* the manifest signed.
InFlight(w) ==
    /\ pc[w] = "scan" => job[w].ent \in Tickets /\ job[w].plan \in {<<"SCAN_IN">>, <<"SCAN_BOARD">>}
    /\ pc[w] = "tx" =>
         LET j == job[w] IN
         /\ j.ent \in Entities /\ j.plan \in Plans
         /\ j.ver <= row[j.ent].ver
         /\ j.ver = row[j.ent].ver => j.was = row[j.ent].status
         /\ j.plan = <<"DEPART">> => j.by = "dispatch" \/ (j.by = "driver" /\ Signed)

IInv ==
    /\ TypeOK
    /\ job \in [Workers -> Jobs]
    /\ \A w \in Workers : InFlight(w)
    /\ \A e \in Entities : row[e].status = "absent" => row[e].ver = 0
    /\ DriverDepartsSigned
=============================================================================
