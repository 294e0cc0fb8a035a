------------------------------ MODULE Freight -------------------------------
(***************************************************************************)
(* Parcels and shipments of one trip: shipments are opened within what the *)
(* bus can carry, parcels are grouped into them, loaded and closed by      *)
(* agents who work at the same time, while the freight of the trip may be  *)
(* closed by the driver.                                                   *)
(*                                                                         *)
(* Parcels and shipments are workflow entities: a transition is applied to *)
(* the snapshot read before, if it is still the current version.  The trip *)
(* keeps its bus: TripService.update, which may give a planned or open     *)
(* trip another one without a look at its shipments, is left out.          *)
(***************************************************************************)
EXTENDS Integers, FiniteSets

CONSTANTS
    Parcels, Shipments,
    Weight,        \* [Parcels -> Nat]: Parcel.weight
    SameDest,      \* subset of Parcels \X Shipments: equal destinationId
    MaxWeights,    \* values of maxWeightKg an agent may ask for
    BusCapacity,   \* Bus.luggageCapacityKg, 0 when unknown
    Agents,        \* requests that may run at once
    MaxMoves,      \* bound on the transitions of a parcel and of a shipment
    Nothing

ASSUME FreightAssumption ==
    /\ Weight \in [Parcels -> Nat]
    /\ SameDest \subseteq Parcels \X Shipments
    /\ MaxWeights \subseteq Nat /\ BusCapacity \in Nat /\ MaxMoves \in Nat
    /\ Nothing \notin Shipments /\ Parcels \cap Shipments = {}
    /\ IsFiniteSet(Parcels) /\ IsFiniteSet(Shipments)

VARIABLES
    parcel,         \* parcel[p]: status, version and shipment
    shipment,       \* shipment[s]: status, version, totalWeight and remainingWeight
    freightClosed,  \* Trip.freightClosedAt is set
    agentPc, agentJob  \* requests: step, and what they carry from await to await

freightVars == <<parcel, shipment, freightClosed, agentPc, agentJob>>

\* WorkflowConfig rows <<from, action, to>> of a parcel.
ParcelEdges == {
    <<"CREATED", "RECEIVE", "AT_ORIGIN">>, <<"AT_ORIGIN", "ADD_TO_SHIPMENT", "PACKED">>,
    <<"PACKED", "LOAD", "LOADED">>, <<"LOADED", "DEPART", "IN_TRANSIT">>,
    <<"IN_TRANSIT", "ARRIVE", "ARRIVED">>, <<"ARRIVED", "DELIVER", "DELIVERED">>,
    <<"IN_TRANSIT", "DAMAGE", "DAMAGED">>, <<"IN_TRANSIT", "DECLARE_LOST", "LOST">>,
    <<"ARRIVED", "RETURN", "RETURNED">>}

\* The rows of the hub, pickup, dispute and return scenarios.
HubEdges == {
    <<"IN_TRANSIT", "ARRIVE_AT_HUB", "AT_HUB_INBOUND">>,
    <<"AT_HUB_INBOUND", "STORE_AT_HUB", "STORED_AT_HUB">>,
    <<"AT_HUB_INBOUND", "LOAD_OUTBOUND", "AT_HUB_OUTBOUND">>,
    <<"STORED_AT_HUB", "LOAD_OUTBOUND", "AT_HUB_OUTBOUND">>,
    <<"AT_HUB_OUTBOUND", "DEPART_FROM_HUB", "IN_TRANSIT">>,
    <<"ARRIVED", "NOTIFY_FOR_PICKUP", "AVAILABLE_FOR_PICKUP">>,
    <<"AVAILABLE_FOR_PICKUP", "PICKUP", "DELIVERED">>,
    <<"DELIVERED", "DISPUTE", "DISPUTED">>, <<"AVAILABLE_FOR_PICKUP", "DISPUTE", "DISPUTED">>,
    <<"AVAILABLE_FOR_PICKUP", "INITIATE_RETURN", "RETURN_TO_SENDER">>,
    <<"STORED_AT_HUB", "INITIATE_RETURN", "RETURN_TO_SENDER">>,
    <<"RETURN_TO_SENDER", "COMPLETE_RETURN", "RETURNED">>}

\* WorkflowConfig rows of a shipment.
ShipmentEdges == {
    <<"OPEN", "LOAD", "LOADED">>, <<"LOADED", "DEPART", "IN_TRANSIT">>,
    <<"IN_TRANSIT", "ARRIVE", "ARRIVED">>, <<"ARRIVED", "CLOSE", "CLOSED">>}

States(E) == {x[1] : x \in E} \cup {x[3] : x \in E}

\* Slip: the verb is stored for the state.
TargetsVerb(E, s, a) == {x[2] : x \in {y \in E : y[1] = s /\ y[2] = a}}

\* The states action a leads to from state s.
Targets(E, s, a) == {x[3] : x \in {y \in E : y[1] = s /\ y[2] = a}}
PEdges == ParcelEdges \cup HubEdges

\* What a request carries.
Verbs(E) == {x[2] : x \in E}
Tasks == [do : Verbs(PEdges \cup ShipmentEdges) \cup {Nothing},
          ent : Parcels \cup Shipments \cup {Nothing},
          was : States(PEdges \cup ShipmentEdges) \cup {Nothing},
          ver : Nat, into : Shipments \cup {Nothing}]

NoTask == [do |-> Nothing, ent |-> Nothing, was |-> Nothing, ver |-> 0, into |-> Nothing]

Proceed(w, step, j) == /\ agentPc' = [agentPc EXCEPT ![w] = step]
                       /\ agentJob' = [agentJob EXCEPT ![w] = j]
EndTask(w) == Proceed(w, "idle", NoTask)

Contents(s) == {p \in Parcels : parcel[p].shipment = s}

\* The sum of f over S: one element for each kilogram.
TotalOf(f, S) == Cardinality(UNION {{x} \X (1..f[x]) : x \in S})

Kg(S) == TotalOf(Weight, S)
Promised == [s \in Shipments |-> shipment[s].total]
Committed == {s \in Shipments : shipment[s].status \in {"OPEN", "LOADED", "IN_TRANSIT"}}
CommittedKg == TotalOf(Promised, Committed)

\* Parcels are registered at the counter, some of them already received.
FreightInit ==
    /\ parcel \in [Parcels -> [status : {"CREATED", "AT_ORIGIN"}, ver : {0}, shipment : {Nothing}]]
    /\ shipment = [s \in Shipments |-> [status |-> "absent", ver |-> 0, total |-> 0, remaining |-> 0]]
    /\ freightClosed = FALSE
    /\ agentPc = [w \in Agents |-> "idle"]
    /\ agentJob = [w \in Agents |-> NoTask]

-----------------------------------------------------------------------------
(* Shipments *)

\* Slip: only the shipments that are still open count.
CreateShipmentOpenOnly(s, kg) ==
    /\ shipment[s].status = "absent"
    /\ BusCapacity > 0 =>
         TotalOf(Promised, {u \in Shipments : shipment[u].status = "OPEN"}) + kg <= BusCapacity
    /\ shipment' = [shipment EXCEPT ![s] =
                      [status |-> "OPEN", ver |-> 1, total |-> kg, remaining |-> kg]]
    /\ UNCHANGED <<parcel, freightClosed, agentPc, agentJob>>

\* create: one transaction that holds the row of the trip.
CreateShipment(s, kg) ==
    /\ shipment[s].status = "absent"
    /\ BusCapacity > 0 => CommittedKg + kg <= BusCapacity
    /\ shipment' = [shipment EXCEPT ![s] =
                      [status |-> "OPEN", ver |-> 1, total |-> kg, remaining |-> kg]]
    /\ UNCHANGED <<parcel, freightClosed, agentPc, agentJob>>

\* addParcel reads both rows and checks destination, weight and status.
AddParcel(w, p, s) ==
    /\ agentPc[w] = "idle" /\ parcel[p].ver < MaxMoves
    /\ <<p, s>> \in SameDest
    /\ shipment[s].remaining >= Weight[p]
    /\ shipment[s].status = "OPEN"
    /\ Targets(PEdges, parcel[p].status, "ADD_TO_SHIPMENT") # {}
    /\ Proceed(w, "add", [do |-> "ADD_TO_SHIPMENT", ent |-> p, was |-> parcel[p].status,
                          ver |-> parcel[p].ver, into |-> s])
    /\ UNCHANGED <<parcel, shipment, freightClosed>>

\* Slip: the version is not compared with the snapshot's.
AnyVersion(row, j) == TRUE

\* Row lock and version check of the engine.
SameVersion(row, j) == row.ver = j.ver

\* The transaction: the weight is taken off as it is now, the shipment's status and
\* version play no part.
CommitAdd(w) ==
    /\ agentPc[w] = "add"
    /\ LET j == agentJob[w] IN
         /\ SameVersion(parcel[j.ent], j)
         /\ shipment' = [shipment EXCEPT ![j.into].remaining = @ - Weight[j.ent]]
         /\ \E to \in Targets(PEdges, j.was, j.do) :
              parcel' = [parcel EXCEPT ![j.ent] =
                           [status |-> to, ver |-> @.ver + 1, shipment |-> j.into]]
    /\ EndTask(w)
    /\ UNCHANGED freightClosed

Cleared == {"LOADED", "IN_TRANSIT", "ARRIVED", "DELIVERED"}

\* closeShipment reads the shipment with its parcels, which must be loaded; the
\* dispatcher moves a shipment along any of its rows without a look at the parcels.
MoveShipment(w, s, a, by) ==
    /\ agentPc[w] = "idle" /\ shipment[s].status # "absent" /\ shipment[s].ver <= MaxMoves
    /\ Targets(ShipmentEdges, shipment[s].status, a) # {}
    /\ by = "service" => /\ a = "LOAD"
                         /\ \A p \in Contents(s) : parcel[p].status \in Cleared
    /\ Proceed(w, "ship", [NoTask EXCEPT !.do = a, !.ent = s, !.was = shipment[s].status,
                                        !.ver = shipment[s].ver])
    /\ UNCHANGED <<parcel, shipment, freightClosed>>

CommitShipment(w) ==
    /\ agentPc[w] = "ship"
    /\ LET j == agentJob[w] IN
         /\ SameVersion(shipment[j.ent], j)
         /\ \E to \in Targets(ShipmentEdges, j.was, j.do) :
              shipment' = [shipment EXCEPT ![j.ent].status = to, ![j.ent].ver = @ + 1]
    /\ EndTask(w)
    /\ UNCHANGED <<parcel, freightClosed>>

-----------------------------------------------------------------------------
(* Parcels *)

\* ParcelService refuses LOAD when the freight of the trip is closed; the dispatcher
\* does not ask.
MoveParcel(w, p, a, by) ==
    /\ agentPc[w] = "idle" /\ parcel[p].ver < MaxMoves
    /\ Targets(PEdges, parcel[p].status, a) # {}
    /\ by = "service" /\ a = "LOAD" /\ parcel[p].shipment # Nothing => ~freightClosed
    /\ Proceed(w, "move", [NoTask EXCEPT !.do = a, !.ent = p, !.was = parcel[p].status,
                                        !.ver = parcel[p].ver])
    /\ UNCHANGED <<parcel, shipment, freightClosed>>

CommitParcel(w) ==
    /\ agentPc[w] = "move"
    /\ LET j == agentJob[w] IN
         /\ SameVersion(parcel[j.ent], j)
         /\ \E to \in Targets(PEdges, j.was, j.do) :
              parcel' = [parcel EXCEPT ![j.ent].status = to, ![j.ent].ver = @ + 1]
    /\ EndTask(w)
    /\ UNCHANGED <<shipment, freightClosed>>

\* closeFreight: a second call changes nothing.
CloseFreight ==
    /\ ~freightClosed
    /\ freightClosed' = TRUE
    /\ UNCHANGED <<parcel, shipment, agentPc, agentJob>>

\* A request ends at any await: refused, in conflict, timed out, or its pod died.
EndEarly(w) ==
    /\ agentPc[w] # "idle"
    /\ EndTask(w)
    /\ UNCHANGED <<parcel, shipment, freightClosed>>

FreightNext ==
    \/ \E s \in Shipments, kg \in MaxWeights : CreateShipment(s, kg)
    \/ \E w \in Agents :
         \/ \E p \in Parcels, s \in Shipments : AddParcel(w, p, s)
         \/ \E p \in Parcels, a \in Verbs(PEdges), by \in {"service", "dispatch"} :
              MoveParcel(w, p, a, by)
         \/ \E s \in Shipments, a \in Verbs(ShipmentEdges), by \in {"service", "dispatch"} :
              MoveShipment(w, s, a, by)
         \/ CommitAdd(w) \/ CommitShipment(w) \/ CommitParcel(w) \/ EndEarly(w)
    \/ CloseFreight

FreightSpec == FreightInit /\ [][FreightNext]_freightVars

-----------------------------------------------------------------------------
\* Type correctness of the tables and of the requests in flight.
FreightTypeOK ==
    /\ parcel \in [Parcels -> [status : States(PEdges), ver : Nat, shipment : Shipments \cup {Nothing}]]
    /\ shipment \in [Shipments -> [status : States(ShipmentEdges) \cup {"absent"}, ver : Nat,
                                   total : Nat, remaining : Int]]
    /\ freightClosed \in BOOLEAN
    /\ agentPc \in [Agents -> {"idle", "add", "ship", "move"}]
    /\ agentJob \in [Agents -> Tasks]

\* The remaining weight of a shipment is its total less the weight of the parcels in
\* it, also when two agents group the same parcel, or fill one shipment, at the same
\* moment, or a request dies (addParcel: the decrement is in the parcel's transaction).
WeightConserved ==
    \A s \in Shipments : shipment[s].remaining = shipment[s].total - Kg(Contents(s))

\* The shipments of the trip that are open, loaded or under way never promise more
\* than the bus can carry (ShipmentService.create, fix R4).
CapacityRespected == BusCapacity > 0 => CommittedKg <= BusCapacity

Follows(E, was, is) ==
    /\ is.ver = was.ver + 1
    /\ \E x \in E : x[1] = was.status /\ x[3] = is.status

ParcelMoves(p) ==
    parcel'[p] # parcel[p] => /\ Follows(PEdges, parcel[p], parcel'[p])
                              /\ parcel[p].shipment \in {Nothing, parcel'[p].shipment}

ShipmentMoves(s) ==
    shipment'[s].status # shipment[s].status =>
        \/ Follows(ShipmentEdges, shipment[s], shipment'[s])
        \/ shipment[s].status = "absent" /\ shipment'[s].status = "OPEN"

FreightMoves == (\A p \in Parcels : ParcelMoves(p)) /\ \A s \in Shipments : ShipmentMoves(s)

\* Whatever agents read before, parcels and shipments change by one transition of the
\* blueprint per version, from the status they really have, and a parcel that is in a
\* shipment is not grouped again.
FreightBlueprint == [][FreightMoves]_freightVars

-----------------------------------------------------------------------------
(* What makes WeightConserved and CapacityRespected inductive. *)

\* A snapshot is never ahead of its row, and shows its status if the versions agree.
ShowsRow(j, r) == j.ver <= r.ver /\ (j.ver = r.ver => j.was = r.status)

\* What a request knows about its rows still holds when it commits; a shipment once
\* opened does not vanish.
InHand(w) ==
    LET j == agentJob[w] IN
      /\ agentPc[w] \in {"add", "move"} => j.ent \in Parcels /\ ShowsRow(j, parcel[j.ent])
      /\ agentPc[w] = "add" => /\ j.do = "ADD_TO_SHIPMENT"
                               /\ j.into \in Shipments /\ shipment[j.into].status # "absent"
      /\ agentPc[w] = "ship" => /\ j.ent \in Shipments /\ shipment[j.ent].status # "absent"
                                /\ ShowsRow(j, shipment[j.ent])

\* A parcel is grouped after its reception, once, and into a shipment that exists: the
\* state it was grouped from is never reached again.
GroupedOnce ==
    \A p \in Parcels :
        parcel[p].shipment # Nothing =>
            /\ parcel[p].status \notin {"CREATED", "AT_ORIGIN"}
            /\ shipment[parcel[p].shipment].status # "absent"

FreightInv == /\ FreightTypeOK /\ (\A w \in Agents : InHand(w)) /\ GroupedOnce
              /\ WeightConserved /\ CapacityRespected
=============================================================================
